------------------------------ MODULE CaptureWasapi ------------------------------
(***************************************************************************)
(* The two capture threads of the WASAPI backend (wasapi_backend/device.rs) *)
(* The inner thread opens the device and reads it.  It tells the outer one *)
(* of every packet through a bounded channel, with 0 bytes when the device *)
(* has been silent for 250 ms, and of its end through a channel without a  *)
(* buffer: that send waits until the outer thread looks.                   *)
(***************************************************************************)
EXTENDS CaptureState

InnerFailed == inner \in {"blocked", "over"}

\* The inner thread opens the device; the outer one waits for its answer.
Open == OpenFails(TRUE) \/ OpenSucceeds("barrier", "none")

Begin == Started("running")

Exit == ExitReceived /\ Finish("Done")

\* send_error_or_captureformatchange: by the reason of the disconnection, if any.
FailureReport == IF event = "rate" THEN "FormatChange" ELSE "Error"

\* try_recv() of the state completes the send the inner thread waits in.
InnerHasFailed ==
  /\ NoCommand /\ InnerFailed
  /\ Go("close") /\ inner' = "over"
  /\ Send("EndOfStream", TRUE) /\ Report(FailureReport)
  /\ UNCHANGED <<backend, event, produced, buffer, control, view, data>>

LookForChunk ==
  /\ NoCommand /\ ~InnerFailed
  /\ Go(IF HasChunk THEN "drain" ELSE "fill")
  /\ UNCHANGED <<backend, device, buffer, control, output, view, data>>

\* A message of 0 bytes starts a stall, one with data ends it.
ReadNote ==
  /\ pc = "fill" /\ notes # <<>>
  /\ notes' = Tail(notes)
  /\ IF Head(notes) = 0
     THEN /\ saved' = IF state = "Stalled" THEN saved ELSE state
          /\ state' = "Stalled"
          /\ Go("drain")
     ELSE /\ state' = IF state = "Stalled" THEN saved ELSE state
          /\ UNCHANGED saved
          /\ Go(IF HasChunk THEN "drain" ELSE "fill")
  /\ UNCHANGED <<backend, device, ring, control, output, published, data>>

\* The channel is closed: the thread returns at once, as it is.
NotesClosed ==
  /\ pc = "fill" /\ notes = <<>> /\ InnerFailed
  /\ Go("done") /\ inner' = "over"
  /\ Send("EndOfStream", TRUE) /\ Report(FailureReport)
  /\ UNCHANGED <<backend, event, produced, buffer, control, view, data>>

\* Mutant of Drain: a chunk is made although the device has stalled.
DrainAndPop ==
  /\ pc = "drain"
  /\ notes' = <<>>
  /\ Go("pop")
  /\ UNCHANGED <<backend, device, ring, control, output, view, data>>

\* The messages that are left are dropped, whatever they say.
Drain ==
  /\ pc = "drain"
  /\ notes' = <<>>
  /\ Go(IF state = "Stalled" THEN "pause" ELSE "pop")
  /\ UNCHANGED <<backend, device, ring, control, output, view, data>>

MakeChunk ==
  /\ pc = "pop"
  /\ PopSlice /\ JudgeChunk
  /\ Go("send")
  /\ UNCHANGED <<backend, device, notes, control, output, saved, newest, stale>>

RateChanged == RateIsOff /\ Finish("FormatChange")

Pause ==
  /\ pc = "pause"
  /\ Send("Pause", TRUE)
  /\ Go(IF processing THEN "loop" ELSE "close")
  /\ UNCHANGED <<backend, device, buffer, control, told, view, data>>

\* stop_signal is set, the inner thread joined, and the state published.
StopInner ==
  /\ pc = "close"
  /\ Go("join")
  /\ inner' = IF inner = "running" THEN "asked" ELSE inner
  /\ UNCHANGED <<backend, event, produced, buffer, control, output, view, data>>
End == pc = "join" /\ inner = "over" /\ BecomeInactive("done")

Step ==
  \/ Open \/ Begin \/ Exit \/ CommandsClosed \/ InnerHasFailed \/ LookForChunk
  \/ ReadNote \/ NotesClosed \/ Drain \/ MakeChunk \/ RateChanged \/ SendChunk
  \/ Pause \/ StopInner \/ End

Deliver == inner = "running" /\ RecordAndOffer

\* Nothing from the device for 250 ms.
Timeout ==
  /\ inner = "running" /\ Len(notes) < NoteCapacity
  /\ notes' = Append(notes, 0)
  /\ UNCHANGED <<backend, pc, device, ring, control, output, view, data>>

\* The device is disconnected, for a change of its format or otherwise: a call
\* fails, and the thread waits in its send unless the outer one has returned.
InnerFails ==
  /\ inner \in {"running", "asked"}
  /\ \E fault \in {"rate", "gone"} \cap Faults : event' = fault
  /\ inner' = "blocked"
  /\ UNCHANGED <<backend, pc, produced, buffer, control, output, view, data>>

\* stop_signal is seen.
InnerStops ==
  /\ inner = "asked"
  /\ inner' = "over"
  /\ UNCHANGED <<backend, pc, event, produced, buffer, control, output, view, data>>

InnerStep == Deliver \/ Timeout \/ InnerFails

\* The inner thread failed when the outer one had already stopped looking: each
\* waits for the other.
JoinsForEver == pc = "join" /\ inner = "blocked"
=============================================================================
