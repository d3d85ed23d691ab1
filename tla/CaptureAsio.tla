------------------------------- MODULE CaptureAsio -------------------------------
(***************************************************************************)
(* The capture thread of the ASIO backend (asio_backend/device.rs), once   *)
(* the driver runs; the life of the driver is in Asio.  The thread waits   *)
(* for a chunk on the channel of the callback, 250 ms for each message:    *)
(* when none comes it goes on with what there is.                          *)
(***************************************************************************)
EXTENDS CaptureState

\* Every failure is reported with an EndOfStream first.
Open == OpenFails(TRUE) \/ OpenSucceeds("barrier", "running")

Begin == Started(inner)

\* The rate is looked at before the commands.
RateEvent == pc = "loop" /\ event = "rate" /\ Finish("FormatChange")
Exit == ExitReceived /\ event # "rate" /\ Finish("Done")
Disconnected == event # "rate" /\ CommandsClosed

LookForChunk ==
  /\ NoCommand /\ event # "rate"
  /\ Go("fill")
  /\ UNCHANGED <<backend, device, buffer, control, output, view, data>>

ReadNote ==
  /\ pc = "fill" /\ ~HasChunk /\ notes # <<>>
  /\ notes' = Tail(notes)
  /\ UNCHANGED <<backend, pc, device, ring, control, output, view, data>>

\* Mutant of MakeChunk: the thread waits for as long as it takes.
MakeChunkInTime ==
  /\ pc = "fill" /\ HasChunk
  /\ PopSlice /\ JudgeChunk
  /\ Go("send")
  /\ UNCHANGED <<backend, device, notes, control, output, saved, newest, stale>>

\* With a chunk in the ring, or without one when the wait has timed out.
MakeChunk ==
  /\ pc = "fill" /\ (HasChunk \/ notes = <<>>)
  /\ PopSlice /\ JudgeChunk
  /\ Go("send")
  /\ UNCHANGED <<backend, device, notes, control, output, saved, newest, stale>>

RateChanged == RateIsOff /\ Finish("FormatChange")

End == pc = "close" /\ BecomeInactive("done")

Step ==
  \/ Open \/ Begin \/ RateEvent \/ Exit \/ Disconnected
  \/ LookForChunk \/ ReadNote \/ MakeChunk \/ RateChanged \/ SendChunk \/ End

Callback == inner = "running" /\ pc \in Waiting \cup Working /\ RecordAndOffer

\* The driver's message callback.
MessageCallback ==
  /\ inner = "running" /\ pc \in Waiting \cup Working /\ event = "none"
  /\ "rate" \in Faults
  /\ event' = "rate"
  /\ UNCHANGED <<backend, pc, inner, produced, buffer, control, output, view, data>>

InnerStep == Callback \/ MessageCallback
=============================================================================
