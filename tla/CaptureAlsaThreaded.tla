--------------------------- MODULE CaptureAlsaThreaded ---------------------------
(***************************************************************************)
(* The two capture threads of the ALSA backend when it is built with       *)
(* threaded-alsa (alsa_backend/threaded_device.rs).  The inner thread      *)
(* reads the device and tells the outer one of every packet; an Exit is    *)
(* passed on to it, and it is the inner thread that reports the end.       *)
(***************************************************************************)
EXTENDS CaptureState

\* The inner thread opens the device, the outer one waits for its answer.
Open == OpenFails(FALSE) \/ OpenSucceeds("barrier", "none")

Begin == Started("running")

\* An Exit, or a closed channel, is passed on to the inner thread.
Command ==
  /\ pc = "loop"
  /\ LET exit == command = "Exit" \/ ~supervisor
     IN  inner' = IF exit /\ inner = "running" THEN "asked" ELSE inner
  /\ command' = IF command = "Exit" THEN "taken" ELSE command
  /\ Go(IF HasChunk THEN "drain" ELSE "fill")
  /\ UNCHANGED <<backend, event, produced, buffer, supervisor, processing, output,
                 view, data>>

\* A message of 0 bytes starts a stall, one with data ends it.
ReadNote ==
  /\ pc = "fill" /\ notes # <<>> /\ Head(notes) # EndNote
  /\ notes' = Tail(notes)
  /\ IF Head(notes) = 0
     THEN /\ saved' = IF state = "Stalled" THEN saved ELSE state
          /\ state' = "Stalled"
          /\ Go("drain")
     ELSE /\ state' = IF state = "Stalled" THEN saved ELSE state
          /\ UNCHANGED saved
          /\ Go(IF HasChunk THEN "drain" ELSE "fill")
  /\ UNCHANGED <<backend, device, ring, control, output, published, data>>

ReadEnd ==
  /\ pc = "fill" /\ notes # <<>> /\ Head(notes) = EndNote
  /\ notes' = Tail(notes)
  /\ Go("close")
  /\ Send("EndOfStream", TRUE)
  /\ UNCHANGED <<backend, device, ring, control, told, view, data>>

NotesClosed ==
  /\ pc = "fill" /\ notes = <<>> /\ inner = "over"
  /\ Finish("Error")

\* The messages that are left are dropped, whatever they say: the loop ends with
\* the first one that is no data, and drops it too.
Drain ==
  /\ pc = "drain"
  /\ notes' = <<>>
  /\ Go(IF state = "Stalled" THEN "pause" ELSE "pop")
  /\ UNCHANGED <<backend, device, ring, control, output, view, data>>

Pause ==
  /\ pc = "pause"
  /\ TrySend("Pause", TRUE)
  /\ Go(IF processing THEN "loop" ELSE "close")
  /\ UNCHANGED <<backend, device, buffer, control, told, view, data>>

MakeChunk ==
  /\ pc = "pop"
  /\ PopSlice /\ JudgeChunk
  /\ Go("send")
  /\ UNCHANGED <<backend, device, notes, control, output, saved, newest, stale>>

\* send_capture_audio drops what does not fit.
Deliver ==
  /\ pc = "send"
  /\ TrySend(IF state = "Running" THEN "Audio" ELSE "Pause", TRUE)
  /\ IF queued' > queued /\ state = "Running" THEN Remember ELSE UNCHANGED data
  /\ Go(IF processing THEN "loop" ELSE "close")
  /\ UNCHANGED <<backend, device, buffer, control, told, view>>

RateChanged == RateIsOff /\ Finish("FormatChange")

\* The outer loop has ended.  It does not tell the inner thread, whose command
\* channel stays open, and joins it.
End ==
  \/ pc = "close" /\ BecomeInactive("join")
  \/ /\ pc = "join" /\ inner = "over"
     /\ Go("done")
     /\ UNCHANGED <<backend, device, buffer, control, output, view, data>>

Step ==
  \/ Open \/ Begin \/ Command \/ ReadNote \/ ReadEnd \/ NotesClosed \/ Drain \/ Pause
  \/ MakeChunk \/ Deliver \/ RateChanged \/ End

\* What the inner thread has read is pushed.
Reading == inner \in {"running", "asked"}
Read == Reading /\ RecordAndOffer

\* A timeout, or a read that was recovered from without any frames.
ReadNothing ==
  /\ Reading /\ Len(notes) < NoteCapacity
  /\ Offer(0)
  /\ UNCHANGED <<backend, pc, device, ring, control, output, view, data>>

\* The end is reported, then the outer thread told: that send waits for room.
InnerEnds ==
  /\ \/ inner = "asked" /\ Report("Done")
     \/ Reading /\ "read" \in Faults /\ Report("Error")
     \/ Reading /\ "gone" \in Faults /\ Report("Done")
     \/ Reading /\ "rate" \in Faults /\ told' = told \cup {"FormatChange", "Done"}
  /\ inner' = "blocked"
  /\ UNCHANGED <<backend, pc, event, produced, buffer, control, queued, last, view, data>>

TellEnd ==
  /\ inner = "blocked" /\ Len(notes) < NoteCapacity
  /\ Offer(EndNote)
  /\ inner' = "over" /\ published' = "Inactive"
  /\ UNCHANGED <<backend, pc, event, produced, ring, control, output, state, saved, data>>

InnerStep == Read \/ ReadNothing \/ InnerEnds \/ TellEnd

\* The outer thread waits for an inner one that nobody has told to end, or that
\* waits itself for room in the channel nobody reads.
JoinsForEver == pc = "join" /\ inner \in {"running", "blocked"}

\* A whole chunk was in the ring when the stall was noted, and the messages that
\* would end the stall were dropped: none is read any more, not even the last.
StallsForEver == state = "Stalled" /\ HasChunk
=============================================================================
