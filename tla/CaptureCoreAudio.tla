---------------------------- MODULE CaptureCoreAudio ----------------------------
(***************************************************************************)
(* The capture thread of the CoreAudio backend                             *)
(* (coreaudio_backend/device.rs).  Its callback never blocks: it pushes to *)
(* a ring buffer and signals a semaphore.  The thread waits for a chunk at *)
(* most 50 times 20 ms, then it declares the device stalled and pauses.    *)
(* Listeners tell of a changed rate and of a device that has disappeared.  *)
(***************************************************************************)
EXTENDS CaptureState

\* open_coreaudio_capture, then the input callback.
Open ==
  \/ OpenFails(FALSE)
  \/ OpenFails(TRUE)
  \/ OpenSucceeds("barrier", "running")

\* audio_unit.start() comes after the barrier.  The published state stays as the
\* supervisor has set it when it fails.
Begin ==
  \/ Started(inner)
  \/ /\ pc = "start" /\ "start" \in Faults
     /\ Go("done")
     /\ Send("EndOfStream", TRUE) /\ Report("Error")
     /\ UNCHANGED <<backend, device, buffer, control, view, data>>

Exit == ExitReceived /\ Finish("Done")

RateEvent == NoCommand /\ event = "rate" /\ Finish("FormatChange")

\* Mutant of NotAlive: the thread ends without a word.
NotAliveUnreported ==
  /\ NoCommand /\ event = "gone"
  /\ Go("close")
  /\ UNCHANGED <<backend, device, buffer, control, output, view, data>>

\* No EndOfStream: the closed channel ends the processing thread.
NotAlive ==
  /\ NoCommand /\ event = "gone"
  /\ Go("close")
  /\ Report("Error")
  /\ UNCHANGED <<backend, device, buffer, control, queued, last, view, data>>

\* The wait ends with a chunk, or without one after 50 tries.  The messages of
\* the callback are only counted, and left out.
MakeChunk ==
  /\ NoCommand /\ event = "none" /\ HasChunk
  /\ PopSlice /\ JudgeChunk
  /\ Go("send")
  /\ UNCHANGED <<backend, device, notes, control, output, saved, newest, stale>>

NoData ==
  /\ NoCommand /\ event = "none" /\ ~HasChunk
  /\ published' \in {published, "Stalled"}   \* a reader may hold the lock
  /\ Send("Pause", TRUE)
  /\ Go(IF processing THEN "loop" ELSE "close")
  /\ UNCHANGED <<backend, device, buffer, control, told, state, saved, data>>

RateChanged == RateIsOff /\ Finish("FormatChange")

\* Mutant of End: the thread returns as it is.
EndAsItIs ==
  /\ pc = "close"
  /\ Go("done")
  /\ UNCHANGED <<backend, device, buffer, control, output, view, data>>

End == pc = "close" /\ BecomeInactive("done")

Step ==
  \/ Open \/ Begin \/ Exit \/ CommandsClosed \/ RateEvent \/ NotAlive
  \/ MakeChunk \/ NoData \/ RateChanged \/ SendChunk \/ End

Callback == inner = "running" /\ pc \in Working /\ event # "gone" /\ Record /\ UNCHANGED notes

\* The listeners of the device.
Listener ==
  /\ pc \in Waiting \cup Working /\ inner = "running" /\ event = "none"
  /\ event' \in Faults \cap {"rate", "gone"}
  /\ UNCHANGED <<backend, pc, inner, produced, buffer, control, output, view, data>>

InnerStep == Callback \/ Listener
=============================================================================
