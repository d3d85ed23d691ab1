------------------------------ MODULE CapturePulse ------------------------------
(***************************************************************************)
(* The capture thread of the PulseAudio backend (pulse_backend/device.rs). *)
(* It reads whole chunks with a blocking call.  A read that fails is       *)
(* reported, and what the buffer held before is sent again.  There is no   *)
(* rate watcher.                                                           *)
(***************************************************************************)
EXTENDS CaptureState

Open == OpenFails(FALSE) \/ OpenSucceeds("barrier", "running")

Begin == Started(inner)

Exit == ExitReceived /\ FinishOrPanic("Done")

\* read() of capture_bytes: it blocks until the server has a chunk.
LookForChunk ==
  /\ NoCommand
  /\ Go("fill")
  /\ UNCHANGED <<backend, device, buffer, control, output, view, data>>

Read ==
  /\ pc = "fill" /\ HasChunk
  /\ PopSlice /\ JudgeChunk
  /\ Go("send")
  /\ UNCHANGED <<backend, device, notes, control, output, saved, newest, stale>>

\* An error does not touch the buffer or the published state.
ReadFails ==
  /\ pc = "fill" /\ event = "gone"
  /\ event' \in {"none", "gone"}
  /\ IF supervisor THEN /\ Report("Error") /\ Go("send")
                        /\ state' \in {"Running", "Paused"}
                   ELSE Go("panicked") /\ UNCHANGED <<told, state>>
  /\ UNCHANGED <<backend, inner, produced, buffer, control, queued, last, saved, published, data>>

End == pc = "close" /\ BecomeInactive("done")

Step ==
  \/ Open \/ Begin \/ Exit \/ CommandsClosed
  \/ LookForChunk \/ Read \/ ReadFails \/ SendChunk \/ End

\* The server records: it is the ring here, and drops what does not fit.
Recording == inner = "running" /\ pc \in Working
Callback == Recording /\ Record /\ UNCHANGED notes

\* The next read will fail.
ServerFails ==
  /\ Recording /\ event = "none" /\ "read" \in Faults
  /\ event' = "gone"
  /\ UNCHANGED <<backend, pc, inner, produced, buffer, control, output, view, data>>

InnerStep == Callback \/ ServerFails

Starved == pc = "fill" /\ ~HasChunk /\ event = "none"
=============================================================================
