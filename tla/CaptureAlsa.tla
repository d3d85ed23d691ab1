------------------------------- MODULE CaptureAlsa -------------------------------
(***************************************************************************)
(* The capture thread of the ALSA backend (alsa_backend/device.rs), the    *)
(* default build.  One thread polls the device and its controls, with a    *)
(* timeout of 8 chunks.  Here ring is the buffer of the driver.            *)
(***************************************************************************)
EXTENDS CaptureState

\* open_pcm
Open == OpenFails(FALSE) \/ OpenSucceeds("barrier", "running")

\* The controls of the device are looked up, then the loop begins.
Begin == Started(inner)

Exit == ExitReceived /\ Finish("Done")

\* capture_buffer reads a whole chunk.  The end of an update interval ends a stall.
\* What is published then is the state from before, and the next one is decided
\* with the stall over.
ReadChunk ==
  /\ NoCommand /\ HasChunk
  /\ PopSlice
  /\ \/ UNCHANGED published /\ state' \in IF state = "Stalled" THEN {"Stalled"}
                                          ELSE {"Running", "Paused"}
     \/ published' = state /\ state' \in {"Running", "Paused"}
  /\ Go("send")
  /\ UNCHANGED <<backend, device, notes, control, output, saved, newest, stale>>

\* The poll has timed out.  The first time the device is restarted, to drop the
\* samples it holds, and the stall is published.
DeviceStalls ==
  /\ NoCommand /\ ~HasChunk
  /\ ring' = IF state = "Stalled" THEN ring ELSE <<>>
  /\ published' = IF state = "Stalled" THEN published ELSE "Stalled"
  /\ state' = "Stalled"
  /\ Go("send")
  /\ UNCHANGED <<backend, device, notes, control, output, saved, data>>

\* process_events: an inactive source or another format is reported there.
SourceEnds ==
  /\ NoCommand
  /\ \/ "gone" \in Faults /\ Report("Done")
     \/ "rate" \in Faults /\ Report("FormatChange")
  /\ Send("EndOfStream", TRUE)
  /\ Go("done") /\ published' = "Inactive"
  /\ UNCHANGED <<backend, device, buffer, control, state, saved, data>>

\* The thread returns as it is: the state stays published.
ReadFails ==
  /\ NoCommand /\ "read" \in Faults
  /\ Report("Error")
  /\ Send("EndOfStream", TRUE)
  /\ Go("done")
  /\ UNCHANGED <<backend, device, buffer, control, view, data>>

RateChanged == RateIsOff /\ state # "Stalled" /\ Finish("FormatChange")

End == pc = "close" /\ BecomeInactive("done")

Step ==
  \/ Open \/ Begin \/ Exit \/ CommandsClosed \/ ReadChunk \/ DeviceStalls
  \/ SourceEnds \/ ReadFails \/ RateChanged \/ SendChunk \/ End

Callback == inner = "running" /\ pc \in Working /\ Record /\ UNCHANGED notes
=============================================================================
