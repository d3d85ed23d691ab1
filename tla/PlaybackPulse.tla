------------------------------ MODULE PlaybackPulse ------------------------------
(***************************************************************************)
(* The playback thread of the PulseAudio backend (pulse_backend/device.rs): *)
(* one thread and blocking writes.                                         *)
(***************************************************************************)
EXTENDS PlaybackState

Open == OpenFails \/ OpenSucceeds("running")

Begin == Started("running")

\* pulsedevice.write(): all of it, or an error.  The error is reported, or panics,
\* and the thread goes on.
Write ==
  /\ pc = "push"
  /\ chunk' = 0
  /\ \/ /\ event # "gone"
        /\ Play(Packets(chunk))
        /\ Go("loop") /\ UNCHANGED told
     \/ /\ event = "gone"
        /\ Go(IF supervisor THEN "loop" ELSE "panicked")
        /\ told' = IF supervisor THEN told \cup {"Error"} ELSE told
        /\ UNCHANGED heard
  /\ UNCHANGED <<backend, driver, source, supervisor, buffer, writer>>

\* Both ends are PlaybackDone.
ReceiveEnd  == EndReceived("loop") /\ FinishOrPanic("Done")
ChannelLost == Closed("loop") /\ FinishOrPanic("Done")

End == Stop("done", "over")

Step ==
  \/ Open \/ Begin \/ ReceiveAudio("loop") \/ IgnorePause("loop") \/ Write
  \/ ReceiveEnd \/ ChannelLost \/ End

\* The server goes away.
Server ==
  /\ event = "none" /\ "write" \in Faults /\ pc \in Working
  /\ event' = "gone"
  /\ UNCHANGED <<backend, pc, inner, source, reports, chunk, buffer, writer, heard>>
=============================================================================
