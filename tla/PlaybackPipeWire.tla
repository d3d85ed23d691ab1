----------------------------- MODULE PlaybackPipeWire -----------------------------
(***************************************************************************)
(* The playback threads of the PipeWire backend                            *)
(* (pipewire_backend/device.rs).  The thread that was started runs the     *)
(* main loop of PipeWire, inner here, and then joins the receiver it has   *)
(* spawned, pc here.                                                       *)
(***************************************************************************)
EXTENDS PlaybackState

\* The main loop, context, core and stream are created and connected.
Open == OpenFails \/ OpenSucceeds("running")

\* The receiver is spawned after the barrier.
Begin == Started(inner)

\* At most 8 waits, then what fits is pushed.
PushChunk ==
  /\ pc = "push"
  /\ Push(Fitting)
  /\ Go("loop") /\ chunk' = 0
  /\ UNCHANGED <<backend, driver, source, reports, notes, writer, heard>>

\* Both ends are PlaybackDone.
ReceiveEnd  == EndReceived("loop") /\ FinishOrPanic("Done")
ChannelLost == Closed("loop") /\ FinishOrPanic("Done")

\* quitter.quit(), then the thread of the main loop joins.
End == Stop("done", "over")

Step ==
  \/ Open \/ Begin \/ ReceiveAudio("loop") \/ IgnorePause("loop") \/ PushChunk
  \/ ReceiveEnd \/ ChannelLost \/ End

\* The process callback takes what there is and fills up with silence.
Callback == PlayFromRing
=============================================================================
