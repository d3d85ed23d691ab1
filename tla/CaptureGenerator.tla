---------------------------- MODULE CaptureGenerator ----------------------------
(***************************************************************************)
(* The signal generator (generatordevice.rs): a capture thread without a   *)
(* device.  It never waits for data, only for the processing thread, and   *)
(* does not publish its state before it ends.                              *)
(***************************************************************************)
EXTENDS CaptureState

\* start: it is always ready.
Open == OpenSucceeds("barrier", "none")

Begin == Started("none")

Exit == ExitReceived /\ Finish("Done")

\* The next samples of the signal, until the bound of the model.
Generate ==
  /\ NoCommand
  /\ produced + ChunkPackets <= MaxPackets
  /\ produced' = produced + ChunkPackets
  /\ chunk' = [i \in 1..ChunkPackets |-> produced + i]
  /\ Go("send")
  /\ UNCHANGED <<backend, inner, event, buffer, control, output, view, newest, stale>>

End == pc = "close" /\ BecomeInactive("done")

Step == Open \/ Begin \/ Exit \/ CommandsClosed \/ Generate \/ SendChunk \/ End
=============================================================================
