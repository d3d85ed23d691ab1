------------------------------- MODULE PlaybackAlsa -------------------------------
(***************************************************************************)
(* The playback thread of the ALSA backend in its usual build              *)
(* (alsa_backend/device.rs): one thread that writes chunk by chunk.  When  *)
(* the device does not take a chunk in time the thread drops what comes,   *)
(* and looks only for the end of the stream, until the device takes one.   *)
(***************************************************************************)
EXTENDS PlaybackState, SequencesExt

Open == OpenFails \/ OpenSucceeds("running")

Begin == Started("running")

\* drain_check_eos, while the device is stalled: all messages are dropped but
\* EndOfStream.
Drop ==
  /\ pc = "loop" /\ stalled
  /\ inbox' = <<>> /\ UNCHANGED <<processing, made>>
  /\ IF Contains(inbox, EndOfStream) THEN Go("end") /\ Report("Done")
                                     ELSE Go("wait") /\ UNCHANGED told
  /\ UNCHANGED <<backend, driver, supervisor, chunk, buffer, writer, heard>>

NotStalled == ~stalled /\ Look

\* play_buffer writes in turns until all is written, waits for the device before
\* each and gives up after 100.  After an underrun it makes do with what one more
\* write takes.
Write ==
  /\ pc = "push"
  /\ Go("loop") /\ chunk' = 0
  /\ \E n \in 0..ChunkPackets : Play(SubSeq(Packets(chunk), 1, n))
  /\ paused' = FALSE
  /\ \/ stalled' = FALSE /\ UNCHANGED told
     \/ "stall" \in Faults /\ stalled' = TRUE /\ UNCHANGED told
     \/ "write" \in Faults /\ Report("Error") /\ UNCHANGED stalled
  /\ UNCHANGED <<backend, driver, source, supervisor, buffer, credit, rest>>

\* The device is paused, once, if it can be.
PauseDevice ==
  /\ Receive("wait", Pause)
  /\ Go("loop")
  /\ paused' \in {paused, TRUE}
  /\ UNCHANGED <<backend, driver, reports, chunk, buffer, credit, rest, stalled, heard>>

ReceiveEnd  == EndReceived("wait") /\ Finish("Done")
ChannelLost == Closed("wait") /\ Finish("Error")

\* The device is drained unless it is paused, and closed.
End == Stop("done", "over")

Step ==
  \/ Open \/ Begin \/ Drop \/ NotStalled \/ ReceiveAudio("wait") \/ Write
  \/ PauseDevice \/ ReceiveEnd \/ ChannelLost \/ End
=============================================================================
