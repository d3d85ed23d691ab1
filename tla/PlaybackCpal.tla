------------------------------- MODULE PlaybackCpal -------------------------------
(***************************************************************************)
(* The playback thread of the CPAL backend (cpal_backend/device.rs).  It   *)
(* hands chunks to the callback over a channel of one; here notes holds    *)
(* the number of the chunk in it, and ring is the callback's sample_queue. *)
(***************************************************************************)
EXTENDS PlaybackState

\* PlaybackReady is sent before the stream is built.  A stream that can not be
\* built is reported as well, and the thread goes on.
Open ==
  \/ OpenFails
  \/ OpenSucceeds("running")
  \/ /\ "start" \in Faults
     /\ pc = "open"
     /\ Go("barrier") /\ inner' = "over" /\ told' = {"Ready", "Error"}
     /\ UNCHANGED <<backend, event, source, supervisor, chunk, buffer, writer, heard>>

\* play(), of a stream that was built.  One that does not start stays there and
\* takes nothing: the thread reports it, or panics, and goes on.
Begin ==
  \/ Started(inner)
  \/ /\ pc = "start" /\ "start" \in Faults /\ inner = "running"
     /\ Go(IF supervisor THEN "loop" ELSE "panicked")
     /\ told' = IF supervisor THEN told \cup {"Error"} ELSE told
     /\ inner' = "blocked"
     /\ UNCHANGED <<backend, event, source, supervisor, chunk, buffer, writer, heard>>

\* send().unwrap(): waits for the callback to take the chunk before, and panics
\* when there is no callback.
SendChunk ==
  /\ pc = "push"
  /\ IF inner = "over"
     THEN Go("panicked") /\ UNCHANGED <<notes, chunk>>
     ELSE notes = <<>> /\ notes' = <<chunk>> /\ chunk' = 0 /\ Go("loop")
  /\ UNCHANGED <<backend, driver, source, reports, ring, writer, heard>>

\* Before that, a new capture rate is sent now and then: send().unwrap() panics when
\* the supervisor has left.
SpeedFails ==
  /\ pc = "push" /\ ~supervisor
  /\ Go("panicked")
  /\ UNCHANGED <<backend, driver, source, reports, chunk, buffer, writer, heard>>

\* Both ends are PlaybackDone.
ReceiveEnd  == EndReceived("loop") /\ FinishOrPanic("Done")
ChannelLost == Closed("loop") /\ FinishOrPanic("Done")

\* The stream is dropped with what it has not played.
End == Stop("done", "over")

Step ==
  \/ Open \/ Begin \/ ReceiveAudio("loop") \/ IgnorePause("loop") \/ SpeedFails \/ SendChunk
  \/ ReceiveEnd \/ ChannelLost \/ End

\* The callback takes the next chunk when its queue is too short.  It waits no
\* longer than its buffer lasts, then plays silence and keeps the queue.
Callback ==
  \/ PlayFromRing
  \/ /\ inner = "running" /\ pc \in Working /\ ring = <<>> /\ notes # <<>>
     /\ ring' = Packets(Head(notes)) /\ notes' = <<>>
     /\ UNCHANGED <<backend, pc, driver, source, reports, chunk, writer, heard>>

\* The device asks for nothing more, and the thread waits to hand it a chunk.
Starved == pc = "push" /\ notes # <<>>
=============================================================================
