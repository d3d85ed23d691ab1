---------------------------- MODULE PlaybackCoreAudio ----------------------------
(***************************************************************************)
(* The playback thread of the CoreAudio backend                            *)
(* (coreaudio_backend/device.rs).  It pushes to a ring buffer and tells    *)
(* the callback how much through a bounded channel.                        *)
(***************************************************************************)
EXTENDS PlaybackState

\* open_coreaudio_playback, then the render callback.
Open == OpenFails \/ OpenSucceeds("none")

\* audio_unit.start() comes after the barrier.
Begin ==
  \/ Started("running")
  \/ /\ pc = "start" /\ "start" \in Faults
     /\ Go("done") /\ Report("Error")
     /\ UNCHANGED <<backend, driver, source, supervisor, chunk, buffer, writer, heard>>

\* Mutant of NotAlive: the thread ends without a word.
NotAliveUnreported ==
  /\ pc = "loop" /\ event = "gone"
  /\ Go("end")
  /\ UNCHANGED <<backend, driver, source, reports, chunk, buffer, writer, heard>>

\* The device is looked at before each message only.
NotAlive ==
  /\ pc = "loop" /\ event = "gone"
  /\ Finish("Error") /\ UNCHANGED source
Alive == event = "none" /\ Look

\* At most 8 waits, then what fits is pushed.
PushChunk ==
  /\ pc = "push"
  /\ Push(Fitting)
  /\ credit' = Len(Fitting)
  /\ Go("note") /\ chunk' = 0
  /\ UNCHANGED <<backend, driver, source, reports, notes, rest, paused, stalled, heard>>

\* Mutant of Tell: the callback is told of the whole chunk.
TellOfChunk ==
  /\ pc = "note" /\ Len(notes) < NoteCapacity
  /\ notes' = Append(notes, ChunkPackets)
  /\ credit' = 0
  /\ Go("loop")
  /\ UNCHANGED <<backend, driver, source, reports, chunk, ring, rest, paused, stalled,
                 heard>>

\* tx_dev.send(Data(bytes)) of the bytes that were pushed, possibly none: waits
\* while the channel is full.  credit holds their number until then.
Tell ==
  /\ pc = "note" /\ Len(notes) < NoteCapacity
  /\ notes' = Append(notes, credit)
  /\ credit' = 0
  /\ Go("loop")
  /\ UNCHANGED <<backend, driver, source, reports, chunk, ring, rest, paused, stalled,
                 heard>>

ReceiveEnd  == EndReceived("wait") /\ Finish("Done")
ChannelLost == Closed("wait") /\ Finish("Error")

\* The ownership is released and the audio unit dropped.
End == Stop("done", "over")

Step ==
  \/ Open \/ Begin \/ NotAlive \/ Alive
  \/ ReceiveAudio("wait") \/ IgnorePause("wait") \/ PushChunk \/ Tell \/ ReceiveEnd \/ ChannelLost \/ End

\* The callback takes a message and as many packets; without a message it plays
\* silence.
Callback ==
  /\ inner = "running" /\ event = "none" /\ pc \in Working /\ notes # <<>>
  /\ notes' = Tail(notes)
  /\ LET n == Min({Head(notes), Len(ring)})
     IN  /\ ring' = SubSeq(ring, n + 1, Len(ring))
         /\ Play(SubSeq(ring, 1, n))
  /\ UNCHANGED <<backend, pc, driver, source, reports, chunk, writer>>

\* The listener: the device has disappeared, and calls no more.
Listener ==
  /\ pc \in Waiting \cup Working /\ event = "none" /\ "gone" \in Faults
  /\ event' = "gone"
  /\ UNCHANGED <<backend, pc, inner, source, reports, chunk, buffer, writer, heard>>

InnerStep == Callback \/ Listener

\* The device calls no more, and the thread waits to tell it of a chunk.
Starved == pc = "note" /\ Len(notes) = NoteCapacity
=============================================================================
