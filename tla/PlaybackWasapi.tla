----------------------------- MODULE PlaybackWasapi -----------------------------
(***************************************************************************)
(* The two playback threads of the WASAPI backend                          *)
(* (wasapi_backend/device.rs).  The inner thread opens the device and      *)
(* feeds it.  The outer one pushes to a ring buffer and tells it how much; *)
(* the inner one tells of its end through a channel without a buffer, in   *)
(* which it waits until the outer thread looks or returns.                 *)
(***************************************************************************)
EXTENDS PlaybackState

InnerFailed == inner \in {"blocked", "over"}

\* The inner thread opens the device; the outer one waits for its answer.
Open == OpenFails \/ OpenSucceeds("running")

Begin == Started(inner)

\* send_error_or_playbackformatchange: by the reason of the disconnection, if any.
FailureReport == IF event = "rate" THEN "FormatChange" ELSE "Error"

\* try_recv() of the state completes the send the inner thread waits in.
InnerHasFailed ==
  /\ pc = "loop" /\ InnerFailed
  /\ Go("end") /\ inner' = "over"
  /\ Report(FailureReport)
  /\ UNCHANGED <<backend, event, source, supervisor, chunk, buffer, writer, heard>>

InnerRuns == inner = "running" /\ Look

\* After at most 8 waits the whole chunk is pushed, or dropped.
PushChunk ==
  /\ pc = "push"
  /\ \/ Room /\ Push(Packets(chunk)) /\ credit' = ChunkPackets /\ Go("note")
     \/ ~Room /\ UNCHANGED <<ring, credit>> /\ Go("loop")
  /\ chunk' = 0
  /\ UNCHANGED <<backend, driver, source, reports, notes, rest, paused, stalled, heard>>

\* tx_dev.send(Data(bytes)): the channel is closed once the inner loop has failed.
Tell ==
  /\ pc = "note"
  /\ IF InnerFailed
     THEN Go("end") /\ Report(FailureReport) /\ UNCHANGED <<notes, credit>>
     ELSE /\ Len(notes) < NoteCapacity
          /\ notes' = Append(notes, credit) /\ credit' = 0
          /\ Go("loop") /\ UNCHANGED told
  /\ UNCHANGED <<backend, driver, source, supervisor, chunk, ring, rest, paused, stalled,
                 heard>>

ReceiveEnd  == EndReceived("wait") /\ Finish("Done")
ChannelLost == Closed("wait") /\ Finish(FailureReport)

\* tx_dev.send(Stop): the inner thread is joined, unless its loop has failed.
End ==
  /\ pc = "end"
  /\ IF InnerFailed
     THEN Go("done") /\ inner' = "over" /\ UNCHANGED notes
     ELSE Len(notes) < NoteCapacity /\ notes' = Append(notes, EndNote) /\ Go("join")
          /\ UNCHANGED inner
  /\ UNCHANGED <<backend, event, source, reports, chunk, ring, writer, heard>>

Join ==
  /\ pc = "join" /\ inner = "over"
  /\ Go("done")
  /\ UNCHANGED <<backend, driver, source, reports, chunk, buffer, writer, heard>>

Step ==
  \/ Open \/ Begin \/ InnerHasFailed \/ InnerRuns
  \/ ReceiveAudio("wait") \/ IgnorePause("wait") \/ PushChunk \/ Tell \/ ReceiveEnd \/ ChannelLost \/ End \/ Join

\* The inner thread needs samples: a message with data, or silence without one.
\* It begins once two messages are there or a second has passed.
Feed ==
  /\ inner = "running" /\ notes # <<>> /\ Head(notes) # EndNote
  /\ notes' = Tail(notes)
  /\ LET n == Min({Head(notes), Len(ring)})
     IN  /\ ring' = SubSeq(ring, n + 1, Len(ring))
         /\ Play(SubSeq(ring, 1, n))
  /\ UNCHANGED <<backend, pc, driver, source, reports, chunk, writer>>

InnerStops ==
  /\ inner = "running" /\ notes # <<>> /\ Head(notes) = EndNote
  /\ notes' = Tail(notes)
  /\ inner' = "over"
  /\ UNCHANGED <<backend, pc, event, source, reports, chunk, ring, writer, heard>>

\* A call fails, or no event comes for a second: the thread waits in its send.
InnerFails ==
  /\ inner = "running" /\ pc \in {"barrier"} \cup Working
  /\ \E fault \in {"rate", "gone"} \cap Faults : event' = fault
  /\ inner' = "blocked"
  /\ UNCHANGED <<backend, pc, source, reports, chunk, buffer, writer, heard>>

InnerStep == Feed \/ InnerStops

\* The inner thread failed after Stop was queued: each waits for the other.
JoinsForEver == pc = "join" /\ inner = "blocked"
=============================================================================
