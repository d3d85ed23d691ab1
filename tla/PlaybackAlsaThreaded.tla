--------------------------- MODULE PlaybackAlsaThreaded ---------------------------
(***************************************************************************)
(* The two playback threads of the ALSA backend when it is built with      *)
(* threaded-alsa (alsa_backend/threaded_device.rs).  The outer thread      *)
(* fills a ring buffer; the inner one has opened the device and waits      *)
(* until enough is there, then it feeds the device and reports the end.    *)
(***************************************************************************)
EXTENDS PlaybackState

Running == inner \in {"running", "ending"}

\* The inner thread opens the device, the outer one waits for its answer.
Open == OpenFails \/ OpenSucceeds("waiting")

Begin == Started(inner)

\* After at most 16 waits the whole chunk is pushed, or dropped.
PushChunk ==
  /\ pc = "push"
  /\ \/ Room /\ Push(Packets(chunk)) /\ Go("note")
     \/ ~Room /\ UNCHANGED ring /\ Go("loop")
  /\ chunk' = 0
  /\ UNCHANGED <<backend, driver, source, reports, notes, writer, heard>>

\* tx_start.send(()): the inner thread waits for it.
StartInner == inner' = IF inner = "waiting" THEN "running" ELSE inner

\* send(Data): waits while the channel is full, and fails without the inner thread.
\* That one is started once enough is there.
Tell ==
  /\ pc = "note"
  /\ IF inner = "panicked"
     THEN Go("end") /\ Report("Error") /\ UNCHANGED <<notes, inner>>
     ELSE /\ Len(notes) < NoteCapacity
          /\ notes' = Append(notes, ChunkPackets)
          /\ IF Len(ring) >= Prefill THEN StartInner ELSE UNCHANGED inner
          /\ Go("loop") /\ UNCHANGED told
  /\ UNCHANGED <<backend, event, source, supervisor, chunk, ring, writer, heard>>

TakePause ==
  /\ Receive("loop", Pause)
  /\ Go("pause")
  /\ UNCHANGED <<backend, driver, reports, chunk, buffer, writer, heard>>

\* A message to the inner thread: waits for room, goes nowhere without that thread.
SendNote(at, note, to) ==
  /\ pc = at
  /\ \/ inner = "panicked" /\ UNCHANGED notes
     \/ inner # "panicked" /\ Len(notes) < NoteCapacity /\ notes' = Append(notes, note)
  /\ Go(to)
  /\ UNCHANGED <<backend, driver, source, reports, chunk, ring, writer, heard>>

PassPause == SendNote("pause", PauseNote, "loop")

\* Mutant of ReceiveEnd: the inner thread is not started for a short stream.
EndWithoutStart ==
  /\ EndReceived("loop")
  /\ Go("end")
  /\ UNCHANGED <<backend, driver, reports, chunk, buffer, writer, heard>>

ReceiveEnd ==
  /\ EndReceived("loop")
  /\ Go("end") /\ StartInner
  /\ UNCHANGED <<backend, event, reports, chunk, buffer, writer, heard>>

ChannelLost ==
  /\ Closed("loop")
  /\ Go("end") /\ StartInner /\ Report("Error")
  /\ UNCHANGED <<backend, event, supervisor, chunk, buffer, writer, heard>>

PassEnd == SendNote("end", EndNote, "join")

Join ==
  /\ pc = "join" /\ inner \in {"over", "panicked"}
  /\ Go("done")
  /\ UNCHANGED <<backend, driver, source, reports, chunk, buffer, writer, heard>>

Step ==
  \/ Open \/ Begin \/ ReceiveAudio("loop") \/ PushChunk \/ Tell \/ TakePause
  \/ PassPause \/ ReceiveEnd \/ ChannelLost \/ PassEnd \/ Join

-----------------------------------------------------------------------------
\* ----------------------------- The inner thread ----------------------------

Available == Min({credit, Len(ring)})
HaveData  == Available > 0 \/ rest # <<>>
InnerOnly == UNCHANGED <<backend, pc, event, source, supervisor, chunk>>

\* try_recv(), in both of its places.
ReadData ==
  /\ inner = "running" /\ notes # <<>> /\ Head(notes) <= RingCapacity
  /\ notes' = Tail(notes)
  /\ credit' = credit + Head(notes)
  /\ InnerOnly /\ UNCHANGED <<inner, told, ring, rest, paused, stalled, heard>>

ReadPause ==
  /\ inner = "running" /\ notes # <<>> /\ Head(notes) = PauseNote
  /\ notes' = Tail(notes)
  /\ paused' \in {paused, TRUE}
  /\ InnerOnly /\ UNCHANGED <<inner, told, ring, credit, rest, stalled, heard>>

\* Mutant of ReadEnd: the end is reported whatever is left.
ReadEndAtOnce ==
  /\ inner = "running" /\ notes # <<>> /\ Head(notes) = EndNote
  /\ notes' = Tail(notes)
  /\ inner' = "over" /\ Report("Done")
  /\ InnerOnly /\ UNCHANGED <<ring, writer, heard>>

\* With data left the end is only noted.
ReadEnd ==
  /\ inner = "running" /\ notes # <<>> /\ Head(notes) = EndNote
  /\ notes' = Tail(notes)
  /\ IF HaveData THEN inner' = "ending" /\ UNCHANGED told
                 ELSE inner' = "over" /\ Report("Done")
  /\ InnerOnly /\ UNCHANGED <<ring, writer, heard>>

\* prepare_playback_bytes: what the last write has left, or else what there is.
ToPlay == IF rest = <<>> THEN SubSeq(ring, 1, Available) ELSE rest
Popped == IF rest = <<>> THEN SubSeq(ring, Available + 1, Len(ring)) ELSE ring

\* Mutant of Remainder: a short write is repeated as a whole.
RemainderIsAll(n) == IF n < Len(ToPlay) THEN ToPlay ELSE <<>>

Remainder(n) == SubSeq(ToPlay, n + 1, Len(ToPlay))

\* play_buffer writes once, and apply_playback_write_result keeps what is left.
Write ==
  /\ Running /\ HaveData
  /\ \E n \in 0..Len(ToPlay) :
       /\ Play(SubSeq(ToPlay, 1, n))
       /\ rest' = Remainder(n)
       /\ credit' = credit - Min({credit, n})
  /\ ring' = Popped
  /\ paused' = FALSE /\ stalled' = FALSE
  /\ InnerOnly /\ UNCHANGED <<inner, told, notes>>

\* The wait timed out.  At the first time the device is emptied and restarted.
WriteStalls ==
  /\ Running /\ HaveData /\ "stall" \in Faults
  /\ rest' = ToPlay /\ ring' = Popped
  /\ paused' = FALSE /\ stalled' = TRUE
  /\ InnerOnly /\ UNCHANGED <<inner, told, notes, credit, heard>>

\* An error loses what has just been popped, and credit keeps counting it.
WriteFails ==
  /\ Running /\ HaveData /\ "write" \in Faults
  /\ Report("Error")
  /\ ring' = Popped
  /\ paused' = FALSE
  /\ InnerOnly /\ UNCHANGED <<inner, notes, credit, rest, stalled, heard>>

\* All is written.
InnerEnds ==
  /\ inner = "ending" /\ ~HaveData
  /\ inner' = "over" /\ Report("Done")
  /\ InnerOnly /\ UNCHANGED <<buffer, writer, heard>>

\* The rate can be adjusted on a USB gadget; the thread panics when that has gone.
InnerPanics ==
  /\ inner = "running" /\ "gone" \in Faults
  /\ inner' = "panicked"
  /\ InnerOnly /\ UNCHANGED <<told, buffer, writer, heard>>

InnerStep ==
  ReadData \/ ReadPause \/ ReadEnd \/ Write \/ WriteStalls \/ WriteFails \/ InnerEnds

\* The channel is full of Pause messages before the ring holds enough to start the
\* inner thread, which alone takes them.
NeverStarted ==
  inner = "waiting" /\ Len(notes) = NoteCapacity /\ pc \in {"note", "pause"}

\* What is left is never taken: the device is stalled or every write fails.
NeverTaken == Running /\ HaveData
=============================================================================
