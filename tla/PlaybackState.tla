------------------------------ MODULE PlaybackState ------------------------------
(***************************************************************************)
(* What the playback threads of all device backends have in common: the    *)
(* channels from the processing thread and to the supervisor, the buffer   *)
(* that a callback or an inner thread empties, and the steps that every    *)
(* backend codes in the same way.  The modules Playback<Backend> add what  *)
(* differs, and PlaybackBackends composes them.                            *)
(*                                                                         *)
(* Sound is a sequence of numbered packets, the first one is 1; chunk k is *)
(* the k-th run of ChunkPackets of them.  Silence is not numbered.         *)
(***************************************************************************)
EXTENDS Naturals, Sequences, FiniteSetsExt

CONSTANTS
  Backends,      \* the backends to check
  MaxChunks,     \* the processing thread makes so many chunks
  ChunkPackets,  \* packets in a chunk
  RingCapacity,  \* packets in the ring buffer
  NoteCapacity,  \* messages in the channel to the callback or inner thread
  QueueLimit,    \* messages in the channel from the processing thread
  Prefill,       \* packets in the ring before an inner thread is started
  Faults         \* what may go wrong

AllBackends ==
  {"cpal", "pulse", "coreaudio", "pipewire", "asio", "wasapi", "alsa", "alsaThreaded"}
AllFaults == {"open",   \* the device can not be opened
              "start",  \* the stream can not be created or started
              "write",  \* writing fails
              "rate",   \* the rate of the device changes
              "gone",   \* the device disappears
              "stall"}  \* the device takes too long to play what it has

ASSUME PlaybackAssumption ==
  /\ {MaxChunks, ChunkPackets, NoteCapacity, QueueLimit, Prefill} \subseteq Nat \ {0}
  /\ RingCapacity \in Nat /\ RingCapacity > ChunkPackets /\ RingCapacity >= Prefill
  /\ Backends \subseteq AllBackends /\ Faults \subseteq AllFaults

VARIABLES
  backend,     \* the backend of this session
  pc,          \* where the playback thread is
  inner,       \* the callback or the inner thread
  event,       \* what the driver has noticed about the device
  inbox,       \* the channel from the processing thread
  processing,  \* the processing thread holds its end of that channel
  made,        \* the number of chunks the processing thread has made
  supervisor,  \* the supervisor holds its end of the status channel
  told,        \* the status messages sent
  chunk,       \* the chunk the thread is busy with, 0 for none
  ring,        \* the ring buffer
  notes,       \* the channel that tells of packets: how many, or a message
  credit,      \* the packets the inner thread has been told of and not written
  rest,        \* what a short write has left
  paused,      \* pcm_paused
  stalled,     \* device_stalled
  played,      \* history: the last packet the device has taken
  disorder     \* history: a packet was played twice or too late

driver == <<inner, event>>
source == <<inbox, processing, made>>
reports == <<supervisor, told>>
buffer == <<ring, notes>>
writer == <<credit, rest, paused, stalled>>
heard  == <<played, disorder>>
vars == <<backend, pc, driver, source, reports, chunk, buffer, writer, heard>>

-----------------------------------------------------------------------------
\* Messages: in the inbox a chunk, Pause or EndOfStream; in notes a number of
\* packets, or one of these two.
Pause       == 0
EndOfStream == MaxChunks + 1
PauseNote   == RingCapacity + 1
EndNote     == RingCapacity + 2

Waiting == {"barrier", "failed"}
Working == {"start", "loop", "wait", "push", "note", "pause", "end", "join"}
Ended   == {"done", "panicked"}
Errors  == {"Error", "FormatChange"}
Final   == Errors \cup {"Done"}

TypeOK ==
  /\ backend \in Backends
  /\ pc \in {"open"} \cup Waiting \cup Working \cup Ended
  /\ inner \in {"none", "waiting", "running", "ending", "blocked", "over", "panicked"}
  /\ event \in {"none", "rate", "gone"}
  /\ inbox \in Seq(0..EndOfStream) /\ Len(inbox) <= QueueLimit
  /\ processing \in BOOLEAN /\ supervisor \in BOOLEAN
  /\ made \in 0..MaxChunks /\ chunk \in 0..MaxChunks
  /\ told \subseteq {"Ready"} \cup Final
  /\ ring \in Seq(1..MaxChunks * ChunkPackets) /\ Len(ring) <= RingCapacity
  /\ notes \in Seq(IF backend = "cpal" THEN 1..MaxChunks ELSE 0..EndNote)
  /\ Len(notes) <= NoteCapacity
  /\ credit \in Nat
  /\ rest \in Seq(1..MaxChunks * ChunkPackets) /\ Len(rest) <= RingCapacity
  /\ paused \in BOOLEAN /\ stalled \in BOOLEAN
  /\ played \in 0..MaxChunks * ChunkPackets /\ disorder \in BOOLEAN

Init ==
  /\ backend \in Backends
  /\ pc = "open" /\ inner = "none" /\ event = "none"
  /\ inbox = <<>> /\ processing = TRUE /\ made = 0
  /\ supervisor = TRUE /\ told = {}
  /\ chunk = 0 /\ ring = <<>> /\ notes = <<>>
  /\ credit = 0 /\ rest = <<>> /\ paused = FALSE /\ stalled = FALSE
  /\ played = 0 /\ disorder = FALSE

-----------------------------------------------------------------------------
\* ---------------------------- The environment -----------------------------

\* The processing thread sends a message, once it is through the barrier.  It ends
\* with EndOfStream, or by a panic.
SendMessage(message) ==
  /\ processing /\ pc \in Working /\ Len(inbox) < QueueLimit
  /\ inbox' = Append(inbox, message)
  /\ processing' = (message # EndOfStream)
  /\ made' = IF message \in 1..MaxChunks THEN message ELSE made
  /\ UNCHANGED <<backend, pc, driver, reports, chunk, buffer, writer, heard>>

SendAudio == made < MaxChunks /\ SendMessage(made + 1)
SendPause == SendMessage(Pause)
SendEnd   == SendMessage(EndOfStream)

ProcessingPanics ==
  /\ processing /\ pc \in Working
  /\ processing' = FALSE
  /\ UNCHANGED <<backend, pc, driver, inbox, made, reports, chunk, buffer, writer, heard>>

\* The supervisor ends the session.  It does not wait for a playback thread that
\* has reported an error, see Supervisor.
SupervisorLeaves ==
  /\ supervisor /\ told \cap Errors # {} /\ pc \notin {"open"} \cup Waiting
  /\ supervisor' = FALSE
  /\ UNCHANGED <<backend, pc, driver, source, told, chunk, buffer, writer, heard>>

\* All threads of the session have reached the barrier.
PassBarrier ==
  /\ pc \in Waiting
  /\ pc' = IF pc = "barrier" THEN "start" ELSE "done"
  /\ UNCHANGED <<backend, driver, source, reports, chunk, buffer, writer, heard>>

Environment ==
  SendAudio \/ SendPause \/ SendEnd \/ ProcessingPanics \/ SupervisorLeaves \/ PassBarrier

-----------------------------------------------------------------------------
\* ----------------------- Steps the backends share --------------------------

Go(to) == pc' = to
Report(message) == told' = told \cup {message}
Packets(k) == [i \in 1..ChunkPackets |-> (k - 1) * ChunkPackets + i]

\* The device can not be opened.
OpenFails ==
  /\ pc = "open" /\ "open" \in Faults
  /\ Go("failed")
  /\ Report("Error")
  /\ UNCHANGED <<backend, driver, source, supervisor, chunk, buffer, writer, heard>>

\* The device is open: PlaybackReady, then the barrier.
OpenSucceeds(innerStatus) ==
  /\ pc = "open"
  /\ Go("barrier")
  /\ inner' = innerStatus
  /\ Report("Ready")
  /\ UNCHANGED <<backend, event, source, supervisor, chunk, buffer, writer, heard>>

Started(innerStatus) ==
  /\ pc = "start"
  /\ Go("loop")
  /\ inner' = innerStatus
  /\ UNCHANGED <<backend, event, source, reports, chunk, buffer, writer, heard>>

\* What the driver has noticed is looked at first, then the thread waits for a
\* message: the device may change in between.
Look ==
  /\ pc = "loop"
  /\ Go("wait")
  /\ UNCHANGED <<backend, driver, source, reports, chunk, buffer, writer, heard>>

\* channel.recv(): the next message, or an error when the channel is closed.
Receive(at, message) ==
  /\ pc = at /\ inbox # <<>>
  /\ message = Head(inbox)
  /\ inbox' = Tail(inbox)
  /\ UNCHANGED <<processing, made>>
Closed(at) == pc = at /\ inbox = <<>> /\ ~processing /\ UNCHANGED source

\* A chunk to write or to push; its level, peak and clipping are published first.
ReceiveAudio(at) ==
  /\ \E k \in 1..MaxChunks : Receive(at, k) /\ chunk' = k
  /\ Go("push")
  /\ UNCHANGED <<backend, driver, reports, buffer, writer, heard>>

\* Most backends leave the device as it is while there is silence.
IgnorePause(at) ==
  /\ Receive(at, Pause)
  /\ Go("loop")
  /\ UNCHANGED <<backend, driver, reports, chunk, buffer, writer, heard>>

\* The loop ends with a report.
Finish(message) ==
  /\ Go("end")
  /\ Report(message)
  /\ UNCHANGED <<backend, driver, supervisor, chunk, buffer, writer, heard>>

\* The same with unwrap(): a thread that has lost the supervisor panics.
FinishOrPanic(message) ==
  /\ Go(IF supervisor THEN "end" ELSE "panicked")
  /\ told' = IF supervisor THEN told \cup {message} ELSE told
  /\ UNCHANGED <<backend, driver, supervisor, chunk, buffer, writer, heard>>

EndReceived(at) == Receive(at, EndOfStream)

Room == Len(ring) + ChunkPackets <= RingCapacity

\* push_slice after at most so many waits for room: what does not fit is dropped.
Push(packets) == ring' = ring \o packets
Fitting == SubSeq(Packets(chunk), 1, Min({ChunkPackets, RingCapacity - Len(ring)}))

\* The device takes packets.
Play(packets) ==
  /\ played' = Max({played} \cup {packets[i] : i \in DOMAIN packets})
  /\ disorder' = (\/ disorder
                  \/ \E i \in DOMAIN packets :
                       packets[i] <= IF i = 1 THEN played ELSE packets[i - 1])

\* A callback takes one packet from the ring.
PlayFromRing ==
  /\ inner = "running" /\ pc \in Working /\ ring # <<>>
  /\ ring' = Tail(ring)
  /\ Play(<<Head(ring)>>)
  /\ UNCHANGED <<backend, pc, driver, source, reports, chunk, notes, writer>>

Stop(to, innerStatus) ==
  /\ pc = "end"
  /\ Go(to)
  /\ inner' = innerStatus
  /\ UNCHANGED <<backend, event, source, reports, chunk, buffer, writer, heard>>
=============================================================================
