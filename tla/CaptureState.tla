------------------------------ MODULE CaptureState ------------------------------
(***************************************************************************)
(* What the capture threads of all device backends have in common: the     *)
(* channels to the supervisor and the processing thread, the buffer that a *)
(* callback or an inner thread fills, and the steps that every backend     *)
(* codes in the same way.  The modules Capture<Backend> add what differs,  *)
(* and CaptureBackends composes them.                                      *)
(*                                                                         *)
(* Sound is a sequence of numbered packets, the first one is 1; a chunk is *)
(* ChunkPackets of them.  SetSpeed commands change no control and are left *)
(* out.                                                                    *)
(***************************************************************************)
EXTENDS Naturals, Sequences, FiniteSetsExt

CONSTANTS
  Backends,      \* the backends to check
  MaxPackets,    \* the device falls silent after so many packets
  ChunkPackets,  \* packets in a chunk
  RingCapacity,  \* packets in the ring buffer
  NoteCapacity,  \* messages in the channel from the callback or inner thread
  QueueLimit,    \* messages in the channel to the processing thread
  Faults         \* what may go wrong

AllFaults == {"open",   \* the device can not be opened
              "start",  \* the stream can not be created or started
              "read",   \* reading fails
              "rate",   \* the rate of the device changes
              "gone"}   \* the device disappears, or its source is closed

ASSUME CaptureAssumption ==
  /\ {MaxPackets, ChunkPackets, NoteCapacity, QueueLimit} \subseteq Nat \ {0}
  /\ RingCapacity \in Nat /\ RingCapacity > ChunkPackets
  /\ Faults \subseteq AllFaults

VARIABLES
  backend,     \* the backend of this session
  pc,          \* where the capture thread is
  inner,       \* the callback or the inner thread
  event,       \* what the driver has noticed about the device
  produced,    \* the last packet the device has delivered
  ring,        \* the ring buffer
  notes,       \* the channel that tells of packets: how many, or EndNote
  chunk,       \* the thread's data buffer
  command,     \* the channel of commands
  supervisor,  \* the supervisor holds its ends of the two channels
  processing,  \* the processing thread holds its end of the audio channel
  queued,      \* the number of messages in the audio channel
  last,        \* the last message sent to the processing thread
  told,        \* the status messages sent
  state,       \* the thread's own state: the silence counter's, or Stalled
  saved,       \* the state before the stall
  published,   \* capture_status.state
  newest,      \* history: the last packet sent to the processing thread
  stale        \* history: a chunk repeated old sound

device  == <<inner, event, produced>>
buffer  == <<ring, notes>>
control == <<command, supervisor, processing>>
output  == <<queued, last, told>>
view    == <<state, saved, published>>
data    == <<chunk, newest, stale>>
vars == <<backend, pc, device, buffer, control, output, view, data>>

-----------------------------------------------------------------------------
Opening == {"open", "stream"}
Waiting == {"barrier", "failed"}
Working == {"start", "loop", "fill", "drain", "pop", "send", "pause", "tell", "close",
            "join"}
Ended   == {"done", "panicked"}
EndNote == MaxPackets + 1
Final   == {"Done", "Error", "FormatChange"}

TypeOK ==
  /\ backend \in Backends
  /\ pc \in Opening \cup Waiting \cup Working \cup Ended
  /\ inner \in {"none", "running", "asked", "blocked", "over"}
  /\ event \in {"none", "rate", "gone", "told"}
  /\ produced \in 0..MaxPackets
  /\ ring \in Seq(1..MaxPackets) /\ Len(ring) <= RingCapacity
  /\ notes \in Seq(0..EndNote) /\ Len(notes) <= NoteCapacity
  /\ chunk \in [1..ChunkPackets -> 0..MaxPackets]
  /\ command \in {"none", "Exit", "taken"}
  /\ supervisor \in BOOLEAN /\ processing \in BOOLEAN
  /\ queued \in 0..QueueLimit
  /\ last \in {"none", "Audio", "Pause", "EndOfStream"}
  /\ told \subseteq {"Ready"} \cup Final
  /\ {state, saved} \subseteq {"Running", "Paused", "Stalled"}
  /\ published \in {"Starting", "Running", "Paused", "Stalled", "Inactive"}
  /\ newest \in 0..MaxPackets /\ stale \in BOOLEAN

Init ==
  /\ backend \in Backends
  /\ pc = "open" /\ inner = "none" /\ event = "none" /\ produced = 0
  /\ ring = <<>> /\ notes = <<>>
  /\ chunk = [i \in 1..ChunkPackets |-> 0]
  /\ command = "none" /\ supervisor = TRUE /\ processing = TRUE
  /\ queued = 0 /\ last = "none" /\ told = {}
  /\ state = "Running" /\ saved = "Running" /\ published = "Starting"
  /\ newest = 0 /\ stale = FALSE

-----------------------------------------------------------------------------
\* ---------------------------- The environment -----------------------------

\* The supervisor asks the thread to exit.  It does so only once the devices
\* have started.
SendExit ==
  /\ supervisor /\ command = "none" /\ pc \in Working
  /\ command' = "Exit"
  /\ UNCHANGED <<backend, pc, device, buffer, supervisor, processing, output, view, data>>

\* The supervisor ends the session.  With the capture thread still running it
\* does so only after that thread has reported an end, see Supervisor.
SupervisorLeaves ==
  /\ supervisor /\ told \cap Final # {} /\ pc \notin Opening \cup Waiting
  /\ supervisor' = FALSE
  /\ UNCHANGED <<backend, pc, device, buffer, command, processing, output, view, data>>

\* The processing thread takes a message.
Consume ==
  /\ processing /\ queued > 0
  /\ queued' = queued - 1
  /\ UNCHANGED <<backend, pc, device, buffer, control, last, told, view, data>>

\* The processing thread ends: the playback thread has gone before.
ProcessingStops ==
  /\ processing /\ pc \in Working
  /\ processing' = FALSE /\ queued' = 0
  /\ UNCHANGED <<backend, pc, device, buffer, command, supervisor, last, told, view, data>>

\* All threads of the session have reached the barrier.
PassBarrier ==
  /\ pc \in Waiting
  /\ pc' = IF pc = "barrier" THEN "start" ELSE "done"
  /\ UNCHANGED <<backend, device, buffer, control, output, view, data>>

Environment ==
  SendExit \/ SupervisorLeaves \/ Consume \/ ProcessingStops \/ PassBarrier

-----------------------------------------------------------------------------
\* ----------------------- Steps the backends share --------------------------

Go(to) == pc' = to
Report(message) == told' = told \cup {message}

\* channel.send(..): blocks while the channel is full; `lost` says what happens
\* when the processing thread has gone.
Send(message, lost) ==
  \/ /\ processing /\ queued < QueueLimit
     /\ queued' = queued + 1 /\ last' = message
  \/ /\ ~processing /\ lost
     /\ UNCHANGED <<queued, last>>

\* The device can not be opened: reported with or without an EndOfStream first.
OpenFails(withEnd) ==
  /\ pc = "open" /\ "open" \in Faults
  /\ Go("failed")
  /\ Report("Error")
  /\ IF withEnd THEN Send("EndOfStream", TRUE) ELSE UNCHANGED <<queued, last>>
  /\ UNCHANGED <<backend, device, buffer, control, view, data>>

\* The device is open: CaptureReady, then the barrier.
OpenSucceeds(to, innerStatus) ==
  /\ pc = "open"
  /\ Go(to)
  /\ inner' = innerStatus
  /\ Report("Ready")
  /\ UNCHANGED <<backend, event, produced, buffer, control, queued, last, view, data>>

\* The stream has started: the device delivers from now on.
Started(innerStatus) ==
  /\ pc = "start"
  /\ Go("loop")
  /\ inner' = innerStatus
  /\ UNCHANGED <<backend, event, produced, buffer, control, output, view, data>>

\* EndOfStream to the processing thread, then a report to the supervisor.
Finish(message) ==
  /\ Go("close")
  /\ Send("EndOfStream", TRUE)
  /\ Report(message)
  /\ UNCHANGED <<backend, device, buffer, control, view, data>>

\* The same with unwrap() on both: a thread that has lost its peers panics.
FinishOrPanic(message) ==
  /\ Send("EndOfStream", Go("panicked"))
  /\ processing => Go(IF supervisor THEN "close" ELSE "panicked")
  /\ told' = IF processing /\ supervisor THEN told \cup {message} ELSE told
  /\ UNCHANGED <<backend, device, buffer, control, view, data>>

\* A command is tried for at the top of the loop.
ExitReceived == pc = "loop" /\ command = "Exit"
CommandsClosed ==
  /\ pc = "loop" /\ command = "none" /\ ~supervisor
  /\ Go("close")
  /\ UNCHANGED <<backend, device, buffer, control, output, view, data>>
NoCommand == pc = "loop" /\ command = "none" /\ supervisor

\* The device delivers a packet.  It is pushed to the ring buffer, and dropped
\* when that is full.
RingIsFull == Len(ring) = RingCapacity
Record ==
  /\ produced < MaxPackets
  /\ produced' = produced + 1
  /\ ring' = IF RingIsFull THEN ring ELSE Append(ring, produced + 1)
  /\ UNCHANGED <<backend, pc, inner, event, control, output, view, data>>

\* try_send(..) to the thread of how much was pushed: dropped if it does not fit.
Offer(note) == notes' = IF Len(notes) < NoteCapacity THEN Append(notes, note) ELSE notes
RecordAndOffer == Record /\ Offer(IF RingIsFull THEN 0 ELSE 1)

HasChunk == Len(ring) >= ChunkPackets

\* pop_slice: what there is, over the old contents of the data buffer.
PopSlice ==
  LET n == Min({Len(ring), ChunkPackets})
  IN  /\ chunk' = [i \in 1..ChunkPackets |-> IF i <= n THEN ring[i] ELSE chunk[i]]
      /\ ring' = SubSeq(ring, n + 1, Len(ring))

\* At the end of an update interval the state is published.  It is the one
\* from before this chunk.  Then the silence counter decides.
JudgeChunk ==
  /\ published' \in {published, state}
  /\ state' \in {"Running", "Paused"}

\* Only audio that follows what was sent before is fresh.
Fresh(c) == \A i \in 1..ChunkPackets :
              c[i] > IF i = 1 THEN newest ELSE c[i - 1]
Remember ==
  /\ stale' = (stale \/ ~Fresh(chunk))
  /\ newest' = Max({newest} \cup {chunk[i] : i \in 1..ChunkPackets})
  /\ UNCHANGED chunk

\* try_send(..): a message that does not fit is dropped.
TrySend(message, lost) ==
  \/ Send(message, lost)
  \/ processing /\ queued = QueueLimit /\ UNCHANGED <<queued, last>>

\* The chunk goes to the processing thread, or a Pause while it is silent.
SendChunk ==
  /\ pc = "send"
  /\ Send(IF state = "Running" THEN "Audio" ELSE "Pause", TRUE)
  /\ IF state = "Running" /\ processing THEN Remember ELSE UNCHANGED data
  /\ Go(IF processing THEN "loop" ELSE "close")
  /\ UNCHANGED <<backend, device, buffer, control, told, view>>

\* The rate watcher has measured another rate while the chunk was on its way.
RateIsOff == pc = "send" /\ "rate" \in Faults

\* The loop has ended.
BecomeInactive(to) ==
  /\ Go(to)
  /\ published' = "Inactive"
  /\ UNCHANGED <<backend, device, buffer, control, output, state, saved, data>>
=============================================================================
