---------------------------- MODULE CaptureProofs ----------------------------
(***************************************************************************)
(* The capture threads of all backends keep their contract, end Inactive,  *)
(* and never send sound twice or out of order, with the exceptions the     *)
(* properties name: for every size of the buffers, the channels and the    *)
(* chunks, and whatever goes wrong.                                        *)
(*                                                                         *)
(* The argument has two halves.  For the reports, every step of every      *)
(* backend is one of two kinds (ThreadMoves, DeviceMoves), and these keep  *)
(* what has been said at each place of the thread (ControlInv); only ALSA  *)
(* with two threads needs more (InnerInv).  For the sound, every step is   *)
(* one of eight things that can happen to the packets (SoundMoves), and    *)
(* these keep the packets on their way in the order of their capture       *)
(* (SoundInv).                                                             *)
(***************************************************************************)
EXTENDS CaptureBackends, SequenceTheorems, WellFoundedInduction, TLAPS

\* The loop has ended.
Closing == {"close", "join"} \cup Ended

\* The inner thread of ALSA runs from the barrier until it has reported an end, and
\* only then tells the outer thread of one; the outer one joins it before it ends.
InnerInv ==
  backend = "alsaThreaded" =>
    /\ pc \in Opening \cup Waiting \cup {"start"} => inner = "none"
    /\ inner \in {"blocked", "over"} => told \cap Final # {}
    /\ pc \in Ended => inner \in {"none", "over"}
    /\ pc = "join" => published = "Inactive"
    /\ \A i \in 1..Len(notes) : notes[i] = EndNote => told \cap Final # {}

\* Nothing is said before the thread is open, an EndOfStream is the last thing sent, a
\* supervisor that has left had been told of an end, and so has the one of a thread
\* whose loop is over, unless the processing thread is gone.
ControlInv ==
  /\ pc \in Opening => told = {} /\ last = "none"
  /\ last = "EndOfStream" => pc \in {"failed"} \cup Closing
  /\ ~supervisor => told \cap Final # {}
  /\ pc \in {"close", "join"} => told \cap Final # {} \/ ~processing
  /\ pc \in Opening \cup Waiting \cup {"start"} => published = "Starting"
  /\ EndsInactive
  /\ InnerInv

-----------------------------------------------------------------------------
\* ------------------------------ What a step does --------------------------

\* A step of the capture thread, as the supervisor and the processing thread see it.
ThreadMoves ==
  /\ UNCHANGED <<backend, supervisor, processing>>
  /\ \/ /\ pc = "open" /\ pc' = "barrier"
        /\ told' \in {{"Ready"}, {"Ready", "Error"}} /\ UNCHANGED <<last, published>>
     \/ /\ pc = "open" /\ pc' = "failed"
        /\ told' = told \cup {"Error"}
        /\ last' \in {last, "EndOfStream"} /\ UNCHANGED published
     \/ /\ pc \in Working /\ pc' \in (Working \ {"start"}) \cup Ended
        /\ told \subseteq told' /\ told' \subseteq told \cup Final
        /\ last' \in Promise!Messages \cup {last}
        /\ pc \in Closing => pc' \in Closing /\ UNCHANGED last
        /\ last' = "EndOfStream" => pc' \in Closing
        /\ pc' \in Closing => told' \cap Final # {} \/ ~processing
        /\ EndsInactive'

\* A step of its callback or its inner thread.
DeviceMoves ==
  /\ UNCHANGED <<backend, pc, supervisor, processing, last>>
  /\ told \subseteq told' /\ told' \subseteq told \cup Final
  /\ told' # told => pc \in Working
  /\ published' # published =>
       published' = "Inactive" /\ pc \notin Opening \cup Waiting \cup {"start"}

\* The steps of each backend are of these kinds.
LEMMA GeneratorMoves ==
  ASSUME TypeOK, ControlInv, backend = "generator", Generator!Step PROVE ThreadMoves
<1> USE DEF Generator!device, Generator!buffer, Generator!control, Generator!output,
        Generator!view, Generator!data, Generator!Go, Generator!Report, ControlInv,
        EndsInactive, Closing, Opening, Waiting, Working, Ended, Final,
        Promise!Messages, TypeOK
<1>1. CASE Generator!Open \/ Generator!Begin
  BY <1>1 DEF ThreadMoves, Generator!Open, Generator!Begin, Generator!OpenSucceeds,
     Generator!Started
<1>2. CASE Generator!Exit \/ Generator!CommandsClosed \/ Generator!Generate
  BY <1>2 DEF ThreadMoves, Generator!Exit, Generator!CommandsClosed, Generator!Generate,
     Generator!ExitReceived, Generator!Finish, Generator!Send, Generator!NoCommand
<1>3. CASE Generator!SendChunk \/ Generator!End
  BY <1>3 DEF ThreadMoves, Generator!SendChunk, Generator!End, Generator!BecomeInactive,
     Generator!Send
<1> QED
  BY <1>1, <1>2, <1>3 DEF Generator!Step

LEMMA CpalMoves ==
  ASSUME TypeOK, ControlInv, backend = "cpal",
         Cpal!Step \/ Cpal!Callback
  PROVE  ThreadMoves \/ DeviceMoves
<1> USE DEF Cpal!device, Cpal!buffer, Cpal!control, Cpal!output, Cpal!view, Cpal!data, Cpal!Go,
        Cpal!Report, ControlInv, EndsInactive, Closing, Opening, Waiting, Working,
        Ended, Final, Promise!Messages, TypeOK
<1>1. CASE Cpal!Open
  BY <1>1 DEF ThreadMoves, Cpal!Open, Cpal!OpenFails, Cpal!OpenSucceeds
<1>2. CASE Cpal!Begin
  BY <1>2 DEF ThreadMoves, Cpal!Begin, Cpal!Started, Cpal!NoStream
<1>3. CASE Cpal!Exit
  BY <1>3 DEF ThreadMoves, Cpal!Exit, Cpal!ExitReceived, Cpal!FinishOrPanic, Cpal!Send
<1>4. CASE Cpal!CommandsClosed \/ Cpal!LookForChunk \/ Cpal!Receive
  BY <1>4
     DEF ThreadMoves, Cpal!CommandsClosed, Cpal!LookForChunk, Cpal!Receive, Cpal!NoCommand
<1>5. CASE Cpal!ReceiveFails
  BY <1>5 DEF ThreadMoves, Cpal!ReceiveFails
<1>6. CASE Cpal!MakeChunk
  BY <1>6 DEF ThreadMoves, Cpal!MakeChunk, Cpal!JudgeChunk
<1>7. CASE Cpal!RateChanged
  BY <1>7 DEF ThreadMoves, Cpal!RateChanged, Cpal!RateIsOff, Cpal!Finish, Cpal!Send
<1>8. CASE Cpal!SendChunk \/ Cpal!End
  BY <1>8 DEF ThreadMoves, Cpal!SendChunk, Cpal!End, Cpal!BecomeInactive, Cpal!Send
<1>9. CASE Cpal!Callback
  BY <1>9 DEF DeviceMoves, Cpal!Callback
<1> QED
  BY <1>1, <1>2, <1>3, <1>4, <1>5, <1>6, <1>7, <1>8, <1>9 DEF Cpal!Step

LEMMA PulseMoves ==
  ASSUME TypeOK, ControlInv, backend = "pulse",
         Pulse!Step \/ Pulse!InnerStep
  PROVE  ThreadMoves \/ DeviceMoves
<1> USE DEF Pulse!device, Pulse!buffer, Pulse!control, Pulse!output, Pulse!view, Pulse!data,
        Pulse!Go, Pulse!Report, ControlInv, EndsInactive, Closing, Opening, Waiting,
        Working, Ended, Final, Promise!Messages, TypeOK
<1>1. CASE Pulse!Open \/ Pulse!Begin
  BY <1>1 DEF ThreadMoves, Pulse!Open, Pulse!Begin, Pulse!OpenFails, Pulse!OpenSucceeds,
     Pulse!Started
<1>2. CASE Pulse!Exit
  BY <1>2 DEF ThreadMoves, Pulse!Exit, Pulse!ExitReceived, Pulse!FinishOrPanic, Pulse!Send
<1>3. CASE Pulse!CommandsClosed \/ Pulse!LookForChunk
  BY <1>3 DEF ThreadMoves, Pulse!CommandsClosed, Pulse!LookForChunk, Pulse!NoCommand
<1>4. CASE Pulse!Read \/ Pulse!ReadFails
  BY <1>4 DEF ThreadMoves, Pulse!Read, Pulse!ReadFails, Pulse!JudgeChunk
<1>5. CASE Pulse!SendChunk \/ Pulse!End
  BY <1>5 DEF ThreadMoves, Pulse!SendChunk, Pulse!End, Pulse!BecomeInactive, Pulse!Send
<1>6. CASE Pulse!Callback \/ Pulse!ServerFails
  BY <1>6 DEF DeviceMoves, Pulse!Callback, Pulse!ServerFails, Pulse!Recording, Pulse!Record
<1> QED
  BY <1>1, <1>2, <1>3, <1>4, <1>5, <1>6 DEF Pulse!Step, Pulse!InnerStep

LEMMA CoreAudioMoves ==
  ASSUME TypeOK, ControlInv, backend = "coreaudio",
         CoreAudio!Step \/ CoreAudio!InnerStep
  PROVE  ThreadMoves \/ DeviceMoves
<1> USE DEF CoreAudio!device, CoreAudio!buffer, CoreAudio!control, CoreAudio!output,
        CoreAudio!view, CoreAudio!data, CoreAudio!Go, CoreAudio!Report, ControlInv,
        EndsInactive, Closing, Opening, Waiting, Working, Ended, Final,
        Promise!Messages, TypeOK
<1>1. CASE CoreAudio!Open
  BY <1>1 DEF ThreadMoves, CoreAudio!Open, CoreAudio!OpenFails, CoreAudio!OpenSucceeds,
     CoreAudio!Send
<1>2. CASE CoreAudio!Begin
  BY <1>2 DEF ThreadMoves, CoreAudio!Begin, CoreAudio!Started, CoreAudio!Send
<1>3. CASE CoreAudio!Exit \/ CoreAudio!RateEvent \/ CoreAudio!RateChanged
  BY <1>3 DEF ThreadMoves, CoreAudio!Exit, CoreAudio!RateEvent, CoreAudio!RateChanged,
     CoreAudio!ExitReceived, CoreAudio!NoCommand, CoreAudio!RateIsOff,
     CoreAudio!Finish, CoreAudio!Send
<1>4. CASE CoreAudio!CommandsClosed \/ CoreAudio!NotAlive
  BY <1>4 DEF ThreadMoves, CoreAudio!CommandsClosed, CoreAudio!NotAlive, CoreAudio!NoCommand
<1>5. CASE CoreAudio!MakeChunk
  BY <1>5 DEF ThreadMoves, CoreAudio!MakeChunk, CoreAudio!JudgeChunk, CoreAudio!NoCommand
<1>6. CASE CoreAudio!NoData
  BY <1>6 DEF ThreadMoves, CoreAudio!NoData, CoreAudio!NoCommand, CoreAudio!Send
<1>7. CASE CoreAudio!SendChunk \/ CoreAudio!End
  BY <1>7 DEF ThreadMoves, CoreAudio!SendChunk, CoreAudio!End, CoreAudio!BecomeInactive,
     CoreAudio!Send
<1>8. CASE CoreAudio!Callback \/ CoreAudio!Listener
  BY <1>8 DEF DeviceMoves, CoreAudio!Callback, CoreAudio!Listener, CoreAudio!Record
<1> QED
  BY <1>1, <1>2, <1>3, <1>4, <1>5, <1>6, <1>7, <1>8 DEF CoreAudio!Step, CoreAudio!InnerStep

LEMMA PipeWireMoves ==
  ASSUME TypeOK, ControlInv, backend = "pipewire",
         PipeWire!Step \/ PipeWire!Callback
  PROVE  ThreadMoves \/ DeviceMoves
<1> USE DEF PipeWire!device, PipeWire!buffer, PipeWire!control, PipeWire!output, PipeWire!view,
        PipeWire!data, PipeWire!Go, PipeWire!Report, ControlInv, EndsInactive,
        Closing, Opening, Waiting, Working, Ended, Final, Promise!Messages, TypeOK
<1>1. CASE PipeWire!Open \/ PipeWire!Begin
  BY <1>1 DEF ThreadMoves, PipeWire!Open, PipeWire!Begin, PipeWire!OpenFails,
     PipeWire!OpenSucceeds, PipeWire!Started
<1>2. CASE PipeWire!Exit
  BY <1>2 DEF ThreadMoves, PipeWire!Exit, PipeWire!ExitReceived, PipeWire!SetExitFlag,
     PipeWire!Send
<1>3. CASE PipeWire!CommandsClosed \/ PipeWire!MakeChunk
  BY <1>3 DEF ThreadMoves, PipeWire!CommandsClosed, PipeWire!MakeChunk, PipeWire!NoCommand,
     PipeWire!JudgeChunk
<1>4. CASE PipeWire!Deliver
  BY <1>4 DEF ThreadMoves, PipeWire!Deliver, PipeWire!TrySend, PipeWire!Send,
     PipeWire!SetExitFlag
<1>5. CASE PipeWire!End
  BY <1>5 DEF ThreadMoves, PipeWire!End
<1>6. CASE PipeWire!Callback
  BY <1>6 DEF DeviceMoves, PipeWire!Callback, PipeWire!Record
<1> QED
  BY <1>1, <1>2, <1>3, <1>4, <1>5, <1>6 DEF PipeWire!Step

LEMMA AsioMoves ==
  ASSUME TypeOK, ControlInv, backend = "asio",
         Asio!Step \/ Asio!InnerStep
  PROVE  ThreadMoves \/ DeviceMoves
<1> USE DEF Asio!device, Asio!buffer, Asio!control, Asio!output, Asio!view, Asio!data, Asio!Go,
        Asio!Report, ControlInv, EndsInactive, Closing, Opening, Waiting, Working,
        Ended, Final, Promise!Messages, TypeOK
<1>1. CASE Asio!Open
  BY <1>1 DEF ThreadMoves, Asio!Open, Asio!OpenFails, Asio!OpenSucceeds, Asio!Send
<1>2. CASE Asio!Begin
  BY <1>2 DEF ThreadMoves, Asio!Begin, Asio!Started
<1>3. CASE Asio!RateEvent \/ Asio!Exit \/ Asio!RateChanged
  BY <1>3 DEF ThreadMoves, Asio!RateEvent, Asio!Exit, Asio!RateChanged, Asio!ExitReceived,
     Asio!RateIsOff, Asio!Finish, Asio!Send
<1>4. CASE Asio!Disconnected \/ Asio!LookForChunk \/ Asio!ReadNote
  BY <1>4 DEF ThreadMoves, Asio!Disconnected, Asio!LookForChunk, Asio!ReadNote,
     Asio!CommandsClosed, Asio!NoCommand
<1>5. CASE Asio!MakeChunk
  BY <1>5 DEF ThreadMoves, Asio!MakeChunk, Asio!JudgeChunk
<1>6. CASE Asio!SendChunk \/ Asio!End
  BY <1>6 DEF ThreadMoves, Asio!SendChunk, Asio!End, Asio!BecomeInactive, Asio!Send
<1>7. CASE Asio!Callback \/ Asio!MessageCallback
  BY <1>7
     DEF DeviceMoves, Asio!Callback, Asio!MessageCallback, Asio!RecordAndOffer, Asio!Record
<1> QED
  BY <1>1, <1>2, <1>3, <1>4, <1>5, <1>6, <1>7 DEF Asio!Step, Asio!InnerStep

LEMMA WasapiMoves ==
  ASSUME TypeOK, ControlInv, backend = "wasapi",
         Wasapi!Step \/ (Wasapi!InnerStep \/ Wasapi!InnerStops)
  PROVE  ThreadMoves \/ DeviceMoves
<1> USE DEF Wasapi!device, Wasapi!buffer, Wasapi!control, Wasapi!output, Wasapi!view, Wasapi!data,
        Wasapi!Go, Wasapi!Report, ControlInv, EndsInactive, Closing, Opening, Waiting,
        Working, Ended, Final, Promise!Messages, TypeOK
<1>1. CASE Wasapi!Open
  BY <1>1 DEF ThreadMoves, Wasapi!Open, Wasapi!OpenFails, Wasapi!OpenSucceeds, Wasapi!Send
<1>2. CASE Wasapi!Begin
  BY <1>2 DEF ThreadMoves, Wasapi!Begin, Wasapi!Started
<1>3. CASE Wasapi!Exit \/ Wasapi!RateChanged
  BY <1>3 DEF ThreadMoves, Wasapi!Exit, Wasapi!RateChanged, Wasapi!ExitReceived,
     Wasapi!RateIsOff, Wasapi!Finish, Wasapi!Send
<1>4. CASE Wasapi!InnerHasFailed \/ Wasapi!NotesClosed
  BY <1>4 DEF ThreadMoves, Wasapi!InnerHasFailed, Wasapi!NotesClosed, Wasapi!NoCommand,
     Wasapi!FailureReport, Wasapi!Send
<1>5. CASE Wasapi!CommandsClosed \/ Wasapi!LookForChunk \/ Wasapi!Drain \/ Wasapi!StopInner
  BY <1>5 DEF ThreadMoves, Wasapi!CommandsClosed, Wasapi!LookForChunk, Wasapi!Drain,
     Wasapi!StopInner, Wasapi!NoCommand
<1>6. CASE Wasapi!ReadNote
  BY <1>6 DEF ThreadMoves, Wasapi!ReadNote
<1>7. CASE Wasapi!MakeChunk
  BY <1>7 DEF ThreadMoves, Wasapi!MakeChunk, Wasapi!JudgeChunk
<1>8. CASE Wasapi!Pause
  BY <1>8 DEF ThreadMoves, Wasapi!Pause, Wasapi!Send
<1>9. CASE Wasapi!SendChunk \/ Wasapi!End
  BY <1>9 DEF ThreadMoves, Wasapi!SendChunk, Wasapi!End, Wasapi!BecomeInactive, Wasapi!Send
<1>10. CASE Wasapi!Deliver \/ Wasapi!Timeout \/ Wasapi!InnerFails \/ Wasapi!InnerStops
  BY <1>10
     DEF DeviceMoves, Wasapi!Deliver, Wasapi!Timeout, Wasapi!InnerFails, Wasapi!InnerStops,
     Wasapi!RecordAndOffer, Wasapi!Record
<1> QED
  BY <1>1, <1>2, <1>3, <1>4, <1>5, <1>6, <1>7, <1>8, <1>9, <1>10
     DEF Wasapi!Step, Wasapi!InnerStep

LEMMA AlsaMoves ==
  ASSUME TypeOK, ControlInv, backend = "alsa",
         Alsa!Step \/ Alsa!Callback
  PROVE  ThreadMoves \/ DeviceMoves
<1> USE DEF Alsa!device, Alsa!buffer, Alsa!control, Alsa!output, Alsa!view, Alsa!data, Alsa!Go,
        Alsa!Report, ControlInv, EndsInactive, Closing, Opening, Waiting, Working,
        Ended, Final, Promise!Messages, TypeOK
<1>1. CASE Alsa!Open \/ Alsa!Begin
  BY <1>1 DEF ThreadMoves, Alsa!Open, Alsa!Begin, Alsa!OpenFails, Alsa!OpenSucceeds,
     Alsa!Started
<1>2. CASE Alsa!Exit \/ Alsa!RateChanged
  BY <1>2 DEF ThreadMoves, Alsa!Exit, Alsa!RateChanged, Alsa!ExitReceived, Alsa!RateIsOff,
     Alsa!Finish, Alsa!Send
<1>3. CASE Alsa!CommandsClosed
  BY <1>3 DEF ThreadMoves, Alsa!CommandsClosed, Alsa!NoCommand
<1>4. CASE Alsa!ReadChunk \/ Alsa!DeviceStalls
  BY <1>4 DEF ThreadMoves, Alsa!ReadChunk, Alsa!DeviceStalls, Alsa!NoCommand
<1>5. CASE Alsa!SourceEnds
  BY <1>5 DEF ThreadMoves, Alsa!SourceEnds, Alsa!NoCommand, Alsa!Send
<1>6. CASE Alsa!ReadFails
  BY <1>6 DEF ThreadMoves, Alsa!ReadFails, Alsa!NoCommand, Alsa!Send
<1>7. CASE Alsa!SendChunk \/ Alsa!End
  BY <1>7 DEF ThreadMoves, Alsa!SendChunk, Alsa!End, Alsa!BecomeInactive, Alsa!Send
<1>8. CASE Alsa!Callback
  BY <1>8 DEF DeviceMoves, Alsa!Callback, Alsa!Record
<1> QED
  BY <1>1, <1>2, <1>3, <1>4, <1>5, <1>6, <1>7, <1>8 DEF Alsa!Step

LEMMA AlsaThreadedMoves ==
  ASSUME TypeOK, ControlInv, backend = "alsaThreaded",
         AlsaThreaded!Step \/ AlsaThreaded!InnerStep
  PROVE  ThreadMoves \/ DeviceMoves
<1> USE DEF AlsaThreaded!device, AlsaThreaded!buffer, AlsaThreaded!control, AlsaThreaded!output,
        AlsaThreaded!view, AlsaThreaded!data, AlsaThreaded!Go, AlsaThreaded!Report,
        ControlInv, EndsInactive, Closing, Opening, Waiting, Working, Ended, Final,
        Promise!Messages, TypeOK, InnerInv
<1>1. CASE AlsaThreaded!Open \/ AlsaThreaded!Begin
  BY <1>1 DEF ThreadMoves, AlsaThreaded!Open, AlsaThreaded!Begin, AlsaThreaded!OpenFails,
     AlsaThreaded!OpenSucceeds, AlsaThreaded!Started
<1>2. CASE AlsaThreaded!Command \/ AlsaThreaded!ReadNote
  BY <1>2 DEF ThreadMoves, AlsaThreaded!Command, AlsaThreaded!ReadNote
<1>3. CASE AlsaThreaded!ReadEnd
  <2>1. notes # <<>> => 1 \in 1..Len(notes) /\ Head(notes) = notes[1]
    OBVIOUS
  <2>2. told \cap Final # {}
    BY <1>3, <2>1 DEF AlsaThreaded!ReadEnd, AlsaThreaded!EndNote, EndNote
  <2> QED
    BY <1>3, <2>2 DEF ThreadMoves, AlsaThreaded!ReadEnd, AlsaThreaded!Send
<1>4. CASE AlsaThreaded!NotesClosed \/ AlsaThreaded!RateChanged
  BY <1>4 DEF ThreadMoves, AlsaThreaded!NotesClosed, AlsaThreaded!RateChanged,
     AlsaThreaded!RateIsOff, AlsaThreaded!Finish, AlsaThreaded!Send
<1>5. CASE AlsaThreaded!Drain \/ AlsaThreaded!MakeChunk
  BY <1>5
     DEF ThreadMoves, AlsaThreaded!Drain, AlsaThreaded!MakeChunk, AlsaThreaded!JudgeChunk
<1>6. CASE AlsaThreaded!Pause \/ AlsaThreaded!Deliver
  BY <1>6 DEF ThreadMoves, AlsaThreaded!Pause, AlsaThreaded!Deliver, AlsaThreaded!TrySend,
     AlsaThreaded!Send
<1>7. CASE AlsaThreaded!End
  BY <1>7 DEF ThreadMoves, AlsaThreaded!End, AlsaThreaded!BecomeInactive
<1>8. CASE AlsaThreaded!Read \/ AlsaThreaded!ReadNothing
  BY <1>8
     DEF DeviceMoves, AlsaThreaded!Read, AlsaThreaded!ReadNothing, AlsaThreaded!Reading,
     AlsaThreaded!RecordAndOffer, AlsaThreaded!Record
<1>9. CASE AlsaThreaded!InnerEnds \/ AlsaThreaded!TellEnd
  BY <1>9
     DEF DeviceMoves, AlsaThreaded!InnerEnds, AlsaThreaded!TellEnd, AlsaThreaded!Reading
<1> QED
  BY <1>1, <1>2, <1>3, <1>4, <1>5, <1>6, <1>7, <1>8, <1>9
     DEF AlsaThreaded!Step, AlsaThreaded!InnerStep

\* A step of the backend that is in use.
LEMMA BackendMoves ==
  ASSUME TypeOK, ControlInv, Thread \/ Device \/ InnerStops PROVE ThreadMoves \/ DeviceMoves
  BY GeneratorMoves, CpalMoves, PulseMoves, CoreAudioMoves, PipeWireMoves, AsioMoves, WasapiMoves,
     AlsaMoves, AlsaThreadedMoves
     DEF Thread, Device, InnerStops

\* What the channel of notes holds when a note is read from it, added or dropped.
LEMMA NoteQueues ==
  ASSUME NEW q \in Seq(0..EndNote)
  PROVE  /\ q # <<>> => \A i \in 1..Len(Tail(q)) : \E j \in 1..Len(q) : Tail(q)[i] = q[j]
         /\ \A n \in 0..EndNote : \A i \in 1..Len(Append(q, n)) :
              Append(q, n)[i] = n \/ \E j \in 1..Len(q) : Append(q, n)[i] = q[j]
<1>1. ASSUME q # <<>>, NEW i \in 1..Len(Tail(q))
      PROVE  \E j \in 1..Len(q) : Tail(q)[i] = q[j]
  <2>1. Len(Tail(q)) = Len(q) - 1 /\ i + 1 \in 1..Len(q) /\ Tail(q)[i] = q[i + 1]
    BY <1>1
  <2> QED
    BY <2>1
<1>2. ASSUME NEW n \in 0..EndNote, NEW i \in 1..Len(Append(q, n))
      PROVE  Append(q, n)[i] = n \/ \E j \in 1..Len(q) : Append(q, n)[i] = q[j]
  <2>1. Len(Append(q, n)) = Len(q) + 1 /\ Append(q, n)[Len(q) + 1] = n
        /\ \A j \in 1..Len(q) : Append(q, n)[j] = q[j]
    OBVIOUS
  <2>2. i \in 1..Len(q) \/ i = Len(q) + 1
    BY <2>1
  <2> QED
    BY <2>1, <2>2
<1> QED
  BY <1>1, <1>2

\* The outer and the inner thread of ALSA.
LEMMA NextInnerInv ==
  ASSUME TypeOK, ControlInv, Next \/ UNCHANGED vars PROVE InnerInv'
<1> USE DEF Opening, Waiting, Working, Ended, Final
<1>1. UNCHANGED backend /\ told \subseteq told'
  <2>1. Environment => UNCHANGED <<backend, told>>
    BY DEF Environment, SendExit, SupervisorLeaves, Consume, ProcessingStops, PassBarrier, output
  <2>2. ThreadMoves \/ DeviceMoves => UNCHANGED backend /\ told \subseteq told'
    BY DEF ThreadMoves, DeviceMoves, ControlInv
  <2> QED
    BY <2>1, <2>2, BackendMoves DEF Next, vars, output
<1>2. ASSUME UNCHANGED <<inner, notes, published>>,
             pc' = pc \/ (pc = "barrier" /\ pc' = "start") \/ (pc = "failed" /\ pc' = "done")
      PROVE  InnerInv'
  BY <1>1, <1>2 DEF InnerInv, ControlInv, EndNote
<1>3. ASSUME backend = "alsaThreaded", AlsaThreaded!Step \/ AlsaThreaded!InnerStep PROVE InnerInv'
  <2>1. /\ pc \in Opening \cup Waiting \cup {"start"} => inner = "none"
        /\ inner \in {"blocked", "over"} => told \cap Final # {}
        /\ pc \in Ended => inner \in {"none", "over"}
        /\ pc = "join" => published = "Inactive"
        /\ \A i \in 1..Len(notes) : notes[i] = EndNote => told \cap Final # {}
        /\ notes \in Seq(0..EndNote) /\ EndNote \in Nat /\ EndNote > 1
    BY <1>3, CaptureAssumption DEF InnerInv, ControlInv, TypeOK, EndNote
  <2>2. \/ notes' = notes
        \/ notes' = <<>>
        \/ notes # <<>> /\ notes' = Tail(notes)
        \/ \E n \in 0..EndNote : notes' = Append(notes, n) /\ (n = EndNote => told \cap Final # {})
    <3>1. CASE AlsaThreaded!Step
      BY <3>1
         DEF AlsaThreaded!Step, AlsaThreaded!Open, AlsaThreaded!OpenFails, AlsaThreaded!OpenSucceeds,
         AlsaThreaded!Begin, AlsaThreaded!Started, AlsaThreaded!Command, AlsaThreaded!ReadNote,
         AlsaThreaded!ReadEnd, AlsaThreaded!NotesClosed, AlsaThreaded!RateChanged, AlsaThreaded!Finish,
         AlsaThreaded!Drain, AlsaThreaded!Pause, AlsaThreaded!MakeChunk, AlsaThreaded!Deliver,
         AlsaThreaded!End, AlsaThreaded!BecomeInactive, AlsaThreaded!buffer
    <3>2. CASE AlsaThreaded!InnerStep
      BY <2>1, <3>2
         DEF AlsaThreaded!InnerStep, AlsaThreaded!Read, AlsaThreaded!RecordAndOffer,
         AlsaThreaded!ReadNothing, AlsaThreaded!InnerEnds, AlsaThreaded!TellEnd, AlsaThreaded!Offer,
         AlsaThreaded!buffer, AlsaThreaded!EndNote, EndNote
    <3> QED
      BY <1>3, <3>1, <3>2
  <2>3. \A i \in 1..Len(notes') : notes'[i] = EndNote => told' \cap Final # {}
    <3> SUFFICES ASSUME NEW i \in 1..Len(notes'), notes'[i] = EndNote PROVE told \cap Final # {}
      BY <1>1
    <3>1. CASE notes' = notes
      BY <2>1, <3>1
    <3>2. CASE notes' = <<>>
      BY <3>2
    <3>3. CASE notes # <<>> /\ notes' = Tail(notes)
      BY <2>1, <3>3, NoteQueues
    <3>4. ASSUME NEW n \in 0..EndNote, notes' = Append(notes, n),
                 n = EndNote => told \cap Final # {}
          PROVE  told \cap Final # {}
      BY <2>1, <3>4, NoteQueues
    <3> QED
      BY <2>2, <3>1, <3>2, <3>3, <3>4
  <2>4. ASSUME AlsaThreaded!Step
        PROVE  /\ pc' \in Opening \cup Waiting \cup {"start"} => inner' = "none"
               /\ inner' \in {"blocked", "over"} => inner' = inner
               /\ pc' \in Ended => inner' \in {"none", "over"}
               /\ pc' = "join" => published' = "Inactive"
    <3> USE <2>1, <2>4
            DEF AlsaThreaded!device, AlsaThreaded!view, AlsaThreaded!Go
    <3>1. CASE AlsaThreaded!Open \/ AlsaThreaded!Begin
      BY <3>1
         DEF AlsaThreaded!Open, AlsaThreaded!OpenFails, AlsaThreaded!OpenSucceeds, AlsaThreaded!Begin,
         AlsaThreaded!Started
    <3>2. CASE AlsaThreaded!Command \/ AlsaThreaded!ReadNote \/ AlsaThreaded!ReadEnd
      BY <3>2 DEF AlsaThreaded!Command, AlsaThreaded!ReadNote, AlsaThreaded!ReadEnd
    <3>3. CASE AlsaThreaded!NotesClosed \/ AlsaThreaded!RateChanged
      BY <3>3
         DEF AlsaThreaded!NotesClosed, AlsaThreaded!RateChanged, AlsaThreaded!RateIsOff,
         AlsaThreaded!Finish
    <3>4. CASE \/ AlsaThreaded!Drain \/ AlsaThreaded!Pause \/ AlsaThreaded!MakeChunk
               \/ AlsaThreaded!Deliver
      BY <3>4
         DEF AlsaThreaded!Drain, AlsaThreaded!Pause, AlsaThreaded!MakeChunk, AlsaThreaded!Deliver
    <3>5. CASE AlsaThreaded!End
      BY <3>5 DEF AlsaThreaded!End, AlsaThreaded!BecomeInactive
    <3> QED
      BY <3>1, <3>2, <3>3, <3>4, <3>5 DEF AlsaThreaded!Step
  <2>5. ASSUME AlsaThreaded!InnerStep
        PROVE  /\ pc' = pc
               /\ inner' \in {"blocked", "over"} => told' \cap Final # {}
               /\ published' \in {published, "Inactive"}
               /\ inner' # inner => inner \in {"running", "asked", "blocked"}
    BY <1>1, <2>1, <2>5
       DEF AlsaThreaded!InnerStep, AlsaThreaded!Read, AlsaThreaded!Reading, AlsaThreaded!RecordAndOffer,
       AlsaThreaded!Record, AlsaThreaded!ReadNothing, AlsaThreaded!InnerEnds, AlsaThreaded!TellEnd,
       AlsaThreaded!Report, AlsaThreaded!view, AlsaThreaded!device, AlsaThreaded!control
  <2> QED
    BY <1>1, <1>3, <2>1, <2>3, <2>4, <2>5 DEF InnerInv
<1> QED
  BY <1>1, <1>2, <1>3
     DEF InnerInv, Next, Environment, SendExit, SupervisorLeaves, Consume, ProcessingStops, PassBarrier,
     vars, device, buffer, view, Thread, Device, InnerStops

-----------------------------------------------------------------------------
\* ------------------------- The reports and the contract -------------------

\* The phase of the contract, place by place.
PhaseIsRight ==
  /\ pc = "open" => Phase = "opening"
  /\ pc = "barrier" => Phase = "ready"
  /\ pc = "failed" => Phase = "failed"
  /\ pc \in Working => Phase = "streaming"
  /\ pc \in Ended => Phase = "over"

LEMMA Phases == PhaseIsRight /\ PhaseIsRight'
<1>1. PhaseIsRight
  BY DEF PhaseIsRight, Phase, Opening, Waiting, Working, Ended
<1> QED
  BY <1>1, PTL

\* Both kinds of step, and those of the environment, keep the invariant and are steps of
\* the contract.
LEMMA ThreadControl ==
  ASSUME ControlInv, InnerInv', ThreadMoves
  PROVE  ControlInv' /\ Promise!Next
<1> USE Phases DEF PhaseIsRight, ThreadMoves, Opening, Waiting, Working, Ended, Final, Closing
<1>1. ControlInv'
  BY DEF ControlInv, EndsInactive
<1>2. ASSUME pc = "open" /\ pc' = "barrier" PROVE Promise!Next
  <2>1. \E errors \in SUBSET {"Error"} : told' = {"Ready"} \cup errors
    <3>1. {"Ready"} = {"Ready"} \cup {} /\ {"Ready", "Error"} = {"Ready"} \cup {"Error"}
      OBVIOUS
    <3> QED
      BY <1>2, <3>1
  <2> QED
    BY <1>2, <2>1 DEF Promise!Next, Promise!BecomeReady
<1>3. ASSUME pc = "open" /\ pc' = "failed" PROVE Promise!Next
  BY <1>3 DEF ControlInv, Promise!Next, Promise!Fail
<1>4. ASSUME pc \in Working PROVE Promise!Next
  <2>1. Promise!Speak
    <3>1. \E more \in SUBSET Promise!Final : told' = told \cup more
      <4>1. told' = told \cup (told' \ told) /\ told' \ told \in SUBSET Promise!Final
        BY <1>4 DEF Promise!Final
      <4> QED
        BY <4>1
    <3>2. last' \in IF last = "EndOfStream" THEN {last} ELSE Promise!Messages \cup {last}
      BY <1>4 DEF ControlInv
    <3> QED
      BY <3>1, <3>2 DEF Promise!Speak
  <2>2. ASSUME pc' \in Working PROVE Promise!Next
    BY <1>4, <2>1, <2>2 DEF Promise!Next, Promise!Stream
  <2>3. ASSUME pc' \in Ended PROVE Promise!Next
    BY <1>4, <2>1, <2>3 DEF Promise!Next, Promise!End, Promise!Final
  <2> QED
    BY <1>4, <2>2, <2>3
<1> QED
  BY <1>1, <1>2, <1>3, <1>4

LEMMA DeviceControl ==
  ASSUME ControlInv, InnerInv', DeviceMoves
  PROVE  ControlInv' /\ (Promise!Next \/ UNCHANGED Promise!contract)
<1> USE Phases DEF PhaseIsRight, DeviceMoves, Opening, Waiting, Working, Ended, Final, Closing
<1>1. ControlInv'
  BY DEF ControlInv, EndsInactive
<1>2. UNCHANGED <<Phase, last, processing>>
  BY DEF Phase
<1>3. ASSUME told' = told PROVE UNCHANGED Promise!contract
  BY <1>2, <1>3 DEF Promise!contract
<1>4. ASSUME told' # told PROVE Promise!Next
  <2>1. told' = told \cup (told' \ told) /\ told' \ told \in SUBSET Promise!Final
    BY DEF Promise!Final
  <2>2. Promise!Speak
    BY <1>2, <2>1 DEF Promise!Speak
  <2> QED
    BY <1>2, <1>4, <2>2 DEF Promise!Next, Promise!Stream
<1> QED
  BY <1>1, <1>3, <1>4

LEMMA EnvironmentControl ==
  ASSUME TypeOK, ControlInv, InnerInv', Environment \/ UNCHANGED vars
  PROVE  ControlInv' /\ (Promise!Next \/ UNCHANGED Promise!contract)
<1> USE Phases DEF PhaseIsRight, Opening, Waiting, Working, Ended, Final, Closing, output, view
<1>1. CASE SendExit \/ Consume \/ UNCHANGED vars
  <2>1. UNCHANGED <<backend, pc, supervisor, processing, last, told, published>>
    BY <1>1 DEF SendExit, Consume, control, vars
  <2> QED
    BY <2>1 DEF ControlInv, EndsInactive, Phase, Promise!contract
<1>2. CASE SupervisorLeaves
  BY <1>2 DEF SupervisorLeaves, ControlInv, EndsInactive, Phase, Promise!contract
<1>3. CASE ProcessingStops
  BY <1>3
     DEF ProcessingStops, ControlInv, EndsInactive, Phase, Promise!Next, Promise!ProcessingStops
<1>4. CASE PassBarrier
  BY <1>4
     DEF PassBarrier, control, ControlInv, EndsInactive, Phase, Promise!Next, Promise!PassBarrier
<1> QED
  BY <1>1, <1>2, <1>3, <1>4 DEF Environment

LEMMA NextControl ==
  ASSUME TypeOK, ControlInv, Next \/ UNCHANGED vars
  PROVE  ControlInv' /\ (Promise!Next \/ UNCHANGED Promise!contract)
  BY NextInnerInv, BackendMoves, ThreadControl, DeviceControl, EnvironmentControl DEF Next

-----------------------------------------------------------------------------
\* ---------------------------------- Types ---------------------------------

\* A set of numbers with a bound has a greatest one: one below which the rest of the
\* way to the bound is least.
LEMMA MaxIsThere ==
  ASSUME NEW n \in Nat, NEW S \in SUBSET (0..n), S # {}
  PROVE  Max(S) \in S /\ \A x \in S : Max(S) >= x
<1> DEFINE R == OpToRel(<, Nat)
           T == {n - x : x \in S}
<1>1. T \subseteq Nat /\ T # {}
  <2>1. ASSUME NEW x \in S PROVE n - x \in Nat
    OBVIOUS
  <2>2. \E x \in S : n - x \in T
    OBVIOUS
  <2> QED
    BY <2>1, <2>2
<1>2. IsWellFoundedOn(R, Nat)
  BY NatLessThanWellFounded
<1> HIDE DEF R, T
<1>3. PICK m \in T : \A y \in T : ~(<<y, m>> \in R)
  BY <1>1, <1>2, WFMin
<1>4. PICK x \in S : m = n - x
  BY <1>3 DEF T
<1>5. ASSUME NEW y \in S PROVE x >= y
  <2>1. n - y \in T /\ n - y \in Nat /\ m \in Nat
    BY <1>1, <1>3 DEF T
  <2>2. ~(n - y < m)
    BY <1>3, <2>1 DEF R, OpToRel
  <2> QED
    BY <1>4, <2>1, <2>2
<1> QED
  BY <1>5 DEF Max

\* The least of two numbers.
LEMMA MinOfTwo ==
  ASSUME NEW a \in Nat, NEW b \in Nat
  PROVE  Min({a, b}) \in {a, b} /\ Min({a, b}) <= a /\ Min({a, b}) <= b
<1>1. \E x \in {a, b} : \A y \in {a, b} : x <= y
  BY a <= b \/ b <= a
<1> QED
  BY <1>1 DEF Min

\* The part of TypeOK that is about sound; the channel of CPAL holds one packet.
SoundTypeOK ==
  /\ produced \in 0..MaxPackets
  /\ ring \in Seq(1..MaxPackets) /\ Len(ring) <= RingCapacity
  /\ chunk \in [1..ChunkPackets -> 0..MaxPackets]
  /\ newest \in 0..MaxPackets /\ stale \in BOOLEAN
  /\ backend = "cpal" => Len(notes) <= 1 /\ \A i \in 1..Len(notes) : notes[i] \in 1..MaxPackets

\* Sound that has been captured after what was sent, in its order.
InOrder(q)      == \A i, j \in 1..Len(q) : i < j => q[i] < q[j]
Between(a, q, b) == \A i \in 1..Len(q) : a < q[i] /\ q[i] <= b
Before(p, q)    == \A i \in 1..Len(p), j \in 1..Len(q) : p[i] < q[j]

InChannel == IF backend = "cpal" THEN notes ELSE <<>>
ToBeSent  == pc = "send" /\ state = "Running"

\* The ring buffer comes after what was sent, the channel after the ring buffer, and a
\* chunk that is about to be sent between them.
SoundInv ==
  /\ pc = "pop" \/ (pc = "drain" /\ state # "Stalled") => HasChunk
  /\ backend = "generator" => ring = <<>>
  /\ backend \notin {"asio", "pulse"} =>
       /\ ~stale /\ newest <= produced
       /\ InOrder(ring) /\ Between(newest, ring, produced)
       /\ Between(newest, InChannel, produced) /\ Before(ring, InChannel)
       /\ ToBeSent => /\ InOrder(chunk) /\ Between(newest, chunk, produced)
                      /\ Before(chunk, ring) /\ Before(chunk, InChannel)

\* What a step does with the sound.
Keep    == UNCHANGED <<ring, produced, data, InChannel>>
             /\ (ToBeSent' => ToBeSent \/ backend \in {"asio", "pulse"})
Pop     == PopSlice /\ UNCHANGED <<produced, newest, stale, InChannel>>
             /\ (HasChunk \/ backend = "asio")
Pass    == Remember /\ ToBeSent /\ ~ToBeSent' /\ UNCHANGED <<ring, produced, InChannel>>
Push    == /\ produced < MaxPackets /\ produced' = produced + 1
           /\ \/ ring' = ring
              \/ Len(ring) < RingCapacity /\ ring' = Append(ring, produced + 1)
           /\ UNCHANGED <<data, pc, state>> /\ backend \notin {"generator", "cpal"}
Forget  == ring' = <<>> /\ ~ToBeSent' /\ UNCHANGED <<produced, data>> /\ backend # "cpal"
Invent  == /\ backend = "generator" /\ produced + ChunkPackets <= MaxPackets
           /\ produced' = produced + ChunkPackets
           /\ chunk' = [i \in 1..ChunkPackets |-> produced + i]
           /\ UNCHANGED <<ring, newest, stale>>
Put     == /\ backend = "cpal" /\ notes = <<>> /\ produced < MaxPackets
           /\ produced' = produced + 1 /\ notes' = <<produced + 1>>
           /\ UNCHANGED <<ring, data, pc, state>>
Take    == /\ backend = "cpal" /\ ~HasChunk /\ ~ToBeSent' /\ notes # <<>>
           /\ ring' = Append(ring, Head(notes)) /\ notes' = Tail(notes)
           /\ UNCHANGED <<produced, data>>

SoundMoves ==
  /\ UNCHANGED backend
  /\ pc' = "pop" \/ (pc' = "drain" /\ state' # "Stalled") => HasChunk /\ (ring' = ring \/ Push)
  /\ Keep \/ Pop \/ Pass \/ Push \/ Forget \/ Invent \/ Put \/ Take

\* Chunks and the channel are sequences.
LEMMA Chunks ==
  ASSUME SoundTypeOK
  PROVE  /\ chunk \in Seq(0..MaxPackets) /\ Len(chunk) = ChunkPackets
         /\ ChunkPackets \in Nat \ {0} /\ MaxPackets \in Nat /\ RingCapacity \in Nat
         /\ ChunkPackets < RingCapacity
         /\ ring \in Seq(1..MaxPackets) /\ Len(ring) \in Nat
<1>1. ring \in Seq(1..MaxPackets) /\ Len(ring) \in Nat
  BY DEF SoundTypeOK
<1> QED
  BY <1>1, CaptureAssumption DEF SoundTypeOK

\* pop_slice moves the oldest packets to the front of the data buffer.
LEMMA Popped ==
  ASSUME SoundTypeOK, PopSlice
  PROVE  \E n \in 0..Len(ring) :
           /\ n <= ChunkPackets /\ (HasChunk => n = ChunkPackets)
           /\ chunk' = [i \in 1..ChunkPackets |-> IF i <= n THEN ring[i] ELSE chunk[i]]
           /\ ring' \in Seq(1..MaxPackets) /\ Len(ring') = Len(ring) - n
           /\ \A i \in 1..Len(ring') : ring'[i] = ring[i + n]
<1> DEFINE n == Min({Len(ring), ChunkPackets})
<1>1. n \in {Len(ring), ChunkPackets} /\ n <= Len(ring) /\ n <= ChunkPackets
  <2> HIDE DEF n
  <2>1. Len(ring) \in Nat /\ ChunkPackets \in Nat
    BY Chunks
  <2> QED
    BY <2>1, MinOfTwo DEF n
<1>2. /\ chunk' = [i \in 1..ChunkPackets |-> IF i <= n THEN ring[i] ELSE chunk[i]]
      /\ ring' = SubSeq(ring, n + 1, Len(ring))
  BY DEF PopSlice
<1> HIDE DEF n
<1>3. n \in 0..Len(ring)
  BY <1>1, Chunks
<1>4. /\ ring' \in Seq(1..MaxPackets) /\ Len(ring') = Len(ring) - n
      /\ \A i \in 1..Len(ring') : ring'[i] = ring[i + n]
  <2>1. \A i \in (n + 1)..Len(ring) : ring[i] \in 1..MaxPackets
    BY <1>3, Chunks
  <2>2. n + 1 \in Int /\ Len(ring) \in Int
    BY <1>3, Chunks
  <2>3. /\ ring' \in Seq(1..MaxPackets)
        /\ Len(ring') = IF n + 1 <= Len(ring) THEN Len(ring) - (n + 1) + 1 ELSE 0
        /\ \A i \in 1..(Len(ring) - (n + 1) + 1) : ring'[i] = ring[n + 1 + i - 1]
    BY <1>2, <2>1, <2>2, SubSeqProperties
  <2> QED
    BY <1>3, <2>2, <2>3
<1>5. HasChunk => n = ChunkPackets
  BY <1>1, Chunks DEF HasChunk
<1> QED
  BY <1>1, <1>2, <1>3, <1>4, <1>5

\* A packet at the end of the ring buffer or of the channel.
LEMMA Appended ==
  ASSUME NEW q \in Seq(1..MaxPackets), NEW p \in 1..MaxPackets
  PROVE  /\ Append(q, p) \in Seq(1..MaxPackets)
         /\ Len(Append(q, p)) = Len(q) + 1 /\ Append(q, p)[Len(q) + 1] = p
         /\ \A i \in 1..Len(q) : Append(q, p)[i] = q[i]
  OBVIOUS

\* The channel of CPAL, with a packet in it.
LEMMA OnePacket ==
  ASSUME SoundTypeOK, backend = "cpal", notes # <<>>, notes \in Seq(0..EndNote)
  PROVE  /\ Len(notes) = 1 /\ Head(notes) = notes[1] /\ notes[1] \in 1..MaxPackets
         /\ Tail(notes) = <<>>
<1>1. \A i \in 1..Len(notes) : notes[i] \in 1..MaxPackets
  BY DEF SoundTypeOK
<1>2. Len(notes) = 1
  <2>1. Len(notes) \in Nat /\ Len(notes) # 0
    BY EmptySeq
  <2>2. Len(notes) <= 1
    BY DEF SoundTypeOK
  <2>3. \A n \in Nat : n # 0 /\ n <= 1 => n = 1
    OBVIOUS
  <2> QED
    BY <2>1, <2>2, <2>3, Zenon
<1>3. notes[1] \in 1..MaxPackets
  BY <1>1, <1>2
<1>4. Head(notes) = notes[1] /\ Tail(notes) \in Seq(0..EndNote) /\ Len(Tail(notes)) = 0
  BY <1>2
<1>5. Tail(notes) = <<>>
  BY <1>4, EmptySeq
<1> QED
  BY <1>2, <1>3, <1>4, <1>5

\* What is remembered of a chunk.
LEMMA Remembered ==
  ASSUME SoundTypeOK, Remember
  PROVE  /\ newest' \in 0..MaxPackets
         /\ newest' = newest \/ \E i \in 1..ChunkPackets : newest' = chunk[i]
         /\ newest' >= newest /\ \A i \in 1..ChunkPackets : newest' >= chunk[i]
<1> DEFINE S == {newest} \cup {chunk[i] : i \in 1..ChunkPackets}
<1>1. S \in SUBSET (0..MaxPackets) /\ S # {} /\ MaxPackets \in Nat
  BY CaptureAssumption DEF SoundTypeOK
<1>2. newest' = Max(S)
  BY DEF Remember
<1>3. newest \in S /\ \A i \in 1..ChunkPackets : chunk[i] \in S
  OBVIOUS
<1>4. \A x \in S : x = newest \/ \E i \in 1..ChunkPackets : x = chunk[i]
  OBVIOUS
<1> HIDE DEF S
<1>5. Max(S) \in S /\ \A x \in S : Max(S) >= x
  BY <1>1, MaxIsThere
<1> QED
  BY <1>1, <1>2, <1>3, <1>4, <1>5

\* Whatever happens to the packets, types and order are kept.
LEMMA NextSoundTypes ==
  ASSUME SoundTypeOK, SoundInv, notes \in Seq(0..EndNote), SoundMoves
  PROVE  SoundTypeOK'
<1> USE Chunks DEF SoundTypeOK, SoundMoves, data
<1>1. CASE Keep
  BY <1>1 DEF Keep, InChannel
<1>2. CASE Pop
  <2>1. PICK n \in 0..Len(ring) :
          /\ chunk' = [i \in 1..ChunkPackets |-> IF i <= n THEN ring[i] ELSE chunk[i]]
          /\ ring' \in Seq(1..MaxPackets) /\ Len(ring') = Len(ring) - n
    BY <1>2, Popped DEF Pop
  <2>2. \A i \in 1..ChunkPackets : (IF i <= n THEN ring[i] ELSE chunk[i]) \in 0..MaxPackets
    <3>1. \A i \in 1..Len(ring) : ring[i] \in 1..MaxPackets
      BY Chunks
    <3>2. \A i \in 1..ChunkPackets : i <= n => i \in 1..Len(ring)
      OBVIOUS
    <3>3. 1..MaxPackets \subseteq 0..MaxPackets
      OBVIOUS
    <3>4. ASSUME NEW i \in 1..ChunkPackets, i <= n PROVE ring[i] \in 0..MaxPackets
      BY <3>1, <3>2, <3>3, <3>4
    <3> QED
      BY <3>4
  <2>3. chunk' \in [1..ChunkPackets -> 0..MaxPackets]
    BY <2>1, <2>2
  <2>4. Len(ring') <= RingCapacity
    BY <2>1
  <2> QED
    BY <1>2, <2>1, <2>3, <2>4 DEF Pop, InChannel
<1>3. CASE Pass
  BY <1>3, Remembered DEF Pass, InChannel, Remember
<1>4. CASE Push
  <2>1. produced + 1 \in 1..MaxPackets
    BY <1>4 DEF Push
  <2>2. ring' \in Seq(1..MaxPackets) /\ Len(ring') <= RingCapacity
    <3>1. CASE Len(ring) < RingCapacity /\ ring' = Append(ring, produced + 1)
      BY <2>1, <3>1, Appended
    <3> QED
      BY <1>4, <3>1 DEF Push
  <2> QED
    BY <1>4, <2>1, <2>2 DEF Push
<1>5. CASE Forget
  BY <1>5 DEF Forget
<1>6. CASE Invent
  <2>1. \A i \in 1..ChunkPackets : produced + i \in 0..MaxPackets
    BY <1>6 DEF Invent
  <2>2. chunk' \in [1..ChunkPackets -> 0..MaxPackets] /\ produced' \in 0..MaxPackets
    BY <1>6, <2>1 DEF Invent
  <2> QED
    BY <1>6, <2>2 DEF Invent
<1>7. CASE Put
  BY <1>7 DEF Put
<1>8. CASE Take
  <2>1. /\ ring' = Append(ring, notes[1]) /\ notes' = <<>> /\ notes[1] \in 1..MaxPackets
    BY <1>8, OnePacket DEF Take
  <2>2. ring' \in Seq(1..MaxPackets) /\ Len(ring') <= RingCapacity
    BY <1>8, <2>1, Appended DEF Take, HasChunk
  <2> QED
    BY <1>8, <2>1, <2>2 DEF Take
<1> QED
  BY <1>1, <1>2, <1>3, <1>4, <1>5, <1>6, <1>7, <1>8

\* The part of the invariant that makes a chunk fresh.
SoundOrder ==
  /\ ~stale /\ newest <= produced
  /\ InOrder(ring) /\ Between(newest, ring, produced)
  /\ Between(newest, InChannel, produced) /\ Before(ring, InChannel)
  /\ ToBeSent => /\ InOrder(chunk) /\ Between(newest, chunk, produced)
                 /\ Before(chunk, ring) /\ Before(chunk, InChannel)

\* What the types say of the numbers.
SoundFacts ==
  /\ newest \in Nat /\ produced \in Nat /\ ChunkPackets \in Nat \ {0}
  /\ ring \in Seq(1..MaxPackets) /\ Len(ring) \in Nat
  /\ Len(chunk) = ChunkPackets /\ \A i \in 1..ChunkPackets : chunk[i] \in Nat
  /\ \A i \in 1..Len(ring) : ring[i] \in Nat

LEMMA SoundFactsHold == (SoundTypeOK => SoundFacts) /\ (SoundTypeOK' => SoundFacts')
<1>1. SoundTypeOK => SoundFacts
  <2> SUFFICES ASSUME SoundTypeOK PROVE SoundFacts
    OBVIOUS
  <2>1. \A i \in 1..ChunkPackets : chunk[i] \in Nat
    BY DEF SoundTypeOK
  <2>2. \A i \in 1..Len(ring) : ring[i] \in Nat
    BY Chunks
  <2>3. newest \in Nat /\ produced \in Nat
    BY DEF SoundTypeOK
  <2> QED
    BY <2>1, <2>2, <2>3, Chunks DEF SoundFacts
<1> QED
  BY <1>1, PTL

LEMMA NextSoundOrder ==
  ASSUME SoundTypeOK, SoundTypeOK', SoundInv, notes \in Seq(0..EndNote), SoundMoves,
         backend \notin {"asio", "pulse"}
  PROVE  SoundOrder'
<1>1. SoundOrder /\ UNCHANGED backend
  BY DEF SoundOrder, SoundInv, SoundMoves
<1>2. SoundFacts
  BY SoundFactsHold
<1>3. SoundFacts'
  BY SoundFactsHold
<1>4. /\ Len(InChannel) \in Nat /\ \A i \in 1..Len(InChannel) : InChannel[i] \in Nat
      /\ backend # "cpal" => InChannel = <<>> /\ InChannel' = <<>>
  BY <1>1 DEF InChannel, SoundTypeOK
<1> USE <1>1, <1>2, <1>3, <1>4 DEF SoundFacts
<1>5. CASE Keep
  BY <1>5 DEF Keep, SoundOrder, InOrder, Between, Before, data
<1>6. CASE Pop
  <2>1. HasChunk /\ UNCHANGED <<produced, newest, stale, InChannel>>
    BY <1>6 DEF Pop
  <2>2. /\ \A i \in 1..ChunkPackets : chunk'[i] = ring[i]
        /\ Len(ring) = Len(ring') + ChunkPackets
        /\ \A i \in 1..Len(ring') : ring'[i] = ring[i + ChunkPackets]
    BY <1>6, <2>1, Popped DEF Pop
  <2> HIDE DEF SoundFacts
  <2>7. \A i \in 1..Len(ring') : i + ChunkPackets \in 1..Len(ring)
    BY <2>2 DEF SoundFacts
  <2>8. \A i \in 1..ChunkPackets : i \in 1..Len(ring)
    BY <2>2 DEF SoundFacts
  <2>3. InOrder(ring') /\ Between(newest', ring', produced')
    <3>1. ASSUME NEW i \in 1..Len(ring'), NEW j \in 1..Len(ring'), i < j
          PROVE  ring'[i] < ring'[j]
      <4>1. i + ChunkPackets < j + ChunkPackets
        BY <3>1 DEF SoundFacts
      <4> QED
        BY <2>2, <2>7, <4>1 DEF SoundOrder, InOrder
    <3>2. ASSUME NEW i \in 1..Len(ring') PROVE newest' < ring'[i] /\ ring'[i] <= produced'
      BY <2>1, <2>2, <2>7 DEF SoundOrder, Between
    <3> QED
      BY <3>1, <3>2 DEF InOrder, Between
  <2>4. Before(ring', InChannel') /\ Before(chunk', InChannel')
    <3>1. ASSUME NEW i \in 1..Len(ring'), NEW j \in 1..Len(InChannel')
          PROVE  ring'[i] < InChannel'[j]
      BY <2>1, <2>2, <2>7 DEF SoundOrder, Before
    <3>2. ASSUME NEW i \in 1..ChunkPackets, NEW j \in 1..Len(InChannel')
          PROVE  chunk'[i] < InChannel'[j]
      BY <2>1, <2>2, <2>8 DEF SoundOrder, Before
    <3> QED
      BY <3>1, <3>2 DEF Before, SoundFacts
  <2>5. InOrder(chunk') /\ Between(newest', chunk', produced')
    <3>1. ASSUME NEW i \in 1..ChunkPackets, NEW j \in 1..ChunkPackets, i < j
          PROVE  chunk'[i] < chunk'[j]
      BY <2>2, <2>8, <3>1 DEF SoundOrder, InOrder
    <3>2. ASSUME NEW i \in 1..ChunkPackets PROVE newest' < chunk'[i] /\ chunk'[i] <= produced'
      BY <2>1, <2>2, <2>8 DEF SoundOrder, Between
    <3> QED
      BY <3>1, <3>2 DEF InOrder, Between, SoundFacts
  <2>6. Before(chunk', ring')
    <3>1. ASSUME NEW i \in 1..ChunkPackets, NEW j \in 1..Len(ring')
          PROVE  chunk'[i] < ring'[j]
      <4>1. i < j + ChunkPackets
        BY DEF SoundFacts
      <4> QED
        BY <2>2, <2>7, <2>8, <4>1 DEF SoundOrder, InOrder
    <3> QED
      BY <3>1 DEF Before, SoundFacts
  <2> QED
    BY <2>1, <2>3, <2>4, <2>5, <2>6 DEF SoundOrder, InOrder, Between, Before
<1>7. CASE Pass
  <2>1. ToBeSent /\ ~ToBeSent' /\ UNCHANGED <<ring, produced, InChannel>> /\ Remember
    BY <1>7 DEF Pass
  <2>2. \A i \in 1..ChunkPackets : chunk[i] > newest /\ (i # 1 => chunk[i] > chunk[i - 1])
    BY <2>1 DEF SoundOrder, InOrder, Between
  <2>3. ~stale'
    BY <2>1, <2>2 DEF Remember, Fresh, SoundOrder
  <2>4. newest' = newest \/ \E i \in 1..ChunkPackets : newest' = chunk[i]
    BY <2>1, Remembered
  <2>5. newest' <= produced
    BY <2>1, <2>4 DEF SoundOrder, Between
  <2>6. Between(newest', ring, produced) /\ Between(newest', InChannel, produced)
    BY <2>1, <2>4 DEF SoundOrder, Between, Before
  <2> QED
    BY <2>1, <2>3, <2>5, <2>6 DEF SoundOrder, InOrder, Between, Before
<1>8. CASE Push
  <2>1. /\ produced' = produced + 1 /\ UNCHANGED <<chunk, newest, stale>> /\ ToBeSent' = ToBeSent
        /\ produced + 1 \in 1..MaxPackets
        /\ InChannel = <<>> /\ InChannel' = <<>>
    BY <1>8, Chunks DEF Push, data, ToBeSent
  <2>2. CASE ring' = ring
    BY <2>1, <2>2 DEF SoundOrder, InOrder, Between, Before
  <2>3. CASE ring' = Append(ring, produced + 1)
    <3>1. /\ Len(ring') = Len(ring) + 1 /\ ring'[Len(ring) + 1] = produced + 1
          /\ \A i \in 1..Len(ring) : ring'[i] = ring[i]
      BY <2>1, <2>3, Appended
    <3>2. \A i \in 1..Len(ring') : i \in 1..Len(ring) \/ i = Len(ring) + 1
      BY <3>1
    <3>3. InOrder(ring')
      <4>1. ASSUME NEW i \in 1..Len(ring'), NEW j \in 1..Len(ring'), i < j
            PROVE  ring'[i] < ring'[j]
        <5>1. i \in 1..Len(ring)
          BY <3>1, <4>1
        <5>2. CASE j \in 1..Len(ring)
          BY <3>1, <4>1, <5>1, <5>2 DEF SoundOrder, InOrder
        <5>3. CASE j = Len(ring) + 1
          <6>1. ring[i] <= produced
            BY <5>1 DEF SoundOrder, Between
          <6>2. ring'[i] = ring[i] /\ ring'[j] = produced + 1 /\ ring[i] \in Nat
            BY <3>1, <5>1, <5>3
          <6> QED
            BY <6>1, <6>2
        <5> QED
          BY <3>2, <5>2, <5>3
      <4> QED
        BY <4>1 DEF InOrder
    <3>4. Between(newest', ring', produced')
      <4>1. ASSUME NEW i \in 1..Len(ring') PROVE newest < ring'[i] /\ ring'[i] <= produced + 1
        <5>1. CASE i \in 1..Len(ring)
          <6>1. newest < ring[i] /\ ring[i] <= produced /\ ring[i] \in Nat
            BY <5>1 DEF SoundOrder, Between
          <6>2. ring'[i] = ring[i] /\ produced \in Nat
            BY <3>1, <5>1
          <6> QED
            BY <6>1, <6>2
        <5>2. CASE i = Len(ring) + 1
          <6>1. newest <= produced
            BY DEF SoundOrder
          <6> QED
            BY <3>1, <5>2, <6>1
        <5> QED
          BY <3>2, <5>1, <5>2
      <4> QED
        BY <2>1, <4>1 DEF Between
    <3>5. ToBeSent' => Before(chunk', ring')
      <4>1. ASSUME ToBeSent, NEW i \in 1..ChunkPackets, NEW j \in 1..Len(ring')
            PROVE  chunk[i] < ring'[j]
        <5>1. chunk[i] \in Nat /\ chunk[i] <= produced
          BY <4>1 DEF SoundOrder, Between
        <5>2. CASE j \in 1..Len(ring)
          BY <3>1, <4>1, <5>2 DEF SoundOrder, Before
        <5>3. CASE j = Len(ring) + 1
          BY <3>1, <5>1, <5>3
        <5> QED
          BY <3>2, <5>2, <5>3
      <4> QED
        BY <2>1, <4>1 DEF Before
    <3>6. ToBeSent' => InOrder(chunk') /\ Between(newest', chunk', produced')
      BY <2>1 DEF SoundOrder, InOrder, Between
    <3>7. \A q : Between(newest', <<>>, produced') /\ Before(q, <<>>)
      BY DEF Between, Before
    <3>8. ~stale' /\ newest' <= produced'
      BY <2>1 DEF SoundOrder
    <3> QED
      BY <2>1, <3>3, <3>4, <3>5, <3>6, <3>7, <3>8 DEF SoundOrder
  <2> QED
    BY <1>8, <2>2, <2>3 DEF Push
<1>9. CASE Forget
  BY <1>9 DEF Forget, SoundOrder, InOrder, Between, Before, data
<1>10. CASE Invent
  <2>1. /\ produced' = produced + ChunkPackets /\ UNCHANGED <<newest, stale>>
        /\ \A i \in 1..ChunkPackets : chunk'[i] = produced + i
        /\ ring' = <<>> /\ InChannel' = <<>>
    BY <1>10 DEF Invent, SoundInv
  <2> QED
    BY <2>1 DEF SoundOrder, InOrder, Between, Before
<1>11. CASE Put
  <2>1. /\ produced' = produced + 1 /\ UNCHANGED <<ring, chunk, newest, stale>>
        /\ ToBeSent' = ToBeSent /\ InChannel' = <<produced + 1>>
    BY <1>11 DEF Put, data, ToBeSent, InChannel
  <2> QED
    BY <2>1 DEF SoundOrder, InOrder, Between, Before
<1>12. CASE Take
  <2>1. /\ ring' = Append(ring, InChannel[1]) /\ InChannel' = <<>> /\ InChannel[1] \in 1..MaxPackets
        /\ Len(InChannel) = 1 /\ ~ToBeSent' /\ UNCHANGED <<produced, newest, stale>>
    BY <1>12, OnePacket DEF Take, InChannel, data
  <2>2. /\ Len(ring') = Len(ring) + 1 /\ ring'[Len(ring) + 1] = InChannel[1]
        /\ \A i \in 1..Len(ring) : ring'[i] = ring[i]
    BY <2>1, Appended
  <2>3. \A i \in 1..Len(ring') : i \in 1..Len(ring) \/ i = Len(ring) + 1
    BY <2>2
  <2> QED
    BY <2>1, <2>2, <2>3 DEF SoundOrder, InOrder, Between, Before
<1> QED
  BY <1>5, <1>6, <1>7, <1>8, <1>9, <1>10, <1>11, <1>12 DEF SoundMoves

LEMMA NextSoundInv ==
  ASSUME SoundTypeOK, SoundTypeOK', SoundInv, notes \in Seq(0..EndNote), SoundMoves
  PROVE  SoundInv'
<1>1. pc' = "pop" \/ (pc' = "drain" /\ state' # "Stalled") => HasChunk'
  <2>1. ASSUME ring' = Append(ring, produced + 1), produced + 1 \in 1..MaxPackets
        PROVE  Len(ring') = Len(ring) + 1
    BY <2>1, Chunks, Appended
  <2> QED
    BY <2>1, Chunks DEF SoundMoves, Push, HasChunk, SoundTypeOK
<1>2. backend' = "generator" => ring' = <<>>
  <2> SUFFICES ASSUME backend = "generator" PROVE ring' = <<>>
    BY DEF SoundMoves
  <2>1. ring = <<>> /\ ~HasChunk
    BY Chunks DEF SoundInv, HasChunk
  <2> QED
    BY <2>1 DEF SoundMoves, Keep, Pop, Pass, Push, Forget, Invent, Put, Take
<1> QED
  BY <1>1, <1>2, NextSoundOrder DEF SoundInv, SoundOrder, SoundMoves

-----------------------------------------------------------------------------
\* ----------------------- What the backends do with it ----------------------

\* A step of each backend is one of the eight.
LEMMA GeneratorSound ==
  ASSUME SoundTypeOK, SoundInv, backend = "generator", Generator!Step PROVE SoundMoves
<1> USE DEF SoundMoves, Keep, InChannel, ToBeSent, data, Generator!device,
        Generator!buffer, Generator!control, Generator!output, Generator!view,
        Generator!data, Generator!Go
<1>1. /\ (Generator!PopSlice <=> PopSlice)
     /\ (Generator!HasChunk <=> HasChunk)
     /\ (Generator!Remember <=> Remember)
  BY DEF PopSlice, HasChunk, Remember, Fresh, Min, Max, Generator!PopSlice,
     Generator!HasChunk, Generator!Remember, Generator!Fresh, Generator!Min,
     Generator!Max
<1>2. CASE Generator!Open \/ Generator!Begin \/ Generator!CommandsClosed
  BY <1>2 DEF Generator!Open, Generator!Begin, Generator!CommandsClosed,
     Generator!OpenSucceeds, Generator!Started
<1>3. CASE Generator!Exit \/ Generator!End
  BY <1>3 DEF Generator!Exit, Generator!End, Generator!Finish, Generator!BecomeInactive
<1>4. CASE Generator!Generate
  BY <1>4 DEF Invent, Generator!Generate
<1>5. CASE Generator!SendChunk
  BY <1>1, <1>5 DEF Pass, Generator!SendChunk
<1> QED
  BY <1>2, <1>3, <1>4, <1>5 DEF Generator!Step

LEMMA CpalSound ==
  ASSUME SoundTypeOK, SoundInv, backend = "cpal", Cpal!Step \/ Cpal!Callback
  PROVE  SoundMoves
<1> USE DEF SoundMoves, Keep, InChannel, ToBeSent, data, Cpal!device, Cpal!buffer,
        Cpal!control, Cpal!output, Cpal!view, Cpal!data, Cpal!Go
<1>1. /\ (Cpal!PopSlice <=> PopSlice)
     /\ (Cpal!HasChunk <=> HasChunk)
     /\ (Cpal!Remember <=> Remember)
  BY DEF PopSlice, HasChunk, Remember, Fresh, Min, Max, Cpal!PopSlice, Cpal!HasChunk,
     Cpal!Remember, Cpal!Fresh, Cpal!Min, Cpal!Max
<1>2. CASE Cpal!Open \/ Cpal!Begin
  BY <1>2 DEF Cpal!Open, Cpal!Begin, Cpal!OpenFails, Cpal!OpenSucceeds, Cpal!Started
<1>3. CASE Cpal!Exit
  BY <1>3 DEF Cpal!Exit, Cpal!FinishOrPanic, Cpal!Send
<1>4. CASE \/ Cpal!CommandsClosed \/ Cpal!LookForChunk \/ Cpal!ReceiveFails
           \/ Cpal!RateChanged \/ Cpal!End
  BY <1>4 DEF Cpal!CommandsClosed, Cpal!LookForChunk, Cpal!ReceiveFails, Cpal!RateChanged,
     Cpal!End, Cpal!NoCommand, Cpal!Finish, Cpal!BecomeInactive
<1>5. CASE Cpal!Receive
  BY <1>1, <1>5 DEF Take, Cpal!Receive
<1>6. CASE Cpal!MakeChunk
  BY <1>1, <1>6 DEF Pop, Cpal!MakeChunk, Cpal!JudgeChunk
<1>7. CASE Cpal!SendChunk
  BY <1>1, <1>7 DEF Pass, Cpal!SendChunk
<1>8. CASE Cpal!Callback
  BY <1>8 DEF Put, SoundInv, Cpal!Callback
<1> QED
  BY <1>2, <1>3, <1>4, <1>5, <1>6, <1>7, <1>8 DEF Cpal!Step

LEMMA PulseSound ==
  ASSUME SoundTypeOK, SoundInv, backend = "pulse", Pulse!Step \/ Pulse!InnerStep
  PROVE  SoundMoves
<1> USE DEF SoundMoves, Keep, InChannel, ToBeSent, data, Pulse!device, Pulse!buffer,
        Pulse!control, Pulse!output, Pulse!view, Pulse!data, Pulse!Go
<1>1. /\ (Pulse!PopSlice <=> PopSlice)
     /\ (Pulse!HasChunk <=> HasChunk)
     /\ (Pulse!Remember <=> Remember)
  BY DEF PopSlice, HasChunk, Remember, Fresh, Min, Max, Pulse!PopSlice, Pulse!HasChunk,
     Pulse!Remember, Pulse!Fresh, Pulse!Min, Pulse!Max
<1>2. Pulse!Record => Push
  BY Chunks DEF SoundTypeOK, Push, Pulse!Record, Pulse!RingIsFull
<1>3. CASE Pulse!Open \/ Pulse!Begin
  BY <1>3 DEF Pulse!Open, Pulse!Begin, Pulse!OpenFails, Pulse!OpenSucceeds, Pulse!Started
<1>4. CASE Pulse!Exit
  BY <1>4 DEF Pulse!Exit, Pulse!FinishOrPanic, Pulse!Send
<1>5. CASE Pulse!CommandsClosed \/ Pulse!LookForChunk \/ Pulse!ReadFails \/ Pulse!End
  BY <1>5 DEF Pulse!CommandsClosed, Pulse!LookForChunk, Pulse!ReadFails, Pulse!End,
     Pulse!NoCommand, Pulse!BecomeInactive
<1>6. CASE Pulse!Read
  BY <1>1, <1>6 DEF Pop, Pulse!Read, Pulse!JudgeChunk
<1>7. CASE Pulse!SendChunk
  BY <1>1, <1>7 DEF Pass, Pulse!SendChunk
<1>8. CASE Pulse!Callback
  BY <1>2, <1>8 DEF SoundInv, Push, Pulse!Callback, Pulse!Record
<1>9. CASE Pulse!ServerFails
  BY <1>9 DEF SoundInv, Pulse!ServerFails
<1> QED
  BY <1>3, <1>4, <1>5, <1>6, <1>7, <1>8, <1>9 DEF Pulse!Step, Pulse!InnerStep

LEMMA CoreAudioSound ==
  ASSUME SoundTypeOK, SoundInv, backend = "coreaudio",
         CoreAudio!Step \/ CoreAudio!InnerStep
  PROVE  SoundMoves
<1> USE DEF SoundMoves, Keep, InChannel, ToBeSent, data, CoreAudio!device,
        CoreAudio!buffer, CoreAudio!control, CoreAudio!output, CoreAudio!view,
        CoreAudio!data, CoreAudio!Go
<1>1. /\ (CoreAudio!PopSlice <=> PopSlice)
     /\ (CoreAudio!HasChunk <=> HasChunk)
     /\ (CoreAudio!Remember <=> Remember)
  BY DEF PopSlice, HasChunk, Remember, Fresh, Min, Max, CoreAudio!PopSlice,
     CoreAudio!HasChunk, CoreAudio!Remember, CoreAudio!Fresh, CoreAudio!Min,
     CoreAudio!Max
<1>2. CoreAudio!Record => Push
  BY Chunks DEF SoundTypeOK, Push, CoreAudio!Record, CoreAudio!RingIsFull
<1>3. CASE CoreAudio!Open \/ CoreAudio!Begin
  BY <1>3 DEF CoreAudio!Open, CoreAudio!Begin, CoreAudio!OpenFails,
     CoreAudio!OpenSucceeds, CoreAudio!Started
<1>4. CASE \/ CoreAudio!Exit \/ CoreAudio!RateEvent \/ CoreAudio!RateChanged
           \/ CoreAudio!CommandsClosed \/ CoreAudio!NotAlive \/ CoreAudio!NoData
           \/ CoreAudio!End
  BY <1>4 DEF CoreAudio!Exit, CoreAudio!RateEvent, CoreAudio!RateChanged,
     CoreAudio!CommandsClosed, CoreAudio!NotAlive, CoreAudio!NoData, CoreAudio!End,
     CoreAudio!Finish, CoreAudio!BecomeInactive
<1>5. CASE CoreAudio!MakeChunk
  BY <1>1, <1>5 DEF Pop, CoreAudio!MakeChunk, CoreAudio!JudgeChunk
<1>6. CASE CoreAudio!SendChunk
  BY <1>1, <1>6 DEF Pass, CoreAudio!SendChunk
<1>7. CASE CoreAudio!Callback
  BY <1>2, <1>7 DEF SoundInv, Push, CoreAudio!Callback, CoreAudio!Record
<1>8. CASE CoreAudio!Listener
  BY <1>8 DEF SoundInv, CoreAudio!Listener
<1> QED
  BY <1>3, <1>4, <1>5, <1>6, <1>7, <1>8 DEF CoreAudio!Step, CoreAudio!InnerStep

LEMMA PipeWireSound ==
  ASSUME SoundTypeOK, SoundInv, backend = "pipewire", PipeWire!Step \/ PipeWire!Callback
  PROVE  SoundMoves
<1> USE DEF SoundMoves, Keep, InChannel, ToBeSent, data, PipeWire!device,
        PipeWire!buffer, PipeWire!control, PipeWire!output, PipeWire!view,
        PipeWire!data, PipeWire!Go
<1>1. /\ (PipeWire!PopSlice <=> PopSlice)
     /\ (PipeWire!HasChunk <=> HasChunk)
     /\ (PipeWire!Remember <=> Remember)
  BY DEF PopSlice, HasChunk, Remember, Fresh, Min, Max, PipeWire!PopSlice,
     PipeWire!HasChunk, PipeWire!Remember, PipeWire!Fresh, PipeWire!Min, PipeWire!Max
<1>2. PipeWire!Record => Push
  BY Chunks DEF SoundTypeOK, Push, PipeWire!Record, PipeWire!RingIsFull
<1>3. CASE PipeWire!Open \/ PipeWire!Begin
  BY <1>3 DEF PipeWire!Open, PipeWire!Begin, PipeWire!OpenFails, PipeWire!OpenSucceeds,
     PipeWire!Started
<1>4. CASE PipeWire!Exit
  BY <1>4 DEF PipeWire!Exit, PipeWire!Send
<1>5. CASE PipeWire!CommandsClosed \/ PipeWire!End
  BY <1>5 DEF PipeWire!CommandsClosed, PipeWire!End
<1>6. CASE PipeWire!MakeChunk
  BY <1>1, <1>6 DEF Pop, PipeWire!MakeChunk, PipeWire!JudgeChunk
<1>7. CASE PipeWire!Deliver
  BY <1>1, <1>7 DEF Pass, PipeWire!Deliver
<1>8. CASE PipeWire!Callback
  BY <1>2, <1>8 DEF SoundInv, Push, PipeWire!Callback, PipeWire!Record
<1> QED
  BY <1>3, <1>4, <1>5, <1>6, <1>7, <1>8 DEF PipeWire!Step

LEMMA AsioSound ==
  ASSUME SoundTypeOK, SoundInv, backend = "asio", Asio!Step \/ Asio!InnerStep
  PROVE  SoundMoves
<1> USE DEF SoundMoves, Keep, InChannel, ToBeSent, data, Asio!device, Asio!buffer,
        Asio!control, Asio!output, Asio!view, Asio!data, Asio!Go
<1>1. /\ (Asio!PopSlice <=> PopSlice)
     /\ (Asio!HasChunk <=> HasChunk)
     /\ (Asio!Remember <=> Remember)
  BY DEF PopSlice, HasChunk, Remember, Fresh, Min, Max, Asio!PopSlice, Asio!HasChunk,
     Asio!Remember, Asio!Fresh, Asio!Min, Asio!Max
<1>2. Asio!Record => Push
  BY Chunks DEF SoundTypeOK, Push, Asio!Record, Asio!RingIsFull
<1>3. CASE Asio!Open \/ Asio!Begin
  BY <1>3 DEF Asio!Open, Asio!Begin, Asio!OpenFails, Asio!OpenSucceeds, Asio!Started
<1>4. CASE \/ Asio!RateEvent \/ Asio!Exit \/ Asio!RateChanged \/ Asio!Disconnected
           \/ Asio!LookForChunk \/ Asio!ReadNote \/ Asio!End
  BY <1>4 DEF Asio!RateEvent, Asio!Exit, Asio!RateChanged, Asio!Disconnected,
     Asio!LookForChunk, Asio!ReadNote, Asio!End, Asio!CommandsClosed, Asio!Finish,
     Asio!BecomeInactive
<1>5. CASE Asio!MakeChunk
  BY <1>1, <1>5 DEF Pop, Asio!MakeChunk, Asio!JudgeChunk
<1>6. CASE Asio!SendChunk
  BY <1>1, <1>6 DEF Pass, Asio!SendChunk
<1>7. CASE Asio!Callback
  BY <1>2, <1>7 DEF SoundInv, Push, Asio!Callback, Asio!RecordAndOffer, Asio!Record
<1>8. CASE Asio!MessageCallback
  BY <1>8 DEF SoundInv, Asio!MessageCallback
<1> QED
  BY <1>3, <1>4, <1>5, <1>6, <1>7, <1>8 DEF Asio!Step, Asio!InnerStep

LEMMA WasapiSound ==
  ASSUME SoundTypeOK, SoundInv, backend = "wasapi",
         (Wasapi!Step \/ Wasapi!InnerStep \/ Wasapi!InnerStops)
  PROVE  SoundMoves
<1> USE DEF SoundMoves, Keep, InChannel, ToBeSent, data, Wasapi!device, Wasapi!buffer,
        Wasapi!control, Wasapi!output, Wasapi!view, Wasapi!data, Wasapi!Go
<1>1. /\ (Wasapi!PopSlice <=> PopSlice)
     /\ (Wasapi!HasChunk <=> HasChunk)
     /\ (Wasapi!Remember <=> Remember)
  BY DEF PopSlice, HasChunk, Remember, Fresh, Min, Max, Wasapi!PopSlice, Wasapi!HasChunk,
     Wasapi!Remember, Wasapi!Fresh, Wasapi!Min, Wasapi!Max
<1>2. Wasapi!Record => Push
  BY Chunks DEF SoundTypeOK, Push, Wasapi!Record, Wasapi!RingIsFull
<1>3. CASE Wasapi!Open \/ Wasapi!Begin
  BY <1>3 DEF Wasapi!Open, Wasapi!Begin, Wasapi!OpenFails, Wasapi!OpenSucceeds,
     Wasapi!Started
<1>4. CASE \/ Wasapi!Exit \/ Wasapi!RateChanged \/ Wasapi!InnerHasFailed
           \/ Wasapi!NotesClosed \/ Wasapi!CommandsClosed \/ Wasapi!StopInner
           \/ Wasapi!Pause \/ Wasapi!End
  BY <1>4 DEF Wasapi!Exit, Wasapi!RateChanged, Wasapi!InnerHasFailed, Wasapi!NotesClosed,
     Wasapi!CommandsClosed, Wasapi!StopInner, Wasapi!Pause, Wasapi!End, Wasapi!Finish,
     Wasapi!BecomeInactive
<1>5. CASE Wasapi!LookForChunk \/ Wasapi!ReadNote
  BY <1>1, <1>5 DEF Wasapi!LookForChunk, Wasapi!ReadNote
<1>6. CASE Wasapi!Drain
  BY <1>6 DEF SoundInv, Wasapi!Drain
<1>7. CASE Wasapi!MakeChunk
  BY <1>1, <1>7 DEF Pop, SoundInv, Wasapi!MakeChunk, Wasapi!JudgeChunk
<1>8. CASE Wasapi!SendChunk
  BY <1>1, <1>8 DEF Pass, Wasapi!SendChunk
<1>9. CASE Wasapi!Deliver
  BY <1>2, <1>9 DEF SoundInv, Push, Wasapi!Deliver, Wasapi!RecordAndOffer, Wasapi!Record
<1>10. CASE Wasapi!Timeout \/ Wasapi!InnerFails \/ Wasapi!InnerStops
  BY <1>10 DEF SoundInv, Wasapi!Timeout, Wasapi!InnerFails, Wasapi!InnerStops
<1> QED
  BY <1>3, <1>4, <1>5, <1>6, <1>7, <1>8, <1>9, <1>10 DEF Wasapi!Step, Wasapi!InnerStep

LEMMA AlsaSound ==
  ASSUME SoundTypeOK, SoundInv, backend = "alsa", Alsa!Step \/ Alsa!Callback
  PROVE  SoundMoves
<1> USE DEF SoundMoves, Keep, InChannel, ToBeSent, data, Alsa!device, Alsa!buffer,
        Alsa!control, Alsa!output, Alsa!view, Alsa!data, Alsa!Go
<1>1. /\ (Alsa!PopSlice <=> PopSlice)
     /\ (Alsa!HasChunk <=> HasChunk)
     /\ (Alsa!Remember <=> Remember)
  BY DEF PopSlice, HasChunk, Remember, Fresh, Min, Max, Alsa!PopSlice, Alsa!HasChunk,
     Alsa!Remember, Alsa!Fresh, Alsa!Min, Alsa!Max
<1>2. Alsa!Record => Push
  BY Chunks DEF SoundTypeOK, Push, Alsa!Record, Alsa!RingIsFull
<1>3. CASE Alsa!Open \/ Alsa!Begin
  BY <1>3 DEF Alsa!Open, Alsa!Begin, Alsa!OpenFails, Alsa!OpenSucceeds, Alsa!Started
<1>4. CASE \/ Alsa!Exit \/ Alsa!RateChanged \/ Alsa!CommandsClosed \/ Alsa!SourceEnds
           \/ Alsa!ReadFails \/ Alsa!End
  BY <1>4 DEF Alsa!Exit, Alsa!RateChanged, Alsa!CommandsClosed, Alsa!SourceEnds,
     Alsa!ReadFails, Alsa!End, Alsa!Finish, Alsa!BecomeInactive
<1>5. CASE Alsa!ReadChunk
  BY <1>1, <1>5 DEF Pop, Alsa!ReadChunk
<1>6. CASE Alsa!DeviceStalls
  BY <1>6 DEF Forget, Alsa!DeviceStalls
<1>7. CASE Alsa!SendChunk
  BY <1>1, <1>7 DEF Pass, Alsa!SendChunk
<1>8. CASE Alsa!Callback
  BY <1>2, <1>8 DEF SoundInv, Push, Alsa!Callback, Alsa!Record
<1> QED
  BY <1>3, <1>4, <1>5, <1>6, <1>7, <1>8 DEF Alsa!Step

LEMMA AlsaThreadedSound ==
  ASSUME SoundTypeOK, SoundInv, backend = "alsaThreaded",
         AlsaThreaded!Step \/ AlsaThreaded!InnerStep
  PROVE  SoundMoves
<1> USE DEF SoundMoves, Keep, InChannel, ToBeSent, data, AlsaThreaded!device,
        AlsaThreaded!buffer, AlsaThreaded!control, AlsaThreaded!output,
        AlsaThreaded!view, AlsaThreaded!data, AlsaThreaded!Go
<1>1. /\ (AlsaThreaded!PopSlice <=> PopSlice)
     /\ (AlsaThreaded!HasChunk <=> HasChunk)
     /\ (AlsaThreaded!Remember <=> Remember)
  BY DEF PopSlice, HasChunk, Remember, Fresh, Min, Max, AlsaThreaded!PopSlice,
     AlsaThreaded!HasChunk, AlsaThreaded!Remember, AlsaThreaded!Fresh, AlsaThreaded!Min,
     AlsaThreaded!Max
<1>2. AlsaThreaded!Record => Push
  BY Chunks DEF SoundTypeOK, Push, AlsaThreaded!Record, AlsaThreaded!RingIsFull
<1>3. CASE AlsaThreaded!Open \/ AlsaThreaded!Begin
  BY <1>3 DEF AlsaThreaded!Open, AlsaThreaded!Begin, AlsaThreaded!OpenFails,
     AlsaThreaded!OpenSucceeds, AlsaThreaded!Started
<1>4. CASE \/ AlsaThreaded!ReadEnd \/ AlsaThreaded!NotesClosed \/ AlsaThreaded!RateChanged
           \/ AlsaThreaded!Pause \/ AlsaThreaded!End
  BY <1>4 DEF AlsaThreaded!ReadEnd, AlsaThreaded!NotesClosed, AlsaThreaded!RateChanged,
     AlsaThreaded!Pause, AlsaThreaded!End, AlsaThreaded!Finish,
     AlsaThreaded!BecomeInactive
<1>5. CASE AlsaThreaded!Command \/ AlsaThreaded!ReadNote
  BY <1>1, <1>5 DEF AlsaThreaded!Command, AlsaThreaded!ReadNote
<1>6. CASE AlsaThreaded!Drain
  BY <1>6 DEF SoundInv, AlsaThreaded!Drain
<1>7. CASE AlsaThreaded!MakeChunk
  BY <1>1, <1>7 DEF Pop, SoundInv, AlsaThreaded!MakeChunk, AlsaThreaded!JudgeChunk
<1>8. CASE AlsaThreaded!Deliver
  BY <1>1, <1>8 DEF Pass, AlsaThreaded!Deliver
<1>9. CASE AlsaThreaded!Read
  BY <1>2, <1>9 DEF SoundInv, Push, AlsaThreaded!Read, AlsaThreaded!RecordAndOffer,
     AlsaThreaded!Record
<1>10. CASE AlsaThreaded!ReadNothing \/ AlsaThreaded!InnerEnds \/ AlsaThreaded!TellEnd
  BY <1>10 DEF SoundInv, AlsaThreaded!ReadNothing, AlsaThreaded!InnerEnds,
     AlsaThreaded!TellEnd
<1> QED
  BY <1>3, <1>4, <1>5, <1>6, <1>7, <1>8, <1>9, <1>10
     DEF AlsaThreaded!Step, AlsaThreaded!InnerStep

-----------------------------------------------------------------------------
\* ------------------------- The types of the threads ------------------------

\* What TypeOK says of the threads and the channels, the reports aside.
ThreadTypeOK ==
  /\ backend \in Backends
  /\ pc \in Opening \cup Waiting \cup Working \cup Ended
  /\ inner \in {"none", "running", "asked", "blocked", "over"}
  /\ event \in {"none", "rate", "gone", "told"}
  /\ notes \in Seq(0..EndNote) /\ Len(notes) <= NoteCapacity
  /\ command \in {"none", "Exit", "taken"}
  /\ supervisor \in BOOLEAN /\ processing \in BOOLEAN
  /\ queued \in 0..QueueLimit
  /\ last \in {"none", "Audio", "Pause", "EndOfStream"}
  /\ state \in {"Running", "Paused", "Stalled"} /\ saved \in {"Running", "Paused", "Stalled"}
  /\ published \in {"Starting", "Running", "Paused", "Stalled", "Inactive"}

\* Reading, adding and dropping notes keeps the type of their channel.
LEMMA NoteTypes ==
  ASSUME notes \in Seq(0..EndNote), Len(notes) <= NoteCapacity
  PROVE  /\ <<>> \in Seq(0..EndNote) /\ Len(<<>>) <= NoteCapacity
         /\ notes # <<>> => Tail(notes) \in Seq(0..EndNote) /\ Len(Tail(notes)) <= NoteCapacity
         /\ \A n \in 0..EndNote : Len(notes) < NoteCapacity =>
              Append(notes, n) \in Seq(0..EndNote) /\ Len(Append(notes, n)) <= NoteCapacity
         /\ 0 \in 0..EndNote /\ 1 \in 0..EndNote /\ EndNote \in 0..EndNote
<1> USE CaptureAssumption
<1>1. ASSUME notes # <<>>
      PROVE  Tail(notes) \in Seq(0..EndNote) /\ Len(Tail(notes)) <= NoteCapacity
  <2>1. Tail(notes) \in Seq(0..EndNote) /\ Len(Tail(notes)) = Len(notes) - 1
    BY <1>1
  <2>2. Len(notes) \in Nat
    OBVIOUS
  <2> QED
    BY <2>1, <2>2
<1>2. ASSUME NEW n \in 0..EndNote, Len(notes) < NoteCapacity
      PROVE  Append(notes, n) \in Seq(0..EndNote) /\ Len(Append(notes, n)) <= NoteCapacity
  <2>1. Append(notes, n) \in Seq(0..EndNote) /\ Len(Append(notes, n)) = Len(notes) + 1
    OBVIOUS
  <2>2. Len(notes) \in Nat
    OBVIOUS
  <2> QED
    BY <1>2, <2>1, <2>2
<1>3. 0 \in 0..EndNote /\ 1 \in 0..EndNote /\ EndNote \in 0..EndNote
  BY DEF EndNote
<1> QED
  BY <1>1, <1>2, <1>3

\* A step of each backend keeps the types.
LEMMA GeneratorTypes ==
  ASSUME ThreadTypeOK, backend = "generator", Generator!Step PROVE ThreadTypeOK'
<1> USE CaptureAssumption DEF ThreadTypeOK, Opening, Waiting, Working, Ended,
        Generator!device, Generator!buffer, Generator!control, Generator!output,
        Generator!view, Generator!data, Generator!Go, Generator!Report
<1>1. CASE Generator!Open \/ Generator!Begin
  BY <1>1 DEF Generator!Open, Generator!Begin, Generator!OpenSucceeds, Generator!Started
<1>2. CASE Generator!Exit \/ Generator!CommandsClosed \/ Generator!Generate
  BY <1>2 DEF Generator!Exit, Generator!CommandsClosed, Generator!Generate,
     Generator!ExitReceived, Generator!Finish, Generator!Send, Generator!NoCommand
<1>3. CASE Generator!SendChunk \/ Generator!End
  BY <1>3 DEF Generator!SendChunk, Generator!End, Generator!BecomeInactive, Generator!Send
<1> QED
  BY <1>1, <1>2, <1>3 DEF Generator!Step

LEMMA CpalTypes ==
  ASSUME ThreadTypeOK, produced \in 0..MaxPackets, backend = "cpal",
         Cpal!Step \/ Cpal!Callback
  PROVE  ThreadTypeOK'
<1> USE CaptureAssumption DEF ThreadTypeOK, Opening, Waiting, Working, Ended,
        Cpal!device, Cpal!buffer, Cpal!control, Cpal!output, Cpal!view, Cpal!data,
        Cpal!Go, Cpal!Report
<1>1. CASE Cpal!Open \/ Cpal!Begin
  BY <1>1 DEF Cpal!Open, Cpal!Begin, Cpal!OpenFails, Cpal!OpenSucceeds, Cpal!Started,
     Cpal!NoStream
<1>2. CASE Cpal!Exit
  BY <1>2 DEF Cpal!Exit, Cpal!ExitReceived, Cpal!FinishOrPanic, Cpal!Send
<1>3. CASE Cpal!CommandsClosed \/ Cpal!LookForChunk \/ Cpal!ReceiveFails
  BY <1>3 DEF Cpal!CommandsClosed, Cpal!LookForChunk, Cpal!ReceiveFails
<1>4. CASE Cpal!Receive
  BY NoteTypes, <1>4 DEF Cpal!Receive
<1>5. CASE Cpal!MakeChunk
  BY <1>5 DEF Cpal!MakeChunk, Cpal!JudgeChunk
<1>6. CASE Cpal!RateChanged
  BY <1>6 DEF Cpal!RateChanged, Cpal!RateIsOff, Cpal!Finish, Cpal!Send
<1>7. CASE Cpal!SendChunk \/ Cpal!End
  BY <1>7 DEF Cpal!SendChunk, Cpal!End, Cpal!BecomeInactive, Cpal!Send
<1>8. CASE Cpal!Callback
  <2>1. produced + 1 \in 0..EndNote
    BY <1>8 DEF EndNote, Cpal!Callback, Cpal!EndNote
  <2>2. notes' \in Seq(0..EndNote) /\ Len(notes') <= NoteCapacity
    BY <1>8, <2>1 DEF Cpal!Callback, Cpal!EndNote
  <2> QED
    BY <1>8, <2>2 DEF Cpal!Callback, Cpal!EndNote
<1> QED
  BY <1>1, <1>2, <1>3, <1>4, <1>5, <1>6, <1>7, <1>8 DEF Cpal!Step

LEMMA PulseTypes ==
  ASSUME ThreadTypeOK, backend = "pulse", Pulse!Step \/ Pulse!InnerStep PROVE ThreadTypeOK'
<1> USE CaptureAssumption DEF ThreadTypeOK, Opening, Waiting, Working, Ended,
        Pulse!device, Pulse!buffer, Pulse!control, Pulse!output, Pulse!view, Pulse!data,
        Pulse!Go, Pulse!Report
<1>1. CASE Pulse!Open \/ Pulse!Begin
  BY <1>1 DEF Pulse!Open, Pulse!Begin, Pulse!OpenFails, Pulse!OpenSucceeds, Pulse!Started
<1>2. CASE Pulse!Exit
  BY <1>2 DEF Pulse!Exit, Pulse!ExitReceived, Pulse!FinishOrPanic, Pulse!Send
<1>3. CASE Pulse!CommandsClosed \/ Pulse!LookForChunk
  BY <1>3 DEF Pulse!CommandsClosed, Pulse!LookForChunk
<1>4. CASE Pulse!Read \/ Pulse!ReadFails
  BY <1>4 DEF Pulse!Read, Pulse!ReadFails, Pulse!JudgeChunk
<1>5. CASE Pulse!SendChunk \/ Pulse!End
  BY <1>5 DEF Pulse!SendChunk, Pulse!End, Pulse!BecomeInactive, Pulse!Send
<1>6. CASE Pulse!Callback \/ Pulse!ServerFails
  BY <1>6 DEF Pulse!Callback, Pulse!ServerFails, Pulse!Recording, Pulse!Record
<1> QED
  BY <1>1, <1>2, <1>3, <1>4, <1>5, <1>6 DEF Pulse!Step, Pulse!InnerStep

LEMMA CoreAudioTypes ==
  ASSUME ThreadTypeOK, backend = "coreaudio", CoreAudio!Step \/ CoreAudio!InnerStep
  PROVE  ThreadTypeOK'
<1> USE CaptureAssumption DEF ThreadTypeOK, Opening, Waiting, Working, Ended,
        CoreAudio!device, CoreAudio!buffer, CoreAudio!control, CoreAudio!output,
        CoreAudio!view, CoreAudio!data, CoreAudio!Go, CoreAudio!Report
<1>1. CASE CoreAudio!Open \/ CoreAudio!Begin
  BY <1>1 DEF CoreAudio!Open, CoreAudio!Begin, CoreAudio!OpenFails,
     CoreAudio!OpenSucceeds, CoreAudio!Started, CoreAudio!Send
<1>2. CASE CoreAudio!Exit \/ CoreAudio!RateEvent \/ CoreAudio!RateChanged
  BY <1>2 DEF CoreAudio!Exit, CoreAudio!RateEvent, CoreAudio!RateChanged,
     CoreAudio!ExitReceived, CoreAudio!NoCommand, CoreAudio!RateIsOff, CoreAudio!Finish,
     CoreAudio!Send
<1>3. CASE CoreAudio!CommandsClosed \/ CoreAudio!NotAlive
  BY <1>3 DEF CoreAudio!CommandsClosed, CoreAudio!NotAlive
<1>4. CASE CoreAudio!MakeChunk
  BY <1>4 DEF CoreAudio!MakeChunk, CoreAudio!JudgeChunk
<1>5. CASE CoreAudio!NoData
  BY <1>5 DEF CoreAudio!NoData, CoreAudio!Send
<1>6. CASE CoreAudio!SendChunk \/ CoreAudio!End
  BY <1>6 DEF CoreAudio!SendChunk, CoreAudio!End, CoreAudio!BecomeInactive, CoreAudio!Send
<1>7. CASE CoreAudio!Callback \/ CoreAudio!Listener
  BY <1>7 DEF CoreAudio!Callback, CoreAudio!Listener, CoreAudio!Record
<1> QED
  BY <1>1, <1>2, <1>3, <1>4, <1>5, <1>6, <1>7 DEF CoreAudio!Step, CoreAudio!InnerStep

LEMMA PipeWireTypes ==
  ASSUME ThreadTypeOK, backend = "pipewire", PipeWire!Step \/ PipeWire!Callback
  PROVE  ThreadTypeOK'
<1> USE CaptureAssumption DEF ThreadTypeOK, Opening, Waiting, Working, Ended,
        PipeWire!device, PipeWire!buffer, PipeWire!control, PipeWire!output,
        PipeWire!view, PipeWire!data, PipeWire!Go, PipeWire!Report
<1>1. CASE PipeWire!Open \/ PipeWire!Begin
  BY <1>1 DEF PipeWire!Open, PipeWire!Begin, PipeWire!OpenFails, PipeWire!OpenSucceeds,
     PipeWire!Started
<1>2. CASE PipeWire!Exit
  BY <1>2 DEF PipeWire!Exit, PipeWire!ExitReceived, PipeWire!SetExitFlag, PipeWire!Send
<1>3. CASE PipeWire!CommandsClosed \/ PipeWire!MakeChunk
  BY <1>3 DEF PipeWire!CommandsClosed, PipeWire!MakeChunk, PipeWire!JudgeChunk
<1>4. CASE PipeWire!Deliver
  BY <1>4 DEF PipeWire!Deliver, PipeWire!TrySend, PipeWire!Send, PipeWire!SetExitFlag
<1>5. CASE PipeWire!End
  BY <1>5 DEF PipeWire!End
<1>6. CASE PipeWire!Callback
  BY <1>6 DEF PipeWire!Callback, PipeWire!Record
<1> QED
  BY <1>1, <1>2, <1>3, <1>4, <1>5, <1>6 DEF PipeWire!Step

LEMMA AsioTypes ==
  ASSUME ThreadTypeOK, backend = "asio", Asio!Step \/ Asio!InnerStep PROVE ThreadTypeOK'
<1> USE CaptureAssumption DEF ThreadTypeOK, Opening, Waiting, Working, Ended,
        Asio!device, Asio!buffer, Asio!control, Asio!output, Asio!view, Asio!data,
        Asio!Go, Asio!Report
<1>1. CASE Asio!Open \/ Asio!Begin
  BY <1>1 DEF Asio!Open, Asio!Begin, Asio!OpenFails, Asio!OpenSucceeds, Asio!Started,
     Asio!Send
<1>2. CASE Asio!RateEvent \/ Asio!Exit \/ Asio!RateChanged
  BY <1>2 DEF Asio!RateEvent, Asio!Exit, Asio!RateChanged, Asio!ExitReceived,
     Asio!RateIsOff, Asio!Finish, Asio!Send
<1>3. CASE Asio!Disconnected \/ Asio!LookForChunk
  BY <1>3 DEF Asio!Disconnected, Asio!LookForChunk, Asio!CommandsClosed
<1>4. CASE Asio!ReadNote
  BY NoteTypes, <1>4 DEF Asio!ReadNote
<1>5. CASE Asio!MakeChunk
  BY <1>5 DEF Asio!MakeChunk, Asio!JudgeChunk
<1>6. CASE Asio!SendChunk \/ Asio!End
  BY <1>6 DEF Asio!SendChunk, Asio!End, Asio!BecomeInactive, Asio!Send
<1>7. CASE Asio!Callback
  <2>1. notes' \in {notes, Append(notes, 0), Append(notes, 1)}
        /\ (notes' # notes => Len(notes) < NoteCapacity)
    BY <1>7 DEF Asio!Callback, Asio!RecordAndOffer, Asio!Record, Asio!Offer
  <2>2. notes' \in Seq(0..EndNote) /\ Len(notes') <= NoteCapacity
    BY NoteTypes, <2>1
  <2> QED
    BY <1>7, <2>2 DEF Asio!Callback, Asio!RecordAndOffer, Asio!Record, Asio!Offer
<1>8. CASE Asio!MessageCallback
  BY <1>8 DEF Asio!MessageCallback
<1> QED
  BY <1>1, <1>2, <1>3, <1>4, <1>5, <1>6, <1>7, <1>8 DEF Asio!Step, Asio!InnerStep

LEMMA WasapiTypes ==
  ASSUME ThreadTypeOK, backend = "wasapi",
         (Wasapi!Step \/ Wasapi!InnerStep \/ Wasapi!InnerStops)
  PROVE  ThreadTypeOK'
<1> USE CaptureAssumption DEF ThreadTypeOK, Opening, Waiting, Working, Ended,
        Wasapi!device, Wasapi!buffer, Wasapi!control, Wasapi!output, Wasapi!view,
        Wasapi!data, Wasapi!Go, Wasapi!Report
<1>1. CASE Wasapi!Open \/ Wasapi!Begin
  BY <1>1 DEF Wasapi!Open, Wasapi!Begin, Wasapi!OpenFails, Wasapi!OpenSucceeds,
     Wasapi!Started, Wasapi!Send
<1>2. CASE Wasapi!Exit \/ Wasapi!RateChanged
  BY <1>2 DEF Wasapi!Exit, Wasapi!RateChanged, Wasapi!ExitReceived, Wasapi!RateIsOff,
     Wasapi!Finish, Wasapi!Send
<1>3. CASE Wasapi!InnerHasFailed \/ Wasapi!NotesClosed
  BY <1>3 DEF Wasapi!InnerHasFailed, Wasapi!NotesClosed, Wasapi!FailureReport, Wasapi!Send
<1>4. CASE Wasapi!CommandsClosed \/ Wasapi!LookForChunk \/ Wasapi!Drain \/ Wasapi!StopInner
  <2>1. notes' \in Seq(0..EndNote) /\ Len(notes') <= NoteCapacity
    BY NoteTypes, <1>4 DEF Wasapi!CommandsClosed, Wasapi!LookForChunk, Wasapi!Drain,
       Wasapi!StopInner
  <2> QED
    BY <1>4, <2>1 DEF Wasapi!CommandsClosed, Wasapi!LookForChunk, Wasapi!Drain,
       Wasapi!StopInner
<1>5. CASE Wasapi!ReadNote
  BY NoteTypes, <1>5 DEF Wasapi!ReadNote
<1>6. CASE Wasapi!MakeChunk
  BY <1>6 DEF Wasapi!MakeChunk, Wasapi!JudgeChunk
<1>7. CASE Wasapi!Pause
  BY <1>7 DEF Wasapi!Pause, Wasapi!Send
<1>8. CASE Wasapi!SendChunk \/ Wasapi!End
  BY <1>8 DEF Wasapi!SendChunk, Wasapi!End, Wasapi!BecomeInactive, Wasapi!Send
<1>9. CASE Wasapi!Deliver
  <2>1. notes' \in {notes, Append(notes, 0), Append(notes, 1)}
        /\ (notes' # notes => Len(notes) < NoteCapacity)
    BY <1>9 DEF Wasapi!Deliver, Wasapi!RecordAndOffer, Wasapi!Record, Wasapi!Offer
  <2>2. notes' \in Seq(0..EndNote) /\ Len(notes') <= NoteCapacity
    BY NoteTypes, <2>1
  <2> QED
    BY <1>9, <2>2 DEF Wasapi!Deliver, Wasapi!RecordAndOffer, Wasapi!Record, Wasapi!Offer
<1>10. CASE Wasapi!Timeout
  BY NoteTypes, <1>10 DEF Wasapi!Timeout
<1>11. CASE Wasapi!InnerFails \/ Wasapi!InnerStops
  BY <1>11 DEF Wasapi!InnerFails, Wasapi!InnerStops
<1> QED
  BY <1>1, <1>2, <1>3, <1>4, <1>5, <1>6, <1>7, <1>8, <1>9, <1>10, <1>11
     DEF Wasapi!Step, Wasapi!InnerStep

LEMMA AlsaTypes ==
  ASSUME ThreadTypeOK, backend = "alsa", Alsa!Step \/ Alsa!Callback PROVE ThreadTypeOK'
<1> USE CaptureAssumption DEF ThreadTypeOK, Opening, Waiting, Working, Ended,
        Alsa!device, Alsa!buffer, Alsa!control, Alsa!output, Alsa!view, Alsa!data,
        Alsa!Go, Alsa!Report
<1>1. CASE Alsa!Open \/ Alsa!Begin
  BY <1>1 DEF Alsa!Open, Alsa!Begin, Alsa!OpenFails, Alsa!OpenSucceeds, Alsa!Started
<1>2. CASE Alsa!Exit \/ Alsa!RateChanged \/ Alsa!CommandsClosed
  BY <1>2 DEF Alsa!Exit, Alsa!RateChanged, Alsa!CommandsClosed, Alsa!ExitReceived,
     Alsa!RateIsOff, Alsa!Finish, Alsa!Send
<1>3. CASE Alsa!ReadChunk \/ Alsa!DeviceStalls
  BY <1>3 DEF Alsa!ReadChunk, Alsa!DeviceStalls
<1>4. CASE Alsa!SourceEnds
  BY <1>4 DEF Alsa!SourceEnds, Alsa!Send
<1>5. CASE Alsa!ReadFails
  BY <1>5 DEF Alsa!ReadFails, Alsa!Send
<1>6. CASE Alsa!SendChunk \/ Alsa!End
  BY <1>6 DEF Alsa!SendChunk, Alsa!End, Alsa!BecomeInactive, Alsa!Send
<1>7. CASE Alsa!Callback
  BY <1>7 DEF Alsa!Callback, Alsa!Record
<1> QED
  BY <1>1, <1>2, <1>3, <1>4, <1>5, <1>6, <1>7 DEF Alsa!Step

LEMMA AlsaThreadedTypes ==
  ASSUME ThreadTypeOK, backend = "alsaThreaded",
         AlsaThreaded!Step \/ AlsaThreaded!InnerStep
  PROVE  ThreadTypeOK'
<1> USE CaptureAssumption DEF ThreadTypeOK, Opening, Waiting, Working, Ended,
        AlsaThreaded!device, AlsaThreaded!buffer, AlsaThreaded!control,
        AlsaThreaded!output, AlsaThreaded!view, AlsaThreaded!data, AlsaThreaded!Go,
        AlsaThreaded!Report
<1>1. CASE AlsaThreaded!Open \/ AlsaThreaded!Begin
  BY <1>1 DEF AlsaThreaded!Open, AlsaThreaded!Begin, AlsaThreaded!OpenFails,
     AlsaThreaded!OpenSucceeds, AlsaThreaded!Started
<1>2. CASE AlsaThreaded!Command \/ AlsaThreaded!ReadNote
  <2>1. notes' \in Seq(0..EndNote) /\ Len(notes') <= NoteCapacity
    BY NoteTypes, <1>2 DEF AlsaThreaded!Command, AlsaThreaded!ReadNote
  <2> QED
    BY <1>2, <2>1 DEF AlsaThreaded!Command, AlsaThreaded!ReadNote
<1>3. CASE AlsaThreaded!ReadEnd
  BY NoteTypes, <1>3 DEF AlsaThreaded!ReadEnd, AlsaThreaded!Send
<1>4. CASE AlsaThreaded!NotesClosed \/ AlsaThreaded!RateChanged
  BY <1>4 DEF AlsaThreaded!NotesClosed, AlsaThreaded!RateChanged, AlsaThreaded!RateIsOff,
     AlsaThreaded!Finish, AlsaThreaded!Send
<1>5. CASE AlsaThreaded!Drain \/ AlsaThreaded!MakeChunk
  <2>1. notes' \in Seq(0..EndNote) /\ Len(notes') <= NoteCapacity
    BY NoteTypes, <1>5 DEF AlsaThreaded!Drain, AlsaThreaded!MakeChunk,
       AlsaThreaded!JudgeChunk
  <2> QED
    BY <1>5, <2>1 DEF AlsaThreaded!Drain, AlsaThreaded!MakeChunk, AlsaThreaded!JudgeChunk
<1>6. CASE AlsaThreaded!Pause \/ AlsaThreaded!Deliver
  BY <1>6 DEF AlsaThreaded!Pause, AlsaThreaded!Deliver, AlsaThreaded!TrySend,
     AlsaThreaded!Send
<1>7. CASE AlsaThreaded!End
  BY <1>7 DEF AlsaThreaded!End, AlsaThreaded!BecomeInactive
<1>8. CASE AlsaThreaded!Read
  <2>1. notes' \in {notes, Append(notes, 0), Append(notes, 1)}
        /\ (notes' # notes => Len(notes) < NoteCapacity)
    BY <1>8 DEF AlsaThreaded!Read, AlsaThreaded!Reading, AlsaThreaded!RecordAndOffer,
       AlsaThreaded!Record, AlsaThreaded!Offer
  <2>2. notes' \in Seq(0..EndNote) /\ Len(notes') <= NoteCapacity
    BY NoteTypes, <2>1
  <2> QED
    BY <1>8, <2>2 DEF AlsaThreaded!Read, AlsaThreaded!Reading, AlsaThreaded!RecordAndOffer,
       AlsaThreaded!Record, AlsaThreaded!Offer
<1>9. CASE AlsaThreaded!ReadNothing
  BY NoteTypes, <1>9 DEF AlsaThreaded!ReadNothing, AlsaThreaded!Reading,
     AlsaThreaded!Offer
<1>10. CASE AlsaThreaded!InnerEnds
  BY <1>10 DEF AlsaThreaded!InnerEnds
<1>11. CASE AlsaThreaded!TellEnd
  <2>1. notes' \in Seq(0..EndNote) /\ Len(notes') <= NoteCapacity
    BY NoteTypes, <1>11 DEF EndNote, AlsaThreaded!TellEnd, AlsaThreaded!Offer,
       AlsaThreaded!EndNote
  <2> QED
    BY <1>11, <2>1 DEF AlsaThreaded!TellEnd, AlsaThreaded!Offer, AlsaThreaded!EndNote
<1> QED
  BY <1>1, <1>2, <1>3, <1>4, <1>5, <1>6, <1>7, <1>8, <1>9, <1>10, <1>11
     DEF AlsaThreaded!Step, AlsaThreaded!InnerStep

-----------------------------------------------------------------------------
\* -------------------------- Every step, and the theorems ------------------

\* What a step of the supervisor or the processing thread leaves as it is.
LEMMA EnvironmentTypes ==
  ASSUME ThreadTypeOK, SoundInv, Environment \/ UNCHANGED vars
  PROVE  ThreadTypeOK' /\ SoundMoves /\ told' = told
<1> USE CaptureAssumption
        DEF Waiting, device, buffer, control, output, view, data
<1>1. UNCHANGED <<backend, inner, event, produced, ring, notes, chunk, last, told, state, saved,
                  published, newest, stale>>
  BY DEF Environment, SendExit, SupervisorLeaves, Consume, ProcessingStops, PassBarrier, vars
<1>2. pc' = pc \/ pc' \in {"start", "done"}
  BY DEF Environment, SendExit, SupervisorLeaves, Consume, ProcessingStops, PassBarrier, vars
<1>3. /\ command' \in {"none", "Exit", "taken"} /\ queued' \in 0..QueueLimit
      /\ supervisor' \in BOOLEAN /\ processing' \in BOOLEAN
  <2>1. /\ command \in {"none", "Exit", "taken"} /\ queued \in 0..QueueLimit
        /\ supervisor \in BOOLEAN /\ processing \in BOOLEAN /\ QueueLimit \in Nat
    BY DEF ThreadTypeOK
  <2>2. /\ command' \in {command, "Exit"} /\ supervisor' \in {supervisor, FALSE}
        /\ processing' \in {processing, FALSE}
    BY DEF Environment, SendExit, SupervisorLeaves, Consume, ProcessingStops, PassBarrier, vars
  <2>3. queued' = queued \/ queued' = 0 \/ (queued > 0 /\ queued' = queued - 1)
    <3>1. CASE Consume
      BY <3>1 DEF Consume
    <3>2. CASE ~Consume
      BY <3>2 DEF Environment, SendExit, SupervisorLeaves, ProcessingStops, PassBarrier, vars
    <3> QED
      BY <3>1, <3>2
  <2>4. queued' \in 0..QueueLimit
    BY <2>1, <2>3
  <2> QED
    BY <2>1, <2>2, <2>4
<1>4. ThreadTypeOK'
  BY <1>1, <1>2, <1>3 DEF ThreadTypeOK, Opening, Working, Ended
<1>5. SoundMoves
  BY <1>1, <1>2 DEF SoundMoves, Keep, InChannel, ToBeSent, SoundInv
<1> QED
  BY <1>1, <1>4, <1>5

LEMMA BackendTypes ==
  ASSUME ThreadTypeOK, SoundTypeOK, SoundInv, Thread \/ Device \/ InnerStops
  PROVE  ThreadTypeOK' /\ SoundMoves
<1> produced \in 0..MaxPackets
  BY DEF SoundTypeOK
<1>1. ThreadTypeOK'
  BY GeneratorTypes, CpalTypes, PulseTypes, CoreAudioTypes, PipeWireTypes, AsioTypes,
     WasapiTypes, AlsaTypes, AlsaThreadedTypes
     DEF Thread, Device, InnerStops
<1>2. SoundMoves
  BY GeneratorSound, CpalSound, PulseSound, CoreAudioSound, PipeWireSound, AsioSound,
     WasapiSound, AlsaSound, AlsaThreadedSound
     DEF Thread, Device, InnerStops
<1> QED
  BY <1>1, <1>2

\* The inductive invariant: the types, the sound on its way, and what has been
\* reported and published at each place of the thread.
CaptureInv ==
  /\ ThreadTypeOK /\ told \subseteq {"Ready"} \cup Final
  /\ SoundTypeOK /\ SoundInv
  /\ ControlInv

LEMMA InvIsTyped == CaptureInv => TypeOK
  BY DEF CaptureInv, ThreadTypeOK, SoundTypeOK, TypeOK

LEMMA InitCaptureInv == Init => CaptureInv
<1> SUFFICES ASSUME Init PROVE CaptureInv
  OBVIOUS
<1> USE CaptureAssumption
        DEF Init, Opening, Waiting, Working, Ended
<1> MaxPackets \in Nat /\ 0 \in 0..MaxPackets
  OBVIOUS
<1>1. ThreadTypeOK /\ told \subseteq {"Ready"} \cup Final
  BY DEF ThreadTypeOK
<1>2. SoundTypeOK
  <2>1. chunk \in [1..ChunkPackets -> 0..MaxPackets]
    OBVIOUS
  <2>2. ring \in Seq(1..MaxPackets) /\ Len(ring) <= RingCapacity /\ notes = <<>>
    OBVIOUS
  <2>3. produced \in 0..MaxPackets /\ newest \in 0..MaxPackets /\ stale \in BOOLEAN
    <3>1. produced = 0 /\ newest = 0 /\ stale = FALSE
      OBVIOUS
    <3> QED
      BY <3>1
  <2> HIDE DEF Init
  <2> QED
    BY <2>1, <2>2, <2>3 DEF SoundTypeOK
<1>3. SoundInv
  <2>1. ring = <<>> /\ InChannel = <<>> /\ ~ToBeSent
    BY DEF InChannel, ToBeSent
  <2> QED
    BY <2>1 DEF SoundInv, InOrder, Between, Before
<1>4. ControlInv
  BY DEF ControlInv, EndsInactive, InnerInv, Closing
<1> QED
  BY <1>1, <1>2, <1>3, <1>4 DEF CaptureInv

LEMMA NextCaptureInv ==
  ASSUME CaptureInv, [Next]_vars
  PROVE  CaptureInv' /\ [Promise!Next]_Promise!contract
<1>1. TypeOK /\ ThreadTypeOK /\ SoundTypeOK /\ SoundInv /\ ControlInv
      /\ notes \in Seq(0..EndNote)
  BY InvIsTyped DEF CaptureInv, ThreadTypeOK
<1>2. Next \/ UNCHANGED vars
  OBVIOUS
<1>3. ThreadTypeOK' /\ SoundMoves
  BY <1>1, <1>2, EnvironmentTypes, BackendTypes DEF Next
<1>4. told' \subseteq {"Ready"} \cup Final
  <2>1. ASSUME Environment \/ UNCHANGED vars PROVE told' = told
    BY <1>1, <2>1, EnvironmentTypes
  <2>2. ASSUME ThreadMoves \/ DeviceMoves PROVE told' \subseteq told \cup {"Ready"} \cup Final
    BY <2>2 DEF ThreadMoves, DeviceMoves, Final
  <2> QED
    BY <1>1, <1>2, <2>1, <2>2, BackendMoves DEF Next, CaptureInv
<1>5. SoundTypeOK' /\ SoundInv'
  BY <1>1, <1>3, NextSoundTypes, NextSoundInv
<1>6. ControlInv' /\ (Promise!Next \/ UNCHANGED Promise!contract)
  BY <1>1, <1>2, NextControl
<1> QED
  BY <1>3, <1>4, <1>5, <1>6 DEF CaptureInv

LEMMA CaptureInvariant == Spec => []CaptureInv
  BY InitCaptureInv, NextCaptureInv, PTL DEF Spec

\* The variables keep their types: the ring buffer and the channel their capacity,
\* and neither the count of packets nor the queue of messages leaves its bounds.
THEOREM CaptureTypes == Spec => []TypeOK
  BY CaptureInvariant, InvIsTyped, PTL

\* Whatever the backend and whatever goes wrong, the capture threads keep the
\* contract that the supervisor and the processing thread rely on: one report of how
\* the start went, nothing after EndOfStream, no end without a report while somebody
\* takes the audio.
THEOREM ContractKept == Spec => Contract
<1>1. Init => Promise!Init
  BY Phases DEF PhaseIsRight, Init, Promise!Init
<1> QED
  BY <1>1, CaptureInvariant, NextCaptureInv, PTL DEF Spec, Contract, Promise!Spec

\* A capture thread that has come to its end leaves the state Inactive or never
\* published one, the two returns of ALSA and WASAPI that skip it aside.
THEOREM EndsShown == Spec => []EndsInactive
  BY CaptureInvariant, PTL DEF CaptureInv, ControlInv

\* No backend but ASIO and PulseAudio ever sends sound twice or out of order,
\* however the callback, the stalls and the timeouts fall between its steps.
THEOREM FreshAudio == Spec => []AudioIsFresh
<1>1. CaptureInv => AudioIsFresh
  BY DEF CaptureInv, SoundInv, AudioIsFresh
<1> QED
  BY <1>1, CaptureInvariant, PTL
=============================================================================
