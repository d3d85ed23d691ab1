---------------------------- MODULE PlaybackProofs ---------------------------
(***************************************************************************)
(* The safety properties of the playback backends, for every number of     *)
(* chunks and every size of the buffers: the types, the contract of a      *)
(* playback thread, the order of the sound, the account of what is in the  *)
(* ring buffer, and that a stream that ends without an error has been      *)
(* handed to the device.                                                   *)
(*                                                                         *)
(* The contract is not argued backend by backend.  ThreadMoves and         *)
(* DeviceMoves say what a step of any of them does to the reports and the  *)
(* inbox, as ChunkMoves and SoundMoves of PlaybackSound do for the sound.  *)
(***************************************************************************)
EXTENDS PlaybackBackends, PlaybackSound, FiniteSetTheorems, FunctionTheorems

-----------------------------------------------------------------------------
\* ------------------------------ What a step does --------------------------

\* EndOfStream is the last message.
LastMessage ==
  \A i \in 1..Len(inbox) : inbox[i] = EndOfStream => i = Len(inbox) /\ ~processing

\* The two threads of ALSA
ThreadedControl ==
  backend = "alsaThreaded" =>
    /\ inner \in {"running", "ending"} => pc \in Working
    /\ pc \in {"end", "join"} => inner = "panicked" \/ (inbox = <<>> /\ ~processing)
    /\ inner = "ending" \/ (\E i \in 1..Len(notes) : notes[i] = EndNote)
         => inbox = <<>> /\ ~processing
    /\ inner = "over" <=> "Done" \in told

ControlInv ==
  /\ pc = "open" => told = {} /\ inner = "none"
  /\ pc = "failed" => told = {"Error"} /\ inner = "none"
  /\ inner = "panicked" => backend = "alsaThreaded"
  /\ ~supervisor => told \cap Errors # {}
  /\ pc \in {"end", "join"} /\ backend # "alsaThreaded" => told \cap Final # {}
  /\ backend = "cpal" /\ inner = "over" => told \cap Final # {}
  /\ LastMessage
  /\ ThreadedControl

\* A step of the playback thread, as the supervisor and the processing thread see it.
ThreadMoves ==
  /\ UNCHANGED <<backend, supervisor, processing, made>> /\ Taken
  /\ \/ /\ pc = "open" /\ pc' = "barrier"
        /\ told' \in {{"Ready"}, {"Ready", "Error"}} /\ UNCHANGED inbox
        /\ inner' # "panicked" /\ (backend = "cpal" /\ inner' = "over" => "Error" \in told')
     \/ /\ pc = "open" /\ pc' = "failed" /\ told' = {"Error"} /\ UNCHANGED <<inbox, inner>>
     \/ /\ pc \in Working /\ pc' \in (Working \ {"start"}) \cup Ended
        /\ told \subseteq told' /\ told' \subseteq told \cup Final
        /\ "Done" \in told' \ told => inbox' = <<>> /\ ~processing
        /\ inner' = "panicked" <=> inner = "panicked"
        /\ pc' \in Ended => told' \cap Final # {} \/ inner = "panicked"
        /\ pc' \in {"end", "join"} /\ backend # "alsaThreaded" => told' \cap Final # {}
        /\ backend = "cpal" /\ inner' = "over" => told' \cap Final # {}

\* A step of its callback or its inner thread.
DeviceMoves ==
  /\ UNCHANGED <<backend, pc, supervisor, processing, made, inbox>>
  /\ told \subseteq told' /\ told' \subseteq told \cup Final
  /\ told' # told => pc \in Working
  /\ "Done" \in told' \ told => inbox = <<>> /\ ~processing
  /\ inner' # inner => pc \notin {"open", "failed"} /\ backend # "cpal" /\ inner # "panicked"
  /\ inner' = "panicked" /\ inner # "panicked" => backend = "alsaThreaded" /\ pc \in Working

\* What is known of the messages when one has been taken.
LEMMA TakenMessages ==
  ASSUME inbox \in Seq(0..EndOfStream), LastMessage
  PROVE  /\ (\E i \in 1..Len(inbox) : inbox[i] = EndOfStream) => ~processing
         /\ inbox # <<>> /\ Head(inbox) = EndOfStream => Tail(inbox) = <<>> /\ ~processing
         /\ Taken /\ UNCHANGED processing => LastMessage'
<1>1. (\E i \in 1..Len(inbox) : inbox[i] = EndOfStream) => ~processing
  BY DEF LastMessage
<1>2. ASSUME inbox # <<>>, Head(inbox) = EndOfStream PROVE Tail(inbox) = <<>> /\ ~processing
  <2>1. Len(inbox) \in Nat \ {0} /\ 1 \in 1..Len(inbox) /\ inbox[1] = EndOfStream
    BY <1>2, EmptySeq
  <2>2. 1 = Len(inbox) /\ ~processing
    BY <2>1 DEF LastMessage
  <2>3. Tail(inbox) \in Seq(0..EndOfStream) /\ Len(Tail(inbox)) = 0
    BY <1>2, <2>2, HeadTailProperties
  <2> QED
    BY <2>2, <2>3, EmptySeq
<1>3. ASSUME Taken, UNCHANGED processing PROVE LastMessage'
  <2>1. CASE inbox' = inbox
    BY <1>3, <2>1 DEF LastMessage, EndOfStream
  <2>2. CASE inbox' = <<>>
    BY <2>2 DEF LastMessage
  <2>3. CASE inbox # <<>> /\ inbox' = Tail(inbox)
    <3>1. /\ Len(inbox') = Len(inbox) - 1 /\ Len(inbox) \in Nat
          /\ \A i \in 1..Len(inbox') : inbox'[i] = inbox[i + 1]
      BY <2>3, HeadTailProperties
    <3>2. ASSUME NEW i \in 1..Len(inbox'), inbox'[i] = EndOfStream
          PROVE  i = Len(inbox') /\ ~processing'
      <4>1. i + 1 \in 1..Len(inbox) /\ inbox[i + 1] = EndOfStream
        BY <3>1, <3>2
      <4>2. i + 1 = Len(inbox) /\ ~processing
        BY <4>1 DEF LastMessage
      <4> QED
        BY <1>3, <3>1, <4>2
    <3> QED
      BY <3>2 DEF LastMessage, EndOfStream
  <2> QED
    BY <1>3, <2>1, <2>2, <2>3 DEF Taken
<1> QED
  BY <1>1, <1>2, <1>3

LEMMA CpalMoves ==
  ASSUME inbox \in Seq(0..EndOfStream), ControlInv,
         backend = "cpal", Cpal!Step \/ Cpal!Callback
  PROVE  ThreadMoves \/ DeviceMoves
<1> USE TakenMessages DEF Cpal!driver, Cpal!source, Cpal!reports, Cpal!buffer, Cpal!writer,
        Cpal!heard, Cpal!Go, Cpal!Report, Cpal!EndOfStream, Cpal!Pause, ControlInv, Waiting,
        Working, Ended, Final, Errors, Taken, EndOfStream
<1>1. CASE Cpal!Open
  BY <1>1 DEF ThreadMoves, Cpal!Open, Cpal!OpenFails, Cpal!OpenSucceeds
<1>2. CASE Cpal!Begin
  BY <1>2 DEF ThreadMoves, Cpal!Begin, Cpal!Started
<1>3. CASE Cpal!ReceiveAudio("loop") \/ Cpal!IgnorePause("loop")
  BY <1>3 DEF ThreadMoves, Cpal!ReceiveAudio, Cpal!IgnorePause, Cpal!ReceiveAudio,
     Cpal!IgnorePause, Cpal!Receive
<1>4. CASE Cpal!SendChunk \/ Cpal!SpeedFails
  BY <1>4 DEF ThreadMoves, Cpal!SendChunk, Cpal!SpeedFails
<1>5. CASE Cpal!ReceiveEnd \/ Cpal!ChannelLost
  BY <1>5 DEF ThreadMoves, Cpal!ReceiveEnd, Cpal!ChannelLost, Cpal!EndReceived,
     Cpal!Receive, Cpal!Closed, Cpal!FinishOrPanic
<1>6. CASE Cpal!End
  BY <1>6 DEF ThreadMoves, Cpal!End, Cpal!Stop
<1>7. CASE Cpal!Callback
  BY <1>7 DEF DeviceMoves, Cpal!Callback, Cpal!PlayFromRing
<1> QED
  BY <1>1, <1>2, <1>3, <1>4, <1>5, <1>6, <1>7
     DEF Cpal!Step, Cpal!Callback

LEMMA PulseMoves ==
  ASSUME inbox \in Seq(0..EndOfStream), ControlInv,
         backend = "pulse", Pulse!Step \/ Pulse!Server
  PROVE  ThreadMoves \/ DeviceMoves
<1> USE TakenMessages DEF Pulse!driver, Pulse!source, Pulse!reports, Pulse!buffer,
        Pulse!writer, Pulse!heard, Pulse!Go, Pulse!Report, Pulse!EndOfStream, Pulse!Pause,
        ControlInv, Waiting, Working, Ended, Final, Errors, Taken, EndOfStream
<1>1. CASE Pulse!Open \/ Pulse!Begin
  BY <1>1 DEF ThreadMoves, Pulse!Open, Pulse!Begin, Pulse!OpenFails, Pulse!OpenSucceeds,
     Pulse!Started
<1>2. CASE Pulse!ReceiveAudio("loop") \/ Pulse!IgnorePause("loop")
  BY <1>2 DEF ThreadMoves, Pulse!ReceiveAudio, Pulse!IgnorePause, Pulse!ReceiveAudio,
     Pulse!IgnorePause, Pulse!Receive
<1>3. CASE Pulse!Write
  BY <1>3 DEF ThreadMoves, Pulse!Write
<1>4. CASE Pulse!ReceiveEnd \/ Pulse!ChannelLost
  BY <1>4 DEF ThreadMoves, Pulse!ReceiveEnd, Pulse!ChannelLost, Pulse!EndReceived,
     Pulse!Receive, Pulse!Closed, Pulse!FinishOrPanic
<1>5. CASE Pulse!End
  BY <1>5 DEF ThreadMoves, Pulse!End, Pulse!Stop
<1>6. CASE Pulse!Server
  BY <1>6 DEF DeviceMoves, Pulse!Server
<1> QED
  BY <1>1, <1>2, <1>3, <1>4, <1>5, <1>6
     DEF Pulse!Step

LEMMA CoreAudioMoves ==
  ASSUME inbox \in Seq(0..EndOfStream), ControlInv,
         backend = "coreaudio", CoreAudio!Step \/ CoreAudio!InnerStep
  PROVE  ThreadMoves \/ DeviceMoves
<1> USE TakenMessages DEF CoreAudio!driver, CoreAudio!source, CoreAudio!reports,
        CoreAudio!buffer, CoreAudio!writer, CoreAudio!heard, CoreAudio!Go, CoreAudio!Report,
        CoreAudio!EndOfStream, CoreAudio!Pause, ControlInv, Waiting, Working, Ended, Final,
        Errors, Taken, EndOfStream
<1>1. CASE CoreAudio!Open \/ CoreAudio!Begin
  BY <1>1 DEF ThreadMoves, CoreAudio!Open, CoreAudio!Begin, CoreAudio!OpenFails,
     CoreAudio!OpenSucceeds, CoreAudio!Started
<1>2. CASE CoreAudio!NotAlive
  BY <1>2 DEF ThreadMoves, CoreAudio!NotAlive, CoreAudio!Finish
<1>3. CASE CoreAudio!Alive
  BY <1>3 DEF ThreadMoves, CoreAudio!Alive, CoreAudio!Look
<1>4. CASE CoreAudio!ReceiveAudio("wait") \/ CoreAudio!IgnorePause("wait")
  BY <1>4 DEF ThreadMoves, CoreAudio!ReceiveAudio, CoreAudio!IgnorePause,
     CoreAudio!ReceiveAudio, CoreAudio!IgnorePause, CoreAudio!Receive
<1>5. CASE CoreAudio!PushChunk \/ CoreAudio!Tell
  BY <1>5 DEF ThreadMoves, CoreAudio!PushChunk, CoreAudio!Tell
<1>6. CASE CoreAudio!ReceiveEnd \/ CoreAudio!ChannelLost
  BY <1>6 DEF ThreadMoves, CoreAudio!ReceiveEnd, CoreAudio!ChannelLost,
     CoreAudio!EndReceived, CoreAudio!Receive, CoreAudio!Closed, CoreAudio!Finish
<1>7. CASE CoreAudio!End
  BY <1>7 DEF ThreadMoves, CoreAudio!End, CoreAudio!Stop
<1>8. CASE CoreAudio!Callback \/ CoreAudio!Listener
  BY <1>8 DEF DeviceMoves, CoreAudio!Callback, CoreAudio!Listener
<1> QED
  BY <1>1, <1>2, <1>3, <1>4, <1>5, <1>6, <1>7, <1>8
     DEF CoreAudio!Step, CoreAudio!InnerStep

LEMMA PipeWireMoves ==
  ASSUME inbox \in Seq(0..EndOfStream), ControlInv,
         backend = "pipewire", PipeWire!Step \/ PipeWire!Callback
  PROVE  ThreadMoves \/ DeviceMoves
<1> USE TakenMessages DEF PipeWire!driver, PipeWire!source, PipeWire!reports,
        PipeWire!buffer, PipeWire!writer, PipeWire!heard, PipeWire!Go, PipeWire!Report,
        PipeWire!EndOfStream, PipeWire!Pause, ControlInv, Waiting, Working, Ended, Final,
        Errors, Taken, EndOfStream
<1>1. CASE PipeWire!Open \/ PipeWire!Begin
  BY <1>1 DEF ThreadMoves, PipeWire!Open, PipeWire!Begin, PipeWire!OpenFails,
     PipeWire!OpenSucceeds, PipeWire!Started
<1>2. CASE PipeWire!ReceiveAudio("loop") \/ PipeWire!IgnorePause("loop")
  BY <1>2 DEF ThreadMoves, PipeWire!ReceiveAudio, PipeWire!IgnorePause,
     PipeWire!ReceiveAudio, PipeWire!IgnorePause, PipeWire!Receive
<1>3. CASE PipeWire!PushChunk
  BY <1>3 DEF ThreadMoves, PipeWire!PushChunk
<1>4. CASE PipeWire!ReceiveEnd \/ PipeWire!ChannelLost
  BY <1>4 DEF ThreadMoves, PipeWire!ReceiveEnd, PipeWire!ChannelLost, PipeWire!EndReceived,
     PipeWire!Receive, PipeWire!Closed, PipeWire!FinishOrPanic
<1>5. CASE PipeWire!End
  BY <1>5 DEF ThreadMoves, PipeWire!End, PipeWire!Stop
<1>6. CASE PipeWire!Callback
  BY <1>6 DEF DeviceMoves, PipeWire!Callback, PipeWire!PlayFromRing
<1> QED
  BY <1>1, <1>2, <1>3, <1>4, <1>5, <1>6
     DEF PipeWire!Step

LEMMA AsioMoves ==
  ASSUME inbox \in Seq(0..EndOfStream), ControlInv,
         backend = "asio", Asio!Step \/ Asio!InnerStep
  PROVE  ThreadMoves \/ DeviceMoves
<1> USE TakenMessages DEF Asio!driver, Asio!source, Asio!reports, Asio!buffer, Asio!writer,
        Asio!heard, Asio!Go, Asio!Report, Asio!EndOfStream, Asio!Pause, ControlInv, Waiting,
        Working, Ended, Final, Errors, Taken, EndOfStream
<1>1. CASE Asio!Open \/ Asio!Begin
  BY <1>1 DEF ThreadMoves, Asio!Open, Asio!Begin, Asio!OpenFails, Asio!OpenSucceeds,
     Asio!Started
<1>2. CASE Asio!RateChanged
  BY <1>2 DEF ThreadMoves, Asio!RateChanged, Asio!Finish
<1>3. CASE Asio!NoEvent \/ Asio!Timeout
  BY <1>3 DEF ThreadMoves, Asio!NoEvent, Asio!Timeout, Asio!Look
<1>4. CASE Asio!ReceiveAudio("wait") \/ Asio!IgnorePause("wait")
  BY <1>4 DEF ThreadMoves, Asio!ReceiveAudio, Asio!IgnorePause, Asio!ReceiveAudio,
     Asio!IgnorePause, Asio!Receive
<1>5. CASE Asio!PushChunk
  BY <1>5 DEF ThreadMoves, Asio!PushChunk
<1>6. CASE Asio!ReceiveEnd \/ Asio!ChannelLost
  BY <1>6 DEF ThreadMoves, Asio!ReceiveEnd, Asio!ChannelLost, Asio!EndReceived,
     Asio!Receive, Asio!Closed, Asio!Finish
<1>7. CASE Asio!End
  BY <1>7 DEF ThreadMoves, Asio!End, Asio!Stop
<1>8. CASE Asio!Callback \/ Asio!Message
  BY <1>8 DEF DeviceMoves, Asio!Callback, Asio!Message, Asio!PlayFromRing
<1> QED
  BY <1>1, <1>2, <1>3, <1>4, <1>5, <1>6, <1>7, <1>8
     DEF Asio!Step, Asio!InnerStep

LEMMA WasapiMoves ==
  ASSUME inbox \in Seq(0..EndOfStream), ControlInv,
         backend = "wasapi", Wasapi!Step \/ Wasapi!InnerStep \/ Wasapi!InnerFails
  PROVE  ThreadMoves \/ DeviceMoves
<1> USE TakenMessages DEF Wasapi!driver, Wasapi!source, Wasapi!reports, Wasapi!buffer,
        Wasapi!writer, Wasapi!heard, Wasapi!Go, Wasapi!Report, Wasapi!EndOfStream,
        Wasapi!Pause, ControlInv, Waiting, Working, Ended, Final, Errors, Taken, EndOfStream
<1>1. CASE Wasapi!Open \/ Wasapi!Begin
  BY <1>1 DEF ThreadMoves, Wasapi!Open, Wasapi!Begin, Wasapi!OpenFails, Wasapi!OpenSucceeds,
     Wasapi!Started
<1>2. CASE Wasapi!InnerHasFailed
  BY <1>2 DEF ThreadMoves, Wasapi!InnerHasFailed, Wasapi!FailureReport
<1>3. CASE Wasapi!InnerRuns
  BY <1>3 DEF ThreadMoves, Wasapi!InnerRuns, Wasapi!Look
<1>4. CASE Wasapi!ReceiveAudio("wait") \/ Wasapi!IgnorePause("wait")
  BY <1>4 DEF ThreadMoves, Wasapi!ReceiveAudio, Wasapi!IgnorePause, Wasapi!ReceiveAudio,
     Wasapi!IgnorePause, Wasapi!Receive
<1>5. CASE Wasapi!PushChunk
  BY <1>5 DEF ThreadMoves, Wasapi!PushChunk
<1>6. CASE Wasapi!Tell
  <2>1. CASE Wasapi!InnerFailed
    <3>1. \E report \in {"Error", "FormatChange"} : told' = told \cup {report}
      BY <1>6, <2>1 DEF Wasapi!Tell, Wasapi!FailureReport
    <3>2. told' \cap Final # {} /\ told \subseteq told' /\ told' \subseteq told \cup Final
          /\ "Done" \notin told' \ told
      BY <3>1
    <3> QED
      BY <1>6, <2>1, <3>2 DEF ThreadMoves, Wasapi!Tell
  <2>2. CASE ~Wasapi!InnerFailed
    BY <1>6, <2>2 DEF ThreadMoves, Wasapi!Tell
  <2> QED
    BY <2>1, <2>2
<1>7. CASE Wasapi!ReceiveEnd \/ Wasapi!ChannelLost
  BY <1>7 DEF ThreadMoves, Wasapi!ReceiveEnd, Wasapi!ChannelLost, Wasapi!EndReceived,
     Wasapi!Receive, Wasapi!Closed, Wasapi!Finish, Wasapi!FailureReport
<1>8. CASE Wasapi!End \/ Wasapi!Join
  BY <1>8 DEF ThreadMoves, Wasapi!End, Wasapi!Join
<1>9. CASE Wasapi!Feed \/ Wasapi!InnerStops \/ Wasapi!InnerFails
  BY <1>9 DEF DeviceMoves, Wasapi!Feed, Wasapi!InnerStops, Wasapi!InnerFails, Wasapi!Working
<1> QED
  BY <1>1, <1>2, <1>3, <1>4, <1>5, <1>6, <1>7, <1>8, <1>9
     DEF Wasapi!Step, Wasapi!InnerStep

LEMMA AlsaMoves ==
  ASSUME inbox \in Seq(0..EndOfStream), ControlInv,
         backend = "alsa", Alsa!Step
  PROVE  ThreadMoves
<1> USE TakenMessages DEF Alsa!driver, Alsa!source, Alsa!reports, Alsa!buffer, Alsa!writer,
        Alsa!heard, Alsa!Go, Alsa!Report, Alsa!EndOfStream, Alsa!Pause, ControlInv, Waiting,
        Working, Ended, Final, Errors, Taken, EndOfStream
<1>1. CASE Alsa!Open \/ Alsa!Begin
  BY <1>1 DEF ThreadMoves, Alsa!Open, Alsa!Begin, Alsa!OpenFails, Alsa!OpenSucceeds,
     Alsa!Started
<1>2. CASE Alsa!Drop
  BY <1>2 DEF ThreadMoves, Alsa!Drop, Alsa!Contains
<1>3. CASE Alsa!NotStalled
  BY <1>3 DEF ThreadMoves, Alsa!NotStalled, Alsa!Look
<1>4. CASE Alsa!ReceiveAudio("wait") \/ Alsa!PauseDevice
  BY <1>4 DEF ThreadMoves, Alsa!ReceiveAudio, Alsa!PauseDevice, Alsa!ReceiveAudio,
     Alsa!Receive
<1>5. CASE Alsa!Write
  BY <1>5 DEF ThreadMoves, Alsa!Write
<1>6. CASE Alsa!ReceiveEnd \/ Alsa!ChannelLost
  BY <1>6 DEF ThreadMoves, Alsa!ReceiveEnd, Alsa!ChannelLost, Alsa!EndReceived,
     Alsa!Receive, Alsa!Closed, Alsa!Finish
<1>7. CASE Alsa!End
  BY <1>7 DEF ThreadMoves, Alsa!End, Alsa!Stop
<1> QED
  BY <1>1, <1>2, <1>3, <1>4, <1>5, <1>6, <1>7
     DEF Alsa!Step

LEMMA AlsaThreadedMoves ==
  ASSUME inbox \in Seq(0..EndOfStream), notes \in Seq(Nat), ControlInv,
         backend = "alsaThreaded", AlsaThreaded!Step \/ AlsaThreaded!InnerStep \/ AlsaThreaded!InnerPanics
  PROVE  ThreadMoves \/ DeviceMoves
<1> USE TakenMessages DEF AlsaThreaded!driver, AlsaThreaded!source, AlsaThreaded!reports,
        AlsaThreaded!buffer, AlsaThreaded!writer, AlsaThreaded!heard, AlsaThreaded!Go,
        AlsaThreaded!Report, AlsaThreaded!EndOfStream, AlsaThreaded!Pause, ControlInv,
        Waiting, Working, Ended, Final, Errors, Taken, EndOfStream, ThreadedControl
<1>1. CASE AlsaThreaded!Open \/ AlsaThreaded!Begin
  BY <1>1 DEF ThreadMoves, AlsaThreaded!Open, AlsaThreaded!Begin, AlsaThreaded!OpenFails,
     AlsaThreaded!OpenSucceeds, AlsaThreaded!Started
<1>2. CASE AlsaThreaded!ReceiveAudio("loop") \/ AlsaThreaded!TakePause
  BY <1>2 DEF ThreadMoves, AlsaThreaded!ReceiveAudio, AlsaThreaded!TakePause,
     AlsaThreaded!ReceiveAudio, AlsaThreaded!Receive
<1>3. CASE AlsaThreaded!PushChunk \/ AlsaThreaded!PassPause
  BY <1>3 DEF ThreadMoves, AlsaThreaded!PushChunk, AlsaThreaded!PassPause,
     AlsaThreaded!SendNote
<1>4. CASE AlsaThreaded!Tell
  BY <1>4 DEF ThreadMoves, AlsaThreaded!Tell, AlsaThreaded!StartInner
<1>5. CASE AlsaThreaded!ReceiveEnd \/ AlsaThreaded!ChannelLost
  BY <1>5 DEF ThreadMoves, AlsaThreaded!ReceiveEnd, AlsaThreaded!ChannelLost,
     AlsaThreaded!EndReceived, AlsaThreaded!Receive, AlsaThreaded!Closed,
     AlsaThreaded!StartInner
<1>6. CASE AlsaThreaded!PassEnd
  BY <1>6 DEF ThreadMoves, AlsaThreaded!PassEnd, AlsaThreaded!SendNote
<1>7. CASE AlsaThreaded!Join
  BY <1>7 DEF ThreadMoves, AlsaThreaded!Join
<1>8. CASE AlsaThreaded!ReadData \/ AlsaThreaded!ReadPause
  BY <1>8 DEF DeviceMoves, AlsaThreaded!ReadData, AlsaThreaded!ReadPause,
     AlsaThreaded!InnerOnly
<1>9. CASE AlsaThreaded!ReadEnd
  <2>1. notes # <<>> => 1 \in 1..Len(notes) /\ Head(notes) = notes[1]
    BY EmptySeq
  <2>2. inbox = <<>> /\ ~processing
    BY <1>9, <2>1 DEF AlsaThreaded!ReadEnd, AlsaThreaded!EndNote, EndNote
  <2> QED
    BY <1>9, <2>2 DEF DeviceMoves, AlsaThreaded!ReadEnd, AlsaThreaded!InnerOnly
<1>10. CASE AlsaThreaded!Write \/ AlsaThreaded!WriteStalls \/ AlsaThreaded!WriteFails
  BY <1>10 DEF DeviceMoves, AlsaThreaded!Write, AlsaThreaded!WriteStalls,
     AlsaThreaded!WriteFails, AlsaThreaded!InnerOnly, AlsaThreaded!Running
<1>11. CASE AlsaThreaded!InnerEnds \/ AlsaThreaded!InnerPanics
  BY <1>11 DEF DeviceMoves, AlsaThreaded!InnerEnds, AlsaThreaded!InnerPanics,
     AlsaThreaded!InnerOnly
<1> QED
  BY <1>1, <1>2, <1>3, <1>4, <1>5, <1>6, <1>7, <1>8, <1>9, <1>10, <1>11
     DEF AlsaThreaded!Step, AlsaThreaded!InnerStep

\* A step of the backend that is in use.
LEMMA BackendMoves ==
  ASSUME inbox \in Seq(0..EndOfStream), notes \in Seq(Nat), ControlInv, Thread \/ Inner \/ Device PROVE ThreadMoves \/ DeviceMoves
  BY CpalMoves, PulseMoves, CoreAudioMoves, PipeWireMoves, AsioMoves, WasapiMoves, AlsaMoves,
     AlsaThreadedMoves
     DEF Thread, Inner, Device

\* The two threads of ALSA.
LEMMA ThreadedStep ==
  ASSUME inbox \in Seq(0..EndOfStream), notes \in Seq(Nat), ControlInv,
         backend = "alsaThreaded", AlsaThreaded!Step
  PROVE  ThreadedControl'
<1> USE ChunkNumbers
    DEF AlsaThreaded!driver, AlsaThreaded!source, AlsaThreaded!reports, AlsaThreaded!buffer,
        AlsaThreaded!writer, AlsaThreaded!heard, AlsaThreaded!Go, AlsaThreaded!Report, Waiting,
        Working, Ended
<1>1. /\ inner \in {"running", "ending"} => pc \in Working
      /\ pc \in {"end", "join"} => inner = "panicked" \/ (inbox = <<>> /\ ~processing)
      /\ inner = "ending" \/ HasEnd(notes) => inbox = <<>> /\ ~processing
      /\ inner = "over" <=> "Done" \in told
      /\ pc = "open" => told = {} /\ inner = "none"
  BY DEF ControlInv, ThreadedControl, HasEnd
<1>2. /\ UNCHANGED backend /\ processing' = processing /\ (inbox = <<>> => inbox' = <<>>)
      /\ ("Done" \in told' <=> "Done" \in told)
      /\ inner' = inner \/ (inner = "none" /\ inner' = "waiting") \/ (inner = "waiting" /\ inner' = "running")
  <2>1. CASE AlsaThreaded!Open \/ AlsaThreaded!Begin \/ AlsaThreaded!Tell \/ AlsaThreaded!ChannelLost
    BY <1>1, <2>1
       DEF AlsaThreaded!Open, AlsaThreaded!Begin, AlsaThreaded!OpenFails, AlsaThreaded!OpenSucceeds,
       AlsaThreaded!Started, AlsaThreaded!Tell, AlsaThreaded!StartInner, AlsaThreaded!ChannelLost,
       AlsaThreaded!Closed
  <2>2. CASE ~(AlsaThreaded!Open \/ AlsaThreaded!Begin \/ AlsaThreaded!Tell \/ AlsaThreaded!ChannelLost)
    BY <2>2
       DEF AlsaThreaded!Step, AlsaThreaded!ReceiveAudio, AlsaThreaded!Receive, AlsaThreaded!PushChunk,
       AlsaThreaded!TakePause, AlsaThreaded!PassPause, AlsaThreaded!SendNote, AlsaThreaded!ReceiveEnd,
       AlsaThreaded!EndReceived, AlsaThreaded!StartInner, AlsaThreaded!PassEnd, AlsaThreaded!Join
  <2> QED
    BY <2>1, <2>2
<1>3. inner' \in {"running", "ending"} => pc' \in Working
  BY <1>1
     DEF AlsaThreaded!Step, AlsaThreaded!Open, AlsaThreaded!Begin, AlsaThreaded!OpenFails,
     AlsaThreaded!OpenSucceeds, AlsaThreaded!Started, AlsaThreaded!ReceiveAudio,
     AlsaThreaded!PushChunk, AlsaThreaded!Tell, AlsaThreaded!TakePause, AlsaThreaded!PassPause,
     AlsaThreaded!SendNote, AlsaThreaded!ReceiveEnd, AlsaThreaded!ChannelLost,
     AlsaThreaded!PassEnd, AlsaThreaded!Join
<1>4. pc' \in {"end", "join"} => inner' = "panicked" \/ (inbox' = <<>> /\ ~processing')
  <2>1. CASE AlsaThreaded!ReceiveEnd
    BY <2>1, TakenMessages
       DEF AlsaThreaded!ReceiveEnd, AlsaThreaded!EndReceived, AlsaThreaded!Receive, ControlInv,
       EndOfStream, AlsaThreaded!EndOfStream
  <2>2. CASE ~AlsaThreaded!ReceiveEnd
    BY <1>1, <2>2
       DEF AlsaThreaded!Step, AlsaThreaded!Open, AlsaThreaded!Begin, AlsaThreaded!OpenFails,
       AlsaThreaded!OpenSucceeds, AlsaThreaded!Started, AlsaThreaded!ReceiveAudio,
       AlsaThreaded!PushChunk, AlsaThreaded!Tell, AlsaThreaded!TakePause, AlsaThreaded!PassPause,
       AlsaThreaded!SendNote, AlsaThreaded!ChannelLost, AlsaThreaded!Closed,
       AlsaThreaded!PassEnd, AlsaThreaded!Join
  <2> QED
    BY <2>1, <2>2
<1>5. HasEnd(notes') => HasEnd(notes) \/ (inbox = <<>> /\ ~processing)
  <2>1. \/ notes' = notes
        \/ notes' = Append(notes, ChunkPackets) \/ notes' = Append(notes, PauseNote)
        \/ notes' = Append(notes, EndNote) /\ inbox = <<>> /\ ~processing
    BY <1>1
       DEF AlsaThreaded!Step, AlsaThreaded!Open, AlsaThreaded!Begin, AlsaThreaded!OpenFails,
       AlsaThreaded!OpenSucceeds, AlsaThreaded!Started, AlsaThreaded!ReceiveAudio,
       AlsaThreaded!PushChunk, AlsaThreaded!Tell, AlsaThreaded!TakePause, AlsaThreaded!PassPause,
       AlsaThreaded!SendNote, AlsaThreaded!ReceiveEnd, AlsaThreaded!ChannelLost,
       AlsaThreaded!PassEnd, AlsaThreaded!Join, PauseNote, AlsaThreaded!PauseNote, EndNote,
       AlsaThreaded!EndNote
  <2>2. PauseNote \in Nat /\ EndNote \in Nat /\ ChunkPackets \in Nat /\ PauseNote # EndNote
        /\ ChunkPackets # EndNote
    BY DEF PauseNote, EndNote
  <2>3. \A n \in {ChunkPackets, PauseNote} : HasEnd(Append(notes, n)) => HasEnd(notes)
    BY <2>2, EndNotes
  <2> QED
    BY <2>1, <2>3
<1> QED
  BY <1>1, <1>2, <1>3, <1>4, <1>5 DEF ThreadedControl, HasEnd, EndNote

LEMMA ThreadedInnerStep ==
  ASSUME notes \in Seq(Nat), ControlInv, backend = "alsaThreaded",
         AlsaThreaded!InnerStep \/ AlsaThreaded!InnerPanics
  PROVE  ThreadedControl'
<1> USE ChunkNumbers
    DEF AlsaThreaded!driver, AlsaThreaded!source, AlsaThreaded!reports, AlsaThreaded!buffer,
        AlsaThreaded!writer, AlsaThreaded!heard, AlsaThreaded!Go, AlsaThreaded!Report,
        AlsaThreaded!InnerOnly, AlsaThreaded!Running
<1>1. /\ inner \in {"running", "ending"} => pc \in Working
      /\ pc \in {"end", "join"} => inner = "panicked" \/ (inbox = <<>> /\ ~processing)
      /\ inner = "ending" \/ HasEnd(notes) => inbox = <<>> /\ ~processing
      /\ inner = "over" <=> "Done" \in told
  BY DEF ControlInv, ThreadedControl, HasEnd
<1>2. /\ UNCHANGED <<backend, pc, processing, inbox>>
      /\ inner \in {"running", "ending"}
      /\ inner' \in {"running", "ending", "over", "panicked"}
  BY DEF AlsaThreaded!InnerStep, AlsaThreaded!ReadData, AlsaThreaded!ReadPause,
     AlsaThreaded!ReadEnd, AlsaThreaded!Write, AlsaThreaded!WriteStalls,
     AlsaThreaded!WriteFails, AlsaThreaded!InnerEnds, AlsaThreaded!InnerPanics
<1>3. inner' = "over" <=> "Done" \in told'
  BY <1>1
     DEF AlsaThreaded!InnerStep, AlsaThreaded!ReadData, AlsaThreaded!ReadPause,
     AlsaThreaded!ReadEnd, AlsaThreaded!Write, AlsaThreaded!WriteStalls,
     AlsaThreaded!WriteFails, AlsaThreaded!InnerEnds, AlsaThreaded!InnerPanics
<1>4. \/ notes' = notes /\ (inner' = "ending" => inner = "ending")
      \/ notes # <<>> /\ notes' = Tail(notes) /\ (inner' = "ending" => Head(notes) = EndNote)
  BY DEF AlsaThreaded!InnerStep, AlsaThreaded!ReadData, AlsaThreaded!ReadPause,
     AlsaThreaded!ReadEnd, AlsaThreaded!Write, AlsaThreaded!WriteStalls,
     AlsaThreaded!WriteFails, AlsaThreaded!InnerEnds, AlsaThreaded!InnerPanics, EndNote,
     AlsaThreaded!EndNote
<1>5. inner' = "ending" \/ HasEnd(notes') => inner = "ending" \/ HasEnd(notes)
  <2>1. notes # <<>> => (HasEnd(Tail(notes)) => HasEnd(notes)) /\ (Head(notes) = EndNote => HasEnd(notes))
    BY EndNotes
  <2> QED
    BY <1>4, <2>1
<1> QED
  BY <1>1, <1>2, <1>3, <1>5 DEF ThreadedControl, HasEnd, EndNote

-----------------------------------------------------------------------------
\* ------------------------- The reports and the contract -------------------

\* The phase of the contract, place by place.
PhaseIsRight ==
  /\ pc = "open" => Phase = "opening"
  /\ pc = "barrier" => Phase = "ready"
  /\ pc = "failed" => Phase = "failed"
  /\ pc \in Working => Phase = "streaming"
  /\ pc \in Ended => Phase = "over"

LEMMA Phases == PhaseIsRight /\ PhaseIsRight'
<1>1. PhaseIsRight
  BY DEF PhaseIsRight, Phase, Working, Ended
<1> QED
  BY <1>1, PTL

LEMMA ThreadControl ==
  ASSUME inbox \in Seq(0..EndOfStream), ControlInv, ThreadedControl', ThreadMoves
  PROVE  ControlInv' /\ Promise!Next
<1> USE Phases DEF PhaseIsRight, ThreadMoves, Waiting, Working, Ended, Final, Errors
<1>1. ControlInv'
  <2>1. LastMessage'
    BY TakenMessages DEF ControlInv
  <2> QED
    BY <2>1 DEF ControlInv
<1>2. Promise!Take
  BY DEF Promise!Take, Taken
<1>3. ASSUME pc = "open" /\ pc' = "barrier" PROVE Promise!Next
  <2>1. \E errors \in SUBSET {"Error"} : told' = {"Ready"} \cup errors
    <3>1. {"Ready"} = {"Ready"} \cup {} /\ {"Ready", "Error"} = {"Ready"} \cup {"Error"}
      OBVIOUS
    <3> QED
      BY <1>3, <3>1
  <2>2. inner # "panicked" /\ inner' # "panicked" /\ UNCHANGED inbox
    BY <1>3 DEF ControlInv
  <2> QED
    BY <1>3, <2>1, <2>2 DEF Promise!Next, Promise!BecomeReady
<1>4. ASSUME pc = "open" /\ pc' = "failed" PROVE Promise!Next
  BY <1>4 DEF ControlInv, Promise!Next, Promise!Fail
<1>5. ASSUME pc \in Working PROVE Promise!Next
  <2>1. Promise!Speak
    <3>1. told' = told \cup (told' \ told) /\ told' \ told \in SUBSET Promise!Final
      BY <1>5 DEF Promise!Final
    <3> QED
      BY <1>5, <3>1 DEF Promise!Speak
  <2>2. ASSUME pc' \in Working PROVE Promise!Next
    <3>1. Phase = "streaming" /\ Phase' = "streaming"
      BY <1>5, <2>2
    <3>2. (inner' = "panicked") \in {inner = "panicked", TRUE}
      BY <1>5
    <3> QED
      BY <1>2, <2>1, <3>1, <3>2, Zenon DEF Promise!Next, Promise!Stream
  <2>3. ASSUME pc' \in Ended PROVE Promise!Next
    BY <1>2, <1>5, <2>1, <2>3 DEF Promise!Next, Promise!End, Promise!Final
  <2> QED
    BY <1>5, <2>2, <2>3
<1> QED
  BY <1>1, <1>3, <1>4, <1>5

LEMMA DeviceControl ==
  ASSUME ControlInv, ThreadedControl', DeviceMoves
  PROVE  ControlInv' /\ (Promise!Next \/ UNCHANGED Promise!contract)
<1> USE Phases DEF PhaseIsRight, DeviceMoves, Waiting, Working, Ended, Final, Errors
<1>1. ControlInv'
  <2>1. LastMessage'
    BY DEF ControlInv, LastMessage, EndOfStream
  <2> QED
    BY <2>1 DEF ControlInv
<1>2. UNCHANGED <<Phase, inbox, processing>>
  BY DEF Phase
<1>3. ASSUME UNCHANGED <<told, inner>> PROVE UNCHANGED Promise!contract
  BY <1>2, <1>3 DEF Promise!contract
<1>4. ASSUME UNCHANGED told, inner' # inner, ~(inner' = "panicked" /\ inner # "panicked")
      PROVE  UNCHANGED Promise!contract
  BY <1>2, <1>4 DEF Promise!contract
<1>5. ASSUME told' # told \/ (inner' = "panicked" /\ inner # "panicked") PROVE Promise!Next
  <2>1. told' = told \cup (told' \ told) /\ told' \ told \in SUBSET Promise!Final
    BY DEF Promise!Final
  <2>2. Promise!Speak /\ Promise!Take
    BY <1>2, <2>1 DEF Promise!Speak, Promise!Take
  <2>3. (inner' = "panicked") \in {inner = "panicked", TRUE} /\ pc \in Working
    BY <1>5
  <2> QED
    BY <1>2, <2>2, <2>3 DEF Promise!Next, Promise!Stream
<1> QED
  BY <1>1, <1>3, <1>4, <1>5

\* What the processing thread sends is added at the end.
LEMMA SentMessages ==
  ASSUME inbox \in Seq(0..EndOfStream), NEW m \in 0..EndOfStream, inbox' = Append(inbox, m)
  PROVE  Promise!IsPrefix(inbox, inbox')
<1>1. /\ inbox' \in Seq(0..EndOfStream) /\ Len(inbox') = Len(inbox) + 1 /\ Len(inbox) \in Nat
      /\ \A i \in 1..Len(inbox) : inbox'[i] = inbox[i]
  BY AppendProperties
<1>2. \A i \in 1..Len(inbox) : inbox[i] \in 0..EndOfStream /\ inbox'[i] \in 0..EndOfStream
  BY <1>1, ElementOfSeq
<1>3. SubSeq(inbox, 1, Len(inbox)) = SubSeq(inbox', 1, Len(inbox))
  <2> DEFINE p == SubSeq(inbox, 1, Len(inbox))
             q == SubSeq(inbox', 1, Len(inbox))
  <2>1. p = inbox
    BY SubSeqFull
  <2>2. /\ q \in Seq(0..EndOfStream) /\ Len(q) = Len(inbox)
        /\ \A i \in 1..Len(inbox) : q[i] = inbox'[i]
    BY <1>1, <1>2, SubSeqProperties
  <2> HIDE DEF p, q
  <2>3. q = inbox
    BY <1>1, <2>2, SeqEqual
  <2> QED
    BY <2>1, <2>3 DEF p, q
<1> QED
  BY <1>1, <1>3 DEF Promise!IsPrefix

LEMMA EnvironmentControl ==
  ASSUME inbox \in Seq(0..EndOfStream), made \in 0..MaxChunks, processing \in BOOLEAN,
         ControlInv, Environment \/ UNCHANGED vars
  PROVE  ControlInv' /\ (Promise!Next \/ UNCHANGED Promise!contract)
<1> USE Phases
    DEF PhaseIsRight, Waiting, Working, Ended, Final, Errors, driver, source, reports, buffer, writer,
        heard
<1>1. CASE UNCHANGED vars
  BY <1>1 DEF vars, ControlInv, LastMessage, ThreadedControl, Phase, Promise!contract, EndOfStream, EndNote
<1>2. CASE SendAudio \/ SendPause \/ SendEnd
  <2>1. PICK m \in 0..EndOfStream : SendMessage(m)
    BY <1>2, ChunkNumbers DEF SendAudio, SendPause, SendEnd, EndOfStream, Pause
  <2>2. /\ UNCHANGED <<backend, pc, inner, notes, told, supervisor>>
        /\ inbox' = Append(inbox, m) /\ processing /\ processing' = (m # EndOfStream)
        /\ pc \in Working
    BY <2>1 DEF SendMessage
  <2>3. LastMessage'
    <3>1. /\ Len(inbox') = Len(inbox) + 1 /\ inbox'[Len(inbox) + 1] = m /\ Len(inbox) \in Nat
          /\ \A i \in 1..Len(inbox) : inbox'[i] = inbox[i]
      BY <2>2, AppendProperties
    <3>2. \A i \in 1..Len(inbox) : inbox[i] # EndOfStream
      BY <2>2 DEF ControlInv, LastMessage
    <3>3. ASSUME NEW i \in 1..Len(inbox'), inbox'[i] = EndOfStream
          PROVE  i = Len(inbox') /\ ~processing'
      <4>1. i = Len(inbox) + 1
        BY <3>1, <3>2, <3>3
      <4> QED
        BY <2>2, <3>1, <3>3, <4>1
    <3> QED
      BY <3>3 DEF LastMessage, EndOfStream
  <2>4. ControlInv'
    BY <2>2, <2>3 DEF ControlInv, ThreadedControl, EndNote
  <2>5. Promise!Next
    <3>1. Promise!IsPrefix(inbox, inbox')
      BY <2>2, SentMessages
    <3>2. UNCHANGED <<Phase, told, inner>> /\ processing' \in BOOLEAN
      BY <2>2 DEF Phase
    <3> QED
      BY <2>2, <3>1, <3>2 DEF Promise!Next, Promise!Processing
  <2> QED
    BY <2>4, <2>5
<1>3. CASE ProcessingPanics
  BY <1>3
     DEF ProcessingPanics, ControlInv, LastMessage, ThreadedControl, Phase, Promise!Next,
     Promise!Processing, EndOfStream, EndNote
<1>4. CASE SupervisorLeaves
  BY <1>4
     DEF SupervisorLeaves, ControlInv, LastMessage, ThreadedControl, Phase, Promise!contract, EndOfStream,
     EndNote
<1>5. CASE PassBarrier
  BY <1>5
     DEF PassBarrier, ControlInv, LastMessage, ThreadedControl, Phase, Promise!Next, Promise!PassBarrier,
     EndOfStream, EndNote
<1> QED
  BY <1>1, <1>2, <1>3, <1>4, <1>5 DEF Environment

LEMMA NextControl ==
  ASSUME inbox \in Seq(0..EndOfStream), made \in 0..MaxChunks, processing \in BOOLEAN,
         notes \in Seq(Nat), ControlInv, Next \/ UNCHANGED vars
  PROVE  ControlInv' /\ (Promise!Next \/ UNCHANGED Promise!contract)
<1>1. CASE Environment \/ UNCHANGED vars
  BY <1>1, EnvironmentControl
<1>2. CASE Thread \/ Inner \/ Device
  <2>1. ThreadMoves \/ DeviceMoves
    BY <1>2, BackendMoves
  <2>2. ThreadedControl'
    <3>1. backend' = backend
      BY <2>1 DEF ThreadMoves, DeviceMoves
    <3>2. CASE backend # "alsaThreaded"
      BY <3>1, <3>2 DEF ThreadedControl
    <3>3. CASE backend = "alsaThreaded"
      BY <1>2, <3>3, ThreadedStep, ThreadedInnerStep DEF Thread, Inner, Device
    <3> QED
      BY <3>2, <3>3
  <2> QED
    BY <2>1, <2>2, ThreadControl, DeviceControl
<1> QED
  BY <1>1, <1>2 DEF Next

\* A step of each backend keeps the types, and does one of these things with the sound.
LEMMA CpalSteps ==
  ASSUME StepTypes, backend = "cpal",
         Cpal!Step \/ Cpal!Callback
  PROVE  ThreadTypes' /\ SoundMoves
<1> USE DEF Cpal!driver, Cpal!source, Cpal!reports, Cpal!buffer, Cpal!writer, Cpal!heard,
        Cpal!Go, Cpal!Report, Cpal!Pause, SoundMoves, ChunkMoves, KeepChunk, FetchChunk,
        Unhanded, Quiet, Taken, Waiting, Working, Ended
<1>1. ThreadTypes /\ SoundTypes /\ rest = <<>>
  BY DEF StepTypes, BufferInv
<1>2. /\ \A s : Cpal!Play(s) <=> Play(s)
      /\ \A k : Cpal!Packets(k) = Packets(k)
  BY DEF Play, Cpal!Play, Max, Cpal!Max, Packets, Cpal!Packets
<1>3. CASE Cpal!Open \/ Cpal!Begin \/ Cpal!SpeedFails
  BY <1>1, <1>3 DEF ThreadTypes, Cpal!Open, Cpal!Begin, Cpal!OpenFails, Cpal!OpenSucceeds,
     Cpal!Started, Cpal!SpeedFails
<1>4. CASE Cpal!ReceiveAudio("loop") \/ Cpal!IgnorePause("loop")
  BY <1>1, <1>4 DEF ThreadTypes, Cpal!ReceiveAudio, Cpal!IgnorePause, Cpal!Receive
<1>5. CASE Cpal!SendChunk
  <2>1. CASE inner = "over"
    BY <1>1, <1>5, <2>1 DEF ThreadTypes, Cpal!SendChunk
  <2>2. CASE inner # "over"
    <3>1. HandChunk /\ Quiet /\ UNCHANGED backend
      BY <1>1, <1>5, <2>2 DEF ThreadTypes, HandChunk, Cpal!SendChunk
    <3>2. notes' = <<chunk>> /\ Len(notes') = 1 /\ pc' = "loop"
      BY <1>5, <2>2 DEF Cpal!SendChunk
    <3>3. Len(notes') <= NoteCapacity
      BY <3>2, ChunkNumbers
    <3> QED
      BY <1>1, <1>5, <3>1, <3>2, <3>3 DEF ThreadTypes, Cpal!SendChunk
  <2> QED
    BY <2>1, <2>2
<1>6. CASE Cpal!ReceiveEnd \/ Cpal!ChannelLost
  BY <1>1, <1>6 DEF ThreadTypes, Cpal!ReceiveEnd, Cpal!ChannelLost, Cpal!EndReceived,
     Cpal!Receive, Cpal!Closed, Cpal!FinishOrPanic
<1>7. CASE Cpal!End
  BY <1>1, <1>7 DEF ThreadTypes, Cpal!End, Cpal!Stop
<1>8. CASE Cpal!Callback
  <2>1. CASE Cpal!PlayFromRing
    <3>1. Slide
      BY <1>1, <1>2, <2>1, RingPlays DEF Cpal!PlayFromRing
    <3> QED
      BY <1>1, <2>1, <3>1 DEF ThreadTypes, Cpal!PlayFromRing
  <2>2. CASE ~Cpal!PlayFromRing
    <3>1. Load /\ notes' = <<>>
      BY <1>1, <1>2, <1>8, <2>2 DEF Load, LoadChunk, Cpal!Callback
    <3>2. Len(notes') <= NoteCapacity
      BY <3>1, ChunkNumbers
    <3> QED
      BY <1>1, <1>8, <2>2, <3>1, <3>2 DEF ThreadTypes, LoadChunk, Load, Cpal!Callback
  <2> QED
    BY <2>1, <2>2
<1> QED
  BY <1>3, <1>4, <1>5, <1>6, <1>7, <1>8
     DEF Cpal!Step

LEMMA PulseSteps ==
  ASSUME StepTypes, backend = "pulse",
         Pulse!Step \/ Pulse!Server
  PROVE  ThreadTypes' /\ SoundMoves
<1> USE DEF Pulse!driver, Pulse!source, Pulse!reports, Pulse!buffer, Pulse!writer,
        Pulse!heard, Pulse!Go, Pulse!Report, Pulse!Pause, SoundMoves, ChunkMoves, KeepChunk,
        FetchChunk, Unhanded, Quiet, Taken, Waiting, Working, Ended
<1>1. ThreadTypes /\ SoundTypes /\ rest = <<>>
  BY DEF StepTypes, BufferInv
<1>2. /\ \A s : Pulse!Play(s) <=> Play(s)
      /\ \A k : Pulse!Packets(k) = Packets(k)
  BY DEF Play, Pulse!Play, Max, Pulse!Max, Packets, Pulse!Packets
<1>3. CASE Pulse!Open \/ Pulse!Begin
  BY <1>1, <1>3 DEF ThreadTypes, Pulse!Open, Pulse!Begin, Pulse!OpenFails,
     Pulse!OpenSucceeds, Pulse!Started
<1>4. CASE Pulse!ReceiveAudio("loop") \/ Pulse!IgnorePause("loop")
  BY <1>1, <1>4 DEF ThreadTypes, Pulse!ReceiveAudio, Pulse!IgnorePause, Pulse!Receive
<1>5. CASE Pulse!Write
  <2>1. CASE event # "gone"
    <3>1. Play(Packets(chunk)) /\ chunk' = 0 /\ UNCHANGED <<rest, ring, inbox, made, notes>>
      BY <1>2, <1>5, <2>1 DEF Pulse!Write
    <3>2. chunk \in 1..MaxChunks /\ rest = <<>> /\ ring = <<>>
      BY <1>5, BusyChunk DEF Pulse!Write, StepTypes, BufferInv
    <3>3. Direct
      BY <3>1, <3>2, <1>5, Fits DEF Direct, Pulse!Write
    <3> QED
      BY <1>1, <1>5, <2>1, <3>1, <3>3 DEF ThreadTypes, Pulse!Write
  <2>2. CASE event = "gone"
    BY <1>1, <1>5, <2>2 DEF ThreadTypes, Pulse!Write
  <2> QED
    BY <2>1, <2>2
<1>6. CASE Pulse!ReceiveEnd \/ Pulse!ChannelLost
  BY <1>1, <1>6 DEF ThreadTypes, Pulse!ReceiveEnd, Pulse!ChannelLost, Pulse!EndReceived,
     Pulse!Receive, Pulse!Closed, Pulse!FinishOrPanic
<1>7. CASE Pulse!End
  BY <1>1, <1>7 DEF ThreadTypes, Pulse!End, Pulse!Stop
<1>8. CASE Pulse!Server
  BY <1>1, <1>8 DEF ThreadTypes, Pulse!Server
<1> QED
  BY <1>3, <1>4, <1>5, <1>6, <1>7, <1>8
     DEF Pulse!Step

LEMMA CoreAudioSteps ==
  ASSUME StepTypes, backend = "coreaudio",
         CoreAudio!Step \/ CoreAudio!InnerStep
  PROVE  ThreadTypes' /\ SoundMoves
<1> USE DEF CoreAudio!driver, CoreAudio!source, CoreAudio!reports, CoreAudio!buffer,
        CoreAudio!writer, CoreAudio!heard, CoreAudio!Go, CoreAudio!Report, CoreAudio!Pause,
        SoundMoves, ChunkMoves, KeepChunk, FetchChunk, Unhanded, Quiet, Taken, Waiting,
        Working, Ended
<1>1. ThreadTypes /\ SoundTypes /\ rest = <<>>
  BY DEF StepTypes, BufferInv
<1>2. /\ \A s : CoreAudio!Play(s) <=> Play(s)
      /\ \A k : CoreAudio!Packets(k) = Packets(k)
      /\ CoreAudio!Fitting = Fitting
      /\ \A S : CoreAudio!Min(S) = Min(S)
  BY DEF Play, CoreAudio!Play, Max, CoreAudio!Max, Packets, CoreAudio!Packets, Fitting,
     CoreAudio!Fitting, Min, CoreAudio!Min
<1>3. CASE CoreAudio!Open \/ CoreAudio!Begin
  BY <1>1, <1>3 DEF ThreadTypes, CoreAudio!Open, CoreAudio!Begin, CoreAudio!OpenFails,
     CoreAudio!OpenSucceeds, CoreAudio!Started
<1>4. CASE CoreAudio!NotAlive \/ CoreAudio!Alive
  BY <1>1, <1>4 DEF ThreadTypes, CoreAudio!NotAlive, CoreAudio!Alive, CoreAudio!Finish,
     CoreAudio!Look
<1>5. CASE CoreAudio!ReceiveAudio("wait") \/ CoreAudio!IgnorePause("wait")
  BY <1>1, <1>5 DEF ThreadTypes, CoreAudio!ReceiveAudio, CoreAudio!IgnorePause,
     CoreAudio!Receive
<1>6. CASE CoreAudio!PushChunk
  <2>1. pc = "push" /\ ring' = ring \o Fitting /\ chunk' = 0
        /\ UNCHANGED <<rest, played, disorder, inbox, made, notes, backend>>
    BY <1>2, <1>6 DEF CoreAudio!PushChunk, CoreAudio!Push
  <2>2. PICK n \in 0..ChunkPackets : /\ Fitting = SubSeq(Packets(chunk), 1, n)
                                     /\ Len(ring) + n <= RingCapacity /\ Len(Fitting) = n
    BY <2>1, Fits
  <2>3. Grow
    BY <2>1, <2>2, BusyChunk DEF Grow
  <2>4. credit' \in Nat /\ credit' <= RingCapacity
    BY <1>2, <1>6, <2>2, ChunkNumbers DEF CoreAudio!PushChunk
  <2> QED
    BY <1>1, <1>6, <2>1, <2>3, <2>4 DEF ThreadTypes, CoreAudio!PushChunk
<1>7. CASE CoreAudio!Tell
  <2>1. \/ UNCHANGED <<notes, credit>>
        \/ Len(notes) < NoteCapacity /\ notes' = Append(notes, credit) /\ credit' = 0
    BY <1>7 DEF CoreAudio!Tell
  <2>2. credit \in 0..EndNote /\ credit' \in Nat /\ credit' <= RingCapacity
    BY <1>1, <2>1, NoteTypes, ChunkNumbers DEF ThreadTypes
  <2>3. notes' \in Seq(0..EndNote) /\ Len(notes') <= NoteCapacity
    BY <1>1, <2>1, <2>2, NoteTypes DEF ThreadTypes
  <2> QED
    BY <1>1, <1>7, <2>2, <2>3 DEF ThreadTypes, CoreAudio!Tell
<1>8. CASE CoreAudio!ReceiveEnd \/ CoreAudio!ChannelLost
  BY <1>1, <1>8 DEF ThreadTypes, CoreAudio!ReceiveEnd, CoreAudio!ChannelLost,
     CoreAudio!EndReceived, CoreAudio!Receive, CoreAudio!Closed, CoreAudio!Finish
<1>9. CASE CoreAudio!End
  BY <1>1, <1>9 DEF ThreadTypes, CoreAudio!End, CoreAudio!Stop
<1>10. CASE CoreAudio!Callback
  <2>1. notes # <<>> /\ notes' = Tail(notes)
        /\ LET n == Min({Head(notes), Len(ring)})
           IN  ring' = SubSeq(ring, n + 1, Len(ring)) /\ Play(SubSeq(ring, 1, n))
    BY <1>2, <1>10 DEF CoreAudio!Callback
  <2> DEFINE n == Min({Head(notes), Len(ring)})
  <2>2. Head(notes) \in Nat /\ Len(ring) \in Nat
    BY <1>1, <2>1, NoteTypes, LenProperties DEF StepTypes, SoundTypes
  <2>3. n \in 0..Len(ring)
    BY <2>2, MinOfTwo
  <2>4. ring' = SubSeq(ring, n + 1, Len(ring)) /\ Play(SubSeq(ring, 1, n))
    BY <2>1
  <2> HIDE DEF n
  <2>5. Slide
    BY <1>1, <1>10, <2>3, <2>4, RingSlides DEF CoreAudio!Callback
  <2>6. notes' \in Seq(0..EndNote) /\ Len(notes') <= NoteCapacity
    BY <1>1, <2>1, NoteTypes
  <2> QED
    BY <1>1, <1>10, <2>5, <2>6 DEF ThreadTypes, CoreAudio!Callback
<1>11. CASE CoreAudio!Listener
  BY <1>1, <1>11 DEF ThreadTypes, CoreAudio!Listener
<1> QED
  BY <1>3, <1>4, <1>5, <1>6, <1>7, <1>8, <1>9, <1>10, <1>11
     DEF CoreAudio!Step, CoreAudio!InnerStep

LEMMA PipeWireSteps ==
  ASSUME StepTypes, backend = "pipewire",
         PipeWire!Step \/ PipeWire!Callback
  PROVE  ThreadTypes' /\ SoundMoves
<1> USE DEF PipeWire!driver, PipeWire!source, PipeWire!reports, PipeWire!buffer,
        PipeWire!writer, PipeWire!heard, PipeWire!Go, PipeWire!Report, PipeWire!Pause,
        SoundMoves, ChunkMoves, KeepChunk, FetchChunk, Unhanded, Quiet, Taken, Waiting,
        Working, Ended
<1>1. ThreadTypes /\ SoundTypes /\ rest = <<>>
  BY DEF StepTypes, BufferInv
<1>2. /\ \A s : PipeWire!Play(s) <=> Play(s)
      /\ \A k : PipeWire!Packets(k) = Packets(k)
      /\ PipeWire!Fitting = Fitting
  BY DEF Play, PipeWire!Play, Max, PipeWire!Max, Packets, PipeWire!Packets, Fitting,
     PipeWire!Fitting, Min, PipeWire!Min
<1>3. CASE PipeWire!Open \/ PipeWire!Begin
  BY <1>1, <1>3 DEF ThreadTypes, PipeWire!Open, PipeWire!Begin, PipeWire!OpenFails,
     PipeWire!OpenSucceeds, PipeWire!Started
<1>4. CASE PipeWire!ReceiveAudio("loop") \/ PipeWire!IgnorePause("loop")
  BY <1>1, <1>4 DEF ThreadTypes, PipeWire!ReceiveAudio, PipeWire!IgnorePause,
     PipeWire!Receive
<1>5. CASE PipeWire!PushChunk
  <2>1. pc = "push" /\ ring' = ring \o Fitting /\ chunk' = 0
        /\ UNCHANGED <<rest, played, disorder, inbox, made, notes, backend>>
    BY <1>2, <1>5 DEF PipeWire!PushChunk, PipeWire!Push
  <2>2. PICK n \in 0..ChunkPackets : /\ Fitting = SubSeq(Packets(chunk), 1, n)
                                     /\ Len(ring) + n <= RingCapacity /\ Len(Fitting) = n
    BY <2>1, Fits
  <2>3. Grow
    BY <2>1, <2>2, BusyChunk DEF Grow
  <2> QED
    BY <1>1, <1>5, <2>1, <2>3 DEF ThreadTypes, PipeWire!PushChunk
<1>6. CASE PipeWire!ReceiveEnd \/ PipeWire!ChannelLost
  BY <1>1, <1>6 DEF ThreadTypes, PipeWire!ReceiveEnd, PipeWire!ChannelLost,
     PipeWire!EndReceived, PipeWire!Receive, PipeWire!Closed, PipeWire!FinishOrPanic
<1>7. CASE PipeWire!End
  BY <1>1, <1>7 DEF ThreadTypes, PipeWire!End, PipeWire!Stop
<1>8. CASE PipeWire!Callback
  <2>1. Slide
    BY <1>1, <1>2, <1>8, RingPlays DEF PipeWire!Callback, PipeWire!PlayFromRing
  <2> QED
    BY <1>1, <1>8, <2>1 DEF ThreadTypes, PipeWire!Callback, PipeWire!PlayFromRing
<1> QED
  BY <1>3, <1>4, <1>5, <1>6, <1>7, <1>8
     DEF PipeWire!Step

LEMMA AsioSteps ==
  ASSUME StepTypes, backend = "asio",
         Asio!Step \/ Asio!InnerStep
  PROVE  ThreadTypes' /\ SoundMoves
<1> USE DEF Asio!driver, Asio!source, Asio!reports, Asio!buffer, Asio!writer, Asio!heard,
        Asio!Go, Asio!Report, Asio!Pause, SoundMoves, ChunkMoves, KeepChunk, FetchChunk,
        Unhanded, Quiet, Taken, Waiting, Working, Ended
<1>1. ThreadTypes /\ SoundTypes /\ rest = <<>>
  BY DEF StepTypes, BufferInv
<1>2. /\ \A s : Asio!Play(s) <=> Play(s)
      /\ \A k : Asio!Packets(k) = Packets(k)
      /\ Asio!Fitting = Fitting
  BY DEF Play, Asio!Play, Max, Asio!Max, Packets, Asio!Packets, Fitting, Asio!Fitting, Min,
     Asio!Min
<1>3. CASE Asio!Open \/ Asio!Begin
  BY <1>1, <1>3 DEF ThreadTypes, Asio!Open, Asio!Begin, Asio!OpenFails, Asio!OpenSucceeds,
     Asio!Started
<1>4. CASE Asio!RateChanged \/ Asio!NoEvent \/ Asio!Timeout
  BY <1>1, <1>4 DEF ThreadTypes, Asio!RateChanged, Asio!NoEvent, Asio!Timeout, Asio!Finish,
     Asio!Look
<1>5. CASE Asio!ReceiveAudio("wait") \/ Asio!IgnorePause("wait")
  BY <1>1, <1>5 DEF ThreadTypes, Asio!ReceiveAudio, Asio!IgnorePause, Asio!Receive
<1>6. CASE Asio!PushChunk
  <2>1. pc = "push" /\ ring' = ring \o Fitting /\ chunk' = 0
        /\ UNCHANGED <<rest, played, disorder, inbox, made, notes, backend>>
    BY <1>2, <1>6 DEF Asio!PushChunk, Asio!Push
  <2>2. PICK n \in 0..ChunkPackets : /\ Fitting = SubSeq(Packets(chunk), 1, n)
                                     /\ Len(ring) + n <= RingCapacity /\ Len(Fitting) = n
    BY <2>1, Fits
  <2>3. Grow
    BY <2>1, <2>2, BusyChunk DEF Grow
  <2> QED
    BY <1>1, <1>6, <2>1, <2>3 DEF ThreadTypes, Asio!PushChunk
<1>7. CASE Asio!ReceiveEnd \/ Asio!ChannelLost
  BY <1>1, <1>7 DEF ThreadTypes, Asio!ReceiveEnd, Asio!ChannelLost, Asio!EndReceived,
     Asio!Receive, Asio!Closed, Asio!Finish
<1>8. CASE Asio!End
  BY <1>1, <1>8 DEF ThreadTypes, Asio!End, Asio!Stop
<1>9. CASE Asio!Callback
  <2>1. Slide
    BY <1>1, <1>2, <1>9, RingPlays DEF Asio!Callback, Asio!PlayFromRing
  <2> QED
    BY <1>1, <1>9, <2>1 DEF ThreadTypes, Asio!Callback, Asio!PlayFromRing
<1>10. CASE Asio!Message
  BY <1>1, <1>10 DEF ThreadTypes, Asio!Message
<1> QED
  BY <1>3, <1>4, <1>5, <1>6, <1>7, <1>8, <1>9, <1>10
     DEF Asio!Step, Asio!InnerStep

LEMMA WasapiSteps ==
  ASSUME StepTypes, backend = "wasapi",
         Wasapi!Step \/ Wasapi!InnerStep \/ Wasapi!InnerFails
  PROVE  ThreadTypes' /\ SoundMoves
<1> USE DEF Wasapi!driver, Wasapi!source, Wasapi!reports, Wasapi!buffer, Wasapi!writer,
        Wasapi!heard, Wasapi!Go, Wasapi!Report, Wasapi!Pause, SoundMoves, ChunkMoves,
        KeepChunk, FetchChunk, Unhanded, Quiet, Taken, Waiting, Working, Ended
<1>1. ThreadTypes /\ SoundTypes /\ rest = <<>>
  BY DEF StepTypes, BufferInv
<1>2. /\ \A s : Wasapi!Play(s) <=> Play(s)
      /\ \A k : Wasapi!Packets(k) = Packets(k)
      /\ Wasapi!Room <=> Room
      /\ \A S : Wasapi!Min(S) = Min(S)
  BY DEF Play, Wasapi!Play, Max, Wasapi!Max, Packets, Wasapi!Packets, Room, Wasapi!Room,
     Min, Wasapi!Min
<1>3. CASE Wasapi!Open \/ Wasapi!Begin
  BY <1>1, <1>3 DEF ThreadTypes, Wasapi!Open, Wasapi!Begin, Wasapi!OpenFails,
     Wasapi!OpenSucceeds, Wasapi!Started
<1>4. CASE Wasapi!InnerHasFailed \/ Wasapi!InnerRuns
  BY <1>1, <1>4 DEF ThreadTypes, Wasapi!InnerHasFailed, Wasapi!InnerRuns, Wasapi!Look
<1>5. CASE Wasapi!ReceiveAudio("wait") \/ Wasapi!IgnorePause("wait")
  BY <1>1, <1>5 DEF ThreadTypes, Wasapi!ReceiveAudio, Wasapi!IgnorePause, Wasapi!Receive
<1>6. CASE Wasapi!PushChunk
  <2>1. CASE Room
    <3>1. pc = "push" /\ ring' = ring \o Packets(chunk) /\ chunk' = 0 /\ credit' = ChunkPackets
          /\ UNCHANGED <<rest, played, disorder, inbox, made, notes, backend>> /\ pc' = "note"
      BY <1>2, <1>6, <2>1 DEF Wasapi!PushChunk, Wasapi!Push
    <3>2. Grow
      BY <2>1, <3>1, BusyChunk, Fits DEF Grow
    <3> QED
      BY <1>1, <1>6, <3>1, <3>2, ChunkNumbers DEF ThreadTypes, Wasapi!PushChunk
  <2>2. CASE ~Room
    BY <1>1, <1>2, <1>6, <2>2 DEF ThreadTypes, Wasapi!PushChunk
  <2> QED
    BY <2>1, <2>2
<1>7. CASE Wasapi!Tell
  <2>1. \/ UNCHANGED <<notes, credit>>
        \/ Len(notes) < NoteCapacity /\ notes' = Append(notes, credit) /\ credit' = 0
    BY <1>7 DEF Wasapi!Tell
  <2>2. credit \in 0..EndNote /\ credit' \in Nat /\ credit' <= RingCapacity
    BY <1>1, <2>1, NoteTypes, ChunkNumbers DEF ThreadTypes
  <2>3. notes' \in Seq(0..EndNote) /\ Len(notes') <= NoteCapacity
    BY <1>1, <2>1, <2>2, NoteTypes DEF ThreadTypes
  <2> QED
    BY <1>1, <1>7, <2>2, <2>3 DEF ThreadTypes, Wasapi!Tell, Wasapi!FailureReport
<1>8. CASE Wasapi!ReceiveEnd \/ Wasapi!ChannelLost
  BY <1>1, <1>8 DEF ThreadTypes, Wasapi!ReceiveEnd, Wasapi!ChannelLost, Wasapi!EndReceived,
     Wasapi!Receive, Wasapi!Closed, Wasapi!Finish
<1>9. CASE Wasapi!End
  <2>1. notes' \in Seq(0..EndNote) /\ Len(notes') <= NoteCapacity
    BY <1>1, <1>9, NoteTypes DEF ThreadTypes, Wasapi!End, EndNote, Wasapi!EndNote
  <2> QED
    BY <1>1, <1>9, <2>1 DEF ThreadTypes, Wasapi!End
<1>10. CASE Wasapi!Join
  BY <1>1, <1>10 DEF ThreadTypes, Wasapi!Join
<1>11. CASE Wasapi!Feed
  <2>1. notes # <<>> /\ notes' = Tail(notes)
        /\ LET n == Min({Head(notes), Len(ring)})
           IN  ring' = SubSeq(ring, n + 1, Len(ring)) /\ Play(SubSeq(ring, 1, n))
    BY <1>2, <1>11 DEF Wasapi!Feed
  <2> DEFINE n == Min({Head(notes), Len(ring)})
  <2>2. Head(notes) \in Nat /\ Len(ring) \in Nat
    BY <1>1, <2>1, NoteTypes, LenProperties DEF StepTypes, SoundTypes
  <2>3. n \in 0..Len(ring)
    BY <2>2, MinOfTwo
  <2>4. ring' = SubSeq(ring, n + 1, Len(ring)) /\ Play(SubSeq(ring, 1, n))
    BY <2>1
  <2> HIDE DEF n
  <2>5. Slide
    BY <1>1, <1>11, <2>3, <2>4, RingSlides DEF Wasapi!Feed
  <2>6. notes' \in Seq(0..EndNote) /\ Len(notes') <= NoteCapacity
    BY <1>1, <2>1, NoteTypes
  <2> QED
    BY <1>1, <1>11, <2>5, <2>6 DEF ThreadTypes, Wasapi!Feed
<1>12. CASE Wasapi!InnerStops
  <2>1. notes' \in Seq(0..EndNote) /\ Len(notes') <= NoteCapacity
    BY <1>1, <1>12, NoteTypes DEF Wasapi!InnerStops
  <2> QED
    BY <1>1, <1>12, <2>1 DEF ThreadTypes, Wasapi!InnerStops
<1>13. CASE Wasapi!InnerFails
  BY <1>1, <1>13 DEF ThreadTypes, Wasapi!InnerFails
<1> QED
  BY <1>3, <1>4, <1>5, <1>6, <1>7, <1>8, <1>9, <1>10, <1>11, <1>12, <1>13
     DEF Wasapi!Step, Wasapi!InnerStep

LEMMA AlsaSteps ==
  ASSUME StepTypes, backend = "alsa",
         Alsa!Step
  PROVE  ThreadTypes' /\ SoundMoves
<1> USE DEF Alsa!driver, Alsa!source, Alsa!reports, Alsa!buffer, Alsa!writer, Alsa!heard,
        Alsa!Go, Alsa!Report, Alsa!Pause, SoundMoves, ChunkMoves, KeepChunk, FetchChunk,
        Unhanded, Quiet, Taken, Waiting, Working, Ended
<1>1. ThreadTypes /\ SoundTypes /\ rest = <<>>
  BY DEF StepTypes, BufferInv
<1>2. /\ \A s : Alsa!Play(s) <=> Play(s)
      /\ \A k : Alsa!Packets(k) = Packets(k)
  BY DEF Play, Alsa!Play, Max, Alsa!Max, Packets, Alsa!Packets
<1>3. CASE Alsa!Open \/ Alsa!Begin
  BY <1>1, <1>3 DEF ThreadTypes, Alsa!Open, Alsa!Begin, Alsa!OpenFails, Alsa!OpenSucceeds,
     Alsa!Started
<1>4. CASE Alsa!Drop \/ Alsa!NotStalled
  BY <1>1, <1>4 DEF ThreadTypes, Alsa!Drop, Alsa!NotStalled, Alsa!Look
<1>5. CASE Alsa!ReceiveAudio("wait")
  BY <1>1, <1>5 DEF ThreadTypes, Alsa!ReceiveAudio, Alsa!Receive
<1>6. CASE Alsa!PauseDevice
  <2>1. paused' \in BOOLEAN
    BY <1>1, <1>6 DEF ThreadTypes, Alsa!PauseDevice
  <2> QED
    BY <1>1, <1>6, <2>1 DEF ThreadTypes, Alsa!PauseDevice, Alsa!Receive
<1>7. CASE Alsa!Write
  <2>1. /\ pc = "push" /\ chunk' = 0 /\ UNCHANGED <<rest, ring, inbox, made, notes>>
        /\ \E n \in 0..ChunkPackets : Play(SubSeq(Packets(chunk), 1, n))
    BY <1>2, <1>7 DEF Alsa!Write
  <2>2. chunk \in 1..MaxChunks /\ rest = <<>> /\ ring = <<>>
    BY <2>1, BusyChunk DEF StepTypes, BufferInv
  <2>3. Direct
    BY <2>1, <2>2 DEF Direct
  <2> QED
    BY <1>1, <1>7, <2>1, <2>3 DEF ThreadTypes, Alsa!Write
<1>8. CASE Alsa!ReceiveEnd \/ Alsa!ChannelLost
  BY <1>1, <1>8 DEF ThreadTypes, Alsa!ReceiveEnd, Alsa!ChannelLost, Alsa!EndReceived,
     Alsa!Receive, Alsa!Closed, Alsa!Finish
<1>9. CASE Alsa!End
  BY <1>1, <1>9 DEF ThreadTypes, Alsa!End, Alsa!Stop
<1> QED
  BY <1>3, <1>4, <1>5, <1>6, <1>7, <1>8, <1>9
     DEF Alsa!Step

\* What the inner thread of ALSA writes: what a short write has left, or else as much of
\* the ring buffer as it has been told of.
LEMMA ThreadedQueue ==
  ASSUME SoundTypes, credit \in Nat
  PROVE  LET a == AlsaThreaded!ToPlay
             b == AlsaThreaded!Popped
             n == AlsaThreaded!Available
         IN  /\ a \in Seq(1..Total) /\ Len(a) <= RingCapacity /\ Len(a) \in Nat
             /\ b \in Seq(1..Total) /\ Len(b) <= RingCapacity
             /\ Queue = a \o b
             /\ Len(a) + Len(b) = Len(rest) + Len(ring)
             /\ rest # <<>> => a = rest /\ b = ring
             /\ rest = <<>> => Len(a) = n /\ n <= credit /\ Len(b) = Len(ring) - n
             /\ n \in Nat /\ (n = 0 => credit = 0 \/ ring = <<>>)
<1> DEFINE a == AlsaThreaded!ToPlay
           b == AlsaThreaded!Popped
           n == AlsaThreaded!Available
<1>1. /\ ring \in Seq(1..Total) /\ Len(ring) <= RingCapacity /\ Len(ring) \in Nat
      /\ rest \in Seq(1..Total) /\ Len(rest) <= RingCapacity /\ Len(rest) \in Nat
      /\ RingCapacity \in Nat /\ (rest = <<>> => Len(rest) = 0) /\ (ring # <<>> => Len(ring) # 0)
  BY ChunkNumbers, LenProperties, EmptySeq DEF SoundTypes
<1>2. n \in {credit, Len(ring)} /\ n <= credit /\ n <= Len(ring)
  <2>1. n = Min({credit, Len(ring)})
    BY DEF AlsaThreaded!Available, AlsaThreaded!Min, Min
  <2> HIDE DEF n
  <2> QED
    BY <1>1, <2>1, MinOfTwo
<1>3. n \in Nat /\ (n = 0 => credit = 0 \/ ring = <<>>) /\ n \in 0..Len(ring)
  BY <1>1, <1>2
<1>4. CASE rest # <<>>
  <2>1. a = rest /\ b = ring
    BY <1>4 DEF AlsaThreaded!ToPlay, AlsaThreaded!Popped
  <2> HIDE DEF a, b, n
  <2>2. Queue = a \o b
    BY <2>1 DEF Queue
  <2> QED
    BY <1>1, <1>3, <1>4, <2>1, <2>2 DEF a, b, n
<1>5. CASE rest = <<>>
  <2>1. a = SubSeq(ring, 1, n) /\ b = SubSeq(ring, n + 1, Len(ring))
    BY <1>5 DEF AlsaThreaded!ToPlay, AlsaThreaded!Popped
  <2> HIDE DEF a, b, n
  <2>2. /\ b \in Seq(1..Total) /\ Len(b) = Len(ring) - n
        /\ a \in Seq(1..Total) /\ Len(a) = n
    BY <1>1, <1>3, <2>1, EmptySeq, Parted
  <2>3. Queue = a \o b
    <3>1. Queue = ring
      BY <1>1, <1>5, ConcatEmptySeq DEF Queue
    <3>2. /\ a \o b \in Seq(1..Total) /\ Len(a \o b) = Len(ring)
          /\ \A i \in 1..Len(a) + Len(b) : (a \o b)[i] = IF i <= Len(a) THEN a[i] ELSE b[i - Len(a)]
      <4>1. /\ a \o b \in Seq(1..Total) /\ Len(a \o b) = Len(a) + Len(b)
            /\ \A i \in 1..Len(a) + Len(b) : (a \o b)[i] = IF i <= Len(a) THEN a[i] ELSE b[i - Len(a)]
        BY <2>2, ConcatProperties
      <4>2. Len(a) + Len(b) = Len(ring)
        BY <1>1, <1>3, <2>2
      <4> QED
        BY <4>1, <4>2
    <3>3. \A i \in 1..n : a[i] = ring[i]
      <4>1. \A i \in 1..n : ring[i] \in 1..Total
        <5>1. \A i \in 1..n : i \in 1..Len(ring)
          BY <1>1, <1>3
        <5> QED
          BY <1>1, <5>1, ElementOfSeq
      <4>2. \A i \in 1..(n - 1 + 1) : a[i] = ring[1 + i - 1]
        BY <1>3, <2>1, <4>1, SubSeqProperties
      <4> QED
        BY <1>3, <4>2
    <3>4. \A i \in 1..(Len(ring) - n) : b[i] = ring[n + i]
      <4>1. \A i \in (n + 1)..Len(ring) : ring[i] \in 1..Total
        <5>1. \A i \in (n + 1)..Len(ring) : i \in 1..Len(ring)
          BY <1>1, <1>3
        <5> QED
          BY <1>1, <5>1, ElementOfSeq
      <4>2. n + 1 \in Int /\ Len(ring) \in Int
        BY <1>1, <1>3
      <4>3. \A i \in 1..(Len(ring) - (n + 1) + 1) : b[i] = ring[n + 1 + i - 1]
        BY <2>1, <4>1, <4>2, SubSeqProperties
      <4> QED
        BY <1>1, <1>3, <4>3
    <3>5. ASSUME NEW i \in 1..Len(ring) PROVE (a \o b)[i] = ring[i]
      <4>1. i \in 1..Len(a) + Len(b)
        BY <1>1, <1>3, <2>2
      <4>2. CASE i <= n
        BY <1>1, <1>3, <2>2, <3>2, <3>3, <4>1, <4>2
      <4>3. CASE ~(i <= n)
        <5>1. i - n \in 1..(Len(ring) - n) /\ n + (i - n) = i
          BY <1>1, <1>3, <4>3
        <5>2. (a \o b)[i] = b[i - n]
          BY <2>2, <3>2, <4>1, <4>3
        <5> QED
          BY <3>4, <5>1, <5>2
      <4> QED
        BY <4>2, <4>3
    <3>6. a \o b = ring
      BY <1>1, <3>2, <3>5, SeqEqual
    <3> QED
      BY <3>1, <3>6
  <2>4. Len(a) <= RingCapacity /\ Len(b) <= RingCapacity /\ Len(a) + Len(b) = Len(rest) + Len(ring)
    BY <1>1, <1>3, <1>5, <2>2
  <2> QED
    BY <1>1, <1>2, <1>3, <1>5, <2>2, <2>3, <2>4 DEF a, b, n
<1> QED
  BY <1>4, <1>5

\* Its first packets leave the queue, played or lost.
LEMMA ThreadedSlides ==
  ASSUME SoundTypes, credit \in Nat, backend = "alsaThreaded", UNCHANGED <<inbox, made, chunk>>,
         NEW n \in 0..Len(AlsaThreaded!ToPlay),
         rest' = SubSeq(AlsaThreaded!ToPlay, n + 1, Len(AlsaThreaded!ToPlay)),
         ring' = AlsaThreaded!Popped,
         Play(SubSeq(AlsaThreaded!ToPlay, 1, n)) \/ UNCHANGED <<played, disorder>>
  PROVE  Slide /\ Len(rest') = Len(AlsaThreaded!ToPlay) - n
<1> DEFINE a == AlsaThreaded!ToPlay
           b == AlsaThreaded!Popped
           s == SubSeq(a, 1, n)
<1>1. /\ a \in Seq(1..Total) /\ Len(a) <= RingCapacity /\ Len(a) \in Nat
      /\ b \in Seq(1..Total) /\ Len(b) <= RingCapacity
      /\ Queue = a \o b
  BY ThreadedQueue
<1>2. /\ n \in 0..Len(a) /\ rest' = SubSeq(a, n + 1, Len(a)) /\ ring' = b
      /\ Play(s) \/ UNCHANGED <<played, disorder>>
  OBVIOUS
<1> HIDE DEF a, b
<1>3. /\ n \in 0..Len(a \o b) /\ n \in Nat
      /\ rest' \in Seq(1..Total) /\ Len(rest') = Len(a) - n
      /\ s \in Seq(1..Total) /\ Len(s) = n /\ \A i \in 1..Len(s) : s[i] = (a \o b)[i]
      /\ Len(rest' \o b) = Len(a \o b) - n
      /\ \A i \in 1..Len(rest' \o b) : (rest' \o b)[i] = (a \o b)[i + n]
  <2> DEFINE r == SubSeq(a, n + 1, Len(a))
  <2>1. /\ n \in 0..Len(a \o b) /\ n \in Nat
        /\ r \in Seq(1..Total) /\ Len(r) = Len(a) - n
        /\ s \in Seq(1..Total) /\ Len(s) = n /\ \A i \in 1..Len(s) : s[i] = (a \o b)[i]
        /\ Len(r \o b) = Len(a \o b) - n
        /\ \A i \in 1..Len(r \o b) : (r \o b)[i] = (a \o b)[i + n]
    BY <1>1, <1>2, Parted
  <2>2. rest' = r
    BY <1>2
  <2> HIDE DEF r, s
  <2> QED
    BY <2>1, <2>2
<1> HIDE DEF s
<1>4. Queue' = rest' \o b
  BY <1>2 DEF Queue
<1>5. /\ n \in 0..Len(Queue) /\ Len(Queue') = Len(Queue) - n
      /\ \A i \in 1..Len(Queue') : Queue'[i] = Queue[i + n]
  BY <1>1, <1>3, <1>4
<1>6. Len(s) <= n /\ (\A i \in 1..Len(s) : s[i] = Queue[i]) /\ s \in Seq(1..Total)
  BY <1>1, <1>3
<1>7. Len(rest') <= RingCapacity
  BY <1>1, <1>3, ChunkNumbers
<1>8. Slide
  BY <1>1, <1>2, <1>3, <1>5, <1>6, <1>7 DEF Slide, Unhanded
<1> QED
  BY <1>3, <1>8 DEF a

\* What a step of the inner thread of threaded ALSA leaves as it is, or changes within
\* its type.
LEMMA InnerKeepsTypes ==
  ASSUME ThreadTypes, backend = "alsaThreaded",
         UNCHANGED <<backend, pc, event, processing, supervisor, chunk>>,
         inner' \in {inner, "ending", "over"}, paused' \in BOOLEAN, stalled' \in BOOLEAN,
         credit' \in Nat, notes' \in Seq(0..EndNote), Len(notes') <= NoteCapacity
  PROVE  ThreadTypes'
BY DEF ThreadTypes

\* It may move the sound, and does nothing to the chunks.
LEMMA InnerMovesSound ==
  ASSUME backend = "alsaThreaded", UNCHANGED <<backend, inbox, made, chunk>>, Quiet \/ Slide
  PROVE  SoundMoves
<1>1. ChunkMoves
  BY DEF ChunkMoves, KeepChunk, Taken, Unhanded
<1> QED
  BY <1>1 DEF SoundMoves

LEMMA AlsaThreadedSteps ==
  ASSUME StepTypes, backend = "alsaThreaded", inner \in {"running", "ending"} => pc \in Working,
         AlsaThreaded!Step \/ AlsaThreaded!InnerStep \/ AlsaThreaded!InnerPanics
  PROVE  ThreadTypes' /\ SoundMoves
<1> USE DEF AlsaThreaded!driver, AlsaThreaded!source, AlsaThreaded!reports, AlsaThreaded!buffer,
        AlsaThreaded!writer, AlsaThreaded!heard, AlsaThreaded!Go, AlsaThreaded!Report,
        AlsaThreaded!Pause, AlsaThreaded!InnerOnly, SoundMoves, ChunkMoves, KeepChunk, FetchChunk,
        Unhanded, Quiet, Taken, Waiting, Working, Ended
<1>0. /\ notes \in Seq(0..EndNote) /\ Len(notes) <= NoteCapacity
      /\ credit \in Nat /\ paused \in BOOLEAN /\ stalled \in BOOLEAN
  BY DEF StepTypes, ThreadTypes
<1>1. ThreadTypes /\ SoundTypes
  BY DEF StepTypes
<1>2. /\ \A s : AlsaThreaded!Play(s) <=> Play(s)
      /\ \A k : AlsaThreaded!Packets(k) = Packets(k)
      /\ AlsaThreaded!Room <=> Room
      /\ AlsaThreaded!PauseNote = PauseNote /\ AlsaThreaded!EndNote = EndNote
  BY DEF Play, AlsaThreaded!Play, Max, AlsaThreaded!Max, Packets, AlsaThreaded!Packets, Room,
     AlsaThreaded!Room, PauseNote, EndNote, AlsaThreaded!PauseNote, AlsaThreaded!EndNote
<1>3. CASE AlsaThreaded!Open \/ AlsaThreaded!Begin
  BY <1>1, <1>3
     DEF ThreadTypes, AlsaThreaded!Open, AlsaThreaded!Begin, AlsaThreaded!OpenFails,
     AlsaThreaded!OpenSucceeds, AlsaThreaded!Started
<1>4. CASE AlsaThreaded!ReceiveAudio("loop") \/ AlsaThreaded!TakePause
  BY <1>1, <1>4
     DEF ThreadTypes, AlsaThreaded!ReceiveAudio, AlsaThreaded!TakePause, AlsaThreaded!Receive
<1>5. CASE AlsaThreaded!PushChunk
  <2>1. CASE Room
    <3>1. pc = "push" /\ ring' = ring \o Packets(chunk) /\ chunk' = 0 /\ pc' = "note"
          /\ UNCHANGED <<rest, played, disorder, inbox, made, notes, backend>>
      BY <1>2, <1>5, <2>1 DEF AlsaThreaded!PushChunk, AlsaThreaded!Push
    <3>2. Grow
      BY <2>1, <3>1, BusyChunk, Fits DEF Grow
    <3> QED
      BY <1>1, <1>5, <3>1, <3>2 DEF ThreadTypes, AlsaThreaded!PushChunk
  <2>2. CASE ~Room
    BY <1>1, <1>2, <1>5, <2>2 DEF ThreadTypes, AlsaThreaded!PushChunk
  <2> QED
    BY <2>1, <2>2
<1>6. CASE AlsaThreaded!Tell \/ AlsaThreaded!PassPause \/ AlsaThreaded!PassEnd
  <2>1. \/ notes' = notes
        \/ /\ Len(notes) < NoteCapacity
           /\ \E n \in {ChunkPackets, PauseNote, EndNote} : notes' = Append(notes, n)
    BY <1>2, <1>6
       DEF AlsaThreaded!Tell, AlsaThreaded!PassPause, AlsaThreaded!PassEnd, AlsaThreaded!SendNote
  <2>2. notes' \in Seq(0..EndNote) /\ Len(notes') <= NoteCapacity
    BY <1>1, <2>1, NoteTypes DEF ThreadTypes
  <2>3. UNCHANGED <<backend, event, source, supervisor, chunk, ring, writer, heard>>
    BY <1>6
       DEF AlsaThreaded!Tell, AlsaThreaded!PassPause, AlsaThreaded!PassEnd, AlsaThreaded!SendNote,
       source, writer, heard
  <2>4. pc' \in {"loop", "end", "join"} /\ inner' \in {inner, "running"}
    BY <1>6
       DEF AlsaThreaded!Tell, AlsaThreaded!PassPause, AlsaThreaded!PassEnd, AlsaThreaded!SendNote,
       AlsaThreaded!StartInner
  <2> QED
    BY <1>1, <2>2, <2>3, <2>4 DEF ThreadTypes, source, writer, heard
<1>7. CASE AlsaThreaded!ReceiveEnd \/ AlsaThreaded!ChannelLost \/ AlsaThreaded!Join
  BY <1>1, <1>7
     DEF ThreadTypes, AlsaThreaded!ReceiveEnd, AlsaThreaded!ChannelLost, AlsaThreaded!Join,
     AlsaThreaded!EndReceived, AlsaThreaded!Receive, AlsaThreaded!Closed, AlsaThreaded!StartInner
<1>8. CASE AlsaThreaded!ReadData \/ AlsaThreaded!ReadPause \/ AlsaThreaded!ReadEnd
  <2>1. notes # <<>> /\ notes' = Tail(notes)
    BY <1>8 DEF AlsaThreaded!ReadData, AlsaThreaded!ReadPause, AlsaThreaded!ReadEnd
  <2>2. notes' \in Seq(0..EndNote) /\ Len(notes') <= NoteCapacity /\ Head(notes) \in Nat
    BY <1>1, <2>1, NoteTypes
  <2>3. credit' \in Nat /\ paused' \in BOOLEAN
    <3>1. credit \in Nat /\ paused \in BOOLEAN
      BY <1>1 DEF ThreadTypes
    <3>2. credit' \in {credit, credit + Head(notes)} /\ paused' \in {paused, TRUE}
      BY <1>8 DEF AlsaThreaded!ReadData, AlsaThreaded!ReadPause, AlsaThreaded!ReadEnd
    <3>3. credit' \in Nat
      BY <2>2, <3>1, <3>2
    <3> QED
      BY <3>1, <3>2, <3>3
  <2>4. /\ UNCHANGED <<backend, pc, event, processing, supervisor, chunk, stalled>>
        /\ inner' \in {inner, "ending", "over"}
        /\ UNCHANGED <<inbox, made, rest, ring, played, disorder>>
    BY <1>8 DEF AlsaThreaded!ReadData, AlsaThreaded!ReadPause, AlsaThreaded!ReadEnd
  <2>5. ThreadTypes'
    BY <1>0, <1>1, <2>2, <2>3, <2>4, InnerKeepsTypes
  <2> QED
    BY <2>4, <2>5, InnerMovesSound
<1>9. CASE AlsaThreaded!Write
  <2>1. PICK n \in 0..Len(AlsaThreaded!ToPlay) :
          /\ Play(SubSeq(AlsaThreaded!ToPlay, 1, n))
          /\ rest' = SubSeq(AlsaThreaded!ToPlay, n + 1, Len(AlsaThreaded!ToPlay))
          /\ credit' = credit - Min({credit, n})
    BY <1>2, <1>9 DEF AlsaThreaded!Write, AlsaThreaded!Remainder, AlsaThreaded!Min, Min
  <2>2. credit \in Nat /\ n \in Nat
    BY <1>1, ThreadedQueue DEF ThreadTypes
  <2>3. credit' \in Nat
    BY <2>1, <2>2, MinOfTwo
  <2>4. UNCHANGED <<inbox, made, chunk>> /\ ring' = AlsaThreaded!Popped
    BY <1>9 DEF AlsaThreaded!Write
  <2>5. Slide
    BY <1>1, <2>1, <2>2, <2>4, ThreadedSlides
  <2>6. /\ UNCHANGED <<backend, pc, inner, event, processing, supervisor, chunk, notes>>
        /\ paused' = FALSE /\ stalled' = FALSE
    BY <1>9 DEF AlsaThreaded!Write
  <2>7. ThreadTypes'
    BY <1>0, <1>1, <2>3, <2>6, InnerKeepsTypes
  <2> QED
    BY <2>4, <2>5, <2>6, <2>7, InnerMovesSound
<1>10. CASE AlsaThreaded!WriteStalls
  <2>1. UNCHANGED <<inbox, made, chunk, played, disorder, credit>> /\ credit \in Nat
        /\ rest' = AlsaThreaded!ToPlay /\ ring' = AlsaThreaded!Popped
    BY <1>1, <1>10 DEF AlsaThreaded!WriteStalls, ThreadTypes
  <2>2. AlsaThreaded!ToPlay \in Seq(1..Total) /\ 0 \in 0..Len(AlsaThreaded!ToPlay)
    BY <1>1, <2>1, ThreadedQueue
  <2>3. rest' = SubSeq(AlsaThreaded!ToPlay, 0 + 1, Len(AlsaThreaded!ToPlay))
    BY <2>1, <2>2, SubSeqFull
  <2>4. Slide
    BY <1>1, <2>1, <2>2, <2>3, ThreadedSlides
  <2>5. /\ UNCHANGED <<backend, pc, inner, event, processing, supervisor, chunk, notes>>
        /\ paused' = FALSE /\ stalled' = TRUE
    BY <1>10 DEF AlsaThreaded!WriteStalls
  <2>6. ThreadTypes'
    BY <1>0, <1>1, <2>1, <2>5, InnerKeepsTypes
  <2> QED
    BY <2>1, <2>4, <2>5, <2>6, InnerMovesSound
<1>11. CASE AlsaThreaded!WriteFails
  <2>1. UNCHANGED <<inbox, made, chunk, played, disorder, credit, rest>> /\ credit \in Nat
        /\ ring' = AlsaThreaded!Popped
    BY <1>1, <1>11 DEF AlsaThreaded!WriteFails, ThreadTypes
  <2>2. UNCHANGED <<backend, pc, inner, event, processing, supervisor, chunk, stalled, notes>>
        /\ paused' = FALSE
    BY <1>11 DEF AlsaThreaded!WriteFails
  <2>3. ThreadTypes'
    BY <1>0, <1>1, <2>1, <2>2, InnerKeepsTypes
  <2>4. CASE rest # <<>>
    <3>1. UNCHANGED ring
      BY <2>1, <2>4 DEF AlsaThreaded!Popped
    <3>2. Quiet
      BY <2>1, <3>1
    <3> QED
      BY <2>1, <2>2, <2>3, <3>2, InnerMovesSound
  <2>5. CASE rest = <<>>
    <3> DEFINE a == AlsaThreaded!ToPlay
    <3>1. a \in Seq(1..Total) /\ Len(a) \in Nat
      BY <1>1, <2>1, ThreadedQueue
    <3>2. SubSeq(a, Len(a) + 1, Len(a)) = <<>> /\ Len(a) \in 0..Len(a)
      BY <3>1, SubSeqEmpty
    <3>3. rest' = SubSeq(a, Len(a) + 1, Len(a))
      BY <2>1, <2>5, <3>2
    <3> HIDE DEF a
    <3>4. Slide
      BY <1>1, <2>1, <3>2, <3>3, ThreadedSlides DEF a
    <3> QED
      BY <2>1, <2>2, <2>3, <3>4, InnerMovesSound
  <2> QED
    BY <2>4, <2>5
<1>12. CASE AlsaThreaded!InnerEnds \/ AlsaThreaded!InnerPanics
  BY <1>1, <1>12 DEF ThreadTypes, AlsaThreaded!InnerEnds, AlsaThreaded!InnerPanics
<1> QED
  BY <1>3, <1>4, <1>5, <1>6, <1>7, <1>8, <1>9, <1>10, <1>11, <1>12
     DEF AlsaThreaded!Step, AlsaThreaded!InnerStep

\* A message of the processing thread, and what the environment does else.
LEMMA EnvironmentSteps ==
  ASSUME StepTypes, Environment \/ UNCHANGED vars
  PROVE  ThreadTypes' /\ SoundMoves /\ told' = told
<1> USE DEF StepTypes, ThreadTypes, Waiting, Working, Ended, driver, source, reports, buffer,
        writer, heard, SoundMoves, ChunkMoves, Quiet, Unhanded
<1>1. CASE UNCHANGED vars \/ ProcessingPanics \/ SupervisorLeaves \/ PassBarrier
  <2>1. /\ UNCHANGED <<backend, inner, event, inbox, made, told, chunk, buffer, writer, heard>>
        /\ processing' \in {processing, FALSE} /\ supervisor' \in {supervisor, FALSE}
        /\ pc' \in {pc, "start", "done"}
    BY <1>1 DEF vars, ProcessingPanics, SupervisorLeaves, PassBarrier
  <2>2. processing' \in BOOLEAN /\ supervisor' \in BOOLEAN
    BY <2>1
  <2>3. ThreadTypes'
    BY <2>1, <2>2
  <2>4. KeepChunk
    BY <2>1 DEF KeepChunk, Taken
  <2> QED
    BY <2>1, <2>3, <2>4
<1>2. CASE SendPause \/ SendEnd
  <2>1. PICK m \in {Pause, EndOfStream} : SendMessage(m)
    BY <1>2 DEF SendPause, SendEnd
  <2>2. m \notin 1..MaxChunks
    BY <2>1, ChunkNumbers DEF Pause, EndOfStream
  <2>3. SendChunk
    BY <2>1, <2>2 DEF SendMessage, SendChunk
  <2>4. processing' \in BOOLEAN
    BY <2>1 DEF SendMessage
  <2> QED
    BY <2>1, <2>3, <2>4 DEF SendMessage
<1>3. CASE SendAudio
  <2>1. made < MaxChunks /\ SendMessage(made + 1) /\ made + 1 \in 1..MaxChunks
    BY <1>3, ChunkNumbers DEF SendAudio, ChunkTypes
  <2>2. SendChunk
    BY <2>1 DEF SendMessage, SendChunk
  <2>3. processing' \in BOOLEAN
    BY <2>1 DEF SendMessage
  <2> QED
    BY <2>1, <2>2, <2>3 DEF SendMessage
<1> QED
  BY <1>1, <1>2, <1>3 DEF Environment

LEMMA BackendSteps ==
  ASSUME StepTypes, ControlInv, Thread \/ Inner \/ Device
  PROVE  ThreadTypes' /\ SoundMoves
<1>1. backend = "alsaThreaded" /\ inner \in {"running", "ending"} => pc \in Working
  BY DEF ControlInv, ThreadedControl
<1> QED
  BY <1>1, CpalSteps, PulseSteps, CoreAudioSteps, PipeWireSteps, AsioSteps, WasapiSteps, AlsaSteps,
     AlsaThreadedSteps
     DEF Thread, Inner, Device

-----------------------------------------------------------------------------
\* --------------------------- The inductive invariant ----------------------

OrderInv ==
  /\ StepTypes /\ told \subseteq {"Ready"} \cup Final
  /\ ControlInv /\ ChunkOrder /\ SoundOrder

LEMMA NotesAreNumbers == StepTypes => notes \in Seq(Nat)
<1> SUFFICES ASSUME StepTypes PROVE notes \in Seq(Nat)
  OBVIOUS
<1>1. CASE backend = "cpal"
  <2>1. notes \in Seq(1..MaxChunks)
    BY <1>1 DEF StepTypes, ChunkTypes
  <2> QED
    BY <2>1, SeqMonotonic, ChunkNumbers
<1>2. CASE backend # "cpal"
  <2>1. notes \in Seq(0..EndNote)
    BY <1>2 DEF StepTypes, ThreadTypes
  <2> QED
    BY <2>1, SeqMonotonic, ChunkNumbers DEF EndNote
<1> QED
  BY <1>1, <1>2

LEMMA OrderIsTyped == OrderInv => TypeOK
<1> SUFFICES ASSUME OrderInv PROVE TypeOK
  OBVIOUS
<1>1. ThreadTypes /\ ChunkTypes /\ SoundTypes /\ told \subseteq {"Ready"} \cup Final
  BY DEF OrderInv, StepTypes
<1>2. notes \in Seq(IF backend = "cpal" THEN 1..MaxChunks ELSE 0..EndNote)
  BY <1>1 DEF ThreadTypes, ChunkTypes
<1> QED
  BY <1>1, <1>2 DEF ThreadTypes, ChunkTypes, SoundTypes, Total, TypeOK

LEMMA InitOrder == Init => OrderInv
<1> SUFFICES ASSUME Init PROVE OrderInv
  OBVIOUS
<1> USE ChunkNumbers
<1>1. /\ backend \in Backends /\ pc = "open" /\ inner = "none" /\ event = "none"
      /\ inbox = <<>> /\ processing = TRUE /\ made = 0 /\ supervisor = TRUE /\ told = {}
      /\ chunk = 0 /\ ring = <<>> /\ notes = <<>> /\ credit = 0 /\ rest = <<>>
      /\ paused = FALSE /\ stalled = FALSE /\ played = 0 /\ disorder = FALSE
  BY DEF Init
<1>2. \A S : <<>> \in Seq(S) /\ Len(<<>>) = 0
  BY EmptySeq
<1>3. ThreadTypes
  <2>1. notes \in Seq(0..EndNote) /\ Len(notes) <= NoteCapacity /\ credit \in Nat
        /\ credit <= RingCapacity
    BY <1>1, <1>2
  <2>2. processing \in BOOLEAN /\ supervisor \in BOOLEAN /\ paused \in BOOLEAN /\ stalled \in BOOLEAN
    BY <1>1
  <2> QED
    BY <1>1, <2>1, <2>2 DEF ThreadTypes
<1>4. ChunkTypes
  BY <1>1, <1>2 DEF ChunkTypes, EndOfStream
<1>5. SoundTypes
  <2>1. ring \in Seq(1..Total) /\ Len(ring) <= RingCapacity /\ rest \in Seq(1..Total)
        /\ Len(rest) <= RingCapacity /\ played \in 0..Total
    BY <1>1, <1>2
  <2>2. disorder \in BOOLEAN
    BY <1>1
  <2> QED
    BY <2>1, <2>2 DEF SoundTypes
<1>6. BufferInv
  BY <1>1 DEF BufferInv
<1>7. ControlInv
  BY <1>1, <1>2 DEF ControlInv, LastMessage, ThreadedControl
<1>8. Handed = {} /\ Busy = {} /\ ChunksOf(inbox) = {} /\ Coming = {1} /\ InTurn(inbox)
  BY <1>1, <1>2 DEF Handed, Busy, ChunksOf, Coming, InTurn
<1>9. ChunkOrder
  BY <1>1, <1>2, <1>8 DEF ChunkOrder, AllLess
<1>10. SoundOrder
  <2>1. Queue = <<>> /\ Len(Queue) = 0
    BY <1>1, <1>2, ConcatEmptySeq DEF Queue
  <2>2. First(1) \in Nat
    BY 1 \in 1..(MaxChunks + 1)
  <2>3. ~disorder
    BY <1>1
  <2>4. Rising(Queue) /\ Above(played, Queue) /\ UpTo(Queue, First(1))
    BY <2>1 DEF Rising, Above, UpTo
  <2>5. played <= First(1)
    BY <1>1, <2>2
  <2> QED
    BY <1>8, <2>3, <2>4, <2>5 DEF SoundOrder
<1> QED
  BY <1>1, <1>3, <1>4, <1>5, <1>6, <1>7, <1>9, <1>10 DEF OrderInv, StepTypes

LEMMA NextOrder ==
  ASSUME OrderInv, [Next]_vars
  PROVE  OrderInv' /\ UNCHANGED backend /\ [Promise!Next]_Promise!contract
<1>1. /\ StepTypes /\ ChunkTypes /\ SoundTypes /\ ThreadTypes /\ BufferInv
      /\ ControlInv /\ ChunkOrder /\ SoundOrder
  BY DEF OrderInv, StepTypes
<1>2. Next \/ UNCHANGED vars
  OBVIOUS
<1>3. ThreadTypes' /\ SoundMoves
  <2>1. CASE Environment \/ UNCHANGED vars
    BY <1>1, <2>1, EnvironmentSteps
  <2>2. CASE Thread \/ Inner \/ Device
    BY <1>1, <2>2, BackendSteps
  <2> QED
    BY <1>2, <2>1, <2>2 DEF Next
<1>4. ChunkMoves /\ UNCHANGED backend
  BY <1>3 DEF SoundMoves, ChunkMoves
<1>5. told' \subseteq {"Ready"} \cup Final
  <2>1. ASSUME Environment \/ UNCHANGED vars PROVE told' = told
    BY <1>1, <2>1, EnvironmentSteps
  <2>2. ASSUME ThreadMoves \/ DeviceMoves PROVE told' \subseteq told \cup {"Ready"} \cup Final
    BY <2>2 DEF ThreadMoves, DeviceMoves, Final, Errors
  <2>3. told \subseteq {"Ready"} \cup Final
    BY DEF OrderInv
  <2>4. inbox \in Seq(0..EndOfStream) /\ notes \in Seq(Nat)
    BY <1>1, NotesAreNumbers DEF ChunkTypes
  <2>5. ASSUME Thread \/ Inner \/ Device PROVE ThreadMoves \/ DeviceMoves
    BY <1>1, <2>4, <2>5, BackendMoves
  <2> QED
    BY <1>2, <2>1, <2>2, <2>3, <2>5 DEF Next
<1>6. ControlInv' /\ (Promise!Next \/ UNCHANGED Promise!contract)
  <2>1. inbox \in Seq(0..EndOfStream) /\ made \in 0..MaxChunks /\ processing \in BOOLEAN
    BY <1>1 DEF ChunkTypes, ThreadTypes
  <2> QED
    BY <1>1, <1>2, <2>1, NotesAreNumbers, NextControl
<1>7. ChunkTypes' /\ ChunkOrder' /\ SoundTypes' /\ SoundOrder'
  BY <1>1, <1>3, <1>4, NextChunkTypes, NextChunkOrder, NextSoundTypes, NextSoundOrder
<1>8. BufferInv'
  BY <1>1, <1>3, <1>4 DEF SoundMoves, BufferInv
<1> QED
  BY <1>3, <1>4, <1>5, <1>6, <1>7, <1>8 DEF OrderInv, StepTypes

LEMMA OrderInvariant == Spec => []OrderInv
  BY InitOrder, NextOrder, PTL DEF Spec

\* The variables keep their types: the inbox, the ring buffer, what a short write has
\* left and the channel to the callback or inner thread stay within their capacities.
THEOREM PlaybackTypes == Spec => []TypeOK
  BY OrderInvariant, OrderIsTyped, PTL

\* Whatever the backend and whatever goes wrong, the playback threads keep the contract
\* that the supervisor and the processing thread rely on: one report of how the start
\* went, messages taken in their order, Done only when nothing is left to take, and no
\* end without a report unless the thread that makes it has panicked.
THEOREM PlaybackContractKept == Spec => Contract
<1>1. Init => Promise!Init
  BY Phases DEF PhaseIsRight, Init, Promise!Init
<1> QED
  BY <1>1, OrderInvariant, NextOrder, PTL DEF Spec, Contract, Promise!Spec

\* The device gets every packet at most once and in the order of the stream, for every
\* backend, across short writes, stalls, write errors and dropped chunks.
THEOREM SoundInOrder == Spec => []PlaysInOrder
<1>1. OrderInv => PlaysInOrder
  BY DEF OrderInv, SoundOrder, PlaysInOrder
<1> QED
  BY <1>1, OrderInvariant, PTL

-----------------------------------------------------------------------------
(***************************************************************************)
(* The account.  The notes that tell the callback or the inner thread of   *)
(* packets are counted against the packets in the ring buffer.             *)
(***************************************************************************)
\* ------------------------------- Announced --------------------------------
LEMMA AnnouncedFinite ==
  ASSUME NEW q \in Seq(0..EndNote)
  PROVE  IsFiniteSet(Announced(q)) /\ Cardinality(Announced(q)) \in Nat
<1>1. IsFiniteSet(1..Len(q)) /\ IsFiniteSet(1..RingCapacity)
  BY FS_Interval, PlaybackAssumption
<1>2. IsFiniteSet((1..Len(q)) \X (1..RingCapacity))
  BY <1>1, FS_Product
<1>3. Announced(q) \in SUBSET ((1..Len(q)) \X (1..RingCapacity))
  BY DEF Announced
<1>4. IsFiniteSet(Announced(q))
  BY <1>2, <1>3, FS_Subset
<1> QED
  BY <1>4, FS_CardinalityType

Worth(n) == IF n <= RingCapacity THEN n ELSE 0

\* So many pairs for one note.
LEMMA NoteIsWorth ==
  ASSUME NEW a \in Nat, NEW n \in 0..EndNote
  PROVE  LET N == {a} \X (1..Worth(n)) IN IsFiniteSet(N) /\ Cardinality(N) = Worth(n)
<1>1. Worth(n) \in Nat
  BY PlaybackAssumption DEF Worth, EndNote
<1>2. IsFiniteSet(1..Worth(n)) /\ Cardinality(1..Worth(n)) = Worth(n)
  BY <1>1, FS_Interval
<1>3. IsFiniteSet({a}) /\ Cardinality({a}) = 1
  BY FS_Singleton
<1>4. IsFiniteSet({a} \X (1..Worth(n))) /\ Cardinality({a} \X (1..Worth(n))) = 1 * Worth(n)
  <2> DEFINE S == {a}
             T == 1..Worth(n)
  <2>1. IsFiniteSet(S) /\ Cardinality(S) = 1 /\ IsFiniteSet(T) /\ Cardinality(T) = Worth(n)
    BY <1>2, <1>3
  <2> HIDE DEF S, T
  <2>2. IsFiniteSet(S \X T) /\ Cardinality(S \X T) = Cardinality(S) * Cardinality(T)
    BY <2>1, FS_Product
  <2> QED
    BY <2>1, <2>2 DEF S, T
<1>5. 1 * Worth(n) = Worth(n)
  BY <1>1
<1> QED
  BY <1>4, <1>5

LEMMA AppendAnnounces ==
  ASSUME NEW q \in Seq(0..EndNote), NEW n \in 0..EndNote
  PROVE  Cardinality(Announced(Append(q, n))) = Cardinality(Announced(q)) + Worth(n)
<1> DEFINE N == {Len(q) + 1} \X (1..Worth(n))
           r == Append(q, n)
<1>1. /\ r \in Seq(0..EndNote) /\ Len(r) = Len(q) + 1 /\ r[Len(q) + 1] = n
      /\ \A i \in 1..Len(q) : r[i] = q[i]
      /\ Len(q) \in Nat /\ RingCapacity \in Nat
  BY PlaybackAssumption
<1> HIDE DEF r
<1>2. Announced(r) = Announced(q) \cup N
  <2>1. ASSUME NEW p \in Announced(r) PROVE p \in Announced(q) \cup N
    <3>1. /\ p = <<p[1], p[2]>> /\ p[1] \in 1..Len(r) /\ p[2] \in 1..RingCapacity
          /\ r[p[1]] <= RingCapacity /\ p[2] <= r[p[1]]
      BY DEF Announced
    <3>2. CASE p[1] = Len(q) + 1
      <4>1. p[2] \in 1..Worth(n)
        BY <1>1, <3>1, <3>2 DEF Worth
      <4> QED
        BY <3>1, <3>2, <4>1
    <3>3. CASE p[1] \in 1..Len(q)
      BY <1>1, <3>1, <3>3 DEF Announced
    <3> QED
      BY <1>1, <3>1, <3>2, <3>3
  <2>2. ASSUME NEW p \in Announced(q) PROVE p \in Announced(r)
    BY <1>1 DEF Announced
  <2>3. ASSUME NEW p \in N PROVE p \in Announced(r)
    <3>1. p = <<Len(q) + 1, p[2]>> /\ p[2] \in 1..Worth(n)
      OBVIOUS
    <3>2. n <= RingCapacity /\ p[2] <= n /\ p[2] \in 1..RingCapacity
      BY <1>1, <3>1 DEF Worth, EndNote
    <3> QED
      BY <1>1, <3>1, <3>2 DEF Announced
  <2> HIDE DEF N
  <2> QED
    BY <2>1, <2>2, <2>3
<1>3. Announced(q) \cap N = {}
  BY <1>1 DEF Announced
<1>4. IsFiniteSet(N) /\ Cardinality(N) = Worth(n)
  BY <1>1, NoteIsWorth
<1>5. IsFiniteSet(Announced(q)) /\ Cardinality(Announced(q)) \in Nat
  BY AnnouncedFinite
<1> HIDE DEF N
<1>6. Cardinality(Announced(q) \cup N) = Cardinality(Announced(q)) + Cardinality(N) - Cardinality({})
  BY <1>3, <1>4, <1>5, FS_Union
<1>7. Cardinality({}) = 0 /\ Worth(n) \in Nat
  BY FS_EmptySet, PlaybackAssumption DEF Worth, EndNote
<1> QED
  BY <1>2, <1>4, <1>5, <1>6, <1>7 DEF r

LEMMA HeadAnnounces ==
  ASSUME NEW q \in Seq(0..EndNote), q # <<>>
  PROVE  /\ Head(q) \in 0..EndNote /\ Tail(q) \in Seq(0..EndNote)
         /\ Cardinality(Announced(q)) = Worth(Head(q)) + Cardinality(Announced(Tail(q)))
<1> DEFINE h == Head(q)
           t == Tail(q)
           N == {1} \X (1..Worth(h))
           M == Announced(q) \ N
           f == [p \in Announced(t) |-> <<p[1] + 1, p[2]>>]
<1>1. /\ h \in 0..EndNote /\ t \in Seq(0..EndNote) /\ Len(t) = Len(q) - 1
      /\ h = q[1] /\ \A i \in 1..Len(t) : t[i] = q[i + 1]
      /\ Len(q) \in Nat \ {0} /\ RingCapacity \in Nat
  <2>1. /\ h \in 0..EndNote /\ t \in Seq(0..EndNote) /\ Len(t) = Len(q) - 1
        /\ \A i \in 1..Len(t) : t[i] = q[i + 1]
    BY HeadTailProperties
  <2>2. Len(q) \in Nat \ {0} /\ h = q[1]
    BY EmptySeq
  <2> QED
    BY <2>1, <2>2, PlaybackAssumption
<1> HIDE DEF h, t
<1>2. N \subseteq Announced(q)
  <2>1. ASSUME NEW p \in N PROVE p \in Announced(q)
    <3>1. p = <<1, p[2]>> /\ p[2] \in 1..Worth(h)
      OBVIOUS
    <3>2. h <= RingCapacity /\ p[2] <= h /\ p[2] \in 1..RingCapacity
      BY <1>1, <3>1 DEF Worth, EndNote
    <3> QED
      BY <1>1, <3>1, <3>2 DEF Announced
  <2> QED
    BY <2>1
<1>3. \A p \in M : /\ p = <<p[1], p[2]>> /\ p[1] \in 2..Len(q) /\ p[2] \in 1..RingCapacity
                   /\ q[p[1]] <= RingCapacity /\ p[2] <= q[p[1]]
  <2>1. ASSUME NEW p \in M, p[1] = 1 PROVE FALSE
    <3>1. p = <<1, p[2]>> /\ p[2] \in 1..RingCapacity /\ p[2] <= h /\ h <= RingCapacity
      BY <1>1, <2>1 DEF Announced
    <3>2. p[2] \in 1..Worth(h)
      BY <1>1, <3>1 DEF Worth
    <3> QED
      BY <3>1, <3>2
  <2> QED
    BY <1>1, <2>1 DEF Announced
<1>4. f \in Bijection(Announced(t), M)
  <2>1. ASSUME NEW p \in Announced(t) PROVE f[p] \in M
    <3>1. /\ p = <<p[1], p[2]>> /\ p[1] \in 1..Len(t) /\ p[2] \in 1..RingCapacity
          /\ t[p[1]] <= RingCapacity /\ p[2] <= t[p[1]]
      BY DEF Announced
    <3>2. f[p] = <<p[1] + 1, p[2]>> /\ p[1] + 1 \in 2..Len(q) /\ q[p[1] + 1] = t[p[1]]
      BY <1>1, <3>1
    <3>3. f[p] \in Announced(q)
      BY <1>1, <3>1, <3>2 DEF Announced
    <3>4. f[p] \notin N
      BY <3>1, <3>2
    <3> QED
      BY <3>3, <3>4
  <2>2. ASSUME NEW p \in Announced(t), NEW r \in Announced(t), f[p] = f[r] PROVE p = r
    <3>1. /\ p = <<p[1], p[2]>> /\ p[1] \in 1..Len(t)
          /\ r = <<r[1], r[2]>> /\ r[1] \in 1..Len(t)
      BY DEF Announced
    <3>2. p[1] + 1 = r[1] + 1 /\ p[2] = r[2]
      BY <2>2
    <3>3. p[1] = r[1]
      BY <1>1, <3>1, <3>2
    <3> QED
      BY <3>1, <3>2, <3>3
  <2>3. ASSUME NEW p \in M PROVE \E r \in Announced(t) : f[r] = p
    <3>1. /\ p = <<p[1], p[2]>> /\ p[1] \in 2..Len(q) /\ p[2] \in 1..RingCapacity
          /\ q[p[1]] <= RingCapacity /\ p[2] <= q[p[1]]
      BY <1>3
    <3> DEFINE r == <<p[1] - 1, p[2]>>
    <3>2. p[1] - 1 \in 1..Len(t) /\ t[p[1] - 1] = q[p[1]] /\ p[1] - 1 + 1 = p[1]
      BY <1>1, <3>1
    <3>3. r \in Announced(t)
      BY <1>1, <3>1, <3>2 DEF Announced
    <3>4. f[r] = <<r[1] + 1, r[2]>> /\ r[1] + 1 = p[1] /\ r[2] = p[2]
      BY <3>2, <3>3
    <3> QED
      BY <3>1, <3>3, <3>4
  <2>4. f \in [Announced(t) -> M]
    BY <2>1
  <2> HIDE DEF f, M
  <2>5. f \in Injection(Announced(t), M)
    BY <2>2, <2>4, Fun_IsInj
  <2>6. f \in Surjection(Announced(t), M)
    BY <2>3, <2>4, Fun_IsSurj
  <2> QED
    BY <2>5, <2>6 DEF Bijection
<1>5. IsFiniteSet(Announced(t)) /\ Cardinality(Announced(t)) \in Nat
  BY <1>1, AnnouncedFinite
<1>6. ExistsBijection(Announced(t), M)
  BY <1>4 DEF ExistsBijection
<1>7. IsFiniteSet(M) /\ Cardinality(M) = Cardinality(Announced(t))
  <2> HIDE DEF M
  <2> QED
    BY <1>5, <1>6, FS_Bijection
<1>8. IsFiniteSet(N) /\ Cardinality(N) = Worth(h)
  BY <1>1, NoteIsWorth
<1>9. Announced(q) = N \cup M /\ N \cap M = {}
  BY <1>2
<1> HIDE DEF N, M
<1>10. Cardinality(N \cup M) = Cardinality(N) + Cardinality(M) - Cardinality({})
  BY <1>7, <1>8, <1>9, FS_Union
<1>11. Cardinality({}) = 0 /\ Worth(h) \in Nat
  BY <1>1, FS_EmptySet DEF Worth, EndNote
<1> QED
  BY <1>1, <1>5, <1>7, <1>8, <1>9, <1>10, <1>11 DEF h, t

LEMMA NothingAnnounced == Announced(<<>>) = {} /\ Cardinality(Announced(<<>>)) = 0
<1>1. Announced(<<>>) = {}
  BY DEF Announced
<1> QED
  BY <1>1, FS_EmptySet
-----------------------------------------------------------------------------
\* ----------------------- The account of the ring buffer -------------------

\* The number of packets that the notes tell of.
Known == Cardinality(Announced(notes))

LEMMA KnownPackets ==
  ASSUME notes \in Seq(0..EndNote)
  PROVE  /\ Known \in Nat /\ (notes = <<>> => Known = 0)
         /\ UNCHANGED notes => UNCHANGED Known
         /\ \A n \in 0..EndNote : notes' = Append(notes, n) => Known' = Known + Worth(n)
         /\ notes # <<>> /\ notes' = Tail(notes) =>
              /\ Head(notes) \in 0..EndNote /\ Known' \in Nat
              /\ Known = Worth(Head(notes)) + Known'
<1>1. Known' = Cardinality(Announced(notes'))
  BY DEF Known, Announced
<1>2. Known \in Nat /\ (notes = <<>> => Known = 0)
  BY AnnouncedFinite, NothingAnnounced DEF Known
<1>3. UNCHANGED notes => UNCHANGED Known
  BY <1>1 DEF Known
<1>4. \A n \in 0..EndNote : notes' = Append(notes, n) => Known' = Known + Worth(n)
  BY <1>1, AppendAnnounces DEF Known
<1>5. ASSUME notes # <<>> /\ notes' = Tail(notes)
      PROVE  /\ Head(notes) \in 0..EndNote /\ Known' \in Nat
             /\ Known = Worth(Head(notes)) + Known'
  <2>1. /\ Head(notes) \in 0..EndNote /\ Tail(notes) \in Seq(0..EndNote)
        /\ Cardinality(Announced(notes)) = Worth(Head(notes)) + Cardinality(Announced(Tail(notes)))
    BY <1>5, HeadAnnounces
  <2>2. Cardinality(Announced(Tail(notes))) \in Nat
    BY <2>1, AnnouncedFinite
  <2> QED
    BY <1>1, <1>5, <2>1, <2>2 DEF Known
<1> QED
  BY <1>2, <1>3, <1>4, <1>5

\* With CoreAudio and WASAPI each note is a number of packets, or the end; what the ring
\* holds is what they tell of and what the thread is about to tell.
PlainNotes ==
  \A i \in 1..Len(notes) : notes[i] <= RingCapacity \/ (backend = "wasapi" /\ notes[i] = EndNote)
ToldOf ==
  /\ Len(ring) = credit + Known
  /\ pc \in {"note", "end", "join", "done"} \/ credit = 0
  /\ PlainNotes

\* With threaded ALSA an error may lose packets that stay counted.
Held     == Len(ring) + Len(rest)
Counted  == credit + Known + (IF pc = "note" THEN ChunkPackets ELSE 0)
Balanced ==
  /\ Held <= Counted /\ ("Error" \notin told => Held = Counted)
  /\ Len(rest) <= credit

AccountInv ==
  /\ backend \in {"coreaudio", "wasapi"} => ToldOf
  /\ backend = "alsaThreaded" /\ inner # "panicked" => Balanced

\* What the types say of the numbers.
LEMMA AccountTypes ==
  ASSUME StepTypes, backend # "cpal"
  PROVE  /\ notes \in Seq(0..EndNote) /\ notes \in Seq(Nat) /\ credit \in Nat
         /\ Len(ring) \in Nat /\ Len(rest) \in Nat /\ Len(ring) <= RingCapacity
         /\ ChunkPackets \in Nat /\ ChunkPackets < RingCapacity /\ RingCapacity \in Nat
         /\ Worth(EndNote) = 0 /\ Worth(PauseNote) = 0 /\ Worth(ChunkPackets) = ChunkPackets
         /\ credit <= RingCapacity => Worth(credit) = credit
         /\ \A n \in 0..EndNote : Worth(n) = n \/ n > RingCapacity
         /\ {ChunkPackets, PauseNote, EndNote} \subseteq 0..EndNote
         /\ credit <= RingCapacity => credit \in 0..EndNote
<1> USE ChunkNumbers
<1>1. notes \in Seq(0..EndNote) /\ credit \in Nat
  BY DEF StepTypes, ThreadTypes
<1>2. notes \in Seq(Nat)
  BY <1>1, SeqMonotonic DEF EndNote
<1>3. Len(ring) \in Nat /\ Len(rest) \in Nat /\ Len(ring) <= RingCapacity
  BY LenProperties DEF StepTypes, SoundTypes
<1> QED
  BY <1>1, <1>2, <1>3 DEF Worth, EndNote, PauseNote

LEMMA PlainKept ==
  ASSUME notes \in Seq(Nat), PlainNotes, UNCHANGED backend
  PROVE  /\ UNCHANGED notes => PlainNotes'
         /\ notes # <<>> /\ notes' = Tail(notes) => PlainNotes'
         /\ \A n \in Nat : /\ notes' = Append(notes, n)
                           /\ n <= RingCapacity \/ (backend = "wasapi" /\ n = EndNote)
              => PlainNotes'
         /\ notes # <<>> => Head(notes) <= RingCapacity \/ (backend = "wasapi" /\ Head(notes) = EndNote)
<1> USE DEF PlainNotes, EndNote
<1>1. UNCHANGED notes => PlainNotes'
  OBVIOUS
<1>2. ASSUME notes # <<>> PROVE \A i \in 1..Len(Tail(notes)) : i + 1 \in 1..Len(notes) /\ Tail(notes)[i] = notes[i + 1]
  BY <1>2, NoteQueues
<1>3. notes # <<>> /\ notes' = Tail(notes) => PlainNotes'
  BY <1>2
<1>4. ASSUME NEW n \in Nat, notes' = Append(notes, n),
             n <= RingCapacity \/ (backend = "wasapi" /\ n = EndNote)
      PROVE  PlainNotes'
  <2>1. \A i \in 1..Len(notes') : \/ i = Len(notes) + 1 /\ notes'[i] = n
                                  \/ i \in 1..Len(notes) /\ notes'[i] = notes[i]
    BY <1>4, NoteQueues
  <2> QED
    BY <1>4, <2>1
<1>5. notes # <<>> => 1 \in 1..Len(notes) /\ Head(notes) = notes[1]
  BY NoteQueues
<1> QED
  BY <1>1, <1>3, <1>4, <1>5

\* The callback takes a note and as many packets.
LEMMA PlainRead ==
  ASSUME StepTypes, backend \in {"coreaudio", "wasapi"}, ToldOf, notes # <<>>,
         Head(notes) # EndNote, notes' = Tail(notes), UNCHANGED <<backend, pc, credit>>,
         ring' = SubSeq(ring, Min({Head(notes), Len(ring)}) + 1, Len(ring))
  PROVE  ToldOf'
<1> DEFINE n == Min({Head(notes), Len(ring)})
<1>1. /\ notes \in Seq(0..EndNote) /\ notes \in Seq(Nat) /\ credit \in Nat
      /\ Len(ring) \in Nat /\ RingCapacity \in Nat
  BY AccountTypes
<1>2. /\ Head(notes) \in 0..EndNote /\ Head(notes) \in Nat /\ Known' \in Nat
      /\ Known = Worth(Head(notes)) + Known'
  BY <1>1, KnownPackets DEF EndNote
<1>3. Head(notes) <= RingCapacity /\ PlainNotes'
  BY <1>1, PlainKept DEF ToldOf
<1>4. Worth(Head(notes)) = Head(notes)
  BY <1>3 DEF Worth
<1>5. Head(notes) <= Len(ring)
  <2>1. Len(ring) = credit + Known
    BY DEF ToldOf
  <2>2. \A c, h, k \in Nat : h <= c + (h + k)
    OBVIOUS
  <2> QED
    BY <1>1, <1>2, <1>4, <2>1, <2>2
<1>6. n = Head(notes) /\ n \in 0..Len(ring)
  <2>1. n \in {Head(notes), Len(ring)} /\ n <= Head(notes) /\ n <= Len(ring)
    BY <1>1, <1>2, MinOfTwo
  <2> HIDE DEF n
  <2>2. \A h, l, m \in Nat : h <= l /\ m \in {h, l} /\ m <= h => m = h /\ m \in 0..l
    OBVIOUS
  <2>3. n \in Nat
    BY <1>1, <1>2, <2>1
  <2> QED
    BY <1>1, <1>2, <1>5, <2>1, <2>2, <2>3
<1>7. ring' = SubSeq(ring, n + 1, Len(ring)) /\ ring \in Seq(1..Total)
  BY DEF StepTypes, SoundTypes
<1> HIDE DEF n
<1>8. Len(ring') = Len(ring) - n
  <2>1. <<>> \in Seq(1..Total)
    BY EmptySeq
  <2>2. ring \in Seq(1..Total) /\ n \in 0..Len(ring)
    BY <1>6, <1>7
  <2>3. Len(SubSeq(ring, n + 1, Len(ring))) = Len(ring) - n
    BY <2>1, <2>2, Parted
  <2> QED
    BY <1>7, <2>3
<1>9. Len(ring) = credit + Known /\ credit' = credit
  BY DEF ToldOf
<1>10. Len(ring') = credit' + Known'
  <2>0. Known = n + Known' /\ n \in Nat /\ Known' \in Nat
    BY <1>2, <1>4, <1>6
  <2>1. Len(ring) - n = credit + Known' /\ n \in Nat
    BY <1>1, <1>9, <2>0
  <2> QED
    BY <1>8, <1>9, <2>1
<1>11. pc' \in {"note", "end", "join", "done"} \/ credit' = 0
  BY DEF ToldOf
<1> QED
  BY <1>3, <1>10, <1>11 DEF ToldOf

LEMMA CoreAudioAccount ==
  ASSUME StepTypes, ThreadTypes', SoundTypes', backend = "coreaudio", ToldOf,
         CoreAudio!Step \/ CoreAudio!InnerStep
  PROVE  ToldOf'
<1> USE DEF CoreAudio!driver, CoreAudio!source, CoreAudio!reports, CoreAudio!buffer,
        CoreAudio!writer, CoreAudio!heard, CoreAudio!Go
<1>1. /\ notes \in Seq(0..EndNote) /\ notes \in Seq(Nat) /\ credit \in Nat
      /\ Len(ring) \in Nat /\ RingCapacity \in Nat /\ ring \in Seq(1..Total)
      /\ credit <= RingCapacity /\ credit \in 0..EndNote /\ Worth(credit) = credit
  BY AccountTypes DEF StepTypes, ThreadTypes, SoundTypes
<1>2. CASE CoreAudio!PushChunk
  <2>1. /\ CoreAudio!Fitting = Fitting
    BY DEF Fitting, CoreAudio!Fitting, Packets, CoreAudio!Packets, Min, CoreAudio!Min
  <2>2. pc = "push" /\ pc' = "note" /\ ring' = ring \o Fitting /\ credit' = Len(Fitting)
        /\ UNCHANGED <<backend, notes>>
    BY <1>2, <2>1 DEF CoreAudio!PushChunk, CoreAudio!Push
  <2>3. Fitting \in Seq(1..Total)
    BY <2>2, Fits, BusyChunk, PacketsOfChunk
  <2>4. Len(ring') = Len(ring) + Len(Fitting) /\ Len(Fitting) \in Nat
    BY <1>1, <2>2, <2>3, ConcatProperties, LenProperties
  <2>5. credit = 0
    BY <2>2 DEF ToldOf
  <2>6. Known' = Known /\ Known \in Nat /\ PlainNotes'
    BY <1>1, <2>2, KnownPackets, PlainKept DEF ToldOf
  <2> QED
    BY <1>1, <2>2, <2>4, <2>5, <2>6 DEF ToldOf
<1>3. CASE CoreAudio!Tell
  <2>1. notes' = Append(notes, credit) /\ credit' = 0 /\ UNCHANGED <<backend, ring>>
    BY <1>3 DEF CoreAudio!Tell
  <2>2. Known' = Known + credit /\ Known \in Nat /\ PlainNotes'
    BY <1>1, <2>1, KnownPackets, PlainKept DEF ToldOf
  <2> QED
    BY <1>1, <2>1, <2>2 DEF ToldOf
<1>4. CASE CoreAudio!Callback
  <2>1. /\ notes # <<>> /\ notes' = Tail(notes) /\ UNCHANGED <<backend, pc, credit>>
        /\ ring' = SubSeq(ring, Min({Head(notes), Len(ring)}) + 1, Len(ring))
    BY <1>4 DEF CoreAudio!Callback, CoreAudio!Min, Min
  <2>2. Head(notes) # EndNote
    <3>1. Head(notes) <= RingCapacity
      BY <1>1, <2>1, PlainKept DEF ToldOf
    <3>2. RingCapacity \in Nat /\ RingCapacity < EndNote
      BY ChunkNumbers DEF EndNote
    <3> QED
      BY <1>1, <2>1, <3>1, <3>2
  <2> QED
    BY <2>1, <2>2, PlainRead
<1>5. CASE ~(CoreAudio!PushChunk \/ CoreAudio!Tell \/ CoreAudio!Callback)
  <2>1. /\ UNCHANGED <<backend, ring, notes, credit>>
        /\ pc = "note" => pc' = "note"
        /\ pc \in {"end", "join", "done"} => pc' \in {"end", "join", "done"}
    BY <1>5
       DEF CoreAudio!Receive, CoreAudio!Closed, CoreAudio!Step, CoreAudio!InnerStep, CoreAudio!Open, CoreAudio!OpenFails,
       CoreAudio!OpenSucceeds, CoreAudio!Begin, CoreAudio!Started, CoreAudio!NotAlive,
       CoreAudio!Alive, CoreAudio!Look, CoreAudio!Finish, CoreAudio!ReceiveAudio,
       CoreAudio!IgnorePause, CoreAudio!ReceiveEnd, CoreAudio!EndReceived, CoreAudio!ChannelLost,
       CoreAudio!End, CoreAudio!Stop, CoreAudio!Listener
  <2>2. Known' = Known /\ PlainNotes'
    BY <1>1, <2>1, KnownPackets, PlainKept DEF ToldOf
  <2> QED
    BY <2>1, <2>2 DEF ToldOf
<1> QED
  BY <1>2, <1>3, <1>4, <1>5

LEMMA WasapiAccount ==
  ASSUME StepTypes, backend = "wasapi", ToldOf,
         Wasapi!Step \/ Wasapi!InnerStep \/ Wasapi!InnerFails
  PROVE  ToldOf'
<1> USE DEF Wasapi!driver, Wasapi!source, Wasapi!reports, Wasapi!buffer, Wasapi!writer,
        Wasapi!heard, Wasapi!Go
<1>1. /\ notes \in Seq(0..EndNote) /\ notes \in Seq(Nat) /\ credit \in Nat
      /\ Len(ring) \in Nat /\ RingCapacity \in Nat /\ ring \in Seq(1..Total)
      /\ credit <= RingCapacity /\ credit \in 0..EndNote /\ Worth(credit) = credit
      /\ EndNote \in 0..EndNote /\ Worth(EndNote) = 0
      /\ Wasapi!EndNote = EndNote
  BY AccountTypes DEF StepTypes, ThreadTypes, SoundTypes, EndNote, Wasapi!EndNote
<1>2. CASE Wasapi!PushChunk /\ Room
  <2>1. Wasapi!Packets(chunk) = Packets(chunk) /\ (Wasapi!Room <=> Room)
    BY DEF Packets, Wasapi!Packets, Room, Wasapi!Room
  <2>2. pc = "push" /\ pc' = "note" /\ ring' = ring \o Packets(chunk) /\ credit' = ChunkPackets
        /\ UNCHANGED <<backend, notes>>
    BY <1>2, <2>1 DEF Wasapi!PushChunk, Wasapi!Push
  <2>3. Packets(chunk) \in Seq(1..Total) /\ Len(Packets(chunk)) = ChunkPackets
    <3>1. ChunkPackets \in 0..ChunkPackets /\ chunk \in 1..MaxChunks
          /\ Packets(chunk) = SubSeq(Packets(chunk), 1, ChunkPackets)
      BY <2>2, BusyChunk, Fits
    <3>2. LET q == SubSeq(Packets(chunk), 1, ChunkPackets)
          IN  q \in Seq(1..Total) /\ Len(q) = ChunkPackets
      BY <3>1, PacketsOfChunk
    <3> QED
      BY <3>1, <3>2
  <2>4. Len(ring') = Len(ring) + ChunkPackets /\ ChunkPackets \in Nat
    <3>1. Len(ring \o Packets(chunk)) = Len(ring) + Len(Packets(chunk))
      BY <1>1, <2>3, ConcatProperties
    <3> QED
      BY <2>2, <2>3, <3>1, ChunkNumbers
  <2>5. credit = 0
    BY <2>2 DEF ToldOf
  <2>6. Known' = Known /\ Known \in Nat /\ PlainNotes'
    BY <1>1, <2>2, KnownPackets, PlainKept DEF ToldOf
  <2> QED
    BY <1>1, <2>2, <2>4, <2>5, <2>6 DEF ToldOf
<1>3. CASE Wasapi!Tell /\ ~Wasapi!InnerFailed
  <2>1. notes' = Append(notes, credit) /\ credit' = 0 /\ UNCHANGED <<backend, ring>>
    BY <1>3 DEF Wasapi!Tell
  <2>2. Known' = Known + credit /\ Known \in Nat /\ PlainNotes'
    BY <1>1, <2>1, KnownPackets, PlainKept DEF ToldOf
  <2> QED
    BY <1>1, <2>1, <2>2 DEF ToldOf
<1>4. CASE Wasapi!End /\ ~Wasapi!InnerFailed
  <2>1. notes' = Append(notes, EndNote) /\ pc' = "join" /\ UNCHANGED <<backend, ring, credit>>
    BY <1>1, <1>4 DEF Wasapi!End
  <2>2. EndNote \in Nat
    BY <1>1, ChunkNumbers DEF EndNote
  <2>3. Known' = Known + 0 /\ Known \in Nat
    BY <1>1, <2>1, KnownPackets
  <2>4. PlainNotes'
    BY <1>1, <2>1, <2>2, PlainKept DEF ToldOf
  <2>5. Len(ring) = credit + Known
    BY DEF ToldOf
  <2>6. Len(ring') = credit' + Known'
    BY <1>1, <2>1, <2>3, <2>5
  <2> QED
    BY <2>1, <2>4, <2>6 DEF ToldOf
<1>5. CASE Wasapi!Feed
  <2>1. /\ notes # <<>> /\ notes' = Tail(notes) /\ UNCHANGED <<backend, pc, credit>>
        /\ Head(notes) # EndNote
        /\ ring' = SubSeq(ring, Min({Head(notes), Len(ring)}) + 1, Len(ring))
    BY <1>1, <1>5 DEF Wasapi!Feed, Wasapi!Min, Min
  <2> QED
    BY <2>1, PlainRead
<1>6. CASE Wasapi!InnerStops
  <2>1. notes # <<>> /\ Head(notes) = EndNote /\ notes' = Tail(notes)
        /\ UNCHANGED <<backend, pc, ring, credit>>
    BY <1>1, <1>6 DEF Wasapi!InnerStops
  <2>2. Known = Worth(Head(notes)) + Known' /\ Known' \in Nat
    BY <1>1, <2>1, KnownPackets
  <2>3. Known' = Known
    BY <1>1, <2>1, <2>2
  <2>4. PlainNotes'
    BY <1>1, <2>1, PlainKept DEF ToldOf
  <2> QED
    BY <2>1, <2>3, <2>4 DEF ToldOf
<1>7. CASE ~(\/ Wasapi!PushChunk /\ Room
             \/ Wasapi!Tell /\ ~Wasapi!InnerFailed
             \/ Wasapi!End /\ ~Wasapi!InnerFailed
             \/ Wasapi!Feed \/ Wasapi!InnerStops)
  <2>0. Wasapi!Room <=> Room
    BY DEF Room, Wasapi!Room
  <2>1. /\ UNCHANGED <<backend, ring, notes, credit>>
        /\ pc = "note" => pc' \in {"note", "end"}
        /\ pc \in {"end", "join", "done"} => pc' \in {"end", "join", "done"}
    <3>1. CASE Wasapi!PushChunk \/ Wasapi!Tell \/ Wasapi!End
      BY <1>7, <2>0, <3>1 DEF Wasapi!PushChunk, Wasapi!Tell, Wasapi!End
    <3>2. CASE ~(Wasapi!PushChunk \/ Wasapi!Tell \/ Wasapi!End)
      BY <1>7, <3>2
         DEF Wasapi!Receive, Wasapi!Closed, Wasapi!Step, Wasapi!InnerStep, Wasapi!Open,
         Wasapi!OpenFails, Wasapi!OpenSucceeds, Wasapi!Begin, Wasapi!Started,
         Wasapi!InnerHasFailed, Wasapi!InnerRuns, Wasapi!Look, Wasapi!Finish,
         Wasapi!ReceiveAudio, Wasapi!IgnorePause, Wasapi!ReceiveEnd, Wasapi!EndReceived,
         Wasapi!ChannelLost, Wasapi!Join, Wasapi!InnerFails
    <3> QED
      BY <3>1, <3>2
  <2>2. Known' = Known /\ PlainNotes'
    BY <1>1, <2>1, KnownPackets, PlainKept DEF ToldOf
  <2> QED
    BY <2>1, <2>2 DEF ToldOf
<1> QED
  BY <1>2, <1>3, <1>4, <1>5, <1>6, <1>7

\* Nothing is counted or held that was not before.
LEMMA BalanceKept ==
  ASSUME Balanced, notes \in Seq(0..EndNote), UNCHANGED <<ring, rest, credit, notes>>,
         told \subseteq told', pc' = "note" <=> pc = "note"
  PROVE  Balanced'
<1>1. Known' = Known
  BY KnownPackets
<1>2. Held' = Held
  BY DEF Held
<1>3. Counted' = Counted
  BY <1>1 DEF Counted
<1> QED
  BY <1>2, <1>3 DEF Balanced

LEMMA ThreadedAccount ==
  ASSUME StepTypes, backend = "alsaThreaded", inner # "panicked" => Balanced,
         inner' # "panicked", pc = "open" => inner = "none",
         AlsaThreaded!Step \/ AlsaThreaded!InnerStep \/ AlsaThreaded!InnerPanics
  PROVE  Balanced'
<1> USE DEF AlsaThreaded!driver, AlsaThreaded!source, AlsaThreaded!reports, AlsaThreaded!buffer,
        AlsaThreaded!writer, AlsaThreaded!heard, AlsaThreaded!Go, AlsaThreaded!Report,
        AlsaThreaded!InnerOnly
<1>1. /\ notes \in Seq(0..EndNote) /\ notes \in Seq(Nat) /\ credit \in Nat
      /\ Len(ring) \in Nat /\ Len(rest) \in Nat /\ RingCapacity \in Nat /\ ring \in Seq(1..Total)
      /\ ChunkPackets \in Nat /\ Worth(EndNote) = 0 /\ Worth(PauseNote) = 0
      /\ Worth(ChunkPackets) = ChunkPackets /\ {ChunkPackets, PauseNote, EndNote} \subseteq 0..EndNote
      /\ AlsaThreaded!PauseNote = PauseNote /\ AlsaThreaded!EndNote = EndNote
      /\ SoundTypes
  BY AccountTypes, ChunkNumbers
     DEF StepTypes, SoundTypes, EndNote, PauseNote, AlsaThreaded!EndNote, AlsaThreaded!PauseNote
<1>2. Known \in Nat /\ credit \in Nat /\ ChunkPackets \in Nat /\ Len(rest) \in Nat
  BY <1>1, KnownPackets
<1>3. inner # "panicked"
  BY DEF AlsaThreaded!Step, AlsaThreaded!InnerStep, AlsaThreaded!Open, AlsaThreaded!Begin,
     AlsaThreaded!OpenFails, AlsaThreaded!OpenSucceeds, AlsaThreaded!Started,
     AlsaThreaded!ReceiveAudio, AlsaThreaded!PushChunk, AlsaThreaded!Tell, AlsaThreaded!TakePause,
     AlsaThreaded!PassPause, AlsaThreaded!PassEnd, AlsaThreaded!SendNote, AlsaThreaded!ReceiveEnd,
     AlsaThreaded!ChannelLost, AlsaThreaded!StartInner, AlsaThreaded!Join, AlsaThreaded!ReadData,
     AlsaThreaded!ReadPause, AlsaThreaded!ReadEnd, AlsaThreaded!Write, AlsaThreaded!WriteStalls,
     AlsaThreaded!WriteFails, AlsaThreaded!InnerEnds, AlsaThreaded!Running, AlsaThreaded!InnerPanics
<1>4. Balanced
  BY <1>3
<1>5. Held <= Counted /\ ("Error" \notin told => Held = Counted) /\ Len(rest) <= credit
  BY <1>4 DEF Balanced
<1>6. CASE AlsaThreaded!PushChunk /\ Room
  <2>1. (\A k : AlsaThreaded!Packets(k) = Packets(k)) /\ (AlsaThreaded!Room <=> Room)
    BY DEF Packets, AlsaThreaded!Packets, Room, AlsaThreaded!Room
  <2>2. pc = "push" /\ pc' = "note" /\ ring' = ring \o Packets(chunk)
        /\ UNCHANGED <<notes, rest, credit, told>>
    BY <1>6, <2>1 DEF AlsaThreaded!PushChunk, AlsaThreaded!Push
  <2>3. Packets(chunk) \in Seq(1..Total) /\ Len(Packets(chunk)) = ChunkPackets
    <3>1. ChunkPackets \in 0..ChunkPackets /\ chunk \in 1..MaxChunks
          /\ Packets(chunk) = SubSeq(Packets(chunk), 1, ChunkPackets)
      BY <2>2, BusyChunk, Fits
    <3>2. LET q == SubSeq(Packets(chunk), 1, ChunkPackets)
          IN  q \in Seq(1..Total) /\ Len(q) = ChunkPackets
      BY <3>1, PacketsOfChunk
    <3> QED
      BY <3>1, <3>2
  <2>4. Len(ring') = Len(ring) + ChunkPackets
    <3>1. Len(ring \o Packets(chunk)) = Len(ring) + Len(Packets(chunk))
      BY <1>1, <2>3, ConcatProperties
    <3> QED
      BY <2>2, <2>3, <3>1
  <2>5. Known' = Known
    BY <1>1, <2>2, KnownPackets
  <2>6. Held' = Held + ChunkPackets /\ Held \in Nat
    BY <1>1, <2>2, <2>4 DEF Held
  <2>7. Counted' = Counted + ChunkPackets /\ Counted \in Nat
    BY <1>1, <1>2, <2>2, <2>5 DEF Counted
  <2> QED
    BY <1>1, <1>5, <2>2, <2>6, <2>7 DEF Balanced
<1>7. CASE AlsaThreaded!Tell
  <2>1. pc = "note" /\ pc' = "loop" /\ notes' = Append(notes, ChunkPackets)
        /\ UNCHANGED <<ring, rest, credit, told>>
    BY <1>3, <1>7 DEF AlsaThreaded!Tell
  <2>2. Known' = Known + ChunkPackets
    BY <1>1, <2>1, KnownPackets
  <2>3. Held' = Held
    BY <2>1 DEF Held
  <2>4. Counted' = Counted
    BY <1>2, <2>1, <2>2 DEF Counted
  <2> QED
    BY <1>5, <2>1, <2>3, <2>4 DEF Balanced
<1>8. CASE AlsaThreaded!PassPause \/ AlsaThreaded!PassEnd
  <2>1. PICK n \in {PauseNote, EndNote} : notes' = Append(notes, n)
    BY <1>1, <1>3, <1>8 DEF AlsaThreaded!PassPause, AlsaThreaded!PassEnd, AlsaThreaded!SendNote
  <2>2. pc # "note" /\ pc' # "note" /\ UNCHANGED <<ring, rest, credit, told>>
    BY <1>8 DEF AlsaThreaded!PassPause, AlsaThreaded!PassEnd, AlsaThreaded!SendNote
  <2>3. Known' = Known + 0
    BY <1>1, <2>1, KnownPackets
  <2>4. Held' = Held
    BY <2>2 DEF Held
  <2>5. Counted' = Counted
    BY <1>2, <2>2, <2>3 DEF Counted
  <2> QED
    BY <1>5, <2>2, <2>4, <2>5 DEF Balanced
<1>9. CASE AlsaThreaded!ReadData
  <2>1. /\ notes # <<>> /\ Head(notes) <= RingCapacity /\ notes' = Tail(notes)
        /\ credit' = credit + Head(notes) /\ UNCHANGED <<pc, ring, rest, told>>
    BY <1>9 DEF AlsaThreaded!ReadData
  <2>2. Head(notes) \in Nat /\ Known' \in Nat /\ Known = Worth(Head(notes)) + Known'
    BY <1>1, <2>1, KnownPackets DEF EndNote
  <2>3. Known = Head(notes) + Known'
    BY <2>1, <2>2 DEF Worth
  <2>4. Held' = Held
    BY <2>1 DEF Held
  <2>5. credit' = credit + Head(notes) /\ UNCHANGED <<pc, rest, told>>
    BY <2>1
  <2>6. Counted' = Counted
    <3>1. \A c, h, k \in Nat : (c + h) + k = c + (h + k)
      OBVIOUS
    <3>2. credit' + Known' = credit + Known
      BY <1>2, <2>2, <2>3, <2>5, <3>1
    <3> QED
      BY <2>5, <3>2 DEF Counted
  <2>7. Len(rest') <= credit'
    BY <1>2, <1>5, <2>2, <2>5
  <2> QED
    BY <1>5, <2>4, <2>5, <2>6, <2>7 DEF Balanced
<1>10. CASE AlsaThreaded!ReadPause \/ AlsaThreaded!ReadEnd
  <2>1. /\ notes # <<>> /\ Head(notes) \in {PauseNote, EndNote} /\ notes' = Tail(notes)
        /\ UNCHANGED <<pc, ring, rest, credit>> /\ told \subseteq told'
    BY <1>1, <1>10 DEF AlsaThreaded!ReadPause, AlsaThreaded!ReadEnd
  <2>2. Known' \in Nat /\ Known = Worth(Head(notes)) + Known'
    BY <1>1, <2>1, KnownPackets
  <2>3. Worth(Head(notes)) = 0
    BY <1>1, <2>1
  <2>4. Known' = Known
    BY <2>2, <2>3
  <2>5. Held' = Held
    BY <2>1 DEF Held
  <2>6. Counted' = Counted
    BY <2>1, <2>4 DEF Counted
  <2> QED
    BY <1>5, <2>1, <2>5, <2>6 DEF Balanced
<1>11. /\ Len(AlsaThreaded!ToPlay) \in Nat /\ Len(AlsaThreaded!Popped) \in Nat
       /\ Len(AlsaThreaded!ToPlay) + Len(AlsaThreaded!Popped) = Held
       /\ Len(AlsaThreaded!ToPlay) <= credit
       /\ rest # <<>> => AlsaThreaded!Popped = ring
       /\ rest = <<>> => Len(rest) = 0
  <2> DEFINE a == AlsaThreaded!ToPlay
             b == AlsaThreaded!Popped
             n == AlsaThreaded!Available
  <2>1. /\ Len(a) \in Nat /\ b \in Seq(1..Total)
        /\ Len(a) + Len(b) = Len(rest) + Len(ring)
        /\ rest # <<>> => a = rest /\ b = ring
        /\ rest = <<>> => Len(a) = n /\ n <= credit
    BY <1>1, ThreadedQueue
  <2> HIDE DEF a, b, n
  <2>2. Len(b) \in Nat
    BY <2>1, LenProperties
  <2>3. Len(a) <= credit
    BY <1>5, <2>1
  <2> QED
    BY <1>1, <2>1, <2>2, <2>3, EmptySeq DEF Held, a, b
<1>12. CASE AlsaThreaded!Write
  <2>1. PICK n \in 0..Len(AlsaThreaded!ToPlay) :
          /\ Play(SubSeq(AlsaThreaded!ToPlay, 1, n))
          /\ rest' = SubSeq(AlsaThreaded!ToPlay, n + 1, Len(AlsaThreaded!ToPlay))
          /\ credit' = credit - Min({credit, n})
    BY <1>12 DEF AlsaThreaded!Write, AlsaThreaded!Remainder, AlsaThreaded!Min, Min,
       AlsaThreaded!Play, Play, AlsaThreaded!Max, Max
  <2>2. UNCHANGED <<pc, told, notes, inbox, made, chunk>> /\ ring' = AlsaThreaded!Popped
    BY <1>12 DEF AlsaThreaded!Write
  <2>3. Len(rest') = Len(AlsaThreaded!ToPlay) - n
    BY <1>1, <2>1, <2>2, ThreadedSlides
  <2>4. n \in Nat /\ n <= credit
    BY <1>1, <1>11
  <2>5. credit' = credit - n
    <3> DEFINE m == Min({credit, n})
    <3>1. m \in {credit, n} /\ m <= credit /\ m <= n
      BY <1>1, <2>4, MinOfTwo
    <3>2. credit' = credit - m
      BY <2>1
    <3> HIDE DEF m
    <3> QED
      BY <1>1, <2>4, <3>1, <3>2
  <2>6. Known' = Known
    BY <1>1, <2>2, KnownPackets
  <2>7. Held' = Held - n /\ Held \in Nat
    BY <1>1, <1>11, <2>2, <2>3, <2>4 DEF Held
  <2>8. Counted' = Counted - n /\ Counted \in Nat
    BY <1>1, <1>2, <2>2, <2>4, <2>5, <2>6 DEF Counted
  <2>9. Len(rest') <= credit'
    BY <1>1, <1>11, <2>3, <2>4, <2>5
  <2> QED
    BY <1>5, <2>2, <2>4, <2>7, <2>8, <2>9 DEF Balanced
<1>13. CASE AlsaThreaded!WriteStalls
  <2>1. UNCHANGED <<pc, told, notes, credit>>
        /\ rest' = AlsaThreaded!ToPlay /\ ring' = AlsaThreaded!Popped
    BY <1>13 DEF AlsaThreaded!WriteStalls
  <2>2. Known' = Known
    BY <1>1, <2>1, KnownPackets
  <2>3. Held' = Held
    BY <1>11, <2>1 DEF Held
  <2>4. Counted' = Counted
    BY <2>1, <2>2 DEF Counted
  <2> QED
    BY <1>5, <1>11, <2>1, <2>3, <2>4 DEF Balanced
<1>14. CASE AlsaThreaded!WriteFails
  <2>1. UNCHANGED <<pc, notes, credit, rest>> /\ ring' = AlsaThreaded!Popped /\ "Error" \in told'
    BY <1>14 DEF AlsaThreaded!WriteFails
  <2>2. Known' = Known
    BY <1>1, <2>1, KnownPackets
  <2>3. Held' <= Held /\ Held' \in Nat /\ Held \in Nat
    <3>1. Held' = Len(AlsaThreaded!Popped) + Len(rest)
      BY <2>1 DEF Held
    <3>2. CASE rest = <<>>
      BY <1>1, <1>11, <3>1, <3>2
    <3>3. CASE rest # <<>>
      BY <1>1, <1>11, <3>1, <3>3 DEF Held
    <3> QED
      BY <3>2, <3>3
  <2>4. Counted' = Counted /\ Counted \in Nat
    BY <1>1, <1>2, <2>1, <2>2 DEF Counted
  <2> QED
    BY <1>5, <2>1, <2>3, <2>4 DEF Balanced
<1>15. CASE \/ AlsaThreaded!PushChunk /\ ~Room
            \/ AlsaThreaded!Open \/ AlsaThreaded!Begin \/ AlsaThreaded!ReceiveAudio("loop")
            \/ AlsaThreaded!TakePause \/ AlsaThreaded!ReceiveEnd \/ AlsaThreaded!ChannelLost
            \/ AlsaThreaded!Join \/ AlsaThreaded!InnerEnds \/ AlsaThreaded!InnerPanics
  <2>0. AlsaThreaded!Room <=> Room
    BY DEF Room, AlsaThreaded!Room
  <2>1. UNCHANGED <<ring, rest, credit, notes>> /\ told \subseteq told'
        /\ (pc' = "note" <=> pc = "note")
    BY <1>15, <2>0
       DEF AlsaThreaded!PushChunk, AlsaThreaded!Open, AlsaThreaded!Begin, AlsaThreaded!OpenFails,
       AlsaThreaded!OpenSucceeds, AlsaThreaded!Started, AlsaThreaded!ReceiveAudio,
       AlsaThreaded!TakePause, AlsaThreaded!ReceiveEnd, AlsaThreaded!ChannelLost,
       AlsaThreaded!EndReceived, AlsaThreaded!Receive, AlsaThreaded!Closed,
       AlsaThreaded!StartInner, AlsaThreaded!Join, AlsaThreaded!InnerEnds,
       AlsaThreaded!InnerPanics
  <2> QED
    BY <1>1, <1>4, <2>1, BalanceKept
<1> QED
  BY <1>6, <1>7, <1>8, <1>9, <1>10, <1>12, <1>13, <1>14, <1>15
     DEF AlsaThreaded!Step, AlsaThreaded!InnerStep

\* The environment does not touch the ring or the notes.
LEMMA NextAccount ==
  ASSUME StepTypes, ThreadTypes', SoundTypes', UNCHANGED backend, ControlInv, AccountInv,
         Next \/ UNCHANGED vars
  PROVE  AccountInv'
<1>1. CASE Environment \/ UNCHANGED vars
  <2>1. /\ UNCHANGED <<backend, inner, told, notes, ring, rest, credit>>
        /\ pc' = pc \/ (pc = "barrier" /\ pc' = "start") \/ pc' = "done"
        /\ pc' = "note" <=> pc = "note"
    BY <1>1
       DEF Environment, vars, SendAudio, SendPause, SendEnd, SendMessage, ProcessingPanics,
       SupervisorLeaves, PassBarrier, Waiting, driver, source, reports, buffer, writer, heard
  <2>2. CASE backend \in {"coreaudio", "wasapi"}
    <3>1. notes \in Seq(0..EndNote) /\ notes \in Seq(Nat) /\ ToldOf
      BY <2>2, AccountTypes DEF AccountInv
    <3>2. Known' = Known /\ PlainNotes'
      BY <2>1, <3>1, KnownPackets, PlainKept DEF ToldOf
    <3> QED
      BY <2>1, <2>2, <3>1, <3>2 DEF ToldOf, AccountInv
  <2>3. CASE backend = "alsaThreaded"
    <3>1. notes \in Seq(0..EndNote)
      BY <2>3, AccountTypes
    <3> QED
      BY <2>1, <2>3, <3>1, BalanceKept DEF AccountInv
  <2> QED
    BY <2>1, <2>2, <2>3 DEF AccountInv
<1>2. CASE Thread \/ Inner \/ Device
  <2>1. CASE backend = "coreaudio"
    <3>1. ToldOf'
      BY <1>2, <2>1, CoreAudioAccount DEF AccountInv, Thread, Inner, Device
    <3> QED
      BY <2>1, <3>1 DEF AccountInv
  <2>2. CASE backend = "wasapi"
    <3>1. ToldOf'
      BY <1>2, <2>2, WasapiAccount DEF AccountInv, Thread, Inner, Device
    <3> QED
      BY <2>2, <3>1 DEF AccountInv
  <2>3. CASE backend = "alsaThreaded"
    <3>1. inner' # "panicked" => Balanced'
      BY <1>2, <2>3, ThreadedAccount DEF AccountInv, ControlInv, Thread, Inner, Device
    <3> QED
      BY <2>3, <3>1 DEF AccountInv
  <2>4. CASE backend \notin {"coreaudio", "wasapi", "alsaThreaded"}
    BY <2>4 DEF AccountInv
  <2> QED
    BY <2>1, <2>2, <2>3, <2>4
<1> QED
  BY <1>1, <1>2 DEF Next

\* It is what Accounting says.
LEMMA AccountIsAccounting ==
  ASSUME StepTypes, AccountInv
  PROVE  Accounting
<1>1. CASE backend \in {"coreaudio", "wasapi"}
  <2>1. notes \in Seq(0..EndNote) /\ credit \in Nat /\ ToldOf /\ Len(ring) \in Nat
    BY <1>1, AccountTypes DEF AccountInv
  <2>2. Known \in Nat
    BY <2>1, KnownPackets
  <2>3. Len(rest) = 0
    BY <1>1, EmptySeq DEF StepTypes, BufferInv
  <2>4. credit + Known + 0 = Len(ring) /\ Len(ring) + Len(rest) = Len(ring)
    BY <2>1, <2>2, <2>3 DEF ToldOf
  <2> QED
    BY <1>1, <2>1, <2>4 DEF Accounting, Known
<1>2. CASE backend = "alsaThreaded"
  BY <1>2 DEF AccountInv, Balanced, Held, Counted, Known, Accounting
<1> QED
  BY <1>1, <1>2 DEF Accounting

-----------------------------------------------------------------------------
\* ------------------------- What the end leaves behind ---------------------

\* The end is the last note.
EndIsLast == \A i \in 1..Len(notes) : notes[i] = EndNote => i = Len(notes)

\* The inner thread of WASAPI ends when it has read the end, or because of the device.
WasapiDone ==
  /\ inner \in {"none", "running", "blocked", "over"}
  /\ inner = "none" => pc \in {"open", "failed", "done"}
  /\ inner = "blocked" => event # "none"
  /\ inner = "over" => event # "none" \/ (ring = <<>> /\ pc \in {"join", "done"})
  /\ pc \in {"end", "join"} => credit = 0 \/ event # "none"
  /\ HasEnd(notes) => pc \in {"join", "done"}
  /\ EndIsLast
  /\ pc = "done" => inner = "over" \/ (inner = "none" /\ told = {"Error"})

\* The inner thread of ALSA ends when it has read the end and written what there is.
ThreadedDone ==
  /\ inner = "over" =>
       /\ pc \in {"join", "done"} /\ notes = <<>> /\ rest = <<>>
       /\ "Error" \notin told => ring = <<>>
  /\ inner = "ending" => notes = <<>> /\ pc = "join"
  /\ HasEnd(notes) => inner = "panicked" \/ pc = "join"
  /\ EndIsLast

DoneInv ==
  /\ backend = "wasapi" => WasapiDone
  /\ backend = "alsaThreaded" => ThreadedDone

LEMMA EndStaysLast ==
  ASSUME notes \in Seq(Nat), EndIsLast
  PROVE  /\ UNCHANGED notes => EndIsLast' /\ (HasEnd(notes)' => HasEnd(notes))
         /\ notes # <<>> /\ notes' = Tail(notes) =>
              /\ EndIsLast' /\ (HasEnd(notes)' => HasEnd(notes))
              /\ Head(notes) = EndNote => notes' = <<>> /\ HasEnd(notes)
         /\ \A n \in Nat : notes' = Append(notes, n) /\ ~HasEnd(notes) =>
              EndIsLast' /\ (HasEnd(notes)' => n = EndNote)
         /\ notes' = <<>> => EndIsLast' /\ ~HasEnd(notes)'
<1> USE DEF EndIsLast, HasEnd, EndNote
<1>1. UNCHANGED notes => EndIsLast' /\ (HasEnd(notes)' => HasEnd(notes))
  OBVIOUS
<1>2. ASSUME notes # <<>>, notes' = Tail(notes)
      PROVE  /\ EndIsLast' /\ (HasEnd(notes)' => HasEnd(notes))
             /\ Head(notes) = EndNote => notes' = <<>> /\ HasEnd(notes)
  <2>1. /\ \A i \in 1..Len(notes') : i + 1 \in 1..Len(notes) /\ notes'[i] = notes[i + 1]
        /\ Len(notes') = Len(notes) - 1 /\ Len(notes) \in Nat \ {0} /\ notes' \in Seq(Nat)
        /\ 1 \in 1..Len(notes) /\ Head(notes) = notes[1]
    BY <1>2, NoteQueues
  <2>2. EndIsLast' /\ (HasEnd(notes)' => HasEnd(notes))
    <3>1. HasEnd(notes)' => HasEnd(notes)
      BY <2>1
    <3>2. ASSUME NEW i \in 1..Len(notes'), notes'[i] = EndNote PROVE i = Len(notes')
      <4>1. i + 1 \in 1..Len(notes) /\ notes[i + 1] = EndNote
        BY <2>1, <3>2
      <4>2. i + 1 = Len(notes)
        BY <4>1
      <4> QED
        BY <2>1, <4>2
    <3> QED
      BY <3>1, <3>2
  <2>3. Head(notes) = EndNote => Len(notes') = 0 /\ HasEnd(notes)
    BY <2>1
  <2> QED
    BY <2>1, <2>2, <2>3, EmptySeq
<1>3. ASSUME NEW n \in Nat, notes' = Append(notes, n), ~HasEnd(notes)
      PROVE  EndIsLast' /\ (HasEnd(notes)' => n = EndNote)
  <2>1. /\ Len(notes') = Len(notes) + 1 /\ Len(notes) \in Nat
        /\ \A i \in 1..Len(notes') : \/ i = Len(notes) + 1 /\ notes'[i] = n
                                     \/ i \in 1..Len(notes) /\ notes'[i] = notes[i]
    BY <1>3, NoteQueues
  <2> QED
    BY <1>3, <2>1
<1>4. notes' = <<>> => EndIsLast' /\ ~HasEnd(notes)'
  OBVIOUS
<1> QED
  BY <1>1, <1>2, <1>3, <1>4

LEMMA WasapiEnds ==
  ASSUME StepTypes, backend = "wasapi", ControlInv, ToldOf, WasapiDone,
         Wasapi!Step \/ Wasapi!InnerStep \/ Wasapi!InnerFails
  PROVE  WasapiDone'
<1> USE DEF Wasapi!driver, Wasapi!source, Wasapi!reports, Wasapi!buffer, Wasapi!writer,
        Wasapi!heard, Wasapi!Go, Wasapi!InnerFailed
<1>1. /\ notes \in Seq(0..EndNote) /\ notes \in Seq(Nat) /\ credit \in Nat
      /\ credit <= RingCapacity /\ RingCapacity \in Nat /\ ring \in Seq(1..Total)
      /\ Len(ring) \in Nat /\ Worth(EndNote) = 0
      /\ Wasapi!EndNote = EndNote /\ EndNote \in Nat /\ credit # EndNote
      /\ event \in {"none", "rate", "gone"}
  <2>1. /\ notes \in Seq(0..EndNote) /\ notes \in Seq(Nat) /\ credit \in Nat
        /\ credit <= RingCapacity /\ RingCapacity \in Nat /\ ring \in Seq(1..Total)
        /\ Len(ring) \in Nat /\ Worth(EndNote) = 0 /\ event \in {"none", "rate", "gone"}
    BY AccountTypes DEF StepTypes, ThreadTypes, SoundTypes
  <2> QED
    BY <2>1 DEF EndNote, Wasapi!EndNote
<1>2. EndIsLast /\ (pc = "open" => inner = "none" /\ told = {})
  BY DEF WasapiDone, ControlInv
<1>3. /\ pc \notin {"note", "end", "join", "done"} => credit = 0
      /\ Len(ring) = credit + Known
  BY DEF ToldOf
<1>4. UNCHANGED notes => EndIsLast' /\ (HasEnd(notes)' => HasEnd(notes))
  BY <1>1, <1>2, EndStaysLast
<1>5. CASE Wasapi!Open \/ Wasapi!Begin \/ Wasapi!InnerHasFailed \/ Wasapi!InnerRuns
  BY <1>2, <1>3, <1>4, <1>5
     DEF WasapiDone, Wasapi!Open, Wasapi!OpenFails, Wasapi!OpenSucceeds, Wasapi!Begin,
     Wasapi!Started, Wasapi!InnerHasFailed, Wasapi!InnerRuns, Wasapi!Look
<1>6. CASE Wasapi!ReceiveAudio("wait") \/ Wasapi!IgnorePause("wait") \/ Wasapi!PushChunk
  BY <1>3, <1>4, <1>6
     DEF WasapiDone, Wasapi!ReceiveAudio, Wasapi!IgnorePause, Wasapi!Receive, Wasapi!PushChunk
<1>7. CASE Wasapi!Tell
  <2>1. CASE Wasapi!InnerFailed
    BY <1>4, <1>7, <2>1 DEF WasapiDone, Wasapi!Tell
  <2>2. CASE ~Wasapi!InnerFailed
    <3>1. ~HasEnd(notes) /\ notes' = Append(notes, credit)
      BY <1>7, <2>2 DEF WasapiDone, Wasapi!Tell
    <3>2. EndIsLast' /\ ~HasEnd(notes)'
      BY <1>1, <1>2, <3>1, EndStaysLast
    <3> QED
      BY <1>7, <2>2, <3>2 DEF WasapiDone, Wasapi!Tell
  <2> QED
    BY <2>1, <2>2
<1>8. CASE Wasapi!ReceiveEnd \/ Wasapi!ChannelLost \/ Wasapi!Join
  BY <1>3, <1>4, <1>8
     DEF WasapiDone, Wasapi!ReceiveEnd, Wasapi!ChannelLost, Wasapi!Join, Wasapi!EndReceived,
     Wasapi!Receive, Wasapi!Closed, Wasapi!Finish
<1>9. CASE Wasapi!End
  <2>1. CASE Wasapi!InnerFailed
    BY <1>4, <1>9, <2>1 DEF WasapiDone, Wasapi!End
  <2>2. CASE ~Wasapi!InnerFailed
    <3>1. ~HasEnd(notes) /\ notes' = Append(notes, EndNote)
      BY <1>1, <1>9, <2>2 DEF WasapiDone, Wasapi!End
    <3>2. EndIsLast'
      BY <1>1, <1>2, <3>1, EndStaysLast
    <3> QED
      BY <1>9, <2>2, <3>2 DEF WasapiDone, Wasapi!End
  <2> QED
    BY <2>1, <2>2
<1>10. CASE Wasapi!Feed
  <2>1. notes # <<>> /\ notes' = Tail(notes)
    BY <1>10 DEF Wasapi!Feed
  <2>2. EndIsLast' /\ (HasEnd(notes)' => HasEnd(notes))
    BY <1>1, <1>2, <2>1, EndStaysLast
  <2> QED
    BY <1>10, <2>2 DEF WasapiDone, Wasapi!Feed
<1>11. CASE Wasapi!InnerStops
  <2>1. notes # <<>> /\ Head(notes) = EndNote /\ notes' = Tail(notes) /\ inner = "running"
        /\ UNCHANGED <<pc, event, ring, credit, told>> /\ inner' = "over"
    BY <1>1, <1>11 DEF Wasapi!InnerStops
  <2>2. EndIsLast' /\ notes' = <<>> /\ HasEnd(notes)
    BY <1>1, <1>2, <2>1, EndStaysLast
  <2>3. pc = "join"
    BY <2>1, <2>2 DEF WasapiDone
  <2>4. Known = Worth(Head(notes)) + Known' /\ Known' \in Nat
    BY <1>1, <2>1, KnownPackets
  <2>5. Known' = 0
    <3>1. Known' = Cardinality(Announced(notes'))
      BY DEF Known, Announced
    <3> QED
      BY <2>2, <3>1, NothingAnnounced
  <2>6. Known = 0
    BY <1>1, <2>1, <2>4, <2>5
  <2>7. credit = 0 => ring = <<>>
    BY <1>1, <1>3, <2>6, EmptySeq
  <2>8. ~HasEnd(notes)'
    BY <1>1, <1>2, <2>2, EndStaysLast
  <2> QED
    BY <2>1, <2>2, <2>3, <2>7, <2>8 DEF WasapiDone
<1>12. CASE Wasapi!InnerFails
  BY <1>4, <1>12 DEF WasapiDone, Wasapi!InnerFails, Working
<1> QED
  BY <1>5, <1>6, <1>7, <1>8, <1>9, <1>10, <1>11, <1>12 DEF Wasapi!Step, Wasapi!InnerStep

\* With nothing to play left, all that is known of has been written, unless an error has
\* lost some of it.
LEMMA NothingLeft ==
  ASSUME StepTypes, backend = "alsaThreaded", Balanced, ~AlsaThreaded!HaveData,
         Known = 0, pc # "note"
  PROVE  rest = <<>> /\ ("Error" \notin told => ring = <<>>)
<1>1. /\ SoundTypes /\ credit \in Nat /\ Len(ring) \in Nat /\ Len(rest) \in Nat
      /\ ring \in Seq(1..Total)
  BY AccountTypes DEF StepTypes, SoundTypes
<1>2. rest = <<>> /\ ~(AlsaThreaded!Available > 0)
  BY DEF AlsaThreaded!HaveData
<1>3. credit = 0 \/ ring = <<>>
  <2> DEFINE n == AlsaThreaded!Available
  <2>1. n \in Nat /\ (n = 0 => credit = 0 \/ ring = <<>>)
    BY <1>1, ThreadedQueue
  <2> HIDE DEF n
  <2>2. ~(n > 0)
    BY <1>2 DEF n
  <2> QED
    BY <2>1, <2>2
<1>4. Len(rest) = 0
  BY <1>2, EmptySeq
<1>5. "Error" \notin told => Len(ring) = credit
  BY <1>1, <1>4 DEF Balanced, Held, Counted
<1> QED
  BY <1>1, <1>2, <1>3, <1>5, EmptySeq

LEMMA ThreadedEnds ==
  ASSUME StepTypes, backend = "alsaThreaded", ControlInv, AccountInv, ThreadedDone,
         AlsaThreaded!Step \/ AlsaThreaded!InnerStep \/ AlsaThreaded!InnerPanics
  PROVE  ThreadedDone'
<1> USE DEF AlsaThreaded!driver, AlsaThreaded!source, AlsaThreaded!reports, AlsaThreaded!buffer,
        AlsaThreaded!writer, AlsaThreaded!heard, AlsaThreaded!Go, AlsaThreaded!Report,
        AlsaThreaded!InnerOnly
<1>1. /\ notes \in Seq(0..EndNote) /\ notes \in Seq(Nat)
      /\ AlsaThreaded!PauseNote = PauseNote /\ AlsaThreaded!EndNote = EndNote
      /\ ChunkPackets \in Nat /\ PauseNote \in Nat /\ EndNote \in Nat
      /\ ChunkPackets # EndNote /\ PauseNote # EndNote /\ Worth(EndNote) = 0
  <2>1. notes \in Seq(0..EndNote) /\ notes \in Seq(Nat) /\ Worth(EndNote) = 0
    BY AccountTypes
  <2> QED
    BY <2>1, ChunkNumbers
       DEF EndNote, PauseNote, AlsaThreaded!PauseNote, AlsaThreaded!EndNote
<1>2. EndIsLast /\ (pc = "open" => inner = "none")
      /\ (inner \in {"running", "ending"} => pc \in Working)
  BY DEF ThreadedDone, ControlInv, ThreadedControl
<1>3. UNCHANGED notes => EndIsLast' /\ (HasEnd(notes)' => HasEnd(notes))
  BY <1>1, <1>2, EndStaysLast
<1>4. CASE AlsaThreaded!Open \/ AlsaThreaded!Begin
  BY <1>2, <1>3, <1>4
     DEF ThreadedDone, AlsaThreaded!Open, AlsaThreaded!Begin, AlsaThreaded!OpenFails,
     AlsaThreaded!OpenSucceeds, AlsaThreaded!Started
<1>5. CASE AlsaThreaded!ReceiveAudio("loop") \/ AlsaThreaded!TakePause \/ AlsaThreaded!PushChunk
  BY <1>3, <1>5
     DEF ThreadedDone, AlsaThreaded!ReceiveAudio, AlsaThreaded!TakePause, AlsaThreaded!Receive,
     AlsaThreaded!PushChunk
<1>6. CASE AlsaThreaded!Tell
  <2>1. CASE inner = "panicked"
    BY <1>3, <1>6, <2>1 DEF ThreadedDone, AlsaThreaded!Tell
  <2>2. CASE inner # "panicked"
    <3>1. ~HasEnd(notes) /\ notes' = Append(notes, ChunkPackets)
      BY <1>6, <2>2 DEF ThreadedDone, AlsaThreaded!Tell
    <3>2. EndIsLast' /\ ~HasEnd(notes)'
      BY <1>1, <1>2, <3>1, EndStaysLast
    <3>3. inner \notin {"over", "ending"} /\ inner' \in {inner, "running"}
      BY <1>6, <2>2 DEF ThreadedDone, AlsaThreaded!Tell, AlsaThreaded!StartInner
    <3> QED
      BY <3>2, <3>3 DEF ThreadedDone
  <2> QED
    BY <2>1, <2>2
<1>7. CASE AlsaThreaded!PassPause \/ AlsaThreaded!PassEnd
  <2>1. CASE inner = "panicked"
    BY <1>3, <1>7, <2>1
       DEF ThreadedDone, AlsaThreaded!PassPause, AlsaThreaded!PassEnd, AlsaThreaded!SendNote
  <2>2. CASE inner # "panicked"
    <3>1. /\ ~HasEnd(notes) /\ UNCHANGED inner /\ inner \notin {"over", "ending"}
          /\ \/ notes' = Append(notes, PauseNote)
             \/ notes' = Append(notes, EndNote) /\ pc' = "join"
      BY <1>1, <1>7, <2>2
         DEF ThreadedDone, AlsaThreaded!PassPause, AlsaThreaded!PassEnd, AlsaThreaded!SendNote
    <3>2. EndIsLast' /\ (HasEnd(notes)' => pc' = "join")
      <4>1. CASE notes' = Append(notes, PauseNote)
        BY <1>1, <1>2, <3>1, <4>1, EndStaysLast
      <4>2. CASE notes' = Append(notes, EndNote) /\ pc' = "join"
        BY <1>1, <1>2, <3>1, <4>2, EndStaysLast
      <4> QED
        BY <3>1, <4>1, <4>2
    <3> QED
      BY <3>1, <3>2 DEF ThreadedDone
  <2> QED
    BY <2>1, <2>2
<1>8. CASE AlsaThreaded!ReceiveEnd \/ AlsaThreaded!ChannelLost
  BY <1>3, <1>8
     DEF ThreadedDone, AlsaThreaded!ReceiveEnd, AlsaThreaded!ChannelLost,
     AlsaThreaded!EndReceived, AlsaThreaded!Receive, AlsaThreaded!Closed,
     AlsaThreaded!StartInner
<1>9. CASE AlsaThreaded!Join
  <2>1. HasEnd(notes) => inner = "panicked"
    <3>1. notes = <<>> => ~HasEnd(notes)
      BY DEF HasEnd
    <3> QED
      BY <1>9, <3>1 DEF ThreadedDone, AlsaThreaded!Join
  <2> QED
    BY <1>3, <1>9, <2>1 DEF ThreadedDone, AlsaThreaded!Join
<1>10. CASE AlsaThreaded!ReadData \/ AlsaThreaded!ReadPause
  <2>1. notes # <<>> /\ notes' = Tail(notes) /\ inner = "running" /\ UNCHANGED <<inner, pc>>
    BY <1>10 DEF AlsaThreaded!ReadData, AlsaThreaded!ReadPause
  <2>2. EndIsLast' /\ (HasEnd(notes)' => HasEnd(notes))
    BY <1>1, <1>2, <2>1, EndStaysLast
  <2> QED
    BY <2>1, <2>2 DEF ThreadedDone
<1>11. CASE AlsaThreaded!ReadEnd
  <2>1. notes # <<>> /\ Head(notes) = EndNote /\ notes' = Tail(notes) /\ inner = "running"
        /\ UNCHANGED <<pc, ring, rest>>
    BY <1>1, <1>11 DEF AlsaThreaded!ReadEnd
  <2>2. EndIsLast' /\ notes' = <<>> /\ HasEnd(notes)
    BY <1>1, <1>2, <2>1, EndStaysLast
  <2>3. pc = "join" /\ ~HasEnd(notes)'
    <3>1. ~HasEnd(notes)'
      BY <1>1, <1>2, <2>2, EndStaysLast
    <3> QED
      BY <2>1, <2>2, <3>1 DEF ThreadedDone
  <2>4. CASE AlsaThreaded!HaveData
    BY <1>11, <2>1, <2>2, <2>3, <2>4 DEF AlsaThreaded!ReadEnd, ThreadedDone
  <2>5. CASE ~AlsaThreaded!HaveData
    <3>1. Known = 0
      <4>1. Known = Worth(Head(notes)) + Known' /\ Known' \in Nat
        BY <1>1, <2>1, KnownPackets
      <4>2. Known' = Cardinality(Announced(notes'))
        BY DEF Known, Announced
      <4>3. Known' = 0
        BY <2>2, <4>2, NothingAnnounced
      <4> QED
        BY <1>1, <2>1, <4>1, <4>3
    <3>2. Balanced
      BY <2>1 DEF AccountInv
    <3>3. rest = <<>> /\ ("Error" \notin told => ring = <<>>)
      BY <2>3, <2>5, <3>1, <3>2, NothingLeft
    <3>4. inner' = "over" /\ told' = told \cup {"Done"}
      BY <1>11, <2>5 DEF AlsaThreaded!ReadEnd
    <3> QED
      BY <2>1, <2>2, <2>3, <3>3, <3>4 DEF ThreadedDone
  <2> QED
    BY <2>4, <2>5
<1>12. CASE AlsaThreaded!Write \/ AlsaThreaded!WriteStalls \/ AlsaThreaded!WriteFails
  <2>1. inner \in {"running", "ending"} /\ UNCHANGED <<inner, pc, notes>>
    BY <1>12
       DEF AlsaThreaded!Write, AlsaThreaded!WriteStalls, AlsaThreaded!WriteFails,
       AlsaThreaded!Running
  <2> QED
    BY <1>3, <2>1 DEF ThreadedDone
<1>13. CASE AlsaThreaded!InnerEnds
  <2>1. inner = "ending" /\ ~AlsaThreaded!HaveData /\ inner' = "over"
        /\ told' = told \cup {"Done"} /\ UNCHANGED <<pc, ring, rest, notes>>
    BY <1>13 DEF AlsaThreaded!InnerEnds
  <2>2. notes = <<>> /\ pc = "join"
    BY <2>1 DEF ThreadedDone
  <2>3. Known = 0 /\ Balanced
    BY <1>1, <2>1, <2>2, KnownPackets DEF AccountInv
  <2>4. rest = <<>> /\ ("Error" \notin told => ring = <<>>)
    BY <2>1, <2>2, <2>3, NothingLeft
  <2> QED
    BY <1>3, <2>1, <2>2, <2>4 DEF ThreadedDone
<1>14. CASE AlsaThreaded!InnerPanics
  BY <1>3, <1>14 DEF ThreadedDone, AlsaThreaded!InnerPanics
<1> QED
  BY <1>4, <1>5, <1>6, <1>7, <1>8, <1>9, <1>10, <1>11, <1>12, <1>13, <1>14
     DEF AlsaThreaded!Step, AlsaThreaded!InnerStep

LEMMA NextDone ==
  ASSUME StepTypes, UNCHANGED backend, ControlInv, AccountInv, DoneInv, Next \/ UNCHANGED vars
  PROVE  DoneInv'
<1>1. CASE Environment \/ UNCHANGED vars
  <2>1. /\ UNCHANGED <<inner, event, told, ring, notes, rest, credit>>
        /\ \/ UNCHANGED pc
           \/ pc = "barrier" /\ pc' = "start"
           \/ pc = "failed" /\ pc' = "done"
    BY <1>1
       DEF Environment, vars, SendAudio, SendPause, SendEnd, SendMessage, ProcessingPanics,
       SupervisorLeaves, PassBarrier, Waiting, driver, source, reports, buffer, writer, heard
  <2>2. backend \in {"wasapi", "alsaThreaded"} => notes \in Seq(Nat) /\ EndIsLast
    BY AccountTypes DEF DoneInv, WasapiDone, ThreadedDone
  <2>3. backend \in {"wasapi", "alsaThreaded"} => EndIsLast' /\ (HasEnd(notes)' => HasEnd(notes))
    BY <2>1, <2>2, EndStaysLast
  <2>4. CASE backend = "wasapi"
    <3>1. WasapiDone'
      BY <2>1, <2>3, <2>4 DEF DoneInv, WasapiDone, ControlInv
    <3> QED
      BY <2>4, <3>1 DEF DoneInv
  <2>5. CASE backend = "alsaThreaded"
    <3>1. ThreadedDone'
      BY <2>1, <2>3, <2>5 DEF DoneInv, ThreadedDone
    <3> QED
      BY <2>5, <3>1 DEF DoneInv
  <2> QED
    BY <2>4, <2>5 DEF DoneInv
<1>2. CASE Thread \/ Inner \/ Device
  <2>1. CASE backend = "wasapi"
    <3>1. WasapiDone'
      BY <1>2, <2>1, WasapiEnds DEF DoneInv, AccountInv, Thread, Inner, Device
    <3> QED
      BY <2>1, <3>1 DEF DoneInv
  <2>2. CASE backend = "alsaThreaded"
    <3>1. ThreadedDone'
      BY <1>2, <2>2, ThreadedEnds DEF DoneInv, Thread, Inner, Device
    <3> QED
      BY <2>2, <3>1 DEF DoneInv
  <2> QED
    BY <2>1, <2>2 DEF DoneInv
<1> QED
  BY <1>1, <1>2 DEF Next

-----------------------------------------------------------------------------
\* --------------------------- The inductive invariant ----------------------

PlaybackInv == OrderInv /\ AccountInv /\ DoneInv

LEMMA InitPlayback == Init => PlaybackInv
<1> SUFFICES ASSUME Init PROVE PlaybackInv
  OBVIOUS
<1>1. /\ pc = "open" /\ inner = "none" /\ event = "none" /\ told = {}
      /\ ring = <<>> /\ notes = <<>> /\ credit = 0 /\ rest = <<>>
  BY DEF Init
<1>2. Known = 0
  BY <1>1, NothingAnnounced DEF Known
<1>3. Len(ring) = 0 /\ Len(rest) = 0 /\ Len(notes) = 0
  BY <1>1, EmptySeq
<1>4. AccountInv
  BY <1>1, <1>2, <1>3 DEF AccountInv, ToldOf, PlainNotes, Balanced, Held, Counted
<1>5. DoneInv
  BY <1>1, <1>3 DEF DoneInv, WasapiDone, ThreadedDone, EndIsLast, HasEnd
<1> QED
  BY <1>4, <1>5, InitOrder DEF PlaybackInv

LEMMA NextPlayback == PlaybackInv /\ [Next]_vars => PlaybackInv'
<1> SUFFICES ASSUME PlaybackInv, [Next]_vars PROVE PlaybackInv'
  OBVIOUS
<1>1. OrderInv' /\ UNCHANGED backend
  BY NextOrder DEF PlaybackInv
<1>2. StepTypes /\ ControlInv /\ AccountInv /\ DoneInv /\ ThreadTypes' /\ SoundTypes'
  BY <1>1 DEF PlaybackInv, OrderInv, StepTypes
<1>3. Next \/ UNCHANGED vars
  OBVIOUS
<1>4. AccountInv'
  BY <1>1, <1>2, <1>3, NextAccount
<1>5. DoneInv'
  BY <1>1, <1>2, <1>3, NextDone
<1> QED
  BY <1>1, <1>4, <1>5 DEF PlaybackInv

LEMMA PlaybackInvariant == Spec => []PlaybackInv
  BY InitPlayback, NextPlayback, PTL DEF Spec

\* What the callback or inner thread has been told of is what the ring buffer holds, with
\* CoreAudio, WASAPI and threaded ALSA: no sound stays in the ring for want of a note, and
\* none is taken that is not there; an error of threaded ALSA can only lose packets that
\* stay counted.
THEOREM RingIsAccounted == Spec => []Accounting
<1>1. PlaybackInv => Accounting
  BY AccountIsAccounting DEF PlaybackInv, OrderInv
<1> QED
  BY <1>1, PlaybackInvariant, PTL

\* A thread that ends after Done, without an error and with its device in order, has
\* handed over all that it had buffered, where the backend does not stop its callback.
THEOREM DoneIsPlayed == Spec => []DoneMeansTaken
<1>1. ASSUME PlaybackInv PROVE DoneMeansTaken
  <2>1. StepTypes /\ ThreadTypes /\ BufferInv /\ ControlInv /\ DoneInv
    BY <1>1 DEF PlaybackInv, OrderInv, StepTypes
  <2> SUFFICES ASSUME pc = "done", told = {"Ready", "Done"}, event = "none"
               PROVE  \/ ring = <<>> /\ rest = <<>>
                      \/ backend \in {"cpal", "pipewire", "asio", "coreaudio"}
    BY DEF DoneMeansTaken
  <2>2. CASE backend \in {"pulse", "alsa"}
    BY <2>1, <2>2 DEF BufferInv
  <2>3. CASE backend = "wasapi"
    BY <2>1, <2>3 DEF BufferInv, DoneInv, WasapiDone
  <2>4. CASE backend = "alsaThreaded"
    BY <2>1, <2>4 DEF ControlInv, ThreadedControl, DoneInv, ThreadedDone
  <2> QED
    BY <2>1, <2>2, <2>3, <2>4, PlaybackAssumption DEF ThreadTypes, AllBackends
<1> QED
  BY <1>1, PlaybackInvariant, PTL
=============================================================================
