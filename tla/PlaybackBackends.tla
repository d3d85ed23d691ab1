---------------------------- MODULE PlaybackBackends ----------------------------
(***************************************************************************)
(* The playback threads of all device backends against the same processing *)
(* thread and the same supervisor: what holds for each of them, and where  *)
(* they do not do what the others do.                                      *)
(***************************************************************************)
EXTENDS PlaybackState

Cpal         == INSTANCE PlaybackCpal
Pulse        == INSTANCE PlaybackPulse
CoreAudio    == INSTANCE PlaybackCoreAudio
PipeWire     == INSTANCE PlaybackPipeWire
Asio         == INSTANCE PlaybackAsio
Wasapi       == INSTANCE PlaybackWasapi
Alsa         == INSTANCE PlaybackAlsa
AlsaThreaded == INSTANCE PlaybackAlsaThreaded

\* A step of the playback thread, the outer one if there are two.
Thread ==
  \/ backend = "cpal"         /\ Cpal!Step
  \/ backend = "pulse"        /\ Pulse!Step
  \/ backend = "coreaudio"    /\ CoreAudio!Step
  \/ backend = "pipewire"     /\ PipeWire!Step
  \/ backend = "asio"         /\ Asio!Step
  \/ backend = "wasapi"       /\ Wasapi!Step
  \/ backend = "alsa"         /\ Alsa!Step
  \/ backend = "alsaThreaded" /\ AlsaThreaded!Step

\* A step of the inner thread of a backend that has one.
Inner ==
  \/ backend = "wasapi"       /\ Wasapi!InnerStep
  \/ backend = "alsaThreaded" /\ AlsaThreaded!InnerStep

\* What the device and its callback do.
Device ==
  \/ backend = "cpal"         /\ Cpal!Callback
  \/ backend = "pulse"        /\ Pulse!Server
  \/ backend = "coreaudio"    /\ CoreAudio!InnerStep
  \/ backend = "pipewire"     /\ PipeWire!Callback
  \/ backend = "asio"         /\ Asio!InnerStep
  \/ backend = "wasapi"       /\ Wasapi!InnerFails
  \/ backend = "alsaThreaded" /\ AlsaThreaded!InnerPanics

Next == Environment \/ Thread \/ Inner \/ Device

\* The threads run.  A device owes nobody a callback.
Fairness == WF_vars(Thread) /\ WF_vars(Inner) /\ WF_vars(PassBarrier)

Spec     == Init /\ [][Next]_vars
FairSpec == Spec /\ Fairness

-----------------------------------------------------------------------------
\* Every backend keeps the contract of a playback thread: one report of how the
\* start went, messages taken in their order, Done only after the last of them, and
\* no silent end.
Phase == CASE pc = "open"    -> "opening"
           [] pc = "barrier" -> "ready"
           [] pc = "failed"  -> "failed"
           [] pc \in Working -> "streaming"
           [] OTHER          -> "over"
Promise  == INSTANCE PlaybackContract WITH phase <- Phase, lost <- inner = "panicked"
Contract == Promise!Spec

\* The device gets every packet at most once and in the order of the stream, also
\* across short writes, stalls, errors and dropped chunks.
PlaysInOrder == ~disorder

\* The packets that notes tells of, as pairs: the number of the note and a number
\* within it.
Announced(queue) ==
  {p \in (1..Len(queue)) \X (1..RingCapacity) :
     queue[p[1]] <= RingCapacity /\ p[2] <= queue[p[1]]}

\* What the other side has been told of is what the ring holds: telling it of less
\* leaves sound in the ring for ever, telling it of more plays what is not there.
\* With threaded ALSA an error loses packets that stay counted.
Accounting ==
  backend \in {"coreaudio", "wasapi", "alsaThreaded"} /\ inner # "panicked" =>
    LET known == credit + Cardinality(Announced(notes))
                 + (IF backend = "alsaThreaded" /\ pc = "note" THEN ChunkPackets ELSE 0)
        held  == Len(ring) + Len(rest)
    IN  /\ held <= known
        /\ "Error" \notin told => held = known

\* A stream that ends without an error has been handed to the device as a whole when
\* the thread ends, as far as it was not dropped for want of room and unless the device
\* fails after the report.  Backends with a callback stop it with whatever is left in
\* the ring.
DoneMeansTaken ==
  pc = "done" /\ told = {"Ready", "Done"} /\ event = "none" =>
    \/ ring = <<>> /\ rest = <<>>
    \/ backend \in {"cpal", "pipewire", "asio", "coreaudio"}

\* The end of the stream, or the loss of the processing thread, ends every thread of
\* the backend, whatever the device does.  The exceptions are the ways the code has
\* to hang: a callback that is not called any more, a join of an inner thread that
\* waits for the joining one, an inner thread that is never started, and data that
\* no device takes.
Hangs ==
  \/ backend = "cpal" /\ Cpal!Starved
  \/ backend = "coreaudio" /\ CoreAudio!Starved
  \/ backend = "wasapi" /\ Wasapi!JoinsForEver
  \/ backend = "alsaThreaded" /\ (AlsaThreaded!NeverStarted \/ AlsaThreaded!NeverTaken)
EndIsServed == pc \in Working /\ ~processing ~> pc \in Ended \/ []Hangs
=============================================================================
