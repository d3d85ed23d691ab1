----------------------------- MODULE CaptureBackends -----------------------------
(***************************************************************************)
(* The capture threads of all backends against the same supervisor and the *)
(* same processing thread: what holds for each of them, and where they do  *)
(* not do what the others do.                                              *)
(***************************************************************************)
EXTENDS CaptureState

Generator    == INSTANCE CaptureGenerator
Cpal         == INSTANCE CaptureCpal
Pulse        == INSTANCE CapturePulse
CoreAudio    == INSTANCE CaptureCoreAudio
PipeWire     == INSTANCE CapturePipeWire
Asio         == INSTANCE CaptureAsio
Wasapi       == INSTANCE CaptureWasapi
Alsa         == INSTANCE CaptureAlsa
AlsaThreaded == INSTANCE CaptureAlsaThreaded

\* A step of the capture thread, the outer one if there are two.
Thread ==
  \/ backend = "generator"    /\ Generator!Step
  \/ backend = "cpal"         /\ Cpal!Step
  \/ backend = "pulse"        /\ Pulse!Step
  \/ backend = "coreaudio"    /\ CoreAudio!Step
  \/ backend = "pipewire"     /\ PipeWire!Step
  \/ backend = "asio"         /\ Asio!Step
  \/ backend = "wasapi"       /\ Wasapi!Step
  \/ backend = "alsa"         /\ Alsa!Step
  \/ backend = "alsaThreaded" /\ AlsaThreaded!Step

\* A step of the device, its callback or the inner thread.
Device ==
  \/ backend = "cpal"         /\ Cpal!Callback
  \/ backend = "pulse"        /\ Pulse!InnerStep
  \/ backend = "coreaudio"    /\ CoreAudio!InnerStep
  \/ backend = "pipewire"     /\ PipeWire!Callback
  \/ backend = "asio"         /\ Asio!InnerStep
  \/ backend = "wasapi"       /\ Wasapi!InnerStep
  \/ backend = "alsa"         /\ Alsa!Callback
  \/ backend = "alsaThreaded" /\ AlsaThreaded!InnerStep

\* An inner thread that has been told to stop.
InnerStops == backend = "wasapi" /\ Wasapi!InnerStops

Next == Environment \/ Thread \/ Device \/ InnerStops

\* An inner thread that reads: it gets a packet, or its wait times out.
InnerReads ==
  \/ backend = "wasapi" /\ (Wasapi!Deliver \/ Wasapi!Timeout)
  \/ backend = "alsaThreaded" /\ (AlsaThreaded!Read \/ AlsaThreaded!ReadNothing)

\* The threads run, and the processing thread takes what it is sent.  A device owes
\* nobody a packet.
Fairness ==
  /\ WF_vars(Thread) /\ WF_vars(InnerReads) /\ WF_vars(InnerStops)
  /\ WF_vars(backend = "alsaThreaded" /\ inner = "asked" /\ AlsaThreaded!InnerEnds)
  /\ WF_vars(backend = "alsaThreaded" /\ AlsaThreaded!TellEnd)
  /\ WF_vars(PassBarrier) /\ WF_vars(Consume)

Spec     == Init /\ [][Next]_vars
FairSpec == Spec /\ Fairness

-----------------------------------------------------------------------------
\* Every backend keeps the contract of a capture thread: one report of how the
\* start went, nothing after EndOfStream, and no silent end.
Phase == CASE pc \in Opening -> "opening"
           [] pc = "barrier" -> "ready"
           [] pc = "failed"  -> "failed"
           [] pc \in Working -> "streaming"
           [] OTHER          -> "over"
Promise  == INSTANCE CaptureContract WITH phase <- Phase
Contract == Promise!Spec

\* Every chunk that is sent consists of sound captured after the one before it and
\* in its order, whatever was dropped on the way: a stall, a timeout or a short
\* read never makes a thread send its buffer twice.  ASIO does after a timeout, and
\* PulseAudio after an error (asio_backend/device.rs, pulse_backend/device.rs).
AudioIsFresh == stale => backend \in {"asio", "pulse"}

\* A capture thread that has come to its end leaves the state Inactive, or Starting
\* if it never got to publish one.  It does not when reading fails with ALSA or the
\* inner thread of WASAPI fails: these return as they are.
EndsInactive ==
  pc = "done" =>
    \/ published \in {"Starting", "Inactive"}
    \/ backend \in {"alsa", "wasapi"} /\ told \cap {"Error", "FormatChange"} # {}

\* An Exit ends every thread of the backend, whatever else happens: the device may
\* stall, fail or change, and the processing thread may have gone.  The exceptions
\* are the ways the code has to hang: a blocking read of a silent device, a main
\* loop nobody quits, a join of an inner thread that was not told or that waits for
\* the joining one, and an end that was dropped with the messages of a stall.
Gone == pc \in Ended /\ ~(backend = "pipewire" /\ PipeWire!LoopOrphaned)
Hangs ==
  \/ backend = "cpal" /\ Cpal!Starved
  \/ backend = "pulse" /\ Pulse!Starved
  \/ backend = "pipewire" /\ PipeWire!LoopOrphaned
  \/ backend = "wasapi" /\ Wasapi!JoinsForEver
  \/ backend = "alsaThreaded" /\ (AlsaThreaded!JoinsForEver \/ AlsaThreaded!StallsForEver)
ExitIsServed == command # "none" ~> Gone \/ []Hangs
=============================================================================
