------------------------------- MODULE Engine -------------------------------
(***************************************************************************)
(* The engine with the file backend on both sides: the main thread, its    *)
(* clients, and the threads of every session, which meet at a barrier of   *)
(* four when a session starts.                                             *)
(***************************************************************************)
EXTENDS Supervisor, Processing, FileDevice

\* The process starts without a configuration, or with one from the command
\* line or the state file already queued.
Init ==
  /\ stage = "wait" /\ ending = "None" /\ cur = NoSlot
  /\ activeConf = NoConfig /\ nextConf = NoConfig /\ ready = <<>>
  /\ \/ ctrl = <<>> /\ lastCommand = NoCommand
     \/ \E c \in Configs : ctrl = <<ConfigChanged(c)>> /\ lastCommand = ConfigChanged(c)
  /\ active = NoConfig /\ previous = NoConfig
  /\ stopReason = "None" /\ captureState = "Inactive"
  /\ exitRequested = FALSE /\ sent = 0
  /\ cap = [s \in Slots |-> "none"] /\ stalled = [s \in Slots |-> FALSE]
  /\ pb = [s \in Slots |-> "none"]
  /\ proc = [s \in Slots |-> "none"]
  /\ pipeline = [s \in Slots |-> EmptyPipeline]
  /\ procMsg = [s \in Slots |-> NoMessage]
  /\ capQ = [s \in Slots |-> <<>>] /\ pbQ = [s \in Slots |-> <<>>]
  /\ statusQ = [s \in Slots |-> <<>>] /\ cmdQ = [s \in Slots |-> <<>>]
  /\ pipeconfQ = [s \in Slots |-> <<>>]
  /\ reported = {}

\* Mutant: a device that fails to open does not go to the barrier.
OnlyReady == {"ready"}

\* Where a device waits at the barrier.
AtBarrier == {"ready", "failed"}

\* All four parties are in Barrier::wait.  A device that could not be opened
\* ends behind it.
BarrierRelease ==
  /\ stage = "barrier"
  /\ cap[cur] \in AtBarrier
  /\ pb[cur] \in AtBarrier
  /\ proc[cur] = "ready"
  /\ AfterBarrier
  /\ cap' = [cap EXCEPT ![cur] = IF @ = "ready" THEN "loop" ELSE "none"]
  /\ pb' = [pb EXCEPT ![cur] = IF @ = "ready" THEN "loop" ELSE "none"]
  /\ proc' = [proc EXCEPT ![cur] = "loop"]
  /\ cmdQ' = [cmdQ EXCEPT ![cur] = IF cap[cur] = "ready" THEN @ ELSE <<>>]
  /\ UNCHANGED <<ending, cur, activeConf, nextConf, ready, clientVars, configVars,
                 ctrl, captureState, stalled, pipeline, procMsg, capQ, pbQ, statusQ,
                 pipeconfQ, reported>>

CaptureThread(s)    == Alive /\ CaptureStep(s)
PlaybackThread(s)   == Alive /\ PlaybackStep(s)
ProcessingThread(s) == Alive /\ ProcessingStep(s)

Next ==
  \/ SupervisorStep
  \/ ClientStep
  \/ BarrierRelease
  \/ \E s \in Slots : CaptureThread(s) \/ PlaybackThread(s) \/ ProcessingThread(s)

\* The operating system runs every thread that can run.  select! picks at random
\* between the channels that are ready, and a session has finitely many status
\* messages, so no channel is passed over for ever.  Nothing is assumed of the
\* clients or of what the devices do.
Fairness ==
  /\ WF_vars(SupervisorStep)
  /\ WF_vars(BarrierRelease)
  /\ \A s \in Slots : /\ WF_vars(CaptureThread(s))
                      /\ WF_vars(PlaybackThread(s))
                      /\ WF_vars(ProcessingThread(s))

Spec == Init /\ [][Next]_vars
FairSpec == Spec /\ Fairness

-----------------------------------------------------------------------------
MainTypeOK ==
  /\ stage \in Stages /\ ending \in Endings
  /\ cur \in Slots \cup {NoSlot}
  /\ activeConf \in Option(Configs) /\ nextConf \in Option(Configs)
  /\ ready \in Seq(Devices)

SharedTypeOK ==
  /\ ctrl \in Seq(ControllerMessages) /\ Len(ctrl) <= CtrlCapacity
  /\ lastCommand \in ControllerMessages \cup {NoCommand}
  /\ active \in Option(Configs) /\ previous \in Option(Configs)
  /\ stopReason \in StopReasons
  /\ captureState \in ProcessingStates
  /\ exitRequested \in BOOLEAN /\ sent \in Nat

ThreadTypeOK ==
  /\ cap \in [Slots -> CaptureSteps] /\ stalled \in [Slots -> BOOLEAN]
  /\ pb \in [Slots -> PlaybackSteps]
  /\ proc \in [Slots -> ProcSteps]
  /\ procMsg \in [Slots -> AudioMessages \cup {NoMessage}]
  /\ DOMAIN pipeline = Slots

AudioQueuesOK ==
  /\ capQ \in [Slots -> Seq(AudioMessages)]
  /\ pbQ \in [Slots -> Seq(AudioMessages)]
  /\ \A s \in Slots : Len(capQ[s]) <= QueueLimit /\ Len(pbQ[s]) <= QueueLimit

OtherQueuesOK ==
  /\ statusQ \in [Slots -> Seq(StatusMessages)]
  /\ cmdQ \in [Slots -> Seq({"Exit"})]
  /\ pipeconfQ \in [Slots -> Seq(PipelineMessages)]
  /\ reported \subseteq DeviceFaults

\* Every variable has a value of its kind, and the bounded channels keep to their
\* capacity: the type invariant.
TypeOK ==
  MainTypeOK /\ SharedTypeOK /\ ThreadTypeOK /\ AudioQueuesOK /\ OtherQueuesOK

-----------------------------------------------------------------------------
\* ------------------- What clients can rely on: commands ------------------

\* A configuration the command channel has accepted is the one that is used: a
\* session that runs with no command queued runs the last accepted one.  Dropping
\* a change when more commands are queued, and the detour over the main loop for
\* a change of the devices, must not lose it.
ConfigFollowsCommands ==
  stage = "running" /\ ctrl = <<>> => ConfigChanged(active) = lastCommand

\* Nor is it lost between sessions, whatever ends them: once the queue is empty
\* the last accepted configuration is about to be started, or it is the previous
\* configuration because its session has ended.
LastConfigWasTried ==
  stage = "wait" /\ ctrl = <<>> /\ lastCommand.type = "ConfigChanged"
    => lastCommand.conf \in {active, previous}

\* The pipeline that processes the audio is the one a restart with the active
\* configuration would build, once the processing thread has taken the changes
\* the supervisor sent it: no sequence of partial updates drifts away from it.
PipelineMatchesActive ==
  stage = "running" /\ proc[cur] # "none" /\ pipeconfQ[cur] = <<>>
    => pipeline[cur] = from_config(active)

\* ---------------------- The end of a stream and of a session -------------

\* EndOfStream is the last message a thread sends: nothing can follow it in a
\* channel, and its sender is past its loop.
CaptureIsDone(s) == cap[s] \in {"reportDone", "reportFormat", "end", "none"}
EndIsLast(q, senderIsDone) ==
  \A i \in 1..Len(q) : q[i] = "EndOfStream" => i = Len(q) /\ senderIsDone
EndOfStreamIsLast ==
  \A s \in Slots : /\ EndIsLast(capQ[s], CaptureIsDone(s))
                   /\ EndIsLast(pbQ[s], proc[s] = "none")

\* The supervisor never waits on a status channel without senders: a device that
\* ends has said so before, and the "threads have exited" branch is not reached.
StatusChannelStaysOpen ==
  stage \in {"starting", "running"} /\ statusQ[cur] = <<>>
    => pb[cur] # "none" \/ cap[cur] # "none"

\* A session counts as played to its end only if no device reported a fault in
\* it: the fault overtakes the end of the stream it causes.
CleanEndMeansNoFault ==
  stage = "wait" /\ ending = "PlaybackDone" => reported = {}

\* ------------------------ One session after the other --------------------

\* No two sessions have a playback thread, or a capture thread, at once: the
\* device of the old session is closed before the new session opens it.
PlaybackExclusive ==
  \A s, t \in Slots : pb[s] # "none" /\ pb[t] # "none" => s = t
CaptureExclusive ==
  \A s, t \in Slots : cap[s] # "none" /\ cap[t] # "none" => s = t

\* The published state agrees with the supervisor: Inactive while it waits for a
\* configuration, and not Inactive while the capture thread of a session works.
IdleIsInactive == stage = "wait" => captureState = "Inactive"
RunningIsNotInactive ==
  stage = "running" /\ cap[cur] # "none" => captureState # "Inactive"

\* ------------------------------- Liveness --------------------------------

\* A session that starts gets through the barrier: it runs or it is being ended.
StartupResolves == stage \in {"starting", "barrier"} ~> stage \in {"running", "joining"}
                                                      \/ ~Alive

\* The joins return, so that the supervisor is back to serve commands.
EndingCompletes == stage = "joining" ~> stage # "joining"

\* An accepted Exit ends the process.
ExitIsServed == (\E i \in 1..Len(ctrl) : ctrl[i] = Exit) ~> ~Alive

\* A change sent to the processing thread is taken, also while the signal is
\* silent or the source stalls.
ChangesAreTaken == \A s \in Slots : pipeconfQ[s] # <<>> ~> pipeconfQ[s] = <<>> \/ ~Alive

\* The threads a session leaves behind, joined or not, end.
LeftoversEnd == \A s \in Slots : s # cur ~> Free(s) \/ s = cur \/ ~Alive
=============================================================================
