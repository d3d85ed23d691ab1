----------------------------- MODULE Processing -----------------------------
(***************************************************************************)
(* The processing thread of a session (processing.rs, run_processing): it  *)
(* builds the pipeline, waits at the barrier, and then forwards what the   *)
(* capture thread sends to the playback thread, looking at the channel for *)
(* configuration changes once after each message.                          *)
(***************************************************************************)
EXTENDS EngineState

\* What a processing step leaves alone.
unchangedByProcessing == <<mainVars, clientVars, configVars, ctrl, stopReason,
                           captureState, captureVars, pb, statusQ, cmdQ, reported>>

\* The thread ends: its receivers go, with what they hold.
EndProcessing(s) ==
  /\ proc' = [proc EXCEPT ![s] = "none"]
  /\ capQ' = [capQ EXCEPT ![s] = <<>>]
  /\ pipeconfQ' = [pipeconfQ EXCEPT ![s] = <<>>]
  /\ pipeline' = [pipeline EXCEPT ![s] = EmptyPipeline]

\* Pipeline::from_config, before the barrier.  It panics on a Filter step when
\* there is no filters section.
BuildPipeline(s) ==
  /\ proc[s] = "building"
  /\ \/ /\ ~FiltersUnwrapPanics(activeConf)
        /\ proc' = [proc EXCEPT ![s] = "ready"]
        /\ UNCHANGED <<capQ, pipeconfQ, pipeline>>
     \/ /\ FiltersUnwrapPanics(activeConf)
        /\ EndProcessing(s)
  /\ UNCHANGED <<unchangedByProcessing, procMsg, pbQ>>

\* rx_cap.recv(): a message, or an error once the capture thread has gone and
\* the channel is empty, which is treated as the end of the stream.
ReceiveAudio(s) ==
  /\ proc[s] = "loop"
  /\ \/ /\ capQ[s] # <<>>
        /\ procMsg' = [procMsg EXCEPT ![s] = Head(capQ[s])]
        /\ capQ' = [capQ EXCEPT ![s] = Tail(@)]
     \/ /\ capQ[s] = <<>> /\ cap[s] = "none"
        /\ procMsg' = [procMsg EXCEPT ![s] = "EndOfStream"]
        /\ UNCHANGED capQ
  /\ proc' = [proc EXCEPT ![s] = "send"]
  /\ UNCHANGED <<unchangedByProcessing, pipeline, pbQ, pipeconfQ>>

\* Mutant: the channel is not looked at while the capture is paused.
NoChangeWhilePaused(s) == pipeconfQ[s] = <<>> \/ procMsg[s] = "Pause"

NoChange(s) == pipeconfQ[s] = <<>>

\* rx_pipeconf.try_recv(): at most one change is taken.  A panic in the
\* pipeline ends the thread.
TakeChange(s) ==
  \/ /\ NoChange(s)
     /\ proc' = [proc EXCEPT ![s] = "loop"]
     /\ UNCHANGED <<pipeline, pipeconfQ, capQ>>
  \/ /\ pipeconfQ[s] # <<>>
     /\ LET msg == Head(pipeconfQ[s]) IN
        \/ /\ ~Panics(pipeline[s], msg)
           /\ pipeline' = [pipeline EXCEPT ![s] = ApplyChange(@, msg)]
           /\ pipeconfQ' = [pipeconfQ EXCEPT ![s] = Tail(@)]
           /\ proc' = [proc EXCEPT ![s] = "loop"]
           /\ UNCHANGED capQ
        \/ /\ Panics(pipeline[s], msg)
           /\ EndProcessing(s)

\* Mutant: the message is dropped and the thread goes on.
DropAudio(s) ==
  /\ proc' = [proc EXCEPT ![s] = "loop"]
  /\ UNCHANGED <<capQ, pipeconfQ, pipeline, pbQ>>

\* The playback thread has gone.
SendFails(s) ==
  /\ EndProcessing(s)
  /\ UNCHANGED pbQ

\* tx_pb.send(): blocks on a full channel, and ends the loop when the playback
\* thread has gone or the stream has ended.
ForwardAudio(s) ==
  /\ proc[s] = "send"
  /\ \/ /\ pb[s] = "none"
        /\ SendFails(s)
     \/ /\ pb[s] # "none" /\ HasRoom(pbQ[s])
        /\ pbQ' = [pbQ EXCEPT ![s] = Append(@, procMsg[s])]
        /\ \/ /\ procMsg[s] = "EndOfStream"
              /\ EndProcessing(s)
           \/ /\ procMsg[s] # "EndOfStream"
              /\ TakeChange(s)
  /\ procMsg' = [procMsg EXCEPT ![s] = NoMessage]
  /\ UNCHANGED unchangedByProcessing

ProcessingStep(s) == BuildPipeline(s) \/ ReceiveAudio(s) \/ ForwardAudio(s)
=============================================================================
