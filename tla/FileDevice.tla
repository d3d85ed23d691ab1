----------------------------- MODULE FileDevice -----------------------------
(***************************************************************************)
(* The capture and playback threads of the file backend                    *)
(* (file_backend/device.rs).                                               *)
(***************************************************************************)
EXTENDS EngineState

\* What a step of the capture or playback thread leaves alone.
unchangedByDevices == <<mainVars, clientVars, configVars, ctrl, stopReason, procVars,
                        pipeconfQ>>

\* A device reports a fault; the history keeps those of the current session.
ReportFault(s, msg) ==
  /\ Report(s, msg)
  /\ reported' = IF cur = s THEN reported \cup {msg} ELSE reported

-----------------------------------------------------------------------------
\* -------------------------- The playback thread --------------------------

OpenPlayback(s) ==
  /\ pb[s] = "opening"
  /\ \/ /\ Report(s, "PlaybackReady")
        /\ pb' = [pb EXCEPT ![s] = "ready"]
        /\ UNCHANGED reported
     \/ /\ "pb_open" \in Faults
        /\ ReportFault(s, "PlaybackError")
        /\ pb' = [pb EXCEPT ![s] = "failed"]
  /\ UNCHANGED <<unchangedByDevices, captureState, captureVars, capQ, pbQ, cmdQ>>

\* Write a chunk.  A write error is reported and the loop goes on.
PlayChunk(s) ==
  /\ pb[s] = "loop"
  /\ pbQ[s] # <<>> /\ Head(pbQ[s]) \in {"Audio", "Pause"}
  /\ pbQ' = [pbQ EXCEPT ![s] = Tail(@)]
  /\ \/ UNCHANGED <<statusQ, reported>>
     \/ /\ "pb_write" \in Faults /\ Head(pbQ[s]) = "Audio"
        /\ "PlaybackError" \notin reported \* bound: one report of a kind
        /\ ReportFault(s, "PlaybackError")
  /\ UNCHANGED <<unchangedByDevices, captureState, captureVars, pb, capQ, cmdQ>>

\* EndOfStream ends the loop; so does an empty channel whose sender, the
\* processing thread, has gone.  Either is reported while the file is still open.
FinishPlayback(s) ==
  /\ pb[s] = "loop"
  /\ \/ /\ pbQ[s] # <<>> /\ Head(pbQ[s]) = "EndOfStream"
        /\ pbQ' = [pbQ EXCEPT ![s] = Tail(@)]
        /\ Report(s, "PlaybackDone")
        /\ UNCHANGED reported
     \/ /\ pbQ[s] = <<>> /\ proc[s] = "none"
        /\ ReportFault(s, "PlaybackError")
        /\ UNCHANGED pbQ
  /\ pb' = [pb EXCEPT ![s] = "end"]
  /\ UNCHANGED <<unchangedByDevices, captureState, captureVars, capQ, cmdQ>>

\* After the loop the file is closed and the thread ends: its receiver goes, with
\* what it holds.
EndPlayback(s) ==
  /\ pb[s] = "end"
  /\ pb' = [pb EXCEPT ![s] = "none"]
  /\ pbQ' = [pbQ EXCEPT ![s] = <<>>]
  /\ UNCHANGED <<unchangedByDevices, captureState, captureVars, capQ, statusQ, cmdQ,
                 reported>>

PlaybackStep(s) ==
  OpenPlayback(s) \/ PlayChunk(s) \/ FinishPlayback(s) \/ EndPlayback(s)

-----------------------------------------------------------------------------
\* --------------------------- The capture thread --------------------------

OpenCapture(s) ==
  /\ cap[s] = "opening"
  /\ \/ /\ Report(s, "CaptureReady")
        /\ cap' = [cap EXCEPT ![s] = "ready"]
        /\ UNCHANGED reported
     \/ /\ "cap_open" \in Faults
        /\ ReportFault(s, "CaptureError")
        /\ cap' = [cap EXCEPT ![s] = "failed"]
  /\ UNCHANGED <<unchangedByDevices, captureState, stalled, pb, capQ, pbQ, cmdQ>>

\* The top of the loop: the command channel is polled.  Once run has returned
\* its sender is gone, and an empty channel ends the loop.
PollCommand(s) ==
  /\ cap[s] = "loop"
  /\ \/ /\ cmdQ[s] # <<>>
        /\ cmdQ' = [cmdQ EXCEPT ![s] = Tail(@)]
        /\ cap' = [cap EXCEPT ![s] = "sendEndDone"]
     \/ /\ cmdQ[s] = <<>>
        /\ cap' = [cap EXCEPT ![s] = IF cur = s THEN "read" ELSE "end"]
        /\ UNCHANGED cmdQ
  /\ UNCHANGED <<unchangedByDevices, captureState, stalled, pb, capQ, pbQ, statusQ,
                 reported>>

\* silence_counter.update() decides what becomes of a chunk: it is sent, or a
\* Pause is sent in its place.  When depends on the signal.
AfterRead    == {"sendAudio"} \cup (IF PausesOnSilence THEN {"sendPause"} ELSE {})
SignalStates == {"Running"} \cup (IF PausesOnSilence THEN {"Paused"} ELSE {})

\* A full chunk.  A stalled capture resumes and publishes the state it had; in
\* any case the state is published once per update interval.
ReadComplete(s) ==
  /\ cap[s] = "read" /\ "Complete" \in Reads
  /\ \E st \in SignalStates :
        captureState' \in {st} \cup (IF stalled[s] THEN {} ELSE {captureState})
  /\ stalled' = [stalled EXCEPT ![s] = FALSE]
  /\ \E next \in AfterRead : cap' = [cap EXCEPT ![s] = next]
  /\ UNCHANGED <<unchangedByDevices, pb, capQ, pbQ, statusQ, cmdQ, reported>>

\* The last part of the file, or of what a slow source delivers before the time
\* limit: padded with zeros and used as a chunk.
ReadPartial(s) ==
  /\ cap[s] = "read" /\ "Partial" \in Reads
  /\ \E next \in AfterRead : cap' = [cap EXCEPT ![s] = next]
  /\ UNCHANGED <<unchangedByDevices, captureState, stalled, pb, capQ, pbQ, statusQ,
                 cmdQ, reported>>

\* Nothing within the time limit.
ReadTimeout(s) ==
  /\ cap[s] = "read" /\ "Timeout" \in Reads
  /\ cap' = [cap EXCEPT ![s] = "sendStalled"]
  /\ UNCHANGED <<unchangedByDevices, captureState, stalled, pb, capQ, pbQ, statusQ,
                 cmdQ, reported>>

\* The end of the file: the extra samples, if any, are sent as silence (one
\* chunk stands for any number), then EndOfStream.
ReadEndOfFile(s) ==
  /\ cap[s] = "read" /\ "EndOfFile" \in Reads
  /\ \E next \in {"flush", "sendEndDone"} : cap' = [cap EXCEPT ![s] = next]
  /\ UNCHANGED <<unchangedByDevices, captureState, stalled, pb, capQ, pbQ, statusQ,
                 cmdQ, reported>>

\* A read error is reported, and the loop goes on with the previous buffer.
ReadError(s) ==
  /\ cap[s] = "read"
  /\ "cap_read" \in Faults
  /\ IF "CaptureError" \in reported  \* bound: one report of a kind
     THEN UNCHANGED <<statusQ, reported>>
     ELSE ReportFault(s, "CaptureError")
  /\ \E next \in AfterRead : cap' = [cap EXCEPT ![s] = next]
  /\ UNCHANGED <<unchangedByDevices, captureState, stalled, pb, capQ, pbQ, cmdQ>>

\* The measured rate is off and stop_on_rate_change is set.
RateChange(s) ==
  /\ cap[s] = "read"
  /\ "rate_change" \in Faults
  /\ \E st \in SignalStates :
        captureState' \in {st} \cup (IF stalled[s] THEN {} ELSE {captureState})
  /\ stalled' = [stalled EXCEPT ![s] = FALSE]
  /\ cap' = [cap EXCEPT ![s] = "sendEndFormat"]
  /\ UNCHANGED <<unchangedByDevices, pb, capQ, pbQ, statusQ, cmdQ, reported>>

\* The message each sending step has for the processing thread.
Outgoing == [sendAudio |-> "Audio", sendPause |-> "Pause", sendStalled |-> "Pause",
             flush |-> "Audio", sendEndDone |-> "EndOfStream",
             sendEndFormat |-> "EndOfStream"]

\* audio.send(): blocks on a full channel, fails without a processing thread.
AudioSent(s) ==
  /\ proc[s] # "none" /\ HasRoom(capQ[s])
  /\ capQ' = [capQ EXCEPT ![s] = Append(@, Outgoing[cap[s]])]

AudioFails(s) ==
  /\ proc[s] = "none"
  /\ UNCHANGED capQ

\* After a timeout a Pause is sent, whether or not there is a processing thread,
\* and the first one publishes the Stalled state.
SendStalled(s) ==
  /\ cap[s] = "sendStalled"
  /\ AudioSent(s) \/ AudioFails(s)
  /\ captureState' = IF stalled[s] THEN captureState ELSE "Stalled"
  /\ stalled' = [stalled EXCEPT ![s] = TRUE]
  /\ cap' = [cap EXCEPT ![s] = "loop"]
  /\ UNCHANGED <<unchangedByDevices, pb, pbQ, statusQ, cmdQ, reported>>

\* A failure to send a chunk ends the loop; the silence after the end of the file
\* is sent regardless.
SendChunk(s) ==
  /\ \/ /\ cap[s] \in {"sendAudio", "sendPause"}
        /\ \/ AudioSent(s) /\ cap' = [cap EXCEPT ![s] = "loop"]
           \/ AudioFails(s) /\ cap' = [cap EXCEPT ![s] = "end"]
     \/ /\ cap[s] = "flush"
        /\ AudioSent(s) \/ AudioFails(s)
        /\ cap' = [cap EXCEPT ![s] = "sendEndDone"]
  /\ UNCHANGED <<unchangedByDevices, captureState, stalled, pb, pbQ, statusQ, cmdQ,
                 reported>>

\* Mutant: the thread reads on after the end of the file.
ReadOn == [sendEndDone |-> "loop", sendEndFormat |-> "reportFormat"]

AfterEndOfStream == [sendEndDone |-> "reportDone", sendEndFormat |-> "reportFormat"]

\* EndOfStream goes to the processing thread before the status message goes to
\* the supervisor.
SendEndOfStream(s) ==
  /\ cap[s] \in {"sendEndDone", "sendEndFormat"}
  /\ AudioSent(s) \/ AudioFails(s)
  /\ cap' = [cap EXCEPT ![s] = AfterEndOfStream[@]]
  /\ UNCHANGED <<unchangedByDevices, captureState, stalled, pb, pbQ, statusQ, cmdQ,
                 reported>>

ReportEnd(s) ==
  /\ \/ /\ cap[s] = "reportDone"
        /\ Report(s, "CaptureDone")
        /\ UNCHANGED reported
     \/ /\ cap[s] = "reportFormat"
        /\ ReportFault(s, "CaptureFormatChange")
  /\ cap' = [cap EXCEPT ![s] = "end"]
  /\ UNCHANGED <<unchangedByDevices, captureState, stalled, pb, capQ, pbQ, cmdQ>>

\* After the loop: the last thing the thread does is publish Inactive.
EndCapture(s) ==
  /\ cap[s] = "end"
  /\ captureState' = "Inactive"
  /\ cap' = [cap EXCEPT ![s] = "none"]
  /\ cmdQ' = [cmdQ EXCEPT ![s] = <<>>]
  /\ stalled' = [stalled EXCEPT ![s] = FALSE]
  /\ UNCHANGED <<unchangedByDevices, pb, capQ, pbQ, statusQ, reported>>

CaptureStep(s) ==
  \/ OpenCapture(s) \/ PollCommand(s)
  \/ ReadComplete(s) \/ ReadPartial(s) \/ ReadTimeout(s) \/ ReadEndOfFile(s)
  \/ ReadError(s) \/ RateChange(s)
  \/ SendStalled(s) \/ SendChunk(s) \/ SendEndOfStream(s) \/ ReportEnd(s)
  \/ EndCapture(s)
=============================================================================
