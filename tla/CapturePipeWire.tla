----------------------------- MODULE CapturePipeWire -----------------------------
(***************************************************************************)
(* The capture threads of the PipeWire backend (pipewire_backend/device.rs) *)
(* The thread that was started runs the main loop of PipeWire, inner here, *)
(* and then joins the worker it has spawned, pc here, which makes chunks.  *)
(* The worker never waits for the processing thread with audio: it drops   *)
(* what does not fit.                                                      *)
(***************************************************************************)
EXTENDS CaptureState

\* The main loop, context, core and stream are created and connected.
Open == OpenFails(FALSE) \/ OpenSucceeds("barrier", "running")

Begin == Started(inner)

\* exit_flag makes the next callback quit the main loop.
SetExitFlag == inner' = IF inner = "running" THEN "asked" ELSE inner

Exit ==
  /\ ExitReceived
  /\ SetExitFlag
  /\ Send("EndOfStream", Go("panicked"))
  /\ processing => Go(IF supervisor THEN "close" ELSE "panicked")
  /\ told' = IF processing /\ supervisor THEN told \cup {"Done"} ELSE told
  /\ UNCHANGED <<backend, event, produced, buffer, control, view, data>>

\* The wait of at most 50 times 20 ms ends with a chunk, or without one: then
\* nothing is sent and no state published.
MakeChunk ==
  /\ NoCommand /\ HasChunk
  /\ PopSlice /\ JudgeChunk
  /\ Go("send")
  /\ UNCHANGED <<backend, device, notes, control, output, saved, newest, stale>>

\* Audio is dropped when the channel is full, Pause waits.
Deliver ==
  /\ pc = "send"
  /\ IF state = "Running" THEN TrySend("Audio", TRUE) ELSE Send("Pause", TRUE)
  /\ IF queued' > queued /\ state = "Running" THEN Remember ELSE UNCHANGED data
  /\ IF processing THEN Go("loop") /\ UNCHANGED inner
                   ELSE Go("close") /\ SetExitFlag
  /\ UNCHANGED <<backend, event, produced, buffer, control, told, view>>

\* Inactive, and the main loop is told to quit.
End ==
  /\ pc = "close"
  /\ Go("done")
  /\ published' = "Inactive" /\ inner' = "over"
  /\ UNCHANGED <<backend, event, produced, buffer, control, output, state, saved, data>>

Step ==
  \/ Open \/ Begin \/ Exit \/ CommandsClosed \/ MakeChunk \/ Deliver \/ End

\* The process callback, while the stream delivers.
Callback ==
  \/ inner = "running" /\ pc \in Working /\ Record /\ UNCHANGED notes
  \/ /\ inner = "asked"
     /\ inner' = "over"
     /\ UNCHANGED <<backend, pc, event, produced, buffer, control, output, view, data>>

\* A worker that panics does not quit the main loop: only a callback does.
LoopOrphaned == pc = "panicked" /\ inner # "over"
=============================================================================
