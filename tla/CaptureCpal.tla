------------------------------- MODULE CaptureCpal -------------------------------
(***************************************************************************)
(* The capture thread of the CPAL backend (cpal_backend/device.rs).  Its   *)
(* callback blocks on a channel of one buffer, and the thread blocks on    *)
(* the same channel until it has a chunk: it sees a command only between   *)
(* two chunks, and a device that falls silent holds it for ever.           *)
(*                                                                         *)
(* Here ring is the thread's sample_queue and notes holds the buffer in    *)
(* the channel.                                                            *)
(***************************************************************************)
EXTENDS CaptureState

NoStream == inner = "over"   \* the callback is gone, with its end of the channel

\* The device is open and CaptureReady sent before the stream is built.  A stream
\* that can not be built is reported as well, and the thread goes on.
Open ==
  \/ OpenFails(FALSE)
  \/ OpenSucceeds("barrier", "running")
  \/ /\ "start" \in Faults
     /\ pc = "open"
     /\ Go("barrier") /\ inner' = "over" /\ told' = {"Ready", "Error"}
     /\ UNCHANGED <<backend, event, produced, buffer, control, queued, last, view, data>>

\* play(), of a stream that was built.  A stream that does not start stays there
\* and delivers nothing: the thread reports it, or panics, and goes on.
Begin ==
  \/ Started(inner)
  \/ /\ "start" \in Faults
     /\ pc = "start" /\ ~NoStream
     /\ Go(IF supervisor THEN "loop" ELSE "panicked")
     /\ told' = IF supervisor THEN told \cup {"Error"} ELSE told
     /\ inner' = "blocked"
     /\ UNCHANGED <<backend, event, produced, buffer, control, queued, last, view, data>>

Exit == ExitReceived /\ FinishOrPanic("Done")

LookForChunk ==
  /\ NoCommand
  /\ Go("fill")
  /\ UNCHANGED <<backend, device, buffer, control, output, view, data>>

\* recv(): takes a buffer.
Receive ==
  /\ pc = "fill" /\ ~HasChunk /\ notes # <<>>
  /\ ring' = Append(ring, Head(notes)) /\ notes' = Tail(notes)
  /\ UNCHANGED <<backend, pc, device, control, output, view, data>>

\* recv() of a closed channel: reported over and over, until the supervisor has
\* gone too and the report panics.
ReceiveFails ==
  /\ pc = "fill" /\ ~HasChunk /\ notes = <<>> /\ NoStream
  /\ IF supervisor THEN Report("Error") /\ UNCHANGED pc
                   ELSE Go("panicked") /\ UNCHANGED told
  /\ UNCHANGED <<backend, device, buffer, control, queued, last, view, data>>

MakeChunk ==
  /\ pc = "fill" /\ HasChunk
  /\ PopSlice /\ JudgeChunk
  /\ Go("send")
  /\ UNCHANGED <<backend, device, notes, control, output, saved, newest, stale>>

RateChanged == RateIsOff /\ Finish("FormatChange")

End == pc = "close" /\ BecomeInactive("done")

Step ==
  \/ Open \/ Begin \/ Exit \/ CommandsClosed \/ LookForChunk
  \/ Receive \/ ReceiveFails \/ MakeChunk \/ RateChanged \/ SendChunk \/ End

\* The callback: send() into a channel of one buffer.
Callback ==
  /\ inner = "running" /\ produced < MaxPackets /\ pc \in Working
  /\ notes = <<>>
  /\ produced' = produced + 1 /\ notes' = <<produced + 1>>
  /\ UNCHANGED <<backend, pc, inner, event, ring, control, output, view, data>>

\* Blocked in recv() on a device that delivers nothing, which no Exit can reach;
\* without a device it reports errors for ever.
Starved == pc = "fill" /\ ~HasChunk /\ notes = <<>>
=============================================================================
