------------------------------- MODULE PlaybackAsio -------------------------------
(***************************************************************************)
(* The playback thread of the ASIO backend (asio_backend/device.rs), once  *)
(* the driver is shared or its own (see Asio for that).  Unlike the others *)
(* it looks for a message for 100 ms at most, and so sees a change of the  *)
(* rate also when nothing is to be played.                                 *)
(***************************************************************************)
EXTENDS PlaybackState

\* The driver starts before the barrier: the thread waits up to 500 ms for its
\* first callback.
Open == OpenFails \/ OpenSucceeds("running")

Begin == Started(inner)

\* take_playback_rate_change_event: the event is tried for before each message.
RateChanged ==
  /\ pc = "loop" /\ event = "rate"
  /\ Finish("FormatChange") /\ UNCHANGED source
NoEvent == event = "none" /\ Look

\* recv_timeout of 100 ms.
Timeout ==
  /\ pc = "wait" /\ inbox = <<>> /\ processing
  /\ Go("loop")
  /\ UNCHANGED <<backend, driver, source, reports, chunk, buffer, writer, heard>>

\* At most 8 waits, then what fits is pushed.
PushChunk ==
  /\ pc = "push"
  /\ Push(Fitting)
  /\ Go("loop") /\ chunk' = 0
  /\ UNCHANGED <<backend, driver, source, reports, notes, writer, heard>>

ReceiveEnd  == EndReceived("wait") /\ Finish("Done")
ChannelLost == Closed("wait") /\ Finish("Error")

\* The driver is released or stopped.
End == Stop("done", "over")

Step ==
  \/ Open \/ Begin \/ RateChanged \/ NoEvent \/ Timeout
  \/ ReceiveAudio("wait") \/ IgnorePause("wait") \/ PushChunk \/ ReceiveEnd \/ ChannelLost \/ End

Callback == PlayFromRing

\* sampleRateDidChange.
Message ==
  /\ inner = "running" /\ event = "none" /\ "rate" \in Faults /\ pc \in Working
  /\ event' = "rate"
  /\ UNCHANGED <<backend, pc, inner, source, reports, chunk, buffer, writer, heard>>

InnerStep == Callback \/ Message
=============================================================================
