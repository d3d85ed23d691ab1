----------------------------- MODULE PlaybackContract -----------------------------
(***************************************************************************)
(* What the supervisor and the processing thread rely on in a playback     *)
(* thread, whatever its backend (audiodevice.rs, and the arms of the main  *)
(* loop in bin.rs): it reports that it is ready or that it has failed,     *)
(* then waits at the barrier; it takes messages in their order; it reports *)
(* Done only when there is nothing left to take; and it does not end       *)
(* silently.                                                               *)
(***************************************************************************)
EXTENDS Naturals, Sequences, SequencesExt

VARIABLES
  phase,       \* "opening", "ready", "failed", "streaming", "over"
  told,        \* the status messages sent
  inbox,       \* the channel from the processing thread
  processing,  \* the processing thread holds its end of it
  lost         \* the thread that writes has panicked

contract == <<phase, told, inbox, processing, lost>>

Final == {"Done", "Error", "FormatChange"}

Init ==
  phase = "opening" /\ told = {} /\ inbox = <<>> /\ processing = TRUE /\ lost = FALSE

\* Ready may come with an error of the stream that has been found since.
BecomeReady ==
  /\ phase = "opening" /\ phase' = "ready"
  /\ \E errors \in SUBSET {"Error"} : told' = {"Ready"} \cup errors
  /\ UNCHANGED <<inbox, processing, lost>>

Fail ==
  /\ phase = "opening" /\ phase' = "failed"
  /\ told' = {"Error"}
  /\ UNCHANGED <<inbox, processing, lost>>

PassBarrier ==
  /\ \/ phase = "ready" /\ phase' = "streaming"
     \/ phase = "failed" /\ phase' = "over"
  /\ UNCHANGED <<told, inbox, processing, lost>>

\* Messages are taken from the front, one or all.
Take ==
  /\ inbox' \in {inbox, <<>>} \/ (inbox # <<>> /\ inbox' = Tail(inbox))
  /\ UNCHANGED processing

\* Reports are added, never taken back; Done is one at the end of the messages.
Speak ==
  /\ \E more \in SUBSET Final : told' = told \cup more
  /\ "Done" \in told' \ told => inbox' = <<>> /\ ~processing

Stream ==
  /\ phase \in {"ready", "streaming"}
  /\ Take /\ Speak
  /\ lost' \in {lost, TRUE}
  /\ UNCHANGED phase

\* It ends with a report, unless the thread that makes it has panicked.
End ==
  /\ phase = "streaming" /\ phase' = "over"
  /\ Take /\ Speak
  /\ told' \cap Final # {} \/ lost
  /\ UNCHANGED lost

\* The processing thread sends a message or ends.
Processing ==
  /\ processing
  /\ inbox' = inbox \/ IsPrefix(inbox, inbox')
  /\ processing' \in BOOLEAN
  /\ UNCHANGED <<phase, told, lost>>

Next == BecomeReady \/ Fail \/ PassBarrier \/ Stream \/ End \/ Processing

Spec == Init /\ [][Next]_contract
=============================================================================
