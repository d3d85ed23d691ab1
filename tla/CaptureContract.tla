----------------------------- MODULE CaptureContract -----------------------------
(***************************************************************************)
(* What the supervisor and the processing thread rely on in a capture      *)
(* thread, whatever its backend (audiodevice.rs, and the arms of the main  *)
(* loop in bin.rs): it reports that it is ready or that it has failed,     *)
(* then waits at the barrier; it sends nothing after EndOfStream; and it   *)
(* does not end silently while somebody listens.                           *)
(***************************************************************************)
EXTENDS Naturals

VARIABLES
  phase,      \* "opening", "ready", "failed", "streaming", "over"
  told,       \* the status messages sent
  last,       \* the last message sent to the processing thread
  processing  \* the processing thread is there

contract == <<phase, told, last, processing>>

Final    == {"Done", "Error", "FormatChange"}
Messages == {"Audio", "Pause", "EndOfStream"}

Init == phase = "opening" /\ told = {} /\ last = "none" /\ processing = TRUE

\* Ready may come with an error of the stream that has been found since.
BecomeReady ==
  /\ phase = "opening" /\ phase' = "ready"
  /\ \E errors \in SUBSET {"Error"} : told' = {"Ready"} \cup errors
  /\ UNCHANGED <<last, processing>>

Fail ==
  /\ phase = "opening" /\ phase' = "failed"
  /\ told' = {"Error"}
  /\ last' \in {last, "EndOfStream"}
  /\ UNCHANGED processing

PassBarrier ==
  /\ \/ phase = "ready" /\ phase' = "streaming"
     \/ phase = "failed" /\ phase' = "over"
  /\ UNCHANGED <<told, last, processing>>

\* Reports are added, never taken back; nothing follows EndOfStream.
Speak ==
  /\ \E more \in SUBSET Final : told' = told \cup more
  /\ last' \in IF last = "EndOfStream" THEN {last} ELSE Messages \cup {last}

Stream == phase = "streaming" /\ Speak /\ UNCHANGED <<phase, processing>>

\* It ends with a report, or because nobody takes its audio.
End ==
  /\ phase = "streaming" /\ phase' = "over"
  /\ Speak
  /\ told' \cap Final # {} \/ ~processing
  /\ UNCHANGED processing

ProcessingStops ==
  /\ processing /\ processing' = FALSE
  /\ UNCHANGED <<phase, told, last>>

Next ==
  BecomeReady \/ Fail \/ PassBarrier \/ Stream \/ End \/ ProcessingStops

Spec == Init /\ [][Next]_contract
=============================================================================
