----------------------------- MODULE Connections -----------------------------
(***************************************************************************)
(* The connections of the websocket server and what their handler threads  *)
(* are doing: a handler may be between two of the steps of a command.      *)
(***************************************************************************)
EXTENDS Naturals

CONSTANT Clients

VARIABLES
  connected,  \* the connections that are open
  work        \* what is left to do of the command a handler is in

connectionVars == <<connected, work>>

Nothing         == [step |-> "none"]
Adjusting(f, v) == [step |-> "adjust", fader |-> f, volume |-> v]
External(f, v)  == [step |-> "external", fader |-> f, volume |-> v]
Reading(k)      == [step |-> "read", kind |-> k]
Sending(m)      == [step |-> "send", message |-> m]

InitConnections ==
  /\ connected = Clients
  /\ work = [c \in Clients |-> Nothing]

\* The handler waits for a command.
Idle(c) == c \in connected /\ work[c] = Nothing

Begin(c, w) == work' = [work EXCEPT ![c] = w] /\ UNCHANGED connected
Done(c)     == Begin(c, Nothing)
=============================================================================
