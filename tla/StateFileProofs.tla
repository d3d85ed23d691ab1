--------------------------- MODULE StateFileProofs --------------------------
(***************************************************************************)
(* Once every handler and the saver are quiet, the state file holds the    *)
(* state, for any number of clients, values, changes and starts.           *)
(*                                                                         *)
(* QuietIsSaved speaks of the quiet states only.  What makes it inductive  *)
(* is what becomes of a change on its way to the file (Settled): an item   *)
(* the saver will not write as it is now has a notification waiting, or a  *)
(* handler that has set it and is still to notify (Owed).                  *)
(***************************************************************************)
EXTENDS StateFile, TLAPS

\* The item is in the file, or on its way there with its present value.
Settled(i) ==
  CASE saver = "receive" -> failed \/ file.state[i] = params[i]
    [] saver = "read"    -> Position[i] <= Len(snapshot) => snapshot[Position[i]] = params[i]
    [] OTHER             -> snapshot[Position[i]] = params[i]

\* Another save is going to read it.
Owed(i) ==
  notified \/ \E c \in Clients : handler[c].step > 1 /\ handler[c].item = i

\* Nobody is served, and no notification comes, before the first save is over.
StartInv ==
  /\ phase # "serving" => ~notified /\ \A c \in Clients : handler[c] = Idle
  /\ phase = "starting" => saver \in {"open", "write", "sync"}
  /\ phase = "down" => saver = "receive"

\* Where the saving stands with the file.
FileInv ==
  /\ saver = "receive" /\ phase = "serving" /\ ~failed => file.status = "whole"
  /\ saver \in {"sync", "clear"} => file = Whole(StateOf(snapshot))
  /\ saver = "clear" => ~failed

SavedInv ==
  /\ TypeOK /\ StartInv /\ FileInv
  /\ phase # "down" => \A i \in Items : Settled(i) \/ Owed(i)

-----------------------------------------------------------------------------
\* What the command line gives are values of items.
LEMMA CommandLineTypes ==
  \A args \in CommandLines :
    DOMAIN args \subseteq Items /\ \A i \in DOMAIN args : args[i] \in Values
  BY OptionsAssumption DEF CommandLines

\* The type invariant is preserved by every step.
LEMMA TypePreserved == TypeOK /\ StartInv /\ [Next]_vars => TypeOK'
<1> SUFFICES ASSUME TypeOK, StartInv, [Next]_vars PROVE TypeOK'
  OBVIOUS
<1> USE ValuesAssumption, CommandLineTypes
<1>0. <<>> \in Seq(Values) /\ Len(<<>>) = 0
  OBVIOUS
<1>1. ASSUME NEW c \in Clients, NEW i \in Items, NEW v \in Values, StartHandler(c, i, v)
      PROVE TypeOK'
  BY <1>1 DEF StartHandler, TypeOK, processVars, Handlers, Idle, Items, States
<1>2. ASSUME NEW c \in Clients, StepHandler(c) PROVE TypeOK'
  <2>1. handler'[c] \in Handlers
    <3> DEFINE h == handler[c]
    <3>1. h \in [step : 1..3, item : Items, value : Values]
      BY <1>2 DEF StepHandler, TypeOK, Handlers
    <3>2. CASE h.step < 3
      <4>1. handler'[c] = [h EXCEPT !.step = h.step + 1]
        BY <1>2, <3>2 DEF StepHandler, TypeOK
      <4> QED
        BY <3>1, <3>2, <4>1 DEF Handlers
    <3>3. CASE ~(h.step < 3)
      BY <1>2, <3>3 DEF StepHandler, TypeOK, Handlers
    <3> QED
      BY <3>2, <3>3
  <2>2. handler' \in [Clients -> Handlers]
    BY <1>2, <2>1 DEF StepHandler, TypeOK
  <2>3. params' \in States
    BY <1>2 DEF StepHandler, TypeOK, Handlers, Idle, States
  <2>4. unsaved' \in BOOLEAN /\ notified' \in BOOLEAN
    BY <1>2 DEF StepHandler, TypeOK
  <2> QED
    BY <1>2, <2>2, <2>3, <2>4 DEF StepHandler, TypeOK, processVars
<1>3. CASE ReceiveNotification
  <2>1. notified' \in BOOLEAN
    BY <1>3, Zenon DEF ReceiveNotification
  <2>2. /\ saver' = "read" /\ snapshot' = <<>>
        /\ UNCHANGED <<phase, starts, params, unsaved, handler, file, failed, changes>>
    BY <1>3 DEF ReceiveNotification, processVars
  <2> QED
    BY <1>0, <2>1, <2>2 DEF TypeOK
<1>4. CASE ReadItem
  <2>1. Len(snapshot) < 3 /\ snapshot \in Seq(Values)
    BY <1>4 DEF ReadItem, TypeOK
  <2>2. params[SaveOrder[Len(snapshot) + 1]] \in Values
    <3>1. Len(snapshot) + 1 \in 1..3
      BY <2>1
    <3>2. SaveOrder[Len(snapshot) + 1] \in Items
      BY <3>1 DEF SaveOrder, Items
    <3> QED
      BY <3>2 DEF TypeOK, States
  <2>3. snapshot' \in Seq(Values) /\ Len(snapshot') = Len(snapshot) + 1
    BY <1>4, <2>1, <2>2 DEF ReadItem
  <2>4. saver' \in {"read", "open"} /\ (saver' = "read" => Len(snapshot') < 3)
        /\ (saver' = "open" => Len(snapshot') = 3)
    BY <1>4, <2>1, <2>3 DEF ReadItem
  <2> QED
    BY <1>4, <2>3, <2>4 DEF ReadItem, TypeOK, processVars
<1>5. CASE OpenFile
  BY <1>5 DEF OpenFile, Failed, TypeOK
<1>6. CASE WriteFile
  <2>1. StateOf(snapshot) \in States
    <3>1. Len(snapshot) = 3 /\ snapshot \in Seq(Values)
      BY <1>6 DEF WriteFile, TypeOK
    <3>2. \A i \in Items : Position[i] \in 1..Len(snapshot)
      BY <3>1 DEF Items, Position
    <3> QED
      BY <3>1, <3>2 DEF StateOf, States
  <2> QED
    BY <1>6, <2>1 DEF WriteFile, Failed, TypeOK
<1>7. CASE SyncFile
  BY <1>7 DEF SyncFile, Saved, Failed, TypeOK
<1>8. CASE ClearUnsaved
  BY <1>8 DEF ClearUnsaved, TypeOK, processVars
<1>9. ASSUME NEW args \in CommandLines, StartProcess(args) PROVE TypeOK'
  <2>1. file.state \in States
    BY DEF TypeOK, Absent, Torn, Whole, Defaults, States
  <2>2. params' \in States
    BY <1>9, <2>1 DEF StartProcess, States
  <2>3. snapshot' = [k \in 1..3 |-> params'[SaveOrder[k]]]
    BY <1>9 DEF StartProcess
  <2>4. \A k \in 1..3 : params'[SaveOrder[k]] \in Values
    BY <2>2 DEF SaveOrder, States, Items
  <2>5. snapshot' \in Seq(Values) /\ Len(snapshot') = 3
    BY <2>3, <2>4
  <2>6. /\ phase' \in {"starting", "serving"}
        /\ saver' = saver \/ saver' = "open"
        /\ starts' \in Nat /\ failed' \in BOOLEAN
    <3>1. starts' = starts + 1
      BY <1>9 DEF StartProcess
    <3>3. failed' \in BOOLEAN
      BY <1>9, Zenon DEF StartProcess
    <3>2. \/ phase' = "serving" /\ saver' = saver
          \/ phase' = "starting" /\ saver' = "open"
      BY <1>9, Zenon DEF StartProcess
    <3> QED
      BY <3>1, <3>2, <3>3 DEF TypeOK
  <2>7. phase = "down" /\ UNCHANGED <<unsaved, notified, handler, file, changes>>
    BY <1>9 DEF StartProcess
  <2>8. CASE saver' = "open"
    BY <2>2, <2>5, <2>6, <2>7, <2>8 DEF TypeOK
  <2>9. CASE saver' = saver
    BY <2>2, <2>5, <2>6, <2>7, <2>9 DEF TypeOK, StartInv
  <2> QED
    BY <2>6, <2>8, <2>9
<1>10. CASE EndProcess
  BY <1>0, <1>10 DEF EndProcess, TypeOK, Handlers, Idle
<1>11. CASE UNCHANGED vars
  BY <1>11 DEF vars, TypeOK
<1> QED
  BY <1>1, <1>2, <1>3, <1>4, <1>5, <1>6, <1>7, <1>8, <1>9, <1>10, <1>11 DEF Next, Save

\* The process serves its clients only after the first save, and ends with the saver.
LEMMA StartPreserved == TypeOK /\ StartInv /\ [Next]_vars => StartInv'
<1> SUFFICES ASSUME TypeOK, StartInv, [Next]_vars PROVE StartInv'
  OBVIOUS
<1>1. ASSUME NEW c \in Clients, NEW i \in Items, NEW v \in Values, StartHandler(c, i, v)
      PROVE StartInv'
  BY <1>1 DEF StartHandler, StartInv, processVars
<1>2. ASSUME NEW c \in Clients, StepHandler(c) PROVE StartInv'
  BY <1>2 DEF StepHandler, StartInv, processVars
<1>3. CASE ReceiveNotification
  BY <1>3 DEF ReceiveNotification, StartInv, processVars
<1>4. CASE ReadItem
  BY <1>4 DEF ReadItem, StartInv, processVars
<1>5. CASE OpenFile
  BY <1>5 DEF OpenFile, Failed, StartInv
<1>6. CASE WriteFile
  BY <1>6 DEF WriteFile, Failed, StartInv
<1>7. CASE SyncFile
  BY <1>7 DEF SyncFile, Saved, Failed, StartInv
<1>8. CASE ClearUnsaved
  BY <1>8 DEF ClearUnsaved, StartInv, processVars
<1>9. ASSUME NEW args \in CommandLines, StartProcess(args) PROVE StartInv'
  <2>1. /\ phase = "down" /\ UNCHANGED <<notified, handler>>
        /\ phase' = "serving" \/ (phase' = "starting" /\ saver' = "open")
    BY <1>9, Zenon DEF StartProcess
  <2> QED
    BY <2>1 DEF StartInv
<1>10. CASE EndProcess
  BY <1>10 DEF EndProcess, StartInv
<1>11. CASE UNCHANGED vars
  BY <1>11 DEF vars, StartInv
<1> QED
  BY <1>1, <1>2, <1>3, <1>4, <1>5, <1>6, <1>7, <1>8, <1>9, <1>10, <1>11 DEF Next, Save

\* A whole file is written before the save counts as done.
LEMMA FilePreserved == TypeOK /\ StartInv /\ FileInv /\ [Next]_vars => FileInv'
<1> SUFFICES ASSUME TypeOK, StartInv, FileInv, [Next]_vars PROVE FileInv'
  OBVIOUS
<1>1. ASSUME NEW c \in Clients, NEW i \in Items, NEW v \in Values, StartHandler(c, i, v)
      PROVE FileInv'
  BY <1>1 DEF StartHandler, FileInv, processVars, StateOf
<1>2. ASSUME NEW c \in Clients, StepHandler(c) PROVE FileInv'
  BY <1>2 DEF StepHandler, FileInv, processVars, StateOf
<1>3. CASE ReceiveNotification
  BY <1>3 DEF ReceiveNotification, FileInv
<1>4. CASE ReadItem
  BY <1>4 DEF ReadItem, FileInv
<1>5. CASE OpenFile
  BY <1>5 DEF OpenFile, Failed, FileInv
<1>6. CASE WriteFile
  BY <1>6 DEF WriteFile, Failed, FileInv, StateOf
<1>7. CASE SyncFile
  BY <1>7 DEF SyncFile, Saved, Failed, FileInv, StateOf, Whole
<1>8. CASE ClearUnsaved
  BY <1>8 DEF ClearUnsaved, FileInv, Whole
<1>9. ASSUME NEW args \in CommandLines, StartProcess(args) PROVE FileInv'
  <2>1. PICK initial : IF file = Whole(initial)
                       THEN phase' = "serving" /\ saver' = saver
                       ELSE phase' = "starting" /\ saver' = "open"
    BY <1>9, Zenon DEF StartProcess
  <2>2. saver = "receive" /\ file' = file
    BY <1>9 DEF StartProcess, StartInv
  <2> QED
    BY <2>1, <2>2 DEF FileInv, Whole
<1>10. CASE EndProcess
  BY <1>10 DEF EndProcess, FileInv
<1>11. CASE UNCHANGED vars
  BY <1>11 DEF vars, FileInv, StateOf
<1> QED
  BY <1>1, <1>2, <1>3, <1>4, <1>5, <1>6, <1>7, <1>8, <1>9, <1>10, <1>11 DEF Next, Save

\* No change is forgotten on its way to the file.
LEMMA NothingForgotten ==
  ASSUME SavedInv, [Next]_vars, phase' # "down", NEW i \in Items
  PROVE  Settled(i)' \/ Owed(i)'
<1> USE DEF SavedInv
<1>1. ASSUME NEW c \in Clients, NEW j \in Items, NEW v \in Values, StartHandler(c, j, v)
      PROVE Settled(i)' \/ Owed(i)'
  <2>1. Settled(i) => Settled(i)'
    BY <1>1 DEF StartHandler, Settled
  <2>2. Owed(i) => Owed(i)'
    BY <1>1 DEF StartHandler, Owed, Idle, TypeOK
  <2> QED
    BY <1>1, <2>1, <2>2 DEF StartHandler
<1>2. ASSUME NEW c \in Clients, StepHandler(c) PROVE Settled(i)' \/ Owed(i)'
  <2> DEFINE h == handler[c]
  <2>1. h \in [step : 1..3, item : Items, value : Values] /\ phase = "serving"
    BY <1>2 DEF StepHandler, TypeOK, Handlers, StartInv
  <2>2. h.step \in 1..3 /\ params \in [Items -> Values]
    BY <2>1 DEF TypeOK, States
  <2>3. CASE h.step = 3
    BY <1>2, <2>3 DEF StepHandler, HandlerSteps, Owed
  <2>4. CASE h.step < 3
    <3>1. handler'[c].step = h.step + 1 /\ handler'[c].item = h.item
      BY <1>2, <2>1, <2>4 DEF StepHandler, TypeOK
    <3>2. h.step + 1 > 1
      BY <2>2
    <3>3. CASE h.item = i
      BY <3>1, <3>2, <3>3 DEF Owed
    <3>4. CASE h.item # i
      <4>1. params'[i] = params[i] /\ (notified => notified')
        BY <1>2, <2>2, <2>4, <3>4 DEF StepHandler, HandlerSteps
      <4>2. Settled(i) => Settled(i)'
        BY <1>2, <4>1 DEF StepHandler, Settled
      <4>3. ASSUME NEW d \in Clients, handler[d].step > 1, handler[d].item = i
            PROVE Owed(i)'
        BY <1>2, <3>4, <4>3 DEF StepHandler, Owed, TypeOK
      <4> QED
        BY <2>1, <4>1, <4>2, <4>3 DEF Owed
    <3> QED
      BY <3>3, <3>4
  <2> QED
    BY <2>2, <2>3, <2>4
<1>3. CASE ReceiveNotification
  BY <1>3 DEF ReceiveNotification, Settled, Items, Position
<1>4. CASE ReadItem
  <2>1. /\ phase = "serving"
        /\ snapshot \in Seq(Values) /\ Len(snapshot) \in Nat /\ Len(snapshot) < 3
    BY <1>4 DEF ReadItem, StartInv, TypeOK
  <2>2. Owed(i) => Owed(i)'
    BY <1>4 DEF ReadItem, Owed
  <2>3. ASSUME Settled(i) PROVE Settled(i)'
    <3>1. Position[i] \in 1..3 /\ SaveOrder[Position[i]] = i
      BY DEF Position, SaveOrder, Items
    <3>2. /\ snapshot' = Append(snapshot, params[SaveOrder[Len(snapshot) + 1]])
          /\ params' = params /\ saver' = IF Len(snapshot') = 3 THEN "open" ELSE "read"
      BY <1>4 DEF ReadItem
    <3>3. Len(snapshot') = Len(snapshot) + 1
      BY <2>1, <3>2
    <3>4. CASE Position[i] <= Len(snapshot)
      <4>1. snapshot'[Position[i]] = snapshot[Position[i]]
        BY <2>1, <3>1, <3>2, <3>4
      <4>2. snapshot[Position[i]] = params[i]
        BY <1>4, <2>3, <3>4 DEF ReadItem, Settled
      <4> QED
        BY <3>2, <4>1, <4>2 DEF Settled
    <3>5. CASE Position[i] = Len(snapshot) + 1
      <4>1. snapshot'[Position[i]] = params[SaveOrder[Position[i]]]
        BY <2>1, <3>2, <3>5
      <4> QED
        BY <3>1, <3>2, <4>1 DEF Settled
    <3>6. CASE Position[i] > Len(snapshot) + 1
      <4>1. Len(snapshot') < Position[i] /\ saver' = "read"
        BY <2>1, <3>1, <3>2, <3>3, <3>6
      <4> QED
        BY <2>1, <3>1, <3>3, <4>1 DEF Settled
    <3> QED
      BY <2>1, <3>1, <3>4, <3>5, <3>6
  <2> QED
    BY <2>1, <2>2, <2>3
<1>5. CASE OpenFile
  BY <1>5 DEF OpenFile, Failed, Settled, Owed, StartInv
<1>6. CASE WriteFile
  BY <1>6 DEF WriteFile, Failed, Settled, Owed, StartInv
<1>7. CASE SyncFile
  <2>1. phase # "down" /\ file.state[i] = snapshot[Position[i]]
    BY <1>7 DEF SyncFile, StartInv, FileInv, Whole, StateOf
  <2> QED
    BY <1>7, <2>1 DEF SyncFile, Saved, Failed, Settled, Owed
<1>8. CASE ClearUnsaved
  <2>1. phase # "down" /\ file.state[i] = snapshot[Position[i]]
    BY <1>8 DEF ClearUnsaved, StartInv, FileInv, Whole, StateOf
  <2> QED
    BY <1>8, <2>1 DEF ClearUnsaved, Settled, Owed
<1>9. ASSUME NEW args \in CommandLines, StartProcess(args) PROVE Settled(i)' \/ Owed(i)'
  <2>1. snapshot' = [k \in 1..3 |-> params'[SaveOrder[k]]]
    BY <1>9 DEF StartProcess
  <2>4. (file = Whole(params') /\ saver' = saver) \/ saver' = "open"
    BY <1>9, Zenon DEF StartProcess
  <2>2. saver = "receive" /\ file' = file
    BY <1>9 DEF StartProcess, StartInv
  <2>3. snapshot'[Position[i]] = params'[i]
    BY <2>1 DEF Position, SaveOrder, Items
  <2> QED
    BY <2>2, <2>3, <2>4 DEF Settled, Whole
<1>10. CASE EndProcess
  BY <1>10 DEF EndProcess
<1>11. CASE UNCHANGED vars
  BY <1>11 DEF vars, Settled, Owed
<1> QED
  BY <1>1, <1>2, <1>3, <1>4, <1>5, <1>6, <1>7, <1>8, <1>9, <1>10, <1>11 DEF Next, Save

\* The inductive invariant.
LEMMA SavedInvariant == Spec => []SavedInv
<1>1. Init => SavedInv
  <2> SUFFICES ASSUME Init PROVE SavedInv
    OBVIOUS
  <2>1. Defaults \in States
    BY ValuesAssumption DEF Defaults, States
  <2>2. TypeOK
    <3>1. snapshot \in Seq(Values)
      BY DEF Init
    <3>2. file \in {Absent, Torn} \cup {Whole(t) : t \in States}
      BY <2>1 DEF Init
    <3>3. handler \in [Clients -> Handlers]
      BY DEF Init, Handlers
    <3> QED
      BY <2>1, <3>1, <3>2, <3>3 DEF Init, TypeOK
  <2>3. StartInv /\ FileInv
    BY DEF Init, StartInv, FileInv
  <2> QED
    BY <2>2, <2>3 DEF Init, SavedInv
<1>2. SavedInv /\ [Next]_vars => SavedInv'
  <2> SUFFICES ASSUME SavedInv, [Next]_vars PROVE SavedInv'
    OBVIOUS
  <2>1. TypeOK' /\ StartInv' /\ FileInv'
    BY TypePreserved, StartPreserved, FilePreserved DEF SavedInv
  <2>2. phase' # "down" => \A i \in Items : Settled(i)' \/ Owed(i)'
    BY NothingForgotten
  <2> QED
    BY <2>1, <2>2 DEF SavedInv
<1> QED
  BY <1>1, <1>2, PTL DEF Spec

\* TypeOK is an invariant of StateFile.
THEOREM StateFileTypes == Spec => []TypeOK
<1>1. SavedInv => TypeOK
  BY DEF SavedInv
<1> QED
  BY <1>1, SavedInvariant, PTL

\* Once the handlers and the saver (bin.rs, statefile.rs) are quiet, the file holds
\* the state unless its last save failed, however many clients changed it and
\* however their notifications met.
THEOREM QuietSaved == Spec => []QuietIsSaved
<1>1. SavedInv => QuietIsSaved
  <2> SUFFICES ASSUME SavedInv, Quiet, ~failed PROVE file = Whole(params)
    BY DEF QuietIsSaved
  <2>1. \A i \in Items : ~Owed(i)
    BY DEF Quiet, Owed, Idle
  <2>2. \A i \in Items : file.state[i] = params[i]
    BY <2>1 DEF SavedInv, Settled, Quiet
  <2>3. file.status = "whole"
    BY DEF SavedInv, FileInv, Quiet
  <2>4. PICK s \in States : file = Whole(s)
    BY <2>3 DEF SavedInv, TypeOK, Absent, Torn
  <2>5. s = params
    BY <2>2, <2>4 DEF SavedInv, TypeOK, States, Whole
  <2> QED
    BY <2>4, <2>5
<1> QED
  BY <1>1, SavedInvariant, PTL

-----------------------------------------------------------------------------
\* A mark that is set has a handler that is still to notify, a notification that
\* waits, or a save under way that will clear it, unless the last save failed.
MarkInv ==
  unsaved =>
    /\ phase = "serving"
    /\ \/ failed \/ notified \/ saver # "receive"
       \/ \E c \in Clients : handler[c].step = 3

\* Every step keeps it: the mark precedes the notification in HandlerSteps.
LEMMA MarkPreserved == TypeOK /\ StartInv /\ FileInv /\ MarkInv /\ [Next]_vars => MarkInv'
<1> SUFFICES ASSUME TypeOK, StartInv, FileInv, MarkInv, [Next]_vars PROVE MarkInv'
  OBVIOUS
<1>1. ASSUME NEW c \in Clients, NEW i \in Items, NEW v \in Values, StartHandler(c, i, v)
      PROVE MarkInv'
  BY <1>1 DEF StartHandler, MarkInv, processVars, TypeOK, Idle
<1>2. ASSUME NEW c \in Clients, StepHandler(c) PROVE MarkInv'
  <2> DEFINE h == handler[c]
  <2>1. h \in [step : 1..3, item : Items, value : Values] /\ phase = "serving"
    BY <1>2 DEF StepHandler, TypeOK, Handlers, StartInv
  <2>2. /\ UNCHANGED <<phase, failed, saver>>
        /\ handler' = [handler EXCEPT ![c] = IF h.step < 3 THEN [h EXCEPT !.step = @ + 1]
                                                          ELSE Idle]
    BY <1>2 DEF StepHandler, processVars
  <2>3. CASE h.step = 1
    <3>1. UNCHANGED <<unsaved, notified>>
      BY <1>2, <2>3 DEF StepHandler, HandlerSteps
    <3>2. ASSUME NEW d \in Clients, handler[d].step = 3 PROVE handler'[d].step = 3
      BY <2>2, <2>3, <3>2 DEF TypeOK
    <3> QED
      BY <2>2, <3>1, <3>2 DEF MarkInv
  <2>4. CASE h.step = 2
    <3>1. handler'[c].step = 3
      BY <2>1, <2>2, <2>4 DEF TypeOK
    <3> QED
      BY <2>1, <2>2, <3>1 DEF MarkInv
  <2>5. CASE h.step = 3
    BY <1>2, <2>1, <2>2, <2>5 DEF StepHandler, HandlerSteps, MarkInv
  <2> QED
    BY <2>1, <2>3, <2>4, <2>5
<1>3. CASE ReceiveNotification
  BY <1>3 DEF ReceiveNotification, MarkInv, processVars
<1>4. CASE ReadItem
  BY <1>4 DEF ReadItem, MarkInv, processVars
<1>5. CASE OpenFile
  BY <1>5 DEF OpenFile, Failed, MarkInv
<1>6. CASE WriteFile
  BY <1>6 DEF WriteFile, Failed, MarkInv
<1>7. CASE SyncFile
  BY <1>7 DEF SyncFile, Saved, Failed, MarkInv
<1>8. CASE ClearUnsaved
  BY <1>8 DEF ClearUnsaved, MarkInv
<1>9. ASSUME NEW args \in CommandLines, StartProcess(args) PROVE MarkInv'
  BY <1>9 DEF StartProcess, MarkInv
<1>10. CASE EndProcess
  BY <1>10 DEF EndProcess, MarkInv
<1>11. CASE UNCHANGED vars
  BY <1>11 DEF vars, MarkInv
<1> QED
  BY <1>1, <1>2, <1>3, <1>4, <1>5, <1>6, <1>7, <1>8, <1>9, <1>10, <1>11 DEF Next, Save

\* GetStateFileUpdated tells the truth once handlers and saver are quiet, unless the
\* last save failed: no change of a client, made while an older one is being saved,
\* leaves unsaved_state_change set for ever.
THEOREM QuietMarked == Spec => []QuietIsMarkedSaved
<1>1. Init => MarkInv
  BY DEF Init, MarkInv
<1>2. SavedInv /\ MarkInv /\ [Next]_vars => MarkInv'
  BY MarkPreserved DEF SavedInv
<1>3. MarkInv => QuietIsMarkedSaved
  BY DEF MarkInv, QuietIsMarkedSaved, Quiet, Idle
<1> QED
  BY <1>1, <1>2, <1>3, SavedInvariant, PTL DEF Spec
=============================================================================
