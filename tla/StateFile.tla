----------------------------- MODULE StateFile ------------------------------
(***************************************************************************)
(* Persisting the configuration path, the volumes and the mutes in the     *)
(* state file (statefile.rs): the websocket handlers that change them, the *)
(* thread that saves them, and the start of the process that loads them    *)
(* (bin.rs).  The process may end at any moment: main returns on an Exit   *)
(* command without waiting for the other threads, and it may be killed.    *)
(***************************************************************************)
EXTENDS Naturals, Sequences

CONSTANTS
  Values,      \* what an item of the state may be
  Default,     \* what it is without a state file
  Clients,     \* the websocket connections
  Options,     \* the items that may be given on the command line
  MaxChanges,  \* bound on the changes the clients make
  MaxStarts,   \* bound on the starts of the process
  WriteFaults  \* opening, writing or syncing the file may fail

\* save_state reads the items one after the other, in this order.
SaveOrder == <<"config_path", "volume", "mute">>
Position  == [config_path |-> 1, volume |-> 2, mute |-> 3]
Items == {"config_path", "volume", "mute"}
States == [Items -> Values]

ASSUME ValuesAssumption == Default \in Values
ASSUME OptionsAssumption == Options \subseteq Items
ASSUME StateFileBounds ==
  MaxChanges \in Nat /\ MaxStarts \in Nat /\ WriteFaults \in BOOLEAN

VARIABLES
  phase,     \* of the process: "down", "starting" or "serving"
  params,    \* active_config_path and ProcessingParameters
  unsaved,   \* unsaved_state_change
  notified,  \* the channel state_change_notify, of capacity 1, is full
  handler,   \* what each connection's handler is doing
  saver,     \* where the saving of the state is
  snapshot,  \* the items save_state has read so far
  file,      \* the state file
  failed,    \* history: the last save of this process has failed
  changes, starts

vars == <<phase, params, unsaved, notified, handler, saver, snapshot, file,
          failed, changes, starts>>
processVars == <<phase, starts>>

\* The state file: it is absent, torn (truncated, or written in part), or whole.
\* Its state is what a process that loads it starts from.
Defaults == [i \in Items |-> Default]
Absent   == [status |-> "absent", state |-> Defaults]
Torn     == [status |-> "torn", state |-> Defaults]
Whole(s) == [status |-> "whole", state |-> s]

\* A handler changes one item: it has the next step of HandlerSteps to do.
Idle == [step |-> 0, item |-> "none", value |-> Default]
Handlers == [step : 1..3, item : Items, value : Values] \cup {Idle}

Init ==
  /\ phase = "down" /\ starts = 0 /\ changes = 0
  /\ params = Defaults
  /\ unsaved = FALSE /\ notified = FALSE
  /\ handler = [c \in Clients |-> Idle]
  /\ saver = "receive" /\ snapshot = <<>> /\ failed = FALSE
  /\ file \in {Absent, Whole(Defaults)}

-----------------------------------------------------------------------------
\* ----------------------------- The handlers ------------------------------

\* Mutants: the saver is told before the change is made, or before it is marked.
NotifyFirst == <<"notify", "set", "mark">>
NotifyThenMark == <<"set", "notify", "mark">>

\* SetVolume, SetMute, SetConfigFilePath and the others all do the same: set the
\* item, set unsaved_state_change, notify the saver.
HandlerSteps == <<"set", "mark", "notify">>

StartHandler(c, i, v) ==
  /\ phase = "serving"
  /\ handler[c] = Idle
  /\ changes < MaxChanges
  /\ changes' = changes + 1
  /\ handler' = [handler EXCEPT ![c] = [step |-> 1, item |-> i, value |-> v]]
  /\ UNCHANGED <<processVars, params, unsaved, notified, saver, snapshot, file,
                 failed>>

\* try_send on the full channel fails, and the failure is ignored.
StepHandler(c) ==
  LET h == handler[c] IN
  /\ h # Idle
  /\ \/ /\ HandlerSteps[h.step] = "set"
        /\ params' = [params EXCEPT ![h.item] = h.value]
        /\ UNCHANGED <<unsaved, notified>>
     \/ /\ HandlerSteps[h.step] = "mark"
        /\ unsaved' = TRUE
        /\ UNCHANGED <<params, notified>>
     \/ /\ HandlerSteps[h.step] = "notify"
        /\ notified' = TRUE
        /\ UNCHANGED <<params, unsaved>>
  /\ handler' = [handler EXCEPT ![c] = IF h.step < 3 THEN [h EXCEPT !.step = @ + 1]
                                                     ELSE Idle]
  /\ UNCHANGED <<processVars, saver, snapshot, file, failed, changes>>

\* ------------------------------ The saver --------------------------------

\* Mutant: what the last save has read is still there.
ReceiveWithoutReset ==
  /\ phase = "serving" /\ saver = "receive"
  /\ notified
  /\ notified' = FALSE
  /\ saver' = "read"
  /\ UNCHANGED <<processVars, params, unsaved, handler, snapshot, file, failed, changes>>

ReceiveNotification ==
  /\ phase = "serving" /\ saver = "receive"
  /\ notified
  /\ notified' = FALSE
  /\ saver' = "read"
  /\ snapshot' = <<>>
  /\ UNCHANGED <<processVars, params, unsaved, handler, file, failed, changes>>

\* save_state: the items are read one at a time.
ReadItem ==
  /\ saver = "read"
  /\ snapshot' = Append(snapshot, params[SaveOrder[Len(snapshot) + 1]])
  /\ saver' = IF Len(snapshot') = 3 THEN "open" ELSE "read"
  /\ UNCHANGED <<processVars, params, unsaved, notified, handler, file, failed,
                 changes>>

\* The state the items read make.
StateOf(seq) == [i \in Items |-> seq[Position[i]]]

\* The result of save_state_to_file is used by save_state only.
Saved == /\ saver' = IF phase = "starting" THEN "receive" ELSE "clear"
         /\ phase' = "serving"
         /\ failed' = FALSE
Failed == /\ WriteFaults
          /\ saver' = "receive"
          /\ phase' = "serving"
          /\ failed' = TRUE

\* save_state_to_file: the file is truncated, written and synced.
OpenFile ==
  /\ saver = "open"
  /\ \/ saver' = "write" /\ file' = Torn /\ UNCHANGED <<phase, failed>>
     \/ Failed /\ UNCHANGED file
  /\ UNCHANGED <<starts, params, unsaved, notified, handler, snapshot, changes>>

WriteFile ==
  /\ saver = "write"
  /\ \/ saver' = "sync" /\ file' = Whole(StateOf(snapshot)) /\ UNCHANGED <<phase, failed>>
     \/ Failed /\ UNCHANGED file
  /\ UNCHANGED <<starts, params, unsaved, notified, handler, snapshot, changes>>

SyncFile ==
  /\ saver = "sync"
  /\ Saved \/ Failed
  /\ UNCHANGED <<starts, params, unsaved, notified, handler, snapshot, file, changes>>

\* save_state, after a save that succeeded.
ClearUnsaved ==
  /\ saver = "clear"
  /\ unsaved' = FALSE
  /\ saver' = "receive"
  /\ UNCHANGED <<processVars, params, notified, handler, snapshot, file, failed,
                 changes>>

\* -------------------------- The life of the process ----------------------

\* What a command line gives: a value for each of the items it names.
CommandLines == UNION {[given -> Values] : given \in SUBSET Options}

\* main_process: what the command line gives wins over what the file holds, and
\* the result is saved before anything else if it differs from the file.
StartProcess(args) ==
  /\ phase = "down"
  /\ starts < MaxStarts
  /\ starts' = starts + 1
  /\ failed' = FALSE
  /\ LET initial == [i \in Items |-> IF i \in DOMAIN args THEN args[i] ELSE file.state[i]]
     IN /\ params' = initial
        /\ snapshot' = [k \in 1..3 |-> initial[SaveOrder[k]]]
        /\ IF file = Whole(initial)
           THEN phase' = "serving" /\ UNCHANGED saver
           ELSE phase' = "starting" /\ saver' = "open"
  /\ UNCHANGED <<unsaved, notified, handler, file, changes>>

\* An orderly exit or a crash: all but the file is lost.
EndProcess ==
  /\ phase # "down"
  /\ phase' = "down"
  /\ unsaved' = FALSE /\ notified' = FALSE
  /\ handler' = [c \in Clients |-> Idle]
  /\ saver' = "receive" /\ snapshot' = <<>>
  /\ UNCHANGED <<params, file, failed, changes, starts>>

Save == ReceiveNotification \/ ReadItem \/ OpenFile \/ WriteFile \/ SyncFile \/ ClearUnsaved

Next ==
  \/ \E c \in Clients, i \in Items, v \in Values : StartHandler(c, i, v)
  \/ \E c \in Clients : StepHandler(c)
  \/ Save
  \/ \E args \in CommandLines : StartProcess(args)
  \/ EndProcess

\* Threads that can run do run.  Nothing makes a process end or start.
Fairness == WF_vars(Save) /\ \A c \in Clients : WF_vars(StepHandler(c))

Spec == Init /\ [][Next]_vars
FairSpec == Spec /\ Fairness

-----------------------------------------------------------------------------
\* The type invariant, with the number of items that are read at each step.
TypeOK ==
  /\ phase \in {"down", "starting", "serving"}
  /\ params \in States
  /\ unsaved \in BOOLEAN /\ notified \in BOOLEAN
  /\ handler \in [Clients -> Handlers]
  /\ saver \in {"receive", "read", "open", "write", "sync", "clear"}
  /\ snapshot \in Seq(Values)
  /\ saver = "read" => Len(snapshot) < 3
  /\ saver \in {"open", "write", "sync", "clear"} => Len(snapshot) = 3
  /\ file \in {Absent, Torn} \cup {Whole(s) : s \in States}
  /\ failed \in BOOLEAN
  /\ changes \in Nat /\ starts \in Nat

\* No handler is under way, no notification waits, and nothing is being saved.
Quiet ==
  /\ phase = "serving"
  /\ \A c \in Clients : handler[c] = Idle
  /\ ~notified
  /\ saver = "receive"

\* Once everything is quiet the file holds the state, unless the last attempt to
\* save it failed: a notification that finds the channel full may be dropped, and a
\* snapshot taken while handlers change items may mix old and new, but the last
\* word is the state as it is.
QuietIsSaved == Quiet /\ ~failed => file = Whole(params)

\* GetStateFileUpdated then says so: a handler that marks its change while an
\* older one is being saved does not leave the mark behind for ever.
QuietIsMarkedSaved == Quiet /\ ~failed => ~unsaved

\* A change reaches the file as long as the process lives and saving does not fail.
ChangesAreSaved == phase = "serving" ~> phase = "down" \/ failed \/ file = Whole(params)
=============================================================================
