--------------------------- MODULE ConfigCommands ---------------------------
(***************************************************************************)
(* The commands that set or change the configuration, or stop or end the   *)
(* program (socketserver.rs): what they read, what they check and what     *)
(* they put into the command channel of the main thread.  The main thread  *)
(* is reduced to what these handlers see of it; Supervisor models it.      *)
(***************************************************************************)
EXTENDS Naturals, Sequences

CONSTANTS
  Keys,           \* the parts of a configuration
  Parts,          \* what they may be
  BadPart,        \* a part that makes a configuration invalid
  NoConfig,       \* there is no active configuration
  Files,          \* the configuration files
  FirstFile,      \* the one given at the start
  FirstConfig,    \* what is in them at the start
  QueueCapacity   \* of the command channel

ASSUME ConfigAssumption ==
  /\ QueueCapacity \in Nat \ {0}
  /\ BadPart \in Parts
  /\ Keys # {} /\ FirstFile \in Files /\ Parts # {BadPart}

Configs == [Keys -> Parts]

VARIABLES
  activeConfig,   \* active_config
  activePath,     \* active_config_path
  content,        \* what is in the configuration files
  queue,          \* the command channel
  main,           \* what the main thread is at: "loop", waiting for a configuration or
                  \*   a command, "session", running one, or "check", in a session and
                  \*   about to look for later commands than the change it holds
  inHand,         \* what it has received and not yet acted upon
  ended           \* it has ended, the channel is disconnected

configVars == <<activeConfig, activePath, content, queue, main, inHand, ended>>

\* ControllerMessage
ConfigChanged(conf) == [type |-> "ConfigChanged", conf |-> conf]
Stop == [type |-> "Stop", conf |-> NoConfig]
Exit == [type |-> "Exit", conf |-> NoConfig]
Messages == {ConfigChanged(conf) : conf \in Configs} \cup {Stop, Exit}

\* What the main thread may hold besides a command: nothing, or the end of the session
\* that a thread has reported.
NoMessage == [type |-> "None", conf |-> NoConfig]
Ended == [type |-> "Ended", conf |-> NoConfig]

\* validate_config
Valid(conf) == \A k \in Keys : conf[k] # BadPart

ValidConfigs == {conf \in Configs : Valid(conf)}

ASSUME FirstConfigAssumption == NoConfig \notin Configs /\ FirstConfig \in ValidConfigs

InitConfig ==
  /\ activeConfig = FirstConfig
  /\ activePath = FirstFile
  /\ content = [f \in Files |-> FirstConfig]
  /\ queue = <<>>
  /\ main = "loop"
  /\ inHand = NoMessage
  /\ ended = FALSE

\* --------------------------- The main thread -----------------------------

\* With a configuration, and no commands, a session starts.
StartSession ==
  /\ main = "loop" /\ inHand = NoMessage /\ ~ended
  /\ activeConfig # NoConfig /\ queue = <<>>
  /\ main' = "session"
  /\ UNCHANGED <<activeConfig, activePath, content, queue, inHand, ended>>

\* Without either the program ends, if it was not told to wait for them.
EndIdle ==
  /\ main = "loop" /\ inHand = NoMessage /\ ~ended
  /\ activeConfig = NoConfig /\ queue = <<>>
  /\ ended' = TRUE
  /\ UNCHANGED <<activeConfig, activePath, content, queue, main, inHand>>

\* A command is received.  Handlers read the old configuration until it is published.
TakeMessage ==
  /\ main \in {"loop", "session"} /\ inHand = NoMessage /\ ~ended
  /\ queue # <<>>
  /\ queue' = Tail(queue)
  /\ inHand' = Head(queue)
  /\ main' = IF main = "session" /\ Head(queue).type = "ConfigChanged" THEN "check" ELSE main
  /\ UNCHANGED <<activeConfig, activePath, content, ended>>

\* In a session, a changed configuration is dropped if more commands are queued.
CheckQueue ==
  /\ main = "check" /\ ~ended
  /\ main' = "session"
  /\ inHand' = IF queue = <<>> THEN inHand ELSE NoMessage
  /\ UNCHANGED <<activeConfig, activePath, content, queue, ended>>

\* The change becomes the active configuration: at once if only the pipeline changes, and
\* otherwise when the threads of the session have been joined.
PublishChange ==
  /\ inHand.type = "ConfigChanged" /\ main # "check" /\ ~ended
  /\ activeConfig' = inHand.conf
  /\ inHand' = NoMessage
  /\ \/ main' = main
     \/ inHand.conf # activeConfig /\ main' = "loop"
  /\ UNCHANGED <<activePath, content, queue, ended>>

\* After a stop, and after a session that has ended by itself, there is none.  Where the
\* threads of the session are joined, some of them or all, it is cleared afterwards.
PublishStop ==
  /\ inHand.type \in {"Stop", "Ended"} /\ ~ended
  /\ activeConfig' = NoConfig
  /\ inHand' = NoMessage
  /\ main' = "loop"
  /\ UNCHANGED <<activePath, content, queue, ended>>

\* The program ends.
Leave ==
  /\ inHand.type = "Exit" /\ ~ended
  /\ ended' = TRUE
  /\ inHand' = NoMessage
  /\ main' = "loop"
  /\ UNCHANGED <<activeConfig, activePath, content, queue>>

\* The session ends by itself, at the end of a stream or with an error.
EndSession ==
  /\ main = "session" /\ inHand = NoMessage /\ ~ended
  /\ inHand' = Ended
  /\ UNCHANGED <<activeConfig, activePath, content, queue, main, ended>>

\* Its threads are gone without a report: the configuration stays, and is started again.
LoseSession ==
  /\ main = "session" /\ inHand = NoMessage /\ ~ended
  /\ main' = "loop"
  /\ UNCHANGED <<activeConfig, activePath, content, queue, inHand, ended>>

\* Somebody edits a configuration file.
EditFile(f, conf) ==
  /\ content' = [content EXCEPT ![f] = conf]
  /\ UNCHANGED <<activeConfig, activePath, queue, main, inHand, ended>>

\* ----------------------------- The handlers ------------------------------

\* Mutant: the patch is merged into the configuration in the file.
MergeIntoFile(conf, k, v) == [content[activePath] EXCEPT ![k] = v]

\* merge, and the assignment through the pointer of SetConfigValue.
Merged(conf, k, v) == [conf EXCEPT ![k] = v]

\* SetConfigFilePath: of a file that can be used.  It is not loaded.
SetConfigFilePath(f) ==
  /\ Valid(content[f])
  /\ activePath' = f
  /\ UNCHANGED <<activeConfig, content, queue, main, inHand, ended>>

\* Reload, SetConfig and SetConfigJson, and PatchConfig and SetConfigValue: the
\* configuration each of them is about to send.  An invalid one is not sent.
Reloaded == {conf \in {content[activePath]} : Valid(conf)}
Patched(k, v) ==
  IF activeConfig = NoConfig THEN {}
  ELSE {conf \in {Merged(activeConfig, k, v)} : Valid(conf)}

\* try_send: on a full channel the client is told to try again, and on a channel
\* without a receiver that the program is shutting down.
Accepts == Len(queue) < QueueCapacity /\ ~ended

TrySend(message) ==
  /\ queue' = IF Accepts THEN Append(queue, message) ELSE queue
  /\ UNCHANGED <<activeConfig, activePath, content, main, inHand, ended>>

-----------------------------------------------------------------------------
ConfigTypes ==
  /\ activeConfig \in {NoConfig} \cup ValidConfigs
  /\ activePath \in Files
  /\ content \in [Files -> Configs]
  /\ queue \in Seq(Messages) /\ Len(queue) <= QueueCapacity
  /\ \A i \in 1 .. Len(queue) : queue[i].conf # NoConfig => Valid(queue[i].conf)
  /\ main \in {"loop", "session", "check"}
  /\ inHand \in Messages \cup {NoMessage, Ended}
  /\ inHand.conf # NoConfig => Valid(inHand.conf)
  /\ ended \in BOOLEAN
=============================================================================
