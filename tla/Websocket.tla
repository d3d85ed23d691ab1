----------------------------- MODULE Websocket ------------------------------
(***************************************************************************)
(* The websocket server: a thread per connection that reads a command,     *)
(* handles it and pushes the frames of its subscriptions (socketserver.rs), *)
(* over the state it shares with the rest of the program: the faders, the  *)
(* signal levels, the spectrum and the configuration.  A handler holds no  *)
(* lock for longer than one read or one write, so the handlers of several  *)
(* connections interleave between any two of them.  Commands that only     *)
(* read are left out, and so are the replies.                              *)
(***************************************************************************)
EXTENDS Faders, Levels, Spectrum, ConfigCommands

CONSTANTS
  Changes,     \* by how much AdjustVolume changes a volume: <<up, by>>
  MaxCommands  \* bound on what is asked of the server, or of the filter

ASSUME WebsocketAssumption ==
  /\ MaxCommands \in Nat
  /\ Changes \subseteq BOOLEAN \X Nat
  /\ Kinds = {"peak", "rms"}

VARIABLES
  use,       \* what the server is used for
  commands,
  alone,     \* history: no two changes have overlapped,
  setVolume, \*   the volume the changes add up to, by fader,
  setConfig  \*   and the configuration

vars == <<faderVars, levelVars, spectrumVars, configVars, connectionVars, use, commands,
          alone, setVolume, setConfig>>
historyVars == <<alone, setVolume, setConfig>>

\* The connections are remote controls, level meters, spectrum displays or editors of
\* the configuration.  A connection may send any command.  But what the four kinds of
\* commands work on has no part in common, so that a behaviour uses one of them here.
Uses == {"remote", "meter", "display", "editor"}

Init ==
  /\ InitFaders /\ InitLevels /\ InitSpectrum /\ InitConfig /\ InitConnections
  /\ use \in Uses
  /\ commands = 0
  /\ alone = TRUE
  /\ setVolume = target
  /\ setConfig = activeConfig

\* ---------------------------- The connection -----------------------------

Ask == commands < MaxCommands /\ commands' = commands + 1

Command(c) == Idle(c) /\ Ask

\* A connection is closed, or lost: the handler ends when it reads or writes.
Close(c) ==
  /\ Idle(c) /\ Ask
  /\ connected' = connected \ {c}
  /\ OpenTopics(c)
  /\ UNCHANGED <<work, faderVars, levelVars, configVars, use, historyVars>>

Open(c) ==
  /\ c \notin connected
  /\ connected' = connected \cup {c}
  /\ OpenLevels(c)
  /\ UNCHANGED <<work, faderVars, spectrumVars, configVars, use, commands, historyVars>>

\* After a command, and at every timeout of the read.
Push(c) ==
  /\ Idle(c)
  /\ PushSpectrum(c)
  /\ UNCHANGED <<connectionVars, faderVars, levelVars, configVars, use, commands,
                 historyVars>>

\* -------------------------- The volume commands --------------------------

\* No other handler is between reading and writing the volume of the fader.
AloneOn(c, f) ==
  \A d \in Clients \ {c} : work[d].step # "adjust" \/ work[d].fader # f

VolumeChange(c, f, v) ==
  /\ alone' = (alone /\ AloneOn(c, f))
  /\ setVolume' = IF alone' THEN [setVolume EXCEPT ![f] = v] ELSE setVolume
  /\ UNCHANGED setConfig

SetVolume(c, f, v) ==
  /\ Command(c)
  /\ SetTarget(f, Clamped(v))
  /\ VolumeChange(c, f, Clamped(v))
  /\ UNCHANGED <<connectionVars, levelVars, spectrumVars, configVars, use>>

\* AdjustVolume and AdjustFaderVolume read the volume, and write it in a step of
\* its own.
AdjustVolume(c, f, change, limits) ==
  /\ Command(c)
  /\ limits[1] <= limits[2]
  /\ Begin(c, Adjusting(f, Adjusted(target[f], change[1], change[2], limits[1], limits[2])))
  /\ VolumeChange(c, f, Adjusted(setVolume[f], change[1], change[2], limits[1], limits[2]))
  /\ UNCHANGED <<faderVars, levelVars, spectrumVars, configVars, use>>

FinishAdjust(c) ==
  /\ work[c].step = "adjust"
  /\ SetTarget(work[c].fader, work[c].volume)
  /\ Done(c)
  /\ UNCHANGED <<levelVars, spectrumVars, configVars, use, commands, historyVars>>

SetExternalVolume(c, f, v) ==
  /\ Command(c)
  /\ SetTarget(f, Clamped(v))
  /\ Begin(c, External(f, Clamped(v)))
  /\ VolumeChange(c, f, Clamped(v))
  /\ UNCHANGED <<levelVars, spectrumVars, configVars, use>>

FinishExternal(c) ==
  /\ work[c].step = "external"
  /\ SetCurrent(work[c].fader, work[c].volume)
  /\ Done(c)
  /\ UNCHANGED <<levelVars, spectrumVars, configVars, use, commands, historyVars>>

Mute(c, f, m) ==
  /\ Command(c)
  /\ SetMute(f, m)
  /\ UNCHANGED <<connectionVars, levelVars, spectrumVars, configVars, use, historyVars>>

\* ------------------- The levels and the subscriptions --------------------

GetSinceLast(c, k) ==
  /\ Command(c)
  /\ SinceLast(c, k)
  /\ UNCHANGED <<connectionVars, faderVars, spectrumVars, configVars, use, historyVars>>

\* GetSignalLevelsSinceLast reads the RMS history before the peak history.
GetLevelsSinceLast(c) ==
  /\ Command(c)
  /\ SinceLast(c, "rms")
  /\ Begin(c, Reading("peak"))
  /\ UNCHANGED <<faderVars, spectrumVars, configVars, use, historyVars>>

FinishReading(c) ==
  /\ work[c].step = "read"
  /\ SinceLast(c, work[c].kind)
  /\ Done(c)
  /\ UNCHANGED <<faderVars, spectrumVars, configVars, use, commands, historyVars>>

ResetSignalPeaks(c) ==
  /\ Command(c)
  /\ ResetPeaks
  /\ UNCHANGED <<connectionVars, faderVars, spectrumVars, configVars, use, historyVars>>

Subscription(c) ==
  /\ Command(c)
  /\ \/ SubscribeSpectrum(c) \/ SubscribeEnergy(c)
     \/ UnsubscribeSpectrum(c) \/ UnsubscribeEnergy(c)
  /\ UNCHANGED <<connectionVars, faderVars, levelVars, configVars, use, historyVars>>

\* ---------------------- The configuration commands -----------------------

\* No other change is on its way to become the active configuration: in a handler, in
\* the channel or in the hands of the main thread, which has not ended either.
NobodySends(c) ==
  /\ queue = <<>> /\ inHand = NoMessage /\ ~ended
  /\ \A d \in Clients \ {c} : work[d].step # "send"

ConfigChange(c, conf) ==
  /\ alone' = (alone /\ NobodySends(c))
  /\ setConfig' = IF alone' THEN conf ELSE setConfig
  /\ UNCHANGED setVolume

\* The configuration is made and validated before it is sent: an invalid one is not.
SetConfig(c, conf) ==
  /\ Command(c)
  /\ Valid(conf)
  /\ Begin(c, Sending(ConfigChanged(conf)))
  /\ ConfigChange(c, conf)
  /\ UNCHANGED <<faderVars, levelVars, spectrumVars, configVars, use>>

Reload(c) ==
  /\ Command(c)
  /\ \E conf \in Reloaded :
       /\ Begin(c, Sending(ConfigChanged(conf)))
       /\ ConfigChange(c, conf)
  /\ UNCHANGED <<faderVars, levelVars, spectrumVars, configVars, use>>

\* PatchConfig and SetConfigValue start from the active configuration.
PatchConfig(c, k, v) ==
  /\ Command(c)
  /\ \E conf \in Patched(k, v) :
       /\ Begin(c, Sending(ConfigChanged(conf)))
       /\ ConfigChange(c, [x \in Keys |-> IF x = k THEN v ELSE setConfig[x]])
  /\ UNCHANGED <<faderVars, levelVars, spectrumVars, configVars, use>>

\* Stop and Exit.
SendCommand(c, message) ==
  /\ Command(c)
  /\ Begin(c, Sending(message))
  /\ ConfigChange(c, NoConfig)
  /\ UNCHANGED <<faderVars, levelVars, spectrumVars, configVars, use>>

FinishSending(c) ==
  /\ work[c].step = "send"
  /\ TrySend(work[c].message)
  /\ Done(c)
  /\ UNCHANGED <<faderVars, levelVars, spectrumVars, use, commands, historyVars>>

SetFilePath(c, f) ==
  /\ Command(c)
  /\ SetConfigFilePath(f)
  /\ UNCHANGED <<connectionVars, faderVars, levelVars, spectrumVars, use, historyVars>>

\* ------------------------ The rest of the program ------------------------

Chunk ==
  /\ ProcessChunk
  /\ UNCHANGED <<levelVars, spectrumVars, configVars, connectionVars, use, commands,
                 historyVars>>

Analysis ==
  /\ StartAnalysis \/ FinishAnalysis
  /\ UNCHANGED <<faderVars, levelVars, configVars, connectionVars, use, commands,
                 historyVars>>

\* A new configuration changes the filter, or the whole pipeline.
FilterChange ==
  /\ Ask
  /\ \E t \in RampTimes, l \in Limits :
       \/ \E f \in FaderNumbers : UpdateVolume(f, t, l)
       \/ RebuildVolume(t, l)
  /\ UNCHANGED <<levelVars, spectrumVars, configVars, connectionVars, use, historyVars>>

Measure ==
  /\ \E v \in LevelValues, w \in Widths : AddRecord(v, w)
  /\ UNCHANGED <<faderVars, spectrumVars, configVars, connectionVars, use, commands,
                 historyVars>>

MainThread ==
  /\ \/ StartSession \/ EndIdle \/ LoseSession
     \/ TakeMessage \/ CheckQueue \/ PublishChange \/ PublishStop \/ Leave
  /\ UNCHANGED <<faderVars, levelVars, spectrumVars, connectionVars, use, commands,
                 historyVars>>

SessionEnds ==
  /\ Ask
  /\ EndSession
  /\ alone' = (alone /\ queue = <<>> /\ \A d \in Clients : work[d].step # "send")
  /\ setConfig' = IF alone' THEN NoConfig ELSE setConfig
  /\ UNCHANGED <<faderVars, levelVars, spectrumVars, connectionVars, use, setVolume>>

FileEdited ==
  /\ Ask
  /\ \E f \in Files, conf \in Configs : EditFile(f, conf)
  /\ UNCHANGED <<faderVars, levelVars, spectrumVars, connectionVars, use, historyVars>>

-----------------------------------------------------------------------------
Remote(c) ==
  \/ \E f \in FaderNumbers, v \in Requests : SetVolume(c, f, v) \/ SetExternalVolume(c, f, v)
  \/ \E f \in FaderNumbers, m \in BOOLEAN : Mute(c, f, m)
  \/ \E f \in FaderNumbers, change \in Changes, limits \in AdjustLimits :
       AdjustVolume(c, f, change, limits)

Meter(c) ==
  \/ \E k \in Kinds : GetSinceLast(c, k)
  \/ GetLevelsSinceLast(c)
  \/ ResetSignalPeaks(c)

Editor(c) ==
  \/ \E conf \in Configs : SetConfig(c, conf)
  \/ Reload(c)
  \/ \E k \in Keys, v \in Parts : PatchConfig(c, k, v)
  \/ \E message \in {Stop, Exit} : SendCommand(c, message)
  \/ \E f \in Files : SetFilePath(c, f)

\* The second step of a command.
Continue(c) == FinishAdjust(c) \/ FinishExternal(c) \/ FinishReading(c) \/ FinishSending(c)

Next ==
  \/ \E c \in Clients : Open(c) \/ Close(c) \/ Push(c) \/ Continue(c)
  \/ /\ use = "remote"
     /\ Chunk \/ FilterChange \/ \E c \in Clients : Remote(c)
  \/ /\ use = "meter"
     /\ Measure \/ \E c \in Clients : Meter(c)
  \/ /\ use = "display"
     /\ Analysis \/ \E c \in Clients : Subscription(c)
  \/ /\ use = "editor"
     /\ MainThread \/ SessionEnds \/ FileEdited \/ \E c \in Clients : Editor(c)

Spec == Init /\ [][Next]_vars

\* The handlers run, and audio keeps coming.
Fairness ==
  /\ WF_vars(use = "remote" /\ Chunk)
  /\ \A c \in Clients : WF_vars(Continue(c)) /\ WF_vars(Push(c))

FairSpec == Spec /\ Fairness

-----------------------------------------------------------------------------
Works ==
  {Nothing}
  \cup [step : {"adjust"}, fader : FaderNumbers, volume : Settable]
  \cup {External(f, v) : f \in FaderNumbers, v \in Volumes}
  \cup {Reading(k) : k \in Kinds}
  \cup {Sending(m) : m \in Messages}

\* The type invariant of all four parts: only valid configurations are sent and
\* become active, and a volume is in the range of the settings or within the limits
\* that came with the command that adjusted it.
TypeOK ==
  /\ FaderTypes /\ LevelTypes /\ SpectrumTypes /\ ConfigTypes
  /\ connected \subseteq Clients
  /\ work \in [Clients -> Works]
  /\ use \in Uses
  /\ commands \in Nat
  /\ alone \in BOOLEAN
  /\ setVolume \in [FaderNumbers -> Settable]
  /\ setConfig \in {NoConfig} \cup Configs

\* As long as no two changes overlap, every fader and the active configuration are
\* what the changes that were asked for make, one after the other.  AdjustVolume,
\* PatchConfig and SetConfigValue read, change and write what they change: of two
\* that overlap, one is lost.  A change of the configuration lasts until the main
\* thread has published it, which it does for a change of the devices, a stop and the
\* end of a session only after joining the threads of the session: a patch that is
\* made before that starts from the old configuration and brings it back.
LoneChangesCompose ==
  alone =>
    /\ \A f \in FaderNumbers :
         (\A c \in Clients : work[c].step # "adjust" \/ work[c].fader # f)
           => target[f] = setVolume[f]
    /\ queue = <<>> /\ inHand = NoMessage /\ ~ended /\ (\A c \in Clients : work[c].step # "send")
         => activeConfig = setConfig

\* websocket.md says of AdjustVolume, as of SetVolume, that the volume is clamped to
\* the range of -150 to +50 dB, and that limits only reduce it.
SettingsInRange == \A f \in FaderNumbers : target[f] \in Volumes

\* The volume does not jump up: however a ramp is interrupted, by a new volume, a
\* mute, another fader, another limit or a new pipeline, the next chunk starts no
\* louder than the last one has ended, or than the -100 dB the ramp of a mute ends
\* at, and rises no higher than the settings ask for.  Left out are the filters that
\* are built for a fader whose current volume is not the last filter's: one that a
\* client has set, or that of a fader that no filter has followed yet.
NoJumpUp ==
  [][Chunk /\ ~foreign =>
       LET loudest == Greatest(out.last, MuteVolume)
       IN  out'.first <= loudest /\ out'.last <= Greatest(loudest, Wanted)]_vars

\* Whatever the clients did, the gain ends up at the volume, the mute and the limit
\* that are set: no ramp is left unfinished.
VolumeSettles == use = "remote" => <>[]Settled

\* A frame is sent to a client that stays subscribed, or a newer one is.
FramesArrive ==
  \A c \in Clients :
    "Spectrum" \in subscribed[c] /\ frame.seq # lastSeq[c]
      ~> "Spectrum" \notin subscribed[c] \/ frame.seq = lastSeq[c]
=============================================================================
