--------------------------- MODULE WebsocketProofs ---------------------------
(***************************************************************************)
(* The safety properties of the websocket server, for any number of        *)
(* connections, faders, records and configurations.                        *)
(*                                                                         *)
(* What a step does to the faders, the levels, the spectrum and the        *)
(* configuration is one of a few moves of that part, and an invariant of   *)
(* one part is shown over its moves.  LoneChangesCompose, which relates    *)
(* the parts to what the handlers are doing, is shown action by action.    *)
(***************************************************************************)
EXTENDS Websocket, SequenceTheorems, TLAPS

-----------------------------------------------------------------------------
\* ------------------------------- The moves --------------------------------

\* The messages that handlers may send: a configuration in them is valid.
ValidMessages == {m \in Messages : m.conf # NoConfig => Valid(m.conf)}

\* What the main thread may hold.
ValidHands == ValidMessages \cup {NoMessage, Ended}

FaderMoves ==
  \/ UNCHANGED faderVars
  \/ ProcessChunk
  \/ \E f \in FaderNumbers, t \in RampTimes, l \in Limits : UpdateVolume(f, t, l)
  \/ \E t \in RampTimes, l \in Limits : RebuildVolume(t, l)
  \/ \E f \in FaderNumbers, v \in Settable : SetTarget(f, v) \/ SetCurrent(f, v)
  \/ \E f \in FaderNumbers, m \in BOOLEAN : SetMute(f, m)

LevelMoves ==
  \/ UNCHANGED levelVars
  \/ \E v \in LevelValues, w \in Widths : AddRecord(v, w)
  \/ \E c \in Clients, k \in Kinds : SinceLast(c, k)
  \/ ResetPeaks
  \/ \E c \in Clients : OpenLevels(c)

SpectrumMoves ==
  \/ UNCHANGED spectrumVars
  \/ StartAnalysis
  \/ FinishAnalysis
  \/ \E c \in Clients : \/ SubscribeSpectrum(c) \/ SubscribeEnergy(c)
                        \/ UnsubscribeSpectrum(c) \/ UnsubscribeEnergy(c)
                        \/ PushSpectrum(c) \/ OpenTopics(c)

ConfigMoves ==
  \/ UNCHANGED configVars
  \/ StartSession \/ EndIdle \/ LoseSession \/ EndSession
  \/ TakeMessage \/ CheckQueue \/ PublishChange \/ PublishStop \/ Leave
  \/ \E f \in Files, conf \in Configs : EditFile(f, conf)
  \/ \E f \in Files : SetConfigFilePath(f)
  \/ \E m \in ValidMessages : TrySend(m)

\* A handler begins a command, or ends it.
WorkMoves ==
  /\ connected' \subseteq Clients
  /\ \/ UNCHANGED work
     \/ \E c \in Clients : work' = [work EXCEPT ![c] = Nothing]
     \/ \E c \in Clients, w \in Works :
          /\ w.step = "send" => w.message \in ValidMessages
          /\ work' = [work EXCEPT ![c] = w]

-----------------------------------------------------------------------------
\* ------------------------------- The works --------------------------------

\* What each kind of work is.
LEMMA WorkKinds ==
  ASSUME NEW w \in Works
  PROVE  /\ w.step \in {"none", "adjust", "external", "read", "send"}
         /\ w.step = "none" <=> w = Nothing
         /\ w.step = "adjust" => w.fader \in FaderNumbers /\ w.volume \in Settable
         /\ w.step = "external" => w.fader \in FaderNumbers /\ w.volume \in Volumes
         /\ w.step = "read" => w.kind \in Kinds
         /\ w.step = "send" => w.message \in Messages
  BY DEF Works, Nothing, External, Reading, Sending

\* And the works there are.
LEMMA WorksMade ==
  /\ Nothing \in Works /\ Nothing.step = "none"
  /\ \A f \in FaderNumbers, v \in Settable :
       /\ Adjusting(f, v) \in Works /\ Adjusting(f, v).step = "adjust"
       /\ Adjusting(f, v).fader = f /\ Adjusting(f, v).volume = v
  /\ \A f \in FaderNumbers, v \in Volumes :
       External(f, v) \in Works /\ External(f, v).step = "external"
  /\ \A k \in Kinds : Reading(k) \in Works /\ Reading(k).step = "read"
  /\ \A m \in Messages : /\ Sending(m) \in Works /\ Sending(m).step = "send"
                         /\ Sending(m).message = m
<1>1. Nothing \in Works /\ Nothing.step = "none"
  BY DEF Works, Nothing
<1>2. ASSUME NEW f \in FaderNumbers, NEW v \in Settable
      PROVE  /\ Adjusting(f, v) \in Works /\ Adjusting(f, v).step = "adjust"
             /\ Adjusting(f, v).fader = f /\ Adjusting(f, v).volume = v
  BY DEF Works, Adjusting
<1>3. ASSUME NEW f \in FaderNumbers, NEW v \in Volumes
      PROVE  External(f, v) \in Works /\ External(f, v).step = "external"
  BY DEF Works, External
<1>4. ASSUME NEW k \in Kinds PROVE Reading(k) \in Works /\ Reading(k).step = "read"
  BY DEF Works, Reading
<1>5. ASSUME NEW m \in Messages
      PROVE  /\ Sending(m) \in Works /\ Sending(m).step = "send"
             /\ Sending(m).message = m
  BY DEF Works, Sending
<1> QED
  BY <1>1, <1>2, <1>3, <1>4, <1>5

\* The messages, and what is in them.
LEMMA MessagesMade ==
  /\ NoConfig \notin Configs
  /\ \A conf \in Configs : /\ ConfigChanged(conf) \in Messages
                           /\ ConfigChanged(conf).conf = conf /\ conf # NoConfig
                           /\ Valid(conf) => ConfigChanged(conf) \in ValidMessages
  /\ Stop \in ValidMessages /\ Stop.conf = NoConfig
  /\ Exit \in ValidMessages /\ Exit.conf = NoConfig
  /\ \A m \in Messages : m.conf \in {NoConfig} \cup Configs
  /\ \A m \in ValidMessages : m \in Messages /\ m.conf \in {NoConfig} \cup ValidConfigs
<1>1. NoConfig \notin Configs
  BY FirstConfigAssumption
<1>2. ASSUME NEW conf \in Configs
      PROVE  /\ ConfigChanged(conf) \in Messages
             /\ ConfigChanged(conf).conf = conf /\ conf # NoConfig
  BY <1>1 DEF Messages, ConfigChanged
<1>3. ASSUME NEW conf \in Configs, Valid(conf) PROVE ConfigChanged(conf) \in ValidMessages
  BY <1>2, <1>3 DEF ValidMessages
<1>4. /\ Stop \in Messages /\ Stop.conf = NoConfig
      /\ Exit \in Messages /\ Exit.conf = NoConfig
  BY DEF Messages, Stop, Exit
<1>5. Stop \in ValidMessages /\ Exit \in ValidMessages
  BY <1>4 DEF ValidMessages
<1>6. ASSUME NEW m \in Messages PROVE m.conf \in {NoConfig} \cup Configs
  BY <1>4 DEF Messages, ConfigChanged
<1>7. ASSUME NEW m \in ValidMessages
      PROVE  m \in Messages /\ m.conf \in {NoConfig} \cup ValidConfigs
  <2>1. m \in Messages /\ (m.conf # NoConfig => Valid(m.conf))
    BY DEF ValidMessages
  <2> QED
    BY <1>6, <2>1 DEF ValidConfigs
<1> QED
  BY <1>1, <1>2, <1>3, <1>4, <1>5, <1>6, <1>7

\* What the main thread holds is a valid change, or has no configuration.
LEMMA HandsMade ==
  ASSUME NEW m \in ValidHands
  PROVE  /\ m \in Messages \cup {NoMessage, Ended}
         /\ m.conf \in {NoConfig} \cup ValidConfigs
         /\ m.conf # NoConfig => Valid(m.conf)
         /\ m.type \in {"ConfigChanged", "Stop", "Exit", "None", "Ended"}
         /\ m.type = "ConfigChanged" => m \in ValidMessages /\ m.conf \in ValidConfigs
         /\ m.type # "ConfigChanged" => m.conf = NoConfig
         /\ m.type = "None" <=> m = NoMessage
<1>1. CASE m \in ValidMessages
  <2>1. m \in Messages /\ m.conf \in {NoConfig} \cup ValidConfigs /\ (m.conf # NoConfig => Valid(m.conf))
    BY <1>1, MessagesMade DEF ValidMessages
  <2>2. (\E conf \in Configs : m = ConfigChanged(conf)) \/ m = Stop \/ m = Exit
    BY <2>1 DEF Messages
  <2>3. ASSUME NEW conf \in Configs, m = ConfigChanged(conf)
        PROVE  m.type = "ConfigChanged" /\ m.conf = conf /\ conf # NoConfig /\ m # NoMessage
    BY <2>3, MessagesMade DEF ConfigChanged, NoMessage
  <2>4. ASSUME m = Stop \/ m = Exit
        PROVE  m.type \in {"Stop", "Exit"} /\ m.conf = NoConfig /\ m # NoMessage
    BY <2>4 DEF Stop, Exit, NoMessage
  <2> QED
    BY <1>1, <2>1, <2>2, <2>3, <2>4
<1>2. CASE m \in {NoMessage, Ended}
  BY <1>2 DEF NoMessage, Ended
<1> QED
  BY <1>1, <1>2 DEF ValidHands

-----------------------------------------------------------------------------
\* ------------------------------ The volumes -------------------------------

\* A volume that is asked for ends up in the range of the settings, and one that is
\* adjusted within the limits that come with the command.
LEMMA ClampedVolumes ==
  /\ \A v \in Requests : Clamped(v) \in Volumes
  /\ Volumes \subseteq Settable /\ Settable \subseteq Nat \ {0}
  /\ \A v \in Nat, change \in BOOLEAN \X Nat, limits \in AdjustLimits :
       limits[1] <= limits[2]
         => Adjusted(v, change[1], change[2], limits[1], limits[2]) \in Settable
<1>1. /\ MinVolume \in Nat \ {0} /\ MaxVolume \in Nat /\ MinVolume <= MaxVolume /\ Requests \subseteq Nat
      /\ \A limits \in AdjustLimits : limits[1] \in Nat \ {0} /\ limits[2] \in Nat
  BY VolumeAssumption DEF Volumes
<1>2. \A v \in Requests : Clamped(v) \in Volumes
  BY <1>1 DEF Clamped, Least, Greatest, Volumes
<1>3. Volumes \subseteq Settable
  BY DEF Settable
<1>4. Settable \subseteq Nat \ {0}
  <2>1. Volumes \subseteq Nat \ {0}
    BY <1>1 DEF Volumes
  <2>2. \A limits \in AdjustLimits : limits[1] .. limits[2] \subseteq Nat \ {0}
    BY <1>1
  <2> QED
    BY <2>1, <2>2 DEF Settable
<1>5. ASSUME NEW v \in Nat, NEW change \in BOOLEAN \X Nat, NEW limits \in AdjustLimits,
             limits[1] <= limits[2]
      PROVE  Adjusted(v, change[1], change[2], limits[1], limits[2]) \in Settable
  <2> DEFINE a == Adjusted(v, change[1], change[2], limits[1], limits[2])
  <2>1. /\ limits[1] \in Nat /\ limits[2] \in Nat
        /\ change[1] \in BOOLEAN /\ change[2] \in Nat
    BY <1>1
  <2>2. a \in limits[1] .. limits[2]
    BY <1>5, <2>1 DEF Adjusted, Least, Greatest
  <2> QED
    BY <2>2 DEF Settable
<1> QED
  BY <1>2, <1>3, <1>4, <1>5

\* The steps of a ramp: a part of the way that is not more than all of it.
LEMMA PartOfTheWay ==
  ASSUME NEW a \in Nat, NEW r \in Nat \ {0}, NEW k \in 0..r
  PROVE  /\ (a * k) \div r \in Nat /\ (a * k) \div r <= a
         /\ k = 0 => (a * k) \div r = 0
         /\ k = r => (a * k) \div r = a
<1> DEFINE q == (a * k) \div r
<1>1. a * k \in Nat /\ a * k <= a * r /\ a * r \in Nat
  OBVIOUS
<1>2. q \in Nat /\ q * r <= a * k /\ a * k < (q + 1) * r
  BY <1>1
<1>3. q <= a
  <2>1. q * r <= a * r
    BY <1>1, <1>2
  <2> HIDE DEF q
  <2> QED
    BY <2>1, <1>2
<1>4. k = 0 => q = 0
  OBVIOUS
<1>5. k = r => q = a
  OBVIOUS
<1> QED
  BY <1>2, <1>3, <1>4, <1>5

\* A volume on the way of a ramp lies between its ends, which it leaves from and
\* arrives at.
LEMMA OnTheWay ==
  ASSUME NEW v \in VolumeStates, NEW k \in 0..v.ramptime, v.ramptime > 0
  PROVE  /\ RampAt(v, k) \in Nat \ {0}
         /\ k = 0 => RampAt(v, k) = v.start
         /\ k = v.ramptime => RampAt(v, k) = IF v.mute THEN MuteVolume ELSE v.target
<1> DEFINE end == IF v.mute THEN MuteVolume ELSE v.target
<1>1. /\ v.start \in Nat \ {0} /\ v.target \in Nat \ {0} /\ v.ramptime \in Nat \ {0}
      /\ MuteVolume \in Nat \ {0}
  <2>1. v.ramptime \in RampTimes /\ v.ramptime \in Nat
    BY VolumeAssumption DEF VolumeStates
  <2>2. MuteVolume \in Nat \ {0}
    BY VolumeAssumption, ClampedVolumes
  <2> QED
    BY <2>1, <2>2 DEF VolumeStates
<1>2. end \in Nat \ {0}
  BY <1>1
<1>3. RampAt(v, k) = IF end >= v.start THEN v.start + ((end - v.start) * k) \div v.ramptime
                                       ELSE v.start - ((v.start - end) * k) \div v.ramptime
  BY DEF RampAt
<1> HIDE DEF end
<1>4. CASE end >= v.start
  <2>1. end - v.start \in Nat
    BY <1>1, <1>2, <1>4
  <2>2. LET d == ((end - v.start) * k) \div v.ramptime IN
        /\ d \in Nat /\ d <= end - v.start
        /\ k = 0 => d = 0
        /\ k = v.ramptime => d = end - v.start
    BY <1>1, <2>1, PartOfTheWay
  <2> QED
    BY <1>1, <1>2, <1>3, <1>4, <2>2 DEF end
<1>5. CASE ~(end >= v.start)
  <2>1. v.start - end \in Nat
    BY <1>1, <1>2, <1>5
  <2>2. LET d == ((v.start - end) * k) \div v.ramptime IN
        /\ d \in Nat /\ d <= v.start - end
        /\ k = 0 => d = 0
        /\ k = v.ramptime => d = v.start - end
    BY <1>1, <2>1, PartOfTheWay
  <2> QED
    BY <1>1, <1>2, <1>3, <1>5, <2>2 DEF end
<1> QED
  BY <1>4, <1>5

\* The steps of a ramp go in one direction.
LEMMA StepsGrow ==
  ASSUME NEW a \in Nat, NEW r \in Nat \ {0}, NEW k \in 1..r
  PROVE  (a * (k - 1)) \div r <= (a * k) \div r
<1> DEFINE p == (a * (k - 1)) \div r
           q == (a * k) \div r
<1>1. a * (k - 1) \in Nat /\ a * k \in Nat /\ a * (k - 1) <= a * k
  <2>1. a * k = a * (k - 1) + a
    OBVIOUS
  <2>2. a * (k - 1) \in Nat
    OBVIOUS
  <2> QED
    BY <2>1, <2>2
<1>2. p \in Nat /\ p * r <= a * (k - 1)
  BY <1>1
<1>3. q \in Nat /\ a * k < (q + 1) * r
  BY <1>1
<1> HIDE DEF p, q
<1>4. p * r < (q + 1) * r /\ p * r \in Nat /\ (q + 1) * r \in Nat
  BY <1>1, <1>2, <1>3
<1>5. p < q + 1
  BY <1>2, <1>3, <1>4
<1> QED
  BY <1>2, <1>3, <1>5 DEF p, q

\* So that no step of a ramp is louder than both the one before and the end.
LEMMA NextOnTheWay ==
  ASSUME NEW v \in VolumeStates, NEW k \in 1..v.ramptime
  PROVE  RampAt(v, k) <= Greatest(RampAt(v, k - 1), IF v.mute THEN MuteVolume ELSE v.target)
<1> DEFINE end == IF v.mute THEN MuteVolume ELSE v.target
<1>1. /\ v.start \in Nat /\ v.target \in Nat /\ v.ramptime \in Nat \ {0}
      /\ MuteVolume \in Nat /\ k - 1 \in 0..v.ramptime /\ k \in 0..v.ramptime
  <2>1. v.ramptime \in RampTimes /\ v.ramptime \in Nat
    BY VolumeAssumption DEF VolumeStates
  <2>2. MuteVolume \in Nat
    BY VolumeAssumption, ClampedVolumes
  <2> QED
    BY <2>1, <2>2 DEF VolumeStates
<1>2. end \in Nat
  BY <1>1
<1>3. \A n \in {k - 1, k} :
        RampAt(v, n) = IF end >= v.start THEN v.start + ((end - v.start) * n) \div v.ramptime
                                         ELSE v.start - ((v.start - end) * n) \div v.ramptime
  BY DEF RampAt
<1>4. RampAt(v, k) \in Nat /\ RampAt(v, k - 1) \in Nat
  BY <1>1, OnTheWay
<1> HIDE DEF end
<1>5. CASE end >= v.start
  <2>1. end - v.start \in Nat
    BY <1>1, <1>2, <1>5
  <2>2. LET d == ((end - v.start) * k) \div v.ramptime IN d \in Nat /\ d <= end - v.start
    BY <1>1, <2>1, PartOfTheWay
  <2>3. RampAt(v, k) <= end
    BY <1>1, <1>2, <1>3, <1>5, <2>2
  <2> QED
    BY <1>2, <1>4, <2>3 DEF Greatest, end
<1>6. CASE ~(end >= v.start)
  <2>1. v.start - end \in Nat
    BY <1>1, <1>2, <1>6
  <2>2. LET c == ((v.start - end) * (k - 1)) \div v.ramptime
            d == ((v.start - end) * k) \div v.ramptime
        IN  c \in Nat /\ d \in Nat /\ c <= d
    BY <1>1, <2>1, PartOfTheWay, StepsGrow
  <2>3. RampAt(v, k) <= RampAt(v, k - 1)
    BY <1>1, <1>3, <1>6, <2>2
  <2> QED
    BY <1>2, <1>4, <2>3 DEF Greatest, end
<1> QED
  BY <1>5, <1>6

-----------------------------------------------------------------------------
\* ------------------------------- The faders -------------------------------

\* A filter that follows the settings is still one.
LEMMA Prepared ==
  ASSUME FaderTypes
  PROVE  /\ Prepare(volume) \in VolumeStates
         /\ Prepare(volume).fader = volume.fader
         /\ Prepare(volume).ramptime = volume.ramptime
<1> DEFINE v == volume
           wanted == Least(target[v.fader], v.limit)
<1>1. /\ v \in VolumeStates /\ v.fader \in FaderNumbers
      /\ target[v.fader] \in Nat \ {0} /\ mute[v.fader] \in BOOLEAN
      /\ v.limit \in Nat \ {0} /\ Unity \in Nat \ {0} /\ v.ramptime \in Nat
  <2>1. v \in VolumeStates
    BY DEF FaderTypes
  <2>2. v.fader \in FaderNumbers /\ v.limit \in Limits /\ v.ramptime \in RampTimes
    BY <2>1 DEF VolumeStates
  <2>3. Volumes \subseteq Nat \ {0} /\ Settable \subseteq Nat \ {0}
    BY ClampedVolumes
  <2> QED
    BY <2>1, <2>2, <2>3, VolumeAssumption DEF FaderTypes
<1>2. wanted \in Nat \ {0}
  BY <1>1 DEF Least
<1>3. BeginRamp(v) \in VolumeStates /\ BeginRamp(v).fader = v.fader
      /\ BeginRamp(v).ramptime = v.ramptime
  BY <1>1 DEF BeginRamp, VolumeStates
<1>4. Switch(v) \in VolumeStates /\ Switch(v).fader = v.fader
      /\ Switch(v).ramptime = v.ramptime
  BY <1>1, <1>2 DEF Switch, VolumeStates
<1>5. Prepare(v) = IF wanted = v.target /\ mute[v.fader] = v.mute THEN v
                   ELSE [(IF v.ramptime > 0 THEN BeginRamp(v) ELSE Switch(v))
                           EXCEPT !.target = wanted, !.mute = mute[v.fader]]
  BY DEF Prepare
<1>6. ASSUME NEW u \in VolumeStates
      PROVE  /\ [u EXCEPT !.target = wanted, !.mute = mute[v.fader]] \in VolumeStates
             /\ [u EXCEPT !.target = wanted, !.mute = mute[v.fader]].fader = u.fader
             /\ [u EXCEPT !.target = wanted, !.mute = mute[v.fader]].ramptime = u.ramptime
  BY <1>1, <1>2 DEF VolumeStates
<1> HIDE DEF wanted, v
<1>7. CASE wanted = v.target /\ mute[v.fader] = v.mute
  BY <1>1, <1>5, <1>7 DEF v
<1>8. CASE ~(wanted = v.target /\ mute[v.fader] = v.mute) /\ v.ramptime > 0
  BY <1>3, <1>5, <1>6, <1>8 DEF v
<1>9. CASE ~(wanted = v.target /\ mute[v.fader] = v.mute) /\ ~(v.ramptime > 0)
  BY <1>4, <1>5, <1>6, <1>9 DEF v
<1> QED
  BY <1>7, <1>8, <1>9

\* A new filter.
LEMMA NewFilter ==
  ASSUME FaderTypes, NEW f \in FaderNumbers, NEW t \in RampTimes, NEW l \in Limits
  PROVE  /\ NewVolume(f, t, l) \in VolumeStates
         /\ NewVolume(f, t, l).step = 0 /\ NewVolume(f, t, l).target = current[f]
         /\ NewVolume(f, t, l).mute = mute[f]
         /\ NewVolume(f, t, l).current = IF mute[f] THEN MuteVolume ELSE current[f]
         /\ NewVolume(f, t, l).ramptime = t
<1>1. MuteVolume \in Nat \ {0}
  BY VolumeAssumption, ClampedVolumes
<1> QED
  BY <1>1 DEF NewVolume, VolumeStates, FaderTypes

\* What a chunk does: no ramp, a step of one, or none of its steps any more.
LEMMA ChunkSteps ==
  ASSUME FaderTypes, ProcessChunk
  PROVE  LET v == Prepare(volume) IN
         \/ /\ v.step = 0 /\ volume' = v
            /\ out' = [first |-> LinearGain(v), last |-> LinearGain(v)]
         \/ /\ v.step \in 1..v.ramptime
            /\ out' = [first |-> RampAt(v, v.step - 1), last |-> RampAt(v, v.step)]
            /\ volume' = [v EXCEPT !.step = IF v.step = v.ramptime THEN 0 ELSE v.step + 1,
                                   !.current = RampAt(v, v.step)]
         \/ /\ v.step > v.ramptime /\ volume' = v
            /\ out' = [first |-> Unity, last |-> Unity]
<1> DEFINE v == Prepare(volume)
<1>1. v \in VolumeStates
  BY Prepared
<1>2. [NextStep(v) EXCEPT !.current = RampAt(v, v.step)]
        = [v EXCEPT !.step = IF v.step = v.ramptime THEN 0 ELSE v.step + 1,
                    !.current = RampAt(v, v.step)]
  BY <1>1 DEF NextStep, VolumeStates
<1> QED
  BY <1>2 DEF ProcessChunk

\* The faders keep their types.
LEMMA ChunkTyped == FaderTypes /\ ProcessChunk => FaderTypes'
<1> SUFFICES ASSUME FaderTypes, ProcessChunk PROVE FaderTypes'
  OBVIOUS
<1> DEFINE v == Prepare(volume)
<1>1. v \in VolumeStates /\ v.fader \in FaderNumbers /\ v.ramptime \in Nat /\ v.step \in Nat
  <2>1. v \in VolumeStates
    BY Prepared
  <2>2. v.ramptime \in RampTimes
    BY <2>1 DEF VolumeStates
  <2> QED
    BY <2>1, <2>2, VolumeAssumption DEF VolumeStates
<1>2. Unity \in Nat \ {0} /\ LinearGain(v) \in Nat
  <2>1. Unity \in Nat \ {0}
    BY VolumeAssumption, ClampedVolumes
  <2> QED
    BY <1>1, <2>1 DEF LinearGain, Silence, VolumeStates
<1>3. volume' \in VolumeStates /\ out' \in [first : Nat, last : Nat]
  <2> HIDE DEF v
  <2>1. CASE v.step = 0 /\ volume' = v /\ out' = [first |-> LinearGain(v), last |-> LinearGain(v)]
    BY <1>1, <1>2, <2>1
  <2>2. CASE /\ v.step \in 1..v.ramptime
             /\ out' = [first |-> RampAt(v, v.step - 1), last |-> RampAt(v, v.step)]
             /\ volume' = [v EXCEPT !.step = IF v.step = v.ramptime THEN 0 ELSE v.step + 1,
                                    !.current = RampAt(v, v.step)]
    <3>1. v.ramptime > 0 /\ v.step \in 0..v.ramptime /\ v.step - 1 \in 0..v.ramptime
      BY <1>1, <2>2
    <3>2. RampAt(v, v.step) \in Nat \ {0} /\ RampAt(v, v.step - 1) \in Nat \ {0}
      BY <1>1, <3>1, OnTheWay
    <3>3. (IF v.step = v.ramptime THEN 0 ELSE v.step + 1) \in Nat
      BY <1>1
    <3> QED
      BY <1>1, <2>2, <3>2, <3>3 DEF VolumeStates
  <2>3. CASE v.step > v.ramptime /\ volume' = v /\ out' = [first |-> Unity, last |-> Unity]
    BY <1>1, <1>2, <2>3
  <2> QED
    BY <2>1, <2>2, <2>3, ChunkSteps DEF v
<1>4. current' \in [FaderNumbers -> Nat \ {0}]
  <2>1. current' = [current EXCEPT ![v.fader] = volume'.current]
    BY DEF ProcessChunk
  <2>2. volume'.current \in Nat \ {0}
    BY <1>3 DEF VolumeStates
  <2> QED
    BY <1>1, <2>1, <2>2 DEF FaderTypes
<1> QED
  BY <1>3, <1>4 DEF ProcessChunk, FaderTypes

LEMMA FadersTyped == FaderTypes /\ FaderMoves => FaderTypes'
<1> SUFFICES ASSUME FaderTypes, FaderMoves PROVE FaderTypes'
  OBVIOUS
<1>1. CASE UNCHANGED faderVars
  BY <1>1 DEF faderVars, FaderTypes
<1>2. CASE ProcessChunk
  BY <1>2, ChunkTyped
<1>3. ASSUME NEW f \in FaderNumbers, NEW t \in RampTimes, NEW l \in Limits, UpdateVolume(f, t, l)
      PROVE  FaderTypes'
  <2>1. l \in Nat \ {0}
    BY VolumeAssumption, ClampedVolumes
  <2>2. Least(volume.current, l) \in Nat \ {0}
    BY <2>1 DEF Least, FaderTypes, VolumeStates
  <2> QED
    BY <1>3, <2>2 DEF UpdateVolume, FaderTypes, VolumeStates
<1>4. ASSUME NEW t \in RampTimes, NEW l \in Limits, RebuildVolume(t, l) PROVE FaderTypes'
  <2>1. volume.fader \in FaderNumbers
    BY DEF FaderTypes, VolumeStates
  <2>2. (foreign \/ current[volume.fader] # volume.current) \in BOOLEAN
    OBVIOUS
  <2> QED
    BY <1>4, <2>1, <2>2, NewFilter DEF RebuildVolume, FaderTypes
<1>5. ASSUME NEW f \in FaderNumbers, NEW v \in Settable, SetTarget(f, v) \/ SetCurrent(f, v)
      PROVE  FaderTypes'
  BY <1>5, ClampedVolumes DEF SetTarget, SetCurrent, FaderTypes
<1>6. ASSUME NEW f \in FaderNumbers, NEW m \in BOOLEAN, SetMute(f, m) PROVE FaderTypes'
  BY <1>6 DEF SetMute, FaderTypes
<1> QED
  BY <1>1, <1>2, <1>3, <1>4, <1>5, <1>6 DEF FaderMoves

-----------------------------------------------------------------------------
\* ------------------------------- The ramps --------------------------------

\* The ramp time of the filter is not changed while it runs.
OneRampTime == \A s, t \in RampTimes : s = t /\ t > 0

\* The last chunk, or the -100 dB that count as silence.
Loudest == Greatest(out.last, MuteVolume)

\* Wherever the next chunk may start from, it is no louder than the last one has
\* ended: at the volume that is reached, at the next step of the ramp, or, without a
\* ramp, at the target.
RampInv ==
  /\ volume.step \in 0..volume.ramptime
  /\ ~foreign =>
       /\ volume.current <= Loudest
       /\ volume.step > 0 => RampAt(volume, volume.step - 1) <= Loudest
       /\ volume.step = 0 /\ volume.mute => volume.current <= MuteVolume
       /\ volume.step = 0 /\ ~volume.mute =>
            /\ volume.target <= Loudest
            /\ volume.current <= Greatest(volume.target, MuteVolume)

LEMMA VolumeNumbers ==
  ASSUME FaderTypes, OneRampTime
  PROVE  /\ volume.current \in Nat \ {0} /\ volume.target \in Nat \ {0}
         /\ volume.start \in Nat \ {0} /\ volume.step \in Nat
         /\ volume.ramptime \in RampTimes /\ volume.ramptime \in Nat \ {0}
         /\ volume.mute \in BOOLEAN /\ volume.fader \in FaderNumbers
         /\ MuteVolume \in Nat \ {0} /\ out.last \in Nat /\ Loudest \in Nat
<1>1. volume \in VolumeStates /\ out.last \in Nat
  BY DEF FaderTypes
<1>2. volume.ramptime \in RampTimes /\ volume.ramptime \in Nat \ {0}
  <2>1. volume.ramptime \in RampTimes
    BY <1>1 DEF VolumeStates
  <2>2. volume.ramptime \in Nat
    BY <2>1, VolumeAssumption
  <2>3. volume.ramptime > 0
    BY <2>1 DEF OneRampTime
  <2> QED
    BY <2>1, <2>2, <2>3
<1>3. MuteVolume \in Nat \ {0}
  BY VolumeAssumption, ClampedVolumes
<1>4. Loudest \in Nat
  BY <1>1, <1>3 DEF Loudest, Greatest
<1> QED
  BY <1>1, <1>2, <1>3, <1>4 DEF VolumeStates

\* A ramp that is begun, or interrupted, leaves from the volume that is reached.
LEMMA PreparedRamp ==
  ASSUME FaderTypes, OneRampTime
  PROVE  LET v == Prepare(volume) IN
         \/ v = volume
         \/ v.step = 1 /\ v.start = volume.current /\ v.current = volume.current
<1> DEFINE wanted == Least(target[volume.fader], volume.limit)
<1>1. volume \in VolumeStates /\ volume.ramptime > 0
  BY VolumeNumbers DEF FaderTypes
<1>2. CASE wanted = volume.target /\ mute[volume.fader] = volume.mute
  BY <1>2 DEF Prepare
<1>3. CASE ~(wanted = volume.target /\ mute[volume.fader] = volume.mute)
  <2>1. Prepare(volume) = [BeginRamp(volume) EXCEPT !.target = wanted, !.mute = mute[volume.fader]]
    BY <1>1, <1>3 DEF Prepare
  <2>2. BeginRamp(volume) = [volume EXCEPT !.start = volume.current, !.step = 1]
    BY DEF BeginRamp
  <2> HIDE DEF wanted
  <2> QED
    BY <1>1, <2>1, <2>2 DEF VolumeStates
<1> QED
  BY <1>2, <1>3

\* And it goes where the settings ask for.
LEMMA PreparedEnd ==
  ASSUME FaderTypes, OneRampTime
  PROVE  LET v == Prepare(volume) IN
         v.mute = mute[volume.fader] /\ v.target = Least(target[volume.fader], volume.limit)
<1> DEFINE wanted == Least(target[volume.fader], volume.limit)
<1>1. volume \in VolumeStates /\ volume.ramptime > 0
  BY VolumeNumbers DEF FaderTypes
<1>2. CASE wanted = volume.target /\ mute[volume.fader] = volume.mute
  BY <1>2 DEF Prepare
<1>3. CASE ~(wanted = volume.target /\ mute[volume.fader] = volume.mute)
  <2>1. Prepare(volume) = [BeginRamp(volume) EXCEPT !.target = wanted, !.mute = mute[volume.fader]]
    BY <1>1, <1>3 DEF Prepare
  <2>2. BeginRamp(volume) = [volume EXCEPT !.start = volume.current, !.step = 1]
    BY DEF BeginRamp
  <2> HIDE DEF wanted
  <2> QED
    BY <1>1, <2>1, <2>2 DEF VolumeStates, wanted
<1> QED
  BY <1>2, <1>3

\* So that the next chunk starts no louder than the last one has ended.
LEMMA FirstGain ==
  ASSUME FaderTypes, OneRampTime, RampInv
  PROVE  LET v == Prepare(volume) IN
         /\ v \in VolumeStates /\ v.ramptime = volume.ramptime
         /\ v.step \in 0..v.ramptime
         /\ v.step = 0 => v = volume
         /\ ~foreign /\ v.step = 0 => LinearGain(v) <= Loudest
         /\ ~foreign /\ v.step > 0 => RampAt(v, v.step - 1) <= Loudest
<1> DEFINE v == Prepare(volume)
<1>1. v \in VolumeStates /\ v.ramptime = volume.ramptime
  BY Prepared
<1>2. CASE v = volume
  <2>1. LinearGain(volume) = IF volume.mute THEN 0 ELSE volume.target
    BY DEF LinearGain, Silence
  <2> QED
    BY <1>1, <1>2, <2>1, VolumeNumbers DEF RampInv
<1>3. CASE v.step = 1 /\ v.start = volume.current /\ v.current = volume.current
  <2>1. v.ramptime > 0 /\ 0 \in 0..v.ramptime /\ 1 \in 0..v.ramptime
    BY <1>1, VolumeNumbers
  <2>2. RampAt(v, 0) = volume.current
    BY <1>1, <1>3, <2>1, OnTheWay
  <2> QED
    BY <1>1, <1>3, <2>1, <2>2 DEF RampInv
<1> QED
  BY <1>2, <1>3, PreparedRamp

\* A ramp of which only the step or the volume that is reached changes.
LEMMA SameRamp ==
  ASSUME NEW v, NEW w, w.start = v.start, w.target = v.target, w.mute = v.mute,
         w.ramptime = v.ramptime, NEW k
  PROVE  RampAt(w, k) = RampAt(v, k)
  BY DEF RampAt

LEMMA ChunkKeepsRamp ==
  ASSUME FaderTypes, OneRampTime, RampInv, ProcessChunk
  PROVE  RampInv'
<1> DEFINE v == Prepare(volume)
<1>1. /\ v \in VolumeStates /\ v.ramptime = volume.ramptime
      /\ v.step \in 0..v.ramptime
      /\ v.step = 0 => v = volume
  BY FirstGain
<1>2. foreign' = foreign
  BY DEF ProcessChunk
<1>3. v.ramptime \in Nat \ {0} /\ MuteVolume \in Nat \ {0} /\ v.target \in Nat \ {0}
  BY <1>1, VolumeNumbers DEF VolumeStates
<1>4. Loudest' = Greatest(out'.last, MuteVolume)
  BY DEF Loudest
<1> HIDE DEF v
<1>5. CASE v.step = 0 /\ volume' = v /\ out' = [first |-> LinearGain(v), last |-> LinearGain(v)]
  <2>1. v = volume /\ volume' = volume
    BY <1>1, <1>5
  <2>2. out'.last = IF volume.mute THEN 0 ELSE volume.target
    BY <1>5, <2>1 DEF LinearGain, Silence
  <2>3. Loudest' = IF volume.mute THEN MuteVolume ELSE Greatest(volume.target, MuteVolume)
    BY <1>3, <1>4, <2>2 DEF Greatest
  <2>4. ~foreign => volume.current <= Loudest' /\ (~volume.mute => volume.target <= Loudest')
    BY <1>5, <2>1, <2>3, VolumeNumbers DEF RampInv, Greatest
  <2> QED
    BY <1>2, <1>5, <2>1, <2>4 DEF RampInv
<1>6. CASE /\ v.step \in 1..v.ramptime
           /\ out' = [first |-> RampAt(v, v.step - 1), last |-> RampAt(v, v.step)]
           /\ volume' = [v EXCEPT !.step = IF v.step = v.ramptime THEN 0 ELSE v.step + 1,
                                  !.current = RampAt(v, v.step)]
  <2>1. /\ volume'.current = RampAt(v, v.step) /\ volume'.start = v.start
        /\ volume'.target = v.target /\ volume'.mute = v.mute /\ volume'.ramptime = v.ramptime
        /\ volume'.step = IF v.step = v.ramptime THEN 0 ELSE v.step + 1
        /\ out'.last = RampAt(v, v.step)
    BY <1>1, <1>6 DEF VolumeStates
  <2>2. /\ RampAt(v, v.step) \in Nat \ {0}
        /\ v.step = v.ramptime => RampAt(v, v.step) = IF v.mute THEN MuteVolume ELSE v.target
    BY <1>1, <1>3, OnTheWay
  <2>3. Loudest' \in Nat /\ RampAt(v, v.step) <= Loudest' /\ MuteVolume <= Loudest'
    BY <1>3, <1>4, <2>1, <2>2 DEF Greatest
  <2>4. CASE v.step = v.ramptime
    <3>1. volume'.step = 0
      BY <2>1, <2>4
    <3>2. volume'.current = IF v.mute THEN MuteVolume ELSE v.target
      BY <2>1, <2>2, <2>4
    <3>3. v.target <= Greatest(v.target, MuteVolume)
      BY <1>3 DEF Greatest
    <3> QED
      BY <1>2, <1>3, <2>1, <2>3, <3>1, <3>2, <3>3 DEF RampInv
  <2>5. CASE v.step # v.ramptime
    <3>1. volume'.step = v.step + 1 /\ volume'.step > 0 /\ volume'.step - 1 = v.step
          /\ volume'.step \in 0..volume'.ramptime
      BY <1>1, <1>3, <2>1, <2>5
    <3>2. RampAt(volume', v.step) = RampAt(v, v.step)
      BY <2>1, SameRamp
    <3>3. RampAt(volume, volume.step - 1)' = RampAt(volume', volume'.step - 1)
      BY DEF RampAt
    <3> QED
      BY <1>2, <2>1, <2>3, <3>1, <3>2, <3>3 DEF RampInv
  <2> QED
    BY <2>4, <2>5
<1>7. ~(v.step > v.ramptime)
  BY <1>1, <1>3
<1> QED
  BY <1>5, <1>6, <1>7, ChunkSteps DEF v

LEMMA UpdateKeepsRamp ==
  ASSUME FaderTypes, OneRampTime, RampInv,
         NEW f \in FaderNumbers, NEW t \in RampTimes, NEW l \in Limits, UpdateVolume(f, t, l)
  PROVE  RampInv'
<1>1. /\ volume'.start = volume.start /\ volume'.target = volume.target
      /\ volume'.mute = volume.mute /\ volume'.step = volume.step
      /\ volume'.ramptime = t /\ volume'.current = Least(volume.current, l)
      /\ UNCHANGED <<out, foreign>>
  BY DEF UpdateVolume, FaderTypes, VolumeStates
<1>2. t = volume.ramptime
  BY VolumeNumbers DEF OneRampTime
<1>3. l \in Nat /\ volume'.current \in Nat /\ volume'.current <= volume.current
  <2>1. l \in Nat \ {0}
    BY VolumeAssumption, ClampedVolumes
  <2> QED
    BY <1>1, <2>1, VolumeNumbers DEF Least
<1>4. Loudest' = Loudest /\ Loudest \in Nat
  BY <1>1, VolumeNumbers DEF Loudest
<1>5. RampAt(volume, volume.step - 1)' = RampAt(volume, volume.step - 1)
  BY <1>1, <1>2 DEF RampAt
<1>6. Greatest(volume.target, MuteVolume) \in Nat
  BY VolumeNumbers DEF Greatest
<1>7. volume'.step \in 0..volume'.ramptime
  BY <1>1, <1>2 DEF RampInv
<1>8. ~foreign' => volume'.current <= Loudest'
  BY <1>1, <1>3, <1>4, VolumeNumbers DEF RampInv
<1>9. ~foreign' /\ volume'.step = 0 =>
        /\ volume'.mute => volume'.current <= MuteVolume
        /\ ~volume'.mute => /\ volume'.target <= Loudest'
                            /\ volume'.current <= Greatest(volume'.target, MuteVolume)
  BY <1>1, <1>3, <1>4, <1>6, VolumeNumbers DEF RampInv
<1> QED
  BY <1>1, <1>4, <1>5, <1>7, <1>8, <1>9 DEF RampInv

LEMMA RebuildKeepsRamp ==
  ASSUME FaderTypes, OneRampTime, RampInv,
         NEW t \in RampTimes, NEW l \in Limits, RebuildVolume(t, l)
  PROVE  RampInv'
<1> DEFINE f == volume.fader
<1>1. /\ volume'.step = 0 /\ volume'.target = current[f] /\ volume'.mute = mute[f]
      /\ volume'.current = IF mute[f] THEN MuteVolume ELSE current[f]
      /\ volume'.ramptime = t /\ t \in Nat /\ out' = out
      /\ foreign' = (foreign \/ current[f] # volume.current)
  BY NewFilter, VolumeNumbers, VolumeAssumption DEF RebuildVolume
<1>2. Loudest' = Loudest /\ MuteVolume <= Loudest
  BY <1>1, VolumeNumbers DEF Loudest, Greatest
<1>3. volume.current <= Greatest(volume.current, MuteVolume)
  BY VolumeNumbers DEF Greatest
<1>4. ASSUME ~foreign' PROVE ~foreign /\ current[f] = volume.current
  BY <1>1, <1>4
<1>5. ASSUME ~foreign'
      PROVE  /\ volume'.current <= Loudest'
             /\ volume'.mute => volume'.current <= MuteVolume
             /\ ~volume'.mute => /\ volume'.target <= Loudest'
                                 /\ volume'.current <= Greatest(volume'.target, MuteVolume)
  BY <1>1, <1>2, <1>3, <1>4, <1>5, VolumeNumbers DEF RampInv
<1>6. volume'.step \in 0..volume'.ramptime /\ ~(volume'.step > 0)
  BY <1>1
<1> QED
  BY <1>5, <1>6 DEF RampInv

LEMMA RampKept ==
  ASSUME FaderTypes, OneRampTime, RampInv, FaderMoves
  PROVE  RampInv'
<1>1. CASE UNCHANGED <<volume, out, foreign>>
  BY <1>1 DEF RampInv, Loudest, RampAt
<1>2. CASE ProcessChunk
  BY <1>2, ChunkKeepsRamp
<1>3. CASE \E f \in FaderNumbers, t \in RampTimes, l \in Limits : UpdateVolume(f, t, l)
  BY <1>3, UpdateKeepsRamp
<1>4. CASE \E t \in RampTimes, l \in Limits : RebuildVolume(t, l)
  BY <1>4, RebuildKeepsRamp
<1> QED
  BY <1>1, <1>2, <1>3, <1>4 DEF FaderMoves, faderVars, SetTarget, SetCurrent, SetMute

-----------------------------------------------------------------------------
\* ------------------------------- The levels -------------------------------

\* What the histories and the lists of what is unread do when a level is added.
LEMMA Pushed ==
  ASSUME NEW S, NEW x \in S, NEW q \in Seq(S), Len(q) <= HistoryLength
  PROVE  LET p == FirstOf(HistoryLength, <<x>> \o q) IN
         /\ p \in Seq(S)
         /\ Len(p) = IF Len(q) < HistoryLength THEN Len(q) + 1 ELSE HistoryLength
         /\ p[1] = x
         /\ \A i \in 2..Len(p) : i - 1 \in 1..Len(q) /\ p[i] = q[i - 1]
<1> DEFINE r == <<x>> \o q
           n == IF Len(r) < HistoryLength THEN Len(r) ELSE HistoryLength
<1>1. /\ r \in Seq(S) /\ Len(r) = Len(q) + 1 /\ r[1] = x
      /\ \A i \in 2..Len(r) : r[i] = q[i - 1]
      /\ Len(q) \in Nat
  OBVIOUS
<1>2. HistoryLength \in Nat \ {0}
  BY LevelsAssumption
<1>3. /\ n \in 1..Len(r) /\ n <= Len(q) + 1
      /\ n = IF Len(q) < HistoryLength THEN Len(q) + 1 ELSE HistoryLength
  BY <1>1, <1>2
<1> HIDE DEF r
<1>4. FirstOf(HistoryLength, r) = SubSeq(r, 1, n)
  BY DEF FirstOf
<1> HIDE DEF n
<1>5. /\ SubSeq(r, 1, n) \in Seq(S) /\ Len(SubSeq(r, 1, n)) = n
      /\ \A i \in 1..n : SubSeq(r, 1, n)[i] = r[i]
  BY <1>1, <1>3
<1>6. \A i \in 2..n : i - 1 \in 1..Len(q) /\ i \in 1..n /\ i \in 2..Len(r)
  BY <1>1, <1>3
<1>7. \A i \in 2..n : i - 1 \in 1..Len(q) /\ SubSeq(r, 1, n)[i] = q[i - 1]
  BY <1>1, <1>5, <1>6
<1>8. SubSeq(r, 1, n)[1] = x
  BY <1>1, <1>3, <1>5
<1> QED
  BY <1>3, <1>4, <1>5, <1>7, <1>8 DEF r

\* What a connection has not read yet is at the front of the history, and what it has
\* read is behind: no later than its last read, which is not ahead of the clock.
Fresh(c, k) ==
  LET r == records[k]
      u == unread[c][k]
      t == lastRead[c][k]
  IN  /\ Len(u) <= Len(r)
      /\ \A i \in 1..Len(u) : r[i].time > t /\ r[i].value = u[i]
      /\ \A i \in 1..Len(r) : i > Len(u) => r[i].time <= t
      /\ t <= clock

\* No record is later than the newest, nor than the clock.
Ordered(k) == \A i \in 1..Len(records[k]) : /\ records[k][i].time <= records[k][1].time
                                            /\ records[k][i].time <= clock

ReadInv == (\A k \in Kinds : Ordered(k)) /\ (\A c \in Clients, k \in Kinds : Fresh(c, k))

\* So many records are later than the last read as are unread.
LEMMA UnreadAreLater ==
  ASSUME LevelTypes, NEW c \in Clients, NEW k \in Kinds, Fresh(c, k)
  PROVE  LET u == unread[c][k]
             new == Since(k, lastRead[c][k])
         IN  /\ Len(new) = Len(u)
             /\ \A i \in 1..Len(u) : new[i] = records[k][i]
             /\ new = <<>> <=> u = <<>>
             /\ u \in Seq(LevelValues)
<1> DEFINE r == records[k]
           u == unread[c][k]
           t == lastRead[c][k]
           n == LaterThan(r, t)
           later(m) == /\ \A i \in 1..m : r[i].time > t
                       /\ m < Len(r) => r[m + 1].time <= t
<1>1. /\ r \in Seq(Records) /\ Len(r) \in Nat /\ u \in Seq(LevelValues) /\ Len(u) \in Nat
      /\ t \in Nat /\ \A i \in 1..Len(r) : r[i].time \in Nat
  <2>1. r \in Seq(Records) /\ u \in Seq(LevelValues) /\ t \in Nat
    BY DEF LevelTypes
  <2>2. \A i \in 1..Len(r) : r[i] \in Records
    BY <2>1
  <2> QED
    BY <2>1, <2>2 DEF Records
<1>2. /\ Len(u) <= Len(r)
      /\ \A i \in 1..Len(u) : r[i].time > t
      /\ \A i \in 1..Len(r) : i > Len(u) => r[i].time <= t
  BY DEF Fresh
<1> DEFINE lu == Len(u)
           lr == Len(r)
<1>3. lu \in 0..lr /\ lr \in Nat
  BY <1>1, <1>2
<1>4. later(lu)
  <2>1. lu < lr => lu + 1 \in 1..lr /\ lu + 1 > lu
    BY <1>3
  <2> QED
    BY <1>2, <2>1
<1>5. n = CHOOSE m \in 0..lr : later(m)
  BY DEF LaterThan
<1>6. n \in 0..lr /\ later(n)
  <2> HIDE DEF later, n, lu, lr
  <2> QED
    BY <1>3, <1>4, <1>5
<1>7. n = lu
  <2>1. CASE n < lu
    <3>1. n + 1 \in 1..lu /\ n < lr /\ n + 1 \in 1..lr
      BY <1>3, <1>6, <2>1
    <3>2. r[n + 1].time > t /\ r[n + 1].time <= t
      BY <1>2, <1>6, <3>1
    <3> QED
      BY <1>1, <3>1, <3>2
  <2>2. CASE lu < n
    <3>1. lu + 1 \in 1..n /\ lu < lr /\ lu + 1 \in 1..lr
      BY <1>3, <1>6, <2>2
    <3>2. r[lu + 1].time > t /\ r[lu + 1].time <= t
      BY <1>4, <1>6, <3>1
    <3> QED
      BY <1>1, <3>1, <3>2
  <2> QED
    BY <1>3, <1>6, <2>1, <2>2
<1>8. Since(k, t) = SubSeq(r, 1, lu)
  <2>1. Since(k, t) = FirstOf(n, r)
    BY DEF Since
  <2>2. FirstOf(lu, r) = SubSeq(r, 1, IF lr < lu THEN lr ELSE lu)
    BY DEF FirstOf
  <2>3. ~(lr < lu)
    BY <1>3
  <2> QED
    BY <1>7, <2>1, <2>2, <2>3
<1> HIDE DEF r, t, n, later
<1>9. /\ Len(SubSeq(r, 1, lu)) = lu
      /\ \A i \in 1..lu : SubSeq(r, 1, lu)[i] = r[i]
      /\ SubSeq(r, 1, lu) \in Seq(Records)
  BY <1>1, <1>3
<1>10. SubSeq(r, 1, lu) = <<>> <=> u = <<>>
  <2>1. SubSeq(r, 1, lu) = <<>> <=> lu = 0
    BY <1>9, EmptySeq
  <2>2. u = <<>> <=> lu = 0
    BY <1>1, EmptySeq
  <2> QED
    BY <2>1, <2>2
<1> QED
  BY <1>1, <1>8, <1>9, <1>10 DEF r, t

\* Hence the readings are complete.
LEMMA FreshIsComplete == LevelTypes /\ ReadInv => ReadingsAreComplete
<1> SUFFICES ASSUME LevelTypes, ReadInv, NEW c \in Clients, NEW k \in Kinds
             PROVE  ValuesOf(Since(k, lastRead[c][k])) = unread[c][k]
  BY DEF ReadingsAreComplete
<1> DEFINE u == unread[c][k]
           new == Since(k, lastRead[c][k])
<1>1. Fresh(c, k)
  BY DEF ReadInv
<1>2. Len(new) = Len(u) /\ (\A i \in 1..Len(u) : new[i] = records[k][i]) /\ u \in Seq(LevelValues)
  BY <1>1, UnreadAreLater
<1>3. \A i \in 1..Len(u) : records[k][i].value = u[i]
  BY <1>1 DEF Fresh
<1> HIDE DEF new
<1>4. ValuesOf(new) = [i \in 1..Len(u) |-> u[i]]
  BY <1>2, <1>3 DEF ValuesOf
<1>5. u = [i \in 1..Len(u) |-> u[i]]
  BY <1>2
<1> QED
  BY <1>4, <1>5 DEF new

\* What AddRecord makes of the histories and of what is unread.
LEMMA Added ==
  ASSUME LevelTypes, NEW v \in LevelValues, NEW w \in Widths, AddRecord(v, w)
  PROVE  /\ clock' = clock + 1 /\ lastRead' = lastRead
         /\ \A k \in Kinds : LET kept == IF w = width THEN records[k] ELSE <<>> IN
              /\ records'[k] = FirstOf(HistoryLength, <<[time |-> clock + 1, value |-> v]>> \o kept)
              /\ kept \in Seq(Records) /\ Len(kept) <= HistoryLength
         /\ records' = [k \in Kinds |-> records'[k]]
         /\ \A c \in Clients, k \in Kinds :
              LET left == IF w = width THEN unread[c][k] ELSE <<>> IN
              /\ unread'[c][k] = FirstOf(HistoryLength, <<v>> \o left)
              /\ left \in Seq(LevelValues)
         /\ unread' = [c \in Clients |-> [k \in Kinds |-> unread'[c][k]]]
<1>1. HistoryLength \in Nat \ {0} /\ <<>> \in Seq(Records) /\ Len(<<>>) = 0
      /\ <<>> \in Seq(LevelValues)
  BY LevelsAssumption
<1>2. \A k \in Kinds : records[k] \in Seq(Records) /\ Len(records[k]) <= HistoryLength
  BY DEF LevelTypes
<1>3. \A c \in Clients, k \in Kinds : unread[c][k] \in Seq(LevelValues)
  BY DEF LevelTypes
<1>4. /\ clock' = clock + 1 /\ lastRead' = lastRead
      /\ records' = [k \in Kinds |-> FirstOf(HistoryLength,
                       <<[time |-> clock + 1, value |-> v]>> \o ResetStorage(w)[k])]
      /\ unread' = [c \in Clients |-> [k \in Kinds |->
           FirstOf(HistoryLength,
                   <<v>> \o (IF w = width THEN unread
                              ELSE [d \in Clients |-> [j \in Kinds |-> <<>>]])[c][k])]]
  BY DEF AddRecord, PushRecord
<1>5. \A k \in Kinds : ResetStorage(w)[k] = IF w = width THEN records[k] ELSE <<>>
  BY DEF ResetStorage
<1>6. \A c \in Clients, k \in Kinds :
        (IF w = width THEN unread ELSE [d \in Clients |-> [j \in Kinds |-> <<>>]])[c][k]
          = IF w = width THEN unread[c][k] ELSE <<>>
  OBVIOUS
<1>7. \A k \in Kinds : LET kept == IF w = width THEN records[k] ELSE <<>> IN
        /\ records'[k] = FirstOf(HistoryLength, <<[time |-> clock + 1, value |-> v]>> \o kept)
        /\ kept \in Seq(Records) /\ Len(kept) <= HistoryLength
  BY <1>1, <1>2, <1>4, <1>5
<1>8. \A c \in Clients, k \in Kinds : LET left == IF w = width THEN unread[c][k] ELSE <<>> IN
        /\ unread'[c][k] = FirstOf(HistoryLength, <<v>> \o left)
        /\ left \in Seq(LevelValues)
  BY <1>1, <1>3, <1>4, <1>6
<1>9. records' = [k \in Kinds |-> records'[k]]
  BY <1>4
<1>10. unread' = [c \in Clients |-> [k \in Kinds |-> unread'[c][k]]]
  BY <1>4
<1> QED
  BY <1>4, <1>7, <1>8, <1>9, <1>10

LEMMA AddTyped ==
  ASSUME LevelTypes, ReadInv, NEW v \in LevelValues, NEW w \in Widths, AddRecord(v, w)
  PROVE  LevelTypes'
<1> DEFINE rec == [time |-> clock + 1, value |-> v]
<1>1. rec \in Records /\ clock \in Nat /\ HistoryLength \in Nat \ {0}
  BY LevelsAssumption DEF LevelTypes, Records
<1>2. ASSUME NEW k \in Kinds
      PROVE  records'[k] \in Seq(Records) /\ Len(records'[k]) <= HistoryLength
  <2> DEFINE kept == IF w = width THEN records[k] ELSE <<>>
  <2>1. records'[k] = FirstOf(HistoryLength, <<rec>> \o kept) /\ kept \in Seq(Records)
        /\ Len(kept) <= HistoryLength
    BY Added
  <2> HIDE DEF kept, rec
  <2>2. /\ FirstOf(HistoryLength, <<rec>> \o kept) \in Seq(Records)
        /\ Len(FirstOf(HistoryLength, <<rec>> \o kept))
             = IF Len(kept) < HistoryLength THEN Len(kept) + 1 ELSE HistoryLength
    BY <1>1, <2>1, Pushed
  <2>3. Len(kept) \in Nat
    BY <2>1
  <2> QED
    BY <1>1, <2>1, <2>2, <2>3
<1>3. ASSUME NEW c \in Clients, NEW k \in Kinds PROVE unread'[c][k] \in Seq(LevelValues)
  <2> DEFINE left == IF w = width THEN unread[c][k] ELSE <<>>
  <2>1. unread'[c][k] = FirstOf(HistoryLength, <<v>> \o left) /\ left \in Seq(LevelValues)
    BY Added
  <2>2. Len(left) <= HistoryLength
    <3>1. Len(unread[c][k]) <= Len(records[k]) /\ Len(records[k]) <= HistoryLength
      BY DEF ReadInv, Fresh, LevelTypes
    <3>2. Len(unread[c][k]) \in Nat /\ Len(records[k]) \in Nat
      BY DEF LevelTypes
    <3> QED
      BY <1>1, <3>1, <3>2
  <2> HIDE DEF left
  <2> QED
    BY <2>1, <2>2, Pushed
<1>4. peak' \in [Kinds -> {0} \cup LevelValues]
  BY DEF AddRecord, LevelTypes
<1>5. width' \in Widths /\ clock' \in Nat /\ lastRead' \in [Clients -> [Kinds -> Nat]]
  BY DEF AddRecord, LevelTypes
<1>6. records' \in [Kinds -> Seq(Records)]
  BY <1>2, Added
<1>7. unread' \in [Clients -> [Kinds -> Seq(LevelValues)]]
  BY <1>3, Added
<1> QED
  BY <1>2, <1>4, <1>5, <1>6, <1>7 DEF LevelTypes

LEMMA AddKeepsFresh ==
  ASSUME LevelTypes, ReadInv, NEW v \in LevelValues, NEW w \in Widths, AddRecord(v, w)
  PROVE  ReadInv'
<1> DEFINE rec == [time |-> clock + 1, value |-> v]
<1>1. rec \in Records /\ clock \in Nat /\ HistoryLength \in Nat \ {0}
      /\ rec.time = clock + 1 /\ rec.value = v
  BY LevelsAssumption DEF LevelTypes, Records
<1> HIDE DEF rec
\* The histories: the new record first, the kept ones behind it.
<1>2. ASSUME NEW k \in Kinds
      PROVE  LET kept == IF w = width THEN records[k] ELSE <<>>
                 p == records'[k]
             IN  /\ Len(kept) \in Nat /\ Len(kept) <= HistoryLength
                 /\ Len(p) = IF Len(kept) < HistoryLength THEN Len(kept) + 1 ELSE HistoryLength
                 /\ p[1] = rec
                 /\ \A i \in 2..Len(p) : i - 1 \in 1..Len(kept) /\ p[i] = kept[i - 1]
                 /\ \A i \in 1..Len(kept) : kept[i] = records[k][i] /\ i \in 1..Len(records[k])
                                             /\ kept[i].time \in Nat /\ w = width
  <2> DEFINE kept == IF w = width THEN records[k] ELSE <<>>
  <2>1. records'[k] = FirstOf(HistoryLength, <<rec>> \o kept) /\ kept \in Seq(Records)
        /\ Len(kept) <= HistoryLength
    BY Added DEF rec
  <2>2. \A i \in 1..Len(kept) : kept[i] = records[k][i] /\ i \in 1..Len(records[k]) /\ w = width
    <3>1. CASE w = width
      BY <3>1
    <3>2. CASE w # width
      BY <3>2
    <3> QED
      BY <3>1, <3>2
  <2> HIDE DEF kept
  <2>3. Len(kept) \in Nat /\ \A i \in 1..Len(kept) : kept[i].time \in Nat
    <3>1. Len(kept) \in Nat /\ \A i \in 1..Len(kept) : kept[i] \in Records
      BY <2>1
    <3> QED
      BY <3>1 DEF Records
  <2>4. LET p == FirstOf(HistoryLength, <<rec>> \o kept) IN
        /\ Len(p) = IF Len(kept) < HistoryLength THEN Len(kept) + 1 ELSE HistoryLength
        /\ p[1] = rec
        /\ \A i \in 2..Len(p) : i - 1 \in 1..Len(kept) /\ p[i] = kept[i - 1]
    BY <1>1, <2>1, Pushed
  <2> QED
    BY <2>1, <2>2, <2>3, <2>4 DEF kept
<1>3. ASSUME NEW k \in Kinds PROVE Ordered(k)'
  <2> DEFINE p == records'[k]
             kept == IF w = width THEN records[k] ELSE <<>>
  <2>1. ASSUME NEW i \in 1..Len(p) PROVE p[i].time <= p[1].time /\ p[i].time <= clock'
    <3>1. p[1].time = clock + 1 /\ clock' = clock + 1
      BY <1>1, <1>2, Added
    <3>2. CASE i = 1
      BY <1>1, <3>1, <3>2
    <3>3. CASE i # 1
      <4>1. i \in 2..Len(p)
        BY <3>3
      <4>2. /\ i - 1 \in 1..Len(kept) /\ p[i] = kept[i - 1]
        BY <1>2, <4>1
      <4>3. /\ kept[i - 1] = records[k][i - 1] /\ i - 1 \in 1..Len(records[k])
            /\ kept[i - 1].time \in Nat
        BY <1>2, <4>2
      <4>4. p[i].time \in Nat /\ p[i].time <= clock
        <5>1. records[k][i - 1].time <= clock
          BY <4>3 DEF ReadInv, Ordered
        <5> QED
          BY <4>2, <4>3, <5>1
      <4> QED
        BY <1>1, <3>1, <4>4
    <3> QED
      BY <3>2, <3>3
  <2> QED
    BY <2>1 DEF Ordered
<1>4. ASSUME NEW c \in Clients, NEW k \in Kinds PROVE Fresh(c, k)'
  <2> DEFINE kept == IF w = width THEN records[k] ELSE <<>>
             left == IF w = width THEN unread[c][k] ELSE <<>>
             p == records'[k]
             u == unread'[c][k]
             t == lastRead[c][k]
  <2>1. /\ Len(kept) \in Nat /\ Len(kept) <= HistoryLength
        /\ Len(p) = IF Len(kept) < HistoryLength THEN Len(kept) + 1 ELSE HistoryLength
        /\ p[1] = rec
        /\ \A i \in 2..Len(p) : i - 1 \in 1..Len(kept) /\ p[i] = kept[i - 1]
    BY <1>2
  <2>2. t \in Nat /\ t <= clock /\ clock' = clock + 1 /\ lastRead'[c][k] = t
    <3>1. Fresh(c, k)
      BY DEF ReadInv
    <3> QED
      BY <3>1, Added DEF Fresh, LevelTypes
  <2>3. /\ left \in Seq(LevelValues) /\ Len(left) \in Nat /\ Len(left) <= Len(kept)
        /\ \A i \in 1..Len(left) : kept[i].time > t /\ kept[i].value = left[i]
        /\ \A i \in 1..Len(kept) : i > Len(left) => kept[i].time <= t
    <3>1. Fresh(c, k) /\ left \in Seq(LevelValues)
      BY Added DEF ReadInv
    <3>2. CASE w = width
      BY <3>1, <3>2 DEF Fresh
    <3>3. CASE w # width
      <4>1. Len(left) = 0 /\ Len(kept) = 0
        BY <3>3
      <4> QED
        BY <3>1, <4>1
    <3> QED
      BY <3>2, <3>3
  <2>4. u = FirstOf(HistoryLength, <<v>> \o left) /\ Len(left) <= HistoryLength
    <3>1. u = FirstOf(HistoryLength, <<v>> \o left)
      <4>1. u = FirstOf(HistoryLength, <<v>> \o left) /\ left \in Seq(LevelValues)
        BY Added
      <4> QED
        BY <4>1
    <3> HIDE DEF left, kept, u
    <3> QED
      BY <1>1, <2>1, <2>3, <3>1
  <2> HIDE DEF left, u
  <2>5. /\ Len(u) = IF Len(left) < HistoryLength THEN Len(left) + 1 ELSE HistoryLength
        /\ u[1] = v
        /\ \A i \in 2..Len(u) : i - 1 \in 1..Len(left) /\ u[i] = left[i - 1]
    <3> DEFINE q == FirstOf(HistoryLength, <<v>> \o left)
    <3>1. /\ Len(q) = IF Len(left) < HistoryLength THEN Len(left) + 1 ELSE HistoryLength
          /\ q[1] = v
          /\ \A i \in 2..Len(q) : i - 1 \in 1..Len(left) /\ q[i] = left[i - 1]
      BY <2>3, <2>4, Pushed
    <3>2. u = q
      BY <2>4
    <3> HIDE DEF q
    <3> QED
      BY <3>1, <3>2
  <2> HIDE DEF kept, p, t
  <2> DEFINE lu == Len(u)
             lp == Len(p)
  <2>6. /\ lu \in Nat /\ lp \in Nat /\ lu <= lp
        /\ lu < HistoryLength => lu = Len(left) + 1
        /\ lp <= HistoryLength
    BY <1>1, <2>1, <2>3, <2>5
  <2>7. ASSUME NEW i \in 1..lu PROVE p[i].time > t /\ p[i].value = u[i]
    <3>1. CASE i = 1
      BY <1>1, <2>1, <2>2, <2>5, <3>1
    <3>2. CASE i # 1
      <4>1. i \in 2..lu /\ i \in 2..lp
        BY <2>6, <3>2
      <4>2. p[i] = kept[i - 1] /\ u[i] = left[i - 1] /\ i - 1 \in 1..Len(left)
        BY <2>1, <2>5, <4>1
      <4> QED
        BY <2>3, <4>2
    <3> QED
      BY <3>1, <3>2
  <2>8. ASSUME NEW i \in 1..lp, i > lu PROVE p[i].time <= t
    <3>1. lu = Len(left) + 1 /\ i \in 2..lp
      BY <1>1, <2>3, <2>6, <2>8
    <3>2. p[i] = kept[i - 1] /\ i - 1 \in 1..Len(kept)
      BY <2>1, <3>1
    <3>3. i - 1 > Len(left)
      BY <2>3, <2>8, <3>1
    <3> QED
      BY <2>3, <3>2, <3>3
  <2>9. lastRead'[c][k] <= clock'
    BY <1>1, <2>2
  <2> QED
    BY <2>2, <2>6, <2>7, <2>8, <2>9 DEF Fresh, u, p, t
<1> QED
  BY <1>3, <1>4 DEF ReadInv

\* A reading leaves nothing unread, and the newest record is the last that was read.
LEMMA SinceKeepsFresh ==
  ASSUME LevelTypes, ReadInv, NEW c \in Clients, NEW k \in Kinds, SinceLast(c, k)
  PROVE  LevelTypes' /\ ReadInv'
<1> DEFINE new == Since(k, lastRead[c][k])
<1>1. Fresh(c, k) /\ Ordered(k)
  BY DEF ReadInv
<1>2. /\ Len(new) = Len(unread[c][k]) /\ new = <<>> <=> unread[c][k] = <<>>
      /\ \A i \in 1..Len(unread[c][k]) : new[i] = records[k][i]
      /\ unread[c][k] \in Seq(LevelValues)
  <2>1. /\ Len(new) = Len(unread[c][k])
        /\ new = <<>> <=> unread[c][k] = <<>>
        /\ \A i \in 1..Len(unread[c][k]) : new[i] = records[k][i]
        /\ unread[c][k] \in Seq(LevelValues)
    BY <1>1, UnreadAreLater
  <2> QED
    BY <2>1
<1>3. UNCHANGED <<records, width, peak, clock>>
  BY DEF SinceLast
<1>4. CASE new = <<>>
  <2>1. UNCHANGED levelVars
    BY <1>3, <1>4 DEF SinceLast, levelVars
  <2> QED
    BY <2>1 DEF levelVars, LevelTypes, ReadInv, Fresh, Ordered
<1>5. CASE new # <<>>
  <2>1. Len(unread[c][k]) \in Nat /\ Len(unread[c][k]) # 0
    BY <1>2, <1>5, EmptySeq
  <2>2. ReadUntil(new) = records[k][1].time
    BY <1>2, <2>1 DEF ReadUntil
  <2> DEFINE t == records[k][1].time
  <2>3. /\ lastRead' = [lastRead EXCEPT ![c][k] = t]
        /\ unread' = [unread EXCEPT ![c][k] = <<>>]
    BY <1>5, <2>2 DEF SinceLast
  <2>4. /\ t \in Nat /\ t <= clock
        /\ \A i \in 1..Len(records[k]) : records[k][i].time <= t
    <3>1. 1 \in 1..Len(records[k]) /\ records[k] \in Seq(Records)
      BY <1>1, <2>1 DEF Fresh, LevelTypes
    <3>2. records[k][1] \in Records
      BY <3>1
    <3> QED
      BY <1>1, <3>1, <3>2 DEF Ordered, Records
  <2>5. <<>> \in Seq(LevelValues) /\ Len(<<>>) = 0
    OBVIOUS
  <2>6. lastRead' \in [Clients -> [Kinds -> Nat]] /\ unread' \in [Clients -> [Kinds -> Seq(LevelValues)]]
    BY <2>3, <2>4, <2>5 DEF LevelTypes
  <2>7. LevelTypes'
    BY <1>3, <2>6 DEF LevelTypes
  <2>8. ASSUME NEW d \in Clients, NEW j \in Kinds PROVE Fresh(d, j)'
    <3>1. Fresh(d, j)
      BY DEF ReadInv
    <3>2. CASE d = c /\ j = k
      <4>1. lastRead'[d][j] = t /\ unread'[d][j] = <<>>
        BY <2>3, <3>2 DEF LevelTypes
      <4>2. Len(records[k]) \in Nat
        BY DEF LevelTypes
      <4> HIDE DEF t
      <4> QED
        BY <1>3, <2>4, <2>5, <3>2, <4>1, <4>2 DEF Fresh
    <3>3. CASE ~(d = c /\ j = k)
      <4>1. lastRead'[d][j] = lastRead[d][j] /\ unread'[d][j] = unread[d][j]
        BY <2>3, <3>3 DEF LevelTypes
      <4> QED
        BY <1>3, <3>1, <4>1 DEF Fresh
    <3> QED
      BY <3>2, <3>3
  <2>9. ASSUME NEW j \in Kinds PROVE Ordered(j)'
    BY <1>3 DEF ReadInv, Ordered
  <2> QED
    BY <2>7, <2>8, <2>9 DEF ReadInv
<1> QED
  BY <1>4, <1>5

\* A new connection has nothing to read: no record is later than the clock.
LEMMA OpenKeepsFresh ==
  ASSUME LevelTypes, ReadInv, NEW c \in Clients, OpenLevels(c)
  PROVE  LevelTypes' /\ ReadInv'
<1>1. /\ UNCHANGED <<records, width, peak, clock>>
      /\ lastRead' = [lastRead EXCEPT ![c] = [k \in Kinds |-> clock]]
      /\ unread' = [unread EXCEPT ![c] = [k \in Kinds |-> <<>>]]
      /\ clock \in Nat
  BY DEF OpenLevels, LevelTypes
<1>2. <<>> \in Seq(LevelValues) /\ Len(<<>>) = 0
  OBVIOUS
<1>3. LevelTypes'
  <2>1. lastRead' \in [Clients -> [Kinds -> Nat]] /\ unread' \in [Clients -> [Kinds -> Seq(LevelValues)]]
    BY <1>1, <1>2 DEF LevelTypes
  <2> QED
    BY <1>1, <2>1 DEF LevelTypes
<1>4. ASSUME NEW d \in Clients, NEW k \in Kinds PROVE Fresh(d, k)'
  <2>1. Fresh(d, k) /\ Ordered(k) /\ Len(records[k]) \in Nat
    BY DEF ReadInv, LevelTypes
  <2>2. CASE d = c
    <3>1. lastRead'[d][k] = clock /\ unread'[d][k] = <<>>
      BY <1>1, <2>2 DEF LevelTypes
    <3> QED
      BY <1>1, <1>2, <2>1, <3>1 DEF Fresh, Ordered
  <2>3. CASE d # c
    <3>1. lastRead'[d] = lastRead[d] /\ unread'[d] = unread[d]
      BY <1>1, <2>3 DEF LevelTypes
    <3> QED
      BY <1>1, <2>1, <3>1 DEF Fresh
  <2> QED
    BY <2>2, <2>3
<1>5. ASSUME NEW k \in Kinds PROVE Ordered(k)'
  BY <1>1 DEF ReadInv, Ordered
<1> QED
  BY <1>3, <1>4, <1>5 DEF ReadInv

LEMMA LevelsKept ==
  ASSUME LevelTypes, ReadInv, LevelMoves
  PROVE  LevelTypes' /\ ReadInv'
<1>1. CASE UNCHANGED levelVars
  BY <1>1 DEF levelVars, LevelTypes, ReadInv, Fresh, Ordered
<1>2. ASSUME NEW v \in LevelValues, NEW w \in Widths, AddRecord(v, w)
      PROVE  LevelTypes' /\ ReadInv'
  BY <1>2, AddTyped, AddKeepsFresh
<1>3. ASSUME NEW c \in Clients, NEW k \in Kinds, SinceLast(c, k) PROVE LevelTypes' /\ ReadInv'
  BY <1>3, SinceKeepsFresh
<1>4. CASE ResetPeaks
  <2>1. peak' \in [Kinds -> {0} \cup LevelValues]
    BY <1>4 DEF ResetPeaks, LevelTypes
  <2>2. UNCHANGED <<records, width, clock, lastRead, unread>>
    BY <1>4 DEF ResetPeaks
  <2> QED
    BY <2>1, <2>2 DEF LevelTypes, ReadInv, Fresh, Ordered
<1>5. ASSUME NEW c \in Clients, OpenLevels(c) PROVE LevelTypes' /\ ReadInv'
  BY <1>5, OpenKeepsFresh
<1> QED
  BY <1>1, <1>2, <1>3, <1>4, <1>5 DEF LevelMoves

-----------------------------------------------------------------------------
\* --------------------- The spectrum and the configuration -----------------

LEMMA SpectrumTyped ==
  ASSUME SpectrumTypes, SpectrumMoves
  PROVE  SpectrumTypes'
<1>1. CASE UNCHANGED spectrumVars
  BY <1>1 DEF spectrumVars, SpectrumTypes
<1>2. CASE StartAnalysis
  BY <1>2 DEF StartAnalysis, SpectrumTypes
<1>3. CASE FinishAnalysis
  <2>1. frame.seq + 1 \in Nat /\ (IF numBins < 2 THEN 2 ELSE numBins) \in Nat
    BY SpectrumAssumption DEF SpectrumTypes
  <2>2. frame' \in [seq : Nat, bins : Nat]
    BY <1>3, <2>1 DEF FinishAnalysis, SpectrumTypes
  <2> QED
    BY <1>3, <2>2 DEF FinishAnalysis, SpectrumTypes
<1>4. ASSUME NEW c \in Clients,
             SubscribeSpectrum(c) \/ SubscribeEnergy(c) \/ UnsubscribeSpectrum(c) \/ UnsubscribeEnergy(c)
      PROVE  SpectrumTypes'
  <2>1. subscribed' \in [Clients -> SUBSET Topics]
    BY <1>4 DEF SubscribeSpectrum, SubscribeEnergy, UnsubscribeSpectrum, UnsubscribeEnergy,
                SpectrumTypes, Topics
  <2>2. /\ numBins' \in BinCounts /\ active' \in BOOLEAN
        /\ UNCHANGED <<frame, analysing, lastSeq>>
    BY <1>4 DEF SubscribeSpectrum, SubscribeEnergy, UnsubscribeSpectrum, UnsubscribeEnergy,
                SpectrumTypes
  <2> QED
    BY <2>1, <2>2 DEF SpectrumTypes
<1>5. ASSUME NEW c \in Clients, PushSpectrum(c) \/ OpenTopics(c) PROVE SpectrumTypes'
  <2>1. frame.seq \in Nat
    BY DEF SpectrumTypes
  <2>2. lastSeq' \in [Clients -> Nat] /\ subscribed' \in [Clients -> SUBSET Topics]
    BY <1>5, <2>1 DEF PushSpectrum, OpenTopics, SpectrumTypes
  <2> QED
    BY <1>5, <2>2 DEF PushSpectrum, OpenTopics, SpectrumTypes
<1> QED
  BY <1>1, <1>2, <1>3, <1>4, <1>5 DEF SpectrumMoves

\* What Head, Tail and Append do to the command channel.
LEMMA Channel ==
  ASSUME NEW M, NEW q \in Seq(M)
  PROVE  /\ Len(q) \in Nat
         /\ q # <<>> => /\ Len(q) > 0 /\ Head(q) = q[1] /\ Head(q) \in M
                       /\ Tail(q) \in Seq(M) /\ Len(Tail(q)) = Len(q) - 1
                       /\ \A i \in 1..Len(Tail(q)) : Tail(q)[i] = q[i + 1]
         /\ \A m \in M : /\ Append(q, m) \in Seq(M) /\ Len(Append(q, m)) = Len(q) + 1
                         /\ Append(q, m)[Len(q) + 1] = m
                         /\ \A i \in 1..Len(q) : Append(q, m)[i] = q[i]
<1>1. ASSUME q # <<>>
      PROVE  /\ Len(q) > 0 /\ Head(q) = q[1] /\ Head(q) \in M
             /\ Tail(q) \in Seq(M) /\ Len(Tail(q)) = Len(q) - 1
             /\ \A i \in 1..Len(Tail(q)) : Tail(q)[i] = q[i + 1]
  BY <1>1
<1>2. ASSUME NEW m \in M
      PROVE  /\ Append(q, m) \in Seq(M) /\ Len(Append(q, m)) = Len(q) + 1
             /\ Append(q, m)[Len(q) + 1] = m
             /\ \A i \in 1..Len(q) : Append(q, m)[i] = q[i]
  OBVIOUS
<1> QED
  BY <1>1, <1>2

\* The configuration is valid wherever it is.
ValidInv ==
  /\ queue \in Seq(ValidMessages)
  /\ inHand \in ValidHands

LEMMA ConfigTyped ==
  ASSUME ConfigTypes, ValidInv, ConfigMoves
  PROVE  ConfigTypes' /\ ValidInv'
<1> DEFINE Queued == queue' \in Seq(ValidMessages) /\ Len(queue') <= QueueCapacity
\* A channel of valid messages is one of messages whose configurations are valid.
<1>1. ASSUME Queued
      PROVE  /\ queue' \in Seq(Messages) /\ Len(queue') <= QueueCapacity
             /\ \A i \in 1..Len(queue') : queue'[i].conf # NoConfig => Valid(queue'[i].conf)
             /\ queue' \in Seq(ValidMessages)
  <2>1. ValidMessages \subseteq Messages
    BY DEF ValidMessages
  <2>2. \A i \in 1..Len(queue') : queue'[i] \in ValidMessages /\ queue'[i] \in Messages
    BY <1>1, <2>1
  <2>3. queue' \in Seq(Messages)
    BY <1>1, <2>2
  <2> QED
    BY <1>1, <2>2, <2>3 DEF ValidMessages
<1>2. Len(queue) <= QueueCapacity /\ queue \in Seq(ValidMessages) /\ QueueCapacity \in Nat \ {0}
  BY ConfigAssumption DEF ConfigTypes, ValidInv
\* So is what it holds.
<1>9. /\ \A m \in ValidHands : /\ m \in Messages \cup {NoMessage, Ended}
                               /\ m.conf # NoConfig => Valid(m.conf)
      /\ NoMessage \in ValidHands /\ Ended \in ValidHands /\ ValidMessages \subseteq ValidHands
      /\ inHand \in ValidHands
  <2>1. \A m \in ValidHands : /\ m \in Messages \cup {NoMessage, Ended}
                              /\ m.conf # NoConfig => Valid(m.conf)
    BY HandsMade
  <2>2. NoMessage \in ValidHands /\ Ended \in ValidHands /\ ValidMessages \subseteq ValidHands
    BY DEF ValidHands
  <2>3. inHand \in ValidHands
    BY DEF ValidInv
  <2> QED
    BY <2>1, <2>2, <2>3
<1>3. CASE UNCHANGED configVars
  BY <1>3 DEF configVars, ConfigTypes, ValidInv
<1>4. CASE TakeMessage
  <2>1. queue # <<>> /\ queue' = Tail(queue) /\ Head(queue) \in ValidMessages
    BY <1>2, <1>4, Channel DEF TakeMessage
  <2>2. Queued
    <3>1. Tail(queue) \in Seq(ValidMessages) /\ Len(Tail(queue)) = Len(queue) - 1 /\ Len(queue) \in Nat
      BY <1>2, <2>1, Channel
    <3> QED
      BY <1>2, <2>1, <3>1
  <2>3. inHand' = Head(queue) /\ inHand' \in ValidHands
    BY <1>4, <1>9, <2>1 DEF TakeMessage
  <2>4. main' \in {"loop", "session", "check"}
    BY <1>4 DEF TakeMessage, ConfigTypes
  <2> HIDE DEF Queued
  <2>5. UNCHANGED <<activeConfig, activePath, content, ended>>
    BY <1>4 DEF TakeMessage
  <2> QED
    BY <1>1, <1>9, <2>2, <2>3, <2>4, <2>5 DEF ConfigTypes, ValidInv
<1>5. CASE StartSession \/ EndIdle \/ LoseSession \/ EndSession \/ CheckQueue \/ PublishChange
           \/ PublishStop \/ Leave
  <2>1. UNCHANGED <<activePath, content, queue>>
    BY <1>5 DEF StartSession, EndIdle, LoseSession, EndSession, CheckQueue, PublishChange,
                PublishStop, Leave
  <2>2. inHand' \in {inHand, NoMessage, Ended}
    BY <1>5 DEF StartSession, EndIdle, LoseSession, EndSession, CheckQueue, PublishChange,
                PublishStop, Leave
  <2>3. main' \in {main, "loop", "session"} /\ ended' \in {ended, TRUE}
    BY <1>5 DEF StartSession, EndIdle, LoseSession, EndSession, CheckQueue, PublishChange,
                PublishStop, Leave
  <2>4. activeConfig' \in {NoConfig} \cup ValidConfigs
    <3>1. \/ activeConfig' \in {activeConfig, NoConfig}
          \/ inHand.type = "ConfigChanged" /\ activeConfig' = inHand.conf
      BY <1>5 DEF StartSession, EndIdle, LoseSession, EndSession, CheckQueue, PublishChange,
                  PublishStop, Leave
    <3>2. inHand.type = "ConfigChanged" => inHand.conf \in ValidConfigs
      BY <1>9, HandsMade
    <3> QED
      BY <3>1, <3>2 DEF ConfigTypes
  <2>5. inHand' \in ValidHands
    BY <1>9, <2>2
  <2> QED
    BY <1>9, <2>1, <2>3, <2>4, <2>5 DEF ConfigTypes, ValidInv
<1>6. ASSUME NEW f \in Files, NEW conf \in Configs, EditFile(f, conf) PROVE ConfigTypes' /\ ValidInv'
  BY <1>6 DEF EditFile, ConfigTypes, ValidInv
<1>7. ASSUME NEW f \in Files, SetConfigFilePath(f) PROVE ConfigTypes' /\ ValidInv'
  BY <1>7 DEF SetConfigFilePath, ConfigTypes, ValidInv
<1>8. ASSUME NEW m \in ValidMessages, TrySend(m) PROVE ConfigTypes' /\ ValidInv'
  <2>1. Queued
    <3>1. CASE Accepts
      <4>1. queue' = Append(queue, m) /\ Len(queue) < QueueCapacity
        BY <1>8, <3>1 DEF TrySend, Accepts
      <4>2. Append(queue, m) \in Seq(ValidMessages) /\ Len(Append(queue, m)) = Len(queue) + 1
            /\ Len(queue) \in Nat
        BY <1>2, Channel
      <4> QED
        BY <1>2, <4>1, <4>2
    <3>2. CASE ~Accepts
      BY <1>2, <1>8, <3>2 DEF TrySend
    <3> QED
      BY <3>1, <3>2
  <2> HIDE DEF Queued
  <2>2. UNCHANGED <<activeConfig, activePath, content, main, inHand, ended>>
    BY <1>8 DEF TrySend
  <2> QED
    BY <1>1, <2>1, <2>2 DEF ConfigTypes, ValidInv
<1> QED
  BY <1>3, <1>4, <1>5, <1>6, <1>7, <1>8 DEF ConfigMoves

-----------------------------------------------------------------------------
\* ------------------------------ The handlers ------------------------------

WorkTypes ==
  /\ connected \subseteq Clients
  /\ work \in [Clients -> Works]
  /\ \A c \in Clients : work[c].step = "send" => work[c].message \in ValidMessages

Adjusts(c, f) == work[c].step = "adjust" /\ work[c].fader = f
Sends(c) == work[c].step = "send"

\* While no two changes overlap, at most one handler is adjusting a fader, to the
\* volume the changes add up to.
VolumesAdd ==
  alone => \A f \in FaderNumbers :
    /\ (\A c \in Clients : ~Adjusts(c, f)) => target[f] = setVolume[f]
    /\ \A c \in Clients : Adjusts(c, f) => work[c].volume = setVolume[f]
    /\ \A c, d \in Clients : Adjusts(c, f) /\ Adjusts(d, f) => c = d

\* And at most one configuration is on its way, in a handler, in the channel or in the
\* hands of the main thread.
ConfigsAdd ==
  alone /\ ~ended =>
    /\ queue # <<>> => /\ Len(queue) = 1 /\ queue[1].conf = setConfig /\ inHand = NoMessage
                      /\ \A c \in Clients : ~Sends(c)
    /\ inHand # NoMessage => /\ queue = <<>> /\ inHand.conf = setConfig
                            /\ \A c \in Clients : ~Sends(c)
    /\ \A c \in Clients : Sends(c) => work[c].message.conf = setConfig
    /\ \A c, d \in Clients : Sends(c) /\ Sends(d) => c = d
    /\ queue = <<>> /\ inHand = NoMessage /\ (\A c \in Clients : ~Sends(c))
         => activeConfig = setConfig

AddInv ==
  /\ alone \in BOOLEAN /\ setVolume \in [FaderNumbers -> Settable]
  /\ setConfig \in {NoConfig} \cup Configs
  /\ VolumesAdd /\ ConfigsAdd

WebsocketInv ==
  /\ FaderTypes /\ LevelTypes /\ SpectrumTypes /\ ConfigTypes
  /\ WorkTypes /\ ValidInv /\ ReadInv /\ AddInv
  /\ use \in Uses /\ commands \in Nat

\* A step that has nothing to do with a change of a volume, or of the configuration.
VolumesRest ==
  /\ UNCHANGED <<target, setVolume>>
  /\ alone' \in BOOLEAN /\ (alone' => alone)
  /\ \A c \in Clients : \/ work'[c] = work[c]
                        \/ work[c].step # "adjust" /\ work'[c].step # "adjust"
ConfigsRest ==
  /\ UNCHANGED <<queue, inHand, ended, activeConfig, setConfig>>
  /\ alone' => alone
  /\ \A c \in Clients : \/ work'[c] = work[c]
                        \/ work[c].step # "send" /\ work'[c].step # "send"

\* A volume is set at once, or read to be adjusted; and an adjusted one is set.
SetsVolume(c, f, v) ==
  /\ target' = [target EXCEPT ![f] = v]
  /\ VolumeChange(c, f, v)
  /\ work[c].step # "adjust" /\ work'[c].step # "adjust"
  /\ \A d \in Clients \ {c} : work'[d] = work[d]
VolumeSteps ==
  \/ \E c \in Clients, f \in FaderNumbers, v \in Settable : SetsVolume(c, f, v)
  \/ \E c \in Clients, f \in FaderNumbers, change \in Changes, limits \in AdjustLimits :
       AdjustVolume(c, f, change, limits)
  \/ \E c \in Clients : FinishAdjust(c)

\* A configuration is made, sent and taken, or the session ends.
MakesConfig(c, m) ==
  /\ work' = [work EXCEPT ![c] = Sending(m)]
  /\ work[c].step = "none"
  /\ alone' = (alone /\ NobodySends(c))
  /\ setConfig' = IF alone' THEN m.conf ELSE setConfig
  /\ UNCHANGED <<queue, inHand, ended, activeConfig>>
ConfigSteps ==
  \/ \E c \in Clients, m \in ValidMessages : MakesConfig(c, m)
  \/ \E c \in Clients : FinishSending(c)
  \/ MainThread
  \/ SessionEnds

StepMoves ==
  /\ FaderMoves /\ LevelMoves /\ SpectrumMoves /\ ConfigMoves /\ WorkMoves
  /\ VolumesRest \/ VolumeSteps
  /\ ConfigsRest \/ ConfigSteps
  /\ use' = use /\ commands' \in {commands, commands + 1}

\* A handler that waits for a command.
LEMMA Waiting ==
  ASSUME WorkTypes, NEW c, Idle(c)
  PROVE  c \in Clients /\ work[c].step = "none" /\ work[c] = Nothing
  BY WorksMade DEF WorkTypes, Idle

\* Work that is begun or ended is that of one handler.
LEMMA WorkBegun ==
  ASSUME WorkTypes, NEW c \in Clients, NEW w \in Works, Begin(c, w),
         w.step = "send" => w.message \in ValidMessages
  PROVE  /\ WorkMoves /\ work' = [work EXCEPT ![c] = w] /\ work'[c] = w
         /\ \A d \in Clients \ {c} : work'[d] = work[d]
  BY DEF Begin, WorkMoves, WorkTypes
LEMMA WorkDone ==
  ASSUME WorkTypes, NEW c \in Clients, Done(c)
  PROVE  /\ WorkMoves /\ work' = [work EXCEPT ![c] = Nothing] /\ work'[c].step = "none"
         /\ \A d \in Clients \ {c} : work'[d] = work[d]
  BY WorksMade DEF Begin, Done, WorkMoves, WorkTypes

\* Steps in which no handler begins or ends anything.
LEMMA QuietSteps ==
  ASSUME WebsocketInv,
         \/ \E c \in Clients :
              \/ Open(c) \/ Close(c) \/ Push(c) \/ Subscription(c) \/ ResetSignalPeaks(c)
              \/ \E k \in Kinds : GetSinceLast(c, k)
              \/ \E f \in FaderNumbers, m \in BOOLEAN : Mute(c, f, m)
              \/ \E f \in Files : SetFilePath(c, f)
         \/ Chunk \/ Analysis \/ FilterChange \/ Measure \/ FileEdited
  PROVE  StepMoves
<1> DEFINE Rest == /\ UNCHANGED <<work, alone, setVolume, setConfig, use>>
                   /\ connected' \subseteq Clients /\ commands' \in {commands, commands + 1}
           Kept == UNCHANGED <<target, queue, inHand, ended, activeConfig>>
<1>1. ASSUME Rest, Kept, FaderMoves, LevelMoves, SpectrumMoves, ConfigMoves PROVE StepMoves
  <2>1. WorkMoves
    BY <1>1 DEF WorkMoves
  <2>2. VolumesRest /\ ConfigsRest
    BY <1>1 DEF VolumesRest, ConfigsRest, WebsocketInv, AddInv
  <2> QED
    BY <1>1, <2>1, <2>2 DEF StepMoves
<1>2. connected \subseteq Clients
  BY DEF WebsocketInv, WorkTypes
<1>3. ASSUME NEW c \in Clients, Open(c) PROVE StepMoves
  <2>1. Rest
    BY <1>2, <1>3 DEF Open, connectionVars, historyVars
  <2>2. FaderMoves /\ SpectrumMoves /\ ConfigMoves
    BY <1>3 DEF Open, FaderMoves, SpectrumMoves, ConfigMoves
  <2>3. LevelMoves
    BY <1>3 DEF Open, LevelMoves
  <2>4. Kept
    BY <1>3 DEF Open, faderVars, configVars
  <2> QED
    BY <1>1, <2>1, <2>2, <2>3, <2>4
<1>4. ASSUME NEW c \in Clients, Close(c) PROVE StepMoves
  <2>1. Rest
    BY <1>2, <1>4 DEF Ask, Close, connectionVars, historyVars
  <2>2. FaderMoves /\ LevelMoves /\ ConfigMoves
    BY <1>4 DEF Close, FaderMoves, LevelMoves, ConfigMoves
  <2>3. SpectrumMoves
    BY <1>4, <1>2 DEF Close, SpectrumMoves, Idle
  <2>4. Kept
    BY <1>4 DEF Close, faderVars, configVars
  <2> QED
    BY <1>1, <2>1, <2>2, <2>3, <2>4
<1>5. ASSUME NEW c \in Clients, Push(c) PROVE StepMoves
  <2>1. Rest
    BY <1>2, <1>5 DEF Push, connectionVars, historyVars
  <2>2. FaderMoves /\ LevelMoves /\ ConfigMoves
    BY <1>5 DEF Push, FaderMoves, LevelMoves, ConfigMoves
  <2>3. SpectrumMoves
    BY <1>5 DEF Push, SpectrumMoves
  <2>4. Kept
    BY <1>5 DEF Push, faderVars, configVars
  <2> QED
    BY <1>1, <2>1, <2>2, <2>3, <2>4
<1>6. ASSUME NEW c \in Clients, NEW f \in FaderNumbers, NEW m \in BOOLEAN, Mute(c, f, m) PROVE StepMoves
  <2>1. Rest
    BY <1>2, <1>6 DEF Command, Ask, Mute, connectionVars, historyVars
  <2>2. LevelMoves /\ SpectrumMoves /\ ConfigMoves
    BY <1>6 DEF Mute, LevelMoves, SpectrumMoves, ConfigMoves
  <2>3. FaderMoves
    BY <1>6 DEF Mute, FaderMoves
  <2>4. Kept
    BY <1>6 DEF Mute, configVars, SetMute
  <2> QED
    BY <1>1, <2>1, <2>2, <2>3, <2>4
<1>7. ASSUME NEW c \in Clients, NEW k \in Kinds, GetSinceLast(c, k) PROVE StepMoves
  <2>1. Rest
    BY <1>2, <1>7 DEF Command, Ask, GetSinceLast, connectionVars, historyVars
  <2>2. FaderMoves /\ SpectrumMoves /\ ConfigMoves
    BY <1>7 DEF GetSinceLast, FaderMoves, SpectrumMoves, ConfigMoves
  <2>3. LevelMoves
    BY <1>7 DEF GetSinceLast, LevelMoves
  <2>4. Kept
    BY <1>7 DEF GetSinceLast, faderVars, configVars
  <2> QED
    BY <1>1, <2>1, <2>2, <2>3, <2>4
<1>8. ASSUME NEW c \in Clients, ResetSignalPeaks(c) PROVE StepMoves
  <2>1. Rest
    BY <1>2, <1>8 DEF Command, Ask, ResetSignalPeaks, connectionVars, historyVars
  <2>2. FaderMoves /\ SpectrumMoves /\ ConfigMoves
    BY <1>8 DEF ResetSignalPeaks, FaderMoves, SpectrumMoves, ConfigMoves
  <2>3. LevelMoves
    BY <1>8 DEF ResetSignalPeaks, LevelMoves
  <2>4. Kept
    BY <1>8 DEF ResetSignalPeaks, faderVars, configVars
  <2> QED
    BY <1>1, <2>1, <2>2, <2>3, <2>4
<1>9. ASSUME NEW c \in Clients, Subscription(c) PROVE StepMoves
  <2>1. Rest
    BY <1>2, <1>9 DEF Command, Ask, Subscription, connectionVars, historyVars
  <2>2. FaderMoves /\ LevelMoves /\ ConfigMoves
    BY <1>9 DEF Subscription, FaderMoves, LevelMoves, ConfigMoves
  <2>3. SpectrumMoves
    BY <1>9 DEF Subscription, SpectrumMoves
  <2>4. Kept
    BY <1>9 DEF Subscription, faderVars, configVars
  <2> QED
    BY <1>1, <2>1, <2>2, <2>3, <2>4
<1>10. ASSUME NEW c \in Clients, NEW f \in Files, SetFilePath(c, f) PROVE StepMoves
  <2>1. Rest
    BY <1>2, <1>10 DEF Command, Ask, SetFilePath, connectionVars, historyVars
  <2>2. FaderMoves /\ LevelMoves /\ SpectrumMoves
    BY <1>10 DEF SetFilePath, FaderMoves, LevelMoves, SpectrumMoves
  <2>3. ConfigMoves
    BY <1>10 DEF SetFilePath, ConfigMoves
  <2>4. Kept
    BY <1>10 DEF SetFilePath, faderVars, SetConfigFilePath
  <2> QED
    BY <1>1, <2>1, <2>2, <2>3, <2>4
<1>11. CASE Chunk
  <2>1. Rest
    BY <1>2, <1>11 DEF Chunk, connectionVars, historyVars
  <2>2. LevelMoves /\ SpectrumMoves /\ ConfigMoves
    BY <1>11 DEF Chunk, LevelMoves, SpectrumMoves, ConfigMoves
  <2>3. FaderMoves
    BY <1>11 DEF Chunk, FaderMoves
  <2>4. Kept
    BY <1>11 DEF Chunk, configVars, ProcessChunk
  <2> QED
    BY <1>1, <2>1, <2>2, <2>3, <2>4
<1>12. CASE Analysis
  <2>1. Rest
    BY <1>2, <1>12 DEF Analysis, connectionVars, historyVars
  <2>2. FaderMoves /\ LevelMoves /\ ConfigMoves
    BY <1>12 DEF Analysis, FaderMoves, LevelMoves, ConfigMoves
  <2>3. SpectrumMoves
    BY <1>12 DEF Analysis, SpectrumMoves
  <2>4. Kept
    BY <1>12 DEF Analysis, faderVars, configVars
  <2> QED
    BY <1>1, <2>1, <2>2, <2>3, <2>4
<1>13. CASE FilterChange
  <2>1. Rest
    BY <1>2, <1>13 DEF Ask, FilterChange, connectionVars, historyVars
  <2>2. LevelMoves /\ SpectrumMoves /\ ConfigMoves
    BY <1>13 DEF FilterChange, LevelMoves, SpectrumMoves, ConfigMoves
  <2>3. FaderMoves
    BY <1>13 DEF FilterChange, FaderMoves
  <2>4. Kept
    BY <1>13 DEF FilterChange, configVars, UpdateVolume, RebuildVolume
  <2> QED
    BY <1>1, <2>1, <2>2, <2>3, <2>4
<1>14. CASE Measure
  <2>1. Rest
    BY <1>2, <1>14 DEF Measure, connectionVars, historyVars
  <2>2. FaderMoves /\ SpectrumMoves /\ ConfigMoves
    BY <1>14 DEF Measure, FaderMoves, SpectrumMoves, ConfigMoves
  <2>3. LevelMoves
    BY <1>14 DEF Measure, LevelMoves
  <2>4. Kept
    BY <1>14 DEF Measure, faderVars, configVars
  <2> QED
    BY <1>1, <2>1, <2>2, <2>3, <2>4
<1>15. CASE FileEdited
  <2>1. Rest
    BY <1>2, <1>15 DEF Ask, FileEdited, connectionVars, historyVars
  <2>2. FaderMoves /\ LevelMoves /\ SpectrumMoves
    BY <1>15 DEF FileEdited, FaderMoves, LevelMoves, SpectrumMoves
  <2>3. ConfigMoves
    BY <1>15 DEF FileEdited, ConfigMoves
  <2>4. Kept
    BY <1>15 DEF FileEdited, faderVars, EditFile
  <2> QED
    BY <1>1, <2>1, <2>2, <2>3, <2>4
<1> QED
  BY <1>3, <1>4, <1>5, <1>6, <1>7, <1>8, <1>9, <1>10, <1>11, <1>12, <1>13, <1>14, <1>15

\* The steps of the commands of a remote control and of a level meter.
LEMMA RemoteSteps ==
  ASSUME WebsocketInv, NEW c \in Clients,
         \/ \E f \in FaderNumbers, v \in Requests : SetVolume(c, f, v) \/ SetExternalVolume(c, f, v)
         \/ \E f \in FaderNumbers, change \in Changes, limits \in AdjustLimits :
              AdjustVolume(c, f, change, limits)
         \/ FinishAdjust(c) \/ FinishExternal(c)
  PROVE  StepMoves
<1>1. WorkTypes /\ FaderTypes /\ connected \subseteq Clients /\ alone \in BOOLEAN
  BY DEF WebsocketInv, WorkTypes, AddInv
<1>2. ASSUME UNCHANGED <<levelVars, spectrumVars, configVars, use>>,
             commands' \in {commands, commands + 1}, alone' => alone, setConfig' = setConfig,
             FaderMoves, WorkMoves, VolumesRest \/ VolumeSteps,
             work'[c].step # "send" /\ work[c].step # "send",
             \A d \in Clients \ {c} : work'[d] = work[d]
      PROVE  StepMoves
  <2>1. ConfigsRest
    BY <1>2 DEF ConfigsRest, configVars
  <2> QED
    BY <1>2, <2>1 DEF StepMoves, LevelMoves, SpectrumMoves, ConfigMoves
<1>3. ASSUME NEW f, NEW v, VolumeChange(c, f, v)
      PROVE  (alone' => alone) /\ setConfig' = setConfig /\ alone' \in BOOLEAN
  BY <1>3 DEF VolumeChange
<1>4. ASSUME NEW f \in FaderNumbers, NEW v \in Requests, SetVolume(c, f, v) PROVE StepMoves
  <2>1. Clamped(v) \in Settable
    BY ClampedVolumes
  <2>2. Idle(c) /\ SetTarget(f, Clamped(v)) /\ VolumeChange(c, f, Clamped(v))
        /\ UNCHANGED <<connected, work>> /\ commands' = commands + 1
        /\ UNCHANGED <<levelVars, spectrumVars, configVars, use>>
    BY <1>4 DEF SetVolume, Command, Ask, connectionVars
  <2>3. work[c].step = "none"
    BY <1>1, <2>2, Waiting
  <2>4. FaderMoves /\ WorkMoves
    BY <1>1, <2>1, <2>2 DEF FaderMoves, WorkMoves
  <2>5. SetsVolume(c, f, Clamped(v))
    BY <2>2, <2>3 DEF SetsVolume, SetTarget
  <2>6. VolumeSteps
    BY <2>1, <2>5 DEF VolumeSteps
  <2> QED
    BY <1>2, <1>3, <2>2, <2>3, <2>4, <2>6
<1>5. ASSUME NEW f \in FaderNumbers, NEW v \in Requests, SetExternalVolume(c, f, v) PROVE StepMoves
  <2>1. Clamped(v) \in Settable /\ Clamped(v) \in Volumes
    BY ClampedVolumes
  <2>2. Idle(c) /\ SetTarget(f, Clamped(v)) /\ VolumeChange(c, f, Clamped(v))
        /\ Begin(c, External(f, Clamped(v))) /\ commands' = commands + 1
        /\ UNCHANGED <<levelVars, spectrumVars, configVars, use>>
    BY <1>5 DEF SetExternalVolume, Command, Ask
  <2>3. work[c].step = "none"
    BY <1>1, <2>2, Waiting
  <2>4. External(f, Clamped(v)) \in Works /\ External(f, Clamped(v)).step = "external"
    BY <2>1, WorksMade
  <2>5. /\ WorkMoves /\ work'[c].step = "external"
        /\ \A d \in Clients \ {c} : work'[d] = work[d]
    BY <1>1, <2>2, <2>4, WorkBegun
  <2>6. FaderMoves
    BY <2>1, <2>2 DEF FaderMoves
  <2>7. SetsVolume(c, f, Clamped(v))
    BY <2>2, <2>3, <2>5 DEF SetsVolume, SetTarget
  <2>8. VolumeSteps
    BY <2>1, <2>7 DEF VolumeSteps
  <2> QED
    BY <1>2, <1>3, <2>2, <2>3, <2>5, <2>6, <2>8
<1>6. ASSUME NEW f \in FaderNumbers, NEW change \in Changes, NEW limits \in AdjustLimits,
             AdjustVolume(c, f, change, limits)
      PROVE  StepMoves
  <2> DEFINE a == Adjusted(target[f], change[1], change[2], limits[1], limits[2])
  <2>1. a \in Settable
    <3>1. change \in BOOLEAN \X Nat /\ target[f] \in Nat
      BY <1>1, WebsocketAssumption, ClampedVolumes DEF FaderTypes
    <3>2. limits[1] <= limits[2]
      BY <1>6 DEF AdjustVolume
    <3> QED
      BY <3>1, <3>2, ClampedVolumes
  <2>2. Idle(c) /\ Begin(c, Adjusting(f, a)) /\ commands' = commands + 1
        /\ VolumeChange(c, f, Adjusted(setVolume[f], change[1], change[2], limits[1], limits[2]))
        /\ UNCHANGED <<faderVars, levelVars, spectrumVars, configVars, use>>
    BY <1>6 DEF AdjustVolume, Command, Ask
  <2> HIDE DEF a
  <2>3. work[c].step = "none"
    BY <1>1, <2>2, Waiting
  <2>4. Adjusting(f, a) \in Works /\ Adjusting(f, a).step = "adjust"
    BY <2>1, WorksMade
  <2>5. /\ WorkMoves /\ work'[c].step = "adjust"
        /\ \A d \in Clients \ {c} : work'[d] = work[d]
    BY <1>1, <2>2, <2>4, WorkBegun
  <2>6. FaderMoves
    BY <2>2 DEF FaderMoves
  <2>7. VolumeSteps
    BY <1>6 DEF VolumeSteps
  <2> QED
    BY <1>2, <1>3, <2>2, <2>3, <2>5, <2>6, <2>7
<1>7. CASE FinishAdjust(c)
  <2>1. /\ work[c].step = "adjust" /\ SetTarget(work[c].fader, work[c].volume) /\ Done(c)
        /\ UNCHANGED <<levelVars, spectrumVars, configVars, use, commands, alone, setConfig>>
    BY <1>7 DEF FinishAdjust, historyVars
  <2>2. work[c].fader \in FaderNumbers /\ work[c].volume \in Settable
    BY <1>1, <2>1, WorkKinds DEF WorkTypes
  <2>3. /\ WorkMoves /\ work'[c].step = "none"
        /\ \A d \in Clients \ {c} : work'[d] = work[d]
    BY <1>1, <2>1, WorkDone
  <2>4. FaderMoves
    BY <2>1, <2>2 DEF FaderMoves
  <2>5. VolumeSteps
    BY <1>7 DEF VolumeSteps
  <2> QED
    BY <1>2, <2>1, <2>3, <2>4, <2>5
<1>8. CASE FinishExternal(c)
  <2>1. /\ work[c].step = "external" /\ SetCurrent(work[c].fader, work[c].volume) /\ Done(c)
        /\ UNCHANGED <<levelVars, spectrumVars, configVars, use, commands, alone, setVolume, setConfig>>
    BY <1>8 DEF FinishExternal, historyVars
  <2>2. work[c].fader \in FaderNumbers /\ work[c].volume \in Settable
    BY <1>1, <2>1, WorkKinds, ClampedVolumes DEF WorkTypes
  <2>3. /\ WorkMoves /\ work'[c].step = "none"
        /\ \A d \in Clients \ {c} : work'[d] = work[d]
    BY <1>1, <2>1, WorkDone
  <2>4. FaderMoves
    BY <2>1, <2>2 DEF FaderMoves
  <2>5. VolumesRest
    BY <1>1, <2>1, <2>3 DEF VolumesRest, SetCurrent
  <2> QED
    BY <1>2, <2>1, <2>3, <2>4, <2>5
<1> QED
  BY <1>4, <1>5, <1>6, <1>7, <1>8

LEMMA MeterSteps ==
  ASSUME WebsocketInv, NEW c \in Clients, GetLevelsSinceLast(c) \/ FinishReading(c)
  PROVE  StepMoves
<1>1. WorkTypes /\ connected \subseteq Clients /\ alone \in BOOLEAN
  BY DEF WebsocketInv, WorkTypes, AddInv
<1>2. ASSUME UNCHANGED <<faderVars, spectrumVars, configVars, use, alone, setVolume, setConfig>>,
             commands' \in {commands, commands + 1}, LevelMoves, WorkMoves,
             work'[c].step \in {"none", "read"} /\ work[c].step \in {"none", "read"},
             \A d \in Clients \ {c} : work'[d] = work[d]
      PROVE  StepMoves
  <2>1. VolumesRest /\ ConfigsRest
    BY <1>1, <1>2 DEF VolumesRest, ConfigsRest, faderVars, configVars
  <2> QED
    BY <1>2, <2>1 DEF StepMoves, FaderMoves, SpectrumMoves, ConfigMoves
<1>3. CASE GetLevelsSinceLast(c)
  <2>1. /\ Idle(c) /\ SinceLast(c, "rms") /\ Begin(c, Reading("peak")) /\ commands' = commands + 1
        /\ UNCHANGED <<faderVars, spectrumVars, configVars, use, alone, setVolume, setConfig>>
    BY <1>3 DEF GetLevelsSinceLast, Command, Ask, historyVars
  <2>2. "rms" \in Kinds /\ "peak" \in Kinds
    BY WebsocketAssumption
  <2>3. work[c].step = "none"
    BY <1>1, <2>1, Waiting
  <2>4. /\ WorkMoves /\ work'[c].step = "read"
        /\ \A d \in Clients \ {c} : work'[d] = work[d]
    BY <1>1, <2>1, <2>2, WorksMade, WorkBegun
  <2>5. LevelMoves
    BY <2>1, <2>2 DEF LevelMoves
  <2> QED
    BY <1>2, <2>1, <2>3, <2>4, <2>5
<1>4. CASE FinishReading(c)
  <2>1. /\ work[c].step = "read" /\ SinceLast(c, work[c].kind) /\ Done(c)
        /\ UNCHANGED <<faderVars, spectrumVars, configVars, use, commands, alone, setVolume, setConfig>>
    BY <1>4 DEF FinishReading, historyVars
  <2>2. work[c].kind \in Kinds
    BY <1>1, <2>1, WorkKinds DEF WorkTypes
  <2>3. /\ WorkMoves /\ work'[c].step = "none"
        /\ \A d \in Clients \ {c} : work'[d] = work[d]
    BY <1>1, <2>1, WorkDone
  <2>4. LevelMoves
    BY <2>1, <2>2 DEF LevelMoves
  <2> QED
    BY <1>2, <2>1, <2>3, <2>4
<1> QED
  BY <1>3, <1>4

\* What is sent is valid.
LEMMA SentConfigs ==
  ASSUME WebsocketInv
  PROVE  /\ \A conf \in Reloaded : conf \in Configs /\ Valid(conf)
         /\ \A k \in Keys, v \in Parts : \A conf \in Patched(k, v) :
              /\ conf \in Configs /\ Valid(conf) /\ activeConfig \in Configs
              /\ conf = [x \in Keys |-> IF x = k THEN v ELSE activeConfig[x]]
<1>1. ConfigTypes /\ ValidInv /\ NoConfig \notin Configs
  BY MessagesMade DEF WebsocketInv
<1>2. ASSUME NEW conf \in Reloaded PROVE conf \in Configs /\ Valid(conf)
  BY <1>1 DEF Reloaded, ConfigTypes
<1>3. ASSUME NEW k \in Keys, NEW v \in Parts, NEW conf \in Patched(k, v)
      PROVE  /\ conf \in Configs /\ Valid(conf) /\ activeConfig \in Configs
             /\ conf = [x \in Keys |-> IF x = k THEN v ELSE activeConfig[x]]
  <2>1. activeConfig # NoConfig /\ conf = Merged(activeConfig, k, v) /\ Valid(conf)
    BY DEF Patched
  <2>2. activeConfig \in Configs
    BY <1>1, <2>1 DEF ConfigTypes, ValidConfigs
  <2> QED
    BY <2>1, <2>2 DEF Merged, Configs
<1> QED
  BY <1>2, <1>3

\* The steps of the commands of an editor, and what they lead to.
LEMMA EditorSteps ==
  ASSUME WebsocketInv,
         \/ \E c \in Clients :
              \/ \E conf \in Configs : SetConfig(c, conf)
              \/ Reload(c)
              \/ \E k \in Keys, v \in Parts : PatchConfig(c, k, v)
              \/ \E message \in {Stop, Exit} : SendCommand(c, message)
              \/ FinishSending(c)
         \/ MainThread \/ SessionEnds
  PROVE  StepMoves
<1>1. /\ WorkTypes /\ ConfigTypes /\ AddInv
      /\ connected \subseteq Clients /\ alone \in BOOLEAN
  BY DEF WebsocketInv, WorkTypes, AddInv
\* All that make a configuration do so in the same way.
<1>2. ASSUME NEW c \in Clients, NEW m \in ValidMessages, NEW conf,
             Command(c), Begin(c, Sending(m)), ConfigChange(c, conf), alone' => conf = m.conf,
             UNCHANGED <<faderVars, levelVars, spectrumVars, configVars, use>>
      PROVE  StepMoves
  <2>1. Idle(c) /\ commands' = commands + 1
    BY <1>2 DEF Command, Ask
  <2>2. work[c].step = "none"
    BY <1>1, <2>1, Waiting
  <2>3. m \in Messages /\ Sending(m) \in Works /\ Sending(m).step = "send" /\ Sending(m).message = m
    BY WorksMade, MessagesMade
  <2>4. /\ WorkMoves /\ work' = [work EXCEPT ![c] = Sending(m)] /\ work'[c].step = "send"
        /\ \A d \in Clients \ {c} : work'[d] = work[d]
    BY <1>1, <1>2, <2>3, WorkBegun
  <2>5. /\ alone' = (alone /\ NobodySends(c))
        /\ setConfig' = IF alone' THEN conf ELSE setConfig
        /\ setVolume' = setVolume
    BY <1>2 DEF ConfigChange
  <2>6. MakesConfig(c, m)
    BY <1>2, <2>2, <2>4, <2>5 DEF MakesConfig, configVars
  <2>7. ConfigSteps
    BY <2>6 DEF ConfigSteps
  <2>8. VolumesRest
    BY <1>1, <1>2, <2>2, <2>4, <2>5 DEF VolumesRest, faderVars
  <2> QED
    BY <1>2, <2>1, <2>4, <2>7, <2>8
       DEF StepMoves, FaderMoves, LevelMoves, SpectrumMoves, ConfigMoves
<1>3. ASSUME NEW c \in Clients, NEW conf \in Configs, SetConfig(c, conf) PROVE StepMoves
  <2>1. ConfigChanged(conf) \in ValidMessages /\ ConfigChanged(conf).conf = conf
    BY <1>3, MessagesMade DEF SetConfig
  <2> QED
    BY <1>2, <1>3, <2>1 DEF SetConfig
<1>4. ASSUME NEW c \in Clients, Reload(c) PROVE StepMoves
  <2>1. PICK conf \in Reloaded : Begin(c, Sending(ConfigChanged(conf))) /\ ConfigChange(c, conf)
    BY <1>4 DEF Reload
  <2>2. ConfigChanged(conf) \in ValidMessages /\ ConfigChanged(conf).conf = conf
    BY SentConfigs, MessagesMade
  <2> QED
    BY <1>2, <1>4, <2>1, <2>2 DEF Reload
<1>5. ASSUME NEW c \in Clients, NEW k \in Keys, NEW v \in Parts, PatchConfig(c, k, v) PROVE StepMoves
  <2> DEFINE wanted == [x \in Keys |-> IF x = k THEN v ELSE setConfig[x]]
  <2>1. PICK conf \in Patched(k, v) :
          Begin(c, Sending(ConfigChanged(conf))) /\ ConfigChange(c, wanted)
    BY <1>5 DEF PatchConfig
  <2>2. /\ ConfigChanged(conf) \in ValidMessages /\ ConfigChanged(conf).conf = conf
        /\ activeConfig \in Configs
        /\ conf = [x \in Keys |-> IF x = k THEN v ELSE activeConfig[x]]
    BY SentConfigs, MessagesMade
  \* What is patched is the configuration the changes make, if there are no others.
  <2>3. ASSUME alone' PROVE activeConfig = setConfig
    <3>1. /\ alone /\ queue = <<>> /\ inHand = NoMessage /\ ~ended
          /\ \A d \in Clients \ {c} : ~Sends(d)
      BY <2>1, <2>3 DEF ConfigChange, NobodySends, Sends
    <3>2. ~Sends(c)
      BY <1>1, <1>5, Waiting DEF PatchConfig, Command, Sends
    <3> QED
      BY <1>1, <2>2, <3>1, <3>2 DEF AddInv, ConfigsAdd
  <2>4. alone' => wanted = ConfigChanged(conf).conf
    BY <2>2, <2>3
  <2> HIDE DEF wanted
  <2> QED
    BY <1>2, <1>5, <2>1, <2>2, <2>4 DEF PatchConfig
<1>6. ASSUME NEW c \in Clients, NEW message \in {Stop, Exit}, SendCommand(c, message) PROVE StepMoves
  <2>1. message \in ValidMessages /\ message.conf = NoConfig
    BY MessagesMade
  <2> QED
    BY <1>2, <1>6, <2>1 DEF SendCommand
<1>7. ASSUME NEW c \in Clients, FinishSending(c) PROVE StepMoves
  <2>1. /\ work[c].step = "send" /\ TrySend(work[c].message) /\ Done(c)
        /\ UNCHANGED <<faderVars, levelVars, spectrumVars, use, commands, alone, setVolume, setConfig>>
    BY <1>7 DEF FinishSending, historyVars
  <2>2. work[c].message \in ValidMessages
    BY <1>1, <2>1 DEF WorkTypes
  <2>3. /\ WorkMoves /\ work'[c].step = "none"
        /\ \A d \in Clients \ {c} : work'[d] = work[d]
    BY <1>1, <2>1, WorkDone
  <2>4. ConfigMoves
    BY <2>1, <2>2 DEF ConfigMoves
  <2>5. VolumesRest /\ ConfigSteps
    BY <1>1, <1>7, <2>1, <2>3 DEF VolumesRest, ConfigSteps, faderVars
  <2> QED
    BY <2>1, <2>3, <2>4, <2>5 DEF StepMoves, FaderMoves, LevelMoves, SpectrumMoves
<1>8. CASE MainThread
  <2>1. /\ ConfigMoves /\ UNCHANGED <<faderVars, levelVars, spectrumVars, use, commands>>
        /\ UNCHANGED <<connected, work, alone, setVolume, setConfig>>
    BY <1>8 DEF MainThread, ConfigMoves, connectionVars, historyVars
  <2>2. VolumesRest /\ ConfigSteps /\ WorkMoves
    BY <1>1, <1>8, <2>1 DEF VolumesRest, ConfigSteps, faderVars, WorkMoves
  <2> QED
    BY <2>1, <2>2 DEF StepMoves, FaderMoves, LevelMoves, SpectrumMoves
<1>9. CASE SessionEnds
  <2>1. /\ EndSession /\ UNCHANGED <<faderVars, levelVars, spectrumVars, use, setVolume>>
        /\ UNCHANGED <<connected, work>> /\ commands' = commands + 1
        /\ alone' \in BOOLEAN /\ (alone' => alone)
    BY <1>9 DEF SessionEnds, connectionVars, Ask
  <2>2. VolumesRest /\ ConfigSteps /\ WorkMoves /\ ConfigMoves
    BY <1>1, <1>9, <2>1 DEF VolumesRest, ConfigSteps, faderVars, WorkMoves, ConfigMoves
  <2> QED
    BY <2>1, <2>2 DEF StepMoves, FaderMoves, LevelMoves, SpectrumMoves
<1> QED
  BY <1>3, <1>4, <1>5, <1>6, <1>7, <1>8, <1>9

\* Every step is one of these.
LEMMA NextMoves ==
  ASSUME WebsocketInv, [Next]_vars
  PROVE  StepMoves
<1>1. CASE UNCHANGED vars
  <2>1. /\ UNCHANGED <<faderVars, levelVars, spectrumVars, configVars>>
        /\ UNCHANGED <<connected, work, use, commands, alone, setVolume, setConfig>>
        /\ UNCHANGED <<target, queue, inHand, ended, activeConfig>>
    BY <1>1 DEF vars, faderVars, configVars, connectionVars
  <2>2. connected \subseteq Clients /\ alone \in BOOLEAN
    BY DEF WebsocketInv, WorkTypes, AddInv
  <2>3. VolumesRest /\ ConfigsRest /\ WorkMoves
    BY <2>1, <2>2 DEF VolumesRest, ConfigsRest, WorkMoves
  <2> QED
    BY <2>1, <2>3 DEF StepMoves, FaderMoves, LevelMoves, SpectrumMoves, ConfigMoves
<1>2. CASE Next
  <2>1. CASE \E c \in Clients : Open(c) \/ Close(c) \/ Push(c)
    BY <2>1, QuietSteps
  <2>2. ASSUME NEW c \in Clients, Continue(c) PROVE StepMoves
    BY <2>2, RemoteSteps, MeterSteps, EditorSteps DEF Continue
  <2>3. CASE Chunk \/ FilterChange \/ Measure \/ Analysis \/ FileEdited
    BY <2>3, QuietSteps
  <2>4. ASSUME NEW c \in Clients, Remote(c) PROVE StepMoves
    BY <2>4, QuietSteps, RemoteSteps DEF Remote
  <2>5. ASSUME NEW c \in Clients, Meter(c) PROVE StepMoves
    BY <2>5, QuietSteps, MeterSteps DEF Meter
  <2>6. CASE \E c \in Clients : Subscription(c)
    BY <2>6, QuietSteps
  <2>7. CASE MainThread \/ SessionEnds
    BY <2>7, EditorSteps
  <2>8. ASSUME NEW c \in Clients, Editor(c) PROVE StepMoves
    BY <2>8, QuietSteps, EditorSteps DEF Editor
  <2> QED
    BY <1>2, <2>1, <2>2, <2>3, <2>4, <2>5, <2>6, <2>7, <2>8 DEF Next
<1> QED
  BY <1>1, <1>2

\* -------------------------- What they add up to ---------------------------

LEMMA WorkKept == WorkTypes /\ WorkMoves => WorkTypes'
<1> SUFFICES ASSUME WorkTypes, WorkMoves PROVE WorkTypes'
  OBVIOUS
<1>1. connected' \subseteq Clients
  BY DEF WorkMoves
<1>2. ASSUME NEW c \in Clients, NEW w \in Works, w.step = "send" => w.message \in ValidMessages,
             work' = [work EXCEPT ![c] = w]
      PROVE  WorkTypes'
  <2>1. work' \in [Clients -> Works]
    BY <1>2 DEF WorkTypes
  <2>2. ASSUME NEW d \in Clients
        PROVE  work'[d].step = "send" => work'[d].message \in ValidMessages
    BY <1>2 DEF WorkTypes
  <2> QED
    BY <1>1, <2>1, <2>2 DEF WorkTypes
<1>3. CASE UNCHANGED work
  BY <1>1, <1>3 DEF WorkTypes
<1>4. Nothing \in Works /\ Nothing.step # "send"
  BY WorksMade
<1> QED
  BY <1>2, <1>3, <1>4 DEF WorkMoves

\* The volumes that are asked for add up: a handler that has read a volume is alone
\* until it has written it.
LEMMA VolumesKept ==
  ASSUME WorkTypes, FaderTypes, AddInv, VolumesRest \/ VolumeSteps
  PROVE  /\ alone' \in BOOLEAN /\ setVolume' \in [FaderNumbers -> Settable]
         /\ VolumesAdd'
<1>1. /\ alone \in BOOLEAN /\ setVolume \in [FaderNumbers -> Settable] /\ VolumesAdd
      /\ target \in [FaderNumbers -> Settable] /\ Settable \subseteq Nat
  BY ClampedVolumes DEF AddInv, FaderTypes
<1>2. CASE VolumesRest
  <2>1. ASSUME NEW c \in Clients, NEW f \in FaderNumbers
        PROVE  /\ Adjusts(c, f)' <=> Adjusts(c, f)
               /\ Adjusts(c, f) => work'[c] = work[c]
    BY <1>2 DEF VolumesRest, Adjusts
  <2>2. alone' \in BOOLEAN /\ (alone' => alone) /\ target' = target /\ setVolume' = setVolume
    BY <1>2 DEF VolumesRest
  <2> QED
    BY <1>1, <2>1, <2>2 DEF VolumesAdd
<1>3. ASSUME NEW c \in Clients, NEW f \in FaderNumbers, NEW v \in Settable, SetsVolume(c, f, v)
      PROVE  /\ alone' \in BOOLEAN /\ setVolume' \in [FaderNumbers -> Settable]
             /\ VolumesAdd'
  <2>1. ASSUME NEW d \in Clients, NEW g \in FaderNumbers
        PROVE  /\ Adjusts(d, g)' <=> Adjusts(d, g)
               /\ Adjusts(d, g) => d # c /\ work'[d] = work[d]
    BY <1>3 DEF SetsVolume, Adjusts
  <2>2. /\ alone' \in BOOLEAN /\ target' = [target EXCEPT ![f] = v]
        /\ alone' => /\ alone /\ setVolume' = [setVolume EXCEPT ![f] = v]
                     /\ \A d \in Clients \ {c} : ~Adjusts(d, f)
        /\ ~alone' => setVolume' = setVolume
    BY <1>3 DEF SetsVolume, VolumeChange, AloneOn, Adjusts
  <2> QED
    BY <1>1, <2>1, <2>2 DEF VolumesAdd
<1>4. ASSUME NEW c \in Clients, NEW f \in FaderNumbers, NEW change \in Changes,
             NEW limits \in AdjustLimits, AdjustVolume(c, f, change, limits)
      PROVE  /\ alone' \in BOOLEAN /\ setVolume' \in [FaderNumbers -> Settable]
             /\ VolumesAdd'
  <2> DEFINE Result(v) == Adjusted(v, change[1], change[2], limits[1], limits[2])
  <2>1. \A v \in Nat : Result(v) \in Settable
    <3>1. change \in BOOLEAN \X Nat
      BY WebsocketAssumption
    <3>2. limits[1] <= limits[2]
      BY <1>4 DEF AdjustVolume
    <3> QED
      BY <3>1, <3>2, ClampedVolumes
  <2>2. /\ Idle(c) /\ Begin(c, Adjusting(f, Result(target[f]))) /\ target' = target
        /\ alone' = (alone /\ AloneOn(c, f))
        /\ setVolume' = IF alone' THEN [setVolume EXCEPT ![f] = Result(setVolume[f])] ELSE setVolume
    BY <1>4 DEF AdjustVolume, Command, VolumeChange, faderVars
  <2> HIDE DEF Result
  <2>3. /\ Adjusting(f, Result(target[f])).step = "adjust"
        /\ Adjusting(f, Result(target[f])).fader = f
        /\ Adjusting(f, Result(target[f])).volume = Result(target[f])
    <3>1. target[f] \in Settable /\ target[f] \in Nat
      BY <1>1
    <3> QED
      BY <2>1, <3>1, WorksMade
  <2>4. work'[c] = Adjusting(f, Result(target[f])) /\ \A d \in Clients \ {c} : work'[d] = work[d]
    BY <2>2 DEF Begin, WorkTypes
  <2>5. \A g \in FaderNumbers : ~Adjusts(c, g)
    BY <2>2, Waiting DEF Adjusts
  <2>6. /\ Adjusts(c, f)' /\ work'[c].volume = Result(target[f])
        /\ \A g \in FaderNumbers : g # f => ~Adjusts(c, g)'
        /\ \A d \in Clients \ {c}, g \in FaderNumbers : Adjusts(d, g)' <=> Adjusts(d, g)
    BY <2>3, <2>4 DEF Adjusts
  <2>7. alone' \in BOOLEAN /\ setVolume' \in [FaderNumbers -> Settable]
    BY <1>1, <2>1, <2>2
  <2>8. SUFFICES ASSUME alone' PROVE VolumesAdd'
    BY <2>7 DEF VolumesAdd
  \* Nobody else adjusts the fader: what is read is what the changes have made of it.
  <2>9. alone /\ \A d \in Clients \ {c} : ~Adjusts(d, f)
    BY <2>2, <2>8 DEF AloneOn, Adjusts
  <2>10. target[f] = setVolume[f]
    BY <1>1, <2>5, <2>9 DEF VolumesAdd
  <2>11. setVolume' = [setVolume EXCEPT ![f] = Result(setVolume[f])]
    BY <2>2, <2>8
  <2>12. /\ \A d \in Clients : Adjusts(d, f)' => d = c
         /\ work'[c].volume = setVolume'[f]
    BY <1>1, <2>6, <2>9, <2>10, <2>11
  <2>13. ASSUME NEW g \in FaderNumbers, g # f
         PROVE  /\ \A d \in Clients : Adjusts(d, g)' <=> Adjusts(d, g)
                /\ \A d \in Clients : Adjusts(d, g) => work'[d] = work[d]
                /\ setVolume'[g] = setVolume[g]
    BY <1>1, <2>4, <2>5, <2>6, <2>11, <2>13
  <2>14. ASSUME NEW g \in FaderNumbers
         PROVE  /\ (\A d \in Clients : ~Adjusts(d, g)') => target'[g] = setVolume'[g]
                /\ \A d \in Clients : Adjusts(d, g)' => work'[d].volume = setVolume'[g]
                /\ \A d, e \in Clients : Adjusts(d, g)' /\ Adjusts(e, g)' => d = e
    <3>1. CASE g = f
      BY <2>6, <2>12, <3>1
    <3>2. CASE g # f
      BY <1>1, <2>2, <2>9, <2>13, <3>2 DEF VolumesAdd
    <3> QED
      BY <3>1, <3>2
  <2> QED
    BY <2>14 DEF VolumesAdd
<1>5. ASSUME NEW c \in Clients, FinishAdjust(c)
      PROVE  /\ alone' \in BOOLEAN /\ setVolume' \in [FaderNumbers -> Settable]
             /\ VolumesAdd'
  <2>1. /\ work[c].step = "adjust" /\ target' = [target EXCEPT ![work[c].fader] = work[c].volume]
        /\ Done(c) /\ alone' = alone /\ setVolume' = setVolume
    BY <1>5 DEF FinishAdjust, SetTarget, historyVars
  <2>2. work[c].fader \in FaderNumbers
    BY <2>1, WorkKinds DEF WorkTypes
  <2>3. work'[c].step = "none" /\ \A d \in Clients \ {c} : work'[d] = work[d]
    BY <2>1, WorkDone
  <2>4. /\ \A g \in FaderNumbers : ~Adjusts(c, g)'
        /\ \A g \in FaderNumbers : Adjusts(c, g) <=> g = work[c].fader
        /\ \A d \in Clients \ {c}, g \in FaderNumbers : Adjusts(d, g)' <=> Adjusts(d, g)
    BY <2>1, <2>3 DEF Adjusts
  <2>5. SUFFICES ASSUME alone, NEW g \in FaderNumbers
                 PROVE  /\ (\A d \in Clients : ~Adjusts(d, g)') => target'[g] = setVolume[g]
                        /\ \A d \in Clients : Adjusts(d, g)' => work'[d].volume = setVolume[g]
                        /\ \A d, e \in Clients : Adjusts(d, g)' /\ Adjusts(e, g)' => d = e
    BY <1>1, <2>1 DEF VolumesAdd
  <2>6. /\ (\A d \in Clients : ~Adjusts(d, g)) => target[g] = setVolume[g]
        /\ \A d \in Clients : Adjusts(d, g) => work[d].volume = setVolume[g]
        /\ \A d, e \in Clients : Adjusts(d, g) /\ Adjusts(e, g) => d = e
    BY <1>1, <2>5 DEF VolumesAdd
  <2>7. /\ \A d \in Clients : Adjusts(d, g)' => work'[d].volume = setVolume[g]
        /\ \A d, e \in Clients : Adjusts(d, g)' /\ Adjusts(e, g)' => d = e
    BY <2>3, <2>4, <2>6
  <2>8. CASE g = work[c].fader
    BY <1>1, <2>1, <2>4, <2>6, <2>7, <2>8
  <2>9. CASE g # work[c].fader
    <3>1. target'[g] = target[g] /\ \A d \in Clients : Adjusts(d, g)' <=> Adjusts(d, g)
      BY <1>1, <2>1, <2>4, <2>9
    <3> QED
      BY <2>6, <2>7, <3>1
  <2> QED
    BY <2>8, <2>9
<1> QED
  BY <1>2, <1>3, <1>4, <1>5 DEF VolumeSteps

\* And so do the configurations: one is on its way at a time, and the last one that
\* was sent becomes the active one.
LEMMA ConfigsKept ==
  ASSUME WorkTypes, ConfigTypes, ValidInv, AddInv, alone' \in BOOLEAN, ConfigsRest \/ ConfigSteps
  PROVE  setConfig' \in {NoConfig} \cup Configs /\ ConfigsAdd'
<1>1. /\ alone \in BOOLEAN /\ setConfig \in {NoConfig} \cup Configs /\ ConfigsAdd
      /\ queue \in Seq(ValidMessages) /\ QueueCapacity \in Nat \ {0} /\ ended \in BOOLEAN
      /\ inHand \in ValidHands /\ work \in [Clients -> Works]
  BY ConfigAssumption DEF AddInv, ValidInv, ConfigTypes, WorkTypes
<1>2. CASE ConfigsRest
  <2>1. ASSUME NEW c \in Clients
        PROVE  /\ Sends(c)' <=> Sends(c)
               /\ Sends(c) => work'[c] = work[c]
    BY <1>2 DEF ConfigsRest, Sends
  <2>2. UNCHANGED <<queue, inHand, ended, activeConfig, setConfig>> /\ (alone' => alone)
    BY <1>2 DEF ConfigsRest
  <2> QED
    BY <1>1, <2>1, <2>2 DEF ConfigsAdd
<1>3. ASSUME NEW c \in Clients, NEW m \in ValidMessages, MakesConfig(c, m)
      PROVE  setConfig' \in {NoConfig} \cup Configs /\ ConfigsAdd'
  <2>1. /\ m \in Messages /\ m.conf \in {NoConfig} \cup Configs
        /\ Sending(m).step = "send" /\ Sending(m).message = m
    BY MessagesMade, WorksMade DEF ValidConfigs
  <2>2. /\ work' = [work EXCEPT ![c] = Sending(m)] /\ alone' = (alone /\ NobodySends(c))
        /\ setConfig' = IF alone' THEN m.conf ELSE setConfig
        /\ queue' = queue /\ inHand' = inHand
    BY <1>3 DEF MakesConfig
  <2>3. SUFFICES ASSUME alone' PROVE ConfigsAdd'
    BY <1>1, <2>1, <2>2 DEF ConfigsAdd
  <2>4. queue' = <<>> /\ inHand' = NoMessage /\ \A d \in Clients \ {c} : work[d].step # "send"
    BY <2>2, <2>3 DEF NobodySends
  <2>5. /\ Sends(c)' /\ work'[c].message.conf = setConfig'
        /\ \A d \in Clients : Sends(d)' => d = c
    BY <1>1, <2>1, <2>2, <2>3, <2>4 DEF Sends
  <2> QED
    BY <2>4, <2>5 DEF ConfigsAdd
<1>4. ASSUME NEW c \in Clients, FinishSending(c)
      PROVE  setConfig' \in {NoConfig} \cup Configs /\ ConfigsAdd'
  <2>1. /\ work[c].step = "send" /\ TrySend(work[c].message) /\ Done(c)
        /\ alone' = alone /\ setConfig' = setConfig
    BY <1>4 DEF FinishSending, historyVars
  <2>2. work'[c].step = "none" /\ \A d \in Clients \ {c} : work'[d] = work[d]
    BY <2>1, WorkDone
  <2>3. ended' = ended /\ activeConfig' = activeConfig /\ inHand' = inHand
    BY <2>1 DEF TrySend
  <2>4. SUFFICES ASSUME alone, ~ended PROVE ConfigsAdd'
    BY <1>1, <2>1, <2>3 DEF ConfigsAdd
  <2>5. /\ queue = <<>> /\ inHand = NoMessage /\ work[c].message.conf = setConfig
        /\ \A d \in Clients \ {c} : ~Sends(d)
    BY <1>1, <2>1, <2>4 DEF ConfigsAdd, Sends
  <2>6. work[c].message \in ValidMessages
    BY <2>1 DEF WorkTypes
  <2>7. Len(queue) = 0
    BY <2>5
  <2>8. queue' = Append(queue, work[c].message)
    BY <1>1, <2>1, <2>4, <2>7 DEF TrySend, Accepts
  <2>9. Len(queue') = 1 /\ queue'[1] = work[c].message
    BY <1>1, <2>6, <2>7, <2>8, Channel
  <2>10. \A d \in Clients : ~Sends(d)'
    BY <2>2, <2>5 DEF Sends
  <2>11. queue' # <<>>
    BY <2>9, EmptySeq
  <2> QED
    BY <1>1, <2>1, <2>3, <2>5, <2>9, <2>10, <2>11 DEF ConfigsAdd
<1>5. CASE MainThread
  <2>1. /\ work' = work /\ alone' = alone /\ setConfig' = setConfig /\ ~ended
        /\ \/ StartSession \/ EndIdle \/ LoseSession
           \/ TakeMessage \/ CheckQueue \/ PublishChange \/ PublishStop \/ Leave
    BY <1>5 DEF MainThread, connectionVars, historyVars, StartSession, EndIdle, LoseSession,
                TakeMessage, CheckQueue, PublishChange, PublishStop, Leave
  <2>2. SUFFICES ASSUME alone PROVE ConfigsAdd'
    BY <1>1, <2>1 DEF ConfigsAdd
  <2>3. \A c \in Clients : Sends(c)' <=> Sends(c)
    BY <2>1 DEF Sends
  <2>4. CASE StartSession \/ LoseSession
    <3>1. UNCHANGED <<queue, inHand, ended, activeConfig>>
      BY <2>4 DEF StartSession, LoseSession
    <3> QED
      BY <1>1, <2>1, <2>3, <3>1 DEF ConfigsAdd
  <2>5. CASE EndIdle \/ Leave
    BY <2>5 DEF EndIdle, Leave, ConfigsAdd
  <2>6. CASE TakeMessage
    <3>1. queue # <<>> /\ queue' = Tail(queue) /\ inHand' = Head(queue)
      BY <2>6 DEF TakeMessage
    <3>2. Len(queue) = 1 /\ queue[1].conf = setConfig /\ \A c \in Clients : ~Sends(c)
      BY <1>1, <2>1, <2>2, <3>1 DEF ConfigsAdd
    <3>3. Head(queue) = queue[1] /\ Tail(queue) \in Seq(ValidMessages) /\ Len(Tail(queue)) = 0
          /\ Head(queue) \in ValidMessages
      BY <1>1, <3>1, <3>2, Channel
    <3>4. queue' = <<>> /\ inHand'.conf = setConfig
      BY <3>1, <3>2, <3>3, EmptySeq
    <3>5. inHand' # NoMessage
      BY <3>1, <3>3, MessagesMade DEF NoMessage, ValidMessages, Messages, ConfigChanged, Stop, Exit
    <3> QED
      BY <1>1, <2>1, <2>3, <3>2, <3>4, <3>5 DEF ConfigsAdd
  \* A change that is taken alone finds no others in the channel.
  <2>7. CASE CheckQueue
    <3>1. /\ UNCHANGED <<queue, ended, activeConfig>>
          /\ inHand' = IF queue = <<>> THEN inHand ELSE NoMessage
      BY <2>7 DEF CheckQueue
    <3>2. inHand' = inHand
      BY <1>1, <2>1, <2>2, <3>1 DEF ConfigsAdd
    <3> QED
      BY <1>1, <2>1, <2>3, <3>1, <3>2 DEF ConfigsAdd
  <2>8. CASE PublishChange \/ PublishStop
    <3>1. /\ UNCHANGED <<queue, ended>> /\ inHand' = NoMessage
          /\ inHand.type \in {"ConfigChanged", "Stop", "Ended"}
          /\ activeConfig' = IF inHand.type = "ConfigChanged" THEN inHand.conf ELSE NoConfig
      BY <2>8 DEF PublishChange, PublishStop
    <3>2. inHand # NoMessage /\ activeConfig' = inHand.conf
      BY <1>1, <3>1, HandsMade
    <3>3. queue = <<>> /\ inHand.conf = setConfig /\ \A c \in Clients : ~Sends(c)
      BY <1>1, <2>1, <2>2, <3>2 DEF ConfigsAdd
    <3> QED
      BY <1>1, <2>1, <2>3, <3>1, <3>2, <3>3 DEF ConfigsAdd
  <2> QED
    BY <2>1, <2>4, <2>5, <2>6, <2>7, <2>8
<1>6. CASE SessionEnds
  <2>1. /\ inHand' = Ended /\ UNCHANGED <<queue, ended, activeConfig, work>>
        /\ alone' = (alone /\ queue = <<>> /\ \A d \in Clients : work[d].step # "send")
        /\ setConfig' = IF alone' THEN NoConfig ELSE setConfig
    BY <1>6 DEF SessionEnds, EndSession, connectionVars
  <2>2. SUFFICES ASSUME alone' PROVE ConfigsAdd'
    BY <1>1, <2>1 DEF ConfigsAdd
  <2>3. queue' = <<>> /\ \A c \in Clients : ~Sends(c)'
    BY <2>1, <2>2 DEF Sends
  <2>4. inHand' # NoMessage /\ inHand'.conf = setConfig'
    BY <2>1, <2>2 DEF Ended, NoMessage
  <2> QED
    BY <2>2, <2>3, <2>4 DEF ConfigsAdd
<1> QED
  BY <1>2, <1>3, <1>4, <1>5, <1>6 DEF ConfigSteps

-----------------------------------------------------------------------------
\* ------------------------------ The invariant ------------------------------

\* At the start nothing has been read, sent or changed.
LEMMA InitWebsocket == Init => WebsocketInv
<1> SUFFICES ASSUME Init PROVE WebsocketInv
  OBVIOUS
<1>1. /\ InitFaders /\ InitLevels /\ InitSpectrum /\ InitConfig /\ InitConnections
      /\ use \in Uses /\ commands = 0 /\ alone = TRUE
      /\ setVolume = target /\ setConfig = activeConfig
  BY DEF Init
<1>2. FaderTypes
  <2>1. /\ target = [f \in FaderNumbers |-> Unity] /\ current = target
        /\ mute = [f \in FaderNumbers |-> FALSE] /\ foreign = FALSE
        /\ Unity \in Settable /\ Unity \in Nat \ {0} /\ MuteVolume \in Nat \ {0}
        /\ MainFader \in FaderNumbers
    BY <1>1, VolumeAssumption, ClampedVolumes DEF InitFaders
  <2>2. PICK t \in RampTimes, l \in Limits : volume = NewVolume(MainFader, t, l)
    BY <1>1 DEF InitFaders
  <2>3. volume \in VolumeStates
    BY <2>1, <2>2 DEF NewVolume, VolumeStates
  <2>4. out \in [first : Nat, last : Nat]
    <3>1. volume.current \in Nat /\ out = [first |-> volume.current, last |-> volume.current]
      BY <1>1, <2>3 DEF VolumeStates, InitFaders
    <3> QED
      BY <3>1
  <2> QED
    BY <2>1, <2>3, <2>4 DEF FaderTypes
<1>3. LevelTypes /\ ReadInv
  <2>1. /\ records = [k \in Kinds |-> <<>>] /\ width = FirstWidth
        /\ peak = [k \in Kinds |-> 0] /\ clock = 0
        /\ lastRead = [c \in Clients |-> [k \in Kinds |-> 0]]
        /\ unread = [c \in Clients |-> [k \in Kinds |-> <<>>]]
    BY <1>1 DEF InitLevels
  <2>2. LevelTypes
    BY <2>1, LevelsAssumption DEF LevelTypes
  <2>3. \A k \in Kinds : Ordered(k)
    BY <2>1 DEF Ordered
  <2>4. \A c \in Clients, k \in Kinds : Fresh(c, k)
    BY <2>1 DEF Fresh
  <2> QED
    BY <2>2, <2>3, <2>4 DEF ReadInv
<1>4. SpectrumTypes
  BY <1>1, SpectrumAssumption DEF InitSpectrum, SpectrumTypes
<1>5. ConfigTypes /\ ValidInv
  <2>1. /\ activeConfig \in ValidConfigs /\ activePath \in Files /\ queue = <<>> /\ ended = FALSE
        /\ main = "loop" /\ inHand = NoMessage
        /\ content = [f \in Files |-> FirstConfig] /\ FirstConfig \in Configs
        /\ QueueCapacity \in Nat
    BY <1>1, ConfigAssumption, FirstConfigAssumption DEF InitConfig, ValidConfigs
  <2>2. queue \in Seq(Messages) /\ queue \in Seq(ValidMessages) /\ Len(queue) = 0
    BY <2>1
  <2>3. Len(queue) <= QueueCapacity /\ 1..Len(queue) = {}
    BY <2>1, <2>2
  <2>4. content \in [Files -> Configs]
    BY <2>1
  <2>5. \A i \in 1..Len(queue) : queue[i].conf # NoConfig => Valid(queue[i].conf)
    BY <2>3
  <2>6. inHand \in ValidHands /\ inHand.conf = NoConfig
    BY <2>1 DEF ValidHands, NoMessage
  <2> QED
    BY <2>1, <2>2, <2>3, <2>4, <2>5, <2>6 DEF ConfigTypes, ValidInv
<1>6. connected = Clients /\ work = [c \in Clients |-> Nothing]
  BY <1>1 DEF InitConnections
<1>7. WorkTypes
  BY <1>6, WorksMade DEF WorkTypes
<1>8. AddInv
  <2>1. \A c \in Clients : work[c].step = "none"
    BY <1>6, WorksMade
  <2>2. setVolume \in [FaderNumbers -> Settable] /\ setConfig \in {NoConfig} \cup Configs
    BY <1>1, <1>2, <1>5 DEF FaderTypes, ConfigTypes, ValidConfigs
  <2>3. VolumesAdd
    BY <1>1, <2>1 DEF VolumesAdd, Adjusts
  <2>4. ConfigsAdd
    BY <1>1, <2>1 DEF ConfigsAdd, Sends, InitConfig
  <2> QED
    BY <1>1, <2>2, <2>3, <2>4 DEF AddInv
<1> QED
  BY <1>1, <1>2, <1>3, <1>4, <1>5, <1>7, <1>8 DEF WebsocketInv

LEMMA WebsocketInvKept == WebsocketInv /\ [Next]_vars => WebsocketInv'
<1> SUFFICES ASSUME WebsocketInv, [Next]_vars PROVE WebsocketInv'
  OBVIOUS
<1>1. StepMoves
  BY NextMoves
<1>2. FaderTypes /\ LevelTypes /\ SpectrumTypes /\ ConfigTypes /\ WorkTypes
      /\ ValidInv /\ ReadInv /\ AddInv
  BY DEF WebsocketInv
<1>3. FaderTypes' /\ LevelTypes' /\ ReadInv' /\ SpectrumTypes'
  BY <1>1, <1>2, FadersTyped, LevelsKept, SpectrumTyped DEF StepMoves
<1>4. ConfigTypes' /\ ValidInv' /\ WorkTypes'
  BY <1>1, <1>2, ConfigTyped, WorkKept DEF StepMoves
<1>5. alone' \in BOOLEAN /\ setVolume' \in [FaderNumbers -> Settable] /\ VolumesAdd'
  BY <1>1, <1>2, VolumesKept DEF StepMoves
<1>6. setConfig' \in {NoConfig} \cup Configs /\ ConfigsAdd'
  BY <1>1, <1>2, <1>5, ConfigsKept DEF StepMoves
<1>7. use' \in Uses /\ commands' \in Nat
  BY <1>1 DEF StepMoves, WebsocketInv
<1> QED
  BY <1>3, <1>4, <1>5, <1>6, <1>7 DEF WebsocketInv, AddInv

LEMMA WebsocketInvariant == Spec => []WebsocketInv
<1> QED
  BY InitWebsocket, WebsocketInvKept, PTL DEF Spec

-----------------------------------------------------------------------------
\* ------------------------------ The theorems ------------------------------

\* The shared state keeps its types: whatever the connections send, no invalid
\* configuration is put into the command channel or becomes the active one, the channel
\* never holds more than its capacity, and no volume leaves the range of the settings,
\* but for one that was adjusted, which stays within limits that came with a command.
THEOREM WebsocketTypes == Spec => []TypeOK
<1>1. WebsocketInv => TypeOK
  BY DEF WebsocketInv, TypeOK, WorkTypes, AddInv
<1> QED
  BY <1>1, WebsocketInvariant, PTL

\* The peak and RMS values since the last read are of the levels that this connection
\* has not been given yet, each of them once, whichever other connections read, reset
\* the peaks or disconnect in between, and also when the number of channels changes.
THEOREM ReadingsComplete == Spec => []ReadingsAreComplete
<1>1. WebsocketInv => ReadingsAreComplete
  BY FreshIsComplete DEF WebsocketInv
<1> QED
  BY <1>1, WebsocketInvariant, PTL

\* Changes of a volume or of the configuration that do not overlap are all made: none of
\* them is lost between its read, its write, the channel to the main thread and the
\* time that thread takes to end the session before it publishes the change.
THEOREM ChangesCompose == Spec => []LoneChangesCompose
<1>1. WebsocketInv => LoneChangesCompose
  <2> SUFFICES ASSUME VolumesAdd, ConfigsAdd PROVE LoneChangesCompose
    BY DEF WebsocketInv, AddInv
  <2>1. ASSUME alone, NEW f \in FaderNumbers,
               \A c \in Clients : work[c].step # "adjust" \/ work[c].fader # f
        PROVE  target[f] = setVolume[f]
    <3>1. \A c \in Clients : ~Adjusts(c, f)
      BY <2>1 DEF Adjusts
    <3> QED
      BY <2>1, <3>1 DEF VolumesAdd
  <2>2. ASSUME alone, queue = <<>>, inHand = NoMessage, ~ended, \A c \in Clients : work[c].step # "send"
        PROVE  activeConfig = setConfig
    BY <2>2 DEF ConfigsAdd, Sends
  <2> QED
    BY <2>1, <2>2 DEF LoneChangesCompose
<1> QED
  BY <1>1, WebsocketInvariant, PTL

\* A ramp may be interrupted anywhere: by a new volume, a mute, another fader, another
\* limit or a new pipeline.
LEMMA RampInvariant ==
  ASSUME OneRampTime
  PROVE  Spec => [](WebsocketInv /\ RampInv)
<1>1. Init => RampInv
  <2> SUFFICES ASSUME Init PROVE RampInv
    OBVIOUS
  <2>1. FaderTypes
    BY InitWebsocket DEF WebsocketInv
  <2>2. PICK t \in RampTimes, l \in Limits : volume = NewVolume(MainFader, t, l)
    BY DEF Init, InitFaders
  <2>3. /\ volume.step = 0 /\ volume.mute = FALSE /\ volume.ramptime = t
        /\ volume.current = Unity /\ volume.target = Unity /\ out.last = Unity
    BY <2>2, VolumeAssumption DEF Init, InitFaders, NewVolume
  <2>4. MuteVolume \in Nat /\ Unity \in Nat /\ t \in Nat
    BY VolumeAssumption, ClampedVolumes
  <2> QED
    BY <2>3, <2>4 DEF RampInv, Loudest, Greatest
<1>2. WebsocketInv /\ RampInv /\ [Next]_vars => RampInv'
  BY NextMoves, RampKept DEF WebsocketInv, StepMoves
<1> QED
  BY <1>1, <1>2, InitWebsocket, WebsocketInvKept, PTL DEF Spec

\* The volume never jumps up: a chunk starts no louder than the last one has ended, or
\* than -100 dB, wherever the ramp before was interrupted, and within a chunk it rises no
\* higher than the settings ask for.  The ramp time is not changed in mid-ramp, where a
\* shorter one leaves the filter without any gain, and is not 0, where there are no ramps.
THEOREM NoJump ==
  ASSUME OneRampTime
  PROVE  Spec => NoJumpUp
<1>1. ASSUME FaderTypes, RampInv, Chunk, ~foreign
      PROVE  out'.first <= Loudest /\ out'.last <= Greatest(Loudest, Wanted)
  <2> DEFINE v == Prepare(volume)
  <2>1. /\ v \in VolumeStates /\ v.step \in 0..v.ramptime
        /\ v.step = 0 => LinearGain(v) <= Loudest
        /\ v.step > 0 => RampAt(v, v.step - 1) <= Loudest
    BY <1>1, FirstGain
  <2>2. \/ v.step = 0 /\ out' = [first |-> LinearGain(v), last |-> LinearGain(v)]
        \/ /\ v.step \in 1..v.ramptime
           /\ out' = [first |-> RampAt(v, v.step - 1), last |-> RampAt(v, v.step)]
        \/ v.step > v.ramptime
    BY <1>1, ChunkSteps DEF Chunk
  <2>3. v.step \in Nat /\ v.ramptime \in Nat /\ LinearGain(v) \in Nat
    BY <2>1, VolumeAssumption DEF VolumeStates, LinearGain, Silence
  <2>4. /\ Wanted = IF v.mute THEN 0 ELSE v.target
        /\ Wanted \in Nat /\ Loudest \in Nat /\ MuteVolume \in Nat /\ MuteVolume <= Loudest
    <3>1. Wanted = IF v.mute THEN 0 ELSE v.target
      BY <1>1, PreparedEnd DEF Wanted, Silence
    <3>2. v.mute \in BOOLEAN /\ v.target \in Nat
      BY <2>1 DEF VolumeStates
    <3>3. /\ Loudest \in Nat /\ MuteVolume \in Nat /\ out.last \in Nat
          /\ MuteVolume <= Greatest(out.last, MuteVolume)
      BY <1>1, VolumeNumbers DEF Greatest
    <3> QED
      BY <3>1, <3>2, <3>3 DEF Loudest
  <2> HIDE DEF v
  <2>5. CASE v.step = 0
    <3>1. out'.first = LinearGain(v) /\ out'.last = LinearGain(v) /\ LinearGain(v) <= Loudest
      BY <2>1, <2>2, <2>3, <2>5
    <3> QED
      BY <2>3, <2>4, <3>1 DEF Greatest
  <2>6. CASE v.step > 0
    <3>1. v.step \in 1..v.ramptime /\ v.step - 1 \in 0..v.ramptime /\ v.ramptime > 0
      BY <2>1, <2>3, <2>6
    <3>2. out'.first = RampAt(v, v.step - 1) /\ out'.last = RampAt(v, v.step)
      BY <2>2, <2>3, <2>6, <3>1
    <3>3. RampAt(v, v.step - 1) <= Loudest
      BY <2>1, <2>6
    <3>4. /\ RampAt(v, v.step) \in Nat /\ RampAt(v, v.step - 1) \in Nat
          /\ RampAt(v, v.step) <= Greatest(RampAt(v, v.step - 1),
                                          IF v.mute THEN MuteVolume ELSE v.target)
      BY <2>1, <3>1, OnTheWay, NextOnTheWay
    <3>5. v.mute \in BOOLEAN /\ v.target \in Nat
      BY <2>1 DEF VolumeStates
    <3>6. RampAt(v, v.step) <= Greatest(Loudest, Wanted)
      BY <2>4, <3>3, <3>4, <3>5 DEF Greatest
    <3> QED
      BY <3>2, <3>3, <3>6
  <2> QED
    BY <2>3, <2>5, <2>6
<1>2. WebsocketInv /\ RampInv /\ [Next]_vars
        => [Chunk /\ ~foreign =>
              LET loudest == Greatest(out.last, MuteVolume)
              IN  out'.first <= loudest /\ out'.last <= Greatest(loudest, Wanted)]_vars
  BY <1>1 DEF WebsocketInv, Loudest
<1> QED
  BY <1>2, RampInvariant, PTL DEF Spec, NoJumpUp
=============================================================================
