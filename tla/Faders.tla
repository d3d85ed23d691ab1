------------------------------- MODULE Faders -------------------------------
(***************************************************************************)
(* The volume controls: ProcessingParameters (lib.rs), shared between the  *)
(* websocket handlers and the processing thread as atomics, and the Volume *)
(* filter (filters/basicfilters.rs) that follows one of them with a ramp.  *)
(*                                                                         *)
(* A volume is a whole number of steps of some dB, counted from below the  *)
(* lowest setting; a ramp rounds to them.  Changes below 0.01 dB, which    *)
(* the filter ignores, do not show.                                        *)
(***************************************************************************)
EXTENDS Naturals

CONSTANTS
  FaderNumbers,  \* the faders there are
  MainFader,     \* the one of the Volume filter every pipeline begins with
  MinVolume,     \* -150 dB, where settings are clamped
  MuteVolume,    \* -100 dB, where the ramp of a mute ends
  Unity,         \* 0 dB: the signal as it is
  MaxVolume,     \* +50 dB
  Requests,      \* what clients may ask for, beyond the limits too
  Limits,        \* the limits a Volume filter may be configured with
  RampTimes,     \* its ramp times, in chunks
  AdjustLimits   \* the limits AdjustVolume may come with: <<low, high>>

Volumes == MinVolume .. MaxVolume

\* What a volume may be set to.  The limits of AdjustVolume replace those of the other
\* commands.
Settable == Volumes \cup UNION {limits[1] .. limits[2] : limits \in AdjustLimits}

\* The gain 0.0 of a muted fader.
Silence == 0

ASSUME VolumeAssumption ==
  /\ MinVolume \in Nat \ {0} /\ MaxVolume \in Nat
  /\ {MuteVolume, Unity} \cup Limits \subseteq Volumes
  /\ MinVolume < MuteVolume /\ MuteVolume < Unity
  /\ Requests \subseteq Nat
  /\ RampTimes \subseteq Nat /\ MainFader \in FaderNumbers
  /\ AdjustLimits \subseteq (Nat \ {0}) \X Nat

VARIABLES
  target,    \* ProcessingParameters, by fader: what the clients have set,
  current,   \*   what the filter has reached,
  mute,      \*   and whether the fader is muted
  volume,    \* the Volume filter of the running pipeline
  out,       \* the gain at the first and the last sample of the last chunk
  foreign    \* history: a filter was built from a volume that the last had not reached

faderVars == <<target, current, mute, volume, out, foreign>>

Least(a, b)    == IF a < b THEN a ELSE b
Greatest(a, b) == IF a < b THEN b ELSE a

\* ------------------------------ The filter -------------------------------

\* Volume::from_config and Volume::new: it starts from the volume the last filter
\* on this fader has left behind.
NewVolume(fader, ramptime, limit) ==
  [fader    |-> fader,
   ramptime |-> ramptime,
   limit    |-> limit,
   current  |-> IF mute[fader] THEN MuteVolume ELSE current[fader],
   start    |-> current[fader],
   target   |-> current[fader],
   mute     |-> mute[fader],
   step     |-> 0]

InitFaders ==
  /\ target = [f \in FaderNumbers |-> Unity]
  /\ current = target
  /\ mute = [f \in FaderNumbers |-> FALSE]
  /\ \E t \in RampTimes, l \in Limits : volume = NewVolume(MainFader, t, l)
  /\ out = [first |-> volume.current, last |-> volume.current]
  /\ foreign = FALSE

\* target_linear_gain: set whenever the target or the mute is.
LinearGain(v) == IF v.mute THEN Silence ELSE v.target

\* Mutants: a new ramp starts from the beginning of the one it interrupts, and a
\* mute alone does not start one.
RampFromStart(v) == [v EXCEPT !.step = 1]
RampOnTarget(v) == LET wanted == Least(target[v.fader], v.limit) IN
  IF wanted = v.target THEN v
  ELSE [v EXCEPT !.target = wanted, !.mute = mute[v.fader], !.start = v.current, !.step = 1]

BeginRamp(v) == [v EXCEPT !.start = v.current, !.step = 1]

\* Without a ramp time a muted volume counts as reached at 0 dB.
Switch(v) == [v EXCEPT !.current = IF mute[v.fader] THEN Unity
                                   ELSE Least(target[v.fader], v.limit),
                       !.step = 0]

\* prepare_processing: follow the shared settings.  They are two atomics, which
\* are read one after the other; no command writes both.
Prepare(v) ==
  LET wanted == Least(target[v.fader], v.limit)
  IN  IF wanted = v.target /\ mute[v.fader] = v.mute THEN v
      ELSE [(IF v.ramptime > 0 THEN BeginRamp(v) ELSE Switch(v))
              EXCEPT !.target = wanted, !.mute = mute[v.fader]]

\* make_ramp: the volume after k of the ramp's chunks.
RampAt(v, k) ==
  LET end == IF v.mute THEN MuteVolume ELSE v.target
  IN  IF end >= v.start THEN v.start + ((end - v.start) * k) \div v.ramptime
                        ELSE v.start - ((v.start - end) * k) \div v.ramptime

NextStep(v) == [v EXCEPT !.step = IF @ = v.ramptime THEN 0 ELSE @ + 1]

\* process_chunk, and process_waveform of a Volume filter in the pipeline.  A step
\* beyond the ramp time applies no gain at all.
ProcessChunk ==
  LET v == Prepare(volume) IN
  /\ \/ /\ v.step = 0
        /\ out' = [first |-> LinearGain(v), last |-> LinearGain(v)]
        /\ volume' = v
     \/ /\ v.step \in 1 .. v.ramptime
        /\ out' = [first |-> RampAt(v, v.step - 1), last |-> RampAt(v, v.step)]
        /\ volume' = [NextStep(v) EXCEPT !.current = RampAt(v, v.step)]
     \/ /\ v.step > v.ramptime
        /\ out' = [first |-> Unity, last |-> Unity]
        /\ volume' = v
  /\ current' = [current EXCEPT ![v.fader] = volume'.current]
  /\ UNCHANGED <<target, mute, foreign>>

\* Volume::update_parameters, between two chunks.
UpdateVolume(fader, ramptime, limit) ==
  /\ volume' = [volume EXCEPT !.ramptime = ramptime, !.fader = fader, !.limit = limit,
                              !.current = Least(@, limit)]
  /\ UNCHANGED <<target, current, mute, out, foreign>>

\* A pipeline that is built anew, for the same fader.
RebuildVolume(ramptime, limit) ==
  /\ volume' = NewVolume(volume.fader, ramptime, limit)
  /\ foreign' = (foreign \/ current[volume.fader] # volume.current)
  /\ UNCHANGED <<target, current, mute, out>>

\* ----------------------------- The commands ------------------------------

\* Mutant: the upper limit alone.
ClampedAbove(v) == Least(v, MaxVolume)

\* clamped_volume
Clamped(v) == Least(Greatest(v, MinVolume), MaxVolume)

\* AdjustVolume: the volume it has read, changed and kept within the limits that
\* came with the command.
Adjusted(v, up, by, low, high) ==
  Least(Greatest(IF up THEN v + by ELSE IF v > by THEN v - by ELSE 0, low), high)

\* SetVolume and SetFaderVolume, and the write of an adjusted volume.
SetTarget(f, v) ==
  /\ target' = [target EXCEPT ![f] = v]
  /\ UNCHANGED <<current, mute, volume, out, foreign>>

\* The second store of SetFaderExternalVolume.
SetCurrent(f, v) ==
  /\ current' = [current EXCEPT ![f] = v]
  /\ UNCHANGED <<target, mute, volume, out, foreign>>

\* SetMute, SetFaderMute, ToggleMute and ToggleFaderMute
SetMute(f, m) ==
  /\ mute' = [mute EXCEPT ![f] = m]
  /\ UNCHANGED <<target, current, volume, out, foreign>>

-----------------------------------------------------------------------------
VolumeStates ==
  [fader : FaderNumbers, ramptime : RampTimes, limit : Limits, current : Nat \ {0},
   start : Nat \ {0}, target : Nat \ {0}, mute : BOOLEAN, step : Nat]

\* A setting is in the range of the settings, or within the limits that came with the
\* command that adjusted it.
FaderTypes ==
  /\ target \in [FaderNumbers -> Settable]
  /\ current \in [FaderNumbers -> Nat \ {0}]
  /\ mute \in [FaderNumbers -> BOOLEAN]
  /\ volume \in VolumeStates
  /\ out \in [first : Nat, last : Nat]
  /\ foreign \in BOOLEAN

\* Where the filter is going.
Wanted == IF mute[volume.fader] THEN Silence ELSE Least(target[volume.fader], volume.limit)

Settled == out = [first |-> Wanted, last |-> Wanted]
=============================================================================
