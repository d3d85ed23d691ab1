# Models and proofs for CamillaDSP (AstraCamillaDSP)

This directory holds TLA+ models of the concurrent core of the program, the
instances TLC checks them on, and theorems about them that TLAPS proves.
Line numbers refer to the Rust files under `src/`.

## The system

CamillaDSP reads audio from a capture device, processes it, and writes it to a
playback device.  A process has

| part | state it keeps | operations | talks to |
|---|---|---|---|
| main thread, `main_process` and `run` (`bin.rs`) | the active and the previous configuration, the stop reason, which devices are ready | take a command, start a session, handle status messages, end and join the session | every other thread |
| capture thread (`*_backend/device.rs`, `generatordevice.rs`) | device, resampler, silence counter, stalled flag, published state | open, poll commands, read, send audio or Pause, end the stream | processing thread (bounded audio channel), main thread (status, commands) |
| processing thread (`processing.rs`, `pipeline.rs`) | the pipeline | build it, process a chunk, take a configuration change, forward | both devices, main thread (configuration changes) |
| playback thread (`*_backend/device.rs`) | device, buffer estimate, rate controller | open, write a chunk, end | processing thread, main thread (status, speed to capture) |
| websocket server, one thread per connection (`socketserver.rs`) | subscriptions and query times of the connection | some 80 commands | main thread (bounded command channel), shared status and parameters |
| saver thread (`bin.rs`, `statefile.rs`) | - | wait for a notification, save path, volumes and mutes | handlers (channel of capacity 1), shared parameters, the state file |
| signal thread (`bin.rs`) | whether an exit was requested | SIGTERM, SIGINT, SIGHUP, SIGUSR1 | main thread |
| filters, mixers, processors | their coefficients and histories | process a chunk, update the parameters | processing thread, shared volumes |
| driver callbacks and inner threads (`*_backend/device.rs`) | a ring buffer, notes of what was put into it | fill or empty the ring, report changes of the device | the capture or playback thread that made them |
| shared status (`lib.rs`) | capture, playback, processing and spectrum status, faders | try_write from the audio threads, read by handlers | |

A *session* is one call of `run`: it creates the channels and the three threads,
which meet with the main thread at a barrier of four before audio flows, and it
ends with the end of the stream, a command, or a fault of a device.  The
supervisor does not join every thread on every way out, so that threads of an
ended session may live on into the next.

What is hard here:

- the order of messages of three threads in four channels, the barrier, and the
  way the end of a stream or a fault travels through them;
- back-pressure in bounded channels, and threads that end while others send to
  them;
- commands of several clients that arrive while a session starts, runs or ends;
- partial updates of a running pipeline in place of rebuilding it;
- a state file written by one thread from values that others change;
- sources that stall, devices that fail, change their rate or never answer;
- shared values that are read, changed and written back without a lock;
- nine device backends with callbacks or inner threads of their own, which owe the
  rest of the engine the same few promises;
- a driver whose callbacks use the state of two threads by raw pointer (ASIO).

What makes each part correct:

- *supervisor*: it uses the configuration the clients asked for last, gets every
  session started or ended, serves Exit, never panics, reports truthfully why
  processing stopped, and opens a device only when the session before it has let
  go of it;
- *processing thread*: its pipeline is the one the active configuration
  describes; it takes every change and forwards every message in order;
- *devices*: EndOfStream comes last and once, the published state is the actual
  one, every thread ends when its session does; no sound is sent or played twice or
  out of order, and a callback never uses what has been freed;
- *state file*: a change is saved, and known to be unsaved until it is;
- *histories*: a reader gets every level once, whatever the others read;
- *volume*: a ramp goes on from where the last has been broken off, and arrives;
- *clients*: changes that do not overlap add up, and a subscriber is served;
- *filters and the like*: the sound, which is numeric and out of reach here.

## The modules

The engine, with the file devices:

| module | models | how |
|---|---|---|
| `ConfigDiff` | `config_diff` (config/utils.rs), `Pipeline::from_config`, `update_parameters`, what makes them panic, what validation guarantees | operators on configurations whose devices, layout and parameters are opaque values |
| `EngineState` | the channels and the state the threads share | the variables of the whole engine and the operations on channels |
| `Supervisor` | `main_process` and `run` (bin.rs), the commands of clients and signals | one action per branch of the two loops |
| `Processing` | `run_processing` | one action per blocking point: build, receive, send; the change taken after a send belongs to it |
| `FileDevice` | the playback and capture threads of file_backend/device.rs | one action per blocking point or published effect |
| `Engine` | the composition, the barrier, fairness, all properties | |
| `EngineProofs` | | theorems and proofs about `Engine` |

The other device backends, each against the little of the engine that it sees:

| module | models | how |
|---|---|---|
| `CaptureContract`, `PlaybackContract` | what the supervisor and the processing thread rely on in any capture or playback thread (audiodevice.rs and the arms of the loop in bin.rs) | abstract specifications with four variables |
| `CaptureState`, `PlaybackState` | what the threads of all backends share: channels, ring buffer, notes, the steps coded alike in each | sound is a sequence of numbered packets, so that repeating, losing or reordering it shows |
| `CaptureGenerator`, `CaptureCpal`, `CapturePulse`, `CaptureCoreAudio`, `CapturePipeWire`, `CaptureAsio`, `CaptureWasapi`, `CaptureAlsa`, `CaptureAlsaThreaded` | the capture thread of one backend and its callback or inner thread | one action per call that may block, fail or be seen by another thread |
| `PlaybackCpal`, `PlaybackPulse`, `PlaybackCoreAudio`, `PlaybackPipeWire`, `PlaybackAsio`, `PlaybackWasapi`, `PlaybackAlsa`, `PlaybackAlsaThreaded` | the same for playback | |
| `CaptureBackends`, `PlaybackBackends` | the composition: a session picks a backend; its threads are mapped onto the contract, which they implement | `INSTANCE CaptureContract WITH phase <- Phase` |
| `CaptureProofs` | | theorems and proofs about `CaptureBackends` |
| `PlaybackSound`, `PlaybackProofs` | | lemmas on the order of chunks and packets in any playback backend; theorems and proofs about `PlaybackBackends` |
| `Asio` | the driver that the two ASIO threads of a session share, over several sessions | one action per critical section of the shared state, callbacks as two steps |
| `AsioProofs` | | theorems and proofs about `Asio` |

The websocket server and what its handlers share with the rest:

| module | models | how |
|---|---|---|
| `Connections` | the connections, and the handlers that are in the middle of a command | |
| `Faders` | `ProcessingParameters` (lib.rs) and the `Volume` filter (basicfilters.rs) | volumes are steps of some dB; one action per chunk |
| `Levels` | `ValueHistory` (countertimer.rs), the readings since the last reading | records with a time |
| `Spectrum` | `SpectrumStatus` (lib.rs), subscriptions, pushed frames | a frame is its sequence number and its number of bins |
| `ConfigCommands` | the commands that set, reload or patch the configuration | a configuration is a function from its parts to values, one of them invalid; the main thread, reduced to what it receives and when it publishes it (`inHand`) |
| `Websocket` | the composition: the handlers of several connections, interleaved | a command that reads and writes in two steps is two actions |
| `WebsocketProofs` | | theorems and proofs about `Websocket` |

The state file and the instances:

| module | models | how |
|---|---|---|
| `StateFile` | statefile.rs, its handlers, the saver thread, the start of the process | one action per step between which another thread or a crash can come |
| `StateFileProofs` | | theorems and proofs about `StateFile` |
| `MCEngine`, `MCWebsocket` | | the values TLC runs with that a .cfg cannot express |

State and code correspond as follows.

- `stage` is where the main thread is: in the loop of `main_process` ("wait"), in
  `run` before, at and behind the barrier ("starting", "barrier", "running"), or
  in `join` ("joining", with the reason in `ending`).  `activeConf`, `nextConf`
  and `ready` are `run`'s `active_config`, `new_conf`, `pb_ready` and `cap_ready`.
- A session lives in a slot.  `cap`, `pb` and `proc` say where its threads are;
  "none" is a thread that is gone, and its receivers with it: a send to it fails.
  With two slots one session can overlap with the next.
- `ctrl`, `statusQ`, `cmdQ`, `pipeconfQ`, `capQ`, `pbQ` are the crossbeam channels,
  with the capacity the code gives them.
- `active`, `previous`, `stopReason`, `captureState` are what clients can query.
- `lastCommand`, `reported`, and in `StateFile` `failed`, are history variables: no
  guard reads them, except the bound noted in `FileDevice` that a session repeats
  a report of the same kind only once.  So are the variables the other modules mark
  as history (`stale`, `disorder`, `overlapped`, `foreign`, `unread`, `alone`, ...).
- In `StateFile` a handler does its three steps one at a time, the saver reads the
  items one at a time, the file is truncated, written and synced in three steps,
  and `EndProcess` may come after any of them.
- In the backends `pc` is where the thread is, `inner` where its callback or inner
  thread is, `ring` the ring buffer and `notes` the channel that tells how much was
  put into it.  `event` is the flag or channel by which the driver tells of a change.
- In `Asio` a thread `[session, side]` is in `allocated` as long as its context is;
  `context` holds the two global pointers, `callback` the context a callback is in.
- In `Websocket` a handler that is between two steps of a command keeps the rest of
  it in `work`.

What the models abstract from:

- audio is a message without content, or a number.  What a read returns, whether a
  chunk is silent, and whether a device fails is a free choice within `Reads`,
  `PausesOnSilence` and `Faults`.  The silence after the end of a file, any number
  of chunks in the code, is one chunk or none.
- configurations differ in whether devices, layout, mixers, filters and processors
  are equal and of equal type, which is all `config_diff` looks at.
- atomics are `Relaxed` in the code and sequentially consistent here.  The
  properties that relate two of them (unsaved flag and parameters) have a channel
  operation between writer and reader, which orders them; the volume and the mute of
  a fader are related by no command.
- the five volumes and the five mutes are one item each in `StateFile`.
- the one-second sleep of the saver is left out: it only delays it.
- a read of the file backend blocks for a bounded time only, as the readers used for
  pipes and standard input do; a regular file does not block.
- of the engine a backend sees a supervisor that sends Exit or leaves, and a
  processing thread that takes or sends messages or goes away, in any order that
  `Supervisor` and `Processing` allow.
- the four kinds of commands the connections send (volumes, levels, spectrum,
  configurations) work on state that has no part in common: no variable of `Faders`,
  `Levels`, `Spectrum` and `ConfigCommands` occurs in another of the four.  `use`
  picks one kind for a behaviour, so that TLC does not multiply them; a connection
  may send any.
- a capture and a playback history are the same code; `Levels` has those of one.

## The runs

All bounds are CONSTANTS.  Slots are symmetric in the safety runs of the engine;
liveness runs use no symmetry.  Deadlock is not checked: the process may exit, a
source may end, a device may fall silent.

| run | question | properties |
|---|---|---|
| `engine_commands` | two commands, three configurations that ask for an update of a filter or a restart, a capture device that does not open, fails to read or changes its rate | `TypeOK`; `ConfigFollowsCommands`: with no command left in the queue a running session runs the last one accepted; `PipelineMatchesActive`: the pipeline is the one built from scratch; `EndOfStreamIsLast`; `PlaybackExclusive`; `LastConfigWasTried`; `IdleIsInactive` |
| `engine_faults` | devices do not open, playback fails to write, every result of a read that is no error, configurations that panic the processing thread before the barrier or in an update | `StatusChannelStaysOpen`, `CaptureExclusive`, `RunningIsNotInactive`, `CleanEndMeansNoFault` |
| `live_sessions` | every fault but the read error, fair threads | `StartupResolves`, `EndingCompletes`, `ExitIsServed`, `LeftoversEnd` |
| `live_changes` | two changes, a source that stalls for ever | `ChangesAreTaken` |
| `state_file` | two clients, three changes, two starts, failing writes | `TypeOK`, `QuietIsSaved`, `QuietIsMarkedSaved`, `ChangesAreSaved` |
| `asio_driver` | three sessions in full duplex or with one side, any call of the driver fails | `TypeOK`; `CallbackIsSafe`: no callback uses a freed context; `StreamIsOwned`, `StreamIsTheirs`: the stream runs for, and on the buffers of, the threads that are there; `WaitingEnds` |
| `capture_backends` | the nine capture threads with every fault | `Contract`: each implements `CaptureContract`; `AudioIsFresh`: no sound is sent twice; `EndsInactive`; `ExitIsServed` |
| `playback_backends` | the eight playback threads with every fault, short writes and stalls | `Contract`: each implements `PlaybackContract`; `PlaysInOrder`; `Accounting`: what the other side was told is what the ring holds; `DoneMeansTaken`; `EndIsServed` |
| `websocket` | two connections, three commands or filter changes | `TypeOK`; `ReadingsAreComplete`; `LoneChangesCompose`: changes that do not overlap add up; `NoJumpUp`: an interrupted ramp goes on from where it was, or from -100 dB, and rises no higher than the settings ask for; `VolumeSettles`; `FramesArrive` |

The bounds, and why they are enough:

- `MaxCommands` commands (any of the configurations, Stop, Exit or a signal): with two,
  one can be skipped for the other, and one can come between two sessions.  What the
  configurations do is proved for any number.
- `CtrlCapacity` of the command channel (10 in the code): 2 lets it be full, and be
  empty or not behind the head, which are the cases the code tells apart.
  `QueueLimit` of the audio channels (4 by default): 1 or 2, so that they fill up.
- two slots: the third session of a row reuses the first slot once its threads are
  gone.  `MaxChanges` and `MaxStarts` for the state file: a change during a save, one
  behind it, and a restart.
- a chunk of two packets, a ring of three (capture) or five (playback), with which a
  ring can hold a part of a chunk, one chunk and more, and be full; four packets or
  three chunks, so that there is sound before, in and after a stall.  `NoteCapacity`
  2: the channels of notes hold `8 * 1024 / chunksize + 3` in most of the
  code and are rarely full there; full is what is of interest.
- `MaxSessions` 3 for ASIO: a session that has not cleaned up, one that overlaps it,
  and the one after.
- ten volume steps, 0 to 9: those from 2 to 7 are the range of -150 to +50 dB, 3 is
  the -100 dB of a mute and 5 is 0 dB.  SetVolume is asked for volumes beyond both ends
  of the range, and the limits of AdjustVolume reach one step beyond both.  A ramp of
  two chunks can be interrupted at its beginning, in the middle and at its end.  A history of two records with three to
  come overwrites one; one or two channels let it be reset.

The faults are divided among the runs for two reasons.  Size is one.  The other is
that some properties do not hold under every fault, and the division says under
which they do:

| property | fails with | because |
|---|---|---|
| `PlaybackExclusive` | playback write error, or a configuration that panics the processing thread | the playback thread is not joined after its report, although `run` logs "All threads stopped, returning" (bin.rs:334); it reports an error, or the lost channel, before it closes the file |
| `CaptureExclusive`, `RunningIsNotInactive` | rate change, read error | the capture thread is not joined, and its last act is to publish Inactive |
| `CleanEndMeansNoFault` | rate change | EndOfStream is sent before the fault is reported, and PlaybackDone may come first |
| `IdleIsInactive` | read error and a configuration that panics the processing thread, together | `run` returns without the capture thread, which is still in its loop |
| `EndingCompletes` | read error | run `finding_capture_error_hangs` |
| `StartupResolves` | a configuration that panics before the barrier | nobody takes the place of the processing thread in it |
| `VolumeSettles` | a ramp time that changes in mid-ramp | run `finding_ramp_time` |
| `SettingsInRange` | limits of AdjustVolume beyond the range | run `finding_adjust_volume` |

`PlaybackExclusive` is run with the faults of capture and `CaptureExclusive` with those
of playback; `CleanEndMeansNoFault` would hold with read errors too, which its run
leaves out for the others in it: that is proved (`CleanEnd`).

Three runs end in a counterexample on purpose; each contradicts a sentence of the
documentation.

| run | what the trace shows |
|---|---|
| `finding_capture_error_hangs` | after a read error the supervisor joins a playback thread that capture keeps alive |
| `finding_ramp_time` | a Volume filter whose ramp time is shortened in mid-ramp has taken more steps than the new ramp has; neither branch of its processing applies a gain, and the signal passes at 0 dB, muted or not, until the volume is changed |
| `finding_adjust_volume` | AdjustVolume, whose limits replace the range of -150 to +50 dB, sets a volume above it (in other traces below it), which a SetVolume could not |

Run one with `tlc -config engine_faults.cfg MCEngine`.

### Known deviations

Behaviour the models contain, which the properties except by name or which no run
asks about:

- *Stop reason.*  It is cleared in one of the two orders of the ready messages only
  (bin.rs:312), so a session can run with the reason of the one before.
- *Main thread.*  A pipeline change that arrives between the end of the processing
  thread and PlaybackDone is unwrapped (bin.rs:229) and panics it (stage "crashed").  So does a capture device whose `start`
  returns an error, as that of a file without a sample format does when it finds no wav
  header (file_backend/device.rs:559, bin.rs:201; `StartPanics`).
- *State file.*  A save that ends after a newer change was marked clears the mark
  (statefile.rs:74); if the save of the newer change fails, GetStateFileUpdated is
  wrong for good.
- *Joins that do not return* (`Hangs` in `CaptureBackends` and `PlaybackBackends`).
  WASAPI: the inner thread reports a fault in a rendezvous send to an outer thread
  that waits in join for it.  Threaded ALSA, capture: the outer thread joins an inner
  one nobody has told to end, after a rate change or when processing is gone; the
  inner one may also wait to put its last note into a full channel.  Threaded ALSA,
  playback: pauses fill the channel before the inner thread was started, or a device
  takes no more data.  PipeWire: nobody quits the main loop when its worker panics.
  CPAL, CoreAudio and Pulse: the thread waits for a callback or a read of a device
  that has fallen silent.
- *Old sound.*  ASIO after a timeout, and Pulse after an error, send their buffer
  again (`AudioIsFresh`).
- *Published state.*  ALSA after a read error and WASAPI after a fault of the inner
  thread leave the state as it was (`EndsInactive`).  WASAPI and threaded ALSA never
  publish Stalled.
- *The end of playback.*  Backends with a callback stop with whatever is left in the
  ring (`DoneMeansTaken`).  An error of threaded ALSA loses packets that stay counted
  (`Accounting`).
- *ASIO.*  A thread waits for ever for another side that fails before it registers,
  and a session that overlaps the clean-up of the last can lose its driver.
- *Lost changes.*  AdjustVolume, PatchConfig and SetConfigValue read, change and write
  back: of two that overlap one is lost (`LoneChangesCompose`).  A configuration is on
  its way for longer than it is in the queue: the main thread publishes a change of the
  devices, a stop and the end of a session only when it has joined the threads of the
  session (bin.rs:239-246, 257-267, 315-419).  A patch in that time starts from the old
  configuration, undoes the change, and starts again what was stopped.
- *AdjustVolume* takes limits that come with the command, beyond the range that
  SetVolume keeps to and that websocket.md:188 gives it (`finding_adjust_volume`).
- *Spectrum.*  A connection that is lost without unsubscribing leaves the FFT running;
  the README of the program says that it only runs while subscribed.
- *Volume.*  Without a ramp time a muted filter counts as being at 0 dB, so that
  `NoJumpUp` says nothing of a later filter that starts from there, nor of one whose
  volume a client has set.

### Fairness

`FairSpec` of `Engine` assumes weak fairness of the main thread, of the barrier and
of every thread of every session: the operating system runs a thread that can run,
and `select!` chooses at random between channels that are ready, with finitely many
status messages to be chosen before a command.  Nothing is assumed of clients or
devices: commands may never come, a source may stall or play for ever.  `FairSpec`
of `StateFile` assumes it of the saver and of the handlers; nothing makes the
process end or start.

`CaptureBackends` and `PlaybackBackends` assume it of the thread, of an inner thread
that polls with a timeout, of the barrier, and of a processing thread that takes what
it is sent; a callback may never come, which is why a silent device is among the
ways to hang.  `Asio` assumes it of the threads, and that a callback returns.
`Websocket` assumes it of handlers in the middle of a command and of the pushes, which
a read timeout of 16 ms brings about while a connection is subscribed, and of the
chunks of a remote-controlled session: audio keeps coming.

## The proofs

Each theorem holds for every value of the constants that satisfies the assumptions
of the modules: any number of slots, connections, sessions and configurations, any
capacity of the channels and the ring buffers, any bound on what is asked, and any set
of faults, where the table names no other.  The assumptions say what the code
guarantees or what the constants are for:

- capacities and lengths are positive, a ring buffer holds more than a chunk (the
  backends size it as several), bounds are natural numbers;
- the configurations of the engine are those that `validate_config` accepts
  (`ConfigsAssumption`), the first one of the websocket server too
  (`FirstConfigAssumption`), and the markers for "none" are not values;
- the backends are among those there are, and so are the faults, the items a command
  line may give and the kinds of histories;
- -150 dB lies below -100 dB, that below 0 dB, limits of a filter lie in the range of
  the settings, and AdjustVolume comes with limits above nothing.

| theorem | statement | under |
|---|---|---|
| `EngineProofs!TypeCorrect` | `Spec => []TypeOK` | |
| `EngineProofs!ConfigurationFollows` | `Spec => []ConfigFollowsCommands` | |
| `EngineProofs!ConfigurationKept` | `Spec => []LastConfigWasTried` | |
| `EngineProofs!PipelineFollows` | `Spec => []PipelineMatchesActive` | |
| `EngineProofs!StreamEnds` | `Spec => []EndOfStreamIsLast` | |
| `EngineProofs!StatusChannelOpen` | `Spec => []StatusChannelStaysOpen` | |
| `EngineProofs!PlaybackAlone` | `Spec => []PlaybackExclusive` | no write errors, and no configuration that panics the processing thread |
| `EngineProofs!CaptureAlone` | `Spec => []CaptureExclusive` | no read errors or rate changes |
| `EngineProofs!RunningIsShown` | `Spec => []RunningIsNotInactive` | the same |
| `EngineProofs!CleanEnd` | `Spec => []CleanEndMeansNoFault` | no rate changes |
| `EngineProofs!IdleIsShown` | `Spec => []IdleIsInactive` | no configuration that panics the processing thread, or no read errors |
| `StateFileProofs!StateFileTypes` | `Spec => []TypeOK` | |
| `StateFileProofs!QuietSaved` | `Spec => []QuietIsSaved` | |
| `StateFileProofs!QuietMarked` | `Spec => []QuietIsMarkedSaved` | |
| `AsioProofs!AsioTypes` | `Spec => []TypeOK` | |
| `AsioProofs!CallbacksSafe` | `Spec => []CallbackIsSafe` | |
| `AsioProofs!StreamOwned` | `Spec => []StreamIsOwned` | |
| `AsioProofs!StreamTheirs` | `Spec => []StreamIsTheirs` | |
| `CaptureProofs!CaptureTypes` | `Spec => []TypeOK` | |
| `CaptureProofs!ContractKept` | `Spec => Contract`: every backend implements `CaptureContract` | |
| `CaptureProofs!EndsShown` | `Spec => []EndsInactive` | |
| `CaptureProofs!FreshAudio` | `Spec => []AudioIsFresh` | |
| `PlaybackProofs!PlaybackTypes` | `Spec => []TypeOK` | |
| `PlaybackProofs!PlaybackContractKept` | `Spec => Contract`: every backend implements `PlaybackContract` | |
| `PlaybackProofs!SoundInOrder` | `Spec => []PlaysInOrder` | |
| `PlaybackProofs!RingIsAccounted` | `Spec => []Accounting` | |
| `PlaybackProofs!DoneIsPlayed` | `Spec => []DoneMeansTaken` | |
| `WebsocketProofs!WebsocketTypes` | `Spec => []TypeOK` | |
| `WebsocketProofs!ReadingsComplete` | `Spec => []ReadingsAreComplete` | |
| `WebsocketProofs!ChangesCompose` | `Spec => []LoneChangesCompose` | |
| `WebsocketProofs!NoJump` | `Spec => NoJumpUp` | `OneRampTime`: the ramp time is positive and not changed |

A condition of the last column is one the code needs: without it TLC finds the
property violated, as the table of faults above says.

### The engine

- *Types.* `TypeOK` is not inductive: a fault is stored as the reason of an end, and
  `NextActive` hands on what a session left in `nextConf`.  `SessionOK` adds that a
  supervised session has a slot and a configuration, that the reason is there once
  the session is ending, and that a processing thread that sends has a message.
- *Commands.* `ConfigFollowsCommands` speaks of running sessions with an empty
  queue.  `CommandInv` says where the last accepted command is at any time: at the
  end of the queue (`LastQueued`), or, once the queue is empty, at the place where it
  acts (`LastCommandIn`): the shared active configuration between sessions, the
  configuration to restart with while a change of devices is being carried out, the
  previous configuration when the stream has ended, or else the session's own.
  That a command is always last in the queue is why dropping a change when more are
  queued loses nothing.
- *Pipeline.* `PipelineInv`: the pipeline was built from some configuration, and each
  change in the channel is the difference between the configuration before it and
  its own, up to the active one (`ChangesLead`).  The central lemma is that a partial
  update by the difference of two configurations turns the pipeline of the one into
  that of the other, provided the steps are the same: otherwise `config_diff` asks
  for a rebuild.
- *End of the stream.* By the position of each thread: before its last send there is
  no EndOfStream in its channel, and behind it it sends no more.
- *Sessions.* What the other properties say of the end of a session rests on its
  beginning.  `BarrierInv`: before the barrier no thread of the session is past it.
  `ReadyInv`: a ready message is sent once, is in the channel or counted, and its
  thread waits, so that a supervisor that enters the barrier without a fault lets two
  working devices through.  `FaultInv` says what each reported fault tells of the
  thread that reported it, which decides whether the supervisor may leave it alone.
  From these follow `AloneInv` (no thread of an earlier session is left, under the
  conditions of the table), `EndInv` (the end of the stream that reaches playback
  has left capture behind its loop), and `LastWordInv` (a playback thread that has
  gone has said so in a message that is still in the channel: the reason why the
  supervisor never finds the channel closed).  `DoneInv`: the faults of a session are
  in front of its PlaybackDone in the status channel, so that a session reported as
  done had none.  `IdleInv`: a capture thread nobody has joined has nothing left to
  publish but Inactive.

### The state file

Quiet states are reached at the end of many interleavings, so that `QuietIsSaved` is
far from inductive.  `SavedInv` follows each item: either what the saver has, or has
written, is the item's present value (`Settled`), or another save is going to read
it, as a notification waits or a handler that has set it is still to notify (`Owed`).
`MarkInv` says the same of the mark: one that is set has a handler that is still to
notify, a notification, a save under way, or a failed one.  The order of the three
steps of a handler is what both proofs turn on; with the notification first TLC finds
the lost change.

### The ASIO driver

A callback reads a pointer without a lock and uses it a step later, so that the proof
is about who can be where while the stream runs.  In full duplex both threads of the
current session are then between their registration and their release (`RunningInv`):
no thread that would free its context is left to do so.  That rests on what a
registration says about the two threads (`RegisteredInv`), which has an exception: a
thread that opens the driver anew, after one of the session before has disposed of it.
`StreamIsTheirs` needs that no thread of an earlier session is left (`OwnInv`).

### The devices

Neither family is argued backend by backend.  Every step of every backend is shown to
be one of a few moves, and the invariants follow from the moves alone.

- *Reports and contracts.* `ThreadMoves` and `DeviceMoves` say what a step of the
  thread, and of its callback or inner thread, may do to the reports, the channel and
  the published state; `ControlInv` what has been said at each place of the thread.
  Threaded ALSA, whose outer thread joins an inner one that speaks for it, needs
  `InnerInv` or `ThreadedControl` in addition.  `PhaseIsRight` relates each place to a
  phase of the contract: each step is then a step of the contract or a stutter.
- *Sound of capture.* `SoundMoves` are eight things that can happen to packets on
  their way: what was sent comes before what is about to be sent, that before the
  ring buffer, and that before the channel to it (`SoundInv`).
- *Sound of playback.* What has been taken from the chunks and not been played is one
  queue, `rest \o ring`, and the moves take away from it, cut it, or add a chunk that
  is later than all of it (`SoundOrder`); that chunks come in their order is an
  argument of its own (`ChunkOrder`), over the inbox, the thread and the callback.
- *The account.* For CoreAudio and WASAPI the packets that the notes tell of, and the
  one the thread is about to tell of, are those in the ring (`ToldOf`); with threaded
  ALSA the count of the inner thread and its notes are no less than what is held, and
  equal before the first error (`Balanced`).  Notes are counted as a set of pairs, so
  that the proof is about cardinalities and needs no induction over sequences.
- *Done.* The inner thread of WASAPI or ALSA ends after Done only behind the last
  note, with the ring empty (`WasapiDone`, `ThreadedDone`).

### The websocket server

Again every step is one of a few moves of each part (`StepMoves`), and each part has
an invariant over its own moves.

- *Readings.* `ReadInv`: the levels a connection has not read are the front of the
  history (`Fresh`), later than its last read, and all that follow are not; no record
  is later than the newest (`Ordered`), which is why the time of a reply may be that of
  the newest record.
- *Changes.* `VolumesAdd`: while no two changes have overlapped at most one handler
  is adjusting a fader, and the volume it is about to write is the one the changes add
  up to.  `ConfigsAdd`: at most one configuration is on its way, in a handler, in the
  channel or in the hands of the main thread, which has received it and not published
  it, never in two of them, and it is the one the changes make.  So what PatchConfig
  starts from is all that was asked for before it.
- *Ramps.* `RampInv`: wherever the next chunk may start, at the volume that is
  reached, at the next step of the ramp, or, without a ramp, at the target, it is no
  louder than the last chunk has ended or than -100 dB.  A step is on the way from the
  one before to where the ramp goes (`NextOnTheWay`), so that a chunk rises no higher
  than the settings.  The attempt to prove it showed
  an earlier form of `NoJumpUp` to be false, which allowed -100 dB after silence only:
  a filter that is rebuilt while muted starts from -100 dB, also when the volume is set
  to -150 dB meanwhile.  It takes four commands, and the run has three; with four TLC
  finds it.  The hypothesis `OneRampTime` excludes a ramp time of 0, where the volume
  is switched at once, and one that changes, which is `finding_ramp_time`.

The inductive invariants were checked with TLC before they were proved.

### Only model-checked

- the liveness properties (`StartupResolves`, `EndingCompletes`, `ExitIsServed`,
  `LeftoversEnd`, `ChangesAreTaken`, `ChangesAreSaved`, `WaitingEnds`, `EndIsServed`,
  `VolumeSettles`, `FramesArrive`): fairness and ENABLED are out of the prover's reach.

All safety properties that the runs check are proved.

## Not modelled

- what TLC cannot evaluate: filters (other than the Volume filter), mixers,
  processors, resamplers, the PI controller of the rate, the FFT and its bins, sample
  conversions.  The control inside Night mode and the noise gate hangs on measured
  levels against thresholds and has no other actor;
- pure data structures of one thread: the averagers, the ring buffer of the ALSA
  controls, the vector recycler, the silence counter and the value watcher, whose
  outcomes are choices in the device modules;
- sizes: buffers, periods and their thresholds, the count of samples at the end of a
  file, the frequencies of a spectrum;
- the mixer elements of ALSA and the messages SetSpeed, SetVolume and SetMute they
  and the rate controllers send; Bluetooth's and the non-blocking reader below `Read`;
- commands that only read, ResetClippedSamples and SetUpdateInterval, which store one
  number, and the parsing of commands;
- parsing, overrides and validation of configuration files, beyond what decides
  whether the pipeline can panic and that a command validates before it sends;
- command line, logging, real-time priorities.

## What is left

- The liveness properties, for more than the bounds of the runs.
- The counts that the models leave out: samples at the end of a file, silent chunks
  (`SilenceCounter`), the bins of a spectrum.  They have one actor each; their place is
  in tests of the code.
- The mixer elements of ALSA and the messages of the rate controllers, which would be
  a third kind of sender in the channel to the capture thread.
- That the engine works with any devices that keep the contracts, in place of the file
  devices `Engine` is composed with.
