--------------------------------- MODULE Asio ---------------------------------
(***************************************************************************)
(* The life of the ASIO driver (asio_backend/device.rs): one driver, one   *)
(* stream and two global context pointers for the whole process, used by   *)
(* the playback and the capture thread of a session.  In full duplex both  *)
(* threads share the driver: each registers, the second one creates the    *)
(* buffers and starts the stream for both, the first one to end stops it   *)
(* and the last one disposes of it.                                        *)
(*                                                                         *)
(* Of the supervisor (modelled in Supervisor) only this remains: it enters *)
(* the barrier of a session when its devices are ready or one has failed,  *)
(* and starts the next session once it has joined the threads it waits     *)
(* for, which after a device fault is not the thread at fault.             *)
(***************************************************************************)
EXTENDS Naturals, FiniteSets

CONSTANTS
  MaxSessions,  \* how many sessions the process runs
  Faults        \* which calls of the driver may fail

Sessions == 1..MaxSessions

AllFaults == {"open",     \* load the driver, set its rate, query its buffers
              "format",   \* too few channels, or an unknown sample format
              "create",   \* ASIOCreateBuffers
              "start",    \* ASIOStart
              "rate"}     \* the driver changes its rate while it is streaming
ASSUME AsioAssumption ==
  /\ MaxSessions \in Nat \ {0}
  /\ Faults \subseteq AllFaults

VARIABLES
  current,   \* the session the supervisor runs
  sides,     \* the devices of it that use ASIO
  shared,    \* ASIO_SHARED
  driver,    \* the driver, and its stream
  context,   \* PLAYBACK_CONTEXT and CAPTURE_CONTEXT: the thread whose context
             \* they point to, or Null
  rateFlag,  \* ASIO_PLAYBACK_RATE_CHANGED and ASIO_CAPTURE_RATE_CHANGED
  pc,        \* where each thread is
  allocated, \* the threads whose context exists
  wired,     \* the threads whose context has the buffers of the stream
  callback,  \* the thread whose context a callback is using, or Null
  atFault,   \* the device that was first to report an error or a format change in
             \* the current session, or "none"
  crashed,   \* a thread has panicked while it held the lock
  overlapped \* history: a session started before the last one had cleaned up

vars == <<current, sides, shared, driver, context, rateFlag, pc, allocated, wired,
          callback, atFault, crashed, overlapped>>

-----------------------------------------------------------------------------
Sides == {"playback", "capture"}
Other == [playback |-> "capture", capture |-> "playback"]
Threads == [session : Sessions, side : Sides]
Null == [session |-> 0, side |-> "playback"]

Locations == {"none", "open", "store", "register", "waiting", "ready", "unopened",
              "failed", "streaming", "release", "free"}

\* AsioSharedState, or None.
None  == [registered |-> {}, started |-> FALSE, failed |-> FALSE, active |-> 0,
          exists |-> FALSE]
Fresh == [None EXCEPT !.exists = TRUE]

Duplex == sides = Sides
Of(s) == {t \in Threads : t.session = s}
Go(t, to) == pc' = [pc EXCEPT ![t] = to]

\* An error or a format change goes to the supervisor, which acts on the first.
Reported(t) ==
  atFault' = IF t.session = current /\ atFault = "none" THEN t.side ELSE atFault

TypeOK ==
  /\ current \in Sessions
  /\ sides \in (SUBSET Sides) \ {{}}
  /\ shared \in [registered : SUBSET Sides, started : BOOLEAN, failed : BOOLEAN,
                 active : 0..2, exists : BOOLEAN]
  /\ driver \in {"unloaded", "loaded", "buffers", "running", "stopped"}
  /\ context \in [Sides -> Threads \cup {Null}]
  /\ rateFlag \in [Sides -> BOOLEAN]
  /\ pc \in [Threads -> Locations]
  /\ allocated \subseteq Threads /\ wired \subseteq Threads
  /\ callback \in Threads \cup {Null}
  /\ atFault \in Sides \cup {"none"}
  /\ crashed \in BOOLEAN /\ overlapped \in BOOLEAN

Init ==
  /\ current = 1
  /\ sides \in (SUBSET Sides) \ {{}}
  /\ shared = None
  /\ driver = "unloaded"
  /\ context = [d \in Sides |-> Null]
  /\ rateFlag = [d \in Sides |-> FALSE]
  /\ pc = [t \in Threads |->
             IF t.session = 1 /\ t.side \in sides THEN "open" ELSE "none"]
  /\ allocated = {} /\ wired = {} /\ callback = Null
  /\ atFault = "none"
  /\ crashed = FALSE /\ overlapped = FALSE

-----------------------------------------------------------------------------
\* ------------------------- Setting up one thread --------------------------

\* The thread reports an error, drops its context and goes to the barrier.
Fail(t) ==
  /\ Go(t, IF pc[t] = "open" THEN "unopened" ELSE "failed")
  /\ Reported(t)
  /\ context' = IF t \in allocated THEN [context EXCEPT ![t.side] = Null] ELSE context
  /\ allocated' = allocated \ {t}

\* init_shared_asio, or open_asio_playback and open_asio_capture of a single
\* direction; then the channels and the format are checked.
Open(t) ==
  /\ pc[t] = "open" /\ ~crashed
  /\ \/ /\ Duplex /\ shared.exists
        /\ Go(t, "store")
        /\ UNCHANGED <<shared, driver, atFault>>
     \/ /\ ~(Duplex /\ shared.exists)
        /\ driver' = "loaded"
        /\ shared' = IF Duplex THEN Fresh ELSE shared
        /\ Go(t, "store")
        /\ UNCHANGED atFault
  /\ UNCHANGED <<current, sides, context, rateFlag, allocated, wired, callback, crashed, overlapped>>

OpenFails(t) ==
  /\ pc[t] = "open" /\ ~crashed
  /\ \/ /\ "open" \in Faults /\ ~(Duplex /\ shared.exists)
        /\ driver' \in {"unloaded", "loaded"}
        /\ UNCHANGED shared
     \/ /\ "format" \in Faults
        /\ driver' = IF Duplex /\ shared.exists THEN driver ELSE "loaded"
        /\ shared' = IF Duplex /\ ~shared.exists THEN Fresh ELSE shared
  /\ Fail(t)
  /\ UNCHANGED <<current, sides, rateFlag, wired, callback, crashed, overlapped>>

\* The rate event is cleared and the context is made known to the callbacks.  In
\* a single direction the buffers were created before, and the stream is started.
StoreContext(t) ==
  /\ pc[t] = "store"
  /\ rateFlag' = [rateFlag EXCEPT ![t.side] = FALSE]
  /\ \/ /\ Duplex
        /\ Go(t, "register")
        /\ UNCHANGED <<driver, wired>>
     \/ /\ ~Duplex
        /\ Go(t, "ready")
        /\ driver' = "running"
        /\ wired' = wired \cup {t}
  /\ allocated' = allocated \cup {t}
  /\ context' = [context EXCEPT ![t.side] = t]
  /\ UNCHANGED <<current, sides, shared, callback, atFault, crashed, overlapped>>

\* ASIOCreateBuffers or ASIOStart of a single direction fails.
StartFails(t) ==
  /\ pc[t] = "store" /\ ~Duplex
  /\ rateFlag' = [rateFlag EXCEPT ![t.side] = FALSE]
  /\ \/ "create" \in Faults /\ UNCHANGED driver
     \/ "start" \in Faults /\ driver' = "buffers"
  /\ Fail(t)
  /\ UNCHANGED <<current, sides, shared, wired, callback, crashed, overlapped>>

-----------------------------------------------------------------------------
\* --------------------- Full duplex: register_and_wait ---------------------

\* The first side to register waits.
RegisterFirst(t) ==
  /\ pc[t] = "register" /\ ~crashed
  /\ shared.exists /\ ~shared.failed
  /\ Other[t.side] \notin shared.registered
  /\ shared' = [shared EXCEPT !.registered = @ \cup {t.side}]
  /\ Go(t, "waiting")
  /\ UNCHANGED <<current, sides, driver, context, rateFlag, allocated, wired, callback,
                 atFault, crashed, overlapped>>

\* Mutant: the second side hands the buffers to its own context only.
WireOwnContext(t) ==
  /\ pc[t] = "register" /\ ~crashed
  /\ shared.exists /\ ~shared.failed
  /\ Other[t.side] \in shared.registered
  /\ driver' = "running"
  /\ wired' = wired \cup {t}
  /\ shared' = [Fresh EXCEPT !.started = TRUE, !.active = 2]
  /\ Go(t, "ready")
  /\ UNCHANGED <<current, sides, context, rateFlag, allocated, callback, atFault, crashed,
                 overlapped>>

\* The second side creates the buffers, hands them to the contexts that the
\* pointers name, and starts the stream for both.
RegisterSecond(t) ==
  /\ pc[t] = "register" /\ ~crashed
  /\ shared.exists /\ ~shared.failed
  /\ Other[t.side] \in shared.registered
  /\ driver' = "running"
  /\ wired' = wired \cup ({context[d] : d \in Sides} \ {Null})
  /\ shared' = [Fresh EXCEPT !.started = TRUE, !.active = 2]
  /\ Go(t, "ready")
  /\ UNCHANGED <<current, sides, context, rateFlag, allocated, callback, atFault, crashed, overlapped>>

\* Mutant: a failed start is not recorded for the side that waits.
FailSilently(t) ==
  /\ pc[t] = "register" /\ ~crashed
  /\ shared.exists
  /\ shared.failed \/ Other[t.side] \in shared.registered
  /\ "start" \in Faults
  /\ Fail(t)
  /\ UNCHANGED <<current, sides, shared, driver, rateFlag, wired, callback, crashed,
                 overlapped>>

\* The buffers or the start fail, or the other side has recorded that they did.
RegisterFails(t) ==
  /\ pc[t] = "register" /\ ~crashed
  /\ shared.exists
  /\ \/ /\ shared.failed
        /\ UNCHANGED <<shared, driver>>
     \/ /\ ~shared.failed /\ Other[t.side] \in shared.registered
        /\ \/ "create" \in Faults /\ UNCHANGED driver
           \/ "start" \in Faults /\ driver' = "buffers"
        /\ shared' = [shared EXCEPT !.registered = {}, !.failed = TRUE]
  /\ Fail(t)
  /\ UNCHANGED <<current, sides, rateFlag, wired, callback, crashed, overlapped>>

\* What the first side waits for under the lock.
Wake(t) ==
  /\ pc[t] = "waiting" /\ ~crashed
  /\ shared.exists
  /\ shared.started \/ shared.failed
  /\ IF shared.failed
     THEN Fail(t)
     ELSE Go(t, "ready") /\ UNCHANGED <<atFault, context, allocated>>
  /\ UNCHANGED <<current, sides, shared, driver, rateFlag, wired, callback, crashed, overlapped>>

\* The expect and the unwraps of register_and_wait: the shared state has gone.
Panic(t) ==
  /\ pc[t] \in {"register", "waiting"}
  /\ ~shared.exists
  /\ crashed' = TRUE
  /\ Go(t, "none")
  /\ UNCHANGED <<current, sides, shared, driver, context, rateFlag, allocated, wired,
                 callback, atFault, overlapped>>

-----------------------------------------------------------------------------
\* The barrier of the session opens: a thread that has failed returns, the others
\* begin to stream.
PassBarrier ==
  /\ \A t \in Of(current) : t.side \in sides => pc[t] \in {"ready", "unopened", "failed"}
  /\ pc' = [t \in Threads |->
              CASE t.session = current /\ pc[t] = "ready"  -> "streaming"
                [] t.session = current /\ pc[t] \in {"unopened", "failed"} -> "none"
                [] OTHER -> pc[t]]
  /\ UNCHANGED <<current, sides, shared, driver, context, rateFlag, allocated, wired,
                 callback, atFault, crashed, overlapped>>

\* The loop ends with the stream, or by Exit.
EndStream(t) ==
  /\ pc[t] = "streaming"
  /\ Go(t, "release")
  /\ UNCHANGED <<current, sides, shared, driver, context, rateFlag, allocated, wired,
                 callback, atFault, crashed, overlapped>>

\* sample_rate_changed_callback, and what each loop does about it.
RateChanged ==
  /\ "rate" \in Faults /\ driver = "running"
  /\ rateFlag # [d \in Sides |-> TRUE]
  /\ rateFlag' = [d \in Sides |-> TRUE]
  /\ UNCHANGED <<current, sides, shared, driver, context, pc, allocated, wired, callback,
                 atFault, crashed, overlapped>>

TakeRateChange(t) ==
  /\ pc[t] = "streaming" /\ rateFlag[t.side]
  /\ rateFlag' = [rateFlag EXCEPT ![t.side] = FALSE]
  /\ Reported(t)
  /\ Go(t, "release")
  /\ UNCHANGED <<current, sides, shared, driver, context, allocated, wired, callback,
                 crashed, overlapped>>

-----------------------------------------------------------------------------
\* ------------------------------- Cleaning up ------------------------------

\* Mutant: the last side stops the stream, not the first.
LastSideStops(t) ==
  /\ pc[t] = "release" /\ Duplex /\ ~crashed
  /\ shared' = IF shared.active = 2 THEN [shared EXCEPT !.active = 1] ELSE None
  /\ driver' = IF shared.active = 2 THEN driver ELSE "unloaded"
  /\ shared.active = 2 \/ callback = Null
  /\ Go(t, "free")
  /\ UNCHANGED <<current, sides, context, rateFlag, allocated, wired, callback, atFault,
                 crashed, overlapped>>

\* Mutant: the count of active sides goes below zero.
ReleaseUnclamped(t) ==
  /\ pc[t] = "release" /\ Duplex /\ ~crashed
  /\ shared.exists /\ callback = Null
  /\ context' = [d \in Sides |-> Null]
  /\ driver' = "stopped"
  /\ shared' = IF shared.active = 1 THEN None ELSE [shared EXCEPT !.active = @ - 1]
  /\ Go(t, "free")
  /\ UNCHANGED <<current, sides, rateFlag, allocated, wired, callback, atFault, crashed, overlapped>>

\* release_shared_asio.  ASIOStop returns when no callback is running.
ReleaseShared(t) ==
  /\ pc[t] = "release" /\ Duplex /\ ~crashed
  /\ LET left == IF shared.active > 0 THEN shared.active - 1 ELSE 0
     IN  \/ /\ ~shared.exists
            /\ UNCHANGED <<shared, driver, context>>
         \/ /\ shared.exists /\ left = 1
            /\ callback = Null
            /\ context' = [d \in Sides |-> Null]
            /\ driver' = "stopped"
            /\ shared' = [shared EXCEPT !.active = left]
         \/ /\ shared.exists /\ left = 0
            /\ driver' = "unloaded"
            /\ shared' = None
            /\ UNCHANGED context
  /\ Go(t, "free")
  /\ UNCHANGED <<current, sides, rateFlag, allocated, wired, callback, atFault, crashed, overlapped>>

\* Mutant: the stream is left running.
LeaveRunning(t) ==
  /\ pc[t] = "release" /\ ~Duplex
  /\ context' = [context EXCEPT ![t.side] = Null]
  /\ Go(t, "free")
  /\ UNCHANGED <<current, sides, shared, driver, rateFlag, allocated, wired, callback,
                 atFault, crashed, overlapped>>

\* A single direction: the pointer is nulled, the stream stopped and disposed of.
ReleaseSingle(t) ==
  /\ pc[t] = "release" /\ ~Duplex
  /\ callback = Null
  /\ context' = [context EXCEPT ![t.side] = Null]
  /\ driver' = "unloaded"
  /\ Go(t, "free")
  /\ UNCHANGED <<current, sides, shared, rateFlag, allocated, wired, callback, atFault,
                 crashed, overlapped>>

\* The pointer is nulled in any case, whoever it points to, and the context freed.
Free(t) ==
  /\ pc[t] = "free"
  /\ context' = [context EXCEPT ![t.side] = Null]
  /\ allocated' = allocated \ {t}
  /\ wired' = wired \ {t}
  /\ Go(t, "none")
  /\ UNCHANGED <<current, sides, shared, driver, rateFlag, callback, atFault, crashed, overlapped>>

-----------------------------------------------------------------------------
\* ------------------------------- The driver -------------------------------

\* buffer_switch_playback or buffer_switch_capture: the pointer is read once and
\* used until the callback returns.
BeginCallback(d) ==
  /\ driver = "running" /\ callback = Null
  /\ context[d] # Null
  /\ callback' = context[d]
  /\ UNCHANGED <<current, sides, shared, driver, context, rateFlag, pc, allocated, wired,
                 atFault, crashed, overlapped>>

EndCallback ==
  /\ callback # Null
  /\ callback' = Null
  /\ UNCHANGED <<current, sides, shared, driver, context, rateFlag, pc, allocated, wired,
                 atFault, crashed, overlapped>>

\* The threads run() joins before it returns: all, or after a fault of a device
\* that of the other one.
Joined == IF atFault = "none" THEN Sides ELSE {Other[atFault]}

NextSession ==
  /\ current + 1 \in Sessions
  /\ \A t \in Of(current) : pc[t] \notin {"open", "store", "register", "waiting",
                                          "ready", "unopened", "failed", "streaming"}
  /\ \A t \in Of(current) : t.side \in Joined => pc[t] = "none"
  /\ current' = current + 1
  /\ atFault' = "none"
  /\ overlapped' = (overlapped \/ \E t \in Of(current) : pc[t] # "none")
  /\ pc' = [t \in Threads |->
              IF t.session = current + 1 /\ t.side \in sides THEN "open" ELSE pc[t]]
  /\ UNCHANGED <<sides, shared, driver, context, rateFlag, allocated, wired, callback,
                 crashed>>

Thread(t) ==
  \/ Open(t) \/ OpenFails(t) \/ StoreContext(t) \/ StartFails(t)
  \/ RegisterFirst(t) \/ RegisterSecond(t) \/ RegisterFails(t) \/ Wake(t) \/ Panic(t)
  \/ TakeRateChange(t) \/ ReleaseShared(t) \/ ReleaseSingle(t) \/ Free(t)

Next ==
  \/ \E t \in Threads : Thread(t) \/ EndStream(t)
  \/ PassBarrier \/ RateChanged \/ NextSession
  \/ \E d \in Sides : BeginCallback(d)
  \/ EndCallback
Spec == Init /\ [][Next]_vars

\* The threads run, the barrier opens when all are there and callbacks return.
FairSpec ==
  /\ Spec
  /\ \A t \in Threads : WF_vars(Thread(t))
  /\ WF_vars(PassBarrier)
  /\ WF_vars(EndCallback)

-----------------------------------------------------------------------------
\* No callback uses a context that has been freed: the stream is stopped, which
\* waits for the callback, before either thread frees its own.
CallbackIsSafe == callback \in allocated \cup {Null}

\* The stream does not run on when the threads that use it are gone, nor while
\* the driver's owner is still setting it up.
StreamIsOwned ==
  driver = "running" =>
    \E t \in Threads : pc[t] \in {"waiting", "ready", "streaming", "release"}

\* While both threads of a session are streaming, the stream is running and fills
\* and drains their own buffers.  This takes a last session that has cleaned up.
StreamIsTheirs ==
  \A s \in Sessions :
    LET own == {t \in Of(s) : t.side \in sides} IN
    ~overlapped /\ (\A t \in own : pc[t] = "streaming") =>
      driver = "running" /\ \A t \in own : context[t.side] = t /\ t \in wired

\* A thread that waits for the other side goes on when that side has started the
\* stream or has failed to.  It waits for ever for one that fails before that, and
\* it may if a thread of the last session released the driver under it.
WaitingEnds ==
  \A t \in Threads :
    pc[t] = "waiting" ~> \/ pc[t] # "waiting"
                         \/ pc[[t EXCEPT !.side = Other[@]]] = "unopened"
                         \/ overlapped
=============================================================================
