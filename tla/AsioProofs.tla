----------------------------- MODULE AsioProofs -----------------------------
(***************************************************************************)
(* No callback of the ASIO driver uses a context that has been freed, the  *)
(* stream never runs without a thread to stop it, and in a session that    *)
(* overlaps no other it is the stream of that session: for any number of   *)
(* sessions and whichever calls of the driver fail.                        *)
(*                                                                         *)
(* The argument is about who can be where while the stream is running.  In *)
(* full duplex the two threads of the current session are then between     *)
(* their registration and their release (RunningInv), so that neither      *)
(* fails nor frees its context; that rests on what a registration says     *)
(* about the two threads (RegisteredInv), also when threads of an earlier  *)
(* session are still cleaning up and dispose of the shared state between   *)
(* two steps of this one.                                                  *)
(***************************************************************************)
EXTENDS Asio, TLAPS

Cur(d) == [session |-> current, side |-> d]

Preparing == {"open", "store", "register"}
BeforeBarrier == Preparing \cup {"waiting", "ready", "unopened", "failed"}
Holding == {"waiting", "ready", "streaming", "release"}

\* Where the threads of past, present and future sessions can be.
PlaceInv ==
  /\ \A t \in Threads :
       /\ t.session < current => pc[t] \in {"release", "free", "none"}
       /\ t.session > current => pc[t] = "none"
       /\ t.side \notin sides => pc[t] = "none"
       /\ pc[t] \in {"register", "waiting"} => Duplex
       /\ pc[t] \in Holding \cup {"register", "free"} => t \in allocated
  /\ \A d, e \in Sides :
       pc[Cur(d)] \in {"streaming", "release", "free"} => pc[Cur(e)] \notin BeforeBarrier

\* The pointers name contexts that exist, and of the current session its own.
ContextInv ==
  \A d \in Sides :
    /\ context[d] # Null => context[d] \in allocated /\ context[d].side = d
    /\ pc[Cur(d)] \in Holding \cup {"register", "free"} => context[d] \in {Null, Cur(d)}

\* Which device is at fault, and that a side that is missing at the barrier is, or
\* has panicked.
FaultInv ==
  \A d \in Sides :
    /\ atFault = d => pc[Cur(d)] \notin Preparing \cup {"waiting", "ready", "streaming"}
    /\ pc[Cur(d)] \in {"unopened", "failed"} => atFault # "none"
    /\ Duplex /\ pc[Cur(d)] = "none" /\ pc[Cur(Other[d])] \in BeforeBarrier => crashed

-----------------------------------------------------------------------------
\* ------------------------------- Full duplex -----------------------------

\* While the stream is running both threads of the session hold it.
RunningInv ==
  /\ ~shared.exists => shared = None
  /\ shared.active = 2 <=> driver = "running"
  /\ driver = "running" =>
       /\ shared.exists /\ shared.started /\ ~shared.failed /\ shared.registered = {}
       /\ ~crashed
       /\ \A d \in Sides : pc[Cur(d)] \in Holding
  /\ callback # Null => driver = "running" /\ callback \in Of(current)

\* A side is registered while its thread waits for the other, which has yet to come
\* or is at fault.  The exception is a thread that opened the driver anew after an
\* old session had disposed of it: it waits for a side that has registered before.
RegisteredInv ==
  /\ shared.failed => shared.registered = {}
  /\ \A d \in Sides :
       LET me == pc[Cur(d)]  other == pc[Cur(Other[d])] IN
       /\ d \in shared.registered =>
            /\ me \in Holding
            /\ \/ other \in Preparing
               \/ other \in {"unopened", "failed", "none"} /\ atFault = Other[d]
               \/ /\ me = "waiting" /\ other \in {"waiting", "ready"}
                  /\ ~shared.started /\ ~shared.failed
       /\ me \in {"waiting", "ready"} /\ other \in Preparing =>
            d \in shared.registered \/ (~shared.started /\ ~shared.failed)

\* In a session that overlaps no other, a start is that of this session: the stream
\* runs for both threads, until one of them has stopped it.
Streams ==
  driver = "running" /\ \A d \in Sides : context[d] = Cur(d) /\ Cur(d) \in wired
OneHasStopped ==
  /\ shared.active = 1
  /\ \E d \in Sides : /\ pc[Cur(d)] \in {"free", "none"}
                      /\ pc[Cur(Other[d])] \in {"streaming", "release"}
OwnStreamInv ==
  /\ \A d \in Sides :
       /\ pc[Cur(d)] \in {"ready", "streaming", "release"} => shared.started
       /\ pc[Cur(d)] \in {"register", "waiting", "ready"} => context[d] = Cur(d)
  /\ shared.started => Streams \/ OneHasStopped

-----------------------------------------------------------------------------
\* ---------------------------- A single direction -------------------------

\* The pointer names a context that its thread has yet to release.
SingleInv ==
  /\ \A d \in Sides :
       context[d] # Null => pc[context[d]] \in {"ready", "streaming", "release"}
  /\ callback # Null => pc[callback] \in {"ready", "streaming", "release"}
  /\ driver = "running" =>
       \E t \in Threads : pc[t] \in {"ready", "streaming", "release"}
SingleOwnInv ==
  \A d \in Sides :
    pc[Cur(d)] \in {"ready", "streaming", "release"} =>
      driver = "running" /\ context[d] = Cur(d) /\ Cur(d) \in wired

-----------------------------------------------------------------------------
DriverInv ==
  /\ PlaceInv /\ ContextInv /\ FaultInv
  /\ Duplex  => RunningInv /\ RegisteredInv
  /\ ~Duplex => SingleInv

\* A session that overlaps no other is alone.
OwnInv ==
  ~overlapped =>
    /\ \A t \in Threads : t.session < current => pc[t] = "none"
    /\ Duplex  => OwnStreamInv
    /\ ~Duplex => SingleOwnInv

-----------------------------------------------------------------------------
\* -------------------------- Sides and threads ----------------------------

LEMMA SideFacts ==
  ASSUME NEW d \in Sides
  PROVE  Other[d] \in Sides /\ Other[d] # d /\ Other[Other[d]] = d /\ d # "none"
BY DEF Sides, Other

\* The two sides are all there are.
LEMMA OtherSide == ASSUME NEW d \in Sides, NEW e \in Sides PROVE e = d \/ e = Other[d]
BY DEF Sides, Other

\* The threads of the current session.
LEMMA CurrentThreads ==
  ASSUME current \in Sessions
  PROVE  /\ \A d \in Sides : Cur(d) \in Threads /\ Cur(d).session = current /\ Cur(d).side = d
         /\ \A t \in Threads : t.side \in Sides /\ (t.session = current => t = Cur(t.side))
         /\ Null \notin Threads
BY AsioAssumption DEF Cur, Threads, Sessions, Null

\* A session number, and what comes before and after it.
LEMMA SessionFacts ==
  ASSUME current \in Sessions
  PROVE  /\ current \in Nat
         /\ \A t \in Threads : t.session \in Nat
BY AsioAssumption DEF Threads, Sessions

\* AsioSharedState: as None, as it is created, and as the second side leaves it.
SharedStates == [registered : SUBSET Sides, started : BOOLEAN, failed : BOOLEAN,
                 active : 0..2, exists : BOOLEAN]
LEMMA SharedFacts ==
  /\ None \in SharedStates /\ Fresh \in SharedStates
  /\ [Fresh EXCEPT !.started = TRUE, !.active = 2] \in SharedStates
  /\ ~None.exists /\ None.registered = {} /\ ~None.started /\ ~None.failed /\ None.active = 0
  /\ Fresh.exists /\ Fresh.registered = {} /\ ~Fresh.started /\ ~Fresh.failed
  /\ Fresh.active = 0
<1>1. None \in SharedStates
  BY DEF None, SharedStates
<1>2. Fresh \in SharedStates
  BY <1>1 DEF Fresh, SharedStates
<1>3. [Fresh EXCEPT !.started = TRUE, !.active = 2] \in SharedStates
  <2> DEFINE Began == [Fresh EXCEPT !.started = TRUE]
  <2>1. Began \in SharedStates
    BY <1>2 DEF SharedStates
  <2>2. [Began EXCEPT !.active = 2] \in SharedStates
    <3> HIDE DEF Began
    <3> QED
      BY <2>1 DEF SharedStates
  <2> QED
    BY <2>2
<1>4. /\ ~None.exists /\ None.registered = {} /\ ~None.started /\ ~None.failed
      /\ None.active = 0
  BY DEF None
<1>5. /\ Fresh.exists /\ Fresh.registered = {} /\ ~Fresh.started /\ ~Fresh.failed
      /\ Fresh.active = 0
  BY <1>4 DEF Fresh, None
<1> QED
  BY <1>1, <1>2, <1>3, <1>4, <1>5

\* A failed start clears the registrations.
LEMMA FailureRecorded ==
  ASSUME NEW r \in SharedStates
  PROVE  LET f == [r EXCEPT !.registered = {}, !.failed = TRUE] IN
         /\ f.registered = {} /\ f.failed /\ f.exists = r.exists /\ f.active = r.active
         /\ f.started = r.started
<1> DEFINE cleared == [r EXCEPT !.registered = {}]
           f == [cleared EXCEPT !.failed = TRUE]
<1>1. /\ cleared \in SharedStates /\ cleared.registered = {} /\ cleared.exists = r.exists
      /\ cleared.active = r.active /\ cleared.started = r.started
  BY DEF SharedStates
<1>2. /\ f.registered = cleared.registered /\ f.failed /\ f.exists = cleared.exists
      /\ f.active = cleared.active /\ f.started = cleared.started
  <2> HIDE DEF cleared
  <2> QED
    BY <1>1 DEF SharedStates
<1> QED
  BY <1>1, <1>2

-----------------------------------------------------------------------------
\* ----------------------------------- Types -------------------------------

\* The type invariant: every step keeps it.
LEMMA TypePreserved == TypeOK /\ [Next]_vars => TypeOK'
<1> SUFFICES ASSUME TypeOK, [Next]_vars PROVE TypeOK'
  OBVIOUS
<1>0. \A d \in Sides : Other[d] \in Sides
  BY SideFacts
<1>n. \A t \in Threads : t.side \in Sides
  BY DEF Threads
<1>f. /\ None \in SharedStates /\ Fresh \in SharedStates /\ shared \in SharedStates
      /\ [Fresh EXCEPT !.started = TRUE, !.active = 2] \in SharedStates
  BY SharedFacts DEF TypeOK, SharedStates
<1>1. ASSUME NEW t \in Threads, Thread(t) \/ EndStream(t) PROVE TypeOK'
  <2>1. CASE Open(t)
    BY <1>f, <2>1 DEF Open, Go, TypeOK, Locations, SharedStates
  <2>2. CASE OpenFails(t)
    BY <1>f, <1>n, <2>2 DEF OpenFails, Fail, Reported, Go, TypeOK, Locations,
    SharedStates
  <2>3. CASE StoreContext(t)
    BY <1>n, <2>3 DEF StoreContext, Go, TypeOK, Locations
  <2>4. CASE StartFails(t)
    BY <1>n, <2>4 DEF StartFails, Fail, Reported, Go, TypeOK, Locations
  <2>5. CASE RegisterFirst(t)
    BY <1>n, <2>5 DEF RegisterFirst, Go, TypeOK, Locations
  <2>6. CASE RegisterSecond(t)
    BY <1>f, <1>n, <2>6 DEF RegisterSecond, Go, TypeOK, Locations, SharedStates
  <2>7. CASE RegisterFails(t)
    BY <1>n, <2>7 DEF RegisterFails, Fail, Reported, Go, TypeOK, Locations
  <2>8. CASE Wake(t)
    BY <1>n, <2>8 DEF Wake, Fail, Reported, Go, TypeOK, Locations
  <2>9. CASE Panic(t)
    BY <2>9 DEF Panic, Go, TypeOK, Locations
  <2>10. CASE TakeRateChange(t)
    BY <1>n, <2>10 DEF TakeRateChange, Reported, Go, TypeOK, Locations
  <2>11. CASE ReleaseShared(t)
    BY <1>f, <2>11 DEF ReleaseShared, Go, TypeOK, Locations, SharedStates
  <2>12. CASE ReleaseSingle(t)
    BY <1>n, <2>12 DEF ReleaseSingle, Go, TypeOK, Locations
  <2>13. CASE Free(t)
    BY <1>n, <2>13 DEF Free, Go, TypeOK, Locations
  <2>14. CASE EndStream(t)
    BY <2>14 DEF EndStream, Go, TypeOK, Locations
  <2> QED
    BY <1>1, <2>1, <2>2, <2>3, <2>4, <2>5, <2>6, <2>7, <2>8, <2>9, <2>10, <2>11, <2>12,
       <2>13, <2>14 DEF Thread
<1>2. CASE PassBarrier
  BY <1>2 DEF PassBarrier, TypeOK, Locations
<1>3. CASE RateChanged
  BY <1>3 DEF RateChanged, TypeOK
<1>4. CASE NextSession
  BY <1>4 DEF NextSession, TypeOK, Locations
<1>5. ASSUME NEW d \in Sides, BeginCallback(d) PROVE TypeOK'
  BY <1>5 DEF BeginCallback, TypeOK
<1>6. CASE EndCallback
  BY <1>6 DEF EndCallback, TypeOK
<1>7. CASE UNCHANGED vars
  BY <1>7 DEF vars, TypeOK
<1> QED
  BY <1>1, <1>2, <1>3, <1>4, <1>5, <1>6, <1>7 DEF Next

-----------------------------------------------------------------------------
\* ------------------------- What a thread's step does ---------------------

\* From where to where a thread goes, and what becomes of its context.
Goes(t) ==
  \/ pc[t] = "open" /\ pc'[t] \in {"store", "unopened"}
  \/ pc[t] = "store" /\ pc'[t] \in {"register", "ready"} /\ t \in allocated'
     /\ (pc'[t] = "register" <=> Duplex)
  \/ pc[t] = "store" /\ pc'[t] = "failed" /\ ~Duplex
  \/ pc[t] = "register" /\ pc'[t] \in {"waiting", "ready", "failed"} /\ ~crashed
  \/ pc[t] = "waiting" /\ pc'[t] \in {"ready", "failed"} /\ ~crashed
  \/ pc[t] \in {"register", "waiting"} /\ pc'[t] = "none" /\ ~shared.exists /\ crashed'
  \/ pc[t] = "streaming" /\ pc'[t] = "release"
  \/ pc[t] = "release" /\ pc'[t] = "free"
  \/ pc[t] = "free" /\ pc'[t] = "none"

\* An error makes the side the one at fault unless the other has been before.
Blames(t) ==
  \/ /\ atFault' = (IF t.session = current /\ atFault = "none" THEN t.side ELSE atFault)
     /\ pc'[t] \in {"unopened", "failed", "release"}
  \/ atFault' = atFault /\ pc'[t] \notin {"unopened", "failed"}

LEMMA ThreadStep ==
  ASSUME TypeOK, NEW t \in Threads, Thread(t) \/ EndStream(t)
  PROVE  /\ UNCHANGED <<current, sides, overlapped, callback>>
         /\ pc' = [pc EXCEPT ![t] = pc'[t]]
         /\ Goes(t) /\ Blames(t)
         /\ \A u \in Threads : u # t => (u \in allocated' <=> u \in allocated)
         /\ t \in allocated /\ pc[t] \notin {"open", "store", "free"} /\ pc'[t] # "failed" =>
              t \in allocated'
         /\ crashed' \in {crashed, TRUE}
         /\ crashed' # crashed => ~shared.exists
<1> USE DEF Goes, Blames, Go, TypeOK
<1>1. CASE Open(t)
  BY <1>1 DEF Open
<1>2. CASE OpenFails(t)
  BY <1>2 DEF OpenFails, Fail, Reported
<1>3. CASE StoreContext(t)
  BY <1>3 DEF StoreContext
<1>4. CASE StartFails(t)
  BY <1>4 DEF StartFails, Fail, Reported
<1>5. CASE RegisterFirst(t)
  BY <1>5 DEF RegisterFirst
<1>6. CASE RegisterSecond(t)
  BY <1>6 DEF RegisterSecond
<1>7. CASE RegisterFails(t)
  BY <1>7 DEF RegisterFails, Fail, Reported
<1>8. CASE Wake(t)
  BY <1>8 DEF Wake, Fail, Reported
<1>9. CASE Panic(t)
  BY <1>9 DEF Panic
<1>10. CASE TakeRateChange(t)
  BY <1>10 DEF TakeRateChange, Reported
<1>11. CASE ReleaseShared(t)
  BY <1>11 DEF ReleaseShared
<1>12. CASE ReleaseSingle(t)
  BY <1>12 DEF ReleaseSingle
<1>13. CASE Free(t)
  BY <1>13 DEF Free
<1>14. CASE EndStream(t)
  BY <1>14 DEF EndStream
<1> QED
  BY <1>1, <1>2, <1>3, <1>4, <1>5, <1>6, <1>7, <1>8, <1>9, <1>10, <1>11, <1>12, <1>13,
     <1>14 DEF Thread

-----------------------------------------------------------------------------
\* -------------------------- Places and faults ----------------------------

LEMMA PlacePreserved == TypeOK /\ PlaceInv /\ FaultInv /\ [Next]_vars => PlaceInv'
<1> SUFFICES ASSUME TypeOK, PlaceInv, FaultInv, [Next]_vars PROVE PlaceInv'
  OBVIOUS
<1>0. /\ \A d \in Sides : Cur(d) \in Threads /\ Cur(d).session = current /\ Cur(d).side = d
      /\ \A t \in Threads : t.side \in Sides /\ (t.session = current => t = Cur(t.side))
      /\ Null \notin Threads
      /\ current \in Nat
      /\ \A t \in Threads : t.session \in Nat
  BY CurrentThreads, SessionFacts DEF TypeOK
<1>1. ASSUME NEW t \in Threads, Thread(t) \/ EndStream(t) PROVE PlaceInv'
  <2>1. /\ UNCHANGED <<current, sides>>
        /\ pc' = [pc EXCEPT ![t] = pc'[t]]
        /\ Goes(t)
        /\ \A u \in Threads : u # t => (u \in allocated' <=> u \in allocated)
        /\ t \in allocated /\ pc[t] \notin {"open", "store", "free"} /\ pc'[t] # "failed" =>
              t \in allocated'
    BY <1>1, ThreadStep
  <2>2. \A u \in Threads : pc'[u] = IF u = t THEN pc'[t] ELSE pc[u]
    BY <2>1 DEF TypeOK
  <2>3. \A d \in Sides : Cur(d)' = Cur(d)
    BY <2>1 DEF Cur
  <2>4. Duplex' = Duplex
    BY <2>1 DEF Duplex
  <2>5. \A u \in Threads :
          /\ u.session < current => pc'[u] \in {"release", "free", "none"}
          /\ u.session > current => pc'[u] = "none"
          /\ u.side \notin sides => pc'[u] = "none"
    BY <2>1, <2>2 DEF PlaceInv, Goes
  <2>6. \A u \in Threads :
          /\ pc'[u] \in {"register", "waiting"} => Duplex
          /\ pc'[u] \in Holding \cup {"register", "free"} => u \in allocated'
    BY <2>1, <2>2 DEF PlaceInv, Goes, Holding
  <2>7. \A d, e \in Sides : pc'[Cur(d)] \in {"streaming", "release", "free"} =>
                              pc'[Cur(e)] \notin BeforeBarrier
    BY <1>0, <2>1, <2>2 DEF PlaceInv, Goes, BeforeBarrier, Preparing
  <2> QED
    BY <2>1, <2>3, <2>4, <2>5, <2>6, <2>7 DEF PlaceInv
<1>2. CASE PassBarrier
  <2>1. \A t \in Threads : pc'[t] =
          CASE t.session = current /\ pc[t] = "ready"  -> "streaming"
            [] t.session = current /\ pc[t] \in {"unopened", "failed"} -> "none"
            [] OTHER -> pc[t]
    BY <1>2 DEF PassBarrier
  <2>2. UNCHANGED <<current, sides, allocated>> /\ \A d \in Sides : Cur(d)' = Cur(d)
    BY <1>2 DEF PassBarrier, Cur
  <2>3. \A t \in Threads : t.session # current => pc'[t] = pc[t]
    BY <2>1
  <2>4. \A t \in Threads : t.session = current =>
          pc'[t] = IF pc[t] = "ready" THEN "streaming"
                   ELSE IF pc[t] \in {"unopened", "failed"} THEN "none" ELSE pc[t]
    BY <2>1
  <2>5. \A d \in Sides : pc'[Cur(d)] \notin BeforeBarrier
    <3> SUFFICES ASSUME NEW d \in Sides PROVE pc'[Cur(d)] \notin BeforeBarrier
      OBVIOUS
    <3>1. CASE d \in sides
      BY <1>0, <1>2, <2>4, <3>1 DEF PassBarrier, Of, BeforeBarrier, Preparing
    <3>2. CASE d \notin sides
      BY <1>0, <2>4, <3>2 DEF PlaceInv, BeforeBarrier, Preparing
    <3> QED
      BY <3>1, <3>2
  <2> QED
    BY <1>0, <2>2, <2>3, <2>4, <2>5 DEF PlaceInv, Duplex, Holding
<1>3. CASE NextSession
  <2>1. /\ current' = current + 1 /\ UNCHANGED <<sides, allocated>>
        /\ \A t \in Threads : pc'[t] = IF t.session = current + 1 /\ t.side \in sides
                                       THEN "open" ELSE pc[t]
    BY <1>3 DEF NextSession
  <2>2. \A t \in Threads : t.session = current => pc[t] \in {"release", "free", "none"}
    BY <1>3 DEF NextSession, Of, TypeOK, Locations
  <2>3. \A d \in Sides : Cur(d)' \in Threads /\ Cur(d)'.session = current + 1
                         /\ Cur(d)'.side = d
    BY <1>3, <2>1 DEF NextSession, Cur, Threads
  <2>4. \A d \in Sides : pc'[Cur(d)'] \in {"open", "none"}
    BY <1>0, <2>1, <2>3 DEF PlaceInv
  <2>5. \A t \in Threads :
          /\ t.session < current + 1 => pc'[t] \in {"release", "free", "none"}
          /\ t.session > current + 1 => pc'[t] = "none"
          /\ t.side \notin sides => pc'[t] = "none"
    BY <1>0, <2>1, <2>2 DEF PlaceInv
  <2>6. \A t \in Threads :
          /\ pc'[t] \in {"register", "waiting"} => Duplex
          /\ pc'[t] \in Holding \cup {"register", "free"} => t \in allocated
    BY <2>1 DEF PlaceInv, Holding
  <2> QED
    BY <2>1, <2>4, <2>5, <2>6 DEF PlaceInv, Duplex
<1>4. CASE RateChanged
  BY <1>4 DEF RateChanged, PlaceInv, Duplex, Cur
<1>5. ASSUME NEW d \in Sides, BeginCallback(d) PROVE PlaceInv'
  BY <1>5 DEF BeginCallback, PlaceInv, Duplex, Cur
<1>6. CASE EndCallback
  BY <1>6 DEF EndCallback, PlaceInv, Duplex, Cur
<1>7. CASE UNCHANGED vars
  BY <1>7 DEF vars, PlaceInv, Duplex, Cur
<1> QED
  BY <1>1, <1>2, <1>3, <1>4, <1>5, <1>6, <1>7 DEF Next

LEMMA FaultPreserved == TypeOK /\ PlaceInv /\ FaultInv /\ [Next]_vars => FaultInv'
<1> SUFFICES ASSUME TypeOK, PlaceInv, FaultInv, [Next]_vars PROVE FaultInv'
  OBVIOUS
<1>0. /\ \A d \in Sides : Cur(d) \in Threads /\ Cur(d).session = current /\ Cur(d).side = d
      /\ \A t \in Threads : t.side \in Sides /\ (t.session = current => t = Cur(t.side))
      /\ current \in Nat
      /\ \A d \in Sides : Other[d] \in Sides /\ Other[d] # d /\ Other[Other[d]] = d
                          /\ d # "none"
      /\ \A d, e \in Sides : e = d \/ e = Other[d]
  BY CurrentThreads, SessionFacts, SideFacts, OtherSide DEF TypeOK
<1>1. ASSUME NEW t \in Threads, Thread(t) \/ EndStream(t) PROVE FaultInv'
  <2>1. /\ UNCHANGED <<current, sides>>
        /\ pc' = [pc EXCEPT ![t] = pc'[t]]
        /\ Goes(t) /\ Blames(t)
        /\ crashed => crashed'
    BY <1>1, ThreadStep
  <2>2. \A u \in Threads : pc'[u] = IF u = t THEN pc'[t] ELSE pc[u]
    BY <2>1 DEF TypeOK
  <2>3. \A d \in Sides : Cur(d)' = Cur(d)
    BY <2>1 DEF Cur
  <2>4. Duplex' = Duplex
    BY <2>1 DEF Duplex
  <2> SUFFICES ASSUME NEW d \in Sides
               PROVE /\ atFault' = d => pc'[Cur(d)] \notin Preparing
                                          \cup {"waiting", "ready", "streaming"}
                     /\ pc'[Cur(d)] \in {"unopened", "failed"} => atFault' # "none"
                     /\ Duplex /\ pc'[Cur(d)] = "none" /\ pc'[Cur(Other[d])] \in BeforeBarrier
                          => crashed'
    BY <1>0, <2>3, <2>4 DEF FaultInv
  <2>5. atFault' = d => pc'[Cur(d)] \notin Preparing \cup {"waiting", "ready", "streaming"}
    BY <1>0, <2>1, <2>2 DEF FaultInv, Goes, Blames, Preparing
  <2>6. pc'[Cur(d)] \in {"unopened", "failed"} => atFault' # "none"
    BY <1>0, <2>1, <2>2 DEF FaultInv, Blames
  <2>7. Duplex /\ pc'[Cur(d)] = "none" /\ pc'[Cur(Other[d])] \in BeforeBarrier => crashed'
    BY <1>0, <2>1, <2>2 DEF FaultInv, PlaceInv, Goes, BeforeBarrier, Preparing
  <2> QED
    BY <2>5, <2>6, <2>7
<1>2. CASE PassBarrier
  <2>1. \A t \in Threads : pc'[t] =
          CASE t.session = current /\ pc[t] = "ready"  -> "streaming"
            [] t.session = current /\ pc[t] \in {"unopened", "failed"} -> "none"
            [] OTHER -> pc[t]
    BY <1>2 DEF PassBarrier
  <2>2. /\ UNCHANGED <<current, sides, atFault, crashed>>
        /\ \A d \in Sides : Cur(d)' = Cur(d)
    BY <1>2 DEF PassBarrier, Cur
  <2>4. \A t \in Threads : t.session = current =>
          pc'[t] = IF pc[t] = "ready" THEN "streaming"
                   ELSE IF pc[t] \in {"unopened", "failed"} THEN "none" ELSE pc[t]
    BY <2>1
  <2>5. \A d \in Sides : Duplex => pc'[Cur(d)] \notin BeforeBarrier
    BY <1>0, <1>2, <2>4 DEF PassBarrier, Of, BeforeBarrier, Preparing, Duplex
  <2> QED
    BY <1>0, <2>2, <2>4, <2>5 DEF FaultInv, Duplex, Preparing
<1>3. CASE NextSession
  <2>1. /\ current' = current + 1 /\ UNCHANGED <<sides, allocated>> /\ atFault' = "none"
        /\ \A t \in Threads : pc'[t] = IF t.session = current + 1 /\ t.side \in sides
                                       THEN "open" ELSE pc[t]
    BY <1>3 DEF NextSession
  <2>3. \A d \in Sides : Cur(d)' \in Threads /\ Cur(d)'.session = current + 1
                         /\ Cur(d)'.side = d
    BY <1>3, <2>1 DEF NextSession, Cur, Threads
  <2>4. \A d \in Sides : pc'[Cur(d)'] \in {"open", "none"} /\ (Duplex => pc'[Cur(d)'] = "open")
    BY <1>0, <2>1, <2>3 DEF PlaceInv, Duplex
  <2> QED
    BY <1>0, <2>1, <2>4 DEF FaultInv, Duplex
<1>4. CASE RateChanged
  BY <1>4 DEF RateChanged, FaultInv, Duplex, Cur
<1>5. ASSUME NEW d \in Sides, BeginCallback(d) PROVE FaultInv'
  BY <1>5 DEF BeginCallback, FaultInv, Duplex, Cur
<1>6. CASE EndCallback
  BY <1>6 DEF EndCallback, FaultInv, Duplex, Cur
<1>7. CASE UNCHANGED vars
  BY <1>7 DEF vars, FaultInv, Duplex, Cur
<1> QED
  BY <1>1, <1>2, <1>3, <1>4, <1>5, <1>6, <1>7 DEF Next

\* What a step does to the pointers: it nulls some, or stores one's own context.
LEMMA ContextStep ==
  ASSUME TypeOK, NEW t \in Threads, Thread(t) \/ EndStream(t)
  PROVE  \/ /\ context'[t.side] = t /\ t \in allocated' /\ pc[t] = "store"
            /\ \A d \in Sides : d # t.side => context'[d] = context[d]
         \/ /\ \A d \in Sides : context'[d] \in {context[d], Null}
            /\ \/ t \in allocated => t \in allocated'
               \/ context'[t.side] = Null
            /\ pc[t] = "store" => pc'[t] = "failed"
<1> USE DEF Go, TypeOK
<1>0. t.side \in Sides
  BY DEF Threads
<1>1. CASE Open(t)
  BY <1>1 DEF Open
<1>2. CASE OpenFails(t)
  BY <1>0, <1>2 DEF OpenFails, Fail, Reported
<1>3. CASE StoreContext(t)
  BY <1>0, <1>3 DEF StoreContext
<1>4. CASE StartFails(t)
  BY <1>0, <1>4 DEF StartFails, Fail, Reported
<1>5. CASE RegisterFirst(t)
  BY <1>5 DEF RegisterFirst
<1>6. CASE RegisterSecond(t)
  BY <1>6 DEF RegisterSecond
<1>7. CASE RegisterFails(t)
  BY <1>0, <1>7 DEF RegisterFails, Fail, Reported
<1>8. CASE Wake(t)
  BY <1>0, <1>8 DEF Wake, Fail, Reported
<1>9. CASE Panic(t)
  BY <1>9 DEF Panic
<1>10. CASE TakeRateChange(t)
  BY <1>10 DEF TakeRateChange, Reported
<1>11. CASE ReleaseShared(t)
  BY <1>11 DEF ReleaseShared
<1>12. CASE ReleaseSingle(t)
  BY <1>0, <1>12 DEF ReleaseSingle
<1>13. CASE Free(t)
  BY <1>0, <1>13 DEF Free
<1>14. CASE EndStream(t)
  BY <1>14 DEF EndStream
<1> QED
  BY <1>1, <1>2, <1>3, <1>4, <1>5, <1>6, <1>7, <1>8, <1>9, <1>10, <1>11, <1>12, <1>13,
     <1>14 DEF Thread

LEMMA ContextPreserved == TypeOK /\ PlaceInv /\ ContextInv /\ [Next]_vars => ContextInv'
<1> SUFFICES ASSUME TypeOK, PlaceInv, ContextInv, [Next]_vars PROVE ContextInv'
  OBVIOUS
<1>0. /\ \A d \in Sides : Cur(d) \in Threads /\ Cur(d).session = current /\ Cur(d).side = d
      /\ \A t \in Threads : t.side \in Sides /\ (t.session = current => t = Cur(t.side))
      /\ current \in Nat /\ \A t \in Threads : t.session \in Nat
      /\ \A d \in Sides : context[d] \in Threads \cup {Null}
  BY CurrentThreads, SessionFacts DEF TypeOK
<1>1. ASSUME NEW t \in Threads, Thread(t) \/ EndStream(t) PROVE ContextInv'
  <2>1. /\ UNCHANGED current
        /\ pc' = [pc EXCEPT ![t] = pc'[t]]
        /\ Goes(t)
        /\ \A u \in Threads : u # t => (u \in allocated' <=> u \in allocated)
    BY <1>1, ThreadStep
  <2>2. \A u \in Threads : pc'[u] = IF u = t THEN pc'[t] ELSE pc[u]
    BY <2>1 DEF TypeOK
  <2>3. \A d \in Sides : Cur(d)' = Cur(d)
    BY <2>1 DEF Cur
  <2>4. \/ /\ context'[t.side] = t /\ t \in allocated' /\ pc[t] = "store"
           /\ \A d \in Sides : d # t.side => context'[d] = context[d]
        \/ /\ \A d \in Sides : context'[d] \in {context[d], Null}
           /\ \/ t \in allocated => t \in allocated'
              \/ context'[t.side] = Null
           /\ pc[t] = "store" => pc'[t] = "failed"
    BY <1>1, ContextStep
  <2> SUFFICES ASSUME NEW d \in Sides
               PROVE /\ context'[d] # Null => context'[d] \in allocated' /\ context'[d].side = d
                     /\ pc'[Cur(d)] \in Holding \cup {"register", "free"} =>
                          context'[d] \in {Null, Cur(d)}
    BY <2>3 DEF ContextInv
  <2>5. context'[d] # Null => context'[d] \in allocated' /\ context'[d].side = d
    BY <1>0, <2>1, <2>4 DEF ContextInv
  <2>6. pc'[Cur(d)] \in Holding \cup {"register", "free"} => context'[d] \in {Null, Cur(d)}
    <3>1. CASE pc[t] = "store"
      <4>1. t.session = current
        BY <1>0, <3>1 DEF PlaceInv
      <4> QED
        BY <1>0, <2>1, <2>2, <2>4, <3>1, <4>1 DEF ContextInv, Goes, Holding
    <3>2. CASE pc[t] # "store"
      BY <1>0, <2>1, <2>2, <2>4, <3>2 DEF ContextInv, Goes, Holding
    <3> QED
      BY <3>1, <3>2
  <2> QED
    BY <2>5, <2>6
<1>2. CASE PassBarrier
  <2>1. \A t \in Threads : pc'[t] =
          CASE t.session = current /\ pc[t] = "ready"  -> "streaming"
            [] t.session = current /\ pc[t] \in {"unopened", "failed"} -> "none"
            [] OTHER -> pc[t]
    BY <1>2 DEF PassBarrier
  <2>2. UNCHANGED <<current, context, allocated>> /\ \A d \in Sides : Cur(d)' = Cur(d)
    BY <1>2 DEF PassBarrier, Cur
  <2>4. \A t \in Threads : t.session = current =>
          pc'[t] = IF pc[t] = "ready" THEN "streaming"
                   ELSE IF pc[t] \in {"unopened", "failed"} THEN "none" ELSE pc[t]
    BY <2>1
  <2> QED
    BY <1>0, <2>2, <2>4 DEF ContextInv, Holding
<1>3. CASE NextSession
  <2>1. /\ current' = current + 1 /\ UNCHANGED <<sides, allocated, context>>
        /\ \A t \in Threads : pc'[t] = IF t.session = current + 1 /\ t.side \in sides
                                       THEN "open" ELSE pc[t]
    BY <1>3 DEF NextSession
  <2>3. \A d \in Sides : Cur(d)' \in Threads /\ Cur(d)'.session = current + 1
                         /\ Cur(d)'.side = d
    BY <1>3, <2>1 DEF NextSession, Cur, Threads
  <2>4. \A d \in Sides : pc'[Cur(d)'] \in {"open", "none"}
    BY <1>0, <2>1, <2>3 DEF PlaceInv
  <2> QED
    BY <2>1, <2>4 DEF ContextInv, Holding
<1>4. CASE RateChanged
  BY <1>4 DEF RateChanged, ContextInv, Cur
<1>5. ASSUME NEW d \in Sides, BeginCallback(d) PROVE ContextInv'
  BY <1>5 DEF BeginCallback, ContextInv, Cur
<1>6. CASE EndCallback
  BY <1>6 DEF EndCallback, ContextInv, Cur
<1>7. CASE UNCHANGED vars
  BY <1>7 DEF vars, ContextInv, Cur
<1> QED
  BY <1>1, <1>2, <1>3, <1>4, <1>5, <1>6, <1>7 DEF Next

-----------------------------------------------------------------------------
\* ------------------------------- Full duplex -----------------------------

\* What the steps about the stream and the registrations may assume.
DuplexInv ==
  /\ TypeOK /\ PlaceInv /\ ContextInv /\ FaultInv
  /\ Duplex /\ RunningInv /\ RegisteredInv

\* Facts about the threads and sides of the current session, for the steps below.
LEMMA CurrentFacts ==
  ASSUME TypeOK
  PROVE  /\ \A d \in Sides : Cur(d) \in Threads /\ Cur(d).session = current
                             /\ Cur(d).side = d
         /\ \A t \in Threads : t.side \in Sides /\ (t.session = current => t = Cur(t.side))
         /\ Null \notin Threads
         /\ current \in Nat /\ \A t \in Threads : t.session \in Nat
         /\ \A d \in Sides : Other[d] \in Sides /\ Other[d] # d /\ Other[Other[d]] = d
                             /\ d # "none"
         /\ \A d, e \in Sides : e = d \/ e = Other[d]
         /\ shared \in SharedStates
BY CurrentThreads, SessionFacts, SideFacts, OtherSide DEF TypeOK, SharedStates

\* A thread that is preparing, or waits, is one of the current session.
LEMMA PreparingIsCurrent ==
  ASSUME TypeOK, PlaceInv, NEW t \in Threads,
         pc[t] \in BeforeBarrier \cup {"streaming"}
  PROVE  t.session = current /\ t = Cur(t.side)
BY CurrentFacts DEF PlaceInv, BeforeBarrier, Preparing

\* The stream keeps running for both threads until one of them releases it.
LEMMA RunningPreserved == DuplexInv /\ [Next]_vars => RunningInv'
<1> SUFFICES ASSUME DuplexInv, [Next]_vars PROVE RunningInv'
  OBVIOUS
<1> USE DEF DuplexInv
<1>0. /\ \A d \in Sides : Cur(d) \in Threads /\ Cur(d).session = current /\ Cur(d).side = d
      /\ \A t \in Threads : t.side \in Sides /\ (t.session = current => t = Cur(t.side))
      /\ Null \notin Threads
      /\ current \in Nat
      /\ \A d \in Sides : Other[d] \in Sides /\ Other[d] # d /\ Other[Other[d]] = d
                          /\ d # "none"
      /\ \A d, e \in Sides : e = d \/ e = Other[d]
      /\ shared \in SharedStates
  BY CurrentFacts
<1>1. ASSUME NEW t \in Threads, Thread(t) \/ EndStream(t) PROVE RunningInv'
  <2>1. /\ UNCHANGED <<current, sides, callback>>
        /\ pc' = [pc EXCEPT ![t] = pc'[t]]
        /\ Goes(t)
    BY <1>1, ThreadStep
  <2>2. \A u \in Threads : pc'[u] = IF u = t THEN pc'[t] ELSE pc[u]
    BY <2>1 DEF TypeOK
  <2>3. (\A d \in Sides : Cur(d)' = Cur(d)) /\ Of(current)' = Of(current)
    BY <2>1 DEF Cur, Of
  <2>4. CASE Open(t)
    <3>1. driver # "running"
      BY <1>0, <2>4, PreparingIsCurrent DEF Open, RunningInv, Holding, BeforeBarrier, Preparing
    <3>2. CASE shared.exists
      BY <2>1, <2>4, <3>1, <3>2 DEF Open, RunningInv
    <3>3. CASE ~shared.exists
      BY <2>1, <2>4, <3>1, <3>3, SharedFacts DEF Open, RunningInv
    <3> QED
      BY <3>2, <3>3
  <2>5. CASE OpenFails(t)
    <3>1. driver # "running" /\ shared.active # 2
      BY <1>0, <2>5, PreparingIsCurrent
         DEF OpenFails, RunningInv, Holding, BeforeBarrier, Preparing
    <3>2. /\ shared' \in {shared, Fresh} /\ (shared.exists => shared' = shared)
          /\ driver' \in {driver, "loaded", "unloaded"}
      BY <2>5 DEF OpenFails
    <3> QED
      BY <2>1, <3>1, <3>2, SharedFacts DEF RunningInv
  <2>6. CASE StoreContext(t)
    <3>1. driver # "running" /\ driver' = driver /\ shared' = shared
      BY <1>0, <2>6, PreparingIsCurrent
         DEF StoreContext, RunningInv, Holding, BeforeBarrier, Preparing
    <3> QED
      BY <2>1, <3>1 DEF RunningInv
  <2>7. CASE StartFails(t)
    BY <2>7 DEF StartFails
  <2>8. CASE RegisterFirst(t)
    <3>1. driver # "running" /\ driver' = driver
      BY <1>0, <2>8, PreparingIsCurrent
         DEF RegisterFirst, RunningInv, Holding, BeforeBarrier, Preparing
    <3>2. shared'.active = shared.active /\ shared'.exists
      BY <1>0, <2>8 DEF RegisterFirst, SharedStates
    <3> QED
      BY <2>1, <3>1, <3>2 DEF RunningInv
  <2>9. CASE RegisterSecond(t)
    <3>1. t = Cur(t.side)
      BY <2>9, PreparingIsCurrent DEF RegisterSecond, BeforeBarrier, Preparing
    <3>2. pc[Cur(Other[t.side])] \in Holding
      BY <1>0, <2>9 DEF RegisterSecond, RegisteredInv
    <3>3. \A d \in Sides : pc'[Cur(d)] \in Holding
      BY <1>0, <2>2, <2>9, <3>1, <3>2 DEF RegisterSecond, Go, TypeOK, Holding
    <3>4. /\ shared'.exists /\ shared'.started /\ ~shared'.failed /\ shared'.registered = {}
          /\ shared'.active = 2
      BY <2>9, SharedFacts DEF RegisterSecond, SharedStates
    <3>5. driver # "running" /\ driver' = "running" /\ ~crashed'
      BY <1>0, <2>9, <3>1 DEF RegisterSecond, RunningInv, Holding
    <3> QED
      BY <2>1, <2>3, <3>3, <3>4, <3>5 DEF RunningInv
  <2>10. CASE RegisterFails(t)
    <3>1. driver # "running" /\ driver' # "running"
      BY <1>0, <2>10, PreparingIsCurrent
         DEF RegisterFails, RunningInv, Holding, BeforeBarrier, Preparing
    <3>2. shared'.active = shared.active /\ shared'.exists
      BY <1>0, <2>10 DEF RegisterFails, SharedStates
    <3> QED
      BY <2>1, <3>1, <3>2 DEF RunningInv
  <2>11. CASE Wake(t)
    <3>1. UNCHANGED <<shared, driver, crashed>> /\ pc'[t] \in {"ready", "failed"}
          /\ (~shared.failed => pc'[t] = "ready")
      BY <2>11 DEF Wake, Fail, Go, TypeOK
    <3> QED
      BY <1>0, <2>1, <2>2, <2>3, <3>1 DEF RunningInv, Holding
  <2>12. CASE Panic(t)
    BY <1>0, <2>1, <2>12 DEF Panic, RunningInv
  <2>13. CASE TakeRateChange(t)
    <3>1. UNCHANGED <<shared, driver, crashed>> /\ pc'[t] = "release"
      BY <2>13 DEF TakeRateChange, Go, TypeOK
    <3> QED
      BY <1>0, <2>1, <2>2, <2>3, <3>1 DEF RunningInv, Holding
  <2>14. CASE EndStream(t)
    <3>1. UNCHANGED <<shared, driver, crashed>> /\ pc'[t] = "release"
      BY <2>14 DEF EndStream, Go, TypeOK
    <3> QED
      BY <1>0, <2>1, <2>2, <2>3, <3>1 DEF RunningInv, Holding
  <2>15. CASE ReleaseShared(t)
    <3>1. CASE ~shared.exists
      BY <1>0, <2>1, <2>15, <3>1 DEF ReleaseShared, RunningInv
    <3>2. CASE shared.exists /\ shared.active = 2
      <4>1. /\ driver' = "stopped" /\ callback = Null
            /\ shared' = [shared EXCEPT !.active = 1]
        BY <2>15, <3>2 DEF ReleaseShared
      <4>2. shared'.active = 1 /\ shared'.exists
        BY <1>0, <3>2, <4>1 DEF SharedStates
      <4> QED
        BY <2>1, <4>1, <4>2 DEF RunningInv
    <3>3. CASE shared.exists /\ shared.active # 2
      <4>1. shared.active \in {0, 1}
        BY <1>0, <3>3 DEF SharedStates
      <4>2. driver' = "unloaded" /\ shared' = None
        BY <2>15, <3>3, <4>1 DEF ReleaseShared
      <4> QED
        BY <2>1, <3>3, <4>2, SharedFacts DEF RunningInv
    <3> QED
      BY <3>1, <3>2, <3>3
  <2>16. CASE ReleaseSingle(t)
    BY <2>16 DEF ReleaseSingle
  <2>17. CASE Free(t)
    <3>1. UNCHANGED <<shared, driver, crashed>> /\ pc[t] = "free"
      BY <2>17 DEF Free
    <3> QED
      BY <1>0, <2>1, <2>2, <2>3, <3>1 DEF RunningInv, Holding
  <2> QED
    BY <1>1, <2>4, <2>5, <2>6, <2>7, <2>8, <2>9, <2>10, <2>11, <2>12, <2>13, <2>14, <2>15,
       <2>16, <2>17 DEF Thread
<1>2. CASE PassBarrier
  <2>1. \A t \in Threads : pc'[t] =
          CASE t.session = current /\ pc[t] = "ready"  -> "streaming"
            [] t.session = current /\ pc[t] \in {"unopened", "failed"} -> "none"
            [] OTHER -> pc[t]
    BY <1>2 DEF PassBarrier
  <2>2. /\ UNCHANGED <<current, shared, driver, crashed, callback>>
        /\ \A d \in Sides : Cur(d)' = Cur(d)
        /\ Of(current)' = Of(current)
    BY <1>2 DEF PassBarrier, Cur, Of
  <2>3. \A t \in Threads : t.session = current =>
          pc'[t] = IF pc[t] = "ready" THEN "streaming"
                   ELSE IF pc[t] \in {"unopened", "failed"} THEN "none" ELSE pc[t]
    BY <2>1
  <2> QED
    BY <1>0, <2>2, <2>3 DEF RunningInv, Holding
<1>3. CASE NextSession
  <2>1. \E d \in Sides : pc[Cur(d)] = "none"
    <3>1. atFault \in Sides \cup {"none"}
      BY DEF TypeOK
    <3>2. \E d \in Sides : d \in Joined
      BY <3>1 DEF Joined, Sides, Other
    <3> QED
      BY <1>0, <1>3, <3>2 DEF NextSession, Of
  <2>2. driver # "running" /\ UNCHANGED <<shared, driver, crashed, callback>>
    BY <1>3, <2>1 DEF NextSession, RunningInv, Holding
  <2> QED
    BY <2>2 DEF RunningInv
<1>4. CASE RateChanged
  BY <1>4 DEF RateChanged, RunningInv, Cur, Of
<1>5. ASSUME NEW d \in Sides, BeginCallback(d) PROVE RunningInv'
  <2>1. /\ UNCHANGED <<current, shared, driver, crashed, pc>> /\ driver = "running"
        /\ context[d] # Null /\ callback' = context[d]
        /\ \A e \in Sides : Cur(e)' = Cur(e)
        /\ Of(current)' = Of(current)
    BY <1>5 DEF BeginCallback, Cur, Of
  <2>2. callback' = Cur(d)
    BY <2>1 DEF RunningInv, ContextInv
  <2> QED
    BY <1>0, <2>1, <2>2 DEF RunningInv, Of
<1>6. CASE EndCallback
  BY <1>6 DEF EndCallback, RunningInv, Cur, Of
<1>7. CASE UNCHANGED vars
  BY <1>7 DEF vars, RunningInv, Cur, Of
<1> QED
  BY <1>1, <1>2, <1>3, <1>4, <1>5, <1>6, <1>7 DEF Next

\* A registration stands until the start, a failure, or the end of the driver.
LEMMA RegisteredPreserved == DuplexInv /\ [Next]_vars => RegisteredInv'
<1> SUFFICES ASSUME DuplexInv, [Next]_vars PROVE RegisteredInv'
  OBVIOUS
<1> USE DEF DuplexInv
<1>0. /\ \A d \in Sides : Cur(d) \in Threads /\ Cur(d).session = current /\ Cur(d).side = d
      /\ \A t \in Threads : t.side \in Sides /\ (t.session = current => t = Cur(t.side))
      /\ Null \notin Threads
      /\ current \in Nat
      /\ \A d \in Sides : Other[d] \in Sides /\ Other[d] # d /\ Other[Other[d]] = d
                          /\ d # "none"
      /\ \A d, e \in Sides : e = d \/ e = Other[d]
      /\ shared \in SharedStates
  BY CurrentFacts
<1>1. ASSUME NEW t \in Threads, Thread(t) \/ EndStream(t) PROVE RegisteredInv'
  <2>1. /\ UNCHANGED <<current, sides, callback>>
        /\ pc' = [pc EXCEPT ![t] = pc'[t]]
        /\ Goes(t) /\ Blames(t)
    BY <1>1, ThreadStep
  <2>2. \A u \in Threads : pc'[u] = IF u = t THEN pc'[t] ELSE pc[u]
    BY <2>1 DEF TypeOK
  <2>3. \A d \in Sides : Cur(d)' = Cur(d)
    BY <2>1 DEF Cur
  <2>f. shared'.failed => shared'.registered = {}
    <3>0. [shared EXCEPT !.registered = {}, !.failed = TRUE].registered = {}
      BY <1>0, FailureRecorded
    <3> USE <1>0 DEF RegisteredInv, SharedStates
    <3>1. CASE shared' = shared \/ shared' \in {None, Fresh}
      BY <3>1, SharedFacts
    <3>2. CASE RegisterFirst(t)
      BY <3>2 DEF RegisterFirst
    <3>3. CASE RegisterSecond(t)
      BY <3>3, SharedFacts DEF RegisterSecond
    <3>4. CASE RegisterFails(t)
      BY <3>0, <3>4 DEF RegisterFails
    <3>5. CASE ReleaseShared(t)
      BY <3>5, SharedFacts DEF ReleaseShared
    <3> QED
      BY <1>1, <3>1, <3>2, <3>3, <3>4, <3>5
         DEF Thread, Open, OpenFails, StoreContext, StartFails, Wake, Panic, TakeRateChange,
             ReleaseSingle, Free, EndStream
  <2> SUFFICES ASSUME NEW d \in Sides
               PROVE  LET me == pc'[Cur(d)]  other == pc'[Cur(Other[d])] IN
                      /\ d \in shared'.registered =>
                           /\ me \in Holding
                           /\ \/ other \in Preparing
                              \/ other \in {"unopened", "failed", "none"} /\ atFault' = Other[d]
                              \/ /\ me = "waiting" /\ other \in {"waiting", "ready"}
                                 /\ ~shared'.started /\ ~shared'.failed
                      /\ me \in {"waiting", "ready"} /\ other \in Preparing =>
                           d \in shared'.registered \/ (~shared'.started /\ ~shared'.failed)
    BY <1>0, <2>3, <2>f DEF RegisteredInv
  <2>4. CASE Open(t)
    <3>1. t.session = current /\ pc'[t] = "store" /\ pc[t] = "open" /\ atFault' = atFault
      BY <2>4, PreparingIsCurrent DEF Open, Go, TypeOK, BeforeBarrier, Preparing
    <3>2. CASE shared.exists
      <4>1. shared' = shared
        BY <2>4, <3>2 DEF Open
      <4> QED
        BY <1>0, <2>2, <3>1, <4>1 DEF RegisteredInv, Holding, Preparing
    <3>3. CASE ~shared.exists
      BY <1>0, <2>2, <2>4, <3>1, <3>3, SharedFacts DEF Open
    <3> QED
      BY <3>2, <3>3
  <2>5. CASE OpenFails(t)
    <3>1. t = Cur(t.side) /\ pc'[t] = "unopened" /\ pc[t] = "open"
      BY <2>5, PreparingIsCurrent DEF OpenFails, Fail, Go, TypeOK, BeforeBarrier, Preparing
    <3>2. atFault' = IF atFault = "none" THEN t.side ELSE atFault
      BY <1>0, <2>5, <3>1 DEF OpenFails, Fail, Reported
    <3>3. /\ shared' = shared \/ (shared'.registered = {} /\ ~shared'.started /\ ~shared'.failed)
      BY <2>5, SharedFacts DEF OpenFails
    <3>4. atFault \in Sides \cup {"none"}
      BY DEF TypeOK
    <3> QED
      BY <1>0, <2>2, <3>1, <3>2, <3>3, <3>4
         DEF RegisteredInv, FaultInv, PlaceInv, Holding, BeforeBarrier, Preparing
  <2>6. CASE StoreContext(t)
    <3>1. /\ t = Cur(t.side) /\ pc'[t] = "register" /\ pc[t] = "store"
          /\ UNCHANGED <<shared, atFault>>
      BY <2>6, PreparingIsCurrent DEF StoreContext, Go, TypeOK, BeforeBarrier, Preparing
    <3> QED
      BY <1>0, <2>2, <3>1 DEF RegisteredInv, Holding, Preparing
  <2>7. CASE StartFails(t)
    BY <2>7 DEF StartFails
  <2>8. CASE RegisterFirst(t)
    <3>1. /\ t = Cur(t.side) /\ pc'[t] = "waiting" /\ pc[t] = "register"
          /\ atFault' = atFault /\ ~crashed
          /\ Other[t.side] \notin shared.registered
      BY <2>8, PreparingIsCurrent DEF RegisterFirst, Go, TypeOK, BeforeBarrier, Preparing
    <3>2. /\ shared'.registered = shared.registered \cup {t.side}
          /\ shared'.started = shared.started /\ shared'.failed = shared.failed
      BY <1>0, <2>8 DEF RegisterFirst, SharedStates
    <3>3. t.side \in Sides /\ Cur(Other[t.side]) \in Threads /\ Cur(Other[t.side]) # t
      BY <1>0, <3>1
    <3>4. pc[Cur(Other[t.side])] \in BeforeBarrier \cup {"none"}
      BY <1>0, <3>1, <3>3 DEF PlaceInv, BeforeBarrier, Preparing, TypeOK, Locations
    <3>5. pc[Cur(Other[t.side])] # "none"
      BY <1>0, <3>1, <3>3 DEF FaultInv, BeforeBarrier, Preparing
    <3>6. pc[Cur(Other[t.side])] \in {"unopened", "failed"} => atFault = Other[t.side]
      <4>1. atFault # t.side /\ atFault \in Sides \cup {"none"}
        BY <1>0, <3>1 DEF FaultInv, Preparing, TypeOK
      <4> QED
        BY <1>0, <3>3, <4>1 DEF FaultInv
    <3>7. pc[Cur(Other[t.side])] \in {"waiting", "ready"} => ~shared.started /\ ~shared.failed
      BY <1>0, <3>1, <3>3 DEF RegisteredInv, Preparing
    <3>8. CASE d = t.side
      BY <1>0, <2>2, <3>1, <3>2, <3>3, <3>4, <3>5, <3>6, <3>7, <3>8
         DEF Holding, BeforeBarrier, Preparing
    <3>9. CASE d = Other[t.side]
      BY <1>0, <2>2, <3>1, <3>2, <3>3, <3>9 DEF Holding, Preparing
    <3> QED
      BY <1>0, <3>8, <3>9
  <2>9. CASE RegisterSecond(t)
    <3>1. /\ t = Cur(t.side) /\ pc'[t] = "ready" /\ shared'.registered = {}
      BY <2>9, SharedFacts, PreparingIsCurrent
         DEF RegisterSecond, Go, TypeOK, BeforeBarrier, Preparing, SharedStates
    <3>2. pc[Cur(Other[t.side])] \in Holding
      BY <1>0, <2>9 DEF RegisterSecond, RegisteredInv
    <3> QED
      BY <1>0, <2>2, <3>1, <3>2 DEF Holding, Preparing
  <2>10. CASE RegisterFails(t)
    <3>1. /\ t = Cur(t.side) /\ pc'[t] = "failed" /\ pc[t] = "register"
      BY <2>10, PreparingIsCurrent
         DEF RegisterFails, Fail, Go, TypeOK, BeforeBarrier, Preparing
    <3>2. atFault' = IF atFault = "none" THEN t.side ELSE atFault
      BY <1>0, <2>10, <3>1 DEF RegisterFails, Fail, Reported
    <3>3. \/ shared' = shared /\ shared.failed
          \/ shared'.registered = {} /\ Other[t.side] \in shared.registered
      BY <1>0, <2>10, FailureRecorded DEF RegisterFails
    <3>4. atFault \in Sides \cup {"none"}
      BY DEF TypeOK
    <3>5. CASE shared' = shared /\ shared.failed
      BY <1>0, <2>2, <3>1, <3>5 DEF RegisteredInv, Preparing
    <3>6. CASE shared'.registered = {} /\ Other[t.side] \in shared.registered
      <4>2. pc[Cur(Other[t.side])] \in Holding
        BY <1>0, <3>6 DEF RegisteredInv
      <4> QED
        BY <1>0, <2>2, <3>1, <3>6, <4>2 DEF Holding, Preparing
    <3> QED
      BY <3>3, <3>5, <3>6
  <2>11. CASE Wake(t)
    <3>1. /\ t = Cur(t.side) /\ pc[t] = "waiting" /\ shared' = shared
          /\ shared.started \/ shared.failed
          /\ pc'[t] = IF shared.failed THEN "failed" ELSE "ready"
      BY <2>11, PreparingIsCurrent DEF Wake, Fail, Go, TypeOK, BeforeBarrier, Preparing
    <3>2. ~shared.failed => atFault' = atFault
      BY <2>11 DEF Wake
    <3>3. shared.failed => shared.registered = {}
      BY DEF RegisteredInv
    <3> QED
      BY <1>0, <2>2, <3>1, <3>2, <3>3 DEF RegisteredInv, Holding, Preparing
  <2>12. CASE Panic(t)
    <3>1. shared' = shared /\ shared.registered = {} /\ ~shared.started /\ ~shared.failed
      BY <2>12, SharedFacts DEF Panic, RunningInv
    <3> QED
      BY <3>1
  <2>13. CASE TakeRateChange(t) \/ EndStream(t)
    <3>1. /\ t = Cur(t.side) /\ pc[t] = "streaming" /\ pc'[t] = "release" /\ shared' = shared
      BY <2>13, PreparingIsCurrent DEF TakeRateChange, EndStream, Go, TypeOK, BeforeBarrier, Preparing
    <3>2. atFault' = atFault \/ (atFault = "none" /\ atFault' = t.side)
      BY <2>13 DEF TakeRateChange, EndStream, Reported
    <3>3. \A e \in Sides : pc[Cur(e)] \notin BeforeBarrier
      BY <1>0, <3>1 DEF PlaceInv
    <3> QED
      BY <1>0, <2>2, <3>1, <3>2, <3>3
         DEF RegisteredInv, Holding, Preparing, BeforeBarrier
  <2>15. CASE ReleaseShared(t)
    <3>1. CASE ~shared.exists
      BY <1>0, <2>15, <3>1, SharedFacts DEF ReleaseShared, RunningInv
    <3>2. CASE shared.exists /\ shared.active = 2
      <4>1. shared' = [shared EXCEPT !.active = 1]
        BY <2>15, <3>2 DEF ReleaseShared
      <4>2. shared'.registered = {}
        BY <1>0, <3>2, <4>1 DEF SharedStates, RunningInv
      <4>3. \A e \in Sides : pc[Cur(e)] \in Holding
        BY <3>2 DEF RunningInv
      <4>4. pc'[t] = "free"
        BY <2>15 DEF ReleaseShared, Go, TypeOK
      <4> QED
        BY <1>0, <2>2, <4>2, <4>3, <4>4 DEF Holding, Preparing
    <3>3. CASE shared.exists /\ shared.active # 2
      <4>1. shared.active \in {0, 1}
        BY <1>0, <3>3 DEF SharedStates
      <4>2. shared' = None
        BY <2>15, <3>3, <4>1 DEF ReleaseShared
      <4> QED
        BY <4>2, SharedFacts
    <3> QED
      BY <3>1, <3>2, <3>3
  <2>16. CASE ReleaseSingle(t)
    BY <2>16 DEF ReleaseSingle
  <2>17. CASE Free(t)
    <3>1. UNCHANGED <<shared, atFault>> /\ pc[t] = "free" /\ pc'[t] = "none"
      BY <2>17 DEF Free, Go, TypeOK
    <3>2. t.session = current => \A e \in Sides : pc[Cur(e)] \notin BeforeBarrier
      BY <1>0, <3>1 DEF PlaceInv
    <3> QED
      BY <1>0, <2>2, <3>1, <3>2 DEF RegisteredInv, Holding, Preparing, BeforeBarrier
  <2> QED
    BY <1>1, <2>4, <2>5, <2>6, <2>7, <2>8, <2>9, <2>10, <2>11, <2>12, <2>13, <2>15,
       <2>16, <2>17 DEF Thread
<1>2. CASE PassBarrier
  <2>1. \A t \in Threads : pc'[t] =
          CASE t.session = current /\ pc[t] = "ready"  -> "streaming"
            [] t.session = current /\ pc[t] \in {"unopened", "failed"} -> "none"
            [] OTHER -> pc[t]
    BY <1>2 DEF PassBarrier
  <2>2. /\ UNCHANGED <<current, shared, atFault>>
        /\ \A d \in Sides : Cur(d)' = Cur(d)
    BY <1>2 DEF PassBarrier, Cur
  <2>3. \A t \in Threads : t.session = current =>
          pc'[t] = IF pc[t] = "ready" THEN "streaming"
                   ELSE IF pc[t] \in {"unopened", "failed"} THEN "none" ELSE pc[t]
    BY <2>1
  <2>4. \A d \in Sides : pc[Cur(d)] \in {"ready", "unopened", "failed"}
    BY <1>0, <1>2 DEF PassBarrier, Of, Duplex
  <2> QED
    BY <1>0, <2>2, <2>3, <2>4 DEF RegisteredInv, Holding, Preparing
<1>3. CASE NextSession
  <2>1. shared.registered = {}
    <3> SUFFICES ASSUME NEW d \in Sides, d \in shared.registered PROVE FALSE
      BY <1>0 DEF SharedStates
    <3>1. pc[Cur(d)] = "release"
      BY <1>0, <1>3 DEF NextSession, Of, RegisteredInv, Holding
    <3>2. atFault = Other[d]
      BY <1>0, <1>3, <3>1 DEF NextSession, Of, RegisteredInv, Preparing
    <3>3. d \in Joined
      BY <1>0, <3>2 DEF Joined
    <3> QED
      BY <1>0, <1>3, <3>1, <3>3 DEF NextSession, Of
  <2>2. /\ current' = current + 1 /\ shared' = shared
        /\ \A t \in Threads : pc'[t] = IF t.session = current + 1 /\ t.side \in sides
                                       THEN "open" ELSE pc[t]
    BY <1>3 DEF NextSession
  <2>3. \A d \in Sides : Cur(d)' \in Threads /\ Cur(d)'.session = current + 1
                         /\ Cur(d)'.side = d
    BY <1>3, <2>2 DEF NextSession, Cur, Threads
  <2>4. \A d \in Sides : pc'[Cur(d)'] \in {"open", "none"}
    BY <1>0, <2>2, <2>3 DEF PlaceInv
  <2> QED
    BY <2>1, <2>2, <2>4 DEF RegisteredInv
<1>4. CASE RateChanged
  BY <1>4 DEF RateChanged, RegisteredInv, Cur
<1>5. ASSUME NEW d \in Sides, BeginCallback(d) PROVE RegisteredInv'
  BY <1>5 DEF BeginCallback, RegisteredInv, Cur
<1>6. CASE EndCallback
  BY <1>6 DEF EndCallback, RegisteredInv, Cur
<1>7. CASE UNCHANGED vars
  BY <1>7 DEF vars, RegisteredInv, Cur
<1> QED
  BY <1>1, <1>2, <1>3, <1>4, <1>5, <1>6, <1>7 DEF Next

-----------------------------------------------------------------------------
\* ---------------------------- A single direction -------------------------

\* The pointer never names a thread that has released the driver.
LEMMA SinglePreserved ==
  TypeOK /\ PlaceInv /\ ContextInv /\ ~Duplex /\ SingleInv /\ [Next]_vars => SingleInv'
<1> SUFFICES ASSUME TypeOK, PlaceInv, ContextInv, ~Duplex, SingleInv, [Next]_vars
             PROVE  SingleInv'
  OBVIOUS
<1> DEFINE Using == {"ready", "streaming", "release"}
<1>0. /\ \A t \in Threads : t.side \in Sides
      /\ Null \notin Threads
      /\ \A d \in Sides : context[d] \in Threads \cup {Null}
      /\ callback \in Threads \cup {Null}
  BY CurrentFacts DEF TypeOK
<1>1. ASSUME NEW t \in Threads, Thread(t) \/ EndStream(t) PROVE SingleInv'
  <2>1. /\ pc' = [pc EXCEPT ![t] = pc'[t]] /\ callback' = callback
        /\ Goes(t)
    BY <1>1, ThreadStep
  <2>2. \A u \in Threads : pc'[u] = IF u = t THEN pc'[t] ELSE pc[u]
    BY <2>1 DEF TypeOK
  <2>3. pc[t] \notin {"register", "waiting"}
    BY DEF PlaceInv
  <2>4. CASE Open(t) \/ OpenFails(t) \/ StartFails(t)
    <3>1. pc[t] \in {"open", "store"} /\ (driver' = driver \/ driver' # "running")
          /\ \A d \in Sides : context'[d] \in {context[d], Null}
      BY <1>0, <2>4 DEF Open, OpenFails, StartFails, Fail, Duplex, TypeOK
    <3> QED
      BY <1>0, <2>1, <2>2, <3>1 DEF SingleInv
  <2>5. CASE StoreContext(t)
    <3>1. pc'[t] = "ready" /\ pc[t] = "store"
          /\ \A d \in Sides : context'[d] = IF d = t.side THEN t ELSE context[d]
      BY <1>0, <2>5 DEF StoreContext, Go, TypeOK
    <3> QED
      BY <1>0, <2>1, <2>2, <3>1 DEF SingleInv
  <2>6. CASE TakeRateChange(t) \/ EndStream(t)
    <3>1. pc[t] = "streaming" /\ pc'[t] = "release" /\ UNCHANGED <<context, driver>>
      BY <2>6 DEF TakeRateChange, EndStream, Go, TypeOK
    <3> QED
      BY <1>0, <2>1, <2>2, <3>1 DEF SingleInv
  <2>7. CASE ReleaseSingle(t)
    <3>1. /\ pc[t] = "release" /\ callback = Null /\ driver' = "unloaded"
          /\ \A d \in Sides : context'[d] = IF d = t.side THEN Null ELSE context[d]
      BY <1>0, <2>7 DEF ReleaseSingle, TypeOK
    <3>2. \A d \in Sides : context[d] = t => d = t.side
      BY <1>0 DEF ContextInv
    <3> QED
      BY <1>0, <2>1, <2>2, <3>1, <3>2 DEF SingleInv
  <2>8. CASE Free(t)
    <3>1. /\ pc[t] = "free" /\ driver' = driver
          /\ \A d \in Sides : context'[d] \in {context[d], Null}
      BY <1>0, <2>8 DEF Free, TypeOK
    <3> QED
      BY <1>0, <2>1, <2>2, <3>1 DEF SingleInv
  <2> QED
    BY <1>1, <2>3, <2>4, <2>5, <2>6, <2>7, <2>8
       DEF Thread, RegisterFirst, RegisterSecond, RegisterFails, Wake, Panic, ReleaseShared
<1>2. CASE PassBarrier
  <2>1. \A t \in Threads : pc'[t] =
          CASE t.session = current /\ pc[t] = "ready"  -> "streaming"
            [] t.session = current /\ pc[t] \in {"unopened", "failed"} -> "none"
            [] OTHER -> pc[t]
    BY <1>2 DEF PassBarrier
  <2>2. UNCHANGED <<context, driver, callback>>
    BY <1>2 DEF PassBarrier
  <2>3. \A t \in Threads : pc[t] \in Using => pc'[t] \in Using
    <3> SUFFICES ASSUME NEW t \in Threads, pc[t] \in Using PROVE pc'[t] \in Using
      OBVIOUS
    <3>1. CASE t.session = current /\ pc[t] = "ready"
      BY <2>1, <3>1
    <3>2. CASE ~(t.session = current /\ pc[t] = "ready")
      BY <2>1, <3>2
    <3> QED
      BY <3>1, <3>2
  <2> QED
    BY <1>0, <2>2, <2>3 DEF SingleInv
<1>3. CASE NextSession
  <2>1. /\ UNCHANGED <<context, driver, callback>>
        /\ \A t \in Threads : pc'[t] = IF t.session = current + 1 /\ t.side \in sides
                                       THEN "open" ELSE pc[t]
    BY <1>3 DEF NextSession
  <2>2. \A t \in Threads : pc[t] \in Using => pc'[t] = pc[t]
    BY <2>1, CurrentFacts DEF PlaceInv
  <2> QED
    BY <1>0, <2>1, <2>2 DEF SingleInv
<1>4. CASE RateChanged
  BY <1>4 DEF RateChanged, SingleInv
<1>5. ASSUME NEW d \in Sides, BeginCallback(d) PROVE SingleInv'
  BY <1>5 DEF BeginCallback, SingleInv
<1>6. CASE EndCallback
  BY <1>6 DEF EndCallback, SingleInv
<1>7. CASE UNCHANGED vars
  BY <1>7 DEF vars, SingleInv
<1> QED
  BY <1>1, <1>2, <1>3, <1>4, <1>5, <1>6, <1>7 DEF Next

-----------------------------------------------------------------------------
\* --------------------------- The whole invariant -------------------------

\* The direction a process has its ASIO devices in never changes.
LEMMA SidesStay == [Next]_vars => UNCHANGED sides
BY DEF Next, Thread, vars, Open, OpenFails, StoreContext, StartFails, RegisterFirst,
       RegisterSecond, RegisterFails, Wake, Panic, TakeRateChange, ReleaseShared,
       ReleaseSingle, Free, EndStream, PassBarrier, RateChanged, NextSession,
       BeginCallback, EndCallback

LEMMA InitDriver == Init => TypeOK /\ DriverInv
<1> SUFFICES ASSUME Init PROVE TypeOK /\ DriverInv
  OBVIOUS
<1>1. TypeOK
  <2>1. pc \in [Threads -> Locations]
    BY DEF Init, Locations
  <2>2. shared \in SharedStates
    BY SharedFacts DEF Init
  <2>3. current \in Sessions
    BY AsioAssumption DEF Init, Sessions
  <2>4. rateFlag \in [Sides -> BOOLEAN] /\ context \in [Sides -> Threads \cup {Null}]
    BY DEF Init
  <2> QED
    BY <2>1, <2>2, <2>3, <2>4 DEF Init, TypeOK, SharedStates
<1>2. /\ \A t \in Threads : pc[t] \in {"open", "none"} /\ t.session \in Nat
      /\ \A t \in Threads : t.session # 1 \/ t.side \notin sides => pc[t] = "none"
      /\ \A d \in Sides : Duplex => pc[Cur(d)] = "open"
      /\ \A d \in Sides : Cur(d) \in Threads /\ pc[Cur(d)] \in {"open", "none"}
  <2>1. \A t \in Threads :
          pc[t] = IF t.session = 1 /\ t.side \in sides THEN "open" ELSE "none"
    BY DEF Init
  <2>2. current = 1
    BY DEF Init
  <2> QED
    BY <1>1, <2>1, <2>2, CurrentFacts DEF Duplex
<1>3. PlaceInv
  <2>1. current = 1 /\ \A t \in Threads : ~(t.session < current)
    BY <1>2, AsioAssumption DEF Init, Threads, Sessions
  <2> QED
    BY <1>2, <2>1 DEF PlaceInv, Holding, BeforeBarrier, Preparing
<1>4. ContextInv /\ FaultInv
  BY <1>2, SideFacts DEF Init, ContextInv, FaultInv, Holding
<1>5. RunningInv /\ RegisteredInv
  BY <1>2, SideFacts, SharedFacts DEF Init, RunningInv, RegisteredInv, Preparing
<1>6. SingleInv
  BY DEF Init, SingleInv
<1> QED
  BY <1>1, <1>3, <1>4, <1>5, <1>6 DEF DriverInv

LEMMA DriverInvariant == Spec => [](TypeOK /\ DriverInv)
<1>1. TypeOK /\ DriverInv /\ [Next]_vars => TypeOK' /\ DriverInv'
  <2> SUFFICES ASSUME TypeOK, DriverInv, [Next]_vars PROVE TypeOK' /\ DriverInv'
    OBVIOUS
  <2>1. TypeOK' /\ PlaceInv' /\ FaultInv' /\ ContextInv'
    BY TypePreserved, PlacePreserved, FaultPreserved, ContextPreserved DEF DriverInv
  <2>2. Duplex' <=> Duplex
    BY SidesStay DEF Duplex
  <2>3. Duplex => RunningInv' /\ RegisteredInv'
    BY RunningPreserved, RegisteredPreserved DEF DriverInv, DuplexInv
  <2>4. ~Duplex => SingleInv'
    BY SinglePreserved DEF DriverInv
  <2> QED
    BY <2>1, <2>2, <2>3, <2>4 DEF DriverInv
<1> QED
  BY <1>1, InitDriver, PTL DEF Spec

\* The context pointers, the driver and the threads keep their types, for any number of
\* sessions with one or two sides: a thread is always at one of its steps, and what the
\* driver calls back is a context of a side.
THEOREM AsioTypes == Spec => []TypeOK
BY DriverInvariant, PTL

\* No callback of the driver (buffer_switch_playback, buffer_switch_capture) uses a
\* context that its thread has freed, although the callbacks read the pointers without
\* a lock and the threads of two sessions may be cleaning up at once.
THEOREM CallbacksSafe == Spec => []CallbackIsSafe
<1>1. TypeOK /\ DriverInv => CallbackIsSafe
  <2> SUFFICES ASSUME TypeOK, DriverInv, callback # Null PROVE callback \in allocated
    BY DEF CallbackIsSafe
  <2>1. callback \in Threads
    BY DEF TypeOK
  <2>2. pc[callback] \in Holding
    <3>1. CASE Duplex
      <4>1. callback = Cur(callback.side) /\ callback.side \in Sides
        BY <2>1, <3>1, CurrentFacts DEF DriverInv, RunningInv, Of
      <4> QED
        BY <3>1, <4>1 DEF DriverInv, RunningInv
    <3>2. CASE ~Duplex
      BY <3>2 DEF DriverInv, SingleInv, Holding
    <3> QED
      BY <3>1, <3>2
  <2> QED
    BY <2>1, <2>2 DEF DriverInv, PlaceInv
<1> QED
  BY <1>1, DriverInvariant, PTL

\* Whenever the stream is running there is a thread that is going to stop it, or that
\* waits for its session to begin.
THEOREM StreamOwned == Spec => []StreamIsOwned
<1>1. TypeOK /\ DriverInv => StreamIsOwned
  <2> SUFFICES ASSUME TypeOK, DriverInv, driver = "running"
               PROVE  \E t \in Threads : pc[t] \in Holding
    BY DEF StreamIsOwned, Holding
  <2>1. CASE Duplex
    <3>1. "playback" \in Sides
      BY DEF Sides
    <3> QED
      BY <2>1, <3>1, CurrentFacts DEF DriverInv, RunningInv
  <2>2. CASE ~Duplex
    BY <2>2 DEF DriverInv, SingleInv, Holding
  <2> QED
    BY <2>1, <2>2
<1> QED
  BY <1>1, DriverInvariant, PTL

-----------------------------------------------------------------------------
\* ----------------- A session that overlaps no other one ------------------

\* What a release does to the count of active sides, the stream and the pointers.
LEMMA ReleaseEffect ==
  ASSUME DuplexInv, NEW t \in Threads, ReleaseShared(t), shared.exists
  PROVE  /\ UNCHANGED wired
         /\ \/ /\ shared.active = 2 /\ shared'.active = 1
               /\ shared'.started = shared.started /\ shared'.failed = shared.failed
            \/ shared.active # 2 /\ shared' = None /\ UNCHANGED context
<1>0. shared \in SharedStates
  BY CurrentFacts DEF DuplexInv
<1>1. CASE shared.active = 2
  <2>1. shared' = [shared EXCEPT !.active = 1]
    BY <1>1 DEF ReleaseShared
  <2> QED
    BY <1>0, <1>1, <2>1 DEF ReleaseShared, SharedStates
<1>2. CASE shared.active # 2
  <2>1. shared.active \in {0, 1}
    BY <1>0, <1>2 DEF SharedStates
  <2> QED
    BY <1>2, <2>1 DEF ReleaseShared
<1> QED
  BY <1>1, <1>2

\* In full duplex the stream of such a session is its own.
LEMMA OwnStreamPreserved ==
  ASSUME DuplexInv, ~overlapped', OwnInv, [Next]_vars PROVE OwnStreamInv'
<1> USE DEF DuplexInv
<1>0. /\ \A d \in Sides : Cur(d) \in Threads /\ Cur(d).session = current /\ Cur(d).side = d
      /\ \A t \in Threads : t.side \in Sides /\ (t.session = current => t = Cur(t.side))
      /\ Null \notin Threads
      /\ current \in Nat /\ \A t \in Threads : t.session \in Nat
      /\ \A d \in Sides : Other[d] \in Sides /\ Other[d] # d /\ Other[Other[d]] = d
                          /\ d # "none"
      /\ \A d, e \in Sides : e = d \/ e = Other[d]
      /\ shared \in SharedStates
  BY CurrentFacts
<1>1. ASSUME NEW t \in Threads, Thread(t) \/ EndStream(t) PROVE OwnStreamInv'
  <2>1. /\ UNCHANGED <<current, sides, overlapped, callback>>
        /\ pc' = [pc EXCEPT ![t] = pc'[t]]
        /\ Goes(t)
    BY <1>1, ThreadStep
  <2>2. \A u \in Threads : pc'[u] = IF u = t THEN pc'[t] ELSE pc[u]
    BY <2>1 DEF TypeOK
  <2>3. \A d \in Sides : Cur(d)' = Cur(d)
    BY <2>1 DEF Cur
  <2>4. OwnStreamInv /\ \A u \in Threads : u.session < current => pc[u] = "none"
    BY <2>1 DEF OwnInv
  <2>5. t = Cur(t.side) /\ t.side \in Sides
    <3>1. pc[t] # "none"
      BY <2>1 DEF Goes
    <3> QED
      BY <1>0, <2>4, <3>1 DEF PlaceInv
  <2>6. pc[t] \in Preparing => ~shared.started
    BY <1>0, <2>4, <2>5 DEF OwnStreamInv, Streams, OneHasStopped, RunningInv, Holding, PlaceInv,
                            Preparing, BeforeBarrier
  <2>7. CASE Open(t) \/ OpenFails(t)
    <3>1. /\ pc[t] = "open" /\ pc'[t] \in {"store", "unopened"}
          /\ \A d \in Sides : context'[d] \in {context[d], Null}
          /\ \A d \in Sides : d # t.side => context'[d] = context[d]
          /\ shared' \in {shared, Fresh}
      BY <1>0, <2>5, <2>7 DEF Open, OpenFails, Fail, Go, TypeOK
    <3> QED
      BY <1>0, <2>2, <2>3, <2>4, <2>5, <2>6, <3>1, SharedFacts DEF OwnStreamInv, Preparing
  <2>8. CASE StoreContext(t)
    <3>1. /\ pc[t] = "store" /\ pc'[t] = "register" /\ shared' = shared
          /\ context'[t.side] = t
          /\ \A d \in Sides : d # t.side => context'[d] = context[d]
      BY <2>5, <2>8 DEF StoreContext, Go, TypeOK
    <3> QED
      BY <1>0, <2>2, <2>3, <2>4, <2>5, <2>6, <3>1 DEF OwnStreamInv, Preparing
  <2>9. CASE StartFails(t)
    BY <2>9 DEF StartFails
  <2>10. CASE RegisterFirst(t)
    <3>1. /\ pc[t] = "register" /\ pc'[t] = "waiting" /\ UNCHANGED context
          /\ shared'.started = shared.started
      BY <1>0, <2>10 DEF RegisterFirst, Go, TypeOK, SharedStates
    <3> QED
      BY <1>0, <2>2, <2>3, <2>4, <2>5, <2>6, <3>1 DEF OwnStreamInv, Preparing
  <2>11. CASE RegisterSecond(t)
    <3>1. /\ pc[t] = "register" /\ pc'[t] = "ready" /\ UNCHANGED context
          /\ driver' = "running" /\ Other[t.side] \in shared.registered
          /\ wired' = wired \cup ({context[d] : d \in Sides} \ {Null})
      BY <2>11 DEF RegisterSecond, Go, TypeOK
    <3>2. shared'.started
      BY <2>11, SharedFacts DEF RegisterSecond, SharedStates
    <3>3. pc[Cur(Other[t.side])] \in {"waiting", "ready"}
      BY <1>0, <2>5, <3>1 DEF RegisteredInv, PlaceInv, Holding, BeforeBarrier, Preparing
    <3>4. \A d \in Sides : context[d] = Cur(d)
      BY <1>0, <2>4, <2>5, <3>1, <3>3 DEF OwnStreamInv
    <3>5. \A d \in Sides : Cur(d) \in wired'
      BY <1>0, <3>1, <3>4
    <3> QED
      BY <1>0, <2>2, <2>3, <2>4, <3>1, <3>2, <3>4, <3>5 DEF OwnStreamInv, Streams
  <2>12. CASE RegisterFails(t)
    <3>1. /\ pc[t] = "register" /\ pc'[t] = "failed"
          /\ \A d \in Sides : d # t.side => context'[d] = context[d]
      BY <2>5, <2>12 DEF RegisterFails, Fail, Go, TypeOK
    <3>2. shared'.started = shared.started
      BY <1>0, <2>12, FailureRecorded DEF RegisterFails
    <3> QED
      BY <1>0, <2>2, <2>3, <2>4, <2>5, <2>6, <3>1, <3>2 DEF OwnStreamInv, Preparing
  <2>13. CASE Wake(t)
    <3>1. /\ pc[t] = "waiting" /\ (shared.started \/ shared.failed)
          /\ UNCHANGED <<shared, driver, wired>>
          /\ shared.failed => pc'[t] = "failed"
          /\ ~shared.failed => pc'[t] = "ready" /\ UNCHANGED context
          /\ \A d \in Sides : d # t.side => context'[d] = context[d]
      BY <2>5, <2>13 DEF Wake, Fail, Go, TypeOK
    <3>2. ~OneHasStopped
      BY <1>0, <2>5, <3>1 DEF OneHasStopped, PlaceInv, BeforeBarrier, Preparing
    <3>3. shared.started => Streams /\ ~shared.failed
      BY <2>4, <3>2 DEF OwnStreamInv, Streams, RunningInv
    <3> QED
      BY <1>0, <2>2, <2>3, <2>4, <2>5, <3>1, <3>3 DEF OwnStreamInv, Streams
  <2>14. CASE Panic(t)
    <3>1. /\ pc'[t] = "none" /\ UNCHANGED <<shared, context>> /\ ~shared.started
      BY <2>14, SharedFacts DEF Panic, Go, TypeOK, RunningInv
    <3> QED
      BY <1>0, <2>2, <2>3, <2>4, <2>5, <3>1 DEF OwnStreamInv
  <2>15. CASE TakeRateChange(t) \/ EndStream(t)
    <3>1. /\ pc[t] = "streaming" /\ pc'[t] = "release"
          /\ UNCHANGED <<shared, context, driver, wired>>
      BY <2>15 DEF TakeRateChange, EndStream, Go, TypeOK
    <3> QED
      BY <1>0, <2>2, <2>3, <2>4, <2>5, <3>1 DEF OwnStreamInv, Streams, OneHasStopped
  <2>16. CASE ReleaseShared(t)
    <3>1. pc[t] = "release" /\ pc'[t] = "free"
      BY <2>16 DEF ReleaseShared, Go, TypeOK
    <3>2. shared.started /\ shared.exists
      BY <2>4, <2>5, <3>1, SharedFacts DEF OwnStreamInv, RunningInv
    <3>3. \A d \in Sides : pc[Cur(d)] \notin BeforeBarrier
      BY <2>5, <3>1 DEF PlaceInv
    <3>4. CASE shared.active = 2
      <4>1. shared'.active = 1 /\ shared'.started
        BY <2>16, <3>2, <3>4, ReleaseEffect
      <4>2. pc[Cur(Other[t.side])] \in {"streaming", "release"}
        BY <1>0, <2>5, <3>3, <3>4 DEF RunningInv, Holding, BeforeBarrier
      <4>3. OneHasStopped'
        BY <1>0, <2>2, <2>3, <2>5, <3>1, <4>1, <4>2 DEF OneHasStopped
      <4> QED
        BY <1>0, <2>2, <2>3, <2>5, <3>1, <3>3, <4>1, <4>3
           DEF OwnStreamInv, BeforeBarrier, Preparing
    <3>5. CASE shared.active # 2
      <4>1. shared' = None
        BY <2>16, <3>2, <3>5, ReleaseEffect
      <4>2. OneHasStopped
        BY <2>4, <3>2, <3>5 DEF OwnStreamInv, Streams, RunningInv
      <4>3. pc[Cur(Other[t.side])] \in {"free", "none"}
        BY <1>0, <2>5, <3>1, <4>2 DEF OneHasStopped
      <4> QED
        BY <1>0, <2>2, <2>3, <2>5, <3>1, <4>1, <4>3, SharedFacts DEF OwnStreamInv
    <3> QED
      BY <3>4, <3>5
  <2>17. CASE ReleaseSingle(t)
    BY <2>17 DEF ReleaseSingle
  <2>18. CASE Free(t)
    <3>1. pc[t] = "free" /\ pc'[t] = "none" /\ shared' = shared
      BY <2>18 DEF Free, Go, TypeOK
    <3>2. \A d \in Sides : pc[Cur(d)] \notin BeforeBarrier
      BY <2>5, <3>1 DEF PlaceInv
    <3>3. shared.started => OneHasStopped
      BY <2>4, <2>5, <3>1 DEF OwnStreamInv, Streams, RunningInv, Holding
    <3>4. OneHasStopped => OneHasStopped'
      BY <1>0, <2>2, <2>3, <2>5, <3>1 DEF OneHasStopped
    <3> QED
      BY <1>0, <2>2, <2>3, <2>4, <2>5, <3>1, <3>2, <3>3, <3>4
         DEF OwnStreamInv, BeforeBarrier, Preparing
  <2> QED
    BY <1>1, <2>7, <2>8, <2>9, <2>10, <2>11, <2>12, <2>13, <2>14, <2>15, <2>16, <2>17,
       <2>18 DEF Thread
<1>2. CASE PassBarrier
  <2>1. \A t \in Threads : pc'[t] =
          CASE t.session = current /\ pc[t] = "ready"  -> "streaming"
            [] t.session = current /\ pc[t] \in {"unopened", "failed"} -> "none"
            [] OTHER -> pc[t]
    BY <1>2 DEF PassBarrier
  <2>2. /\ UNCHANGED <<current, shared, driver, context, wired, overlapped>>
        /\ \A d \in Sides : Cur(d)' = Cur(d)
    BY <1>2 DEF PassBarrier, Cur
  <2>3. \A t \in Threads : t.session = current =>
          pc'[t] = IF pc[t] = "ready" THEN "streaming"
                   ELSE IF pc[t] \in {"unopened", "failed"} THEN "none" ELSE pc[t]
    BY <2>1
  <2>4. \A d \in Sides : pc[Cur(d)] \in {"ready", "unopened", "failed"}
    BY <1>0, <1>2 DEF PassBarrier, Of, Duplex
  <2>5. OwnStreamInv /\ ~OneHasStopped
    BY <1>0, <2>2, <2>4 DEF OwnInv, OneHasStopped
  <2> QED
    BY <1>0, <2>2, <2>3, <2>4, <2>5 DEF OwnStreamInv, Streams
<1>3. CASE NextSession
  <2>1. /\ ~overlapped /\ \A d \in Sides : pc[Cur(d)] = "none"
    BY <1>0, <1>3 DEF NextSession, Of
  <2>2. ~shared.started
    <3>1. "playback" \in Sides
      BY DEF Sides
    <3> QED
      BY <1>0, <2>1, <3>1 DEF OwnInv, OwnStreamInv, Streams, OneHasStopped, RunningInv, Holding
  <2>3. /\ current' = current + 1 /\ shared' = shared
        /\ \A t \in Threads : pc'[t] = IF t.session = current + 1 /\ t.side \in sides
                                       THEN "open" ELSE pc[t]
    BY <1>3 DEF NextSession
  <2>4. \A d \in Sides : Cur(d)' \in Threads /\ Cur(d)'.session = current + 1
                         /\ Cur(d)'.side = d
    BY <1>3, <2>3 DEF NextSession, Cur, Threads
  <2>5. \A d \in Sides : pc'[Cur(d)'] \in {"open", "none"}
    BY <1>0, <2>3, <2>4 DEF PlaceInv
  <2> QED
    BY <2>2, <2>3, <2>5 DEF OwnStreamInv
<1> USE DEF OwnInv, OwnStreamInv, Streams, OneHasStopped, Cur
<1>4. CASE RateChanged
  BY <1>4 DEF RateChanged
<1>5. ASSUME NEW d \in Sides, BeginCallback(d) PROVE OwnStreamInv'
  BY <1>5 DEF BeginCallback
<1>6. CASE EndCallback
  BY <1>6 DEF EndCallback
<1>7. CASE UNCHANGED vars
  BY <1>7 DEF vars
<1> QED
  BY <1>1, <1>2, <1>3, <1>4, <1>5, <1>6, <1>7 DEF Next

\* And so it is in a single direction.
LEMMA SingleOwnPreserved ==
  ASSUME TypeOK, PlaceInv, ContextInv, ~Duplex, ~overlapped', OwnInv, [Next]_vars
  PROVE  SingleOwnInv'
<1> DEFINE Using == {"ready", "streaming", "release"}
<1>0. /\ \A d \in Sides : Cur(d) \in Threads /\ Cur(d).session = current /\ Cur(d).side = d
      /\ \A t \in Threads : t.side \in Sides /\ (t.session = current => t = Cur(t.side))
      /\ current \in Nat /\ \A t \in Threads : t.session \in Nat
  BY CurrentFacts
<1>1. ASSUME NEW t \in Threads, Thread(t) \/ EndStream(t) PROVE SingleOwnInv'
  <2>1. /\ UNCHANGED <<current, overlapped, sides>>
        /\ pc' = [pc EXCEPT ![t] = pc'[t]]
        /\ Goes(t)
    BY <1>1, ThreadStep
  <2>2. \A u \in Threads : pc'[u] = IF u = t THEN pc'[t] ELSE pc[u]
    BY <2>1 DEF TypeOK
  <2>3. \A d \in Sides : Cur(d)' = Cur(d)
    BY <2>1 DEF Cur
  <2>4. SingleOwnInv /\ \A u \in Threads : u.session < current => pc[u] = "none"
    BY <2>1 DEF OwnInv
  <2>5. t = Cur(t.side) /\ t.side \in sides
    BY <1>0, <2>1, <2>4 DEF PlaceInv, Goes
  <2>6. \A d \in Sides : d # t.side => pc'[Cur(d)] = "none"
    <3>1. \A d \in Sides : d # t.side => d \notin sides
      <4>1. sides \subseteq Sides
        BY DEF TypeOK
      <4>2. ASSUME NEW d \in sides, d # t.side PROVE sides = Sides
        <5>1. \A e \in Sides : e = d \/ e = t.side
          BY <1>0, <4>1, <4>2 DEF Sides
        <5> QED
          BY <2>5, <4>1, <5>1
      <4> QED
        BY <4>2 DEF Duplex
    <3> QED
      BY <1>0, <2>2, <3>1 DEF PlaceInv
  <2>7. CASE StoreContext(t)
    <3>1. driver' = "running" /\ context'[t.side] = t /\ t \in wired'
      BY <2>5, <2>7 DEF StoreContext, TypeOK, Duplex
    <3> QED
      BY <1>0, <2>3, <2>5, <2>6, <3>1 DEF SingleOwnInv
  <2>8. CASE TakeRateChange(t) \/ EndStream(t)
    <3>1. pc[t] = "streaming" /\ UNCHANGED <<driver, context, wired>>
      BY <2>8 DEF TakeRateChange, EndStream
    <3> QED
      BY <1>0, <2>3, <2>4, <2>5, <2>6, <3>1 DEF SingleOwnInv
  <2>9. CASE pc'[t] \notin Using
    BY <1>0, <2>3, <2>5, <2>6, <2>9 DEF SingleOwnInv
  <2>10. pc[t] \notin {"register", "waiting"}
    BY DEF PlaceInv
  <2>11. Open(t) \/ OpenFails(t) \/ StartFails(t) \/ ReleaseSingle(t) \/ Free(t) =>
           pc'[t] \notin Using
    BY DEF Open, OpenFails, StartFails, ReleaseSingle, Free, Fail, Go, TypeOK
  <2> QED
    BY <1>1, <2>7, <2>8, <2>9, <2>10, <2>11
       DEF Thread, RegisterFirst, RegisterSecond, RegisterFails, Wake, Panic, ReleaseShared
<1>2. CASE PassBarrier
  <2>1. \A t \in Threads : pc'[t] =
          CASE t.session = current /\ pc[t] = "ready"  -> "streaming"
            [] t.session = current /\ pc[t] \in {"unopened", "failed"} -> "none"
            [] OTHER -> pc[t]
    BY <1>2 DEF PassBarrier
  <2>2. /\ UNCHANGED <<current, driver, context, wired, overlapped>>
        /\ \A d \in Sides : Cur(d)' = Cur(d)
    BY <1>2 DEF PassBarrier, Cur
  <2>3. \A t \in Threads : t.session = current =>
          pc'[t] = IF pc[t] = "ready" THEN "streaming"
                   ELSE IF pc[t] \in {"unopened", "failed"} THEN "none" ELSE pc[t]
    BY <2>1
  <2> QED
    BY <1>0, <2>2, <2>3 DEF OwnInv, SingleOwnInv
<1>3. CASE NextSession
  <2>3. /\ current' = current + 1
        /\ \A t \in Threads : pc'[t] = IF t.session = current + 1 /\ t.side \in sides
                                       THEN "open" ELSE pc[t]
    BY <1>3 DEF NextSession
  <2>4. \A d \in Sides : Cur(d)' \in Threads /\ Cur(d)'.session = current + 1
                         /\ Cur(d)'.side = d
    BY <1>3, <2>3 DEF NextSession, Cur, Threads
  <2>5. \A d \in Sides : pc'[Cur(d)'] \in {"open", "none"}
    BY <1>0, <2>3, <2>4 DEF PlaceInv
  <2> QED
    BY <2>5 DEF SingleOwnInv
<1> USE DEF OwnInv, SingleOwnInv, Cur
<1>4. CASE RateChanged
  BY <1>4 DEF RateChanged
<1>5. ASSUME NEW d \in Sides, BeginCallback(d) PROVE SingleOwnInv'
  BY <1>5 DEF BeginCallback
<1>6. CASE EndCallback
  BY <1>6 DEF EndCallback
<1>7. CASE UNCHANGED vars
  BY <1>7 DEF vars
<1> QED
  BY <1>1, <1>2, <1>3, <1>4, <1>5, <1>6, <1>7 DEF Next

\* No thread of an earlier session is left.
LEMMA AlonePreserved ==
  ASSUME TypeOK, PlaceInv, ~overlapped', OwnInv, [Next]_vars
  PROVE  ~overlapped /\ \A t \in Threads : t.session < current' => pc'[t] = "none"
<1>0. /\ \A d \in Sides : Cur(d) \in Threads
      /\ \A t \in Threads : t.session = current => t = Cur(t.side)
      /\ current \in Nat /\ \A t \in Threads : t.session \in Nat
  BY CurrentFacts
<1>1. ASSUME NEW t \in Threads, Thread(t) \/ EndStream(t)
      PROVE  ~overlapped /\ \A u \in Threads : u.session < current' => pc'[u] = "none"
  <2>1. /\ UNCHANGED <<current, overlapped>>
        /\ pc' = [pc EXCEPT ![t] = pc'[t]]
        /\ Goes(t)
    BY <1>1, ThreadStep
  <2> QED
    BY <2>1 DEF OwnInv, Goes, TypeOK
<1>2. CASE PassBarrier
  BY <1>0, <1>2 DEF PassBarrier, OwnInv, TypeOK
<1>3. CASE NextSession
  <2>1. /\ current' = current + 1 /\ ~overlapped /\ \A t \in Of(current) : pc[t] = "none"
        /\ \A t \in Threads : pc'[t] = IF t.session = current + 1 /\ t.side \in sides
                                       THEN "open" ELSE pc[t]
    BY <1>3 DEF NextSession
  <2>2. \A t \in Threads : t.session < current + 1 => t.session < current \/ t \in Of(current)
    BY <1>0 DEF Of
  <2> QED
    BY <1>0, <2>1, <2>2 DEF OwnInv
<1>4. CASE RateChanged \/ EndCallback \/ \E d \in Sides : BeginCallback(d)
  BY <1>4 DEF RateChanged, EndCallback, BeginCallback, OwnInv
<1>5. CASE UNCHANGED vars
  BY <1>5 DEF vars, OwnInv
<1> QED
  BY <1>1, <1>2, <1>3, <1>4, <1>5 DEF Next

LEMMA OwnInvariant == Spec => []OwnInv
<1>1. Init => OwnInv
  <2> SUFFICES ASSUME Init PROVE OwnInv
    OBVIOUS
  <2>1. TypeOK
    BY InitDriver
  <2>2. current = 1 /\ \A t \in Threads : ~(t.session < current)
    BY AsioAssumption DEF Init, Threads, Sessions
  <2>3. \A d \in Sides : pc[Cur(d)] \in {"open", "none"}
    <3>1. \A t \in Threads :
            pc[t] = IF t.session = 1 /\ t.side \in sides THEN "open" ELSE "none"
      BY DEF Init
    <3> QED
      BY <2>1, <3>1, CurrentFacts
  <2>4. OwnStreamInv /\ SingleOwnInv
    BY <2>3, SharedFacts DEF Init, OwnStreamInv, SingleOwnInv
  <2> QED
    BY <2>2, <2>4 DEF OwnInv
<1>2. TypeOK /\ DriverInv /\ OwnInv /\ [Next]_vars => OwnInv'
  <2> SUFFICES ASSUME TypeOK, DriverInv, OwnInv, [Next]_vars, ~overlapped' PROVE OwnInv'
    BY DEF OwnInv
  <2>1. Duplex' <=> Duplex
    BY SidesStay DEF Duplex
  <2>2. Duplex => OwnStreamInv'
    BY OwnStreamPreserved DEF DriverInv, DuplexInv
  <2>3. ~Duplex => SingleOwnInv'
    BY SingleOwnPreserved DEF DriverInv
  <2>4. \A t \in Threads : t.session < current' => pc'[t] = "none"
    BY AlonePreserved DEF DriverInv
  <2> QED
    BY <2>1, <2>2, <2>3, <2>4 DEF OwnInv
<1> QED
  BY <1>1, <1>2, DriverInvariant, PTL DEF Spec

\* While both threads of a session are streaming the stream runs on their own buffers,
\* if the session before has cleaned up: the second one to register has handed the
\* buffers to both (register_and_wait), and only a release takes them away.
THEOREM StreamTheirs == Spec => []StreamIsTheirs
<1>1. TypeOK /\ DriverInv /\ OwnInv => StreamIsTheirs
  <2> SUFFICES ASSUME TypeOK, DriverInv, OwnInv, ~overlapped, NEW s \in Sessions,
                      \A t \in {u \in Of(s) : u.side \in sides} : pc[t] = "streaming"
               PROVE  /\ driver = "running"
                      /\ \A t \in {u \in Of(s) : u.side \in sides} :
                           context[t.side] = t /\ t \in wired
    BY DEF StreamIsTheirs
  <2> SUFFICES ASSUME NEW u \in Of(s), u.side \in sides
               PROVE  driver = "running" /\ context[u.side] = u /\ u \in wired
    <3>1. PICK d \in sides : TRUE
      BY DEF TypeOK
    <3>2. [session |-> s, side |-> d] \in {t \in Of(s) : t.side \in sides}
      BY <3>1 DEF Of, Threads, TypeOK
    <3> QED
      BY <3>2
  <2>1. u \in Threads /\ u.session = s /\ pc[u] = "streaming"
    BY DEF Of
  <2>2. s = current /\ u = Cur(u.side) /\ u.side \in Sides
    BY <2>1, CurrentFacts DEF DriverInv, PlaceInv
  <2>3. CASE Duplex
    <3>1. \A d \in Sides : pc[Cur(d)] = "streaming"
      BY <2>2, <2>3, CurrentFacts DEF Of, Duplex
    <3>2. Streams
      BY <2>2, <2>3, <3>1, CurrentFacts DEF OwnInv, OwnStreamInv, OneHasStopped
    <3> QED
      BY <2>2, <3>2 DEF Streams
  <2>4. CASE ~Duplex
    BY <2>1, <2>2, <2>4 DEF OwnInv, SingleOwnInv
  <2> QED
    BY <2>3, <2>4
<1> QED
  BY <1>1, DriverInvariant, OwnInvariant, PTL
=============================================================================
