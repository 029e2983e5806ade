---------------------------- MODULE LooperProofs ----------------------------
(*****************************************************************************)
(* Safety of what runs on a looper, for any number of loopers, watches,      *)
(* timers, tasks and calls: PausedMeansIdle of the hang detector,            *)
(* PendingWatchesWillFire of the QEMU looper, NothingOutlivesSocket of an    *)
(* asynchronous socket, and NothingDangles and ArmedTimersAreListed of the   *)
(* default looper.                                                           *)
(*****************************************************************************)
EXTENDS HangDetector, QemuLooper, AsyncSocket, DefaultLooper,
        FiniteSetTheorems, SequenceTheorems, UniqueIdAllocatorProofs

-----------------------------------------------------------------------------
(* The hang detector.  That the worker is idle when pause() has returned     *)
(* needs where the worker can be while it does not hold mLock.               *)

\* pause() gets mLock only while the worker waits, and then the worker does not
\* iterate; a process() call is under way only between the unlock and its end.
WorkerIsOut ==
    /\ mPaused > 0 => workerPc \in {"wait", "done"}
    /\ workerPc \notin {"unlocked", "assign"} => current = {}

HDInv == HDTypeOK /\ WorkerIsOut /\ PausedMeansIdle

\* The cap on the ages is a number above zero.
LEMMA AgeCapType == AgeCap \in Nat \ {0}
  BY HangTimingAssumption DEF AgeCap

\* Setting a flag keeps a function of flags one.
LEMMA SetFlag ==
  ASSUME NEW f \in [Loopers -> BOOLEAN], NEW l \in Loopers, NEW b \in BOOLEAN
  PROVE  [f EXCEPT ![l] = b] \in [Loopers -> BOOLEAN]
  BY Zenon

\* The flags of the loopers, one by one.
LEMMA FlagsType ==
  ASSUME HDTypeOK
  PROVE  /\ mIsTaskRunning \in [Loopers -> BOOLEAN] /\ scheduled \in [Loopers -> BOOLEAN]
         /\ taken \in [Loopers -> BOOLEAN] /\ hung \in [Loopers -> BOOLEAN]
         /\ reported \in [Loopers -> BOOLEAN]
  BY Zenon DEF HDTypeOK

\* At first nothing is watched.
LEMMA HDInitially == HDInit => HDInv
<1> SUFFICES ASSUME HDInit PROVE HDInv
  OBVIOUS
<1>1. {mIsTaskRunning, scheduled, taken, hung, reported} \subseteq [Loopers -> BOOLEAN]
  BY Zenon DEF HDInit
<1>2. /\ mHangCount \in [Loopers -> 0..kMaxHangCount] /\ age \in [Loopers -> 0..AgeCap]
      /\ mPaused \in 0..MaxPauses /\ left \in -1..1
  BY AgeCapType, HangTimingAssumption DEF HDInit, kMaxHangCount
<1>3. HDTypeOK
  BY <1>1, <1>2 DEF HDInit, HDTypeOK
<1> QED
  BY <1>3 DEF HDInit, HDInv, WorkerIsOut, PausedMeansIdle

\* The public calls, which the worker lets in while it waits.
LEMMA CallsKeepIdle ==
  ASSUME HDInv,
         \/ \E l \in Loopers : AddWatchedLooper(l)
         \/ \E paused \in BOOLEAN : Pause(paused)
         \/ Stop
  PROVE  HDInv'
<1> USE AgeCapType, HangTimingAssumption DEF HDInv, looperVars
<1>1. ASSUME NEW l \in Loopers, AddWatchedLooper(l) PROVE HDInv'
  <2> USE <1>1 DEF AddWatchedLooper, StartHangCheckLocked
  <2>0. mIsTaskRunning' \in [Loopers -> BOOLEAN] /\ scheduled' \in [Loopers -> BOOLEAN]
    BY FlagsType, SetFlag
  <2>a. age' \in [Loopers -> 0..AgeCap]
    BY DEF HDTypeOK
  <2>1. HDTypeOK'
    BY FlagsType, <2>0, <2>a DEF HDTypeOK
  <2>2. WorkerIsOut' /\ PausedMeansIdle'
    BY DEF HDTypeOK, WorkerIsOut, PausedMeansIdle
  <2> QED
    BY <2>1, <2>2
<1>2. ASSUME NEW paused \in BOOLEAN, Pause(paused) PROVE HDInv'
  <2> USE <1>2 DEF Pause, CancelHangChecks
  <2>1. mPaused' \in 0..MaxPauses
    BY DEF HDTypeOK
  <2>b. \/ mIsTaskRunning' = [l \in Loopers |-> FALSE] /\ scheduled' = [l \in Loopers |-> FALSE]
        \/ UNCHANGED <<mIsTaskRunning, scheduled>>
    OBVIOUS
  <2>0. mIsTaskRunning' \in [Loopers -> BOOLEAN] /\ scheduled' \in [Loopers -> BOOLEAN]
    BY FlagsType, <2>b, Zenon
  <2>a. age' \in [Loopers -> 0..AgeCap]
    BY DEF HDTypeOK
  <2>2. HDTypeOK'
    BY FlagsType, <2>0, <2>a, <2>1 DEF HDTypeOK
  <2>3. WorkerIsOut'
    BY DEF WorkerIsOut
  <2>4. PausedMeansIdle'
    <3>1. CASE paused /\ mPaused' = 1
      BY <3>1 DEF PausedMeansIdle
    <3>2. CASE ~(paused /\ mPaused' = 1)
      <4>1. mPaused' > 0 => mPaused > 0
        BY <3>2 DEF HDTypeOK
      <4> QED
        BY <3>2, <4>1 DEF PausedMeansIdle
    <3> QED
      BY <3>1, <3>2
  <2> QED
    BY <2>2, <2>3, <2>4
<1>3. CASE Stop
  <2> USE <1>3 DEF Stop, CancelHangChecks
  <2>1. HDTypeOK'
    BY DEF HDTypeOK
  <2>2. WorkerIsOut' /\ PausedMeansIdle'
    BY DEF HDTypeOK, WorkerIsOut, PausedMeansIdle
  <2> QED
    BY <2>1, <2>2
<1> QED
  BY <1>1, <1>2, <1>3

\* The worker schedules and assigns only in an iteration, which a pause waits for.
LEMMA WorkerKeepsIdle ==
  ASSUME HDInv, WorkerStep
  PROVE  HDInv'
<1> USE AgeCapType, HangTimingAssumption DEF HDInv, looperVars, watcherVars
<1>1. CASE WorkerIterates \/ WorkerWaitsAgain \/ WorkerStops \/ WorkerEndsIteration
  BY <1>1 DEF WorkerIterates, WorkerWaitsAgain, WorkerStops, WorkerEndsIteration,
              HDTypeOK, WorkerIsOut, PausedMeansIdle
<1>2. ASSUME NEW l \in Loopers, Process(l) PROVE HDInv'
  <2>0. /\ ~(mPaused' > 0) /\ current = {}
    BY <1>2 DEF Process, WorkerIsOut
  <2>d. \/ /\ mIsTaskRunning' = [mIsTaskRunning EXCEPT ![l] = TRUE]
           /\ scheduled' = [scheduled EXCEPT ![l] = TRUE]
        \/ UNCHANGED <<mIsTaskRunning, scheduled>>
    BY <1>2 DEF Process, StartHangCheckLocked
  <2>a. mIsTaskRunning' \in [Loopers -> BOOLEAN] /\ scheduled' \in [Loopers -> BOOLEAN]
    BY <2>d, FlagsType, SetFlag
  <2>c. age' \in [Loopers -> 0..AgeCap]
    BY <1>2 DEF Process, StartHangCheckLocked, HDTypeOK
  <2>b. mHangCount' \in [Loopers -> 0..kMaxHangCount]
    BY <1>2 DEF Process, HDTypeOK, kMaxHangCount
  <2>1. HDTypeOK'
    BY <1>2, FlagsType, <2>0, <2>a, <2>b, <2>c DEF Process, HDTypeOK
  <2>2. WorkerIsOut' /\ PausedMeansIdle'
    BY <1>2, <2>0 DEF Process, WorkerIsOut, PausedMeansIdle
  <2> QED
    BY <2>1, <2>2
<1>3. ASSUME NEW l \in Loopers, HangCallback(l) \/ Reschedule(l) \/ AssignRunning(l) PROVE HDInv'
  <2>0. ~(mPaused' > 0)
    BY <1>3 DEF HangCallback, Reschedule, AssignRunning, WorkerIsOut
  <2>a. /\ mIsTaskRunning' \in [Loopers -> BOOLEAN] /\ scheduled' \in [Loopers -> BOOLEAN]
        /\ reported' \in [Loopers -> BOOLEAN]
    BY <1>3, FlagsType, SetFlag DEF HangCallback, Reschedule, AssignRunning
  <2>b. age' \in [Loopers -> 0..AgeCap]
    BY <1>3 DEF HangCallback, Reschedule, AssignRunning, HDTypeOK
  <2>1. HDTypeOK'
    BY <1>3, FlagsType, <2>a, <2>b DEF HangCallback, Reschedule, AssignRunning, HDTypeOK
  <2>2. WorkerIsOut' /\ PausedMeansIdle'
    BY <1>3, <2>0 DEF HangCallback, Reschedule, AssignRunning, WorkerIsOut, PausedMeansIdle
  <2> QED
    BY <2>1, <2>2
<1> QED
  BY <1>1, <1>2, <1>3 DEF WorkerStep

\* Loopers only take tasks and end checks; time changes neither.
LEMMA LoopersKeepIdle ==
  ASSUME HDInv, \/ \E l \in Loopers : LooperStep(l) \/ Hang(l)
                \/ Tick \/ SystemSleep
  PROVE  HDInv'
<1> USE AgeCapType, HangTimingAssumption DEF HDInv, looperVars, watcherVars
<1>1. ASSUME NEW l \in Loopers, LooperTakes(l) \/ TaskComplete(l) \/ Hang(l) PROVE HDInv'
  <2>a. /\ mIsTaskRunning' \in [Loopers -> BOOLEAN] /\ scheduled' \in [Loopers -> BOOLEAN]
        /\ taken' \in [Loopers -> BOOLEAN] /\ hung' \in [Loopers -> BOOLEAN]
        /\ reported' \in [Loopers -> BOOLEAN]
    BY <1>1, FlagsType, SetFlag DEF LooperTakes, TaskComplete, Hang
  <2>1. HDTypeOK'
    BY <1>1, <2>a DEF LooperTakes, TaskComplete, Hang, HDTypeOK
  <2>2. WorkerIsOut' /\ PausedMeansIdle'
    BY <1>1 DEF LooperTakes, TaskComplete, Hang, HDTypeOK, WorkerIsOut, PausedMeansIdle
  <2> QED
    BY <2>1, <2>2
<1>2. CASE Tick \/ SystemSleep
  <2>1. age' \in [Loopers -> 0..AgeCap]
    BY <1>2 DEF Tick, SystemSleep, Older, HDTypeOK
  <2> QED
    BY <1>2, <2>1 DEF Tick, SystemSleep, HDTypeOK, WorkerIsOut, PausedMeansIdle
<1> QED
  BY <1>1, <1>2 DEF LooperStep

\* The invariant is one.
LEMMA HDInvariant == HDSpec => []HDInv
<1>1. HDInv /\ [HDNext]_hdVars => HDInv'
  <2> SUFFICES ASSUME HDInv, [HDNext]_hdVars PROVE HDInv'
    OBVIOUS
  <2>1. CASE HDNext
    BY <2>1, CallsKeepIdle, WorkerKeepsIdle, LoopersKeepIdle DEF HDNext
  <2>2. CASE UNCHANGED hdVars
    BY <2>2 DEF hdVars, HDInv, HDTypeOK, WorkerIsOut, PausedMeansIdle
  <2> QED
    BY <2>1, <2>2
<1> QED
  BY <1>1, HDInitially, PTL DEF HDSpec

\* While the hang detector is paused no check waits for an answer, for any
\* loopers, timeouts and nesting of pauses: pause() never meets the worker
\* between the unlock in process() and the assignments behind it.
THEOREM PausedMeansIdleTheorem == HDSpec => []PausedMeansIdle
<1>1. HDInv => PausedMeansIdle
  BY DEF HDInv
<1> QED
  BY <1>1, HDInvariant, PTL

-----------------------------------------------------------------------------
(* The QEMU looper.  A pending watch will fire only if the iterator of the   *)
(* bottom half is not past it, which needs where the iterator can be.        *)

\* A watch that is not there has no events, callbacks run only in the bottom
\* half, and the iterator is past the watch whose callback runs.
IteratorIsAhead ==
    /\ \A w \in QWatches \ qLive : mPendingEvents[w] = {}
    /\ firing # {} => next # {}
    /\ firing \cap next = {}

QLInv == QLTypeOK /\ PendingWatchesWillFire /\ IteratorIsAhead

\* The iterator is at one place.
LEMMA NextOfType ==
  ASSUME NEW S \in SUBSET QWatches, NEW n \in NextOf(S)
  PROVE  /\ n \subseteq QWatches \cup {End} /\ Cardinality(n) <= 1 /\ n # {}
         /\ n \cap QWatches \subseteq S /\ (n = {End} => S = {}) /\ n \subseteq S \cup {End}
<1>1. PICK x : n = {x} /\ x \in S \cup {End} /\ (x = End <=> S = {})
  BY QemuLooperAssumption DEF NextOf
<1>2. Cardinality(n) = 1
  BY <1>1, FS_Singleton
<1> QED
  BY <1>1, <1>2, QemuLooperAssumption

\* At first nothing is pending.
LEMMA QLInitially == QLInit => QLInv
<1> SUFFICES ASSUME QLInit PROVE QLInv
  OBVIOUS
<1>1. Cardinality(next) <= 1
  BY FS_EmptySet DEF QLInit
<1>2. /\ {qWanted, mPendingEvents} \subseteq [QWatches -> SUBSET QEvents]
      /\ \A w \in QWatches : mPendingEvents[w] = {}
  BY DEF QLInit
<1>3. closures \in Seq(Posters) /\ Len(closures) <= Capacity
  BY QemuLooperAssumption DEF QLInit
<1>4. posterPc \in [Posters -> {"idle", "send", "check", "start", "wait"}]
  BY DEF QLInit
<1>5. QLTypeOK
  BY <1>1, <1>2, <1>3, <1>4, Zenon DEF QLInit, QLTypeOK
<1> QED
  BY <1>2, <1>5 DEF QLInit, QLInv, PendingWatchesWillFire, IteratorIsAhead

\* Posters, closures and the shutdown leave the watches alone.
LEMMA ClosuresKeepWatches ==
  ASSUME QLInv,
         \/ MainTimer \/ Shutdown
         \/ \E p \in Posters : PosterStep(p) \/ RunOnMainLooper(p)
  PROVE  QLInv'
<1> USE DEF QLInv
<1>1. UNCHANGED bhVars
  BY DEF MainTimer, TimerCallback, RunClosure, EndClosures, Shutdown, PosterStep, SendClosure,
         CheckTimer, StartTimer, WaitReturns, RunOnMainLooper
<1>2. PendingWatchesWillFire' /\ IteratorIsAhead'
  BY <1>1 DEF bhVars, PendingWatchesWillFire, IteratorIsAhead
<1>3. closures' \in Seq(Posters) /\ Len(closures') <= Capacity
  <2>1. closures \in Seq(Posters) /\ Len(closures) <= Capacity
    BY DEF QLTypeOK
  <2>2. \/ UNCHANGED closures
        \/ closures # <<>> /\ closures' = Tail(closures)
        \/ \E p \in Posters : Len(closures) < Capacity /\ closures' = Append(closures, p)
    BY DEF MainTimer, TimerCallback, RunClosure, EndClosures, Shutdown, PosterStep, SendClosure,
           CheckTimer, StartTimer, WaitReturns, RunOnMainLooper
  <2> QED
    BY <2>1, <2>2, QemuLooperAssumption
<1>4. posterPc' \in [Posters -> {"idle", "send", "check", "start", "wait"}]
  BY DEF MainTimer, TimerCallback, RunClosure, EndClosures, Shutdown, PosterStep, SendClosure,
         CheckTimer, StartTimer, WaitReturns, RunOnMainLooper, Goes, QLTypeOK
<1>5. signaled' \subseteq Waiters
  BY DEF MainTimer, TimerCallback, RunClosure, EndClosures, Shutdown, PosterStep, SendClosure,
         CheckTimer, StartTimer, WaitReturns, RunOnMainLooper, QLTypeOK
<1>6. {timerActive', running', sSkipTimerOps'} \subseteq BOOLEAN
  BY DEF MainTimer, TimerCallback, RunClosure, EndClosures, Shutdown, PosterStep, SendClosure,
         CheckTimer, StartTimer, WaitReturns, RunOnMainLooper, QLTypeOK
<1> QED
  BY <1>1, <1>2, <1>3, <1>4, <1>5, <1>6 DEF QLTypeOK, bhVars

\* QEMU's handlers and the users of watches keep the set, the events and the
\* bottom half in agreement.
LEMMA WatchCallsKeep ==
  ASSUME QLInv, ~DeletesOthers, NEW w \in QWatches,
         \/ QCreateFdWatch(w) \/ QDeleteFdWatch(w)
         \/ \E events \in SUBSET QEvents : UpdateEvents(w, events)
         \/ \E event \in QEvents : HandleIo(w, event)
  PROVE  QLInv'
<1> USE DEF QLInv
<1>1. CASE QCreateFdWatch(w)
  BY <1>1 DEF QCreateFdWatch, closureVars, QLTypeOK, PendingWatchesWillFire, IteratorIsAhead
<1>2. CASE QDeleteFdWatch(w)
  <2> USE <1>2 DEF QDeleteFdWatch, closureVars
  <2>1. w \notin next
    BY DEF WatchUser, MainLoopIdle, IteratorIsAhead
  <2>2. QLTypeOK'
    BY <2>1 DEF QLTypeOK
  <2>3. PendingWatchesWillFire' /\ IteratorIsAhead'
    BY <2>1 DEF QLTypeOK, PendingWatchesWillFire, IteratorIsAhead
  <2> QED
    BY <2>2, <2>3
<1>3. ASSUME NEW events \in SUBSET QEvents, UpdateEvents(w, events) PROVE QLInv'
  BY <1>3 DEF UpdateEvents, closureVars, QLTypeOK, PendingWatchesWillFire, IteratorIsAhead
<1>4. ASSUME NEW event \in QEvents, HandleIo(w, event) PROVE QLInv'
  <2> USE <1>4 DEF HandleIo, closureVars
  <2>0. mPendingEvents' \in [QWatches -> SUBSET QEvents]
    BY DEF QLTypeOK
  <2>1. QLTypeOK'
    BY <2>0 DEF QLTypeOK
  <2>a. mPendingWatches' = {x \in qLive' : mPendingEvents'[x] # {}}
    <3>1. \A x \in QWatches : mPendingEvents'[x] # {} <=> mPendingEvents[x] # {} \/ x = w
      BY DEF QLTypeOK
    <3>2. /\ mPendingWatches = {x \in qLive : mPendingEvents[x] # {}} /\ w \in qLive
          /\ mPendingWatches' = mPendingWatches \cup {w} /\ qLive' = qLive
      BY DEF PendingWatchesWillFire
    <3> QED
      BY <3>1, <3>2 DEF QLTypeOK
  <2>b. mPendingWatches' # {} => bhScheduled'
    BY DEF PendingWatchesWillFire, MainLoopIdle
  <2>2. PendingWatchesWillFire'
    BY <2>a, <2>b DEF PendingWatchesWillFire, MainLoopIdle
  <2>3. IteratorIsAhead'
    BY DEF QLTypeOK, IteratorIsAhead
  <2> QED
    BY <2>1, <2>2, <2>3
<1> QED
  BY <1>1, <1>2, <1>3, <1>4

\* The bottom half takes every watch out of the set before it fires it.
LEMMA BottomHalfKeeps ==
  ASSUME QLInv, MainBottomHalf
  PROVE  QLInv'
<1> USE DEF QLInv, closureVars
<1>1. CASE BeginBottomHalf
  <2> USE <1>1 DEF BeginBottomHalf
  <2>1. /\ next' \subseteq QWatches \cup {End} /\ Cardinality(next') <= 1 /\ next' # {}
        /\ next' \cap QWatches \subseteq mPendingWatches /\ (next' = {End} => mPendingWatches = {})
    BY NextOfType DEF QLTypeOK
  <2>2. firing = {}
    BY DEF MainLoopIdle, IteratorIsAhead
  <2>3. QLTypeOK'
    BY <2>1 DEF QLTypeOK
  <2> QED
    BY <2>1, <2>2, <2>3 DEF PendingWatchesWillFire, IteratorIsAhead
<1>2. CASE FireNext
  <2>0. PICK w \in next \cap QWatches :
          /\ mPendingWatches' = mPendingWatches \ {w}
          /\ next' \in NextOf(mPendingWatches \ {w})
          /\ mPendingEvents' = [mPendingEvents EXCEPT ![w] = {}]
          /\ firing' = {w}
          /\ UNCHANGED <<qLive, qWanted, bhScheduled, badIterator, closureVars>>
    BY <1>2 DEF FireNext
  <2>1. /\ next' \subseteq QWatches \cup {End} /\ Cardinality(next') <= 1 /\ next' # {}
        /\ next' \cap QWatches \subseteq mPendingWatches' /\ (next' = {End} => mPendingWatches' = {})
        /\ next' \subseteq mPendingWatches' \cup {End}
    BY <2>0, NextOfType DEF QLTypeOK
  <2>2. w # End
    BY QemuLooperAssumption
  <2>3. QLTypeOK'
    BY <2>0, <2>1 DEF QLTypeOK
  <2>4. PendingWatchesWillFire'
    BY <2>0, <2>1 DEF QLTypeOK, PendingWatchesWillFire
  <2>5. IteratorIsAhead'
    BY <2>0, <2>1, <2>2 DEF QLTypeOK, IteratorIsAhead
  <2> QED
    BY <2>3, <2>4, <2>5
<1>3. CASE EndBottomHalf
  <2>1. Cardinality(next') <= 1
    BY <1>3, FS_EmptySet DEF EndBottomHalf
  <2> QED
    BY <1>3, <2>1 DEF EndBottomHalf, QLTypeOK, PendingWatchesWillFire, IteratorIsAhead
<1> QED
  BY <1>1, <1>2, <1>3 DEF MainBottomHalf

\* If callbacks delete no watch but their own, a watch with events is in the
\* set, a watch in the set is fired by the bottom half, and the iterator of
\* handleBottomHalf() stays valid, for any number of watches and events.
THEOREM PendingWatchesTheorem ==
  ASSUME ~DeletesOthers
  PROVE  QLSpec => []PendingWatchesWillFire
<1>1. QLInv /\ [QLNext]_qlVars => QLInv'
  <2> SUFFICES ASSUME QLInv, [QLNext]_qlVars PROVE QLInv'
    OBVIOUS
  <2>1. CASE QLNext
    BY <2>1, ClosuresKeepWatches, WatchCallsKeep, BottomHalfKeeps DEF QLNext
  <2>2. CASE UNCHANGED qlVars
    BY <2>2 DEF qlVars, bhVars, closureVars, QLInv, QLTypeOK, PendingWatchesWillFire, IteratorIsAhead
  <2> QED
    BY <2>1, <2>2
<1>2. QLInv => PendingWatchesWillFire
  BY DEF QLInv
<1> QED
  BY <1>1, <1>2, QLInitially, PTL DEF QLSpec

-----------------------------------------------------------------------------
(* An asynchronous socket.  What the destructor waits for is a counter: the  *)
(* invariant says what mInflight counts, and what else may be queued.        *)

Kinds == {"wantRead", "wantWrite", "close", "notify"}

\* The callbacks in a queue that mInflight counts.
Counted(cbs) == {i \in DOMAIN cbs : cbs[i] # "notify"}

\* A callback that is queued is counted, unless it is the notification.
LEMMA CountedAppend ==
  ASSUME NEW s \in Seq(Kinds), NEW cb \in Kinds
  PROVE  /\ IsFiniteSet(Counted(s)) /\ Cardinality(Counted(s)) \in Nat
         /\ Cardinality(Counted(Append(s, cb))) =
                Cardinality(Counted(s)) + (IF cb # "notify" THEN 1 ELSE 0)
<1>1. IsFiniteSet(Counted(s)) /\ Cardinality(Counted(s)) \in Nat
  <2>1. IsFiniteSet(1..Len(s))
    BY FS_Interval
  <2>2. Counted(s) \in SUBSET (1..Len(s))
    BY DEF Counted
  <2> QED
    BY <2>1, <2>2, FS_Subset, FS_CardinalityType
<1>2. CASE cb # "notify"
  <2>1. Counted(Append(s, cb)) = Counted(s) \cup {Len(s) + 1}
    BY <1>2 DEF Counted
  <2>2. Len(s) + 1 \notin Counted(s)
    BY DEF Counted
  <2>3. Cardinality(Counted(s) \cup {Len(s) + 1}) = Cardinality(Counted(s)) + 1
    BY <1>1, <2>2, FS_AddElement
  <2> QED
    BY <1>1, <1>2, <2>1, <2>3
<1>3. CASE cb = "notify"
  <2>1. Counted(Append(s, cb)) = Counted(s)
    BY <1>3 DEF Counted
  <2> QED
    BY <1>1, <1>3, <2>1
<1> QED
  BY <1>1, <1>2, <1>3

\* A callback that is taken off the queue was counted, unless it is the notification.
LEMMA CountedTail ==
  ASSUME NEW s \in Seq(Kinds), s # <<>>
  PROVE  Cardinality(Counted(s)) =
             Cardinality(Counted(Tail(s))) + (IF Head(s) # "notify" THEN 1 ELSE 0)
<1>1. IsFiniteSet(Counted(s)) /\ Cardinality(Counted(s)) \in Nat
  BY CountedAppend DEF Kinds
<1>2. Tail(s) \in Seq(Kinds) /\ Len(s) \in Nat /\ Len(s) >= 1 /\ Len(Tail(s)) = Len(s) - 1
      /\ \A i \in 1..(Len(s) - 1) : Tail(s)[i] = s[i + 1]
  OBVIOUS
<1>3. IsFiniteSet(Counted(Tail(s))) /\ Cardinality(Counted(Tail(s))) \in Nat
  BY <1>2, CountedAppend DEF Kinds
<1>4. Cardinality(Counted(Tail(s))) = Cardinality(Counted(s) \ {1})
  <2> DEFINE f == [i \in Counted(s) \ {1} |-> i - 1]
  <2>1. \A i \in Counted(s) \ {1} : i \in 2..Len(s) /\ i - 1 \in Counted(Tail(s))
    BY <1>2 DEF Counted
  <2>2. \A j \in Counted(Tail(s)) : j \in 1..(Len(s) - 1) /\ j + 1 \in Counted(s) \ {1}
    BY <1>2 DEF Counted
  <2>3. f \in [Counted(s) \ {1} -> Counted(Tail(s))]
    BY <2>1
  <2>4. \A a, b \in Counted(s) \ {1} : f[a] = f[b] => a = b
    BY <2>1
  <2>5. \A j \in Counted(Tail(s)) : f[j + 1] = j
    BY <2>2
  <2>6. f \in Injection(Counted(s) \ {1}, Counted(Tail(s)))
    BY <2>3, <2>4, Zenon DEF Injection, IsInjective
  <2>7. f \in Surjection(Counted(s) \ {1}, Counted(Tail(s)))
    BY <2>2, <2>3, <2>5, Zenon DEF Surjection
  <2>8. ExistsBijection(Counted(s) \ {1}, Counted(Tail(s)))
    BY <2>6, <2>7, Zenon DEF ExistsBijection, Bijection
  <2>9. IsFiniteSet(Counted(s) \ {1})
    BY <1>1, FS_RemoveElement
  <2> QED
    BY <2>8, <2>9, FS_Bijection
<1>5. 1 \in Counted(s) <=> Head(s) # "notify"
  BY <1>2 DEF Counted
<1>6. Cardinality(Counted(s) \ {1}) =
          IF 1 \in Counted(s) THEN Cardinality(Counted(s)) - 1 ELSE Cardinality(Counted(s))
  BY <1>1, FS_RemoveElement
<1> QED
  BY <1>1, <1>3, <1>4, <1>5, <1>6

\* Where the three threads can be.
ThreadsOK ==
    /\ looperAt \in {"idle", "onRead", "recv", "close", "onClose", "inOnClose", "closed", "null"}
    /\ connectAt \in {"none", "try", "connected", "locked", "waiting", "done"}
    /\ ownerAt \in {"idle", "dispose", "wait", "unlisten", "disposed", "destroy", "join", "inflight", "destroyed"}

\* mInflight counts the callbacks that wait and the close() that runs, but for the
\* notification, of which there is one, while connectToPort() waits for it.
QueueInv ==
    /\ callbacks \in Seq(Kinds)
    /\ mInflight = Cardinality(Counted(callbacks)) + (IF counted THEN 1 ELSE 0)
    /\ \A i \in DOMAIN callbacks : callbacks[i] = "notify" =>
          /\ connectAt = "waiting" /\ ~notified
          /\ \A j \in DOMAIN callbacks : callbacks[j] = "notify" => j = i
    /\ connectAt \in {"none", "try", "connected", "locked"} => ~notified
    /\ looperAt \in {"idle", "onRead", "recv", "null"} => ~counted

\* What the owner's thread knows of the two others at each of its steps.  onRead()
\* runs while there is a watch; until one is made late there is none from the
\* time dispose() has seen that it is gone, and the listener is there until then.
OwnerInv ==
    /\ looperAt \in {"onRead", "recv"} => mFdWatch \/ ownerAt = "destroyed"
    /\ lateWatch \in BOOLEAN /\ destroying \in BOOLEAN
    /\ ~lateWatch => /\ (ownerAt = "unlisten" \/ Disposed \/ ~mListener) => looperAt \notin {"onRead", "recv"}
                     /\ (ownerAt = "unlisten" \/ Disposed) => ~mFdWatch
                     /\ looperAt # "null"
    /\ Disposed => ~mListener
    /\ ownerAt # "idle" => connectAt # "none"
    /\ ownerAt \in {"inflight", "destroyed"} => connectAt = "done"
    /\ ownerAt = "destroyed" => callbacks = <<>> /\ ~counted

ASInv == ThreadsOK /\ QueueInv /\ OwnerInv

\* At first nothing waits.
LEMMA ASInitially == ASInit => ASInv
<1> SUFFICES ASSUME ASInit PROVE ASInv
  OBVIOUS
<1>1. Counted(callbacks) = {} /\ Cardinality({}) = 0
  BY FS_EmptySet DEF ASInit, Counted
<1>2. callbacks \in Seq(Kinds)
  BY DEF ASInit
<1>3. /\ mInflight = 0 /\ ~counted /\ ~notified /\ DOMAIN callbacks = {}
      /\ looperAt = "idle" /\ connectAt = "none" /\ ownerAt = "idle"
      /\ lateWatch = FALSE /\ destroying = FALSE /\ mListener
  BY DEF ASInit, disposeVars
<1>4. mInflight = Cardinality(Counted(callbacks)) + (IF counted THEN 1 ELSE 0)
  BY <1>1, <1>3
<1>5. QueueInv
  BY <1>2, <1>3, <1>4 DEF QueueInv
<1> QED
  BY <1>3, <1>5 DEF ASInv, ThreadsOK, OwnerInv, Disposed

\* scheduleCallback() of a callback other than the notification.
LEMMA ScheduleKeeps ==
  ASSUME QueueInv, NEW cb \in Kinds \ {"notify"}, Schedule(cb),
         UNCHANGED <<counted, notified, looperAt>>,
         connectAt' = connectAt \/ (connectAt = "connected" /\ connectAt' = "locked")
  PROVE  QueueInv'
<1>1. callbacks' = Append(callbacks, cb) /\ mInflight' = mInflight + 1
  BY DEF Schedule
<1>2. callbacks' \in Seq(Kinds) /\ Len(callbacks) \in Nat /\ Len(callbacks') = Len(callbacks) + 1
      /\ callbacks'[Len(callbacks) + 1] = cb
      /\ \A i \in DOMAIN callbacks : callbacks'[i] = callbacks[i]
  BY <1>1 DEF QueueInv
<1>3. mInflight' = Cardinality(Counted(callbacks))' + (IF counted' THEN 1 ELSE 0)
  BY <1>1, CountedAppend DEF QueueInv
<1>4. \A i \in DOMAIN callbacks' : callbacks'[i] = "notify" => i \in DOMAIN callbacks
  BY <1>2 DEF QueueInv
<1> QED
  BY <1>2, <1>3, <1>4 DEF QueueInv

\* The owner's calls.
LEMMA OwnerCallsKeep == ASSUME ASInv, OwnerCalls PROVE ASInv'
<1> USE DEF ASInv, watchVars_, looperVars_, threadVars, disposeVars, ioVars
<1>1. CASE ConnectCall
  BY <1>1 DEF ConnectCall, ThreadsOK, QueueInv, OwnerInv, Disposed
<1>2. CASE SendCall
  <2>1. QueueInv'
    BY <1>2, ScheduleKeeps DEF SendCall, ThreadsOK, Kinds
  <2> QED
    BY <1>2, <2>1 DEF SendCall, ThreadsOK, OwnerInv, Disposed
<1>3. CASE CloseCall
  <2>1. QueueInv'
    BY <1>3, ScheduleKeeps DEF CloseCall, ThreadsOK, Kinds
  <2> QED
    BY <1>3, <2>1 DEF CloseCall, ThreadsOK, OwnerInv, Disposed
<1>4. CASE DisposeCloses
  <2>1. CASE mFdWatch
    <3>1. QueueInv'
      BY <1>4, <2>1, ScheduleKeeps DEF DisposeCloses, ThreadsOK, Kinds
    <3> QED
      BY <1>4, <3>1 DEF DisposeCloses, ThreadsOK, OwnerInv, Disposed
  <2>2. CASE ~mFdWatch
    BY <1>4, <2>2 DEF DisposeCloses, ThreadsOK, QueueInv, OwnerInv, Disposed
  <2> QED
    BY <2>1, <2>2
<1> QED
  BY <1>1, <1>2, <1>3, <1>4 DEF OwnerCalls

\* The last step of the destructor finds nothing that waits.
LEMMA NothingWaits ==
  ASSUME ASInv, ownerAt = "inflight", mInflight = 0
  PROVE  callbacks = <<>> /\ ~counted
<1> USE DEF ASInv
<1>1. IsFiniteSet(Counted(callbacks)) /\ Cardinality(Counted(callbacks)) \in Nat
  BY CountedAppend DEF QueueInv, Kinds
<1>2. Cardinality(Counted(callbacks)) = 0 /\ ~counted
  BY <1>1 DEF QueueInv, ThreadsOK
<1>3. Counted(callbacks) = {}
  BY <1>1, <1>2, FS_EmptySet
<1>4. connectAt # "waiting"
  BY DEF OwnerInv
<1>5. DOMAIN callbacks = {}
  BY <1>3, <1>4 DEF Counted, QueueInv
<1> QED
  BY <1>2, <1>5 DEF QueueInv

\* The rest of dispose() and the destructor.
LEMMA OwnerStepsKeep == ASSUME ASInv, OwnerSteps PROVE ASInv'
<1> USE DEF ASInv, watchVars_, looperVars_, threadVars, disposeVars, ioVars
<1>1. ASSUME ~DestroyCloses
      PROVE  UNCHANGED <<callbacks, mInflight, looperAt, counted, connectAt, notified>> /\ QueueInv'
  <2>1. UNCHANGED <<callbacks, mInflight, looperAt, counted, connectAt, notified>>
    BY <1>1 DEF OwnerSteps, DisposeChecks, DisposeWaits, DisposeReturns, DestroyJoins, DestroyJoined, DestroyEnds
  <2> QED
    BY <2>1 DEF QueueInv
<1>2. CASE DestroyCloses
  <2>1. CASE mFdWatch
    <3>1. QueueInv'
      BY <1>2, <2>1, ScheduleKeeps DEF DestroyCloses, ThreadsOK, Kinds
    <3> QED
      BY <1>2, <3>1 DEF DestroyCloses, ThreadsOK, OwnerInv, Disposed
  <2>2. CASE ~mFdWatch
    BY <1>2, <2>2 DEF DestroyCloses, ThreadsOK, QueueInv, OwnerInv, Disposed
  <2> QED
    BY <2>1, <2>2
<1>3. CASE ~DestroyCloses /\ DisposeChecks
  BY <1>1, <1>3 DEF DisposeChecks, ThreadsOK, OwnerInv, Disposed
<1>4. CASE ~DestroyCloses /\ (DisposeWaits \/ DisposeReturns)
  BY <1>1, <1>4 DEF DisposeWaits, DisposeReturns, ThreadsOK, OwnerInv, Disposed
<1>5. CASE ~DestroyCloses /\ (DestroyJoins \/ DestroyJoined)
  BY <1>1, <1>5 DEF DestroyJoins, DestroyJoined, ThreadsOK, OwnerInv, Disposed
<1>6. CASE ~DestroyCloses /\ DestroyEnds
  <2>1. callbacks = <<>> /\ ~counted
    BY <1>6, NothingWaits DEF DestroyEnds
  <2> QED
    BY <1>1, <1>6, <2>1 DEF DestroyEnds, ThreadsOK, OwnerInv, Disposed
<1> QED
  BY <1>2, <1>3, <1>4, <1>5, <1>6 DEF OwnerSteps

\* connectToPort().
LEMMA ConnectStepsKeep == ASSUME ASInv, ConnectSteps PROVE ASInv'
<1> USE DEF ASInv, watchVars_, looperVars_, threadVars, disposeVars, ioVars
<1>1. CASE ConnectTries
  BY <1>1 DEF ConnectTries, ThreadsOK, QueueInv, OwnerInv, Disposed
<1>2. CASE ConnectWatches
  <2>1. QueueInv'
    BY <1>2, ScheduleKeeps DEF ConnectWatches, ThreadsOK, Kinds
  <2> QED
    BY <1>2, <2>1 DEF ConnectWatches, ThreadsOK, OwnerInv, Disposed
<1>3. CASE ConnectNotifies
  <2>1. /\ callbacks' = Append(callbacks, "notify") /\ connectAt = "locked" /\ connectAt' = "waiting"
        /\ UNCHANGED <<mInflight, counted, notified, looperAt, ownerAt, watchVars_, disposeVars>>
    BY <1>3 DEF ConnectNotifies
  <2>2. callbacks' \in Seq(Kinds) /\ Len(callbacks) \in Nat /\ Len(callbacks') = Len(callbacks) + 1
        /\ \A i \in DOMAIN callbacks : callbacks'[i] = callbacks[i]
    BY <2>1 DEF QueueInv, Kinds
  <2>3. mInflight' = Cardinality(Counted(callbacks))' + (IF counted' THEN 1 ELSE 0)
    BY <2>1, CountedAppend DEF QueueInv, Kinds
  <2>4. \A i \in DOMAIN callbacks' : callbacks'[i] = "notify" => i = Len(callbacks) + 1
    BY <2>1, <2>2 DEF QueueInv
  <2>5. ~notified'
    BY <2>1 DEF QueueInv
  <2>6. QueueInv'
    BY <2>1, <2>2, <2>3, <2>4, <2>5 DEF QueueInv
  <2> QED
    BY <2>1, <2>6 DEF ThreadsOK, OwnerInv, Disposed
<1>4. CASE ConnectEnds
  BY <1>4 DEF ConnectEnds, ThreadsOK, QueueInv, OwnerInv, Disposed
<1> QED
  BY <1>1, <1>2, <1>3, <1>4 DEF ConnectSteps

\* The looper's thread runs a callback.
LEMMA RunCallbackKeeps == ASSUME ASInv, RunCallback PROVE ASInv'
<1> USE DEF ASInv, watchVars_, looperVars_, threadVars, disposeVars, ioVars
<1> DEFINE cb == Head(callbacks)
<1>1. /\ looperAt = "idle" /\ callbacks # <<>> /\ callbacks' = Tail(callbacks)
      /\ mInflight' = mInflight - (IF cb \in {"wantRead", "wantWrite"} THEN 1 ELSE 0)
      /\ looperAt' = (IF cb = "close" THEN "close" ELSE "idle")
      /\ counted' = (cb = "close") /\ notified' = (notified \/ cb = "notify")
      /\ UNCHANGED <<mFdWatch, mListener, mConnecting, connectAt, ownerAt, disposeVars>>
  BY DEF RunCallback
<1>2. /\ cb \in Kinds /\ cb = callbacks[1] /\ 1 \in DOMAIN callbacks /\ callbacks' \in Seq(Kinds)
      /\ \A i \in DOMAIN callbacks' : i + 1 \in DOMAIN callbacks /\ i + 1 # 1 /\ callbacks'[i] = callbacks[i + 1]
      /\ \A i \in DOMAIN callbacks' : i \in Int
  BY <1>1 DEF QueueInv
<1>3. mInflight' = Cardinality(Counted(callbacks))' + (IF counted' THEN 1 ELSE 0)
  <2>1. Cardinality(Counted(callbacks)) =
            Cardinality(Counted(Tail(callbacks))) + (IF cb # "notify" THEN 1 ELSE 0)
    BY <1>1, CountedTail DEF QueueInv
  <2>2. Cardinality(Counted(Tail(callbacks))) \in Nat
    BY <1>1, <1>2, CountedAppend
  <2>3. mInflight = Cardinality(Counted(callbacks))
    BY <1>1, <2>1, <2>2 DEF QueueInv
  <2>4. counted' <=> cb = "close"
    BY <1>1, Zenon
  <2>5. CASE cb \in {"wantRead", "wantWrite"}
    BY <1>1, <2>1, <2>2, <2>3, <2>4, <2>5
  <2>6. CASE cb = "close"
    BY <1>1, <2>1, <2>2, <2>3, <2>4, <2>6
  <2>7. CASE cb = "notify"
    BY <1>1, <2>1, <2>2, <2>3, <2>4, <2>7
  <2> QED
    BY <1>2, <2>5, <2>6, <2>7 DEF Kinds
<1>4. \A i \in DOMAIN callbacks' : callbacks'[i] = "notify" =>
          /\ connectAt' = "waiting" /\ ~notified'
          /\ \A j \in DOMAIN callbacks' : callbacks'[j] = "notify" => j = i
  <2> SUFFICES ASSUME NEW i \in DOMAIN callbacks', callbacks'[i] = "notify"
               PROVE  /\ connectAt' = "waiting" /\ ~notified'
                      /\ \A j \in DOMAIN callbacks' : callbacks'[j] = "notify" => j = i
    OBVIOUS
  <2>1. /\ connectAt = "waiting" /\ ~notified
        /\ \A j \in DOMAIN callbacks : callbacks[j] = "notify" => j = i + 1
    BY <1>2 DEF QueueInv
  <2>2. cb # "notify"
    BY <1>2, <2>1
  <2>3. ~notified'
    BY <1>1, <2>1, <2>2, Zenon
  <2>4. \A j \in DOMAIN callbacks' : callbacks'[j] = "notify" => j = i
    BY <1>2, <2>1
  <2> QED
    BY <1>1, <2>1, <2>3, <2>4
<1>5. connectAt' \in {"none", "try", "connected", "locked"} => ~notified'
  BY <1>1, <1>2 DEF QueueInv
<1>6. QueueInv'
  BY <1>1, <1>2, <1>3, <1>4, <1>5 DEF QueueInv
<1>7. ThreadsOK'
  BY <1>1 DEF ThreadsOK
<1>8. OwnerInv'
  BY <1>1 DEF OwnerInv, Disposed
<1> QED
  BY <1>6, <1>7, <1>8

\* The other steps of the looper's thread, and the peer's.
LEMMA LooperStepsKeep ==
  ASSUME ASInv, Recv \/ CloseResets \/ CloseCallsListener \/ CloseEnds \/ OnRead \/ OnReadCalls \/ OnWrite
                \/ PeerSends \/ PeerEnds
  PROVE  ASInv'
<1> USE DEF ASInv, watchVars_, looperVars_, threadVars, disposeVars, ioVars
<1>0. UNCHANGED <<callbacks, connectAt, notified, ownerAt, mListener, disposeVars>>
  BY DEF Recv, CloseResets, CloseCallsListener, CloseEnds, OnRead, OnReadCalls, OnWrite, PeerSends, PeerEnds
<1>1. CASE Recv
  BY <1>0, <1>1 DEF Recv, ThreadsOK, QueueInv, OwnerInv, Disposed
<1>2. CASE CloseResets
  BY <1>0, <1>2 DEF CloseResets, ThreadsOK, QueueInv, OwnerInv, Disposed
<1>3. CASE CloseCallsListener
  BY <1>0, <1>3 DEF CloseCallsListener, ThreadsOK, QueueInv, OwnerInv, Disposed
<1>4. CASE CloseEnds
  <2>1. Cardinality(Counted(callbacks)) \in Nat
    BY CountedAppend DEF QueueInv, Kinds
  <2>2. mInflight' = Cardinality(Counted(callbacks)) /\ counted' = FALSE
    BY <1>4, <2>1 DEF CloseEnds, QueueInv, ThreadsOK
  <2>3. QueueInv'
    BY <1>0, <2>1, <2>2 DEF QueueInv
  <2> QED
    BY <1>0, <1>4, <2>2, <2>3 DEF CloseEnds, ThreadsOK, OwnerInv, Disposed
<1>5. CASE OnRead \/ OnReadCalls
  BY <1>0, <1>5 DEF OnRead, OnReadCalls, ThreadsOK, QueueInv, OwnerInv, Disposed
<1>6. CASE OnWrite \/ PeerSends \/ PeerEnds
  BY <1>0, <1>6 DEF OnWrite, PeerSends, PeerEnds, ThreadsOK, QueueInv, OwnerInv, Disposed
<1> QED
  BY <1>1, <1>2, <1>3, <1>4, <1>5, <1>6

\* NothingOutlivesSocket holds for every bound on what is sent, received and
\* closed: when the destructor of an AsyncSocket has returned, no callback, no
\* thread and no counted close() still refers to it.
THEOREM NothingOutlivesTheorem == ASSpec => []NothingOutlivesSocket
<1>1. ASInv /\ [ASNext]_asVars => ASInv'
  <2> SUFFICES ASSUME ASInv, [ASNext]_asVars PROVE ASInv'
    OBVIOUS
  <2>1. CASE ASNext
    BY <2>1, OwnerCallsKeep, OwnerStepsKeep, ConnectStepsKeep, RunCallbackKeeps, LooperStepsKeep
       DEF ASNext, LooperRuns
  <2>2. CASE UNCHANGED asVars
    BY <2>2 DEF asVars, watchVars_, looperVars_, threadVars, disposeVars, ASInv, ThreadsOK, QueueInv, OwnerInv, Disposed
  <2> QED
    BY <2>1, <2>2
<1>2. ASInv => NothingOutlivesSocket
  BY DEF ASInv, OwnerInv, NothingOutlivesSocket, Disposed
<1> QED
  BY ASInitially, <1>1, <1>2, PTL DEF ASSpec

-----------------------------------------------------------------------------
(* The default looper.  First what std::list::erase() and insert() do to a   *)
(* list without repetitions; then where the node of a timer can be, which is *)
(* what makes erasing it safe.                                               *)

\* The first place of a list with a property, or the place behind its end.
LEMMA FirstPlace ==
  ASSUME NEW n \in Nat, NEW S \in SUBSET (1 .. n)
  PROVE  /\ Min(S \cup {n + 1}) \in 1 .. (n + 1)
         /\ Min(S \cup {n + 1}) \in S \cup {n + 1}
         /\ \A i \in 1 .. (Min(S \cup {n + 1}) - 1) : i \notin S
<1> DEFINE T == S \cup {n + 1}
<1>1. T \in SUBSET Nat /\ T # {} /\ T \subseteq 1 .. (n + 1)
  OBVIOUS
<1>2. \E x \in T : \A y \in T : x <= y
  BY <1>1, LeastNatural
<1> DEFINE m == Min(T)
<1>3. m \in T /\ \A y \in T : m <= y
  BY <1>2 DEF Min
<1> HIDE DEF m
<1>4. m \in 1 .. (n + 1) /\ m \in T
  BY <1>1, <1>3
<1>5. \A i \in 1 .. (m - 1) : i \notin S
  BY <1>3, <1>4
<1> QED  BY <1>4, <1>5 DEF m

\* erase() takes the one node away and leaves the rest in order.
LEMMA EraseFacts ==
  ASSUME NEW S, NEW s \in Seq(S), IsInjective(s), NEW x
  PROVE  /\ Erase(s, x) \in Seq(S)
         /\ ToSet(Erase(s, x)) = ToSet(s) \ {x}
         /\ IsInjective(Erase(s, x))
         /\ x \notin ToSet(s) => Erase(s, x) = s
         /\ \A i, j \in DOMAIN Erase(s, x) : i < j =>
               \E k, l \in DOMAIN s : k < l /\ Erase(s, x)[i] = s[k] /\ Erase(s, x)[j] = s[l]
<1> DEFINE e == Erase(s, x)
<1>1. CASE x \notin ToSet(s)
  <2>1. e = s
    BY <1>1 DEF Erase
  <2> QED  BY <1>1, <2>1, Zenon DEF ToSet
<1>2. CASE x \in ToSet(s)
  <2> DEFINE k == CHOOSE i \in DOMAIN s : s[i] = x
  <2>1. k \in DOMAIN s /\ s[k] = x
    BY <1>2 DEF ToSet
  <2>2. DOMAIN s = 1 .. Len(s) /\ Len(s) \in Nat /\ \A i \in 1 .. Len(s) : s[i] \in S
    BY LenProperties, ElementOfSeq
  <2>3. e = SubSeq(s, 1, k - 1) \o SubSeq(s, k + 1, Len(s))
    BY <1>2 DEF Erase, RemoveAt
  <2> HIDE DEF k
  <2> DEFINE a == SubSeq(s, 1, k - 1)
             b == SubSeq(s, k + 1, Len(s))
  <2>4. a \in Seq(S) /\ Len(a) = k - 1 /\ \A i \in 1 .. (k - 1) : a[i] = s[i]
    <3>1. /\ SubSeq(s, 1, k - 1) \in Seq(S)
          /\ Len(SubSeq(s, 1, k - 1)) = IF 1 <= k - 1 THEN (k - 1) - 1 + 1 ELSE 0
          /\ \A i \in 1 .. (k - 1) - 1 + 1 : SubSeq(s, 1, k - 1)[i] = s[1 + i - 1]
      <4>1. 1 \in Int /\ k - 1 \in Int /\ \A i \in 1 .. (k - 1) : s[i] \in S
        BY <2>1, <2>2
      <4> QED  BY ONLY <4>1, SubSeqProperties
    <3> QED  BY <3>1, <2>1, <2>2
  <2>5. b \in Seq(S) /\ Len(b) = Len(s) - k /\ \A i \in 1 .. (Len(s) - k) : b[i] = s[k + i]
    <3>1. /\ SubSeq(s, k + 1, Len(s)) \in Seq(S)
          /\ Len(SubSeq(s, k + 1, Len(s))) = IF k + 1 <= Len(s) THEN Len(s) - (k + 1) + 1 ELSE 0
          /\ \A i \in 1 .. Len(s) - (k + 1) + 1 : SubSeq(s, k + 1, Len(s))[i] = s[(k + 1) + i - 1]
      <4>1. k + 1 \in Int /\ Len(s) \in Int /\ \A i \in (k + 1) .. Len(s) : s[i] \in S
        BY <2>1, <2>2
      <4> QED  BY ONLY <4>1, SubSeqProperties
    <3>2. \A i \in 1 .. (Len(s) - k) : (k + 1) + i - 1 = k + i
      BY <2>1, <2>2
    <3> QED  BY <3>1, <3>2, <2>1, <2>2
  <2> HIDE DEF a, b
  <2>6. e = a \o b
    BY <2>3 DEF a, b
  <2>7. /\ e \in Seq(S) /\ Len(e) = Len(s) - 1
        /\ \A i \in 1 .. (Len(s) - 1) : e[i] = IF i < k THEN s[i] ELSE s[i + 1]
    <3>1. /\ a \o b \in Seq(S) /\ Len(a \o b) = Len(a) + Len(b)
          /\ \A i \in 1 .. Len(a) + Len(b) : (a \o b)[i] = IF i <= Len(a) THEN a[i] ELSE b[i - Len(a)]
      BY ONLY <2>4, <2>5, ConcatProperties
    <3>2. Len(a) + Len(b) = Len(s) - 1
      BY <2>1, <2>2, <2>4, <2>5
    <3>3. ASSUME NEW i \in 1 .. (Len(s) - 1)
          PROVE  e[i] = IF i < k THEN s[i] ELSE s[i + 1]
      <4>1. CASE i < k
        BY <4>1, <3>1, <3>2, <2>1, <2>2, <2>4, <2>6
      <4>2. CASE ~(i < k)
        <5>1. i - Len(a) \in 1 .. (Len(s) - k) /\ k + (i - Len(a)) = i + 1 /\ ~(i <= Len(a))
          BY <4>2, <2>1, <2>2, <2>4
        <5> QED  BY <5>1, <4>2, <3>1, <3>2, <2>5, <2>6
      <4> QED  BY <4>1, <4>2
    <3> QED  BY <3>1, <3>2, <3>3, <2>6
  <2> HIDE DEF e
  <2>8. DOMAIN e = 1 .. (Len(s) - 1)
    BY <2>7, LenProperties
  <2>9. \A i \in DOMAIN e : e[i] = s[IF i < k THEN i ELSE i + 1] /\ (IF i < k THEN i ELSE i + 1) \in DOMAIN s
    BY <2>1, <2>2, <2>7, <2>8
  <2>10. \A m \in DOMAIN s : m # k =>
            (IF m < k THEN m ELSE m - 1) \in DOMAIN e /\ e[IF m < k THEN m ELSE m - 1] = s[m]
    BY <2>1, <2>2, <2>7, <2>8
  <2>11. ToSet(e) = ToSet(s) \ {x}
    <3>1. \A i \in DOMAIN e : e[i] \in ToSet(s) \ {x}
      <4> TAKE i \in DOMAIN e
      <4>1. (IF i < k THEN i ELSE i + 1) # k
        BY <2>1, <2>2, <2>8
      <4> QED  BY <4>1, <2>1, <2>9 DEF ToSet, IsInjective
    <3>2. \A m \in DOMAIN s : s[m] # x => s[m] \in ToSet(e)
      BY <2>1, <2>10 DEF ToSet
    <3> QED  BY <3>1, <3>2 DEF ToSet
  <2>12. IsInjective(e)
    <3> SUFFICES ASSUME NEW i \in DOMAIN e, NEW j \in DOMAIN e, e[i] = e[j]  PROVE i = j
      BY DEF IsInjective
    <3>1. (IF i < k THEN i ELSE i + 1) = (IF j < k THEN j ELSE j + 1)
      BY <2>9 DEF IsInjective
    <3> QED  BY <3>1, <2>1, <2>2, <2>8
  <2>13. \A i, j \in DOMAIN e : i < j => \E m, l \in DOMAIN s : m < l /\ e[i] = s[m] /\ e[j] = s[l]
    <3> SUFFICES ASSUME NEW i \in DOMAIN e, NEW j \in DOMAIN e, i < j
                 PROVE  \E m, l \in DOMAIN s : m < l /\ e[i] = s[m] /\ e[j] = s[l]
      OBVIOUS
    <3> DEFINE m == IF i < k THEN i ELSE i + 1
               l == IF j < k THEN j ELSE j + 1
    <3>1. m < l
      BY <2>1, <2>2, <2>8
    <3>2. m \in DOMAIN s /\ l \in DOMAIN s /\ e[i] = s[m] /\ e[j] = s[l]
      BY <2>9
    <3> HIDE DEF m, l
    <3> QED  BY <3>1, <3>2
  <2> QED  BY <1>2, <2>7, <2>11, <2>12, <2>13 DEF e
<1> QED  BY <1>1, <1>2

\* A sequence cut in two, at any place.
LEMMA CutFacts ==
  ASSUME NEW S, NEW s \in Seq(S), NEW m \in Int, NEW n \in Int, 1 <= m, m <= n + 1, n <= Len(s)
  PROVE  /\ SubSeq(s, m, n) \in Seq(S) /\ Len(SubSeq(s, m, n)) = n - m + 1
         /\ \A i \in 1 .. (n - m + 1) : SubSeq(s, m, n)[i] = s[m + i - 1]
<1>1. Len(s) \in Nat /\ \A i \in 1 .. Len(s) : s[i] \in S
  BY LenProperties, ElementOfSeq
<1>2. \A i \in m .. n : s[i] \in S
  BY <1>1
<1>3. /\ SubSeq(s, m, n) \in Seq(S)
      /\ Len(SubSeq(s, m, n)) = IF m <= n THEN n - m + 1 ELSE 0
      /\ \A i \in 1 .. n - m + 1 : SubSeq(s, m, n)[i] = s[m + i - 1]
  BY ONLY <1>2, m \in Int, n \in Int, SubSeqProperties
<1> QED  BY <1>3

\* insert() puts one node at its place.
LEMMA InsertFacts ==
  ASSUME NEW S, NEW s \in Seq(S), IsInjective(s), NEW x \in S, x \notin ToSet(s),
         NEW p \in 1 .. (Len(s) + 1)
  PROVE  /\ InsertAt(s, p, x) \in Seq(S)
         /\ ToSet(InsertAt(s, p, x)) = ToSet(s) \cup {x}
         /\ IsInjective(InsertAt(s, p, x))
         /\ DOMAIN InsertAt(s, p, x) = 1 .. (Len(s) + 1)
         /\ \A i \in 1 .. (Len(s) + 1) :
               InsertAt(s, p, x)[i] = IF i < p THEN s[i] ELSE IF i = p THEN x ELSE s[i - 1]
<1> DEFINE r == InsertAt(s, p, x)
           a == SubSeq(s, 1, p - 1)
           b == SubSeq(s, p, Len(s))
           o == <<x>>
<1>1. DOMAIN s = 1 .. Len(s) /\ Len(s) \in Nat /\ p \in Nat
  BY LenProperties
<1>2. a \in Seq(S) /\ Len(a) = p - 1 /\ \A i \in 1 .. (p - 1) : a[i] = s[i]
  <2>1. p - 1 \in Int /\ 1 <= (p - 1) + 1 /\ p - 1 <= Len(s) /\ (p - 1) - 1 + 1 = p - 1
    BY <1>1
  <2>2. /\ SubSeq(s, 1, p - 1) \in Seq(S) /\ Len(SubSeq(s, 1, p - 1)) = (p - 1) - 1 + 1
        /\ \A i \in 1 .. ((p - 1) - 1 + 1) : SubSeq(s, 1, p - 1)[i] = s[1 + i - 1]
    BY <2>1, CutFacts
  <2> QED  BY <2>1, <2>2
<1>3. b \in Seq(S) /\ Len(b) = Len(s) - p + 1 /\ \A i \in 1 .. (Len(s) - p + 1) : b[i] = s[p + i - 1]
  BY <1>1, CutFacts
<1>4. r = (a \o o) \o b
  BY DEF InsertAt
<1>5. o \in Seq(S) /\ Len(o) = 1 /\ o[1] = x
  OBVIOUS
<1> HIDE DEF a, b, o, r
<1>6. /\ a \o o \in Seq(S) /\ Len(a \o o) = p
      /\ \A i \in 1 .. p : (a \o o)[i] = IF i < p THEN s[i] ELSE x
  <2>1. /\ a \o o \in Seq(S) /\ Len(a \o o) = Len(a) + Len(o)
        /\ \A i \in 1 .. Len(a) + Len(o) : (a \o o)[i] = IF i <= Len(a) THEN a[i] ELSE o[i - Len(a)]
    BY ONLY <1>2, <1>5, ConcatProperties
  <2>2. Len(a) + Len(o) = p
    BY <1>1, <1>2, <1>5
  <2>3. ASSUME NEW i \in 1 .. p  PROVE  (a \o o)[i] = IF i < p THEN s[i] ELSE x
    <3>1. CASE i < p
      BY <3>1, <2>1, <2>2, <1>1, <1>2
    <3>2. CASE i = p
      <4>1. i - Len(a) = 1 /\ ~(i <= Len(a))
        BY <3>2, <1>1, <1>2
      <4>2. (a \o o)[i] = o[1]
        BY <4>1, <2>1, <2>2
      <4>3. ~(i < p)
        BY <3>2, <1>1
      <4> QED  BY <4>2, <4>3, <1>5, Zenon
    <3>3. i < p \/ i = p
      BY <1>1
    <3> QED  BY <3>1, <3>2, <3>3, Zenon
  <2> QED  BY <2>1, <2>2, <2>3
<1>7. /\ r \in Seq(S) /\ Len(r) = Len(s) + 1
      /\ \A i \in 1 .. (Len(s) + 1) : r[i] = IF i < p THEN s[i] ELSE IF i = p THEN x ELSE s[i - 1]
  <2> DEFINE c == a \o o
  <2>1. c \in Seq(S) /\ Len(c) = p /\ \A i \in 1 .. p : c[i] = IF i < p THEN s[i] ELSE x
    BY <1>6
  <2> HIDE DEF c
  <2>2. /\ c \o b \in Seq(S) /\ Len(c \o b) = Len(c) + Len(b)
        /\ \A i \in 1 .. Len(c) + Len(b) : (c \o b)[i] = IF i <= Len(c) THEN c[i] ELSE b[i - Len(c)]
    BY ONLY <1>3, <2>1, ConcatProperties
  <2>3. Len(c) + Len(b) = Len(s) + 1 /\ r = c \o b
    BY <1>1, <1>3, <1>4, <2>1 DEF c
  <2>4. ASSUME NEW i \in 1 .. (Len(s) + 1)
        PROVE  r[i] = IF i < p THEN s[i] ELSE IF i = p THEN x ELSE s[i - 1]
    <3>1. CASE i <= p
      BY <3>1, <2>1, <2>2, <2>3, <1>1
    <3>2. CASE ~(i <= p)
      <4>1. i - Len(c) \in 1 .. (Len(s) - p + 1) /\ p + (i - Len(c)) - 1 = i - 1 /\ ~(i <= Len(c))
        BY <3>2, <1>1, <2>1
      <4>2. r[i] = b[i - Len(c)]
        BY <4>1, <2>2, <2>3
      <4>3. b[i - Len(c)] = s[i - 1]
        BY <4>1, <1>3
      <4> QED  BY <4>2, <4>3, <3>2, <1>1
    <3> QED  BY <3>1, <3>2
  <2> QED  BY <2>2, <2>3, <2>4
<1>8. DOMAIN r = 1 .. (Len(s) + 1)
  BY <1>7, LenProperties
<1>9. ToSet(r) = ToSet(s) \cup {x}
  <2>1. \A i \in DOMAIN r : r[i] \in ToSet(s) \cup {x}
    BY <1>1, <1>7, <1>8 DEF ToSet
  <2>2. x \in ToSet(r)
    <3>1. p \in DOMAIN r /\ r[p] = x
      BY <1>1, <1>7, <1>8
    <3> QED  BY <3>1 DEF ToSet
  <2>3. ASSUME NEW i \in DOMAIN s  PROVE  s[i] \in ToSet(r)
    <3>1. CASE i < p
      <4>1. i \in DOMAIN r /\ r[i] = s[i]
        BY <3>1, <1>1, <1>7, <1>8
      <4> QED  BY <4>1 DEF ToSet
    <3>2. CASE ~(i < p)
      <4>1. i + 1 \in DOMAIN r /\ r[i + 1] = s[i]
        <5>1. i + 1 \in 1 .. (Len(s) + 1) /\ ~(i + 1 < p) /\ i + 1 # p /\ (i + 1) - 1 = i
          BY <3>2, <1>1
        <5> QED  BY <5>1, <1>7, <1>8
      <4> QED  BY <4>1 DEF ToSet
    <3> QED  BY <3>1, <3>2
  <2> QED  BY <2>1, <2>2, <2>3 DEF ToSet
<1>10. IsInjective(r)
  <2> SUFFICES ASSUME NEW i \in DOMAIN r, NEW j \in DOMAIN r, r[i] = r[j]  PROVE i = j
    BY DEF IsInjective
  <2> DEFINE g(n) == IF n < p THEN n ELSE n - 1
  <2>1. \A n \in DOMAIN r : n # p => g(n) \in DOMAIN s /\ r[n] = s[g(n)] /\ r[n] # x
    BY <1>1, <1>7, <1>8 DEF ToSet
  <2>2. r[p] = x
    BY <1>1, <1>7
  <2>3. CASE i = p \/ j = p
    BY <2>1, <2>2, <2>3
  <2>4. CASE i # p /\ j # p
    <3>1. g(i) = g(j)
      <4>1. g(i) \in DOMAIN s /\ g(j) \in DOMAIN s /\ s[g(i)] = s[g(j)]
        BY <2>1, <2>4
      <4> HIDE DEF g
      <4> QED  BY <4>1 DEF IsInjective
    <3> QED  BY <3>1, <2>4, <1>1, <1>8
  <2> QED  BY <2>3, <2>4
<1> QED  BY <1>7, <1>8, <1>9, <1>10 DEF r

\* The expired timers leave the list from its front.
LEMMA PrefixFacts ==
  ASSUME NEW S, NEW s \in Seq(S), IsInjective(s), NEW n \in 0 .. Len(s)
  PROVE  /\ SubSeq(s, 1, n) \in Seq(S) /\ SubSeq(s, n + 1, Len(s)) \in Seq(S)
         /\ IsInjective(SubSeq(s, 1, n)) /\ IsInjective(SubSeq(s, n + 1, Len(s)))
         /\ ToSet(SubSeq(s, 1, n)) \cup ToSet(SubSeq(s, n + 1, Len(s))) = ToSet(s)
         /\ ToSet(SubSeq(s, 1, n)) \cap ToSet(SubSeq(s, n + 1, Len(s))) = {}
         /\ \A i \in DOMAIN SubSeq(s, n + 1, Len(s)) :
               i \in Nat /\ n + i \in DOMAIN s /\ SubSeq(s, n + 1, Len(s))[i] = s[n + i]
<1> DEFINE a == SubSeq(s, 1, n)
           b == SubSeq(s, n + 1, Len(s))
<1>1. DOMAIN s = 1 .. Len(s) /\ Len(s) \in Nat /\ n \in Nat /\ n <= Len(s)
  BY LenProperties
<1>2. a \in Seq(S) /\ DOMAIN a = 1 .. n /\ \A i \in 1 .. n : a[i] = s[i]
  <2>1. a \in Seq(S) /\ Len(a) = n - 1 + 1 /\ \A i \in 1 .. (n - 1 + 1) : a[i] = s[1 + i - 1]
    BY <1>1, CutFacts
  <2> HIDE DEF a
  <2>2. n - 1 + 1 = n /\ \A i \in 1 .. n : 1 + i - 1 = i
    BY <1>1
  <2> QED  BY <2>1, <2>2, LenProperties
<1>3. b \in Seq(S) /\ DOMAIN b = 1 .. (Len(s) - n) /\ \A i \in 1 .. (Len(s) - n) : b[i] = s[n + i]
  <2>1. /\ b \in Seq(S) /\ Len(b) = Len(s) - (n + 1) + 1
        /\ \A i \in 1 .. (Len(s) - (n + 1) + 1) : b[i] = s[(n + 1) + i - 1]
    <3>1. n + 1 \in Int /\ Len(s) \in Int /\ 1 <= n + 1 /\ n + 1 <= Len(s) + 1 /\ Len(s) <= Len(s)
      BY <1>1
    <3> QED  BY ONLY <3>1, s \in Seq(S), CutFacts DEF b
  <2> HIDE DEF b
  <2>2. Len(s) - (n + 1) + 1 = Len(s) - n /\ \A i \in 1 .. (Len(s) - n) : (n + 1) + i - 1 = n + i
    BY <1>1
  <2> QED  BY <2>1, <2>2, LenProperties
<1> HIDE DEF a, b
<1>4. IsInjective(a) /\ IsInjective(b)
  <2>1. \A i \in DOMAIN a : i \in DOMAIN s
    BY <1>1, <1>2
  <2>2. \A i \in DOMAIN b : n + i \in DOMAIN s
    BY <1>1, <1>3
  <2>3. ASSUME NEW i \in DOMAIN b, NEW j \in DOMAIN b, b[i] = b[j]  PROVE i = j
    <3>1. n + i = n + j
      BY <2>2, <2>3, <1>3 DEF IsInjective
    <3> QED  BY <3>1, <1>1, <1>3
  <2> QED  BY <2>1, <2>3, <1>2 DEF IsInjective
<1>5. ToSet(a) \cup ToSet(b) = ToSet(s)
  <2>1. \A i \in DOMAIN a : a[i] \in ToSet(s)
    BY <1>1, <1>2 DEF ToSet
  <2>2. ASSUME NEW i \in DOMAIN b  PROVE  b[i] \in ToSet(s)
    <3>1. n + i \in DOMAIN s /\ b[i] = s[n + i]
      BY <1>1, <1>3
    <3> QED  BY <3>1 DEF ToSet
  <2>3. ASSUME NEW i \in DOMAIN s  PROVE  s[i] \in ToSet(a) \cup ToSet(b)
    <3>1. CASE i <= n
      BY <3>1, <1>1, <1>2 DEF ToSet
    <3>2. CASE ~(i <= n)
      <4>1. i - n \in DOMAIN b /\ n + (i - n) = i
        BY <3>2, <1>1, <1>3
      <4> QED  BY <4>1, <1>3 DEF ToSet
    <3> QED  BY <3>1, <3>2
  <2> QED  BY <2>1, <2>2, <2>3 DEF ToSet
<1>6. ToSet(a) \cap ToSet(b) = {}
  <2>1. ASSUME NEW i \in DOMAIN a, NEW j \in DOMAIN b  PROVE  a[i] # b[j]
    <3>1. i \in DOMAIN s /\ n + j \in DOMAIN s /\ i # n + j
      BY <1>1, <1>2, <1>3
    <3> QED  BY <3>1, <1>2, <1>3 DEF IsInjective
  <2> QED  BY <2>1 DEF ToSet
<1>7. \A i \in DOMAIN b : i \in Nat /\ n + i \in DOMAIN s /\ b[i] = s[n + i]
  BY <1>1, <1>3
<1> QED  BY <1>2, <1>3, <1>4, <1>5, <1>6, <1>7 DEF a, b

\* Two lists without repetitions that share nothing are one when joined.
LEMMA JoinFacts ==
  ASSUME NEW S, NEW a \in Seq(S), NEW b \in Seq(S), IsInjective(a), IsInjective(b),
         ToSet(a) \cap ToSet(b) = {}
  PROVE  IsInjective(a \o b)
<1> DEFINE c == a \o b
<1>1. /\ DOMAIN a = 1 .. Len(a) /\ Len(a) \in Nat
      /\ DOMAIN b = 1 .. Len(b) /\ Len(b) \in Nat
  BY LenProperties
<1>2. /\ c \in Seq(S) /\ Len(c) = Len(a) + Len(b)
      /\ \A i \in 1 .. Len(a) + Len(b) : c[i] = IF i <= Len(a) THEN a[i] ELSE b[i - Len(a)]
  BY ONLY a \in Seq(S), b \in Seq(S), ConcatProperties
<1> HIDE DEF c
<1>3. DOMAIN c = 1 .. (Len(a) + Len(b))
  BY <1>2, LenProperties
<1>4. ASSUME NEW i \in DOMAIN c, NEW j \in DOMAIN c, c[i] = c[j]  PROVE i = j
  <2>1. \A n \in DOMAIN c : n <= Len(a) => n \in DOMAIN a /\ c[n] = a[n]
    BY <1>1, <1>2, <1>3
  <2>2. \A n \in DOMAIN c : ~(n <= Len(a)) => n - Len(a) \in DOMAIN b /\ c[n] = b[n - Len(a)]
    BY <1>1, <1>2, <1>3
  <2>3. CASE i <= Len(a) /\ j <= Len(a)
    BY <2>1, <2>3, <1>4 DEF IsInjective
  <2>4. CASE ~(i <= Len(a)) /\ ~(j <= Len(a))
    <3>1. i - Len(a) = j - Len(a)
      BY <2>2, <2>4, <1>4 DEF IsInjective
    <3> QED  BY <3>1, <1>1, <1>3
  <2>5. CASE (i <= Len(a)) # (j <= Len(a))
    BY <2>1, <2>2, <2>5, <1>4 DEF ToSet
  <2> QED  BY <2>3, <2>4, <2>5
<1> QED  BY <1>4 DEF IsInjective, c

\* Which list a timer's node is in, what the timer knows of it, and who owns it.
NodeOK(t) ==
    /\ t \in ToSet(mActiveTimers) <=> mTimers[t] = "active"
    /\ t \in ToSet(mPendingTimers) <=> mTimers[t] = "pending"
    /\ mTimerPending[t] <=> mTimers[t] = "pending"
    /\ mTimers[t] # "none" => t \in liveTimers
    /\ t \in liveTimers => (mDeadline[t] # kDurationInfinite <=> mTimers[t] # "none")

\* The active timers in the order of their deadlines.
InOrder ==
    \A i, j \in DOMAIN mActiveTimers : i < j => mDeadline[mActiveTimers[i]] <= mDeadline[mActiveTimers[j]]

TimerTypes ==
    /\ mActiveTimers \in Seq(Timers) /\ mPendingTimers \in Seq(Timers)
    /\ IsInjective(mActiveTimers) /\ IsInjective(mPendingTimers)
    /\ mDeadline \in [Timers -> 0 .. kDurationInfinite]
    /\ mTimers \in [Timers -> {"none", "active", "pending"}]

\* Timers wait in the pending list only while the looper fires them.
TimersInv ==
    /\ liveTimers \subseteq Timers /\ mTimerPending \in [Timers -> BOOLEAN]
    /\ TimerTypes
    /\ \A t \in Timers : NodeOK(t)
    /\ InOrder
    /\ mPendingTimers # <<>> => loopPc = "timers"

\* A pending watch is alive and in the list once, with events it wants.
WatchesInv ==
    /\ liveWatches \subseteq Watches /\ mPendingFdWatches \in Seq(Watches) /\ IsInjective(mPendingFdWatches)
    /\ mWantedEvents \in [Watches -> SUBSET Events] /\ mLastEvents \in [Watches -> SUBSET Events]
    /\ ToSet(mPendingFdWatches) \subseteq liveWatches
    /\ \A w \in liveWatches : mLastEvents[w] \subseteq mWantedEvents[w]
    /\ mPendingFdWatches # <<>> => loopPc \in {"timers", "watches"}

\* A task that is scheduled is alive, and one that deletes itself is not taken too.
TasksInv ==
    /\ mScheduledTasks \subseteq liveTasks
    /\ mScheduledTasks \cap batch \cap OneShots = {}

\* What holds until the program misuses the looper.
SoundInv == TimersInv /\ batch \subseteq liveTasks /\ ~dangling

DLInv == now \in Nat /\ WatchesInv /\ TasksInv /\ (~misused => SoundInv)

\* At first nothing exists.
LEMMA DLInitially == DLInit => DLInv
<1> SUFFICES ASSUME DLInit PROVE DLInv
  OBVIOUS
<1>1. ToSet(<<>>) = {} /\ \A S : <<>> \in Seq(S)
  BY DEF ToSet
<1>2. IsInjective(<<>>)
  BY DEF IsInjective
<1>3. kDurationInfinite \in Nat
  BY LooperAssumption DEF kDurationInfinite
<1>4. TimersInv
  <2>1. liveTimers \subseteq Timers /\ mPendingTimers = <<>>
    BY DEF DLInit
  <2>2. mTimerPending \in [Timers -> BOOLEAN] /\ \A t \in Timers : ~mTimerPending[t]
    BY Zenon DEF DLInit
  <2>3. TimerTypes
    <3>1. mDeadline \in [Timers -> 0 .. kDurationInfinite]
      BY <1>3 DEF DLInit
    <3>2. mTimers \in [Timers -> {"none", "active", "pending"}]
      BY DEF DLInit
    <3> QED  BY <3>1, <3>2, <1>1, <1>2, Zenon DEF DLInit, TimerTypes
  <2>4. ASSUME NEW t \in Timers  PROVE  NodeOK(t)
    BY <1>1, <2>2 DEF DLInit, NodeOK
  <2>5. InOrder
    BY DEF DLInit, InOrder
  <2> QED  BY <2>1, <2>2, <2>3, <2>4, <2>5 DEF TimersInv
<1>5. WatchesInv
  BY <1>1, <1>2 DEF DLInit, WatchesInv, Events
<1>6. TasksInv /\ ~dangling /\ batch \subseteq liveTasks /\ now \in Nat
  BY DEF DLInit, TasksInv
<1> QED  BY <1>4, <1>5, <1>6 DEF DLInv, SoundInv

\* What the step leaves alone stays good.
LEMMA TimersUnchanged ==
  ASSUME TimersInv, UNCHANGED timerVars, loopPc = "timers" => loopPc' = "timers" \/ mPendingTimers = <<>>
  PROVE  TimersInv'
  BY DEF TimersInv, TimerTypes, NodeOK, InOrder, timerVars

LEMMA WatchesUnchanged ==
  ASSUME WatchesInv, UNCHANGED watchVars,
         mPendingFdWatches # <<>> => loopPc' \in {"timers", "watches"}
  PROVE  WatchesInv'
  BY DEF WatchesInv, watchVars

LEMMA TasksUnchanged ==
  ASSUME TasksInv, UNCHANGED taskVars
  PROVE  TasksInv'
  BY DEF TasksInv, taskVars

\* A new timer is in no list.
LEMMA CreateTimerKeeps ==
  ASSUME TimersInv, NEW t \in Timers, CreateTimer(t)
  PROVE  TimersInv'
<1>1. kDurationInfinite \in Nat
  BY LooperAssumption DEF kDurationInfinite
<1>2. UNCHANGED <<mActiveTimers, mPendingTimers, mTimers, loopPc>> /\ liveTimers' = liveTimers \cup {t}
  BY DEF CreateTimer, loopVars
<1>3. /\ mDeadline' \in [Timers -> 0 .. kDurationInfinite]
      /\ mDeadline'[t] = kDurationInfinite /\ \A u \in Timers \ {t} : mDeadline'[u] = mDeadline[u]
  BY <1>1 DEF CreateTimer, TimersInv, TimerTypes
<1>4. mTimerPending' \in [Timers -> BOOLEAN] /\ ~mTimerPending'[t] /\ \A u \in Timers \ {t} : mTimerPending'[u] = mTimerPending[u]
  BY Zenon DEF CreateTimer, TimersInv
<1>5. mTimers[t] = "none" /\ t \notin ToSet(mActiveTimers)
  BY DEF CreateTimer
<1>6. TimerTypes'
  BY <1>2, <1>3 DEF TimersInv, TimerTypes
<1>7. ASSUME NEW u \in Timers  PROVE  NodeOK(u)'
  <2>1. NodeOK(u)
    BY DEF TimersInv
  <2>2. CASE u = t
    BY <2>1, <2>2, <1>2, <1>3, <1>4, <1>5 DEF NodeOK
  <2>3. CASE u # t
    BY <2>1, <2>3, <1>2, <1>3, <1>4 DEF NodeOK
  <2> QED  BY <2>2, <2>3
<1>8. InOrder'
  <2>1. \A i \in DOMAIN mActiveTimers : mActiveTimers[i] \in Timers \ {t}
    BY <1>5 DEF ToSet, TimersInv, TimerTypes
  <2>2. \A i \in DOMAIN mActiveTimers : mDeadline'[mActiveTimers[i]] = mDeadline[mActiveTimers[i]]
    BY <2>1, <1>3
  <2> QED  BY <2>2, <1>2 DEF InOrder, TimersInv
<1>9. liveTimers' \subseteq Timers /\ (mPendingTimers' # <<>> => loopPc' = "timers")
  BY <1>2 DEF TimersInv
<1> QED  BY <1>4, <1>6, <1>7, <1>8, <1>9 DEF TimersInv

\* A timer that is in no list is inserted where the list stays in order.
LEMMA InsertedInOrder ==
  ASSUME NEW list \in Seq(Timers), IsInjective(list), NEW t \in Timers, t \notin ToSet(list),
         NEW deadline \in Nat, mDeadline \in [Timers -> 0 .. kDurationInfinite],
         \A i, j \in DOMAIN list : i < j => mDeadline[list[i]] <= mDeadline[list[j]],
         NEW D, D \in [Timers -> 0 .. kDurationInfinite], D[t] = deadline,
         \A u \in Timers \ {t} : D[u] = mDeadline[u]
  PROVE  /\ InsertByDeadline(list, t, deadline) \in Seq(Timers)
         /\ ToSet(InsertByDeadline(list, t, deadline)) = ToSet(list) \cup {t}
         /\ IsInjective(InsertByDeadline(list, t, deadline))
         /\ \A i, j \in DOMAIN InsertByDeadline(list, t, deadline) : i < j =>
               D[InsertByDeadline(list, t, deadline)[i]] <= D[InsertByDeadline(list, t, deadline)[j]]
<1> DEFINE Later == {i \in DOMAIN list : mDeadline[list[i]] > deadline}
           p == Min(Later \cup {Len(list) + 1})
           r == InsertAt(list, p, t)
<1>1. DOMAIN list = 1 .. Len(list) /\ Len(list) \in Nat
  BY LenProperties
<1>2. kDurationInfinite \in Nat
  BY LooperAssumption DEF kDurationInfinite
<1>3. InsertByDeadline(list, t, deadline) = r
  BY DEF InsertByDeadline
<1>4. p \in 1 .. (Len(list) + 1) /\ p \in Later \cup {Len(list) + 1} /\ \A i \in 1 .. (p - 1) : i \notin Later
  <2>1. Later \in SUBSET (1 .. Len(list))
    BY <1>1
  <2> HIDE DEF Later
  <2> QED  BY <2>1, <1>1, FirstPlace
<1> HIDE DEF p
<1>5. /\ r \in Seq(Timers) /\ ToSet(r) = ToSet(list) \cup {t} /\ IsInjective(r)
      /\ DOMAIN r = 1 .. (Len(list) + 1)
      /\ \A i \in 1 .. (Len(list) + 1) : r[i] = IF i < p THEN list[i] ELSE IF i = p THEN t ELSE list[i - 1]
  BY <1>4, InsertFacts
<1> HIDE DEF r
<1>6. \A i \in DOMAIN list : list[i] \in Timers /\ D[list[i]] = mDeadline[list[i]] /\ mDeadline[list[i]] \in Nat
  BY <1>2 DEF ToSet
<1>7. \A i \in DOMAIN list : i < p => mDeadline[list[i]] <= deadline
  BY <1>1, <1>4, <1>6
<1>8. \A i \in DOMAIN list : i >= p => deadline <= mDeadline[list[i]]
  <2> TAKE i \in DOMAIN list
  <2> HAVE i >= p
  <2>1. p \in Later
    BY <1>1, <1>4
  <2>2. mDeadline[list[p]] > deadline /\ p \in DOMAIN list
    BY <2>1
  <2>3. mDeadline[list[p]] <= mDeadline[list[i]]
    <3>1. CASE i = p
      BY <3>1, <2>2, <1>6
    <3>2. CASE p < i
      BY <3>2, <2>2
    <3> QED  BY <3>1, <3>2, <1>1, <1>4
  <2> QED  BY <2>2, <2>3, <1>6
<1> HIDE DEF Later
<1>9. ASSUME NEW i \in DOMAIN r, NEW j \in DOMAIN r, i < j
      PROVE  D[r[i]] <= D[r[j]]
  <2> DEFINE n == Len(list)
  <2>1. /\ i \in Nat /\ j \in Nat /\ p \in Nat /\ n \in Nat
        /\ 1 <= i /\ i <= n + 1 /\ 1 <= j /\ j <= n + 1 /\ 1 <= p /\ p <= n + 1
    BY <1>1, <1>4, <1>5
  <2>2. \A m \in Nat : 1 <= m /\ m <= n => m \in DOMAIN list
    BY <1>1
  <2>3. /\ r[i] = IF i < p THEN list[i] ELSE IF i = p THEN t ELSE list[i - 1]
        /\ r[j] = IF j < p THEN list[j] ELSE IF j = p THEN t ELSE list[j - 1]
    BY <1>5
  <2> HIDE DEF n
  <2>4. CASE j < p
    <3>1. i < p /\ i <= n /\ j <= n
      BY ONLY <2>1, <2>4, <1>9
    <3>2. i \in DOMAIN list /\ j \in DOMAIN list /\ r[i] = list[i] /\ r[j] = list[j]
      BY <3>1, <2>1, <2>2, <2>3, <2>4
    <3> QED  BY <3>1, <3>2, <1>6, <1>9
  <2>5. CASE j = p
    <3>1. i < p /\ i <= n /\ ~(j < p)
      BY ONLY <2>1, <2>5, <1>9
    <3>2. i \in DOMAIN list /\ r[i] = list[i] /\ r[j] = t
      BY <3>1, <2>1, <2>2, <2>3, <2>5
    <3> QED  BY <3>1, <3>2, <1>6, <1>7
  <2>6. CASE j > p /\ i < p
    <3>1. i <= n /\ j - 1 \in Nat /\ 1 <= j - 1 /\ j - 1 <= n /\ i < j /\ ~(j < p) /\ j # p /\ i < j - 1
      BY ONLY <2>1, <2>6, <1>9
    <3>2. i \in DOMAIN list /\ j - 1 \in DOMAIN list /\ r[i] = list[i] /\ r[j] = list[j - 1]
      BY <3>1, <2>1, <2>2, <2>3, <2>6
    <3> QED  BY <3>1, <3>2, <1>6
  <2>7. CASE j > p /\ i = p
    <3>1. j - 1 \in Nat /\ 1 <= j - 1 /\ j - 1 <= n /\ j - 1 >= p /\ ~(i < p) /\ ~(j < p) /\ j # p
      BY ONLY <2>1, <2>7, <1>9
    <3>2. j - 1 \in DOMAIN list /\ r[i] = t /\ r[j] = list[j - 1]
      BY <3>1, <2>1, <2>2, <2>3, <2>7
    <3> QED  BY <3>1, <3>2, <1>6, <1>8
  <2>8. CASE j > p /\ i > p
    <3>1. /\ i - 1 \in Nat /\ 1 <= i - 1 /\ i - 1 <= n /\ j - 1 \in Nat /\ 1 <= j - 1 /\ j - 1 <= n
          /\ i - 1 < j - 1 /\ ~(i < p) /\ i # p /\ ~(j < p) /\ j # p
      BY ONLY <2>1, <2>8, <1>9
    <3>2. i - 1 \in DOMAIN list /\ j - 1 \in DOMAIN list /\ r[i] = list[i - 1] /\ r[j] = list[j - 1]
      BY <3>1, <2>1, <2>2, <2>3, <2>8
    <3> QED  BY <3>1, <3>2, <1>6
  <2> QED  BY <2>1, <2>4, <2>5, <2>6, <2>7, <2>8
<1> QED  BY <1>3, <1>5, <1>9

\* A list without one of its timers is still in order.
LEMMA ErasedInOrder ==
  ASSUME TimersInv, NEW t
  PROVE  /\ Erase(mActiveTimers, t) \in Seq(Timers) /\ IsInjective(Erase(mActiveTimers, t))
         /\ ToSet(Erase(mActiveTimers, t)) = ToSet(mActiveTimers) \ {t}
         /\ \A i, j \in DOMAIN Erase(mActiveTimers, t) : i < j =>
               mDeadline[Erase(mActiveTimers, t)[i]] <= mDeadline[Erase(mActiveTimers, t)[j]]
<1> DEFINE e == Erase(mActiveTimers, t)
<1>1. mActiveTimers \in Seq(Timers) /\ IsInjective(mActiveTimers)
  BY DEF TimersInv, TimerTypes
<1>2. /\ e \in Seq(Timers) /\ ToSet(e) = ToSet(mActiveTimers) \ {t} /\ IsInjective(e)
      /\ \A i, j \in DOMAIN e : i < j =>
            \E k, l \in DOMAIN mActiveTimers : k < l /\ e[i] = mActiveTimers[k] /\ e[j] = mActiveTimers[l]
  BY <1>1, EraseFacts
<1> HIDE DEF e
<1>3. ASSUME NEW i \in DOMAIN e, NEW j \in DOMAIN e, i < j
      PROVE  mDeadline[e[i]] <= mDeadline[e[j]]
  <2>1. PICK k \in DOMAIN mActiveTimers, l \in DOMAIN mActiveTimers :
           k < l /\ e[i] = mActiveTimers[k] /\ e[j] = mActiveTimers[l]
    BY <1>2, <1>3
  <2> QED  BY <2>1 DEF TimersInv, InOrder
<1> QED  BY <1>2, <1>3 DEF e

\* A timer that is not pending is taken out of the active list and put where
\* its new deadline belongs.
LEMMA StartAbsoluteKeeps ==
  ASSUME TimersInv, ~misused', NEW t \in Timers, NEW deadline \in 0 .. kDurationInfinite,
         StartAbsolute(t, deadline), ~dangling
  PROVE  TimersInv' /\ ~dangling'
<1> DEFINE armed == mDeadline[t] # kDurationInfinite
           active == Erase(mActiveTimers, t)
<1>1. kDurationInfinite \in Nat /\ deadline \in Nat
  BY LooperAssumption DEF kDurationInfinite
<1>2. NodeOK(t) /\ t \in liveTimers /\ ~mTimerPending[t]
  <2>1. misused' = (misused \/ mTimerPending[t])
    BY DEF StartAbsolute
  <2>2. ~mTimerPending[t]
    BY <2>1, Zenon
  <2> QED  BY <2>2 DEF StartAbsolute, TimersInv
<1>3. t \notin ToSet(mPendingTimers) /\ (armed <=> mTimers[t] = "active")
  BY <1>2 DEF NodeOK, TimersInv, TimerTypes
<1>4. /\ active \in Seq(Timers) /\ IsInjective(active) /\ ToSet(active) = ToSet(mActiveTimers) \ {t}
      /\ \A i, j \in DOMAIN active : i < j => mDeadline[active[i]] <= mDeadline[active[j]]
  BY ErasedInOrder
<1>5. UNCHANGED <<mPendingTimers, liveTimers, mTimerPending, loopPc>>
  <2>1. mPendingTimers \in Seq(Timers) /\ IsInjective(mPendingTimers)
    BY DEF TimersInv, TimerTypes
  <2>2. Erase(mPendingTimers, t) = mPendingTimers
    BY <2>1, <1>3, EraseFacts
  <2> QED  BY <2>2 DEF StartAbsolute, loopVars
<1>6. /\ mDeadline' \in [Timers -> 0 .. kDurationInfinite] /\ mDeadline'[t] = deadline
      /\ \A u \in Timers \ {t} : mDeadline'[u] = mDeadline[u]
  BY DEF StartAbsolute, TimersInv, TimerTypes
<1>7. /\ mTimers' \in [Timers -> {"none", "active", "pending"}]
      /\ mTimers'[t] = (IF deadline # kDurationInfinite THEN "active" ELSE "none")
      /\ \A u \in Timers \ {t} : mTimers'[u] = mTimers[u]
  <2>1. ~armed => mTimers[t] = "none"
    BY <1>2, <1>3 DEF NodeOK, TimersInv, TimerTypes
  <2> QED  BY <2>1 DEF StartAbsolute, TimersInv, TimerTypes
<1>8. ~dangling'
  <2>1. dangling' = \/ dangling
                    \/ armed /\ mTimers[t] = "none"
                    \/ deadline # kDurationInfinite /\ ~(ToSet(active) \subseteq liveTimers)
    BY DEF StartAbsolute
  <2>2. ~(armed /\ mTimers[t] = "none")
    BY <1>3
  <2>3. ToSet(active) \subseteq liveTimers
    <3>1. \A u \in ToSet(mActiveTimers) : u \in Timers
      BY DEF ToSet, TimersInv, TimerTypes
    <3> HIDE DEF active
    <3> QED  BY <3>1, <1>4 DEF TimersInv, NodeOK
  <2> HIDE DEF armed, active
  <2> QED  BY <2>1, <2>2, <2>3, Zenon
<1>9. /\ mActiveTimers' \in Seq(Timers) /\ IsInjective(mActiveTimers')
      /\ ToSet(mActiveTimers') = IF deadline = kDurationInfinite THEN ToSet(mActiveTimers) \ {t}
                                 ELSE ToSet(mActiveTimers) \cup {t}
      /\ \A i, j \in DOMAIN mActiveTimers' : i < j => mDeadline'[mActiveTimers'[i]] <= mDeadline'[mActiveTimers'[j]]
  <2>1. CASE deadline = kDurationInfinite
    <3>1. mActiveTimers' = active
      BY <2>1 DEF StartAbsolute
    <3> HIDE DEF active
    <3>2. \A i \in DOMAIN active : mDeadline'[active[i]] = mDeadline[active[i]]
      <4>1. active \in Seq(Timers) /\ t \notin ToSet(active)
        BY <1>4
      <4>2. \A i \in DOMAIN active : active[i] \in Timers /\ active[i] \in ToSet(active)
        BY <4>1 DEF ToSet
      <4>3. \A i \in DOMAIN active : active[i] \in Timers \ {t}
        BY <4>1, <4>2
      <4> QED  BY <4>3, <1>6
    <3> QED  BY <2>1, <3>1, <3>2, <1>4
  <2>2. CASE deadline # kDurationInfinite
    <3>1. mActiveTimers' = InsertByDeadline(active, t, deadline)
      BY <2>2 DEF StartAbsolute
    <3> HIDE DEF active
    <3>2. t \notin ToSet(active) /\ mDeadline \in [Timers -> 0 .. kDurationInfinite]
      BY <1>4 DEF TimersInv, TimerTypes
    <3>3. /\ mActiveTimers' \in Seq(Timers) /\ ToSet(mActiveTimers') = ToSet(active) \cup {t}
          /\ IsInjective(mActiveTimers')
          /\ \A i, j \in DOMAIN mActiveTimers' : i < j => mDeadline'[mActiveTimers'[i]] <= mDeadline'[mActiveTimers'[j]]
      BY <3>1, <3>2, <1>1, <1>4, <1>6, InsertedInOrder
    <3> QED  BY <2>2, <3>3, <1>4
  <2> QED  BY <2>1, <2>2
<1>10. TimerTypes'
  BY <1>5, <1>6, <1>7, <1>9 DEF TimersInv, TimerTypes
<1>11. InOrder'
  BY <1>9 DEF InOrder
<1>12. ASSUME NEW u \in Timers  PROVE  NodeOK(u)'
  <2>1. NodeOK(u)
    BY DEF TimersInv
  <2>2. CASE u = t
    BY <2>2, <1>2, <1>3, <1>5, <1>6, <1>7, <1>9 DEF NodeOK
  <2>3. CASE u # t
    BY <2>1, <2>3, <1>5, <1>6, <1>7, <1>9 DEF NodeOK
  <2> QED  BY <2>2, <2>3
<1>13. /\ liveTimers' \subseteq Timers /\ mTimerPending' \in [Timers -> BOOLEAN]
       /\ mPendingTimers' # <<>> => loopPc' = "timers"
  BY <1>5 DEF TimersInv
<1> QED  BY <1>8, <1>10, <1>11, <1>12, <1>13 DEF TimersInv

\* clearPending() of a timer that is not active.
LEMMA ClearPendingFacts ==
  ASSUME TimersInv, NEW t \in liveTimers, ClearPending(t), mTimers[t] # "active", ~dangling
  PROVE  /\ UNCHANGED mActiveTimers /\ ~dangling'
         /\ mPendingTimers' \in Seq(Timers) /\ IsInjective(mPendingTimers')
         /\ ToSet(mPendingTimers') = ToSet(mPendingTimers) \ {t}
         /\ mPendingTimers = <<>> => mPendingTimers' = <<>>
         /\ mDeadline' \in [Timers -> 0 .. kDurationInfinite] /\ mDeadline'[t] = kDurationInfinite
         /\ \A u \in Timers \ {t} : mDeadline'[u] = mDeadline[u]
         /\ mTimerPending' \in [Timers -> BOOLEAN] /\ ~mTimerPending'[t]
         /\ \A u \in Timers \ {t} : mTimerPending'[u] = mTimerPending[u]
<1>1. kDurationInfinite \in Nat
  BY LooperAssumption DEF kDurationInfinite
<1>2. t \in Timers /\ NodeOK(t)
  BY DEF TimersInv
<1>3. /\ mTimerPending[t] <=> mTimers[t] = "pending"
      /\ ~mTimerPending[t] => mDeadline[t] = kDurationInfinite
      /\ t \notin ToSet(mActiveTimers) /\ (t \in ToSet(mPendingTimers) <=> mTimers[t] = "pending")
  BY <1>2 DEF NodeOK, TimersInv, TimerTypes
<1>4. /\ mActiveTimers \in Seq(Timers) /\ IsInjective(mActiveTimers)
      /\ mPendingTimers \in Seq(Timers) /\ IsInjective(mPendingTimers)
  BY DEF TimersInv, TimerTypes
<1>5. Erase(mActiveTimers, t) = mActiveTimers
  BY <1>3, <1>4, EraseFacts
<1>6. /\ Erase(mPendingTimers, t) \in Seq(Timers) /\ IsInjective(Erase(mPendingTimers, t))
      /\ ToSet(Erase(mPendingTimers, t)) = ToSet(mPendingTimers) \ {t}
      /\ t \notin ToSet(mPendingTimers) => Erase(mPendingTimers, t) = mPendingTimers
  BY <1>4, EraseFacts
<1>7. UNCHANGED mActiveTimers /\ mPendingTimers' = Erase(mPendingTimers, t)
  BY <1>3, <1>5, <1>6 DEF ClearPending
<1>8. ~dangling'
  <2>1. dangling' = (dangling \/ (mTimerPending[t] /\ mTimers[t] = "none"))
    BY DEF ClearPending
  <2>2. ~(mTimerPending[t] /\ mTimers[t] = "none")
    BY <1>3
  <2> QED  BY <2>1, <2>2
<1>9. /\ mDeadline' \in [Timers -> 0 .. kDurationInfinite] /\ mDeadline'[t] = kDurationInfinite
      /\ \A u \in Timers \ {t} : mDeadline'[u] = mDeadline[u]
  <2>1. mDeadline' = [mDeadline EXCEPT ![t] = kDurationInfinite]
    BY <1>2, <1>3 DEF ClearPending, TimersInv, TimerTypes
  <2> QED  BY <2>1, <1>1, <1>2 DEF TimersInv, TimerTypes
<1>10. /\ mTimerPending' \in [Timers -> BOOLEAN] /\ ~mTimerPending'[t]
       /\ \A u \in Timers \ {t} : mTimerPending'[u] = mTimerPending[u]
  BY <1>2, Zenon DEF ClearPending, TimersInv
<1>11. mPendingTimers = <<>> => mPendingTimers' = <<>>
  <2>1. ToSet(<<>>) = {}
    BY DEF ToSet
  <2> QED  BY <2>1, <1>6, <1>7
<1> QED  BY <1>6, <1>7, <1>8, <1>9, <1>10, <1>11

\* A timer that is cleared and leaves its list.
LEMMA ClearedTimerKeeps ==
  ASSUME TimersInv, NEW t \in liveTimers, ClearPending(t), mTimers[t] # "active", ~dangling,
         mTimers' = [mTimers EXCEPT ![t] = "none"], liveTimers' \in {liveTimers, liveTimers \ {t}},
         UNCHANGED loopPc
  PROVE  TimersInv' /\ ~dangling'
<1>1. /\ UNCHANGED mActiveTimers /\ ~dangling'
      /\ mPendingTimers' \in Seq(Timers) /\ IsInjective(mPendingTimers')
      /\ ToSet(mPendingTimers') = ToSet(mPendingTimers) \ {t}
      /\ mPendingTimers = <<>> => mPendingTimers' = <<>>
      /\ mDeadline' \in [Timers -> 0 .. kDurationInfinite] /\ mDeadline'[t] = kDurationInfinite
      /\ \A u \in Timers \ {t} : mDeadline'[u] = mDeadline[u]
      /\ mTimerPending' \in [Timers -> BOOLEAN] /\ ~mTimerPending'[t]
      /\ \A u \in Timers \ {t} : mTimerPending'[u] = mTimerPending[u]
  BY ClearPendingFacts
<1>2. t \in Timers /\ NodeOK(t) /\ t \notin ToSet(mActiveTimers)
  BY DEF TimersInv, NodeOK
<1>3. /\ mTimers' \in [Timers -> {"none", "active", "pending"}] /\ mTimers'[t] = "none"
      /\ \A u \in Timers \ {t} : mTimers'[u] = mTimers[u]
  BY <1>2 DEF TimersInv, TimerTypes
<1>4. TimerTypes'
  BY <1>1, <1>3 DEF TimersInv, TimerTypes
<1>5. ASSUME NEW u \in Timers  PROVE  NodeOK(u)'
  <2>1. NodeOK(u)
    BY DEF TimersInv
  <2>2. CASE u = t
    BY <2>2, <1>1, <1>2, <1>3 DEF NodeOK
  <2>3. CASE u # t
    BY <2>1, <2>3, <1>1, <1>3 DEF NodeOK
  <2> QED  BY <2>2, <2>3
<1>6. InOrder'
  <2>1. \A i \in DOMAIN mActiveTimers : mActiveTimers[i] \in Timers \ {t}
    BY <1>2 DEF ToSet, TimersInv, TimerTypes
  <2>2. \A i \in DOMAIN mActiveTimers : mDeadline'[mActiveTimers[i]] = mDeadline[mActiveTimers[i]]
    BY <2>1, <1>1
  <2> QED  BY <2>2, <1>1 DEF InOrder, TimersInv
<1>7. /\ liveTimers' \subseteq Timers /\ mTimerPending' \in [Timers -> BOOLEAN]
      /\ mPendingTimers' # <<>> => loopPc' = "timers"
  BY <1>1 DEF TimersInv
<1> QED  BY <1>1, <1>4, <1>5, <1>6, <1>7 DEF TimersInv

\* ~Timer().
LEMMA DeleteTimerKeeps ==
  ASSUME TimersInv, ~misused', NEW t \in Timers, DeleteTimer(t), ~dangling
  PROVE  TimersInv' /\ ~dangling'
<1>1. t \in liveTimers /\ ClearPending(t) /\ NodeOK(t)
  BY DEF DeleteTimer, TimersInv
<1>2. mDeadline[t] = kDurationInfinite \/ mTimerPending[t]
  <2>1. misused' = (misused \/ (mDeadline[t] # kDurationInfinite /\ ~mTimerPending[t]))
    BY DEF DeleteTimer
  <2> QED  BY <2>1, Zenon
<1>3. mTimers[t] # "active"
  BY <1>1, <1>2 DEF NodeOK
<1>4. mTimers' = [mTimers EXCEPT ![t] = "none"] /\ liveTimers' = liveTimers \ {t} /\ UNCHANGED loopPc
  BY DEF DeleteTimer, loopVars
<1> QED  BY <1>1, <1>3, <1>4, ClearedTimerKeeps

\* The first pending timer fires.
LEMMA FireTimerKeeps ==
  ASSUME TimersInv, FireTimer, ~dangling
  PROVE  TimersInv' /\ ~dangling'
<1> DEFINE t == Head(mPendingTimers)
<1>1. mPendingTimers \in Seq(Timers) /\ mPendingTimers # <<>>
  BY DEF FireTimer, TimersInv, TimerTypes
<1>2. t \in Timers /\ t \in ToSet(mPendingTimers)
  <2>1. 1 \in DOMAIN mPendingTimers /\ t = mPendingTimers[1]
    BY <1>1, EmptySeq, LenProperties
  <2> QED  BY <2>1, <1>1, ElementOfSeq, LenProperties DEF ToSet
<1>3. t \in liveTimers /\ mTimers[t] # "active"
  BY <1>2 DEF TimersInv, NodeOK
<1>4. ClearPending(t) /\ mTimers' = [mTimers EXCEPT ![t] = "none"] /\ UNCHANGED <<liveTimers, loopPc>>
  BY DEF FireTimer
<1> HIDE DEF t
<1> QED  BY <1>3, <1>4, ClearedTimerKeeps

\* The wait ends: the expired timers are the front of the list.
LEMMA EndWaitKeepsTimers ==
  ASSUME TimersInv, EndWait, ~dangling
  PROVE  TimersInv' /\ ~dangling'
<1> DEFINE later == {i \in DOMAIN mActiveTimers : ~Expired(mActiveTimers[i])}
           last == Min(later \cup {Len(mActiveTimers) + 1}) - 1
           expired == SubSeq(mActiveTimers, 1, last)
           rest == SubSeq(mActiveTimers, last + 1, Len(mActiveTimers))
<1>1. mActiveTimers \in Seq(Timers) /\ IsInjective(mActiveTimers)
  BY DEF TimersInv, TimerTypes
<1>2. DOMAIN mActiveTimers = 1 .. Len(mActiveTimers) /\ Len(mActiveTimers) \in Nat
  BY <1>1, LenProperties
<1>3. /\ mPendingTimers' = expired /\ mActiveTimers' = rest
      /\ mTimers' = [t \in Timers |-> IF t \in ToSet(expired) THEN "pending" ELSE mTimers[t]]
      /\ mTimerPending' = [t \in Timers |-> mTimerPending[t] \/ t \in ToSet(expired)]
      /\ dangling' = (dangling \/ \E i \in DOMAIN mActiveTimers :
                                     i <= last + 1 /\ mActiveTimers[i] \notin liveTimers)
      /\ UNCHANGED <<liveTimers, mDeadline>> /\ loopPc' = "timers" /\ loopPc = "wait"
  BY DEF EndWait
<1>4. last \in 0 .. Len(mActiveTimers)
  <2>1. later \in SUBSET (1 .. Len(mActiveTimers))
    BY <1>2
  <2> HIDE DEF later
  <2>2. Min(later \cup {Len(mActiveTimers) + 1}) \in 1 .. (Len(mActiveTimers) + 1)
    BY <2>1, <1>2, FirstPlace
  <2> QED  BY <2>2, <1>2
<1> HIDE DEF last
<1>5. /\ expired \in Seq(Timers) /\ rest \in Seq(Timers) /\ IsInjective(expired) /\ IsInjective(rest)
      /\ ToSet(expired) \cup ToSet(rest) = ToSet(mActiveTimers)
      /\ ToSet(expired) \cap ToSet(rest) = {}
      /\ \A i \in DOMAIN rest :
            i \in Nat /\ last + i \in DOMAIN mActiveTimers /\ rest[i] = mActiveTimers[last + i]
  <2> DEFINE s == mActiveTimers
             n == last
  <2>1. s \in Seq(Timers) /\ IsInjective(s) /\ n \in 0 .. Len(s)
    BY <1>1, <1>4
  <2> HIDE DEF s, n
  <2>2. /\ SubSeq(s, 1, n) \in Seq(Timers) /\ SubSeq(s, n + 1, Len(s)) \in Seq(Timers)
        /\ IsInjective(SubSeq(s, 1, n)) /\ IsInjective(SubSeq(s, n + 1, Len(s)))
        /\ ToSet(SubSeq(s, 1, n)) \cup ToSet(SubSeq(s, n + 1, Len(s))) = ToSet(s)
        /\ ToSet(SubSeq(s, 1, n)) \cap ToSet(SubSeq(s, n + 1, Len(s))) = {}
    BY ONLY <2>1, PrefixFacts
  <2>3. \A i \in DOMAIN SubSeq(s, n + 1, Len(s)) :
           i \in Nat /\ n + i \in DOMAIN s /\ SubSeq(s, n + 1, Len(s))[i] = s[n + i]
    BY ONLY <2>1, PrefixFacts
  <2> QED  BY ONLY <2>2, <2>3, Zenon DEF s, n, expired, rest
<1> HIDE DEF expired, rest, later
<1>6. mPendingTimers = <<>> /\ ToSet(mPendingTimers) = {}
  BY <1>3 DEF TimersInv, ToSet
<1>7. TimerTypes'
  <2>1. mTimers' \in [Timers -> {"none", "active", "pending"}]
    BY <1>3 DEF TimersInv, TimerTypes
  <2> QED  BY <2>1, <1>3, <1>5 DEF TimersInv, TimerTypes
<1>8. InOrder'
  <2> SUFFICES ASSUME NEW i \in DOMAIN rest, NEW j \in DOMAIN rest, i < j
               PROVE  mDeadline[rest[i]] <= mDeadline[rest[j]]
    BY <1>3 DEF InOrder
  <2>1. last + i \in DOMAIN mActiveTimers /\ last + j \in DOMAIN mActiveTimers /\ last + i < last + j
    BY <1>2, <1>4, <1>5
  <2>2. rest[i] = mActiveTimers[last + i] /\ rest[j] = mActiveTimers[last + j]
    BY <1>5
  <2> QED  BY <2>1, <2>2 DEF TimersInv, InOrder
<1>9. mTimerPending' \in [Timers -> BOOLEAN] /\ \A t \in Timers : mTimerPending'[t] <=> (mTimerPending[t] \/ t \in ToSet(expired))
  BY <1>3, Zenon
<1>10. ASSUME NEW t \in Timers  PROVE  NodeOK(t)'
  <2>1. NodeOK(t)
    BY DEF TimersInv
  <2>2. mTimers'[t] = IF t \in ToSet(expired) THEN "pending" ELSE mTimers[t]
    BY <1>3
  <2>3. t \notin ToSet(mPendingTimers)
    BY <1>6
  <2> QED  BY <2>1, <2>2, <2>3, <1>3, <1>5, <1>9 DEF NodeOK
<1>11. ~dangling'
  <2>1. \A i \in DOMAIN mActiveTimers : mActiveTimers[i] \in liveTimers
    BY <1>1, <1>2 DEF TimersInv, NodeOK, ToSet
  <2> QED  BY <2>1, <1>3, Zenon
<1>12. liveTimers' \subseteq Timers /\ (mPendingTimers' # <<>> => loopPc' = "timers")
  BY <1>3 DEF TimersInv
<1> QED  BY <1>7, <1>8, <1>9, <1>10, <1>11, <1>12 DEF TimersInv

\* Only ready watches become pending, with events they want.
LEMMA EndWaitKeepsWatches ==
  ASSUME WatchesInv, EndWait
  PROVE  WatchesInv'
<1>1. PICK ready \in SUBSET {w \in liveWatches : mWantedEvents[w] # {}} :
         /\ \E events \in [ready -> (SUBSET Events) \ {{}}] :
               /\ \A w \in ready : events[w] \subseteq mWantedEvents[w]
               /\ mLastEvents' = [w \in Watches |-> IF w \in ready THEN events[w] ELSE mLastEvents[w]]
         /\ mPendingFdWatches' \in SetToSeqs(ready)
  BY DEF EndWait
<1>2. PICK events \in [ready -> (SUBSET Events) \ {{}}] :
         /\ \A w \in ready : events[w] \subseteq mWantedEvents[w]
         /\ mLastEvents' = [w \in Watches |-> IF w \in ready THEN events[w] ELSE mLastEvents[w]]
  BY <1>1
<1>3. ready \subseteq liveWatches /\ liveWatches \subseteq Watches /\ IsFiniteSet(ready)
  <2>1. ready \subseteq liveWatches /\ liveWatches \subseteq Watches
    BY <1>1 DEF WatchesInv
  <2>2. IsFiniteSet(ready)
    BY <2>1, LooperAssumption, FS_Subset
  <2> QED  BY <2>1, <2>2
<1>4. Cardinality(ready) \in Nat
  BY <1>3, FS_CardinalityType
<1>5. /\ mPendingFdWatches' \in [1 .. Cardinality(ready) -> ready]
      /\ \A i, j \in 1 .. Cardinality(ready) : i # j => mPendingFdWatches'[i] # mPendingFdWatches'[j]
  BY <1>1 DEF SetToSeqs
<1>6. mPendingFdWatches' \in Seq(Watches) /\ DOMAIN mPendingFdWatches' = 1 .. Cardinality(ready)
  BY <1>3, <1>4, <1>5
<1>7. IsInjective(mPendingFdWatches)' /\ ToSet(mPendingFdWatches)' \subseteq liveWatches
  BY <1>3, <1>5, <1>6 DEF IsInjective, ToSet
<1>8. UNCHANGED <<liveWatches, mWantedEvents>> /\ loopPc' = "timers"
  BY DEF EndWait
<1>9. mLastEvents' \in [Watches -> SUBSET Events]
  BY <1>2, <1>3 DEF WatchesInv
<1>10. \A w \in liveWatches : mLastEvents'[w] \subseteq mWantedEvents[w]
  BY <1>2, <1>3 DEF WatchesInv
<1> QED  BY <1>6, <1>7, <1>8, <1>9, <1>10 DEF WatchesInv

\* removeEvents(), ~FdWatch() and clearPending() take a watch out of the list.
LEMMA ErasedWatch ==
  ASSUME WatchesInv, NEW w
  PROVE  /\ Erase(mPendingFdWatches, w) \in Seq(Watches) /\ IsInjective(Erase(mPendingFdWatches, w))
         /\ ToSet(Erase(mPendingFdWatches, w)) = ToSet(mPendingFdWatches) \ {w}
         /\ mPendingFdWatches = <<>> => Erase(mPendingFdWatches, w) = <<>>
<1>1. mPendingFdWatches \in Seq(Watches) /\ IsInjective(mPendingFdWatches)
  BY DEF WatchesInv
<1>2. /\ Erase(mPendingFdWatches, w) \in Seq(Watches) /\ IsInjective(Erase(mPendingFdWatches, w))
      /\ ToSet(Erase(mPendingFdWatches, w)) = ToSet(mPendingFdWatches) \ {w}
      /\ w \notin ToSet(mPendingFdWatches) => Erase(mPendingFdWatches, w) = mPendingFdWatches
  BY <1>1, EraseFacts
<1>3. ToSet(<<>>) = {}
  BY DEF ToSet
<1> QED  BY <1>2, <1>3

LEMMA CreateFdWatchKeeps ==
  ASSUME WatchesInv, NEW w \in Watches, CreateFdWatch(w)
  PROVE  WatchesInv'
  BY DEF WatchesInv, CreateFdWatch, loopVars

LEMMA AddEventsKeeps ==
  ASSUME WatchesInv, NEW w \in Watches, NEW e \in Events, AddEvents(w, {e})
  PROVE  WatchesInv'
  BY DEF WatchesInv, AddEvents, loopVars

LEMMA RemoveEventsKeeps ==
  ASSUME WatchesInv, NEW w \in Watches, NEW e \in Events, RemoveEvents(w, {e})
  PROVE  WatchesInv'
<1>1. /\ Erase(mPendingFdWatches, w) \in Seq(Watches) /\ IsInjective(Erase(mPendingFdWatches, w))
      /\ ToSet(Erase(mPendingFdWatches, w)) = ToSet(mPendingFdWatches) \ {w}
      /\ mPendingFdWatches = <<>> => Erase(mPendingFdWatches, w) = <<>>
  BY ErasedWatch
<1>2. mPendingFdWatches' \in {mPendingFdWatches, Erase(mPendingFdWatches, w)}
  BY DEF RemoveEvents
<1>3. /\ mPendingFdWatches' \in Seq(Watches) /\ IsInjective(mPendingFdWatches')
      /\ ToSet(mPendingFdWatches') \subseteq liveWatches
      /\ mPendingFdWatches' # <<>> => loopPc \in {"timers", "watches"}
  BY <1>1, <1>2 DEF WatchesInv
<1>4. UNCHANGED <<liveWatches, loopPc>>
  BY DEF RemoveEvents, loopVars
<1>5. /\ mWantedEvents' \in [Watches -> SUBSET Events] /\ mLastEvents' \in [Watches -> SUBSET Events]
      /\ \A v \in liveWatches : mLastEvents'[v] \subseteq mWantedEvents'[v]
  BY DEF WatchesInv, RemoveEvents
<1> QED  BY <1>3, <1>4, <1>5 DEF WatchesInv

LEMMA DeleteFdWatchKeeps ==
  ASSUME WatchesInv, NEW w \in Watches, DeleteFdWatch(w)
  PROVE  WatchesInv'
<1>1. /\ Erase(mPendingFdWatches, w) \in Seq(Watches) /\ IsInjective(Erase(mPendingFdWatches, w))
      /\ ToSet(Erase(mPendingFdWatches, w)) = ToSet(mPendingFdWatches) \ {w}
      /\ mPendingFdWatches = <<>> => Erase(mPendingFdWatches, w) = <<>>
  BY ErasedWatch
<1>2. /\ mPendingFdWatches' = Erase(mPendingFdWatches, w) /\ liveWatches' = liveWatches \ {w}
      /\ UNCHANGED loopPc
  BY DEF DeleteFdWatch, loopVars
<1>3. /\ mWantedEvents' \in [Watches -> SUBSET Events] /\ mLastEvents' \in [Watches -> SUBSET Events]
      /\ \A v \in liveWatches : mLastEvents'[v] \subseteq mWantedEvents'[v]
  BY DEF WatchesInv, DeleteFdWatch
<1> QED  BY <1>1, <1>2, <1>3 DEF WatchesInv

LEMMA FireFdWatchKeeps ==
  ASSUME WatchesInv, FireFdWatch
  PROVE  WatchesInv'
<1> DEFINE s == mPendingFdWatches
<1>1. s \in Seq(Watches) /\ s # <<>> /\ IsInjective(s)
  BY DEF WatchesInv, FireFdWatch
<1>2. /\ Tail(s) \in Seq(Watches) /\ Len(Tail(s)) = Len(s) - 1
      /\ \A i \in 1 .. Len(Tail(s)) : Tail(s)[i] = s[i + 1]
  BY <1>1, HeadTailProperties
<1>3. DOMAIN s = 1 .. Len(s) /\ Len(s) \in Nat /\ DOMAIN Tail(s) = 1 .. (Len(s) - 1)
  BY <1>1, <1>2, LenProperties
<1>4. \A i \in DOMAIN Tail(s) : i + 1 \in DOMAIN s /\ Tail(s)[i] = s[i + 1]
  BY <1>2, <1>3
<1>5. IsInjective(Tail(s)) /\ ToSet(Tail(s)) \subseteq ToSet(s)
  <2>1. ASSUME NEW i \in DOMAIN Tail(s), NEW j \in DOMAIN Tail(s), Tail(s)[i] = Tail(s)[j]  PROVE i = j
    <3>1. i + 1 = j + 1
      BY <2>1, <1>1, <1>4 DEF IsInjective
    <3> QED  BY <3>1, <1>3
  <2> QED  BY <2>1, <1>4 DEF IsInjective, ToSet
<1>6. mPendingFdWatches' = Tail(s) /\ UNCHANGED <<liveWatches, mWantedEvents, loopPc>> /\ loopPc = "watches"
  BY DEF FireFdWatch
<1>7. mLastEvents' \in [Watches -> SUBSET Events] /\ \A v \in liveWatches : mLastEvents'[v] \subseteq mLastEvents[v]
  BY DEF WatchesInv, FireFdWatch
<1> QED  BY <1>2, <1>5, <1>6, <1>7 DEF WatchesInv

\* Steps that change timers only.
LEMMA TimerSteps ==
  ASSUME DLInv, NEW t \in Timers,
         CreateTimer(t) \/ Start(t) \/ StopTimer(t) \/ DeleteTimer(t)
  PROVE  DLInv'
<1>1. kDurationInfinite \in Nat /\ now \in Nat /\ MaxNow \in Nat /\ MaxNow < kDurationInfinite
  BY LooperAssumption DEF kDurationInfinite, DLInv
<1>2. UNCHANGED <<now, watchVars, taskVars, loopVars>>
  BY DEF CreateTimer, Start, StopTimer, StartAbsolute, DeleteTimer
<1>3. WatchesInv' /\ TasksInv'
  <2>1. WatchesInv /\ TasksInv /\ loopPc' = loopPc
    BY <1>2 DEF DLInv, loopVars
  <2>2. mPendingFdWatches # <<>> => loopPc' \in {"timers", "watches"}
    BY <2>1 DEF WatchesInv
  <2> QED  BY <2>1, <2>2, <1>2, WatchesUnchanged, TasksUnchanged
<1>4. ASSUME ~misused' PROVE SoundInv'
  <2>0. TimersInv /\ batch' \subseteq liveTasks' /\ ~dangling
    <3>1. ~misused
      BY <1>4, Zenon DEF CreateTimer, Start, StopTimer, StartAbsolute, DeleteTimer, errorVars
    <3> QED  BY <3>1, <1>2 DEF DLInv, SoundInv, taskVars
  <2> SUFFICES TimersInv' /\ ~dangling'
    BY <2>0 DEF SoundInv
  <2>1. CASE CreateTimer(t)
    BY <2>0, <2>1, CreateTimerKeeps DEF CreateTimer, errorVars
  <2>2. CASE Start(t)
    <3>1. PICK deadline \in now .. MaxNow : StartAbsolute(t, deadline)
      BY <2>2 DEF Start
    <3>2. deadline \in 0 .. kDurationInfinite
      BY <1>1
    <3> QED  BY <1>4, <2>0, <3>1, <3>2, StartAbsoluteKeeps
  <2>3. CASE StopTimer(t)
    <3>1. kDurationInfinite \in 0 .. kDurationInfinite
      BY <1>1
    <3> QED  BY <1>4, <2>0, <2>3, <3>1, StartAbsoluteKeeps DEF StopTimer
  <2>4. CASE DeleteTimer(t)
    BY <1>4, <2>0, <2>4, DeleteTimerKeeps
  <2> QED  BY <2>1, <2>2, <2>3, <2>4
<1> QED  BY <1>2, <1>3, <1>4 DEF DLInv

\* Steps that change watches only.
LEMMA WatchSteps ==
  ASSUME DLInv, NEW w \in Watches,
         \/ CreateFdWatch(w) \/ DeleteFdWatch(w)
         \/ \E e \in Events : AddEvents(w, {e}) \/ RemoveEvents(w, {e})
  PROVE  DLInv'
<1>1. UNCHANGED <<now, timerVars, taskVars, loopVars, errorVars>>
  BY DEF CreateFdWatch, DeleteFdWatch, AddEvents, RemoveEvents
<1>2. TasksInv'
  BY <1>1, TasksUnchanged DEF DLInv
<1>3. WatchesInv'
  BY CreateFdWatchKeeps, DeleteFdWatchKeeps, AddEventsKeeps, RemoveEventsKeeps DEF DLInv
<1>4. SoundInv => SoundInv'
  <2> HAVE SoundInv
  <2>1. TimersInv'
    BY <1>1, TimersUnchanged DEF SoundInv, loopVars
  <2> QED  BY <1>1, <2>1 DEF SoundInv, taskVars, errorVars
<1> QED  BY <1>1, <1>2, <1>3, <1>4 DEF DLInv, errorVars

\* Steps that change neither timers nor watches.
LEMMA OtherSteps ==
  ASSUME DLInv, UNCHANGED <<timerVars, watchVars>>, TasksInv', now' \in Nat,
         ~misused' => ~misused /\ ~dangling' /\ batch' \subseteq liveTasks',
         \/ UNCHANGED loopPc
         \/ loopPc = "timers" /\ mPendingTimers = <<>> /\ loopPc' = "watches"
         \/ loopPc = "watches" /\ mPendingFdWatches = <<>>
         \/ loopPc \notin {"timers", "watches"}
  PROVE  DLInv'
<1>1. ASSUME ~misused' PROVE SoundInv'
  <2>1. TimersInv
    BY <1>1 DEF DLInv, SoundInv
  <2>2. TimersInv'
    BY <2>1, TimersUnchanged
  <2> QED  BY <1>1, <2>2 DEF SoundInv
<1>2. mPendingFdWatches # <<>> => loopPc' \in {"timers", "watches"}
  BY DEF DLInv, WatchesInv
<1>3. WatchesInv'
  BY <1>2, WatchesUnchanged DEF DLInv
<1> QED  BY <1>1, <1>3 DEF DLInv

\* Every step keeps the invariant.
LEMMA DLStep ==
  ASSUME DLInv, [DLNext]_dlVars
  PROVE  DLInv'
<1> USE DEF DLInv
<1>1. CASE UNCHANGED dlVars
  <2>1. UNCHANGED <<now, timerVars, watchVars, taskVars, loopPc, errorVars>>
    BY <1>1 DEF dlVars, loopVars
  <2>2. TasksInv' /\ (~misused' => ~misused /\ ~dangling' /\ batch' \subseteq liveTasks')
    BY <2>1, TasksUnchanged DEF SoundInv, errorVars, taskVars
  <2> QED  BY <2>1, <2>2, OtherSteps
<1>2. CASE \E t \in Timers : CreateTimer(t) \/ Start(t) \/ StopTimer(t) \/ DeleteTimer(t)
  BY <1>2, TimerSteps
<1>3. CASE \E w \in Watches : CreateFdWatch(w) \/ DeleteFdWatch(w)
  BY <1>3, WatchSteps
<1>4. CASE \E w \in Watches, e \in Events : AddEvents(w, {e}) \/ RemoveEvents(w, {e})
  BY <1>4, WatchSteps
<1>5. CASE \E k \in Tasks : ScheduleTask(k) \/ CancelTask(k) \/ DeleteTask(k)
  <2>0. PICK k \in Tasks : ScheduleTask(k) \/ CancelTask(k) \/ DeleteTask(k)
    BY <1>5
  <2>1. UNCHANGED <<now, timerVars, watchVars, loopPc, batch>>
    BY <2>0 DEF ScheduleTask, CancelTask, DeleteTask, loopVars
  <2>2. TasksInv'
    BY <2>0 DEF ScheduleTask, CancelTask, DeleteTask, TasksInv
  <2>3. ASSUME ~misused' PROVE ~misused /\ ~dangling' /\ batch' \subseteq liveTasks'
    <3>1. CASE ScheduleTask(k) \/ CancelTask(k)
      BY <2>3, <3>1 DEF ScheduleTask, CancelTask, errorVars, SoundInv
    <3>2. CASE DeleteTask(k)
      <4>1. misused' = (misused \/ k \in batch \cup runningTask) /\ dangling' = (dangling \/ k \in runningTask)
        BY <3>2 DEF DeleteTask
      <4>2. ~misused /\ k \notin batch /\ k \notin runningTask
        BY <2>3, <4>1, Zenon
      <4>3. ~dangling'
        BY <4>1, <4>2, Zenon DEF SoundInv
      <4>4. batch' \subseteq liveTasks'
        BY <2>1, <3>2, <4>2 DEF DeleteTask, SoundInv
      <4> QED  BY <4>2, <4>3, <4>4
    <3> QED  BY <2>0, <3>1, <3>2
  <2> QED  BY <2>1, <2>2, <2>3, OtherSteps
<1>6. CASE Run \/ ForceQuit \/ Return \/ Iterate \/ BeginWait \/ WaitFails \/ EndTimers \/ EndIteration \/ DLTick
  <2>1. UNCHANGED <<timerVars, watchVars, mScheduledTasks, batch, liveTasks, errorVars>>
    BY <1>6 DEF Run, ForceQuit, Return, Iterate, BeginWait, WaitFails, EndTimers, EndIteration, DLTick, taskVars
  <2>2. TasksInv' /\ (~misused' => ~misused /\ ~dangling' /\ batch' \subseteq liveTasks')
    BY <2>1 DEF TasksInv, SoundInv, errorVars
  <2>3. now' \in Nat
    BY <1>6 DEF Run, ForceQuit, Return, Iterate, BeginWait, WaitFails, EndTimers, EndIteration, DLTick
  <2>4. \/ UNCHANGED loopPc
        \/ loopPc = "timers" /\ mPendingTimers = <<>> /\ loopPc' = "watches"
        \/ loopPc = "watches" /\ mPendingFdWatches = <<>>
        \/ loopPc \notin {"timers", "watches"}
    BY <1>6 DEF Run, ForceQuit, Return, Iterate, BeginWait, WaitFails, EndTimers, EndIteration, DLTick, loopVars
  <2> QED  BY <2>1, <2>2, <2>3, <2>4, OtherSteps
<1>7. CASE BeginIteration
  <2>1. UNCHANGED <<now, timerVars, watchVars, misused>> /\ loopPc = "iterate"
    BY <1>7 DEF BeginIteration
  <2>2. TasksInv' /\ batch' \subseteq liveTasks'
    BY <1>7 DEF BeginIteration, TasksInv
  <2>3. ASSUME ~misused PROVE ~dangling'
    <3>0. TimersInv /\ ~dangling
      BY <2>3 DEF SoundInv
    <3>1. dangling' = (dangling \/ (mActiveTimers # <<>> /\ Head(mActiveTimers) \notin liveTimers))
      BY <1>7 DEF BeginIteration
    <3>2. mActiveTimers # <<>> => Head(mActiveTimers) \in liveTimers
      <4> HAVE mActiveTimers # <<>>
      <4>1. mActiveTimers \in Seq(Timers)
        BY <3>0 DEF TimersInv, TimerTypes
      <4>2. 1 \in DOMAIN mActiveTimers /\ Head(mActiveTimers) = mActiveTimers[1] /\ mActiveTimers[1] \in Timers
        BY <4>1, EmptySeq, LenProperties
      <4>3. Head(mActiveTimers) \in ToSet(mActiveTimers) /\ Head(mActiveTimers) \in Timers
        BY <4>2 DEF ToSet
      <4> QED  BY <3>0, <4>3 DEF TimersInv, NodeOK
    <3> QED  BY <3>0, <3>1, <3>2, Zenon
  <2> QED  BY <2>1, <2>2, <2>3, OtherSteps
<1>8. CASE \E k \in Tasks : RunTask(k)
  <2>1. PICK k \in Tasks : RunTask(k)
    BY <1>8
  <2>2. UNCHANGED <<now, timerVars, watchVars, loopPc, misused>>
    BY <2>1 DEF RunTask
  <2>3. TasksInv'
    BY <2>1 DEF RunTask, TasksInv
  <2>4. ASSUME ~misused PROVE ~dangling' /\ batch' \subseteq liveTasks'
    <3>1. dangling' = (dangling \/ k \notin liveTasks) /\ k \in liveTasks /\ ~dangling
      BY <2>1, <2>4 DEF RunTask, SoundInv
    <3>2. batch' \subseteq liveTasks'
      BY <2>1, <2>4 DEF RunTask, SoundInv
    <3>3. ~dangling'
      BY <3>1, Zenon
    <3> QED  BY <3>2, <3>3
  <2> QED  BY <2>2, <2>3, <2>4, OtherSteps
<1>9. CASE EndWait
  <2>1. UNCHANGED <<now, taskVars, misused>>
    BY <1>9 DEF EndWait
  <2>2. WatchesInv'
    BY <1>9, EndWaitKeepsWatches
  <2>3. ASSUME ~misused PROVE SoundInv'
    <3>1. TimersInv' /\ ~dangling'
      BY <1>9, <2>3, EndWaitKeepsTimers DEF SoundInv
    <3> QED  BY <2>1, <2>3, <3>1 DEF SoundInv, taskVars
  <2> QED  BY <2>1, <2>2, <2>3, TasksUnchanged
<1>10. CASE FireTimer
  <2>1. UNCHANGED <<now, watchVars, taskVars, loopPc, misused>>
    BY <1>10 DEF FireTimer
  <2>2. mPendingFdWatches # <<>> => loopPc' \in {"timers", "watches"}
    BY <2>1 DEF WatchesInv
  <2>3. ASSUME ~misused PROVE SoundInv'
    <3>1. TimersInv' /\ ~dangling'
      BY <1>10, <2>3, FireTimerKeeps DEF SoundInv
    <3> QED  BY <2>1, <2>3, <3>1 DEF SoundInv, taskVars
  <2> QED  BY <2>1, <2>2, <2>3, WatchesUnchanged, TasksUnchanged
<1>11. CASE FireFdWatch
  <2>1. WatchesInv'
    BY <1>11, FireFdWatchKeeps
  <2>2. UNCHANGED <<now, timerVars, taskVars, loopPc, errorVars>>
    BY <1>11 DEF FireFdWatch
  <2>3. ASSUME ~misused PROVE SoundInv'
    <3>1. TimersInv'
      BY <2>2, <2>3, TimersUnchanged DEF SoundInv
    <3> QED  BY <2>2, <2>3, <3>1 DEF SoundInv, taskVars, errorVars
  <2> QED  BY <2>1, <2>2, <2>3, TasksUnchanged DEF errorVars
<1> QED
  BY <1>1, <1>2, <1>3, <1>4, <1>5, <1>6, <1>7, <1>8, <1>9, <1>10, <1>11 DEF DLNext, LooperSteps, UserSteps

\* A timer in a list is alive, and so is a pending watch and a scheduled task.
LEMMA NothingDanglesFollows ==
  ASSUME DLInv
  PROVE  NothingDangles
<1>1. ASSUME ~misused PROVE ToSet(mActiveTimers) \cup ToSet(mPendingTimers) \subseteq liveTimers
  <2>1. TimersInv
    BY <1>1 DEF DLInv, SoundInv
  <2>2. mActiveTimers \in Seq(Timers) /\ mPendingTimers \in Seq(Timers)
    BY <2>1 DEF TimersInv, TimerTypes
  <2>3. \A t \in ToSet(mActiveTimers) \cup ToSet(mPendingTimers) : t \in Timers
    BY <2>2 DEF ToSet
  <2> QED  BY <2>1, <2>3 DEF TimersInv, NodeOK
<1> QED  BY <1>1 DEF DLInv, SoundInv, WatchesInv, TasksInv, NothingDangles

\* A timer's node is in one list only.
LEMMA ListedFollows ==
  ASSUME DLInv
  PROVE  ArmedTimersAreListed
<1> SUFFICES ASSUME ~misused
             PROVE  /\ \A t \in liveTimers : mDeadline[t] # kDurationInfinite <=>
                          t \in ToSet(mActiveTimers) \cup ToSet(mPendingTimers)
                    /\ IsInjective(mActiveTimers \o mPendingTimers)
                    /\ InOrder
  BY DEF ArmedTimersAreListed, InOrder
<1>0. TimersInv
  BY DEF DLInv, SoundInv
<1>1. /\ mActiveTimers \in Seq(Timers) /\ mPendingTimers \in Seq(Timers)
      /\ IsInjective(mActiveTimers) /\ IsInjective(mPendingTimers)
  BY <1>0 DEF TimersInv, TimerTypes
<1>2. \A t \in ToSet(mActiveTimers) : t \in Timers
  BY <1>1 DEF ToSet
<1>3. ToSet(mActiveTimers) \cap ToSet(mPendingTimers) = {}
  BY <1>0, <1>2 DEF TimersInv, NodeOK
<1>4. IsInjective(mActiveTimers \o mPendingTimers)
  BY <1>1, <1>3, JoinFacts
<1>5. \A t \in liveTimers : mDeadline[t] # kDurationInfinite <=>
         t \in ToSet(mActiveTimers) \cup ToSet(mPendingTimers)
  BY <1>0 DEF TimersInv, TimerTypes, NodeOK
<1>6. InOrder
  BY <1>0 DEF TimersInv
<1> QED  BY <1>4, <1>5, <1>6

\* The invariant in every state.
LEMMA DLAlways == DLSpec => []DLInv
<1>1. DLInit => DLInv
  BY DLInitially
<1>2. DLInv /\ [DLNext]_dlVars => DLInv'
  BY DLStep
<1> QED  BY <1>1, <1>2, PTL DEF DLSpec

\* A pending watch and a scheduled task exist, and no unwanted event is reported,
\* whatever the program does; and until it stops or restarts a pending timer,
\* deletes an active one or deletes a task that was taken, no deleted timer, watch
\* or task is used and no list node is erased twice.  For any number of them.
THEOREM NothingDanglesTheorem == DLSpec => []NothingDangles
<1>1. DLInv => NothingDangles
  BY NothingDanglesFollows
<1> QED  BY <1>1, DLAlways, PTL

\* Until then an armed timer is in exactly one list, once, and the active list is
\* in the order of the deadlines.
THEOREM ArmedTimersTheorem == DLSpec => []ArmedTimersAreListed
<1>1. DLInv => ArmedTimersAreListed
  BY ListedFollows
<1> QED  BY <1>1, DLAlways, PTL

\* The two DCHECKs of an iteration (DefaultLooper.cpp:223, :248): when the wait ends
\* no watch is pending, and until such a misuse no timer.
THEOREM NothingPendingTheorem ==
  DLSpec => [](loopPc = "wait" => mPendingFdWatches = <<>> /\ (~misused => mPendingTimers = <<>>))
<1>1. DLInv => (loopPc = "wait" => mPendingFdWatches = <<>> /\ (~misused => mPendingTimers = <<>>))
  BY DEF DLInv, SoundInv, TimersInv, WatchesInv
<1> QED  BY <1>1, DLAlways, PTL
=============================================================================
