----------------------------- MODULE QemuLooper -----------------------------
(***************************************************************************)
(* The looper on top of QEMU's main loop.  QEMU's handlers only record the *)
(* events of a watch; a bottom half fires the watches.  A timer of the     *)
(* looper runs the closures that other threads post with                   *)
(* ThreadLooper::runOnMainLooper[AndWaitForCompletion](): one step per     *)
(* access to what the threads share.                                       *)
(***************************************************************************)
EXTENDS Integers, FiniteSets, Sequences

CONSTANTS QWatches,       \* fd watches
          QEvents,        \* the events of an fd: kEventRead, kEventWrite
          Posters,        \* threads that post closures
          Waiters,        \* those that call runOnMainLooperAndWaitForCompletion()
          Capacity,       \* capacity of mPendingClosures
          DeletesOthers,  \* callbacks delete watches other than their own
          Shutdowns       \* whether QEMU may shut down

End == "end"   \* of mPendingFdWatches, not a watch

ASSUME QemuLooperAssumption ==
    /\ Capacity \in Nat \ {0} /\ Waiters \subseteq Posters /\ End \notin QWatches
    /\ DeletesOthers \in BOOLEAN /\ Shutdowns \in BOOLEAN

VARIABLES qLive, qWanted, mPendingEvents,
          mPendingWatches,     \* mPendingFdWatches
          bhScheduled,         \* mQemuBh is scheduled
          next,                \* the iterator of handleBottomHalf(), {} outside of it
          firing,              \* the watch whose callback runs, or {}
          badIterator,         \* the iterator was invalidated
          closures,            \* mPendingClosures: who sent each
          timerActive, running, sSkipTimerOps,
          posterPc,            \* "idle", "send", "check", "start", "wait"
          signaled             \* posters whose event has been signalled

bhVars == <<qLive, qWanted, mPendingEvents, mPendingWatches, bhScheduled, next, firing, badIterator>>
closureVars == <<closures, timerActive, running, sSkipTimerOps, posterPc, signaled>>
qlVars == <<bhVars, closureVars>>

QLInit ==
    /\ qLive = {} /\ mPendingWatches = {} /\ bhScheduled = FALSE
    /\ qWanted = [w \in QWatches |-> {}] /\ mPendingEvents = qWanted
    /\ next = {} /\ firing = {} /\ badIterator = FALSE
    /\ closures = <<>> /\ timerActive = FALSE /\ running = FALSE /\ sSkipTimerOps = FALSE
    /\ posterPc = [p \in Posters |-> "idle"] /\ signaled = {}

\* The main loop is in none of the looper's handlers.
MainLoopIdle == next = {} /\ ~running
\* Code that may use the watches runs: a watch's callback, or other main loop code.
WatchUser == firing # {} \/ MainLoopIdle

QCreateFdWatch(w) ==
    /\ WatchUser /\ w \notin qLive
    /\ qLive' = qLive \cup {w}
    /\ UNCHANGED <<qWanted, mPendingEvents, mPendingWatches, bhScheduled, next, firing, badIterator, closureVars>>

\* addEvents() and removeEvents(); events that are pending stay pending.
UpdateEvents(w, events) ==
    /\ WatchUser /\ w \in qLive /\ events # qWanted[w]
    /\ qWanted' = [qWanted EXCEPT ![w] = events]
    /\ UNCHANGED <<qLive, mPendingEvents, mPendingWatches, bhScheduled, next, firing, badIterator, closureVars>>

\* Mutant: a pending watch stays in the set.
QDeleteFdWatchPending(w) ==
    /\ WatchUser /\ w \in qLive
    /\ firing # {} => (w \in firing \/ DeletesOthers)
    /\ qLive' = qLive \ {w}
    /\ qWanted' = [qWanted EXCEPT ![w] = {}]
    /\ UNCHANGED <<mPendingEvents, mPendingWatches, badIterator, bhScheduled, next, firing, closureVars>>

\* ~FdWatch(): clearPending() and no more handlers.
QDeleteFdWatch(w) ==
    /\ WatchUser /\ w \in qLive
    /\ firing # {} => (w \in firing \/ DeletesOthers)
    /\ qLive' = qLive \ {w}
    /\ qWanted' = [qWanted EXCEPT ![w] = {}]
    /\ mPendingEvents' = [mPendingEvents EXCEPT ![w] = {}]
    /\ mPendingWatches' = mPendingWatches \ {w}
    /\ badIterator' = (badIterator \/ w \in next)
    /\ UNCHANGED <<bhScheduled, next, firing, closureVars>>

\* handleRead() and handleWrite(), called by QEMU: setPending().
HandleIo(w, event) ==
    /\ MainLoopIdle /\ w \in qLive /\ event \in qWanted[w]
    /\ mPendingWatches' = mPendingWatches \cup {w}
    /\ bhScheduled' = (bhScheduled \/ mPendingWatches = {})
    /\ mPendingEvents' = [mPendingEvents EXCEPT ![w] = @ \cup {event}]
    /\ UNCHANGED <<qLive, qWanted, next, firing, badIterator, closureVars>>

NextOf(set) == IF set = {} THEN {{End}} ELSE {{w} : w \in set}

BeginBottomHalf ==
    /\ MainLoopIdle /\ bhScheduled
    /\ bhScheduled' = FALSE
    /\ next' \in NextOf(mPendingWatches)
    /\ UNCHANGED <<qLive, qWanted, mPendingEvents, mPendingWatches, firing, badIterator, closureVars>>

\* The watch leaves the set, the iterator moves on, and the callback runs.
FireNext ==
    \E w \in next \cap QWatches :
        /\ mPendingWatches' = mPendingWatches \ {w}
        /\ next' \in NextOf(mPendingWatches \ {w})
        /\ mPendingEvents' = [mPendingEvents EXCEPT ![w] = {}]
        /\ firing' = {w}
        /\ UNCHANGED <<qLive, qWanted, bhScheduled, badIterator, closureVars>>

EndBottomHalf ==
    /\ next = {End}
    /\ next' = {} /\ firing' = {}
    /\ UNCHANGED <<qLive, qWanted, mPendingEvents, mPendingWatches, bhScheduled, badIterator, closureVars>>

-----------------------------------------------------------------------------
Goes(p, from, to) == posterPc[p] = from /\ posterPc' = [posterPc EXCEPT ![p] = to]

RunOnMainLooper(p) ==
    /\ Goes(p, "idle", "send")
    /\ UNCHANGED <<bhVars, closures, timerActive, running, sSkipTimerOps, signaled>>

\* mPendingClosures.send() blocks while the channel is full.
SendClosure(p) ==
    /\ Goes(p, "send", "check") /\ Len(closures) < Capacity
    /\ closures' = Append(closures, p)
    /\ UNCHANGED <<bhVars, timerActive, running, sSkipTimerOps, signaled>>

\* Mutant: the timer is started when it is active.
CheckTimerInverted(p) ==
    /\ Goes(p, "check", IF timerActive /\ ~sSkipTimerOps THEN "start" ELSE "wait")
    /\ UNCHANGED <<bhVars, closures, timerActive, running, sSkipTimerOps, signaled>>

\* isActive(), which is false once QEMU shuts down.
CheckTimer(p) ==
    /\ Goes(p, "check", IF timerActive /\ ~sSkipTimerOps THEN "wait" ELSE "start")
    /\ UNCHANGED <<bhVars, closures, timerActive, running, sSkipTimerOps, signaled>>

\* startRelative(0), which does nothing once QEMU shuts down.
StartTimer(p) ==
    /\ Goes(p, "start", "wait")
    /\ timerActive' = (timerActive \/ ~sSkipTimerOps)
    /\ UNCHANGED <<bhVars, closures, running, sSkipTimerOps, signaled>>

\* e.wait(), or nothing to wait for.
WaitReturns(p) ==
    /\ Goes(p, "wait", "idle")
    /\ p \in Waiters => p \in signaled
    /\ signaled' = signaled \ {p}
    /\ UNCHANGED <<bhVars, closures, timerActive, running, sSkipTimerOps>>

\* The timer expires and runClosures() begins.
TimerCallback ==
    /\ MainLoopIdle /\ timerActive
    /\ timerActive' = FALSE /\ running' = TRUE
    /\ UNCHANGED <<bhVars, closures, sSkipTimerOps, posterPc, signaled>>

\* tryReceive() and the closure.
RunClosure ==
    /\ running /\ closures # <<>>
    /\ closures' = Tail(closures)
    /\ signaled' = signaled \cup ({Head(closures)} \cap Waiters)
    /\ UNCHANGED <<bhVars, timerActive, running, sSkipTimerOps, posterPc>>

EndClosures ==
    /\ running /\ closures = <<>>
    /\ running' = FALSE
    /\ UNCHANGED <<bhVars, closures, timerActive, sSkipTimerOps, posterPc, signaled>>

\* sLooperShutdown's notify.
Shutdown ==
    /\ Shutdowns /\ ~sSkipTimerOps
    /\ sSkipTimerOps' = TRUE
    /\ UNCHANGED <<bhVars, closures, timerActive, running, posterPc, signaled>>

PosterStep(p) == SendClosure(p) \/ CheckTimer(p) \/ StartTimer(p) \/ WaitReturns(p)
MainBottomHalf == BeginBottomHalf \/ FireNext \/ EndBottomHalf
MainTimer == TimerCallback \/ RunClosure \/ EndClosures

QLNext ==
    \/ MainBottomHalf \/ MainTimer \/ Shutdown
    \/ \E w \in QWatches : QCreateFdWatch(w) \/ QDeleteFdWatch(w)
    \/ \E w \in QWatches, events \in SUBSET QEvents : UpdateEvents(w, events)
    \/ \E w \in QWatches, event \in QEvents : HandleIo(w, event)
    \/ \E p \in Posters : PosterStep(p) \/ RunOnMainLooper(p)

QLSpec == QLInit /\ [][QLNext]_qlVars

-----------------------------------------------------------------------------
\* Every variable has its type, and mPendingClosures never exceeds its capacity.
QLTypeOK ==
    /\ qLive \subseteq QWatches /\ mPendingWatches \subseteq QWatches
    /\ {qWanted, mPendingEvents} \subseteq [QWatches -> SUBSET QEvents]
    /\ next \subseteq QWatches \cup {End} /\ Cardinality(next) <= 1 /\ firing \subseteq QWatches
    /\ {bhScheduled, badIterator, timerActive, running, sSkipTimerOps} \subseteq BOOLEAN
    /\ closures \in Seq(Posters) /\ Len(closures) <= Capacity
    /\ posterPc \in [Posters -> {"idle", "send", "check", "start", "wait"}]
    /\ signaled \subseteq Waiters

\* The set, the events and the bottom half agree (the CHECKs and DCHECKs of
\* addPendingFdWatch(), delPendingFdWatch() and fire()): a watch is in the set
\* iff it has events, and a watch in the set is fired, for the bottom half is
\* scheduled, or running and before it.  The iterator is never invalidated.
PendingWatchesWillFire ==
    /\ mPendingWatches = {w \in qLive : mPendingEvents[w] # {}}
    /\ mPendingWatches # {} => bhScheduled \/ next # {}
    /\ next \cap QWatches \subseteq mPendingWatches /\ (next = {End} => mPendingWatches = {})
    /\ ~badIterator

\* A posted closure never stays in the channel with nobody to run it, although
\* isActive() and startRelative() are not one step: only a shutdown loses it.
ClosuresRun == \A p \in Posters : (posterPc[p] = "wait") ~> (posterPc[p] = "idle" \/ sSkipTimerOps)
=============================================================================
