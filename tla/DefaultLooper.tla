---------------------------- MODULE DefaultLooper ----------------------------
(***************************************************************************)
(* The looper of tests and tools: timers, fd watches and tasks, run by one *)
(* thread.  Timers and watches are used by callbacks on that thread or     *)
(* while the looper does not run; tasks are scheduled and cancelled, and   *)
(* forceQuit() is called, from any thread.                                 *)
(*                                                                         *)
(* A std::list iterator kept in mTimers is modelled by the list its node   *)
(* is in; erasing one whose node is gone is undefined behaviour, recorded  *)
(* in `dangling' as is every use of a deleted object.  What a program does *)
(* after that is not modelled.                                             *)
(***************************************************************************)
EXTENDS Integers, FiniteSets, SequencesExt

CONSTANTS Timers, Watches, Tasks,
          OneShots,        \* tasks made by scheduleCallback(): mSelfDeleting
          RunDeadlines,    \* deadlines given to runWithDeadlineMs()
          MaxNow           \* bound on time

ASSUME LooperAssumption ==
    /\ OneShots \subseteq Tasks /\ MaxNow \in Nat /\ RunDeadlines \subseteq Nat
    /\ IsFiniteSet(Watches)

kDurationInfinite == MaxNow + 1
Events == {"read", "write"}

VARIABLES now, liveTimers, mDeadline,
          mTimerPending,                 \* Timer::mPending
          mActiveTimers, mPendingTimers,
          mTimers,                       \* list that holds the timer's node, or "none"
          liveWatches, mWantedEvents, mLastEvents, mPendingFdWatches,
          mScheduledTasks, batch,        \* tasks scheduled, tasks taken to run
          liveTasks, runningTask,            \* the task whose callback runs
          mForcedExit, runUntil, wakeAt, \* deadlineMs; end of the wait
          loopPc, inCallback, dangling,
          misused                        \* history: see NothingDangles

timerVars == <<liveTimers, mDeadline, mTimerPending, mActiveTimers, mPendingTimers, mTimers>>
watchVars == <<liveWatches, mWantedEvents, mLastEvents, mPendingFdWatches>>
taskVars == <<mScheduledTasks, batch, liveTasks, runningTask>>
loopVars == <<mForcedExit, runUntil, wakeAt, loopPc, inCallback>>
errorVars == <<dangling, misused>>
dlVars == <<now, timerVars, watchVars, taskVars, loopVars, errorVars>>

DLInit ==
    /\ now = 0 /\ liveTimers = {} /\ liveWatches = {} /\ liveTasks = Tasks
    /\ mDeadline = [t \in Timers |-> kDurationInfinite]
    /\ mTimerPending = [t \in Timers |-> FALSE]
    /\ mTimers = [t \in Timers |-> "none"]
    /\ mActiveTimers = <<>> /\ mPendingTimers = <<>> /\ mPendingFdWatches = <<>>
    /\ mWantedEvents = [w \in Watches |-> {}] /\ mLastEvents = mWantedEvents
    /\ mScheduledTasks = {} /\ batch = {} /\ runningTask = {}
    /\ mForcedExit = FALSE /\ runUntil = 0 /\ wakeAt = 0
    /\ loopPc = "stopped" /\ inCallback = FALSE /\ dangling = FALSE /\ misused = FALSE

\* Code that may use timers and watches runs.
UserCode == loopPc = "stopped" \/ inCallback

-----------------------------------------------------------------------------
\* Timers.
CreateTimer(t) ==
    /\ UserCode /\ t \notin liveTimers
    /\ mTimers[t] = "none" /\ t \notin ToSet(mActiveTimers)   \* an address in use is not given out
    /\ liveTimers' = liveTimers \cup {t}
    /\ mDeadline' = [mDeadline EXCEPT ![t] = kDurationInfinite]
    /\ mTimerPending' = [mTimerPending EXCEPT ![t] = FALSE]
    /\ UNCHANGED <<now, mActiveTimers, mPendingTimers, mTimers, watchVars, taskVars, loopVars, errorVars>>

\* std::list::erase() of the node of x, if the list holds it.
Erase(list, x) ==
    IF x \in ToSet(list) THEN RemoveAt(list, CHOOSE i \in DOMAIN list : list[i] = x) ELSE list

\* Mutant: the list is not kept in order.
InsertAtEnd(list, t, deadline) == Append(list, t)

\* enableTimer(): in front of the first timer that expires later.
InsertByDeadline(list, t, deadline) ==
    InsertAt(list, Min({i \in DOMAIN list : mDeadline[list[i]] > deadline} \cup {Len(list) + 1}), t)

\* startAbsolute(): disableTimer() erases the node wherever it is, and
\* enableTimer(), which looks at the timers there, puts it among the active ones;
\* mPending is left alone.
StartAbsolute(t, deadline) ==
    LET active == Erase(mActiveTimers, t)
        armed == mDeadline[t] # kDurationInfinite
    IN  /\ UserCode /\ t \in liveTimers
        /\ mPendingTimers' = IF armed THEN Erase(mPendingTimers, t) ELSE mPendingTimers
        /\ mActiveTimers' = IF deadline = kDurationInfinite THEN active
                            ELSE InsertByDeadline(active, t, deadline)
        /\ mTimers' = [mTimers EXCEPT ![t] = IF deadline # kDurationInfinite THEN "active"
                                             ELSE IF armed THEN "none" ELSE @]
        /\ mDeadline' = [mDeadline EXCEPT ![t] = deadline]
        /\ misused' = (misused \/ mTimerPending[t])
        /\ dangling' = \/ dangling
                       \/ armed /\ mTimers[t] = "none"
                       \/ deadline # kDurationInfinite /\ ~(ToSet(active) \subseteq liveTimers)
        /\ UNCHANGED <<now, liveTimers, mTimerPending, watchVars, taskVars, loopVars>>

Start(t) == \E deadline \in now..MaxNow : StartAbsolute(t, deadline)
StopTimer(t) == StartAbsolute(t, kDurationInfinite)

\* clearPending(): erases the node of a pending timer.
ClearPending(t) ==
    /\ mPendingTimers' = IF mTimerPending[t] THEN Erase(mPendingTimers, t) ELSE mPendingTimers
    /\ mActiveTimers' = IF mTimerPending[t] THEN Erase(mActiveTimers, t) ELSE mActiveTimers
    /\ mDeadline' = [mDeadline EXCEPT ![t] = IF mTimerPending[t] THEN kDurationInfinite ELSE @]
    /\ mTimerPending' = [mTimerPending EXCEPT ![t] = FALSE]
    /\ dangling' = (dangling \/ (mTimerPending[t] /\ mTimers[t] = "none"))

\* ~Timer(): an active timer stays in mActiveTimers.
DeleteTimer(t) ==
    /\ UserCode /\ t \in liveTimers
    /\ misused' = (misused \/ (mDeadline[t] # kDurationInfinite /\ ~mTimerPending[t]))
    /\ ClearPending(t)
    /\ liveTimers' = liveTimers \ {t}
    /\ mTimers' = [mTimers EXCEPT ![t] = "none"]
    /\ UNCHANGED <<now, watchVars, taskVars, loopVars>>

-----------------------------------------------------------------------------
\* Watches; every watch has an fd of its own.
CreateFdWatch(w) ==
    /\ UserCode /\ w \notin liveWatches
    /\ liveWatches' = liveWatches \cup {w}
    /\ mWantedEvents' = [mWantedEvents EXCEPT ![w] = {}]
    /\ mLastEvents' = [mLastEvents EXCEPT ![w] = {}]
    /\ UNCHANGED <<now, mPendingFdWatches, timerVars, taskVars, loopVars, errorVars>>

AddEvents(w, events) ==
    /\ UserCode /\ w \in liveWatches
    /\ mWantedEvents' = [mWantedEvents EXCEPT ![w] = @ \cup events]
    /\ UNCHANGED <<now, liveWatches, mLastEvents, mPendingFdWatches, timerVars, taskVars, loopVars, errorVars>>

\* removeEvents(): without wanted events the watch is not pending any more.
RemoveEvents(w, events) ==
    LET newEvents == mWantedEvents[w] \ events
    IN  /\ UserCode /\ w \in liveWatches
        /\ mWantedEvents' = [mWantedEvents EXCEPT ![w] = newEvents]
        /\ mLastEvents' = [mLastEvents EXCEPT ![w] = @ \ events]
        /\ mPendingFdWatches' = IF newEvents = {} /\ mWantedEvents[w] # {}
                                THEN Erase(mPendingFdWatches, w) ELSE mPendingFdWatches
        /\ UNCHANGED <<now, liveWatches, timerVars, taskVars, loopVars, errorVars>>

\* Mutant: a pending watch stays pending.
DeleteFdWatchPending(w) ==
    /\ UserCode /\ w \in liveWatches
    /\ liveWatches' = liveWatches \ {w}
    /\ mWantedEvents' = [mWantedEvents EXCEPT ![w] = {}]
    /\ mLastEvents' = [mLastEvents EXCEPT ![w] = {}]
    /\ UNCHANGED <<now, mPendingFdWatches, timerVars, taskVars, loopVars, errorVars>>

DeleteFdWatch(w) ==
    /\ UserCode /\ w \in liveWatches
    /\ liveWatches' = liveWatches \ {w}
    /\ mWantedEvents' = [mWantedEvents EXCEPT ![w] = {}]
    /\ mLastEvents' = [mLastEvents EXCEPT ![w] = {}]
    /\ mPendingFdWatches' = Erase(mPendingFdWatches, w)
    /\ UNCHANGED <<now, timerVars, taskVars, loopVars, errorVars>>

-----------------------------------------------------------------------------
\* Tasks, and the end of the looper, from any thread.
ScheduleTask(k) ==
    /\ k \in liveTasks
    /\ k \in OneShots => k \notin batch   \* scheduleCallback() makes a task of its own
    /\ mScheduledTasks' = mScheduledTasks \cup {k}
    /\ UNCHANGED <<now, batch, liveTasks, runningTask, timerVars, watchVars, loopVars, errorVars>>

\* cancel(); a task that has been taken runs all the same.
CancelTask(k) ==
    /\ k \in liveTasks \ OneShots /\ k \in mScheduledTasks
    /\ mScheduledTasks' = mScheduledTasks \ {k}
    /\ UNCHANGED <<now, batch, liveTasks, runningTask, timerVars, watchVars, loopVars, errorVars>>

\* ~Task() cancels the task; one that has been taken is still run, and run() reads
\* mSelfDeleting when the callback has returned.
DeleteTask(k) ==
    /\ k \in liveTasks \ OneShots
    /\ mScheduledTasks' = mScheduledTasks \ {k}
    /\ liveTasks' = liveTasks \ {k}
    /\ misused' = (misused \/ k \in batch \cup runningTask)
    /\ dangling' = (dangling \/ k \in runningTask)
    /\ UNCHANGED <<now, batch, runningTask, timerVars, watchVars, loopVars>>

ForceQuit ==
    /\ ~mForcedExit /\ loopPc # "stopped"
    /\ mForcedExit' = TRUE
    /\ UNCHANGED <<now, timerVars, watchVars, taskVars, runUntil, wakeAt, loopPc, inCallback, errorVars>>

-----------------------------------------------------------------------------
\* runWithDeadlineMs().
Run ==
    /\ loopPc = "stopped"
    /\ \E d \in RunDeadlines : runUntil' = d
    /\ mForcedExit' = FALSE /\ loopPc' = "top"
    /\ UNCHANGED <<now, timerVars, watchVars, taskVars, wakeAt, inCallback, errorVars>>

\* Nothing registered (EWOULDBLOCK), past the deadline (ETIMEDOUT), or told to.
MustReturn ==
    \/ mForcedExit
    \/ liveWatches = {} /\ mActiveTimers = <<>> /\ mScheduledTasks = {}
    \/ now > runUntil

Return ==
    /\ loopPc = "top" /\ MustReturn
    /\ loopPc' = "stopped" /\ runUntil' = 0
    /\ UNCHANGED <<now, timerVars, watchVars, taskVars, mForcedExit, wakeAt, inCallback, errorVars>>

Iterate ==
    /\ loopPc = "top" /\ ~MustReturn
    /\ loopPc' = "iterate"
    /\ UNCHANGED <<now, timerVars, watchVars, taskVars, mForcedExit, runUntil, wakeAt, inCallback, errorVars>>

\* The end of the wait comes from the first timer and the deadline, before the
\* tasks are taken; with tasks to run there is no wait.
BeginIteration ==
    LET first == IF mActiveTimers = <<>> THEN kDurationInfinite ELSE mDeadline[Head(mActiveTimers)]
    IN  /\ loopPc = "iterate"
        /\ wakeAt' = IF mScheduledTasks # {} THEN now ELSE IF first > runUntil THEN runUntil ELSE first
        /\ batch' = mScheduledTasks /\ mScheduledTasks' = {}
        /\ loopPc' = "tasks"
        /\ dangling' = (dangling \/ (mActiveTimers # <<>> /\ Head(mActiveTimers) \notin liveTimers))
        /\ UNCHANGED <<now, timerVars, watchVars, liveTasks, runningTask, mForcedExit, runUntil, inCallback, misused>>

RunTask(k) ==
    /\ loopPc = "tasks" /\ k \in batch
    /\ batch' = batch \ {k} /\ runningTask' = {k}
    /\ liveTasks' = liveTasks \ (OneShots \cap {k})
    /\ inCallback' = TRUE
    /\ dangling' = (dangling \/ k \notin liveTasks)
    /\ UNCHANGED <<now, timerVars, watchVars, mScheduledTasks, mForcedExit, runUntil, wakeAt, loopPc, misused>>

\* Without watches nobody sleeps for ever: tasks that were cancelled after Iterate
\* may have been the only reason to go on.
BeginWait ==
    /\ loopPc = "tasks" /\ batch = {}
    /\ loopPc' = IF liveWatches = {} /\ wakeAt = kDurationInfinite THEN "stopped" ELSE "wait"
    /\ inCallback' = FALSE /\ runningTask' = {}
    /\ UNCHANGED <<now, timerVars, watchVars, mScheduledTasks, batch, liveTasks, mForcedExit, runUntil, wakeAt, errorVars>>

\* mWaiter->wait() returns an error.
WaitFails ==
    /\ loopPc = "wait" /\ liveWatches # {}
    /\ loopPc' = "stopped" /\ runUntil' = 0 /\ wakeAt' = 0
    /\ UNCHANGED <<now, timerVars, watchVars, taskVars, mForcedExit, inCallback, errorVars>>

\* Mutant: off by one.
ExpiredStrictly(t) == mDeadline[t] < now

Expired(t) == mDeadline[t] <= now

\* The wait ends: watches with events become pending in whatever order the waiter
\* reports them, and so do the timers in front of the first that has not expired.
EndWait ==
    /\ loopPc = "wait"
    /\ \E ready \in SUBSET {w \in liveWatches : mWantedEvents[w] # {}} :
          /\ ready = {} => now >= wakeAt
          /\ \E events \in [ready -> (SUBSET Events) \ {{}}] :
                /\ \A w \in ready : events[w] \subseteq mWantedEvents[w]
                /\ mLastEvents' = [w \in Watches |-> IF w \in ready THEN events[w] ELSE mLastEvents[w]]
          /\ mPendingFdWatches' \in SetToSeqs(ready)
    /\ LET last == Min({i \in DOMAIN mActiveTimers : ~Expired(mActiveTimers[i])}
                       \cup {Len(mActiveTimers) + 1}) - 1
           expired == SubSeq(mActiveTimers, 1, last)
       IN  /\ mPendingTimers' = expired
           /\ mActiveTimers' = SubSeq(mActiveTimers, last + 1, Len(mActiveTimers))
           /\ mTimers' = [t \in Timers |-> IF t \in ToSet(expired) THEN "pending" ELSE mTimers[t]]
           /\ mTimerPending' = [t \in Timers |-> mTimerPending[t] \/ t \in ToSet(expired)]
           /\ dangling' = (dangling \/ \E i \in DOMAIN mActiveTimers :
                                          i <= last + 1 /\ mActiveTimers[i] \notin liveTimers)
    /\ loopPc' = "timers" /\ wakeAt' = 0
    /\ UNCHANGED <<now, liveTimers, mDeadline, liveWatches, mWantedEvents, taskVars,
                   mForcedExit, runUntil, inCallback, misused>>

FireTimer ==
    /\ loopPc = "timers" /\ mPendingTimers # <<>>
    /\ ClearPending(Head(mPendingTimers))
    /\ mTimers' = [mTimers EXCEPT ![Head(mPendingTimers)] = "none"]
    /\ inCallback' = TRUE
    /\ UNCHANGED <<now, liveTimers, watchVars, taskVars, mForcedExit, runUntil, wakeAt, loopPc, misused>>

EndTimers ==
    /\ loopPc = "timers" /\ mPendingTimers = <<>>
    /\ loopPc' = "watches" /\ inCallback' = FALSE
    /\ UNCHANGED <<now, timerVars, watchVars, taskVars, mForcedExit, runUntil, wakeAt, errorVars>>

FireFdWatch ==
    /\ loopPc = "watches" /\ mPendingFdWatches # <<>>
    /\ mPendingFdWatches' = Tail(mPendingFdWatches)
    /\ mLastEvents' = [mLastEvents EXCEPT ![Head(mPendingFdWatches)] = {}]
    /\ inCallback' = TRUE
    /\ UNCHANGED <<now, timerVars, liveWatches, mWantedEvents, taskVars,
                   mForcedExit, runUntil, wakeAt, loopPc, errorVars>>

EndIteration ==
    /\ loopPc = "watches" /\ mPendingFdWatches = <<>>
    /\ loopPc' = "top" /\ inCallback' = FALSE
    /\ UNCHANGED <<now, timerVars, watchVars, taskVars, mForcedExit, runUntil, wakeAt, errorVars>>

DLTick ==
    /\ now < MaxNow
    /\ now' = now + 1
    /\ UNCHANGED <<timerVars, watchVars, taskVars, loopVars, errorVars>>

LooperSteps ==
    /\ ~dangling
    /\ \/ Return \/ Iterate \/ BeginIteration \/ BeginWait \/ WaitFails \/ EndWait \/ EndTimers
       \/ EndIteration \/ FireTimer \/ FireFdWatch \/ \E k \in Tasks : RunTask(k)

UserSteps ==
    /\ ~dangling
    /\ \/ \E t \in Timers : CreateTimer(t) \/ Start(t) \/ StopTimer(t) \/ DeleteTimer(t)
       \/ \E w \in Watches : CreateFdWatch(w) \/ DeleteFdWatch(w)
       \/ \E w \in Watches, e \in Events : AddEvents(w, {e}) \/ RemoveEvents(w, {e})
       \/ \E k \in Tasks : ScheduleTask(k) \/ CancelTask(k) \/ DeleteTask(k)
       \/ Run \/ ForceQuit

DLNext == LooperSteps \/ UserSteps \/ DLTick

DLSpec == DLInit /\ [][DLNext]_dlVars

-----------------------------------------------------------------------------
\* Every variable has its type; no deadline is past kDurationInfinite.
DLTypeOK ==
    /\ now \in 0..MaxNow /\ liveTimers \subseteq Timers /\ liveWatches \subseteq Watches
    /\ mDeadline \in [Timers -> 0..kDurationInfinite]
    /\ mTimerPending \in [Timers -> BOOLEAN]
    /\ mTimers \in [Timers -> {"none", "active", "pending"}]
    /\ mActiveTimers \in Seq(Timers) /\ mPendingTimers \in Seq(Timers) /\ mPendingFdWatches \in Seq(Watches)
    /\ {mWantedEvents, mLastEvents} \subseteq [Watches -> SUBSET Events]
    /\ mScheduledTasks \subseteq Tasks /\ batch \subseteq Tasks /\ liveTasks \subseteq Tasks /\ runningTask \subseteq Tasks
    /\ loopPc \in {"stopped", "top", "iterate", "tasks", "wait", "timers", "watches"}
    /\ {mForcedExit, inCallback, dangling, misused} \subseteq BOOLEAN
    /\ runUntil \in RunDeadlines \cup {0} /\ wakeAt \in 0..kDurationInfinite

\* "Both FdWatch and Timer delete themselves from pending/active lists"
\* (DefaultLooper.cpp:35): whatever callbacks and other threads create, start, stop
\* and delete, a pending watch and a scheduled task exist, and a watch fires with
\* events that are still wanted, although other callbacks ran since the wait.  And
\* no deleted object is used, no list node erased twice, until the program does
\* what the code does not survive (`misused'): it starts or stops a timer that is
\* pending (disableTimer() erases its node from the wrong list), deletes an active
\* one (~Timer() leaves it in mActiveTimers, against the comment), or deletes a task
\* that the looper has taken and will run all the same, or is running.
NothingDangles ==
    /\ ToSet(mPendingFdWatches) \subseteq liveWatches /\ mScheduledTasks \subseteq liveTasks
    /\ \A w \in liveWatches : mLastEvents[w] \subseteq mWantedEvents[w]
    /\ ~misused => /\ ~dangling /\ batch \subseteq liveTasks
                   /\ ToSet(mActiveTimers) \cup ToSet(mPendingTimers) \subseteq liveTimers

\* Until such a misuse, an armed timer is in exactly one list, once, and the active
\* list is in the order of the deadlines, so the wait never outlasts the next timer.
ArmedTimersAreListed ==
    ~misused =>
        /\ \A t \in liveTimers : mDeadline[t] # kDurationInfinite <=>
              t \in ToSet(mActiveTimers) \cup ToSet(mPendingTimers)
        /\ IsInjective(mActiveTimers \o mPendingTimers)
        /\ \A i, j \in DOMAIN mActiveTimers : i < j => mDeadline[mActiveTimers[i]] <= mDeadline[mActiveTimers[j]]

\* While the looper runs, a timer that expires is fired, stopped or deleted, unless
\* the program misuses the looper.
TimersFire ==
    \A t \in Timers : (t \in liveTimers /\ mDeadline[t] <= now /\ loopPc # "stopped")
                         ~> (t \notin liveTimers \/ mDeadline[t] > now \/ loopPc = "stopped" \/ misused)
=============================================================================
