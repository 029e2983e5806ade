---------------------------- MODULE HangDetector ----------------------------
(***************************************************************************)
(* The hang detector: a worker thread schedules a task on every watched    *)
(* looper and calls the hang callback when the task does not answer.       *)
(*                                                                         *)
(* HangDetector::mLock is held by the worker except while it waits, so the *)
(* public calls happen only at workerPc = "wait".  LooperWatcher::mLock    *)
(* makes process() atomic for taskComplete() up to the explicit unlock of  *)
(* HangDetector.cpp:105; the steps behind it interleave with the looper.   *)
(* The second unlock, by the destructor of the unique_lock, is undefined   *)
(* behaviour that the build turns into no effect.                          *)
(*                                                                         *)
(* Time is kept relative: the age of the last check and what is left of    *)
(* the wait, both capped at the largest value the code tells apart.        *)
(***************************************************************************)
EXTENDS Integers, FiniteSets

CONSTANTS Loopers,          \* loopers that may be watched
          hangTimeout,      \* mTimeout, in iterations of the worker
          hangCheckTimeout, \* mTiming.hangCheckTimeout, in iterations
          Hangs,            \* loopers that may stop answering
          MaxPauses         \* bound on nested pause(true) calls

ASSUME HangTimingAssumption ==
    /\ hangTimeout \in Nat \ {0} /\ hangCheckTimeout \in Nat \ {0}
    /\ Hangs \subseteq Loopers /\ MaxPauses \in Nat

kMaxHangCount == 2

\* Ages above this cannot be told apart by process().
AgeCap == 1 + (IF 2 * hangTimeout > hangCheckTimeout THEN 2 * hangTimeout ELSE hangCheckTimeout)

VARIABLES mLoopers,       \* loopers under watch
          mIsTaskRunning, \* per looper: a check waits for its answer
          mHangCount,     \* per looper: unanswered checks in a row
          age,            \* per looper: now - mLastCheckTime
          scheduled,      \* per looper: mTask is in the looper's task set
          taken,          \* per looper: the looper has taken mTask out to run it
          hung,           \* per looper: its thread does not run anything
          reported,       \* per looper: the callback was called since the last answer
          mPaused, mStopping,
          workerPc,       \* "wait", "process", "unlocked", "assign", "done"
          todo,           \* loopers that this iteration has not processed
          current,        \* looper whose process() call is past the unlock
          left            \* what is left of the wait, in iterations

hdVars == <<mLoopers, mIsTaskRunning, mHangCount, age, scheduled, taken, hung, reported,
            mPaused, mStopping, workerPc, todo, current, left>>
watcherVars == <<mIsTaskRunning, mHangCount, age, scheduled>>
looperVars == <<taken, hung>>

HDInit ==
    /\ mLoopers = {} /\ todo = {} /\ current = {}
    /\ mIsTaskRunning = [l \in Loopers |-> FALSE]
    /\ mHangCount = [l \in Loopers |-> 0]
    /\ age = [l \in Loopers |-> AgeCap]
    /\ scheduled = [l \in Loopers |-> FALSE] /\ taken = scheduled
    /\ hung = scheduled /\ reported = scheduled
    /\ mPaused = 0 /\ mStopping = FALSE
    /\ workerPc = "wait" /\ left = 1

\* startHangCheckLocked() by a thread that holds the watcher's lock.
StartHangCheckLocked(l) ==
    /\ scheduled' = [scheduled EXCEPT ![l] = TRUE]
    /\ mIsTaskRunning' = [mIsTaskRunning EXCEPT ![l] = TRUE]
    /\ age' = [age EXCEPT ![l] = 0]

\* cancelHangCheck() of every watcher; a task that the looper has taken still runs.
CancelHangChecks ==
    /\ scheduled' = [l \in Loopers |-> FALSE]
    /\ mIsTaskRunning' = [l \in Loopers |-> FALSE]
    /\ age' = [l \in Loopers |-> IF l \in mLoopers THEN 0 ELSE age[l]]

\* Mutant: mPaused is not looked at.
AddWatchedLooperAlways(l) ==
    /\ workerPc = "wait" /\ l \notin mLoopers
    /\ mLoopers' = mLoopers \cup {l}
    /\ StartHangCheckLocked(l)
    /\ UNCHANGED <<mHangCount, looperVars, reported, mPaused, mStopping, workerPc, todo, current, left>>

AddWatchedLooper(l) ==
    /\ workerPc = "wait" /\ l \notin mLoopers
    /\ mLoopers' = mLoopers \cup {l}
    /\ IF mPaused = 0 /\ ~mStopping
       THEN StartHangCheckLocked(l)
       ELSE UNCHANGED <<scheduled, mIsTaskRunning, age>>
    /\ UNCHANGED <<mHangCount, looperVars, reported, mPaused, mStopping, workerPc, todo, current, left>>

\* pause(TRUE) and pause(FALSE); the callers balance them.
Pause(paused) ==
    /\ workerPc = "wait"
    /\ IF paused THEN mPaused < MaxPauses ELSE mPaused > 0
    /\ mPaused' = mPaused + (IF paused THEN 1 ELSE -1)
    /\ IF paused /\ mPaused' = 1
       THEN CancelHangChecks
       ELSE UNCHANGED <<scheduled, mIsTaskRunning, age>>
    /\ UNCHANGED <<mLoopers, mHangCount, looperVars, reported, mStopping, workerPc, todo, current, left>>

Stop ==
    /\ workerPc = "wait" /\ ~mStopping
    /\ CancelHangChecks
    /\ mStopping' = TRUE
    /\ UNCHANGED <<mLoopers, mHangCount, looperVars, reported, mPaused, workerPc, todo, current, left>>

\* workerThread(): the wait ends in time and every watcher is processed.
WorkerIterates ==
    /\ workerPc = "wait" /\ ~mStopping /\ mPaused = 0
    /\ left = 0
    /\ workerPc' = "process" /\ todo' = mLoopers /\ left' = 1
    /\ UNCHANGED <<mLoopers, watcherVars, looperVars, reported, mPaused, mStopping, current>>

\* workerThread(): paused, or more than one iteration late: wait again.
WorkerWaitsAgain ==
    /\ workerPc = "wait" /\ ~mStopping
    /\ left = -1 \/ (left = 0 /\ mPaused > 0)
    /\ left' = 1
    /\ UNCHANGED <<mLoopers, watcherVars, looperVars, reported, mPaused, mStopping, workerPc, todo, current>>

WorkerStops ==
    /\ workerPc = "wait" /\ mStopping
    /\ workerPc' = "done"
    /\ UNCHANGED <<mLoopers, watcherVars, looperVars, reported, mPaused, mStopping, todo, current, left>>

\* An unanswered check between one and two timeouts old counts as a hang.
Hanging(l) == mIsTaskRunning[l] /\ age[l] > hangTimeout /\ age[l] < 2 * hangTimeout

\* LooperWatcher::process() up to the unlock, or to its end.
Process(l) ==
    /\ workerPc = "process" /\ l \in todo
    /\ \/ /\ Hanging(l)
          /\ mHangCount' = [mHangCount EXCEPT ![l] = IF @ < kMaxHangCount THEN @ + 1 ELSE @]
          /\ workerPc' = "unlocked" /\ current' = {l}
          /\ UNCHANGED <<mIsTaskRunning, age, scheduled, todo>>
       \/ /\ ~mIsTaskRunning[l] /\ age[l] > hangCheckTimeout
          /\ mHangCount' = [mHangCount EXCEPT ![l] = 0]
          /\ StartHangCheckLocked(l)
          /\ todo' = todo \ {l}
          /\ UNCHANGED <<workerPc, current>>
       \/ /\ IF mIsTaskRunning[l] THEN ~Hanging(l) ELSE age[l] <= hangCheckTimeout
          /\ todo' = todo \ {l}
          /\ UNCHANGED <<watcherVars, workerPc, current>>
    /\ UNCHANGED <<mLoopers, looperVars, reported, mPaused, mStopping, left>>

\* Mutant: off by one.
HangCallbackAbove(l) ==
    /\ workerPc = "unlocked" /\ l \in current /\ mHangCount[l] > kMaxHangCount
    /\ reported' = [reported EXCEPT ![l] = TRUE]
    /\ workerPc' = "process" /\ todo' = todo \ {l} /\ current' = {}
    /\ UNCHANGED <<mLoopers, watcherVars, looperVars, mPaused, mStopping, left>>

\* The hang callback (no debugger attached), called without the watcher's lock.
HangCallback(l) ==
    /\ workerPc = "unlocked" /\ l \in current /\ mHangCount[l] >= kMaxHangCount
    /\ reported' = [reported EXCEPT ![l] = TRUE]
    /\ workerPc' = "process" /\ todo' = todo \ {l} /\ current' = {}
    /\ UNCHANGED <<mLoopers, watcherVars, looperVars, mPaused, mStopping, left>>

\* startHangCheckLocked() without the lock: first the task is scheduled ...
Reschedule(l) ==
    /\ workerPc = "unlocked" /\ l \in current /\ mHangCount[l] < kMaxHangCount
    /\ scheduled' = [scheduled EXCEPT ![l] = TRUE]
    /\ workerPc' = "assign"
    /\ UNCHANGED <<mLoopers, mIsTaskRunning, mHangCount, age, looperVars, reported,
                   mPaused, mStopping, todo, current, left>>

\* ... then mIsTaskRunning and mLastCheckTime are set.
AssignRunning(l) ==
    /\ workerPc = "assign" /\ l \in current
    /\ mIsTaskRunning' = [mIsTaskRunning EXCEPT ![l] = TRUE]
    /\ age' = [age EXCEPT ![l] = 0]
    /\ workerPc' = "process" /\ todo' = todo \ {l} /\ current' = {}
    /\ UNCHANGED <<mLoopers, mHangCount, scheduled, looperVars, reported, mPaused, mStopping, left>>

WorkerEndsIteration ==
    /\ workerPc = "process" /\ todo = {}
    /\ workerPc' = "wait"
    /\ UNCHANGED <<mLoopers, watcherVars, looperVars, reported, mPaused, mStopping, todo, current, left>>

\* The looper takes the task out of its set ...
LooperTakes(l) ==
    /\ ~hung[l] /\ scheduled[l] /\ ~taken[l]
    /\ scheduled' = [scheduled EXCEPT ![l] = FALSE]
    /\ taken' = [taken EXCEPT ![l] = TRUE]
    /\ UNCHANGED <<mLoopers, mIsTaskRunning, mHangCount, age, hung, reported,
                   mPaused, mStopping, workerPc, todo, current, left>>

\* ... and runs taskComplete().
TaskComplete(l) ==
    /\ ~hung[l] /\ taken[l]
    /\ taken' = [taken EXCEPT ![l] = FALSE]
    /\ mIsTaskRunning' = [mIsTaskRunning EXCEPT ![l] = FALSE]
    /\ reported' = [reported EXCEPT ![l] = FALSE]
    /\ UNCHANGED <<mLoopers, mHangCount, age, scheduled, hung,
                   mPaused, mStopping, workerPc, todo, current, left>>

\* A looper's thread stops answering, or answers again.
Hang(l) ==
    /\ l \in Hangs
    /\ hung' = [hung EXCEPT ![l] = ~@]
    /\ UNCHANGED <<mLoopers, watcherVars, taken, reported, mPaused, mStopping, workerPc, todo, current, left>>

Older(n) == IF n < AgeCap THEN n + 1 ELSE n

Tick ==
    /\ workerPc = "wait" /\ left = 1
    /\ left' = 0
    /\ age' = [l \in Loopers |-> Older(age[l])]
    /\ UNCHANGED <<mLoopers, mIsTaskRunning, mHangCount, scheduled, looperVars, reported,
                   mPaused, mStopping, workerPc, todo, current>>

\* The host is suspended for longer than every timeout.
SystemSleep ==
    /\ workerPc = "wait"
    /\ left' = -1
    /\ age' = [l \in Loopers |-> AgeCap]
    /\ UNCHANGED <<mLoopers, mIsTaskRunning, mHangCount, scheduled, looperVars, reported,
                   mPaused, mStopping, workerPc, todo, current>>

WorkerStep ==
    \/ WorkerIterates \/ WorkerWaitsAgain \/ WorkerStops \/ WorkerEndsIteration
    \/ \E l \in Loopers : Process(l) \/ HangCallback(l) \/ Reschedule(l) \/ AssignRunning(l)

LooperStep(l) == LooperTakes(l) \/ TaskComplete(l)

HDNext ==
    \/ WorkerStep
    \/ \E l \in Loopers : AddWatchedLooper(l) \/ LooperStep(l) \/ Hang(l)
    \/ \E paused \in BOOLEAN : Pause(paused)
    \/ Stop \/ Tick \/ SystemSleep

HDSpec == HDInit /\ [][HDNext]_hdVars

-----------------------------------------------------------------------------
\* Every variable has its type.
HDTypeOK ==
    /\ mLoopers \subseteq Loopers /\ todo \subseteq mLoopers /\ current \subseteq todo
    /\ {mIsTaskRunning, scheduled, taken, hung, reported} \subseteq [Loopers -> BOOLEAN]
    /\ mHangCount \in [Loopers -> 0..kMaxHangCount]
    /\ age \in [Loopers -> 0..AgeCap]
    /\ mPaused \in 0..MaxPauses /\ mStopping \in BOOLEAN
    /\ workerPc \in {"wait", "process", "unlocked", "assign", "done"}
    /\ left \in -1..1

\* pause() leaves no check behind that could be taken for a hang when the
\* emulator resumes: while paused no check waits for an answer, whatever was
\* being processed, added or paused again in the meantime.
PausedMeansIdle == mPaused > 0 => \A l \in Loopers : ~mIsTaskRunning[l] /\ ~scheduled[l]

\* "if a task was scheduled for a while and didn't finish in time, to call the
\* |hangCallback|" (HangDetector.h:44-45): an unanswered check is counted only
\* for a looper whose task has not finished.
HangsCountedAreReal ==
    [][\A l \in Loopers : mHangCount'[l] > mHangCount[l] => scheduled[l] \/ taken[l]]_hdVars

Watched(l) == l \in mLoopers /\ mPaused = 0 /\ ~mStopping
\* process() has nothing to do with a check as old as two timeouts (:98).
Forgotten(l) == mIsTaskRunning[l] /\ age[l] >= 2 * hangTimeout

\* A watched looper that stops answering for good is reported, unless the host
\* slept so long that the check is too old to count.
HangIsReported ==
    \A l \in Loopers :
        (hung[l] /\ Watched(l)) ~> (reported[l] \/ ~hung[l] \/ ~Watched(l) \/ Forgotten(l))

=============================================================================
