------------------------------ MODULE FileLock ------------------------------
(***************************************************************************)
(* The file locks that keep two emulators off the same disk image, as      *)
(* built for POSIX: filelock_lock() links a temporary file that holds the  *)
(* pid to `<file>.lock'; a lock whose process is gone is removed.  Every   *)
(* system call is a step of its own.  A process runs one filelock_create   *)
(* call at a time on the one file; pids are not used again.                *)
(***************************************************************************)
EXTENDS Integers, FiniteSets

CONSTANTS Procs,        \* emulator processes (their pids)
          Timeouts,     \* timeouts of filelock_create_timeout, in sleeps
          MaxAttempts   \* bound on the calls a process makes

ASSUME FileLockAssumption == Timeouts \subseteq Nat /\ MaxAttempts \in Nat /\ Procs \subseteq Nat \ {0}

NoFile == 0
Win32Dir == -1

VARIABLES lockFile,   \* pid in `<file>.lock', NoFile, or Win32Dir
          alive,      \* processes that run
          locked,     \* processes with lock->locked set
          is_exiting, \* processes past filelock_atexit()
          flPc,       \* per process: where filelock_create_timeout() is
          lockpid,    \* per process: the pid it read from the lock file
          timeout,    \* per process: sleeps left
          sleeping,   \* processes with sleep_duration_ms > 0
          attempts,   \* per process: calls made
          givenUp     \* history: a lock was released or a process has ended

flVars == <<lockFile, alive, locked, is_exiting, flPc, lockpid, timeout, sleeping, attempts, givenUp>>

FLInit ==
    /\ lockFile \in {NoFile, Win32Dir}
    /\ alive = Procs /\ locked = {} /\ is_exiting = {}
    /\ flPc = [p \in Procs |-> "idle"]
    /\ lockpid = [p \in Procs |-> 0]
    /\ timeout = [p \in Procs |-> 0]
    /\ sleeping = {}
    /\ attempts = [p \in Procs |-> 0]
    /\ givenUp = FALSE

\* Process p goes from one point of filelock_create_timeout() to another.
At(p, from) == p \in alive /\ flPc[p] = from
Goto(p, to) == flPc' = [flPc EXCEPT ![p] = to]

\* mkstemp, write of the pid and lstat; one of them may fail.
CreateTemp(p) ==
    /\ At(p, "idle") /\ p \notin locked /\ attempts[p] < MaxAttempts
    /\ attempts' = [attempts EXCEPT ![p] = @ + 1]
    /\ \E t \in Timeouts : timeout' = [timeout EXCEPT ![p] = t]
    /\ sleeping' = sleeping \ {p}
    /\ Goto(p, "link") \/ Goto(p, "idle")
    /\ UNCHANGED <<lockFile, alive, locked, is_exiting, lockpid, givenUp>>

\* Mutant: the lock file is replaced.
LinkReplaces(p) ==
    /\ At(p, "link")
    /\ lockFile' = p /\ locked' = locked \cup {p} /\ Goto(p, "register")
    /\ UNCHANGED <<alive, is_exiting, lockpid, timeout, sleeping, attempts, givenUp>>

\* link(temp, lock): atomic, fails when the lock file exists.
Link(p) ==
    /\ At(p, "link")
    /\ IF lockFile = NoFile
       THEN lockFile' = p /\ locked' = locked \cup {p} /\ Goto(p, "register")
       ELSE Goto(p, "lstat") /\ UNCHANGED <<lockFile, locked>>
    /\ UNCHANGED <<alive, is_exiting, lockpid, timeout, sleeping, attempts, givenUp>>

\* lstat(lock): gone again, the directory of a Win32 emulator, or a file.
Lstat(p) ==
    /\ At(p, "lstat")
    /\ \/ lockFile = NoFile /\ Goto(p, "link") /\ UNCHANGED lockFile
       \/ lockFile = Win32Dir /\ Goto(p, "idle") /\ lockFile' \in {NoFile, Win32Dir}
       \/ lockFile \in Procs /\ Goto(p, "read") /\ UNCHANGED lockFile
    /\ UNCHANGED <<alive, locked, is_exiting, lockpid, timeout, sleeping, attempts, givenUp>>

\* open and read of the pid.  Without a pid the file counts as two minutes old.
ReadPid(p) ==
    /\ At(p, "read")
    /\ IF lockFile \in Procs
       THEN lockpid' = [lockpid EXCEPT ![p] = lockFile] /\ Goto(p, "kill")
       ELSE lockpid' = [lockpid EXCEPT ![p] = 0] /\ Goto(p, "stale")
    /\ UNCHANGED <<lockFile, alive, locked, is_exiting, timeout, sleeping, attempts, givenUp>>

\* kill(lockpid, 0).
CheckPid(p) ==
    /\ At(p, "kill")
    /\ Goto(p, IF lockpid[p] \in alive THEN "waitpid" ELSE "stale")
    /\ UNCHANGED <<lockFile, alive, locked, is_exiting, lockpid, timeout, sleeping, attempts, givenUp>>

\* wait_for() of the process that holds the lock, for sleep_duration_ms: without
\* a sleep the answer is always "timeout", and it may be that at the very end.
WaitPid(p) ==
    /\ At(p, "waitpid")
    /\ \/ Goto(p, "fresh")
       \/ p \in sleeping /\ lockpid[p] \notin alive /\ Goto(p, "stale")
    /\ UNCHANGED <<lockFile, alive, locked, is_exiting, lockpid, timeout, sleeping, attempts, givenUp>>

\* Mutant: the stale file is left alone.
RemoveStaleNot(p) ==
    /\ At(p, "stale") /\ Goto(p, "fresh")
    /\ UNCHANGED <<lockFile, alive, locked, is_exiting, lockpid, timeout, sleeping, attempts, givenUp>>

\* unlink(lock), whatever it holds by now; a directory cannot be unlinked.
RemoveStale(p) ==
    /\ At(p, "stale")
    /\ lockFile' = IF lockFile \in Procs THEN NoFile ELSE lockFile
    /\ Goto(p, "fresh")
    /\ UNCHANGED <<alive, locked, is_exiting, lockpid, timeout, sleeping, attempts, givenUp>>

\* Out of time: the call fails; otherwise link again, after a sleep in every
\* pass but the first.
Retry(p) ==
    /\ At(p, "fresh")
    /\ IF timeout[p] = 0
       THEN Goto(p, "idle") /\ UNCHANGED <<timeout, sleeping>>
       ELSE /\ Goto(p, "link")
            /\ timeout' = [timeout EXCEPT ![p] = @ - (IF p \in sleeping THEN 1 ELSE 0)]
            /\ sleeping' = IF timeout'[p] = 0 THEN sleeping \ {p} ELSE sleeping \cup {p}
    /\ UNCHANGED <<lockFile, alive, locked, is_exiting, lockpid, attempts, givenUp>>

\* filelock_release(): unlink(lock) by name.
ReleaseLock(p) ==
    /\ lockFile' = IF lockFile \in Procs THEN NoFile ELSE lockFile
    /\ locked' = locked \ {p}
    /\ givenUp' = TRUE

\* filelock_create_timeout() puts the lock into all_filelocks unless the
\* process is exiting.
Register(p) ==
    /\ At(p, "register")
    /\ IF p \in is_exiting THEN ReleaseLock(p) ELSE UNCHANGED <<lockFile, locked, givenUp>>
    /\ Goto(p, "idle")
    /\ UNCHANGED <<alive, is_exiting, lockpid, timeout, sleeping, attempts>>

FilelockRelease(p) ==
    /\ At(p, "idle") /\ p \in locked
    /\ ReleaseLock(p)
    /\ UNCHANGED <<alive, is_exiting, flPc, lockpid, timeout, sleeping, attempts>>

\* filelock_atexit() releases what all_filelocks holds.
Atexit(p) ==
    /\ p \in alive \ is_exiting
    /\ is_exiting' = is_exiting \cup {p}
    /\ IF p \in locked /\ flPc[p] # "register"
       THEN ReleaseLock(p)
       ELSE UNCHANGED <<lockFile, locked, givenUp>>
    /\ UNCHANGED <<alive, flPc, lockpid, timeout, sleeping, attempts>>

\* A process ends: after its exit handlers, or killed at any point.
ProcessEnds(p) ==
    /\ p \in alive
    /\ alive' = alive \ {p} /\ givenUp' = TRUE
    /\ UNCHANGED <<lockFile, locked, is_exiting, flPc, lockpid, timeout, sleeping, attempts>>

LockStep(p) ==
    \/ Link(p) \/ Lstat(p) \/ ReadPid(p) \/ CheckPid(p) \/ WaitPid(p)
    \/ RemoveStale(p) \/ Retry(p) \/ Register(p)

FLNext ==
    \E p \in Procs :
        LockStep(p) \/ CreateTemp(p) \/ FilelockRelease(p) \/ Atexit(p) \/ ProcessEnds(p)

FLSpec == FLInit /\ [][FLNext]_flVars

-----------------------------------------------------------------------------
\* Every variable has its type; the time left is never negative, and somebody who
\* sleeps has some.
FLTypeOK ==
    /\ lockFile \in Procs \cup {NoFile, Win32Dir}
    /\ alive \subseteq Procs /\ locked \subseteq Procs /\ is_exiting \subseteq Procs
    /\ sleeping \subseteq Procs /\ \A p \in sleeping : timeout[p] > 0
    /\ flPc \in [Procs -> {"idle", "link", "lstat", "read", "kill", "waitpid", "stale", "fresh", "register"}]
    /\ lockpid \in [Procs -> Procs \cup {0}]
    /\ timeout \in [Procs -> Nat]
    /\ attempts \in [Procs -> 0..MaxAttempts]
    /\ givenUp \in BOOLEAN

Holders == locked \cap alive

\* "useful to prevent several emulator instances from using the same writable
\* file" (filelock.cpp:63-64): at most one running process holds the lock.
LockIsExclusive == Cardinality(Holders) <= 1

\* Until some process gives the lock up or ends, nobody takes the holder's lock
\* for a stale one: the lock is exclusive and the file names its holder.
ExclusiveUntilGivenUp ==
    ~givenUp => /\ Cardinality(Holders) <= 1
                /\ \A p \in Holders : lockFile = p

\* The lock of a process that died is cleaned up and taken by one that waits
\* for it, once nobody else runs.
Alone(p) == alive = {p} /\ p \notin is_exiting
StaleLockIsTaken ==
    \A p \in Procs :
        (Alone(p) /\ flPc[p] = "link" /\ timeout[p] > 0 /\ lockFile # Win32Dir)
            ~> (p \in locked \/ ~Alone(p))
=============================================================================
