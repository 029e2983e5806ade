--------------------------- MODULE FileLockProofs ---------------------------
(***************************************************************************)
(* ExclusiveUntilGivenUp, for any number of processes, calls and timeouts. *)
(* It is not inductive: that nobody unlinks the holder's file needs that   *)
(* nobody is on the way to take it for a stale one.                        *)
(***************************************************************************)
EXTENDS FileLock, FiniteSetTheorems, TLAPS

\* Nobody is about to unlink the file: a process that read it found a pid, and
\* the pid is one of a process that runs.
NobodyThinksStale ==
    \A p \in Procs :
        /\ flPc[p] # "stale"
        /\ flPc[p] = "read" => lockFile \in Procs
        /\ flPc[p] \in {"kill", "waitpid"} => lockpid[p] \in Procs

FLInv ==
    /\ FLTypeOK
    /\ ~givenUp => /\ alive = Procs
                   /\ \A p \in locked : lockFile = p
                   /\ NobodyThinksStale

\* At first nobody holds the lock or looks for it.
LEMMA FLInitially == FLInit => FLInv
<1> SUFFICES ASSUME FLInit PROVE FLInv
  OBVIOUS
<1>0. /\ lockpid \in [Procs -> Procs \cup {0}]
      /\ timeout \in [Procs -> Nat]
      /\ attempts \in [Procs -> 0..MaxAttempts]
  BY FileLockAssumption DEF FLInit
<1>1. FLTypeOK
  BY <1>0, Zenon DEF FLInit, FLTypeOK
<1>2. NobodyThinksStale
  BY DEF FLInit, NobodyThinksStale
<1> QED
  BY <1>1, <1>2 DEF FLInit, FLInv

\* One step of filelock_create_timeout() keeps the lock with its holder.
LEMMA LockStepKeeps ==
  ASSUME FLInv, NEW p \in Procs, LockStep(p)
  PROVE  FLInv'
<1> USE FileLockAssumption DEF FLInv, At, Goto
<1>1. CASE Link(p)
  <2>1. CASE lockFile = NoFile
    <3>1. FLTypeOK'
      <4>1. lockFile' = p /\ locked' = locked \cup {p} /\ flPc' = [flPc EXCEPT ![p] = "register"]
            /\ UNCHANGED <<alive, is_exiting, lockpid, timeout, sleeping, attempts, givenUp>>
        BY <1>1, <2>1 DEF Link
      <4> QED
        BY <4>1 DEF FLTypeOK
    <3>2. ~givenUp => locked = {}
      BY <2>1 DEF FLTypeOK, NoFile
    <3>3. ~givenUp' => NobodyThinksStale'
      BY <1>1, <2>1 DEF Link, FLTypeOK, NobodyThinksStale
    <3> QED
      BY <1>1, <2>1, <3>1, <3>2, <3>3 DEF Link
  <2>2. CASE lockFile # NoFile
    BY <1>1, <2>2 DEF Link, FLTypeOK, NobodyThinksStale
  <2> QED
    BY <2>1, <2>2
<1>2. CASE Lstat(p)
  BY <1>2 DEF Lstat, FLTypeOK, NobodyThinksStale, NoFile, Win32Dir
<1>3. CASE ReadPid(p)
  BY <1>3 DEF ReadPid, FLTypeOK, NobodyThinksStale
<1>4. CASE CheckPid(p)
  BY <1>4 DEF CheckPid, FLTypeOK, NobodyThinksStale
<1>5. CASE WaitPid(p)
  BY <1>5 DEF WaitPid, FLTypeOK, NobodyThinksStale
<1>6. CASE RemoveStale(p)
  BY <1>6 DEF RemoveStale, FLTypeOK, NobodyThinksStale
<1>7. CASE Retry(p)
  <2>1. /\ timeout' \in [Procs -> Nat] /\ sleeping' \subseteq Procs
        /\ \A q \in sleeping' : timeout'[q] > 0
    <3>1. CASE timeout[p] = 0
      BY <1>7, <3>1 DEF Retry, FLTypeOK
    <3>2. CASE timeout[p] # 0
      <4> DEFINE left == timeout[p] - (IF p \in sleeping THEN 1 ELSE 0)
      <4>1. /\ timeout' = [timeout EXCEPT ![p] = left]
            /\ sleeping' = IF timeout'[p] = 0 THEN sleeping \ {p} ELSE sleeping \cup {p}
        BY <1>7, <3>2 DEF Retry
      <4>2. left \in Nat /\ timeout \in [Procs -> Nat] /\ sleeping \subseteq Procs
            /\ \A q \in sleeping : timeout[q] > 0
        BY <3>2 DEF FLTypeOK
      <4> HIDE DEF left
      <4>3. timeout' \in [Procs -> Nat] /\ timeout'[p] = left
            /\ \A q \in Procs \ {p} : timeout'[q] = timeout[q]
        BY <4>1, <4>2
      <4>4. CASE left = 0
        BY <4>1, <4>2, <4>3, <4>4
      <4>5. CASE left # 0
        BY <4>1, <4>2, <4>3, <4>5
      <4> QED
        BY <4>4, <4>5
    <3> QED
      BY <3>1, <3>2
  <2>2. /\ flPc' \in [Procs -> {"idle", "link", "lstat", "read", "kill", "waitpid", "stale", "fresh", "register"}]
        /\ UNCHANGED <<lockFile, alive, locked, is_exiting, lockpid, attempts, givenUp>>
        /\ ~givenUp => NobodyThinksStale'
    BY <1>7 DEF Retry, FLTypeOK, NobodyThinksStale
  <2> QED
    BY <2>1, <2>2 DEF FLTypeOK
<1>8. CASE Register(p)
  BY <1>8 DEF Register, ReleaseLock, FLTypeOK, NobodyThinksStale
<1> QED
  BY <1>1, <1>2, <1>3, <1>4, <1>5, <1>6, <1>7, <1>8 DEF LockStep

\* So does every other call of a process, and its end gives the lock up.
LEMMA OtherCallsKeep ==
  ASSUME FLInv, NEW p \in Procs,
         CreateTemp(p) \/ FilelockRelease(p) \/ Atexit(p) \/ ProcessEnds(p)
  PROVE  FLInv'
<1> USE FileLockAssumption DEF FLInv, At, Goto
<1>1. CASE CreateTemp(p)
  BY <1>1 DEF CreateTemp, FLTypeOK, NobodyThinksStale
<1>2. CASE FilelockRelease(p)
  BY <1>2 DEF FilelockRelease, ReleaseLock, FLTypeOK, NobodyThinksStale
<1>3. CASE Atexit(p)
  BY <1>3 DEF Atexit, ReleaseLock, FLTypeOK, NobodyThinksStale
<1>4. CASE ProcessEnds(p)
  BY <1>4 DEF ProcessEnds, FLTypeOK, NobodyThinksStale
<1> QED
  BY <1>1, <1>2, <1>3, <1>4

\* The invariant is one.
LEMMA FLInvariant == FLSpec => []FLInv
<1>1. FLInv /\ [FLNext]_flVars => FLInv'
  <2> SUFFICES ASSUME FLInv, [FLNext]_flVars PROVE FLInv'
    OBVIOUS
  <2>1. CASE FLNext
    BY <2>1, LockStepKeeps, OtherCallsKeep DEF FLNext
  <2>2. CASE UNCHANGED flVars
    BY <2>2 DEF flVars, FLInv, FLTypeOK, NobodyThinksStale
  <2> QED
    BY <2>1, <2>2
<1> QED
  BY <1>1, FLInitially, PTL DEF FLSpec

\* A set whose members are all equal has at most one.
LEMMA AtMostOne ==
  ASSUME NEW S, NEW x, \A y \in S : y = x
  PROVE  Cardinality(S) <= 1
<1>1. CASE S = {}
  BY <1>1, FS_EmptySet
<1>2. CASE S # {}
  <2>1. S = {x}
    BY <1>2
  <2> QED
    BY <2>1, FS_Singleton
<1> QED
  BY <1>1, <1>2

\* Until some process releases the lock or ends, filelock_create_timeout() never
\* takes the lock of a running process for a stale one: at most one process
\* holds it, and the lock file names that process.
THEOREM ExclusiveTheorem == FLSpec => []ExclusiveUntilGivenUp
<1>1. FLInv => ExclusiveUntilGivenUp
  <2> SUFFICES ASSUME FLInv, ~givenUp
               PROVE  Cardinality(Holders) <= 1 /\ \A p \in Holders : lockFile = p
    BY DEF ExclusiveUntilGivenUp
  <2>1. \A p \in Holders : p = lockFile
    BY DEF FLInv, Holders
  <2> QED
    BY <2>1, AtMostOne
<1> QED
  BY <1>1, FLInvariant, PTL

\* The locks of a process, its place in filelock_create_timeout() and the time it
\* has left keep their types; Retry never counts below zero.
THEOREM FLTypeTheorem == FLSpec => []FLTypeOK
<1>1. FLInv => FLTypeOK
  BY DEF FLInv
<1> QED
  BY <1>1, FLInvariant, PTL
=============================================================================
