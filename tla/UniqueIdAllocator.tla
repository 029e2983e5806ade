------------------------- MODULE UniqueIdAllocator -------------------------
(***************************************************************************)
(* UniqueIdAllocator of emulator/plugin/vsock_goldfish/vsock.cpp: hands    *)
(* out the numbers the device adds to kDynamicPortsStart to make the host  *)
(* ports of the connections the host opens.  An allocator is a record; a   *)
(* method is an operator on it.                                            *)
(***************************************************************************)
EXTENDS Integers

\* The member initialisers; also what reset() leaves.
NewAllocator == [mLastId |-> 0, mReturnedIds |-> {}]

\* The ids that are handed out and not yet returned.
InUse(a) == (1 .. a.mLastId) \ a.mReturnedIds

\* mReturnedIds is ordered by std::greater, so its last element is the least.
LeastReturned(a) == CHOOSE x \in a.mReturnedIds : \A y \in a.mReturnedIds : x <= y

\* get(): the id that is returned ...
GetId(a) == IF a.mReturnedIds = {} THEN a.mLastId + 1 ELSE LeastReturned(a)

\* Mutant: get() hands out a returned id and forgets to erase it.
AfterGetKeepsReturned(a) == IF a.mReturnedIds = {} THEN [a EXCEPT !.mLastId = a.mLastId + 1] ELSE a

\* ... and the allocator that is left.
AfterGet(a) ==
  IF a.mReturnedIds = {}
  THEN [a EXCEPT !.mLastId = a.mLastId + 1]
  ELSE [a EXCEPT !.mReturnedIds = a.mReturnedIds \ {LeastReturned(a)}]

\* The loop of put(): mLastId is decremented past every returned id on top.
TrimmedLastId(a) ==
  CHOOSE k \in 0 .. (a.mLastId - 1) :
    /\ k \notin a.mReturnedIds
    /\ \A j \in (k + 1) .. (a.mLastId - 1) : j \in a.mReturnedIds

\* put(): the newest id shrinks the range, any other id is kept for reuse.
AfterPut(a, id) ==
  IF id = a.mLastId
  THEN [mLastId      |-> TrimmedLastId(a),
        mReturnedIds |-> {r \in a.mReturnedIds : r < TrimmedLastId(a)}]
  ELSE [a EXCEPT !.mReturnedIds = a.mReturnedIds \cup {id}]

\* assert(id < mLastId) on the path that keeps the id.
PutAsserts(a, id) == id # a.mLastId => id < a.mLastId

\* The ids kept for reuse all lie below mLastId (a returned id on top would
\* have been trimmed): what put() leaves and get() relies on.
WellFormed(a) ==
  /\ a \in [mLastId : Nat, mReturnedIds : SUBSET Nat]
  /\ a.mReturnedIds \subseteq 1 .. (a.mLastId - 1)
=============================================================================
