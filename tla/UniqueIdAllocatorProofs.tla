---------------------- MODULE UniqueIdAllocatorProofs ----------------------
(***************************************************************************)
(* Facts about the allocator's operators that the device's proof uses.     *)
(***************************************************************************)
EXTENDS UniqueIdAllocator, WellFoundedInduction, TLAPS

\* Every nonempty set of naturals has a least element.
LEMMA LeastNatural ==
  ASSUME NEW S \in SUBSET Nat, S # {}
  PROVE  \E x \in S : \A y \in S : x <= y
<1>1. PICK x \in S : \A y \in S : ~(<<y, x>> \in OpToRel(<, Nat))
  <2>1. IsWellFoundedOn(OpToRel(<, Nat), Nat)
    BY NatLessThanWellFounded
  <2> QED  BY <2>1, WFMin
<1>2. \A y \in S : x <= y
  <2> SUFFICES ASSUME NEW y \in S PROVE x <= y
    OBVIOUS
  <2>1. ~(<<y, x>> \in OpToRel(<, Nat))
    BY <1>1
  <2>2. y \in Nat /\ x \in Nat
    OBVIOUS
  <2>3. ~(y < x)
    BY <2>1, <2>2 DEF OpToRel
  <2> QED  BY <2>2, <2>3
<1> QED  BY <1>2

\* Every bounded nonempty set of naturals has a greatest element.
LEMMA GreatestNatural ==
  ASSUME NEW n \in Nat, NEW S \in SUBSET (0 .. n), S # {}
  PROVE  \E x \in S : \A y \in S : y <= x
<1> DEFINE T == {n - x : x \in S}
<1>1. T \in SUBSET Nat /\ T # {}
  <2>1. \A x \in S : n - x \in Nat
    OBVIOUS
  <2>2. T \subseteq Nat
    BY <2>1
  <2>3. PICK x \in S : TRUE
    OBVIOUS
  <2>4. n - x \in T
    OBVIOUS
  <2> QED  BY <2>2, <2>4
<1>2. PICK t \in T : \A u \in T : t <= u
  BY <1>1, LeastNatural
<1>3. PICK x \in S : t = n - x
  OBVIOUS
<1>4. \A y \in S : n - x <= n - y
  BY <1>2, <1>3
<1>5. \A y \in S : y <= x
  BY <1>4
<1> QED  BY <1>5

\* A new allocator is well formed and has no id in use.
LEMMA NewAllocatorFacts == WellFormed(NewAllocator) /\ InUse(NewAllocator) = {}
BY DEF WellFormed, NewAllocator, InUse

\* get() hands out an id that was free, and exactly that id becomes used.
LEMMA GetFacts ==
  ASSUME NEW a, WellFormed(a)
  PROVE  /\ GetId(a) \in Nat \ {0}
         /\ GetId(a) \notin InUse(a)
         /\ WellFormed(AfterGet(a))
         /\ InUse(AfterGet(a)) = InUse(a) \cup {GetId(a)}
<1>1. CASE a.mReturnedIds = {}
  BY <1>1 DEF GetId, AfterGet, InUse, WellFormed
<1>2. CASE a.mReturnedIds # {}
  <2>1. \E x \in a.mReturnedIds : \A y \in a.mReturnedIds : x <= y
    BY <1>2, LeastNatural DEF WellFormed
  <2>2. LeastReturned(a) \in a.mReturnedIds
    BY <2>1 DEF LeastReturned
  <2>3. GetId(a) = LeastReturned(a) /\ LeastReturned(a) \in 1 .. (a.mLastId - 1)
    BY <1>2, <2>2 DEF GetId, WellFormed
  <2>4. /\ AfterGet(a).mLastId = a.mLastId
        /\ AfterGet(a).mReturnedIds = a.mReturnedIds \ {LeastReturned(a)}
        /\ AfterGet(a) \in [mLastId : Nat, mReturnedIds : SUBSET Nat]
    BY <1>2 DEF AfterGet, WellFormed
  <2> QED  BY <2>2, <2>3, <2>4 DEF InUse, WellFormed
<1> QED  BY <1>1, <1>2

\* The loop of put() stops at an id that is not returned, or at 0.
LEMMA TrimFacts ==
  ASSUME NEW a, WellFormed(a), a.mLastId # 0
  PROVE  /\ TrimmedLastId(a) \in 0 .. (a.mLastId - 1)
         /\ TrimmedLastId(a) \notin a.mReturnedIds
         /\ \A j \in (TrimmedLastId(a) + 1) .. (a.mLastId - 1) : j \in a.mReturnedIds
<1> DEFINE S == {k \in 0 .. (a.mLastId - 1) : k \notin a.mReturnedIds}
<1>1. a.mLastId - 1 \in Nat /\ S \subseteq 0 .. (a.mLastId - 1) /\ 0 \in S
  BY DEF WellFormed
<1>2. PICK k \in S : \A y \in S : y <= k
  BY <1>1, GreatestNatural
<1>3. \A j \in (k + 1) .. (a.mLastId - 1) : j \in a.mReturnedIds
  BY <1>1, <1>2 DEF WellFormed
<1>4. \E t \in 0 .. (a.mLastId - 1) :
        /\ t \notin a.mReturnedIds
        /\ \A j \in (t + 1) .. (a.mLastId - 1) : j \in a.mReturnedIds
  BY <1>2, <1>3
<1> QED  BY <1>4 DEF TrimmedLastId

\* put() of an id in use satisfies its assertion, frees exactly that id and
\* leaves the allocator well formed.
LEMMA PutFacts ==
  ASSUME NEW a, WellFormed(a), NEW id \in InUse(a)
  PROVE  /\ PutAsserts(a, id)
         /\ WellFormed(AfterPut(a, id))
         /\ InUse(AfterPut(a, id)) = InUse(a) \ {id}
<1>0. id \in 1 .. a.mLastId /\ id \notin a.mReturnedIds /\ a.mLastId \in Nat
  BY DEF InUse, WellFormed
<1>1. CASE id = a.mLastId
  <2> DEFINE t == TrimmedLastId(a)
  <2>1. /\ t \in 0 .. (a.mLastId - 1)
        /\ t \notin a.mReturnedIds
        /\ \A j \in (t + 1) .. (a.mLastId - 1) : j \in a.mReturnedIds
    BY <1>0, <1>1, TrimFacts
  <2>2. AfterPut(a, id) = [mLastId |-> t, mReturnedIds |-> {r \in a.mReturnedIds : r < t}]
    BY <1>1 DEF AfterPut
  <2> HIDE DEF t
  <2>3. WellFormed(AfterPut(a, id))
    BY <2>1, <2>2 DEF WellFormed
  <2>4. InUse(AfterPut(a, id)) = (1 .. t) \ {r \in a.mReturnedIds : r < t}
    BY <2>2 DEF InUse
  <2>5. (1 .. t) \ {r \in a.mReturnedIds : r < t} = ((1 .. a.mLastId) \ a.mReturnedIds) \ {id}
    BY <1>0, <1>1, <2>1 DEF WellFormed
  <2> QED  BY <1>1, <2>2, <2>3, <2>4, <2>5 DEF InUse, PutAsserts
<1>2. CASE id # a.mLastId
  <2>1. /\ AfterPut(a, id).mLastId = a.mLastId
        /\ AfterPut(a, id).mReturnedIds = a.mReturnedIds \cup {id}
        /\ AfterPut(a, id) \in [mLastId : Nat, mReturnedIds : SUBSET Nat]
    BY <1>0, <1>2 DEF AfterPut, WellFormed
  <2> QED  BY <1>0, <1>2, <2>1 DEF InUse, WellFormed, PutAsserts
<1> QED  BY <1>1, <1>2
=============================================================================
