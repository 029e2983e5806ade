-------------------------- MODULE VsockTypeProofs --------------------------
(***************************************************************************)
(* Every field of the device keeps its type: the counters their width, the *)
(* receive queue its size, the allocator its shape, the packets their      *)
(* ports, whatever the guest sends and after resets and loads.             *)
(***************************************************************************)
EXTENDS VsockDeviceProofs, FiniteSetTheorems, SequenceTheorems

-----------------------------------------------------------------------------
(* The quantities of a send pass are naturals of the expected size *)

\* uint32_t arithmetic stays within the width of a counter.
LEMMA ModType ==
  ASSUME NEW x \in Int
  PROVE  x % CounterModulus \in Counter
BY SizesAssumption DEF Counter

\* The number of chunks is a natural.
LEMMA DivType ==
  ASSUME NEW x \in Nat
  PROVE  x \div ChunkSize \in Nat
BY SizesAssumption

\* Counters are naturals.
LEMMA CounterInt == Counter \subseteq Nat
BY SizesAssumption DEF Counter

\* guestAvailSize is a natural.
LEMMA AvailType ==
  ASSUME NEW s \in Stream
  PROVE  GuestAvail(s) \in Nat
<1>1. s.guestBufAlloc \in Counter /\ s.hostSentCnt \in Counter /\ s.guestFwdCnt \in Counter
  BY DEF Stream
<1>2. s.guestBufAlloc - (s.hostSentCnt - s.guestFwdCnt) \in Int
  BY <1>1 DEF Counter
<1> QED  BY <1>2, ModType, CounterInt DEF GuestAvail

\* A stream asks for finitely many operations.
LEMMA OpsFinite ==
  ASSUME NEW s \in Stream
  PROVE  OpsToSend(s) \subseteq StreamOps /\ Cardinality(OpsToSend(s)) \in Nat
<1>1. OpsToSend(s) \subseteq StreamOps
  BY DEF OpsToSend, Stream, StreamOps
<1>2. IsFiniteSet(StreamOps)
  <2>1. IsFiniteSet({}) 
    BY FS_EmptySet
  <2>2. StreamOps = ((({} \cup {"REQUEST"}) \cup {"RESPONSE"}) \cup {"CREDIT_UPDATE"}) \cup {"CREDIT_REQUEST"}
    BY DEF StreamOps
  <2> QED  BY <2>1, <2>2, FS_AddElement
<1> QED  BY <1>1, <1>2, FS_Subset, FS_CardinalityType

\* A pass sends no more bytes than the buffer holds.
LEMMA BytesType ==
  ASSUME NEW s \in Stream
  PROVE  BytesToSend(s) \in 0 .. Len(s.hostToGuestBuf)
BY AvailType DEF BytesToSend, Stream

\* A stream has a natural number of packets to send.
LEMMA PacketsType ==
  ASSUME NEW s \in Stream
  PROVE  PacketsToSend(s) \in Nat
<1>1. BytesToSend(s) + ChunkSize - 1 \in Nat
  <2>1. BytesToSend(s) \in Nat
    BY BytesType
  <2> QED  BY <2>1, SizesAssumption
<1> QED  BY <1>1, DivType, OpsFinite DEF PacketsToSend

\* No number of packets carries more bytes than the buffer holds.
LEMMA BytesInType ==
  ASSUME NEW s \in Stream, NEW n \in Nat
  PROVE  BytesIn(s, n) \in 0 .. Len(s.hostToGuestBuf)
<1> DEFINE c == n - Cardinality(OpsToSend(s))
<1>1. c \in Int
  BY OpsFinite
<1>2. BytesIn(s, n) = IF c <= 0 THEN 0
                      ELSE IF c * ChunkSize < BytesToSend(s) THEN c * ChunkSize ELSE BytesToSend(s)
  BY DEF BytesIn
<1> HIDE DEF c
<1>3. ChunkSize \in Nat
  BY SizesAssumption
<1>4. Len(s.hostToGuestBuf) \in Nat
  BY DEF Stream
<1>5. c > 0 => c * ChunkSize \in Nat
  BY <1>1, <1>3
<1> QED  BY <1>1, <1>2, <1>4, <1>5, BytesType
-----------------------------------------------------------------------------
(* Sending *)

\* What is left when the first n elements of a sequence are erased.
LEMMA SubSeqTail ==
  ASSUME NEW S, NEW q \in Seq(S), NEW n \in Nat
  PROVE  SubSeq(q, n + 1, Len(q)) \in Seq(S)
<1>1. CASE n <= Len(q)
  BY <1>1, SubSeqProperties
<1>2. CASE n > Len(q)
  <2>1. SubSeq(q, n + 1, Len(q)) = <<>>
    BY <1>2, LenProperties, SubSeqEmpty
  <2> QED  BY <2>1
<1> QED  BY <1>1, <1>2

\* Finitely many streams have finitely many packets to send.
LEMMA SlotsFinite ==
  ASSUME NEW d, StreamsType(d.mStreams), NEW K \in SUBSET DOMAIN d.mStreams, IsFiniteSet(K)
  PROVE  Cardinality(PacketSlots(d, K)) \in Nat
<1> DEFINE slots(j) == {j} \X (1 .. PacketsToSend(d.mStreams[j]))
           F == {slots(j) : j \in K}
<1>1. \A j \in K : d.mStreams[j] \in Stream
  BY DEF StreamsType
<1>2. ASSUME NEW j \in K PROVE IsFiniteSet(slots(j))
  <2>1. PacketsToSend(d.mStreams[j]) \in Nat
    BY <1>1, PacketsType
  <2>2. IsFiniteSet(1 .. PacketsToSend(d.mStreams[j]))
    BY <2>1, FS_Interval
  <2>3. IsFiniteSet({j})
    BY FS_Singleton
  <2> QED  BY <2>2, <2>3, FS_Product
<1>3. IsFiniteSet(F)
  <2> DEFINE f == [j \in K |-> slots(j)]
  <2>1. f \in Surjection(K, F)
    BY DEF Surjection
  <2> QED  BY <2>1, FS_Surjection
<1>4. \A T \in F : IsFiniteSet(T)
  BY <1>2
<1>5. IsFiniteSet(UNION F)
  BY <1>3, <1>4, FS_UNION
<1>6. PacketSlots(d, K) = UNION F
  BY DEF PacketSlots
<1> QED  BY <1>5, <1>6, FS_CardinalityType

\* What is known of an image, saved or part of the device: besides its types,
\* it has finitely many streams, none of them on the port of the id 0 that
\* the allocator never hands out.
ImageSound(i) ==
  /\ ImageType(i)
  /\ IsFiniteSet(DOMAIN i.mStreams)
  /\ \A k \in DOMAIN i.mStreams : k[2] # kDynamicPortsStart

Sound(d) == Shape(d) /\ ImageSound(d) /\ d.aborted \in BOOLEAN

\* A pass sends a natural number of packets of each stream.
LEMMA SentType ==
  ASSUME NEW d, Sound(d), NEW k \in DOMAIN d.mStreams
  PROVE  SentOf(d, k) \in Nat /\ d.mStreams[k] \in Stream
<1> DEFINE J == {j \in DOMAIN d.mStreams : Precedes(j, k)}
<1>1. IsFiniteSet(J)
  BY FS_Subset DEF Sound, ImageSound
<1>2. Cardinality(PacketSlots(d, J)) \in Nat
  BY <1>1, SlotsFinite DEF Sound, ImageSound, ImageType
<1>3. Len(d.mOrphanPackets) \in Nat
  BY LenProperties DEF Sound, ImageSound, ImageType
<1>4. Ahead(d, k) \in Nat
  BY <1>2, <1>3 DEF Ahead
<1>5. d.mStreams[k] \in Stream
  BY DEF Sound, ImageSound, ImageType, StreamsType
<1>6. PacketsToSend(d.mStreams[k]) \in Nat
  BY <1>5, PacketsType
<1>7. d.vqFree \in Nat
  BY SizesAssumption DEF Sound, ImageSound, ImageType
<1> QED  BY <1>4, <1>5, <1>6, <1>7 DEF SentOf, Reached

\* What a pass leaves of a stream is a stream.
LEMMA AfterSendType ==
  ASSUME NEW d, Sound(d), NEW k \in DOMAIN d.mStreams
  PROVE  AfterSend(d, k) \in Stream
<1> DEFINE s == d.mStreams[k]
           n == SentOf(d, k)
           ops == IF Reached(d, k) THEN UnsentOps(s, n) ELSE s.sendOps
           cnt == (s.hostSentCnt + BytesIn(s, n)) % CounterModulus
           buf == SubSeq(s.hostToGuestBuf, BytesIn(s, n) + 1, Len(s.hostToGuestBuf))
<1>1. AfterSend(d, k) = [s EXCEPT !.sendOps = ops, !.hostSentCnt = cnt, !.hostToGuestBuf = buf]
  BY DEF AfterSend
<1>2. n \in Nat /\ s \in Stream
  BY SentType
<1>3. BytesIn(s, n) \in Nat
  BY <1>2, BytesInType
<1>4. ops \subseteq StreamOps
  <2>1. OpsToSend(s) \subseteq StreamOps
    BY <1>2, OpsFinite
  <2> QED  BY <1>2, <2>1 DEF UnsentOps, Stream
<1>5. cnt \in Counter
  <2>1. s.hostSentCnt \in Nat
    BY <1>2, CounterInt DEF Stream
  <2> QED  BY <1>3, <2>1, ModType
<1>6. buf \in Seq(Byte)
  <2>1. s.hostToGuestBuf \in Seq(Byte)
    BY <1>2 DEF Stream
  <2> QED  BY <1>3, <2>1, SubSeqTail
<1> HIDE DEF ops, cnt, buf, s
<1> QED  BY <1>1, <1>2, <1>4, <1>5, <1>6 DEF Stream

\* sendPacketsLocked keeps the types, the queue within its size included.
LEMMA SendSound ==
  ASSUME NEW d, Sound(d)
  PROVE  Sound(sendPacketsLocked(d))
<1> DEFINE e == sendPacketsLocked(d)
           o == SubSeq(d.mOrphanPackets, d.vqFree + 1, Len(d.mOrphanPackets))
           f == [k \in DOMAIN d.mStreams |-> AfterSend(d, k)]
           v == IF Waiting(d) < d.vqFree THEN d.vqFree - Waiting(d) ELSE 0
<1>1. PICK t : e = [d EXCEPT !.mOrphanPackets = o, !.mStreams = f, !.vqFree = v, !.sent = t]
  BY DEF sendPacketsLocked
<1>2. d.vqFree \in 0 .. QueueSize /\ QueueSize \in Nat /\ d.mOrphanPackets \in Seq(Packet)
  BY SizesAssumption DEF Sound, ImageSound, ImageType
<1>3. o \in Seq(Packet)
  BY <1>2, SubSeqTail
<1>4. v \in 0 .. QueueSize
  <2>1. Cardinality(PacketSlots(d, DOMAIN d.mStreams)) \in Nat
    BY SlotsFinite DEF Sound, ImageSound, ImageType
  <2>2. Waiting(d) \in Nat
    BY <1>2, <2>1, LenProperties DEF Waiting
  <2> QED  BY <1>2, <2>2
<1>5. StreamsType(f)
  BY AfterSendType DEF StreamsType, Sound, ImageSound, ImageType
<1>6. DOMAIN f = DOMAIN d.mStreams
  OBVIOUS
<1> HIDE DEF e, o, f, v
<1>7. /\ Shape(e) /\ e.mSrcPortAllocator = d.mSrcPortAllocator /\ e.aborted = d.aborted
      /\ e.mOrphanPackets = o /\ e.mStreams = f /\ e.vqFree = v
  BY <1>1 DEF Shape, Sound
<1>8. Sound(e)
  BY <1>3, <1>4, <1>5, <1>6, <1>7 DEF Sound, ImageSound, ImageType
<1> QED  BY <1>8 DEF e

-----------------------------------------------------------------------------
(* Operations of the host *)

\* The port of a stream the device may have.
SafeKey(k) == k \in Key /\ k[2] # kDynamicPortsStart

\* Storing a stream keeps the types.
LEMMA WithStreamSound ==
  ASSUME NEW d, Sound(d), NEW k, SafeKey(k), NEW s \in Stream
  PROVE  Sound(WithStream(d, k, s)) /\ k \in DOMAIN WithStream(d, k, s).mStreams
<1> DEFINE e == WithStream(d, k, s)
           f == [j \in DOMAIN d.mStreams \cup {k} |-> IF j = k THEN s ELSE d.mStreams[j]]
<1>1. e = [d EXCEPT !.mStreams = f]
  BY DEF WithStream
<1>2. DOMAIN f = DOMAIN d.mStreams \cup {k}
  OBVIOUS
<1>3. StreamsType(f)
  BY DEF StreamsType, Sound, ImageSound, ImageType, SafeKey
<1>4. IsFiniteSet(DOMAIN d.mStreams \cup {k})
  BY FS_AddElement DEF Sound, ImageSound
<1> HIDE DEF e, f
<1>5. /\ Shape(e) /\ e.mSrcPortAllocator = d.mSrcPortAllocator /\ e.aborted = d.aborted
      /\ e.mOrphanPackets = d.mOrphanPackets /\ e.mStreams = f /\ e.vqFree = d.vqFree
  BY <1>1 DEF Shape, Sound
<1>6. Sound(e)
  BY <1>2, <1>3, <1>4, <1>5 DEF Sound, ImageSound, ImageType, SafeKey
<1> QED  BY <1>2, <1>5, <1>6 DEF e

\* The streams of a sound device, and their keys.
LEMMA StreamSound ==
  ASSUME NEW d, Sound(d), NEW k \in DOMAIN d.mStreams
  PROVE  SafeKey(k) /\ d.mStreams[k] \in Stream
BY DEF Sound, ImageSound, ImageType, StreamsType, SafeKey

\* queueOrphanPacketLocked keeps the types.
LEMMA OrphanSound ==
  ASSUME NEW d, Sound(d), NEW k \in Key, NEW op \in {"RST", "SHUTDOWN"}, NEW fwdCnt \in Counter
  PROVE  Sound(queueOrphanPacketLocked(d, k[2], k[1], op, fwdCnt))
<1> DEFINE e == queueOrphanPacketLocked(d, k[2], k[1], op, fwdCnt)
           p == MakePacket(k[2], k[1], op, fwdCnt, <<>>)
           q == Append(d.mOrphanPackets, p)
<1>1. e = [d EXCEPT !.mOrphanPackets = q]
  BY DEF queueOrphanPacketLocked
<1>2. p \in Packet
  BY DEF MakePacket, Packet, Key
<1>3. q \in Seq(Packet)
  BY <1>2 DEF Sound, ImageSound, ImageType
<1> HIDE DEF e, q
<1>4. /\ Shape(e) /\ e.mSrcPortAllocator = d.mSrcPortAllocator /\ e.aborted = d.aborted
      /\ e.mOrphanPackets = q /\ e.mStreams = d.mStreams /\ e.vqFree = d.vqFree
  BY <1>1 DEF Shape, Sound
<1>5. Sound(e)
  BY <1>3, <1>4 DEF Sound, ImageSound, ImageType
<1> QED  BY <1>5 DEF e

\* Counters start at zero.
LEMMA CounterHasZero == 0 \in Counter
BY SizesAssumption DEF Counter

\* put() leaves a well-formed allocator even for an id that is not in use, as
\* long as its assertion holds: after a reset ids come back that the
\* allocator never handed out.
LEMMA PutType ==
  ASSUME NEW a, WellFormed(a), NEW id \in Nat \ {0}, PutAsserts(a, id)
  PROVE  WellFormed(AfterPut(a, id))
<1>1. CASE id = a.mLastId
  <2> DEFINE t == TrimmedLastId(a)
  <2>1. t \in 0 .. (a.mLastId - 1) /\ a.mLastId \in Nat
    BY <1>1, TrimFacts DEF WellFormed
  <2>2. AfterPut(a, id) = [mLastId |-> t, mReturnedIds |-> {r \in a.mReturnedIds : r < t}]
    BY <1>1 DEF AfterPut
  <2> HIDE DEF t
  <2> QED  BY <2>1, <2>2 DEF WellFormed
<1>2. CASE id # a.mLastId
  <2>1. /\ AfterPut(a, id).mLastId = a.mLastId
        /\ AfterPut(a, id).mReturnedIds = a.mReturnedIds \cup {id}
        /\ AfterPut(a, id) \in [mLastId : Nat, mReturnedIds : SUBSET Nat]
    BY <1>2 DEF AfterPut, WellFormed
  <2> QED  BY <1>2, <2>1 DEF WellFormed, PutAsserts
<1> QED  BY <1>1, <1>2

\* Ending a stream keeps the types, also when its port was never handed out.
LEMMA RemoveSound ==
  ASSUME NEW d, Sound(d), NEW k \in DOMAIN d.mStreams,
         NEW op \in {"RST", "SHUTDOWN", "INVALID"}
  PROVE  Sound(RemoveStream(d, k, op))
<1> DEFINE told == IF op = "INVALID" THEN d
                   ELSE queueOrphanPacketLocked(d, k[2], k[1], op, d.mStreams[k].hostFwdCnt)
           a == d.mSrcPortAllocator
           id == k[2] - kDynamicPortsStart
           r == recycleStreamLocked(d, k, op)
           f == [j \in DOMAIN d.mStreams \ {k} |-> d.mStreams[j]]
           e == [r EXCEPT !.mStreams = f]
<1>1. e = RemoveStream(d, k, op)
  BY DEF RemoveStream
<1>2. k \in Key /\ k[2] # kDynamicPortsStart /\ d.mStreams[k].hostFwdCnt \in Counter
  BY StreamSound DEF SafeKey, Stream
<1>3. Sound(told)
  BY <1>2, OrphanSound
<1>4. told.mSrcPortAllocator = a
  BY DEF queueOrphanPacketLocked, Sound, Shape
<1>5. r = IF k[2] < kDynamicPortsStart THEN told
          ELSE IF PutAsserts(a, id)
          THEN [told EXCEPT !.mSrcPortAllocator = AfterPut(a, id)]
          ELSE [told EXCEPT !.aborted = TRUE]
  BY DEF recycleStreamLocked
<1>6. ASSUME ~(k[2] < kDynamicPortsStart), PutAsserts(a, id)
      PROVE  WellFormed(AfterPut(a, id))
  <2>1. id \in Nat \ {0}
    BY <1>2, <1>6, PortsAssumption DEF Key
  <2> QED  BY <1>6, <2>1, PutType DEF Sound, ImageSound, ImageType
<1>7. DOMAIN f = DOMAIN d.mStreams \ {k} /\ StreamsType(f) /\ IsFiniteSet(DOMAIN f)
  BY FS_RemoveElement DEF StreamsType, Sound, ImageSound, ImageType
<1>8. \A j \in DOMAIN f : j[2] # kDynamicPortsStart
  BY DEF Sound, ImageSound
<1> HIDE DEF told, a, id, r, f, e
<1>9. /\ Shape(r) /\ WellFormed(r.mSrcPortAllocator) /\ r.aborted \in BOOLEAN
      /\ r.mOrphanPackets = told.mOrphanPackets /\ r.vqFree = told.vqFree
  BY <1>3, <1>5, <1>6 DEF Shape, Sound, ImageSound, ImageType
<1>10. /\ Shape(e) /\ e.mSrcPortAllocator = r.mSrcPortAllocator /\ e.aborted = r.aborted
       /\ e.mOrphanPackets = told.mOrphanPackets /\ e.mStreams = f /\ e.vqFree = told.vqFree
  BY <1>9 DEF Shape, e
<1>11. Sound(e)
  BY <1>3, <1>7, <1>8, <1>9, <1>10 DEF Sound, ImageSound, ImageType
<1> QED  BY <1>1, <1>11

\* A new VsockStream is a stream.
LEMMA NewStreamType ==
  ASSUME NEW b \in BOOLEAN
  PROVE  NewStream(b) \in Stream
<1>1. <<>> \in Seq(Byte)
  BY EmptySeq
<1> QED  BY <1>1, CounterHasZero DEF NewStream, Stream

\* connect() keeps the types, also where assert(inserted) fails.
LEMMA ConnectSound ==
  ASSUME NEW d, Sound(d), NEW g \in GuestPorts, NEW b \in BOOLEAN
  PROVE  Sound(connect(d, g, b))
<1> DEFINE a == d.mSrcPortAllocator
           k == <<g, NextHostPort(d)>>
           d1 == [d EXCEPT !.mSrcPortAllocator = AfterGet(a)]
           s == [NewStream(b) EXCEPT !.sendOps = {"REQUEST"}]
           d2 == WithStream(d1, k, s)
           d3 == [d1 EXCEPT !.aborted = TRUE]
<1>1. connect(d, g, b) = IF HasStream(d, k) THEN d3 ELSE sendPacketsLocked(d2)
  BY DEF connect
<1>2. GetId(a) \in Nat \ {0} /\ WellFormed(AfterGet(a))
  BY GetFacts DEF Sound, ImageSound, ImageType
<1>3. SafeKey(k)
  BY <1>2, PortsAssumption DEF SafeKey, Key, NextHostPort
<1>4. s \in Stream
  BY NewStreamType DEF Stream, StreamOps
<1>5. Sound(d1)
  <2>1. /\ Shape(d1) /\ d1.mSrcPortAllocator = AfterGet(a) /\ d1.aborted = d.aborted
        /\ d1.mOrphanPackets = d.mOrphanPackets /\ d1.mStreams = d.mStreams /\ d1.vqFree = d.vqFree
    BY DEF Sound, Shape
  <2> HIDE DEF d1
  <2> QED  BY <1>2, <2>1 DEF Sound, ImageSound, ImageType
<1> HIDE DEF d1, s, k
<1>6. Sound(d2)
  BY <1>3, <1>4, <1>5, WithStreamSound
<1>7. Sound(d3)
  <2>1. Shape(d3)
    BY <1>5, AbortShape DEF Sound
  <2>2. /\ d3.mSrcPortAllocator = d1.mSrcPortAllocator
        /\ d3.mOrphanPackets = d1.mOrphanPackets /\ d3.mStreams = d1.mStreams /\ d3.vqFree = d1.vqFree
    BY <1>5 DEF Sound, Shape
  <2>3. d3.aborted \in BOOLEAN
    BY <1>5 DEF Sound, Shape
  <2> HIDE DEF d3
  <2> QED  BY <1>5, <2>1, <2>2, <2>3 DEF Sound, ImageSound, ImageType
<1> HIDE DEF d2, d3
<1> QED  BY <1>1, <1>6, <1>7, SendSound

\* sendAsyncImpl keeps the types.
LEMMA SendAsyncSound ==
  ASSUME NEW d, Sound(d), NEW k \in DOMAIN d.mStreams, NEW data \in Seq(Byte)
  PROVE  Sound(sendAsyncImpl(d, k, data))
<1> DEFINE s == d.mStreams[k]
           t == [s EXCEPT !.hostToGuestBuf = s.hostToGuestBuf \o data]
<1>1. sendAsyncImpl(d, k, data) = IF s.isConnected THEN sendPacketsLocked(WithStream(d, k, t)) ELSE d
  BY DEF sendAsyncImpl
<1>2. SafeKey(k) /\ s \in Stream
  BY StreamSound
<1>3. t \in Stream
  <2>1. s.hostToGuestBuf \o data \in Seq(Byte)
    BY <1>2, ConcatProperties DEF Stream
  <2> QED  BY <1>2, <2>1 DEF Stream
<1> HIDE DEF s, t
<1>4. Sound(WithStream(d, k, t))
  BY <1>2, <1>3, WithStreamSound
<1> QED  BY <1>1, <1>4, SendSound

\* unplugFromDevice keeps the types.
LEMMA UnplugSound ==
  ASSUME NEW d, Sound(d), NEW k \in DOMAIN d.mStreams
  PROVE  Sound(unplugFromDevice(d, k))
BY RemoveSound, SendSound DEF unplugFromDevice

-----------------------------------------------------------------------------
(* Packets from the guest *)

\* Whatever a plug does inside onConnect keeps the types.
LEMMA ReactionSound ==
  ASSUME NEW d, Sound(d), NEW k \in DOMAIN d.mStreams, NEW r \in Reactions
  PROVE  Sound(PlugReaction(d, k, r))
<1>1. CASE r = Quiet
  BY <1>1 DEF PlugReaction, Quiet
<1>2. CASE r = HangUp
  <2>1. PlugReaction(d, k, r) = unplugFromDevice(d, k)
    BY <1>2 DEF PlugReaction, HangUp
  <2> QED  BY <2>1, UnplugSound
<1>3. ASSUME NEW data \in Writes, r = SendBack(data) PROVE Sound(PlugReaction(d, k, r))
  <2>1. PlugReaction(d, k, r) = sendAsyncImpl(d, k, data)
    BY <1>3 DEF PlugReaction, SendBack
  <2> QED  BY <2>1, SendAsyncSound, InputsAssumption
<1> QED  BY <1>1, <1>2, <1>3 DEF Reactions

\* Headers carry credit that fits the counters.
LEMMA WithCreditType ==
  ASSUME NEW s \in Stream, NEW c \in Credit
  PROVE  WithCredit(s, c) \in Stream
BY InputsAssumption DEF WithCredit, Stream, Credit

\* processPacketOpRequest keeps the types.
LEMMA RequestSound ==
  ASSUME NEW d, Sound(d), NEW k \in Key, NEW c \in Credit, NEW accepts,
         NEW b \in BOOLEAN, NEW r \in Reactions
  PROVE  Sound(processPacketOpRequest(d, k, c, accepts, b, r))
<1> DEFINE s == [WithCredit(NewStream(b), c) EXCEPT !.isConnected = TRUE, !.sendOps = {"RESPONSE"}]
           d1 == WithStream(d, k, s)
           d2 == queueOrphanPacketLocked(d, k[2], k[1], "RST", 0)
           refused == k[2] \notin d.mHostPortListeners \/ (~HasStream(d, k) /\ ~accepts)
<1>1. processPacketOpRequest(d, k, c, accepts, b, r) =
        IF refused THEN d2 ELSE IF HasStream(d, k) THEN d ELSE PlugReaction(d1, k, r)
  BY DEF processPacketOpRequest
<1>2. Sound(d2)
  BY OrphanSound, CounterHasZero
<1>3. ASSUME ~refused PROVE Sound(PlugReaction(d1, k, r))
  <2>1. SafeKey(k)
    BY <1>3, PortsAssumption DEF SafeKey, Sound, Shape
  <2>2. WithCredit(NewStream(b), c) \in Stream
    BY NewStreamType, WithCreditType
  <2>3. s \in Stream
    BY <2>2 DEF Stream, StreamOps
  <2> HIDE DEF s
  <2> QED  BY <2>1, <2>3, WithStreamSound, ReactionSound
<1> HIDE DEF d1, d2, refused
<1> QED  BY <1>1, <1>2, <1>3

\* Every control packet keeps the types.
LEMMA ControlSound ==
  ASSUME NEW d, Sound(d), NEW k \in Key, NEW c \in Credit,
         NEW op \in ControlOps \cup {"RESPONSE"}, NEW r \in Reactions
  PROVE  Sound(onPacketReceiveControl(d, k, c, op, r))
<1>1. CASE ~HasStream(d, k)
  <2>1. Sound(queueOrphanPacketLocked(d, k[2], k[1], "RST", 0))
    BY OrphanSound, CounterHasZero
  <2> QED  BY <1>1, <2>1 DEF onPacketReceiveControl, onUnknownStream
<1>2. CASE HasStream(d, k)
  <2> DEFINE s == WithCredit(d.mStreams[k], c)
             d1 == WithStream(d, k, s)
             t == [s EXCEPT !.isConnected = TRUE]
             u == [s EXCEPT !.sendOps = s.sendOps \cup {"CREDIT_UPDATE"}]
             e == onKnownStream(d, k, c, op, r)
  <2>1. /\ op = "RESPONSE" => e = PlugReaction(WithStream(d, k, t), k, r)
        /\ op = "RST" => e = RemoveStream(d1, k, "INVALID")
        /\ op = "SHUTDOWN" => e = RemoveStream(d1, k, "SHUTDOWN")
        /\ op = "CREDIT_UPDATE" => e = d1
        /\ op = "CREDIT_REQUEST" => e = WithStream(d, k, u)
        /\ op = "INVALID" => e = RemoveStream(d1, k, "RST")
    BY DEF onKnownStream
  <2>2. SafeKey(k) /\ s \in Stream
    BY <1>2, StreamSound, WithCreditType DEF HasStream
  <2> HIDE DEF s
  <2>3. t \in Stream /\ u \in Stream
    BY <2>2 DEF Stream, StreamOps
  <2> HIDE DEF t, u, e
  <2>4. Sound(d1) /\ k \in DOMAIN d1.mStreams /\ Sound(WithStream(d, k, u))
    BY <2>2, <2>3, WithStreamSound
  <2>5. Sound(PlugReaction(WithStream(d, k, t), k, r))
    BY <2>2, <2>3, WithStreamSound, ReactionSound
  <2> HIDE DEF d1
  <2>6. \A x \in {"RST", "SHUTDOWN", "INVALID"} : Sound(RemoveStream(d1, k, x))
    BY <2>4, RemoveSound
  <2>7. Sound(e)
    BY <2>1, <2>4, <2>5, <2>6 DEF ControlOps
  <2> QED  BY <1>2, <2>7 DEF onPacketReceiveControl, e
<1> QED  BY <1>1, <1>2

\* Every data packet keeps the types; hostFwdCnt wraps.
LEMMA RwSound ==
  ASSUME NEW d, Sound(d), NEW k \in Key, NEW c \in Credit, NEW len \in Nat, NEW taken \in Nat,
         NEW reply \in Seq(Byte)
  PROVE  Sound(onPacketReceiveRw(d, k, c, len, taken, reply))
<1> DEFINE s == WithCredit(d.mStreams[k], c)
           d1 == WithStream(d, k, s)
           d2 == sendAsyncImpl(d1, k, reply)
           s2 == d2.mStreams[k]
           cnt == (s2.hostFwdCnt + taken) % CounterModulus
           u == [s2 EXCEPT !.hostFwdCnt = cnt, !.sendOps = s2.sendOps \cup {"CREDIT_UPDATE"}]
           d3 == WithStream(d2, k, u)
           e == onPacketReceiveRw(d, k, c, len, taken, reply)
<1>1. /\ ~HasStream(d, k) => e = d
      /\ HasStream(d, k) => e \in {d1, d3, RemoveStream(d1, k, "SHUTDOWN"),
                                   RemoveStream(d3, k, "SHUTDOWN")}
  BY DEF onPacketReceiveRw
<1>2. CASE HasStream(d, k)
  <2>1. SafeKey(k) /\ s \in Stream
    BY <1>2, StreamSound, WithCreditType DEF HasStream
  <2> HIDE DEF s
  <2>2. Sound(d1) /\ k \in DOMAIN d1.mStreams
    BY <2>1, WithStreamSound
  <2> HIDE DEF d1
  <2>3. Sound(d2) /\ k \in DOMAIN d2.mStreams
    <3>1. DOMAIN d2.mStreams = DOMAIN d1.mStreams
      BY <2>2, SendAsyncDomain DEF Sound
    <3> QED  BY <2>2, <3>1, SendAsyncSound
  <2> HIDE DEF d2
  <2>4. s2 \in Stream
    BY <2>3, StreamSound
  <2>5. cnt \in Counter
    <3>1. s2.hostFwdCnt \in Nat
      BY <2>4, CounterInt DEF Stream
    <3> QED  BY <3>1, ModType
  <2> HIDE DEF s2, cnt
  <2>6. u \in Stream
    BY <2>4, <2>5 DEF Stream, StreamOps
  <2> HIDE DEF u
  <2>7. Sound(d3) /\ k \in DOMAIN d3.mStreams
    BY <2>1, <2>3, <2>6, WithStreamSound
  <2> HIDE DEF d3
  <2>8. Sound(RemoveStream(d1, k, "SHUTDOWN")) /\ Sound(RemoveStream(d3, k, "SHUTDOWN"))
    BY <2>2, <2>7, RemoveSound
  <2> QED  BY <1>1, <1>2, <2>2, <2>7, <2>8
<1> QED  BY <1>1, <1>2

-----------------------------------------------------------------------------
(* Snapshots *)

\* The streams of K can be listed in the order of their keys.
Orders(s, K) ==
  /\ s \in [1 .. Cardinality(K) -> K]
  /\ \A m, n \in 1 .. Cardinality(K) : m < n => Precedes(s[m], s[n])

\* A nonempty set of keys has a first one.
LEMMA FirstKey ==
  ASSUME NEW K \in SUBSET Key, K # {}
  PROVE  \E k \in K : \A j \in K \ {k} : Precedes(k, j)
<1>0. \A k \in K : k = <<k[1], k[2]>> /\ k[1] \in Nat /\ k[2] \in Nat
  <2> SUFFICES ASSUME NEW k \in K PROVE k = <<k[1], k[2]>> /\ k[1] \in Nat /\ k[2] \in Nat
    OBVIOUS
  <2>1. k \in GuestPorts \X Nat
    BY DEF Key
  <2>2. PICK g \in GuestPorts, h \in Nat : k = <<g, h>>
    BY <2>1
  <2> QED  BY <2>2, PortsAssumption
<1> DEFINE G == {k[1] : k \in K}
<1>1. PICK g \in G : \A x \in G : g <= x
  <2>1. G \subseteq Nat
    BY <1>0
  <2>2. PICK k \in K : TRUE
    OBVIOUS
  <2>3. k[1] \in G
    OBVIOUS
  <2> HIDE DEF G
  <2> QED  BY <2>1, <2>3, LeastNatural
<1> DEFINE H == {k[2] : k \in {j \in K : j[1] = g}}
<1>2. PICK h \in H : \A x \in H : h <= x
  <2>1. H \subseteq Nat
    BY <1>0
  <2>2. PICK k \in K : k[1] = g
    OBVIOUS
  <2>3. k[2] \in H
    BY <2>2
  <2> HIDE DEF H
  <2> QED  BY <2>1, <2>3, LeastNatural
<1>3. PICK k \in K : k[1] = g /\ k[2] = h
  OBVIOUS
<1>4. ASSUME NEW j \in K \ {k} PROVE Precedes(k, j)
  <2>1. j[1] \in G /\ (j[1] = g => j[2] \in H)
    OBVIOUS
  <2>2. g <= j[1] /\ (j[1] = g => h <= j[2])
    BY <1>1, <1>2, <2>1
  <2> HIDE DEF G, H
  <2>3. j[1] # k[1] \/ j[2] # k[2]
    BY <1>0, <1>4
  <2>4. j[1] \in Nat /\ j[2] \in Nat /\ k[1] \in Nat /\ k[2] \in Nat
    BY <1>0
  <2>5. k[1] < j[1] \/ (k[1] = j[1] /\ k[2] < j[2])
    BY <1>3, <2>2, <2>3, <2>4
  <2> QED  BY <2>5 DEF Precedes
<1> QED  BY <1>4

\* The first key, then the others in order.
LEMMA OrderStep ==
  ASSUME NEW K \in SUBSET Key, IsFiniteSet(K), K # {},
         \A k \in K : \E t : Orders(t, K \ {k})
  PROVE  \E s : Orders(s, K)
<1>1. PICK k \in K : \A j \in K \ {k} : Precedes(k, j)
  BY FirstKey
<1>2. PICK t : Orders(t, K \ {k})
  OBVIOUS
<1> DEFINE c == Cardinality(K)
           s == [i \in 1 .. c |-> IF i = 1 THEN k ELSE t[i - 1]]
<1>3. c \in Nat /\ Cardinality(K \ {k}) = c - 1
  BY FS_RemoveElement, FS_CardinalityType
<1>4. /\ t \in [1 .. (c - 1) -> K \ {k}]
      /\ \A m, n \in 1 .. (c - 1) : m < n => Precedes(t[m], t[n])
  BY <1>2, <1>3 DEF Orders
<1> HIDE DEF c
<1>5. \A i \in 1 .. c : i # 1 => i - 1 \in 1 .. (c - 1)
  BY <1>3
<1>6. s \in [1 .. c -> K]
  BY <1>4, <1>5
<1>7. ASSUME NEW m \in 1 .. c, NEW n \in 1 .. c, m < n PROVE Precedes(s[m], s[n])
  <2>1. n - 1 \in 1 .. (c - 1) /\ s[n] = t[n - 1] /\ t[n - 1] \in K \ {k}
    BY <1>3, <1>4, <1>7
  <2>2. CASE m = 1
    BY <1>1, <2>1, <2>2
  <2>3. CASE m # 1
    <3>1. m - 1 \in 1 .. (c - 1) /\ m - 1 < n - 1 /\ s[m] = t[m - 1]
      BY <1>3, <1>7, <2>3
    <3> QED  BY <1>4, <2>1, <3>1
  <2> QED  BY <2>2, <2>3
<1> HIDE DEF s
<1>8. Orders(s, K)
  BY <1>6, <1>7 DEF Orders, c
<1> QED  BY <1>8

\* By a smallest counterexample.
LEMMA OrderExists ==
  ASSUME NEW K \in SUBSET Key, IsFiniteSet(K)
  PROVE  \E s : Orders(s, K)
<1> DEFINE Bad == {n \in Nat : \E J \in SUBSET Key :
                     IsFiniteSet(J) /\ Cardinality(J) = n /\ ~\E s : Orders(s, J)}
<1>1. CASE Bad = {}
  <2>1. Cardinality(K) \in Nat
    BY FS_CardinalityType
  <2> QED  BY <1>1, <2>1
<1>2. CASE Bad # {}
  <2>1. PICK n \in Bad : \A m \in Bad : n <= m
    <3>1. Bad \subseteq Nat
      OBVIOUS
    <3> HIDE DEF Bad
    <3> QED  BY <1>2, <3>1, LeastNatural
  <2>2. PICK J \in SUBSET Key : IsFiniteSet(J) /\ Cardinality(J) = n /\ ~\E s : Orders(s, J)
    OBVIOUS
  <2>3. J # {}
    <3> SUFFICES ASSUME J = {} PROVE FALSE
      OBVIOUS
    <3>1. Cardinality(J) = 0
      BY FS_EmptySet
    <3>2. 1 .. Cardinality(J) = {}
      BY <3>1
    <3> DEFINE s == [i \in {} |-> i]
    <3>3. Orders(s, J)
      BY <3>2 DEF Orders
    <3> QED  BY <2>2, <3>3
  <2>4. ASSUME NEW k \in J PROVE \E t : Orders(t, J \ {k})
    <3>1. IsFiniteSet(J \ {k}) /\ Cardinality(J \ {k}) = n - 1 /\ n \in Nat /\ n - 1 \in Nat
      <4>1. IsFiniteSet(J \ {k}) /\ Cardinality(J \ {k}) = n - 1
        BY <2>2, FS_RemoveElement
      <4>2. n \in Nat /\ n - 1 \in Nat
        BY <4>1, FS_CardinalityType
      <4> QED  BY <4>1, <4>2
    <3>2. n - 1 \notin Bad
      <4> HIDE DEF Bad
      <4> QED  BY <2>1, <3>1
    <3>3. J \ {k} \in SUBSET Key
      OBVIOUS
    <3> QED  BY <3>1, <3>2, <3>3
  <2> QED  BY <2>2, <2>3, <2>4, OrderStep
<1> QED  BY <1>1, <1>2

\* KeysInOrder lists the keys of the streams it is given.
LEMMA KeysInOrderType ==
  ASSUME NEW K \in SUBSET Key, IsFiniteSet(K)
  PROVE  KeysInOrder(K) \in [1 .. Cardinality(K) -> K]
<1>1. PICK s : Orders(s, K)
  BY OrderExists
<1> QED  BY <1>1 DEF Orders, KeysInOrder

\* loadFromSnapshot keeps the types: its RST packets go to ports of saved streams.
LEMMA LoadSound ==
  ASSUME NEW d, Sound(d), NEW image, ImageSound(image), NEW b \in BOOLEAN
  PROVE  Sound(loadFromSnapshot(d, image, b))
<1> DEFINE R == ReadFirst(image)
           resets == KeysInOrder(R)
           c == Cardinality(R)
           rst(k) == MakePacket(k[2], k[1], "RST", image.mStreams[k].hostFwdCnt, <<>>)
           rsts == [i \in 1 .. c |-> rst(resets[i])]
           q == image.mOrphanPackets \o rsts
           kept == IF b THEN FirstLoadable(image) ELSE {}
           f == [k \in kept |-> [image.mStreams[k] EXCEPT !.holdsSocket = TRUE]]
           a == image.mSrcPortAllocator
           v == image.vqFree
           e == [d EXCEPT !.mSrcPortAllocator = a, !.mOrphanPackets = q, !.mStreams = f, !.vqFree = v]
<1>1. loadFromSnapshot(d, image, b) = IF loadFails(image) THEN e ELSE sendPacketsLocked(e)
  BY DEF loadFromSnapshot
<1>2. /\ WellFormed(a) /\ v \in 0 .. QueueSize
      /\ image.mOrphanPackets \in Seq(Packet)
      /\ DOMAIN image.mStreams \subseteq Key
      /\ \A k \in DOMAIN image.mStreams : image.mStreams[k] \in Stream
      /\ IsFiniteSet(DOMAIN image.mStreams)
  BY DEF ImageSound, ImageType, StreamsType
<1>3. q \in Seq(Packet)
  <2>1. R \subseteq DOMAIN image.mStreams
    BY DEF ReadFirst
  <2>2. R \subseteq Key /\ IsFiniteSet(R)
    BY <1>2, <2>1, FS_Subset
  <2>3. c \in Nat /\ resets \in [1 .. c -> R]
    BY <2>2, KeysInOrderType, FS_CardinalityType
  <2>4. ASSUME NEW k \in R PROVE rst(k) \in Packet
    <3>1. image.mStreams[k].hostFwdCnt \in Counter
      BY <1>2, <2>1 DEF Stream
    <3>2. k[1] \in GuestPorts /\ k[2] \in Nat
      BY <2>2 DEF Key
    <3>3. <<>> \in Seq(Byte)
      BY EmptySeq
    <3> QED  BY <3>1, <3>2, <3>3 DEF MakePacket, Packet
  <2>5. \A i \in 1 .. c : rst(resets[i]) \in Packet
    BY <2>3, <2>4
  <2> HIDE DEF rst, c, resets, R
  <2>6. rsts \in Seq(Packet)
    BY <2>3, <2>5
  <2> QED  BY <1>2, <2>6, ConcatProperties
<1>4. kept \subseteq DOMAIN image.mStreams
  BY DEF FirstLoadable, LoadableKeys
<1>5. /\ StreamsType(f) /\ IsFiniteSet(DOMAIN f)
      /\ \A k \in DOMAIN f : k[2] # kDynamicPortsStart
  <2>1. DOMAIN f = kept
    OBVIOUS
  <2>2. \A k \in kept : [image.mStreams[k] EXCEPT !.holdsSocket = TRUE] \in Stream
    BY <1>2, <1>4 DEF Stream
  <2> HIDE DEF kept
  <2>3. StreamsType(f)
    BY <1>2, <1>4, <2>2 DEF StreamsType
  <2>4. IsFiniteSet(kept)
    BY <1>2, <1>4, FS_Subset
  <2>5. \A k \in kept : k[2] # kDynamicPortsStart
    BY <1>4 DEF ImageSound
  <2> QED  BY <2>1, <2>3, <2>4, <2>5
<1>6. e = [d EXCEPT !.mSrcPortAllocator = a, !.mOrphanPackets = q, !.mStreams = f, !.vqFree = v]
  OBVIOUS
<1> HIDE DEF e, q, f, a, v, kept
<1>7. /\ Shape(e) /\ e.mSrcPortAllocator = a /\ e.aborted = d.aborted
      /\ e.mOrphanPackets = q /\ e.mStreams = f /\ e.vqFree = v
  BY <1>6 DEF Shape, Sound
<1>8. Sound(e)
  BY <1>2, <1>3, <1>5, <1>7 DEF Sound, ImageSound, ImageType
<1> QED  BY <1>1, <1>8, SendSound

\* NEEDS_RESET keeps the types.
LEMMA ResetSound ==
  ASSUME NEW d, Sound(d)
  PROVE  Sound(setStatusNeedsReset(d))
<1> DEFINE f == [k \in DOMAIN d.mStreams |-> [d.mStreams[k] EXCEPT !.holdsSocket = FALSE]]
           e == setStatusNeedsReset(d)
<1>1. e = [d EXCEPT !.mStreams = f, !.mOrphanPackets = <<>>, !.mSrcPortAllocator = NewAllocator]
  BY DEF setStatusNeedsReset
<1>2. DOMAIN f = DOMAIN d.mStreams
  OBVIOUS
<1>3. StreamsType(f)
  <2>1. \A k \in DOMAIN d.mStreams : [d.mStreams[k] EXCEPT !.holdsSocket = FALSE] \in Stream
    BY StreamSound DEF Stream
  <2> QED  BY <2>1 DEF StreamsType, Sound, ImageSound, ImageType
<1> HIDE DEF e, f
<1>4. /\ Shape(e) /\ e.mSrcPortAllocator = NewAllocator /\ e.aborted = d.aborted
      /\ e.mOrphanPackets = <<>> /\ e.mStreams = f /\ e.vqFree = d.vqFree
  BY <1>1 DEF Shape, Sound
<1>5. Sound(e)
  BY <1>2, <1>3, <1>4, NewAllocatorFacts DEF Sound, ImageSound, ImageType
<1> QED  BY <1>5 DEF e

\* A device that was just created has its types.
LEMMA NewDeviceSound == Sound(NewDevice)
<1>1. /\ Shape(NewDevice) /\ NewDevice.mSrcPortAllocator = NewAllocator
      /\ NewDevice.mOrphanPackets = <<>> /\ NewDevice.vqFree = 0
      /\ NewDevice.aborted \in BOOLEAN
      /\ DOMAIN NewDevice.mStreams = {}
  BY DEF NewDevice, Shape
<1>2. StreamsType(NewDevice.mStreams)
  BY DEF StreamsType, NewDevice
<1>3. IsFiniteSet({})
  BY FS_EmptySet
<1>4. 0 \in 0 .. QueueSize /\ <<>> \in Seq(Packet)
  BY SizesAssumption, EmptySeq
<1> QED  BY <1>1, <1>2, <1>3, <1>4, NewAllocatorFacts DEF Sound, ImageSound, ImageType

-----------------------------------------------------------------------------
(* The inductive invariant: the device and every saved image are sound *)

TypeInv ==
  /\ Sound(dev)
  /\ draining \in BOOLEAN
  /\ past \subseteq {"reset", "load"}
  /\ \A saved \in snapshots : ImageSound(saved.image) /\ saved.past \subseteq {"reset", "load"}

\* The invariant holds initially.
LEMMA TypeInit == Init => TypeInv
BY NewDeviceSound DEF Init, TypeInv

\* Clearing the list of sent packets keeps the types.
LEMMA DevSound ==
  ASSUME TypeInv
  PROVE  Sound(Dev) /\ Dev.mStreams = dev.mStreams
<1>1. /\ Shape(Dev) /\ Dev.mSrcPortAllocator = dev.mSrcPortAllocator /\ Dev.aborted = dev.aborted
      /\ Dev.mOrphanPackets = dev.mOrphanPackets /\ Dev.mStreams = dev.mStreams
      /\ Dev.vqFree = dev.vqFree
  BY DEF TypeInv, Sound, Shape, Dev
<1> QED  BY <1>1 DEF TypeInv, Sound, ImageSound, ImageType

\* A step that moves the device on and leaves history and images alone.
LEMMA SoundStep ==
  ASSUME TypeInv, Sound(dev'), draining' \in BOOLEAN, UNCHANGED <<snapshots, past>>
  PROVE  TypeInv'
BY DEF TypeInv

\* Every port a guest can name makes a key.
LEMMA GuestKeys == GuestPorts \X HostPorts \subseteq Key
<1>1. MaxId \in Nat /\ kDynamicPortsStart \in Nat /\ ListenPorts \subseteq Nat
  BY PortsAssumption, BoundsAssumption
<1>2. \A i \in 1 .. MaxId : kDynamicPortsStart + i \in Nat
  BY <1>1
<1>3. HostPorts \subseteq Nat
  BY <1>1, <1>2 DEF HostPorts
<1> QED  BY <1>3 DEF Key

\* Every step preserves the invariant.
LEMMA TypeNext == TypeInv /\ [Next]_vars => TypeInv'
<1> SUFFICES ASSUME TypeInv, [Next]_vars PROVE TypeInv'
  OBVIOUS
<1>0. Sound(Dev) /\ Dev.mStreams = dev.mStreams /\ draining \in BOOLEAN
  BY DevSound DEF TypeInv
<1>1. CASE UNCHANGED vars
  BY <1>1 DEF vars, TypeInv
<1>2. ASSUME NEW g \in GuestPorts, NEW b \in Loadable, HostConnect(g, b) PROVE TypeInv'
  <2>1. b \in BOOLEAN
    BY InputsAssumption
  <2>2. Sound(dev')
    BY <1>0, <1>2, <2>1, ConnectSound DEF HostConnect
  <2> QED  BY <1>0, <1>2, <2>2, SoundStep DEF HostConnect
<1>3. ASSUME NEW p \in ListenPorts, HostListen(p) PROVE TypeInv'
  <2> DEFINE l == Dev.mHostPortListeners \cup {p}
             d == Dev
  <2>1. dev' = [d EXCEPT !.mHostPortListeners = l]
    BY <1>3 DEF HostListen
  <2>2. Sound(d) /\ l \subseteq ListenPorts
    BY <1>0 DEF Sound, Shape
  <2> HIDE DEF l, d
  <2>3. /\ Shape(dev') /\ dev'.mSrcPortAllocator = d.mSrcPortAllocator /\ dev'.aborted = d.aborted
        /\ dev'.mOrphanPackets = d.mOrphanPackets /\ dev'.mStreams = d.mStreams
        /\ dev'.vqFree = d.vqFree
    BY <2>1, <2>2 DEF Sound, Shape
  <2>4. Sound(dev')
    BY <2>2, <2>3 DEF Sound, ImageSound, ImageType
  <2> QED  BY <1>0, <1>3, <2>4, SoundStep DEF HostListen
<1>4. ASSUME NEW k \in DOMAIN dev.mStreams, NEW data \in Writes, HostSendAsync(k, data) PROVE TypeInv'
  <2>1. data \in Seq(Byte)
    BY InputsAssumption
  <2>2. Sound(dev')
    BY <1>0, <1>4, <2>1, SendAsyncSound DEF HostSendAsync
  <2> QED  BY <1>0, <1>4, <2>2, SoundStep DEF HostSendAsync
<1>5. ASSUME NEW k \in DOMAIN dev.mStreams, HostUnplug(k) PROVE TypeInv'
  <2>1. Sound(dev')
    BY <1>0, <1>5, UnplugSound DEF HostUnplug
  <2> QED  BY <1>0, <1>5, <2>1, SoundStep DEF HostUnplug
<1>6. ASSUME NEW k \in DOMAIN dev.mStreams, NEW b \in Loadable, HostSwitchPlug(k, b) PROVE TypeInv'
  <2> DEFINE s == [dev.mStreams[k] EXCEPT !.loadable = b]
  <2>1. dev' = WithStream(Dev, k, s)
    BY <1>6 DEF HostSwitchPlug
  <2>2. SafeKey(k) /\ dev.mStreams[k] \in Stream /\ b \in BOOLEAN
    BY <1>0, StreamSound, InputsAssumption
  <2>3. s \in Stream
    BY <2>2 DEF Stream
  <2> HIDE DEF s
  <2>4. Sound(dev')
    BY <1>0, <2>1, <2>2, <2>3, WithStreamSound
  <2> QED  BY <1>0, <1>6, <2>4, SoundStep DEF HostSwitchPlug
<1>7. ASSUME NEW k \in Key, NEW c \in Credit, NEW x, NEW b \in BOOLEAN, NEW r \in Reactions,
             GuestRequest(k, c, x, b, r)
      PROVE  TypeInv'
  <2>1. Sound(dev')
    BY <1>0, <1>7, RequestSound DEF GuestRequest
  <2> QED  BY <1>7, <2>1, SoundStep DEF GuestRequest
<1>8. ASSUME NEW k \in Key, NEW c \in Credit, NEW op \in ControlOps \cup {"RESPONSE"},
             NEW r \in Reactions, GuestControl(op, k, c, r)
      PROVE  TypeInv'
  <2>1. Sound(dev')
    BY <1>0, <1>8, ControlSound DEF GuestControl
  <2> QED  BY <1>8, <2>1, SoundStep DEF GuestControl
<1>9. ASSUME NEW k \in Key, NEW c \in Credit, NEW len \in Nat, NEW taken \in Nat,
             NEW reply \in Seq(Byte), GuestRw(k, c, len, taken, reply)
      PROVE  TypeInv'
  <2>1. Sound(dev')
    BY <1>0, <1>9, RwSound DEF GuestRw
  <2> QED  BY <1>9, <2>1, SoundStep DEF GuestRw
<1>10. CASE FinishDrain
  <2>1. Sound(dev')
    BY <1>0, <1>10, SendSound DEF FinishDrain
  <2> QED  BY <1>10, <2>1, SoundStep DEF FinishDrain
<1>11. CASE GuestKicks
  <2>1. Sound(dev')
    BY <1>0, <1>11, SendSound DEF GuestKicks
  <2> QED  BY <1>0, <1>11, <2>1, SoundStep DEF GuestKicks
<1>12. CASE GuestPostsBuffer \/ GuestReboots
  <2> DEFINE d == Dev
  <2>1. PICK v \in 0 .. QueueSize : dev' = [d EXCEPT !.vqFree = v]
    <3>1. CASE GuestPostsBuffer
      <4>1. Dev.vqFree = dev.vqFree
        BY DEF Dev, TypeInv, Sound, Shape
      <4>2. Dev.vqFree \in 0 .. QueueSize
        BY <1>0 DEF Sound, ImageSound, ImageType
      <4>3. Dev.vqFree < QueueSize
        BY <3>1, <4>1 DEF GuestPostsBuffer
      <4>4. Dev.vqFree + 1 \in 0 .. QueueSize
        BY <4>2, <4>3, SizesAssumption
      <4> QED  BY <3>1, <4>4 DEF GuestPostsBuffer
    <3>2. CASE GuestReboots
      <4>1. 0 \in 0 .. QueueSize
        BY SizesAssumption
      <4> QED  BY <3>2, <4>1 DEF GuestReboots
    <3> QED  BY <1>12, <3>1, <3>2
  <2> HIDE DEF d
  <2>2. /\ Shape(dev') /\ dev'.mSrcPortAllocator = d.mSrcPortAllocator /\ dev'.aborted = d.aborted
        /\ dev'.mOrphanPackets = d.mOrphanPackets /\ dev'.mStreams = d.mStreams
        /\ dev'.vqFree = v
    BY <1>0, <2>1 DEF Sound, Shape, d
  <2>3. Sound(dev')
    BY <1>0, <2>2 DEF Sound, ImageSound, ImageType, d
  <2> QED  BY <1>0, <1>12, <2>3, SoundStep DEF GuestPostsBuffer, GuestReboots
<1>13. CASE NeedsReset
  <2>1. Sound(dev')
    BY <1>0, <1>13, ResetSound DEF NeedsReset
  <2>2. past' \subseteq {"reset", "load"} /\ snapshots' = snapshots /\ draining' = draining
    BY <1>13 DEF NeedsReset, TypeInv
  <2> QED  BY <2>1, <2>2 DEF TypeInv
<1>14. CASE Save
  <2>1. /\ snapshots' = snapshots \cup {[image |-> saveToSnapshot(dev), past |-> past]}
        /\ past' = past /\ dev' = Dev /\ draining' = draining
    BY <1>14 DEF Save
  <2>2. ImageSound(saveToSnapshot(dev))
    BY DEF saveToSnapshot, TypeInv, Sound, ImageSound, ImageType
  <2>3. ASSUME NEW saved \in snapshots'
        PROVE  ImageSound(saved.image) /\ saved.past \subseteq {"reset", "load"}
    <3>1. CASE saved \in snapshots
      BY <3>1 DEF TypeInv
    <3>2. CASE saved \notin snapshots
      <4>1. saved.image = saveToSnapshot(dev) /\ saved.past = past
        BY <2>1, <3>2
      <4> QED  BY <2>2, <4>1 DEF TypeInv
    <3> QED  BY <3>1, <3>2
  <2> QED  BY <1>0, <2>1, <2>3 DEF TypeInv
<1>15. ASSUME NEW saved \in snapshots, NEW b \in BOOLEAN, Load(saved, b) PROVE TypeInv'
  <2>1. /\ dev' = loadFromSnapshot(Dev, saved.image, b)
        /\ past' = saved.past \cup {"load"}
        /\ snapshots' = snapshots \ {saved} /\ draining' = draining
    BY <1>15 DEF Load
  <2>2. Sound(dev')
    BY <1>0, <2>1, LoadSound DEF TypeInv
  <2>3. past' \subseteq {"reset", "load"}
    BY <2>1 DEF TypeInv
  <2> QED  BY <2>1, <2>2, <2>3 DEF TypeInv
<1>16. CASE Restart
  BY <1>16, NewDeviceSound DEF Restart, TypeInv
<1>17. CASE Next
  <2>1. ASSUME NEW k \in DOMAIN dev.mStreams,
               \/ \E data \in Writes : HostSendAsync(k, data)
               \/ HostUnplug(k)
               \/ \E b \in Loadable : HostSwitchPlug(k, b)
        PROVE  TypeInv'
    BY <2>1, <1>4, <1>5, <1>6
  <2>2. ASSUME NEW k \in GuestPorts \X HostPorts, NEW c \in Credit,
               \/ GuestRequest(k, c, FALSE, FALSE, Quiet)
               \/ \E b \in Loadable, r \in Reactions : GuestRequest(k, c, TRUE, b, r)
        PROVE  TypeInv'
    BY <2>2, <1>7, QuietReaction, GuestKeys, InputsAssumption
  <2>3. ASSUME NEW k \in GuestPorts \X HostPorts, NEW c \in Credit,
               \/ \E r \in Reactions : GuestControl("RESPONSE", k, c, r)
               \/ \E op \in ControlOps : GuestControl(op, k, c, Quiet)
        PROVE  TypeInv'
    BY <2>3, <1>8, QuietReaction, GuestKeys
  <2>4. ASSUME NEW k \in GuestPorts \X HostPorts, NEW c \in Credit,
               NEW len \in 0 .. MaxRw, NEW taken \in 0 .. len, NEW reply \in Writes \cup {<<>>},
               GuestRw(k, c, len, taken, reply)
        PROVE  TypeInv'
    <3>1. len \in Nat /\ taken \in Nat
      BY BoundsAssumption
    <3>2. reply \in Seq(Byte)
      BY InputsAssumption, EmptySeq
    <3> QED  BY <2>4, <3>1, <3>2, <1>9, GuestKeys
  <2> QED  BY <1>17, <1>2, <1>3, <2>1, <2>2, <2>3, <2>4, <1>10, <1>11, <1>12, <1>13,
              <1>14, <1>15, <1>16 DEF Next
<1> QED  BY <1>1, <1>17

\* Whatever the guest sends, and across resets, saves and loads, the byte
\* counters stay within their width, the queue within its size, and the port
\* allocator well formed: a freed id is never kept above mLastId.
THEOREM TypeTheorem == Spec => []TypeOK
<1>1. TypeInv => TypeOK
  BY DEF TypeInv, TypeOK, Sound, Shape, ImageSound
<1> QED  BY <1>1, TypeInit, TypeNext, PTL DEF Spec
=============================================================================
