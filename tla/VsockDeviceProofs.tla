------------------------- MODULE VsockDeviceProofs -------------------------
(***************************************************************************)
(* Host ports: two streams never share a dynamic host port, a live port is *)
(* never free, no assertion of the device fails, and no port leaks.        *)
(***************************************************************************)
EXTENDS VsockDevice, UniqueIdAllocatorProofs

\* d is a device record; only services listen, on ports below the dynamic ones.
Shape(d) ==
  /\ d = [mSrcPortAllocator |-> d.mSrcPortAllocator, mOrphanPackets |-> d.mOrphanPackets,
          mStreams |-> d.mStreams, mHostPortListeners |-> d.mHostPortListeners,
          vqFree |-> d.vqFree, sent |-> d.sent, aborted |-> d.aborted]
  /\ d.mHostPortListeners \subseteq ListenPorts

\* Allocator a accounts for the dynamic ports of the streams K.
Ports(a, K) ==
  /\ WellFormed(a)
  /\ K \subseteq Key
  /\ \A k \in K : k[2] >= kDynamicPortsStart => k[2] - kDynamicPortsStart \in InUse(a)
  /\ \A j, k \in K : j[2] >= kDynamicPortsStart /\ j[2] = k[2] => j = k

\* Every id in use belongs to a stream.
Exact(a, K) ==
  \A id \in InUse(a) : \E k \in K : k[2] = id + kDynamicPortsStart

Good(d) == Ports(d.mSrcPortAllocator, DOMAIN d.mStreams) /\ ~d.aborted

\* Going from d to e keeps the shape, and the ports in order if they were.
Keeps(d, e) ==
  /\ Shape(e)
  /\ Good(d) => Good(e)
  /\ Good(d) /\ Exact(d.mSrcPortAllocator, DOMAIN d.mStreams)
       => Exact(e.mSrcPortAllocator, DOMAIN e.mStreams)

\* A handler that calls another one keeps what both of them keep.
LEMMA KeepsTransitive ==
  ASSUME NEW d, NEW e, NEW f, Keeps(d, e), Keeps(e, f)
  PROVE  Keeps(d, f)
BY DEF Keeps

\* Nothing the ports depend on has changed.
LEMMA KeepsSamePorts ==
  ASSUME NEW d, NEW e, Shape(e),
         e.mSrcPortAllocator = d.mSrcPortAllocator,
         DOMAIN e.mStreams = DOMAIN d.mStreams,
         e.aborted = d.aborted
  PROVE  Keeps(d, e)
BY DEF Keeps, Good

\* A send pass touches neither the allocator nor the set of streams.
LEMMA SendDomain ==
  ASSUME NEW d, Shape(d)
  PROVE  /\ Shape(sendPacketsLocked(d))
         /\ sendPacketsLocked(d).mSrcPortAllocator = d.mSrcPortAllocator
         /\ DOMAIN sendPacketsLocked(d).mStreams = DOMAIN d.mStreams
         /\ sendPacketsLocked(d).aborted = d.aborted
<1> DEFINE e == sendPacketsLocked(d)
           f == [k \in DOMAIN d.mStreams |-> AfterSend(d, k)]
<1>1. PICK o, v, t : e = [d EXCEPT !.mOrphanPackets = o, !.mStreams = f, !.vqFree = v, !.sent = t]
  BY DEF sendPacketsLocked
<1>2. DOMAIN f = DOMAIN d.mStreams
  OBVIOUS
<1> HIDE DEF e, f
<1>3. /\ Shape(e)
      /\ e.mSrcPortAllocator = d.mSrcPortAllocator
      /\ e.mStreams = f
      /\ e.aborted = d.aborted
  BY <1>1 DEF Shape
<1> QED  BY <1>2, <1>3 DEF e

\* sendPacketsLocked keeps the ports.
LEMMA SendKeeps ==
  ASSUME NEW d, Shape(d)
  PROVE  Keeps(d, sendPacketsLocked(d))
BY SendDomain, KeepsSamePorts

\* queueOrphanPacketLocked keeps the ports.
LEMMA OrphanKeeps ==
  ASSUME NEW d, Shape(d), NEW h, NEW g, NEW op, NEW fwdCnt
  PROVE  Keeps(d, queueOrphanPacketLocked(d, h, g, op, fwdCnt))
<1> DEFINE e == queueOrphanPacketLocked(d, h, g, op, fwdCnt)
<1>1. /\ Shape(e)
      /\ e.mSrcPortAllocator = d.mSrcPortAllocator
      /\ DOMAIN e.mStreams = DOMAIN d.mStreams
      /\ e.aborted = d.aborted
  BY DEF queueOrphanPacketLocked, Shape
<1> QED  BY <1>1, KeepsSamePorts

\* What storing a stream under a key changes, and what it leaves alone.
LEMMA WithStreamShape ==
  ASSUME NEW d, Shape(d), NEW k, NEW s
  PROVE  /\ Shape(WithStream(d, k, s))
         /\ WithStream(d, k, s).mSrcPortAllocator = d.mSrcPortAllocator
         /\ DOMAIN WithStream(d, k, s).mStreams = DOMAIN d.mStreams \cup {k}
         /\ WithStream(d, k, s).aborted = d.aborted
         /\ WithStream(d, k, s).mHostPortListeners = d.mHostPortListeners
BY DEF WithStream, Shape

\* Changing a stream that exists.
LEMMA UpdateKeeps ==
  ASSUME NEW d, Shape(d), NEW k \in DOMAIN d.mStreams, NEW s
  PROVE  Keeps(d, WithStream(d, k, s))
<1>1. DOMAIN d.mStreams \cup {k} = DOMAIN d.mStreams
  OBVIOUS
<1> QED  BY <1>1, WithStreamShape, KeepsSamePorts

\* A new stream on a port that a service listens on takes no dynamic port.
LEMMA AcceptKeeps ==
  ASSUME NEW d, Shape(d), NEW k \in Key, k[2] \in d.mHostPortListeners, NEW s
  PROVE  Keeps(d, WithStream(d, k, s))
<1>1. k[2] \in Nat /\ kDynamicPortsStart \in Nat /\ ~(k[2] >= kDynamicPortsStart)
  BY PortsAssumption DEF Key, Shape
<1>2. ASSUME Good(d) PROVE Good(WithStream(d, k, s))
  BY <1>1, <1>2, WithStreamShape DEF Good, Ports
<1>3. ASSUME Exact(d.mSrcPortAllocator, DOMAIN d.mStreams)
      PROVE  Exact(d.mSrcPortAllocator, DOMAIN d.mStreams \cup {k})
  BY <1>3 DEF Exact
<1>4. Shape(WithStream(d, k, s))
  BY WithStreamShape
<1>5. /\ WithStream(d, k, s).mSrcPortAllocator = d.mSrcPortAllocator
      /\ DOMAIN WithStream(d, k, s).mStreams = DOMAIN d.mStreams \cup {k}
  BY WithStreamShape
<1> QED  BY <1>2, <1>3, <1>4, <1>5 DEF Keeps

\* What recycleStreamLocked and the erase leave.
LEMMA RemoveShape ==
  ASSUME NEW d, Shape(d), NEW k, NEW op
  PROVE  LET e  == RemoveStream(d, k, op)
             id == k[2] - kDynamicPortsStart
         IN  /\ Shape(e)
             /\ DOMAIN e.mStreams = DOMAIN d.mStreams \ {k}
             /\ k[2] < kDynamicPortsStart =>
                  e.mSrcPortAllocator = d.mSrcPortAllocator /\ e.aborted = d.aborted
             /\ ~(k[2] < kDynamicPortsStart) /\ PutAsserts(d.mSrcPortAllocator, id) =>
                  /\ e.mSrcPortAllocator = AfterPut(d.mSrcPortAllocator, id)
                  /\ e.aborted = d.aborted
<1> DEFINE told == IF op = "INVALID" THEN d
                   ELSE queueOrphanPacketLocked(d, k[2], k[1], op, d.mStreams[k].hostFwdCnt)
           r == recycleStreamLocked(d, k, op)
           id == k[2] - kDynamicPortsStart
           f == [j \in DOMAIN d.mStreams \ {k} |-> d.mStreams[j]]
           e == [r EXCEPT !.mStreams = f]
<1>1. /\ Shape(told)
      /\ told.mSrcPortAllocator = d.mSrcPortAllocator
      /\ told.aborted = d.aborted
  BY DEF Shape, queueOrphanPacketLocked
<1>2. r = IF k[2] < kDynamicPortsStart THEN told
          ELSE IF PutAsserts(d.mSrcPortAllocator, id)
          THEN [told EXCEPT !.mSrcPortAllocator = AfterPut(d.mSrcPortAllocator, id)]
          ELSE [told EXCEPT !.aborted = TRUE]
  BY DEF recycleStreamLocked
<1>3. e = RemoveStream(d, k, op)
  BY DEF RemoveStream
<1>4. DOMAIN f = DOMAIN d.mStreams \ {k}
  OBVIOUS
<1> HIDE DEF told, r, id, f
<1>5. /\ Shape(r)
      /\ k[2] < kDynamicPortsStart =>
           r.mSrcPortAllocator = d.mSrcPortAllocator /\ r.aborted = d.aborted
      /\ ~(k[2] < kDynamicPortsStart) /\ PutAsserts(d.mSrcPortAllocator, id) =>
           /\ r.mSrcPortAllocator = AfterPut(d.mSrcPortAllocator, id)
           /\ r.aborted = d.aborted
  BY <1>1, <1>2 DEF Shape
<1>6. /\ Shape(e)
      /\ e.mStreams = f
      /\ e.mSrcPortAllocator = r.mSrcPortAllocator
      /\ e.aborted = r.aborted
  BY <1>5 DEF Shape
<1> QED  BY <1>3, <1>4, <1>5, <1>6 DEF id

\* Ending a stream returns its port, which was in use, and no other.
LEMMA RemoveKeeps ==
  ASSUME NEW d, Shape(d), NEW k \in DOMAIN d.mStreams, NEW op
  PROVE  Keeps(d, RemoveStream(d, k, op))
<1> DEFINE e == RemoveStream(d, k, op)
           a == d.mSrcPortAllocator
           K == DOMAIN d.mStreams
           id == k[2] - kDynamicPortsStart
<1>1. Shape(e) /\ DOMAIN e.mStreams = K \ {k}
  BY RemoveShape
<1>2. SUFFICES ASSUME Good(d)
               PROVE  /\ Good(e)
                      /\ Exact(a, K) => Exact(e.mSrcPortAllocator, DOMAIN e.mStreams)
  BY <1>1 DEF Keeps
<1>3. WellFormed(a) /\ K \subseteq Key /\ k[2] \in Nat /\ kDynamicPortsStart \in Nat
  BY <1>2, PortsAssumption DEF Good, Ports, Key
<1>4. CASE k[2] < kDynamicPortsStart
  <2>1. e.mSrcPortAllocator = a /\ e.aborted = d.aborted
    BY <1>4, RemoveShape
  <2>2. Good(e)
    BY <1>1, <1>2, <2>1 DEF Good, Ports
  <2>3. ASSUME Exact(a, K) PROVE Exact(a, K \ {k})
    BY <1>3, <1>4, <2>3 DEF Exact, InUse, WellFormed
  <2> QED  BY <1>1, <2>1, <2>2, <2>3
<1>5. CASE ~(k[2] < kDynamicPortsStart)
  <2>1. id \in InUse(a)
    BY <1>2, <1>3, <1>5 DEF Good, Ports
  <2>2. /\ PutAsserts(a, id)
        /\ WellFormed(AfterPut(a, id))
        /\ InUse(AfterPut(a, id)) = InUse(a) \ {id}
    BY <1>3, <2>1, PutFacts
  <2>3. e.mSrcPortAllocator = AfterPut(a, id) /\ e.aborted = d.aborted
    BY <1>5, <2>2, RemoveShape
  <2>4. \A j \in K \ {k} : j[2] >= kDynamicPortsStart => j[2] - kDynamicPortsStart # id
    <3> SUFFICES ASSUME NEW j \in K \ {k}, j[2] >= kDynamicPortsStart,
                        j[2] - kDynamicPortsStart = id
                 PROVE  FALSE
      OBVIOUS
    <3>1. j[2] \in Nat
      BY <1>3 DEF Key
    <3>2. j[2] = k[2]
      BY <1>3, <3>1
    <3> QED  BY <1>2, <3>2 DEF Good, Ports
  <2>5. Ports(AfterPut(a, id), K \ {k})
    <3>1. \A j \in K : j[2] >= kDynamicPortsStart => j[2] - kDynamicPortsStart \in InUse(a)
      BY <1>2 DEF Good, Ports
    <3>2. \A j \in K \ {k} : j[2] >= kDynamicPortsStart =>
                               j[2] - kDynamicPortsStart \in InUse(AfterPut(a, id))
      BY <2>2, <2>4, <3>1
    <3>3. \A i, j \in K \ {k} : i[2] >= kDynamicPortsStart /\ i[2] = j[2] => i = j
      BY <1>2 DEF Good, Ports
    <3> QED  BY <1>3, <2>2, <3>2, <3>3 DEF Ports
  <2>6. ASSUME Exact(a, K) PROVE Exact(AfterPut(a, id), K \ {k})
    <3> SUFFICES ASSUME NEW i \in InUse(a) \ {id}
                 PROVE  \E j \in K \ {k} : j[2] = i + kDynamicPortsStart
      BY <2>2 DEF Exact
    <3>1. PICK j \in K : j[2] = i + kDynamicPortsStart
      BY <2>6 DEF Exact
    <3>2. i \in Nat
      BY <1>3 DEF InUse, WellFormed
    <3>3. j # k
      BY <1>3, <3>1, <3>2
    <3> QED  BY <3>1, <3>3
  <2> QED  BY <1>1, <1>2, <2>3, <2>5, <2>6 DEF Good
<1> QED  BY <1>4, <1>5

\* A failed assertion keeps the shape of the device.
LEMMA AbortShape ==
  ASSUME NEW d, Shape(d), NEW x
  PROVE  Shape([d EXCEPT !.aborted = x])
BY DEF Shape

\* connect() always finds its new key free: assert(inserted) holds.
LEMMA ConnectKeeps ==
  ASSUME NEW d, Shape(d), NEW g \in GuestPorts, NEW b
  PROVE  Keeps(d, connect(d, g, b))
<1> DEFINE a == d.mSrcPortAllocator
           K == DOMAIN d.mStreams
           k == <<g, NextHostPort(d)>>
           d1 == [d EXCEPT !.mSrcPortAllocator = AfterGet(a)]
           s == [NewStream(b) EXCEPT !.sendOps = {"REQUEST"}]
           d2 == WithStream(d1, k, s)
           d3 == [d1 EXCEPT !.aborted = TRUE]
<1>1. /\ Shape(d1)
      /\ d1.mSrcPortAllocator = AfterGet(a)
      /\ d1.mStreams = d.mStreams
      /\ d1.aborted = d.aborted
  BY DEF Shape
<1>2. connect(d, g, b) = IF k \in K THEN d3 ELSE sendPacketsLocked(d2)
  BY DEF connect, HasStream
<1> HIDE DEF d1, s
<1>3. Shape(d3)
  BY <1>1, AbortShape
<1> HIDE DEF d3
<1>4. /\ Shape(d2)
      /\ d2.mSrcPortAllocator = AfterGet(a)
      /\ DOMAIN d2.mStreams = K \cup {k}
      /\ d2.aborted = d.aborted
  BY <1>1, WithStreamShape
<1>5. Shape(connect(d, g, b))
  BY <1>2, <1>3, <1>4, SendKeeps DEF Keeps
<1> SUFFICES ASSUME Good(d)
             PROVE  /\ Good(connect(d, g, b))
                    /\ Exact(a, K) => Exact(connect(d, g, b).mSrcPortAllocator,
                                            DOMAIN connect(d, g, b).mStreams)
  BY <1>5 DEF Keeps
<1>6. /\ GetId(a) \in Nat \ {0}
      /\ GetId(a) \notin InUse(a)
      /\ WellFormed(AfterGet(a))
      /\ InUse(AfterGet(a)) = InUse(a) \cup {GetId(a)}
  BY GetFacts DEF Good, Ports
<1>7. k[2] \in Nat /\ k[2] >= kDynamicPortsStart /\ k[2] - kDynamicPortsStart = GetId(a) /\ k \in Key
  BY <1>6, PortsAssumption DEF NextHostPort, Key
<1> HIDE DEF k
<1>8. \A j \in K : j[2] # k[2]
  BY <1>6, <1>7 DEF Good, Ports
<1>9. connect(d, g, b) = sendPacketsLocked(d2)
  BY <1>2, <1>8
<1>10. Ports(AfterGet(a), K \cup {k})
  <2>1. \A j \in K : j[2] >= kDynamicPortsStart => j[2] - kDynamicPortsStart \in InUse(AfterGet(a))
    BY <1>6 DEF Good, Ports
  <2>2. k[2] - kDynamicPortsStart \in InUse(AfterGet(a))
    BY <1>6, <1>7
  <2>3. \A i, j \in K \cup {k} : i[2] >= kDynamicPortsStart /\ i[2] = j[2] => i = j
    BY <1>8 DEF Good, Ports
  <2>4. K \cup {k} \subseteq Key
    BY <1>7 DEF Good, Ports
  <2> QED  BY <1>6, <2>1, <2>2, <2>3, <2>4 DEF Ports
<1>11. Good(d2)
  BY <1>4, <1>10 DEF Good
<1>12. ASSUME Exact(a, K) PROVE Exact(AfterGet(a), K \cup {k})
  <2>1. k[2] = GetId(a) + kDynamicPortsStart
    BY DEF k, NextHostPort
  <2> QED  BY <1>6, <1>12, <2>1 DEF Exact
<1> QED  BY <1>4, <1>9, <1>11, <1>12, SendKeeps DEF Keeps

\* sendAsyncImpl neither adds nor removes a stream.
LEMMA SendAsyncDomain ==
  ASSUME NEW d, Shape(d), NEW k \in DOMAIN d.mStreams, NEW data
  PROVE  DOMAIN sendAsyncImpl(d, k, data).mStreams = DOMAIN d.mStreams
<1> DEFINE s == d.mStreams[k]
           t == [s EXCEPT !.hostToGuestBuf = s.hostToGuestBuf \o data]
           d1 == WithStream(d, k, t)
<1>1. sendAsyncImpl(d, k, data) = IF s.isConnected THEN sendPacketsLocked(d1) ELSE d
  BY DEF sendAsyncImpl
<1> HIDE DEF t
<1>2. Shape(d1) /\ DOMAIN d1.mStreams = DOMAIN d.mStreams \cup {k}
  BY WithStreamShape
<1>3. DOMAIN sendPacketsLocked(d1).mStreams = DOMAIN d1.mStreams
  BY <1>2, SendDomain
<1> QED  BY <1>1, <1>2, <1>3

\* sendAsyncImpl keeps the ports.
LEMMA SendAsyncKeeps ==
  ASSUME NEW d, Shape(d), NEW k \in DOMAIN d.mStreams, NEW data
  PROVE  Keeps(d, sendAsyncImpl(d, k, data))
<1> DEFINE s == d.mStreams[k]
           d1 == WithStream(d, k, [s EXCEPT !.hostToGuestBuf = s.hostToGuestBuf \o data])
<1>1. Keeps(d, d1)
  BY UpdateKeeps
<1>2. Keeps(d1, sendPacketsLocked(d1))
  BY <1>1, SendKeeps DEF Keeps
<1>3. Keeps(d, sendPacketsLocked(d1))
  BY <1>1, <1>2, KeepsTransitive
<1>4. Keeps(d, d)
  BY KeepsSamePorts
<1> QED  BY <1>3, <1>4 DEF sendAsyncImpl

\* unplugFromDevice keeps the ports.
LEMMA UnplugKeeps ==
  ASSUME NEW d, Shape(d), NEW k \in DOMAIN d.mStreams
  PROVE  Keeps(d, unplugFromDevice(d, k))
<1> DEFINE d1 == RemoveStream(d, k, "SHUTDOWN")
<1>1. Keeps(d, d1)
  BY RemoveKeeps
<1>2. Keeps(d1, sendPacketsLocked(d1))
  BY <1>1, SendKeeps DEF Keeps
<1>3. Keeps(d, sendPacketsLocked(d1))
  BY <1>1, <1>2, KeepsTransitive
<1> QED  BY <1>3 DEF unplugFromDevice

\* Doing nothing is one of the reactions of a plug.
LEMMA QuietReaction == Quiet \in Reactions
BY DEF Reactions

\* Whatever a plug does inside onConnect keeps the ports.
LEMMA ReactionKeeps ==
  ASSUME NEW d, Shape(d), NEW k \in DOMAIN d.mStreams, NEW r \in Reactions
  PROVE  Keeps(d, PlugReaction(d, k, r))
<1>1. r.kind \in {"quiet", "send", "unplug"}
  BY DEF Reactions, Quiet, HangUp, SendBack
<1>2. Keeps(d, d)
  BY KeepsSamePorts
<1>3. CASE r.kind = "quiet"
  BY <1>2, <1>3 DEF PlugReaction
<1>4. CASE r.kind = "send"
  <2>1. PlugReaction(d, k, r) = sendAsyncImpl(d, k, r.data)
    BY <1>4 DEF PlugReaction
  <2> QED  BY <2>1, SendAsyncKeeps
<1>5. CASE r.kind = "unplug"
  <2>1. PlugReaction(d, k, r) = unplugFromDevice(d, k)
    BY <1>5 DEF PlugReaction
  <2> QED  BY <2>1, UnplugKeeps
<1> QED  BY <1>1, <1>3, <1>4, <1>5

\* A change to stream k, which may be new, and then the reaction of its plug.
LEMMA ThenReactionKeeps ==
  ASSUME NEW d, Shape(d), NEW k, NEW s, NEW r \in Reactions,
         Keeps(d, WithStream(d, k, s))
  PROVE  Keeps(d, PlugReaction(WithStream(d, k, s), k, r))
<1> DEFINE d1 == WithStream(d, k, s)
<1>1. Shape(d1) /\ k \in DOMAIN d1.mStreams
  BY WithStreamShape
<1> HIDE DEF d1
<1>2. Keeps(d1, PlugReaction(d1, k, r))
  BY <1>1, ReactionKeeps
<1> QED  BY <1>2, KeepsTransitive DEF d1

\* processPacketOpRequest keeps the ports: it adds streams on listening ports only.
LEMMA RequestKeeps ==
  ASSUME NEW d, Shape(d), NEW k \in Key, NEW c, NEW accepts, NEW b, NEW r \in Reactions
  PROVE  Keeps(d, processPacketOpRequest(d, k, c, accepts, b, r))
<1> DEFINE s == [WithCredit(NewStream(b), c) EXCEPT !.isConnected = TRUE, !.sendOps = {"RESPONSE"}]
           d1 == PlugReaction(WithStream(d, k, s), k, r)
           d2 == queueOrphanPacketLocked(d, k[2], k[1], "RST", 0)
           refused == k[2] \notin d.mHostPortListeners \/ (~HasStream(d, k) /\ ~accepts)
<1>1. processPacketOpRequest(d, k, c, accepts, b, r) =
        IF refused THEN d2 ELSE IF HasStream(d, k) THEN d ELSE d1
  BY DEF processPacketOpRequest
<1>2. Keeps(d, d2)
  BY OrphanKeeps
<1>3. Keeps(d, d)
  BY KeepsSamePorts
<1>4. ASSUME ~refused PROVE Keeps(d, d1)
  <2>1. k[2] \in d.mHostPortListeners
    BY <1>4
  <2> HIDE DEF s, refused
  <2>2. Keeps(d, WithStream(d, k, s))
    BY <2>1, AcceptKeeps
  <2> QED  BY <2>2, ThenReactionKeeps
<1> HIDE DEF d1, d2, refused
<1> QED  BY <1>1, <1>2, <1>3, <1>4

\* Every control packet, for a known or an unknown stream, keeps the ports.
LEMMA ControlKeeps ==
  ASSUME NEW d, Shape(d), NEW k, NEW c, NEW op \in ControlOps \cup {"RESPONSE"},
         NEW r \in Reactions
  PROVE  Keeps(d, onPacketReceiveControl(d, k, c, op, r))
<1>1. CASE ~HasStream(d, k)
  <2>1. Keeps(d, d)
    BY KeepsSamePorts
  <2>2. Keeps(d, queueOrphanPacketLocked(d, k[2], k[1], "RST", 0))
    BY OrphanKeeps
  <2> QED  BY <1>1, <2>1, <2>2 DEF onPacketReceiveControl, onUnknownStream
<1>2. CASE HasStream(d, k)
  <2> DEFINE s == WithCredit(d.mStreams[k], c)
             d1 == WithStream(d, k, s)
             t == [s EXCEPT !.isConnected = TRUE]
             u == [s EXCEPT !.sendOps = s.sendOps \cup {"CREDIT_UPDATE"}]
             e == onKnownStream(d, k, c, op, r)
  <2>1. k \in DOMAIN d.mStreams
    BY <1>2 DEF HasStream
  <2>2. /\ op = "RESPONSE" => e = PlugReaction(WithStream(d, k, t), k, r)
        /\ op = "RST" => e = RemoveStream(d1, k, "INVALID")
        /\ op = "SHUTDOWN" => e = RemoveStream(d1, k, "SHUTDOWN")
        /\ op = "CREDIT_UPDATE" => e = d1
        /\ op = "CREDIT_REQUEST" => e = WithStream(d, k, u)
        /\ op = "INVALID" => e = RemoveStream(d1, k, "RST")
    BY DEF onKnownStream
  <2> HIDE DEF s, t, u, e
  <2>3. Keeps(d, d1) /\ Keeps(d, WithStream(d, k, t)) /\ Keeps(d, WithStream(d, k, u))
    BY <2>1, UpdateKeeps
  <2>4. Shape(d1) /\ k \in DOMAIN d1.mStreams
    BY WithStreamShape
  <2> HIDE DEF d1
  <2>5. \A x : Keeps(d, RemoveStream(d1, k, x))
    BY <2>3, <2>4, RemoveKeeps, KeepsTransitive
  <2>6. Keeps(d, PlugReaction(WithStream(d, k, t), k, r))
    BY <2>3, ThenReactionKeeps
  <2>7. Keeps(d, e)
    BY <2>2, <2>3, <2>5, <2>6 DEF ControlOps
  <2> QED  BY <1>2, <2>7 DEF onPacketReceiveControl, e
<1> QED  BY <1>1, <1>2

\* A data packet, taken, refused or answered, keeps the ports.
LEMMA RwKeeps ==
  ASSUME NEW d, Shape(d), NEW k, NEW c, NEW len \in Nat, NEW taken \in Nat, NEW reply
  PROVE  Keeps(d, onPacketReceiveRw(d, k, c, len, taken, reply))
<1> DEFINE s == WithCredit(d.mStreams[k], c)
           d1 == WithStream(d, k, s)
           d2 == sendAsyncImpl(d1, k, reply)
           s2 == d2.mStreams[k]
           u == [s2 EXCEPT !.hostFwdCnt = (s2.hostFwdCnt + taken) % CounterModulus,
                           !.sendOps = s2.sendOps \cup {"CREDIT_UPDATE"}]
           d3 == WithStream(d2, k, u)
           e == onPacketReceiveRw(d, k, c, len, taken, reply)
<1>1. Keeps(d, d)
  BY KeepsSamePorts
<1>2. /\ ~HasStream(d, k) => e = d
      /\ HasStream(d, k) => e \in {d1, d3, RemoveStream(d1, k, "SHUTDOWN"),
                                   RemoveStream(d3, k, "SHUTDOWN")}
  BY DEF onPacketReceiveRw
<1>3. CASE HasStream(d, k)
  <2> HIDE DEF s
  <2>1. k \in DOMAIN d.mStreams
    BY <1>3 DEF HasStream
  <2>2. Keeps(d, d1) /\ Shape(d1) /\ k \in DOMAIN d1.mStreams
    BY <2>1, UpdateKeeps, WithStreamShape
  <2> HIDE DEF d1
  <2>3. Keeps(d1, d2) /\ Shape(d2) /\ DOMAIN d2.mStreams = DOMAIN d1.mStreams
    <3>1. Keeps(d1, d2)
      BY <2>2, SendAsyncKeeps
    <3>2. DOMAIN d2.mStreams = DOMAIN d1.mStreams
      BY <2>2, SendAsyncDomain
    <3> QED  BY <3>1, <3>2 DEF Keeps
  <2> HIDE DEF d2, u
  <2>4. Keeps(d2, d3) /\ Shape(d3) /\ k \in DOMAIN d3.mStreams
    BY <2>2, <2>3, UpdateKeeps, WithStreamShape
  <2> HIDE DEF d3
  <2>5. Keeps(d, d3)
    BY <2>2, <2>3, <2>4, KeepsTransitive
  <2>6. Keeps(d, RemoveStream(d1, k, "SHUTDOWN")) /\ Keeps(d, RemoveStream(d3, k, "SHUTDOWN"))
    BY <2>2, <2>4, <2>5, RemoveKeeps, KeepsTransitive
  <2> QED  BY <1>2, <1>3, <2>2, <2>5, <2>6
<1> QED  BY <1>1, <1>2, <1>3

\* Loading: the allocator of the image and some of its streams.
LEMMA LoadGood ==
  ASSUME NEW d, Shape(d), NEW image, NEW b
  PROVE  LET e == loadFromSnapshot(d, image, b)
         IN  /\ Shape(e)
             /\ ~d.aborted /\ Ports(image.mSrcPortAllocator, DOMAIN image.mStreams) => Good(e)
<1> DEFINE e == loadFromSnapshot(d, image, b)
           kept == IF b THEN FirstLoadable(image) ELSE {}
           f == [k \in kept |-> [image.mStreams[k] EXCEPT !.holdsSocket = TRUE]]
           a == image.mSrcPortAllocator
<1>1. PICK o, v, d2 :
        /\ d2 = [d EXCEPT !.mSrcPortAllocator = a, !.mOrphanPackets = o, !.mStreams = f, !.vqFree = v]
        /\ e = IF loadFails(image) THEN d2 ELSE sendPacketsLocked(d2)
  BY DEF loadFromSnapshot
<1>2. kept \subseteq DOMAIN image.mStreams
  BY DEF FirstLoadable, LoadableKeys
<1>3. DOMAIN f = kept
  OBVIOUS
<1> HIDE DEF a, e, kept, f
<1>4. /\ Shape(d2)
      /\ d2.mSrcPortAllocator = a
      /\ d2.mStreams = f
      /\ d2.aborted = d.aborted
  BY <1>1 DEF Shape
<1> USE DEF a
<1>5. ASSUME Ports(image.mSrcPortAllocator, DOMAIN image.mStreams)
      PROVE  Ports(image.mSrcPortAllocator, kept)
  BY <1>2, <1>5 DEF Ports
<1>6. ~d.aborted /\ Ports(image.mSrcPortAllocator, DOMAIN image.mStreams) => Good(d2)
  BY <1>3, <1>4, <1>5 DEF Good
<1>7. Keeps(d2, sendPacketsLocked(d2))
  BY <1>4, SendKeeps
<1>8. /\ Shape(e)
      /\ Good(d2) => Good(e)
  BY <1>1, <1>4, <1>7 DEF Keeps
<1> QED  BY <1>6, <1>8 DEF e

-----------------------------------------------------------------------------
(* The inductive invariant: the ports are in order now and in every saved  *)
(* image from before a reset.                                              *)

PortsInv ==
  /\ Shape(dev)
  /\ "reset" \notin past => Good(dev)
  /\ past = {} => Exact(dev.mSrcPortAllocator, DOMAIN dev.mStreams)
  /\ \A saved \in snapshots :
       "reset" \notin saved.past =>
         Ports(saved.image.mSrcPortAllocator, DOMAIN saved.image.mStreams)

\* A device that was just created has its ports in order.
LEMMA NewDeviceGood ==
  /\ Shape(NewDevice)
  /\ Good(NewDevice)
  /\ Exact(NewDevice.mSrcPortAllocator, DOMAIN NewDevice.mStreams)
<1>1. WellFormed(NewAllocator) /\ InUse(NewAllocator) = {}
  BY NewAllocatorFacts
<1>2. /\ Shape(NewDevice)
      /\ NewDevice.mSrcPortAllocator = NewAllocator
      /\ DOMAIN NewDevice.mStreams = {}
      /\ ~NewDevice.aborted
  BY DEF NewDevice, Shape
<1> QED  BY <1>1, <1>2 DEF Good, Ports, Exact

\* What NEEDS_RESET does to the allocator and to the streams.
LEMMA ResetShape ==
  ASSUME NEW d, Shape(d)
  PROVE  LET e == setStatusNeedsReset(d)
         IN  /\ Shape(e)
             /\ e.mSrcPortAllocator = NewAllocator
             /\ DOMAIN e.mStreams = DOMAIN d.mStreams
             /\ e.aborted = d.aborted
<1> DEFINE f == [k \in DOMAIN d.mStreams |-> [d.mStreams[k] EXCEPT !.holdsSocket = FALSE]]
           e == setStatusNeedsReset(d)
<1>1. e = [d EXCEPT !.mStreams = f, !.mOrphanPackets = <<>>, !.mSrcPortAllocator = NewAllocator]
  BY DEF setStatusNeedsReset
<1>2. DOMAIN f = DOMAIN d.mStreams
  OBVIOUS
<1> HIDE DEF f, e
<1>3. /\ Shape(e)
      /\ e.mSrcPortAllocator = NewAllocator
      /\ e.mStreams = f
      /\ e.aborted = d.aborted
  BY <1>1 DEF Shape
<1> QED  BY <1>2, <1>3 DEF e

\* The invariant holds initially.
LEMMA PortsInit == Init => PortsInv
BY NewDeviceGood DEF Init, PortsInv

\* A step that moves the device on and leaves history and images alone.
LEMMA DeviceStep ==
  ASSUME PortsInv, Keeps(Dev, dev'), UNCHANGED <<snapshots, past>>
  PROVE  PortsInv'
<1>1. /\ Shape(Dev)
      /\ Dev.mSrcPortAllocator = dev.mSrcPortAllocator
      /\ Dev.mStreams = dev.mStreams
      /\ Dev.aborted = dev.aborted
  BY DEF PortsInv, Dev, Shape
<1>2. Keeps(dev, Dev)
  BY <1>1, KeepsSamePorts
<1>3. Keeps(dev, dev')
  BY <1>2, KeepsTransitive
<1> QED  BY <1>3 DEF PortsInv, Keeps

\* Clearing the list of sent packets changes nothing else.
LEMMA DevShape ==
  ASSUME PortsInv
  PROVE  /\ Shape(Dev)
         /\ Dev.mSrcPortAllocator = dev.mSrcPortAllocator
         /\ Dev.mStreams = dev.mStreams
         /\ Dev.aborted = dev.aborted
BY DEF PortsInv, Dev, Shape

\* Every step preserves the invariant.
LEMMA PortsNext == PortsInv /\ [Next]_vars => PortsInv'
<1> SUFFICES ASSUME PortsInv, [Next]_vars PROVE PortsInv'
  OBVIOUS
<1> USE DevShape
<1>1. CASE UNCHANGED vars
  BY <1>1 DEF vars, PortsInv
<1>2. ASSUME NEW g \in GuestPorts, NEW b, HostConnect(g, b) PROVE PortsInv'
  <2>1. Keeps(Dev, dev')
    BY <1>2, ConnectKeeps DEF HostConnect
  <2> QED  BY <1>2, <2>1, DeviceStep DEF HostConnect
<1>3. ASSUME NEW p \in ListenPorts, HostListen(p) PROVE PortsInv'
  <2>1. /\ Shape(dev')
        /\ dev'.mSrcPortAllocator = Dev.mSrcPortAllocator
        /\ dev'.mStreams = Dev.mStreams
        /\ dev'.aborted = Dev.aborted
    BY <1>3 DEF HostListen, Shape
  <2>2. Keeps(Dev, dev')
    BY <2>1, KeepsSamePorts
  <2> QED  BY <1>3, <2>2, DeviceStep DEF HostListen
<1>4. ASSUME NEW k \in DOMAIN dev.mStreams, NEW data, HostSendAsync(k, data) PROVE PortsInv'
  <2>1. Keeps(Dev, dev')
    BY <1>4, SendAsyncKeeps DEF HostSendAsync
  <2> QED  BY <1>4, <2>1, DeviceStep DEF HostSendAsync
<1>5. ASSUME NEW k \in DOMAIN dev.mStreams, HostUnplug(k) PROVE PortsInv'
  <2>1. Keeps(Dev, dev')
    BY <1>5, UnplugKeeps DEF HostUnplug
  <2> QED  BY <1>5, <2>1, DeviceStep DEF HostUnplug
<1>6. ASSUME NEW k \in DOMAIN dev.mStreams, NEW b, HostSwitchPlug(k, b) PROVE PortsInv'
  <2>1. Keeps(Dev, dev')
    BY <1>6, UpdateKeeps DEF HostSwitchPlug
  <2> QED  BY <1>6, <2>1, DeviceStep DEF HostSwitchPlug
<1>7. ASSUME NEW k \in GuestPorts \X HostPorts, NEW c, NEW x, NEW b, NEW r \in Reactions,
             GuestRequest(k, c, x, b, r)
      PROVE  PortsInv'
  <2>0. HostPorts \subseteq Nat
    <3>1. MaxId \in Nat /\ kDynamicPortsStart \in Nat /\ ListenPorts \subseteq Nat
      BY PortsAssumption, BoundsAssumption
    <3>2. \A i \in 1 .. MaxId : kDynamicPortsStart + i \in Nat
      BY <3>1
    <3> QED  BY <3>1, <3>2 DEF HostPorts
  <2>1. k \in Key
    BY <2>0 DEF Key
  <2>2. Keeps(Dev, dev')
    BY <1>7, <2>1, RequestKeeps DEF GuestRequest
  <2> QED  BY <1>7, <2>2, DeviceStep DEF GuestRequest
<1>8. ASSUME NEW k, NEW c, NEW op \in ControlOps \cup {"RESPONSE"}, NEW r \in Reactions,
             GuestControl(op, k, c, r)
      PROVE  PortsInv'
  <2>1. Keeps(Dev, dev')
    BY <1>8, ControlKeeps DEF GuestControl
  <2> QED  BY <1>8, <2>1, DeviceStep DEF GuestControl
<1>9. ASSUME NEW k, NEW c, NEW len \in Nat, NEW taken \in Nat, NEW reply,
             GuestRw(k, c, len, taken, reply)
      PROVE  PortsInv'
  <2>1. Keeps(Dev, dev')
    BY <1>9, RwKeeps DEF GuestRw
  <2> QED  BY <1>9, <2>1, DeviceStep DEF GuestRw
<1>10. CASE FinishDrain
  BY <1>10, SendKeeps, DeviceStep DEF FinishDrain
<1>11. CASE GuestKicks
  BY <1>11, SendKeeps, DeviceStep DEF GuestKicks
<1>12. CASE GuestPostsBuffer \/ GuestReboots
  <2>1. /\ Shape(dev')
        /\ dev'.mSrcPortAllocator = Dev.mSrcPortAllocator
        /\ dev'.mStreams = Dev.mStreams
        /\ dev'.aborted = Dev.aborted
    BY <1>12 DEF GuestPostsBuffer, GuestReboots, Shape
  <2>2. Keeps(Dev, dev')
    BY <2>1, KeepsSamePorts
  <2> QED  BY <1>12, <2>2, DeviceStep DEF GuestPostsBuffer, GuestReboots
<1>13. CASE NeedsReset
  <2>1. /\ Shape(dev')
        /\ dev'.mSrcPortAllocator = NewAllocator
        /\ DOMAIN dev'.mStreams = DOMAIN dev.mStreams
        /\ dev'.aborted = dev.aborted
    BY <1>13, ResetShape DEF NeedsReset
  <2>2. ASSUME DOMAIN dev.mStreams = {}, ~dev.aborted
        PROVE  Good(dev') /\ Exact(dev'.mSrcPortAllocator, DOMAIN dev'.mStreams)
    BY <2>1, <2>2, NewAllocatorFacts DEF Good, Ports, Exact
  <2>3. DOMAIN dev.mStreams # {} => "reset" \in past'
    BY <1>13 DEF NeedsReset
  <2>4. ~dev.aborted /\ snapshots' = snapshots
    BY <1>13 DEF NeedsReset, Running
  <2> QED  BY <2>1, <2>2, <2>3, <2>4 DEF PortsInv
<1>14. CASE Save
  <2>1. snapshots' = snapshots \cup {[image |-> saveToSnapshot(dev), past |-> past]}
        /\ past' = past /\ dev' = Dev
    BY <1>14 DEF Save
  <2>2. /\ saveToSnapshot(dev).mSrcPortAllocator = dev.mSrcPortAllocator
        /\ saveToSnapshot(dev).mStreams = dev.mStreams
    BY DEF saveToSnapshot
  <2>3. Keeps(dev, Dev)
    BY KeepsSamePorts
  <2>4. \A saved \in snapshots' :
          "reset" \notin saved.past =>
            Ports(saved.image.mSrcPortAllocator, DOMAIN saved.image.mStreams)
    BY <2>1, <2>2 DEF PortsInv, Good
  <2> QED  BY <2>1, <2>3, <2>4 DEF PortsInv, Keeps
<1>15. ASSUME NEW saved \in snapshots, NEW b, Load(saved, b) PROVE PortsInv'
  <2>1. /\ dev' = loadFromSnapshot(Dev, saved.image, b)
        /\ past' = saved.past \cup {"load"}
        /\ snapshots' = snapshots \ {saved}
        /\ ~Dev.aborted
    BY <1>15 DEF Load, Running
  <2>2. /\ Shape(dev')
        /\ Ports(saved.image.mSrcPortAllocator, DOMAIN saved.image.mStreams) => Good(dev')
    BY <2>1, LoadGood
  <2> QED  BY <2>1, <2>2 DEF PortsInv
<1>16. CASE Restart
  BY <1>16, NewDeviceGood DEF Restart, PortsInv
<1>17. CASE Next
  <2>1. ASSUME NEW k \in DOMAIN dev.mStreams,
               \/ \E data \in Writes : HostSendAsync(k, data)
               \/ HostUnplug(k)
               \/ \E b \in Loadable : HostSwitchPlug(k, b)
        PROVE  PortsInv'
    BY <2>1, <1>4, <1>5, <1>6
  <2>2. ASSUME NEW k \in GuestPorts \X HostPorts, NEW c \in Credit,
               \/ GuestRequest(k, c, FALSE, FALSE, Quiet)
               \/ \E b \in Loadable, r \in Reactions : GuestRequest(k, c, TRUE, b, r)
        PROVE  PortsInv'
    BY <2>2, <1>7, QuietReaction
  <2>3. ASSUME NEW k \in GuestPorts \X HostPorts, NEW c \in Credit,
               \/ \E r \in Reactions : GuestControl("RESPONSE", k, c, r)
               \/ \E op \in ControlOps : GuestControl(op, k, c, Quiet)
        PROVE  PortsInv'
    BY <2>3, <1>8, QuietReaction
  <2>4. ASSUME NEW k \in GuestPorts \X HostPorts, NEW c \in Credit,
               NEW len \in 0 .. MaxRw, NEW taken \in 0 .. len, NEW reply,
               GuestRw(k, c, len, taken, reply)
        PROVE  PortsInv'
    <3>1. len \in Nat /\ taken \in Nat
      BY BoundsAssumption
    <3> QED  BY <2>4, <3>1, <1>9
  <2> QED  BY <1>17, <1>2, <1>3, <2>1, <2>2, <2>3, <2>4, <1>10, <1>11, <1>12, <1>13,
              <1>14, <1>15, <1>16 DEF Next
<1> QED  BY <1>1, <1>17

\* No assert() of connect() or of the allocator fails before a reset
\* (vsock.cpp:76 and 214).
THEOREM AssertsHoldTheorem == Spec => []AssertsHoldUntilReset
<1>1. PortsInv => AssertsHoldUntilReset
  BY DEF PortsInv, AssertsHoldUntilReset, Good
<1> QED  BY <1>1, PortsInit, PortsNext, PTL DEF Spec

\* Before a reset no two streams share a dynamic host port, and the port of a
\* live stream is in use in the allocator.
THEOREM PortsUniqueTheorem == Spec => []PortsUnique
<1>1. PortsInv => PortsUnique
  BY DEF PortsInv, PortsUnique, Good, Ports, DynamicIds
<1> QED  BY <1>1, PortsInit, PortsNext, PTL DEF Spec

\* Until a reset or a load, the ports in use are exactly those of the streams:
\* every way a stream can end gives its port back.
THEOREM NoPortLeaksTheorem == Spec => []NoPortLeaks
<1>1. PortsInv => NoPortLeaks
  <2> SUFFICES ASSUME PortsInv, past = {}
               PROVE  InUse(dev.mSrcPortAllocator) = DynamicIds(DOMAIN dev.mStreams)
    BY DEF NoPortLeaks
  <2> DEFINE a == dev.mSrcPortAllocator
             K == DOMAIN dev.mStreams
  <2>1. Ports(a, K) /\ Exact(a, K)
    BY DEF PortsInv, Good
  <2>2. InUse(a) \subseteq Nat /\ kDynamicPortsStart \in Nat /\ \A k \in K : k[2] \in Nat
    BY <2>1, PortsAssumption DEF Ports, WellFormed, InUse, Key
  <2>3. DynamicIds(K) \subseteq InUse(a)
    BY <2>1 DEF Ports, DynamicIds
  <2>4. ASSUME NEW id \in InUse(a) PROVE id \in DynamicIds(K)
    <3>1. PICK k \in K : k[2] = id + kDynamicPortsStart
      BY <2>1 DEF Exact
    <3>2. k[2] >= kDynamicPortsStart /\ k[2] - kDynamicPortsStart = id
      BY <2>2, <3>1
    <3> QED  BY <3>2 DEF DynamicIds
  <2> QED  BY <2>3, <2>4
<1> QED  BY <1>1, PortsInit, PortsNext, PTL DEF Spec
=============================================================================
