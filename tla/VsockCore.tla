----------------------------- MODULE VsockCore -----------------------------
(***************************************************************************)
(* GoldfishVirtioVsockDevice (emulator/plugin/vsock_goldfish/vsock.cpp)    *)
(* on top of the virtqueues of vsock_low_level.c.                          *)
(*                                                                         *)
(* A device is a record `d'; every method is an operator from devices to   *)
(* devices, so that a handler that calls back into the device (a plug that *)
(* sends from onConnect, say) is one operator applied to another.          *)
(* VsockDevice runs these methods against an arbitrary guest, VsockLink    *)
(* against one that follows the protocol.                                  *)
(***************************************************************************)
EXTENDS UniqueIdAllocator, Sequences, FiniteSets, SequencesExt

CONSTANTS
  GuestPorts,          \* ports of the guest
  ListenPorts,         \* host ports that the emulator's services listen on
  kDynamicPortsStart,  \* first host port of the range used by connect()
  Byte,                \* payload bytes
  CounterModulus,      \* the byte counters are uint32_t: 2^32 in the code
  ChunkSize,           \* payload bytes that fit one guest receive buffer
  QueueSize            \* VIRTIO_VSOCK_QUEUE_SIZE

ASSUME PortsAssumption ==
  /\ GuestPorts \subseteq Nat
  /\ kDynamicPortsStart \in Nat
  /\ ListenPorts \subseteq 0 .. (kDynamicPortsStart - 1)

ASSUME SizesAssumption ==
  /\ CounterModulus \in Nat \ {0}
  /\ ChunkSize \in Nat \ {0}
  /\ QueueSize \in Nat

Counter == 0 .. (CounterModulus - 1)

\* A stream is identified by its guest and its host port (VsockStreamKey).
Key == GuestPorts \X Nat

\* The operations a stream can ask sendPacketsLocked for, in sending order.
StreamOps == {"REQUEST", "RESPONSE", "CREDIT_UPDATE", "CREDIT_REQUEST"}
OpRank == [op \in StreamOps |-> CASE op = "REQUEST" -> 1
                                  [] op = "RESPONSE" -> 2
                                  [] op = "CREDIT_UPDATE" -> 3
                                  [] op = "CREDIT_REQUEST" -> 4]

\* Packets to the guest (virtio_vsock_hdr and payload).
Packet == [op : StreamOps \cup {"RST", "SHUTDOWN", "RW"}, src : Nat,
           dst : GuestPorts, fwdCnt : Counter, data : Seq(Byte)]

(***************************************************************************)
(* VsockStream.  `holdsSocket' is state of the plug: whether it still owns *)
(* the SocketPtr through which it sends and unplugs.  `loadable' is what   *)
(* the plug answers to supportsLoadingFromSnapshot.                        *)
(***************************************************************************)
Stream == [hostToGuestBuf : Seq(Byte), guestBufAlloc : Counter,
           guestFwdCnt : Counter, hostSentCnt : Counter, hostFwdCnt : Counter,
           sendOps : SUBSET StreamOps, isConnected : BOOLEAN,
           holdsSocket : BOOLEAN, loadable : BOOLEAN]

NewStream(canLoad) ==
  [hostToGuestBuf |-> <<>>, guestBufAlloc |-> 0, guestFwdCnt |-> 0,
   hostSentCnt |-> 0, hostFwdCnt |-> 0, sendOps |-> {}, isConnected |-> FALSE,
   holdsSocket |-> TRUE, loadable |-> canLoad]

(***************************************************************************)
(* The device.  vqFree counts the empty buffers in host_to_guest_vq, sent  *)
(* lists the packets the current step put into that queue, and aborted     *)
(* says that an assert() failed.                                           *)
(***************************************************************************)
NewDevice ==
  [mSrcPortAllocator |-> NewAllocator, mOrphanPackets |-> <<>>,
   mStreams |-> [k \in {} |-> NewStream(FALSE)], mHostPortListeners |-> {},
   vqFree |-> 0, sent |-> <<>>, aborted |-> FALSE]

-----------------------------------------------------------------------------
(* sendPacketsLocked *)

\* mStreams is ordered by (guestPort, hostPort).
Precedes(j, k) == j[1] < k[1] \/ (j[1] = k[1] /\ j[2] < k[2])

KeysInOrder(K) ==
  CHOOSE s \in [1 .. Cardinality(K) -> K] :
    \A m, n \in 1 .. Cardinality(K) : m < n => Precedes(s[m], s[n])

\* Mutant: what was sent is forgotten.
GuestAvailIgnoresSent(s) == s.guestBufAlloc

\* guestAvailSize: the bytes the guest has room for, in uint32_t arithmetic.
GuestAvail(s) == (s.guestBufAlloc - (s.hostSentCnt - s.guestFwdCnt)) % CounterModulus

\* Mutant: credit is never asked for.
OpsToSendNoCredit(s) == s.sendOps

\* The mask of operations to send: a stream without credit also asks for it.
OpsToSend(s) == s.sendOps \cup (IF GuestAvail(s) = 0 THEN {"CREDIT_REQUEST"} ELSE {})

\* The buffered bytes that the credit allows, and the packets they take.
BytesToSend(s) ==
  IF Len(s.hostToGuestBuf) < GuestAvail(s) THEN Len(s.hostToGuestBuf) ELSE GuestAvail(s)

PacketsToSend(s) ==
  Cardinality(OpsToSend(s)) + ((BytesToSend(s) + ChunkSize - 1) \div ChunkSize)

\* The packets that leave before the first one of stream k: the orphans and
\* those of the streams in front of it.
PacketSlots(d, K) == UNION {{j} \X (1 .. PacketsToSend(d.mStreams[j])) : j \in K}

Ahead(d, k) ==
  Len(d.mOrphanPackets)
    + Cardinality(PacketSlots(d, {j \in DOMAIN d.mStreams : Precedes(j, k)}))

\* Stream k is reached when nothing in front of it found the queue full, and
\* then this many of its packets fit.
Reached(d, k) == Ahead(d, k) <= d.vqFree

SentOf(d, k) ==
  IF ~Reached(d, k) THEN 0
  ELSE IF d.vqFree - Ahead(d, k) < PacketsToSend(d.mStreams[k])
       THEN d.vqFree - Ahead(d, k)
       ELSE PacketsToSend(d.mStreams[k])

\* The operations that are left when only the first n packets were sent.
UnsentOps(s, n) ==
  {op \in OpsToSend(s) :
     Cardinality({o \in OpsToSend(s) : OpRank[o] < OpRank[op]}) >= n}

\* The bytes carried by the first n packets.
BytesIn(s, n) ==
  LET chunks == n - Cardinality(OpsToSend(s))
  IN  IF chunks <= 0 THEN 0
      ELSE IF chunks * ChunkSize < BytesToSend(s) THEN chunks * ChunkSize
      ELSE BytesToSend(s)

\* Mutants of the state after a send: the counter does not wrap; a partial send is
\* not consumed; a partial send is consumed as if it were complete.
AfterSendUnwrapped(d, k) ==
  LET s == d.mStreams[k]
      n == SentOf(d, k)
  IN  [s EXCEPT !.sendOps = IF Reached(d, k) THEN UnsentOps(s, n) ELSE s.sendOps,
                !.hostSentCnt = s.hostSentCnt + BytesIn(s, n),
                !.hostToGuestBuf = SubSeq(s.hostToGuestBuf, BytesIn(s, n) + 1, Len(s.hostToGuestBuf))]

AfterSendConsuming(d, k, m) ==
  LET s == d.mStreams[k]
      n == SentOf(d, k)
  IN  [s EXCEPT !.sendOps = IF Reached(d, k) THEN UnsentOps(s, n) ELSE s.sendOps,
                !.hostSentCnt = (s.hostSentCnt + m) % CounterModulus,
                !.hostToGuestBuf = SubSeq(s.hostToGuestBuf, m + 1, Len(s.hostToGuestBuf))]

AfterSendNotConsumed(d, k) ==
  AfterSendConsuming(d, k, IF SentOf(d, k) < PacketsToSend(d.mStreams[k]) THEN 0
                           ELSE BytesToSend(d.mStreams[k]))

AfterSendOverconsumed(d, k) ==
  AfterSendConsuming(d, k, IF SentOf(d, k) = 0 THEN 0 ELSE BytesToSend(d.mStreams[k]))

AfterSend(d, k) ==
  LET s == d.mStreams[k]
      n == SentOf(d, k)
  IN  [s EXCEPT
         !.sendOps = IF Reached(d, k) THEN UnsentOps(s, n) ELSE s.sendOps,
         !.hostSentCnt = (s.hostSentCnt + BytesIn(s, n)) % CounterModulus,
         !.hostToGuestBuf = SubSeq(s.hostToGuestBuf, BytesIn(s, n) + 1, Len(s.hostToGuestBuf))]

\* preparePacketHeaderLocked; src_port is the host's, dst_port the guest's.
MakePacket(hostPort, guestPort, op, fwdCnt, data) ==
  [op |-> op, src |-> hostPort, dst |-> guestPort, fwdCnt |-> fwdCnt, data |-> data]

\* The first n packets of stream k: operations, then the data in chunks.
PacketsOf(s, k, n) ==
  LET ops == SetToSortSeq(OpsToSend(s), LAMBDA a, b : OpRank[a] < OpRank[b])
      data(i) == SubSeq(s.hostToGuestBuf, (i - 1) * ChunkSize + 1, BytesIn(s, i + Len(ops)))
  IN  [i \in 1 .. n |->
         IF i <= Len(ops)
         THEN MakePacket(k[2], k[1], ops[i], s.hostFwdCnt, <<>>)
         ELSE MakePacket(k[2], k[1], "RW", s.hostFwdCnt, data(i - Len(ops)))]

\* What one pass puts into the queue: orphan packets, then stream by stream.
Emitted(d) ==
  LET keys == KeysInOrder(DOMAIN d.mStreams)
  IN  SubSeq(d.mOrphanPackets, 1, IF Len(d.mOrphanPackets) < d.vqFree
                                  THEN Len(d.mOrphanPackets) ELSE d.vqFree)
      \o FlattenSeq([i \in DOMAIN keys |->
                       PacketsOf(d.mStreams[keys[i]], keys[i], SentOf(d, keys[i]))])

Waiting(d) == Len(d.mOrphanPackets) + Cardinality(PacketSlots(d, DOMAIN d.mStreams))

sendPacketsLocked(d) ==
  [d EXCEPT
     !.mOrphanPackets = SubSeq(d.mOrphanPackets, d.vqFree + 1, Len(d.mOrphanPackets)),
     !.mStreams = [k \in DOMAIN d.mStreams |-> AfterSend(d, k)],
     !.vqFree = IF Waiting(d) < d.vqFree THEN d.vqFree - Waiting(d) ELSE 0,
     !.sent = d.sent \o Emitted(d)]

-----------------------------------------------------------------------------
(* Operations of the host side: connect, listen, sendAsync, unplug *)

HasStream(d, k) == k \in DOMAIN d.mStreams

WithStream(d, k, s) ==
  [d EXCEPT !.mStreams = [j \in DOMAIN d.mStreams \cup {k} |->
                            IF j = k THEN s ELSE d.mStreams[j]]]

\* Mutant: push_front for push_back.
queueOrphanPacketInFront(d, hostPort, guestPort, op, fwdCnt) ==
  [d EXCEPT !.mOrphanPackets =
     <<MakePacket(hostPort, guestPort, op, fwdCnt, <<>>)>> \o d.mOrphanPackets]

queueOrphanPacketLocked(d, hostPort, guestPort, op, fwdCnt) ==
  [d EXCEPT !.mOrphanPackets =
     Append(d.mOrphanPackets, MakePacket(hostPort, guestPort, op, fwdCnt, <<>>))]

\* Mutant: the port is given back only on the path that tells the guest.
recycleOnlyWhenTelling(d, k, op) ==
  IF op = "INVALID" THEN d
  ELSE LET told == queueOrphanPacketLocked(d, k[2], k[1], op, d.mStreams[k].hostFwdCnt)
           id   == k[2] - kDynamicPortsStart
       IN  IF k[2] < kDynamicPortsStart THEN told
           ELSE [told EXCEPT !.mSrcPortAllocator = AfterPut(d.mSrcPortAllocator, id)]

\* recycleStreamLocked: the packet that tells the guest, if any, and the port.
recycleStreamLocked(d, k, op) ==
  LET told == IF op = "INVALID" THEN d
              ELSE queueOrphanPacketLocked(d, k[2], k[1], op, d.mStreams[k].hostFwdCnt)
      id   == k[2] - kDynamicPortsStart
  IN  IF k[2] < kDynamicPortsStart THEN told
      ELSE IF PutAsserts(d.mSrcPortAllocator, id)
      THEN [told EXCEPT !.mSrcPortAllocator = AfterPut(d.mSrcPortAllocator, id)]
      ELSE [told EXCEPT !.aborted = TRUE]

\* recycleStreamLocked followed by mStreams.erase, as every caller does.
RemoveStream(d, k, op) ==
  [recycleStreamLocked(d, k, op) EXCEPT
     !.mStreams = [j \in DOMAIN d.mStreams \ {k} |-> d.mStreams[j]]]

NextHostPort(d) == GetId(d.mSrcPortAllocator) + kDynamicPortsStart

\* connect(), with its assert(inserted).
connect(d, guestPort, canLoad) ==
  LET k == <<guestPort, NextHostPort(d)>>
      allocated == [d EXCEPT !.mSrcPortAllocator = AfterGet(d.mSrcPortAllocator)]
  IN  IF HasStream(d, k)
      THEN [allocated EXCEPT !.aborted = TRUE]
      ELSE sendPacketsLocked(
             WithStream(allocated, k, [NewStream(canLoad) EXCEPT !.sendOps = {"REQUEST"}]))

\* sendAsyncImpl: data for a stream that is not connected is dropped.
sendAsyncImpl(d, k, data) ==
  LET s == d.mStreams[k]
  IN  IF s.isConnected
      THEN sendPacketsLocked(
             WithStream(d, k, [s EXCEPT !.hostToGuestBuf = s.hostToGuestBuf \o data]))
      ELSE d

\* Mutant: the guest is not told that the host hung up.
unplugSilently(d, k) == sendPacketsLocked(RemoveStream(d, k, "INVALID"))

\* VsockStream::unplugImpl and unplugFromDevice.
unplugFromDevice(d, k) == sendPacketsLocked(RemoveStream(d, k, "SHUTDOWN"))

\* What a plug may do inside onConnect: nothing, send, or hang up.
Quiet == [kind |-> "quiet", data |-> <<>>]
HangUp == [kind |-> "unplug", data |-> <<>>]
SendBack(data) == [kind |-> "send", data |-> data]

PlugReaction(d, k, r) ==
  CASE r.kind = "quiet" -> d
    [] r.kind = "send" -> sendAsyncImpl(d, k, r.data)
    [] r.kind = "unplug" -> unplugFromDevice(d, k)

-----------------------------------------------------------------------------
(* Packets from the guest.  c = [bufAlloc, fwdCnt] are the header's credit *)
(* fields; k = <<src_port, dst_port>>.                                     *)

WithCredit(s, c) == [s EXCEPT !.guestBufAlloc = c.bufAlloc, !.guestFwdCnt = c.fwdCnt]

\* VIRTIO_VSOCK_OP_REQUEST; accepts says whether the listener returned a plug.
processPacketOpRequest(d, k, c, accepts, canLoad, r) ==
  IF k[2] \notin d.mHostPortListeners \/ (~HasStream(d, k) /\ ~accepts)
  THEN queueOrphanPacketLocked(d, k[2], k[1], "RST", 0)
  ELSE IF HasStream(d, k) THEN d
  ELSE PlugReaction(
         WithStream(d, k, [WithCredit(NewStream(canLoad), c) EXCEPT
                             !.isConnected = TRUE, !.sendOps = {"RESPONSE"}]),
         k, r)

\* Any other control operation, for a stream the device does not know ...
onUnknownStream(d, k, op) ==
  IF op = "RST" THEN d ELSE queueOrphanPacketLocked(d, k[2], k[1], "RST", 0)

\* ... and for one it does; every operation first updates the credit.
onKnownStream(d, k, c, op, r) ==
  LET s  == WithCredit(d.mStreams[k], c)
      d1 == WithStream(d, k, s)
  IN  CASE op = "RESPONSE" ->
             PlugReaction(WithStream(d, k, [s EXCEPT !.isConnected = TRUE]), k, r)
        [] op = "RST" -> RemoveStream(d1, k, "INVALID")
        [] op = "SHUTDOWN" -> RemoveStream(d1, k, "SHUTDOWN")
        [] op = "CREDIT_UPDATE" -> d1
        [] op = "CREDIT_REQUEST" ->
             WithStream(d, k, [s EXCEPT !.sendOps = s.sendOps \cup {"CREDIT_UPDATE"}])
        [] op = "INVALID" -> RemoveStream(d1, k, "RST")

\* Mutant: RESPONSE shares the case of CREDIT_UPDATE.
controlWithoutResponse(d, k, c, op, r) ==
  IF HasStream(d, k)
  THEN onKnownStream(d, k, c, IF op = "RESPONSE" THEN "CREDIT_UPDATE" ELSE op, r)
  ELSE onUnknownStream(d, k, op)

onPacketReceiveControl(d, k, c, op, r) ==
  IF HasStream(d, k) THEN onKnownStream(d, k, c, op, r) ELSE onUnknownStream(d, k, op)

\* onPacketReceiveRwStart, onPacketReceiveRw for each part of the payload and
\* onPacketReceiveRwEnd.  The plug takes the first `taken' of `len' bytes and
\* may answer with data of its own; len > taken means that it refused a part.
onPacketReceiveRw(d, k, c, len, taken, reply) ==
  LET s  == WithCredit(d.mStreams[k], c)
      d1 == WithStream(d, k, s)
      d2 == sendAsyncImpl(d1, k, reply)
      s2 == d2.mStreams[k]
      d3 == WithStream(d2, k,
              [s2 EXCEPT !.hostFwdCnt = (s2.hostFwdCnt + taken) % CounterModulus,
                         !.sendOps = s2.sendOps \cup {"CREDIT_UPDATE"}])
  IN  CASE ~HasStream(d, k) -> d
        [] HasStream(d, k) /\ len = 0 -> d1
        [] HasStream(d, k) /\ len > 0 /\ ~s.isConnected -> RemoveStream(d1, k, "SHUTDOWN")
        [] HasStream(d, k) /\ len > 0 /\ s.isConnected ->
             IF taken = len THEN d3
             ELSE RemoveStream(IF taken = 0 THEN d1 ELSE d3, k, "SHUTDOWN")

-----------------------------------------------------------------------------
(* Status and snapshots *)

\* setStatus with VIRTIO_CONFIG_S_NEEDS_RESET: every plug is told (and gives
\* its socket back) but the streams stay in mStreams.
setStatusNeedsReset(d) ==
  [d EXCEPT !.mStreams = [k \in DOMAIN d.mStreams |->
                            [d.mStreams[k] EXCEPT !.holdsSocket = FALSE]],
            !.mOrphanPackets = <<>>,
            !.mSrcPortAllocator = NewAllocator]

\* saveToSnapshot, with the queue that QEMU saves next to it.
saveToSnapshot(d) ==
  [mSrcPortAllocator |-> d.mSrcPortAllocator, mOrphanPackets |-> d.mOrphanPackets,
   mStreams |-> d.mStreams, vqFree |-> d.vqFree]

\* loadFromSnapshot reads the streams in order up to the first one whose plug
\* supports loading, and returns from there, with an error code, whether the
\* plug could be loaded or not.  The streams before it are reset.
LoadableKeys(image) == {k \in DOMAIN image.mStreams : image.mStreams[k].loadable}

\* Mutant: only connected streams are reset.
ReadFirstConnected(image) ==
  {k \in DOMAIN image.mStreams : /\ image.mStreams[k].isConnected
                                 /\ \A j \in LoadableKeys(image) : Precedes(k, j)}

ReadFirst(image) ==
  {k \in DOMAIN image.mStreams : \A j \in LoadableKeys(image) : Precedes(k, j)}

FirstLoadable(image) ==
  {k \in LoadableKeys(image) : \A j \in LoadableKeys(image) : k = j \/ Precedes(k, j)}

loadFails(image) == LoadableKeys(image) # {}

\* Mutant: the allocator's state is not restored.
loadWithoutAllocator(d, image, plugLoads) ==
  [d EXCEPT !.mOrphanPackets = image.mOrphanPackets,
            !.mStreams = [k \in IF plugLoads THEN FirstLoadable(image) ELSE {} |->
                            [image.mStreams[k] EXCEPT !.holdsSocket = TRUE]],
            !.vqFree = image.vqFree]

loadFromSnapshot(d, image, plugLoads) ==
  LET resets == KeysInOrder(ReadFirst(image))
      rst(k) == MakePacket(k[2], k[1], "RST", image.mStreams[k].hostFwdCnt, <<>>)
      kept   == IF plugLoads THEN FirstLoadable(image) ELSE {}
      d1     == [d EXCEPT
                   !.mSrcPortAllocator = image.mSrcPortAllocator,
                   !.mOrphanPackets = image.mOrphanPackets
                                        \o [i \in 1 .. Cardinality(ReadFirst(image)) |-> rst(resets[i])],
                   !.mStreams = [k \in kept |-> [image.mStreams[k] EXCEPT !.holdsSocket = TRUE]],
                   !.vqFree = image.vqFree]
  IN  IF loadFails(image) THEN d1 ELSE sendPacketsLocked(d1)
=============================================================================
