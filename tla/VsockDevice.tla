---------------------------- MODULE VsockDevice ----------------------------
(***************************************************************************)
(* The vsock device with an arbitrary guest: any header, at any time, is   *)
(* all that the device may rely on.  Plugs accept or refuse what they are  *)
(* given and may send or hang up from within onConnect.                    *)
(*                                                                         *)
(* Every action holds mStateMutex from its beginning to its end.  Virtio   *)
(* handlers, snapshots and the QEMU looper on which the host connects and  *)
(* unplugs also hold QEMU's global lock, so they cannot run between two    *)
(* packets of one virtio_vsock_handle_guest_to_host call (`draining');     *)
(* sendAsync and listen, which other threads call, can.                    *)
(***************************************************************************)
EXTENDS VsockCore

CONSTANTS
  Writes,      \* what a plug passes to sendAsync: byte sequences
  BufAllocs,   \* buf_alloc values of the guest's headers
  FwdCnts,     \* fwd_cnt values of the guest's headers
  Loadable,    \* answers of plugs to supportsLoadingFromSnapshot
  MaxSaves,    \* bound: snapshots that wait to be loaded, each of them once
  MaxRw,       \* bound: payload bytes of a packet from the guest
  MaxStreams,  \* bound: streams at a time
  MaxId,       \* bound: ids the allocator hands out
  MaxOrphans,  \* bound: orphan packets before a step that adds another
  MaxBuffered  \* bound: bytes in a stream's hostToGuestBuf

ASSUME InputsAssumption ==
  /\ Writes \subseteq Seq(Byte)
  /\ BufAllocs \subseteq Counter
  /\ FwdCnts \subseteq Counter
  /\ Loadable \subseteq BOOLEAN

ASSUME BoundsAssumption ==
  {MaxSaves, MaxRw, MaxStreams, MaxId, MaxOrphans, MaxBuffered} \subseteq Nat

VARIABLES
  dev,         \* the device
  draining,    \* virtio_vsock_handle_guest_to_host is between two packets
  snapshots,   \* the saved images, each with its history
  past         \* history: "reset" once NEEDS_RESET met a stream, "load" after a load

vars == <<dev, draining, snapshots, past>>

Running == ~dev.aborted

\* The device at the beginning of a step: nothing sent yet.
Dev == [dev EXCEPT !.sent = <<>>]

Credit == [bufAlloc : BufAllocs, fwdCnt : FwdCnts]

HostPorts == ListenPorts \cup {kDynamicPortsStart + i : i \in 1 .. MaxId}

HasRoomFor(k, data) ==
  Len(dev.mStreams[k].hostToGuestBuf) + Len(data) <= MaxBuffered

Init ==
  /\ dev = NewDevice
  /\ draining = FALSE
  /\ snapshots = {}
  /\ past = {}

-----------------------------------------------------------------------------
(* The host *)

HostConnect(guestPort, canLoad) ==
  /\ Running /\ ~draining
  /\ Cardinality(DOMAIN dev.mStreams) < MaxStreams
  /\ GetId(dev.mSrcPortAllocator) <= MaxId
  /\ dev' = connect(Dev, guestPort, canLoad)
  /\ UNCHANGED <<draining, snapshots, past>>

HostListen(port) ==
  /\ Running
  /\ dev' = [Dev EXCEPT !.mHostPortListeners = Dev.mHostPortListeners \cup {port}]
  /\ UNCHANGED <<draining, snapshots, past>>

HostSendAsync(k, data) ==
  /\ Running
  /\ HasStream(dev, k) /\ dev.mStreams[k].holdsSocket
  /\ HasRoomFor(k, data)
  /\ dev' = sendAsyncImpl(Dev, k, data)
  /\ UNCHANGED <<draining, snapshots, past>>

HostUnplug(k) ==
  /\ Running /\ ~draining /\ Len(dev.mOrphanPackets) < MaxOrphans
  /\ HasStream(dev, k) /\ dev.mStreams[k].holdsSocket
  /\ dev' = unplugFromDevice(Dev, k)
  /\ UNCHANGED <<draining, snapshots, past>>

\* A plug hands its socket to a plug of another protocol.
HostSwitchPlug(k, canLoad) ==
  /\ Running
  /\ HasStream(dev, k) /\ dev.mStreams[k].holdsSocket
  /\ dev' = WithStream(Dev, k, [dev.mStreams[k] EXCEPT !.loadable = canLoad])
  /\ UNCHANGED <<draining, snapshots, past>>

-----------------------------------------------------------------------------
(* The guest *)

\* A plug without its socket cannot send or hang up.
CanReact(k) == HasStream(dev, k) => dev.mStreams[k].holdsSocket

Reactions == {Quiet, HangUp} \cup {SendBack(data) : data \in Writes}

GuestRequest(k, c, accepts, canLoad, r) ==
  /\ Running /\ Len(dev.mOrphanPackets) < MaxOrphans
  /\ HasStream(dev, k) \/ Cardinality(DOMAIN dev.mStreams) < MaxStreams
  /\ dev' = processPacketOpRequest(Dev, k, c, accepts, canLoad, r)
  /\ draining' = TRUE
  /\ UNCHANGED <<snapshots, past>>

GuestControl(op, k, c, r) ==
  /\ Running /\ Len(dev.mOrphanPackets) < MaxOrphans
  /\ HasStream(dev, k) => HasRoomFor(k, r.data)
  /\ r = Quiet \/ CanReact(k)
  /\ dev' = onPacketReceiveControl(Dev, k, c, op, r)
  /\ draining' = TRUE
  /\ UNCHANGED <<snapshots, past>>

GuestRw(k, c, len, taken, reply) ==
  /\ Running /\ Len(dev.mOrphanPackets) < MaxOrphans
  /\ HasStream(dev, k) => HasRoomFor(k, reply)
  /\ reply = <<>> \/ CanReact(k)
  /\ dev' = onPacketReceiveRw(Dev, k, c, len, taken, reply)
  /\ draining' = TRUE
  /\ UNCHANGED <<snapshots, past>>

\* The end of virtio_vsock_handle_guest_to_host.
FinishDrain ==
  /\ Running /\ draining
  /\ dev' = sendPacketsLocked(Dev)
  /\ draining' = FALSE
  /\ UNCHANGED <<snapshots, past>>

GuestPostsBuffer ==
  /\ Running /\ dev.vqFree < QueueSize
  /\ dev' = [Dev EXCEPT !.vqFree = Dev.vqFree + 1]
  /\ UNCHANGED <<draining, snapshots, past>>

\* virtio_vsock_handle_host_to_guest
GuestKicks ==
  /\ Running /\ ~draining
  /\ dev' = sendPacketsLocked(Dev)
  /\ UNCHANGED <<draining, snapshots, past>>

-----------------------------------------------------------------------------
(* QEMU *)

\* setStatus(0), which a rebooting guest writes: QEMU resets the queues, the
\* device does nothing.
GuestReboots ==
  /\ Running /\ ~draining
  /\ dev' = [Dev EXCEPT !.vqFree = 0]
  /\ UNCHANGED <<draining, snapshots, past>>

NeedsReset ==
  /\ Running /\ ~draining
  /\ dev' = setStatusNeedsReset(Dev)
  /\ past' = IF DOMAIN dev.mStreams = {} THEN past ELSE past \cup {"reset"}
  /\ UNCHANGED <<draining, snapshots>>

Save ==
  /\ Running /\ ~draining
  /\ Cardinality(snapshots) < MaxSaves /\ Len(dev.mOrphanPackets) <= MaxOrphans
  /\ dev' = Dev
  /\ snapshots' = snapshots \cup {[image |-> saveToSnapshot(dev), past |-> past]}
  /\ UNCHANGED <<draining, past>>

\* QEMU treats only negative results as errors, so the guest may run on after
\* loadFails.  Loading while plugs are connected destroys them inside mStreams.clear(); a
\* snapshot is loaded by a process that has no connections yet.
Load(saved, plugLoads) ==
  /\ Running /\ ~draining
  /\ DOMAIN dev.mStreams = {}
  /\ dev' = loadFromSnapshot(Dev, saved.image, plugLoads)
  /\ past' = saved.past \cup {"load"}
  /\ snapshots' = snapshots \ {saved}
  /\ UNCHANGED draining

\* The emulator exits or dies, and starts again.
Restart ==
  /\ dev' = NewDevice
  /\ draining' = FALSE
  /\ past' = {}
  /\ UNCHANGED snapshots

ControlOps == {"RST", "SHUTDOWN", "CREDIT_UPDATE", "CREDIT_REQUEST", "INVALID"}

Next ==
  \/ \E g \in GuestPorts, b \in Loadable : HostConnect(g, b)
  \/ \E p \in ListenPorts : HostListen(p)
  \/ \E k \in DOMAIN dev.mStreams :
       \/ \E data \in Writes : HostSendAsync(k, data)
       \/ HostUnplug(k)
       \/ \E b \in Loadable : HostSwitchPlug(k, b)
  \/ \E k \in GuestPorts \X HostPorts, c \in Credit :
       \/ GuestRequest(k, c, FALSE, FALSE, Quiet)
       \/ \E b \in Loadable, r \in Reactions : GuestRequest(k, c, TRUE, b, r)
       \/ \E r \in Reactions : GuestControl("RESPONSE", k, c, r)
       \/ \E op \in ControlOps : GuestControl(op, k, c, Quiet)
       \/ \E len \in 0 .. MaxRw : \E taken \in 0 .. len :
            \E reply \in Writes \cup {<<>>} : GuestRw(k, c, len, taken, reply)
  \/ FinishDrain
  \/ GuestPostsBuffer
  \/ GuestKicks
  \/ GuestReboots
  \/ NeedsReset
  \/ Save
  \/ \E saved \in snapshots, b \in BOOLEAN : Load(saved, b)
  \/ Restart

Spec == Init /\ [][Next]_vars

-----------------------------------------------------------------------------
StreamsType(f) == DOMAIN f \subseteq Key /\ f \in [DOMAIN f -> Stream]

ImageType(image) ==
  /\ WellFormed(image.mSrcPortAllocator)
  /\ image.mOrphanPackets \in Seq(Packet)
  /\ StreamsType(image.mStreams)
  /\ image.vqFree \in 0 .. QueueSize

\* Every field keeps its type; the counters keep their width and the queue
\* its size.
TypeOK ==
  /\ ImageType(dev)
  /\ dev.mHostPortListeners \subseteq ListenPorts
  /\ dev.aborted \in BOOLEAN
  /\ draining \in BOOLEAN
  /\ past \subseteq {"reset", "load"}
  /\ \A saved \in snapshots : ImageType(saved.image) /\ saved.past \subseteq {"reset", "load"}

\* The allocator ids behind the host ports of a set of streams.
DynamicIds(K) == {k[2] - kDynamicPortsStart : k \in {j \in K : j[2] >= kDynamicPortsStart}}

\* No assert() of the device or of its allocator fails (vsock.cpp:76, 214)
\* until a NEEDS_RESET has met live streams.
AssertsHoldUntilReset == "reset" \notin past => ~dev.aborted

\* Two streams never share a dynamic host port, and a live stream's port is
\* never free in the allocator: the next connect() cannot be given it.
PortsUnique ==
  "reset" \notin past =>
    /\ DynamicIds(DOMAIN dev.mStreams) \subseteq InUse(dev.mSrcPortAllocator)
    /\ \A j, k \in DOMAIN dev.mStreams :
         j[2] >= kDynamicPortsStart /\ j[2] = k[2] => j = k

\* No path that ends a stream forgets to give its port back: as long as no
\* snapshot was loaded, the ports in use are those of the live streams.
NoPortLeaks ==
  past = {} => InUse(dev.mSrcPortAllocator) = DynamicIds(DOMAIN dev.mStreams)

Farewells(packets) == SelectSeq(packets, LAMBDA p : p.op \in {"RST", "SHUTDOWN"})

\* The steps after which the guest is not owed anything any more.
StartsOver ==
  NeedsReset \/ Restart \/ \E saved \in snapshots, b \in BOOLEAN : Load(saved, b)

\* An RST or SHUTDOWN owed to the guest is never lost nor overtaken by a
\* later one, whatever space the queue has.
OrphansInOrder ==
  [][\/ IsPrefix(dev.mOrphanPackets, Farewells(dev'.sent) \o dev'.mOrphanPackets)
     \/ StartsOver]_vars

\* A stream that ends is announced to the guest exactly once, unless the
\* guest itself ended it with RST.
FarewellsTo(k, packets) == Len(SelectSeq(Farewells(packets), LAMBDA p : p.src = k[2] /\ p.dst = k[1]))

EndIsAnnounced ==
  [][\A k \in DOMAIN dev.mStreams \ DOMAIN dev'.mStreams :
       \/ StartsOver
       \/ \E c \in Credit : GuestControl("RST", k, c, Quiet)
       \/ FarewellsTo(k, dev'.sent \o dev'.mOrphanPackets) = FarewellsTo(k, dev.mOrphanPackets) + 1]_vars

\* A load that returns 0 leaves no guest socket behind: the guest is told RST
\* for every stream that is not restored, after the packets it was owed before.
LoadAccountsForStreams ==
  [][\A saved \in snapshots, b \in BOOLEAN :
       Load(saved, b) /\ ~loadFails(saved.image) =>
         LET image == saved.image
         IN  \A k \in DOMAIN image.mStreams \ DOMAIN dev'.mStreams :
               FarewellsTo(k, dev'.sent \o dev'.mOrphanPackets)
                 = FarewellsTo(k, image.mOrphanPackets) + 1]_vars

-----------------------------------------------------------------------------
(* What comments and assertions of the code say, and the code does not do *)

\* assert(inserted) (vsock.cpp:214) and assert(id < mLastId) (vsock.cpp:76)
\* always hold.
AssertsHold == ~dev.aborted

\* mStreams is part of what is snapshotted (vsock.cpp:767): when the plug
\* loaders work, every stream whose plug supports loading is there after a load.
StreamsAreRestored ==
  [][\A saved \in snapshots :
       Load(saved, TRUE) => LoadableKeys(saved.image) \subseteq DOMAIN dev'.mStreams]_vars
=============================================================================
