----------------------------- MODULE VsockLink -----------------------------
(***************************************************************************)
(* The vsock device and a guest that follows the protocol, joined by the   *)
(* two virtqueues.  The guest (the virtio-vsock driver and the sockets of  *)
(* its processes) is not part of the repository: it is modelled from what  *)
(* the device expects of it and answers to it.                             *)
(*                                                                         *)
(* Plugs and guest sockets number the bytes they write, <<id, 1>>,         *)
(* <<id, 2>>, ..., where id tells connections apart that use the same      *)
(* ports one after the other.                                              *)
(***************************************************************************)
EXTENDS VsockCore

CONSTANTS
  BufAlloc,        \* size of the receive buffer of a guest socket
  GuestListens,    \* guest ports on which a guest process may accept
  HostConnects,    \* guest ports to which the host connects
  Hangups,         \* BOOLEAN: connections may be closed
  Reboots,         \* BOOLEAN: the guest may reboot
  EarlySend,       \* BOOLEAN: plugs also send before onConnect
  MaxStreams,      \* bound: streams the host has open at a time
  MaxOpened,       \* bound: connections opened, counted at both ends
  MaxWritten,      \* bound: bytes written by a plug
  MaxReplied,      \* bound: bytes written by a guest socket
  MaxTx            \* bound: packets that wait in guest_to_host_vq

ASSUME LinkAssumption ==
  /\ BufAlloc \in 1 .. (CounterModulus - 1)
  /\ GuestListens \subseteq GuestPorts
  /\ HostConnects \subseteq GuestPorts
  /\ {Hangups, Reboots, EarlySend} \subseteq BOOLEAN
  /\ {MaxStreams, MaxOpened, MaxWritten, MaxReplied, MaxTx} \subseteq Nat

VARIABLES
  dev,       \* the device
  draining,  \* virtio_vsock_handle_guest_to_host is between two packets
  tx,        \* guest_to_host_vq
  rx,        \* host_to_guest_vq: the buffers the device has filled
  plugs,     \* the plug of each stream: [id, wrote, heard]
  socks,     \* the guest's sockets
  opened,    \* how many plugs and sockets there have been
  reused     \* history: connect() chose ports that were not Clean

vars == <<dev, draining, tx, rx, plugs, socks, opened, reused>>

NewPlug(id) == [id |-> id, wrote |-> 0, heard |-> <<>>]

\* `peer' is the id of the plug whose REQUEST or RESPONSE the socket has seen;
\* `got' are the bytes that reached it, `read' how many a process took out.
NewSock(id, state, peer) ==
  [id |-> id, state |-> state, peer |-> peer, got |-> <<>>, read |-> 0, wrote |-> 0]

Init ==
  /\ dev = [NewDevice EXCEPT !.mHostPortListeners = ListenPorts, !.vqFree = QueueSize]
  /\ draining = FALSE
  /\ tx = <<>> /\ rx = <<>>
  /\ plugs = [k \in {} |-> NewPlug(0)]
  /\ socks = [k \in {} |-> NewSock(0, "connecting", 0)]
  /\ opened = 0
  /\ reused = FALSE

\* Nothing is left of an earlier connection between the ports of k, in the
\* guest and the queues ...
GuestClean(k) ==
  /\ k \notin DOMAIN socks
  /\ \A i \in DOMAIN tx : tx[i].key # k
  /\ \A i \in DOMAIN rx : <<rx[i].packet.dst, rx[i].packet.src>> # k

\* ... and in the device.
Clean(k) ==
  /\ GuestClean(k)
  /\ k \notin DOMAIN dev.mStreams
  /\ \A i \in DOMAIN dev.mOrphanPackets :
       <<dev.mOrphanPackets[i].dst, dev.mOrphanPackets[i].src>> # k

-----------------------------------------------------------------------------
(* The host *)

\* The bytes an end writes next, n of them.
NextBytes(end, n) == [i \in 1 .. n |-> <<end.id, end.wrote + i>>]

Wrote(end, n) == [end EXCEPT !.wrote = end.wrote + n]

\* The plugs after the device went to d; a new stream has a new plug.
PlugsOf(d) ==
  [k \in DOMAIN d.mStreams |-> IF k \in DOMAIN plugs THEN plugs[k] ELSE NewPlug(opened + 1)]

\* The device is d and the packets it sent are in the queue, each with the id
\* of the plug it was sent for.
DeviceBecomes(d, newPlugs) ==
  LET tagged(p) == [packet |-> p,
                    conn |-> IF <<p.dst, p.src>> \in DOMAIN newPlugs
                             THEN newPlugs[<<p.dst, p.src>>].id ELSE 0]
  IN  /\ dev' = [d EXCEPT !.sent = <<>>]
      /\ rx' = rx \o [i \in DOMAIN d.sent |-> tagged(d.sent[i])]
      /\ plugs' = newPlugs

HostConnect(guestPort) ==
  /\ ~draining /\ opened < MaxOpened /\ Cardinality(DOMAIN plugs) < MaxStreams
  /\ DeviceBecomes(connect(dev, guestPort, FALSE), PlugsOf(connect(dev, guestPort, FALSE)))
  /\ opened' = opened + 1
  /\ reused' = (reused \/ ~Clean(<<guestPort, NextHostPort(dev)>>))
  /\ UNCHANGED <<draining, tx, socks>>

HostSend(k, n) ==
  /\ plugs[k].wrote + n <= MaxWritten
  /\ dev.mStreams[k].isConnected \/ EarlySend
  /\ DeviceBecomes(sendAsyncImpl(dev, k, NextBytes(plugs[k], n)),
                   [plugs EXCEPT ![k] = Wrote(plugs[k], n)])
  /\ UNCHANGED <<draining, tx, socks, opened, reused>>

HostUnplug(k) ==
  /\ Hangups /\ ~draining
  /\ DeviceBecomes(unplugFromDevice(dev, k), PlugsOf(unplugFromDevice(dev, k)))
  /\ UNCHANGED <<draining, tx, socks, opened, reused>>

-----------------------------------------------------------------------------
(* virtio_vsock_handle_guest_to_host: packet after packet, then a send.    *)
(* `n' bytes are sent from within onConnect.                               *)

Received(op) == tx # <<>> /\ Head(tx).op = op /\ tx' = Tail(tx) /\ draining' = TRUE

Reaction(plug, n) == IF n = 0 THEN Quiet ELSE SendBack(NextBytes(plug, n))

ReceiveRequest(n) ==
  LET k == Head(tx).key
      plug == NewPlug(opened + 1)
      d == processPacketOpRequest(dev, k, Head(tx).credit, TRUE, FALSE, Reaction(plug, n))
  IN  /\ Received("REQUEST")
      /\ IF HasStream(dev, k) \/ ~HasStream(d, k)
         THEN n = 0 /\ DeviceBecomes(d, plugs) /\ UNCHANGED opened
         ELSE /\ DeviceBecomes(d, [PlugsOf(d) EXCEPT ![k] = Wrote(plug, n)])
              /\ opened' = opened + 1
      /\ UNCHANGED <<socks, reused>>

ReceiveResponse(n) ==
  LET k == Head(tx).key
      d(r) == onPacketReceiveControl(dev, k, Head(tx).credit, "RESPONSE", r)
  IN  /\ Received("RESPONSE")
      /\ IF HasStream(dev, k)
         THEN /\ plugs[k].wrote + n <= MaxWritten
              /\ DeviceBecomes(d(Reaction(plugs[k], n)), [plugs EXCEPT ![k] = Wrote(plugs[k], n)])
         ELSE n = 0 /\ DeviceBecomes(d(Quiet), plugs)
      /\ UNCHANGED <<socks, opened, reused>>

ReceiveControl(op) ==
  LET d == onPacketReceiveControl(dev, Head(tx).key, Head(tx).credit, op, Quiet)
  IN  /\ Received(op)
      /\ DeviceBecomes(d, PlugsOf(d))
      /\ UNCHANGED <<socks, opened, reused>>

\* accepts: what onReceive returns.
ReceiveRw(accepts) ==
  LET k == Head(tx).key
      data == Head(tx).data
      d == onPacketReceiveRw(dev, k, Head(tx).credit, Len(data), IF accepts THEN Len(data) ELSE 0, <<>>)
      heard(p) == [p EXCEPT ![k].heard = p[k].heard \o data]
  IN  /\ Received("RW")
      /\ DeviceBecomes(d, IF HasStream(d, k) THEN heard(PlugsOf(d)) ELSE PlugsOf(d))
      /\ UNCHANGED <<socks, opened, reused>>

\* The loop ends when guest_to_host_vq is empty.
FinishDrain ==
  /\ draining /\ tx = <<>>
  /\ DeviceBecomes(sendPacketsLocked(dev), plugs)
  /\ draining' = FALSE
  /\ UNCHANGED <<tx, socks, opened, reused>>

\* virtio_vsock_handle_host_to_guest
HandleHostToGuest ==
  /\ ~draining
  /\ DeviceBecomes(sendPacketsLocked(dev), plugs)
  /\ UNCHANGED <<draining, tx, socks, opened, reused>>

-----------------------------------------------------------------------------
(* The guest *)

HasSock(k) == k \in DOMAIN socks

WithSock(k, s) == [j \in DOMAIN socks \cup {k} |-> IF j = k THEN s ELSE socks[j]]

WithoutSock(k) == [j \in DOMAIN socks \ {k} |-> socks[j]]

\* A packet for the host; every header carries the socket's credit.
GuestPacket(op, k, read, data, peer) ==
  [op |-> op, key |-> k, data |-> data, peer |-> peer,
   credit |-> [bufAlloc |-> BufAlloc, fwdCnt |-> read % CounterModulus]]

Says(op, k, s, data) == Append(tx, GuestPacket(op, k, s.read, data, s.peer))

CanSay == Len(tx) < MaxTx

\* The driver does not use a port again before the connection that used it is
\* over; after a reboot it does not know which ports those are.
GuestConnect(k) ==
  /\ GuestClean(k) /\ (Clean(k) \/ Reboots)
  /\ CanSay /\ opened < MaxOpened
  /\ LET s == NewSock(opened + 1, "connecting", 0)
     IN  socks' = WithSock(k, s) /\ tx' = Says("REQUEST", k, s, <<>>)
  /\ opened' = opened + 1
  /\ UNCHANGED <<dev, draining, rx, plugs, reused>>

GuestWrite(k) ==
  /\ socks[k].state = "established" /\ CanSay /\ socks[k].wrote < MaxReplied
  /\ tx' = Says("RW", k, socks[k], NextBytes(socks[k], 1))
  /\ socks' = WithSock(k, Wrote(socks[k], 1))
  /\ UNCHANGED <<dev, draining, rx, plugs, opened, reused>>

\* A process takes a byte out; the driver may report it or wait to be asked.
GuestRead(k, tells) ==
  /\ socks[k].read < Len(socks[k].got)
  /\ LET s == [socks[k] EXCEPT !.read = socks[k].read + 1]
     IN  /\ socks' = WithSock(k, s)
         /\ IF tells THEN CanSay /\ tx' = Says("CREDIT_UPDATE", k, s, <<>>) ELSE UNCHANGED tx
  /\ UNCHANGED <<dev, draining, rx, plugs, opened, reused>>

\* close(): SHUTDOWN, then wait for RST; after a while send RST and forget.
GuestClose(k) ==
  /\ Hangups /\ CanSay
  /\ \/ /\ socks[k].state = "established"
        /\ tx' = Says("SHUTDOWN", k, socks[k], <<>>)
        /\ socks' = WithSock(k, [socks[k] EXCEPT !.state = "closing"])
     \/ /\ socks[k].state = "closing"
        /\ tx' = Says("RST", k, socks[k], <<>>)
        /\ socks' = WithoutSock(k)
  /\ UNCHANGED <<dev, draining, rx, plugs, opened, reused>>

\* The driver handles the next packet and posts the buffer again; the kick is
\* HandleHostToGuest.  Its answers go to guest_to_host_vq; it
\* stops receiving while there is no room for them.
Forget(k, s) == tx' = Says("RST", k, s, <<>>) /\ socks' = WithoutSock(k) /\ UNCHANGED opened

GuestReceive(listens) ==
  LET p    == Head(rx).packet
      k    == <<p.dst, p.src>>
      s    == IF HasSock(k) THEN socks[k] ELSE NewSock(opened + 1, "established", Head(rx).conn)
      stay == UNCHANGED <<tx, socks, opened>>
  IN  /\ rx # <<>> /\ CanSay
      /\ rx' = Tail(rx)
      /\ dev' = [dev EXCEPT !.vqFree = dev.vqFree + 1]
      /\ IF ~HasSock(k)
         THEN CASE p.op = "REQUEST" /\ listens ->
                     /\ p.dst \in GuestListens /\ opened < MaxOpened
                     /\ socks' = WithSock(k, s) /\ opened' = opened + 1
                     /\ tx' = Says("RESPONSE", k, s, <<>>)
                [] p.op = "RST" -> stay
                [] OTHER -> Forget(k, [s EXCEPT !.peer = IF p.op = "REQUEST" THEN s.peer ELSE 0])
         ELSE CASE p.op = "RST" ->
                     socks' = WithoutSock(k) /\ UNCHANGED <<tx, opened>>
                [] p.op # "RST" /\ s.state = "connecting" ->
                     IF p.op = "RESPONSE"
                     THEN /\ socks' = WithSock(k, [s EXCEPT !.state = "established", !.peer = Head(rx).conn])
                          /\ UNCHANGED <<tx, opened>>
                     ELSE Forget(k, s)
                [] p.op = "RW" /\ s.state = "established" ->
                     /\ socks' = WithSock(k, [s EXCEPT !.got = s.got \o p.data])
                     /\ UNCHANGED <<tx, opened>>
                [] p.op = "CREDIT_REQUEST" /\ s.state = "established" ->
                     tx' = Says("CREDIT_UPDATE", k, s, <<>>) /\ UNCHANGED <<socks, opened>>
                [] p.op = "SHUTDOWN" /\ s.state = "established" -> Forget(k, s)
                [] OTHER -> stay
      /\ UNCHANGED <<draining, plugs, reused>>

\* QEMU resets the queues and calls setStatus(0); the device keeps its streams.
GuestReboot ==
  /\ Reboots /\ ~draining
  /\ dev' = [dev EXCEPT !.vqFree = QueueSize]
  /\ tx' = <<>> /\ rx' = <<>>
  /\ socks' = [k \in {} |-> NewSock(0, "connecting", 0)]
  /\ UNCHANGED <<draining, plugs, opened, reused>>

-----------------------------------------------------------------------------
Replies == {"RST", "SHUTDOWN", "CREDIT_UPDATE"}

DeviceReceives ==
  \/ \E n \in 0 .. 1 : ReceiveRequest(n) \/ ReceiveResponse(n)
  \/ \E op \in Replies : ReceiveControl(op)
  \/ \E accepts \in BOOLEAN : (accepts \/ Hangups) /\ ReceiveRw(accepts)

GuestReads == \E k \in DOMAIN socks, tells \in BOOLEAN : GuestRead(k, tells)

GuestReceives == \E listens \in BOOLEAN : GuestReceive(listens)

Next ==
  \/ \E g \in HostConnects : HostConnect(g)
  \/ \E k \in DOMAIN plugs : HostUnplug(k) \/ \E n \in 1 .. 2 : HostSend(k, n)
  \/ DeviceReceives
  \/ FinishDrain
  \/ HandleHostToGuest
  \/ \E k \in GuestPorts \X ListenPorts : GuestConnect(k)
  \/ \E k \in DOMAIN socks : GuestWrite(k) \/ GuestClose(k)
  \/ GuestReads
  \/ GuestReceives
  \/ GuestReboot

Spec == Init /\ [][Next]_vars

\* Every key a stream or a socket can have.
Keys == GuestPorts \X (ListenPorts \cup {kDynamicPortsStart + i : i \in 1 .. MaxStreams})

(***************************************************************************)
(* QEMU's main loop serves both queues, the driver keeps the receive queue *)
(* filled and handles what is in it, and processes read their sockets.     *)
(* Nobody has to write, and the driver need not report what was read.      *)
(* The steps of DeviceReceives, FinishDrain and GuestReceives are named by *)
(* what they alone do to the queues: all of them are possible whenever     *)
(* their queue allows it.                                                  *)
(***************************************************************************)
TakesFromTx == tx # <<>> /\ tx' = Tail(tx)
EndsDrain == draining /\ tx = <<>> /\ draining' = FALSE
TakesFromRx == rx # <<>> /\ CanSay /\ rx' = Tail(rx)

Fairness ==
  /\ WF_tx(TakesFromTx)
  /\ WF_draining(EndsDrain)
  /\ WF_vars(HandleHostToGuest)
  /\ WF_rx(TakesFromRx)
  /\ \A k \in Keys : WF_vars(HasSock(k) /\ \E tells \in BOOLEAN : GuestRead(k, tells))

FairSpec == Spec /\ Fairness

-----------------------------------------------------------------------------
Numbered(id, n) == [i \in 1 .. n |-> <<id, i>>]

\* The data on its way to a guest socket.
InFlight(k) ==
  LET own == SelectSeq(rx, LAMBDA m : m.packet.op = "RW" /\ <<m.packet.dst, m.packet.src>> = k)
  IN  FlattenSeq([i \in DOMAIN own |-> own[i].packet.data])

\* The plug and the socket of k belong to the same connection.
Joined(k) ==
  /\ k \in DOMAIN plugs /\ HasSock(k)
  /\ socks[k].state = "established" /\ socks[k].peer = plugs[k].id

\* Credit: what a socket has not read and what is on its way to it fit its
\* buffer, also when the 32-bit counters wrap and when stale headers arrive.
CreditRespected ==
  \A k \in DOMAIN socks :
    ~reused /\ socks[k].state = "established" =>
      Len(socks[k].got) - socks[k].read + Len(InFlight(k)) <= BufAlloc

\* A socket receives the bytes of one plug, in order, without gaps and
\* repetitions, and a plug those of one socket: bytes never cross from one
\* connection into the next one that uses the same ports.  While a connection
\* lasts nothing is lost either: what its plug passed to sendAsync() is in the
\* socket, on its way or in hostToGuestBuf.
BytesIntact ==
  ~reused =>
    /\ \A k \in DOMAIN socks : socks[k].got = Numbered(socks[k].peer, Len(socks[k].got))
    /\ \A k \in DOMAIN plugs :
         \E id \in 0 .. opened : plugs[k].heard = Numbered(id, Len(plugs[k].heard))
    /\ \A k \in Keys :
         Joined(k) => socks[k].got \o InFlight(k) \o dev.mStreams[k].hostToGuestBuf
                        = Numbered(plugs[k].id, plugs[k].wrote)

\* The link implements ByteChannel: the bytes in hostToGuestBuf and those in
\* the queue are one pending sequence, and only the guest's reception moves it.
Channel == INSTANCE ByteChannel WITH
  Window <- BufAlloc,
  wires  <- [k \in Keys |->
               IF Joined(k)
               THEN [open |-> TRUE, pending |-> InFlight(k) \o dev.mStreams[k].hostToGuestBuf,
                     arrived |-> socks[k].got, read |-> socks[k].read]
               ELSE [open |-> FALSE, pending |-> <<>>, arrived |-> <<>>, read |-> 0]]

ImplementsChannel == Channel!Spec

\* A guest that does not reboot never asks for a stream that the device has.
NoDuplicateRequest ==
  [][~(Received("REQUEST") /\ HasStream(dev, Head(tx).key))]_vars

\* A plug is told onUnplug only because the other end of its own connection
\* ended it.
UnplugMeansHangUp ==
  [][\A op \in {"RST", "SHUTDOWN"} :
       ReceiveControl(op) /\ Head(tx).key \in DOMAIN plugs =>
         Head(tx).peer = plugs[Head(tx).key].id]_vars

\* A plug that stops writing has everything it wrote delivered to the socket,
\* however little credit and room in the queue there was, or the connection
\* ends.
Behind(k) ==
  /\ k \in DOMAIN plugs /\ plugs[k].wrote > 0
  /\ HasSock(k) => Len(socks[k].got) < plugs[k].wrote

Delivered == \A k \in Keys : Behind(k) ~> ~Behind(k)

\* A connection attempt of the host is answered.
Answered ==
  \A k \in Keys :
    (HasStream(dev, k) /\ ~dev.mStreams[k].isConnected)
      ~> (~HasStream(dev, k) \/ dev.mStreams[k].isConnected)
=============================================================================
