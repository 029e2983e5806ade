----------------------------- MODULE PortForward -----------------------------
(***************************************************************************)
(* A forwarded port: a ConnectionAwaiter connects to the guest port until  *)
(* it is answered, then a TCP server is started on the host, and each of   *)
(* its clients gets a HostToGuestConnection.  Everything on the host runs  *)
(* in QEMU's main loop, so a handler is one step.  The vsock device is     *)
(* reduced to its streams (see VsockCore), each call and packet to FIFO    *)
(* queues; credit and partial sends are left to VsockLink.  The guest and  *)
(* the TCP clients are external.                                           *)
(***************************************************************************)
EXTENDS Integers, Sequences, FiniteSets, FiniteSetsExt

CONSTANTS TcpClients,    \* each connects once
          Awaiter,       \* the ConnectionAwaiter, as the plug of a stream
          HostPorts,     \* dynamic host ports
          MaxInFlight,   \* bound on the packets on their way to the guest
          MaxEarly,      \* bound on the retries that come before the last answer
          MaxData        \* bound on the data of the clients and the guest

ASSUME PortForwardAssumption ==
    /\ Awaiter \notin TcpClients /\ HostPorts \subseteq Nat \ {0}
    /\ {MaxInFlight, MaxEarly, MaxData} \subseteq Nat

VARIABLES fwdStreams,     \* mStreams: per host port in use, its plug and isConnected
          toGuest, toHost,
          mSocket,        \* of the awaiter: its host port, or 0
          mIsConnected,
          servers,        \* calls of startServer()
          tcp,            \* per client: "new", "open", "closed"
          mGuestSocket,   \* per client: its host port, or 0
          mConnected,     \* per client
          mDisposing,     \* per client
          mPreConnectedBuffer,
          forwarded,      \* per client: bytes it has written
          guestListens,
          guestSockets,   \* per host port: for whom the guest's end is
          answered,       \* packets of data it has sent
          delivered,      \* per client: what the guest has received from it
          early,
          tainted,        \* history: ports last given to a client before they were clean
          soiled          \* history: clients that were given such a port

awaiterVars == <<mSocket, mIsConnected, servers>>
clientVars == <<tcp, mGuestSocket, mConnected, mDisposing, mPreConnectedBuffer, forwarded>>
guestVars == <<guestListens, guestSockets, answered, delivered>>
takenVars == <<tainted, soiled>>
pfVars == <<fwdStreams, toGuest, toHost, awaiterVars, clientVars, guestVars, early, takenVars>>

PFInit ==
    /\ fwdStreams = <<>> /\ toGuest = <<>> /\ toHost = <<>>
    /\ mSocket = 0 /\ mIsConnected = FALSE /\ servers = 0
    /\ tcp = [c \in TcpClients |-> "new"] /\ mGuestSocket = [c \in TcpClients |-> 0]
    /\ mConnected = [c \in TcpClients |-> FALSE] /\ mDisposing = [c \in TcpClients |-> FALSE]
    /\ mPreConnectedBuffer = [c \in TcpClients |-> <<>>]
    /\ forwarded = [c \in TcpClients |-> 0]
    /\ guestListens = FALSE /\ guestSockets = <<>> /\ answered = 0 /\ delivered = [c \in TcpClients |-> <<>>]
    /\ early = 0 /\ tainted = {} /\ soiled = {}

\* `of' says who the packet belongs to; nothing in the code depends on it.
FwdPacket(op, port, of, data) == [op |-> op, port |-> port, of |-> of, data |-> data]
Without(f, port) == [p \in DOMAIN f \ {port} |-> f[p]]
With(f, port, x) == [p \in DOMAIN f \cup {port} |-> IF p = port THEN x ELSE f[p]]
FreePorts == HostPorts \ DOMAIN fwdStreams
FirstFree == Min(FreePorts)
DataSent == MapThenSumSet(LAMBDA c : forwarded[c], TcpClients) + answered
NewFwdStream(plug) == [plug |-> plug, isConnected |-> FALSE]
\* Nothing is left of the port's previous connection.
CleanPort(port) ==
    /\ port \notin DOMAIN guestSockets
    /\ \A i \in DOMAIN toGuest : toGuest[i].port # port
    /\ \A i \in DOMAIN toHost : toHost[i].port # port

NothingUnderWay == toGuest = <<>> /\ toHost = <<>>

-----------------------------------------------------------------------------
\* Mutant: mIsConnected is not looked at.
AttemptConnectionAlways ==
    /\ FreePorts # {} /\ Len(toGuest) + 2 <= MaxInFlight
    /\ IF NothingUnderWay THEN UNCHANGED early ELSE early < MaxEarly /\ early' = early + 1
    /\ fwdStreams' = With(Without(fwdStreams, mSocket), FirstFree, NewFwdStream(Awaiter))
    /\ toGuest' = Append(toGuest, FwdPacket("REQUEST", FirstFree, Awaiter, <<>>))
    /\ mSocket' = FirstFree
    /\ UNCHANGED <<toHost, mIsConnected, servers, clientVars, guestVars, takenVars>>

\* Mutant: the task returns false and is not repeated.
AttemptConnectionOnce ==
    /\ ~mIsConnected /\ early = 0 /\ early' = early + 1
    /\ fwdStreams' = With(fwdStreams, FirstFree, NewFwdStream(Awaiter))
    /\ toGuest' = Append(toGuest, FwdPacket("REQUEST", FirstFree, Awaiter, <<>>))
    /\ mSocket' = FirstFree
    /\ UNCHANGED <<toHost, mIsConnected, servers, clientVars, guestVars, takenVars>>

\* attemptConnection(): mSocket's move assignment unplugs the attempt before.
\* The retries come every 100 ms; all but MaxEarly of them after the answer to
\* the one before.
AttemptConnection ==
    /\ ~mIsConnected /\ FreePorts # {} /\ Len(toGuest) + 2 <= MaxInFlight
    /\ IF NothingUnderWay THEN UNCHANGED early ELSE early < MaxEarly /\ early' = early + 1
    /\ fwdStreams' = With(Without(fwdStreams, mSocket), FirstFree, NewFwdStream(Awaiter))
    /\ toGuest' = Append(toGuest, FwdPacket("REQUEST", FirstFree, Awaiter, <<>>))
                  \o (IF mSocket = 0 THEN <<>> ELSE <<FwdPacket("SHUTDOWN", mSocket, Awaiter, <<>>)>>)
    /\ mSocket' = FirstFree
    /\ UNCHANGED <<toHost, mIsConnected, servers, clientVars, guestVars, takenVars>>

ConnectToGuest(c) ==
    /\ mGuestSocket' = [mGuestSocket EXCEPT ![c] = FirstFree]
    /\ fwdStreams' = With(fwdStreams, FirstFree, NewFwdStream(c))
    /\ toGuest' = Append(toGuest, FwdPacket("REQUEST", FirstFree, c, <<>>))

AcceptIncomingSocket(c) ==
    /\ servers > 0 /\ tcp[c] = "new" /\ FreePorts # {} /\ Len(toGuest) < MaxInFlight
    /\ tcp' = [tcp EXCEPT ![c] = "open"]
    /\ ConnectToGuest(c)
    /\ tainted' = IF CleanPort(FirstFree) THEN tainted \ {FirstFree} ELSE tainted \cup {FirstFree}
    /\ soiled' = IF CleanPort(FirstFree) THEN soiled ELSE soiled \cup {c}
    /\ UNCHANGED <<toHost, awaiterVars, mConnected, mDisposing, mPreConnectedBuffer, forwarded, guestVars, early>>

\* receiveHost(): into mPreConnectedBuffer until onConnect(), then to the stream.
ReceiveHost(c) ==
    /\ tcp[c] = "open" /\ DataSent < MaxData /\ Len(toGuest) < MaxInFlight
    /\ forwarded' = [forwarded EXCEPT ![c] = @ + 1]
    /\ LET byte == <<c, forwarded[c] + 1>>
       IN  IF mConnected[c]
           THEN /\ toGuest' = Append(toGuest, FwdPacket("RW", mGuestSocket[c], c, <<byte>>))
                /\ UNCHANGED mPreConnectedBuffer
           ELSE /\ mPreConnectedBuffer' = [mPreConnectedBuffer EXCEPT ![c] = Append(@, byte)]
                /\ UNCHANGED toGuest
    /\ UNCHANGED <<fwdStreams, toHost, awaiterVars, tcp, mGuestSocket, mConnected, mDisposing, guestVars, early, takenVars>>

\* Mutant: the stream is dropped without unplug().
CloseHostSilently(c) ==
    /\ tcp[c] = "open" /\ ~mDisposing[c]
    /\ tcp' = [tcp EXCEPT ![c] = "closed"]
    /\ mDisposing' = [mDisposing EXCEPT ![c] = TRUE]
    /\ mGuestSocket' = [mGuestSocket EXCEPT ![c] = 0]
    /\ fwdStreams' = Without(fwdStreams, mGuestSocket[c])
    /\ UNCHANGED <<toGuest, toHost, awaiterVars, mConnected, mPreConnectedBuffer, forwarded, guestVars, early, takenVars>>

\* The client hangs up: closeHost().
CloseHost(c) ==
    /\ tcp[c] = "open" /\ ~mDisposing[c] /\ Len(toGuest) < MaxInFlight
    /\ tcp' = [tcp EXCEPT ![c] = "closed"]
    /\ mDisposing' = [mDisposing EXCEPT ![c] = TRUE]
    /\ mGuestSocket' = [mGuestSocket EXCEPT ![c] = 0]
    /\ fwdStreams' = Without(fwdStreams, mGuestSocket[c])
    /\ toGuest' = Append(toGuest, FwdPacket("SHUTDOWN", mGuestSocket[c], c, <<>>))
    /\ UNCHANGED <<toHost, awaiterVars, mConnected, mPreConnectedBuffer, forwarded, guestVars, early, takenVars>>

-----------------------------------------------------------------------------
\* The device takes a packet of the guest for one of its streams.
Arrived == Head(toHost)
Arrives(op) ==
    /\ toHost # <<>> /\ Arrived.op = op /\ Arrived.port \in DOMAIN fwdStreams
    /\ toHost' = Tail(toHost)
ArrivedFor == fwdStreams[Arrived.port].plug

StartServer == servers' = servers + 1

\* RESPONSE for the awaiter: onConnect() starts the server and drops the socket.
AwaiterOnConnect ==
    /\ Arrives("RESPONSE") /\ ArrivedFor = Awaiter
    /\ mIsConnected' = TRUE /\ StartServer /\ mSocket' = 0
    /\ fwdStreams' = Without(fwdStreams, Arrived.port)
    /\ toGuest' = Append(toGuest, FwdPacket("SHUTDOWN", Arrived.port, Awaiter, <<>>))
    /\ early' = 0
    /\ UNCHANGED <<clientVars, guestVars, takenVars>>

\* Mutant: the bytes that came before the connection are forgotten.
ClientOnConnectForgets ==
    \E c \in TcpClients :
        /\ Arrives("RESPONSE") /\ ArrivedFor = c
        /\ fwdStreams' = [fwdStreams EXCEPT ![Arrived.port].isConnected = TRUE]
        /\ mConnected' = [mConnected EXCEPT ![c] = TRUE]
        /\ mPreConnectedBuffer' = [mPreConnectedBuffer EXCEPT ![c] = <<>>]
        /\ UNCHANGED <<toGuest, awaiterVars, tcp, mGuestSocket, mDisposing, forwarded, guestVars, early, takenVars>>

\* RESPONSE for a client: onConnect() sends mPreConnectedBuffer.
ClientOnConnect ==
    \E c \in TcpClients :
        /\ Arrives("RESPONSE") /\ ArrivedFor = c
        /\ fwdStreams' = [fwdStreams EXCEPT ![Arrived.port].isConnected = TRUE]
        /\ mConnected' = [mConnected EXCEPT ![c] = TRUE]
        /\ mPreConnectedBuffer' = [mPreConnectedBuffer EXCEPT ![c] = <<>>]
        /\ toGuest' = IF mPreConnectedBuffer[c] = <<>> THEN toGuest
                      ELSE Append(toGuest, FwdPacket("RW", Arrived.port, c, mPreConnectedBuffer[c]))
        /\ UNCHANGED <<awaiterVars, tcp, mGuestSocket, mDisposing, forwarded, guestVars, early, takenVars>>

\* onUnplug() of either plug.
OnUnplugFwd ==
    /\ mSocket' = IF ArrivedFor = Awaiter THEN 0 ELSE mSocket
    /\ tcp' = [c \in TcpClients |-> IF c = ArrivedFor THEN "closed" ELSE tcp[c]]
    /\ mDisposing' = [c \in TcpClients |-> mDisposing[c] \/ c = ArrivedFor]
    /\ mGuestSocket' = [c \in TcpClients |-> IF c = ArrivedFor THEN 0 ELSE mGuestSocket[c]]
    /\ fwdStreams' = Without(fwdStreams, Arrived.port)
    /\ UNCHANGED <<mIsConnected, servers, mConnected, mPreConnectedBuffer, forwarded>>

ReceiveRst == Arrives("RST") /\ OnUnplugFwd /\ UNCHANGED <<toGuest, guestVars, early, takenVars>>

\* SHUTDOWN, which is returned, and data that the plug does not take: the awaiter
\* and a stream that is not connected never do, a client whose queue is full.
ReceiveAndHangUp ==
    /\ Arrives("SHUTDOWN") \/ Arrives("RW")
    /\ OnUnplugFwd
    /\ toGuest' = Append(toGuest, FwdPacket("SHUTDOWN", Arrived.port, ArrivedFor, <<>>))
    /\ UNCHANGED <<guestVars, early, takenVars>>

\* onReceive() of a client.
ReceiveRwFwd ==
    /\ Arrives("RW") /\ ArrivedFor # Awaiter /\ fwdStreams[Arrived.port].isConnected
    /\ UNCHANGED <<fwdStreams, toGuest, awaiterVars, clientVars, guestVars, early, takenVars>>

\* A packet without a stream is answered with RST, unless it is one or is data.
ReceiveUnknown ==
    /\ toHost # <<>> /\ Arrived.port \notin DOMAIN fwdStreams
    /\ toHost' = Tail(toHost)
    /\ toGuest' = IF Arrived.op \in {"RST", "RW"} THEN toGuest
                  ELSE Append(toGuest, FwdPacket("RST", Arrived.port, Arrived.of, <<>>))
    /\ UNCHANGED <<fwdStreams, awaiterVars, clientVars, guestVars, early, takenVars>>

DeviceTakesPacket ==
    AwaiterOnConnect \/ ClientOnConnect \/ ReceiveRst \/ ReceiveAndHangUp \/ ReceiveRwFwd \/ ReceiveUnknown

-----------------------------------------------------------------------------
\* The guest (external): a socket per accepted connection; what has none is
\* answered with RST.
GuestBeginsToListen ==
    /\ ~guestListens /\ guestListens' = TRUE
    /\ UNCHANGED <<fwdStreams, toGuest, toHost, awaiterVars, clientVars, guestSockets, answered, delivered, early, takenVars>>

GuestReplies(op, packet) == toHost' = Append(toHost, FwdPacket(op, packet.port, packet.of, <<>>))

GuestTakesPacket ==
    /\ toGuest # <<>> /\ toGuest' = Tail(toGuest)
    /\ LET packet == Head(toGuest)
           known == packet.port \in DOMAIN guestSockets
       IN  /\ CASE packet.op = "REQUEST" /\ ~known /\ guestListens ->
                        /\ GuestReplies("RESPONSE", packet)
                        /\ guestSockets' = With(guestSockets, packet.port, packet.of)
                [] packet.op = "SHUTDOWN" \/ (~known /\ packet.op # "RST" /\ ~(packet.op = "REQUEST" /\ guestListens)) ->
                        GuestReplies("RST", packet) /\ guestSockets' = Without(guestSockets, packet.port)
                [] packet.op = "RST" ->
                        guestSockets' = Without(guestSockets, packet.port) /\ UNCHANGED toHost
                [] OTHER -> UNCHANGED <<guestSockets, toHost>>
           /\ delivered' = [c \in TcpClients |->
                               IF known /\ packet.op = "RW" /\ guestSockets[packet.port] = c
                               THEN delivered[c] \o packet.data ELSE delivered[c]]
    /\ UNCHANGED <<fwdStreams, awaiterVars, clientVars, guestListens, answered, early, takenVars>>

GuestSends(port) ==
    /\ DataSent < MaxData /\ answered' = answered + 1
    /\ toHost' = Append(toHost, FwdPacket("RW", port, guestSockets[port], <<>>))
    /\ UNCHANGED <<fwdStreams, toGuest, awaiterVars, clientVars, guestListens, guestSockets, delivered, early, takenVars>>

GuestHangsUp(port) ==
    /\ guestSockets' = Without(guestSockets, port)
    /\ toHost' = Append(toHost, FwdPacket("SHUTDOWN", port, guestSockets[port], <<>>))
    /\ UNCHANGED <<fwdStreams, toGuest, awaiterVars, clientVars, guestListens, answered, delivered, early, takenVars>>

PFNext ==
    \/ AttemptConnection \/ DeviceTakesPacket \/ GuestTakesPacket \/ GuestBeginsToListen
    \/ \E c \in TcpClients : AcceptIncomingSocket(c) \/ ReceiveHost(c) \/ CloseHost(c)
    \/ \E port \in DOMAIN guestSockets : GuestSends(port) \/ GuestHangsUp(port)

PFSpec == PFInit /\ [][PFNext]_pfVars

-----------------------------------------------------------------------------
\* mSocket and mGuestSocket are the ports of the streams whose plugs they belong
\* to: no stream is without its owner's pointer, and no pointer is to a stream
\* that is gone.
PointersAgree ==
    \A port \in HostPorts :
        /\ mSocket = port <=> port \in DOMAIN fwdStreams /\ fwdStreams[port].plug = Awaiter
        /\ \A c \in TcpClients :
              mGuestSocket[c] = port <=> port \in DOMAIN fwdStreams /\ fwdStreams[port].plug = c

\* Every variable has its type, and the owners' pointers agree with the streams.
PFTypeOK ==
    /\ DOMAIN fwdStreams \subseteq HostPorts /\ DOMAIN guestSockets \subseteq HostPorts
    /\ {mIsConnected, guestListens} \subseteq BOOLEAN /\ {mConnected, mDisposing} \subseteq [TcpClients -> BOOLEAN]
    /\ tcp \in [TcpClients -> {"new", "open", "closed"}]
    /\ PointersAgree
    /\ forwarded \in [TcpClients -> 0..MaxData] /\ early \in 0..MaxEarly
    /\ tainted \subseteq HostPorts /\ soiled \subseteq TcpClients

\* startServer() is called once, however retries, late answers and the reuse of
\* ports interleave: a second server on the port would be fatal
\* (vsock_port_fwd.cpp:196-200).
ServerStartsOnce == servers <= 1 /\ (mIsConnected <=> servers = 1)

\* What the guest has received from a client is a prefix of what the client has
\* written, and all of it when nothing is under way: nothing from before the
\* connection is lost, overtaken or repeated, or reaches the connection of another
\* client, also when the port is given away again at once.  The client that gets
\* such a port, with packets or a socket of its previous owner still there, is
\* promised nothing: see UnplugMeansHangUp of VsockLink for what happens to it.
ForwardedInOrder ==
    \A c \in TcpClients \ soiled :
        /\ delivered[c] = [i \in 1..Len(delivered[c]) |-> <<c, i>>]
        /\ NothingUnderWay /\ mGuestSocket[c] # 0 => Len(delivered[c]) = forwarded[c]

\* When no packet is under way the two ends agree: every socket of the guest has
\* its connected stream of the same client, and every stream has its socket,
\* whoever hangs up first and whatever of it the other one crosses with.  Not
\* promised for a port that its last client got too early (see above).
NoHalfOpen ==
    NothingUnderWay =>
        \A port \in HostPorts \ tainted :
            /\ port \in DOMAIN guestSockets <=> port \in DOMAIN fwdStreams
            /\ port \in DOMAIN fwdStreams =>
                  fwdStreams[port].isConnected /\ fwdStreams[port].plug = guestSockets[port]

\* Once the guest listens the server is started.
ServerStarts == guestListens ~> (servers = 1)
=============================================================================
