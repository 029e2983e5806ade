------------------------- MODULE VsockClientProofs --------------------------
(*****************************************************************************)
(* Safety of the host's users of the vsock device, for any number of clients, *)
(* ports and bytes: ServerStartsOnce and PointersAgree of the port forwarding, *)
(* NoHalfOpen of the ports that were clean when they were last given away, and *)
(* ForwardedInOrder of the clients that were given clean ports.              *)
(* None of them is inductive.  ServerStartsOnce needs that the awaiter has at *)
(* most one stream.  NoHalfOpen needs, for each port, what is under way in both *)
(* directions (PortInv).  ForwardedInOrder needs, for each client, where each *)
(* byte it has written is (ClientBytes), and what PortInv says of its port.  *)
(*****************************************************************************)
EXTENDS PortForward, UniqueIdAllocatorProofs, SequenceTheorems

-----------------------------------------------------------------------------
(* The server and the pointers to the streams.                               *)

FwdStream == [plug : TcpClients \cup {Awaiter}, isConnected : BOOLEAN]

\* The streams and their owners' pointers, and what the pointers say of the
\* clients that have not connected and of the awaiter that is done.
PFInv ==
    /\ fwdStreams \in [DOMAIN fwdStreams -> FwdStream] /\ DOMAIN fwdStreams \subseteq HostPorts
    /\ mSocket \in HostPorts \cup {0} /\ mGuestSocket \in [TcpClients -> HostPorts \cup {0}]
    /\ tcp \in [TcpClients -> {"new", "open", "closed"}]
    /\ \A c \in TcpClients : tcp[c] = "new" => mGuestSocket[c] = 0
    /\ PointersAgree
    /\ mIsConnected => mSocket = 0
    /\ servers \in Nat /\ ServerStartsOnce

\* A nonempty set of natural numbers has a least one.
LEMMA MinExists ==
  ASSUME NEW S \in SUBSET Nat, S # {}
  PROVE  Min(S) \in S /\ \A y \in S : Min(S) <= y
<1>1. \E x \in S : \A y \in S : x <= y
  BY LeastNatural
<1> QED
  BY <1>1 DEF Min

\* A port that is handed out is a host port that no stream has.
LEMMA FirstFreeIsFree ==
  ASSUME FreePorts # {}
  PROVE  FirstFree \in HostPorts /\ FirstFree \notin DOMAIN fwdStreams /\ FirstFree # 0
<1>1. FreePorts \in SUBSET Nat
  BY PortForwardAssumption DEF FreePorts
<1>2. FirstFree \in FreePorts
  BY <1>1, MinExists DEF FirstFree
<1> QED
  BY <1>2, PortForwardAssumption DEF FreePorts

\* What removing a stream does.
LEMMA StreamIsRemoved ==
  ASSUME NEW f, f \in [DOMAIN f -> FwdStream], NEW port
  PROVE  /\ Without(f, port) \in [DOMAIN f \ {port} -> FwdStream]
         /\ \A p \in DOMAIN f \ {port} : Without(f, port)[p] = f[p]
  BY DEF Without

\* A stream that is made is not connected.
LEMMA NewStream ==
  ASSUME NEW plug \in TcpClients \cup {Awaiter}
  PROVE  NewFwdStream(plug) \in FwdStream /\ NewFwdStream(plug).plug = plug
  BY DEF NewFwdStream, FwdStream

\* At first there is no stream.
LEMMA PFInitially == PFInit => PFInv
<1> SUFFICES ASSUME PFInit PROVE PFInv
  OBVIOUS
<1>1. DOMAIN fwdStreams = {} /\ fwdStreams \in [DOMAIN fwdStreams -> FwdStream]
  BY DEF PFInit
<1>2. mSocket = 0 /\ mGuestSocket = [c \in TcpClients |-> 0] /\ tcp = [c \in TcpClients |-> "new"]
      /\ ~mIsConnected /\ servers = 0
  BY DEF PFInit
<1>3. PointersAgree
  BY <1>1, <1>2, PortForwardAssumption DEF PointersAgree
<1> QED
  BY <1>1, <1>2, <1>3 DEF PFInv, ServerStartsOnce

\* attemptConnection() replaces the awaiter's stream.
LEMMA AttemptKeeps == ASSUME PFInv, AttemptConnection PROVE PFInv'
<1> USE DEF PFInv, awaiterVars, clientVars
<1>1. FirstFree \in HostPorts /\ FirstFree \notin DOMAIN fwdStreams /\ FirstFree # 0
  BY FirstFreeIsFree DEF AttemptConnection
<1>2. NewFwdStream(Awaiter) \in FwdStream /\ NewFwdStream(Awaiter).plug = Awaiter
  BY NewStream
<1>3. /\ fwdStreams' = With(Without(fwdStreams, mSocket), FirstFree, NewFwdStream(Awaiter))
      /\ mSocket' = FirstFree /\ ~mIsConnected
      /\ UNCHANGED <<mIsConnected, servers, tcp, mGuestSocket>>
  BY DEF AttemptConnection
<1>4. /\ fwdStreams' \in [(DOMAIN fwdStreams \ {mSocket}) \cup {FirstFree} -> FwdStream]
      /\ fwdStreams'[FirstFree].plug = Awaiter
      /\ \A p \in DOMAIN fwdStreams \ {mSocket} : fwdStreams'[p] = fwdStreams[p]
  <2> DEFINE g == Without(fwdStreams, mSocket)
  <2>1. g \in [DOMAIN fwdStreams \ {mSocket} -> FwdStream]
        /\ \A p \in DOMAIN fwdStreams \ {mSocket} : g[p] = fwdStreams[p]
    BY StreamIsRemoved, Zenon
  <2>2. DOMAIN g = DOMAIN fwdStreams \ {mSocket} /\ g \in [DOMAIN g -> FwdStream]
    BY <2>1
  <2> HIDE DEF g
  <2>a. g \in [DOMAIN g -> FwdStream] /\ NewFwdStream(Awaiter) \in FwdStream
    BY <1>2, <2>2
  <2>3. /\ With(g, FirstFree, NewFwdStream(Awaiter)) \in [DOMAIN g \cup {FirstFree} -> FwdStream]
        /\ With(g, FirstFree, NewFwdStream(Awaiter))[FirstFree] = NewFwdStream(Awaiter)
        /\ \A p \in DOMAIN g \ {FirstFree} : With(g, FirstFree, NewFwdStream(Awaiter))[p] = g[p]
    <3> DEFINE x == NewFwdStream(Awaiter)
               port == FirstFree
    <3>1. x \in FwdStream
      BY <2>a
    <3> HIDE DEF x, port
    <3>2. /\ With(g, port, x) \in [DOMAIN g \cup {port} -> FwdStream]
          /\ With(g, port, x)[port] = x
          /\ \A p \in DOMAIN g \ {port} : With(g, port, x)[p] = g[p]
      BY ONLY <2>a, <3>1 DEF With
    <3> QED
      BY <3>2 DEF x, port
  <2> QED
    BY <1>1, <1>2, <1>3, <2>1, <2>2, <2>3 DEF g
<1>5. PointersAgree'
  <2> SUFFICES ASSUME NEW port \in HostPorts
               PROVE  /\ mSocket' = port <=> port \in DOMAIN fwdStreams' /\ fwdStreams'[port].plug = Awaiter
                      /\ \A c \in TcpClients : mGuestSocket[c] = port <=>
                             port \in DOMAIN fwdStreams' /\ fwdStreams'[port].plug = c
    BY <1>3 DEF PointersAgree
  <2>0. DOMAIN fwdStreams' = (DOMAIN fwdStreams \ {mSocket}) \cup {FirstFree}
    BY <1>4
  <2>1. CASE port = FirstFree
    BY <1>1, <1>3, <1>4, <2>0, <2>1, PortForwardAssumption DEF PointersAgree
  <2>2. CASE port = mSocket /\ port # FirstFree
    BY <1>3, <2>0, <2>2, PortForwardAssumption DEF PointersAgree
  <2>3. CASE port # mSocket /\ port # FirstFree
    BY <1>3, <1>4, <2>0, <2>3 DEF PointersAgree
  <2> QED
    BY <2>1, <2>2, <2>3
<1> QED
  BY <1>1, <1>3, <1>4, <1>5 DEF ServerStartsOnce

\* A client is accepted and gets its stream.
LEMMA AcceptKeeps == ASSUME PFInv, NEW c \in TcpClients, AcceptIncomingSocket(c) PROVE PFInv'
<1> USE DEF PFInv, awaiterVars, clientVars
<1>1. FirstFree \in HostPorts /\ FirstFree \notin DOMAIN fwdStreams /\ FirstFree # 0
  BY FirstFreeIsFree DEF AcceptIncomingSocket
<1>2. NewFwdStream(c) \in FwdStream /\ NewFwdStream(c).plug = c
  BY NewStream
<1>3. /\ fwdStreams' = With(fwdStreams, FirstFree, NewFwdStream(c))
      /\ mGuestSocket' = [mGuestSocket EXCEPT ![c] = FirstFree]
      /\ tcp' = [tcp EXCEPT ![c] = "open"] /\ tcp[c] = "new"
      /\ UNCHANGED <<mSocket, mIsConnected, servers>>
  BY DEF AcceptIncomingSocket, ConnectToGuest
<1>4. /\ fwdStreams' \in [DOMAIN fwdStreams \cup {FirstFree} -> FwdStream]
      /\ fwdStreams'[FirstFree].plug = c
      /\ \A p \in DOMAIN fwdStreams : fwdStreams'[p] = fwdStreams[p]
  <2>1. /\ fwdStreams' \in [DOMAIN fwdStreams \cup {FirstFree} -> FwdStream]
        /\ fwdStreams'[FirstFree] = NewFwdStream(c)
        /\ \A p \in DOMAIN fwdStreams \ {FirstFree} : fwdStreams'[p] = fwdStreams[p]
    <3> DEFINE f == With(fwdStreams, FirstFree, NewFwdStream(c))
    <3>1. fwdStreams \in [DOMAIN fwdStreams -> FwdStream]
      OBVIOUS
    <3>2. /\ f \in [DOMAIN fwdStreams \cup {FirstFree} -> FwdStream]
          /\ f[FirstFree] = NewFwdStream(c)
          /\ \A p \in DOMAIN fwdStreams \ {FirstFree} : f[p] = fwdStreams[p]
      <4> DEFINE x == NewFwdStream(c)
                 port == FirstFree
      <4>1. x \in FwdStream
        BY <1>2
      <4> HIDE DEF x, port
      <4>2. /\ With(fwdStreams, port, x) \in [DOMAIN fwdStreams \cup {port} -> FwdStream]
            /\ With(fwdStreams, port, x)[port] = x
            /\ \A p \in DOMAIN fwdStreams \ {port} : With(fwdStreams, port, x)[p] = fwdStreams[p]
        BY ONLY <3>1, <4>1 DEF With
      <4> QED
        BY <4>2 DEF x, port
    <3> QED
      BY <1>3, <3>2
  <2> QED
    BY <1>1, <1>2, <2>1
<1>5. /\ mGuestSocket' \in [TcpClients -> HostPorts \cup {0}] /\ mGuestSocket'[c] = FirstFree
      /\ tcp' \in [TcpClients -> {"new", "open", "closed"}] /\ tcp'[c] = "open"
      /\ \A d \in TcpClients \ {c} : mGuestSocket'[d] = mGuestSocket[d] /\ tcp'[d] = tcp[d]
  BY <1>1, <1>3
<1>6. PointersAgree'
  <2> SUFFICES ASSUME NEW port \in HostPorts
               PROVE  /\ mSocket = port <=> port \in DOMAIN fwdStreams' /\ fwdStreams'[port].plug = Awaiter
                      /\ \A d \in TcpClients : mGuestSocket'[d] = port <=>
                             port \in DOMAIN fwdStreams' /\ fwdStreams'[port].plug = d
    BY <1>3 DEF PointersAgree
  <2>0. DOMAIN fwdStreams' = DOMAIN fwdStreams \cup {FirstFree}
    BY <1>4
  <2>1. CASE port = FirstFree
    BY <1>1, <1>4, <1>5, <2>0, <2>1, PortForwardAssumption DEF PointersAgree
  <2>2. CASE port # FirstFree
    <3>1. mGuestSocket[c] # port
      BY <1>3, PortForwardAssumption
    <3>2. port \in DOMAIN fwdStreams' <=> port \in DOMAIN fwdStreams
      BY <2>0, <2>2
    <3>3. port \in DOMAIN fwdStreams => fwdStreams'[port] = fwdStreams[port]
      BY <1>4
    <3> QED
      BY <1>5, <2>2, <3>1, <3>2, <3>3 DEF PointersAgree
  <2> QED
    BY <2>1, <2>2
<1> QED
  BY <1>1, <1>3, <1>4, <1>5, <1>6 DEF ServerStartsOnce

\* A client hangs up.
LEMMA CloseHostKeeps == ASSUME PFInv, NEW c \in TcpClients, CloseHost(c) PROVE PFInv'
<1> USE DEF PFInv, awaiterVars, clientVars
<1> DEFINE old == mGuestSocket[c]
<1>1. /\ fwdStreams' = Without(fwdStreams, old)
      /\ mGuestSocket' = [mGuestSocket EXCEPT ![c] = 0]
      /\ tcp' = [tcp EXCEPT ![c] = "closed"]
      /\ UNCHANGED <<mSocket, mIsConnected, servers>>
  BY DEF CloseHost
<1>2. /\ fwdStreams' \in [DOMAIN fwdStreams \ {old} -> FwdStream]
      /\ \A p \in DOMAIN fwdStreams \ {old} : fwdStreams'[p] = fwdStreams[p]
  BY <1>1, StreamIsRemoved, Zenon
<1>3. /\ mGuestSocket' \in [TcpClients -> HostPorts \cup {0}] /\ mGuestSocket'[c] = 0
      /\ tcp' \in [TcpClients -> {"new", "open", "closed"}] /\ tcp'[c] = "closed"
      /\ \A d \in TcpClients \ {c} : mGuestSocket'[d] = mGuestSocket[d] /\ tcp'[d] = tcp[d]
  BY <1>1
<1>4. PointersAgree'
  <2> SUFFICES ASSUME NEW port \in HostPorts
               PROVE  /\ mSocket = port <=> port \in DOMAIN fwdStreams' /\ fwdStreams'[port].plug = Awaiter
                      /\ \A d \in TcpClients : mGuestSocket'[d] = port <=>
                             port \in DOMAIN fwdStreams' /\ fwdStreams'[port].plug = d
    BY <1>1 DEF PointersAgree
  <2>0. DOMAIN fwdStreams' = DOMAIN fwdStreams \ {old} /\ port # 0
    BY <1>2, PortForwardAssumption
  <2>1. CASE port = old
    <3>1. port \in DOMAIN fwdStreams /\ fwdStreams[port].plug = c
      BY <2>1 DEF PointersAgree
    <3>2. mSocket # port /\ \A d \in TcpClients \ {c} : mGuestSocket[d] # port
      BY <3>1, PortForwardAssumption DEF PointersAgree
    <3>3. port \notin DOMAIN fwdStreams'
      BY <2>0, <2>1
    <3> QED
      BY <1>3, <2>0, <3>2, <3>3
  <2>2. CASE port # old
    <3>1. port \in DOMAIN fwdStreams' <=> port \in DOMAIN fwdStreams
      BY <2>0, <2>2
    <3>2. port \in DOMAIN fwdStreams => fwdStreams'[port] = fwdStreams[port]
      BY <1>2, <2>2
    <3> QED
      BY <1>3, <2>0, <2>2, <3>1, <3>2 DEF PointersAgree
  <2> QED
    BY <2>1, <2>2
<1>5. \A d \in TcpClients : tcp'[d] = "new" => mGuestSocket'[d] = 0
  BY <1>3
<1>6. DOMAIN fwdStreams' \subseteq HostPorts /\ fwdStreams' \in [DOMAIN fwdStreams' -> FwdStream]
  BY <1>2
<1> QED
  BY <1>1, <1>3, <1>4, <1>5, <1>6 DEF ServerStartsOnce

\* The guest accepts the awaiter's connection: the one stream of the awaiter goes.
LEMMA AwaiterOnConnectKeeps == ASSUME PFInv, AwaiterOnConnect PROVE PFInv'
<1> USE DEF PFInv, awaiterVars, clientVars
<1> DEFINE old == Arrived.port
<1>1. /\ old \in DOMAIN fwdStreams /\ fwdStreams[old].plug = Awaiter
      /\ fwdStreams' = Without(fwdStreams, old)
      /\ mIsConnected' = TRUE /\ servers' = servers + 1 /\ mSocket' = 0
      /\ UNCHANGED <<tcp, mGuestSocket>>
  BY DEF AwaiterOnConnect, Arrives, ArrivedFor, StartServer
<1> HIDE DEF old
<1>2. /\ fwdStreams' \in [DOMAIN fwdStreams \ {old} -> FwdStream]
      /\ \A p \in DOMAIN fwdStreams \ {old} : fwdStreams'[p] = fwdStreams[p]
  BY <1>1, StreamIsRemoved, Zenon
<1>3. old \in HostPorts /\ mSocket = old /\ old # 0
  BY <1>1, PortForwardAssumption DEF PointersAgree
<1>4. servers' = 1
  BY <1>1, <1>3 DEF ServerStartsOnce
<1>5. PointersAgree'
  <2> SUFFICES ASSUME NEW port \in HostPorts
               PROVE  /\ mSocket' = port <=> port \in DOMAIN fwdStreams' /\ fwdStreams'[port].plug = Awaiter
                      /\ \A d \in TcpClients : mGuestSocket[d] = port <=>
                             port \in DOMAIN fwdStreams' /\ fwdStreams'[port].plug = d
    BY <1>1 DEF PointersAgree
  <2>0. DOMAIN fwdStreams' = DOMAIN fwdStreams \ {old} /\ mSocket' # port
    BY <1>1, <1>2, PortForwardAssumption
  <2>1. CASE port = old
    BY <1>1, <2>0, <2>1, PortForwardAssumption DEF PointersAgree
  <2>2. CASE port # old
    BY <1>2, <1>3, <2>0, <2>2 DEF PointersAgree
  <2> QED
    BY <2>1, <2>2
<1>6. DOMAIN fwdStreams' \subseteq HostPorts /\ fwdStreams' \in [DOMAIN fwdStreams' -> FwdStream]
  BY <1>2
<1>7. ServerStartsOnce'
  BY <1>1, <1>4 DEF ServerStartsOnce
<1> QED
  BY <1>1, <1>4, <1>5, <1>6, <1>7

\* The guest accepts a client's connection.
LEMMA ClientOnConnectKeeps == ASSUME PFInv, ClientOnConnect PROVE PFInv'
<1> USE DEF PFInv, awaiterVars, clientVars
<1> DEFINE port == Arrived.port
<1>1. /\ port \in DOMAIN fwdStreams /\ fwdStreams' = [fwdStreams EXCEPT ![port].isConnected = TRUE]
      /\ UNCHANGED <<mSocket, mIsConnected, servers, tcp, mGuestSocket>>
  BY DEF ClientOnConnect, Arrives
<1> HIDE DEF port
<1>2. DOMAIN fwdStreams' = DOMAIN fwdStreams
  BY <1>1
<1>3. \A p \in DOMAIN fwdStreams : fwdStreams'[p] \in FwdStream /\ fwdStreams'[p].plug = fwdStreams[p].plug
  BY <1>1 DEF FwdStream
<1>4. fwdStreams' \in [DOMAIN fwdStreams' -> FwdStream]
  BY <1>1, <1>2, <1>3
<1>5. PointersAgree'
  BY <1>1, <1>2, <1>3 DEF PointersAgree
<1> QED
  BY <1>1, <1>2, <1>4, <1>5 DEF ServerStartsOnce

\* A plug is told that its stream is gone, and drops its pointer.
LEMMA OnUnplugKeeps ==
  ASSUME PFInv, OnUnplugFwd, Arrived.port \in DOMAIN fwdStreams
  PROVE  PFInv'
<1> USE DEF PFInv
<1> DEFINE old == Arrived.port
           gone == fwdStreams[Arrived.port].plug
<1>1. /\ fwdStreams' = Without(fwdStreams, old)
      /\ mSocket' = (IF gone = Awaiter THEN 0 ELSE mSocket)
      /\ tcp' = [c \in TcpClients |-> IF c = gone THEN "closed" ELSE tcp[c]]
      /\ mGuestSocket' = [c \in TcpClients |-> IF c = gone THEN 0 ELSE mGuestSocket[c]]
      /\ UNCHANGED <<mIsConnected, servers>>
  BY DEF OnUnplugFwd, ArrivedFor
<1>2. old \in DOMAIN fwdStreams /\ gone = fwdStreams[old].plug
  OBVIOUS
<1> HIDE DEF old, gone
<1>3. /\ fwdStreams' \in [DOMAIN fwdStreams \ {old} -> FwdStream]
      /\ \A p \in DOMAIN fwdStreams \ {old} : fwdStreams'[p] = fwdStreams[p]
  BY <1>1, StreamIsRemoved, Zenon
<1>4. /\ mSocket' \in HostPorts \cup {0} /\ mGuestSocket' \in [TcpClients -> HostPorts \cup {0}]
      /\ tcp' \in [TcpClients -> {"new", "open", "closed"}]
  BY <1>1
<1>5. \A c \in TcpClients : tcp'[c] = "new" => mGuestSocket'[c] = 0
  BY <1>1
<1>6. mIsConnected' => mSocket' = 0
  BY <1>1
<1>7. PointersAgree'
  <2> SUFFICES ASSUME NEW port \in HostPorts
               PROVE  /\ mSocket' = port <=> port \in DOMAIN fwdStreams' /\ fwdStreams'[port].plug = Awaiter
                      /\ \A d \in TcpClients : mGuestSocket'[d] = port <=>
                             port \in DOMAIN fwdStreams' /\ fwdStreams'[port].plug = d
    BY DEF PointersAgree
  <2>0. DOMAIN fwdStreams' = DOMAIN fwdStreams \ {old} /\ port # 0
    BY <1>3, PortForwardAssumption
  <2>1. CASE port = old
    <3>1. gone # Awaiter => mSocket # port
      BY <1>2, <2>1 DEF PointersAgree
    <3>2. \A d \in TcpClients : d # gone => mGuestSocket[d] # port
      BY <1>2, <2>1 DEF PointersAgree
    <3> QED
      BY <1>1, <2>0, <2>1, <3>1, <3>2
  <2>2. CASE port # old
    <3>1. port \in DOMAIN fwdStreams' <=> port \in DOMAIN fwdStreams
      BY <2>0, <2>2
    <3>2. port \in DOMAIN fwdStreams => fwdStreams'[port] = fwdStreams[port]
      BY <1>3, <2>2
    <3>3. old \in HostPorts
      BY <1>2
    <3>4. gone = Awaiter => mSocket = old
      BY <1>2, <3>3 DEF PointersAgree
    <3>5. \A d \in TcpClients : d = gone => mGuestSocket[d] = old
      BY <1>2, <3>3 DEF PointersAgree
    <3>6. mSocket' = port <=> mSocket = port
      BY <1>1, <2>0, <2>2, <3>4
    <3>7. \A d \in TcpClients : mGuestSocket'[d] = port <=> mGuestSocket[d] = port
      BY <1>1, <2>0, <2>2, <3>5
    <3> QED
      BY <3>1, <3>2, <3>6, <3>7 DEF PointersAgree
  <2> QED
    BY <2>1, <2>2
<1>8. DOMAIN fwdStreams' \subseteq HostPorts /\ fwdStreams' \in [DOMAIN fwdStreams' -> FwdStream]
  BY <1>3
<1> QED
  BY <1>1, <1>4, <1>5, <1>6, <1>7, <1>8 DEF ServerStartsOnce

\* The steps that leave the streams and their pointers alone.
LEMMA ForwardStutters ==
  ASSUME PFInv, UNCHANGED <<fwdStreams, mSocket, mIsConnected, servers, tcp, mGuestSocket>>
  PROVE  PFInv'
  BY DEF PFInv, PointersAgree, ServerStartsOnce

\* PFInv is inductive.
LEMMA PFSteps == PFInv /\ [PFNext]_pfVars => PFInv'
<1> SUFFICES ASSUME PFInv, [PFNext]_pfVars PROVE PFInv'
  OBVIOUS
<1> USE DEF awaiterVars, clientVars
<1>1. CASE AttemptConnection
  BY <1>1, AttemptKeeps
<1>2. CASE DeviceTakesPacket
  <2>1. CASE AwaiterOnConnect \/ ClientOnConnect
    BY <2>1, AwaiterOnConnectKeeps, ClientOnConnectKeeps
  <2>2. CASE ReceiveRst \/ ReceiveAndHangUp
    <3>1. OnUnplugFwd /\ Arrived.port \in DOMAIN fwdStreams
      BY <2>2 DEF ReceiveRst, ReceiveAndHangUp, Arrives
    <3> QED
      BY <3>1, OnUnplugKeeps
  <2>3. CASE ReceiveRwFwd \/ ReceiveUnknown
    BY <2>3, ForwardStutters DEF ReceiveRwFwd, ReceiveUnknown
  <2> QED
    BY <1>2, <2>1, <2>2, <2>3 DEF DeviceTakesPacket
<1>3. CASE GuestTakesPacket \/ GuestBeginsToListen
  BY <1>3, ForwardStutters DEF GuestTakesPacket, GuestBeginsToListen
<1>4. ASSUME NEW c \in TcpClients, AcceptIncomingSocket(c) \/ ReceiveHost(c) \/ CloseHost(c)
      PROVE  PFInv'
  <2>1. CASE ReceiveHost(c)
    BY <2>1, ForwardStutters DEF ReceiveHost
  <2> QED
    BY <1>4, <2>1, AcceptKeeps, CloseHostKeeps
<1>5. ASSUME NEW port \in DOMAIN guestSockets, GuestSends(port) \/ GuestHangsUp(port)
      PROVE  PFInv'
  BY <1>5, ForwardStutters DEF GuestSends, GuestHangsUp
<1>6. CASE UNCHANGED pfVars
  BY <1>6, ForwardStutters DEF pfVars
<1> QED
  BY <1>1, <1>2, <1>3, <1>4, <1>5, <1>6 DEF PFNext

\* ServerStartsOnce holds for any number of clients and ports: startServer() is
\* called once, when the guest answers, however retries, late answers and the
\* reuse of ports interleave.
THEOREM ServerStartsOnceTheorem == PFSpec => []ServerStartsOnce
<1>1. PFInv => ServerStartsOnce
  BY DEF PFInv
<1> QED
  BY PFInitially, PFSteps, <1>1, PTL DEF PFSpec

\* PointersAgree holds for any number of clients and ports: the pointers of the
\* awaiter and of the connections are the streams that have them as plugs.
THEOREM PointersTheorem == PFSpec => []PointersAgree
<1>1. PFInv => PointersAgree
  BY DEF PFInv
<1> QED
  BY PFInitially, PFSteps, <1>1, PTL DEF PFSpec

-----------------------------------------------------------------------------
(* What is under way between the two ends, and what it has to do with the    *)
(* streams and sockets (PortInv) and with a client's bytes (ClientBytes).    *)

Owner == TcpClients \cup {Awaiter}
Bytes == TcpClients \X Nat
FwdPackets == [op : {"REQUEST", "RESPONSE", "RST", "SHUTDOWN", "RW"}, port : HostPorts, of : Owner, data : Seq(Bytes)]

\* What is asked of a queue: whether a packet of an owner, or of anybody, is in
\* it, whether two are, and whether the last word about a port is its end.
Holds(q, op, port, c) == \E i \in 1..Len(q) : q[i].op = op /\ q[i].port = port /\ q[i].of = c
Bound(q, op, port) == \E i \in 1..Len(q) : q[i].op = op /\ q[i].port = port
Twice(q, op, port) ==
    \E i, j \in 1..Len(q) : i < j /\ q[i].op = op /\ q[i].port = port /\ q[j].op = op /\ q[j].port = port
EndsWith(q, port) ==
    \E i \in 1..Len(q) :
        /\ q[i].op \in {"SHUTDOWN", "RST"} /\ q[i].port = port
        /\ \A j \in 1..Len(q) : j > i => ~(q[j].op = "REQUEST" /\ q[j].port = port)

ToHost(port) == \E op \in {"RESPONSE", "RST", "SHUTDOWN", "RW"} : Bound(toHost, op, port)
HostEnds(port) == Bound(toGuest, "SHUTDOWN", port) \/ Bound(toGuest, "RST", port)
GuestEnds(port) == Bound(toHost, "SHUTDOWN", port) \/ Bound(toHost, "RST", port)

QueueTypes ==
    /\ toGuest \in Seq(FwdPackets) /\ toHost \in Seq(FwdPackets)
    /\ \A port \in HostPorts : ~Bound(toGuest, "RESPONSE", port) /\ ~Bound(toHost, "REQUEST", port)

GuestTypes ==
    /\ guestSockets \in [DOMAIN guestSockets -> Owner] /\ DOMAIN guestSockets \subseteq HostPorts
    /\ delivered \in [TcpClients -> Seq(Bytes)]

ClientTypes ==
    /\ mConnected \in [TcpClients -> BOOLEAN]
    /\ mPreConnectedBuffer \in [TcpClients -> Seq(Bytes)] /\ forwarded \in [TcpClients -> Nat]
    /\ \A c \in TcpClients : tcp[c] = "open" => mGuestSocket[c] # 0
    /\ \A c \in TcpClients : tcp[c] = "new" => ~mConnected[c]

PFTypes == QueueTypes /\ GuestTypes /\ ClientTypes

\* A socket of the guest has its stream, or is on the way to it or to its end;
\* a stream is connected, or an answer is on its way or still to come.
SocketHeard(port) ==
    port \in DOMAIN guestSockets =>
        \/ Bound(toHost, "RESPONSE", port) \/ HostEnds(port)
        \/ port \in DOMAIN fwdStreams /\ fwdStreams[port].isConnected

StreamAnswered(port) ==
    port \in DOMAIN fwdStreams =>
        /\ ~EndsWith(toGuest, port)
        /\ fwdStreams[port].plug = Awaiter => ~fwdStreams[port].isConnected
        /\ ~fwdStreams[port].isConnected => Bound(toGuest, "REQUEST", port) \/ ToHost(port)

\* The stream of a client has the port for itself.
Connecting(port) ==
    /\ ~Bound(toGuest, "RW", port) /\ ~Twice(toGuest, "REQUEST", port)
    /\ Bound(toGuest, "REQUEST", port) => port \notin DOMAIN guestSockets /\ ~ToHost(port)

Connected(port) == ~Bound(toGuest, "REQUEST", port) /\ ~Bound(toHost, "RESPONSE", port)

ClientAlone(port) ==
    port \in DOMAIN fwdStreams /\ fwdStreams[port].plug # Awaiter =>
        LET s == fwdStreams[port]
        IN  /\ s.isConnected <=> mConnected[s.plug]
            /\ ~HostEnds(port) /\ ~Twice(toHost, "RESPONSE", port)
            /\ \A op \in {"REQUEST", "RW"}, c \in Owner : Holds(toGuest, op, port, c) => c = s.plug
            /\ IF s.isConnected THEN Connected(port) ELSE Connecting(port)
            /\ port \in DOMAIN guestSockets => guestSockets[port] = s.plug /\ ~GuestEnds(port)
            /\ port \notin DOMAIN guestSockets /\ (s.isConnected \/ Bound(toHost, "RESPONSE", port))
                 => GuestEnds(port)

PortInv(port) == SocketHeard(port) /\ StreamAnswered(port) /\ ClientAlone(port)

\* The bytes of a client: those the guest has, and those on their way to it.
Numbers(s, c, n) == s = [i \in 1..Len(s) |-> <<c, n + i>>]
RwOf(q, i, c) == q[i].op = "RW" /\ q[i].of = c
First(m) == m.data[1][2]
Last(m) == First(m) + Len(m.data) - 1
Ledger(q, c, lo, hi) ==
    /\ \A i \in 1..Len(q) : RwOf(q, i, c) =>
          Len(q[i].data) > 0 /\ Numbers(q[i].data, c, First(q[i]) - 1) /\ lo < First(q[i]) /\ Last(q[i]) <= hi
    /\ \A i, j \in 1..Len(q) : i < j /\ RwOf(q, i, c) /\ RwOf(q, j, c) => Last(q[i]) < First(q[j])
Covers(q, c, lo, hi) ==
    \A n \in (lo + 1)..hi : \E i \in 1..Len(q) : RwOf(q, i, c) /\ First(q[i]) <= n /\ n <= Last(q[i])

\* The ports of a client: it has at most one, also when its stream is gone.
Uses(c, port) ==
    \/ mGuestSocket[c] = port
    \/ port \in DOMAIN guestSockets /\ guestSockets[port] = c
    \/ Holds(toGuest, "REQUEST", port, c) \/ Holds(toGuest, "RW", port, c)

OnePort(c) ==
    /\ \A p, r \in HostPorts : Uses(c, p) /\ Uses(c, r) => p = r
    /\ tcp[c] = "new" => \A p \in HostPorts : ~Uses(c, p)

\* When the stream of a client is gone and its socket is still there, or still
\* to come, its end is on the way, before anything that another client sends on
\* the port: only what is the client's own comes to its socket.
Claims(c, port) ==
    (port \in DOMAIN guestSockets /\ guestSockets[port] = c) \/ Holds(toGuest, "REQUEST", port, c)

Fenced(q, port, c) ==
    \E i \in 1..Len(q) :
        /\ q[i].op \in {"SHUTDOWN", "RST"} /\ q[i].port = port
        /\ \A j \in 1..Len(q) : q[j].port = port /\ q[j].op \in {"REQUEST", "RW"} =>
              IF j < i THEN q[j].of = c ELSE q[j].op = "RW" \/ q[j].of # c

OwnData(c) == \A p \in HostPorts : Claims(c, p) /\ mGuestSocket[c] # p => Fenced(toGuest, p, c)

\* Until onConnect() all is in mPreConnectedBuffer.
Buffered(c) ==
    /\ \A p \in HostPorts : Holds(toGuest, "REQUEST", p, c) => ~mConnected[c]
    /\ ~mConnected[c] => /\ delivered[c] = <<>> /\ \A p \in HostPorts : ~Holds(toGuest, "RW", p, c)
                         /\ Numbers(mPreConnectedBuffer[c], c, 0)
                         /\ Len(mPreConnectedBuffer[c]) = forwarded[c]

\* What the guest has is in order, what is on its way follows it, and nothing is
\* missing while the socket is there.
InOrder(c) ==
    /\ Len(delivered[c]) <= forwarded[c] /\ Numbers(delivered[c], c, 0)
    /\ Ledger(toGuest, c, Len(delivered[c]), forwarded[c])
    /\ mConnected[c] /\ (\E p \in DOMAIN guestSockets : guestSockets[p] = c)
          => Covers(toGuest, c, Len(delivered[c]), forwarded[c])

ClientBytes(c) == OnePort(c) /\ OwnData(c) /\ Buffered(c) /\ InOrder(c)

-----------------------------------------------------------------------------
(* What adding and taking a packet says of a queue.                          *)

\* What a packet that is added says of a queue.
LEMMA PacketIsAdded ==
  ASSUME NEW q \in Seq(FwdPackets), NEW m \in FwdPackets
  PROVE  /\ Append(q, m) \in Seq(FwdPackets)
         /\ \A op, port, c : Holds(Append(q, m), op, port, c) <=>
               Holds(q, op, port, c) \/ (m.op = op /\ m.port = port /\ m.of = c)
         /\ \A op, port : Bound(Append(q, m), op, port) <=> Bound(q, op, port) \/ (m.op = op /\ m.port = port)
         /\ \A op, port : Twice(Append(q, m), op, port) <=>
               Twice(q, op, port) \/ (Bound(q, op, port) /\ m.op = op /\ m.port = port)
         /\ \A port : EndsWith(Append(q, m), port) <=>
               \/ m.port = port /\ m.op \in {"SHUTDOWN", "RST"}
               \/ EndsWith(q, port) /\ ~(m.port = port /\ m.op = "REQUEST")
<1> DEFINE r == Append(q, m)
           n == Len(q)
<1>1. /\ r \in Seq(FwdPackets) /\ n \in Nat /\ Len(r) = n + 1 /\ r[n + 1] = m
      /\ \A i \in 1..n : r[i] = q[i]
  OBVIOUS
<1>2. \A i \in 1..Len(r) : i \in 1..n \/ i = n + 1
  BY <1>1
<1>3. \A i \in 1..n : i \in 1..Len(r) /\ i < n + 1
  BY <1>1
<1>4. n + 1 \in 1..Len(r)
  BY <1>1
<1> HIDE DEF r
<1>5. \A op, port, c : Holds(r, op, port, c) <=>
               Holds(q, op, port, c) \/ (m.op = op /\ m.port = port /\ m.of = c)
  BY ONLY <1>1, <1>2, <1>3, <1>4 DEF Holds, n
<1>6. \A op, port : Bound(r, op, port) <=> Bound(q, op, port) \/ (m.op = op /\ m.port = port)
  BY ONLY <1>1, <1>2, <1>3, <1>4 DEF Bound, n
<1>7. \A op, port : Twice(r, op, port) <=>
               Twice(q, op, port) \/ (Bound(q, op, port) /\ m.op = op /\ m.port = port)
  BY ONLY <1>1, <1>2, <1>3, <1>4 DEF Twice, Bound, n
<1>8. \A port : EndsWith(r, port) <=>
               \/ m.port = port /\ m.op \in {"SHUTDOWN", "RST"}
               \/ EndsWith(q, port) /\ ~(m.port = port /\ m.op = "REQUEST")
  BY ONLY <1>1, <1>2, <1>3, <1>4 DEF EndsWith, n
<1> QED
  BY <1>1, <1>5, <1>6, <1>7, <1>8 DEF r

\* What the packet that is taken has said of a queue.
LEMMA PacketIsTaken ==
  ASSUME NEW q \in Seq(FwdPackets), q # <<>>
  PROVE  /\ Tail(q) \in Seq(FwdPackets) /\ Head(q) \in FwdPackets
         /\ \A op, port, c : Holds(q, op, port, c) <=>
               Holds(Tail(q), op, port, c) \/ (Head(q).op = op /\ Head(q).port = port /\ Head(q).of = c)
         /\ \A op, port : Bound(q, op, port) <=>
               Bound(Tail(q), op, port) \/ (Head(q).op = op /\ Head(q).port = port)
         /\ \A op, port : Twice(q, op, port) <=>
               Twice(Tail(q), op, port) \/ (Bound(Tail(q), op, port) /\ Head(q).op = op /\ Head(q).port = port)
         /\ \A port : EndsWith(Tail(q), port) => EndsWith(q, port)
<1> DEFINE r == Tail(q)
           n == Len(r)
           m == Head(q)
<1>1. /\ r \in Seq(FwdPackets) /\ n \in Nat /\ Len(q) = n + 1 /\ q[1] = m /\ m \in FwdPackets
      /\ \A i \in 1..n : r[i] = q[i + 1]
  OBVIOUS
<1>2. \A i \in 1..Len(q) : i = 1 \/ (i - 1 \in 1..n /\ i > 1 /\ r[i - 1] = q[i])
  BY <1>1
<1>3. \A i \in 1..n : i + 1 \in 1..Len(q) /\ 1 < i + 1
  BY <1>1
<1>4. 1 \in 1..Len(q)
  BY <1>1
<1> HIDE DEF r, m
<1>5. \A op, port, c : Holds(q, op, port, c) <=>
               Holds(r, op, port, c) \/ (m.op = op /\ m.port = port /\ m.of = c)
  BY ONLY <1>1, <1>2, <1>3, <1>4 DEF Holds, n
<1>6. \A op, port : Bound(q, op, port) <=> Bound(r, op, port) \/ (m.op = op /\ m.port = port)
  BY ONLY <1>1, <1>2, <1>3, <1>4 DEF Bound, n
<1>7. \A op, port : Twice(q, op, port) <=>
               Twice(r, op, port) \/ (Bound(r, op, port) /\ m.op = op /\ m.port = port)
  <2> TAKE op, port
  <2>1. ASSUME Twice(q, op, port)
        PROVE  Twice(r, op, port) \/ (Bound(r, op, port) /\ m.op = op /\ m.port = port)
    <3>1. PICK i \in 1..Len(q), j \in 1..Len(q) : /\ i < j /\ q[i].op = op /\ q[i].port = port
                                                /\ q[j].op = op /\ q[j].port = port
      BY <2>1 DEF Twice
    <3>2. j - 1 \in 1..n /\ r[j - 1] = q[j]
      BY <1>2, <3>1
    <3>3. CASE i = 1
      BY <1>1, <3>1, <3>2, <3>3 DEF Bound
    <3>4. CASE i # 1
      <4>1. i - 1 \in 1..n /\ r[i - 1] = q[i] /\ i - 1 < j - 1
        BY <1>2, <3>1, <3>4
      <4> QED
        BY <3>1, <3>2, <4>1 DEF Twice
    <3> QED
      BY <3>3, <3>4
  <2>2. ASSUME Twice(r, op, port) PROVE Twice(q, op, port)
    <3>1. PICK i \in 1..n, j \in 1..n : /\ i < j /\ r[i].op = op /\ r[i].port = port
                                       /\ r[j].op = op /\ r[j].port = port
      BY <2>2 DEF Twice
    <3>2. i + 1 \in 1..Len(q) /\ j + 1 \in 1..Len(q) /\ i + 1 < j + 1 /\ q[i + 1] = r[i] /\ q[j + 1] = r[j]
      BY <1>1, <3>1
    <3> QED
      BY <3>1, <3>2 DEF Twice
  <2>3. ASSUME Bound(r, op, port), m.op = op, m.port = port PROVE Twice(q, op, port)
    BY <1>1, <1>3, <1>4, <2>3 DEF Twice, Bound
  <2> QED
    BY <2>1, <2>2, <2>3
<1>8. \A port : EndsWith(r, port) => EndsWith(q, port)
  <2> SUFFICES ASSUME NEW port, EndsWith(r, port) PROVE EndsWith(q, port)
    OBVIOUS
  <2>1. PICK i \in 1..n : /\ r[i].op \in {"SHUTDOWN", "RST"} /\ r[i].port = port
                          /\ \A j \in 1..n : j > i => ~(r[j].op = "REQUEST" /\ r[j].port = port)
    BY DEF EndsWith
  <2>2. i + 1 \in 1..Len(q) /\ q[i + 1] = r[i]
    BY <1>1
  <2>3. ASSUME NEW j \in 1..Len(q), j > i + 1 PROVE ~(q[j].op = "REQUEST" /\ q[j].port = port)
    <3>1. j - 1 \in 1..n /\ r[j - 1] = q[j] /\ j - 1 > i
      BY <1>2, <2>3
    <3> QED
      BY <2>1, <3>1
  <2> QED
    BY <2>1, <2>2, <2>3 DEF EndsWith
<1> QED
  BY <1>1, <1>5, <1>6, <1>7, <1>8 DEF r, m

\* An end that is not the last word is followed by a request.
LEMMA RequestFollowsEnd ==
  ASSUME NEW q \in Seq(FwdPackets), NEW port, Bound(q, "SHUTDOWN", port) \/ Bound(q, "RST", port),
         ~EndsWith(q, port)
  PROVE  Bound(q, "REQUEST", port)
  BY DEF Bound, EndsWith

\* A packet in a queue is of somebody and for a host port.
LEMMA PacketHasOwner ==
  ASSUME NEW q \in Seq(FwdPackets), NEW op, NEW port
  PROVE  /\ Bound(q, op, port) => port \in HostPorts /\ \E c \in Owner : Holds(q, op, port, c)
         /\ \A c : Holds(q, op, port, c) => Bound(q, op, port)
<1>1. \A i \in 1..Len(q) : q[i].port \in HostPorts /\ q[i].of \in Owner
  <2> TAKE i \in 1..Len(q)
  <2>1. q[i] \in FwdPackets
    OBVIOUS
  <2> QED
    BY <2>1 DEF FwdPackets
<1> QED
  BY <1>1 DEF Bound, Holds

\* The queue r is the queue q with a packet added, or without its first packet.
Added(q, r, op, port, of) ==
    /\ r \in Seq(FwdPackets)
    /\ \A o, p, c : Holds(r, o, p, c) <=> Holds(q, o, p, c) \/ (o = op /\ p = port /\ c = of)
    /\ \A o, p : Bound(r, o, p) <=> Bound(q, o, p) \/ (o = op /\ p = port)
    /\ \A o, p : Twice(r, o, p) <=> Twice(q, o, p) \/ (Bound(q, o, p) /\ o = op /\ p = port)
    /\ \A p : EndsWith(r, p) <=> \/ p = port /\ op \in {"SHUTDOWN", "RST"}
                                 \/ EndsWith(q, p) /\ ~(p = port /\ op = "REQUEST")

Taken(q, r, op, port, of) ==
    /\ r \in Seq(FwdPackets)
    /\ \A o, p, c : Holds(q, o, p, c) <=> Holds(r, o, p, c) \/ (o = op /\ p = port /\ c = of)
    /\ \A o, p : Bound(q, o, p) <=> Bound(r, o, p) \/ (o = op /\ p = port)
    /\ \A o, p : Twice(q, o, p) <=> Twice(r, o, p) \/ (Bound(r, o, p) /\ o = op /\ p = port)
    /\ \A p : EndsWith(r, p) => EndsWith(q, p)

\* Nothing about the port has changed, but for an end that is gone.
SameFor(q, r, port) ==
    /\ \A o : (Bound(r, o, port) <=> Bound(q, o, port)) /\ (Twice(r, o, port) <=> Twice(q, o, port))
    /\ \A o, c : Holds(r, o, port, c) <=> Holds(q, o, port, c)
    /\ EndsWith(r, port) => EndsWith(q, port)

\* A packet that is made is a packet.
LEMMA PacketIsMade ==
  ASSUME NEW op \in {"REQUEST", "RESPONSE", "RST", "SHUTDOWN", "RW"}, NEW port \in HostPorts,
         NEW of \in Owner, NEW data \in Seq(Bytes)
  PROVE  /\ FwdPacket(op, port, of, data) \in FwdPackets
         /\ FwdPacket(op, port, of, data).op = op /\ FwdPacket(op, port, of, data).port = port
         /\ FwdPacket(op, port, of, data).of = of /\ FwdPacket(op, port, of, data).data = data
  BY DEF FwdPacket, FwdPackets

\* A packet that a handler makes, at the end of a queue.
LEMMA AddedFacts ==
  ASSUME NEW q \in Seq(FwdPackets), NEW op \in {"REQUEST", "RESPONSE", "RST", "SHUTDOWN", "RW"},
         NEW port \in HostPorts, NEW of \in Owner, NEW data \in Seq(Bytes)
  PROVE  Added(q, Append(q, FwdPacket(op, port, of, data)), op, port, of)
<1> DEFINE m == FwdPacket(op, port, of, data)
<1>1. m \in FwdPackets /\ m.op = op /\ m.port = port /\ m.of = of
  BY PacketIsMade
<1> HIDE DEF m
<1>2. /\ Append(q, m) \in Seq(FwdPackets)
      /\ \A o, p, c : Holds(Append(q, m), o, p, c) <=>
               Holds(q, o, p, c) \/ (m.op = o /\ m.port = p /\ m.of = c)
      /\ \A o, p : Bound(Append(q, m), o, p) <=> Bound(q, o, p) \/ (m.op = o /\ m.port = p)
      /\ \A o, p : Twice(Append(q, m), o, p) <=>
               Twice(q, o, p) \/ (Bound(q, o, p) /\ m.op = o /\ m.port = p)
      /\ \A p : EndsWith(Append(q, m), p) <=>
               \/ m.port = p /\ m.op \in {"SHUTDOWN", "RST"}
               \/ EndsWith(q, p) /\ ~(m.port = p /\ m.op = "REQUEST")
  BY <1>1, PacketIsAdded, Zenon
<1> DEFINE r == Append(q, m)
<1> HIDE DEF r
<1>3. Added(q, r, op, port, of)
  BY ONLY <1>1, <1>2 DEF Added, r
<1> QED
  BY <1>3 DEF r, m

\* The first packet, taken from a queue.
LEMMA TakenFacts ==
  ASSUME NEW q \in Seq(FwdPackets), q # <<>>
  PROVE  Head(q) \in FwdPackets /\ Taken(q, Tail(q), Head(q).op, Head(q).port, Head(q).of)
<1> DEFINE r == Tail(q)
           op == Head(q).op
           port == Head(q).port
           of == Head(q).of
<1>1. /\ r \in Seq(FwdPackets) /\ Head(q) \in FwdPackets
      /\ \A o, p, c : Holds(q, o, p, c) <=> Holds(r, o, p, c) \/ (op = o /\ port = p /\ of = c)
      /\ \A o, p : Bound(q, o, p) <=> Bound(r, o, p) \/ (op = o /\ port = p)
      /\ \A o, p : Twice(q, o, p) <=> Twice(r, o, p) \/ (Bound(r, o, p) /\ op = o /\ port = p)
      /\ \A p : EndsWith(r, p) => EndsWith(q, p)
  BY PacketIsTaken, Zenon
<1> HIDE DEF r, op, port, of
<1>2. Taken(q, r, op, port, of)
  BY ONLY <1>1 DEF Taken
<1> QED
  BY <1>1, <1>2 DEF r, op, port, of

\* A packet says nothing of the ports it is not for.
LEMMA SameForOthers ==
  ASSUME NEW q, NEW r, NEW op, NEW port, NEW of, Added(q, r, op, port, of) \/ Taken(q, r, op, port, of),
         NEW p, p # port
  PROVE  SameFor(q, r, p)
<1>1. CASE Added(q, r, op, port, of)
  BY ONLY <1>1, p # port DEF Added, SameFor
<1>2. CASE Taken(q, r, op, port, of)
  BY ONLY <1>2, p # port DEF Taken, SameFor
<1> QED
  BY <1>1, <1>2

\* A queue that stays says nothing new.
LEMMA SameForAll ==
  ASSUME NEW q, NEW p PROVE SameFor(q, q, p)
  BY DEF SameFor

\* Two changes that say nothing of a port say nothing of it together.
LEMMA SameTwice ==
  ASSUME NEW q, NEW r, NEW s, NEW p, SameFor(q, r, p), SameFor(r, s, p) PROVE SameFor(q, s, p)
  BY DEF SameFor

\* A step that leaves a port alone.
LEMMA PortFrame ==
  ASSUME NEW port \in HostPorts, PortInv(port), fwdStreams \in [DOMAIN fwdStreams -> FwdStream],
         SameFor(toGuest, toGuest', port), SameFor(toHost, toHost', port),
         port \in DOMAIN fwdStreams' <=> port \in DOMAIN fwdStreams,
         port \in DOMAIN fwdStreams => fwdStreams'[port] = fwdStreams[port],
         port \in DOMAIN fwdStreams /\ fwdStreams[port].plug # Awaiter =>
            mConnected'[fwdStreams[port].plug] = mConnected[fwdStreams[port].plug],
         port \in DOMAIN guestSockets' <=> port \in DOMAIN guestSockets,
         port \in DOMAIN guestSockets => guestSockets'[port] = guestSockets[port]
  PROVE  PortInv(port)'
<1>1. SocketHeard(port)'
  BY DEF PortInv, SocketHeard, SameFor, HostEnds
<1>2. StreamAnswered(port)'
  BY DEF PortInv, StreamAnswered, SameFor, ToHost
<1>3. ClientAlone(port)'
  BY DEF PortInv, ClientAlone, SameFor, ToHost, HostEnds, GuestEnds, Connecting, Connected
<1> QED
  BY <1>1, <1>2, <1>3 DEF PortInv

-----------------------------------------------------------------------------
(* PortInv is kept by every step: the host's, then the guest's.              *)

\* The inductive invariant of NoHalfOpen: a client that got a clean port has it as
\* long as it has one, so PortInv is known of its port.
PortsInv ==
    /\ PFInv /\ PFTypes /\ tainted \subseteq HostPorts
    /\ \A port \in HostPorts \ tainted : PortInv(port)
    /\ \A c \in TcpClients \ soiled : mGuestSocket[c] \notin tainted

\* What remains of a function without a port.
LEMMA WithoutFacts ==
  ASSUME NEW f, NEW port
  PROVE  /\ DOMAIN Without(f, port) = DOMAIN f \ {port}
         /\ \A p \in DOMAIN f \ {port} : Without(f, port)[p] = f[p]
  BY DEF Without


\* The stream of a client is the one its pointer says.
LEMMA StreamOfClient ==
  ASSUME PortsInv, NEW c \in TcpClients, tcp[c] = "open"
  PROVE  /\ mGuestSocket[c] \in HostPorts /\ mGuestSocket[c] \in DOMAIN fwdStreams
         /\ fwdStreams[mGuestSocket[c]].plug = c /\ c # Awaiter
         /\ \A port \in DOMAIN fwdStreams : port # mGuestSocket[c] => fwdStreams[port].plug # c
<1>1. mGuestSocket[c] \in HostPorts
  BY DEF PortsInv, PFInv, PFTypes, QueueTypes, GuestTypes, ClientTypes
<1>2. mGuestSocket[c] \in DOMAIN fwdStreams /\ fwdStreams[mGuestSocket[c]].plug = c
  BY <1>1 DEF PortsInv, PFInv, PointersAgree
<1>3. \A port \in DOMAIN fwdStreams : port \in HostPorts
  BY DEF PortsInv, PFInv
<1> QED
  BY <1>1, <1>2, <1>3, PortForwardAssumption DEF PortsInv, PFInv, PointersAgree

\* A stream that its host end drops, with a SHUTDOWN to the guest.
LEMMA HostDrops ==
  ASSUME NEW port \in HostPorts, PortInv(port), NEW of,
         port \in DOMAIN fwdStreams, port \notin DOMAIN fwdStreams',
         Added(toGuest, toGuest', "SHUTDOWN", port, of)
  PROVE  PortInv(port)'
<1>1. SocketHeard(port)'
  BY DEF SocketHeard, Added, HostEnds
<1> QED
  BY <1>1 DEF PortInv, StreamAnswered, ClientAlone

\* A client hangs up.
LEMMA CloseHostPorts ==
  ASSUME PortsInv, NEW c \in TcpClients, CloseHost(c), NEW port \in HostPorts, PortInv(port)
  PROVE  PortInv(port)'
<1> DEFINE old == mGuestSocket[c]
<1>1. old \in HostPorts /\ old \in DOMAIN fwdStreams /\ PortInv(port)
  BY StreamOfClient DEF CloseHost, PortsInv
<1>2. /\ fwdStreams' = Without(fwdStreams, old) /\ toHost' = toHost /\ mConnected' = mConnected
      /\ toGuest' = Append(toGuest, FwdPacket("SHUTDOWN", old, c, <<>>)) /\ guestSockets' = guestSockets
  BY DEF CloseHost, guestVars
<1> HIDE DEF old
<1>3. DOMAIN fwdStreams' = DOMAIN fwdStreams \ {old} /\ \A p \in DOMAIN fwdStreams \ {old} : fwdStreams'[p] = fwdStreams[p]
  BY <1>2, WithoutFacts
<1>4. Added(toGuest, toGuest', "SHUTDOWN", old, c)
  <2>1. toGuest \in Seq(FwdPackets) /\ c \in Owner /\ <<>> \in Seq(Bytes)
    BY DEF PortsInv, PFTypes, QueueTypes, GuestTypes, ClientTypes, Owner
  <2> QED
    BY <1>1, <1>2, <2>1, AddedFacts
<1>5. CASE port = old
  BY <1>1, <1>3, <1>4, <1>5, HostDrops
<1>6. CASE port # old
  <2>1. SameFor(toGuest, toGuest', port)
    BY <1>4, <1>6, SameForOthers
  <2>2. SameFor(toHost, toHost', port)
    BY <1>2, SameForAll
  <2>3. fwdStreams \in [DOMAIN fwdStreams -> FwdStream]
    BY DEF PortsInv, PFInv
  <2> QED
    BY <1>1, <1>2, <1>3, <1>6, <2>1, <2>2, <2>3, PortFrame
<1> QED
  BY <1>5, <1>6

\* A packet that is taken from the guest's queue, or from the host's.
LEMMA GuestPacketTaken ==
  ASSUME PortsInv, toGuest # <<>>, toGuest' = Tail(toGuest)
  PROVE  /\ Head(toGuest) \in FwdPackets /\ Head(toGuest).op # "RESPONSE"
         /\ Taken(toGuest, toGuest', Head(toGuest).op, Head(toGuest).port, Head(toGuest).of)
<1>1. toGuest \in Seq(FwdPackets)
  BY DEF PortsInv, PFTypes, QueueTypes, GuestTypes, ClientTypes
<1>2. /\ Head(toGuest) \in FwdPackets
      /\ Taken(toGuest, toGuest', Head(toGuest).op, Head(toGuest).port, Head(toGuest).of)
  BY <1>1, TakenFacts
<1>3. Head(toGuest).port \in HostPorts
  BY <1>2 DEF FwdPackets
<1>4. Bound(toGuest, Head(toGuest).op, Head(toGuest).port)
  BY <1>2 DEF Taken
<1> QED
  BY <1>2, <1>3, <1>4 DEF PortsInv, PFTypes, QueueTypes, GuestTypes, ClientTypes

\* The device takes a packet of a host port that has somebody's name.
LEMMA HostPacketTaken ==
  ASSUME PortsInv, toHost # <<>>, toHost' = Tail(toHost)
  PROVE  /\ Arrived \in FwdPackets /\ Arrived.op # "REQUEST" /\ Arrived.port \in HostPorts /\ Arrived.of \in Owner
         /\ Taken(toHost, toHost', Arrived.op, Arrived.port, Arrived.of)
<1>1. toHost \in Seq(FwdPackets)
  BY DEF PortsInv, PFTypes, QueueTypes, GuestTypes, ClientTypes
<1>2. /\ Head(toHost) \in FwdPackets
      /\ Taken(toHost, toHost', Head(toHost).op, Head(toHost).port, Head(toHost).of)
  BY <1>1, TakenFacts
<1>3. Head(toHost).port \in HostPorts /\ Head(toHost).of \in Owner
  BY <1>2 DEF FwdPackets
<1>4. Bound(toHost, Head(toHost).op, Head(toHost).port)
  BY <1>2 DEF Taken
<1> QED
  BY <1>2, <1>3, <1>4 DEF PortsInv, PFTypes, QueueTypes, GuestTypes, ClientTypes, Arrived

\* A packet that is put into one of the queues.
LEMMA GuestPacketAdded ==
  ASSUME PortsInv, NEW op \in {"REQUEST", "RST", "SHUTDOWN", "RW"}, NEW port \in HostPorts, NEW of \in Owner,
         NEW data \in Seq(Bytes), toGuest' = Append(toGuest, FwdPacket(op, port, of, data))
  PROVE  Added(toGuest, toGuest', op, port, of)
<1>1. toGuest \in Seq(FwdPackets)
  BY DEF PortsInv, PFTypes, QueueTypes, GuestTypes, ClientTypes
<1> QED
  BY <1>1, AddedFacts

\* The guest sends a packet.
LEMMA HostPacketAdded ==
  ASSUME PortsInv, NEW op \in {"RESPONSE", "RST", "SHUTDOWN", "RW"}, NEW port \in HostPorts, NEW of \in Owner,
         toHost' = Append(toHost, FwdPacket(op, port, of, <<>>))
  PROVE  Added(toHost, toHost', op, port, of)
<1>1. toHost \in Seq(FwdPackets) /\ <<>> \in Seq(Bytes)
  BY DEF PortsInv, PFTypes, QueueTypes, GuestTypes, ClientTypes
<1> QED
  BY <1>1, AddedFacts

\* Each stream has a plug, and each plug one stream.
LEMMA StreamHasOwner ==
  ASSUME PortsInv, NEW port \in DOMAIN fwdStreams
  PROVE  /\ port \in HostPorts /\ fwdStreams[port].plug \in Owner /\ fwdStreams[port].isConnected \in BOOLEAN
         /\ \A p \in DOMAIN fwdStreams : p # port => fwdStreams[p].plug # fwdStreams[port].plug
<1>1. port \in HostPorts /\ fwdStreams[port].plug \in Owner /\ fwdStreams[port].isConnected \in BOOLEAN
  BY DEF PortsInv, PFInv, FwdStream, Owner
<1>2. \A p \in DOMAIN fwdStreams : p \in HostPorts
  BY DEF PortsInv, PFInv
<1> QED
  BY <1>1, <1>2 DEF PortsInv, PFInv, PointersAgree, Owner

\* A step that leaves a port's stream, socket and packets alone keeps PortInv.
LEMMA OtherPort ==
  ASSUME PortsInv, NEW port \in HostPorts, PortInv(port),
         SameFor(toGuest, toGuest', port), SameFor(toHost, toHost', port), mConnected' = mConnected,
         port \in DOMAIN fwdStreams' <=> port \in DOMAIN fwdStreams,
         port \in DOMAIN fwdStreams => fwdStreams'[port] = fwdStreams[port],
         port \in DOMAIN guestSockets' <=> port \in DOMAIN guestSockets,
         port \in DOMAIN guestSockets => guestSockets'[port] = guestSockets[port]
  PROVE  PortInv(port)'
<1>1. PortInv(port) /\ fwdStreams \in [DOMAIN fwdStreams -> FwdStream]
  BY DEF PortsInv, PFInv
<1> QED
  BY <1>1, PortFrame

\* onConnect() of the awaiter: the end follows its answer.
LEMMA AwaiterOnConnectPorts ==
  ASSUME PortsInv, AwaiterOnConnect, NEW port \in HostPorts, PortInv(port)
  PROVE  PortInv(port)'
<1> DEFINE old == Arrived.port
<1>1. /\ toHost # <<>> /\ toHost' = Tail(toHost) /\ old \in DOMAIN fwdStreams
      /\ fwdStreams' = Without(fwdStreams, old) /\ mConnected' = mConnected /\ guestSockets' = guestSockets
      /\ toGuest' = Append(toGuest, FwdPacket("SHUTDOWN", old, Awaiter, <<>>))
  BY DEF AwaiterOnConnect, Arrives, clientVars, guestVars
<1>2. old \in HostPorts /\ \E op, of : Taken(toHost, toHost', op, old, of)
  BY <1>1, HostPacketTaken
<1>3. PICK op, of : Taken(toHost, toHost', op, old, of)
  BY <1>2
<1> HIDE DEF old
<1>4. DOMAIN fwdStreams' = DOMAIN fwdStreams \ {old} /\ \A p \in DOMAIN fwdStreams \ {old} : fwdStreams'[p] = fwdStreams[p]
  BY <1>1, WithoutFacts
<1>5. Added(toGuest, toGuest', "SHUTDOWN", old, Awaiter)
  <2>1. Awaiter \in Owner /\ <<>> \in Seq(Bytes)
    BY DEF Owner
  <2> QED
    BY <1>1, <1>2, <2>1, GuestPacketAdded
<1>6. CASE port = old
  <2>1. PortInv(port)
    BY DEF PortsInv
  <2> QED
    BY <1>1, <1>4, <1>5, <1>6, <2>1, HostDrops
<1>7. CASE port # old
  <2>1. SameFor(toGuest, toGuest', port) /\ SameFor(toHost, toHost', port)
    BY <1>3, <1>5, <1>7, SameForOthers
  <2> QED
    BY <1>1, <1>4, <1>7, <2>1, OtherPort
<1> QED
  BY <1>6, <1>7

\* SHUTDOWN, and data nobody takes: the stream goes and the guest is told.
LEMMA HangUpPorts ==
  ASSUME PortsInv, ReceiveAndHangUp, NEW port \in HostPorts, PortInv(port)
  PROVE  PortInv(port)'
<1> DEFINE old == Arrived.port
           plug == fwdStreams[Arrived.port].plug
<1>1. /\ toHost # <<>> /\ toHost' = Tail(toHost) /\ old \in DOMAIN fwdStreams
      /\ fwdStreams' = Without(fwdStreams, old) /\ mConnected' = mConnected /\ guestSockets' = guestSockets
      /\ toGuest' = Append(toGuest, FwdPacket("SHUTDOWN", old, plug, <<>>))
  BY DEF ReceiveAndHangUp, OnUnplugFwd, Arrives, ArrivedFor, guestVars
<1>2. old \in HostPorts /\ plug \in Owner /\ \E op, of : Taken(toHost, toHost', op, old, of)
  BY <1>1, HostPacketTaken, StreamHasOwner
<1>3. PICK op, of : Taken(toHost, toHost', op, old, of)
  BY <1>2
<1> HIDE DEF old, plug
<1>4. DOMAIN fwdStreams' = DOMAIN fwdStreams \ {old} /\ \A p \in DOMAIN fwdStreams \ {old} : fwdStreams'[p] = fwdStreams[p]
  BY <1>1, WithoutFacts
<1>5. Added(toGuest, toGuest', "SHUTDOWN", old, plug)
  <2>1. <<>> \in Seq(Bytes)
    OBVIOUS
  <2> QED
    BY <1>1, <1>2, <2>1, GuestPacketAdded
<1>6. CASE port = old
  <2>1. PortInv(port)
    BY DEF PortsInv
  <2> QED
    BY <1>1, <1>4, <1>5, <1>6, <2>1, HostDrops
<1>7. CASE port # old
  <2>1. SameFor(toGuest, toGuest', port) /\ SameFor(toHost, toHost', port)
    BY <1>3, <1>5, <1>7, SameForOthers
  <2> QED
    BY <1>1, <1>4, <1>7, <2>1, OtherPort
<1> QED
  BY <1>6, <1>7

\* RST: the stream goes; a socket of the guest is left only with word on its way.
LEMMA RstPorts ==
  ASSUME PortsInv, ReceiveRst, NEW port \in HostPorts, PortInv(port)
  PROVE  PortInv(port)'
<1> DEFINE old == Arrived.port
<1>1. /\ toHost # <<>> /\ toHost' = Tail(toHost) /\ old \in DOMAIN fwdStreams /\ Arrived.op = "RST"
      /\ fwdStreams' = Without(fwdStreams, old) /\ mConnected' = mConnected /\ guestSockets' = guestSockets
      /\ toGuest' = toGuest
  BY DEF ReceiveRst, OnUnplugFwd, Arrives, ArrivedFor, guestVars
<1>2. old \in HostPorts /\ \E of : Taken(toHost, toHost', "RST", old, of)
  BY <1>1, HostPacketTaken
<1>3. PICK of : Taken(toHost, toHost', "RST", old, of)
  BY <1>2
<1> HIDE DEF old
<1>4. DOMAIN fwdStreams' = DOMAIN fwdStreams \ {old} /\ \A p \in DOMAIN fwdStreams \ {old} : fwdStreams'[p] = fwdStreams[p]
  BY <1>1, WithoutFacts
<1>5. CASE port = old
  <2>1. PortInv(port) /\ port \notin DOMAIN fwdStreams'
    BY <1>4, <1>5 DEF PortsInv
  <2>2. SocketHeard(port)'
    BY <1>1, <1>3, <1>5, <2>1 DEF PortInv, SocketHeard, StreamAnswered, ClientAlone, HostEnds, GuestEnds, Taken
  <2> QED
    BY <2>1, <2>2 DEF PortInv, StreamAnswered, ClientAlone
<1>6. CASE port # old
  <2>1. SameFor(toGuest, toGuest', port) /\ SameFor(toHost, toHost', port)
    BY <1>1, <1>3, <1>6, SameForOthers, SameForAll
  <2> QED
    BY <1>1, <1>4, <1>6, <2>1, OtherPort
<1> QED
  BY <1>5, <1>6

\* Data of the guest changes nothing but the queue.
LEMMA RwPorts ==
  ASSUME PortsInv, ReceiveRwFwd, NEW port \in HostPorts, PortInv(port)
  PROVE  PortInv(port)'
<1> DEFINE old == Arrived.port
<1>1. /\ toHost # <<>> /\ toHost' = Tail(toHost) /\ old \in DOMAIN fwdStreams /\ Arrived.op = "RW"
      /\ fwdStreams' = fwdStreams /\ mConnected' = mConnected /\ guestSockets' = guestSockets
      /\ toGuest' = toGuest /\ fwdStreams[old].isConnected
  BY DEF ReceiveRwFwd, Arrives, ArrivedFor, guestVars, clientVars
<1>2. old \in HostPorts /\ \E of : Taken(toHost, toHost', "RW", old, of)
  BY <1>1, HostPacketTaken
<1>3. PICK of : Taken(toHost, toHost', "RW", old, of)
  BY <1>2
<1> HIDE DEF old
<1>4. CASE port = old
  <2>1. PortInv(port)
    BY DEF PortsInv
  <2>2. SocketHeard(port)'
    BY <1>1, <1>3, <1>4, <2>1 DEF PortInv, SocketHeard, HostEnds, Taken
  <2>3. StreamAnswered(port)'
    BY <1>1, <1>3, <1>4, <2>1 DEF PortInv, StreamAnswered
  <2>4. ClientAlone(port)'
    BY <1>1, <1>3, <1>4, <2>1 DEF PortInv, ClientAlone, HostEnds, GuestEnds, Taken, Connected
  <2> QED
    BY <2>2, <2>3, <2>4 DEF PortInv
<1>5. CASE port # old
  <2>1. SameFor(toGuest, toGuest', port) /\ SameFor(toHost, toHost', port)
    BY <1>1, <1>3, <1>5, SameForOthers, SameForAll
  <2> QED
    BY <1>1, <1>5, <2>1, OtherPort
<1> QED
  BY <1>4, <1>5

\* A packet without a stream: the RST that answers it finds no stream.
LEMMA UnknownPorts ==
  ASSUME PortsInv, ReceiveUnknown, NEW port \in HostPorts, PortInv(port)
  PROVE  PortInv(port)'
<1> DEFINE old == Arrived.port
           op == Arrived.op
           of == Arrived.of
<1>1. /\ toHost # <<>> /\ toHost' = Tail(toHost) /\ old \notin DOMAIN fwdStreams
      /\ fwdStreams' = fwdStreams /\ mConnected' = mConnected /\ guestSockets' = guestSockets
      /\ toGuest' = IF op \in {"RST", "RW"} THEN toGuest ELSE Append(toGuest, FwdPacket("RST", old, of, <<>>))
  BY DEF ReceiveUnknown, guestVars, clientVars
<1>2. old \in HostPorts /\ of \in Owner /\ Taken(toHost, toHost', op, old, of)
  BY <1>1, HostPacketTaken
<1> HIDE DEF old, op, of
<1>3. IF op \in {"RST", "RW"} THEN toGuest' = toGuest ELSE Added(toGuest, toGuest', "RST", old, of)
  <2>1. <<>> \in Seq(Bytes)
    OBVIOUS
  <2> QED
    BY <1>1, <1>2, <2>1, GuestPacketAdded
<1>4. CASE port = old
  <2>1. PortInv(port) /\ port \notin DOMAIN fwdStreams'
    BY <1>1, <1>4 DEF PortsInv
  <2>2. SocketHeard(port)'
    <3>1. CASE op \in {"RST", "RW"}
      BY <1>1, <1>2, <1>3, <1>4, <2>1, <3>1 DEF PortInv, SocketHeard, HostEnds, Taken
    <3>2. CASE op \notin {"RST", "RW"}
      BY <1>3, <1>4, <3>2 DEF SocketHeard, HostEnds, Added
    <3> QED
      BY <3>1, <3>2
  <2> QED
    BY <2>1, <2>2 DEF PortInv, StreamAnswered, ClientAlone
<1>5. CASE port # old
  <2>1. SameFor(toGuest, toGuest', port) /\ SameFor(toHost, toHost', port)
    BY <1>2, <1>3, <1>5, SameForOthers, SameForAll
  <2> QED
    BY <1>1, <1>5, <2>1, OtherPort
<1> QED
  BY <1>4, <1>5

\* onConnect() of a client: it has been asked for once, so this is the only answer.
LEMMA ClientOnConnectPorts ==
  ASSUME PortsInv, ClientOnConnect, NEW port \in HostPorts, PortInv(port)
  PROVE  PortInv(port)'
<1> DEFINE old == Arrived.port
<1>1. PICK c \in TcpClients :
        /\ toHost # <<>> /\ toHost' = Tail(toHost) /\ old \in DOMAIN fwdStreams /\ Arrived.op = "RESPONSE"
        /\ fwdStreams[old].plug = c /\ fwdStreams' = [fwdStreams EXCEPT ![old].isConnected = TRUE]
        /\ mConnected' = [mConnected EXCEPT ![c] = TRUE] /\ guestSockets' = guestSockets
        /\ toGuest' = IF mPreConnectedBuffer[c] = <<>> THEN toGuest
                      ELSE Append(toGuest, FwdPacket("RW", old, c, mPreConnectedBuffer[c]))
  BY DEF ClientOnConnect, Arrives, ArrivedFor, guestVars
<1>2. old \in HostPorts /\ \E of : Taken(toHost, toHost', "RESPONSE", old, of)
  BY <1>1, HostPacketTaken
<1>3. PICK of : Taken(toHost, toHost', "RESPONSE", old, of)
  BY <1>2
<1> HIDE DEF old
<1>4. toGuest' = toGuest \/ Added(toGuest, toGuest', "RW", old, c)
  <2>1. mPreConnectedBuffer[c] \in Seq(Bytes) /\ c \in Owner
    BY DEF PortsInv, PFTypes, QueueTypes, GuestTypes, ClientTypes, Owner
  <2> QED
    BY <1>1, <1>2, <2>1, GuestPacketAdded
<1>5. /\ DOMAIN fwdStreams' = DOMAIN fwdStreams /\ fwdStreams'[old].plug = c /\ fwdStreams'[old].isConnected
      /\ \A p \in DOMAIN fwdStreams \ {old} : fwdStreams'[p] = fwdStreams[p]
  BY <1>1 DEF PortsInv, PFInv, FwdStream
<1>6. mConnected'[c] = TRUE /\ \A d \in TcpClients \ {c} : mConnected'[d] = mConnected[d]
  BY <1>1 DEF PortsInv, PFTypes, QueueTypes, GuestTypes, ClientTypes
<1>7. CASE port = old
  <2>1. PortInv(port) /\ c # Awaiter
    BY PortForwardAssumption DEF PortsInv
  <2>2. Bound(toHost, "RESPONSE", port) /\ ToHost(port)
    BY <1>3, <1>7 DEF Taken, ToHost
  <2>3. /\ ~fwdStreams[port].isConnected /\ ~HostEnds(port) /\ ~Twice(toHost, "RESPONSE", port)
        /\ \A op \in {"REQUEST", "RW"}, d \in Owner : Holds(toGuest, op, port, d) => d = c
        /\ ~Bound(toGuest, "REQUEST", port)
        /\ port \in DOMAIN guestSockets => guestSockets[port] = c /\ ~GuestEnds(port)
        /\ port \notin DOMAIN guestSockets => GuestEnds(port)
    BY <1>1, <1>7, <2>1, <2>2 DEF PortInv, ClientAlone, Connected, Connecting
  <2>4. ~HostEnds(port)' /\ ~Bound(toGuest', "REQUEST", port)
        /\ (EndsWith(toGuest', port) => EndsWith(toGuest, port))
    BY <1>4, <2>3 DEF Added, HostEnds
  <2>5. \A op \in {"REQUEST", "RW"}, d \in Owner : Holds(toGuest', op, port, d) => d = c
    BY <1>4, <2>3 DEF Added
  <2>6. ~Bound(toHost', "RESPONSE", port) /\ ~Twice(toHost', "RESPONSE", port)
    BY <1>3, <1>7, <2>3 DEF Taken
  <2>7. GuestEnds(port)' <=> GuestEnds(port)
    BY <1>3 DEF Taken, GuestEnds
  <2>8. SocketHeard(port)'
    BY <1>1, <1>5, <1>7 DEF SocketHeard
  <2>9. StreamAnswered(port)'
    BY <1>1, <1>5, <1>7, <2>1, <2>4 DEF PortInv, StreamAnswered
  <2>10. ClientAlone(port)'
    BY <1>1, <1>5, <1>6, <1>7, <2>3, <2>4, <2>5, <2>6, <2>7 DEF ClientAlone, Connected
  <2> QED
    BY <2>8, <2>9, <2>10 DEF PortInv
<1>8. CASE port # old
  <2>1. SameFor(toGuest, toGuest', port) /\ SameFor(toHost, toHost', port)
    BY <1>3, <1>4, <1>8, SameForOthers, SameForAll
  <2>2. port \in DOMAIN fwdStreams /\ fwdStreams[port].plug # Awaiter =>
            mConnected'[fwdStreams[port].plug] = mConnected[fwdStreams[port].plug]
    BY <1>1, <1>6, <1>8, StreamHasOwner DEF Owner
  <2>3. PortInv(port) /\ fwdStreams \in [DOMAIN fwdStreams -> FwdStream]
    BY DEF PortsInv, PFInv
  <2> QED
    BY <1>1, <1>5, <1>8, <2>1, <2>2, <2>3, PortFrame
<1> QED
  BY <1>7, <1>8

\* receiveHost(): data goes to the guest on a connected stream only.
LEMMA ReceiveHostPorts ==
  ASSUME PortsInv, NEW c \in TcpClients, ReceiveHost(c), NEW port \in HostPorts, PortInv(port)
  PROVE  PortInv(port)'
<1> DEFINE own == mGuestSocket[c]
           byte == <<c, forwarded[c] + 1>>
<1>1. /\ own \in HostPorts /\ own \in DOMAIN fwdStreams /\ fwdStreams[own].plug = c /\ c # Awaiter
  BY StreamOfClient DEF ReceiveHost
<1>2. /\ fwdStreams' = fwdStreams /\ toHost' = toHost /\ mConnected' = mConnected /\ guestSockets' = guestSockets
      /\ IF mConnected[c] THEN toGuest' = Append(toGuest, FwdPacket("RW", own, c, <<byte>>)) ELSE toGuest' = toGuest
  BY DEF ReceiveHost, guestVars
<1>3. <<byte>> \in Seq(Bytes) /\ c \in Owner
  BY DEF PortsInv, PFTypes, QueueTypes, GuestTypes, ClientTypes, Bytes, Owner
<1> HIDE DEF own, byte
<1>4. IF mConnected[c] THEN Added(toGuest, toGuest', "RW", own, c) ELSE toGuest' = toGuest
  BY <1>1, <1>2, <1>3, GuestPacketAdded
<1>5. CASE port = own /\ mConnected[c]
  <2>1. PortInv(port) /\ Added(toGuest, toGuest', "RW", own, c)
    BY <1>4, <1>5 DEF PortsInv
  <2>2. SocketHeard(port)'
    BY <1>2, <2>1 DEF PortInv, SocketHeard, HostEnds, Added
  <2>3. StreamAnswered(port)'
    BY <1>2, <2>1 DEF PortInv, StreamAnswered, ToHost, Added
  <2>4. ClientAlone(port)'
    BY <1>1, <1>2, <1>5, <2>1 DEF PortInv, ClientAlone, HostEnds, GuestEnds, Connected, Added
  <2> QED
    BY <2>2, <2>3, <2>4 DEF PortInv
<1>6. CASE port # own \/ ~mConnected[c]
  <2>1. SameFor(toGuest, toGuest', port) /\ SameFor(toHost, toHost', port)
    BY <1>2, <1>4, <1>6, SameForOthers, SameForAll
  <2> QED
    BY <1>2, <2>1, OtherPort
<1> QED
  BY <1>5, <1>6

\* A client is given a port of which nothing is left.
LEMMA AcceptPorts ==
  ASSUME PortsInv, NEW c \in TcpClients, AcceptIncomingSocket(c), NEW port \in HostPorts,
         IF port = FirstFree THEN CleanPort(port) ELSE PortInv(port)
  PROVE  PortInv(port)'
<1> DEFINE new == FirstFree
<1>1. new \in HostPorts /\ new \notin DOMAIN fwdStreams /\ c # Awaiter /\ c \in Owner /\ <<>> \in Seq(Bytes)
  BY FirstFreeIsFree, PortForwardAssumption DEF AcceptIncomingSocket, Owner
<1>2. /\ fwdStreams' = With(fwdStreams, new, NewFwdStream(c)) /\ toHost' = toHost /\ mConnected' = mConnected
      /\ guestSockets' = guestSockets /\ toGuest' = Append(toGuest, FwdPacket("REQUEST", new, c, <<>>))
      /\ tcp[c] = "new" /\ (IF port = new THEN CleanPort(new) ELSE PortInv(port))
  BY DEF AcceptIncomingSocket, ConnectToGuest, guestVars
<1> HIDE DEF new
<1>3. /\ DOMAIN fwdStreams' = DOMAIN fwdStreams \cup {new} /\ fwdStreams'[new] = NewFwdStream(c)
      /\ \A p \in DOMAIN fwdStreams \ {new} : fwdStreams'[p] = fwdStreams[p]
  <2> DEFINE x == NewFwdStream(c)
  <2>1. fwdStreams' = With(fwdStreams, new, x)
    BY <1>2
  <2> HIDE DEF x
  <2>2. /\ DOMAIN fwdStreams' = DOMAIN fwdStreams \cup {new} /\ fwdStreams'[new] = x
        /\ \A p \in DOMAIN fwdStreams \ {new} : fwdStreams'[p] = fwdStreams[p]
    BY ONLY <2>1 DEF With
  <2> QED
    BY <2>2 DEF x
<1>4. Added(toGuest, toGuest', "REQUEST", new, c)
  BY <1>1, <1>2, GuestPacketAdded
<1>5. CASE port = new
  <2>1. /\ port \notin DOMAIN guestSockets
        /\ \A op : ~Bound(toGuest, op, port) /\ ~Bound(toHost, op, port)
    BY <1>2, <1>5 DEF CleanPort, Bound, PortsInv, PFTypes, QueueTypes, GuestTypes, ClientTypes
  <2>2. \A op, d : ~Holds(toGuest, op, port, d)
    BY <1>2, <1>5 DEF CleanPort, Holds, PortsInv, PFTypes, QueueTypes, GuestTypes, ClientTypes
  <2>3. \A op : ~Twice(toGuest, op, port) /\ ~Twice(toHost, op, port)
    BY <1>2, <1>5 DEF CleanPort, Twice, PortsInv, PFTypes, QueueTypes, GuestTypes, ClientTypes
  <2>4. fwdStreams'[port].plug = c /\ ~fwdStreams'[port].isConnected /\ ~mConnected[c]
    <3>1. ~mConnected[c]
      BY <1>2 DEF PortsInv, PFTypes, ClientTypes
    <3> QED
      BY <1>3, <1>5, <3>1 DEF NewFwdStream
  <2>5. ~EndsWith(toGuest', port)
    BY <1>4, <1>5 DEF Added
  <2>6. SocketHeard(port)'
    BY <1>2, <2>1 DEF SocketHeard
  <2>7. StreamAnswered(port)'
    BY <1>1, <1>4, <1>5, <2>4, <2>5 DEF StreamAnswered, Added
  <2>8. ClientAlone(port)'
    <3>1. ~HostEnds(port)' /\ ~ToHost(port)' /\ ~Bound(toGuest', "RW", port) /\ ~Twice(toGuest', "REQUEST", port)
      BY <1>2, <1>4, <2>1, <2>3 DEF Added, HostEnds, ToHost
    <3>2. \A op \in {"REQUEST", "RW"}, d \in Owner : Holds(toGuest', op, port, d) => d = c
      BY <1>4, <2>2 DEF Added
    <3>3. ~Twice(toHost', "RESPONSE", port) /\ ~Bound(toHost', "RESPONSE", port)
      BY <1>2, <2>1, <2>3
    <3> QED
      BY <1>2, <2>1, <2>4, <3>1, <3>2, <3>3 DEF ClientAlone, Connecting
  <2> QED
    BY <2>6, <2>7, <2>8 DEF PortInv
<1>6. CASE port # new
  <2>1. SameFor(toGuest, toGuest', port) /\ SameFor(toHost, toHost', port)
    BY <1>2, <1>4, <1>6, SameForOthers, SameForAll
  <2> QED
    BY <1>2, <1>3, <1>6, <2>1, OtherPort
<1> QED
  BY <1>5, <1>6

\* attemptConnection() takes any free port, and ends the attempt before.
LEMMA AttemptPorts ==
  ASSUME PortsInv, AttemptConnection, NEW port \in HostPorts, PortInv(port)
  PROVE  PortInv(port)'
<1> DEFINE new == FirstFree
           asked == Append(toGuest, FwdPacket("REQUEST", new, Awaiter, <<>>))
<1>1. new \in HostPorts /\ new \notin DOMAIN fwdStreams /\ Awaiter \in Owner /\ <<>> \in Seq(Bytes)
  BY FirstFreeIsFree DEF AttemptConnection, Owner
<1>2. /\ fwdStreams' = With(Without(fwdStreams, mSocket), new, NewFwdStream(Awaiter)) /\ toHost' = toHost
      /\ mConnected' = mConnected /\ guestSockets' = guestSockets
      /\ toGuest' = asked \o (IF mSocket = 0 THEN <<>> ELSE <<FwdPacket("SHUTDOWN", mSocket, Awaiter, <<>>)>>)
  BY DEF AttemptConnection, clientVars, guestVars
<1>3. Added(toGuest, asked, "REQUEST", new, Awaiter)
  <2>1. toGuest \in Seq(FwdPackets)
    BY DEF PortsInv, PFTypes, QueueTypes, GuestTypes, ClientTypes
  <2> QED
    BY <1>1, <2>1, AddedFacts
<1> HIDE DEF asked, new
<1>4. IF mSocket = 0 THEN toGuest' = asked ELSE Added(asked, toGuest', "SHUTDOWN", mSocket, Awaiter)
  <2>1. asked \in Seq(FwdPackets)
    BY <1>3 DEF Added
  <2>2. CASE mSocket = 0
    BY <1>2, <2>1, <2>2
  <2>3. CASE mSocket # 0
    <3>1. mSocket \in HostPorts
      BY <2>3 DEF PortsInv, PFInv
    <3>2. FwdPacket("SHUTDOWN", mSocket, Awaiter, <<>>) \in FwdPackets
      BY <1>1, <3>1, PacketIsMade
    <3>3. toGuest' = Append(asked, FwdPacket("SHUTDOWN", mSocket, Awaiter, <<>>))
      BY <1>2, <2>1, <2>3, <3>2
    <3> QED
      BY <1>1, <2>1, <2>3, <3>1, <3>3, AddedFacts
  <2> QED
    BY <2>2, <2>3
<1>5. /\ DOMAIN fwdStreams' = (DOMAIN fwdStreams \ {mSocket}) \cup {new} /\ fwdStreams'[new] = NewFwdStream(Awaiter)
      /\ \A p \in DOMAIN fwdStreams \ {mSocket, new} : fwdStreams'[p] = fwdStreams[p]
  <2> DEFINE f == Without(fwdStreams, mSocket)
  <2>1. DOMAIN f = DOMAIN fwdStreams \ {mSocket} /\ \A p \in DOMAIN fwdStreams \ {mSocket} : f[p] = fwdStreams[p]
    BY WithoutFacts
  <2> DEFINE x == NewFwdStream(Awaiter)
  <2>2. fwdStreams' = With(f, new, x)
    BY <1>2
  <2> HIDE DEF f, x
  <2>3. /\ DOMAIN fwdStreams' = DOMAIN f \cup {new} /\ fwdStreams'[new] = x
        /\ \A p \in DOMAIN f \ {new} : fwdStreams'[p] = f[p]
    BY ONLY <2>2 DEF With
  <2> QED
    BY <2>1, <2>3 DEF x
<1>6. mSocket # 0 => mSocket \in DOMAIN fwdStreams /\ fwdStreams[mSocket].plug = Awaiter /\ mSocket # new
  BY <1>1 DEF PortsInv, PFInv, PointersAgree
<1>7. CASE port = new
  <2>1. PortInv(port) /\ port # mSocket
    BY <1>1, <1>6, <1>7, PortForwardAssumption DEF PortsInv
  <2>2. fwdStreams'[port].plug = Awaiter /\ ~fwdStreams'[port].isConnected
    BY <1>5, <1>7 DEF NewFwdStream
  <2>3. SocketHeard(port)'
    BY <1>1, <1>2, <1>3, <1>4, <1>7, <2>1 DEF PortInv, SocketHeard, HostEnds, Added
  <2>4. StreamAnswered(port)'
    BY <1>3, <1>4, <1>7, <2>1, <2>2 DEF StreamAnswered, Added
  <2> QED
    BY <2>2, <2>3, <2>4 DEF PortInv, ClientAlone
<1>8. CASE port = mSocket
  <2>1. PortInv(port) /\ port # 0
    BY PortForwardAssumption DEF PortsInv
  <2>2. port \notin DOMAIN fwdStreams'
    BY <1>5, <1>6, <1>8, <2>1
  <2>3. SocketHeard(port)'
    BY <1>4, <1>8, <2>1 DEF SocketHeard, HostEnds, Added
  <2> QED
    BY <2>2, <2>3 DEF PortInv, StreamAnswered, ClientAlone
<1>9. CASE port # new /\ port # mSocket
  <2>1. SameFor(toGuest, asked, port)
    BY <1>3, <1>9, SameForOthers
  <2>2. SameFor(asked, toGuest', port)
    BY <1>4, <1>9, SameForOthers, SameForAll
  <2>3. SameFor(toGuest, toGuest', port) /\ SameFor(toHost, toHost', port)
    BY <1>2, <2>1, <2>2, SameTwice, SameForAll
  <2> QED
    BY <1>2, <1>5, <1>9, <2>3, OtherPort
<1> QED
  BY <1>7, <1>8, <1>9

\* What the guest sends, and its hanging up, on a socket it has.
LEMMA GuestSendsPorts ==
  ASSUME PortsInv, NEW own \in DOMAIN guestSockets, GuestSends(own) \/ GuestHangsUp(own), NEW port \in HostPorts, PortInv(port)
  PROVE  PortInv(port)'
<1>0. own \in HostPorts /\ guestSockets[own] \in Owner
  BY DEF PortsInv, PFTypes, QueueTypes, GuestTypes, ClientTypes
<1>1. fwdStreams' = fwdStreams /\ mConnected' = mConnected /\ toGuest' = toGuest
  BY DEF GuestSends, GuestHangsUp, clientVars
<1>2. \/ guestSockets' = guestSockets /\ Added(toHost, toHost', "RW", own, guestSockets[own])
      \/ guestSockets' = Without(guestSockets, own) /\ Added(toHost, toHost', "SHUTDOWN", own, guestSockets[own])
  BY <1>0, HostPacketAdded DEF GuestSends, GuestHangsUp
<1>3. /\ DOMAIN guestSockets' \subseteq DOMAIN guestSockets /\ DOMAIN guestSockets \ {own} \subseteq DOMAIN guestSockets'
      /\ \A p \in DOMAIN guestSockets' : guestSockets'[p] = guestSockets[p]
  <2>1. CASE guestSockets' = guestSockets
    BY <2>1
  <2>2. CASE guestSockets' = Without(guestSockets, own)
    BY <2>2, WithoutFacts
  <2> QED
    BY <1>2, <2>1, <2>2
<1>4. CASE port = own
  <2>1. PortInv(port)
    BY DEF PortsInv
  <2>2. CASE guestSockets' = guestSockets /\ Added(toHost, toHost', "RW", own, guestSockets[own])
    <3>1. SocketHeard(port)'
      BY <1>1, <2>1, <2>2 DEF PortInv, SocketHeard, HostEnds, Added
    <3>2. StreamAnswered(port)'
      BY <1>1, <2>1, <2>2 DEF PortInv, StreamAnswered, ToHost, Added
    <3>3. ClientAlone(port)'
      BY <1>1, <1>4, <2>1, <2>2 DEF PortInv, ClientAlone, HostEnds, GuestEnds, Connected, Connecting, Added
    <3> QED
      BY <3>1, <3>2, <3>3 DEF PortInv
  <2>3. CASE guestSockets' = Without(guestSockets, own) /\ Added(toHost, toHost', "SHUTDOWN", own, guestSockets[own])
    <3>0. port \notin DOMAIN guestSockets'
      BY <1>4, <2>3, WithoutFacts
    <3>1. SocketHeard(port)'
      BY <3>0 DEF SocketHeard
    <3>2. StreamAnswered(port)'
      BY <1>1, <2>1, <2>3 DEF PortInv, StreamAnswered, ToHost, Added
    <3>3. ClientAlone(port)'
      BY <1>1, <1>4, <2>1, <2>3, <3>0 DEF PortInv, ClientAlone, HostEnds, GuestEnds, Connected, Connecting, Added
    <3> QED
      BY <3>1, <3>2, <3>3 DEF PortInv
  <2> QED
    BY <1>2, <2>2, <2>3
<1>5. CASE port # own
  <2>1. SameFor(toGuest, toGuest', port) /\ SameFor(toHost, toHost', port)
    BY <1>1, <1>2, <1>5, SameForOthers, SameForAll
  <2>2. /\ port \in DOMAIN guestSockets' <=> port \in DOMAIN guestSockets
        /\ port \in DOMAIN guestSockets => guestSockets'[port] = guestSockets[port]
    BY <1>3, <1>5
  <2> QED
    BY <1>1, <2>1, <2>2, OtherPort
<1> QED
  BY <1>4, <1>5

\* What the guest does with a packet, as one of four.
GuestAccepts(p, of) ==
    /\ p \notin DOMAIN guestSockets /\ toHost' = Append(toHost, FwdPacket("RESPONSE", p, of, <<>>))
    /\ guestSockets' = With(guestSockets, p, of)
GuestRefuses(p, of) ==
    /\ toHost' = Append(toHost, FwdPacket("RST", p, of, <<>>)) /\ guestSockets' = Without(guestSockets, p)
GuestForgets(p) == guestSockets' = Without(guestSockets, p) /\ toHost' = toHost
GuestIgnores(p) == guestSockets' = guestSockets /\ toHost' = toHost

\* A packet that the guest takes is one of these.
LEMMA GuestTakesCases ==
  ASSUME PortsInv, GuestTakesPacket
  PROVE  LET m == Head(toGuest) IN
         /\ m \in FwdPackets /\ m.port \in HostPorts /\ m.of \in Owner /\ m.data \in Seq(Bytes)
         /\ toGuest # <<>> /\ toGuest' = Tail(toGuest) /\ Taken(toGuest, toGuest', m.op, m.port, m.of)
         /\ \/ m.op = "REQUEST" /\ GuestAccepts(m.port, m.of)
            \/ m.op = "SHUTDOWN" /\ GuestRefuses(m.port, m.of)
            \/ m.op \in {"REQUEST", "RW"} /\ m.port \notin DOMAIN guestSockets /\ GuestRefuses(m.port, m.of)
            \/ m.op = "RST" /\ GuestForgets(m.port)
            \/ m.op \in {"REQUEST", "RW"} /\ m.port \in DOMAIN guestSockets /\ GuestIgnores(m.port)
<1> DEFINE m == Head(toGuest)
<1>1. toGuest # <<>> /\ toGuest' = Tail(toGuest)
  BY DEF GuestTakesPacket
<1>2. m \in FwdPackets /\ m.op # "RESPONSE" /\ Taken(toGuest, toGuest', m.op, m.port, m.of)
  BY <1>1, GuestPacketTaken
<1>3. /\ m.op \in {"REQUEST", "RST", "SHUTDOWN", "RW"} /\ m.port \in HostPorts /\ m.of \in Owner
      /\ m.data \in Seq(Bytes)
  BY <1>2 DEF FwdPackets
<1>4. CASE m.op = "REQUEST" /\ m.port \notin DOMAIN guestSockets /\ guestListens
  BY <1>1, <1>2, <1>3, <1>4 DEF GuestTakesPacket, GuestReplies, GuestAccepts
<1>5. CASE m.op = "SHUTDOWN"
  BY <1>1, <1>2, <1>3, <1>5 DEF GuestTakesPacket, GuestReplies, GuestRefuses
<1>6. CASE m.op \in {"REQUEST", "RW"} /\ m.port \notin DOMAIN guestSockets /\ ~(m.op = "REQUEST" /\ guestListens)
  BY <1>1, <1>2, <1>3, <1>6 DEF GuestTakesPacket, GuestReplies, GuestRefuses
<1>7. CASE m.op = "RST"
  BY <1>1, <1>2, <1>3, <1>7 DEF GuestTakesPacket, GuestForgets
<1>8. CASE m.op \in {"REQUEST", "RW"} /\ m.port \in DOMAIN guestSockets
  BY <1>1, <1>2, <1>3, <1>8 DEF GuestTakesPacket, GuestIgnores
<1> QED
  BY <1>3, <1>4, <1>5, <1>6, <1>7, <1>8

\* The guest's answer to a packet.
LEMMA GuestTakesPorts ==
  ASSUME PortsInv, GuestTakesPacket, NEW port \in HostPorts, PortInv(port)
  PROVE  PortInv(port)'
<1> DEFINE op == Head(toGuest).op
           own == Head(toGuest).port
           of == Head(toGuest).of
<1>1. /\ own \in HostPorts /\ of \in Owner /\ Taken(toGuest, toGuest', op, own, of)
      /\ \/ op = "REQUEST" /\ GuestAccepts(own, of)
         \/ (op = "SHUTDOWN" \/ (op \in {"REQUEST", "RW"} /\ own \notin DOMAIN guestSockets)) /\ GuestRefuses(own, of)
         \/ op = "RST" /\ GuestForgets(own)
         \/ op \in {"REQUEST", "RW"} /\ own \in DOMAIN guestSockets /\ GuestIgnores(own)
  BY GuestTakesCases
<1>2. fwdStreams' = fwdStreams /\ mConnected' = mConnected /\ toGuest' \in Seq(FwdPackets)
  BY <1>1 DEF GuestTakesPacket, clientVars, Taken
<1> HIDE DEF op, own, of
<1>3. /\ GuestAccepts(own, of) => Added(toHost, toHost', "RESPONSE", own, of) /\ own \in DOMAIN guestSockets'
                                  /\ guestSockets'[own] = of
      /\ GuestRefuses(own, of) => Added(toHost, toHost', "RST", own, of) /\ own \notin DOMAIN guestSockets'
      /\ GuestForgets(own) => own \notin DOMAIN guestSockets'
  BY <1>1, HostPacketAdded, WithoutFacts DEF With, GuestAccepts, GuestRefuses, GuestForgets
<1>4. \A p \in HostPorts \ {own} : /\ p \in DOMAIN guestSockets' <=> p \in DOMAIN guestSockets
                                   /\ p \in DOMAIN guestSockets => guestSockets'[p] = guestSockets[p]
  BY <1>1 DEF With, Without, GuestAccepts, GuestRefuses, GuestForgets, GuestIgnores
<1>5. CASE port # own
  <2>1. SameFor(toGuest, toGuest', port)
    BY <1>1, <1>5, SameForOthers
  <2>2. SameFor(toHost, toHost', port)
    BY <1>1, <1>3, <1>5, SameForOthers, SameForAll DEF GuestForgets, GuestIgnores
  <2> QED
    BY <1>2, <1>4, <1>5, <2>1, <2>2, OtherPort
<1>6. CASE port = own
  <2>0. PortInv(port) /\ Taken(toGuest, toGuest', op, port, of)
    BY <1>1, <1>6 DEF PortsInv
  <2>a. Bound(toGuest, op, port) /\ Holds(toGuest, op, port, of) /\ (EndsWith(toGuest', port) => EndsWith(toGuest, port))
    BY <2>0 DEF Taken
  <2>1. CASE op = "REQUEST" /\ GuestAccepts(own, of)
    <3>1. /\ Added(toHost, toHost', "RESPONSE", port, of) /\ port \notin DOMAIN guestSockets
          /\ port \in DOMAIN guestSockets' /\ guestSockets'[port] = of
      BY <1>3, <1>6, <2>1 DEF GuestAccepts
    <3>2. SocketHeard(port)'
      BY <3>1 DEF SocketHeard, Added
    <3>3. StreamAnswered(port)'
      BY <1>2, <2>0, <2>a, <3>1 DEF PortInv, StreamAnswered, ToHost, Added
    <3>4. ClientAlone(port)'
      <4> SUFFICES ASSUME port \in DOMAIN fwdStreams, fwdStreams[port].plug # Awaiter PROVE ClientAlone(port)'
        BY <1>2 DEF ClientAlone
      <4>1. /\ ~fwdStreams[port].isConnected /\ ~mConnected[fwdStreams[port].plug] /\ ~HostEnds(port)
            /\ \A o \in {"REQUEST", "RW"}, c \in Owner : Holds(toGuest, o, port, c) => c = fwdStreams[port].plug
            /\ ~Bound(toGuest, "RW", port) /\ ~Twice(toGuest, "REQUEST", port) /\ ~ToHost(port)
            /\ ~Twice(toHost, "RESPONSE", port)
        BY <2>0, <2>a, <2>1 DEF PortInv, ClientAlone, Connected, Connecting
      <4>2. of = fwdStreams[port].plug
        BY <1>1, <2>a, <2>1, <4>1
      <4>3. ~HostEnds(port)' /\ ~Bound(toGuest', "RW", port) /\ ~Twice(toGuest', "REQUEST", port)
            /\ ~Bound(toGuest', "REQUEST", port)
        BY <2>0, <2>1, <4>1 DEF Taken, HostEnds
      <4>4. \A o \in {"REQUEST", "RW"}, c \in Owner : Holds(toGuest', o, port, c) => c = fwdStreams[port].plug
        BY <2>0, <4>1 DEF Taken
      <4>5. ~GuestEnds(port)' /\ ~Twice(toHost', "RESPONSE", port)
        BY <3>1, <4>1 DEF Added, GuestEnds, ToHost
      <4> QED
        BY <1>2, <3>1, <4>1, <4>2, <4>3, <4>4, <4>5 DEF ClientAlone, Connecting
    <3> QED
      BY <3>2, <3>3, <3>4 DEF PortInv
  <2>2. CASE (op = "SHUTDOWN" \/ (op \in {"REQUEST", "RW"} /\ own \notin DOMAIN guestSockets)) /\ GuestRefuses(own, of)
    <3>1. Added(toHost, toHost', "RST", port, of) /\ port \notin DOMAIN guestSockets'
      BY <1>3, <1>6, <2>2
    <3>2. SocketHeard(port)'
      BY <3>1 DEF SocketHeard
    <3>3. StreamAnswered(port)'
      BY <1>2, <2>0, <2>a, <3>1 DEF PortInv, StreamAnswered, ToHost, Added
    <3>4. ClientAlone(port)'
      <4> SUFFICES ASSUME port \in DOMAIN fwdStreams, fwdStreams[port].plug # Awaiter PROVE ClientAlone(port)'
        BY <1>2 DEF ClientAlone
      <4> DEFINE s == fwdStreams[port]
      <4>1. /\ s.isConnected <=> mConnected[s.plug]
            /\ ~HostEnds(port) /\ ~Twice(toHost, "RESPONSE", port)
            /\ \A o \in {"REQUEST", "RW"}, c \in Owner : Holds(toGuest, o, port, c) => c = s.plug
            /\ IF s.isConnected THEN Connected(port) ELSE Connecting(port)
        BY <2>0 DEF PortInv, ClientAlone
      <4>2. op = (IF s.isConnected THEN "RW" ELSE "REQUEST")
        BY <2>a, <2>2, <4>1 DEF HostEnds, Connected, Connecting
      <4>3. GuestEnds(port)' /\ ~Twice(toHost', "RESPONSE", port)
            /\ (Bound(toHost', "RESPONSE", port) <=> Bound(toHost, "RESPONSE", port))
        BY <3>1, <4>1 DEF Added, GuestEnds
      <4>4. /\ ~HostEnds(port)'
            /\ \A o \in {"REQUEST", "RW"}, c \in Owner : Holds(toGuest', o, port, c) => c = s.plug
        BY <2>0, <4>1 DEF Taken, HostEnds
      <4>5. IF s.isConnected THEN Connected(port)' ELSE Connecting(port)'
        <5>1. CASE s.isConnected
          BY <2>0, <4>1, <4>3, <5>1 DEF Connected, Taken
        <5>2. CASE ~s.isConnected
          BY <2>0, <4>1, <4>2, <5>2 DEF Connecting, Taken
        <5> QED
          BY <5>1, <5>2
      <4> QED
        BY <1>2, <3>1, <4>1, <4>3, <4>4, <4>5 DEF ClientAlone
    <3> QED
      BY <3>2, <3>3, <3>4 DEF PortInv
  <2>3. CASE op = "RST" /\ GuestForgets(own)
    <3>1. toHost' = toHost /\ port \notin DOMAIN guestSockets'
      BY <1>3, <1>6, <2>3 DEF GuestForgets
    <3>2. SocketHeard(port)'
      BY <3>1 DEF SocketHeard
    <3>3. StreamAnswered(port)'
      BY <1>2, <2>0, <2>a, <2>3, <3>1 DEF PortInv, StreamAnswered, ToHost, Taken
    <3>4. ClientAlone(port)'
      BY <1>2, <2>0, <2>a, <2>3 DEF PortInv, ClientAlone, HostEnds
    <3> QED
      BY <3>2, <3>3, <3>4 DEF PortInv
  <2>4. CASE op \in {"REQUEST", "RW"} /\ own \in DOMAIN guestSockets /\ GuestIgnores(own)
    <3>1. toHost' = toHost /\ guestSockets' = guestSockets /\ port \in DOMAIN guestSockets
      BY <1>6, <2>4 DEF GuestIgnores
    <3>2. SocketHeard(port)'
      BY <1>2, <2>0, <2>4, <3>1 DEF PortInv, SocketHeard, HostEnds, Taken
    <3>3. StreamAnswered(port)'
      <4> SUFFICES ASSUME port \in DOMAIN fwdStreams, ~fwdStreams[port].isConnected
                   PROVE  Bound(toGuest', "REQUEST", port) \/ ToHost(port)
        BY <1>2, <2>0, <2>a, <3>1 DEF PortInv, StreamAnswered, ToHost
      <4>1. CASE Bound(toHost, "RESPONSE", port)
        BY <4>1 DEF ToHost
      <4>2. CASE HostEnds(port)
        <5>1. Bound(toGuest', "SHUTDOWN", port) \/ Bound(toGuest', "RST", port)
          BY <2>0, <2>4, <4>2 DEF Taken, HostEnds
        <5>2. ~EndsWith(toGuest', port)
          BY <2>0, <2>a DEF PortInv, StreamAnswered
        <5> QED
          BY <1>2, <5>1, <5>2, RequestFollowsEnd
      <4> QED
        BY <2>0, <3>1, <4>1, <4>2 DEF PortInv, SocketHeard
    <3>4. ClientAlone(port)'
      <4> SUFFICES ASSUME port \in DOMAIN fwdStreams, fwdStreams[port].plug # Awaiter PROVE ClientAlone(port)'
        BY <1>2 DEF ClientAlone
      <4> DEFINE s == fwdStreams[port]
      <4>1. /\ s.isConnected <=> mConnected[s.plug]
            /\ ~HostEnds(port) /\ ~Twice(toHost, "RESPONSE", port)
            /\ \A o \in {"REQUEST", "RW"}, c \in Owner : Holds(toGuest, o, port, c) => c = s.plug
            /\ IF s.isConnected THEN Connected(port) ELSE Connecting(port)
            /\ guestSockets[port] = s.plug /\ ~GuestEnds(port)
        BY <2>0, <3>1 DEF PortInv, ClientAlone
      <4>2. /\ ~HostEnds(port)'
            /\ \A o \in {"REQUEST", "RW"}, c \in Owner : Holds(toGuest', o, port, c) => c = s.plug
        BY <2>0, <4>1 DEF Taken, HostEnds
      <4>3. IF s.isConnected THEN Connected(port)' ELSE Connecting(port)'
        <5>1. CASE s.isConnected
          BY <2>0, <3>1, <4>1, <5>1 DEF Connected, Taken
        <5>2. CASE ~s.isConnected
          BY <2>0, <2>a, <2>4, <3>1, <4>1, <5>2 DEF Connecting, Taken
        <5> QED
          BY <5>1, <5>2
      <4>4. ~GuestEnds(port)' /\ ~Twice(toHost', "RESPONSE", port)
        BY <3>1, <4>1 DEF GuestEnds
      <4> QED
        BY <1>2, <3>1, <4>1, <4>2, <4>3, <4>4 DEF ClientAlone
    <3> QED
      BY <3>2, <3>3, <3>4 DEF PortInv
  <2> QED
    BY <1>1, <2>1, <2>2, <2>3, <2>4
<1> QED
  BY <1>5, <1>6

-----------------------------------------------------------------------------
(* The types, and NoHalfOpen.                                                *)

\* The queues keep their type when a packet is added or taken.
LEMMA QueueStep ==
  ASSUME PortsInv,
         \/ toGuest' = toGuest
         \/ \E op \in {"REQUEST", "RST", "SHUTDOWN", "RW"} : \E port, of : Added(toGuest, toGuest', op, port, of)
         \/ \E op, port, of : Taken(toGuest, toGuest', op, port, of),
         \/ toHost' = toHost
         \/ \E op \in {"RESPONSE", "RST", "SHUTDOWN", "RW"} : \E port, of : Added(toHost, toHost', op, port, of)
         \/ \E op, port, of : Taken(toHost, toHost', op, port, of)
  PROVE  QueueTypes'
<1>1. toGuest' \in Seq(FwdPackets) /\ \A port \in HostPorts : ~Bound(toGuest', "RESPONSE", port)
  BY DEF PortsInv, PFTypes, QueueTypes, Added, Taken
<1>2. toHost' \in Seq(FwdPackets) /\ \A port \in HostPorts : ~Bound(toHost', "REQUEST", port)
  BY DEF PortsInv, PFTypes, QueueTypes, Added, Taken
<1> QED
  BY <1>1, <1>2 DEF QueueTypes

\* Steps of the host keep the types of the guest's variables.
LEMMA GuestTypesStay == ASSUME PortsInv, UNCHANGED guestVars PROVE GuestTypes'
  BY DEF PortsInv, PFTypes, GuestTypes, guestVars

\* Steps of the guest keep the types of the clients'.
LEMMA ClientTypesStay == ASSUME PortsInv, UNCHANGED clientVars PROVE ClientTypes'
  BY DEF PortsInv, PFTypes, ClientTypes, clientVars

\* PFTypes is kept by receiveHost().
LEMMA ReceiveHostTypes == ASSUME PortsInv, NEW c \in TcpClients, ReceiveHost(c) PROVE PFTypes'
<1> DEFINE own == mGuestSocket[c]
           byte == <<c, forwarded[c] + 1>>
<1>1. own \in HostPorts
  BY StreamOfClient DEF ReceiveHost
<1>2. /\ toHost' = toHost /\ UNCHANGED guestVars /\ UNCHANGED <<mConnected, tcp, mGuestSocket>>
      /\ forwarded' = [forwarded EXCEPT ![c] = @ + 1]
      /\ IF mConnected[c] THEN toGuest' = Append(toGuest, FwdPacket("RW", own, c, <<byte>>)) ELSE toGuest' = toGuest
      /\ IF mConnected[c] THEN UNCHANGED mPreConnectedBuffer
         ELSE mPreConnectedBuffer' = [mPreConnectedBuffer EXCEPT ![c] = Append(@, byte)]
  BY DEF ReceiveHost
<1>3. byte \in Bytes /\ <<byte>> \in Seq(Bytes) /\ c \in Owner
  BY DEF PortsInv, PFTypes, ClientTypes, Bytes, Owner
<1> HIDE DEF own, byte
<1>4. toGuest' = toGuest \/ Added(toGuest, toGuest', "RW", own, c)
  BY <1>1, <1>2, <1>3, GuestPacketAdded
<1>5. QueueTypes'
  BY <1>2, <1>4, QueueStep
<1>6. mPreConnectedBuffer' \in [TcpClients -> Seq(Bytes)] /\ forwarded' \in [TcpClients -> Nat]
  <2>1. mPreConnectedBuffer \in [TcpClients -> Seq(Bytes)] /\ forwarded \in [TcpClients -> Nat]
    BY DEF PortsInv, PFTypes, ClientTypes
  <2>2. forwarded' \in [TcpClients -> Nat]
    BY <1>2, <2>1
  <2>3. CASE mConnected[c]
    BY <1>2, <2>1, <2>2, <2>3
  <2>4. CASE ~mConnected[c]
    <3>1. Append(mPreConnectedBuffer[c], byte) \in Seq(Bytes)
      BY <1>3, <2>1
    <3> QED
      BY <1>2, <2>1, <2>2, <2>4, <3>1
  <2> QED
    BY <2>3, <2>4
<1>7. ClientTypes'
  BY <1>2, <1>6 DEF PortsInv, PFTypes, ClientTypes
<1> QED
  BY <1>2, <1>5, <1>7, GuestTypesStay DEF PFTypes

\* PFTypes is kept by closeHost().
LEMMA CloseHostTypes == ASSUME PortsInv, NEW c \in TcpClients, CloseHost(c) PROVE PFTypes'
<1>1. mGuestSocket[c] \in HostPorts /\ c \in Owner /\ <<>> \in Seq(Bytes)
  BY StreamOfClient DEF CloseHost, Owner
<1>2. /\ toHost' = toHost /\ UNCHANGED guestVars /\ UNCHANGED <<mConnected, mPreConnectedBuffer, forwarded>>
      /\ tcp' = [tcp EXCEPT ![c] = "closed"] /\ mGuestSocket' = [mGuestSocket EXCEPT ![c] = 0]
      /\ toGuest' = Append(toGuest, FwdPacket("SHUTDOWN", mGuestSocket[c], c, <<>>))
  BY DEF CloseHost
<1>3. Added(toGuest, toGuest', "SHUTDOWN", mGuestSocket[c], c)
  BY <1>1, <1>2, GuestPacketAdded
<1>4. QueueTypes'
  BY <1>2, <1>3, QueueStep
<1>5. ClientTypes'
  BY <1>2 DEF PortsInv, PFTypes, ClientTypes, PFInv
<1> QED
  BY <1>2, <1>4, <1>5, GuestTypesStay DEF PFTypes

\* PFTypes is kept by a new client.
LEMMA AcceptTypes == ASSUME PortsInv, NEW c \in TcpClients, AcceptIncomingSocket(c) PROVE PFTypes'
<1>1. FirstFree \in HostPorts /\ FirstFree # 0 /\ c \in Owner /\ <<>> \in Seq(Bytes)
  BY FirstFreeIsFree DEF AcceptIncomingSocket, Owner
<1>2. /\ toHost' = toHost /\ UNCHANGED guestVars /\ UNCHANGED <<mConnected, mPreConnectedBuffer, forwarded>>
      /\ tcp' = [tcp EXCEPT ![c] = "open"] /\ mGuestSocket' = [mGuestSocket EXCEPT ![c] = FirstFree]
      /\ toGuest' = Append(toGuest, FwdPacket("REQUEST", FirstFree, c, <<>>))
  BY DEF AcceptIncomingSocket, ConnectToGuest
<1> DEFINE new == FirstFree
<1> HIDE DEF new
<1>3. Added(toGuest, toGuest', "REQUEST", new, c)
  BY <1>1, <1>2, GuestPacketAdded DEF new
<1>4. QueueTypes'
  BY <1>2, <1>3, QueueStep
<1>5. ClientTypes'
  BY <1>1, <1>2 DEF PortsInv, PFTypes, ClientTypes, PFInv
<1> QED
  BY <1>2, <1>4, <1>5, GuestTypesStay DEF PFTypes

\* PFTypes is kept by attemptConnection().
LEMMA AttemptTypes == ASSUME PortsInv, AttemptConnection PROVE PFTypes'
<1> DEFINE new == FirstFree
           asked == Append(toGuest, FwdPacket("REQUEST", new, Awaiter, <<>>))
<1>1. new \in HostPorts /\ Awaiter \in Owner /\ <<>> \in Seq(Bytes) /\ toGuest \in Seq(FwdPackets)
  BY FirstFreeIsFree DEF AttemptConnection, Owner, PortsInv, PFTypes, QueueTypes
<1>2. /\ toHost' = toHost /\ UNCHANGED clientVars /\ UNCHANGED guestVars
      /\ toGuest' = asked \o (IF mSocket = 0 THEN <<>> ELSE <<FwdPacket("SHUTDOWN", mSocket, Awaiter, <<>>)>>)
  BY DEF AttemptConnection
<1>3. Added(toGuest, asked, "REQUEST", new, Awaiter)
  BY <1>1, AddedFacts
<1> HIDE DEF asked, new
<1>4. asked \in Seq(FwdPackets) /\ \A port \in HostPorts : ~Bound(asked, "RESPONSE", port)
  BY <1>3 DEF Added, PortsInv, PFTypes, QueueTypes
<1>5. toGuest' \in Seq(FwdPackets) /\ \A port \in HostPorts : ~Bound(toGuest', "RESPONSE", port)
  <2>1. CASE mSocket = 0
    BY <1>2, <1>4, <2>1
  <2>2. CASE mSocket # 0
    <3>1. mSocket \in HostPorts
      BY <2>2 DEF PortsInv, PFInv
    <3>2. FwdPacket("SHUTDOWN", mSocket, Awaiter, <<>>) \in FwdPackets
      BY <1>1, <3>1, PacketIsMade
    <3>3. toGuest' = Append(asked, FwdPacket("SHUTDOWN", mSocket, Awaiter, <<>>))
      BY <1>2, <1>4, <2>2, <3>2
    <3>4. Added(asked, toGuest', "SHUTDOWN", mSocket, Awaiter)
      BY <1>1, <1>4, <3>1, <3>3, AddedFacts
    <3> QED
      BY <1>4, <3>4 DEF Added
  <2> QED
    BY <2>1, <2>2
<1>6. QueueTypes'
  BY <1>2, <1>5 DEF PortsInv, PFTypes, QueueTypes
<1> QED
  BY <1>2, <1>6, GuestTypesStay, ClientTypesStay DEF PFTypes

\* PFTypes is kept by the device's handlers.
LEMMA DeviceTypes == ASSUME PortsInv, DeviceTakesPacket PROVE PFTypes'
<1> DEFINE old == Arrived.port
<1>1. toHost # <<>> /\ toHost' = Tail(toHost) /\ UNCHANGED guestVars
  BY DEF DeviceTakesPacket, AwaiterOnConnect, ClientOnConnect, ReceiveRst, ReceiveAndHangUp, ReceiveRwFwd,
         ReceiveUnknown, Arrives
<1>2. /\ old \in HostPorts /\ Arrived.of \in Owner /\ Awaiter \in Owner /\ <<>> \in Seq(Bytes)
      /\ Taken(toHost, toHost', Arrived.op, old, Arrived.of)
  BY <1>1, HostPacketTaken DEF Owner
<1>3. ClientTypes' /\ (toGuest' = toGuest \/ \E op \in {"RST", "SHUTDOWN", "RW"} : \E of : Added(toGuest, toGuest', op, old, of))
  <2>1. CASE AwaiterOnConnect
    <3>1. UNCHANGED clientVars /\ toGuest' = Append(toGuest, FwdPacket("SHUTDOWN", old, Awaiter, <<>>))
      BY <2>1 DEF AwaiterOnConnect
    <3>2. Added(toGuest, toGuest', "SHUTDOWN", old, Awaiter)
      BY <1>2, <3>1, GuestPacketAdded
    <3> QED
      BY <3>1, <3>2, ClientTypesStay
  <2>2. CASE ClientOnConnect
    <3>1. PICK c \in TcpClients :
            /\ old \in DOMAIN fwdStreams /\ fwdStreams[old].plug = c
            /\ mConnected' = [mConnected EXCEPT ![c] = TRUE] /\ UNCHANGED <<tcp, mGuestSocket, forwarded>>
            /\ mPreConnectedBuffer' = [mPreConnectedBuffer EXCEPT ![c] = <<>>]
            /\ toGuest' = IF mPreConnectedBuffer[c] = <<>> THEN toGuest
                          ELSE Append(toGuest, FwdPacket("RW", old, c, mPreConnectedBuffer[c]))
      BY <2>2 DEF ClientOnConnect, Arrives, ArrivedFor
    <3>2. mPreConnectedBuffer[c] \in Seq(Bytes) /\ c \in Owner
      BY DEF PortsInv, PFTypes, ClientTypes, Owner
    <3>3. toGuest' = toGuest \/ Added(toGuest, toGuest', "RW", old, c)
      BY <1>2, <3>1, <3>2, GuestPacketAdded
    <3>4. tcp[c] # "new"
      BY <1>2, <3>1, PortForwardAssumption DEF PortsInv, PFInv, PointersAgree
    <3>5. mConnected' \in [TcpClients -> BOOLEAN] /\ \A d \in TcpClients \ {c} : mConnected'[d] = mConnected[d]
      BY <3>1 DEF PortsInv, PFTypes, ClientTypes
    <3>6. mPreConnectedBuffer' \in [TcpClients -> Seq(Bytes)]
      BY <1>2, <3>1 DEF PortsInv, PFTypes, ClientTypes
    <3>7. \A d \in TcpClients : tcp'[d] = "new" => ~mConnected'[d]
      BY <3>1, <3>4, <3>5 DEF PortsInv, PFTypes, ClientTypes
    <3>8. ClientTypes'
      BY <3>1, <3>5, <3>6, <3>7 DEF PortsInv, PFTypes, ClientTypes
    <3> QED
      BY <3>3, <3>8
  <2>3. CASE ReceiveRst \/ ReceiveAndHangUp
    <3> DEFINE plug == fwdStreams[old].plug
    <3>1. /\ old \in DOMAIN fwdStreams /\ UNCHANGED <<mConnected, mPreConnectedBuffer, forwarded>>
          /\ tcp' = [c \in TcpClients |-> IF c = plug THEN "closed" ELSE tcp[c]]
          /\ mGuestSocket' = [c \in TcpClients |-> IF c = plug THEN 0 ELSE mGuestSocket[c]]
          /\ toGuest' = toGuest \/ toGuest' = Append(toGuest, FwdPacket("SHUTDOWN", old, plug, <<>>))
      BY <2>3 DEF ReceiveRst, ReceiveAndHangUp, OnUnplugFwd, Arrives, ArrivedFor
    <3>2. plug \in Owner
      BY <3>1, StreamHasOwner
    <3>3. ClientTypes'
      BY <3>1 DEF PortsInv, PFTypes, ClientTypes
    <3> HIDE DEF plug
    <3>4. toGuest' = toGuest \/ Added(toGuest, toGuest', "SHUTDOWN", old, plug)
      BY <1>2, <3>1, <3>2, GuestPacketAdded
    <3> QED
      BY <3>3, <3>4
  <2>4. CASE ReceiveRwFwd
    BY <2>4, ClientTypesStay DEF ReceiveRwFwd
  <2>5. CASE ReceiveUnknown
    <3>1. /\ UNCHANGED clientVars
          /\ toGuest' = toGuest \/ toGuest' = Append(toGuest, FwdPacket("RST", old, Arrived.of, <<>>))
      BY <2>5 DEF ReceiveUnknown
    <3> DEFINE of == Arrived.of
    <3> HIDE DEF of
    <3>2. toGuest' = toGuest \/ Added(toGuest, toGuest', "RST", old, of)
      BY <1>2, <3>1, GuestPacketAdded DEF of
    <3> QED
      BY <3>1, <3>2, ClientTypesStay
  <2> QED
    BY <2>1, <2>2, <2>3, <2>4, <2>5 DEF DeviceTakesPacket
<1>4. QueueTypes'
  <2>1. \E op, port, of : Taken(toHost, toHost', op, port, of)
    BY <1>2
  <2>2. \/ toGuest' = toGuest
        \/ \E op \in {"REQUEST", "RST", "SHUTDOWN", "RW"} : \E port, of : Added(toGuest, toGuest', op, port, of)
    BY <1>3
  <2> QED
    BY <2>1, <2>2, QueueStep
<1> QED
  BY <1>1, <1>3, <1>4, GuestTypesStay DEF PFTypes

\* PFTypes is kept when the guest takes a packet.
LEMMA GuestTakesTypes == ASSUME PortsInv, GuestTakesPacket PROVE PFTypes'
<1> DEFINE m == Head(toGuest)
           op == Head(toGuest).op
           own == Head(toGuest).port
           of == Head(toGuest).of
<1>1. /\ own \in HostPorts /\ of \in Owner /\ m.data \in Seq(Bytes) /\ Taken(toGuest, toGuest', op, own, of)
      /\ GuestAccepts(own, of) \/ GuestRefuses(own, of) \/ GuestForgets(own) \/ GuestIgnores(own)
  BY GuestTakesCases
<1>2. UNCHANGED clientVars
  BY DEF GuestTakesPacket
<1>3. delivered' = [c \in TcpClients |->
                       IF own \in DOMAIN guestSockets /\ op = "RW" /\ guestSockets[own] = c
                       THEN delivered[c] \o m.data ELSE delivered[c]]
  BY DEF GuestTakesPacket
<1> HIDE DEF m, op, own, of
<1>4. toHost' = toHost \/ \E o \in {"RESPONSE", "RST"} : Added(toHost, toHost', o, own, of)
  BY <1>1, HostPacketAdded DEF GuestAccepts, GuestRefuses, GuestForgets, GuestIgnores
<1>5. QueueTypes'
  BY <1>1, <1>4, QueueStep
<1>6. guestSockets' \in [DOMAIN guestSockets' -> Owner] /\ DOMAIN guestSockets' \subseteq HostPorts
  <2>1. CASE GuestAccepts(own, of)
    BY <1>1, <2>1 DEF GuestAccepts, With, PortsInv, PFTypes, GuestTypes
  <2>2. CASE GuestRefuses(own, of) \/ GuestForgets(own)
    BY <2>2 DEF GuestRefuses, GuestForgets, Without, PortsInv, PFTypes, GuestTypes
  <2>3. CASE GuestIgnores(own)
    BY <2>3 DEF GuestIgnores, PortsInv, PFTypes, GuestTypes
  <2> QED
    BY <1>1, <2>1, <2>2, <2>3
<1>7. delivered' \in [TcpClients -> Seq(Bytes)]
  BY <1>1, <1>3 DEF PortsInv, PFTypes, GuestTypes
<1> QED
  BY <1>2, <1>5, <1>6, <1>7, ClientTypesStay DEF PFTypes, GuestTypes

\* PFTypes is kept when the guest sends or hangs up.
LEMMA GuestSendsTypes ==
  ASSUME PortsInv, NEW own \in DOMAIN guestSockets, GuestSends(own) \/ GuestHangsUp(own) PROVE PFTypes'
<1>1. own \in HostPorts /\ guestSockets[own] \in Owner
  BY DEF PortsInv, PFTypes, GuestTypes
<1>2. toGuest' = toGuest /\ UNCHANGED clientVars /\ delivered' = delivered
  BY DEF GuestSends, GuestHangsUp
<1>3. \/ guestSockets' = guestSockets /\ Added(toHost, toHost', "RW", own, guestSockets[own])
      \/ guestSockets' = Without(guestSockets, own) /\ Added(toHost, toHost', "SHUTDOWN", own, guestSockets[own])
  BY <1>1, HostPacketAdded DEF GuestSends, GuestHangsUp
<1>4. QueueTypes'
  BY <1>2, <1>3, QueueStep
<1>5. guestSockets' \in [DOMAIN guestSockets' -> Owner] /\ DOMAIN guestSockets' \subseteq HostPorts
  <2>1. CASE guestSockets' = guestSockets
    BY <2>1 DEF PortsInv, PFTypes, GuestTypes
  <2>2. CASE guestSockets' = Without(guestSockets, own)
    BY <2>2 DEF Without, PortsInv, PFTypes, GuestTypes
  <2> QED
    BY <1>3, <2>1, <2>2
<1>6. GuestTypes'
  BY <1>2, <1>5 DEF PortsInv, PFTypes, GuestTypes
<1> QED
  BY <1>2, <1>4, <1>6, ClientTypesStay DEF PFTypes

\* At first nothing is under way and there is no stream and no socket.
LEMMA PortsInitially == PFInit => PortsInv
<1> SUFFICES ASSUME PFInit PROVE PortsInv
  OBVIOUS
<1>1. toGuest = <<>> /\ toHost = <<>> /\ DOMAIN fwdStreams = {} /\ DOMAIN guestSockets = {}
  BY DEF PFInit
<1>2. QueueTypes
  BY <1>1 DEF QueueTypes, Bound
<1>3. GuestTypes
  BY <1>1 DEF PFInit, GuestTypes
<1>4. mConnected = [c \in TcpClients |-> FALSE] /\ tcp = [c \in TcpClients |-> "new"]
      /\ mPreConnectedBuffer = [c \in TcpClients |-> <<>>] /\ forwarded = [c \in TcpClients |-> 0]
  BY DEF PFInit
<1>5. ClientTypes
  <2>1. \A c \in TcpClients : tcp[c] = "new" /\ ~mConnected[c]
    BY <1>4
  <2>2. mConnected \in [TcpClients -> BOOLEAN]
    BY <1>4
  <2> QED
    BY <1>4, <2>1, <2>2 DEF ClientTypes
<1>6. \A port \in HostPorts : PortInv(port)
  BY <1>1 DEF PortInv, SocketHeard, StreamAnswered, ClientAlone
<1>7. tainted = {}
  BY DEF PFInit
<1> QED
  BY <1>2, <1>3, <1>5, <1>6, <1>7, PFInitially DEF PortsInv, PFTypes

\* The ports that are not clean, and who has them.
Taints ==
    /\ tainted \subseteq HostPorts
    /\ \A c \in TcpClients \ soiled : mGuestSocket[c] \notin tainted

\* A client that loses its port, or keeps it, is as clean as before.
LEMMA TaintsStay ==
  ASSUME PortsInv, UNCHANGED takenVars, \A c \in TcpClients : mGuestSocket'[c] \in {mGuestSocket[c], 0}
  PROVE  Taints' /\ tainted' = tainted
  BY PortForwardAssumption DEF PortsInv, Taints, takenVars

\* A new client has a port that no other client has.
LEMMA AcceptTaints ==
  ASSUME PortsInv, NEW c \in TcpClients, AcceptIncomingSocket(c)
  PROVE  /\ Taints'
         /\ \A port \in HostPorts \ tainted' : IF port = FirstFree THEN CleanPort(port) ELSE PortInv(port)
<1>1. FirstFree \in HostPorts /\ FirstFree \notin DOMAIN fwdStreams
  BY FirstFreeIsFree DEF AcceptIncomingSocket
<1>2. /\ mGuestSocket' = [mGuestSocket EXCEPT ![c] = FirstFree]
      /\ tainted' = IF CleanPort(FirstFree) THEN tainted \ {FirstFree} ELSE tainted \cup {FirstFree}
      /\ soiled' = IF CleanPort(FirstFree) THEN soiled ELSE soiled \cup {c}
  BY DEF AcceptIncomingSocket, ConnectToGuest
<1>3. \A d \in TcpClients : mGuestSocket[d] # FirstFree
  BY <1>1 DEF PortsInv, PFInv, PointersAgree
<1>4. \A d \in TcpClients : mGuestSocket'[d] = IF d = c THEN FirstFree ELSE mGuestSocket[d]
  BY <1>2 DEF PortsInv, PFInv
<1> DEFINE new == FirstFree
           clean == CleanPort(FirstFree)
<1>5. /\ new \in HostPorts /\ \A d \in TcpClients : mGuestSocket[d] # new
      /\ \A d \in TcpClients : mGuestSocket'[d] = IF d = c THEN new ELSE mGuestSocket[d]
      /\ tainted' = IF clean THEN tainted \ {new} ELSE tainted \cup {new}
      /\ soiled' = IF clean THEN soiled ELSE soiled \cup {c}
  BY <1>1, <1>2, <1>3, <1>4
<1>6. \A port \in HostPorts \ tainted' : IF port = new THEN clean ELSE PortInv(port)
  <2> HIDE DEF new, clean
  <2> QED
    BY <1>5 DEF PortsInv
<1>7. Taints'
  <2> HIDE DEF new, clean
  <2>1. tainted' \subseteq HostPorts
    BY <1>5 DEF PortsInv
  <2>2. \A d \in TcpClients \ soiled' : mGuestSocket'[d] \notin tainted'
    <3>1. CASE clean
      BY <1>5, <3>1 DEF PortsInv
    <3>2. CASE ~clean
      BY <1>5, <3>2 DEF PortsInv
    <3> QED
      BY <3>1, <3>2
  <2> QED
    BY <2>1, <2>2 DEF Taints
<1> QED
  BY <1>6, <1>7

\* PortsInv is inductive.
LEMMA PortsSteps == PortsInv /\ [PFNext]_pfVars => PortsInv'
<1> SUFFICES ASSUME PortsInv, [PFNext]_pfVars PROVE PortsInv'
  OBVIOUS
<1> DEFINE Kept == PFTypes' /\ Taints' /\ \A port \in HostPorts \ tainted' : PortInv(port)'
<1>0. \A port \in HostPorts \ tainted : PortInv(port)
  BY DEF PortsInv
<1>1. PFInv'
  BY PFSteps DEF PortsInv
<1>2. ASSUME AttemptConnection PROVE Kept
  <2>1. PFTypes'
    BY <1>2, AttemptTypes
  <2>2. Taints' /\ tainted' = tainted
    BY <1>2, TaintsStay DEF AttemptConnection, clientVars
  <2>3. \A port \in HostPorts \ tainted : PortInv(port)'
    BY <1>0, <1>2, AttemptPorts
  <2> QED
    BY <2>1, <2>2, <2>3
<1>3. ASSUME DeviceTakesPacket PROVE Kept
  <2>1. PFTypes'
    BY <1>3, DeviceTypes
  <2>2. Taints' /\ tainted' = tainted
    <3>1. UNCHANGED takenVars
      BY <1>3 DEF DeviceTakesPacket, AwaiterOnConnect, ClientOnConnect, ReceiveRst, ReceiveAndHangUp,
                  ReceiveRwFwd, ReceiveUnknown
    <3>2. \/ mGuestSocket' = mGuestSocket
          \/ mGuestSocket' = [c \in TcpClients |-> IF c = ArrivedFor THEN 0 ELSE mGuestSocket[c]]
      BY <1>3 DEF DeviceTakesPacket, AwaiterOnConnect, ClientOnConnect, ReceiveRst, ReceiveAndHangUp,
                  ReceiveRwFwd, ReceiveUnknown, OnUnplugFwd, clientVars
    <3> QED
      BY <3>1, <3>2, TaintsStay
  <2>3. ASSUME NEW port \in HostPorts \ tainted PROVE PortInv(port)'
    BY <1>0, <1>3, AwaiterOnConnectPorts, ClientOnConnectPorts, RstPorts, HangUpPorts, RwPorts, UnknownPorts
       DEF DeviceTakesPacket
  <2> QED
    BY <2>1, <2>2, <2>3
<1>4. ASSUME GuestTakesPacket PROVE Kept
  <2>1. PFTypes'
    BY <1>4, GuestTakesTypes
  <2>2. Taints' /\ tainted' = tainted
    BY <1>4, TaintsStay DEF GuestTakesPacket, clientVars
  <2>3. \A port \in HostPorts \ tainted : PortInv(port)'
    BY <1>0, <1>4, GuestTakesPorts
  <2> QED
    BY <2>1, <2>2, <2>3
<1>5. ASSUME NEW c \in TcpClients, ReceiveHost(c) \/ CloseHost(c)
      PROVE  Kept
  <2>1. PFTypes'
    BY <1>5, ReceiveHostTypes, CloseHostTypes
  <2>2. Taints' /\ tainted' = tainted
    <3>1. UNCHANGED takenVars /\ (mGuestSocket' = mGuestSocket \/ mGuestSocket' = [mGuestSocket EXCEPT ![c] = 0])
      BY <1>5 DEF ReceiveHost, CloseHost
    <3>2. mGuestSocket \in [TcpClients -> HostPorts \cup {0}]
      BY DEF PortsInv, PFInv
    <3> QED
      BY <3>1, <3>2, TaintsStay
  <2>3. ASSUME NEW port \in HostPorts \ tainted PROVE PortInv(port)'
    BY <1>0, <1>5, ReceiveHostPorts, CloseHostPorts
  <2> QED
    BY <2>1, <2>2, <2>3
<1>6. ASSUME NEW c \in TcpClients, AcceptIncomingSocket(c) PROVE Kept
  <2>1. PFTypes'
    BY <1>6, AcceptTypes
  <2>2. Taints' /\ \A port \in HostPorts \ tainted' : IF port = FirstFree THEN CleanPort(port) ELSE PortInv(port)
    BY <1>6, AcceptTaints
  <2>3. ASSUME NEW port \in HostPorts \ tainted' PROVE PortInv(port)'
    <3>1. IF port = FirstFree THEN CleanPort(port) ELSE PortInv(port)
      BY <2>2
    <3> QED
      BY <1>6, <3>1, AcceptPorts
  <2> QED
    BY <2>1, <2>2, <2>3
<1>7. ASSUME NEW own \in DOMAIN guestSockets, GuestSends(own) \/ GuestHangsUp(own)
      PROVE  Kept
  <2>1. PFTypes'
    BY <1>7, GuestSendsTypes
  <2>2. Taints' /\ tainted' = tainted
    BY <1>7, TaintsStay DEF GuestSends, GuestHangsUp, clientVars
  <2>3. \A port \in HostPorts \ tainted : PortInv(port)'
    BY <1>0, <1>7, GuestSendsPorts
  <2> QED
    BY <2>1, <2>2, <2>3
<1>8. ASSUME GuestBeginsToListen \/ UNCHANGED pfVars PROVE Kept
  <2>1. /\ UNCHANGED <<toGuest, toHost, fwdStreams, guestSockets, delivered, mConnected, mPreConnectedBuffer,
                       forwarded, tcp, mGuestSocket>>
        /\ UNCHANGED takenVars
    BY <1>8 DEF GuestBeginsToListen, pfVars, clientVars, guestVars, takenVars
  <2>2. PFTypes'
    BY <2>1 DEF PortsInv, PFTypes, QueueTypes, GuestTypes, ClientTypes
  <2>3. Taints' /\ tainted' = tainted
    BY <2>1, TaintsStay
  <2>4. ASSUME NEW port \in HostPorts \ tainted PROVE PortInv(port)'
    <3>1. SameFor(toGuest, toGuest', port) /\ SameFor(toHost, toHost', port)
      BY <2>1, SameForAll
    <3> QED
      BY <1>0, <2>1, <3>1, OtherPort
  <2> QED
    BY <2>2, <2>3, <2>4
<1>9. Kept
  <2> HIDE DEF Kept
  <2> QED
    BY <1>2, <1>3, <1>4, <1>5, <1>6, <1>7, <1>8 DEF PFNext
<1> QED
  BY <1>1, <1>9 DEF PortsInv, Taints

\* Two ends of which nothing is under way agree.
LEMMA PortsAgree == PortsInv => NoHalfOpen
<1> SUFFICES ASSUME PortsInv, toGuest = <<>>, toHost = <<>>, NEW port \in HostPorts \ tainted
             PROVE  /\ port \in DOMAIN guestSockets <=> port \in DOMAIN fwdStreams
                    /\ port \in DOMAIN fwdStreams =>
                          fwdStreams[port].isConnected /\ fwdStreams[port].plug = guestSockets[port]
  BY DEF NoHalfOpen, NothingUnderWay
<1>1. \A op, p : ~Bound(toGuest, op, p) /\ ~Bound(toHost, op, p)
  BY DEF Bound
<1>2. PortInv(port)
  BY DEF PortsInv
<1>3. port \in DOMAIN guestSockets => port \in DOMAIN fwdStreams
  BY <1>1, <1>2 DEF PortInv, SocketHeard, HostEnds
<1>4. ASSUME port \in DOMAIN fwdStreams
      PROVE  port \in DOMAIN guestSockets /\ fwdStreams[port].isConnected /\ fwdStreams[port].plug = guestSockets[port]
  <2>1. fwdStreams[port].isConnected /\ fwdStreams[port].plug # Awaiter
    BY <1>1, <1>2, <1>4 DEF PortInv, StreamAnswered, ToHost
  <2> QED
    BY <1>1, <1>2, <1>4, <2>1 DEF PortInv, ClientAlone, GuestEnds
<1> QED
  BY <1>3, <1>4

\* NoHalfOpen holds for any number of clients and ports: however SHUTDOWN, RST and
\* RESPONSE cross, once nothing is under way the device's streams and the guest's
\* sockets are the same, each of the same client, on every port but those whose
\* last client got them before they were clean.
THEOREM NoHalfOpenTheorem == PFSpec => []NoHalfOpen
  BY PortsInitially, PortsSteps, PortsAgree, PTL DEF PFSpec

-----------------------------------------------------------------------------
(* The bytes of a client in a queue: numbered without gaps and in order; and *)
(* what a queue holds behind the last end of a port.                         *)

\* The numbers of the bytes in a packet of data.
LEMMA FirstAndLast ==
  ASSUME NEW m \in FwdPackets, Len(m.data) > 0
  PROVE  /\ First(m) \in Nat /\ Last(m) \in Nat /\ Len(m.data) \in Nat
         /\ Last(m) = First(m) + Len(m.data) - 1 /\ First(m) <= Last(m)
<1>1. m.data \in Seq(TcpClients \X Nat)
  BY DEF FwdPackets, Bytes
<1>2. m.data[1] \in TcpClients \X Nat /\ Len(m.data) \in Nat
  BY <1>1
<1>3. First(m) \in Nat
  BY <1>2 DEF First
<1> QED
  BY <1>2, <1>3 DEF Last

\* Numbers, byte by byte.
LEMMA NumbersAt ==
  ASSUME NEW s, NEW c, NEW n, Numbers(s, c, n)
  PROVE  \A i \in 1..Len(s) : s[i] = <<c, n + i>>
<1> DEFINE l == Len(s)
<1>1. s = [i \in 1..l |-> <<c, n + i>>]
  BY DEF Numbers
<1> HIDE DEF l
<1>2. \A i \in 1..l : s[i] = <<c, n + i>>
  BY ONLY <1>1
<1> QED
  BY <1>2 DEF l

\* And back.
LEMMA NumbersFrom ==
  ASSUME NEW s \in Seq(Bytes), NEW c, NEW n, \A i \in 1..Len(s) : s[i] = <<c, n + i>>
  PROVE  Numbers(s, c, n)
<1> DEFINE l == Len(s)
<1>1. s = [i \in 1..l |-> s[i]]
  OBVIOUS
<1>2. \A i \in 1..l : s[i] = <<c, n + i>>
  OBVIOUS
<1> HIDE DEF l
<1>3. s = [i \in 1..l |-> <<c, n + i>>]
  BY ONLY <1>1, <1>2
<1> QED
  BY <1>3 DEF Numbers, l

\* A packet that is not data of the client says nothing of its bytes.
LEMMA OtherAdded ==
  ASSUME NEW q \in Seq(FwdPackets), NEW m \in FwdPackets, NEW c, ~(m.op = "RW" /\ m.of = c), NEW lo, NEW hi
  PROVE  /\ Ledger(q, c, lo, hi) => Ledger(Append(q, m), c, lo, hi)
         /\ Covers(q, c, lo, hi) => Covers(Append(q, m), c, lo, hi)
<1> DEFINE r == Append(q, m)
           n == Len(q)
<1>1. /\ n \in Nat /\ Len(r) = n + 1 /\ r[n + 1] = m /\ \A i \in 1..n : r[i] = q[i]
  OBVIOUS
<1>2. \A i \in 1..Len(r) : RwOf(r, i, c) => i \in 1..n /\ r[i] = q[i] /\ RwOf(q, i, c)
  BY <1>1 DEF RwOf
<1>3. \A i \in 1..n : RwOf(q, i, c) => i \in 1..Len(r) /\ r[i] = q[i] /\ RwOf(r, i, c)
  BY <1>1 DEF RwOf
<1> HIDE DEF r
<1>4. Ledger(q, c, lo, hi) => Ledger(r, c, lo, hi)
  BY <1>2 DEF Ledger
<1>5. Covers(q, c, lo, hi) => Covers(r, c, lo, hi)
  BY <1>3 DEF Covers
<1> QED
  BY <1>4, <1>5 DEF r

\* The ledger survives any packet's being taken, and what it covers any but the client's data.
LEMMA OtherTaken ==
  ASSUME NEW q \in Seq(FwdPackets), q # <<>>, NEW c, NEW lo, NEW hi
  PROVE  /\ Ledger(q, c, lo, hi) => Ledger(Tail(q), c, lo, hi)
         /\ ~(Head(q).op = "RW" /\ Head(q).of = c) /\ Covers(q, c, lo, hi) => Covers(Tail(q), c, lo, hi)
<1> DEFINE r == Tail(q)
           n == Len(r)
<1>1. /\ n \in Nat /\ Len(q) = n + 1 /\ q[1] = Head(q) /\ \A i \in 1..n : r[i] = q[i + 1]
  OBVIOUS
<1>2. \A i \in 1..n : i + 1 \in 1..Len(q) /\ r[i] = q[i + 1] /\ (RwOf(r, i, c) => RwOf(q, i + 1, c))
  BY <1>1 DEF RwOf
<1>3. ~(Head(q).op = "RW" /\ Head(q).of = c) =>
         \A i \in 1..Len(q) : RwOf(q, i, c) => i - 1 \in 1..n /\ r[i - 1] = q[i] /\ RwOf(r, i - 1, c)
  BY <1>1 DEF RwOf
<1> HIDE DEF r
<1>4. Ledger(q, c, lo, hi) => Ledger(r, c, lo, hi)
  <2> SUFFICES ASSUME Ledger(q, c, lo, hi) PROVE Ledger(r, c, lo, hi)
    OBVIOUS
  <2>1. ASSUME NEW i \in 1..n, RwOf(r, i, c)
        PROVE  Len(r[i].data) > 0 /\ Numbers(r[i].data, c, First(r[i]) - 1) /\ lo < First(r[i]) /\ Last(r[i]) <= hi
    <3>1. i + 1 \in 1..Len(q) /\ r[i] = q[i + 1] /\ RwOf(q, i + 1, c)
      BY <1>2, <2>1
    <3> QED
      BY <3>1 DEF Ledger
  <2>2. ASSUME NEW i \in 1..n, NEW j \in 1..n, i < j, RwOf(r, i, c), RwOf(r, j, c) PROVE Last(r[i]) < First(r[j])
    <3>1. i + 1 \in 1..Len(q) /\ r[i] = q[i + 1] /\ RwOf(q, i + 1, c)
      BY <1>2, <2>2
    <3>2. j + 1 \in 1..Len(q) /\ r[j] = q[j + 1] /\ RwOf(q, j + 1, c) /\ i + 1 < j + 1
      BY <1>2, <2>2
    <3> QED
      BY <3>1, <3>2 DEF Ledger
  <2> QED
    BY <2>1, <2>2 DEF Ledger
<1>5. ASSUME ~(Head(q).op = "RW" /\ Head(q).of = c), Covers(q, c, lo, hi) PROVE Covers(r, c, lo, hi)
  <2> SUFFICES ASSUME NEW k \in (lo + 1)..hi
               PROVE  \E i \in 1..Len(r) : RwOf(r, i, c) /\ First(r[i]) <= k /\ k <= Last(r[i])
    BY DEF Covers
  <2>1. PICK i \in 1..Len(q) : RwOf(q, i, c) /\ First(q[i]) <= k /\ k <= Last(q[i])
    BY <1>5 DEF Covers
  <2>2. i - 1 \in 1..n /\ r[i - 1] = q[i] /\ RwOf(r, i - 1, c)
    BY <1>3, <1>5, <2>1
  <2> QED
    BY <2>1, <2>2
<1> QED
  BY <1>4, <1>5 DEF r

\* The client's next bytes are added.
LEMMA DataAdded ==
  ASSUME NEW q \in Seq(FwdPackets), NEW m \in FwdPackets, NEW c, m.op = "RW" /\ m.of = c, NEW lo \in Nat, NEW hi \in Nat,
         lo <= hi, Len(m.data) > 0, Numbers(m.data, c, hi), Ledger(q, c, lo, hi)
  PROVE  /\ Ledger(Append(q, m), c, lo, hi + Len(m.data))
         /\ Covers(q, c, lo, hi) => Covers(Append(q, m), c, lo, hi + Len(m.data))
<1> DEFINE r == Append(q, m)
           n == Len(q)
           k == Len(m.data)
           up == hi + Len(m.data)
<1>1. /\ n \in Nat /\ Len(r) = n + 1 /\ r[n + 1] = m /\ (\A i \in 1..n : r[i] = q[i] /\ q[i] \in FwdPackets)
      /\ k \in Nat /\ k > 0
  BY FirstAndLast
<1>2. First(m) = hi + 1 /\ Last(m) = up /\ up \in Nat /\ up > hi
  <2> DEFINE s == m.data
             l == Len(m.data)
  <2>1. Numbers(s, c, hi) /\ Len(s) = l /\ l \in Nat /\ l > 0
    BY <1>1
  <2>2. First(m) = s[1][2] /\ Last(m) = First(m) + l - 1
    BY DEF First, Last
  <2> HIDE DEF s, l
  <2>3. s = [i \in 1..l |-> <<c, hi + i>>]
    BY ONLY <2>1 DEF Numbers
  <2>4. s[1] = <<c, hi + 1>>
    BY <2>1, <2>3
  <2>5. First(m) = hi + 1
    BY <2>2, <2>4
  <2>6. Last(m) = hi + l /\ hi + l \in Nat /\ hi + l > hi
    BY ONLY <2>1, <2>2, <2>5, hi \in Nat
  <2> QED
    BY <2>5, <2>6 DEF l
<1>3. \A i \in 1..Len(r) : (i \in 1..n /\ r[i] = q[i] /\ (RwOf(r, i, c) => RwOf(q, i, c))) \/ (i = n + 1 /\ r[i] = m)
  BY <1>1 DEF RwOf
<1>4. \A i \in 1..n : RwOf(q, i, c) => i \in 1..Len(r) /\ r[i] = q[i] /\ RwOf(r, i, c)
  BY <1>1 DEF RwOf
<1>5. n + 1 \in 1..Len(r) /\ RwOf(r, n + 1, c)
  BY <1>1 DEF RwOf
<1> HIDE DEF r, up
<1>6. \A i \in 1..n : RwOf(q, i, c) =>
         /\ Len(q[i].data) > 0 /\ Numbers(q[i].data, c, First(q[i]) - 1) /\ lo < First(q[i]) /\ Last(q[i]) <= hi
         /\ First(q[i]) \in Nat /\ Last(q[i]) \in Nat
  BY <1>1, FirstAndLast DEF Ledger
<1>7. Ledger(r, c, lo, up)
  <2>1. ASSUME NEW i \in 1..Len(r), RwOf(r, i, c)
        PROVE  Len(r[i].data) > 0 /\ Numbers(r[i].data, c, First(r[i]) - 1) /\ lo < First(r[i]) /\ Last(r[i]) <= up
    <3>1. CASE i \in 1..n /\ r[i] = q[i] /\ RwOf(q, i, c)
      BY <1>2, <1>6, <3>1
    <3>2. CASE r[i] = m
      <4>1. First(m) - 1 = hi
        BY <1>2
      <4> QED
        BY <1>1, <1>2, <3>2, <4>1
    <3> QED
      BY <1>3, <2>1, <3>1, <3>2
  <2>2. ASSUME NEW i \in 1..Len(r), NEW j \in 1..Len(r), i < j, RwOf(r, i, c), RwOf(r, j, c)
        PROVE  Last(r[i]) < First(r[j])
    <3>1. i \in 1..n /\ r[i] = q[i] /\ RwOf(q, i, c)
      BY <1>1, <1>3, <2>2
    <3>2. CASE j \in 1..n /\ r[j] = q[j] /\ RwOf(q, j, c)
      BY <2>2, <3>1, <3>2 DEF Ledger
    <3>3. CASE r[j] = m
      BY <1>2, <1>6, <3>1, <3>3
    <3> QED
      BY <1>3, <2>2, <3>2, <3>3
  <2> QED
    BY <2>1, <2>2 DEF Ledger
<1>8. ASSUME Covers(q, c, lo, hi) PROVE Covers(r, c, lo, up)
  <2> SUFFICES ASSUME NEW x \in (lo + 1)..up
               PROVE  \E i \in 1..Len(r) : RwOf(r, i, c) /\ First(r[i]) <= x /\ x <= Last(r[i])
    BY DEF Covers
  <2>1. CASE x <= hi
    <3>1. x \in (lo + 1)..hi
      BY <1>2, <2>1
    <3>2. PICK i \in 1..n : RwOf(q, i, c) /\ First(q[i]) <= x /\ x <= Last(q[i])
      BY <1>8, <3>1 DEF Covers
    <3> QED
      BY <1>4, <3>2
  <2>2. CASE x > hi
    <3>1. First(r[n + 1]) <= x /\ x <= Last(r[n + 1])
      BY <1>1, <1>2, <2>2 DEF r
    <3> QED
      BY <1>5, <3>1
  <2> QED
    BY <1>2, <2>1, <2>2
<1> QED
  BY <1>7, <1>8 DEF r, up

\* The client's next bytes are taken: they follow what was taken before.
LEMMA DataTaken ==
  ASSUME NEW q \in Seq(FwdPackets), q # <<>>, NEW c, Head(q).op = "RW" /\ Head(q).of = c, NEW lo \in Nat, NEW hi \in Nat,
         Ledger(q, c, lo, hi), Covers(q, c, lo, hi)
  PROVE  LET n == Len(Head(q).data)
         IN  /\ n \in Nat /\ Numbers(Head(q).data, c, lo) /\ lo + n <= hi
             /\ Ledger(Tail(q), c, lo + n, hi) /\ Covers(Tail(q), c, lo + n, hi)
<1> DEFINE r == Tail(q)
           k == Len(r)
           m == Head(q)
           n == Len(Head(q).data)
<1>1. /\ k \in Nat /\ Len(q) = k + 1 /\ q[1] = m /\ m \in FwdPackets
      /\ (\A i \in 1..k : r[i] = q[i + 1] /\ r[i] \in FwdPackets)
      /\ \A i \in 1..Len(q) : q[i] \in FwdPackets
  OBVIOUS
<1>2. 1 \in 1..Len(q) /\ RwOf(q, 1, c)
  BY <1>1 DEF RwOf
<1>3. n > 0 /\ Numbers(m.data, c, First(m) - 1) /\ lo < First(m) /\ Last(m) <= hi
  BY <1>1, <1>2 DEF Ledger
<1>4. First(m) \in Nat /\ Last(m) \in Nat /\ n \in Nat /\ Last(m) = First(m) + n - 1
  BY <1>1, <1>3, FirstAndLast
<1>5. \A i \in 1..Len(q) : RwOf(q, i, c) => First(q[i]) \in Nat /\ Last(q[i]) \in Nat /\ Len(q[i].data) > 0
  BY <1>1, FirstAndLast DEF Ledger
<1>6. \A i \in 1..Len(q) : RwOf(q, i, c) => i = 1 \/ Last(m) < First(q[i])
  BY <1>1, <1>2 DEF Ledger
<1>7. First(m) = lo + 1
  <2>1. lo + 1 \in (lo + 1)..hi
    BY <1>3, <1>4
  <2>2. PICK i \in 1..Len(q) : RwOf(q, i, c) /\ First(q[i]) <= lo + 1 /\ lo + 1 <= Last(q[i])
    BY <2>1 DEF Covers
  <2>3. i = 1 \/ Last(m) < First(q[i])
    BY <1>6, <2>2
  <2>4. First(m) <= lo + 1
    BY <1>1, <1>3, <1>4, <1>5, <2>2, <2>3
  <2> QED
    BY <1>3, <1>4, <2>4
<1>8. Last(m) = lo + n
  BY <1>4, <1>7
<1>9. \A i \in 1..k : i + 1 \in 1..Len(q) /\ r[i] = q[i + 1] /\ (RwOf(r, i, c) <=> RwOf(q, i + 1, c))
  BY <1>1 DEF RwOf
<1> HIDE DEF r, m, n
<1>10. Ledger(r, c, lo + n, hi)
  <2>1. Ledger(r, c, lo, hi)
    BY OtherTaken DEF r
  <2>2. \A i \in 1..k : RwOf(r, i, c) => lo + n < First(r[i])
    <3> SUFFICES ASSUME NEW i \in 1..k, RwOf(r, i, c) PROVE lo + n < First(r[i])
      OBVIOUS
    <3>1. i + 1 \in 1..Len(q) /\ r[i] = q[i + 1] /\ RwOf(q, i + 1, c) /\ i + 1 # 1
      BY <1>9
    <3> QED
      BY <1>6, <1>8, <3>1
  <2> QED
    BY <2>1, <2>2 DEF Ledger
<1>11. Covers(r, c, lo + n, hi)
  <2> SUFFICES ASSUME NEW x \in (lo + n + 1)..hi
               PROVE  \E i \in 1..k : RwOf(r, i, c) /\ First(r[i]) <= x /\ x <= Last(r[i])
    BY DEF Covers
  <2>1. x \in (lo + 1)..hi /\ x > lo + n
    BY <1>4
  <2>2. PICK i \in 1..Len(q) : RwOf(q, i, c) /\ First(q[i]) <= x /\ x <= Last(q[i])
    BY <2>1 DEF Covers
  <2>3. i # 1
    BY <1>1, <1>4, <1>8, <2>1, <2>2
  <2>4. i - 1 \in 1..k /\ i = (i - 1) + 1
    BY <1>1, <2>3
  <2>5. r[i - 1] = q[i] /\ RwOf(r, i - 1, c)
    BY <1>9, <2>2, <2>4
  <2> QED
    BY <2>2, <2>4, <2>5
<1>12. n \in Nat /\ Numbers(m.data, c, lo) /\ lo + n <= hi
  <2>1. First(m) - 1 = lo
    BY <1>7
  <2> QED
    BY <1>3, <1>4, <1>8, <2>1
<1> QED
  BY <1>10, <1>11, <1>12 DEF r, m, n

\* Bytes that follow each other.
LEMMA NumbersJoin ==
  ASSUME NEW s \in Seq(Bytes), NEW t \in Seq(Bytes), NEW c, Numbers(s, c, 0), Numbers(t, c, Len(s))
  PROVE  s \o t \in Seq(Bytes) /\ Numbers(s \o t, c, 0) /\ Len(s \o t) = Len(s) + Len(t)
<1> DEFINE k == Len(s)
           l == Len(t)
           r == s \o t
<1>1. /\ k \in Nat /\ l \in Nat /\ r \in Seq(Bytes) /\ Len(r) = k + l
      /\ \A i \in 1..k : r[i] = s[i]
      /\ \A i \in (k + 1)..(k + l) : r[i] = t[i - k]
  OBVIOUS
<1>2. (\A i \in 1..k : s[i] = <<c, 0 + i>>) /\ (\A i \in 1..l : t[i] = <<c, k + i>>)
  BY NumbersAt, Zenon
<1> HIDE DEF r, k, l
<1>3. ASSUME NEW i \in 1..Len(r) PROVE r[i] = <<c, 0 + i>>
  <2>1. CASE i <= k
    BY <1>1, <1>2, <2>1
  <2>2. CASE i > k
    <3>1. i \in (k + 1)..(k + l) /\ i - k \in 1..l /\ k + (i - k) = 0 + i
      BY <1>1, <2>2
    <3>2. r[i] = t[i - k] /\ t[i - k] = <<c, k + (i - k)>>
      BY <1>1, <1>2, <3>1
    <3> QED
      BY <3>1, <3>2
  <2> QED
    BY <1>1, <2>1, <2>2
<1>4. Numbers(r, c, 0)
  BY <1>1, <1>3, NumbersFrom
<1> QED
  BY <1>1, <1>4 DEF r, k, l

\* A fence stays where it is when a packet is added, unless the client asks again.
LEMMA FenceAdded ==
  ASSUME NEW q \in Seq(FwdPackets), NEW m \in FwdPackets, NEW port, NEW c, Fenced(q, port, c),
         ~(m.op = "REQUEST" /\ m.of = c)
  PROVE  Fenced(Append(q, m), port, c)
<1> DEFINE r == Append(q, m)
           n == Len(q)
<1>1. n \in Nat /\ Len(r) = n + 1 /\ r[n + 1] = m /\ \A i \in 1..n : r[i] = q[i]
  OBVIOUS
<1> HIDE DEF r
<1>2. PICK i \in 1..n :
        /\ q[i].op \in {"SHUTDOWN", "RST"} /\ q[i].port = port
        /\ \A j \in 1..n : q[j].port = port /\ q[j].op \in {"REQUEST", "RW"} =>
              IF j < i THEN q[j].of = c ELSE q[j].op = "RW" \/ q[j].of # c
  BY DEF Fenced
<1>3. i \in 1..Len(r) /\ r[i] = q[i]
  BY <1>1
<1>4. ASSUME NEW j \in 1..Len(r), r[j].port = port, r[j].op \in {"REQUEST", "RW"}
      PROVE  IF j < i THEN r[j].of = c ELSE r[j].op = "RW" \/ r[j].of # c
  <2>1. CASE j \in 1..n
    BY <1>1, <1>2, <1>4, <2>1
  <2>2. CASE j = n + 1
    <3>1. ~(j < i) /\ r[j] = m
      BY <1>1, <2>2
    <3> QED
      BY <1>4, <3>1
  <2> QED
    BY <1>1, <2>1, <2>2
<1>5. Fenced(r, port, c)
  BY <1>2, <1>3, <1>4 DEF Fenced
<1> QED
  BY <1>5 DEF r

\* An end that follows nothing but what is the client's own is a fence.
LEMMA FenceMade ==
  ASSUME NEW q \in Seq(FwdPackets), NEW m \in FwdPackets, NEW c, m.op \in {"SHUTDOWN", "RST"},
         \A op \in {"REQUEST", "RW"}, d \in Owner : Holds(q, op, m.port, d) => d = c
  PROVE  Fenced(Append(q, m), m.port, c)
<1> DEFINE r == Append(q, m)
           n == Len(q)
<1>1. n \in Nat /\ Len(r) = n + 1 /\ r[n + 1] = m /\ \A i \in 1..n : r[i] = q[i] /\ q[i] \in FwdPackets
  OBVIOUS
<1> HIDE DEF r
<1>2. ASSUME NEW j \in 1..Len(r), r[j].port = m.port, r[j].op \in {"REQUEST", "RW"}
      PROVE  j < n + 1 /\ r[j].of = c
  <2>1. j # n + 1
    BY <1>1, <1>2
  <2>2. j \in 1..n /\ r[j] = q[j] /\ q[j] \in FwdPackets
    BY <1>1, <2>1
  <2>3. q[j].of \in Owner
    BY <2>2 DEF FwdPackets
  <2>4. Holds(q, q[j].op, m.port, q[j].of)
    BY <1>2, <2>2 DEF Holds
  <2> QED
    BY <1>1, <1>2, <2>2, <2>3, <2>4
<1>3. n + 1 \in 1..Len(r)
  BY <1>1
<1>4. Fenced(r, m.port, c)
  BY <1>1, <1>2, <1>3 DEF Fenced
<1> QED
  BY <1>4 DEF r

\* When a packet is taken the fence comes nearer, or it was the fence.
LEMMA FenceTaken ==
  ASSUME NEW q \in Seq(FwdPackets), q # <<>>, NEW port, NEW c, Fenced(q, port, c)
  PROVE  /\ Head(q).op = "RW" /\ Head(q).port = port => Head(q).of = c
         /\ \/ Fenced(Tail(q), port, c)
            \/ /\ Head(q).op \in {"SHUTDOWN", "RST"} /\ Head(q).port = port
               /\ ~Holds(Tail(q), "REQUEST", port, c)
<1> DEFINE r == Tail(q)
           n == Len(r)
           m == Head(q)
<1>1. n \in Nat /\ Len(q) = n + 1 /\ q[1] = m /\ \A i \in 1..n : r[i] = q[i + 1]
  OBVIOUS
<1> HIDE DEF r, m
<1>2. PICK i \in 1..Len(q) :
        /\ q[i].op \in {"SHUTDOWN", "RST"} /\ q[i].port = port
        /\ \A j \in 1..Len(q) : q[j].port = port /\ q[j].op \in {"REQUEST", "RW"} =>
              IF j < i THEN q[j].of = c ELSE q[j].op = "RW" \/ q[j].of # c
  BY DEF Fenced
<1>3. ASSUME i = 1 PROVE m.op # "RW" /\ m.op \in {"SHUTDOWN", "RST"} /\ m.port = port /\ ~Holds(r, "REQUEST", port, c)
  <2>1. ASSUME NEW k \in 1..n, r[k].op = "REQUEST", r[k].port = port, r[k].of = c PROVE FALSE
    <3>1. k + 1 \in 1..Len(q) /\ q[k + 1] = r[k] /\ ~(k + 1 < i)
      BY <1>1, <1>3
    <3> QED
      BY <1>2, <2>1, <3>1
  <2> QED
    BY <1>1, <1>2, <1>3, <2>1 DEF Holds
<1>4. ASSUME i # 1 PROVE (m.op = "RW" /\ m.port = port => m.of = c) /\ Fenced(r, port, c)
  <2>1. i - 1 \in 1..n /\ r[i - 1] = q[i] /\ 1 < i /\ 1 \in 1..Len(q)
    BY <1>1, <1>4
  <2>2. m.op = "RW" /\ m.port = port => m.of = c
    BY <1>1, <1>2, <2>1
  <2>3. ASSUME NEW j \in 1..n, r[j].port = port, r[j].op \in {"REQUEST", "RW"}
        PROVE  IF j < i - 1 THEN r[j].of = c ELSE r[j].op = "RW" \/ r[j].of # c
    <3>1. j + 1 \in 1..Len(q) /\ q[j + 1] = r[j] /\ (j + 1 < i <=> j < i - 1)
      BY <1>1, <2>1
    <3> QED
      BY <1>2, <2>3, <3>1
  <2>4. Fenced(r, port, c)
    BY <1>2, <2>1, <2>3 DEF Fenced
  <2> QED
    BY <2>2, <2>4
<1> QED
  BY <1>3, <1>4 DEF r, m

-----------------------------------------------------------------------------
(* Steps that say nothing of a client: its bytes stay as they are.           *)

\* The inductive invariant of ForwardedInOrder.
BytesInv == PortsInv /\ \A c \in TcpClients \ soiled : ClientBytes(c)

\* Going from q to r says nothing new of the client: no request, no data, and
\* what there was of its bytes, and the fence behind them, still is.
QueueQuiet(q, r, c) ==
    /\ \A lo, hi : (Ledger(q, c, lo, hi) => Ledger(r, c, lo, hi)) /\ (Covers(q, c, lo, hi) => Covers(r, c, lo, hi))
    /\ \A op \in {"REQUEST", "RW"} : \A p : Holds(r, op, p, c) => Holds(q, op, p, c)
    /\ \A p : Fenced(q, p, c) => Fenced(r, p, c)

NoNewSocket(c) == \A p \in DOMAIN guestSockets' : guestSockets'[p] = c => p \in DOMAIN guestSockets /\ guestSockets[p] = c

\* A step that leaves a client alone, or ends its stream.
Quiet(c) ==
    /\ QueueQuiet(toGuest, toGuest', c) /\ NoNewSocket(c)
    /\ forwarded'[c] = forwarded[c] /\ delivered'[c] = delivered[c] /\ mConnected'[c] = mConnected[c]
    /\ mPreConnectedBuffer'[c] = mPreConnectedBuffer[c]
    /\ tcp'[c] = "new" => tcp[c] = "new"
    /\ mGuestSocket'[c] \in {0, mGuestSocket[c]}

\* A packet that is neither a request nor data of a client is quiet for it.
LEMMA AddedQuiet ==
  ASSUME NEW q \in Seq(FwdPackets), NEW op \in {"REQUEST", "RESPONSE", "RST", "SHUTDOWN", "RW"},
         NEW port \in HostPorts, NEW of \in Owner, NEW data \in Seq(Bytes)
  PROVE  \A c : ~(op \in {"REQUEST", "RW"} /\ of = c) => QueueQuiet(q, Append(q, FwdPacket(op, port, of, data)), c)
<1> DEFINE m == FwdPacket(op, port, of, data)
           r == Append(q, m)
<1>1. m \in FwdPackets /\ m.op = op /\ m.port = port /\ m.of = of
  BY PacketIsMade
<1>2. Added(q, r, op, port, of)
  BY AddedFacts
<1>3. ASSUME NEW c, ~(op \in {"REQUEST", "RW"} /\ of = c) PROVE QueueQuiet(q, r, c)
  <2> HIDE DEF m
  <2>1. ~(m.op = "RW" /\ m.of = c)
    BY <1>1, <1>3
  <2>2. ASSUME NEW lo, NEW hi
        PROVE  (Ledger(q, c, lo, hi) => Ledger(r, c, lo, hi)) /\ (Covers(q, c, lo, hi) => Covers(r, c, lo, hi))
    BY <1>1, <2>1, OtherAdded
  <2>3. ASSUME NEW p, Fenced(q, p, c) PROVE Fenced(r, p, c)
    <3>1. ~(m.op = "REQUEST" /\ m.of = c)
      BY <1>1, <1>3
    <3> QED
      BY <1>1, <2>3, <3>1, FenceAdded
  <2> HIDE DEF r
  <2>4. \A o \in {"REQUEST", "RW"} : \A p : Holds(r, o, p, c) => Holds(q, o, p, c)
    BY <1>2, <1>3 DEF Added
  <2> QED
    BY <2>2, <2>3, <2>4 DEF QueueQuiet
<1> QED
  BY <1>3

\* So is no packet at all.
LEMMA NothingQuiet ==
  ASSUME NEW q, NEW c PROVE QueueQuiet(q, q, c)
  BY DEF QueueQuiet

\* So are two in a row.
LEMMA QuietTwice ==
  ASSUME NEW q, NEW r, NEW s, NEW c, QueueQuiet(q, r, c), QueueQuiet(r, s, c)
  PROVE  QueueQuiet(q, s, c)
  BY DEF QueueQuiet

\* While a client has its stream it has all that is its own on that port.
LEMMA OwnDataHere ==
  ASSUME NEW c \in TcpClients, OnePort(c)', mGuestSocket'[c] \in HostPorts
  PROVE  OwnData(c)'
<1> SUFFICES ASSUME NEW p \in HostPorts, Claims(c, p)', mGuestSocket'[c] # p PROVE FALSE
  BY DEF OwnData
<1>1. Uses(c, p)' /\ Uses(c, mGuestSocket[c])'
  BY DEF Uses, Claims
<1> QED
  BY <1>1 DEF OnePort

\* A claim that a client has after a quiet step it had before.
LEMMA QuietClaims ==
  ASSUME NEW c, NEW p, QueueQuiet(toGuest, toGuest', c), NoNewSocket(c), Claims(c, p)'
  PROVE  Claims(c, p)
  BY DEF Claims, QueueQuiet, NoNewSocket

\* Without new sockets and requests the fence of a client that is gone stays.
LEMMA QuietData ==
  ASSUME NEW c \in TcpClients, OwnData(c), QueueQuiet(toGuest, toGuest', c), NoNewSocket(c),
         mGuestSocket'[c] = mGuestSocket[c]
  PROVE  OwnData(c)'
<1> SUFFICES ASSUME NEW p \in HostPorts, Claims(c, p)', mGuestSocket[c] # p PROVE Fenced(toGuest', p, c)
  BY DEF OwnData
<1>1. Claims(c, p)
  BY QuietClaims
<1>2. Fenced(toGuest, p, c)
  BY <1>1 DEF OwnData
<1> QED
  BY <1>2 DEF QueueQuiet

\* A quiet step keeps a client's port, its buffer and its bytes.
LEMMA QuietKeeps ==
  ASSUME NEW c \in TcpClients, ClientBytes(c), Quiet(c), OwnData(c)'
  PROVE  ClientBytes(c)'
<1>1. ASSUME NEW p \in HostPorts, Uses(c, p)' PROVE Uses(c, p)
  <2>1. CASE mGuestSocket'[c] = p
    BY <2>1, PortForwardAssumption DEF Quiet, Uses
  <2>2. CASE p \in DOMAIN guestSockets' /\ guestSockets'[p] = c
    BY <2>2 DEF Quiet, NoNewSocket, Uses
  <2>3. CASE Holds(toGuest', "REQUEST", p, c) \/ Holds(toGuest', "RW", p, c)
    BY <2>3 DEF Quiet, QueueQuiet, Uses
  <2> QED
    BY <1>1, <2>1, <2>2, <2>3 DEF Uses
<1>2. OnePort(c)'
  BY <1>1 DEF OnePort, ClientBytes, Quiet
<1>3. Buffered(c)'
  BY DEF Buffered, ClientBytes, Quiet, QueueQuiet
<1>4. InOrder(c)'
  BY DEF InOrder, ClientBytes, Quiet, QueueQuiet, NoNewSocket
<1> QED
  BY <1>2, <1>3, <1>4 DEF ClientBytes

\* What most steps do.
LEMMA QuietStep ==
  ASSUME BytesInv, NEW c \in TcpClients \ soiled, Quiet(c), mGuestSocket'[c] = mGuestSocket[c]
  PROVE  ClientBytes(c)'
<1>1. ClientBytes(c) /\ OwnData(c)
  BY DEF BytesInv, ClientBytes
<1>2. OwnData(c)'
  BY <1>1, QuietData DEF Quiet
<1> QED
  BY <1>1, <1>2, QuietKeeps

\* attemptConnection() sends no data.
LEMMA AttemptBytes == ASSUME BytesInv, AttemptConnection, NEW c \in TcpClients \ soiled PROVE ClientBytes(c)'
<1> DEFINE new == FirstFree
           asked == Append(toGuest, FwdPacket("REQUEST", new, Awaiter, <<>>))
<1>1. /\ new \in HostPorts /\ Awaiter \in Owner /\ <<>> \in Seq(Bytes) /\ toGuest \in Seq(FwdPackets) /\ c # Awaiter
  BY FirstFreeIsFree, PortForwardAssumption DEF AttemptConnection, Owner, BytesInv, PortsInv, PFTypes, QueueTypes
<1>2. /\ UNCHANGED clientVars /\ UNCHANGED guestVars
      /\ toGuest' = asked \o (IF mSocket = 0 THEN <<>> ELSE <<FwdPacket("SHUTDOWN", mSocket, Awaiter, <<>>)>>)
  BY DEF AttemptConnection
<1> HIDE DEF new
<1>3. asked \in Seq(FwdPackets) /\ QueueQuiet(toGuest, asked, c)
  <2>1. FwdPacket("REQUEST", new, Awaiter, <<>>) \in FwdPackets
    BY <1>1, PacketIsMade
  <2>2. asked \in Seq(FwdPackets)
    BY <1>1, <2>1
  <2>3. QueueQuiet(toGuest, asked, c)
    BY <1>1, AddedQuiet
  <2> QED
    BY <2>2, <2>3
<1> HIDE DEF asked
<1>4. QueueQuiet(asked, toGuest', c)
  <2>1. CASE mSocket = 0
    <3>1. toGuest' = asked
      BY <1>2, <1>3, <2>1
    <3> QED
      BY <3>1, NothingQuiet
  <2>2. CASE mSocket # 0
    <3>1. mSocket \in HostPorts
      BY <2>2 DEF BytesInv, PortsInv, PFInv
    <3>2. FwdPacket("SHUTDOWN", mSocket, Awaiter, <<>>) \in FwdPackets
      BY <1>1, <3>1, PacketIsMade
    <3>3. toGuest' = Append(asked, FwdPacket("SHUTDOWN", mSocket, Awaiter, <<>>))
      BY <1>2, <1>3, <2>2, <3>2
    <3> QED
      BY <1>1, <1>3, <3>1, <3>3, AddedQuiet
  <2> QED
    BY <2>1, <2>2
<1>5. QueueQuiet(toGuest, toGuest', c)
  BY <1>3, <1>4, QuietTwice
<1>6. Quiet(c)
  BY <1>2, <1>5 DEF Quiet, NoNewSocket, clientVars, guestVars
<1> QED
  BY <1>2, <1>6, QuietStep DEF clientVars

\* The packets that tell the guest of an end are quiet.
LEMMA EndIsQuiet ==
  ASSUME BytesInv, NEW op \in {"RST", "SHUTDOWN"}, NEW port \in HostPorts, NEW of \in Owner, NEW c \in TcpClients,
         toGuest' = toGuest \/ toGuest' = Append(toGuest, FwdPacket(op, port, of, <<>>))
  PROVE  QueueQuiet(toGuest, toGuest', c)
<1>1. CASE toGuest' = toGuest
  BY <1>1, NothingQuiet
<1>2. CASE toGuest' = Append(toGuest, FwdPacket(op, port, of, <<>>))
  <2>1. toGuest \in Seq(FwdPackets) /\ <<>> \in Seq(Bytes)
    BY DEF BytesInv, PortsInv, PFTypes, QueueTypes
  <2> QED
    BY <1>2, <2>1, AddedQuiet
<1> QED
  BY <1>1, <1>2

\* The client's own stream ends: with a SHUTDOWN behind all that it has sent, or
\* when nothing of it is left at the guest and no request is under way.
LEMMA OwnStreamEnds ==
  ASSUME BytesInv, NEW c \in TcpClients \ soiled, Quiet(c), mGuestSocket[c] \in HostPorts,
         \/ toGuest' = Append(toGuest, FwdPacket("SHUTDOWN", mGuestSocket[c], c, <<>>))
         \/ ~Claims(c, mGuestSocket[c])
  PROVE  ClientBytes(c)'
<1> DEFINE own == mGuestSocket[c]
<1>1. ClientBytes(c) /\ OnePort(c)
  BY DEF BytesInv, ClientBytes
<1>2. ASSUME NEW p \in HostPorts, Claims(c, p)' PROVE p = own /\ Claims(c, own)
  <2>1. Claims(c, p)
    BY <1>2, QuietClaims DEF Quiet
  <2>2. Uses(c, p) /\ Uses(c, own)
    BY <2>1 DEF Uses, Claims
  <2>3. p = own
    BY <1>1, <2>2 DEF OnePort
  <2> QED
    BY <2>1, <2>3
<1>3. ASSUME toGuest' = Append(toGuest, FwdPacket("SHUTDOWN", own, c, <<>>)) PROVE Fenced(toGuest', own, c)
  <2>1. toGuest \in Seq(FwdPackets) /\ <<>> \in Seq(Bytes) /\ c \in Owner /\ c # Awaiter
    BY PortForwardAssumption DEF BytesInv, PortsInv, PFTypes, QueueTypes, Owner
  <2>2. own \in DOMAIN fwdStreams /\ fwdStreams[own].plug = c /\ PortInv(own)
    BY DEF BytesInv, PortsInv, PFInv, PointersAgree
  <2>3. \A op \in {"REQUEST", "RW"}, d \in Owner : Holds(toGuest, op, own, d) => d = c
    BY <2>1, <2>2 DEF PortInv, ClientAlone
  <2> DEFINE m == FwdPacket("SHUTDOWN", own, c, <<>>)
  <2> HIDE DEF own
  <2>4. own \in HostPorts
    BY DEF own
  <2>5. m \in FwdPackets /\ m.op = "SHUTDOWN" /\ m.port = own
    BY ONLY <2>1, <2>4 DEF FwdPacket, FwdPackets
  <2>6. toGuest' = Append(toGuest, m)
    BY <1>3
  <2> HIDE DEF m
  <2>7. Fenced(Append(toGuest, m), m.port, c)
    <3>1. m.op \in {"SHUTDOWN", "RST"} /\ \A op \in {"REQUEST", "RW"}, d \in Owner : Holds(toGuest, op, m.port, d) => d = c
      BY <2>3, <2>5
    <3> QED
      BY ONLY <2>1, <2>5, <3>1, FenceMade
  <2> QED
    BY <2>5, <2>6, <2>7
<1>4. OwnData(c)'
  <2> SUFFICES ASSUME NEW p \in HostPorts, Claims(c, p)' PROVE Fenced(toGuest', p, c)
    BY DEF OwnData
  <2>1. p = own /\ Claims(c, own)
    BY <1>2
  <2> QED
    BY <1>3, <2>1
<1> QED
  BY <1>1, <1>4, QuietKeeps

\* closeHost(): the client's end says nothing of its bytes.
LEMMA CloseHostBytes ==
  ASSUME BytesInv, NEW d \in TcpClients, CloseHost(d), NEW c \in TcpClients \ soiled PROVE ClientBytes(c)'
<1>1. mGuestSocket[d] \in HostPorts /\ d \in Owner
  BY StreamOfClient DEF CloseHost, Owner, BytesInv
<1>2. /\ UNCHANGED guestVars /\ UNCHANGED <<mConnected, mPreConnectedBuffer, forwarded>>
      /\ tcp' = [tcp EXCEPT ![d] = "closed"] /\ mGuestSocket' = [mGuestSocket EXCEPT ![d] = 0]
      /\ toGuest' = Append(toGuest, FwdPacket("SHUTDOWN", mGuestSocket[d], d, <<>>))
  BY DEF CloseHost
<1>3. QueueQuiet(toGuest, toGuest', c)
  BY <1>1, <1>2, EndIsQuiet
<1>4. /\ tcp'[c] = "new" => tcp[c] = "new"
      /\ mGuestSocket'[c] = IF c = d THEN 0 ELSE mGuestSocket[c]
  BY <1>2 DEF BytesInv, PortsInv, PFInv
<1>5. Quiet(c)
  BY <1>2, <1>3, <1>4 DEF Quiet, NoNewSocket, guestVars
<1>6. CASE c = d
  BY <1>1, <1>2, <1>5, <1>6, OwnStreamEnds
<1>7. CASE c # d
  BY <1>4, <1>5, <1>7, QuietStep
<1> QED
  BY <1>6, <1>7

\* RST comes when nothing is left of the connection on the guest's side.
LEMMA RstLeavesNothing ==
  ASSUME BytesInv, ReceiveRst, NEW c \in TcpClients \ soiled, ArrivedFor = c
  PROVE  mGuestSocket[c] \in HostPorts /\ ~Claims(c, mGuestSocket[c])
<1> DEFINE own == Arrived.port
<1>1. toHost # <<>> /\ toHost' = Tail(toHost) /\ own \in DOMAIN fwdStreams /\ fwdStreams[own].plug = c /\ Arrived.op = "RST"
  BY DEF ReceiveRst, Arrives, ArrivedFor
<1>2. own \in HostPorts /\ Bound(toHost, "RST", own)
  BY <1>1, HostPacketTaken DEF BytesInv, Taken
<1>3. mGuestSocket[c] = own /\ c # Awaiter
  BY <1>1, <1>2, PortForwardAssumption DEF BytesInv, PortsInv, PFInv, PointersAgree
<1>4. PortInv(own) /\ toGuest \in Seq(FwdPackets)
  BY <1>2, <1>3 DEF BytesInv, PortsInv, PFTypes, QueueTypes
<1> HIDE DEF own
<1>5. GuestEnds(own) /\ ToHost(own)
  BY <1>2 DEF GuestEnds, ToHost
<1>6. own \notin DOMAIN guestSockets /\ ~Bound(toGuest, "REQUEST", own)
  BY <1>1, <1>3, <1>4, <1>5 DEF PortInv, ClientAlone, Connected, Connecting
<1> QED
  BY <1>2, <1>3, <1>4, <1>6, PacketHasOwner DEF Claims

\* The end of a stream by a packet of the guest.
LEMMA UnplugBytes ==
  ASSUME BytesInv, ReceiveRst \/ ReceiveAndHangUp, NEW c \in TcpClients \ soiled PROVE ClientBytes(c)'
<1> DEFINE old == Arrived.port
           plug == fwdStreams[Arrived.port].plug
<1>1. /\ old \in DOMAIN fwdStreams /\ UNCHANGED <<mConnected, mPreConnectedBuffer, forwarded>>
      /\ UNCHANGED guestVars /\ plug = ArrivedFor
      /\ tcp' = [b \in TcpClients |-> IF b = plug THEN "closed" ELSE tcp[b]]
      /\ mGuestSocket' = [b \in TcpClients |-> IF b = plug THEN 0 ELSE mGuestSocket[b]]
  BY DEF ReceiveRst, ReceiveAndHangUp, OnUnplugFwd, Arrives, ArrivedFor
<1>2. \/ ReceiveRst /\ toGuest' = toGuest
      \/ toGuest' = Append(toGuest, FwdPacket("SHUTDOWN", old, plug, <<>>))
  BY DEF ReceiveRst, ReceiveAndHangUp, ArrivedFor
<1>3. plug \in Owner /\ old \in HostPorts
  BY <1>1, StreamHasOwner DEF BytesInv
<1>4. /\ tcp'[c] = "new" => tcp[c] = "new"
      /\ mGuestSocket'[c] = IF c = plug THEN 0 ELSE mGuestSocket[c]
  BY <1>1
<1>5. QueueQuiet(toGuest, toGuest', c)
  BY <1>2, <1>3, EndIsQuiet
<1>6. Quiet(c)
  BY <1>1, <1>4, <1>5 DEF Quiet, NoNewSocket, guestVars
<1>7. CASE c = plug
  <2>1. mGuestSocket[c] = old
    BY <1>1, <1>3, <1>7 DEF BytesInv, PortsInv, PFInv, PointersAgree
  <2>2. CASE ReceiveRst
    BY <1>1, <1>6, <1>7, <2>2, RstLeavesNothing, OwnStreamEnds
  <2>3. CASE toGuest' = Append(toGuest, FwdPacket("SHUTDOWN", old, plug, <<>>))
    BY <1>3, <1>6, <1>7, <2>1, <2>3, OwnStreamEnds
  <2> QED
    BY <1>2, <2>2, <2>3
<1>8. CASE c # plug
  BY <1>4, <1>6, <1>8, QuietStep
<1> QED
  BY <1>7, <1>8

\* What the device takes without having data for the guest.
LEMMA DeviceBytes ==
  ASSUME BytesInv, DeviceTakesPacket, ~ClientOnConnect, NEW c \in TcpClients \ soiled PROVE ClientBytes(c)'
<1> DEFINE old == Arrived.port
<1>1. CASE ReceiveRst \/ ReceiveAndHangUp
  BY <1>1, UnplugBytes
<1>2. CASE AwaiterOnConnect \/ ReceiveRwFwd \/ ReceiveUnknown
  <2>1. toHost # <<>> /\ toHost' = Tail(toHost) /\ UNCHANGED guestVars /\ UNCHANGED clientVars
    BY <1>2 DEF AwaiterOnConnect, ReceiveRwFwd, ReceiveUnknown, Arrives
  <2>2. old \in HostPorts /\ Arrived.of \in Owner /\ Awaiter \in Owner
    BY <2>1, HostPacketTaken DEF Owner, BytesInv
  <2>3. QueueQuiet(toGuest, toGuest', c)
    <3>1. CASE AwaiterOnConnect
      <4>1. toGuest' = Append(toGuest, FwdPacket("SHUTDOWN", old, Awaiter, <<>>))
        BY <3>1 DEF AwaiterOnConnect
      <4> QED
        BY <2>2, <4>1, EndIsQuiet
    <3>2. CASE ReceiveRwFwd
      BY <3>2, NothingQuiet DEF ReceiveRwFwd
    <3>3. CASE ReceiveUnknown
      <4>1. toGuest' = toGuest \/ toGuest' = Append(toGuest, FwdPacket("RST", old, Arrived.of, <<>>))
        BY <3>3 DEF ReceiveUnknown
      <4> QED
        BY <2>2, <4>1, EndIsQuiet
    <3> QED
      BY <1>2, <3>1, <3>2, <3>3
  <2>4. Quiet(c)
    BY <2>1, <2>3 DEF Quiet, NoNewSocket, clientVars, guestVars
  <2> QED
    BY <2>1, <2>4, QuietStep DEF clientVars
<1> QED
  BY <1>1, <1>2 DEF DeviceTakesPacket

\* What the guest sends goes the other way.
LEMMA GuestSendsBytes ==
  ASSUME BytesInv, NEW own \in DOMAIN guestSockets, GuestSends(own) \/ GuestHangsUp(own), NEW c \in TcpClients \ soiled
  PROVE  ClientBytes(c)'
<1>1. toGuest' = toGuest /\ UNCHANGED clientVars /\ delivered' = delivered
      /\ (guestSockets' = guestSockets \/ guestSockets' = Without(guestSockets, own))
  BY DEF GuestSends, GuestHangsUp
<1>2. NoNewSocket(c)
  <2>1. CASE guestSockets' = guestSockets
    BY <2>1 DEF NoNewSocket
  <2>2. CASE guestSockets' = Without(guestSockets, own)
    BY <2>2, WithoutFacts DEF NoNewSocket
  <2> QED
    BY <1>1, <2>1, <2>2
<1>3. QueueQuiet(toGuest, toGuest', c)
  BY <1>1, NothingQuiet
<1>4. Quiet(c)
  BY <1>1, <1>2, <1>3 DEF Quiet, clientVars
<1> QED
  BY <1>1, <1>4, QuietStep DEF clientVars

\* Steps without a packet.
LEMMA ForwardIdles ==
  ASSUME BytesInv, GuestBeginsToListen \/ UNCHANGED pfVars, NEW c \in TcpClients \ soiled
  PROVE  ClientBytes(c)'
<1>1. toGuest' = toGuest /\ UNCHANGED clientVars /\ delivered' = delivered /\ guestSockets' = guestSockets
  BY DEF GuestBeginsToListen, pfVars, clientVars, guestVars
<1>2. QueueQuiet(toGuest, toGuest', c)
  BY <1>1, NothingQuiet
<1>3. Quiet(c)
  BY <1>1, <1>2 DEF Quiet, clientVars, NoNewSocket
<1> QED
  BY <1>1, <1>3, QuietStep DEF clientVars

\* Another client connects.
LEMMA AcceptOfOther ==
  ASSUME BytesInv, NEW d \in TcpClients, AcceptIncomingSocket(d), NEW c \in TcpClients \ soiled, c # d
  PROVE  ClientBytes(c)'
<1>1. FirstFree \in HostPorts /\ d \in Owner /\ <<>> \in Seq(Bytes) /\ toGuest \in Seq(FwdPackets)
  BY FirstFreeIsFree DEF AcceptIncomingSocket, Owner, BytesInv, PortsInv, PFTypes, QueueTypes
<1>2. /\ UNCHANGED guestVars /\ UNCHANGED <<mConnected, mPreConnectedBuffer, forwarded>>
      /\ tcp' = [tcp EXCEPT ![d] = "open"] /\ mGuestSocket' = [mGuestSocket EXCEPT ![d] = FirstFree]
      /\ toGuest' = Append(toGuest, FwdPacket("REQUEST", FirstFree, d, <<>>))
  BY DEF AcceptIncomingSocket, ConnectToGuest
<1>3. QueueQuiet(toGuest, toGuest', c)
  BY <1>1, <1>2, AddedQuiet
<1>4. (tcp'[c] = "new" => tcp[c] = "new") /\ mGuestSocket'[c] = mGuestSocket[c]
  BY <1>2 DEF BytesInv, PortsInv, PFInv
<1>5. Quiet(c)
  BY <1>2, <1>3, <1>4 DEF Quiet, NoNewSocket, guestVars
<1> QED
  BY <1>4, <1>5, QuietStep

\* Another client writes a byte: it goes to that client's port.
LEMMA ReceiveHostOfOther ==
  ASSUME BytesInv, NEW d \in TcpClients, ReceiveHost(d), NEW c \in TcpClients \ soiled, c # d
  PROVE  ClientBytes(c)'
<1> DEFINE own == mGuestSocket[d]
           byte == <<d, forwarded[d] + 1>>
<1>1. own \in HostPorts /\ own \in DOMAIN fwdStreams /\ fwdStreams[own].plug = d /\ d # Awaiter
  BY StreamOfClient DEF ReceiveHost, BytesInv
<1>2. /\ UNCHANGED guestVars /\ UNCHANGED <<fwdStreams, mConnected, tcp, mGuestSocket>>
      /\ forwarded' = [forwarded EXCEPT ![d] = @ + 1]
      /\ IF mConnected[d] THEN toGuest' = Append(toGuest, FwdPacket("RW", own, d, <<byte>>)) ELSE toGuest' = toGuest
      /\ IF mConnected[d] THEN UNCHANGED mPreConnectedBuffer
         ELSE mPreConnectedBuffer' = [mPreConnectedBuffer EXCEPT ![d] = Append(@, byte)]
  BY DEF ReceiveHost
<1>3. <<byte>> \in Seq(Bytes) /\ d \in Owner /\ toGuest \in Seq(FwdPackets)
  BY DEF BytesInv, PortsInv, PFTypes, ClientTypes, QueueTypes, Bytes, Owner
<1>4. forwarded'[c] = forwarded[c] /\ mPreConnectedBuffer'[c] = mPreConnectedBuffer[c]
  <2>1. mPreConnectedBuffer \in [TcpClients -> Seq(Bytes)] /\ forwarded \in [TcpClients -> Nat]
    BY DEF BytesInv, PortsInv, PFTypes, ClientTypes
  <2> QED
    BY <1>2, <2>1
<1> HIDE DEF own, byte
<1>5. QueueQuiet(toGuest, toGuest', c)
  BY <1>1, <1>2, <1>3, AddedQuiet, NothingQuiet
<1>6. Quiet(c)
  BY <1>2, <1>4, <1>5 DEF Quiet, NoNewSocket, guestVars
<1> QED
  BY <1>2, <1>6, QuietStep

\* onConnect() of a client.
OnConnectOf(d) ==
    /\ Arrives("RESPONSE") /\ ArrivedFor = d
    /\ fwdStreams' = [fwdStreams EXCEPT ![Arrived.port].isConnected = TRUE]
    /\ mConnected' = [mConnected EXCEPT ![d] = TRUE]
    /\ mPreConnectedBuffer' = [mPreConnectedBuffer EXCEPT ![d] = <<>>]
    /\ toGuest' = IF mPreConnectedBuffer[d] = <<>> THEN toGuest
                  ELSE Append(toGuest, FwdPacket("RW", Arrived.port, d, mPreConnectedBuffer[d]))
    /\ UNCHANGED <<tcp, mGuestSocket, forwarded, guestVars>>

\* Another client's onConnect() sends what that client wrote.
LEMMA ConnectOfOther ==
  ASSUME BytesInv, NEW d \in TcpClients, OnConnectOf(d), NEW c \in TcpClients \ soiled, c # d
  PROVE  ClientBytes(c)'
<1> DEFINE own == Arrived.port
<1>1. /\ own \in DOMAIN fwdStreams /\ fwdStreams[own].plug = d /\ own \in HostPorts
  BY StreamHasOwner DEF OnConnectOf, Arrives, ArrivedFor, BytesInv
<1>2. mPreConnectedBuffer[d] \in Seq(Bytes) /\ d \in Owner /\ toGuest \in Seq(FwdPackets)
  BY DEF BytesInv, PortsInv, PFTypes, ClientTypes, QueueTypes, Owner
<1>3. mConnected'[c] = mConnected[c] /\ mPreConnectedBuffer'[c] = mPreConnectedBuffer[c]
  BY DEF OnConnectOf, BytesInv, PortsInv, PFTypes, ClientTypes
<1>4. toGuest' = toGuest \/ toGuest' = Append(toGuest, FwdPacket("RW", own, d, mPreConnectedBuffer[d]))
  BY DEF OnConnectOf
<1> HIDE DEF own
<1>5. QueueQuiet(toGuest, toGuest', c)
  BY <1>1, <1>2, <1>4, AddedQuiet, NothingQuiet
<1>6. Quiet(c)
  BY <1>3, <1>5 DEF OnConnectOf, Quiet, NoNewSocket, guestVars
<1> QED
  BY <1>6, QuietStep DEF OnConnectOf

-----------------------------------------------------------------------------
(* Steps of a client, and what the guest takes: ForwardedInOrder.            *)

\* Without data of the client in the queue the ledger is empty.
LEMMA LedgerEmpty ==
  ASSUME NEW q \in Seq(FwdPackets), NEW c, \A p \in HostPorts : ~Holds(q, "RW", p, c), NEW lo, NEW hi
  PROVE  Ledger(q, c, lo, hi)
<1>1. \A i \in 1..Len(q) : ~RwOf(q, i, c)
  <2> SUFFICES ASSUME NEW i \in 1..Len(q), RwOf(q, i, c) PROVE FALSE
    OBVIOUS
  <2>1. q[i] \in FwdPackets
    OBVIOUS
  <2>2. q[i].port \in HostPorts
    BY <2>1 DEF FwdPackets
  <2>3. Holds(q, "RW", q[i].port, c)
    BY DEF Holds, RwOf
  <2> QED
    BY <2>2, <2>3
<1> QED
  BY <1>1 DEF Ledger

\* A client that gets no new port keeps to the one it has.
LEMMA SamePort ==
  ASSUME NEW c \in TcpClients, OnePort(c), tcp'[c] = "new" => tcp[c] = "new",
         \A p \in HostPorts : Uses(c, p)' => Uses(c, p)
  PROVE  OnePort(c)'
  BY DEF OnePort

\* A new client begins on a clean port.
LEMMA AcceptOfOwn ==
  ASSUME BytesInv, NEW c \in TcpClients \ soiled', AcceptIncomingSocket(c)
  PROVE  ClientBytes(c)'
<1> DEFINE new == FirstFree
<1>1. /\ new \in HostPorts /\ c \in Owner /\ <<>> \in Seq(Bytes) /\ toGuest \in Seq(FwdPackets)
      /\ OnePort(c) /\ OwnData(c) /\ Buffered(c) /\ InOrder(c) /\ tcp[c] = "new" /\ CleanPort(new)
  <2>1. new \in HostPorts /\ tcp[c] = "new" /\ c \in Owner /\ <<>> \in Seq(Bytes)
    BY FirstFreeIsFree DEF AcceptIncomingSocket, Owner
  <2>2. CleanPort(new) /\ c \notin soiled
    BY DEF AcceptIncomingSocket
  <2> QED
    BY <2>1, <2>2 DEF BytesInv, PortsInv, PFTypes, QueueTypes, ClientBytes
<1>2. /\ UNCHANGED guestVars /\ UNCHANGED <<mConnected, mPreConnectedBuffer, forwarded>>
      /\ tcp' = [tcp EXCEPT ![c] = "open"] /\ mGuestSocket' = [mGuestSocket EXCEPT ![c] = FirstFree]
      /\ toGuest' = Append(toGuest, FwdPacket("REQUEST", FirstFree, c, <<>>))
  BY DEF AcceptIncomingSocket, ConnectToGuest
<1>3. tcp'[c] = "open" /\ mGuestSocket'[c] = new /\ guestSockets' = guestSockets /\ delivered' = delivered
  BY <1>2 DEF BytesInv, PortsInv, PFInv, guestVars
<1>4. Added(toGuest, toGuest', "REQUEST", new, c)
  BY <1>1, <1>2, AddedFacts
<1>5. new \notin DOMAIN guestSockets /\ \A op, d : ~Holds(toGuest, op, new, d)
  BY <1>1 DEF CleanPort, Holds
<1> HIDE DEF new
<1>6. ~mConnected[c] /\ \A p \in HostPorts : ~Uses(c, p)
  BY <1>1 DEF OnePort, BytesInv, PortsInv, PFTypes, ClientTypes
<1>7. \A p \in HostPorts : Uses(c, p)' => p = new
  BY <1>3, <1>4, <1>6 DEF Uses, Added
<1>8. OnePort(c)'
  BY <1>3, <1>7 DEF OnePort
<1>9. OwnData(c)'
  BY <1>1, <1>3, <1>8, OwnDataHere
<1>10. \A p \in HostPorts : ~Holds(toGuest', "RW", p, c)
  BY <1>4, <1>6 DEF Added, Uses
<1>11. Buffered(c)'
  BY <1>1, <1>2, <1>3, <1>6, <1>10 DEF Buffered
<1>12. Ledger(toGuest', c, Len(delivered[c]), forwarded[c])
  <2>1. toGuest' \in Seq(FwdPackets)
    BY <1>4 DEF Added
  <2> QED
    BY <1>10, <2>1, LedgerEmpty
<1>13. InOrder(c)'
  BY <1>1, <1>2, <1>3, <1>6, <1>12 DEF InOrder
<1> QED
  BY <1>8, <1>9, <1>11, <1>13 DEF ClientBytes

\* A byte that a connected client writes follows those under way.
LEMMA ByteSent ==
  ASSUME BytesInv, NEW c \in TcpClients \ soiled, ReceiveHost(c), mConnected[c]
  PROVE  ClientBytes(c)'
<1> DEFINE own == mGuestSocket[c]
           hi == forwarded[c]
           lo == Len(delivered[c])
           byte == <<c, hi + 1>>
           m == FwdPacket("RW", own, c, <<byte>>)
<1>1. own \in HostPorts /\ c \in Owner
  BY StreamOfClient DEF ReceiveHost, BytesInv, Owner
<1>2. /\ guestSockets' = guestSockets /\ delivered' = delivered /\ UNCHANGED <<mConnected, tcp, mGuestSocket>>
      /\ forwarded' = [forwarded EXCEPT ![c] = @ + 1]
      /\ toGuest' = Append(toGuest, m)
  BY DEF ReceiveHost, guestVars
<1>3. /\ <<byte>> \in Seq(Bytes) /\ toGuest \in Seq(FwdPackets) /\ hi \in Nat /\ lo \in Nat /\ forwarded'[c] = hi + 1
      /\ OnePort(c) /\ OwnData(c) /\ Buffered(c) /\ InOrder(c)
  <2>1. forwarded \in [TcpClients -> Nat] /\ delivered \in [TcpClients -> Seq(Bytes)] /\ toGuest \in Seq(FwdPackets)
    BY DEF BytesInv, PortsInv, PFTypes, ClientTypes, GuestTypes, QueueTypes
  <2>2. hi \in Nat /\ forwarded'[c] = hi + 1
    BY <1>2, <2>1
  <2>3. lo \in Nat
    BY <2>1
  <2>4. <<byte>> \in Seq(Bytes)
    BY <2>2 DEF Bytes
  <2>5. OnePort(c) /\ OwnData(c) /\ Buffered(c) /\ InOrder(c)
    BY DEF BytesInv, ClientBytes
  <2> QED
    BY <2>1, <2>2, <2>3, <2>4, <2>5
<1>4. Added(toGuest, toGuest', "RW", own, c)
  BY <1>1, <1>2, <1>3, AddedFacts
<1>5. m \in FwdPackets /\ m.op = "RW" /\ m.of = c /\ m.data = <<byte>>
  <2> DEFINE s == <<byte>>
  <2>1. s \in Seq(Bytes)
    BY <1>3
  <2> HIDE DEF own, s
  <2>2. /\ FwdPacket("RW", own, c, s) \in FwdPackets /\ FwdPacket("RW", own, c, s).op = "RW"
        /\ FwdPacket("RW", own, c, s).of = c /\ FwdPacket("RW", own, c, s).data = s
    BY <1>1, <2>1, PacketIsMade
  <2> QED
    BY <2>2 DEF s
<1>6. Numbers(<<byte>>, c, hi) /\ Len(<<byte>>) = 1
  <2>1. \A i \in 1..Len(<<byte>>) : <<byte>>[i] = <<c, hi + i>>
    OBVIOUS
  <2> QED
    BY <1>3, <2>1, NumbersFrom
<1>7. Len(m.data) = 1 /\ Numbers(m.data, c, hi)
  BY <1>5, <1>6
<1>8. lo <= hi /\ Ledger(toGuest, c, lo, hi) /\ Numbers(delivered[c], c, 0)
      /\ ((\E p \in DOMAIN guestSockets : guestSockets[p] = c) => Covers(toGuest, c, lo, hi))
  BY <1>3 DEF InOrder
<1> HIDE DEF own, lo, hi, m, byte
<1>9. /\ Ledger(toGuest', c, lo, hi + 1)
      /\ Covers(toGuest, c, lo, hi) => Covers(toGuest', c, lo, hi + 1)
  <2>1. Len(m.data) > 0 /\ hi + Len(m.data) = hi + 1
    BY <1>7
  <2>2. /\ Ledger(Append(toGuest, m), c, lo, hi + Len(m.data))
        /\ Covers(toGuest, c, lo, hi) => Covers(Append(toGuest, m), c, lo, hi + Len(m.data))
    BY <1>3, <1>5, <1>7, <1>8, <2>1, DataAdded
  <2> QED
    BY <1>2, <2>1, <2>2
<1>10. InOrder(c)'
  <2>1. Len(delivered'[c]) = lo /\ lo <= hi + 1 /\ forwarded'[c] = hi + 1
    BY <1>2, <1>3, <1>8 DEF lo
  <2> QED
    BY <1>2, <1>8, <1>9, <2>1 DEF InOrder
<1>11. Buffered(c)'
  <2>1. \A p \in HostPorts : ~Holds(toGuest', "REQUEST", p, c)
    BY <1>3, <1>4 DEF Buffered, Added
  <2> QED
    BY <1>2, <2>1 DEF Buffered
<1>12. OnePort(c)'
  <2>1. \A p \in HostPorts : Uses(c, p)' => Uses(c, p)
    BY <1>2, <1>4 DEF Uses, Added, own
  <2> QED
    BY <1>2, <1>3, <2>1, SamePort
<1>13. OwnData(c)'
  BY <1>1, <1>2, <1>12, OwnDataHere DEF own
<1> QED
  BY <1>10, <1>11, <1>12, <1>13 DEF ClientBytes

\* A byte that a client writes before it is connected is kept.
LEMMA ByteKept ==
  ASSUME BytesInv, NEW c \in TcpClients \ soiled, ReceiveHost(c), ~mConnected[c]
  PROVE  ClientBytes(c)'
<1> DEFINE hi == forwarded[c]
           byte == <<c, hi + 1>>
           old == mPreConnectedBuffer[c]
<1>1. /\ guestSockets' = guestSockets /\ delivered' = delivered /\ UNCHANGED <<mConnected, tcp, mGuestSocket, toGuest>>
      /\ forwarded' = [forwarded EXCEPT ![c] = @ + 1]
      /\ mPreConnectedBuffer' = [mPreConnectedBuffer EXCEPT ![c] = Append(@, byte)]
  BY DEF ReceiveHost, guestVars
<1>2. /\ <<byte>> \in Seq(Bytes) /\ old \in Seq(Bytes) /\ hi \in Nat /\ forwarded'[c] = hi + 1
      /\ mPreConnectedBuffer'[c] = Append(old, byte) /\ toGuest \in Seq(FwdPackets)
      /\ OnePort(c) /\ OwnData(c) /\ Buffered(c) /\ InOrder(c)
  <2>1. forwarded \in [TcpClients -> Nat] /\ mPreConnectedBuffer \in [TcpClients -> Seq(Bytes)]
        /\ toGuest \in Seq(FwdPackets)
    BY DEF BytesInv, PortsInv, PFTypes, ClientTypes, QueueTypes
  <2>2. hi \in Nat /\ forwarded'[c] = hi + 1
    BY <1>1, <2>1
  <2>3. old \in Seq(Bytes) /\ mPreConnectedBuffer'[c] = Append(old, byte)
    BY <1>1, <2>1
  <2>4. <<byte>> \in Seq(Bytes)
    BY <2>2 DEF Bytes
  <2>5. OnePort(c) /\ OwnData(c) /\ Buffered(c) /\ InOrder(c)
    BY DEF BytesInv, ClientBytes
  <2> QED
    BY <2>1, <2>2, <2>3, <2>4, <2>5
<1>3. /\ delivered[c] = <<>> /\ (\A p \in HostPorts : ~Holds(toGuest, "RW", p, c))
      /\ Numbers(old, c, 0) /\ Len(old) = hi
  BY <1>2 DEF Buffered
<1>4. Numbers(<<byte>>, c, hi)
  <2>1. \A i \in 1..Len(<<byte>>) : <<byte>>[i] = <<c, hi + i>>
    OBVIOUS
  <2> QED
    BY <1>2, <2>1, NumbersFrom
<1>5. Append(old, byte) = old \o <<byte>> /\ Len(<<byte>>) = 1
  <2>1. byte \in Bytes
    BY <1>2 DEF Bytes
  <2> HIDE DEF hi, old, byte
  <2>2. Append(old, byte) = old \o <<byte>>
    BY <1>2, <2>1, AppendIsConcat
  <2> QED
    BY <2>2
<1> HIDE DEF hi, old, byte
<1>6. Numbers(Append(old, byte), c, 0) /\ Len(Append(old, byte)) = hi + 1
  <2>1. Numbers(<<byte>>, c, Len(old))
    BY <1>3, <1>4
  <2> QED
    BY <1>2, <1>3, <1>5, <2>1, NumbersJoin
<1>7. Buffered(c)'
  BY <1>1, <1>2, <1>3, <1>6 DEF Buffered
<1>8. InOrder(c)'
  <2>1. Ledger(toGuest, c, Len(delivered[c]), hi + 1)
    BY <1>2, <1>3, LedgerEmpty
  <2>2. Len(delivered[c]) = 0 /\ Numbers(delivered[c], c, 0)
    BY <1>2, <1>3 DEF InOrder
  <2> QED
    BY <1>1, <1>2, <2>1, <2>2 DEF InOrder
<1>9. OwnData(c)' /\ OnePort(c)'
  BY <1>1, <1>2 DEF OwnData, Claims, OnePort, Uses
<1> QED
  BY <1>7, <1>8, <1>9 DEF ClientBytes

\* onConnect(): the bytes that were kept are the first to be sent.
LEMMA ConnectOfOwn ==
  ASSUME BytesInv, NEW c \in TcpClients \ soiled, OnConnectOf(c)
  PROVE  ClientBytes(c)'
<1> DEFINE own == Arrived.port
           s == mPreConnectedBuffer[c]
           m == FwdPacket("RW", own, c, s)
<1>1. /\ own \in DOMAIN fwdStreams /\ fwdStreams[own].plug = c /\ own \in HostPorts /\ c # Awaiter /\ c \in Owner
      /\ PortInv(own) /\ Bound(toHost, "RESPONSE", own)
  <2>1. toHost # <<>> /\ toHost' = Tail(toHost) /\ Arrived.op = "RESPONSE"
    BY DEF OnConnectOf, Arrives
  <2>2. Bound(toHost, "RESPONSE", own)
    BY <2>1, HostPacketTaken DEF BytesInv, Taken
  <2>3. own \in DOMAIN fwdStreams /\ fwdStreams[own].plug = c /\ own \in HostPorts /\ c # Awaiter /\ c \in Owner
    BY StreamHasOwner, PortForwardAssumption DEF OnConnectOf, Arrives, ArrivedFor, BytesInv, Owner
  <2>4. mGuestSocket[c] = own
    BY <2>3 DEF BytesInv, PortsInv, PFInv, PointersAgree
  <2>5. PortInv(own)
    BY <2>3, <2>4 DEF BytesInv, PortsInv
  <2> QED
    BY <2>2, <2>3, <2>5
<1>2. ~mConnected[c]
  BY <1>1 DEF PortInv, ClientAlone, Connected
<1>3. /\ s \in Seq(Bytes) /\ toGuest \in Seq(FwdPackets) /\ OnePort(c) /\ OwnData(c) /\ Buffered(c) /\ InOrder(c)
      /\ forwarded[c] \in Nat
  BY DEF BytesInv, PortsInv, PFTypes, ClientTypes, QueueTypes, ClientBytes
<1>4. /\ own \in DOMAIN fwdStreams' /\ fwdStreams'[own].plug = c /\ fwdStreams'[own].isConnected
      /\ mConnected'[c] /\ mGuestSocket[c] = own
  <2>1. mConnected'[c]
    BY DEF OnConnectOf, BytesInv, PortsInv, PFTypes, ClientTypes
  <2>2. mGuestSocket[c] = own
    BY <1>1 DEF BytesInv, PortsInv, PFInv, PointersAgree
  <2>3. own \in DOMAIN fwdStreams' /\ fwdStreams'[own].plug = c /\ fwdStreams'[own].isConnected
    BY <1>1 DEF OnConnectOf, BytesInv, PortsInv, PFInv, FwdStream
  <2> QED
    BY <2>1, <2>2, <2>3
<1>5. ~Bound(toGuest, "REQUEST", own)
  <2>1. ToHost(own)
    BY <1>1 DEF ToHost
  <2> QED
    BY <1>1, <2>1 DEF PortInv, ClientAlone, Connected, Connecting
<1>6. /\ UNCHANGED <<tcp, mGuestSocket, forwarded>> /\ guestSockets' = guestSockets /\ delivered' = delivered
      /\ toGuest' = IF s = <<>> THEN toGuest ELSE Append(toGuest, m)
  BY DEF OnConnectOf, guestVars
<1>7. /\ delivered[c] = <<>> /\ Numbers(s, c, 0) /\ Len(s) = forwarded[c]
      /\ \A p \in HostPorts : ~Holds(toGuest, "RW", p, c)
  BY <1>2, <1>3 DEF Buffered
<1>8. m \in FwdPackets /\ m.op = "RW" /\ m.of = c /\ m.data = s
  BY <1>1, <1>3, PacketIsMade
<1> HIDE DEF own, s
<1>9. CASE s = <<>>
  <2>1. toGuest' = toGuest /\ forwarded[c] = 0 /\ Len(delivered[c]) = 0
    BY <1>6, <1>7, <1>9
  <2>2. Ledger(toGuest, c, 0, 0)
    BY <1>3, <1>7, LedgerEmpty
  <2>3. Covers(toGuest, c, 0, 0)
    BY DEF Covers
  <2>4. InOrder(c)'
    BY <1>3, <1>6, <2>1, <2>2, <2>3 DEF InOrder
  <2>5. \A p \in HostPorts : ~Holds(toGuest', "REQUEST", p, c)
    <3> SUFFICES ASSUME NEW p \in HostPorts, Holds(toGuest', "REQUEST", p, c) PROVE FALSE
      OBVIOUS
    <3>1. p = own
      BY <1>1, <1>3, <1>4, <2>1 DEF OnePort, Uses
    <3> QED
      BY <1>3, <1>5, <2>1, <3>1, PacketHasOwner
  <2>6. Buffered(c)'
    BY <1>4, <2>5 DEF Buffered
  <2>7. OwnData(c)' /\ OnePort(c)'
    BY <1>3, <1>6, <2>1 DEF OwnData, Claims, OnePort, Uses
  <2> QED
    BY <2>4, <2>6, <2>7 DEF ClientBytes
<1>10. CASE s # <<>>
  <2>1. toGuest' = Append(toGuest, m) /\ Len(delivered[c]) = 0 /\ Len(s) > 0
    BY <1>3, <1>6, <1>7, <1>10
  <2>2. Added(toGuest, toGuest', "RW", own, c)
    BY <1>1, <1>3, <2>1, AddedFacts
  <2> HIDE DEF m
  <2>3. Ledger(toGuest', c, 0, forwarded[c]) /\ Covers(toGuest', c, 0, forwarded[c])
    <3>1. Ledger(toGuest, c, 0, 0)
      BY <1>3, <1>7, LedgerEmpty
    <3>2. Covers(toGuest, c, 0, 0)
      BY DEF Covers
    <3>3. Len(m.data) > 0 /\ Numbers(m.data, c, 0) /\ 0 + Len(m.data) = forwarded[c]
      BY <1>3, <1>7, <1>8, <2>1
    <3>4. Ledger(Append(toGuest, m), c, 0, 0 + Len(m.data)) /\ Covers(Append(toGuest, m), c, 0, 0 + Len(m.data))
      BY <1>3, <1>8, <3>1, <3>2, <3>3, DataAdded
    <3> QED
      BY <2>1, <3>3, <3>4
  <2>4. InOrder(c)'
    BY <1>3, <1>6, <2>1, <2>3 DEF InOrder
  <2>5. \A p \in HostPorts : ~Holds(toGuest', "REQUEST", p, c)
    <3> SUFFICES ASSUME NEW p \in HostPorts, Holds(toGuest', "REQUEST", p, c) PROVE FALSE
      OBVIOUS
    <3>1. Holds(toGuest, "REQUEST", p, c) /\ toGuest' \in Seq(FwdPackets)
      BY <2>2 DEF Added
    <3>2. p = own
      BY <1>1, <1>3, <1>4, <3>1 DEF OnePort, Uses
    <3> QED
      BY <1>3, <1>5, <3>1, <3>2, PacketHasOwner
  <2>6. Buffered(c)'
    BY <1>4, <2>5 DEF Buffered
  <2>7. OnePort(c)'
    <3>1. \A p \in HostPorts : Uses(c, p)' => Uses(c, p)
      BY <1>4, <1>6, <2>2 DEF Uses, Added
    <3> QED
      BY <1>3, <1>6, <3>1, SamePort
  <2>8. OwnData(c)'
    BY <1>1, <1>4, <1>6, <2>7, OwnDataHere
  <2> QED
    BY <2>4, <2>6, <2>7, <2>8 DEF ClientBytes
<1> QED
  BY <1>9, <1>10

\* A socket of the guest is new only where the client has asked for one.
LEMMA SocketWasAsked ==
  ASSUME PortsInv, GuestTakesPacket, NEW c \in TcpClients, NEW p \in DOMAIN guestSockets', guestSockets'[p] = c
  PROVE  (p \in DOMAIN guestSockets /\ guestSockets[p] = c) \/ Holds(toGuest, "REQUEST", p, c)
<1> DEFINE op == Head(toGuest).op
           own == Head(toGuest).port
           of == Head(toGuest).of
<1>1. /\ own \in HostPorts /\ Taken(toGuest, toGuest', op, own, of)
      /\ \/ op = "REQUEST" /\ GuestAccepts(own, of)
         \/ GuestRefuses(own, of) \/ GuestForgets(own) \/ GuestIgnores(own)
  BY GuestTakesCases
<1> HIDE DEF op, own, of
<1>2. CASE op = "REQUEST" /\ GuestAccepts(own, of)
  <2>1. p \in DOMAIN guestSockets \cup {own} /\ guestSockets'[p] = IF p = own THEN of ELSE guestSockets[p]
    BY <1>2 DEF GuestAccepts, With
  <2>2. Holds(toGuest, "REQUEST", own, of)
    BY <1>1, <1>2 DEF Taken
  <2> QED
    BY <2>1, <2>2
<1>3. CASE GuestRefuses(own, of) \/ GuestForgets(own)
  <2>1. guestSockets' = Without(guestSockets, own)
    BY <1>3 DEF GuestRefuses, GuestForgets
  <2>2. p \in DOMAIN guestSockets /\ guestSockets'[p] = guestSockets[p]
    BY ONLY <2>1, p \in DOMAIN guestSockets' DEF Without
  <2> QED
    BY <2>2
<1>4. CASE GuestIgnores(own)
  BY <1>4 DEF GuestIgnores
<1> QED
  BY <1>1, <1>2, <1>3, <1>4

\* The data that the guest delivers to a client's socket is the client's next.
LEMMA GuestTakesBytes ==
  ASSUME BytesInv, GuestTakesPacket, NEW c \in TcpClients \ soiled
  PROVE  ClientBytes(c)'
<1> DEFINE m == Head(toGuest)
           lo == Len(delivered[c])
           hi == forwarded[c]
           taken == m.op = "RW" /\ m.port \in DOMAIN guestSockets /\ guestSockets[m.port] = c
<1>1. /\ m \in FwdPackets /\ m.port \in HostPorts /\ m.of \in Owner /\ m.data \in Seq(Bytes)
      /\ toGuest # <<>> /\ toGuest' = Tail(toGuest) /\ Taken(toGuest, toGuest', m.op, m.port, m.of)
  BY GuestTakesCases DEF BytesInv
<1>2. /\ UNCHANGED <<tcp, mGuestSocket, mConnected, mPreConnectedBuffer, forwarded>>
      /\ delivered'[c] = IF taken THEN delivered[c] \o m.data ELSE delivered[c]
  BY DEF GuestTakesPacket, clientVars
<1>3. /\ OnePort(c) /\ OwnData(c) /\ Buffered(c) /\ InOrder(c)
      /\ toGuest \in Seq(FwdPackets) /\ delivered[c] \in Seq(Bytes) /\ hi \in Nat /\ lo \in Nat
  <2>1. forwarded \in [TcpClients -> Nat] /\ delivered \in [TcpClients -> Seq(Bytes)] /\ toGuest \in Seq(FwdPackets)
    BY DEF BytesInv, PortsInv, PFTypes, ClientTypes, GuestTypes, QueueTypes
  <2>2. OnePort(c) /\ OwnData(c) /\ Buffered(c) /\ InOrder(c)
    BY DEF BytesInv, ClientBytes
  <2> QED
    BY <2>1, <2>2
<1>4. \A p \in DOMAIN guestSockets' : guestSockets'[p] = c =>
         (p \in DOMAIN guestSockets /\ guestSockets[p] = c) \/ Holds(toGuest, "REQUEST", p, c)
  BY SocketWasAsked DEF BytesInv
<1>5. /\ \A op, p, d : Holds(toGuest', op, p, d) => Holds(toGuest, op, p, d)
      /\ Holds(toGuest, m.op, m.port, m.of)
  BY <1>1 DEF Taken
<1>6. taken => m.of = c /\ mConnected[c]
  <2> SUFFICES ASSUME taken PROVE m.of = c /\ mConnected[c]
    OBVIOUS
  <2>1. Holds(toGuest, "RW", m.port, m.of)
    BY <1>5
  <2>2. m.of = c
    <3>1. Claims(c, m.port)
      BY DEF Claims
    <3>2. CASE mGuestSocket[c] = m.port
      <4>1. m.port \in DOMAIN fwdStreams /\ fwdStreams[m.port].plug = c /\ c # Awaiter /\ PortInv(m.port)
        BY <1>1, <3>2, PortForwardAssumption DEF BytesInv, PortsInv, PFInv, PointersAgree
      <4> QED
        BY <1>1, <2>1, <4>1 DEF PortInv, ClientAlone
    <3>3. CASE mGuestSocket[c] # m.port
      <4>1. Fenced(toGuest, m.port, c)
        BY <1>1, <1>3, <3>1, <3>3 DEF OwnData
      <4> QED
        BY <1>1, <1>3, <4>1, FenceTaken
    <3> QED
      BY <3>2, <3>3
  <2> QED
    BY <1>1, <1>3, <2>1, <2>2 DEF Buffered
<1> HIDE DEF taken, m
<1>7. OwnData(c)'
  <2> SUFFICES ASSUME NEW p \in HostPorts, Claims(c, p)', mGuestSocket[c] # p PROVE Fenced(toGuest', p, c)
    BY <1>2 DEF OwnData
  <2>1. Claims(c, p)
    BY <1>4, <1>5 DEF Claims
  <2>2. Fenced(toGuest, p, c)
    BY <1>3, <2>1 DEF OwnData
  <2>3. \/ Fenced(toGuest', p, c)
        \/ m.op \in {"SHUTDOWN", "RST"} /\ m.port = p /\ ~Holds(toGuest', "REQUEST", p, c)
    BY <1>1, <1>3, <2>2, FenceTaken DEF m
  <2>4. ASSUME m.op \in {"SHUTDOWN", "RST"}, m.port = p PROVE p \notin DOMAIN guestSockets'
    <3>1. GuestRefuses(p, m.of) \/ GuestForgets(p)
      <4>1. /\ m.op \notin {"REQUEST", "RW"} /\ PortsInv
        BY <2>4 DEF BytesInv
      <4>2. \/ m.op = "REQUEST" \/ m.op \in {"REQUEST", "RW"}
            \/ GuestRefuses(m.port, m.of) \/ GuestForgets(m.port)
        BY <4>1, GuestTakesCases DEF m
      <4> QED
        BY <2>4, <4>1, <4>2
    <3>2. guestSockets' = Without(guestSockets, p)
      BY <3>1 DEF GuestRefuses, GuestForgets
    <3> QED
      BY ONLY <3>2 DEF Without
  <2> QED
    BY <2>3, <2>4 DEF Claims
<1>8. OnePort(c)'
  <2>1. \A p \in HostPorts : Uses(c, p)' => Uses(c, p)
    BY <1>2, <1>4, <1>5 DEF Uses
  <2> QED
    BY <1>2, <1>3, <2>1, SamePort
<1>9. Buffered(c)'
  <2>1. \A p \in HostPorts : Holds(toGuest', "REQUEST", p, c) => ~mConnected'[c]
    BY <1>2, <1>3, <1>5 DEF Buffered
  <2>2. ASSUME ~mConnected'[c]
        PROVE  /\ delivered'[c] = <<>> /\ \A p \in HostPorts : ~Holds(toGuest', "RW", p, c)
               /\ Numbers(mPreConnectedBuffer'[c], c, 0) /\ Len(mPreConnectedBuffer'[c]) = forwarded'[c]
    <3>1. ~mConnected[c] /\ ~taken
      BY <1>2, <1>6, <2>2
    <3> QED
      BY <1>2, <1>3, <1>5, <3>1 DEF Buffered
  <2> QED
    BY <2>1, <2>2 DEF Buffered
<1>10. lo <= hi /\ Numbers(delivered[c], c, 0) /\ Ledger(toGuest, c, lo, hi)
       /\ (mConnected[c] /\ (\E p \in DOMAIN guestSockets : guestSockets[p] = c) => Covers(toGuest, c, lo, hi))
  BY <1>3 DEF InOrder
<1>11. CASE taken
  <2>1. m.op = "RW" /\ m.of = c /\ delivered'[c] = delivered[c] \o m.data
    BY <1>2, <1>6, <1>11 DEF taken
  <2>2. Covers(toGuest, c, lo, hi)
    BY <1>6, <1>10, <1>11 DEF taken
  <2> DEFINE n == Len(m.data)
  <2>3. /\ n \in Nat /\ Numbers(m.data, c, lo) /\ lo + n <= hi
        /\ Ledger(toGuest', c, lo + n, hi) /\ Covers(toGuest', c, lo + n, hi)
    BY <1>1, <1>3, <1>10, <2>1, <2>2, DataTaken DEF m
  <2>4. Numbers(delivered'[c], c, 0) /\ Len(delivered'[c]) = lo + n
    BY <1>1, <1>3, <1>10, <2>1, <2>3, NumbersJoin
  <2>5. InOrder(c)'
    BY <1>2, <2>3, <2>4 DEF InOrder
  <2> QED
    BY <1>7, <1>8, <1>9, <2>5 DEF ClientBytes
<1>12. CASE ~taken
  <2>1. delivered'[c] = delivered[c]
    BY <1>2, <1>12
  <2>2. Ledger(toGuest', c, lo, hi)
    BY <1>1, <1>3, <1>10, OtherTaken
  <2>3. ASSUME mConnected[c], NEW p \in DOMAIN guestSockets', guestSockets'[p] = c PROVE Covers(toGuest', c, lo, hi)
    <3>1. p \in HostPorts
      BY <1>1, <2>3, GuestTakesTypes DEF BytesInv, PFTypes, GuestTypes
    <3>2. p \in DOMAIN guestSockets /\ guestSockets[p] = c
      BY <1>3, <1>4, <2>3, <3>1 DEF Buffered
    <3>3. Covers(toGuest, c, lo, hi)
      BY <1>10, <2>3, <3>2
    <3>4. ~(m.op = "RW" /\ m.of = c)
      <4> SUFFICES ASSUME m.op = "RW", m.of = c PROVE FALSE
        OBVIOUS
      <4>1. Uses(c, m.port) /\ Uses(c, p)
        BY <1>5, <3>2 DEF Uses
      <4>2. m.port = p
        BY <1>1, <1>3, <3>1, <4>1 DEF OnePort
      <4> QED
        BY <1>12, <3>2, <4>2 DEF taken
    <3> QED
      BY <1>1, <1>3, <3>3, <3>4, OtherTaken DEF m
  <2>4. InOrder(c)'
    BY <1>2, <1>10, <2>1, <2>2, <2>3 DEF InOrder
  <2> QED
    BY <1>7, <1>8, <1>9, <2>4 DEF ClientBytes
<1> QED
  BY <1>11, <1>12

\* At first no client has written anything.
LEMMA BytesInitially == PFInit => BytesInv
<1> SUFFICES ASSUME PFInit PROVE BytesInv
  OBVIOUS
<1> SUFFICES ASSUME NEW c \in TcpClients PROVE ClientBytes(c)
  BY PortsInitially DEF BytesInv
<1>1. toGuest = <<>> /\ DOMAIN guestSockets = {} /\ (\A op, p, d : ~Holds(toGuest, op, p, d))
  BY DEF PFInit, Holds
<1>2. /\ mGuestSocket[c] = 0 /\ mPreConnectedBuffer[c] = <<>> /\ forwarded[c] = 0 /\ delivered[c] = <<>>
  BY DEF PFInit
<1>3. ~mConnected[c]
  BY DEF PFInit
<1>4. \A p \in HostPorts : ~Uses(c, p)
  BY <1>1, <1>2, PortForwardAssumption DEF Uses
<1>5. OnePort(c) /\ OwnData(c)
  BY <1>1, <1>4 DEF OnePort, OwnData, Claims
<1>6. Numbers(<<>>, c, 0) /\ Len(<<>>) = 0
  <2>1. <<>> \in Seq(Bytes) /\ \A i \in 1..Len(<<>>) : <<>>[i] = <<c, 0 + i>>
    OBVIOUS
  <2> QED
    BY <2>1, NumbersFrom
<1>7. Buffered(c)
  BY <1>1, <1>2, <1>6 DEF Buffered
<1>8. Ledger(toGuest, c, 0, 0)
  BY <1>1 DEF Ledger
<1>9. InOrder(c)
  BY <1>2, <1>3, <1>6, <1>8 DEF InOrder
<1> QED
  BY <1>5, <1>7, <1>9 DEF ClientBytes

\* A client that is clean after a step was clean before it.
LEMMA SoiledStays ==
  ASSUME [PFNext]_pfVars, NEW c, c \notin soiled' PROVE c \notin soiled
<1>1. ASSUME NEW d \in TcpClients, AcceptIncomingSocket(d) PROVE c \notin soiled
  BY <1>1 DEF AcceptIncomingSocket
<1>2. ASSUME UNCHANGED takenVars PROVE c \notin soiled
  BY <1>2 DEF takenVars
<1>3. UNCHANGED takenVars \/ \E d \in TcpClients : AcceptIncomingSocket(d)
  <2>1. CASE DeviceTakesPacket
    BY <2>1 DEF DeviceTakesPacket, AwaiterOnConnect, ClientOnConnect, ReceiveRst, ReceiveAndHangUp,
                ReceiveRwFwd, ReceiveUnknown
  <2>2. CASE AttemptConnection \/ GuestTakesPacket \/ GuestBeginsToListen
    BY <2>2 DEF AttemptConnection, GuestTakesPacket, GuestBeginsToListen
  <2>3. ASSUME NEW d \in TcpClients, ReceiveHost(d) \/ CloseHost(d) PROVE UNCHANGED takenVars
    BY <2>3 DEF ReceiveHost, CloseHost
  <2>4. ASSUME NEW own \in DOMAIN guestSockets, GuestSends(own) \/ GuestHangsUp(own) PROVE UNCHANGED takenVars
    BY <2>4 DEF GuestSends, GuestHangsUp
  <2>5. CASE UNCHANGED pfVars
    BY <2>5 DEF pfVars
  <2> QED
    BY <2>1, <2>2, <2>3, <2>4, <2>5 DEF PFNext
<1> QED
  BY <1>1, <1>2, <1>3

\* BytesInv is inductive.
LEMMA BytesSteps == BytesInv /\ [PFNext]_pfVars => BytesInv'
<1> SUFFICES ASSUME BytesInv, [PFNext]_pfVars PROVE BytesInv'
  OBVIOUS
<1>1. PortsInv'
  BY PortsSteps DEF BytesInv
<1> SUFFICES ASSUME NEW c \in TcpClients \ soiled' PROVE ClientBytes(c)'
  BY <1>1 DEF BytesInv
<1>a. c \in TcpClients \ soiled
  BY SoiledStays
<1>2. CASE AttemptConnection
  BY <1>a, <1>2, AttemptBytes
<1>3. CASE DeviceTakesPacket
  <2>1. CASE ClientOnConnect
    <3>1. PICK d \in TcpClients : OnConnectOf(d)
      BY <2>1 DEF ClientOnConnect, OnConnectOf
    <3> QED
      BY <1>a, <3>1, ConnectOfOwn, ConnectOfOther
  <2> QED
    BY <1>3, <1>a, <2>1, DeviceBytes
<1>4. CASE GuestTakesPacket
  BY <1>a, <1>4, GuestTakesBytes
<1>5. ASSUME NEW d \in TcpClients, AcceptIncomingSocket(d) \/ ReceiveHost(d) \/ CloseHost(d)
      PROVE  ClientBytes(c)'
  <2>1. CASE AcceptIncomingSocket(d)
    BY <1>a, <2>1, AcceptOfOwn, AcceptOfOther
  <2>2. CASE ReceiveHost(d)
    BY <1>a, <2>2, ByteSent, ByteKept, ReceiveHostOfOther
  <2>3. CASE CloseHost(d)
    BY <1>a, <2>3, CloseHostBytes
  <2> QED
    BY <1>5, <2>1, <2>2, <2>3
<1>6. ASSUME NEW own \in DOMAIN guestSockets, GuestSends(own) \/ GuestHangsUp(own)
      PROVE  ClientBytes(c)'
  BY <1>a, <1>6, GuestSendsBytes
<1>7. CASE GuestBeginsToListen \/ UNCHANGED pfVars
  BY <1>a, <1>7, ForwardIdles
<1> QED
  BY <1>2, <1>3, <1>4, <1>5, <1>6, <1>7 DEF PFNext

\* What BytesInv says of a client is what ForwardedInOrder promises it.
LEMMA BytesAgree == BytesInv => ForwardedInOrder
<1> SUFFICES ASSUME BytesInv, NEW c \in TcpClients \ soiled
             PROVE  /\ delivered[c] = [i \in 1..Len(delivered[c]) |-> <<c, i>>]
                    /\ NothingUnderWay /\ mGuestSocket[c] # 0 => Len(delivered[c]) = forwarded[c]
  BY DEF ForwardedInOrder
<1>1. InOrder(c) /\ delivered[c] \in Seq(Bytes) /\ forwarded[c] \in Nat
  BY DEF BytesInv, ClientBytes, PortsInv, PFTypes, GuestTypes, ClientTypes
<1>2. delivered[c] = [i \in 1..Len(delivered[c]) |-> <<c, i>>]
  <2> DEFINE s == delivered[c]
             l == Len(s)
  <2>1. s = [i \in 1..l |-> <<c, 0 + i>>] /\ l \in Nat
    BY <1>1 DEF InOrder, Numbers
  <2> HIDE DEF s, l
  <2>2. \A i \in 1..l : 0 + i = i
    BY <2>1
  <2>3. s = [i \in 1..l |-> <<c, i>>]
    BY <2>1, <2>2
  <2> QED
    BY <2>3 DEF s, l
<1>3. ASSUME NothingUnderWay, mGuestSocket[c] # 0 PROVE Len(delivered[c]) = forwarded[c]
  <2> DEFINE own == mGuestSocket[c]
  <2>1. own \in HostPorts /\ own \in DOMAIN fwdStreams /\ fwdStreams[own].plug = c /\ c # Awaiter
    BY <1>3, PortForwardAssumption DEF BytesInv, PortsInv, PFInv, PointersAgree
  <2>2. own \in DOMAIN guestSockets /\ guestSockets[own] = c /\ fwdStreams[own].isConnected
    <3>1. own \in HostPorts \ tainted /\ PortsInv
      BY <2>1 DEF BytesInv, PortsInv
    <3> QED
      BY <1>3, <2>1, <3>1, PortsAgree DEF NoHalfOpen
  <2>3. mConnected[c]
    <3>1. PortInv(own)
      BY <2>1 DEF BytesInv, PortsInv
    <3> QED
      BY <2>1, <2>2, <3>1 DEF PortInv, ClientAlone
  <2>4. Covers(toGuest, c, Len(delivered[c]), forwarded[c]) /\ Len(delivered[c]) <= forwarded[c]
        /\ Len(delivered[c]) \in Nat
    BY <1>1, <2>2, <2>3 DEF InOrder
  <2>5. toGuest = <<>>
    BY <1>3 DEF NothingUnderWay
  <2>6. \A n \in (Len(delivered[c]) + 1)..forwarded[c] : FALSE
    BY <2>4, <2>5 DEF Covers
  <2>7. forwarded[c] \notin (Len(delivered[c]) + 1)..forwarded[c]
    BY <2>6
  <2> QED
    BY <1>1, <2>4, <2>7
<1> QED
  BY <1>2, <1>3

\* ForwardedInOrder holds for any number of clients, ports and bytes: through
\* mPreConnectedBuffer, onConnect(), the stream and the guest's socket nothing a
\* client has written is lost, overtaken, repeated or given to another client,
\* whoever hangs up or retries meanwhile and although ports are given away again
\* at once.  The client that gets such a port before it is clean is soiled.
THEOREM ForwardedInOrderTheorem == PFSpec => []ForwardedInOrder
  BY BytesInitially, BytesSteps, BytesAgree, PTL DEF PFSpec
=============================================================================
