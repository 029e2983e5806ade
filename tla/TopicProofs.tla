---------------------------- MODULE TopicProofs ----------------------------
(***************************************************************************)
(* TicketsMatch and BroadcastReachesAll hold for any number of subscribers *)
(* and any width of the tickets.  The conjunction with the type invariant  *)
(* is inductive.                                                           *)
(***************************************************************************)
EXTENDS Topic, TLAPS

TPInv == TPTypeOK /\ TicketsMatch /\ BroadcastReachesAll

\* A new topic has no subscriptions, and nobody is owed a call.
LEMMA TopicInit == TPInit => TPInv
<1> SUFFICES ASSUME TPInit PROVE TPInv
  OBVIOUS
<1>1. 0 \in TicketValues
  BY TopicAssumption DEF TicketValues
<1>2. TPTypeOK
  BY <1>1 DEF TPInit, TPTypeOK
<1>3. TicketsMatch /\ BroadcastReachesAll
  BY DEF TPInit, TicketsMatch, BroadcastReachesAll
<1> QED
  BY <1>2, <1>3 DEF TPInv

\* subscribe() enters one subscription under a value that nobody uses.
LEMMA SubscribeKeeps ==
  ASSUME TPInv, NEW s \in Subscribers, Subscribe(s)
  PROVE  TPInv'
<1> PICK v \in TicketValues :
       /\ ~Used(v)
       /\ mLastTicket' = v
       /\ mSubscriptions' = [mSubscriptions EXCEPT ![v] = {s}]
       /\ ticket' = [ticket EXCEPT ![s] = {v}]
  BY DEF Subscribe, NextTicket
<1> USE DEF TPInv, Subscribe, Used
<1>1. TPTypeOK'
  BY DEF TPTypeOK
<1>2. ASSUME NEW r \in Subscribers, NEW u \in TicketValues
      PROVE  u \in ticket'[r] <=> mSubscriptions'[u] = {r}
  <2>1. u \in ticket[r] <=> mSubscriptions[u] = {r}
    BY DEF TicketsMatch
  <2>2. CASE u = v
    BY <2>1, <2>2 DEF TPTypeOK
  <2>3. CASE u # v
    BY <2>1, <2>3 DEF TPTypeOK
  <2> QED
    BY <2>2, <2>3
<1>3. BroadcastReachesAll'
  BY DEF TPTypeOK, BroadcastReachesAll
<1> QED
  BY <1>1, <1>2, <1>3 DEF TicketsMatch

\* unsubscribe() removes the one subscription that the ticket names.
LEMMA UnsubscribeKeeps ==
  ASSUME TPInv, NEW s \in Subscribers, Unsubscribe(s)
  PROVE  TPInv'
<1> PICK v \in ticket[s] :
       /\ ~broadcasting
       /\ mSubscriptions' = [mSubscriptions EXCEPT ![v] = {}]
       /\ ticket' = [ticket EXCEPT ![s] = {}]
       /\ UNCHANGED <<mLastTicket, toCall, broadcasting, owed, topicAlive>>
  BY DEF Unsubscribe
<1> USE DEF TPInv
<1>0. v \in TicketValues /\ mSubscriptions[v] = {s}
  BY DEF TPTypeOK, TicketsMatch
<1>1. TPTypeOK'
  BY <1>0 DEF TPTypeOK
<1>2. ASSUME NEW r \in Subscribers, NEW u \in TicketValues
      PROVE  u \in ticket'[r] <=> mSubscriptions'[u] = {r}
  <2>1. u \in ticket[r] <=> mSubscriptions[u] = {r}
    BY DEF TicketsMatch
  <2>2. CASE u = v
    BY <1>0, <2>1, <2>2 DEF TPTypeOK
  <2>3. CASE u # v
    BY <1>0, <2>1, <2>3 DEF TPTypeOK
  <2> QED
    BY <2>2, <2>3
<1>3. BroadcastReachesAll'
  BY <1>0 DEF TPTypeOK, BroadcastReachesAll
<1> QED
  BY <1>1, <1>2, <1>3 DEF TicketsMatch

\* A callback pays what its subscriber is owed, and only that subscriber leaves.
LEMMA CallKeeps ==
  ASSUME TPInv, NEW v \in TicketValues, NEW leaves \in BOOLEAN, CallSubscriber(v, leaves)
  PROVE  TPInv'
<1> PICK s \in mSubscriptions[v] :
       /\ broadcasting /\ v \in toCall
       /\ toCall' = toCall \ {v} /\ owed' = owed \ {s}
       /\ IF leaves
          THEN /\ mSubscriptions' = [mSubscriptions EXCEPT ![v] = {}]
               /\ ticket' = [ticket EXCEPT ![s] = {}]
          ELSE UNCHANGED <<mSubscriptions, ticket>>
       /\ UNCHANGED <<mLastTicket, broadcasting, topicAlive>>
  BY DEF CallSubscriber
<1> USE DEF TPInv
<1>0. s \in Subscribers /\ mSubscriptions[v] = {s}
  BY DEF TPTypeOK, BroadcastReachesAll
<1>1. \A u \in TicketValues : mSubscriptions[u] = {s} => u = v
  <2> SUFFICES ASSUME NEW u \in TicketValues, mSubscriptions[u] = {s} PROVE u = v
    OBVIOUS
  <2> QED
    BY <1>0 DEF TicketsMatch, TPTypeOK, BroadcastReachesAll
<1>2. TPTypeOK'
  BY <1>0 DEF TPTypeOK
<1>3. ASSUME NEW r \in Subscribers, NEW u \in TicketValues
      PROVE  u \in ticket'[r] <=> mSubscriptions'[u] = {r}
  <2>1. u \in ticket[r] <=> mSubscriptions[u] = {r}
    BY DEF TicketsMatch
  <2>2. CASE u = v
    BY <1>0, <1>1, <2>1, <2>2 DEF TPTypeOK
  <2>3. CASE u # v
    BY <1>0, <1>1, <2>1, <2>3 DEF TPTypeOK
  <2> QED
    BY <2>2, <2>3
<1>4. \A u \in toCall' : mSubscriptions'[u] = mSubscriptions[u]
  BY <1>0 DEF TPTypeOK
<1>5. ASSUME NEW r \in owed'
      PROVE  broadcasting' /\ \E u \in toCall' : mSubscriptions'[u] = {r}
  <2> PICK u \in toCall : mSubscriptions[u] = {r}
    BY <1>5 DEF BroadcastReachesAll
  <2>1. u # v
    BY <1>0, <1>5
  <2> QED
    BY <1>4, <2>1
<1>6. ASSUME NEW u \in toCall'
      PROVE  \E r \in owed' : mSubscriptions'[u] = {r}
  <2> PICK r \in owed : mSubscriptions[u] = {r}
    BY <1>6 DEF BroadcastReachesAll
  <2>1. r # s
    BY <1>1, <1>6 DEF TPTypeOK
  <2> QED
    BY <1>4, <2>1
<1> QED
  BY <1>2, <1>3, <1>5, <1>6 DEF TicketsMatch, BroadcastReachesAll

\* The remaining steps: a broadcast begins or ends, or the topic goes.
LEMMA OthersKeep ==
  ASSUME TPInv, BeginBroadcast \/ EndBroadcast \/ DestroyTopic \/ UNCHANGED tpVars
  PROVE  TPInv'
<1> USE DEF TPInv
<1>1. CASE BeginBroadcast
  <2>1. TPTypeOK' /\ TicketsMatch'
    BY <1>1 DEF BeginBroadcast, TPTypeOK, TicketsMatch
  <2>2. ASSUME NEW s \in owed'
        PROVE  \E v \in toCall' : mSubscriptions'[v] = {s}
    <3> PICK v \in ticket[s] : TRUE
      BY <1>1, <2>2 DEF BeginBroadcast
    <3> QED
      BY <1>1, <2>2 DEF BeginBroadcast, TPTypeOK, TicketsMatch, Used
  <2>3. ASSUME NEW v \in toCall'
        PROVE  \E s \in owed' : mSubscriptions'[v] = {s}
    BY <1>1, <2>3 DEF BeginBroadcast, TPTypeOK, TicketsMatch, Used
  <2> QED
    BY <1>1, <2>1, <2>2, <2>3 DEF BeginBroadcast, BroadcastReachesAll
<1>2. CASE EndBroadcast
  BY <1>2 DEF EndBroadcast, TPTypeOK, TicketsMatch, BroadcastReachesAll
<1>3. CASE DestroyTopic
  BY <1>3 DEF DestroyTopic, TPTypeOK, TicketsMatch, BroadcastReachesAll
<1>4. CASE UNCHANGED tpVars
  BY <1>4 DEF tpVars, TPTypeOK, TicketsMatch, BroadcastReachesAll
<1> QED
  BY <1>1, <1>2, <1>3, <1>4

\* Every step of a topic preserves the invariant.
LEMMA TopicNext == TPInv /\ [TPNext]_tpVars => TPInv'
<1> SUFFICES ASSUME TPInv, [TPNext]_tpVars PROVE TPInv'
  OBVIOUS
<1> QED
  BY SubscribeKeeps, UnsubscribeKeeps, CallKeeps, OthersKeep DEF TPNext

\* For any number of subscribers and any ticket width, a ticket names its
\* owner's subscription and no other one, wrap-around included.
THEOREM TicketsMatchTheorem == TopicSpec => []TicketsMatch
<1>1. TPInv => TicketsMatch
  BY DEF TPInv
<1> QED
  BY <1>1, TopicInit, TopicNext, PTL DEF TopicSpec

\* For any number of subscribers, a broadcast owes a call exactly to those that
\* it is still going to call, whoever leaves while it runs.
THEOREM BroadcastTheorem == TopicSpec => []BroadcastReachesAll
<1>1. TPInv => BroadcastReachesAll
  BY DEF TPInv
<1> QED
  BY <1>1, TopicInit, TopicNext, PTL DEF TopicSpec
=============================================================================
