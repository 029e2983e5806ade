------------------------------- MODULE Topic -------------------------------
(***************************************************************************)
(* broadcasting::Topic: subscriptions under ticket numbers that wrap       *)
(* around, and broadcasts that call every subscriber with mMutex held.     *)
(* subscribe() and unsubscribe() wait while a broadcast runs; a subscriber *)
(* unsubscribes in its callback by returning its ticket.                   *)
(***************************************************************************)
EXTENDS Integers, FiniteSets

CONSTANTS Subscribers,   \* objects with at most one subscription each
          TicketModulus  \* 2^32: Ticket::value_t is an unsigned

\* There are fewer subscribers than tickets: subscribe() finds a free one.
ASSUME TopicAssumption ==
    /\ TicketModulus \in Nat \ {0}
    /\ IsFiniteSet(Subscribers) /\ Cardinality(Subscribers) < TicketModulus

TicketValues == 0..(TicketModulus - 1)

VARIABLES mSubscriptions,  \* per ticket value: {subscriber}, or {}
          mLastTicket,
          ticket,          \* per subscriber: {value} of its Ticket while subscribed
          toCall,          \* ticket values that the running broadcast will call
          broadcasting,    \* a broadcast holds mMutex
          owed,            \* history: subscribers that it has to call
          topicAlive

tpVars == <<mSubscriptions, mLastTicket, ticket, toCall, broadcasting, owed, topicAlive>>

TPInit ==
    /\ mSubscriptions = [v \in TicketValues |-> {}] /\ mLastTicket = 0
    /\ ticket = [s \in Subscribers |-> {}]
    /\ toCall = {} /\ owed = {} /\ broadcasting = FALSE /\ topicAlive = TRUE

Used(v) == mSubscriptions[v] # {}

\* Mutant: ++mLastTicket without a look at the tickets in use.
NextTicketUnchecked(v) == v = (mLastTicket + 1) % TicketModulus

\* The loop over ++mLastTicket stops at the first value that is not in use.
Distance(v) == (v - mLastTicket - 1) % TicketModulus
NextTicket(v) ==
    /\ ~Used(v)
    /\ \A u \in TicketValues : Distance(u) < Distance(v) => Used(u)

Subscribe(s) ==
    /\ topicAlive /\ ~broadcasting /\ ticket[s] = {}
    /\ \E v \in TicketValues :
          /\ NextTicket(v)
          /\ mLastTicket' = v
          /\ mSubscriptions' = [mSubscriptions EXCEPT ![v] = {s}]
          /\ ticket' = [ticket EXCEPT ![s] = {v}]
    /\ UNCHANGED <<toCall, broadcasting, owed, topicAlive>>

\* Ticket::unsubscribe(); without the topic there is nothing to do.
Unsubscribe(s) ==
    \E v \in ticket[s] :
        /\ topicAlive /\ ~broadcasting
        /\ mSubscriptions' = [mSubscriptions EXCEPT ![v] = {}]
        /\ ticket' = [ticket EXCEPT ![s] = {}]
        /\ UNCHANGED <<mLastTicket, toCall, broadcasting, owed, topicAlive>>

BeginBroadcast ==
    /\ topicAlive /\ ~broadcasting
    /\ broadcasting' = TRUE
    /\ toCall' = {v \in TicketValues : Used(v)}
    /\ owed' = {s \in Subscribers : ticket[s] # {}}
    /\ UNCHANGED <<mSubscriptions, mLastTicket, ticket, topicAlive>>

\* Mutant: after an erase the iterator skips the next subscription.
CallSubscriberSkips(v, leaves) ==
    \E s \in mSubscriptions[v] :
        /\ broadcasting /\ v \in toCall
        /\ owed' = owed \ {s}
        /\ IF leaves
           THEN /\ mSubscriptions' = [mSubscriptions EXCEPT ![v] = {}]
                /\ ticket' = [ticket EXCEPT ![s] = {}]
                /\ \E u \in toCall : toCall' = toCall \ {u, v}
           ELSE UNCHANGED <<mSubscriptions, ticket>> /\ toCall' = toCall \ {v}
        /\ UNCHANGED <<mLastTicket, broadcasting, topicAlive>>

\* One callback, which returns the subscriber's ticket or nothing.
CallSubscriber(v, leaves) ==
    \E s \in mSubscriptions[v] :
        /\ broadcasting /\ v \in toCall
        /\ toCall' = toCall \ {v} /\ owed' = owed \ {s}
        /\ IF leaves
           THEN /\ mSubscriptions' = [mSubscriptions EXCEPT ![v] = {}]
                /\ ticket' = [ticket EXCEPT ![s] = {}]
           ELSE UNCHANGED <<mSubscriptions, ticket>>
        /\ UNCHANGED <<mLastTicket, broadcasting, topicAlive>>

EndBroadcast ==
    /\ broadcasting /\ toCall = {}
    /\ broadcasting' = FALSE
    /\ UNCHANGED <<mSubscriptions, mLastTicket, ticket, toCall, owed, topicAlive>>

\* The topic goes; the weak references of the tickets expire.
DestroyTopic ==
    /\ topicAlive /\ ~broadcasting
    /\ topicAlive' = FALSE
    /\ mSubscriptions' = [v \in TicketValues |-> {}]
    /\ ticket' = [s \in Subscribers |-> {}]
    /\ UNCHANGED <<mLastTicket, toCall, broadcasting, owed>>

TPNext ==
    \/ BeginBroadcast \/ EndBroadcast \/ DestroyTopic
    \/ \E s \in Subscribers : Subscribe(s) \/ Unsubscribe(s)
    \/ \E v \in TicketValues, leaves \in BOOLEAN : CallSubscriber(v, leaves)

TopicSpec == TPInit /\ [][TPNext]_tpVars

-----------------------------------------------------------------------------
\* Every variable has its type.
TPTypeOK ==
    /\ mSubscriptions \in [TicketValues -> {{}} \cup {{s} : s \in Subscribers}]
    /\ mLastTicket \in TicketValues
    /\ ticket \in [Subscribers -> SUBSET TicketValues]
    /\ \A s \in Subscribers : \A u, v \in ticket[s] : u = v
    /\ toCall \subseteq TicketValues /\ owed \subseteq Subscribers
    /\ broadcasting \in BOOLEAN /\ topicAlive \in BOOLEAN

\* A ticket names its owner's subscription and no other, so that unsubscribe()
\* (broadcasting.h:150) and the assert of broadcast() (:184) meet the right one
\* even after the ticket numbers have wrapped around.
TicketsMatch ==
    \A s \in Subscribers, v \in TicketValues : v \in ticket[s] <=> mSubscriptions[v] = {s}

\* A broadcast calls every subscriber that it found, although callbacks leave
\* while it runs: nobody is owed a call who will not get it.
BroadcastReachesAll ==
    /\ \A s \in owed : broadcasting /\ \E v \in toCall : mSubscriptions[v] = {s}
    /\ \A v \in toCall : \E s \in owed : mSubscriptions[v] = {s}
=============================================================================
