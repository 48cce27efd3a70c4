------------------------------ MODULE UdpRelay ------------------------------
(***************************************************************************)
(* One shard of a UDP listener (src/src/udp.rs): the task that receives    *)
(* and dispatches datagrams, the session map it shares under a mutex with  *)
(* one detached task per session (open_session, then relay_downstream),    *)
(* and the removal of the rule.                                            *)
(*                                                                         *)
(* A step is what happens between two awaits, or inside one hold of the    *)
(* mutex.  The session of a task is named by the task: `t' in a slot is    *)
(* the Arc<Session> that ptr_eq compares.  The datagrams of a client are   *)
(* numbered as they arrive; the failover of the pool (module Pool) and the *)
(* metering (module Quota) appear as outcomes of a send and of a receive.  *)
(***************************************************************************)
EXTENDS Naturals, Sequences, FiniteSets, SequencesExt

CONSTANTS
    Peers,        \* client addresses
    Tasks,        \* a bound on the session tasks alive at a time
    NoTask,
    MaxSessions,  \* max_sessions of the shard
    MaxPending,   \* MAX_PENDING_PACKETS
    BatchSize,    \* RECV_BATCH
    MaxPackets    \* a bound on the datagrams of all clients

ASSUME TasksAssumption == NoTask \notin Tasks
ASSUME PeersAssumption == Peers # {}
ASSUME BoundsAssumption ==
    /\ {MaxSessions, MaxPending, BatchSize} \subseteq Nat \ {0}
    /\ MaxPackets \in Nat

VARIABLES
    slot,      \* Relay::sessions
    pc, peer,  \* where each task is, and its client
    batch,     \* the datagrams a task took from its slot
    fresh,     \* last_active has moved since the idle timer was set
    inbox,     \* received datagrams serve_shard has yet to dispatch
    hand,      \* the datagram serve_shard is forwarding, and to which session
    serving,   \* serve_shard runs
    stop,      \* the rule was removed
    exhausted, \* the user's quota is used up
    arrived,   \* datagrams received from each client
    wire       \* datagrams sent upstream for each client, oldest first

clients == <<arrived, wire>>
tasks == <<pc, peer, batch, fresh>>
shard == <<inbox, hand, serving>>
vars == <<slot, tasks, shard, stop, exhausted, clients>>

Vacant == [state |-> "vacant", pending |-> <<>>, task |-> NoTask]
Opening(packets) == [Vacant EXCEPT !.state = "opening", !.pending = packets]
Open(t) == [Vacant EXCEPT !.state = "open", !.task = t]

Packet(p, n) == [peer |-> p, n |-> n]
NoHand == [task |-> NoTask, n |-> 0]

Init ==
    /\ slot = [p \in Peers |-> Vacant]
    /\ pc = [t \in Tasks |-> "free"]
    /\ peer \in [Tasks -> {CHOOSE p \in Peers : TRUE}]
    /\ batch = [t \in Tasks |-> <<>>] /\ fresh = [t \in Tasks |-> FALSE]
    /\ inbox = <<>> /\ hand = NoHand /\ serving = TRUE
    /\ stop = FALSE /\ exhausted = FALSE
    /\ arrived = [p \in Peers |-> 0] /\ wire = [p \in Peers |-> <<>>]

-----------------------------------------------------------------------------
\* Mutant: whatever entry the client has is removed.
remove_open_Any(s, p, t) == [s EXCEPT ![p] = Vacant]

\* The map s without the entry of session t, if it still is the client's.
remove_open(s, p, t) == IF s[p] = Open(t) THEN [s EXCEPT ![p] = Vacant] ELSE s

\* try_consume: refused when the quota is used up, possibly by this datagram.
Refused == exhausted' = TRUE
Accepted == ~exhausted /\ UNCHANGED exhausted

Sent(p, n) == wire' = [wire EXCEPT ![p] = Append(@, n)]

-----------------------------------------------------------------------------
(***************************************************************************)
(* serve_shard.                                                            *)
(***************************************************************************)

ShardWaits == serving /\ inbox = <<>> /\ hand = NoHand

\* The select is biased: nothing is received once the rule is gone.
Receive(from) ==
    LET number(i) == arrived[from[i]] + Cardinality({j \in 1..i : from[j] = from[i]}) IN
    /\ ShardWaits /\ ~stop
    /\ arrived' = [p \in Peers |->
                     arrived[p] + Cardinality({i \in DOMAIN from : from[i] = p})]
    /\ inbox' = IF exhausted THEN <<>>
                ELSE [i \in DOMAIN from |-> Packet(from[i], number(i))]
    /\ UNCHANGED <<slot, tasks, hand, serving, stop, exhausted, wire>>

Return ==
    /\ ShardWaits /\ stop
    /\ serving' = FALSE
    /\ UNCHANGED <<slot, tasks, inbox, hand, stop, exhausted, clients>>

\* dispatch, Open: the session is cloned out of the lock to forward to.
DispatchOpen(p, n) ==
    /\ slot[p].state = "open"
    /\ hand' = [task |-> slot[p].task, n |-> n]
    /\ UNCHANGED <<slot, tasks>>

\* Mutant: one datagram more than the bound is queued.
DispatchPending_OneMore(p, n) ==
    /\ slot[p].state = "opening"
    /\ slot' = IF Len(slot[p].pending) <= MaxPending
               THEN [slot EXCEPT ![p].pending = Append(@, n)]
               ELSE slot
    /\ UNCHANGED <<hand, tasks>>

\* dispatch, Opening: queued, or dropped when the queue is full.
DispatchPending(p, n) ==
    /\ slot[p].state = "opening"
    /\ slot' = IF Len(slot[p].pending) < MaxPending
               THEN [slot EXCEPT ![p].pending = Append(@, n)]
               ELSE slot
    /\ UNCHANGED <<hand, tasks>>

Entries == {p \in Peers : slot[p].state # "vacant"}

\* Mutant: the limit is checked as if the new entry were already in the map.
Full_Late == Cardinality(Entries) > MaxSessions

Full == Cardinality(Entries) >= MaxSessions

\* dispatch, vacant, at the limit: dropped.
DispatchDropped(p) ==
    /\ slot[p].state = "vacant" /\ Full
    /\ UNCHANGED <<slot, tasks, hand>>

\* dispatch, vacant: a slot, and a task that opens the session.
DispatchNew(p, n, t) ==
    /\ slot[p].state = "vacant" /\ ~Full
    /\ pc[t] = "free"
    /\ slot' = [slot EXCEPT ![p] = Opening(<<n>>)]
    /\ pc' = [pc EXCEPT ![t] = "connecting"]
    /\ peer' = [peer EXCEPT ![t] = p]
    /\ fresh' = [fresh EXCEPT ![t] = FALSE]
    /\ UNCHANGED <<batch, hand>>

Dispatch ==
    /\ inbox # <<>> /\ hand = NoHand
    /\ inbox' = Tail(inbox)
    /\ LET p == Head(inbox).peer
           n == Head(inbox).n
       IN  \/ DispatchOpen(p, n)
           \/ DispatchPending(p, n)
           \/ DispatchDropped(p)
           \/ \E t \in Tasks : DispatchNew(p, n, t)
    /\ UNCHANGED <<serving, stop, exhausted, clients>>

\* forward from dispatch: refused by the quota, sent, or failed, which sheds
\* the session.  The task of the session may have ended meanwhile.
ForwardRefused ==
    /\ hand # NoHand /\ hand' = NoHand
    /\ Refused
    /\ UNCHANGED <<slot, tasks, inbox, serving, stop, clients>>

ForwardSent ==
    /\ hand # NoHand /\ hand' = NoHand
    /\ Accepted
    /\ fresh' = [fresh EXCEPT ![hand.task] = TRUE]
    /\ Sent(peer[hand.task], hand.n)
    /\ UNCHANGED <<slot, pc, peer, batch, inbox, serving, stop, arrived>>

ForwardFails ==
    /\ hand # NoHand /\ hand' = NoHand
    /\ Accepted
    /\ fresh' = [fresh EXCEPT ![hand.task] = TRUE]
    /\ slot' = remove_open(slot, peer[hand.task], hand.task)
    /\ UNCHANGED <<pc, peer, batch, inbox, serving, stop, clients>>

-----------------------------------------------------------------------------
(***************************************************************************)
(* open_session.                                                           *)
(***************************************************************************)
Goto(t, to) == pc' = [pc EXCEPT ![t] = to]

\* A task that ends leaves nothing behind but what it wrote to the map.
Finish(t) ==
    /\ pc' = [pc EXCEPT ![t] = "free"]
    /\ batch' = [batch EXCEPT ![t] = <<>>]
    /\ fresh' = [fresh EXCEPT ![t] = FALSE]
    /\ UNCHANGED peer

\* connect_active found a target (module Pool).
Connect(t) ==
    /\ pc[t] = "connecting"
    /\ Goto(t, "draining")
    /\ UNCHANGED <<slot, peer, batch, fresh, shard, stop, exhausted, clients>>

\* Mutant: the client's entry stays behind.
ConnectFails_Leaves(t) ==
    /\ pc[t] = "connecting"
    /\ Finish(t)
    /\ UNCHANGED <<slot, shard, stop, exhausted, clients>>

ConnectFails(t) ==
    /\ pc[t] = "connecting"
    /\ Finish(t)
    /\ slot' = [slot EXCEPT ![peer[t]] = Vacant]
    /\ UNCHANGED <<shard, stop, exhausted, clients>>

\* Mutant: the session is published together with the last take.
Take_Publishes(t) ==
    /\ pc[t] = "draining"
    /\ batch' = [batch EXCEPT ![t] = slot[peer[t]].pending]
    /\ slot' = [slot EXCEPT ![peer[t]] = Open(t)]
    /\ Goto(t, IF slot[peer[t]].pending = <<>> THEN "relaying" ELSE "sending")
    /\ UNCHANGED <<peer, fresh, shard, stop, exhausted, clients>>

\* The queue is taken to be sent; an empty one lets the session open.
Take(t) ==
    LET p == peer[t]
        waiting == slot[p].state = "opening" /\ slot[p].pending # <<>>
    IN
    /\ pc[t] = "draining"
    /\ slot' = [slot EXCEPT ![p] = IF waiting THEN Opening(<<>>) ELSE Open(t)]
    /\ batch' = [batch EXCEPT ![t] = IF waiting THEN slot[p].pending ELSE <<>>]
    /\ Goto(t, IF waiting THEN "sending" ELSE "relaying")
    /\ UNCHANGED <<peer, fresh, shard, stop, exhausted, clients>>

\* forward from open_session, for each datagram taken.
PendingDone(t) ==
    /\ pc[t] = "sending"
    /\ batch' = [batch EXCEPT ![t] = Tail(@)]
    /\ Goto(t, IF Len(batch[t]) = 1 THEN "draining" ELSE "sending")
    /\ UNCHANGED <<slot, peer, fresh, shard, stop, arrived>>

PendingRefused(t) == PendingDone(t) /\ Refused /\ UNCHANGED wire

PendingSent(t) == PendingDone(t) /\ Accepted /\ Sent(peer[t], Head(batch[t]))

PendingFails(t) ==
    /\ pc[t] = "sending"
    /\ Accepted
    /\ Finish(t)
    /\ slot' = [slot EXCEPT ![peer[t]] = Vacant]
    /\ UNCHANGED <<shard, stop, clients>>

-----------------------------------------------------------------------------
(***************************************************************************)
(* relay_downstream.                                                       *)
(***************************************************************************)

\* A reply is metered and passed on.
Reply(t) ==
    /\ pc[t] = "relaying"
    /\ Accepted
    /\ fresh' = [fresh EXCEPT ![t] = TRUE]
    /\ UNCHANGED <<slot, pc, peer, batch, shard, stop, clients>>

\* The upstream socket fails, the quota refuses the reply, it cannot be passed
\* on, or the active target has moved: with or without the quota running out.
Breaks(t) ==
    /\ pc[t] = "relaying"
    /\ Goto(t, "closing")
    /\ exhausted' \in {exhausted, TRUE}
    /\ UNCHANGED <<slot, peer, batch, fresh, shard, stop, clients>>

\* The idle timer fires: set again if there was traffic since it was set.
Idle(t) ==
    /\ pc[t] = "relaying"
    /\ IF fresh[t]
       THEN fresh' = [fresh EXCEPT ![t] = FALSE] /\ UNCHANGED pc
       ELSE Goto(t, "closing") /\ UNCHANGED fresh
    /\ UNCHANGED <<slot, peer, batch, shard, stop, exhausted, clients>>

\* The quota's watch channel, and the rule's.
Drained(t) ==
    /\ pc[t] = "relaying" /\ exhausted
    /\ Goto(t, "closing")
    /\ UNCHANGED <<slot, peer, batch, fresh, shard, stop, exhausted, clients>>

\* Mutant: the relay does not watch the rule.
Removed_Unwatched(t) == FALSE /\ UNCHANGED vars

Removed(t) ==
    /\ pc[t] = "relaying" /\ stop
    /\ Goto(t, "closing")
    /\ UNCHANGED <<slot, peer, batch, fresh, shard, stop, exhausted, clients>>

Close(t) ==
    /\ pc[t] = "closing"
    /\ slot' = remove_open(slot, peer[t], t)
    /\ Finish(t)
    /\ UNCHANGED <<shard, stop, exhausted, clients>>

-----------------------------------------------------------------------------
\* Other relays of the user use up the quota; the operator raises it; a new
\* config drops the rule.
Exhaust == ~exhausted /\ exhausted' = TRUE /\ UNCHANGED <<slot, tasks, shard, stop, clients>>
Raise == exhausted /\ exhausted' = FALSE /\ UNCHANGED <<slot, tasks, shard, stop, clients>>
Stop == ~stop /\ stop' = TRUE /\ UNCHANGED <<slot, tasks, shard, exhausted, clients>>

\* What the network may deliver at once, within the bound on datagrams.
Arrived == FoldFunction(LAMBDA a, b : a + b, 0, arrived)
Arrivals == UNION {[1..k -> Peers] : k \in {n \in 1..BatchSize : Arrived + n <= MaxPackets}}

Forward == ForwardRefused \/ ForwardSent \/ ForwardFails

Step(t) ==
    \/ Connect(t) \/ ConnectFails(t) \/ Take(t)
    \/ PendingRefused(t) \/ PendingSent(t) \/ PendingFails(t)
    \/ Reply(t) \/ Breaks(t) \/ Idle(t) \/ Drained(t) \/ Removed(t) \/ Close(t)

Next ==
    \/ \E from \in Arrivals : Receive(from)
    \/ Return \/ Dispatch \/ Forward
    \/ \E t \in Tasks : Step(t)
    \/ Exhaust \/ Raise \/ Stop

Spec == Init /\ [][Next]_vars

(***************************************************************************)
(* Fairness: tokio runs every task that is ready, a connect and a send     *)
(* end, a timer fires.  A relay's select picks among the ready arms at     *)
(* random, so an arm that stays ready is taken.  Nothing is assumed of     *)
(* clients, replies, failures, the quota or the operator.                  *)
(***************************************************************************)
Fairness ==
    /\ WF_vars(Return) /\ WF_vars(Dispatch) /\ WF_vars(Forward)
    /\ \A t \in Tasks :
         /\ WF_vars(Connect(t) \/ ConnectFails(t)) /\ WF_vars(Take(t))
         /\ WF_vars(PendingRefused(t) \/ PendingSent(t) \/ PendingFails(t))
         /\ WF_vars(Idle(t)) /\ WF_vars(Drained(t)) /\ WF_vars(Removed(t))
         /\ WF_vars(Close(t))

LiveSpec == Spec /\ Fairness

-----------------------------------------------------------------------------
Numbers == Nat \ {0}
Openers == {"connecting", "draining", "sending"}
Relays == {"relaying", "closing"}

TypeOK ==
    /\ \A p \in Peers :
         /\ slot[p].state \in {"vacant", "opening", "open"}
         /\ slot[p].pending \in Seq(Numbers) /\ Len(slot[p].pending) <= MaxPending
         /\ slot[p].task \in Tasks \cup {NoTask}
    /\ pc \in [Tasks -> {"free"} \cup Openers \cup Relays]
    /\ peer \in [Tasks -> Peers]
    /\ \A t \in Tasks : batch[t] \in Seq(Numbers) /\ Len(batch[t]) <= MaxPending
    /\ fresh \in [Tasks -> BOOLEAN]
    /\ inbox \in Seq([peer : Peers, n : Numbers]) /\ Len(inbox) <= BatchSize
    /\ hand \in [task : Tasks, n : Numbers] \cup {NoHand}
    /\ {serving, stop, exhausted} \subseteq BOOLEAN
    /\ arrived \in [Peers -> Nat]  \* MaxPackets bounds the model, not the count
    /\ \A p \in Peers : wire[p] \in Seq(Numbers)

Increasing(s) == \A i, j \in DOMAIN s : i < j => s[i] < s[j]

(***************************************************************************)
(* README: packets that arrive while a session opens "are queued (up to    *)
(* 32) and sent in order once connected".  The datagrams of a client go    *)
(* upstream at most once and in the order they came, through the queue,    *)
(* past it once the session is open, and across the end of a session.      *)
(***************************************************************************)
InOrder == \A p \in Peers : Increasing(wire[p])

\* The map never holds more entries than max_sessions, whatever sessions are shed,
\* replaced or refused in between.
MapBounded == Cardinality(Entries) <= MaxSessions

(***************************************************************************)
(* Every entry of the map has a task that will resolve or remove it, and   *)
(* nobody else's: a slot is opening exactly while one open_session works   *)
(* for the client, and an open slot holds a session whose relay has yet to *)
(* remove it ("Only remove our own entry").  The map keeps to its bound.   *)
(***************************************************************************)
EntryOwned ==
    /\ TypeOK /\ MapBounded
    /\ \A p \in Peers :
        LET openers == {t \in Tasks : peer[t] = p /\ pc[t] \in Openers} IN
        /\ Cardinality(openers) = IF slot[p].state = "opening" THEN 1 ELSE 0
        /\ slot[p].state = "open" => peer[slot[p].task] = p /\ pc[slot[p].task] \in Relays

(***************************************************************************)
(* "Sessions are established in the background": a client that stops       *)
(* sending never stays in the opening state, whether targets answer or     *)
(* fail, and whatever the quota does.                                      *)
(***************************************************************************)
OpeningResolves == \A p \in Peers : slot[p].state = "opening" ~> slot[p].state # "opening"

(***************************************************************************)
(* A removed rule stops all its traffic: the receiving task returns and    *)
(* every session ends, those still being opened when the rule was removed  *)
(* and those whose target keeps replying included.                         *)
(***************************************************************************)
StopDrains == stop ~> ~serving /\ \A t \in Tasks : pc[t] = "free"

(***************************************************************************)
(* README: "Each `listen` address keeps at most 4096 concurrent sessions". *)
(* The tasks with an upstream socket are at most max_sessions.             *)
(***************************************************************************)
SessionsBounded ==
    Cardinality({t \in Tasks : pc[t] \in Relays \cup {"draining", "sending"}}) <= MaxSessions
=============================================================================
