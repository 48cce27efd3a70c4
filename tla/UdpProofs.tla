------------------------------ MODULE UdpProofs ------------------------------
(***************************************************************************)
(* Proofs about UdpRelay, for any clients, session tasks and bounds: who   *)
(* answers for an entry of the session map, and the order of datagrams     *)
(* through the queue of an opening session.                                *)
(***************************************************************************)
EXTENDS UdpRelay, TLAPS, FiniteSetTheorems, SequenceTheorems

Slots == [state : {"vacant", "opening", "open"}, pending : Seq(Numbers), task : Tasks \cup {NoTask}]

Shapes ==
    /\ slot \in [Peers -> Slots]
    /\ pc \in [Tasks -> {"free"} \cup Openers \cup Relays]
    /\ peer \in [Tasks -> Peers]
    /\ batch \in [Tasks -> Seq(Numbers)]
    /\ fresh \in [Tasks -> BOOLEAN]
    /\ inbox \in Seq([peer : Peers, n : Numbers])
    /\ hand \in [task : Tasks, n : Numbers] \cup {NoHand}
    /\ {serving, stop, exhausted} \subseteq BOOLEAN
    /\ arrived \in [Peers -> Nat] /\ wire \in [Peers -> Seq(Numbers)]

\* The queues keep to their bounds, and so does the map.
BoundInv ==
    /\ \A p \in Peers : Len(slot[p].pending) <= MaxPending
    /\ \A t \in Tasks : Len(batch[t]) <= MaxPending
    /\ Len(inbox) <= BatchSize
    /\ IsFiniteSet(Entries) /\ Cardinality(Entries) <= MaxSessions

\* What an entry says, and which task answers for it.
OwnInv ==
    /\ \A p \in Peers : slot[p].state # "opening" => slot[p].pending = <<>>
    /\ \A p \in Peers : slot[p].state = "open" =>
         slot[p].task \in Tasks /\ peer[slot[p].task] = p /\ pc[slot[p].task] \in Relays
    /\ \A p \in Peers : slot[p].state = "opening" =>
         \E t \in Tasks : peer[t] = p /\ pc[t] \in Openers
    /\ \A t \in Tasks : pc[t] \in Openers => slot[peer[t]].state = "opening"
    /\ \A s, t \in Tasks : pc[s] \in Openers /\ pc[t] \in Openers /\ peer[s] = peer[t] => s = t
    /\ \A t \in Tasks : batch[t] # <<>> <=> pc[t] = "sending"
    /\ hand # NoHand => slot[peer[hand.task]].state # "opening"

\* A client's datagrams on their way, the oldest first: on the wire, then in hand
\* or taken from the queue, then queued, then yet to be dispatched.
Elems(s) == {s[i] : i \in DOMAIN s}
Waiting(p) == {inbox[i].n : i \in {j \in DOMAIN inbox : inbox[j].peer = p}}
Below(A, B) == \A a \in A : \A b \in B : a < b
UpTo(A, n) == \A a \in A : a <= n

QueueOrder(p) ==
    /\ Increasing(wire[p]) /\ Increasing(slot[p].pending)
    /\ Below(Elems(wire[p]), Elems(slot[p].pending))
    /\ Below(Elems(wire[p]), Waiting(p)) /\ Below(Elems(slot[p].pending), Waiting(p))
    /\ UpTo(Elems(wire[p]), arrived[p]) /\ UpTo(Elems(slot[p].pending), arrived[p])
    /\ UpTo(Waiting(p), arrived[p])

BatchOrder(t) ==
    /\ Increasing(batch[t])
    /\ Below(Elems(wire[peer[t]]), Elems(batch[t]))
    /\ Below(Elems(batch[t]), Elems(slot[peer[t]].pending))
    /\ Below(Elems(batch[t]), Waiting(peer[t]))
    /\ UpTo(Elems(batch[t]), arrived[peer[t]])

HandOrder ==
    hand # NoHand =>
      /\ Below(Elems(wire[peer[hand.task]]), {hand.n})
      /\ Below({hand.n}, Waiting(peer[hand.task]))
      /\ hand.n <= arrived[peer[hand.task]]

InboxOrder ==
    \A i, j \in DOMAIN inbox : i < j /\ inbox[i].peer = inbox[j].peer => inbox[i].n < inbox[j].n

OrderInv ==
    /\ \A p \in Peers : QueueOrder(p)
    /\ \A t \in Tasks : BatchOrder(t)
    /\ HandOrder /\ InboxOrder

UdpInv == Shapes /\ BoundInv /\ OwnInv /\ OrderInv

-----------------------------------------------------------------------------
(***************************************************************************)
(* Sequences of datagram numbers, and entries of the map.                  *)
(***************************************************************************)
LEMMA EmptyFacts ==
    /\ <<>> \in Seq(Numbers) /\ Len(<<>>) = 0 /\ Elems(<<>>) = {} /\ Increasing(<<>>)
  <1>1. <<>> \in Seq(Numbers) /\ Len(<<>>) = 0 BY EmptySeq
  <1>2. DOMAIN <<>> = {} BY <1>1, LenProperties
  <1> QED BY <1>1, <1>2 DEF Elems, Increasing

LEMMA AppendFacts ==
    ASSUME NEW s \in Seq(Numbers), NEW n \in Numbers
    PROVE  /\ Append(s, n) \in Seq(Numbers) /\ Len(Append(s, n)) = Len(s) + 1 /\ Len(s) \in Nat
           /\ Elems(Append(s, n)) = Elems(s) \cup {n}
           /\ Increasing(s) /\ Below(Elems(s), {n}) => Increasing(Append(s, n))
  <1>1. /\ Append(s, n) \in Seq(Numbers) /\ Len(Append(s, n)) = Len(s) + 1
        /\ \A i \in 1..Len(s) : Append(s, n)[i] = s[i]
        /\ Append(s, n)[Len(s) + 1] = n
    BY AppendProperties
  <1>2. PICK k \in Nat : k = Len(s) /\ DOMAIN s = 1..k BY LenProperties
  <1>3. DOMAIN Append(s, n) = 1..(k + 1) BY <1>1, <1>2, LenProperties
  <1>4. \A i \in 1..(k + 1) : i \in 1..k \/ i = k + 1 OBVIOUS
  <1>5. \A i \in 1..k : i \in 1..(k + 1) /\ i < k + 1 OBVIOUS
  <1>6. k + 1 \in 1..(k + 1) OBVIOUS
  <1>7. Elems(Append(s, n)) = Elems(s) \cup {n}
    BY <1>1, <1>2, <1>3, <1>4, <1>5, <1>6 DEF Elems
  <1>8. ASSUME Increasing(s), Below(Elems(s), {n}) PROVE Increasing(Append(s, n))
    <2> SUFFICES ASSUME NEW i \in 1..(k + 1), NEW j \in 1..(k + 1), i < j
                 PROVE  Append(s, n)[i] < Append(s, n)[j]
      BY <1>3 DEF Increasing
    <2>1. i \in 1..k BY <1>4
    <2>2. CASE j \in 1..k BY <1>1, <1>2, <1>8, <2>1, <2>2 DEF Increasing
    <2>3. CASE j = k + 1 BY <1>1, <1>2, <1>8, <2>1, <2>3 DEF Below, Elems
    <2> QED BY <1>4, <2>2, <2>3
  <1> QED BY <1>1, <1>2, <1>7, <1>8

LEMMA TailFacts ==
    ASSUME NEW s \in Seq(Numbers), s # <<>>
    PROVE  /\ Tail(s) \in Seq(Numbers) /\ Len(s) \in Nat /\ Len(Tail(s)) = Len(s) - 1
           /\ Head(s) \in Numbers /\ Head(s) \in Elems(s) /\ Elems(Tail(s)) \subseteq Elems(s)
           /\ Increasing(s) => Increasing(Tail(s)) /\ Below({Head(s)}, Elems(Tail(s)))
           /\ Tail(s) = <<>> <=> Len(s) = 1
  <1>1. /\ Head(s) \in Numbers /\ Tail(s) \in Seq(Numbers) /\ Len(Tail(s)) = Len(s) - 1
        /\ \A i \in 1..Len(Tail(s)) : Tail(s)[i] = s[i + 1]
    BY HeadTailProperties
  <1>2. PICK k \in Nat : k + 1 = Len(s) /\ DOMAIN s = 1..(k + 1)
    <2>1. Len(s) \in Nat \ {0} BY EmptySeq
    <2>2. DOMAIN s = 1..Len(s) BY LenProperties
    <2>3. Len(s) - 1 \in Nat /\ (Len(s) - 1) + 1 = Len(s) BY <2>1
    <2> QED BY <2>2, <2>3
  <1>3. Len(Tail(s)) = k /\ DOMAIN Tail(s) = 1..k
    <2>0. Len(s) - 1 = k BY <1>2
    <2>1. Len(Tail(s)) = k BY <1>1, <2>0, Zenon
    <2>2. DOMAIN Tail(s) = 1..Len(Tail(s)) BY <1>1, LenProperties
    <2> QED BY <2>1, <2>2
  <1>4. \A i \in 1..k : i + 1 \in 1..(k + 1) /\ 1 < i + 1 OBVIOUS
  <1>5. 1 \in 1..(k + 1) /\ Head(s) = s[1] BY <1>2
  <1>6. \A i \in 1..k : Tail(s)[i] = s[i + 1] BY <1>1, <1>3
  <1>7. Head(s) \in Elems(s) /\ Elems(Tail(s)) \subseteq Elems(s)
    BY <1>2, <1>3, <1>4, <1>5, <1>6 DEF Elems
  <1>8. ASSUME Increasing(s) PROVE Increasing(Tail(s)) /\ Below({Head(s)}, Elems(Tail(s)))
    <2>1. Increasing(Tail(s))
      <3> SUFFICES ASSUME NEW i \in 1..k, NEW j \in 1..k, i < j PROVE Tail(s)[i] < Tail(s)[j]
        BY <1>3 DEF Increasing
      <3>1. i + 1 < j + 1 /\ i + 1 \in 1..(k + 1) /\ j + 1 \in 1..(k + 1) BY <1>4
      <3> QED BY <1>2, <1>6, <1>8, <3>1 DEF Increasing
    <2>2. \A i \in 1..k : s[1] < s[i + 1] BY <1>2, <1>4, <1>5, <1>8 DEF Increasing
    <2>3. \A b \in Elems(Tail(s)) : \E i \in 1..k : b = s[i + 1] BY <1>3, <1>6 DEF Elems
    <2> QED BY <1>5, <2>1, <2>2, <2>3 DEF Below
  <1>9. Tail(s) = <<>> <=> Len(s) = 1
    <2>1. Tail(s) = <<>> => k = 0 BY <1>3, EmptyFacts
    <2>2. k = 0 => Tail(s) = <<>> BY <1>1, <1>3, EmptySeq
    <2> QED BY <1>2, <2>1, <2>2
  <1> QED BY <1>1, <1>2, <1>7, <1>8, <1>9

LEMMA SlotValues ==
    /\ Vacant \in Slots /\ Vacant.state = "vacant" /\ Vacant.pending = <<>>
    /\ \A s \in Seq(Numbers) : /\ Opening(s) \in Slots /\ Opening(s).state = "opening"
                               /\ Opening(s).pending = s
    /\ \A t \in Tasks : /\ Open(t) \in Slots /\ Open(t).state = "open" /\ Open(t).pending = <<>>
                        /\ Open(t).task = t
  <1>1. <<>> \in Seq(Numbers) BY EmptyFacts
  <1>2. Vacant \in Slots /\ Vacant.state = "vacant" /\ Vacant.pending = <<>> BY <1>1 DEF Vacant, Slots
  <1>3. ASSUME NEW s \in Seq(Numbers)
        PROVE  Opening(s) \in Slots /\ Opening(s).state = "opening" /\ Opening(s).pending = s
    BY <1>2 DEF Opening, Slots
  <1>4. ASSUME NEW t \in Tasks
        PROVE  /\ Open(t) \in Slots /\ Open(t).state = "open" /\ Open(t).pending = <<>>
               /\ Open(t).task = t
    BY <1>2 DEF Open, Slots
  <1> QED BY <1>2, <1>3, <1>4

LEMMA Facts ==
    ASSUME UdpInv
    PROVE  /\ \A p \in Peers : /\ slot[p] \in Slots /\ slot[p].pending \in Seq(Numbers)
                               /\ slot[p].state \in {"vacant", "opening", "open"}
                               /\ arrived[p] \in Nat /\ wire[p] \in Seq(Numbers)
                               /\ Elems(wire[p]) \subseteq Numbers
                               /\ Elems(slot[p].pending) \subseteq Numbers
                               /\ Waiting(p) \subseteq Numbers
           /\ \A t \in Tasks : /\ peer[t] \in Peers /\ batch[t] \in Seq(Numbers)
                               /\ pc[t] \in {"free"} \cup Openers \cup Relays
                               /\ Elems(batch[t]) \subseteq Numbers
           /\ hand # NoHand => hand.task \in Tasks /\ hand.n \in Numbers /\ peer[hand.task] \in Peers
           /\ Numbers \subseteq Nat
  <1>1. \A s \in Seq(Numbers) : Elems(s) \subseteq Numbers
    <2> TAKE s \in Seq(Numbers)
    <2>1. DOMAIN s = 1..Len(s) BY LenProperties
    <2> QED BY <2>1, ElementOfSeq DEF Elems
  <1>2. \A p : Waiting(p) \subseteq Numbers
    <2>1. inbox \in Seq([peer : Peers, n : Numbers]) BY DEF UdpInv, Shapes
    <2>2. DOMAIN inbox = 1..Len(inbox) BY <2>1, LenProperties
    <2>3. \A i \in DOMAIN inbox : inbox[i] \in [peer : Peers, n : Numbers] BY <2>1, <2>2, ElementOfSeq
    <2> QED BY <2>3 DEF Waiting
  <1>3. \A p \in Peers : slot[p] \in Slots /\ arrived[p] \in Nat /\ wire[p] \in Seq(Numbers)
    BY DEF UdpInv, Shapes
  <1>4. \A v \in Slots : v.pending \in Seq(Numbers) /\ v.state \in {"vacant", "opening", "open"}
    BY DEF Slots
  <1>5. \A t \in Tasks : /\ peer[t] \in Peers /\ batch[t] \in Seq(Numbers)
                         /\ pc[t] \in {"free"} \cup Openers \cup Relays
    BY DEF UdpInv, Shapes
  <1>6. hand # NoHand => hand.task \in Tasks /\ hand.n \in Numbers BY DEF UdpInv, Shapes
  <1> QED BY <1>1, <1>2, <1>3, <1>4, <1>5, <1>6 DEF Numbers

(* The map keeps to its bound when no entry is added. *)
LEMMA Shrinks ==
    ASSUME UdpInv, Entries' \subseteq Entries
    PROVE  IsFiniteSet(Entries') /\ Cardinality(Entries') <= MaxSessions
  <1>1. IsFiniteSet(Entries) /\ Cardinality(Entries) <= MaxSessions BY DEF UdpInv, BoundInv
  <1>2. IsFiniteSet(Entries') /\ Cardinality(Entries') <= Cardinality(Entries) BY <1>1, FS_Subset
  <1>3. Cardinality(Entries') \in Nat /\ Cardinality(Entries) \in Nat BY <1>1, <1>2, FS_CardinalityType
  <1>4. MaxSessions \in Nat BY BoundsAssumption
  <1> QED BY <1>1, <1>2, <1>3, <1>4

(* Datagrams that are dropped on the way change nothing in the order of the others. *)
LEMMA OrderKept ==
    ASSUME UdpInv, UNCHANGED <<peer, inbox, arrived, wire>>, hand' \in {hand, NoHand},
           \A p \in Peers : slot'[p].pending \in {slot[p].pending, <<>>},
           \A t \in Tasks : Increasing(batch'[t]) /\ Elems(batch'[t]) \subseteq Elems(batch[t])
    PROVE  OrderInv'
  <1>1. \A p : Waiting(p)' = Waiting(p) BY DEF Waiting
  <1>2. ASSUME NEW p \in Peers
        PROVE  /\ Elems(slot'[p].pending) \subseteq Elems(slot[p].pending)
               /\ Increasing(slot'[p].pending)
    BY EmptyFacts DEF UdpInv, OrderInv, QueueOrder
  <1>3. \A p \in Peers : QueueOrder(p)'
    BY <1>1, <1>2 DEF UdpInv, OrderInv, QueueOrder, Below, UpTo
  <1>4. \A t \in Tasks : BatchOrder(t)'
    <2> TAKE t \in Tasks
    <2>1. peer[t] \in Peers BY Facts
    <2> QED BY <1>1, <1>2, <2>1 DEF UdpInv, OrderInv, BatchOrder, Below, UpTo
  <1>5. HandOrder' BY <1>1 DEF UdpInv, OrderInv, HandOrder
  <1>6. InboxOrder' BY DEF UdpInv, OrderInv, InboxOrder
  <1> QED BY <1>3, <1>4, <1>5, <1>6 DEF OrderInv

(* Steps of a session that leave the map and the queues alone. *)
LEMMA KeptInv ==
    ASSUME UdpInv, Shapes', UNCHANGED <<slot, peer, batch, inbox, arrived, wire>>,
           hand' \in {hand, NoHand},
           \A t \in Tasks : /\ pc'[t] \in Openers <=> pc[t] \in Openers
                            /\ pc[t] \in Relays => pc'[t] \in Relays
                            /\ pc'[t] = "sending" <=> pc[t] = "sending"
    PROVE  UdpInv'
  <1>1. BoundInv' BY DEF UdpInv, BoundInv, Entries
  <1>2. OwnInv' BY Facts DEF UdpInv, OwnInv
  <1>3. OrderInv'
    <2>1. \A t \in Tasks : Increasing(batch[t]) BY DEF UdpInv, OrderInv, BatchOrder
    <2> QED BY <2>1, OrderKept
  <1> QED BY <1>1, <1>2, <1>3 DEF UdpInv

LEMMA InitInv == Init => UdpInv
  <1> SUFFICES ASSUME Init PROVE UdpInv OBVIOUS
  <1>1. <<>> \in Seq(Numbers) /\ Len(<<>>) = 0 /\ Elems(<<>>) = {} /\ Increasing(<<>>) BY EmptyFacts
  <1>2. Vacant \in Slots /\ Vacant.state = "vacant" /\ Vacant.pending = <<>> BY SlotValues
  <1>3. Shapes
    <2>1. slot \in [Peers -> Slots] BY <1>2 DEF Init
    <2>2. peer \in [Tasks -> Peers] BY PeersAssumption DEF Init
    <2>3. inbox \in Seq([peer : Peers, n : Numbers]) BY EmptySeq DEF Init
    <2>4. batch \in [Tasks -> Seq(Numbers)] /\ wire \in [Peers -> Seq(Numbers)] BY <1>1 DEF Init
    <2>5. pc \in [Tasks -> {"free"} \cup Openers \cup Relays] BY DEF Init
    <2>6. fresh \in [Tasks -> BOOLEAN] /\ arrived \in [Peers -> Nat] BY DEF Init
    <2> QED BY <2>1, <2>2, <2>3, <2>4, <2>5, <2>6 DEF Init, Shapes
  <1>4. BoundInv
    <2>1. Entries = {} BY <1>2 DEF Init, Entries
    <2> QED BY <1>1, <1>2, <2>1, FS_EmptySet, BoundsAssumption DEF Init, BoundInv
  <1>5. OwnInv BY <1>2 DEF Init, OwnInv, Openers
  <1>6. OrderInv
    <2>1. \A p : Waiting(p) = {}
      <3>1. DOMAIN inbox = {} BY <1>1, LenProperties DEF Init
      <3> QED BY <3>1 DEF Waiting
    <2>2. \A p \in Peers : QueueOrder(p) BY <1>1, <1>2, <2>1 DEF Init, QueueOrder, Below, UpTo
    <2>3. \A t \in Tasks : BatchOrder(t) BY <1>1, <2>1 DEF Init, BatchOrder, Below, UpTo
    <2>4. HandOrder BY DEF Init, HandOrder
    <2>5. InboxOrder
      <3>1. DOMAIN inbox = {} BY <1>1, LenProperties DEF Init
      <3> QED BY <3>1 DEF InboxOrder
    <2> QED BY <2>2, <2>3, <2>4, <2>5 DEF OrderInv
  <1> QED BY <1>3, <1>4, <1>5, <1>6 DEF UdpInv

(* What needs no entry of the map. *)
LEMMA AsideInv ==
    ASSUME UdpInv,
           \/ Return \/ ForwardRefused \/ Exhaust \/ Raise \/ Stop
           \/ \E t \in Tasks : Connect(t) \/ Reply(t) \/ Breaks(t) \/ Idle(t) \/ Drained(t) \/ Removed(t)
    PROVE  UdpInv'
  <1> USE DEF tasks, shard, clients
  <1>1. Shapes BY DEF UdpInv
  <1>2. CASE Return \/ ForwardRefused \/ Exhaust \/ Raise \/ Stop
    <2>1. /\ UNCHANGED <<slot, pc, peer, batch, fresh, inbox, arrived, wire>> /\ hand' \in {hand, NoHand}
          /\ {serving', stop', exhausted'} \subseteq BOOLEAN
      BY <1>1, <1>2 DEF Return, ForwardRefused, Refused, Exhaust, Raise, Stop, Shapes
    <2>2. Shapes' BY <1>1, <2>1 DEF Shapes
    <2> QED BY <2>1, <2>2, KeptInv
  <1>3. ASSUME NEW t \in Tasks,
               Connect(t) \/ Reply(t) \/ Breaks(t) \/ Idle(t) \/ Drained(t) \/ Removed(t)
        PROVE  UdpInv'
    <2>1. /\ UNCHANGED <<slot, peer, batch, inbox, hand, serving, stop, arrived, wire>>
          /\ exhausted' \in BOOLEAN
      BY <1>1, <1>3 DEF Connect, Reply, Breaks, Idle, Drained, Removed, Accepted, Shapes
    <2>2. \/ pc' = pc
          \/ pc[t] = "connecting" /\ pc' = [pc EXCEPT ![t] = "draining"]
          \/ pc[t] = "relaying" /\ pc' = [pc EXCEPT ![t] = "closing"]
      BY <1>3 DEF Connect, Reply, Breaks, Idle, Drained, Removed, Goto
    <2>3. fresh' \in [Tasks -> BOOLEAN]
      BY <1>1, <1>3 DEF Connect, Reply, Breaks, Idle, Drained, Removed, Shapes
    <2>4. pc' \in [Tasks -> {"free"} \cup Openers \cup Relays]
      BY <1>1, <2>2 DEF Shapes, Openers, Relays
    <2>5. Shapes' BY <1>1, <2>1, <2>3, <2>4 DEF Shapes
    <2>6. \A u \in Tasks : /\ pc'[u] \in Openers <=> pc[u] \in Openers
                           /\ pc[u] \in Relays => pc'[u] \in Relays
                           /\ pc'[u] = "sending" <=> pc[u] = "sending"
      BY <1>1, <2>2 DEF Shapes, Openers, Relays
    <2> QED BY <2>1, <2>5, <2>6, KeptInv
  <1> QED BY <1>2, <1>3

-----------------------------------------------------------------------------
(***************************************************************************)
(* The end of a session.                                                   *)
(***************************************************************************)
(* An open entry is its session and nothing else. *)
LEMMA OpenEntry ==
    ASSUME UdpInv, NEW p \in Peers, NEW t \in Tasks
    PROVE  slot[p] = Open(t) <=> slot[p].state = "open" /\ slot[p].task = t
  <1>1. slot[p] \in Slots BY Facts
  <1>2. slot[p].state = "open" => slot[p].pending = <<>> BY DEF UdpInv, OwnInv
  <1>3. /\ Open(t) \in Slots /\ Open(t).state = "open" /\ Open(t).pending = <<>>
        /\ Open(t).task = t
    BY SlotValues
  <1>4. \A v, u \in Slots : v.state = u.state /\ v.pending = u.pending /\ v.task = u.task => v = u
    BY DEF Slots
  <1> QED BY <1>1, <1>2, <1>3, <1>4

(* Removing an entry leaves the others, and the queues, as they are. *)
LEMMA VacateFacts ==
    ASSUME UdpInv, NEW p \in Peers,
           slot' = [slot EXCEPT ![p] = Vacant] \/ slot' = slot
    PROVE  /\ slot' \in [Peers -> Slots]
           /\ \A q \in Peers : slot'[q] = slot[q] \/ (q = p /\ slot'[q] = Vacant)
           /\ \A q \in Peers : slot'[q].pending \in {slot[q].pending, <<>>}
           /\ \A q \in Peers : Len(slot'[q].pending) <= MaxPending
           /\ IsFiniteSet(Entries') /\ Cardinality(Entries') <= MaxSessions
  <1>1. slot \in [Peers -> Slots] BY DEF UdpInv, Shapes
  <1>2. Vacant \in Slots /\ Vacant.state = "vacant" /\ Vacant.pending = <<>> BY SlotValues
  <1>3. slot' \in [Peers -> Slots] BY <1>1, <1>2
  <1>4. \A q \in Peers : slot'[q] = slot[q] \/ (q = p /\ slot'[q] = Vacant) BY <1>1
  <1>5. Entries' \subseteq Entries BY <1>2, <1>4 DEF Entries
  <1>6. \A q \in Peers : Len(slot'[q].pending) <= MaxPending
    BY <1>2, <1>4, EmptyFacts, BoundsAssumption DEF UdpInv, BoundInv
  <1> QED BY <1>2, <1>3, <1>4, <1>5, <1>6, Shrinks

(* A send that fails sheds the session; its relay is left to end. *)
LEMMA ForwardFailsInv == ASSUME UdpInv, ForwardFails PROVE UdpInv'
  <1>1. /\ hand # NoHand /\ hand' = NoHand /\ exhausted' = exhausted
        /\ fresh' = [fresh EXCEPT ![hand.task] = TRUE]
        /\ slot' = remove_open(slot, peer[hand.task], hand.task)
        /\ UNCHANGED <<pc, peer, batch, inbox, serving, stop, arrived, wire>>
    BY DEF ForwardFails, Accepted, clients
  <1>2. PICK p \in Peers : p = peer[hand.task] BY <1>1, Facts
  <1>3. slot' = [slot EXCEPT ![p] = Vacant] \/ slot' = slot BY <1>1, <1>2 DEF remove_open
  <1>4. slot[p].state # "opening" BY <1>1, <1>2 DEF UdpInv, OwnInv
  <1>5. /\ slot' \in [Peers -> Slots]
        /\ \A q \in Peers : slot'[q] = slot[q] \/ (q = p /\ slot'[q] = Vacant)
        /\ \A q \in Peers : slot'[q].pending \in {slot[q].pending, <<>>}
        /\ \A q \in Peers : Len(slot'[q].pending) <= MaxPending
        /\ IsFiniteSet(Entries') /\ Cardinality(Entries') <= MaxSessions
    BY <1>3, VacateFacts
  <1>6. Shapes' BY <1>1, <1>5 DEF UdpInv, Shapes
  <1>7. BoundInv' BY <1>1, <1>5 DEF UdpInv, BoundInv
  <1>8. OwnInv'
    <2>1. Vacant.state = "vacant" /\ Vacant.pending = <<>> BY SlotValues
    <2>2. \A t \in Tasks : peer[t] \in Peers BY Facts
    <2> QED BY <1>1, <1>4, <1>5, <2>1, <2>2 DEF UdpInv, OwnInv
  <1>9. OrderInv'
    <2>1. \A t \in Tasks : Increasing(batch[t]) BY DEF UdpInv, OrderInv, BatchOrder
    <2> QED BY <1>1, <1>5, <2>1, OrderKept
  <1> QED BY <1>6, <1>7, <1>8, <1>9 DEF UdpInv

(* A task that ends: an opener removes its own entry, a relay its own session. *)
LEMMA FinishInv ==
    ASSUME UdpInv, NEW t \in Tasks, ConnectFails(t) \/ PendingFails(t) \/ Close(t)
    PROVE  UdpInv'
  <1>1. /\ pc' = [pc EXCEPT ![t] = "free"] /\ batch' = [batch EXCEPT ![t] = <<>>]
        /\ fresh' = [fresh EXCEPT ![t] = FALSE] /\ exhausted' \in BOOLEAN
        /\ UNCHANGED <<peer, inbox, hand, serving, stop, arrived, wire>>
    BY DEF ConnectFails, PendingFails, Close, Finish, Accepted, shard, clients, UdpInv, Shapes
  <1>2. PICK p \in Peers : p = peer[t] BY Facts
  <1>3. \/ pc[t] \in Openers /\ slot' = [slot EXCEPT ![p] = Vacant]
        \/ pc[t] \in Relays /\ slot[p] = Open(t) /\ slot' = [slot EXCEPT ![p] = Vacant]
        \/ pc[t] \in Relays /\ slot[p] # Open(t) /\ slot' = slot
    BY <1>2 DEF ConnectFails, PendingFails, Close, remove_open, Openers, Relays
  <1>4. /\ slot' \in [Peers -> Slots]
        /\ \A q \in Peers : slot'[q] = slot[q] \/ (q = p /\ slot'[q] = Vacant)
        /\ \A q \in Peers : slot'[q].pending \in {slot[q].pending, <<>>}
        /\ \A q \in Peers : Len(slot'[q].pending) <= MaxPending
        /\ IsFiniteSet(Entries') /\ Cardinality(Entries') <= MaxSessions
    BY <1>3, VacateFacts
  <1>5. /\ pc'[t] = "free" /\ \A u \in Tasks \ {t} : pc'[u] = pc[u]
        /\ batch'[t] = <<>> /\ \A u \in Tasks \ {t} : batch'[u] = batch[u]
    BY <1>1 DEF UdpInv, Shapes
  <1>6. Shapes'
    <2>1. batch' \in [Tasks -> Seq(Numbers)] BY <1>1, EmptyFacts DEF UdpInv, Shapes
    <2>2. pc' \in [Tasks -> {"free"} \cup Openers \cup Relays] /\ fresh' \in [Tasks -> BOOLEAN]
      BY <1>1 DEF UdpInv, Shapes
    <2> QED BY <1>1, <1>4, <2>1, <2>2 DEF UdpInv, Shapes
  <1>7. BoundInv'
    <2>1. \A u \in Tasks : Len(batch'[u]) <= MaxPending
      BY <1>5, EmptyFacts, BoundsAssumption DEF UdpInv, BoundInv
    <2> QED BY <1>1, <1>4, <2>1 DEF UdpInv, BoundInv
  <1>8. OwnInv'
    <2>1. Vacant.state = "vacant" /\ Vacant.pending = <<>> BY SlotValues
    <2>2. \A u \in Tasks : peer[u] \in Peers BY Facts
    <2>3. "free" \notin Openers /\ "free" \notin Relays /\ "free" # "sending" BY DEF Openers, Relays
    <2>4. \A v \in Relays : v \notin Openers BY DEF Openers, Relays
    <2>5. \A q \in Peers : slot'[q].state # "opening" => slot'[q].pending = <<>>
      BY <1>4, <2>1 DEF UdpInv, OwnInv
    <2>6. ASSUME NEW q \in Peers, slot'[q].state = "open"
          PROVE  slot'[q].task \in Tasks /\ peer[slot'[q].task] = q /\ pc'[slot'[q].task] \in Relays
      <3>1. slot'[q] = slot[q] BY <1>4, <2>1, <2>6
      <3>2. slot[q].task \in Tasks /\ peer[slot[q].task] = q /\ pc[slot[q].task] \in Relays
        BY <2>6, <3>1 DEF UdpInv, OwnInv
      <3>3. slot[q].task # t
        <4>1. SUFFICES ASSUME slot[q].task = t PROVE FALSE OBVIOUS
        <4>2. q = p /\ slot[p] = Open(t) BY <1>2, <2>6, <3>1, <3>2, <4>1, OpenEntry
        <4>3. slot' = [slot EXCEPT ![p] = Vacant] BY <1>3, <4>2
        <4>4. slot'[p] = Vacant BY <4>3 DEF UdpInv, Shapes
        <4> QED BY <2>1, <2>6, <4>2, <4>4
      <3> QED BY <1>5, <3>1, <3>2, <3>3
    <2>7. ASSUME NEW q \in Peers, slot'[q].state = "opening"
          PROVE  \E u \in Tasks : peer[u] = q /\ pc'[u] \in Openers
      <3>1. slot'[q] = slot[q] /\ slot[q].state = "opening" BY <1>4, <2>1, <2>7
      <3>2. PICK u \in Tasks : peer[u] = q /\ pc[u] \in Openers BY <3>1 DEF UdpInv, OwnInv
      <3>3. u # t
        <4>1. SUFFICES ASSUME u = t PROVE FALSE OBVIOUS
        <4>2. q = p /\ slot' = [slot EXCEPT ![p] = Vacant] BY <1>2, <1>3, <2>4, <3>2, <4>1
        <4>3. slot'[p] = Vacant BY <4>2 DEF UdpInv, Shapes
        <4> QED BY <2>1, <2>7, <4>2, <4>3
      <3> QED BY <1>5, <3>2, <3>3
    <2>8. ASSUME NEW u \in Tasks, pc'[u] \in Openers PROVE slot'[peer[u]].state = "opening"
      <3>1. u # t /\ pc[u] \in Openers BY <1>5, <2>3, <2>8
      <3>2. slot[peer[u]].state = "opening" BY <3>1 DEF UdpInv, OwnInv
      <3>3. CASE pc[t] \in Openers
        <4>1. peer[u] # p BY <1>2, <3>1, <3>3 DEF UdpInv, OwnInv
        <4> QED BY <1>4, <2>2, <3>2, <4>1
      <3>4. CASE slot[p] = Open(t)
        <4>1. slot[p].state = "open" BY <3>4, SlotValues
        <4>2. peer[u] # p BY <3>2, <4>1
        <4> QED BY <1>4, <2>2, <3>2, <4>2
      <3>5. CASE slot' = slot BY <3>2, <3>5
      <3> QED BY <1>3, <3>3, <3>4, <3>5
    <2>9. \A s, u \in Tasks : pc'[s] \in Openers /\ pc'[u] \in Openers /\ peer[s] = peer[u] => s = u
      BY <1>5, <2>3 DEF UdpInv, OwnInv
    <2>10. \A u \in Tasks : batch'[u] # <<>> <=> pc'[u] = "sending"
      BY <1>5, <2>3 DEF UdpInv, OwnInv
    <2>11. hand # NoHand => slot'[peer[hand.task]].state # "opening"
      BY <1>4, <2>1, Facts DEF UdpInv, OwnInv
    <2> QED BY <1>1, <2>5, <2>6, <2>7, <2>8, <2>9, <2>10, <2>11 DEF OwnInv
  <1>9. OrderInv'
    <2>1. \A u \in Tasks : Increasing(batch'[u]) /\ Elems(batch'[u]) \subseteq Elems(batch[u])
      BY <1>5, EmptyFacts DEF UdpInv, OrderInv, BatchOrder
    <2> QED BY <1>1, <1>4, <2>1, OrderKept
  <1> QED BY <1>6, <1>7, <1>8, <1>9 DEF UdpInv

-----------------------------------------------------------------------------
(***************************************************************************)
(* A datagram goes out.                                                    *)
(***************************************************************************)
LEMMA SentFacts ==
    ASSUME UdpInv, NEW p \in Peers, NEW n \in Numbers, Sent(p, n), Below(Elems(wire[p]), {n})
    PROVE  /\ wire' \in [Peers -> Seq(Numbers)]
           /\ Increasing(wire'[p]) /\ Elems(wire'[p]) = Elems(wire[p]) \cup {n}
           /\ \A q \in Peers \ {p} : wire'[q] = wire[q]
  <1>1. wire \in [Peers -> Seq(Numbers)] BY DEF UdpInv, Shapes
  <1>2. wire[p] \in Seq(Numbers) /\ Increasing(wire[p]) BY <1>1 DEF UdpInv, OrderInv, QueueOrder
  <1>3. /\ Append(wire[p], n) \in Seq(Numbers) /\ Elems(Append(wire[p], n)) = Elems(wire[p]) \cup {n}
        /\ Increasing(Append(wire[p], n))
    BY <1>2, AppendFacts
  <1>4. wire' = [wire EXCEPT ![p] = Append(wire[p], n)] BY DEF Sent
  <1>5. wire'[p] = Append(wire[p], n) BY <1>1, <1>4
  <1>6. \A q \in Peers \ {p} : wire'[q] = wire[q] BY <1>1, <1>4
  <1>7. wire' \in [Peers -> Seq(Numbers)] BY <1>1, <1>3, <1>4
  <1> QED BY <1>3, <1>5, <1>6, <1>7

LEMMA ForwardSentInv == ASSUME UdpInv, ForwardSent PROVE UdpInv'
  <1>1. /\ hand # NoHand /\ hand' = NoHand /\ exhausted' = exhausted
        /\ fresh' = [fresh EXCEPT ![hand.task] = TRUE]
        /\ Sent(peer[hand.task], hand.n)
        /\ UNCHANGED <<slot, pc, peer, batch, inbox, serving, stop, arrived>>
    BY DEF ForwardSent, Accepted
  <1>2. PICK p \in Peers : p = peer[hand.task] BY <1>1, Facts
  <1>3. PICK n \in Numbers : n = hand.n BY <1>1, Facts
  <1>4. Below(Elems(wire[p]), {n}) /\ Below({n}, Waiting(p)) /\ n <= arrived[p]
    BY <1>1, <1>2, <1>3 DEF UdpInv, OrderInv, HandOrder
  <1>5. /\ wire' \in [Peers -> Seq(Numbers)]
        /\ Increasing(wire'[p]) /\ Elems(wire'[p]) = Elems(wire[p]) \cup {n}
        /\ \A q \in Peers \ {p} : wire'[q] = wire[q]
    BY <1>1, <1>2, <1>3, <1>4, SentFacts
  <1>6. Shapes' BY <1>1, <1>5 DEF UdpInv, Shapes
  <1>7. BoundInv' BY <1>1 DEF UdpInv, BoundInv, Entries
  <1>8. OwnInv' BY <1>1 DEF UdpInv, OwnInv
  <1>9. slot[p].state # "opening" BY <1>1, <1>2 DEF UdpInv, OwnInv
  <1>10. Elems(slot[p].pending) = {} BY <1>9, EmptyFacts DEF UdpInv, OwnInv
  <1>11. \A t \in Tasks : peer[t] = p => Elems(batch[t]) = {}
    <2> SUFFICES ASSUME NEW t \in Tasks, peer[t] = p PROVE Elems(batch[t]) = {} OBVIOUS
    <2>1. pc[t] \notin Openers BY <1>9 DEF UdpInv, OwnInv
    <2>2. batch[t] = <<>> BY <2>1 DEF UdpInv, OwnInv, Openers
    <2> QED BY <2>2, EmptyFacts
  <1>12. \A q : Waiting(q)' = Waiting(q) BY <1>1 DEF Waiting
  <1>13. OrderInv'
    <2>1. ASSUME NEW q \in Peers PROVE QueueOrder(q)'
      <3>1. QueueOrder(q) BY DEF UdpInv, OrderInv
      <3>2. CASE q = p BY <1>1, <1>4, <1>5, <1>10, <1>12, <3>1, <3>2 DEF QueueOrder, Below, UpTo
      <3>3. CASE q # p BY <1>1, <1>5, <1>12, <3>1, <3>3 DEF QueueOrder
      <3> QED BY <3>2, <3>3
    <2>2. ASSUME NEW t \in Tasks PROVE BatchOrder(t)'
      <3>0. peer[t] \in Peers BY Facts
      <3>1. BatchOrder(t) BY DEF UdpInv, OrderInv
      <3>2. CASE peer[t] = p BY <1>1, <1>5, <1>11, <1>12, <3>1, <3>2 DEF BatchOrder, Below
      <3>3. CASE peer[t] # p BY <1>1, <1>5, <1>12, <3>0, <3>1, <3>3 DEF BatchOrder
      <3> QED BY <3>2, <3>3
    <2>3. HandOrder' /\ InboxOrder' BY <1>1 DEF UdpInv, OrderInv, HandOrder, InboxOrder
    <2> QED BY <2>1, <2>2, <2>3 DEF OrderInv
  <1> QED BY <1>6, <1>7, <1>8, <1>13 DEF UdpInv

(* The task that opens a session sends the oldest datagram it took, or the quota
   refuses it. *)
LEMMA PendingInv ==
    ASSUME UdpInv, NEW t \in Tasks, PendingRefused(t) \/ PendingSent(t)
    PROVE  UdpInv'
  <1>1. /\ pc[t] = "sending" /\ batch' = [batch EXCEPT ![t] = Tail(batch[t])]
        /\ pc' = [pc EXCEPT ![t] = IF Len(batch[t]) = 1 THEN "draining" ELSE "sending"]
        /\ UNCHANGED <<slot, peer, fresh, inbox, hand, serving, stop, arrived>>
    BY DEF PendingRefused, PendingSent, PendingDone, Goto, shard
  <1>2. exhausted' \in BOOLEAN
    BY DEF PendingRefused, PendingSent, Refused, Accepted, UdpInv, Shapes
  <1>3. PICK p \in Peers : p = peer[t] BY Facts
  <1>4. batch[t] \in Seq(Numbers) /\ batch[t] # <<>> BY <1>1, Facts DEF UdpInv, OwnInv
  <1>5. /\ Tail(batch[t]) \in Seq(Numbers) /\ Len(batch[t]) \in Nat
        /\ Len(Tail(batch[t])) = Len(batch[t]) - 1
        /\ Head(batch[t]) \in Numbers /\ Head(batch[t]) \in Elems(batch[t])
        /\ Elems(Tail(batch[t])) \subseteq Elems(batch[t])
        /\ Increasing(batch[t]) =>
             Increasing(Tail(batch[t])) /\ Below({Head(batch[t])}, Elems(Tail(batch[t])))
        /\ Tail(batch[t]) = <<>> <=> Len(batch[t]) = 1
    BY <1>4, TailFacts
  <1>6. BatchOrder(t) BY DEF UdpInv, OrderInv
  <1>7. batch'[t] = Tail(batch[t]) /\ \A u \in Tasks \ {t} : batch'[u] = batch[u]
    BY <1>1 DEF UdpInv, Shapes
  <1>8. /\ pc'[t] = IF Len(batch[t]) = 1 THEN "draining" ELSE "sending"
        /\ \A u \in Tasks \ {t} : pc'[u] = pc[u]
    BY <1>1 DEF UdpInv, Shapes
  <1>9. batch' \in [Tasks -> Seq(Numbers)] BY <1>1, <1>5 DEF UdpInv, Shapes
  <1>10. pc' \in [Tasks -> {"free"} \cup Openers \cup Relays] BY <1>1 DEF UdpInv, Shapes, Openers
  <1>11. BoundInv'
    <2>1. Len(batch[t]) <= MaxPending /\ MaxPending \in Nat
      BY BoundsAssumption DEF UdpInv, BoundInv
    <2>2. \A m, k \in Nat : m <= k => m - 1 <= k OBVIOUS
    <2>3. Len(batch'[t]) <= MaxPending
      <3>1. Len(batch[t]) - 1 <= MaxPending BY <1>5, <2>1, <2>2
      <3>2. Len(Tail(batch[t])) = Len(batch[t]) - 1 BY <1>5
      <3> QED BY <1>7, <3>1, <3>2, Zenon
    <2>4. \A u \in Tasks : Len(batch'[u]) <= MaxPending BY <1>7, <2>3 DEF UdpInv, BoundInv
    <2> QED BY <1>1, <2>4 DEF UdpInv, BoundInv, Entries
  <1>12. OwnInv'
    <2>1. \A u \in Tasks : /\ pc'[u] \in Openers <=> pc[u] \in Openers
                           /\ pc[u] \in Relays => pc'[u] \in Relays
      BY <1>1, <1>8 DEF Openers, Relays
    <2>2. \A u \in Tasks : batch'[u] # <<>> <=> pc'[u] = "sending"
      <3>1. batch'[t] # <<>> <=> pc'[t] = "sending" BY <1>5, <1>7, <1>8
      <3> QED BY <1>7, <1>8, <3>1 DEF UdpInv, OwnInv
    <2> QED BY <1>1, <2>1, <2>2 DEF UdpInv, OwnInv
  <1>13. \A q : Waiting(q)' = Waiting(q) BY <1>1 DEF Waiting
  <1>14. \A u \in Tasks : Increasing(batch'[u]) /\ Elems(batch'[u]) \subseteq Elems(batch[u])
    BY <1>5, <1>6, <1>7 DEF UdpInv, OrderInv, BatchOrder
  <1>15. CASE PendingRefused(t)
    <2>1. UNCHANGED wire BY <1>15 DEF PendingRefused
    <2>2. OrderInv' BY <1>1, <1>14, <2>1, OrderKept
    <2>3. Shapes' BY <1>1, <1>2, <1>9, <1>10, <2>1 DEF UdpInv, Shapes
    <2> QED BY <1>11, <1>12, <2>2, <2>3 DEF UdpInv
  <1>16. CASE PendingSent(t)
    <2>1. PICK n \in Numbers : n = Head(batch[t]) BY <1>5
    <2>2. Sent(p, n) BY <1>3, <1>16, <2>1 DEF PendingSent
    <2>3. n \in Elems(batch[t]) /\ Below({n}, Elems(batch'[t])) BY <1>5, <1>6, <1>7, <2>1 DEF BatchOrder
    <2>4. /\ Below(Elems(wire[p]), {n}) /\ Below({n}, Elems(slot[p].pending))
          /\ Below({n}, Waiting(p)) /\ n <= arrived[p]
      BY <1>3, <1>6, <2>3 DEF BatchOrder, Below, UpTo
    <2>5. /\ wire' \in [Peers -> Seq(Numbers)]
          /\ Increasing(wire'[p]) /\ Elems(wire'[p]) = Elems(wire[p]) \cup {n}
          /\ \A q \in Peers \ {p} : wire'[q] = wire[q]
      BY <2>2, <2>4, SentFacts
    <2>6. ASSUME NEW q \in Peers PROVE QueueOrder(q)'
      <3>1. QueueOrder(q) BY DEF UdpInv, OrderInv
      <3>2. CASE q = p BY <1>1, <1>13, <2>4, <2>5, <3>1, <3>2 DEF QueueOrder, Below, UpTo
      <3>3. CASE q # p BY <1>1, <1>13, <2>5, <3>1, <3>3 DEF QueueOrder
      <3> QED BY <3>2, <3>3
    <2>7. ASSUME NEW u \in Tasks PROVE BatchOrder(u)'
      <3>0. peer[u] \in Peers BY Facts
      <3>1. BatchOrder(u) BY DEF UdpInv, OrderInv
      <3>2. CASE u = t
        BY <1>1, <1>3, <1>13, <1>14, <2>3, <2>5, <3>1, <3>2 DEF BatchOrder, Below, UpTo
      <3>3. CASE u # t /\ peer[u] = p
        <4>1. pc[u] \notin Openers BY <1>1, <1>3, <3>3 DEF UdpInv, OwnInv, Openers
        <4>2. batch[u] = <<>> BY <4>1 DEF UdpInv, OwnInv, Openers
        <4>3. Elems(batch'[u]) = {} BY <1>7, <3>3, <4>2, EmptyFacts
        <4> QED BY <1>14, <4>3 DEF BatchOrder, Below, UpTo
      <3>4. CASE peer[u] # p
        BY <1>1, <1>13, <1>14, <2>5, <3>0, <3>1, <3>4 DEF BatchOrder, Below, UpTo
      <3> QED BY <1>3, <3>2, <3>3, <3>4
    <2>8. HandOrder'
      <3>1. SUFFICES ASSUME hand # NoHand PROVE HandOrder' BY <1>1 DEF HandOrder
      <3>2. slot[p].state = "opening" BY <1>1, <1>3 DEF UdpInv, OwnInv, Openers
      <3>3. peer[hand.task] # p /\ peer[hand.task] \in Peers BY <3>1, <3>2, Facts DEF UdpInv, OwnInv
      <3> QED BY <1>1, <1>13, <2>5, <3>1, <3>3 DEF UdpInv, OrderInv, HandOrder
    <2>9. OrderInv' BY <1>1, <2>6, <2>7, <2>8 DEF UdpInv, OrderInv, InboxOrder
    <2>10. Shapes' BY <1>1, <1>2, <1>9, <1>10, <2>5 DEF UdpInv, Shapes
    <2> QED BY <1>11, <1>12, <2>9, <2>10 DEF UdpInv
  <1> QED BY <1>15, <1>16

-----------------------------------------------------------------------------
(***************************************************************************)
(* The queue changes hands.                                                *)
(***************************************************************************)
(* The opener takes the queue as its batch, or finds it empty and publishes
   the session. *)
LEMMA TakeInv == ASSUME UdpInv, NEW t \in Tasks, Take(t) PROVE UdpInv'
  <1>1. PICK p \in Peers : p = peer[t] BY Facts
  <1>2. pc[t] = "draining" BY DEF Take
  <1>3. slot[p].state = "opening" /\ batch[t] = <<>>
    BY <1>1, <1>2 DEF UdpInv, OwnInv, Openers
  <1>4. PICK s \in Seq(Numbers) : s = slot[p].pending BY Facts
  <1>5. PICK v \in Slots : v = IF s # <<>> THEN Opening(<<>>) ELSE Open(t)
    BY EmptyFacts, SlotValues
  <1>6. /\ v.pending = <<>>
        /\ s # <<>> => v.state = "opening"
        /\ s = <<>> => v.state = "open" /\ v.task = t
    BY <1>5, EmptyFacts, SlotValues
  <1>7. /\ slot' = [slot EXCEPT ![p] = v]
        /\ batch' = [batch EXCEPT ![t] = s]
        /\ pc' = [pc EXCEPT ![t] = IF s # <<>> THEN "sending" ELSE "relaying"]
        /\ UNCHANGED <<peer, fresh, inbox, hand, serving, stop, exhausted, arrived, wire>>
    BY <1>1, <1>3, <1>4, <1>5 DEF Take, Goto, shard, clients
  <1>8. /\ slot'[p] = v /\ \A q \in Peers \ {p} : slot'[q] = slot[q]
        /\ batch'[t] = s /\ \A u \in Tasks \ {t} : batch'[u] = batch[u]
        /\ pc'[t] = IF s # <<>> THEN "sending" ELSE "relaying"
        /\ \A u \in Tasks \ {t} : pc'[u] = pc[u]
    BY <1>7 DEF UdpInv, Shapes
  <1>9. Shapes' BY <1>7 DEF UdpInv, Shapes, Openers, Relays
  <1>10. \A u \in Tasks \ {t} : peer[u] = p => pc[u] \notin Openers
    BY <1>1, <1>2 DEF UdpInv, OwnInv, Openers
  <1>11. \A u \in Tasks : peer[u] \in Peers BY Facts
  <1>12. BoundInv'
    <2>1. Len(s) <= MaxPending BY <1>4 DEF UdpInv, BoundInv
    <2>2. Len(v.pending) <= MaxPending BY <1>6, EmptyFacts, BoundsAssumption
    <2>3. \A q \in Peers : Len(slot'[q].pending) <= MaxPending BY <1>8, <2>2 DEF UdpInv, BoundInv
    <2>4. \A u \in Tasks : Len(batch'[u]) <= MaxPending BY <1>8, <2>1 DEF UdpInv, BoundInv
    <2>5. Entries' \subseteq Entries BY <1>3, <1>8 DEF Entries
    <2> QED BY <1>7, <2>3, <2>4, <2>5, Shrinks DEF UdpInv, BoundInv
  <1>13. OwnInv'
    <2>1. \A q \in Peers : slot'[q].state # "opening" => slot'[q].pending = <<>>
      BY <1>6, <1>8 DEF UdpInv, OwnInv
    <2>2. ASSUME NEW q \in Peers, slot'[q].state = "open"
          PROVE  slot'[q].task \in Tasks /\ peer[slot'[q].task] = q /\ pc'[slot'[q].task] \in Relays
      <3>1. CASE q = p BY <1>1, <1>6, <1>8, <2>2, <3>1 DEF Relays
      <3>2. CASE q # p
        <4>1. slot[q].task \in Tasks /\ peer[slot[q].task] = q /\ pc[slot[q].task] \in Relays
          BY <1>8, <2>2, <3>2 DEF UdpInv, OwnInv
        <4> QED BY <1>1, <1>8, <3>2, <4>1
      <3> QED BY <3>1, <3>2
    <2>3. ASSUME NEW q \in Peers, slot'[q].state = "opening"
          PROVE  \E u \in Tasks : peer[u] = q /\ pc'[u] \in Openers
      <3>1. CASE q = p BY <1>1, <1>6, <1>8, <2>3, <3>1 DEF Openers
      <3>2. CASE q # p
        <4>1. PICK u \in Tasks : peer[u] = q /\ pc[u] \in Openers
          BY <1>8, <2>3, <3>2 DEF UdpInv, OwnInv
        <4> QED BY <1>1, <1>8, <3>2, <4>1
      <3> QED BY <3>1, <3>2
    <2>4. ASSUME NEW u \in Tasks, pc'[u] \in Openers PROVE slot'[peer[u]].state = "opening"
      <3>1. CASE u = t BY <1>1, <1>6, <1>8, <2>4, <3>1 DEF Openers
      <3>2. CASE u # t
        <4>1. pc[u] \in Openers /\ peer[u] # p BY <1>8, <1>10, <2>4, <3>2
        <4> QED BY <1>8, <1>11, <4>1 DEF UdpInv, OwnInv
      <3> QED BY <3>1, <3>2
    <2>5. \A u \in Tasks : pc'[u] \in Openers => pc[u] \in Openers BY <1>2, <1>8 DEF Openers
    <2>6. \A u, w \in Tasks : pc'[u] \in Openers /\ pc'[w] \in Openers /\ peer[u] = peer[w] => u = w
      BY <2>5 DEF UdpInv, OwnInv
    <2>7. \A u \in Tasks : batch'[u] # <<>> <=> pc'[u] = "sending" BY <1>8 DEF UdpInv, OwnInv
    <2>8. hand # NoHand => slot'[peer[hand.task]].state # "opening"
      BY <1>3, <1>8, Facts DEF UdpInv, OwnInv
    <2> QED BY <1>7, <2>1, <2>2, <2>3, <2>4, <2>6, <2>7, <2>8 DEF OwnInv
  <1>14. OrderInv'
    <2>1. \A q : Waiting(q)' = Waiting(q) BY <1>7 DEF Waiting
    <2>2. QueueOrder(p) BY DEF UdpInv, OrderInv
    <2>3. ASSUME NEW q \in Peers PROVE QueueOrder(q)'
      <3>1. CASE q = p BY <1>6, <1>7, <1>8, <2>1, <2>2, <3>1, EmptyFacts DEF QueueOrder, Below, UpTo
      <3>2. CASE q # p BY <1>7, <1>8, <2>1, <3>2 DEF UdpInv, OrderInv, QueueOrder
      <3> QED BY <3>1, <3>2
    <2>4. ASSUME NEW u \in Tasks PROVE BatchOrder(u)'
      <3>1. CASE u = t
        BY <1>1, <1>4, <1>6, <1>7, <1>8, <2>1, <2>2, <3>1, EmptyFacts DEF QueueOrder, BatchOrder, Below
      <3>2. CASE u # t /\ peer[u] = p
        <4>1. batch'[u] = <<>> BY <1>8, <1>10, <3>2 DEF UdpInv, OwnInv, Openers
        <4> QED BY <4>1, EmptyFacts DEF BatchOrder, Below, UpTo
      <3>3. CASE peer[u] # p
        <4>1. batch'[u] = batch[u] /\ slot'[peer[u]] = slot[peer[u]] BY <1>1, <1>8, <1>11, <3>3
        <4> QED BY <1>7, <2>1, <4>1 DEF UdpInv, OrderInv, BatchOrder
      <3> QED BY <3>1, <3>2, <3>3
    <2>5. HandOrder' /\ InboxOrder' BY <1>7, <2>1 DEF UdpInv, OrderInv, HandOrder, InboxOrder
    <2> QED BY <2>3, <2>4, <2>5 DEF OrderInv
  <1> QED BY <1>9, <1>12, <1>13, <1>14 DEF UdpInv

(* Taking the oldest received datagram leaves only later ones of its client. *)
LEMMA InboxTail ==
    ASSUME UdpInv, inbox # <<>>, inbox' = Tail(inbox),
           NEW h, h = Head(inbox).peer, NEW m, m = Head(inbox).n
    PROVE  /\ inbox' \in Seq([peer : Peers, n : Numbers]) /\ Len(inbox') <= BatchSize
           /\ h \in Peers /\ m \in Numbers /\ m \in Waiting(h)
           /\ \A p : Waiting(p)' \subseteq Waiting(p)
           /\ Below({m}, Waiting(h)')
           /\ InboxOrder'
  <1> DEFINE P == [peer : Peers, n : Numbers]
  <1>1. inbox \in Seq(P) BY DEF UdpInv, Shapes
  <1> HIDE DEF P
  <1>2. /\ Head(inbox) \in P /\ Tail(inbox) \in Seq(P) /\ Len(Tail(inbox)) = Len(inbox) - 1
        /\ \A i \in 1..Len(Tail(inbox)) : Tail(inbox)[i] = inbox[i + 1]
    BY <1>1, HeadTailProperties
  <1>3. PICK k \in Nat : k + 1 = Len(inbox) /\ DOMAIN inbox = 1..(k + 1)
    <2>1. Len(inbox) \in Nat \ {0} BY <1>1, EmptySeq
    <2>2. DOMAIN inbox = 1..Len(inbox) BY <1>1, LenProperties
    <2>3. Len(inbox) - 1 \in Nat /\ (Len(inbox) - 1) + 1 = Len(inbox) BY <2>1
    <2> QED BY <2>2, <2>3
  <1>4. Len(inbox') = k /\ DOMAIN inbox' = 1..k
    <2>0. Len(inbox) - 1 = k BY <1>3
    <2>1. Len(Tail(inbox)) = k BY <1>2, <2>0, Zenon
    <2>2. DOMAIN Tail(inbox) = 1..Len(Tail(inbox)) BY <1>2, LenProperties
    <2> QED BY <2>1, <2>2
  <1>5. \A i \in 1..k : i + 1 \in 1..(k + 1) /\ 1 < i + 1 OBVIOUS
  <1>6. 1 \in 1..(k + 1) /\ Head(inbox) = inbox[1] BY <1>1, <1>3
  <1>7. \A i \in 1..k : inbox'[i] = inbox[i + 1] BY <1>2, <1>4
  <1>8. Len(inbox') <= BatchSize
    <2>1. k + 1 <= BatchSize /\ BatchSize \in Nat BY <1>3, BoundsAssumption DEF UdpInv, BoundInv
    <2>2. k <= BatchSize BY <2>1
    <2> QED BY <1>4, <2>2
  <1>9. h \in Peers /\ m \in Numbers BY <1>2 DEF P
  <1>10. m \in Waiting(h) BY <1>3, <1>6 DEF Waiting
  <1>11. ASSUME NEW p, NEW l \in Waiting(p)' PROVE \E i \in 1..k : inbox[i + 1].peer = p /\ inbox[i + 1].n = l
    BY <1>4, <1>7, <1>11 DEF Waiting
  <1>12. \A p : Waiting(p)' \subseteq Waiting(p)
    <2> SUFFICES ASSUME NEW p, NEW l \in Waiting(p)' PROVE l \in Waiting(p) OBVIOUS
    <2>1. PICK i \in 1..k : inbox[i + 1].peer = p /\ inbox[i + 1].n = l BY <1>11
    <2> QED BY <1>3, <1>5, <2>1 DEF Waiting
  <1>13. InboxOrder BY DEF UdpInv, OrderInv
  <1>14. Below({m}, Waiting(h)')
    <2> SUFFICES ASSUME NEW l \in Waiting(h)' PROVE m < l BY DEF Below
    <2>1. PICK i \in 1..k : inbox[i + 1].peer = h /\ inbox[i + 1].n = l BY <1>11
    <2>2. i + 1 \in 1..(k + 1) /\ 1 < i + 1 BY <1>5
    <2> QED BY <1>3, <1>6, <1>13, <2>1, <2>2 DEF InboxOrder
  <1>15. InboxOrder'
    <2> SUFFICES ASSUME NEW i \in 1..k, NEW j \in 1..k, i < j, inbox'[i].peer = inbox'[j].peer
                 PROVE  inbox'[i].n < inbox'[j].n
      BY <1>4 DEF InboxOrder
    <2>1. i + 1 < j + 1 /\ i + 1 \in 1..(k + 1) /\ j + 1 \in 1..(k + 1) BY <1>5
    <2>2. inbox[i + 1].peer = inbox[j + 1].peer BY <1>7
    <2>3. inbox[i + 1].n < inbox[j + 1].n BY <1>3, <1>13, <2>1, <2>2 DEF InboxOrder
    <2> QED BY <1>7, <2>3
  <1> QED BY <1>2, <1>8, <1>9, <1>10, <1>12, <1>14, <1>15 DEF P

(* A datagram that is dropped, or handed to a forward, leaves the queues as they
   were; the others of its client are later. *)
LEMMA DispatchedOrder ==
    ASSUME UdpInv, UNCHANGED <<arrived, wire>>, NEW q \in Peers,
           \A p : Waiting(p)' \subseteq Waiting(p), slot'[q] = slot[q]
    PROVE  /\ QueueOrder(q)'
           /\ \A t \in Tasks : /\ peer'[t] = peer[t] /\ peer[t] = q /\ batch'[t] = batch[t]
                               => BatchOrder(t)'
  <1>1. QueueOrder(q) /\ \A t \in Tasks : BatchOrder(t) BY DEF UdpInv, OrderInv
  <1>2. QueueOrder(q)' BY <1>1 DEF QueueOrder, Below, UpTo
  <1>3. ASSUME NEW t \in Tasks, peer'[t] = peer[t], peer[t] = q, batch'[t] = batch[t]
        PROVE  BatchOrder(t)'
    BY <1>1, <1>3 DEF BatchOrder, Below, UpTo
  <1> QED BY <1>2, <1>3

(* What a dispatched datagram of a client is later than. *)
LEMMA HeadOrder ==
    ASSUME UdpInv, NEW p \in Peers, NEW n \in Waiting(p)
    PROVE  /\ n <= arrived[p] /\ Below(Elems(wire[p]), {n}) /\ Below(Elems(slot[p].pending), {n})
           /\ \A t \in Tasks : peer[t] = p => Below(Elems(batch[t]), {n})
  <1>1. QueueOrder(p) /\ \A t \in Tasks : BatchOrder(t) BY DEF UdpInv, OrderInv
  <1> QED BY <1>1 DEF QueueOrder, BatchOrder, Below, UpTo

LEMMA DispatchAsideInv ==
    ASSUME UdpInv, inbox # <<>>, hand = NoHand, inbox' = Tail(inbox),
           UNCHANGED <<serving, stop, exhausted, clients>>,
           NEW p, p = Head(inbox).peer, NEW n, n = Head(inbox).n,
           \/ DispatchOpen(p, n) \/ DispatchDropped(p)
           \/ UNCHANGED <<slot, hand, tasks>>
    PROVE  UdpInv'
  <1>1. /\ inbox' \in Seq([peer : Peers, n : Numbers]) /\ Len(inbox') <= BatchSize
        /\ p \in Peers /\ n \in Numbers /\ n \in Waiting(p)
        /\ \A q : Waiting(q)' \subseteq Waiting(q)
        /\ Below({n}, Waiting(p)')
        /\ InboxOrder'
    BY InboxTail
  <1>2. /\ UNCHANGED <<slot, pc, peer, batch, fresh, serving, stop, exhausted, arrived, wire>>
        /\ hand' = NoHand \/ (slot[p].state = "open" /\ hand' = [task |-> slot[p].task, n |-> n])
    BY DEF DispatchOpen, DispatchDropped, tasks, clients
  <1>3. ASSUME hand' # NoHand
        PROVE  /\ slot[p].state = "open" /\ hand'.task \in Tasks /\ hand'.n = n
               /\ peer[hand'.task] = p /\ hand' \in [task : Tasks, n : Numbers]
    <2>1. slot[p].state = "open" /\ hand' = [task |-> slot[p].task, n |-> n] BY <1>2, <1>3
    <2>2. slot[p].task \in Tasks /\ peer[slot[p].task] = p BY <1>1, <2>1 DEF UdpInv, OwnInv
    <2> QED BY <1>1, <2>1, <2>2
  <1>4. Shapes' BY <1>1, <1>2, <1>3 DEF UdpInv, Shapes
  <1>5. BoundInv' BY <1>1, <1>2 DEF UdpInv, BoundInv, Entries
  <1>6. OwnInv' BY <1>2, <1>3 DEF UdpInv, OwnInv
  <1>7. OrderInv'
    <2>1. \A q \in Peers : QueueOrder(q)' BY <1>1, <1>2, DispatchedOrder
    <2>2. ASSUME NEW t \in Tasks PROVE BatchOrder(t)'
      <3>1. PICK q \in Peers : q = peer[t] BY Facts
      <3> QED BY <1>1, <1>2, <3>1, DispatchedOrder
    <2>3. HandOrder' BY <1>1, <1>2, <1>3, HeadOrder DEF HandOrder
    <2> QED BY <1>1, <2>1, <2>2, <2>3 DEF OrderInv
  <1> QED BY <1>4, <1>5, <1>6, <1>7 DEF UdpInv

(* A datagram joins the queue of an opening session. *)
LEMMA DispatchPendingInv ==
    ASSUME UdpInv, inbox # <<>>, hand = NoHand, inbox' = Tail(inbox),
           UNCHANGED <<serving, stop, exhausted, clients>>,
           NEW p, p = Head(inbox).peer, NEW n, n = Head(inbox).n, DispatchPending(p, n)
    PROVE  UdpInv'
  <1>1. /\ inbox' \in Seq([peer : Peers, n : Numbers]) /\ Len(inbox') <= BatchSize
        /\ p \in Peers /\ n \in Numbers /\ n \in Waiting(p)
        /\ \A q : Waiting(q)' \subseteq Waiting(q)
        /\ Below({n}, Waiting(p)')
        /\ InboxOrder'
    BY InboxTail
  <1>2. CASE Len(slot[p].pending) < MaxPending
    <2>1. /\ slot[p].state = "opening" /\ slot' = [slot EXCEPT ![p].pending = Append(@, n)]
          /\ UNCHANGED <<pc, peer, batch, fresh, hand, serving, stop, exhausted, arrived, wire>>
      BY <1>2 DEF DispatchPending, tasks, clients
    <2>2. PICK s \in Seq(Numbers) : s = slot[p].pending BY <1>1, Facts
    <2>3. /\ Append(s, n) \in Seq(Numbers) /\ Len(Append(s, n)) = Len(s) + 1 /\ Len(s) \in Nat
          /\ Elems(Append(s, n)) = Elems(s) \cup {n}
          /\ Increasing(s) /\ Below(Elems(s), {n}) => Increasing(Append(s, n))
      BY <1>1, <2>2, AppendFacts
    <2>4. slot' = [slot EXCEPT ![p].pending = Append(s, n)] BY <2>1, <2>2
    <2>5. slot \in [Peers -> Slots] BY DEF UdpInv, Shapes
    <2>6. PICK v \in Slots : v = [slot[p] EXCEPT !.pending = Append(s, n)]
      BY <1>1, <2>3, <2>5 DEF Slots
    <2>7. slot' = [slot EXCEPT ![p] = v] BY <2>4, <2>6
    <2>8. v.state = "opening" /\ v.pending = Append(s, n)
      <3>1. slot[p] \in Slots BY <1>1, <2>5
      <3> QED BY <2>1, <2>6, <3>1 DEF Slots
    <2>9. slot' \in [Peers -> Slots] BY <2>5, <2>6, <2>7
    <2>10. slot'[p].state = "opening" /\ slot'[p].pending = Append(s, n) BY <1>1, <2>5, <2>7, <2>8
    <2>11. \A q \in Peers \ {p} : slot'[q] = slot[q] BY <2>4, <2>5
    <2>12. Shapes' BY <1>1, <2>1, <2>9 DEF UdpInv, Shapes
    <2>13. BoundInv'
      <3>1. Len(Append(s, n)) <= MaxPending
        <4>1. Len(s) < MaxPending /\ MaxPending \in Nat BY <1>2, <2>2, BoundsAssumption
        <4>2. Len(s) + 1 <= MaxPending BY <2>3, <4>1
        <4> QED BY <2>3, <4>2
      <3>2. \A q \in Peers : Len(slot'[q].pending) <= MaxPending
        BY <2>10, <2>11, <3>1 DEF UdpInv, BoundInv
      <3>3. Entries' \subseteq Entries BY <2>1, <2>10, <2>11 DEF Entries
      <3> QED BY <1>1, <2>1, <3>2, <3>3, Shrinks DEF UdpInv, BoundInv
    <2>14. OwnInv'
      <3>1. \A t \in Tasks : peer[t] \in Peers BY Facts
      <3>2. \A q \in Peers : /\ slot'[q].state = slot[q].state
                             /\ slot[q].state = "open" => slot'[q].task = slot[q].task
                             /\ slot'[q].state # "opening" => slot'[q].pending = slot[q].pending
        BY <2>1, <2>10, <2>11
      <3> QED BY <2>1, <3>1, <3>2 DEF UdpInv, OwnInv
    <2>15. OrderInv'
      <3>1. /\ n <= arrived[p] /\ Below(Elems(wire[p]), {n}) /\ Below(Elems(s), {n})
            /\ \A t \in Tasks : peer[t] = p => Below(Elems(batch[t]), {n})
        BY <1>1, <2>2, HeadOrder
      <3>2. QueueOrder(p) BY <1>1 DEF UdpInv, OrderInv
      <3>3. ASSUME NEW q \in Peers PROVE QueueOrder(q)'
        <4>1. CASE q = p
          <5>1. Increasing(slot'[p].pending) BY <2>2, <2>3, <2>10, <3>1, <3>2 DEF QueueOrder
          <5>2. Elems(slot'[p].pending) = Elems(slot[p].pending) \cup {n} BY <2>2, <2>3, <2>10
          <5> QED BY <1>1, <2>1, <3>1, <3>2, <4>1, <5>1, <5>2 DEF QueueOrder, Below, UpTo
        <4>2. CASE q # p
          <5>1. slot'[q] = slot[q] BY <2>11, <4>2
          <5> QED BY <1>1, <2>1, <5>1, DispatchedOrder
        <4> QED BY <4>1, <4>2
      <3>4. ASSUME NEW t \in Tasks PROVE BatchOrder(t)'
        <4>1. CASE peer[t] = p
          <5>1. BatchOrder(t) BY DEF UdpInv, OrderInv
          <5>2. Elems(slot'[p].pending) = Elems(slot[p].pending) \cup {n} BY <2>2, <2>3, <2>10
          <5> QED BY <1>1, <2>1, <3>1, <4>1, <5>1, <5>2 DEF BatchOrder, Below
        <4>2. CASE peer[t] # p
          <5>1. PICK q \in Peers : q = peer[t] BY Facts
          <5>2. slot'[q] = slot[q] BY <2>11, <4>2, <5>1
          <5> QED BY <1>1, <2>1, <5>1, <5>2, DispatchedOrder
        <4> QED BY <4>1, <4>2
      <3>5. HandOrder' BY <2>1 DEF HandOrder
      <3> QED BY <1>1, <3>3, <3>4, <3>5 DEF OrderInv
    <2> QED BY <2>12, <2>13, <2>14, <2>15 DEF UdpInv
  <1>3. CASE ~(Len(slot[p].pending) < MaxPending)
    <2>1. UNCHANGED <<slot, hand, tasks>> BY <1>3 DEF DispatchPending
    <2> QED BY <2>1, DispatchAsideInv
  <1> QED BY <1>2, <1>3

(* A client without an entry gets one, and a task to open its session. *)
LEMMA DispatchNewInv ==
    ASSUME UdpInv, inbox # <<>>, hand = NoHand, inbox' = Tail(inbox),
           UNCHANGED <<serving, stop, exhausted, clients>>,
           NEW p, p = Head(inbox).peer, NEW n, n = Head(inbox).n,
           NEW t \in Tasks, DispatchNew(p, n, t)
    PROVE  UdpInv'
  <1>1. /\ inbox' \in Seq([peer : Peers, n : Numbers]) /\ Len(inbox') <= BatchSize
        /\ p \in Peers /\ n \in Numbers /\ n \in Waiting(p)
        /\ \A q : Waiting(q)' \subseteq Waiting(q)
        /\ Below({n}, Waiting(p)')
        /\ InboxOrder'
    BY InboxTail
  <1>2. PICK s \in Seq(Numbers) : s = <<n>> /\ Len(s) = 1 /\ Elems(s) = {n} /\ Increasing(s)
    <2>1. <<>> \in Seq(Numbers) /\ Len(<<>>) = 0 /\ Elems(<<>>) = {} /\ Increasing(<<>>) BY EmptyFacts
    <2>2. PICK e \in Seq(Numbers) : e = <<>> BY <2>1
    <2>3. /\ Append(e, n) \in Seq(Numbers) /\ Len(Append(e, n)) = Len(e) + 1
          /\ Elems(Append(e, n)) = Elems(e) \cup {n}
          /\ Increasing(e) /\ Below(Elems(e), {n}) => Increasing(Append(e, n))
      BY <1>1, <2>2, AppendFacts
    <2>4. Append(e, n) = <<n>> BY <2>2
    <2>5. Below(Elems(e), {n}) BY <2>1, <2>2 DEF Below
    <2>6. Elems(e) \cup {n} = {n} /\ Len(e) + 1 = 1 BY <2>1, <2>2
    <2> QED BY <2>1, <2>2, <2>3, <2>4, <2>5, <2>6
  <1>3. PICK v \in Slots : v = Opening(s) /\ v.state = "opening" /\ v.pending = s BY SlotValues
  <1>4. /\ slot[p].state = "vacant" /\ ~Full /\ pc[t] = "free"
        /\ slot' = [slot EXCEPT ![p] = v]
        /\ pc' = [pc EXCEPT ![t] = "connecting"]
        /\ peer' = [peer EXCEPT ![t] = p]
        /\ fresh' = [fresh EXCEPT ![t] = FALSE]
        /\ UNCHANGED <<batch, hand, serving, stop, exhausted, arrived, wire>>
    BY <1>2, <1>3 DEF DispatchNew, clients
  <1>5. /\ slot'[p] = v /\ \A q \in Peers \ {p} : slot'[q] = slot[q]
        /\ pc'[t] = "connecting" /\ \A u \in Tasks \ {t} : pc'[u] = pc[u]
        /\ peer'[t] = p /\ \A u \in Tasks \ {t} : peer'[u] = peer[u]
    BY <1>1, <1>4 DEF UdpInv, Shapes
  <1>6. Shapes' BY <1>1, <1>4 DEF UdpInv, Shapes, Openers
  <1>7. \A u \in Tasks : peer[u] \in Peers BY Facts
  <1>8. \A u \in Tasks : pc[u] \in Openers => peer[u] # p BY <1>4 DEF UdpInv, OwnInv
  <1>9. BoundInv'
    <2>1. IsFiniteSet(Entries) /\ ~(Cardinality(Entries) >= MaxSessions) BY <1>4 DEF UdpInv, BoundInv, Full
    <2>2. p \notin Entries /\ Entries' = Entries \cup {p} BY <1>1, <1>3, <1>4, <1>5 DEF Entries
    <2>3. IsFiniteSet(Entries') /\ Cardinality(Entries') = Cardinality(Entries) + 1
      BY <2>1, <2>2, FS_AddElement
    <2>4. Cardinality(Entries) \in Nat BY <2>1, FS_CardinalityType
    <2>5. MaxSessions \in Nat /\ MaxPending \in Nat \ {0} BY BoundsAssumption
    <2>6. Cardinality(Entries) + 1 <= MaxSessions BY <2>1, <2>4, <2>5
    <2>7. Len(v.pending) <= MaxPending
      <3>1. 1 <= MaxPending BY <2>5
      <3> QED BY <1>2, <1>3, <3>1, Zenon
    <2>8. \A q \in Peers : Len(slot'[q].pending) <= MaxPending BY <1>5, <2>7 DEF UdpInv, BoundInv
    <2> QED BY <1>1, <1>4, <2>3, <2>6, <2>8 DEF UdpInv, BoundInv
  <1>10. OwnInv'
    <2>1. \A q \in Peers : slot'[q].state # "opening" => slot'[q].pending = <<>>
      BY <1>3, <1>5 DEF UdpInv, OwnInv
    <2>2. ASSUME NEW q \in Peers, slot'[q].state = "open"
          PROVE  slot'[q].task \in Tasks /\ peer'[slot'[q].task] = q /\ pc'[slot'[q].task] \in Relays
      <3>1. q # p /\ slot'[q] = slot[q] BY <1>3, <1>5, <2>2
      <3>2. slot[q].task \in Tasks /\ peer[slot[q].task] = q /\ pc[slot[q].task] \in Relays
        BY <2>2, <3>1 DEF UdpInv, OwnInv
      <3>3. slot[q].task # t BY <1>4, <3>2 DEF Relays
      <3> QED BY <1>5, <3>1, <3>2, <3>3
    <2>3. ASSUME NEW q \in Peers, slot'[q].state = "opening"
          PROVE  \E u \in Tasks : peer'[u] = q /\ pc'[u] \in Openers
      <3>1. CASE q = p BY <1>5, <3>1 DEF Openers
      <3>2. CASE q # p
        <4>1. PICK u \in Tasks : peer[u] = q /\ pc[u] \in Openers BY <1>5, <2>3, <3>2 DEF UdpInv, OwnInv
        <4>2. u # t BY <1>4, <4>1 DEF Openers
        <4> QED BY <1>5, <4>1, <4>2
      <3> QED BY <3>1, <3>2
    <2>4. ASSUME NEW u \in Tasks, pc'[u] \in Openers PROVE slot'[peer'[u]].state = "opening"
      <3>1. CASE u = t BY <1>3, <1>5, <3>1
      <3>2. CASE u # t
        <4>1. pc[u] \in Openers /\ peer'[u] = peer[u] BY <1>5, <2>4, <3>2
        <4> QED BY <1>5, <1>7, <1>8, <4>1 DEF UdpInv, OwnInv
      <3> QED BY <3>1, <3>2
    <2>5. ASSUME NEW u \in Tasks, NEW w \in Tasks, pc'[u] \in Openers, pc'[w] \in Openers, peer'[u] = peer'[w]
          PROVE  u = w
      BY <1>5, <1>8, <2>5 DEF UdpInv, OwnInv
    <2>6. \A u \in Tasks : batch'[u] # <<>> <=> pc'[u] = "sending" BY <1>4, <1>5 DEF UdpInv, OwnInv
    <2> QED BY <1>4, <2>1, <2>2, <2>3, <2>4, <2>5, <2>6 DEF OwnInv
  <1>11. OrderInv'
    <2>1. n <= arrived[p] /\ Below(Elems(wire[p]), {n}) BY <1>1, HeadOrder
    <2>2. QueueOrder(p) BY <1>1 DEF UdpInv, OrderInv
    <2>3. ASSUME NEW q \in Peers PROVE QueueOrder(q)'
      <3>1. CASE q = p
        <4>1. Increasing(slot'[p].pending) /\ Elems(slot'[p].pending) = {n} BY <1>2, <1>3, <1>5, Zenon
        <4> QED BY <1>1, <1>4, <2>1, <2>2, <3>1, <4>1 DEF QueueOrder, Below, UpTo
      <3>2. CASE q # p
        <4>1. slot'[q] = slot[q] BY <1>5, <3>2
        <4> QED BY <1>1, <1>4, <4>1, DispatchedOrder
      <3> QED BY <3>1, <3>2
    <2>4. ASSUME NEW u \in Tasks PROVE BatchOrder(u)'
      <3>1. CASE u = t \/ peer[u] = p
        <4>1. batch[u] = <<>> BY <1>4, <1>8, <3>1 DEF UdpInv, OwnInv, Openers
        <4> QED BY <1>4, <4>1, EmptyFacts DEF BatchOrder, Below, UpTo
      <3>2. CASE u # t /\ peer[u] # p
        <4>1. PICK q \in Peers : q = peer[u] BY Facts
        <4>2. slot'[q] = slot[q] /\ peer'[u] = peer[u] BY <1>5, <3>2, <4>1
        <4> QED BY <1>1, <1>4, <4>1, <4>2, DispatchedOrder
      <3> QED BY <3>1, <3>2
    <2>5. HandOrder' BY <1>4 DEF HandOrder
    <2> QED BY <1>1, <2>3, <2>4, <2>5 DEF OrderInv
  <1> QED BY <1>6, <1>9, <1>10, <1>11 DEF UdpInv

-----------------------------------------------------------------------------
(***************************************************************************)
(* A received batch: the datagrams of each client are numbered onwards.    *)
(***************************************************************************)
FromPeer(from, i, p) == {j \in 1..i : from[j] = p}

LEMMA CountFacts ==
    ASSUME NEW k \in Nat, NEW from, NEW p
    PROVE  /\ \A i \in 0..k : Cardinality(FromPeer(from, i, p)) \in Nat
           /\ \A i, j \in 0..k : i < j /\ from[j] = p =>
                Cardinality(FromPeer(from, i, p)) < Cardinality(FromPeer(from, j, p))
           /\ \A i \in 0..k : Cardinality(FromPeer(from, i, p)) <= Cardinality(FromPeer(from, k, p))
  <1>1. ASSUME NEW i \in 0..k
        PROVE  IsFiniteSet(FromPeer(from, i, p)) /\ Cardinality(FromPeer(from, i, p)) \in Nat
    <2>1. IsFiniteSet(1..i) BY FS_Interval
    <2>2. FromPeer(from, i, p) \in SUBSET (1..i) BY DEF FromPeer
    <2>3. IsFiniteSet(FromPeer(from, i, p)) BY <2>1, <2>2, FS_Subset
    <2> QED BY <2>3, FS_CardinalityType
  <1>2. ASSUME NEW i \in 0..k, NEW j \in 0..k, i <= j
        PROVE  Cardinality(FromPeer(from, i, p)) <= Cardinality(FromPeer(from, j, p))
    <2>1. FromPeer(from, i, p) \in SUBSET FromPeer(from, j, p)
      <3>1. \A l \in 1..i : l \in 1..j BY <1>2
      <3> QED BY <3>1 DEF FromPeer
    <2>2. IsFiniteSet(FromPeer(from, j, p)) BY <1>1
    <2> QED BY <2>1, <2>2, FS_Subset
  <1>3. ASSUME NEW i \in 0..k, NEW j \in 0..k, i < j, from[j] = p
        PROVE  Cardinality(FromPeer(from, i, p)) < Cardinality(FromPeer(from, j, p))
    <2>1. IsFiniteSet(FromPeer(from, i, p)) /\ IsFiniteSet(FromPeer(from, j, p)) BY <1>1
    <2>2. j \notin FromPeer(from, i, p) BY <1>3 DEF FromPeer
    <2>3. FromPeer(from, i, p) \cup {j} \in SUBSET FromPeer(from, j, p)
      <3>1. \A l \in 1..i : l \in 1..j BY <1>3
      <3>2. j \in 1..j BY <1>3
      <3> QED BY <1>3, <3>1, <3>2 DEF FromPeer
    <2>4. Cardinality(FromPeer(from, i, p) \cup {j}) <= Cardinality(FromPeer(from, j, p))
      BY <2>1, <2>3, FS_Subset
    <2>5. Cardinality(FromPeer(from, i, p) \cup {j}) = Cardinality(FromPeer(from, i, p)) + 1
      BY <2>1, <2>2, FS_AddElement
    <2>6. Cardinality(FromPeer(from, i, p)) \in Nat /\ Cardinality(FromPeer(from, j, p)) \in Nat
      BY <1>1
    <2> QED BY <2>4, <2>5, <2>6
  <1>4. k \in 0..k /\ \A i \in 0..k : i <= k OBVIOUS
  <1> QED BY <1>1, <1>2, <1>3, <1>4

(* The numbers of a batch: later than all that came before, in the order they came,
   and none past the count of their client. *)
LEMMA NumberFacts ==
    ASSUME UdpInv, NEW from \in Arrivals, Receive(from)
    PROVE  /\ arrived' \in [Peers -> Nat] /\ \A p \in Peers : arrived[p] <= arrived'[p]
           /\ inbox' \in Seq([peer : Peers, n : Numbers]) /\ Len(inbox') <= BatchSize
           /\ \A p \in Peers : \A m \in Waiting(p)' : arrived[p] < m /\ m <= arrived'[p]
           /\ InboxOrder'
  <1> DEFINE P == [peer : Peers, n : Numbers]
  <1>1. PICK k \in 1..BatchSize : from \in [1..k -> Peers] BY DEF Arrivals
  <1>2. k \in Nat /\ k <= BatchSize /\ DOMAIN from = 1..k BY <1>1, BoundsAssumption
  <1>3. \A p : /\ \A i \in 0..k : Cardinality(FromPeer(from, i, p)) \in Nat
               /\ \A i, j \in 0..k : i < j /\ from[j] = p =>
                    Cardinality(FromPeer(from, i, p)) < Cardinality(FromPeer(from, j, p))
               /\ \A i \in 0..k : Cardinality(FromPeer(from, i, p)) <= Cardinality(FromPeer(from, k, p))
    BY <1>2, CountFacts
  <1>4. arrived' = [p \in Peers |-> arrived[p] + Cardinality(FromPeer(from, k, p))]
    BY <1>2 DEF Receive, FromPeer
  <1>5. inbox' = IF exhausted THEN <<>>
                 ELSE [i \in 1..k |-> Packet(from[i], arrived[from[i]] + Cardinality(FromPeer(from, i, from[i])))]
    BY <1>2 DEF Receive, FromPeer
  <1>6. \A p \in Peers : arrived[p] \in Nat BY Facts
  <1>7. 0 \in 0..k /\ k \in 0..k /\ \A i \in 1..k : i \in 0..k /\ 0 < i BY <1>2
  <1>8. /\ \A p \in Peers : Cardinality(FromPeer(from, k, p)) \in Nat
        /\ \A p \in Peers : arrived'[p] = arrived[p] + Cardinality(FromPeer(from, k, p))
    BY <1>3, <1>4, <1>7
  <1>9. arrived' \in [Peers -> Nat] BY <1>4, <1>6, <1>8
  <1>10. \A p \in Peers : arrived[p] <= arrived'[p] BY <1>6, <1>8
  <1>11. CASE exhausted
    <2>1. inbox' = <<>> BY <1>5, <1>11
    <2>2. inbox' \in Seq(P) /\ Len(inbox') = 0 BY <2>1, EmptySeq
    <2> HIDE DEF P
    <2>3. DOMAIN inbox' = {} BY <2>1
    <2>4. \A p : Waiting(p)' = {} BY <2>3 DEF Waiting
    <2>5. InboxOrder' BY <2>3 DEF InboxOrder
    <2>6. 0 <= BatchSize BY BoundsAssumption
    <2> QED BY <1>9, <1>10, <2>2, <2>4, <2>5, <2>6 DEF P
  <1>12. CASE ~exhausted
    <2> DEFINE c(i) == Cardinality(FromPeer(from, i, from[i]))
    <2>1. ASSUME NEW i \in 1..k PROVE c(i) \in Nat /\ 0 < c(i) /\ from[i] \in Peers
      <3>1. from[i] \in Peers BY <1>1
      <3>2. Cardinality(FromPeer(from, 0, from[i])) \in Nat /\ c(i) \in Nat BY <1>3, <1>7
      <3>3. Cardinality(FromPeer(from, 0, from[i])) < c(i) BY <1>3, <1>7
      <3> HIDE DEF c
      <3> QED BY <3>1, <3>2, <3>3
    <2>2. ASSUME NEW i \in 1..k
          PROVE  /\ inbox'[i].peer = from[i] /\ inbox'[i].n = arrived[from[i]] + c(i)
                 /\ inbox'[i] \in P
      <3>1. inbox'[i] = Packet(from[i], arrived[from[i]] + c(i)) BY <1>5, <1>12
      <3>2. arrived[from[i]] + c(i) \in Numbers
        <4>1. arrived[from[i]] \in Nat /\ c(i) \in Nat /\ 0 < c(i) BY <1>6, <2>1
        <4> HIDE DEF c
        <4> QED BY <4>1 DEF Numbers
      <3>3. from[i] \in Peers BY <2>1
      <3> HIDE DEF c
      <3> QED BY <3>1, <3>2, <3>3 DEF Packet
    <2>3. inbox' = [i \in 1..k |-> inbox'[i]] /\ DOMAIN inbox' = 1..k BY <1>5, <1>12
    <2> HIDE DEF c, P
    <2>4. inbox' \in [1..k -> P] BY <2>2, <2>3
    <2>5. inbox' \in Seq(P) BY <1>2, <2>4, SeqDef
    <2>6. Len(inbox') = k
      <3>1. Len(inbox') \in Nat /\ DOMAIN inbox' = 1..Len(inbox') BY <2>5, LenProperties
      <3>2. \A m \in Nat : 1..m = 1..k => m = k BY <1>1
      <3> QED BY <2>3, <3>1, <3>2
    <2>7. ASSUME NEW p \in Peers, NEW m \in Waiting(p)' PROVE arrived[p] < m /\ m <= arrived'[p]
      <3>1. PICK i \in 1..k : inbox'[i].peer = p /\ inbox'[i].n = m BY <2>3, <2>7 DEF Waiting
      <3>2. from[i] = p /\ m = arrived[p] + c(i) BY <2>2, <3>1
      <3>3. c(i) <= Cardinality(FromPeer(from, k, p)) BY <1>3, <1>7, <3>2 DEF c
      <3>4. c(i) \in Nat /\ 0 < c(i) BY <2>1
      <3> QED BY <1>6, <1>8, <3>2, <3>3, <3>4
    <2>8. ASSUME NEW i \in 1..k, NEW j \in 1..k, i < j, inbox'[i].peer = inbox'[j].peer
          PROVE  inbox'[i].n < inbox'[j].n
      <3>1. from[i] = from[j] BY <2>2, <2>8
      <3>2. c(i) < c(j) BY <1>3, <1>7, <2>8, <3>1 DEF c
      <3>3. c(i) \in Nat /\ c(j) \in Nat /\ arrived[from[i]] \in Nat BY <1>6, <2>1
      <3>4. arrived[from[i]] + c(i) < arrived[from[i]] + c(j) BY <3>2, <3>3
      <3> QED BY <2>2, <3>1, <3>4
    <2>9. InboxOrder' BY <2>3, <2>8 DEF InboxOrder
    <2>10. Len(inbox') <= BatchSize BY <1>2, <2>6
    <2> QED BY <1>9, <1>10, <2>5, <2>7, <2>9, <2>10 DEF P
  <1> QED BY <1>11, <1>12

LEMMA ReceiveInv == ASSUME UdpInv, NEW from \in Arrivals, Receive(from) PROVE UdpInv'
  <1>1. /\ hand = NoHand
        /\ UNCHANGED <<slot, pc, peer, batch, fresh, hand, serving, stop, exhausted, wire>>
    BY DEF Receive, ShardWaits, tasks
  <1>2. /\ arrived' \in [Peers -> Nat] /\ \A p \in Peers : arrived[p] <= arrived'[p]
        /\ inbox' \in Seq([peer : Peers, n : Numbers]) /\ Len(inbox') <= BatchSize
        /\ \A p \in Peers : \A m \in Waiting(p)' : arrived[p] < m /\ m <= arrived'[p]
        /\ InboxOrder'
    BY NumberFacts
  <1>3. Shapes' BY <1>1, <1>2 DEF UdpInv, Shapes
  <1>4. BoundInv' BY <1>1, <1>2 DEF UdpInv, BoundInv, Entries
  <1>5. OwnInv' BY <1>1 DEF UdpInv, OwnInv
  <1>6. \A p \in Peers : Waiting(p)' \subseteq Nat /\ arrived[p] \in Nat /\ arrived'[p] \in Nat
    <2>1. DOMAIN inbox' = 1..Len(inbox') BY <1>2, LenProperties
    <2>2. \A i \in DOMAIN inbox' : inbox'[i] \in [peer : Peers, n : Numbers] BY <1>2, <2>1, ElementOfSeq
    <2>3. \A p : Waiting(p)' \subseteq Nat BY <2>2 DEF Waiting, Numbers
    <2> QED BY <1>2, <2>3, Facts
  <1>7. ASSUME NEW p \in Peers, NEW A, A \subseteq Nat, UpTo(A, arrived[p])
        PROVE  UpTo(A, arrived'[p]) /\ Below(A, Waiting(p)')
    <2>1. \A a \in A : a \in Nat /\ a <= arrived[p] BY <1>7 DEF UpTo
    <2>2. arrived[p] \in Nat /\ arrived'[p] \in Nat /\ arrived[p] <= arrived'[p] BY <1>2, <1>6
    <2>3. \A m \in Waiting(p)' : m \in Nat /\ arrived[p] < m BY <1>2, <1>6
    <2>4. \A a \in A : a <= arrived'[p] BY <2>1, <2>2
    <2>5. \A a \in A : \A m \in Waiting(p)' : a < m BY <2>1, <2>2, <2>3
    <2> QED BY <2>4, <2>5 DEF UpTo, Below
  <1>8. ASSUME NEW p \in Peers PROVE QueueOrder(p)'
    <2>1. QueueOrder(p) BY DEF UdpInv, OrderInv
    <2>2. Elems(wire[p]) \subseteq Nat /\ Elems(slot[p].pending) \subseteq Nat BY Facts
    <2>3. UpTo(Elems(wire[p]), arrived'[p]) /\ Below(Elems(wire[p]), Waiting(p)')
      BY <1>7, <2>1, <2>2 DEF QueueOrder
    <2>4. UpTo(Elems(slot[p].pending), arrived'[p]) /\ Below(Elems(slot[p].pending), Waiting(p)')
      BY <1>7, <2>1, <2>2 DEF QueueOrder
    <2>5. UpTo(Waiting(p)', arrived'[p]) BY <1>2 DEF UpTo
    <2> QED BY <1>1, <2>1, <2>3, <2>4, <2>5 DEF QueueOrder
  <1>9. ASSUME NEW t \in Tasks PROVE BatchOrder(t)'
    <2>1. BatchOrder(t) BY DEF UdpInv, OrderInv
    <2>2. PICK p \in Peers : p = peer[t] BY Facts
    <2>3. Elems(batch[t]) \subseteq Nat BY Facts
    <2>4. UpTo(Elems(batch[t]), arrived'[p]) /\ Below(Elems(batch[t]), Waiting(p)')
      BY <1>7, <2>1, <2>2, <2>3 DEF BatchOrder
    <2> QED BY <1>1, <2>1, <2>2, <2>4 DEF BatchOrder
  <1>10. OrderInv' BY <1>1, <1>2, <1>8, <1>9 DEF OrderInv, HandOrder
  <1> QED BY <1>3, <1>4, <1>5, <1>10 DEF UdpInv

-----------------------------------------------------------------------------
LEMMA NextInv == UdpInv /\ [Next]_vars => UdpInv'
  <1> SUFFICES ASSUME UdpInv, [Next]_vars PROVE UdpInv' OBVIOUS
  <1>1. CASE \E from \in Arrivals : Receive(from) BY <1>1, ReceiveInv
  <1>2. CASE Dispatch
    <2>1. PICK p : p = Head(inbox).peer OBVIOUS
    <2>2. PICK n : n = Head(inbox).n OBVIOUS
    <2>3. /\ inbox # <<>> /\ hand = NoHand /\ inbox' = Tail(inbox)
          /\ UNCHANGED <<serving, stop, exhausted, clients>>
          /\ \/ DispatchOpen(p, n) \/ DispatchPending(p, n) \/ DispatchDropped(p)
             \/ \E t \in Tasks : DispatchNew(p, n, t)
      BY <1>2, <2>1, <2>2 DEF Dispatch
    <2>4. CASE DispatchOpen(p, n) \/ DispatchDropped(p) BY <2>1, <2>2, <2>3, <2>4, DispatchAsideInv
    <2>5. CASE DispatchPending(p, n) BY <2>1, <2>2, <2>3, <2>5, DispatchPendingInv
    <2>6. CASE \E t \in Tasks : DispatchNew(p, n, t) BY <2>1, <2>2, <2>3, <2>6, DispatchNewInv
    <2> QED BY <2>3, <2>4, <2>5, <2>6
  <1>3. CASE Forward
    BY <1>3, AsideInv, ForwardSentInv, ForwardFailsInv DEF Forward
  <1>4. CASE \E t \in Tasks : Step(t)
    <2> PICK t \in Tasks : Step(t) BY <1>4
    <2>1. CASE ConnectFails(t) \/ PendingFails(t) \/ Close(t) BY <2>1, FinishInv
    <2>2. CASE PendingRefused(t) \/ PendingSent(t) BY <2>2, PendingInv
    <2>3. CASE Take(t) BY <2>3, TakeInv
    <2>4. CASE Connect(t) \/ Reply(t) \/ Breaks(t) \/ Idle(t) \/ Drained(t) \/ Removed(t)
      BY <2>4, AsideInv
    <2> QED BY <2>1, <2>2, <2>3, <2>4 DEF Step
  <1>5. CASE Return \/ Exhaust \/ Raise \/ Stop BY <1>5, AsideInv
  <1>6. CASE UNCHANGED vars
    <2>1. UNCHANGED <<slot, pc, peer, batch, fresh, inbox, hand, serving, stop, exhausted, arrived, wire>>
      BY <1>6 DEF vars, tasks, shard, clients
    <2>2. Shapes' BY <2>1 DEF UdpInv, Shapes
    <2> QED BY <2>1, <2>2, KeptInv
  <1> QED BY <1>1, <1>2, <1>3, <1>4, <1>5, <1>6 DEF Next

LEMMA InvAlways == Spec => []UdpInv
  BY InitInv, NextInv, PTL DEF Spec

LEMMA OrderFollows == UdpInv => InOrder
  BY DEF UdpInv, OrderInv, QueueOrder, InOrder

LEMMA OwnedFollows == UdpInv => EntryOwned
  <1> SUFFICES ASSUME UdpInv PROVE EntryOwned OBVIOUS
  <1>1. TypeOK
    <2>1. \A p \in Peers : /\ slot[p].state \in {"vacant", "opening", "open"}
                           /\ slot[p].pending \in Seq(Numbers) /\ Len(slot[p].pending) <= MaxPending
                           /\ slot[p].task \in Tasks \cup {NoTask}
      BY DEF UdpInv, Shapes, BoundInv, Slots
    <2> QED BY <2>1 DEF UdpInv, Shapes, BoundInv, TypeOK
  <1>2. MapBounded BY DEF UdpInv, BoundInv, MapBounded
  <1>3. ASSUME NEW p \in Peers
        PROVE  LET openers == {t \in Tasks : peer[t] = p /\ pc[t] \in Openers} IN
               /\ Cardinality(openers) = IF slot[p].state = "opening" THEN 1 ELSE 0
               /\ slot[p].state = "open" => peer[slot[p].task] = p /\ pc[slot[p].task] \in Relays
    <2> DEFINE openers == {t \in Tasks : peer[t] = p /\ pc[t] \in Openers}
    <2>1. CASE slot[p].state = "opening"
      <3>1. PICK t \in Tasks : peer[t] = p /\ pc[t] \in Openers BY <2>1 DEF UdpInv, OwnInv
      <3>2. openers = {t} BY <3>1 DEF UdpInv, OwnInv
      <3>3. Cardinality(openers) = 1 BY <3>2, FS_Singleton
      <3> QED BY <2>1, <3>3
    <2>2. CASE slot[p].state # "opening"
      <3>1. openers = {} BY <2>2 DEF UdpInv, OwnInv
      <3>2. Cardinality(openers) = 0 BY <3>1, FS_EmptySet
      <3>3. slot[p].state = "open" => peer[slot[p].task] = p /\ pc[slot[p].task] \in Relays
        BY DEF UdpInv, OwnInv
      <3> QED BY <2>2, <3>2, <3>3
    <2> QED BY <2>1, <2>2
  <1> QED BY <1>1, <1>2, <1>3 DEF EntryOwned

(***************************************************************************)
(* Whatever the clients, the sessions shed or closed late and the bounds,  *)
(* an entry of the map is being opened by exactly one open_session or      *)
(* holds the session of a relay that has yet to remove it, and the map     *)
(* keeps to max_sessions and its queues to MAX_PENDING_PACKETS.            *)
(***************************************************************************)
THEOREM EntriesAreOwned == Spec => []EntryOwned
  BY InvAlways, OwnedFollows, PTL

(***************************************************************************)
(* The datagrams of a client leave in the order they came, none of them    *)
(* twice: through the queue of an opening session, past it once the        *)
(* session is open, and from one session of the client to the next.        *)
(***************************************************************************)
THEOREM DatagramsInOrder == Spec => []InOrder
  BY InvAlways, OrderFollows, PTL
=============================================================================
