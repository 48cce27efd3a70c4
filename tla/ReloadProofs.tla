----------------------------- MODULE ReloadProofs -----------------------------
(***************************************************************************)
(* Proofs about the two halves of a reload: RuleSwitch, which puts a       *)
(* config's rules in force, and ConfigStore, which decides what config is  *)
(* to be in force.                                                         *)
(***************************************************************************)
EXTENDS RuleSwitch, ConfigStore, TLAPS, FiniteSetTheorems, NaturalsInduction,
        WellFoundedInduction

(***************************************************************************)
(* RuleSwitch, for any addresses, any number of shards and any configs     *)
(* that validate accepts, however many rules they have and whichever       *)
(* binds, loads and task ends come between.                                *)
(***************************************************************************)

Accepted == {finalize(c) : c \in Configs} \ {None}

\* Rules that can run side by side.
Proper(specs) ==
    /\ \A r \in specs : r.listen \in Addrs /\ r.protocol \in {"both", "tcp", "udp"}
    /\ \A r, q \in specs : r # q /\ r.listen = q.listen => Kinds(r.protocol) \cap Kinds(q.protocol) = {}

\* The sockets a rule has: one of each of `kinds', at its own address.
Fits(r, socks, kinds) ==
    /\ socks \subseteq Sockets
    /\ \A s \in socks : s.addr = r.listen /\ s.kind \in kinds
    /\ \A k \in kinds : \E s \in socks : s.kind = k
    /\ \A s, t \in socks : s.kind = t.kind => s = t

Preparing == {"tcp", "udp"}
Applying == {"tcp", "udp", "load"}

\* Which rules run, and which have been prepared for the next config.
DomainInv ==
    /\ pc \in {"idle", "tcp", "udp", "load", "flush"}
    /\ current \in Accepted \cup {Nothing}
    /\ pc # "idle" => next \in Accepted
    /\ pc # "flush" => DOMAIN rules = SpecsOf(current) /\ pools = DOMAIN rules
    /\ pc = "flush" => DOMAIN rules = SpecsOf(next)
    /\ at \in Nat \ {0}
    /\ pc \in Preparing =>
         /\ at <= Len(RuleSpecs(next)) + 1
         /\ DOMAIN added = ({RuleSpecs(next)[i] : i \in 1..(at - 1)} \ DOMAIN rules)
                             \cup (IF pc = "udp" THEN {RuleSpecs(next)[at]} ELSE {})
    /\ pc = "udp" => at <= Len(RuleSpecs(next)) /\ RuleSpecs(next)[at] \notin DOMAIN rules
    /\ pc = "load" => DOMAIN added = SpecsOf(next) \ DOMAIN rules
    /\ pc \in {"idle", "flush"} => DOMAIN added = {}

\* What the rule r of `added' has so far.
Ready(r) == IF pc = "udp" /\ r = RuleSpecs(next)[at] THEN Kinds(r.protocol) \cap {"tcp"}
            ELSE Kinds(r.protocol)

\* Who has which socket.
SocketInv ==
    /\ \A r \in DOMAIN rules : Fits(r, rules[r], Kinds(r.protocol))
    /\ \A r \in DOMAIN added : Fits(r, added[r], Ready(r))
    /\ spare \subseteq UNION {rules[r] : r \in DOMAIN rules} /\ (pc \notin Preparing => spare = {})

\* The applies that have been through the switch, which is when a task is stopped.
Switched == IF pc \in Applying THEN applies - 1 ELSE applies

\* An apply binds one socket of an address at most, and stops one task of it.
NumberInv ==
    /\ applies \in 0..MaxApplies /\ (pc # "idle" => applies > 0)
    /\ stopping \in [Sockets -> Nat] /\ \A s \in Sockets : stopping[s] <= Switched
    /\ \A s \in Sockets : stopping[s] > 0 => s.n <= Switched
    /\ \A r \in DOMAIN rules : \A s \in rules[r] : s.n <= Switched
    /\ \A r \in DOMAIN added : \A s \in added[r] : s.n <= applies

SwitchInv == DomainInv /\ SocketInv /\ NumberInv

-----------------------------------------------------------------------------
(***************************************************************************)
(* Configs, kinds and sockets.                                             *)
(***************************************************************************)
LEMMA KindFacts ==
    ASSUME NEW p \in {"both", "tcp", "udp"}
    PROVE  Kinds(p) \subseteq {"tcp", "udp"} /\ Kinds(p) # {}
  BY DEF Kinds

LEMMA AcceptedFacts ==
    ASSUME NEW config \in Accepted
    PROVE  /\ config # Nothing /\ config # None
           /\ Len(RuleSpecs(config)) \in Nat
           /\ SpecsOf(config) = {RuleSpecs(config)[i] : i \in 1..Len(RuleSpecs(config))}
           /\ Proper(SpecsOf(config))
           /\ \A i, j \in 1..Len(RuleSpecs(config)) :
                i # j => RuleSpecs(config)[i] # RuleSpecs(config)[j]
  <1> DEFINE specs == RuleSpecs(config)
  <1>1. /\ config # Nothing
        /\ Len(specs) \in Nat /\ DOMAIN specs = 1..Len(specs)
        /\ \A i \in DOMAIN specs :
             specs[i].listen \in Addrs /\ specs[i].protocol \in {"both", "tcp", "udp"}
        /\ \A i, j \in DOMAIN specs :
             i # j /\ specs[i].listen = specs[j].listen =>
               Kinds(specs[i].protocol) \cap Kinds(specs[j].protocol) = {}
    BY ConfigsAssumption DEF Accepted
  <1>2. SpecsOf(config) = {specs[i] : i \in 1..Len(specs)} BY <1>1 DEF SpecsOf, ToSet
  <1> HIDE DEF specs
  <1>3. Proper(SpecsOf(config))
    <2>1. ASSUME NEW r \in SpecsOf(config), NEW q \in SpecsOf(config), r # q, r.listen = q.listen
          PROVE  Kinds(r.protocol) \cap Kinds(q.protocol) = {}
      <3>1. PICK i \in DOMAIN specs : r = specs[i] BY <1>1, <1>2
      <3>2. PICK j \in DOMAIN specs : q = specs[j] BY <1>1, <1>2
      <3> QED BY <1>1, <2>1, <3>1, <3>2
    <2>2. ASSUME NEW r \in SpecsOf(config)
          PROVE  r.listen \in Addrs /\ r.protocol \in {"both", "tcp", "udp"}
      <3>1. PICK i \in DOMAIN specs : r = specs[i] BY <1>1, <1>2
      <3> QED BY <1>1, <3>1
    <2> QED BY <2>1, <2>2 DEF Proper
  <1>4. ASSUME NEW i \in 1..Len(specs), NEW j \in 1..Len(specs), i # j PROVE specs[i] # specs[j]
    <2>1. i \in DOMAIN specs /\ j \in DOMAIN specs BY <1>1
    <2>2. Kinds(specs[i].protocol) # {} BY <1>1, <2>1, KindFacts
    <2> QED BY <1>1, <1>4, <2>1, <2>2
  <1> QED BY <1>1, <1>2, <1>3, <1>4 DEF specs, Accepted

LEMMA RunningProper == ASSUME DomainInv PROVE Proper(DOMAIN rules)
  <1>1. Proper({}) BY DEF Proper
  <1>2. SpecsOf(Nothing) = {} BY DEF SpecsOf
  <1> QED BY <1>1, <1>2, AcceptedFacts DEF DomainInv

(* Two sockets of one kind at one address. *)
LEMMA SocketFacts ==
    /\ \A s \in Sockets : s.kind \in {"tcp", "udp"} /\ s.addr \in Addrs /\ s.n \in Nat \ {0}
    /\ \A s, t \in Sockets :
         s.kind = t.kind /\ s.addr = t.addr /\ s # t => s.kind = "udp" /\ Shards > 1
  BY ShardsAssumption, MaxAppliesAssumption DEF Sockets

LEMMA FitsUnion ==
    ASSUME NEW r, NEW a, NEW b, NEW kinds \in SUBSET {"tcp", "udp"},
           Fits(r, a, kinds \cap {"tcp"}), Fits(r, b, kinds \cap {"udp"})
    PROVE  Fits(r, a \cup b, kinds)
  BY DEF Fits

(* Two rules that run side by side share no socket. *)
LEMMA NotShared ==
    ASSUME NEW specs, Proper(specs), NEW r \in specs, NEW q \in specs, NEW a, NEW b,
           Fits(r, a, Kinds(r.protocol)), Fits(q, b, Kinds(q.protocol)),
           NEW s \in a, NEW t \in b, s.kind = t.kind, s.addr = t.addr
    PROVE  r = q
  <1>1. s.kind \in Kinds(r.protocol) /\ t.kind \in Kinds(q.protocol) BY DEF Fits
  <1>2. r.listen = q.listen BY DEF Fits
  <1> QED BY <1>1, <1>2 DEF Proper

(* The spare socket of an address is one. *)
LEMMA SpareIsOne ==
    ASSUME SwitchInv, NEW kind, NEW addr, NEW s \in Spare(kind, addr), NEW t \in Spare(kind, addr)
    PROVE  s = t
  <1>1. s \in spare /\ t \in spare /\ s.kind = t.kind /\ s.addr = t.addr BY DEF Spare, At
  <1>2. PICK r \in DOMAIN rules : s \in rules[r] BY <1>1 DEF SwitchInv, SocketInv
  <1>3. PICK q \in DOMAIN rules : t \in rules[q] BY <1>1 DEF SwitchInv, SocketInv
  <1>4. Fits(r, rules[r], Kinds(r.protocol)) /\ Fits(q, rules[q], Kinds(q.protocol))
    BY DEF SwitchInv, SocketInv
  <1>5. Proper(DOMAIN rules) BY RunningProper DEF SwitchInv
  <1>6. r = q BY <1>1, <1>2, <1>3, <1>4, <1>5, NotShared
  <1> QED BY <1>1, <1>2, <1>3, <1>4, <1>6 DEF Fits

(* The least of some sockets. *)
LEMMA LeastSocket ==
    ASSUME NEW free \in SUBSET Sockets, free # {}
    PROVE  \E s \in free : \A t \in free : s.n <= t.n
  <1>1. IsWellFoundedOn(OpToRel(<, Nat), Nat) BY NatLessThanWellFounded
  <1>2. PICK ns : ns = {s.n : s \in free} OBVIOUS
  <1>3. ns \subseteq Nat /\ ns # {} BY <1>2, SocketFacts
  <1>4. PICK i \in ns : \A j \in ns : ~(<<j, i>> \in OpToRel(<, Nat)) BY <1>1, <1>3, WFMin
  <1>5. \A j \in ns : i <= j
    <2> TAKE j \in ns
    <2>1. i \in Nat /\ j \in Nat BY <1>3
    <2>2. ~(j < i) BY <1>4, <2>1 DEF OpToRel
    <2> QED BY <2>1, <2>2
  <1>6. PICK s \in free : s.n = i BY <1>2
  <1> QED BY <1>2, <1>5, <1>6

(* What bind returns for a rule that has no socket of the kind yet. *)
LEMMA FreshFacts ==
    ASSUME SwitchInv, pc \in Preparing, NEW kind \in {"tcp", "udp"}, NEW addr \in Addrs,
           Bindable(kind, addr), \A r \in DOMAIN added : At(added[r], kind, addr) = {}
    PROVE  LET s == Fresh(kind, addr)
           IN  s \in Sockets /\ s.kind = kind /\ s.addr = addr /\ s.n <= applies
  <1> DEFINE free == At(Sockets, kind, addr) \ Open
  <1>1. applies \in Nat /\ applies > 0 /\ applies <= MaxApplies /\ Switched = applies - 1
    BY MaxAppliesAssumption DEF SwitchInv, NumberInv, Switched, Preparing, Applying
  <1>2. \E t \in free : t.n <= applies
    <2>1. CASE At(Open, kind, addr) = {}
      <3>1. PICK t : t = [kind |-> kind, addr |-> addr, n |-> 1] OBVIOUS
      <3>2. t \in Sockets BY <3>1, MaxAppliesAssumption DEF Sockets
      <3>3. t \in At(Sockets, kind, addr) BY <3>1, <3>2 DEF At
      <3>4. t \notin Open BY <2>1, <3>1 DEF At
      <3> QED BY <1>1, <3>1, <3>3, <3>4
    <2>2. CASE kind = "udp" /\ Shards > 1
      <3>1. PICK t : t = [kind |-> "udp", addr |-> addr, n |-> applies] OBVIOUS
      <3>2. t \in Sockets BY <1>1, <2>2, <3>1, MaxAppliesAssumption DEF Sockets
      <3>3. t \in At(Sockets, kind, addr) BY <2>2, <3>1, <3>2 DEF At
      <3>4. t \notin Open
        <4>1. \A r \in DOMAIN rules : t \notin rules[r]
          BY <1>1, <3>1 DEF SwitchInv, NumberInv
        <4>2. ~(stopping[t] > 0) BY <1>1, <3>1, <3>2 DEF SwitchInv, NumberInv
        <4>3. \A r \in DOMAIN added : t \notin added[r] BY <2>2, <3>1 DEF At
        <4>4. t \notin UNION {rules[r] : r \in DOMAIN rules} BY <4>1
        <4>5. t \notin UNION {added[r] : r \in DOMAIN added} BY <4>3
        <4> QED BY <4>2, <4>4, <4>5 DEF Open
      <3> QED BY <1>1, <3>1, <3>3, <3>4
    <2> QED BY <2>1, <2>2 DEF Bindable
  <1>3. free \in SUBSET Sockets BY DEF At
  <1>4. \E s \in free : \A t \in free : s.n <= t.n
    <2>1. free # {} BY <1>2
    <2> HIDE DEF free
    <2> QED BY <1>3, <2>1, LeastSocket
  <1>5. Fresh(kind, addr) = CHOOSE s \in free : \A t \in free : s.n <= t.n BY DEF Fresh
  <1>6. Fresh(kind, addr) \in free /\ \A t \in free : Fresh(kind, addr).n <= t.n
    <2> HIDE DEF free
    <2> QED BY <1>4, <1>5
  <1>7. Fresh(kind, addr).n <= applies
    <2>1. PICK t \in free : t.n <= applies BY <1>2
    <2>2. Fresh(kind, addr).n <= t.n BY <1>6
    <2>3. Fresh(kind, addr).n \in Nat /\ t.n \in Nat BY <1>3, <1>6, SocketFacts
    <2> QED BY <1>1, <2>1, <2>2, <2>3
  <1> QED BY <1>6, <1>7 DEF At

-----------------------------------------------------------------------------
(***************************************************************************)
(* The steps of apply.                                                     *)
(***************************************************************************)
LEMMA InitInv == Init => SwitchInv
  <1> SUFFICES ASSUME Init PROVE SwitchInv OBVIOUS
  <1>1. DOMAIN rules = {} /\ DOMAIN added = {} BY DEF Init
  <1>2. SpecsOf(Nothing) = {} BY DEF SpecsOf
  <1>3. DomainInv BY <1>1, <1>2 DEF Init, DomainInv, Preparing
  <1>4. SocketInv BY <1>1 DEF Init, SocketInv, Preparing
  <1>5. NumberInv BY <1>1, MaxAppliesAssumption DEF Init, NumberInv, Switched, Applying
  <1> QED BY <1>3, <1>4, <1>5 DEF SwitchInv

LEMMA BeginInv ==
    ASSUME SwitchInv, NEW config \in {finalize(c) : c \in Configs}, Begin(config)
    PROVE  SwitchInv'
  <1>1. config \in Accepted BY DEF Begin, Accepted
  <1>2. Len(RuleSpecs(config)) \in Nat BY <1>1, AcceptedFacts
  <1>3. /\ pc = "idle" /\ applies < MaxApplies /\ next' = config /\ at' = 1 /\ pc' = "tcp"
        /\ spare' = UNION {rules[r] : r \in removed(ToSet(RuleSpecs(config)))}
        /\ applies' = applies + 1
        /\ UNCHANGED <<rules, stopping, added, current, pools>>
    BY DEF Begin
  <1>4. DOMAIN added = {} BY <1>3 DEF SwitchInv, DomainInv
  <1>5. DomainInv'
    <2>1. {RuleSpecs(next')[i] : i \in 1..(at' - 1)} = {} BY <1>3
    <2> QED BY <1>1, <1>2, <1>3, <1>4, <2>1 DEF SwitchInv, DomainInv, Preparing
  <1>6. SocketInv' BY <1>3, <1>4 DEF SwitchInv, SocketInv, Preparing, removed
  <1>7. NumberInv'
    <2>1. applies \in Nat /\ Switched = applies /\ Switched' = applies
      BY <1>3, MaxAppliesAssumption DEF SwitchInv, NumberInv, Switched, Applying
    <2> QED BY <1>3, <1>4, <2>1, MaxAppliesAssumption DEF SwitchInv, NumberInv
  <1> QED BY <1>5, <1>6, <1>7 DEF SwitchInv

(* The places before the next one. *)
LEMMA UpTo ==
    ASSUME NEW i \in Nat \ {0}
    PROVE  1..((i + 1) - 1) = (1..(i - 1)) \cup {i}
  OBVIOUS

LEMMA SkipInv == ASSUME SwitchInv, Skip PROVE SwitchInv'
  <1>1. /\ pc \in Preparing /\ at <= Len(RuleSpecs(next)) /\ RuleSpecs(next)[at] \in DOMAIN rules
        /\ at' = at + 1 /\ UNCHANGED <<rules, stopping, pc, next, spare, added, current, pools, applies>>
    BY DEF Skip, Looks, Adds, Preparing
  <1>2. pc = "tcp" BY <1>1 DEF SwitchInv, DomainInv, Preparing
  <1>3. next \in Accepted /\ at \in Nat \ {0} BY <1>2 DEF SwitchInv, DomainInv
  <1>4. Len(RuleSpecs(next)) \in Nat BY <1>3, AcceptedFacts
  <1>5. DomainInv'
    <2>1. 1..(at' - 1) = (1..(at - 1)) \cup {at} BY <1>1, <1>3, UpTo
    <2>2. {RuleSpecs(next)[i] : i \in 1..(at' - 1)} \ DOMAIN rules
            = {RuleSpecs(next)[i] : i \in 1..(at - 1)} \ DOMAIN rules
      BY <1>1, <2>1
    <2>3. at' \in Nat \ {0} /\ at' <= Len(RuleSpecs(next)) + 1 BY <1>1, <1>3, <1>4
    <2> QED BY <1>1, <1>2, <2>2, <2>3 DEF SwitchInv, DomainInv, Preparing
  <1>6. SocketInv' BY <1>1, <1>2 DEF SwitchInv, SocketInv, Ready
  <1>7. NumberInv' BY <1>1 DEF SwitchInv, NumberInv, Switched
  <1> QED BY <1>5, <1>6, <1>7 DEF SwitchInv

(* The rule that apply looks at, and those prepared before it. *)
LEMMA AtHand ==
    ASSUME SwitchInv, Adds
    PROVE  LET spec == RuleSpecs(next)[at]
           IN  /\ pc \in {"tcp", "udp"} /\ next \in Accepted /\ at \in Nat \ {0}
               /\ Len(RuleSpecs(next)) \in Nat /\ at <= Len(RuleSpecs(next))
               /\ spec \in SpecsOf(next) /\ spec \notin DOMAIN rules
               /\ DOMAIN added \subseteq SpecsOf(next)
               /\ spec \in DOMAIN added <=> pc = "udp"
               /\ spec.listen \in Addrs /\ spec.protocol \in {"both", "tcp", "udp"}
  <1> DEFINE specs == RuleSpecs(next)
  <1>1. /\ pc \in {"tcp", "udp"} /\ next \in Accepted /\ at \in Nat \ {0}
        /\ at <= Len(specs) /\ specs[at] \notin DOMAIN rules
        /\ DOMAIN added = ({specs[i] : i \in 1..(at - 1)} \ DOMAIN rules)
                            \cup (IF pc = "udp" THEN {specs[at]} ELSE {})
    BY DEF Adds, Looks, SwitchInv, DomainInv, Preparing
  <1>2. /\ Len(specs) \in Nat /\ SpecsOf(next) = {specs[i] : i \in 1..Len(specs)}
        /\ Proper(SpecsOf(next))
        /\ \A i, j \in 1..Len(specs) : i # j => specs[i] # specs[j]
    BY <1>1, AcceptedFacts
  <1> HIDE DEF specs
  <1>3. at \in 1..Len(specs) /\ \A i \in 1..(at - 1) : i \in 1..Len(specs) /\ i # at BY <1>1, <1>2
  <1>4. specs[at] \in SpecsOf(next) BY <1>2, <1>3
  <1>5. specs[at] \notin {specs[i] : i \in 1..(at - 1)} BY <1>2, <1>3
  <1>6. {specs[i] : i \in 1..(at - 1)} \subseteq SpecsOf(next) BY <1>2, <1>3
  <1>7. specs[at].listen \in Addrs /\ specs[at].protocol \in {"both", "tcp", "udp"}
    BY <1>2, <1>4 DEF Proper
  <1> QED BY <1>1, <1>2, <1>4, <1>5, <1>6, <1>7 DEF specs

(* The sockets a step finds for the rule: none, the spare one or a new one. *)
LEMMA Found ==
    ASSUME SwitchInv, Adds, NEW socks,
           LET addr == RuleSpecs(next)[at].listen
               taken == Spare(pc, addr)
           IN  \/ ~Wants /\ socks = {}
               \/ Wants /\ taken # {} /\ socks = taken
               \/ Wants /\ taken = {} /\ Bindable(pc, addr) /\ socks = {Fresh(pc, addr)}
    PROVE  /\ Fits(RuleSpecs(next)[at], socks, Kinds(RuleSpecs(next)[at].protocol) \cap {pc})
           /\ \A s \in socks : s.n <= applies
  <1>1. PICK spec : spec = RuleSpecs(next)[at] OBVIOUS
  <1>2. PICK addr : addr = spec.listen OBVIOUS
  <1>3. PICK kinds : kinds = Kinds(spec.protocol) OBVIOUS
  <1>4. /\ pc \in {"tcp", "udp"} /\ addr \in Addrs /\ spec \in SpecsOf(next) /\ spec \notin DOMAIN rules
        /\ DOMAIN added \subseteq SpecsOf(next) /\ (spec \in DOMAIN added <=> pc = "udp")
        /\ next \in Accepted
    BY <1>1, <1>2, AtHand
  <1>5. applies \in Nat /\ Switched = applies - 1
    BY <1>4, MaxAppliesAssumption DEF SwitchInv, NumberInv, Switched, Applying
  <1>6. CASE ~Wants /\ socks = {}
    <2>1. kinds \cap {pc} = {} BY <1>1, <1>3, <1>6 DEF Wants
    <2> QED BY <1>1, <1>3, <1>6, <2>1 DEF Fits
  <1>7. CASE Wants /\ Spare(pc, addr) # {} /\ socks = Spare(pc, addr)
    <2>1. kinds \cap {pc} = {pc} BY <1>1, <1>3, <1>7 DEF Wants
    <2>2. \A s \in socks : s \in Sockets /\ s.kind = pc /\ s.addr = addr /\ s.n <= Switched
      <3> TAKE s \in socks
      <3>1. s \in spare /\ s.kind = pc /\ s.addr = addr BY <1>7 DEF Spare, At
      <3>2. PICK r \in DOMAIN rules : s \in rules[r] BY <3>1 DEF SwitchInv, SocketInv
      <3>3. Fits(r, rules[r], Kinds(r.protocol)) BY DEF SwitchInv, SocketInv
      <3>4. s \in Sockets BY <3>2, <3>3 DEF Fits
      <3>5. s.n <= Switched BY <3>2 DEF SwitchInv, NumberInv
      <3> QED BY <3>1, <3>4, <3>5
    <2>3. \A s, t \in socks : s = t BY <1>7, SpareIsOne
    <2>4. \E s \in socks : s.kind = pc BY <1>7, <2>2
    <2>5. Fits(spec, socks, {pc}) BY <1>2, <2>2, <2>3, <2>4 DEF Fits
    <2>6. \A s \in socks : s.n <= applies
      <3> TAKE s \in socks
      <3>1. s.n \in Nat /\ s.n <= Switched BY <2>2, SocketFacts
      <3> QED BY <1>5, <3>1
    <2> QED BY <1>1, <1>3, <2>1, <2>5, <2>6
  <1>8. CASE Wants /\ Bindable(pc, addr) /\ socks = {Fresh(pc, addr)}
    <2>1. kinds \cap {pc} = {pc} BY <1>1, <1>3, <1>8 DEF Wants
    <2>2. ASSUME NEW r \in DOMAIN added, NEW s \in At(added[r], pc, addr) PROVE FALSE
      <3>1. s \in added[r] /\ s.kind = pc /\ s.addr = addr BY DEF At
      <3>2. Fits(r, added[r], Ready(r)) BY DEF SwitchInv, SocketInv
      <3>3. pc \in Ready(r) /\ addr = r.listen BY <3>1, <3>2 DEF Fits
      <3>4. r # spec
        <4>1. CASE pc = "udp" BY <1>1, <3>3, <4>1 DEF Ready
        <4>2. CASE pc # "udp" BY <1>4, <4>2
        <4> QED BY <4>1, <4>2
      <3>5. pc \in Kinds(r.protocol) BY <1>1, <3>3, <3>4 DEF Ready
      <3>6. pc \in Kinds(spec.protocol) BY <1>3, <2>1
      <3>7. Proper(SpecsOf(next)) BY <1>4, AcceptedFacts
      <3> QED BY <1>2, <1>4, <3>3, <3>4, <3>5, <3>6, <3>7 DEF Proper
    <2>3. PICK s : s = Fresh(pc, addr) OBVIOUS
    <2>4. s \in Sockets /\ s.kind = pc /\ s.addr = addr /\ s.n <= applies
      <3>1. \A r \in DOMAIN added : At(added[r], pc, addr) = {} BY <2>2
      <3>2. pc \in Preparing BY <1>4 DEF Preparing
      <3> QED BY <1>4, <1>8, <2>3, <3>1, <3>2, FreshFacts
    <2>5. socks = {s} BY <1>8, <2>3
    <2>6. Fits(spec, socks, {pc}) BY <1>2, <2>4, <2>5 DEF Fits
    <2> QED BY <1>1, <1>3, <2>1, <2>4, <2>5, <2>6
  <1> QED BY <1>1, <1>2, <1>6, <1>7, <1>8

LEMMA PrepareInv == ASSUME SwitchInv, Prepare PROVE SwitchInv'
  <1>1. PICK spec : spec = RuleSpecs(next)[at] OBVIOUS
  <1>2. Adds BY DEF Prepare
  <1>3. /\ pc \in {"tcp", "udp"} /\ next \in Accepted /\ at \in Nat \ {0}
        /\ Len(RuleSpecs(next)) \in Nat /\ at <= Len(RuleSpecs(next))
        /\ spec \in SpecsOf(next) /\ spec \notin DOMAIN rules
        /\ DOMAIN added \subseteq SpecsOf(next) /\ (spec \in DOMAIN added <=> pc = "udp")
        /\ spec.protocol \in {"both", "tcp", "udp"}
    BY <1>1, <1>2, AtHand
  <1>4. /\ spare' = spare \ Spare(pc, spec.listen)
        /\ \/ pc = "tcp" /\ pc' = "udp" /\ at' = at
           \/ pc = "udp" /\ pc' = "tcp" /\ at' = at + 1
        /\ UNCHANGED <<rules, stopping, next, current, pools, applies>>
    BY <1>1 DEF Prepare
  <1>5. \E socks :
          /\ added' = Holding(socks)
          /\ LET addr == RuleSpecs(next)[at].listen
                 taken == Spare(pc, addr)
             IN  \/ ~Wants /\ socks = {}
                 \/ Wants /\ taken # {} /\ socks = taken
                 \/ Wants /\ taken = {} /\ Bindable(pc, addr) /\ socks = {Fresh(pc, addr)}
    BY DEF Prepare
  <1>6. PICK socks : /\ added' = Holding(socks)
                     /\ Fits(spec, socks, Kinds(spec.protocol) \cap {pc})
                     /\ \A s \in socks : s.n <= applies
    BY <1>1, <1>2, <1>5, Found
  <1>7. /\ DOMAIN added' = DOMAIN added \cup {spec}
        /\ added'[spec] = (IF spec \in DOMAIN added THEN added[spec] ELSE {}) \cup socks
        /\ \A r \in DOMAIN added : r # spec => added'[r] = added[r]
    BY <1>1, <1>6 DEF Holding
  <1>8. DomainInv'
    <2>1. CASE pc = "tcp"
      <3>1. DOMAIN added = {RuleSpecs(next)[i] : i \in 1..(at - 1)} \ DOMAIN rules
        BY <2>1 DEF SwitchInv, DomainInv, Preparing
      <3> QED BY <1>1, <1>3, <1>4, <1>7, <2>1, <3>1 DEF SwitchInv, DomainInv, Preparing
    <2>2. CASE pc = "udp"
      <3>1. DOMAIN added = ({RuleSpecs(next)[i] : i \in 1..(at - 1)} \ DOMAIN rules) \cup {spec}
        BY <1>1, <2>2 DEF SwitchInv, DomainInv, Preparing
      <3>2. 1..(at' - 1) = (1..(at - 1)) \cup {at} BY <1>3, <1>4, <2>2, UpTo
      <3>3. {RuleSpecs(next)[i] : i \in 1..(at' - 1)} \ DOMAIN rules = DOMAIN added
        BY <1>1, <1>3, <3>1, <3>2
      <3>4. at' \in Nat \ {0} /\ at' <= Len(RuleSpecs(next)) + 1 BY <1>3, <1>4, <2>2
      <3>5. DOMAIN added' = DOMAIN added BY <1>3, <1>7, <2>2
      <3> QED BY <1>3, <1>4, <2>2, <3>3, <3>4, <3>5 DEF SwitchInv, DomainInv, Preparing
    <2> QED BY <1>3, <2>1, <2>2
  <1>9. SocketInv'
    <2>1. ASSUME NEW r \in DOMAIN added' PROVE Fits(r, added'[r], Ready(r)')
      <3>1. CASE r # spec
        <4>1. r \in DOMAIN added /\ added'[r] = added[r] BY <1>7, <3>1
        <4>2. Ready(r) = Kinds(r.protocol) BY <1>1, <3>1 DEF Ready
        <4>3. Ready(r)' = Kinds(r.protocol) BY <1>1, <1>4, <3>1 DEF Ready
        <4> QED BY <4>1, <4>2, <4>3 DEF SwitchInv, SocketInv
      <3>2. CASE r = spec /\ pc = "tcp"
        <4>1. added'[spec] = socks BY <1>3, <1>7, <3>2
        <4>2. Ready(r)' = Kinds(spec.protocol) \cap {"tcp"} BY <1>1, <1>4, <3>2 DEF Ready
        <4> QED BY <1>6, <3>2, <4>1, <4>2
      <3>3. CASE r = spec /\ pc = "udp"
        <4>1. added'[spec] = added[spec] \cup socks /\ spec \in DOMAIN added BY <1>3, <1>7, <3>3
        <4>2. Ready(r)' = Kinds(spec.protocol) BY <1>4, <3>3 DEF Ready
        <4>3. Ready(spec) = Kinds(spec.protocol) \cap {"tcp"} BY <1>1, <3>3 DEF Ready
        <4>4. Fits(spec, added[spec], Kinds(spec.protocol) \cap {"tcp"})
          BY <4>1, <4>3 DEF SwitchInv, SocketInv
        <4>5. Fits(spec, socks, Kinds(spec.protocol) \cap {"udp"}) BY <1>6, <3>3
        <4>6. Kinds(spec.protocol) \in SUBSET {"tcp", "udp"} BY <1>3, KindFacts
        <4>7. Fits(spec, added[spec] \cup socks, Kinds(spec.protocol)) BY <4>4, <4>5, <4>6, FitsUnion
        <4> QED BY <3>3, <4>1, <4>2, <4>7
      <3> QED BY <1>3, <3>1, <3>2, <3>3
    <2>2. \A r \in DOMAIN rules' : Fits(r, rules'[r], Kinds(r.protocol))
      BY <1>4 DEF SwitchInv, SocketInv
    <2>3. spare' \subseteq UNION {rules'[r] : r \in DOMAIN rules'} BY <1>4 DEF SwitchInv, SocketInv
    <2>4. pc' \in Preparing BY <1>4 DEF Preparing
    <2> QED BY <2>1, <2>2, <2>3, <2>4 DEF SocketInv
  <1>10. NumberInv'
    <2>1. Switched' = Switched BY <1>3, <1>4 DEF Switched, Applying
    <2>2. \A r \in DOMAIN added' : \A s \in added'[r] : s.n <= applies'
      <3> TAKE r \in DOMAIN added'
      <3>1. CASE r # spec BY <1>4, <1>7, <3>1 DEF SwitchInv, NumberInv
      <3>2. CASE r = spec BY <1>4, <1>6, <1>7, <3>2 DEF SwitchInv, NumberInv
      <3> QED BY <3>1, <3>2
    <2> QED BY <1>3, <1>4, <2>1, <2>2 DEF SwitchInv, NumberInv
  <1> QED BY <1>8, <1>9, <1>10 DEF SwitchInv

LEMMA FailInv == ASSUME SwitchInv, pc \in Applying, Fail PROVE SwitchInv'
  <1>1. /\ pc' = "idle" /\ next' = Nothing /\ at' = 1 /\ spare' = {} /\ DOMAIN added' = {}
        /\ UNCHANGED <<rules, stopping, current, pools, applies>>
    BY DEF Fail
  <1>2. DomainInv' BY <1>1 DEF SwitchInv, DomainInv, Preparing, Applying
  <1>3. SocketInv' BY <1>1 DEF SwitchInv, SocketInv
  <1>4. NumberInv'
    <2>1. applies \in Nat /\ Switched = applies - 1 /\ Switched' = applies
      BY <1>1, MaxAppliesAssumption DEF SwitchInv, NumberInv, Switched, Applying
    <2>2. \A s \in Sockets : stopping[s] \in Nat /\ s.n \in Nat
      BY SocketFacts DEF SwitchInv, NumberInv
    <2>3. \A r \in DOMAIN rules : \A s \in rules[r] : s \in Sockets
      BY DEF SwitchInv, SocketInv, Fits
    <2>4. \A s \in Sockets : stopping[s] <= applies /\ (stopping[s] > 0 => s.n <= applies)
      BY <2>1, <2>2 DEF SwitchInv, NumberInv
    <2>5. \A r \in DOMAIN rules : \A s \in rules[r] : s.n <= applies
      BY <2>1, <2>2, <2>3 DEF SwitchInv, NumberInv
    <2> QED BY <1>1, <2>1, <2>4, <2>5 DEF SwitchInv, NumberInv
  <1> QED BY <1>2, <1>3, <1>4 DEF SwitchInv

LEMMA PreparedInv == ASSUME SwitchInv, Prepared PROVE SwitchInv'
  <1>1. /\ pc = "tcp" /\ at > Len(RuleSpecs(next)) /\ pc' = "load" /\ at' = 1 /\ spare' = {}
        /\ UNCHANGED <<rules, stopping, next, added, current, pools, applies>>
    BY DEF Prepared
  <1>2. /\ next \in Accepted /\ at \in Nat \ {0} /\ at <= Len(RuleSpecs(next)) + 1
        /\ DOMAIN added = {RuleSpecs(next)[i] : i \in 1..(at - 1)} \ DOMAIN rules
    BY <1>1 DEF SwitchInv, DomainInv, Preparing
  <1>3. Len(RuleSpecs(next)) \in Nat
        /\ SpecsOf(next) = {RuleSpecs(next)[i] : i \in 1..Len(RuleSpecs(next))}
    BY <1>2, AcceptedFacts
  <1>4. at - 1 = Len(RuleSpecs(next)) BY <1>1, <1>2, <1>3
  <1>5. DOMAIN added = SpecsOf(next) \ DOMAIN rules BY <1>2, <1>3, <1>4
  <1>6. SpecsOf(next)' = SpecsOf(next) /\ SpecsOf(current)' = SpecsOf(current) BY <1>1
  <1>7. DomainInv' BY <1>1, <1>2, <1>5, <1>6 DEF SwitchInv, DomainInv, Preparing
  <1>8. SocketInv' BY <1>1 DEF SwitchInv, SocketInv, Ready
  <1>9. NumberInv'
    <2>1. Switched' = Switched BY <1>1 DEF Switched, Applying
    <2> QED BY <1>1, <2>1 DEF SwitchInv, NumberInv
  <1> QED BY <1>7, <1>8, <1>9 DEF SwitchInv

(* The rules that go have each socket between them once at most. *)
LEMMA HoldersFew ==
    ASSUME SwitchInv, NEW s, NEW gone \in SUBSET DOMAIN rules
    PROVE  LET n == Cardinality({r \in gone : s \in rules[r]})
           IN  /\ n \in {0, 1} /\ (n = 1 => \E r \in gone : s \in rules[r])
               /\ \A q \in DOMAIN rules \ gone : s \in rules[q] => n = 0
  <1> DEFINE H == {r \in gone : s \in rules[r]}
  <1>1. Proper(DOMAIN rules) BY RunningProper DEF SwitchInv
  <1>2. ASSUME NEW r \in DOMAIN rules, NEW q \in DOMAIN rules, s \in rules[r], s \in rules[q] PROVE r = q
    <2>1. Fits(r, rules[r], Kinds(r.protocol)) /\ Fits(q, rules[q], Kinds(q.protocol))
      BY DEF SwitchInv, SocketInv
    <2> QED BY <1>1, <1>2, <2>1, NotShared
  <1>3. CASE H = {} BY <1>3, FS_EmptySet
  <1>4. CASE H # {}
    <2>1. PICK r \in H : TRUE BY <1>4
    <2>2. H = {r} BY <1>2, <2>1
    <2>3. Cardinality({r}) = 1 BY FS_Singleton
    <2>4. \A q \in DOMAIN rules \ gone : s \notin rules[q] BY <1>2, <2>1
    <2> QED BY <2>1, <2>2, <2>3, <2>4
  <1> QED BY <1>3, <1>4

(* What the switch does to the rules and to the tasks. *)
LEMMA SwitchFacts ==
    ASSUME SwitchInv, Switch
    PROVE  /\ pc = "load" /\ next \in Accepted /\ DOMAIN rules' = SpecsOf(next)
           /\ \A r \in DOMAIN rules' :
                \/ r \in DOMAIN rules /\ rules'[r] = rules[r]
                \/ r \in DOMAIN added /\ r \notin DOMAIN rules /\ rules'[r] = added[r]
           /\ \E gone \in SUBSET DOMAIN rules :
                /\ gone \cap DOMAIN rules' = {} /\ gone = DOMAIN rules \ DOMAIN rules'
                /\ stopping' = [s \in Sockets |->
                                  stopping[s] + Cardinality({r \in gone : s \in rules[r]})]
           /\ DOMAIN added' = {} /\ pc' = "flush"
           /\ UNCHANGED <<next, at, spare, current, pools, applies>>
  <1>1. pc = "load" /\ DOMAIN added' = {} /\ pc' = "flush"
        /\ UNCHANGED <<next, at, spare, current, pools, applies>>
    BY DEF Switch
  <1>2. next \in Accepted /\ DOMAIN added = SpecsOf(next) \ DOMAIN rules
    BY <1>1 DEF SwitchInv, DomainInv
  <1>3. SpecsOf(next) = ToSet(RuleSpecs(next)) BY <1>2, AcceptedFacts DEF SpecsOf
  <1>4. PICK gone : gone = DOMAIN rules \ SpecsOf(next) OBVIOUS
  <1>5. /\ rules' = start(DOMAIN rules \ gone)
        /\ stopping' = [s \in Sockets |->
                          stopping[s] + Cardinality({r \in gone : s \in rules[r]})]
    BY <1>3, <1>4 DEF Switch, removed
  <1>6. DOMAIN rules' = (DOMAIN rules \ gone) \cup DOMAIN added
        /\ \A r \in DOMAIN rules' : rules'[r] = IF r \in DOMAIN added THEN added[r] ELSE rules[r]
    BY <1>5 DEF start
  <1>7. DOMAIN rules' = SpecsOf(next) BY <1>2, <1>4, <1>6
  <1>8. gone \in SUBSET DOMAIN rules /\ gone \cap DOMAIN rules' = {} /\ gone = DOMAIN rules \ DOMAIN rules'
    BY <1>4, <1>7
  <1>9. \A r \in DOMAIN rules' :
          \/ r \in DOMAIN rules /\ rules'[r] = rules[r]
          \/ r \in DOMAIN added /\ r \notin DOMAIN rules /\ rules'[r] = added[r]
    BY <1>2, <1>6
  <1> QED BY <1>1, <1>2, <1>5, <1>7, <1>8, <1>9

LEMMA SwitchKeeps == ASSUME SwitchInv, Switch PROVE SwitchInv'
  <1>1. /\ pc = "load" /\ next \in Accepted /\ DOMAIN rules' = SpecsOf(next)
        /\ \A r \in DOMAIN rules' :
             \/ r \in DOMAIN rules /\ rules'[r] = rules[r]
             \/ r \in DOMAIN added /\ r \notin DOMAIN rules /\ rules'[r] = added[r]
        /\ DOMAIN added' = {} /\ pc' = "flush"
        /\ UNCHANGED <<next, at, spare, current, pools, applies>>
    BY SwitchFacts
  <1>2. PICK gone \in SUBSET DOMAIN rules :
          stopping' = [s \in Sockets |-> stopping[s] + Cardinality({r \in gone : s \in rules[r]})]
    BY SwitchFacts
  <1>3. SpecsOf(next)' = SpecsOf(next) BY <1>1
  <1>4. DomainInv' BY <1>1, <1>3 DEF SwitchInv, DomainInv, Preparing
  <1>5. SocketInv'
    <2>1. \A r \in DOMAIN added : Ready(r) = Kinds(r.protocol) BY <1>1 DEF Ready
    <2>2. \A r \in DOMAIN rules' : Fits(r, rules'[r], Kinds(r.protocol))
      BY <1>1, <2>1 DEF SwitchInv, SocketInv
    <2>3. spare = {} BY <1>1 DEF SwitchInv, SocketInv, Preparing
    <2> QED BY <1>1, <2>2, <2>3 DEF SocketInv
  <1>6. NumberInv'
    <2>1. applies \in Nat /\ Switched = applies - 1 /\ Switched' = applies
      BY <1>1, MaxAppliesAssumption DEF SwitchInv, NumberInv, Switched, Applying
    <2>2. ASSUME NEW s \in Sockets
          PROVE  stopping'[s] \in Nat /\ stopping'[s] <= applies /\ (stopping'[s] > 0 => s.n <= applies)
      <3>1. PICK n : n = Cardinality({r \in gone : s \in rules[r]}) OBVIOUS
      <3>2. n \in {0, 1} /\ (n = 1 => \E r \in gone : s \in rules[r]) BY <3>1, HoldersFew
      <3>3. stopping[s] \in Nat /\ stopping[s] <= Switched /\ (stopping[s] > 0 => s.n <= Switched)
        BY DEF SwitchInv, NumberInv
      <3>4. stopping'[s] = stopping[s] + n BY <1>2, <3>1
      <3>5. s.n \in Nat BY SocketFacts
      <3>6. n = 1 => s.n <= Switched BY <3>2 DEF SwitchInv, NumberInv
      <3> QED BY <2>1, <3>2, <3>3, <3>4, <3>5, <3>6
    <2>3. stopping' \in [Sockets -> Nat]
      <3>1. stopping' = [s \in Sockets |-> stopping'[s]] BY <1>2
      <3> QED BY <2>2, <3>1
    <2>4. \A r \in DOMAIN rules' : \A s \in rules'[r] : s.n <= applies
      <3> TAKE r \in DOMAIN rules'
      <3> TAKE s \in rules'[r]
      <3>1. CASE r \in DOMAIN rules /\ rules'[r] = rules[r]
        <4>1. s \in Sockets /\ s.n <= Switched
          BY <3>1 DEF SwitchInv, SocketInv, NumberInv, Fits
        <4>2. s.n \in Nat BY <4>1, SocketFacts
        <4> QED BY <2>1, <4>1, <4>2
      <3>2. CASE r \in DOMAIN added /\ rules'[r] = added[r] BY <3>2 DEF SwitchInv, NumberInv
      <3> QED BY <1>1, <3>1, <3>2
    <2> QED BY <1>1, <2>1, <2>2, <2>3, <2>4 DEF SwitchInv, NumberInv
  <1> QED BY <1>4, <1>5, <1>6 DEF SwitchInv

LEMMA PublishInv == ASSUME SwitchInv, Publish PROVE SwitchInv'
  <1>1. /\ pc = "flush" /\ pools' = DOMAIN rules /\ current' = next /\ pc' = "idle" /\ next' = Nothing
        /\ UNCHANGED <<rules, stopping, at, spare, added, applies>>
    BY DEF Publish
  <1>2. SpecsOf(current') = SpecsOf(next) BY <1>1
  <1>3. DomainInv' BY <1>1, <1>2 DEF SwitchInv, DomainInv, Preparing
  <1>4. SocketInv' BY <1>1 DEF SwitchInv, SocketInv, DomainInv, Preparing
  <1>5. NumberInv' BY <1>1 DEF SwitchInv, NumberInv, Switched, Applying
  <1> QED BY <1>3, <1>4, <1>5 DEF SwitchInv

LEMMA TaskEndsInv == ASSUME SwitchInv, NEW s \in Sockets, TaskEnds(s) PROVE SwitchInv'
  <1>1. /\ stopping[s] > 0 /\ stopping' = [stopping EXCEPT ![s] = @ - 1]
        /\ UNCHANGED <<rules, pc, next, at, spare, added, current, pools, applies>>
    BY DEF TaskEnds
  <1>2. stopping \in [Sockets -> Nat] BY DEF SwitchInv, NumberInv
  <1>3. DomainInv' BY <1>1 DEF SwitchInv, DomainInv, SpecsOf
  <1>4. SocketInv' BY <1>1 DEF SwitchInv, SocketInv, Ready
  <1>5. NumberInv'
    <2>1. \A t \in Sockets : stopping'[t] \in Nat /\ stopping'[t] <= stopping[t] BY <1>1, <1>2
    <2>2. stopping' \in [Sockets -> Nat] BY <1>1, <1>2
    <2>3. Switched' = Switched BY <1>1 DEF Switched
    <2>4. Switched \in Int BY DEF SwitchInv, NumberInv, Switched
    <2>5. \A t \in Sockets : /\ stopping'[t] <= Switched'
                             /\ stopping'[t] > 0 => t.n <= Switched'
      <3> TAKE t \in Sockets
      <3>1. /\ stopping[t] \in Nat /\ stopping[t] <= Switched
            /\ stopping[t] > 0 => t.n <= Switched
        BY DEF SwitchInv, NumberInv
      <3> QED BY <2>1, <2>3, <2>4, <3>1
    <2> QED BY <1>1, <2>2, <2>3, <2>5 DEF SwitchInv, NumberInv
  <1> QED BY <1>3, <1>4, <1>5 DEF SwitchInv

LEMMA NextInv == SwitchInv /\ [Next]_vars => SwitchInv'
  <1> SUFFICES ASSUME SwitchInv, [Next]_vars PROVE SwitchInv' OBVIOUS
  <1>1. ASSUME NEW c \in Configs, Begin(finalize(c)) PROVE SwitchInv'
    <2>1. PICK config \in {finalize(d) : d \in Configs} : config = finalize(c) OBVIOUS
    <2> QED BY <1>1, <2>1, BeginInv
  <1>2. CASE BindFails
    <2>1. pc \in Applying BY <1>2 DEF BindFails, Adds, Looks, Applying
    <2> QED BY <1>2, <2>1, FailInv DEF BindFails
  <1>3. CASE LoadFails BY <1>3, FailInv DEF LoadFails, Applying
  <1>4. CASE UNCHANGED vars
    <2>1. UNCHANGED <<rules, stopping, pc, next, at, spare, added, current, pools, applies>>
      BY <1>4 DEF vars
    <2>2. DomainInv' BY <2>1 DEF SwitchInv, DomainInv, SpecsOf
    <2>3. SocketInv' BY <2>1 DEF SwitchInv, SocketInv, Ready
    <2>4. NumberInv' BY <2>1 DEF SwitchInv, NumberInv, Switched
    <2> QED BY <2>2, <2>3, <2>4 DEF SwitchInv
  <1> QED BY <1>1, <1>2, <1>3, <1>4, SkipInv, PrepareInv, PreparedInv, SwitchKeeps, PublishInv,
             TaskEndsInv DEF Next

LEMMA InvAlways == Spec => []SwitchInv
  BY InitInv, NextInv, PTL DEF Spec

(***************************************************************************)
(* Between two applies the running rules and the pools of the panel are    *)
(* exactly those of the last config that was applied: a reload that cannot *)
(* bind its ninth port, or read the usage of a new user, changes nothing.  *)
(***************************************************************************)
THEOREM ReloadIsAtomic == Spec => []AllOrNothing
  <1>1. SwitchInv => AllOrNothing BY DEF SwitchInv, DomainInv, AllOrNothing
  <1> QED BY <1>1, InvAlways, PTL

(* A rule that fits has as many sockets as kinds. *)
LEMMA FitsCount ==
    ASSUME NEW r, r.protocol \in {"both", "tcp", "udp"}, NEW socks,
           Fits(r, socks, Kinds(r.protocol))
    PROVE  /\ {s.kind : s \in socks} = Kinds(r.protocol)
           /\ Cardinality(socks) = Cardinality(Kinds(r.protocol))
  <1>1. {s.kind : s \in socks} = Kinds(r.protocol) BY DEF Fits
  <1>2. \A x : Cardinality({x}) = 1 BY FS_Singleton
  <1>3. ASSUME NEW x, NEW y, x # y PROVE Cardinality({x, y}) = 2
    <2>1. IsFiniteSet({x}) /\ Cardinality({x}) = 1 BY FS_Singleton
    <2>2. Cardinality({x} \cup {y}) = IF y \in {x} THEN Cardinality({x}) ELSE Cardinality({x}) + 1
      BY <2>1, FS_AddElement
    <2>3. {x} \cup {y} = {x, y} /\ y \notin {x} BY <1>3
    <2> QED BY <2>1, <2>2, <2>3
  <1>4. ASSUME NEW k, Kinds(r.protocol) = {k} PROVE Cardinality(socks) = Cardinality(Kinds(r.protocol))
    <2>1. PICK s \in socks : s.kind = k BY <1>4 DEF Fits
    <2>2. socks = {s} BY <1>4, <2>1 DEF Fits
    <2> QED BY <1>2, <1>4, <2>2
  <1>5. CASE Kinds(r.protocol) = {"tcp", "udp"}
    <2>1. PICK s \in socks : s.kind = "tcp" BY <1>5 DEF Fits
    <2>2. PICK t \in socks : t.kind = "udp" BY <1>5 DEF Fits
    <2>3. socks = {s, t} /\ s # t BY <1>5, <2>1, <2>2 DEF Fits
    <2>4. Cardinality(socks) = 2 BY <1>3, <2>3
    <2>5. Cardinality({"tcp", "udp"}) = 2 BY <1>3
    <2> QED BY <1>1, <1>5, <2>4, <2>5
  <1>6. Kinds(r.protocol) \in {{"tcp"}, {"udp"}, {"tcp", "udp"}} BY DEF Kinds
  <1> QED BY <1>1, <1>4, <1>5, <1>6

LEMMA TypeFromInv == SwitchInv => TypeOK
  <1> SUFFICES ASSUME SwitchInv PROVE TypeOK OBVIOUS
  <1>1. \A r \in DOMAIN rules : rules[r] \subseteq Sockets BY DEF SwitchInv, SocketInv, Fits
  <1>2. \A r \in DOMAIN added : added[r] \subseteq Sockets BY DEF SwitchInv, SocketInv, Fits
  <1>3. applies \in 0..MaxApplies /\ Switched \in Int /\ Switched <= MaxApplies
    BY MaxAppliesAssumption DEF SwitchInv, NumberInv, Switched
  <1>4. stopping \in [Sockets -> 0..MaxApplies]
    <2>1. \A s \in Sockets : stopping[s] \in 0..MaxApplies
      <3> TAKE s \in Sockets
      <3>1. stopping[s] \in Nat /\ stopping[s] <= Switched BY DEF SwitchInv, NumberInv
      <3> QED BY <1>3, <3>1, MaxAppliesAssumption
    <2> QED BY <2>1 DEF SwitchInv, NumberInv
  <1>5. spare \subseteq Open BY DEF SwitchInv, SocketInv, Open
  <1>6. Open \subseteq Sockets
    <2>1. UNION {rules[r] : r \in DOMAIN rules} \subseteq Sockets BY <1>1
    <2>2. UNION {added[r] : r \in DOMAIN added} \subseteq Sockets BY <1>2
    <2> QED BY <2>1, <2>2 DEF Open
  <1>7. \A s, t \in Open : s.kind = t.kind /\ s.addr = t.addr /\ s # t => s.kind = "udp" /\ Shards > 1
    BY <1>6, SocketFacts
  <1> QED BY <1>1, <1>2, <1>3, <1>4, <1>5, <1>7 DEF SwitchInv, DomainInv, TypeOK

(***************************************************************************)
(* However sockets are handed from removed to added rules, and bound in    *)
(* between, every running rule has one socket of each kind it needs, at    *)
(* its own address, and shares none.                                       *)
(***************************************************************************)
THEOREM EveryRuleListens == Spec => []RulesHaveSockets
  <1>1. SwitchInv => RulesHaveSockets
    <2> SUFFICES ASSUME SwitchInv PROVE RulesHaveSockets OBVIOUS
    <2>1. Proper(DOMAIN rules) BY RunningProper DEF SwitchInv
    <2>2. \A r \in DOMAIN rules : Fits(r, rules[r], Kinds(r.protocol)) BY DEF SwitchInv, SocketInv
    <2>3. ASSUME NEW r \in DOMAIN rules
          PROVE  /\ {s.kind : s \in rules[r]} = Kinds(r.protocol)
                 /\ Cardinality(rules[r]) = Cardinality(Kinds(r.protocol))
                 /\ \A s \in rules[r] : s.addr = r.listen
      <3>1. r.protocol \in {"both", "tcp", "udp"} BY <2>1 DEF Proper
      <3>2. \A s \in rules[r] : s.addr = r.listen BY <2>2 DEF Fits
      <3>3. PICK socks : socks = rules[r] OBVIOUS
      <3>4. /\ {s.kind : s \in socks} = Kinds(r.protocol)
            /\ Cardinality(socks) = Cardinality(Kinds(r.protocol))
        BY <2>2, <3>1, <3>3, FitsCount
      <3> QED BY <3>2, <3>3, <3>4
    <2>4. ASSUME NEW r \in DOMAIN rules, NEW q \in DOMAIN rules, r # q PROVE rules[r] \cap rules[q] = {}
      <3>1. ASSUME NEW s \in rules[r], s \in rules[q] PROVE FALSE
        BY <2>1, <2>2, <2>4, <3>1, NotShared
      <3> QED BY <3>1
    <2> QED BY <2>3, <2>4, TypeFromInv DEF RulesHaveSockets
  <1> QED BY <1>1, InvAlways, PTL

(***************************************************************************)
(* No step of a reload touches a rule that stays: it keeps its sockets,    *)
(* and none of its tasks is told to stop.                                  *)
(***************************************************************************)
THEOREM UnchangedRulesLive == Spec => UnchangedUntouched
  <1> DEFINE Live == \A r \in DOMAIN rules : r \in DOMAIN rules' =>
                       rules'[r] = rules[r] /\ \A s \in rules[r] : stopping'[s] <= stopping[s]
  <1>1. ASSUME SwitchInv, [Next]_vars PROVE Live \/ UNCHANGED vars
    <2>0. /\ stopping \in [Sockets -> Nat]
          /\ \A r \in DOMAIN rules : \A s \in rules[r] : s \in Sockets /\ stopping[s] \in Nat
      BY <1>1 DEF SwitchInv, SocketInv, NumberInv, Fits
    <2>1. CASE UNCHANGED <<rules, stopping>> BY <2>0, <2>1
    <2>2. CASE Switch
      <3>1. \A r \in DOMAIN rules' :
              \/ r \in DOMAIN rules /\ rules'[r] = rules[r]
              \/ r \in DOMAIN added /\ r \notin DOMAIN rules /\ rules'[r] = added[r]
        BY <1>1, <2>2, SwitchFacts
      <3>2. PICK gone \in SUBSET DOMAIN rules :
              /\ gone \cap DOMAIN rules' = {}
              /\ stopping' = [s \in Sockets |->
                                stopping[s] + Cardinality({r \in gone : s \in rules[r]})]
        BY <1>1, <2>2, SwitchFacts
      <3>3. ASSUME NEW r \in DOMAIN rules, r \in DOMAIN rules', NEW s \in rules[r]
            PROVE  stopping'[s] <= stopping[s]
        <4>1. r \in DOMAIN rules \ gone BY <3>2, <3>3
        <4>2. Cardinality({q \in gone : s \in rules[q]}) = 0 BY <1>1, <4>1, HoldersFew
        <4> QED BY <2>0, <3>2, <4>2
      <3> QED BY <3>1, <3>3
    <2>3. CASE \E s \in Sockets : TaskEnds(s)
      <3>1. PICK s \in Sockets : TaskEnds(s) BY <2>3
      <3>2. rules' = rules /\ stopping' = [stopping EXCEPT ![s] = @ - 1] BY <3>1 DEF TaskEnds
      <3>3. \A t \in Sockets : stopping'[t] <= stopping[t] BY <2>0, <3>2
      <3> QED BY <2>0, <3>2, <3>3
    <2> QED BY <1>1, <2>1, <2>2, <2>3 DEF Next, vars, Begin, Skip, Prepare, BindFails, Prepared, LoadFails,
               Fail, Publish
  <1> QED BY <1>1, InvAlways, PTL DEF Spec, UnchangedUntouched

(***************************************************************************)
(* ConfigStore, for any files, edits and pages, whichever configs are      *)
(* accepted and however often the file is changed, a page saves and the    *)
(* process restarts.                                                       *)
(***************************************************************************)

Saving == {"write", "apply", "undo"}
OneOf(S) == {<<>>} \cup {<<x>> : x \in S}
PageTypes == [state : {"blank", "loaded", "waiting"}, revision : Nat, config : SUBSET Accepts,
              boot : Nat, edit : SUBSET Edits]

Shapes ==
    /\ {file, file_raw, last, seen} \subseteq Files
    /\ {store, previous} \subseteq Stores
    /\ {up, spoiled, rejected} \subseteq BOOLEAN /\ boots \in 0..MaxBoots
    /\ live \in [config : Accepts, revision : Nat, from_panel : BOOLEAN]
    /\ {running, mcfg} \subseteq Accepts
    /\ wpc \in {"idle", "settle", "send"}
    /\ mpc \in {"idle", "reload", "drop"} \cup Saving
    /\ changes \in OneOf(Files) /\ saves \in OneOf(Pages)
    /\ mpage \in Pages /\ page \in [Pages -> PageTypes]
    /\ count \in [edits : 0..MaxEdits, saves : 0..MaxSaves]

\* A page waits while its save is in the channel or in hand, and has an edit.
WaitInv ==
    /\ \A p \in Pages :
         /\ page[p].state = "waiting" <=> saves = <<p>> \/ (mpage = p /\ mpc \in Saving)
         /\ page[p].state = "waiting" => page[p].edit # {}
    /\ mpc \in Saving => saves # <<mpage>>

\* What the main task has in hand.
HandInv ==
    /\ ~up => mpc = "idle" /\ saves = <<>>
    /\ up => running = IF mpc = "drop" THEN mcfg ELSE live.config
    /\ mpc \in {"reload", "drop"} => mcfg = FileConfig(file_raw)
    /\ mpc \in Saving => mcfg.rest = live.config.rest /\ mcfg.users \in Edits
    /\ mpc = "apply" => store = [base |-> file_raw, users |-> mcfg.users]
    /\ mpc = "undo" => previous # NoStore
    /\ up /\ ~live.from_panel => live.config = FileConfig(live.config.rest)
    /\ up /\ ~rejected /\ mpc \notin {"reload", "drop"} => file_raw = live.config.rest

\* What the store s has, if it is the one that belongs to the published config.
Belongs(s) ==
    IF live.from_panel
    THEN /\ s \notin {NoStore, Torn} /\ s.users = live.config.users
         /\ rejected \/ s.base = live.config.rest
    ELSE s \in {NoStore, Torn}

\* The store in hand during a save may be missing because it could not be read.
StoreInv ==
    up /\ ~spoiled =>
      /\ mpc \notin {"apply", "undo"} => Belongs(store)
      /\ mpc \in Saving => previous = NoStore \/ Belongs(previous)

\* A page that has loaded the published revision has the published config.
PageInv ==
    \A p \in Pages :
      /\ page[p].boot <= boots
      /\ page[p].boot = boots /\ page[p].state # "blank" =>
           /\ page[p].revision <= live.revision
           /\ page[p].revision = live.revision => page[p].config = {live.config}

ConfigInv == Shapes /\ WaitInv /\ HandInv /\ StoreInv /\ PageInv

-----------------------------------------------------------------------------
(* An accepted config is some file's, with the users of that file or of an edit. *)
LEMMA ConfigFacts ==
    /\ \A c \in Accepts : c.rest \in Files /\ c.users \in Files \cup Edits /\ c = Config(c.rest, c.users)
    /\ \A f, x : Config(f, x).rest = f /\ Config(f, x).users = x
    /\ \A f : FileConfig(f).rest = f /\ FileConfig(f).users = f
    /\ FirstPage \in Pages
  <1>1. FirstPage \in Pages BY StoreAssumption DEF FirstPage
  <1> QED BY <1>1, PartsAssumption DEF Config, FileConfig

(* A store is one of the three. *)
LEMMA StoreFacts ==
    /\ NoStore \in Stores /\ Torn \in Stores
    /\ \A f \in Files, x \in Edits : /\ [base |-> f, users |-> x] \in Stores
                                     /\ [base |-> f, users |-> x] \notin {NoStore, Torn}
    /\ \A s \in Stores : s \notin {NoStore, Torn} => s.base \in Files /\ s.users \in Edits
  <1>1. \A f \in Files, x \in Edits : [base |-> f, users |-> x] \in [base : Files, users : Edits]
    OBVIOUS
  <1> QED BY <1>1, StoreAssumption DEF Stores

(* What a start makes of what it has read, and leaves of the store. *)
LEMMA RestoreFacts ==
    ASSUME NEW f \in Files, NEW s \in Stores, parses(f), NEW r \in load_store(s), NEW k \in Kept(f, s, r)
    PROVE  /\ r \in Stores /\ k \in Stores
           /\ Restored(f, r) \in Accepts /\ Restored(f, r).rest = f
           /\ Usable(f, r) \in BOOLEAN
           /\ Usable(f, r) => /\ k = r /\ r \notin {NoStore, Torn}
                              /\ r.users = Restored(f, r).users /\ r.base = f
           /\ ~Usable(f, r) => Restored(f, r) = FileConfig(f)
  <1>1. r \in {s, Torn} /\ r \in Stores BY StoreFacts DEF load_store
  <1>2. k \in {s, NoStore} /\ k \in Stores BY StoreFacts DEF Kept, remove_store
  <1>5. Usable(f, r) \in BOOLEAN BY DEF Usable
  <1>3. CASE Usable(f, r)
    <2>1. r # Torn /\ r = s BY <1>1, <1>3 DEF Usable
    <2>2. k = s BY <1>3 DEF Kept
    <2> QED BY <1>1, <1>2, <1>3, <2>1, <2>2, ConfigFacts, StoreFacts DEF Restored, Usable
  <1>4. CASE ~Usable(f, r)
    <2>1. Restored(f, r) = FileConfig(f) BY <1>4 DEF Restored
    <2>2. Restored(f, r) \in Accepts /\ Restored(f, r).rest = f BY <2>1, ConfigFacts DEF parses
    <2> QED BY <1>1, <1>2, <1>5, <1>4, <2>1, <2>2
  <1> QED BY <1>3, <1>4, <1>5

LEMMA Facts ==
    ASSUME ConfigInv
    PROVE  /\ {file, file_raw, last, seen} \subseteq Files /\ {store, previous} \subseteq Stores
           /\ {up, spoiled, rejected, live.from_panel} \subseteq BOOLEAN
           /\ boots \in Nat /\ live.revision \in Nat /\ MaxBoots \in Nat
           /\ {running, mcfg, live.config} \subseteq Accepts
           /\ mpage \in Pages
           /\ \A p \in Pages : /\ page[p] \in PageTypes /\ page[p].boot \in Nat
                               /\ page[p].revision \in Nat /\ page[p].edit \subseteq Edits
  BY BoundsAssumption DEF ConfigInv, Shapes, PageTypes

LEMMA StoreInitInv == StoreInit => ConfigInv
  <1> SUFFICES ASSUME StoreInit PROVE ConfigInv OBVIOUS
  <1> USE DEF StoreInit
  <1>0. {MaxEdits, MaxSaves, MaxBoots} \subseteq Nat BY BoundsAssumption
  <1>1. Blank \in PageTypes /\ Blank.state = "blank" /\ Blank.boot = 0 BY DEF Blank, PageTypes
  <1>2. FileConfig(file) \in Accepts BY DEF parses
  <1>3. Shapes
    <2>1. page \in [Pages -> PageTypes] BY <1>1
    <2>2. boots \in 0..MaxBoots BY <1>0
    <2>3. count \in [edits : 0..MaxEdits, saves : 0..MaxSaves] BY <1>0
    <2>4. live \in [config : Accepts, revision : Nat, from_panel : BOOLEAN] BY <1>2
    <2>5. changes \in OneOf(Files) /\ saves \in OneOf(Pages) BY DEF OneOf
    <2>6. {file, file_raw, last, seen} \subseteq Files /\ {store, previous} \subseteq Stores
      BY StoreFacts
    <2>7. {running, mcfg} \subseteq Accepts /\ mpage \in Pages BY <1>2, ConfigFacts
    <2> QED BY <2>1, <2>2, <2>3, <2>4, <2>5, <2>6, <2>7 DEF Shapes
  <1>4. WaitInv BY <1>1 DEF WaitInv, Saving
  <1>5. HandInv BY ConfigFacts DEF HandInv, Saving
  <1>6. StoreInv BY ConfigFacts DEF StoreInv, Belongs, Saving
  <1>7. PageInv BY <1>1 DEF PageInv
  <1> QED BY <1>3, <1>4, <1>5, <1>6, <1>7 DEF ConfigInv

(* A start takes the file and the store as they are. *)
LEMMA BootInv == ASSUME ConfigInv, Boot PROVE ConfigInv'
  <1>0. PICK r \in load_store(store) :
           /\ store' \in Kept(file, store, r)
           /\ spoiled' = (~Usable(file, r) /\ Stray(store'))
           /\ Started(file, r)
    BY DEF Boot
  <1> DEFINE c == Restored(file, r)
  <1>1. /\ ~up /\ mpc = "idle" /\ saves = <<>> /\ saves' = <<>> /\ changes' = <<>> /\ up' = TRUE
        /\ live' = [config |-> c, revision |-> 0, from_panel |-> Usable(file, r)]
        /\ running' = c /\ mcfg' = c /\ mpc' = "idle" /\ mpage' = FirstPage /\ previous' = NoStore
        /\ file_raw' = file /\ rejected' = FALSE /\ last' = file /\ seen' = file /\ wpc' = "idle"
        /\ boots' = boots + 1 /\ boots < MaxBoots /\ UNCHANGED <<file, page, count>>
        /\ parses(file)
    BY <1>0 DEF Boot, Started, Rest, ConfigInv, HandInv
  <1>2. /\ c \in Accepts /\ c.rest = file /\ Usable(file, r) \in BOOLEAN
        /\ store' \in Stores
        /\ Usable(file, r) => store' \notin {NoStore, Torn} /\ store'.users = c.users
                              /\ store'.base = file
        /\ ~Usable(file, r) => c = FileConfig(file)
        /\ spoiled' \in BOOLEAN
        /\ ~Usable(file, r) /\ ~spoiled' => store' \in {NoStore, Torn}
    BY <1>0, <1>1, RestoreFacts, Facts DEF Stray
  <1> HIDE DEF c
  <1>3. Shapes'
    <2>1. boots' \in 0..MaxBoots BY <1>1, Facts
    <2>2. {file', file_raw', last', seen'} \subseteq Files BY <1>1 DEF Shapes, ConfigInv
    <2>3. {store', previous'} \subseteq Stores BY <1>1, <1>2, StoreFacts
    <2>4. live' \in [config : Accepts, revision : Nat, from_panel : BOOLEAN] BY <1>1, <1>2
    <2>5. {running', mcfg'} \subseteq Accepts /\ mpage' \in Pages BY <1>1, <1>2, ConfigFacts
    <2>6. {up', spoiled', rejected'} \subseteq BOOLEAN BY <1>1, <1>2
    <2>7. changes' \in OneOf(Files) /\ saves' \in OneOf(Pages) BY <1>1 DEF OneOf
    <2>8. wpc' \in {"idle", "settle", "send"} /\ mpc' \in {"idle", "reload", "drop"} \cup Saving
      BY <1>1
    <2>9. page' \in [Pages -> PageTypes] /\ count' \in [edits : 0..MaxEdits, saves : 0..MaxSaves]
      BY <1>1 DEF Shapes, ConfigInv
    <2> QED BY <2>1, <2>2, <2>3, <2>4, <2>5, <2>6, <2>7, <2>8, <2>9 DEF Shapes
  <1>4. WaitInv' BY <1>1 DEF WaitInv, ConfigInv, Saving
  <1>5. HandInv' BY <1>1, <1>2 DEF HandInv, Saving
  <1>6. StoreInv' BY <1>1, <1>2 DEF StoreInv, Belongs, Saving
  <1>7. PageInv'
    <2>1. \A p \in Pages : page[p].boot \in Nat /\ page[p].boot <= boots /\ boots \in Nat
      BY Facts DEF ConfigInv, PageInv
    <2> QED BY <1>1, <2>1 DEF PageInv
  <1> QED BY <1>3, <1>4, <1>5, <1>6, <1>7 DEF ConfigInv

(* A start that fails has at most dropped a store that does not count. *)
LEMMA BootFailsInv == ASSUME ConfigInv, BootFails PROVE ConfigInv'
  <1>0. PICK r \in load_store(store) : store' \in Kept(file, store, r) BY DEF BootFails
  <1>1. ~up /\ parses(file)
        /\ UNCHANGED <<file, spoiled, up, boots, live, running, file_raw, rejected, last, seen, wpc,
                       changes, saves, mpc, mcfg, mpage, previous, page, count>>
    BY DEF BootFails, process, watcher, main
  <1>2. store' \in Stores BY <1>0, <1>1, RestoreFacts, Facts
  <1>3. mpc = "idle" BY <1>1 DEF ConfigInv, HandInv
  <1>4. Shapes' BY <1>1, <1>2 DEF Shapes, ConfigInv
  <1>5. WaitInv' BY <1>1 DEF WaitInv, ConfigInv
  <1>6. HandInv' BY <1>1, <1>3 DEF HandInv, ConfigInv
  <1>7. StoreInv' BY <1>1 DEF StoreInv
  <1>8. PageInv' BY <1>1 DEF PageInv, ConfigInv
  <1> QED BY <1>4, <1>5, <1>6, <1>7, <1>8 DEF ConfigInv

(* After a crash no page waits and nothing is in hand. *)
LEMMA CrashInv == ASSUME ConfigInv, Crash PROVE ConfigInv'
  <1>1. /\ up' = FALSE /\ wpc' = "idle" /\ changes' = <<>> /\ saves' = <<>>
        /\ mpc' = "idle" /\ mcfg' = running /\ mpage' = FirstPage /\ previous' = NoStore
        /\ UNCHANGED <<file, store, spoiled, boots, live, running, file_raw, rejected, last, seen, count>>
    BY DEF Crash, Rest
  <1>2. page' = [p \in Pages |-> IF page[p].state = "waiting"
                                 THEN [page[p] EXCEPT !.state = "loaded"] ELSE page[p]]
    BY DEF Crash
  <1>3. \A p \in Pages : /\ page'[p] \in PageTypes /\ page'[p].state # "waiting"
                         /\ (page'[p].state = "blank") = (page[p].state = "blank")
                         /\ page'[p].boot = page[p].boot /\ page'[p].revision = page[p].revision
                         /\ page'[p].config = page[p].config
    <2> TAKE p \in Pages
    <2>1. page[p] \in PageTypes BY Facts
    <2> QED BY <1>2, <2>1 DEF PageTypes
  <1>4. page' \in [Pages -> PageTypes] BY <1>2, <1>3
  <1>5. Shapes' BY <1>1, <1>4, ConfigFacts, StoreFacts DEF Shapes, ConfigInv, OneOf
  <1>6. WaitInv' BY <1>1, <1>3 DEF WaitInv, Saving
  <1>7. HandInv' BY <1>1 DEF HandInv, Saving
  <1>8. StoreInv' BY <1>1 DEF StoreInv
  <1>9. PageInv' BY <1>1, <1>3 DEF PageInv, ConfigInv
  <1> QED BY <1>5, <1>6, <1>7, <1>8, <1>9 DEF ConfigInv

(* The operator's edits, and what the watcher makes of them until it sends. *)
LEMMA WatchInv ==
    ASSUME ConfigInv, (\E f \in Files : Edit(f)) \/ Watch
    PROVE  ConfigInv'
  <1>1. UNCHANGED <<store, spoiled, up, boots, live, running, file_raw, rejected, saves,
                    mpc, mcfg, mpage, previous, page>>
    BY DEF Edit, Watch, Poll, Settle, Send, rest, main, process
  <1>2. /\ {file', last', seen'} \subseteq Files /\ wpc' \in {"idle", "settle", "send"}
        /\ changes' \in OneOf(Files)
        /\ count' \in [edits : 0..MaxEdits, saves : 0..MaxSaves]
    <2> USE DEF ConfigInv, Shapes
    <2>1. CASE \E f \in Files : Edit(f)
      <3>1. PICK f \in Files : Edit(f) BY <2>1
      <3>2. count' = [count EXCEPT !.edits = @ + 1] /\ count.edits < MaxEdits BY <3>1 DEF Edit
      <3>3. count' \in [edits : 0..MaxEdits, saves : 0..MaxSaves] BY <3>2, BoundsAssumption
      <3> QED BY <3>1, <3>3 DEF Edit, process, watcher
    <2>2. CASE Poll BY <2>2 DEF Poll, rest
    <2>3. CASE Settle BY <2>3 DEF Settle, rest
    <2>4. CASE Send BY <2>4 DEF Send, rest, OneOf
    <2> QED BY <2>1, <2>2, <2>3, <2>4 DEF Watch
  <1>3. Shapes' BY <1>1, <1>2 DEF Shapes, ConfigInv
  <1>4. WaitInv' BY <1>1 DEF WaitInv, ConfigInv
  <1>5. HandInv' BY <1>1 DEF HandInv, ConfigInv
  <1>6. StoreInv' BY <1>1 DEF StoreInv, Belongs, ConfigInv
  <1>7. PageInv' BY <1>1 DEF PageInv, ConfigInv
  <1> QED BY <1>3, <1>4, <1>5, <1>6, <1>7 DEF ConfigInv

-----------------------------------------------------------------------------
(* The main task takes a change of the file: it parses, or is rejected. *)
LEMMA ReloadBeginInv == ASSUME ConfigInv, ReloadBegin PROVE ConfigInv'
  <1>1. /\ up /\ mpc = "idle" /\ changes' = <<>> /\ file_raw' = Head(changes) /\ changes # <<>>
        /\ IF parses(Head(changes))
           THEN mpc' = "reload" /\ mcfg' = FileConfig(Head(changes)) /\ UNCHANGED rejected
           ELSE rejected' = TRUE /\ UNCHANGED <<mpc, mcfg>>
        /\ UNCHANGED <<file, store, spoiled, up, boots, live, running, last, seen, wpc, saves,
                       mpage, previous, page, count>>
    BY DEF ReloadBegin, Idle, watcher
  <1>2. file_raw' \in Files BY <1>1 DEF ConfigInv, Shapes, OneOf
  <1>3. Shapes'
    <2>1. changes' \in OneOf(Files) BY <1>1 DEF OneOf
    <2>2. mcfg' \in Accepts BY <1>1, Facts DEF parses
    <2> QED BY <1>1, <1>2, <2>1, <2>2 DEF Shapes, ConfigInv
  <1>4. WaitInv' BY <1>1 DEF WaitInv, ConfigInv, Saving
  <1>5. HandInv' BY <1>1 DEF HandInv, ConfigInv, Saving
  <1>6. StoreInv' BY <1>1 DEF StoreInv, Belongs, ConfigInv, Saving
  <1>7. PageInv' BY <1>1 DEF PageInv, ConfigInv
  <1> QED BY <1>3, <1>4, <1>5, <1>6, <1>7 DEF ConfigInv

(* The runtime applies the file's config, or refuses it whole. *)
LEMMA ReloadAppliesInv == ASSUME ConfigInv, ReloadApplies PROVE ConfigInv'
  <1>1. /\ up /\ mpc = "reload" /\ running' = mcfg /\ mpc' = "drop"
        /\ UNCHANGED <<file, store, spoiled, up, boots, live, file_raw, rejected, last, seen, wpc,
                       changes, saves, mcfg, mpage, previous, page, count>>
    BY DEF ReloadApplies, watcher
  <1>3. Shapes' BY <1>1 DEF Shapes, ConfigInv
  <1>4. WaitInv' BY <1>1 DEF WaitInv, ConfigInv, Saving
  <1>5. HandInv' BY <1>1 DEF HandInv, ConfigInv, Saving
  <1>6. StoreInv' BY <1>1 DEF StoreInv, Belongs, ConfigInv, Saving
  <1>7. PageInv' BY <1>1 DEF PageInv, ConfigInv
  <1> QED BY <1>3, <1>4, <1>5, <1>6, <1>7 DEF ConfigInv

LEMMA ReloadFailsInv == ASSUME ConfigInv, ReloadFails PROVE ConfigInv'
  <1>1. /\ up /\ mpc = "reload" /\ rejected' = TRUE
        /\ mpc' = "idle" /\ mcfg' = running /\ mpage' = FirstPage /\ previous' = NoStore
        /\ UNCHANGED <<file, store, spoiled, up, boots, live, running, file_raw, last, seen, wpc,
                       changes, saves, page, count>>
    BY DEF ReloadFails, Rest, watcher
  <1>3. Shapes' BY <1>1, ConfigFacts, StoreFacts DEF Shapes, ConfigInv
  <1>4. WaitInv' BY <1>1 DEF WaitInv, ConfigInv, Saving
  <1>5. HandInv' BY <1>1 DEF HandInv, ConfigInv, Saving
  <1>6. StoreInv' BY <1>1 DEF StoreInv, Belongs, ConfigInv, Saving
  <1>7. PageInv' BY <1>1 DEF PageInv, ConfigInv
  <1> QED BY <1>3, <1>4, <1>5, <1>6, <1>7 DEF ConfigInv

(* Dropping the panel's changes leaves no store, or one known to be astray. *)
LEMMA ReloadDoneInv == ASSUME ConfigInv, ReloadDone PROVE ConfigInv'
  <1>1. /\ up /\ mpc = "drop" /\ rejected' = FALSE
        /\ live' = [config |-> mcfg, revision |-> live.revision + 1, from_panel |-> FALSE]
        /\ mpc' = "idle" /\ mcfg' = mcfg /\ mpage' = FirstPage /\ previous' = NoStore
        /\ UNCHANGED <<file, up, boots, running, file_raw, last, seen, wpc, changes, saves, page, count>>
    BY DEF ReloadDone, Rest, publish, watcher
  <1>2. mcfg = FileConfig(file_raw) /\ running = mcfg BY <1>1 DEF ConfigInv, HandInv
  <1>8. spoiled' \in BOOLEAN /\ store' \in Stores /\ (~spoiled' => store' \in {NoStore, Torn})
    <2>1. CASE live.from_panel
      <3>1. store' \in {NoStore, store} /\ spoiled' = Stray(store')
        BY <2>1 DEF ReloadDone, remove_store
      <3> QED BY <3>1, Facts, StoreFacts DEF Stray
    <2>2. CASE ~live.from_panel
      <3>1. UNCHANGED <<store, spoiled>> BY <2>2 DEF ReloadDone
      <3> QED BY <1>1, <2>2, <3>1, Facts DEF ConfigInv, StoreInv, Belongs
    <2> QED BY <2>1, <2>2
  <1>3. Shapes'
    <2>1. live' \in [config : Accepts, revision : Nat, from_panel : BOOLEAN] BY <1>1, Facts
    <2> QED BY <1>1, <1>8, <2>1, ConfigFacts, StoreFacts DEF Shapes, ConfigInv
  <1>4. WaitInv' BY <1>1 DEF WaitInv, ConfigInv, Saving
  <1>5. HandInv' BY <1>1, <1>2, ConfigFacts DEF HandInv, Saving
  <1>6. StoreInv' BY <1>1, <1>8 DEF StoreInv, Belongs, Saving
  <1>7. PageInv'
    <2>1. \A p \in Pages : page[p].revision \in Nat /\ live.revision \in Nat BY Facts
    <2> QED BY <1>1, <2>1 DEF PageInv, ConfigInv
  <1> QED BY <1>3, <1>4, <1>5, <1>6, <1>7 DEF ConfigInv

-----------------------------------------------------------------------------
(* A page's own steps. *)
LEMMA LoadInv == ASSUME ConfigInv, NEW p \in Pages, Load(p) PROVE ConfigInv'
  <1>1. /\ up /\ page[p].state # "waiting"
        /\ UNCHANGED <<file, store, spoiled, up, boots, live, running, file_raw, rejected, last, seen,
                       wpc, changes, saves, mpc, mcfg, mpage, previous, count>>
    BY DEF Load, process, watcher, main
  <1> DEFINE new == [state |-> "loaded", revision |-> live.revision,
                     config |-> {live.config}, boot |-> boots, edit |-> {}]
  <1>2. page' = [page EXCEPT ![p] = new] BY DEF Load
  <1>3. /\ new \in PageTypes /\ new.state = "loaded" /\ new.boot = boots /\ new.edit = {}
        /\ new.revision = live.revision /\ new.config = {live.config}
    BY Facts DEF PageTypes
  <1> HIDE DEF new
  <1>4. page' \in [Pages -> PageTypes] /\ page'[p] = new /\ \A q \in Pages \ {p} : page'[q] = page[q]
    BY <1>2, <1>3 DEF ConfigInv, Shapes
  <1>5. Shapes' BY <1>1, <1>4 DEF Shapes, ConfigInv
  <1>6. WaitInv' BY <1>1, <1>3, <1>4 DEF WaitInv, ConfigInv
  <1>7. HandInv' BY <1>1 DEF HandInv, ConfigInv
  <1>8. StoreInv' BY <1>1 DEF StoreInv, Belongs, ConfigInv
  <1>9. PageInv'
    <2>1. boots \in Nat /\ live.revision \in Nat BY Facts
    <2> QED BY <1>1, <1>3, <1>4, <2>1 DEF PageInv, ConfigInv
  <1> QED BY <1>5, <1>6, <1>7, <1>8, <1>9 DEF ConfigInv

LEMMA PutInv == ASSUME ConfigInv, NEW p \in Pages, NEW e \in Edits, Put(p, e) PROVE ConfigInv'
  <1>1. /\ up /\ page[p].state = "loaded" /\ saves = <<>> /\ saves' = <<p>>
        /\ UNCHANGED <<file, store, spoiled, up, boots, live, running, file_raw, rejected, last, seen,
                       wpc, changes, mpc, mcfg, mpage, previous>>
    BY DEF Put, watcher, main
  <1>2. page' = [page EXCEPT ![p].state = "waiting", ![p].edit = {e}] BY DEF Put
  <1>3. \A q \in Pages : page[q] \in PageTypes /\ page \in [Pages -> PageTypes]
    BY DEF ConfigInv, Shapes
  <1>4. /\ page'[p] \in PageTypes /\ page'[p].state = "waiting" /\ page'[p].edit = {e}
        /\ page'[p].boot = page[p].boot /\ page'[p].revision = page[p].revision
        /\ page'[p].config = page[p].config
        /\ \A q \in Pages \ {p} : page'[q] = page[q]
    BY <1>2, <1>3 DEF PageTypes
  <1>5. page' \in [Pages -> PageTypes]
    <2>1. DOMAIN page' = Pages /\ page' = [q \in Pages |-> page'[q]] BY <1>2, <1>3
    <2>2. \A q \in Pages : page'[q] \in PageTypes BY <1>3, <1>4
    <2> QED BY <2>1, <2>2
  <1>6. count' \in [edits : 0..MaxEdits, saves : 0..MaxSaves]
    <2>1. count' = [count EXCEPT !.saves = @ + 1] /\ count.saves < MaxSaves BY DEF Put
    <2> QED BY <2>1, BoundsAssumption DEF ConfigInv, Shapes
  <1>7. Shapes' BY <1>1, <1>5, <1>6 DEF Shapes, ConfigInv, OneOf
  <1>8. WaitInv' BY <1>1, <1>4 DEF WaitInv, ConfigInv
  <1>9. HandInv' BY <1>1 DEF HandInv, ConfigInv
  <1>10. StoreInv' BY <1>1 DEF StoreInv, Belongs, ConfigInv
  <1>11. PageInv' BY <1>1, <1>4 DEF PageInv, ConfigInv
  <1> QED BY <1>7, <1>8, <1>9, <1>10, <1>11 DEF ConfigInv

(* The page that is answered waits no more and keeps what it loaded. *)
LEMMA Answered ==
    ASSUME ConfigInv, NEW p \in Pages, Answer(p), page[p].state = "waiting"
    PROVE  /\ page' \in [Pages -> PageTypes]
           /\ page'[p].state = "loaded"
           /\ \A q \in Pages \ {p} : page'[q] = page[q]
           /\ \A q \in Pages : /\ page'[q].boot = page[q].boot
                               /\ page'[q].revision = page[q].revision
                               /\ page'[q].config = page[q].config
                               /\ page[q].state = "blank" => page'[q].state = "blank"
                               /\ page'[q].state # "waiting" \/ page'[q] = page[q]
  <1>1. page' = [page EXCEPT ![p].state = "loaded", ![p].edit = {}] BY DEF Answer
  <1>2. \A q \in Pages : page[q] \in PageTypes /\ page \in [Pages -> PageTypes]
    BY DEF ConfigInv, Shapes
  <1>3. /\ page'[p] \in PageTypes /\ page'[p].state = "loaded"
        /\ page'[p].boot = page[p].boot /\ page'[p].revision = page[p].revision
        /\ page'[p].config = page[p].config
        /\ \A q \in Pages \ {p} : page'[q] = page[q]
    BY <1>1, <1>2 DEF PageTypes
  <1>4. page' \in [Pages -> PageTypes]
    <2>1. DOMAIN page' = Pages /\ page' = [q \in Pages |-> page'[q]] BY <1>1, <1>2
    <2>2. \A q \in Pages : page'[q] \in PageTypes BY <1>2, <1>3
    <2> QED BY <2>1, <2>2
  <1> QED BY <1>3, <1>4

(* The page whose save the main task takes from the channel. *)
LEMMA HeadFacts ==
    ASSUME ConfigInv, saves # <<>>
    PROVE  /\ Head(saves) \in Pages /\ saves = <<Head(saves)>>
           /\ page[Head(saves)].state = "waiting"
           /\ (CHOOSE e \in page[Head(saves)].edit : TRUE) \in Edits
           /\ Edited(Head(saves)).rest = live.config.rest
           /\ Edited(Head(saves)).users \in Edits
  <1>1. PICK p \in Pages : saves = <<p>> BY DEF ConfigInv, Shapes, OneOf
  <1>2. Head(saves) = p BY <1>1
  <1>3. page[p].state = "waiting" /\ page[p].edit # {} BY <1>1 DEF ConfigInv, WaitInv
  <1>4. (CHOOSE e \in page[p].edit : TRUE) \in Edits BY <1>3, Facts
  <1> QED BY <1>1, <1>2, <1>3, <1>4, ConfigFacts DEF Edited

(* A conflict, or an edit that does not check, changes nothing but the page. *)
LEMMA SaveRefusedInv == ASSUME ConfigInv, SaveRefused PROVE ConfigInv'
  <1>1. /\ up /\ mpc = "idle" /\ saves # <<>> /\ saves' = <<>> /\ Answer(Head(saves))
        /\ UNCHANGED <<file, store, spoiled, up, boots, live, running, file_raw, rejected, last, seen,
                       wpc, changes, mpc, mcfg, mpage, previous, count>>
    BY DEF SaveRefused, Idle, watcher, main
  <1>2. PICK p \in Pages : p = Head(saves) /\ saves = <<p>> /\ page[p].state = "waiting"
    BY <1>1, HeadFacts
  <1>3. /\ page' \in [Pages -> PageTypes]
        /\ page'[p].state = "loaded"
        /\ \A q \in Pages \ {p} : page'[q] = page[q]
        /\ \A q \in Pages : /\ page'[q].boot = page[q].boot
                            /\ page'[q].revision = page[q].revision
                            /\ page'[q].config = page[q].config
                            /\ page[q].state = "blank" => page'[q].state = "blank"
    BY <1>1, <1>2, Answered
  <1>4. Shapes' BY <1>1, <1>3 DEF Shapes, ConfigInv, OneOf
  <1>5. WaitInv' BY <1>1, <1>2, <1>3 DEF WaitInv, ConfigInv, Saving
  <1>6. HandInv' BY <1>1 DEF HandInv, ConfigInv, Saving
  <1>7. StoreInv' BY <1>1 DEF StoreInv, Belongs, ConfigInv, Saving
  <1>8. PageInv' BY <1>1, <1>3 DEF PageInv, ConfigInv
  <1> QED BY <1>4, <1>5, <1>6, <1>7, <1>8 DEF ConfigInv

(* A save that is accepted has the rest of the published config. *)
LEMMA SaveBeginInv == ASSUME ConfigInv, SaveBegin PROVE ConfigInv'
  <1>1. /\ up /\ mpc = "idle" /\ saves # <<>> /\ saves' = <<>>
        /\ Edited(Head(saves)) \in Accepts /\ mcfg' = Edited(Head(saves)) /\ mpage' = Head(saves)
        /\ previous' \in {store, NoStore} /\ mpc' = "write"
        /\ UNCHANGED <<file, store, spoiled, up, boots, live, running, file_raw, rejected, last, seen,
                       wpc, changes, page, count>>
    BY DEF SaveBegin, Idle, watcher, read_previous
  <1>2. /\ mpage' \in Pages /\ saves = <<mpage'>>
        /\ mcfg'.rest = live.config.rest /\ mcfg'.users \in Edits
    BY <1>1, HeadFacts
  <1>4. Shapes' BY <1>1, <1>2, StoreFacts DEF Shapes, ConfigInv, OneOf, Saving
  <1>5. WaitInv' BY <1>1, <1>2 DEF WaitInv, ConfigInv, Saving
  <1>6. HandInv' BY <1>1, <1>2 DEF HandInv, ConfigInv, Saving
  <1>7. StoreInv' BY <1>1 DEF StoreInv, Belongs, ConfigInv, Saving
  <1>8. PageInv' BY <1>1 DEF PageInv, ConfigInv
  <1> QED BY <1>4, <1>5, <1>6, <1>7, <1>8 DEF ConfigInv

(* The store is written before the config is applied, the old one in hand. *)
LEMMA SaveWritesInv == ASSUME ConfigInv, SaveWrites PROVE ConfigInv'
  <1>1. /\ up /\ mpc = "write" /\ mpc' = "apply"
        /\ store' = [base |-> file_raw, users |-> mcfg.users]
        /\ UNCHANGED <<file, spoiled, up, boots, live, running, file_raw, rejected, last, seen, wpc,
                       changes, saves, mcfg, mpage, previous, page, count>>
    BY DEF SaveWrites, watcher
  <1>2. mcfg.users \in Edits /\ file_raw \in Files BY <1>1, Facts DEF ConfigInv, HandInv, Saving
  <1>3. store' \in Stores BY <1>1, <1>2, StoreFacts
  <1>4. Shapes' BY <1>1, <1>3 DEF Shapes, ConfigInv, Saving
  <1>5. WaitInv' BY <1>1 DEF WaitInv, ConfigInv, Saving
  <1>6. HandInv' BY <1>1 DEF HandInv, ConfigInv, Saving
  <1>7. StoreInv' BY <1>1 DEF StoreInv, Belongs, ConfigInv, Saving
  <1>8. PageInv' BY <1>1 DEF PageInv, ConfigInv
  <1> QED BY <1>4, <1>5, <1>6, <1>7, <1>8 DEF ConfigInv

(* The page in hand is answered and the main task rests. *)
LEMMA RestFacts ==
    ASSUME ConfigInv, mpc \in Saving, Answer(mpage), Rest(running) \/ Rest(mcfg),
           UNCHANGED <<boots, saves>>
    PROVE  /\ page' \in [Pages -> PageTypes] /\ WaitInv'
           /\ mpc' = "idle" /\ mpage' \in Pages /\ previous' = NoStore /\ previous' \in Stores
           /\ \A q \in Pages : /\ page'[q].boot = page[q].boot
                               /\ page'[q].revision = page[q].revision
                               /\ page'[q].config = page[q].config
                               /\ page[q].state = "blank" => page'[q].state = "blank"
  <1>1. mpage \in Pages BY Facts
  <1>2. page[mpage].state = "waiting" /\ saves # <<mpage>> BY <1>1 DEF ConfigInv, WaitInv
  <1>3. /\ page' \in [Pages -> PageTypes]
        /\ page'[mpage].state = "loaded"
        /\ \A q \in Pages \ {mpage} : page'[q] = page[q]
        /\ \A q \in Pages : /\ page'[q].boot = page[q].boot
                            /\ page'[q].revision = page[q].revision
                            /\ page'[q].config = page[q].config
                            /\ page[q].state = "blank" => page'[q].state = "blank"
    BY <1>1, <1>2, Answered
  <1>4. mpc' = "idle" /\ mpage' = FirstPage /\ previous' = NoStore BY DEF Rest
  <1>5. WaitInv' BY <1>2, <1>3, <1>4 DEF WaitInv, ConfigInv, Saving
  <1> QED BY <1>3, <1>4, <1>5, ConfigFacts, StoreFacts

LEMMA SaveWriteFailsInv == ASSUME ConfigInv, SaveWriteFails PROVE ConfigInv'
  <1>1. /\ up /\ mpc = "write" /\ Answer(mpage) /\ Rest(running) /\ mcfg' = running
        /\ UNCHANGED <<file, store, spoiled, up, boots, live, running, file_raw, rejected, last, seen,
                       wpc, changes, saves, count>>
    BY DEF SaveWriteFails, Rest, watcher
  <1>2. /\ page' \in [Pages -> PageTypes] /\ WaitInv'
        /\ mpc' = "idle" /\ mpage' \in Pages /\ previous' = NoStore /\ previous' \in Stores
        /\ \A q \in Pages : /\ page'[q].boot = page[q].boot
                            /\ page'[q].revision = page[q].revision
                            /\ page'[q].config = page[q].config
                            /\ page[q].state = "blank" => page'[q].state = "blank"
    BY <1>1, RestFacts DEF Saving
  <1>4. Shapes' BY <1>1, <1>2 DEF Shapes, ConfigInv
  <1>6. HandInv' BY <1>1, <1>2 DEF HandInv, ConfigInv, Saving
  <1>7. StoreInv' BY <1>1, <1>2 DEF StoreInv, Belongs, ConfigInv, Saving
  <1>8. PageInv' BY <1>1, <1>2 DEF PageInv, ConfigInv
  <1> QED BY <1>4, <1>2, <1>6, <1>7, <1>8 DEF ConfigInv

(* A save that applies is published; the store already has it. *)
LEMMA SaveAppliesInv == ASSUME ConfigInv, SaveApplies PROVE ConfigInv'
  <1>1. /\ up /\ mpc = "apply" /\ mcfg' = mcfg /\ running' = mcfg /\ spoiled' = FALSE
        /\ mpc' = "idle" /\ mpage' = FirstPage /\ previous' = NoStore
        /\ live' = [config |-> mcfg, revision |-> live.revision + 1, from_panel |-> TRUE]
        /\ UNCHANGED <<file, store, up, boots, file_raw, rejected, last, seen,
                       wpc, changes, saves, count>>
    BY DEF SaveApplies, Rest, publish, watcher
  <1> DEFINE new == [state |-> "loaded", revision |-> live.revision + 1,
                     config |-> {mcfg}, boot |-> boots, edit |-> {}]
  <1>5. page' = [page EXCEPT ![mpage] = new] BY DEF SaveApplies, AnswerSaved
  <1>9. /\ new \in PageTypes /\ new.state = "loaded" /\ new.boot = boots
        /\ new.revision = live.revision + 1 /\ new.config = {mcfg}
    BY Facts DEF PageTypes
  <1> HIDE DEF new
  <1>2. /\ page' \in [Pages -> PageTypes] /\ page'[mpage] = new
        /\ \A q \in Pages \ {mpage} : page'[q] = page[q]
    BY <1>5, <1>9, Facts DEF ConfigInv, Shapes
  <1>10. WaitInv' BY <1>1, <1>2, <1>9, Facts DEF WaitInv, ConfigInv, Saving
  <1>3. /\ mcfg.rest = live.config.rest /\ mcfg.users \in Edits
        /\ store = [base |-> file_raw, users |-> mcfg.users]
        /\ rejected \/ file_raw = live.config.rest
    BY <1>1 DEF ConfigInv, HandInv, Saving
  <1>4. Shapes'
    <2>1. live' \in [config : Accepts, revision : Nat, from_panel : BOOLEAN] BY <1>1, Facts
    <2> QED BY <1>1, <1>2, <2>1, ConfigFacts, StoreFacts DEF Shapes, ConfigInv
  <1>6. HandInv' BY <1>1, <1>2, <1>3 DEF HandInv, Saving
  <1>7. StoreInv'
    <2>1. store \notin {NoStore, Torn} BY <1>3, StoreFacts, Facts
    <2>2. store.users = mcfg.users /\ store.base = file_raw BY <1>3
    <2> QED BY <1>1, <1>2, <1>3, <2>1, <2>2 DEF StoreInv, Belongs, Saving
  <1>8. PageInv'
    <2>1. \A q \in Pages : page[q].revision \in Nat /\ live.revision \in Nat /\ boots \in Nat BY Facts
    <2> QED BY <1>1, <1>2, <1>9, <2>1 DEF PageInv, ConfigInv
  <1> QED BY <1>4, <1>10, <1>6, <1>7, <1>8 DEF ConfigInv

(* A save that does not apply: the store is emptied, then written again. *)
LEMMA SaveApplyFailsInv == ASSUME ConfigInv, SaveApplyFails PROVE ConfigInv'
  <1>1. /\ up /\ mpc = "apply" /\ mpc' = "undo" /\ store' = Torn /\ previous # NoStore
        /\ UNCHANGED <<file, spoiled, up, boots, live, running, file_raw, rejected, last, seen, wpc,
                       changes, saves, mcfg, mpage, previous, page, count>>
    BY DEF SaveApplyFails, watcher
  <1>3. store' \in Stores BY <1>1, StoreFacts
  <1>4. Shapes' BY <1>1, <1>3 DEF Shapes, ConfigInv, Saving
  <1>5. WaitInv' BY <1>1 DEF WaitInv, ConfigInv, Saving
  <1>6. HandInv' BY <1>1 DEF HandInv, ConfigInv, Saving
  <1>7. StoreInv' BY <1>1 DEF StoreInv, Belongs, ConfigInv, Saving
  <1>8. PageInv' BY <1>1 DEF PageInv, ConfigInv
  <1> QED BY <1>4, <1>5, <1>6, <1>7, <1>8 DEF ConfigInv

(* With the page answered, the store is the old one, or none, or known to be astray. *)
LEMMA SaveEndsInv ==
    ASSUME ConfigInv, SaveDropped \/ SaveUndone \/ SaveUndoFails
    PROVE  ConfigInv'
  <1>1. /\ up /\ mpc \in Saving /\ mpc # "write" /\ Answer(mpage) /\ Rest(running) /\ mcfg' = running
        /\ UNCHANGED <<file, up, boots, live, running, file_raw, rejected, last, seen,
                       wpc, changes, saves, count>>
    BY DEF SaveDropped, SaveUndone, SaveUndoFails, Rest, watcher, Saving
  <1>2. /\ page' \in [Pages -> PageTypes] /\ WaitInv'
        /\ mpc' = "idle" /\ mpage' \in Pages /\ previous' = NoStore /\ previous' \in Stores
        /\ \A q \in Pages : /\ page'[q].boot = page[q].boot
                            /\ page'[q].revision = page[q].revision
                            /\ page'[q].config = page[q].config
                            /\ page[q].state = "blank" => page'[q].state = "blank"
    BY <1>1, RestFacts
  <1>3. /\ spoiled' \in BOOLEAN /\ store' \in Stores
        /\ spoiled' \/ (~live.from_panel /\ store' \in {NoStore, Torn})
                    \/ (mpc = "undo" /\ store' = previous /\ spoiled' = spoiled)
    <2>1. CASE SaveUndone BY <2>1, Facts DEF SaveUndone
    <2>2. CASE SaveDropped \/ SaveUndoFails
      <3>1. mcfg.users \in Edits BY <1>1 DEF ConfigInv, HandInv
      <3>2. [base |-> file_raw, users |-> mcfg.users] \in Stores BY <3>1, StoreFacts, Facts
      <3>3. store' \in Stores
        BY <2>2, <3>2, Facts, StoreFacts DEF SaveDropped, SaveUndoFails, remove_store
      <3>4. spoiled' = (live.from_panel \/ Stray(store')) BY <2>2 DEF SaveDropped, SaveUndoFails
      <3> QED BY <3>3, <3>4, Facts DEF Stray
    <2> QED BY <2>1, <2>2
  <1>4. Shapes' BY <1>1, <1>2, <1>3 DEF Shapes, ConfigInv
  <1>6. HandInv' BY <1>1, <1>2 DEF HandInv, ConfigInv, Saving
  <1>7. StoreInv'
    <2>1. ASSUME ~spoiled' PROVE Belongs(store)'
      <3>1. CASE ~live.from_panel /\ store' \in {NoStore, Torn} BY <1>1, <3>1 DEF Belongs
      <3>2. CASE mpc = "undo" /\ store' = previous /\ spoiled' = spoiled
        <4>1. previous # NoStore BY <3>2 DEF ConfigInv, HandInv
        <4>2. Belongs(previous) BY <1>1, <2>1, <3>2, <4>1 DEF ConfigInv, StoreInv
        <4> QED BY <1>1, <3>2, <4>2 DEF Belongs
      <3> QED BY <1>3, <2>1, <3>1, <3>2
    <2> QED BY <1>2, <2>1 DEF StoreInv, Saving
  <1>8. PageInv' BY <1>1, <1>2 DEF PageInv, ConfigInv
  <1> QED BY <1>4, <1>2, <1>6, <1>7, <1>8 DEF ConfigInv

LEMMA StutterInv == ASSUME ConfigInv, UNCHANGED store_vars PROVE ConfigInv'
  BY DEF ConfigInv, Shapes, WaitInv, HandInv, StoreInv, Belongs, PageInv, store_vars, process, watcher, main

-----------------------------------------------------------------------------
(* Every step keeps the invariant. *)
LEMMA StoreNextInv == ConfigInv /\ [StoreNext]_store_vars => ConfigInv'
  <1> SUFFICES ASSUME ConfigInv, [StoreNext]_store_vars PROVE ConfigInv' OBVIOUS
  <1>1. CASE Boot \/ BootFails \/ Crash BY <1>1, BootInv, BootFailsInv, CrashInv
  <1>2. CASE (\E f \in Files : Edit(f)) \/ Watch BY <1>2, WatchInv
  <1>3. CASE ReloadBegin \/ ReloadApplies \/ ReloadFails \/ ReloadDone
    BY <1>3, ReloadBeginInv, ReloadAppliesInv, ReloadFailsInv, ReloadDoneInv
  <1>4. CASE SaveRefused \/ SaveBegin \/ SaveWrites \/ SaveWriteFails
    BY <1>4, SaveRefusedInv, SaveBeginInv, SaveWritesInv, SaveWriteFailsInv
  <1>5. CASE SaveApplies \/ SaveApplyFails \/ SaveDropped \/ SaveUndone \/ SaveUndoFails
    BY <1>5, SaveAppliesInv, SaveApplyFailsInv, SaveEndsInv
  <1>6. CASE \E p \in Pages : Load(p) \/ \E e \in Edits : Put(p, e) BY <1>6, LoadInv, PutInv
  <1>7. CASE UNCHANGED store_vars BY <1>7, StutterInv
  <1> QED BY <1>1, <1>2, <1>3, <1>4, <1>5, <1>6, <1>7 DEF StoreNext, Main

LEMMA StoreInvAlways == StoreSpec => []ConfigInv
  BY StoreInitInv, StoreNextInv, PTL DEF StoreSpec

(***************************************************************************)
(* A restart brings back the running config, or the one being applied,     *)
(* wherever in a reload or in a save it falls and whichever operation on   *)
(* the store fails, short of the harm RestartKeepsConfig names: the store  *)
(* is the one that belongs to the published config, or the one of the save *)
(* in hand, or one left astray that no start from this file would take.    *)
(***************************************************************************)
THEOREM RestartsKeepConfig == StoreSpec => []RestartKeepsConfig
  <1>1. ConfigInv => RestartKeepsConfig
    <2> SUFFICES ASSUME ConfigInv PROVE RestartKeepsConfig OBVIOUS
    <2>1. StoreTypeOK
      <3>0. \A X : \A s \in OneOf(X) : s \in Seq(X) /\ Len(s) <= 1
        <4> TAKE X
        <4> TAKE s \in OneOf(X)
        <4>1. CASE s = <<>> BY <4>1
        <4>2. CASE \E x \in X : s = <<x>>
          <5>1. PICK x \in X : s = <<x>> BY <4>2
          <5>2. <<x>> \in Seq(X) /\ Len(<<x>>) = 1 OBVIOUS
          <5> QED BY <5>1, <5>2
        <4> QED BY <4>1, <4>2 DEF OneOf
      <3>1. changes \in Seq(Files) /\ Len(changes) <= 1 BY <3>0 DEF ConfigInv, Shapes
      <3>2. saves \in Seq(Pages) /\ Len(saves) <= 1 BY <3>0 DEF ConfigInv, Shapes
      <3>3. \A p \in Pages : page[p].state \in {"blank", "loaded", "waiting"}
        BY DEF ConfigInv, Shapes, PageTypes
      <3> QED BY <3>1, <3>2, <3>3 DEF StoreTypeOK, ConfigInv, Shapes, WaitInv, Saving
    <2>2. LiveIsRunning BY DEF LiveIsRunning, Idle, ConfigInv, HandInv
    <2>3. ASSUME up, mpc # "undo", ~Harmed, file = file_raw, ~rejected
          PROVE  \/ Restored(file, store) = live.config
                 \/ mpc \in {"reload", "drop", "apply"} /\ Restored(file, store) = mcfg
      <3>1. /\ live.config \in Accepts /\ mcfg \in Accepts /\ store \in Stores
            /\ live.from_panel \in BOOLEAN /\ spoiled \in BOOLEAN
        BY Facts
      <3>2. CASE mpc = "apply"
        <4>1. /\ store = [base |-> file_raw, users |-> mcfg.users]
              /\ file_raw = live.config.rest /\ mcfg.rest = live.config.rest
              /\ mcfg.users \in Edits /\ file_raw \in Files
          BY <2>3, <3>2, Facts DEF ConfigInv, HandInv, Saving
        <4>2. store \notin {NoStore, Torn} /\ store.base = file /\ store.users = mcfg.users
          BY <2>3, <4>1, StoreFacts
        <4>3. Config(file, store.users) = mcfg BY <2>3, <3>1, <4>1, <4>2, ConfigFacts
        <4> QED BY <3>1, <3>2, <4>2, <4>3 DEF Restored, Usable
      <3>5. CASE spoiled /\ mpc # "apply"
        <4>1. ~live.from_panel /\ ~Usable(file, store) BY <2>3, <3>1, <3>5 DEF Harmed
        <4>2. Restored(file, store) = FileConfig(file) BY <4>1 DEF Restored
        <4>3. mpc \in {"reload", "drop"} => mcfg = FileConfig(file)
          BY <2>3 DEF ConfigInv, HandInv
        <4>4. mpc \notin {"reload", "drop"} => live.config = FileConfig(file)
          BY <2>3, <4>1 DEF ConfigInv, HandInv
        <4> QED BY <4>2, <4>3, <4>4
      <3>3. CASE ~spoiled /\ mpc \notin {"apply", "reload", "drop"}
        <4>1. Belongs(store) /\ file = live.config.rest
          BY <2>3, <3>3, Facts DEF ConfigInv, HandInv, StoreInv
        <4>2. CASE live.from_panel
          <5>1. store \notin {NoStore, Torn} /\ store.base = file /\ store.users = live.config.users
            BY <2>3, <4>1, <4>2 DEF Belongs
          <5>2. Config(file, store.users) = live.config BY <3>1, <4>1, <5>1, ConfigFacts
          <5> QED BY <3>1, <5>1, <5>2 DEF Restored, Usable
        <4>3. CASE ~live.from_panel
          <5>1. store \in {NoStore, Torn} BY <4>1, <4>3 DEF Belongs
          <5>2. live.config = FileConfig(file) BY <2>3, <4>1, <4>3 DEF ConfigInv, HandInv
          <5> QED BY <5>1, <5>2 DEF Restored, Usable
        <4> QED BY <4>2, <4>3, <3>1
      <3>4. CASE ~spoiled /\ mpc \in {"reload", "drop"}
        <4>1. Belongs(store) /\ mcfg = FileConfig(file)
          BY <2>3, <3>4 DEF ConfigInv, HandInv, StoreInv
        <4>2. CASE Usable(file, store)
          <5>1. /\ live.from_panel /\ store.users = live.config.users
                /\ store.base = live.config.rest /\ store.base = file
            BY <2>3, <3>1, <4>1, <4>2 DEF Belongs, Usable
          <5>2. Restored(file, store) = Config(file, store.users) BY <4>2 DEF Restored
          <5>3. Config(file, store.users) = live.config BY <3>1, <5>1, ConfigFacts
          <5> QED BY <3>1, <4>2, <5>2, <5>3
        <4> QED BY <3>4, <4>1, <4>2 DEF Restored
      <3> QED BY <2>3, <3>1, <3>2, <3>3, <3>4, <3>5
    <2> QED BY <2>1, <2>2, <2>3 DEF RestartKeepsConfig
  <1> QED BY <1>1, StoreInvAlways, PTL

(***************************************************************************)
(* No lost update: the save that the main task begins is of a page that    *)
(* has the published config before it, unless a restart came between.      *)
(***************************************************************************)
THEOREM NoUpdateIsLost == StoreSpec => NoLostUpdate
  <1>1. ConfigInv /\ [StoreNext]_store_vars
          => [mpc = "idle" /\ mpc' = "write" /\ page[mpage'].boot = boots
                => page[mpage'].config = {live.config}]_store_vars
    <2> SUFFICES ASSUME ConfigInv, StoreNext, mpc = "idle", mpc' = "write", page[mpage'].boot = boots
                 PROVE  page[mpage'].config = {live.config}
      OBVIOUS
    <2>1. SaveBegin
      BY DEF StoreNext, Boot, Started, Rest, BootFails, Crash, Edit, Watch, Poll, Settle, Send, rest, Main,
             ReloadBegin, ReloadApplies, ReloadFails, ReloadDone, SaveRefused, SaveWrites,
             SaveWriteFails, SaveApplies, SaveApplyFails, SaveDropped, SaveUndone, SaveUndoFails, Load, Put,
             process, main
    <2>2. mpage' = Head(saves) /\ saves # <<>> /\ ~Stale(mpage') BY <2>1 DEF SaveBegin
    <2>3. mpage' \in Pages /\ page[mpage'].state = "waiting" BY <2>2, HeadFacts
    <2>4. page[mpage'].revision = live.revision BY <2>2 DEF Stale
    <2> QED BY <2>3, <2>4 DEF ConfigInv, PageInv
  <1> QED BY <1>1, StoreInvAlways, PTL DEF StoreSpec, NoLostUpdate
===============================================================================
