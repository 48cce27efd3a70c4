----------------------------- MODULE RuleSwitch -----------------------------
(***************************************************************************)
(* How Runtime::apply moves the running rules from one config to the next  *)
(* (src/src/runtime.rs): the sockets of changed rules are handed over, new *)
(* ones are bound before anything changes, and the tasks of removed rules  *)
(* end in their own time, holding their sockets until then.                *)
(*                                                                         *)
(* A step of apply is what happens between two awaits.  A bind can always  *)
(* fail, for a port in use elsewhere or for want of descriptors.  A rule   *)
(* in `rules' stands for its entry and for its serve tasks.                *)
(***************************************************************************)
EXTENDS Config

CONSTANTS
    Addrs,
    Configs,    \* configs an operator may write, accepted or not
    Nothing,    \* the config of a runtime that has not started
    Shards,     \* UDP sockets bound for a rule
    MaxApplies  \* bound on how often a config is applied

ASSUME ShardsAssumption == Shards \in Nat \ {0}
ASSUME MaxAppliesAssumption == MaxApplies \in Nat

\* What validate has made sure of: a config that gets here has proper rules, and
\* no two of them listen on one socket (MCRuleSwitch!AcceptedAreSound).
ASSUME ConfigsAssumption ==
    \A config \in {finalize(c) : c \in Configs} \ {None} :
      LET specs == RuleSpecs(config) IN
      /\ config # Nothing
      /\ Len(specs) \in Nat /\ DOMAIN specs = 1..Len(specs)
      /\ \A i \in DOMAIN specs :
           specs[i].listen \in Addrs /\ specs[i].protocol \in {"both", "tcp", "udp"}
      /\ \A i, j \in DOMAIN specs :
           i # j /\ specs[i].listen = specs[j].listen =>
             Kinds(specs[i].protocol) \cap Kinds(specs[j].protocol) = {}

VARIABLES
    rules,      \* the running rules, with the sockets of each
    stopping,   \* how many tasks of removed rules still hold each socket
    pc, next,   \* apply: where it is, and the config it is about
    at,         \* the place in the config of the rule it looks at
    spare,      \* sockets of the rules it will remove
    added,      \* the rules prepared so far
    current,    \* the last config that was applied
    pools,      \* the rules whose pools the panel is shown
    applies

vars == <<rules, stopping, pc, next, at, spare, added, current, pools, applies>>

\* The UDP sockets of a rule are always used together, and count as one.  Two
\* of one address can be told apart by their number.
Sockets ==
    [kind : {"tcp"}, addr : Addrs, n : {1}]
      \cup [kind : {"udp"}, addr : Addrs, n : IF Shards > 1 THEN 1..(MaxApplies + 1) ELSE {1}]
At(socks, kind, addr) == {s \in socks : s.kind = kind /\ s.addr = addr}

Open ==
    (UNION {rules[r] : r \in DOMAIN rules}) \cup (UNION {added[r] : r \in DOMAIN added})
      \cup {s \in Sockets : stopping[s] > 0}

Init ==
    /\ rules = [r \in {} |-> {}] /\ added = [r \in {} |-> {}]
    /\ stopping = [s \in Sockets |-> 0]
    /\ pc = "idle" /\ next = Nothing /\ at = 1 /\ spare = {}
    /\ current = Nothing /\ pools = {} /\ applies = 0

-----------------------------------------------------------------------------
\* The running rules that the new config does not have as they are.
removed(specs) == DOMAIN rules \ specs

\* Mutant: the old rules are stopped first, which frees their ports.
Begin_StopsFirst(config) ==
    /\ pc = "idle" /\ applies < MaxApplies
    /\ config # None
    /\ next' = config /\ at' = 1 /\ pc' = "tcp"
    /\ LET gone == removed(ToSet(RuleSpecs(config))) IN
       /\ spare' = {}
       /\ rules' = [r \in DOMAIN rules \ gone |-> rules[r]]
       /\ stopping' = [s \in Sockets |->
                         stopping[s] + Cardinality({r \in gone : s \in rules[r]})]
    /\ applies' = applies + 1
    /\ UNCHANGED <<added, current, pools>>

\* A config that was refused never gets here.
Begin(config) ==
    /\ pc = "idle" /\ applies < MaxApplies
    /\ config # None
    /\ next' = config /\ at' = 1 /\ pc' = "tcp"
    /\ spare' = UNION {rules[r] : r \in removed(ToSet(RuleSpecs(config)))}
    /\ applies' = applies + 1
    /\ UNCHANGED <<rules, stopping, added, current, pools>>

\* The kernel lets one socket have an address, except that UDP sockets bound
\* with SO_REUSEPORT, for several shards, share it.
Bindable(kind, addr) == At(Open, kind, addr) = {} \/ (kind = "udp" /\ Shards > 1)

Fresh(kind, addr) ==
    LET free == At(Sockets, kind, addr) \ Open
    IN  CHOOSE s \in free : \A t \in free : s.n <= t.n

\* The rules prepared so far, once the one apply looks at has `socks' too.
Holding(socks) ==
    LET spec == RuleSpecs(next)[at]
    IN  [r \in DOMAIN added \cup {spec} |->
           (IF r \in DOMAIN added THEN added[r] ELSE {}) \cup (IF r = spec THEN socks ELSE {})]

\* Mutant: one map of spare sockets, by address alone.
Spare_AnyKind(kind, addr) == {s \in spare : s.addr = addr}

\* The spare socket that is taken out for a rule.
Spare(kind, addr) == At(spare, kind, addr)

\* apply has a rule before it, and the running rules have not.
Looks == pc \in {"tcp", "udp"} /\ at <= Len(RuleSpecs(next))
Adds == Looks /\ RuleSpecs(next)[at] \notin DOMAIN rules

\* An unchanged rule.
Skip ==
    /\ Looks /\ ~Adds
    /\ at' = at + 1
    /\ UNCHANGED <<rules, stopping, pc, next, spare, added, current, pools, applies>>

\* The rule is to have a socket of the kind that `pc' is at.
Wants == pc \in Kinds(RuleSpecs(next)[at].protocol)

\* apply asks for a spare TCP socket and then for a spare UDP socket of the
\* address, whatever the protocol of the rule.
Prepare ==
    /\ Adds
    /\ LET addr == RuleSpecs(next)[at].listen
           taken == Spare(pc, addr)
       IN  /\ spare' = spare \ taken
           /\ \/ ~Wants /\ added' = Holding({})
              \/ Wants /\ taken # {} /\ added' = Holding(taken)
              \/ /\ Wants /\ taken = {} /\ Bindable(pc, addr)
                 /\ added' = Holding({Fresh(pc, addr)})
    /\ \/ pc = "tcp" /\ pc' = "udp" /\ at' = at
       \/ pc = "udp" /\ pc' = "tcp" /\ at' = at + 1
    /\ UNCHANGED <<rules, stopping, next, current, pools, applies>>

\* apply returns an error: what it has bound is dropped.
Fail ==
    /\ pc' = "idle" /\ next' = Nothing /\ at' = 1 /\ spare' = {}
    /\ added' = [r \in {} |-> {}]
    /\ UNCHANGED <<rules, stopping, current, pools, applies>>

BindFails ==
    /\ Adds /\ Wants /\ Spare(pc, RuleSpecs(next)[at].listen) = {}
    /\ Fail

\* All is bound.  The usage of new users is read from the state file.
Prepared ==
    /\ pc = "tcp" /\ at > Len(RuleSpecs(next))
    /\ pc' = "load" /\ at' = 1 /\ spare' = {}
    /\ UNCHANGED <<rules, stopping, next, added, current, pools, applies>>

LoadFails == pc = "load" /\ Fail

\* What start makes of a prepared rule: an entry with its sockets, and serve
\* tasks that hold them too.
start(kept) ==
    [r \in kept \cup DOMAIN added |-> IF r \in DOMAIN added THEN added[r] ELSE rules[r]]

\* Mutant: the map of rules is built anew, which stops the unchanged ones too.
Switch_StopsAll ==
    /\ pc = "load"
    /\ rules' = start(DOMAIN rules \ removed(ToSet(RuleSpecs(next))))
    /\ stopping' = [s \in Sockets |->
                      stopping[s] + Cardinality({r \in DOMAIN rules : s \in rules[r]})]
    /\ added' = [r \in {} |-> {}]
    /\ pc' = "flush"
    /\ UNCHANGED <<next, at, spare, current, pools, applies>>

\* The old rules are removed, which stops their tasks, and the new ones started.
Switch ==
    /\ pc = "load"
    /\ LET gone == removed(ToSet(RuleSpecs(next))) IN
       /\ rules' = start(DOMAIN rules \ gone)
       /\ stopping' = [s \in Sockets |->
                         stopping[s] + Cardinality({r \in gone : s \in rules[r]})]
    /\ added' = [r \in {} |-> {}]
    /\ pc' = "flush"
    /\ UNCHANGED <<next, at, spare, current, pools, applies>>

\* The usage of removed users has been written, or not: that is no error.
Publish ==
    /\ pc = "flush"
    /\ pools' = DOMAIN rules
    /\ current' = next
    /\ pc' = "idle" /\ next' = Nothing
    /\ UNCHANGED <<rules, stopping, at, spare, added, applies>>

\* A stopped serve task notices, at once or after ACCEPT_BACKOFF, and lets go.
TaskEnds(s) ==
    /\ stopping[s] > 0
    /\ stopping' = [stopping EXCEPT ![s] = @ - 1]
    /\ UNCHANGED <<rules, pc, next, at, spare, added, current, pools, applies>>

Next ==
    \/ \E config \in Configs : Begin(finalize(config))
    \/ Skip \/ Prepare \/ BindFails \/ Prepared \/ LoadFails \/ Switch \/ Publish
    \/ \E s \in Sockets : TaskEnds(s)

Spec == Init /\ [][Next]_vars

-----------------------------------------------------------------------------
SpecsOf(config) == IF config = Nothing THEN {} ELSE ToSet(RuleSpecs(config))

TypeOK ==
    /\ pc \in {"idle", "tcp", "udp", "load", "flush"}
    /\ \A r \in DOMAIN rules : rules[r] \subseteq Sockets
    /\ \A r \in DOMAIN added : added[r] \subseteq Sockets
    /\ stopping \in [Sockets -> 0..MaxApplies]
    /\ spare \subseteq Open
    /\ applies \in 0..MaxApplies
    \* What the kernel guarantees.
    /\ \A s, t \in Open : s.kind = t.kind /\ s.addr = t.addr /\ s # t => s.kind = "udp" /\ Shards > 1

(***************************************************************************)
(* README: "every newly needed port is bound, before anything changes.  If *)
(* any step fails ... the running config stays in effect": between two     *)
(* applies the running rules, and the pools the panel shows, are exactly   *)
(* those of the last config that was applied, whatever failed since.       *)
(***************************************************************************)
AllOrNothing == pc = "idle" => DOMAIN rules = SpecsOf(current) /\ pools = DOMAIN rules

(***************************************************************************)
(* Each running rule has a socket of its own of each kind it needs, at its *)
(* own address, and none besides, however sockets were handed around.      *)
(***************************************************************************)
RulesHaveSockets ==
    /\ TypeOK
    /\ \A r \in DOMAIN rules :
         /\ {s.kind : s \in rules[r]} = Kinds(r.protocol)
         /\ Cardinality(rules[r]) = Cardinality(Kinds(r.protocol))
         /\ \A s \in rules[r] : s.addr = r.listen
    /\ \A r, q \in DOMAIN rules : r # q => rules[r] \cap rules[q] = {}

(***************************************************************************)
(* README: unchanged rules are not touched: no task of a rule that stays   *)
(* is stopped by a reload, so that its connections live on.                *)
(***************************************************************************)
UnchangedUntouched ==
    [][\A r \in DOMAIN rules : r \in DOMAIN rules' =>
         rules'[r] = rules[r] /\ \A s \in rules[r] : stopping'[s] <= stopping[s]]_vars

(***************************************************************************)
(* README: "A changed rule ... is restarted ... The listening socket is    *)
(* handed over, not rebound": when apply binds a port, it is not one that  *)
(* a rule of the running config has, whose socket it could have taken.     *)
(***************************************************************************)
HandedOver ==
    Adds /\ Wants =>
      At(UNION {rules[r] : r \in DOMAIN rules}, pc, RuleSpecs(next)[at].listen) \subseteq spare
=============================================================================
