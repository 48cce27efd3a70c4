---------------------------- MODULE MCRuleSwitch ----------------------------
(***************************************************************************)
(* RuleSwitch on two addresses: every protocol and two targets at the      *)
(* first, one rule at the second, up to three rules in any order.  Which   *)
(* configs get as far as the switch is decided by the functions of Config, *)
(* checked in the same run on the inputs of Inputs.                        *)
(***************************************************************************)
EXTENDS RuleSwitch, Inputs

CONSTANTS a, b

MCAddrs == {a, b}

Rule(addr, protocol, target) ==
    [listen |-> addr, target |-> target, fallback |-> <<>>, check_secs |-> 10,
     protocol |-> protocol, enabled |-> TRUE, tag |-> None]
Runnable == {Rule(a, p, t) : p \in {"both", "tcp", "udp"}, t \in {"x:1", "y:1"}}
           \cup {Rule(b, "both", "x:1")}

Written(rs) == [Base EXCEPT !.users = <<User("u", rs)>>]

MCConfigs == {Written(rs) : rs \in {s \in UNION {[1..n -> Runnable] : n \in 0..3} : IsInjective(s)}}
MCAccepted == {c \in MCConfigs : finalize(c) # None}

-----------------------------------------------------------------------------
\* Inputs do not depend on the state, so that they are looked at in one.
AtFirst == applies = 0

(***************************************************************************)
(* What finalize accepts (src/src/config.rs) is exactly what has no two    *)
(* listeners on one socket ("duplicate listen conflicts by protocol") and  *)
(* no two users of one name, whether a rule, the API or the panel listens. *)
(* It is accepted again as it is, since the panel edits and checks the     *)
(* running config.  Its packages have one owner each, and "an explicit     *)
(* quota wins; users without one split total_quota evenly".                *)
(***************************************************************************)
AcceptedAreSound == AtFirst => Unsound = {}

(***************************************************************************)
(* Nothing is lost to rounding: in a size that goes to the panel's store   *)
(* and back (src/src/config.rs), in a bill split between the directions    *)
(* (src/src/api.rs), in the sessions of a rule divided over its shards     *)
(* (src/src/udp.rs).                                                       *)
(***************************************************************************)
AmountsAddUp == AtFirst => Lost = {}
=============================================================================
