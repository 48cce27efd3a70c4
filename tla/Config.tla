------------------------------- MODULE Config -------------------------------
(***************************************************************************)
(* The config as it is once it has been decoded (src/src/config.rs): which *)
(* ones are accepted, what the shorthand stands for, and the quota each    *)
(* user gets.  Names, targets and package ids are strings, with "" for an  *)
(* empty one; addresses are model values.                                  *)
(***************************************************************************)
EXTENDS Integers, Sequences, FiniteSets, FiniteSetsExt, SequencesExt

CONSTANTS
    None,           \* an optional part that is not there
    MIN_SYNC_SECS,
    Shaped          \* the targets that look like host:port

ASSUME SyncAssumption == MIN_SYNC_SECS \in Nat

\* Protocol::tcp and Protocol::udp, as the sockets a rule listens on.
Kinds(protocol) == CASE protocol = "both" -> {"tcp", "udp"}
                     [] protocol = "tcp" -> {"tcp"}
                     [] protocol = "udp" -> {"udp"}

\* The panel, if it is enabled.
panel(config) ==
    IF config.panel # None /\ config.panel.enabled THEN config.panel ELSE None

Targets(rule) == <<rule.target>> \o rule.fallback

active_remote(config) ==
    IF config.accounting.mode = "remote" THEN config.accounting.remote ELSE None

-----------------------------------------------------------------------------
(***************************************************************************)
(* validate goes through the users once, with the names and the addresses  *)
(* met so far.  `ok' is lost at the first thing wrong.                     *)
(***************************************************************************)
check_rule(rule) ==
    /\ rule.target # "" /\ \A i \in DOMAIN rule.fallback : rule.fallback[i] # ""
    /\ \A i \in DOMAIN Targets(rule) : Targets(rule)[i] \in Shaped
    /\ rule.check_secs > 0
    /\ rule.tag # ""

\* Mutant: UDP addresses are not compared.
AddRule_TcpOnly(seen, rule) ==
    IF ~rule.enabled THEN seen
    ELSE [seen EXCEPT !.ok = @ /\ check_rule(rule)
                             /\ ~("tcp" \in Kinds(rule.protocol) /\ rule.listen \in seen.tcp),
                      !.tcp = @ \cup {rule.listen}]

AddRule(seen, rule) ==
    IF ~rule.enabled THEN seen
    ELSE LET kinds == Kinds(rule.protocol) IN
         [seen EXCEPT !.ok = /\ @ /\ check_rule(rule)
                             /\ "tcp" \in kinds => rule.listen \notin seen.tcp
                             /\ "udp" \in kinds => rule.listen \notin seen.udp,
                      !.tcp = IF "tcp" \in kinds THEN @ \cup {rule.listen} ELSE @,
                      !.udp = IF "udp" \in kinds THEN @ \cup {rule.listen} ELSE @]

AddUser(seen, user) ==
    LET named == [seen EXCEPT !.ok = @ /\ user.name # "" /\ user.name \notin seen.names,
                              !.names = @ \cup {user.name}]
    IN  FoldLeft(AddRule, named, user.rules)

\* What is taken before the first user: the addresses of the API and the panel.
Reserved(config) ==
    LET api == {config.api} \ {None}
        pan == IF panel(config) = None THEN {} ELSE {panel(config).listen}
    IN  [ok |-> /\ api \cap pan = {}
                /\ panel(config) # None =>
                     (panel(config).username = "") = (panel(config).password = ""),
         names |-> {}, tcp |-> api \cup pan, udp |-> {}]

\* Mutant: only the users' own packages are compared.
PackageIds_Owned(config) ==
    FlattenSeq([i \in DOMAIN config.users |-> config.users[i].packages])

\* The package ids in the order they are listed, the shared ones first.
PackageIds(config) ==
    LET remote == config.accounting.remote
    IN  (IF remote = None THEN <<>> ELSE remote.packages)
          \o FlattenSeq([i \in DOMAIN config.users |-> config.users[i].packages])

validate_accounting(config) ==
    LET remote == config.accounting.remote
        ids == PackageIds(config)
    IN  /\ \A i \in DOMAIN ids : ids[i] # ""
        /\ IsInjective(ids)
        /\ remote # None =>
             /\ remote.interval_secs >= MIN_SYNC_SECS
             /\ \A i \in DOMAIN remote.regions : remote.regions[i] # ""
        /\ config.accounting.mode = "remote" =>
             /\ remote # None
             /\ remote.access_key # "" /\ remote.secret_key # ""
             /\ remote.regions # <<>>

validate(config) ==
    /\ config.users # <<>> \/ panel(config) # None
    /\ config.single_user => Len(config.users) <= 1
    /\ config.state_file # None => config.state_file.flush_secs > 0
    /\ FoldLeft(AddUser, Reserved(config), config.users).ok
    /\ validate_accounting(config)

\* Mutant: the shorthand is unfolded without being taken away.
unfold_Keeps(config) ==
    IF config.rules = <<>> THEN config
    ELSE [config EXCEPT !.users = <<[name |-> "default", quota |-> None, packages |-> <<>>,
                                    rules |-> config.rules]>>,
                        !.single_user = TRUE]

\* Top-level rules are those of the one user "default".
unfold(config) ==
    IF config.rules = <<>> THEN config
    ELSE [config EXCEPT !.users = <<[name |-> "default", quota |-> None, packages |-> <<>>,
                                    rules |-> config.rules]>>,
                        !.rules = <<>>,
                        !.single_user = TRUE]

\* What `finalize' answers: the config, or None for an error.
finalize(config) ==
    IF config.rules # <<>> /\ config.users # <<>> THEN None
    ELSE IF validate(unfold(config)) THEN unfold(config) ELSE None

-----------------------------------------------------------------------------
\* Mutant: the total is divided by the number of users.
share_All(config) ==
    IF config.total_quota = None THEN None ELSE config.total_quota \div Len(config.users)

\* What each user without a quota gets of the total.
share(config) ==
    LET unset == {i \in DOMAIN config.users : config.users[i].quota = None}
    IN  IF config.total_quota = None \/ unset = {} THEN None
        ELSE config.total_quota \div Cardinality(unset)

\* The quota of each user, None if there is no limit.
resolve_quotas(config) ==
    [name \in {config.users[i].name : i \in DOMAIN config.users} |->
       LET user == config.users[CHOOSE i \in DOMAIN config.users : config.users[i].name = name]
       IN  IF user.quota # None THEN user.quota ELSE share(config)]

-----------------------------------------------------------------------------
\* The RuleSpecs that `apply' wants for a config, in the order of the config.
RuleSpecs(config) ==
    FlattenSeq([i \in DOMAIN config.users |->
      LET user == config.users[i]
          rules == SelectSeq(user.rules, LAMBDA r : r.enabled)
      IN  [j \in DOMAIN rules |->
             [user |-> user.name, listen |-> rules[j].listen, protocol |-> rules[j].protocol,
              targets |-> Targets(rules[j]), check_secs |-> rules[j].check_secs]]])
=============================================================================
