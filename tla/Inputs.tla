------------------------------- MODULE Inputs -------------------------------
(***************************************************************************)
(* The pure functions of Config and Amounts on all small inputs: families  *)
(* of configs, each varying what one part of the validation looks at, and  *)
(* numbers whose widths are scaled down so that counts beyond the mantissa *)
(* and sizes at the top of the range are among them.                       *)
(***************************************************************************)
EXTENDS Config, Amounts

CONSTANTS
    Places,         \* addresses
    Totals,         \* total quotas
    MaxTraffic, MaxSessions, MaxShards

Good == [listen |-> CHOOSE addr \in Places : TRUE, target |-> "x:1", fallback |-> <<>>,
         check_secs |-> 1, protocol |-> "both", enabled |-> TRUE, tag |-> None]
Rules == {[Good EXCEPT !.listen = addr, !.protocol = p, !.enabled = e] :
            addr \in Places, p \in {"both", "tcp", "udp"}, e \in BOOLEAN}
Wrong == {[Good EXCEPT !.target = ""], [Good EXCEPT !.target = "x"],
          [Good EXCEPT !.fallback = <<"x:1", "">>], [Good EXCEPT !.check_secs = 0],
          [Good EXCEPT !.tag = ""], [Good EXCEPT !.target = "", !.enabled = FALSE]}

User(name, rules) == [name |-> name, quota |-> None, packages |-> <<>>, rules |-> rules]
Base == [state_file |-> None, api |-> None, panel |-> None, total_quota |-> None,
         accounting |-> [mode |-> "offline", remote |-> None],
         rules |-> <<>>, users |-> <<>>, single_user |-> FALSE]
Panels == {None} \cup [enabled : BOOLEAN, listen : Places, username : {"", "u"}, password : {""}]
Remote == [access_key |-> "k", secret_key |-> "s", regions |-> <<"r">>,
           interval_secs |-> MIN_SYNC_SECS, packages |-> <<"p">>]
Remotes == {None, Remote, [Remote EXCEPT !.access_key = ""], [Remote EXCEPT !.regions = <<>>],
            [Remote EXCEPT !.regions = <<"r", "">>],
            [Remote EXCEPT !.interval_secs = MIN_SYNC_SECS - 1], [Remote EXCEPT !.packages = <<>>]}

Listening ==
    {[Base EXCEPT !.api = api, !.panel = pan,
                  !.users = <<User(n, <<r>>), User("v", <<s>>)>>] :
       api \in {None} \cup Places, pan \in Panels, n \in {"u", "v", ""}, r, s \in Rules}
Shorthand ==
    {[Base EXCEPT !.rules = rules, !.users = users, !.panel = pan, !.single_user = single] :
       rules \in {<<>>} \cup {<<r>> : r \in Rules \cup Wrong} \cup {<<Good, r>> : r \in Rules},
       users \in {<<>>, <<User("u", <<>>)>>, <<User("u", <<Good>>), User("v", <<>>)>>},
       pan \in Panels, single \in BOOLEAN}
Quotas ==
    {[Base EXCEPT !.total_quota = t, !.users = [i \in 1..3 |->
        [User(<<"u", "v", "w">>[i], <<>>) EXCEPT !.quota = q[i]]]] :
       t \in {None} \cup Totals, q \in [1..3 -> {None, 0, 4}]}
Accounts ==
    {[Base EXCEPT !.accounting = [mode |-> m, remote |-> remote], !.state_file = s,
                  !.users = <<[User("u", <<>>) EXCEPT !.packages = p],
                              [User("v", <<>>) EXCEPT !.packages = q]>>] :
       m \in {"offline", "remote"}, remote \in Remotes, s \in {None} \cup [flush_secs : 0..1],
       p, q \in {<<>>, <<"p">>, <<"q">>, <<"q", "p">>, <<"">>}}

Families == Listening \cup Shorthand \cup Quotas \cup Accounts

-----------------------------------------------------------------------------
\* Everything that listens: who (the API, the panel, or a rule of a user), on
\* which kind of socket, where.
Listeners(config) ==
    (IF config.api = None THEN {} ELSE {<<<<0, 1>>, "tcp", config.api>>})
    \cup (IF panel(config) = None THEN {} ELSE {<<<<0, 2>>, "tcp", panel(config).listen>>})
    \cup UNION {{<<<<i, j>>, k, config.users[i].rules[j].listen>> :
                   j \in {n \in DOMAIN config.users[i].rules :
                           config.users[i].rules[n].enabled
                             /\ k \in Kinds(config.users[i].rules[n].protocol)}} :
                i \in DOMAIN config.users, k \in {"tcp", "udp"}}

EnabledRules(config) ==
    UNION {{config.users[i].rules[j] : j \in {n \in DOMAIN config.users[i].rules :
                                               config.users[i].rules[n].enabled}} :
             i \in DOMAIN config.users}

Sound(config) ==
    /\ config.users # <<>> \/ panel(config) # None
    /\ config.single_user => Len(config.users) <= 1
    /\ \A k, l \in Listeners(config) : k # l => <<k[2], k[3]>> # <<l[2], l[3]>>
    /\ \A i, j \in DOMAIN config.users : config.users[i].name = config.users[j].name => i = j
    /\ \A i \in DOMAIN config.users : config.users[i].name # ""
    /\ \A r \in EnabledRules(config) : check_rule(r)
    /\ panel(config) # None => (panel(config).username = "" <=> panel(config).password = "")
    /\ config.state_file = None \/ config.state_file.flush_secs >= 1
    /\ validate_accounting(config)

\* Accepted is what the reference accepts.
IsExact(config) ==
    (finalize(config) # None) <=>
      (config.rules = <<>> \/ config.users = <<>>) /\ Sound(unfold(config))

\* The shares are equal, use the total up to less than a byte a user, and never
\* exceed it, with zero and with no user without a quota too.
SharesAddUp(config) ==
    LET unset == {i \in DOMAIN config.users : config.users[i].quota = None}
        quota(i) == resolve_quotas(config)[config.users[i].name]
        sum == MapThenSumSet(quota, unset)
    IN  /\ \A i \in DOMAIN config.users \ unset : quota(i) = config.users[i].quota
        /\ \A i, j \in unset : quota(i) = quota(j)
        /\ config.total_quota = None => \A i \in unset : quota(i) = None
        /\ config.total_quota # None /\ unset # {} =>
             sum <= config.total_quota /\ config.total_quota < sum + Cardinality(unset)

\* Each package has one owner, so its credit cannot be handed out twice.
OneOwner(config) ==
    LET shared == IF config.accounting.remote = None THEN {}
                  ELSE ToSet(config.accounting.remote.packages)
    IN  /\ \A i, j \in DOMAIN config.users :
             i # j => ToSet(config.users[i].packages) \cap ToSet(config.users[j].packages) = {}
        /\ \A i \in DOMAIN config.users : ToSet(config.users[i].packages) \cap shared = {}

\* Accepted once, accepted again as it is: the panel edits and checks the config
\* that runs.
IsStable(accepted) == finalize(accepted) = accepted

\* The configs on which finalize or resolve_quotas is wrong.
Unsound ==
    {config \in Families :
       \/ ~IsExact(config)
       \/ LET accepted == finalize(config)
          IN  accepted # None
                /\ ~(IsStable(accepted) /\ OneOwner(accepted) /\ SharesAddUp(accepted))}

-----------------------------------------------------------------------------
\* A quota that the panel saves is read back from its store as it was.  Above
\* 2^(Bits + UnitBits), 8 EiB with the real widths, the count of KB may not fit
\* the mantissa; it is then off by no more than the mantissa can help, and no
\* size that can be held is refused.
SizeRoundTrip(size) ==
    LET back == deserialize(serialize(size))
    IN  /\ size <= 2 ^ (Bits + UnitBits) => back = size
        /\ back # OutOfRange
        /\ (back - size) * 2 ^ Bits <= size /\ (size - back) * 2 ^ Bits <= size

\* README: "`upload + download` always equals `used`"; and no direction is billed
\* for more than it carried.
SplitAddsUp(up, down, bill) ==
    LET split == billed_split(up, down, bill)
    IN  split[1] + split[2] = bill /\ split[1] \in 0..up /\ split[2] \in 0..down

\* The shards of a rule together admit the sessions a rule may have, and at most
\* one less than the number of shards more.
ShardsCover(sessions, n) ==
    LET shards == Max({n, 1})
    IN  per_shard(sessions, n) * shards \in sessions..(sessions + shards - 1)

\* The inputs on which a byte or a session goes missing.
Lost ==
    {size \in 0..(2 ^ Width - 1) : ~SizeRoundTrip(size)}
      \cup {up \in 0..MaxTraffic : \E down \in 0..MaxTraffic :
              \E bill \in 0..(up + down) : ~SplitAddsUp(up, down, bill)}
      \cup {sessions \in 1..MaxSessions : \E n \in 0..MaxShards : ~ShardsCover(sessions, n)}
=============================================================================
