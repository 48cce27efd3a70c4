----------------------------- MODULE PoolProofs -----------------------------
(***************************************************************************)
(* Proofs about Pool, for any number of targets, callers and timers.       *)
(***************************************************************************)
EXTENDS Pool, TLAPS, NaturalsInduction, WellFoundedInduction

(* A nonempty set of targets has a smallest member. *)
LEMMA SmallestTarget ==
    ASSUME NEW S \in SUBSET Targets, S # {}
    PROVE  \E i \in S : \A j \in S : i <= j
  <1>1. IsWellFoundedOn(OpToRel(<, Nat), Nat) BY NatLessThanWellFounded
  <1>2. S \subseteq Nat BY TargetsAssumption DEF Targets
  <1>3. PICK i \in S : \A j \in S : ~(<<j, i>> \in OpToRel(<, Nat))
    BY <1>1, <1>2, WFMin
  <1>4. \A j \in S : i <= j
    <2> TAKE j \in S
    <2>1. i \in Nat /\ j \in Nat BY <1>2
    <2>2. ~(j < i) BY <1>3, <2>1 DEF OpToRel
    <2> QED BY <2>1, <2>2
  <1> QED BY <1>4

(* update_active chooses a target. *)
LEMMA FirstType == ASSUME NEW h PROVE First(h) \in Targets
  <1> DEFINE ok == {i \in Targets : h[i]}
  <1>1. CASE ok = {} BY <1>1, TargetsAssumption DEF First, Targets
  <1>2. CASE ok # {}
    <2>1. \E i \in ok : \A j \in ok : i <= j BY <1>2, SmallestTarget
    <2> QED BY <1>2, <2>1 DEF First
  <1> QED BY <1>1, <1>2

\* Exactly the holder of health_lock is between its flip and update_active.
LockHeld ==
    \A p \in Tasks : pc[p] \in {"raised", "lowered"} <=> health_lock = p

\* What a task may be doing, as far as its local state tells.
Counts ==
    \A p \in Tasks : /\ pc[p] = "repick" => tries[p] \in 1..N
                     /\ pc[p] = "pick" => tries[p] < N

\* Probe i works on target i.
OwnTarget == \A i \in Targets : idx[i] = i

\* A probe runs only once its round has spawned it.
Rounds == \A i \in Targets : scan <= i => pc[i] = "idle"

PoolInv == TypeOK /\ LockHeld /\ Counts /\ OwnTarget /\ Rounds

-----------------------------------------------------------------------------
(* A step of one task that is not an idle probe leaves the rounds alone. *)
LEMMA RoundsKept ==
    ASSUME PoolInv, NEW p \in Tasks, p \in Targets => pc[p] # "idle",
           \A q \in Tasks \ {p} : pc'[q] = pc[q], UNCHANGED scan
    PROVE  Rounds'
  <1> SUFFICES ASSUME NEW i \in Targets, scan <= i PROVE pc'[i] = "idle" BY DEF Rounds
  <1>1. i \in Tasks BY DEF Tasks
  <1>2. pc[i] = "idle" BY DEF PoolInv, Rounds
  <1> QED BY <1>1, <1>2

(* What Goto does to the locals. *)
LEMMA GotoType ==
    ASSUME TypeOK, NEW p \in Tasks, NEW to \in Locations, Goto(p, to)
    PROVE  /\ pc' \in [Tasks -> Locations] /\ idx' \in [Tasks -> Targets] /\ job' \in [Tasks -> Jobs]
           /\ pc'[p] = to
           /\ \A q \in Tasks \ {p} : pc'[q] = pc[q] /\ idx'[q] = idx[q]
           /\ to # "idle" => idx'[p] = idx[p]
           /\ \A i \in Targets : idx'[i] = idx[i]
  <1>1. 1 \in Targets BY TargetsAssumption DEF Targets
  <1> QED BY <1>1 DEF TypeOK, Goto, Jobs, Tasks

LEMMA AfterType == ASSUME NEW p PROVE AfterUp(p) \in Locations /\ AfterDown(p) \in Locations
  BY DEF AfterUp, AfterDown, Locations

LEMMA InitInv == Init => PoolInv
  <1> SUFFICES ASSUME Init PROVE PoolInv OBVIOUS
  <1>1. 1 \in Targets BY TargetsAssumption DEF Targets
  <1>2. \A i \in Targets : i \in Tasks BY DEF Tasks
  <1>3. \A p \in Tasks : pc[p] = "idle" /\ health_lock # p BY TasksAssumption DEF Init
  <1>4. TypeOK
    <2>1. job \in [Tasks -> Jobs] BY DEF Init, Jobs
    <2>2. left \in [Timers -> 0..CheckTicks] BY TicksAssumption DEF Init
    <2>3. tries \in [Tasks -> 0..N] /\ scan \in 0..(N + 1) BY TargetsAssumption DEF Init
    <2> QED BY <1>1, <1>3, <2>1, <2>2, <2>3 DEF Init, TypeOK, Locations
  <1> QED BY <1>2, <1>3, <1>4 DEF Init, PoolInv, LockHeld, Counts, OwnTarget, Rounds

(* A flip, by whichever task. *)
LEMMA UpInv ==
    ASSUME PoolInv, NEW p \in Tasks, NEW ret \in {"idle", "session"}, mark_up(p, ret),
           pc[p] \in {"up", "sleep"},
           UNCHANGED <<cooldown, active, recent, up, tries, left, scan>>
    PROVE  PoolInv'
  <1> USE DEF PoolInv
  <1>0. Free \notin Tasks BY TasksAssumption
  <1>1. CASE Goto(p, ret) /\ UNCHANGED <<healthy, health_lock>>
    <2>1. ret \in Locations BY DEF Locations
    <2>r. Rounds' BY <1>1, <2>1, GotoType, RoundsKept DEF TypeOK
    <2> QED BY <1>1, <2>1, <2>r, GotoType DEF TypeOK, LockHeld, Counts, OwnTarget
  <1>2. CASE /\ health_lock = Free /\ health_lock' = p
             /\ healthy' = [healthy EXCEPT ![idx[p]] = TRUE] /\ Goto(p, "raised")
    <2>1. "raised" \in Locations BY DEF Locations
    <2>r. Rounds' BY <1>0, <1>2, <2>1, GotoType, RoundsKept DEF TypeOK
    <2> QED BY <1>0, <1>2, <2>1, <2>r, GotoType DEF TypeOK, LockHeld, Counts, OwnTarget
  <1> QED BY <1>1, <1>2 DEF mark_up

LEMMA DownInv ==
    ASSUME PoolInv, NEW p \in Tasks, MarkDown(p)
    PROVE  PoolInv'
  <1> USE DEF PoolInv
  <1>0. Free \notin Tasks BY TasksAssumption
  <1>1. CASE Goto(p, AfterDown(p)) /\ UNCHANGED <<healthy, health_lock>>
    <2>1. AfterDown(p) \in {"repick", "session", "idle"} /\ (AfterDown(p) = "repick" => tries[p] > 0)
      BY DEF AfterDown
    <2>2. AfterDown(p) \in Locations BY AfterType
    <2>r. Rounds' BY <1>1, <2>1, <2>2, GotoType, RoundsKept DEF MarkDown, TypeOK
    <2> QED BY <1>1, <2>1, <2>2, <2>r, GotoType DEF MarkDown, TypeOK, LockHeld, Counts, OwnTarget
  <1>2. CASE /\ health_lock = Free /\ health_lock' = p
             /\ healthy' = [healthy EXCEPT ![idx[p]] = FALSE] /\ Goto(p, "lowered")
    <2>1. "lowered" \in Locations BY DEF Locations
    <2>r. Rounds' BY <1>0, <1>2, <2>1, GotoType, RoundsKept DEF MarkDown, TypeOK
    <2> QED BY <1>0, <1>2, <2>1, <2>r, GotoType DEF MarkDown, TypeOK, LockHeld, Counts, OwnTarget
  <1> QED BY <1>1, <1>2 DEF MarkDown, mark_down

LEMMA UpdateInv ==
    ASSUME PoolInv, NEW p \in Tasks, update_active(p)
    PROVE  PoolInv'
  <1> USE DEF PoolInv
  <1> DEFINE to == CASE pc[p] = "raised" -> AfterUp(p)
                     [] pc[p] = "lowered" -> IF cooldown THEN "spawn" ELSE AfterDown(p)
  <1>0. Free \notin Tasks BY TasksAssumption
  <1>1. Goto(p, to) BY DEF update_active
  <1>2. to \in {"session", "idle", "spawn", "repick"} /\ (to = "repick" => tries[p] > 0)
    BY DEF AfterUp, AfterDown, update_active
  <1>3. to \in Locations BY <1>2 DEF Locations
  <1>4. active' \in Targets BY FirstType DEF update_active
  <1> HIDE DEF to
  <1>r. Rounds' BY <1>0, <1>1, <1>2, <1>3, <1>4, GotoType, RoundsKept DEF update_active, TypeOK
  <1> QED BY <1>0, <1>1, <1>2, <1>3, <1>4, <1>r, GotoType DEF update_active, TypeOK, LockHeld, Counts, OwnTarget

LEMMA SpawnInv ==
    ASSUME PoolInv, NEW p \in Tasks, spawn_timer(p)
    PROVE  PoolInv'
  <1> USE DEF PoolInv
  <1>1. PICK s \in Timers :
         /\ pc[s] = "idle"
         /\ pc' = [pc EXCEPT ![s] = "sleep", ![p] = AfterDown(p)]
         /\ idx' = [idx EXCEPT ![s] = idx[p]]
         /\ left' = [left EXCEPT ![s] = CheckTicks]
    BY DEF spawn_timer
  <1>2. AfterDown(p) \in {"repick", "session", "idle"} /\ (AfterDown(p) = "repick" => tries[p] > 0)
    BY DEF AfterDown
  <1>3. s \in Tasks /\ s \notin Targets BY TasksAssumption DEF Tasks
  <1>4. CheckTicks \in 0..CheckTicks BY TicksAssumption
  <1>5. "sleep" \in Locations /\ AfterDown(p) \in Locations BY AfterType DEF Locations
  <1>6. pc[p] = "spawn" BY DEF spawn_timer
  <1>7. TypeOK' BY <1>1, <1>3, <1>4, <1>5 DEF spawn_timer, TypeOK
  <1>8. LockHeld' BY <1>1, <1>2, <1>3, <1>6 DEF spawn_timer, TypeOK, LockHeld
  <1>9. Counts' BY <1>1, <1>2, <1>3, <1>6 DEF spawn_timer, TypeOK, Counts
  <1>10. OwnTarget' BY <1>1, <1>3 DEF spawn_timer, TypeOK, OwnTarget, Tasks
  <1>11. Rounds' BY <1>1, <1>3, <1>6 DEF spawn_timer, TypeOK, Rounds, Tasks
  <1> QED BY <1>7, <1>8, <1>9, <1>10, <1>11

(* The steps that a caller and a probe have in common. *)
LEMMA StepInv == ASSUME PoolInv, NEW p \in Tasks, Step(p) PROVE PoolInv'
  <1> USE DEF PoolInv
  <1>1. CASE Dial(p)
    <2>1. PICK to \in {"confirm", "session", "down"} : Goto(p, to) BY <1>1 DEF Dial
    <2>2. to \in Locations BY DEF Locations
    <2>3. tries' \in [Tasks -> 0..N] /\ \A q \in Tasks \ {p} : tries'[q] = tries[q]
      BY <1>1, TargetsAssumption DEF Dial, TypeOK
    <2>r. Rounds' BY <1>1, <2>1, <2>2, <2>3, GotoType, RoundsKept DEF Dial, TypeOK
    <2> QED BY <1>1, <2>1, <2>2, <2>3, <2>r, GotoType DEF Dial, TypeOK, LockHeld, Counts, OwnTarget
  <1>2. CASE confirm(p)
    <2>1. "up" \in Locations BY DEF Locations
    <2>2. tries' \in [Tasks -> 0..N] /\ \A q \in Tasks \ {p} : tries'[q] = tries[q]
      BY <1>2, TargetsAssumption DEF confirm, TypeOK
    <2>3. recent' \subseteq Targets BY <1>2 DEF confirm, TypeOK
    <2>r. Rounds' BY <1>2, <2>1, <2>2, <2>3, GotoType, RoundsKept DEF confirm, TypeOK
    <2> QED BY <1>2, <2>1, <2>2, <2>3, <2>r, GotoType DEF confirm, TypeOK, LockHeld, Counts, OwnTarget
  <1>3. CASE ConfirmUp(p)
    <2>1. AfterUp(p) \in {"idle", "session"} BY DEF AfterUp
    <2> QED BY <1>3, <2>1, UpInv DEF ConfirmUp
  <1>4. CASE MarkDown(p) BY <1>4, DownInv
  <1>5. CASE update_active(p) BY <1>5, UpdateInv
  <1>6. CASE spawn_timer(p) BY <1>6, SpawnInv
  <1> QED BY <1>1, <1>2, <1>3, <1>4, <1>5, <1>6 DEF Step

(* The steps that only a caller takes. *)
CallerOnly(p) ==
    \/ Arrive(p) \/ pick(p) \/ Repick(p)
    \/ Reply(p) \/ SendFails(p) \/ active_moved(p) \/ SessionEnds(p)

LEMMA CallerInv == ASSUME PoolInv, NEW p \in Callers, CallerOnly(p) PROVE PoolInv'
  <1> USE DEF PoolInv
  <1>0. p \in Tasks /\ p \notin Targets BY TasksAssumption DEF Tasks
  <1>1. ASSUME Arrive(p) \/ pick(p) PROVE PoolInv'
    <2>1. pc' = [pc EXCEPT ![p] = "dial"] /\ idx' = [idx EXCEPT ![p] = active]
      BY <1>1 DEF Arrive, pick
    <2>2. job' \in [Tasks -> Jobs] BY <1>1 DEF Arrive, pick, TypeOK, Jobs
    <2>3. tries' \in [Tasks -> 0..N] /\ \A q \in Tasks \ {p} : tries'[q] = tries[q]
      BY <1>0, <1>1, TargetsAssumption DEF Arrive, pick, TypeOK, Counts
    <2>4. pc[p] \in {"idle", "pick"} BY <1>1 DEF Arrive, pick
    <2>5. UNCHANGED <<cooldown, healthy, active, health_lock, recent, up, left, scan>>
      BY <1>1 DEF Arrive, pick
    <2>6. TypeOK' BY <1>0, <2>1, <2>2, <2>3, <2>5 DEF TypeOK, Locations
    <2>7. LockHeld' BY <1>0, <2>1, <2>4, <2>5 DEF TypeOK, LockHeld
    <2>8. Counts' BY <1>0, <2>1, <2>3 DEF TypeOK, Counts
    <2>9. OwnTarget' BY <1>0, <2>1 DEF TypeOK, OwnTarget, Tasks
    <2>10. Rounds' BY <1>0, <2>1, <2>5 DEF TypeOK, Rounds, Tasks
    <2> QED BY <2>6, <2>7, <2>8, <2>9, <2>10
  <1>2. CASE Repick(p)
    <2>1. PICK to \in {"idle", "pick"} : Goto(p, to) /\ (to = "pick" => tries[p] # N /\ UNCHANGED tries)
      BY <1>2 DEF Repick
    <2>2. to \in Locations BY DEF Locations
    <2>3. tries' \in [Tasks -> 0..N] /\ \A q \in Tasks \ {p} : tries'[q] = tries[q]
      BY <1>2, TargetsAssumption DEF Repick, TypeOK
    <2>4. to = "pick" => tries'[p] < N BY <1>0, <2>1, TargetsAssumption DEF TypeOK
    <2>r. Rounds' BY <1>0, <1>2, <2>1, <2>2, <2>3, <2>4, GotoType, RoundsKept DEF Repick, TypeOK
    <2> QED BY <1>0, <1>2, <2>1, <2>2, <2>3, <2>4, <2>r, GotoType DEF Repick, TypeOK, LockHeld, Counts, OwnTarget
  <1>3. ASSUME Reply(p) \/ SendFails(p) \/ active_moved(p) \/ SessionEnds(p) PROVE PoolInv'
    <2>1. PICK to \in {"confirm", "down", "idle"} : Goto(p, to)
      BY <1>3 DEF Reply, SendFails, active_moved, SessionEnds
    <2>2. to \in Locations BY DEF Locations
    <2>3. /\ pc[p] = "session"
          /\ UNCHANGED <<cooldown, healthy, active, health_lock, recent, up, tries, left, scan>>
      BY <1>3 DEF Reply, SendFails, active_moved, SessionEnds
    <2>r. Rounds' BY <1>0, <2>1, <2>2, <2>3, GotoType, RoundsKept DEF TypeOK
    <2> QED BY <1>0, <2>1, <2>2, <2>3, <2>r, GotoType DEF TypeOK, LockHeld, Counts, OwnTarget
  <1> QED BY <1>1, <1>2, <1>3 DEF CallerOnly

(* The steps of the probe task, of time and of the environment. *)
Background == Probing \/ Tick \/ \E i \in Targets : Age(i) \/ Flip(i)

LEMMA BackgroundInv == ASSUME PoolInv, Background PROVE PoolInv'
  <1> USE DEF PoolInv
  <1>1. CASE ProbeTick \/ ProbeJoin
    <2>1. scan' \in 0..(N + 1) BY <1>1, TargetsAssumption DEF ProbeTick, ProbeJoin
    <2>2. Rounds' BY <1>1, TargetsAssumption DEF ProbeTick, ProbeJoin, Rounds, Targets
    <2> QED BY <1>1, <2>1, <2>2 DEF ProbeTick, ProbeJoin, TypeOK, LockHeld, Counts, OwnTarget
  <1>2. CASE ProbeSpawn
    <2>1. scan \in Tasks /\ scan' \in 0..(N + 1)
      BY <1>2, TargetsAssumption DEF ProbeSpawn, Tasks, Targets
    <2>2. /\ pc' \in [Tasks -> Locations]
          /\ \A q \in Tasks : pc'[q] = pc[q] \/ (q = scan /\ pc'[q] = "dial" /\ needs_probe(scan))
      BY <1>2, <2>1 DEF ProbeSpawn, TypeOK, Locations
    <2>3. pc[scan] = "idle" BY <1>2 DEF ProbeSpawn, Rounds, Targets
    <2>4. Rounds' BY <1>2, <2>1, <2>2, TargetsAssumption DEF ProbeSpawn, Rounds, Targets, Tasks
    <2> QED BY <1>2, <2>1, <2>2, <2>3, <2>4 DEF ProbeSpawn, TypeOK, LockHeld, Counts, OwnTarget
  <1>3. CASE Tick
    <2>1. left' \in [Timers -> 0..CheckTicks] BY <1>3, TicksAssumption DEF Tick, TypeOK
    <2> QED BY <1>3, <2>1 DEF Tick, TypeOK, LockHeld, Counts, OwnTarget, Rounds
  <1>4. CASE \E i \in Targets : Age(i) \/ Flip(i)
    BY <1>4 DEF Age, Flip, TypeOK, LockHeld, Counts, OwnTarget, Rounds
  <1> QED BY <1>1, <1>2, <1>3, <1>4 DEF Background, Probing

(* Every step is a step of a caller, a probe, a timer or the background. *)
LEMMA StepCases ==
    ASSUME [Next]_vars
    PROVE  \/ UNCHANGED vars
           \/ \E p \in Tasks : Step(p)
           \/ \E p \in Callers : CallerOnly(p)
           \/ \E s \in Timers : Fire(s)
           \/ Background
  <1>1. CASE \E p \in Callers :
               CallerStep(p) \/ Arrive(p) \/ Reply(p) \/ SendFails(p) \/ SessionEnds(p)
    BY <1>1 DEF CallerStep, CallerOnly, Tasks
  <1>2. CASE \E i \in Targets : Step(i) \/ Age(i) \/ Flip(i) BY <1>2 DEF Background, Tasks
  <1>3. CASE \E s \in Timers : Fire(s) \/ update_active(s) BY <1>3 DEF Step, Tasks
  <1>4. CASE Probing \/ Tick BY <1>4 DEF Background
  <1> QED BY <1>1, <1>2, <1>3, <1>4 DEF Next

LEMMA NextInv == PoolInv /\ [Next]_vars => PoolInv'
  <1> SUFFICES ASSUME PoolInv, [Next]_vars PROVE PoolInv' OBVIOUS
  <1>1. CASE UNCHANGED vars
    BY <1>1 DEF vars, PoolInv, TypeOK, LockHeld, Counts, OwnTarget, Rounds
  <1>2. CASE \E p \in Tasks : Step(p) BY <1>2, StepInv
  <1>3. CASE \E p \in Callers : CallerOnly(p) BY <1>3, CallerInv
  <1>4. CASE \E s \in Timers : Fire(s)
    <2>1. PICK s \in Timers : Fire(s) BY <1>4
    <2>2. s \in Tasks BY DEF Tasks
    <2> QED BY <2>1, <2>2, UpInv DEF Fire
  <1>5. CASE Background BY <1>5, BackgroundInv
  <1> QED BY <1>1, <1>2, <1>3, <1>4, <1>5, StepCases

LEMMA Invariant == Spec => []PoolInv
  BY InitInv, NextInv, PTL DEF Spec

(* The pool's fields keep their types; connect_active never begins an      *)
(* iteration beyond the number of targets.                                 *)
THEOREM PoolTypeCorrect == Spec => []TypeOK
  <1>1. PoolInv => TypeOK BY DEF PoolInv
  <1> QED BY <1>1, Invariant, PTL

-----------------------------------------------------------------------------
(* How a step may touch what `active' is computed from: not at all, by     *)
(* taking the lock, or by recomputing it from an unchanged `healthy'.      *)
LEMMA ActiveSteps ==
    ASSUME PoolInv, [Next]_vars
    PROVE  \/ UNCHANGED <<healthy, active, health_lock>>
           \/ health_lock' # Free
           \/ active' = First(healthy) /\ UNCHANGED healthy
  <1>0. Free \notin Tasks BY TasksAssumption
  <1>1. CASE UNCHANGED vars BY <1>1 DEF vars
  <1>2. CASE \E p \in Tasks : Step(p)
    <2>1. PICK p \in Tasks : Step(p) BY <1>2
    <2>2. CASE Dial(p) \/ confirm(p) \/ spawn_timer(p) BY <2>2 DEF Dial, confirm, spawn_timer
    <2>3. CASE ConfirmUp(p) \/ MarkDown(p)
      BY <1>0, <2>3 DEF ConfirmUp, MarkDown, mark_up, mark_down
    <2>4. CASE update_active(p) BY <2>4 DEF update_active
    <2> QED BY <2>1, <2>2, <2>3, <2>4 DEF Step
  <1>3. CASE \E p \in Callers : CallerOnly(p)
    BY <1>3 DEF CallerOnly, Arrive, pick, Repick, Reply, SendFails, active_moved, SessionEnds
  <1>4. CASE \E s \in Timers : Fire(s) BY <1>0, <1>4 DEF Fire, mark_up, Tasks
  <1>5. CASE Background
    BY <1>5 DEF Background, Probing, ProbeTick, ProbeSpawn, ProbeJoin, Tick, Age, Flip
  <1> QED BY <1>1, <1>2, <1>3, <1>4, <1>5, StepCases

(* Whatever flips race, and whatever task makes them: with no flip in      *)
(* progress the watch channel holds the highest-priority healthy target.   *)
THEOREM ActiveIsCurrent == Spec => []ActiveNotStale
  <1>1. Init => ActiveNotStale
    <2> SUFFICES ASSUME Init PROVE active = First(healthy) BY DEF ActiveNotStale
    <2> DEFINE ok == {i \in Targets : healthy[i]}
    <2>1. ok = Targets /\ 1 \in ok BY TargetsAssumption DEF Init, Targets
    <2>2. \E i \in ok : \A j \in ok : i <= j BY <2>1, SmallestTarget
    <2>3. First(healthy) \in ok /\ \A j \in ok : First(healthy) <= j BY <2>1, <2>2 DEF First
    <2>4. First(healthy) <= 1 /\ First(healthy) \in 1..N BY <2>1, <2>3 DEF Targets
    <2> QED BY <2>4, TargetsAssumption DEF Init
  <1>2. PoolInv /\ ActiveNotStale /\ [Next]_vars => ActiveNotStale'
    BY ActiveSteps DEF ActiveNotStale
  <1> QED BY <1>1, <1>2, Invariant, PTL DEF Spec

-----------------------------------------------------------------------------
\* Task p will see to it that target i is armed again.
Rearming(p, i) == idx[p] = i /\ pc[p] \in {"sleep", "lowered", "spawn"}

(* Each step leaves a task to re-arm every target that is down. *)
LEMMA RecoveryStep ==
    ASSUME PoolInv, RecoveryPending, [Next]_vars, cooldown', NEW i \in Targets, ~healthy'[i]
    PROVE  \E p \in Tasks : Rearming(p, i)'
  <1> USE DEF PoolInv
  <1>0. cooldown
    <2>1. UNCHANGED cooldown
      BY DEF Next, CallerStep, Step, Dial, confirm, ConfirmUp, MarkDown, update_active, spawn_timer,
             pick, Repick, active_moved, Arrive, Reply, SendFails, SessionEnds, Fire, Probing,
             ProbeTick, ProbeSpawn, ProbeJoin, Tick, Age, Flip, vars
    <2> QED BY <2>1
  <1>1. ASSUME ~healthy[i] PROVE \E p \in Tasks : Rearming(p, i)
    BY <1>0, <1>1 DEF RecoveryPending, Rearming
  <1>2. CASE UNCHANGED vars BY <1>1, <1>2 DEF vars, Rearming
  <1>3. ASSUME NEW p \in Tasks, Step(p) PROVE \E q \in Tasks : Rearming(q, i)'
    <2>1. ASSUME NEW to \in Locations, Goto(p, to), UNCHANGED healthy,
                 pc[p] \notin {"sleep", "lowered", "spawn"}
          PROVE  \E q \in Tasks : Rearming(q, i)'
      <3>1. PICK q \in Tasks : Rearming(q, i) BY <1>1, <2>1
      <3>2. q # p BY <2>1, <3>1 DEF Rearming
      <3> QED BY <2>1, <3>1, <3>2, GotoType DEF Rearming
    <2>2. CASE Dial(p)
      <3>1. PICK to \in {"confirm", "session", "down"} : Goto(p, to) BY <2>2 DEF Dial
      <3> QED BY <2>1, <2>2, <3>1 DEF Dial, Locations
    <2>3. CASE confirm(p) BY <2>1, <2>3 DEF confirm, Locations
    <2>4. CASE ConfirmUp(p)
      <3>1. AfterUp(p) \in Locations BY AfterType
      <3>2. CASE Goto(p, AfterUp(p)) /\ UNCHANGED healthy
        BY <2>1, <2>4, <3>1, <3>2 DEF ConfirmUp
      <3>3. CASE Goto(p, "raised") /\ healthy' = [healthy EXCEPT ![idx[p]] = TRUE]
        <4>1. ~healthy[i] BY <3>3 DEF TypeOK
        <4>2. PICK q \in Tasks : Rearming(q, i) BY <1>1, <4>1
        <4>3. q # p BY <2>4, <4>2 DEF ConfirmUp, Rearming
        <4>4. "raised" \in Locations BY DEF Locations
        <4> QED BY <3>3, <4>2, <4>3, <4>4, GotoType DEF Rearming
      <3> QED BY <2>4, <3>2, <3>3 DEF ConfirmUp, mark_up
    <2>5. CASE MarkDown(p)
      <3>1. AfterDown(p) \in Locations BY AfterType
      <3>2. CASE Goto(p, AfterDown(p)) /\ UNCHANGED healthy
        BY <2>1, <2>5, <3>1, <3>2 DEF MarkDown
      <3>3. CASE Goto(p, "lowered") /\ healthy' = [healthy EXCEPT ![idx[p]] = FALSE]
        <4>0. "lowered" \in Locations BY DEF Locations
        <4>1. CASE idx[p] = i BY <3>3, <4>0, <4>1, GotoType DEF Rearming
        <4>2. CASE idx[p] # i
          <5>1. ~healthy[i] BY <3>3, <4>2 DEF TypeOK
          <5>2. PICK q \in Tasks : Rearming(q, i) BY <1>1, <5>1
          <5> QED BY <3>3, <4>0, <4>2, <5>2, GotoType DEF Rearming
        <4> QED BY <4>1, <4>2
      <3> QED BY <2>5, <3>2, <3>3 DEF MarkDown, mark_down
    <2>6. CASE update_active(p)
      <3>1. PICK q \in Tasks : Rearming(q, i) BY <1>1, <2>6 DEF update_active
      <3>2. CASE pc[p] = "lowered"
        <4>1. Goto(p, "spawn") BY <1>0, <2>6, <3>2 DEF update_active
        <4>2. "spawn" \in Locations BY DEF Locations
        <4> QED BY <3>1, <4>1, <4>2, GotoType DEF Rearming
      <3>3. CASE pc[p] = "raised"
        <4>1. Goto(p, AfterUp(p)) BY <2>6, <3>3 DEF update_active
        <4> QED BY <2>1, <2>6, <3>3, <4>1, AfterType DEF update_active
      <3> QED BY <2>6, <3>2, <3>3 DEF update_active
    <2>7. CASE spawn_timer(p)
      <3>1. PICK s \in Timers :
             /\ pc[s] = "idle"
             /\ pc' = [pc EXCEPT ![s] = "sleep", ![p] = AfterDown(p)]
             /\ idx' = [idx EXCEPT ![s] = idx[p]]
        BY <2>7 DEF spawn_timer
      <3>2. PICK q \in Tasks : Rearming(q, i) BY <1>1, <2>7 DEF spawn_timer
      <3>3. s \in Tasks /\ s # p /\ s # q /\ pc[p] = "spawn"
        BY <2>7, <3>1, <3>2 DEF spawn_timer, Rearming, Tasks
      <3>4. CASE q = p BY <3>1, <3>2, <3>3, <3>4 DEF Rearming, TypeOK
      <3>5. CASE q # p BY <3>1, <3>2, <3>3, <3>5 DEF Rearming, TypeOK
      <3> QED BY <3>4, <3>5
    <2> QED BY <1>3, <2>2, <2>3, <2>4, <2>5, <2>6, <2>7 DEF Step
  <1>4. ASSUME NEW p \in Callers, CallerOnly(p) PROVE \E q \in Tasks : Rearming(q, i)'
    <2>1. /\ UNCHANGED healthy /\ p \in Tasks
          /\ pc[p] \notin {"sleep", "lowered", "spawn"}
      BY <1>4 DEF CallerOnly, Arrive, pick, Repick, Reply, SendFails, active_moved, SessionEnds, Tasks
    <2>2. PICK q \in Tasks : Rearming(q, i) BY <1>1, <2>1
    <2>3. q # p BY <2>1, <2>2 DEF Rearming
    <2>4. pc'[q] = pc[q] /\ idx'[q] = idx[q]
      BY <1>4, <2>1, <2>3 DEF CallerOnly, Arrive, pick, Repick, Reply, SendFails, active_moved,
                              SessionEnds, Goto, TypeOK
    <2> QED BY <2>2, <2>4 DEF Rearming
  <1>5. ASSUME NEW s \in Timers, Fire(s) PROVE \E q \in Tasks : Rearming(q, i)'
    <2>1. s \in Tasks BY DEF Tasks
    <2>2. ~healthy[i] /\ idx[s] # i BY <1>5, <2>1 DEF Fire, mark_up, TypeOK
    <2>3. PICK q \in Tasks : Rearming(q, i) BY <1>1, <2>2
    <2>4. q # s BY <2>2, <2>3 DEF Rearming
    <2>5. pc'[q] = pc[q] /\ idx'[q] = idx[q]
      BY <1>5, <2>1, <2>4 DEF Fire, mark_up, Goto, TypeOK
    <2> QED BY <2>3, <2>5 DEF Rearming
  <1>6. CASE Background
    <2>1. UNCHANGED <<healthy, idx>>
      BY <1>6 DEF Background, Probing, ProbeTick, ProbeSpawn, ProbeJoin, Tick, Age, Flip
    <2>2. PICK q \in Tasks : Rearming(q, i) BY <1>1, <2>1
    <2>3. pc'[q] = pc[q]
      <3>1. CASE ProbeSpawn
        <4>1. pc[scan] = "idle" BY <3>1 DEF ProbeSpawn, Rounds, Targets
        <4> QED BY <2>2, <3>1, <4>1 DEF ProbeSpawn, Rearming, TypeOK
      <3>2. CASE ~ProbeSpawn
        BY <1>6, <3>2 DEF Background, Probing, ProbeTick, ProbeJoin, Tick, Age, Flip
      <3> QED BY <3>1, <3>2
    <2> QED BY <2>1, <2>2, <2>3 DEF Rearming
  <1> QED BY <1>2, <1>3, <1>4, <1>5, <1>6, StepCases

(* In a UDP-only rule no target is ever down without a task that will arm  *)
(* it again, whatever the order of failures, replies and timers.           *)
THEOREM DownIsNeverForgotten == Spec => []RecoveryPending
  <1>1. Init => RecoveryPending BY DEF Init, RecoveryPending
  <1>2. PoolInv /\ RecoveryPending /\ [Next]_vars => RecoveryPending'
    <2> SUFFICES ASSUME PoolInv, RecoveryPending, [Next]_vars PROVE RecoveryPending' OBVIOUS
    <2> SUFFICES ASSUME NEW i \in Targets, cooldown', ~healthy'[i]
                 PROVE  \E p \in Tasks : Rearming(p, i)'
      BY DEF RecoveryPending, Rearming
    <2> QED BY RecoveryStep
  <1> QED BY <1>1, <1>2, Invariant, PTL DEF Spec
=============================================================================
