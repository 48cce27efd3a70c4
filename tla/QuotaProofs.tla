----------------------------- MODULE QuotaProofs -----------------------------
(***************************************************************************)
(* Proofs about Quota, for every set of actors, every limit and every size *)
(* of buffer.                                                              *)
(***************************************************************************)
EXTENDS QuotaRace, FiniteSetTheorems, TLAPS

\* The type invariant with the one fact about a call that keeps it inductive:
\* set_metering stores back a limit it has read.
TypeInv == TypeOK /\ \A p \in Actors : pc[p] = "storeLimit" => call[p].lim \in Limits

(* The bill of an hour is a natural number. *)
LEMMA BillType ==
    ASSUME NEW m \in AllMeterings, NEW u \in Nat, NEW d \in Nat
    PROVE  bill(m, u, d) \in Nat
  BY DEF bill, AllMeterings

LEMMA NoCallType == NoCall \in Calls /\ NoView \in Views /\ DefaultUsage \in SavedUsage /\ Empty \in [Dirs -> Nat]
  BY DEF NoCall, Calls, NoView, Views, DefaultUsage, SavedUsage, Empty, Dirs, AllMeterings

LEMMA InitType == Init => TypeInv
  <1> SUFFICES ASSUME Init PROVE TypeInv OBVIOUS
  <1>1. ExhaustedNow(saved, metering, limit) \in BOOLEAN BY DEF ExhaustedNow
  <1>2. \A p \in Actors : pc[p] = "idle" BY DEF Init
  <1>3. pc \in [Actors -> Locations] BY DEF Init, Locations
  <1> QED BY <1>1, <1>2, <1>3, NoCallType DEF Init, TypeInv, TypeOK

\* The steps of an actor, whatever kind of actor it is.
ActorStep(p) ==
    \/ Consume(p) \/ CheckFlag(p) \/ Report(p) \/ RollOver(p) \/ Lock(p) \/ Recheck(p)
    \/ SwapUp(p) \/ SwapDown(p) \/ Bill(p) \/ Fold(p) \/ StoreHour(p)
    \/ AddTotal(p) \/ AddBucket(p) \/ ReadLimit(p)
    \/ ReadSettled(p) \/ ReadMetering(p) \/ ReadUp(p) \/ ReadDown(p) \/ Verdict(p)
    \/ StoreFlag(p) \/ SendWatch(p)
    \/ SnapUpload(p) \/ SnapDownload(p) \/ SnapSettled(p) \/ SnapHourUp(p) \/ SnapHourDown(p)
    \/ Snapshot(p)

SetStep(p) == SetLimit(p) \/ SetMetering(p) \/ RereadLimit(p) \/ StoreLimit(p)

(* Every step but a restart is a tick, a step of some actor's call, or a   *)
(* step of a controller's set_limit or set_metering.                       *)
LEMMA RunCases ==
    ASSUME [Run]_vars
    PROVE  \/ UNCHANGED vars
           \/ Tick
           \/ \E p \in Actors : ActorStep(p)
           \/ \E p \in Controllers : p \in Actors /\ SetStep(p)
  <1>1. CASE \E p \in Threads : ThreadStep(p)
    BY <1>1 DEF ThreadStep, roll_over, used, Announce, ActorStep, Actors
  <1>2. CASE \E p \in Observers : ObserverStep(p)
    BY <1>2 DEF ObserverStep, roll_over, used, ActorStep, Actors
  <1>3. CASE \E p \in Controllers : ControllerStep(p)
    BY <1>3 DEF ControllerStep, used, Announce, ActorStep, SetStep, Actors
  <1>4. CASE \E p \in Flushers : FlusherStep(p)
    BY <1>4 DEF FlusherStep, ActorStep, Actors
  <1> QED BY <1>1, <1>2, <1>3, <1>4 DEF Run

LEMMA StepCases ==
    ASSUME [Next]_vars
    PROVE  \/ UNCHANGED vars
           \/ Tick
           \/ Restart
           \/ \E p \in Actors : ActorStep(p)
           \/ \E p \in Controllers : p \in Actors /\ SetStep(p)
  BY RunCases DEF Next

(* What a restart finds on disk has the right types. *)
LEMMA RestoredType ==
    ASSUME NEW row \in SavedUsage, NEW m \in AllMeterings, NEW now \in Nat
    PROVE  /\ RestoredSettled(row, m, now) \in Nat
           /\ RestoredHour(row, now) \in [Dirs -> Nat]
  <1>1. row.hour \in [Dirs -> Nat] /\ row.settled \in Nat BY DEF SavedUsage
  <1>2. bill(m, row.hour["up"], row.hour["down"]) \in Nat BY <1>1, BillType DEF Dirs
  <1> QED BY <1>1, <1>2, NoCallType DEF RestoredSettled, RestoredHour

LEMMA NextType == TypeInv /\ [Next]_vars => TypeInv'
  <1> SUFFICES ASSUME TypeInv, [Next]_vars PROVE TypeInv' OBVIOUS
  <1> USE NoCallType, MeteringsAssumption, LimitsAssumption, ChunksAssumption
  <1>1. CASE UNCHANGED vars
    BY <1>1 DEF vars, shared, TypeInv, TypeOK
  <1>2. CASE Tick
    BY <1>2 DEF Tick, TypeInv, TypeOK
  <1>3. CASE Restart
    <2>1. metering \in AllMeterings /\ clock \in Nat /\ saved \in SavedUsage
      BY DEF TypeInv, TypeOK
    <2>2. settled' \in Nat /\ hour' \in [Dirs -> Nat] /\ total' \in [Dirs -> Nat]
      BY <1>3, <2>1, RestoredType DEF Restart, SavedUsage
    <2>3. ExhaustedNow(saved, metering, limit) \in BOOLEAN BY DEF ExhaustedNow
    <2>4. pc' \in [Actors -> Locations] /\ \A p \in Actors : pc'[p] = "idle"
      BY <1>3 DEF Restart, Locations
    <2> QED BY <1>3, <2>2, <2>3, <2>4 DEF Restart, TypeInv, TypeOK
  <1>4. CASE \E p \in Actors : ActorStep(p)
    <2> PICK p \in Actors : ActorStep(p) BY <1>4
    <2>1. CASE Consume(p)
      <3> PICK d \in Dirs, n \in Chunks :
                 Begin(p, "check", [NoCall EXCEPT !.op = "consume", !.now = clock, !.dir = d, !.n = n])
        BY <2>1 DEF Consume
      <3>1. [NoCall EXCEPT !.op = "consume", !.now = clock, !.dir = d, !.n = n] \in Calls
        BY DEF NoCall, Calls, TypeInv, TypeOK
      <3> QED BY <2>1, <3>1 DEF Consume, Begin, At, shared, TypeInv, TypeOK, Locations
    <2>2. CASE CheckFlag(p)
      BY <2>2 DEF CheckFlag, Return, Access, At, shared, TypeInv, TypeOK, Locations
    <2>3. CASE Report(p)
      BY <2>3 DEF Report, Begin, At, shared, TypeInv, TypeOK, Calls, Locations
    <2>4. CASE RollOver(p)
      BY <2>4 DEF RollOver, AfterRoll, Access, At, shared, TypeInv, TypeOK, Locations
    <2>5. CASE Lock(p)
      BY <2>5 DEF Lock, Access, At, TypeInv, TypeOK, Locations
    <2>6. CASE Recheck(p)
      BY <2>6 DEF Recheck, AfterRoll, Access, At, TypeInv, TypeOK, Locations
    <2>7. CASE SwapUp(p)
      BY <2>7 DEF SwapUp, Swap, At, TypeInv, TypeOK, Locations, Dirs
    <2>8. CASE SwapDown(p)
      BY <2>8 DEF SwapDown, Swap, At, TypeInv, TypeOK, Locations, Dirs
    <2>9. CASE Bill(p)
      BY <2>9 DEF Bill, Load, At, shared, TypeInv, TypeOK, Locations, Views
    <2>10. CASE Fold(p)
      <3>1. bill(view[p].metering, held["up"], held["down"]) \in Nat
        BY BillType DEF TypeInv, TypeOK, Views, Dirs
      <3> QED BY <2>10, <3>1 DEF Fold, At, TypeInv, TypeOK, Locations
    <2>11. CASE StoreHour(p)
      BY <2>11 DEF StoreHour, AfterRoll, Access, At, TypeInv, TypeOK, Locations, Calls
    <2>12. CASE AddTotal(p)
      BY <2>12 DEF AddTotal, Access, At, TypeInv, TypeOK, Locations, Calls
    <2>13. CASE AddBucket(p)
      BY <2>13 DEF AddBucket, Access, At, TypeInv, TypeOK, Locations, Calls
    <2>14. CASE ReadLimit(p)
      <3>1. CASE limit = NoLimit
        BY <2>14, <3>1 DEF ReadLimit, LimitOr, Return, At, shared, TypeInv, TypeOK, Locations
      <3>2. CASE limit # NoLimit
        <4>1. call' = [call EXCEPT ![p].lim = limit] /\ pc' = [pc EXCEPT ![p] = "readSettled"]
          BY <2>14, <3>2 DEF ReadLimit, LimitOr, At
        <4>2. call' \in [Actors -> Calls] BY <4>1 DEF TypeInv, TypeOK, Calls
        <4>3. call'[p].lim \in Limits BY <4>1 DEF TypeInv, TypeOK, Calls
        <4> QED BY <2>14, <3>2, <4>1, <4>2, <4>3
                DEF ReadLimit, LimitOr, shared, TypeInv, TypeOK, Locations
      <3> QED BY <3>1, <3>2
    <2>15. CASE ReadSettled(p)
      BY <2>15 DEF ReadSettled, Load, At, shared, TypeInv, TypeOK, Locations, Views
    <2>16. CASE ReadMetering(p)
      BY <2>16 DEF ReadMetering, Load, At, shared, TypeInv, TypeOK, Locations, Views
    <2>17. CASE ReadUp(p)
      BY <2>17 DEF ReadUp, Load, At, shared, TypeInv, TypeOK, Locations, Views, Dirs
    <2>18. CASE ReadDown(p)
      BY <2>18 DEF ReadDown, Load, At, shared, TypeInv, TypeOK, Locations, Views, Dirs
    <2>19. CASE Verdict(p)
      <3>1. (UsedOf(view[p]) >= call[p].lim) \in BOOLEAN OBVIOUS
      <3>2. CASE Return(p, "verdict")
        BY <2>19, <3>2 DEF Verdict, Return, At, shared, TypeInv, TypeOK, Locations
      <3>3. CASE call' = [call EXCEPT ![p].ex = (UsedOf(view[p]) >= call[p].lim)]
                 /\ At(p, "verdict", "storeFlag") /\ UNCHANGED view
        <4>1. call' \in [Actors -> Calls]
          BY <3>1, <3>3 DEF TypeInv, TypeOK, Calls
        <4> QED BY <2>19, <3>3, <4>1 DEF Verdict, At, shared, TypeInv, TypeOK, Locations
      <3> QED BY <2>19, <3>2, <3>3 DEF Verdict
    <2>20. CASE StoreFlag(p)
      BY <2>20 DEF StoreFlag, Access, At, TypeInv, TypeOK, Locations, Calls
    <2>21. CASE SendWatch(p)
      BY <2>21 DEF SendWatch, Return, At, TypeInv, TypeOK, Locations, Calls
    <2>22. CASE SnapUpload(p)
      BY <2>22 DEF SnapUpload, SnapLoad, At, shared, TypeInv, TypeOK, Locations, SavedUsage, Dirs
    <2>23. CASE SnapDownload(p)
      BY <2>23 DEF SnapDownload, SnapLoad, At, shared, TypeInv, TypeOK, Locations, SavedUsage, Dirs
    <2>24. CASE SnapSettled(p)
      BY <2>24 DEF SnapSettled, SnapLoad, At, shared, TypeInv, TypeOK, Locations, SavedUsage
    <2>25. CASE SnapHourUp(p)
      BY <2>25 DEF SnapHourUp, SnapLoad, At, shared, TypeInv, TypeOK, Locations, SavedUsage, Dirs
    <2>26. CASE SnapHourDown(p)
      BY <2>26 DEF SnapHourDown, Return, At, TypeInv, TypeOK, Locations, SavedUsage, Dirs
    <2>27. CASE Snapshot(p)
      BY <2>27 DEF Snapshot, Begin, At, shared, TypeInv, TypeOK, Calls, Locations
    <2> QED BY <2>1, <2>2, <2>3, <2>4, <2>5, <2>6, <2>7, <2>8, <2>9, <2>10, <2>11, <2>12, <2>13,
               <2>14, <2>15, <2>16, <2>17, <2>18, <2>19, <2>20, <2>21, <2>22, <2>23, <2>24,
               <2>25, <2>26, <2>27 DEF ActorStep
  <1>5. CASE \E p \in Controllers : p \in Actors /\ SetStep(p)
    <2> PICK p \in Actors : SetStep(p) BY <1>5
    <2>1. CASE SetLimit(p)
      <3> PICK l \in Limits :
             /\ limit' = l
             /\ Begin(p, IF l = NoLimit THEN "storeFlag" ELSE "readSettled",
                      [NoCall EXCEPT !.op = "limit", !.lim = l])
        BY <2>1 DEF SetLimit
      <3>1. [NoCall EXCEPT !.op = "limit", !.lim = l] \in Calls BY DEF NoCall, Calls
      <3> QED BY <2>1, <3>1 DEF SetLimit, Begin, At, TypeInv, TypeOK, Locations
    <2>2. CASE SetMetering(p)
      BY <2>2 DEF SetMetering, Begin, At, TypeInv, TypeOK, Locations, Calls
    <2>3. CASE RereadLimit(p)
      <3>1. CASE limit = NoLimit
        BY <2>3, <3>1 DEF RereadLimit, LimitOr, Return, At, shared, TypeInv, TypeOK, Locations
      <3>2. CASE limit # NoLimit
        <4>1. call' = [call EXCEPT ![p].lim = limit] /\ pc' = [pc EXCEPT ![p] = "storeLimit"]
          BY <2>3, <3>2 DEF RereadLimit, LimitOr, At
        <4>2. call' \in [Actors -> Calls] BY <4>1 DEF TypeInv, TypeOK, Calls
        <4>3. call'[p].lim \in Limits BY <4>1 DEF TypeInv, TypeOK, Calls
        <4> QED BY <2>3, <3>2, <4>1, <4>2, <4>3
                DEF RereadLimit, LimitOr, shared, TypeInv, TypeOK, Locations
      <3> QED BY <3>1, <3>2
    <2>4. CASE StoreLimit(p)
      BY <2>4 DEF StoreLimit, Access, At, TypeInv, TypeOK, Locations, Calls
    <2> QED BY <2>1, <2>2, <2>3, <2>4 DEF SetStep
  <1> QED BY <1>1, <1>2, <1>3, <1>4, <1>5, StepCases

(* Whatever the actors interleave, the quota's fields keep their types and *)
(* every actor stays inside one of the calls of quota.rs.                  *)
THEOREM TypeCorrect == Spec => []TypeOK
  <1>1. Spec => []TypeInv BY InitType, NextType, PTL DEF Spec
  <1> QED BY <1>1, PTL DEF TypeInv

-----------------------------------------------------------------------------
LEMMA InitLock == Init => LockDiscipline
  BY NoActorAssumption DEF Init, LockDiscipline, Locked

(* A step that neither enters nor leaves a critical section. *)
LEMMA LockKept ==
    ASSUME TypeInv, LockDiscipline, NEW p \in Actors, NEW from, NEW to, At(p, from, to),
           settle_lock' = settle_lock, from \in Locked <=> to \in Locked
    PROVE  LockDiscipline'
  BY DEF TypeInv, TypeOK, LockDiscipline, At

(* A step that takes the free lock. *)
LEMMA LockTaken ==
    ASSUME TypeInv, LockDiscipline, NEW p \in Actors, NEW from, NEW to, At(p, from, to),
           settle_lock = NoActor, settle_lock' = p, from \notin Locked, to \in Locked
    PROVE  LockDiscipline'
  BY NoActorAssumption DEF TypeInv, TypeOK, LockDiscipline, At

(* A step that leaves a critical section and drops the guard. *)
LEMMA LockDropped ==
    ASSUME TypeInv, LockDiscipline, NEW p \in Actors, NEW from, NEW to, At(p, from, to),
           settle_lock' = NoActor, from \in Locked, to \notin Locked
    PROVE  LockDiscipline'
  BY NoActorAssumption DEF TypeInv, TypeOK, LockDiscipline, At

LEMMA NextLock == TypeInv /\ LockDiscipline /\ [Next]_vars => LockDiscipline'
  <1> SUFFICES ASSUME TypeInv, LockDiscipline, [Next]_vars PROVE LockDiscipline' OBVIOUS
  <1>1. CASE UNCHANGED vars BY <1>1 DEF vars, shared, LockDiscipline
  <1>2. CASE Tick BY <1>2 DEF Tick, LockDiscipline
  <1>3. CASE Restart BY <1>3, NoActorAssumption DEF Restart, LockDiscipline, Locked
  <1>4. CASE \E p \in Actors : ActorStep(p)
    <2> PICK p \in Actors : ActorStep(p) BY <1>4
    <2>1. CASE Consume(p) BY <2>1, LockKept DEF Consume, Begin, shared, Locked
    <2>2. CASE CheckFlag(p) BY <2>2, LockKept DEF CheckFlag, Return, Access, shared, Locked
    <2>3. CASE Report(p) BY <2>3, LockKept DEF Report, Begin, shared, Locked
    <2>4. CASE RollOver(p) BY <2>4, LockKept DEF RollOver, AfterRoll, Access, shared, Locked
    <2>5. CASE Lock(p) BY <2>5, LockTaken DEF Lock, Access, Locked
    <2>6. CASE Recheck(p)
      BY <2>6, LockKept, LockDropped DEF Recheck, AfterRoll, Access, Locked
    <2>7. CASE SwapUp(p) BY <2>7, LockKept DEF SwapUp, Swap, Locked
    <2>8. CASE SwapDown(p) BY <2>8, LockKept DEF SwapDown, Swap, Locked
    <2>9. CASE Bill(p) BY <2>9, LockKept DEF Bill, Load, shared, Locked
    <2>10. CASE Fold(p) BY <2>10, LockKept DEF Fold, Locked
    <2>11. CASE StoreHour(p) BY <2>11, LockDropped DEF StoreHour, AfterRoll, Access, Locked
    <2>12. CASE AddTotal(p) BY <2>12, LockKept DEF AddTotal, Access, Locked
    <2>13. CASE AddBucket(p) BY <2>13, LockKept DEF AddBucket, Access, Locked
    <2>14. CASE ReadLimit(p) BY <2>14, LockKept DEF ReadLimit, LimitOr, Return, shared, Locked
    <2>15. CASE ReadSettled(p) BY <2>15, LockKept DEF ReadSettled, Load, shared, Locked
    <2>16. CASE ReadMetering(p) BY <2>16, LockKept DEF ReadMetering, Load, shared, Locked
    <2>17. CASE ReadUp(p) BY <2>17, LockKept DEF ReadUp, Load, shared, Locked
    <2>18. CASE ReadDown(p) BY <2>18, LockKept DEF ReadDown, Load, shared, Locked
    <2>19. CASE Verdict(p) BY <2>19, LockKept DEF Verdict, Return, shared, Locked
    <2>20. CASE StoreFlag(p) BY <2>20, LockKept DEF StoreFlag, Access, Locked
    <2>21. CASE SendWatch(p) BY <2>21, LockKept DEF SendWatch, Return, Locked
    <2>22. CASE SnapUpload(p) BY <2>22, LockKept DEF SnapUpload, SnapLoad, shared, Locked
    <2>23. CASE SnapDownload(p) BY <2>23, LockKept DEF SnapDownload, SnapLoad, shared, Locked
    <2>24. CASE SnapSettled(p) BY <2>24, LockKept DEF SnapSettled, SnapLoad, shared, Locked
    <2>25. CASE SnapHourUp(p) BY <2>25, LockKept DEF SnapHourUp, SnapLoad, shared, Locked
    <2>26. CASE SnapHourDown(p) BY <2>26, LockDropped DEF SnapHourDown, Return, Locked
    <2>27. CASE Snapshot(p) BY <2>27, LockKept DEF Snapshot, Begin, shared, Locked
    <2> QED BY <2>1, <2>2, <2>3, <2>4, <2>5, <2>6, <2>7, <2>8, <2>9, <2>10, <2>11, <2>12, <2>13,
               <2>14, <2>15, <2>16, <2>17, <2>18, <2>19, <2>20, <2>21, <2>22, <2>23, <2>24,
               <2>25, <2>26, <2>27 DEF ActorStep
  <1>5. CASE \E p \in Controllers : p \in Actors /\ SetStep(p)
    <2> PICK p \in Actors : SetStep(p) BY <1>5
    <2>1. CASE SetLimit(p) BY <2>1, LockKept DEF SetLimit, Begin, Locked
    <2>2. CASE SetMetering(p) BY <2>2, LockKept DEF SetMetering, Begin, Locked
    <2>3. CASE RereadLimit(p) BY <2>3, LockKept DEF RereadLimit, LimitOr, Return, shared, Locked
    <2>4. CASE StoreLimit(p) BY <2>4, LockKept DEF StoreLimit, Access, Locked
    <2> QED BY <2>1, <2>2, <2>3, <2>4 DEF SetStep
  <1> QED BY <1>1, <1>2, <1>3, <1>4, <1>5, StepCases

(* settle_to and snapshot never run at the same time, for any number of   *)
(* relay tasks, API handlers and flush tasks.                             *)
THEOREM LockSafe == Spec => []LockDiscipline
  <1>1. Init => TypeInv /\ LockDiscipline BY InitType, InitLock
  <1>2. TypeInv /\ LockDiscipline /\ [Next]_vars => (TypeInv /\ LockDiscipline)'
    BY NextType, NextLock
  <1> QED BY <1>1, <1>2, PTL DEF Spec

-----------------------------------------------------------------------------
(***************************************************************************)
(* What used() and the state file may say of a user's bill: proofs for     *)
(* every number of relay tasks and API handlers and every size of buffer,  *)
(* while the billing rule stands.  (Changing the rule reprices the open    *)
(* bucket, so a bill read across the change is comparable to neither.)     *)
(***************************************************************************)

FixedMetering == Controllers = {} \/ \E m \in AllMeterings : Meterings = {m}

\* Where a rollover has taken bytes out of the buckets and not settled them.
Swapping == {"swapDown", "bill", "fold"}

HeldInv ==
    /\ (\A p \in Actors : pc[p] \notin Swapping) => held = Empty
    /\ (\E p \in Actors : pc[p] = "swapDown") => held["down"] = 0
    /\ \A p \in Actors : pc[p] = "fold" => view[p].metering = metering

\* The uploads a reader has seen in the bucket of an hour: they are still in
\* the bucket, or in the hands of the rollover, or the sum the reader will add
\* them to is so old that the settled sum has outgrown both.
StillDue(v) ==
    \/ v.up <= hour["up"]
    \/ v.up <= held["up"]
    \/ v.settled + v.up <= settled

ViewInv(p) ==
    /\ pc[p] \in {"readMetering", "readUp", "readDown"} => view[p].settled <= settled
    /\ pc[p] \in {"readUp", "readDown", "verdict"} => view[p].metering = metering
    /\ pc[p] = "readDown" /\ metering # "download" => StillDue(view[p])
    /\ pc[p] = "verdict" => UsedOf(view[p]) <= Due

SnapInv(p) ==
    /\ pc[p] \in {"snapHourUp", "snapHourDown"} => snap.settled = settled
    /\ pc[p] = "snapHourDown" => snap.hour["up"] <= hour["up"]

BillInv ==
    /\ TypeInv
    /\ LockDiscipline
    /\ HeldInv
    /\ \A p \in Actors : ViewInv(p) /\ SnapInv(p)
    /\ SnapshotNotAhead

LEMMA BillFacts ==
    ASSUME NEW m \in AllMeterings, NEW a \in Nat, NEW b \in Nat
    PROVE  /\ bill(m, 0, 0) = 0
           /\ bill(m, a, b) \in Nat
           /\ \A c, d \in Nat : a <= c /\ b <= d => bill(m, a, b) <= bill(m, c, d)
           /\ b <= bill(m, a, b)
           /\ m # "download" => a <= bill(m, a, b)
           /\ bill(m, a, b) <= a + b
           /\ m = "download" => bill(m, a, b) = b
           /\ \A n \in Nat : /\ bill(m, a + n, b) <= bill(m, a, b) + n
                             /\ bill(m, a, b + n) <= bill(m, a, b) + n
  BY DEF bill, AllMeterings

(* The shape of a bill, with every sum spelled out. *)
LEMMA DueFacts ==
    ASSUME TypeInv
    PROVE  /\ metering \in AllMeterings
           /\ hour["up"] \in Nat /\ hour["down"] \in Nat
           /\ held["up"] \in Nat /\ held["down"] \in Nat
           /\ settled \in Nat
           /\ Due \in Nat
  <1>1. /\ metering \in AllMeterings
        /\ hour["up"] \in Nat /\ hour["down"] \in Nat
        /\ held["up"] \in Nat /\ held["down"] \in Nat
        /\ settled \in Nat
    BY MeteringsAssumption DEF TypeInv, TypeOK, Dirs
  <1>2. /\ bill(metering, held["up"], hour["down"]) \in Nat
        /\ bill(metering, hour["up"], 0) \in Nat
        /\ bill(metering, held["up"], held["down"]) \in Nat
        /\ bill(metering, hour["up"], hour["down"]) \in Nat
    BY <1>1, BillType
  <1> QED BY <1>1, <1>2 DEF Due

LEMMA DueNatNext == ASSUME TypeInv' PROVE Due' \in Nat
  <1>1. /\ metering' \in AllMeterings
        /\ hour'["up"] \in Nat /\ hour'["down"] \in Nat
        /\ held'["up"] \in Nat /\ held'["down"] \in Nat
        /\ settled' \in Nat
    BY MeteringsAssumption DEF TypeInv, TypeOK, Dirs
  <1>2. /\ bill(metering', held'["up"], hour'["down"]) \in Nat
        /\ bill(metering', hour'["up"], 0) \in Nat
        /\ bill(metering', held'["up"], held'["down"]) \in Nat
        /\ bill(metering', hour'["up"], hour'["down"]) \in Nat
    BY <1>1, BillType
  <1> QED BY <1>1, <1>2 DEF Due

(* Nothing but a restart, a swap, a fold or a buffer touches the bill. *)
LEMMA QuietDue ==
    ASSUME metering' = metering, hour' = hour, held' = held, settled' = settled,
           \A q \in Actors : pc'[q] = "swapDown" <=> pc[q] = "swapDown"
    PROVE  Due' = Due
  BY DEF Due

(* The first swap moves the uploads from the bucket to the rollover: the   *)
(* bill is the same before and after.                                      *)
LEMMA SwapUpDue ==
    ASSUME BillInv, NEW p \in Actors, SwapUp(p) PROVE Due' = Due
  <1> DEFINE hu == hour["up"]
             hd == hour["down"]
  <1>1. pc[p] = "swapUp" /\ pc' = [pc EXCEPT ![p] = "swapDown"] /\ pc \in [Actors -> Locations]
    BY DEF SwapUp, Swap, At, BillInv, TypeInv, TypeOK
  <1>2. pc'[p] = "swapDown" BY <1>1
  <1>3. \A q \in Actors : pc[q] \notin Swapping
    BY <1>1, NoActorAssumption DEF BillInv, LockDiscipline, Locked, Swapping
  <1>4. held = Empty BY <1>3 DEF BillInv, HeldInv
  <1>5. /\ held' = [held EXCEPT !["up"] = hu] /\ hour' = [hour EXCEPT !["up"] = 0]
        /\ settled' = settled /\ metering' = metering
    BY DEF SwapUp, Swap
  <1>6. held["up"] = 0 /\ held["down"] = 0 BY <1>4 DEF Empty, Dirs
  <1>7. held'["up"] = hu /\ hour'["up"] = 0 /\ hour'["down"] = hd
    BY <1>5 DEF BillInv, TypeInv, TypeOK, Dirs
  <1>8. Due = settled + bill(metering, 0, 0) + bill(metering, hu, hd)
    BY <1>3, <1>6 DEF Due, Swapping
  <1>9. Due' = settled + bill(metering, hu, hd) + bill(metering, 0, 0)
    BY <1>2, <1>5, <1>7 DEF Due
  <1> HIDE DEF hu, hd
  <1> QED BY <1>8, <1>9, DueFacts, BillFacts DEF BillInv, hu, hd

(* The second swap: the downloads leave the bucket they were billed from. *)
LEMMA SwapDownDue ==
    ASSUME BillInv, NEW p \in Actors, SwapDown(p) PROVE Due' = Due
  <1>1. pc[p] = "swapDown" /\ pc' = [pc EXCEPT ![p] = "bill"] /\ pc \in [Actors -> Locations]
    BY DEF SwapDown, Swap, At, BillInv, TypeInv, TypeOK
  <1>2. \A q \in Actors : pc'[q] # "swapDown"
    BY <1>1, NoActorAssumption DEF BillInv, LockDiscipline, Locked
  <1>3. /\ held' = [held EXCEPT !["down"] = hour["down"]] /\ hour' = [hour EXCEPT !["down"] = 0]
        /\ settled' = settled /\ metering' = metering
    BY DEF SwapDown, Swap
  <1>4. /\ held'["up"] = held["up"] /\ held'["down"] = hour["down"]
        /\ hour'["up"] = hour["up"] /\ hour'["down"] = 0
    BY <1>3 DEF BillInv, TypeInv, TypeOK, Dirs
  <1>5. Due = settled + bill(metering, held["up"], hour["down"]) + bill(metering, hour["up"], 0)
    BY <1>1 DEF Due
  <1>6. Due' = settled + bill(metering, held["up"], hour["down"]) + bill(metering, hour["up"], 0)
    BY <1>2, <1>3, <1>4 DEF Due
  <1> QED BY <1>5, <1>6

(* Folding the finished hour in adds exactly what leaves the rollover's hands. *)
LEMMA FoldDue ==
    ASSUME BillInv, NEW p \in Actors, Fold(p)
    PROVE  /\ Due' = Due
           /\ settled' = settled + bill(metering, held["up"], held["down"])
           /\ settled <= settled' /\ settled' \in Nat
  <1>1. pc[p] = "fold" /\ pc' = [pc EXCEPT ![p] = "storeHour"] /\ pc \in [Actors -> Locations]
    BY DEF Fold, At, BillInv, TypeInv, TypeOK
  <1>2. /\ \A q \in Actors : pc[q] # "swapDown"
        /\ \A q \in Actors : pc'[q] # "swapDown"
    BY <1>1, NoActorAssumption DEF BillInv, LockDiscipline, Locked
  <1>3. settled' = settled + bill(metering, held["up"], held["down"])
    BY <1>1 DEF Fold, BillInv, HeldInv
  <1>4. held'["up"] = 0 /\ held'["down"] = 0 /\ hour' = hour /\ metering' = metering
    BY DEF Fold, Empty, Dirs
  <1>5. Due = settled + bill(metering, held["up"], held["down"])
                      + bill(metering, hour["up"], hour["down"])
    BY <1>2 DEF Due
  <1>6. Due' = settled' + bill(metering, 0, 0) + bill(metering, hour["up"], hour["down"])
    BY <1>2, <1>4 DEF Due
  <1>7. /\ bill(metering, 0, 0) = 0
        /\ bill(metering, held["up"], held["down"]) \in Nat
        /\ bill(metering, hour["up"], hour["down"]) \in Nat
        /\ settled \in Nat
    BY DueFacts, BillFacts DEF BillInv
  <1> QED BY <1>3, <1>5, <1>6, <1>7

(* A buffer adds at most its size to the bill, and takes nothing off. *)
LEMMA AddDue ==
    ASSUME BillInv, NEW p \in Actors, AddBucket(p)
    PROVE  /\ Due <= Due' /\ Due' <= Due + call[p].n
           /\ hour["up"] <= hour'["up"] /\ hour["down"] <= hour'["down"]
  <1> DEFINE n == call[p].n
  <1>1. /\ pc[p] = "addBucket" /\ pc' = [pc EXCEPT ![p] = "readLimit"]
        /\ hour' = [hour EXCEPT ![call[p].dir] = @ + n]
        /\ held' = held /\ settled' = settled /\ metering' = metering
    BY DEF AddBucket, Access, At
  <1>2. \A q \in Actors : pc'[q] = "swapDown" <=> pc[q] = "swapDown"
    BY <1>1 DEF BillInv, TypeInv, TypeOK
  <1>3. n \in Nat /\ call[p].dir \in Dirs BY DEF BillInv, TypeInv, TypeOK, Calls
  <1>4. /\ metering \in AllMeterings /\ settled \in Nat
        /\ hour["up"] \in Nat /\ hour["down"] \in Nat
        /\ held["up"] \in Nat /\ held["down"] \in Nat
    BY DueFacts DEF BillInv
  <1>5. \/ hour'["up"] = hour["up"] + n /\ hour'["down"] = hour["down"]
        \/ hour'["up"] = hour["up"] /\ hour'["down"] = hour["down"] + n
    BY <1>1, <1>3 DEF BillInv, TypeInv, TypeOK, Dirs
  <1> HIDE DEF n
  <1>6. /\ hour["up"] <= hour'["up"] /\ hour["down"] <= hour'["down"]
    BY <1>3, <1>4, <1>5
  <1>7. CASE \E q \in Actors : pc[q] = "swapDown"
    <2>1. Due = settled + bill(metering, held["up"], hour["down"]) + bill(metering, hour["up"], 0)
      BY <1>7 DEF Due
    <2>2. Due' = settled + bill(metering, held["up"], hour'["down"]) + bill(metering, hour'["up"], 0)
      BY <1>1, <1>2, <1>7 DEF Due
    <2> QED BY <1>3, <1>4, <1>5, <1>6, <2>1, <2>2 DEF n, bill, AllMeterings
  <1>8. CASE ~ \E q \in Actors : pc[q] = "swapDown"
    <2>1. Due = settled + bill(metering, held["up"], held["down"])
                        + bill(metering, hour["up"], hour["down"])
      BY <1>8 DEF Due
    <2>2. Due' = settled + bill(metering, held["up"], held["down"])
                         + bill(metering, hour'["up"], hour'["down"])
      BY <1>1, <1>2, <1>8 DEF Due
    <2> QED BY <1>3, <1>4, <1>5, <1>6, <2>1, <2>2 DEF n, bill, AllMeterings
  <1> QED BY <1>6, <1>7, <1>8

-----------------------------------------------------------------------------
\* What an actor that stands still keeps while another one steps.
Still(q) == pc'[q] = pc[q] /\ view'[q] = view[q]

(* What a reader has read so far stays below the bill. *)
LEMMA ViewKept ==
    ASSUME BillInv, TypeInv', NEW q \in Actors, Still(q), metering' = metering,
           settled <= settled', Due <= Due',
           pc[q] = "readDown" /\ metering # "download" => StillDue(view[q])'
    PROVE  ViewInv(q)'
  <1>1. settled \in Nat /\ settled' \in Nat /\ view[q].settled \in Nat
    BY DEF BillInv, TypeInv, TypeOK, Views
  <1>2. view[q].metering \in AllMeterings /\ view[q].up \in Nat /\ view[q].down \in Nat
    BY DEF BillInv, TypeInv, TypeOK, Views
  <1>3. UsedOf(view[q]) \in Nat
    <2>1. bill(view[q].metering, view[q].up, view[q].down) \in Nat BY <1>2, BillType
    <2> QED BY <1>1, <2>1 DEF UsedOf
  <1>4. Due \in Nat /\ Due' \in Nat BY DueFacts, DueNatNext DEF BillInv
  <1>5. UsedOf(view[q])' = UsedOf(view[q]) BY DEF Still, UsedOf
  <1> QED BY <1>1, <1>3, <1>4, <1>5 DEF Still, BillInv, ViewInv

LEMMA SnapKept ==
    ASSUME BillInv, NEW q \in Actors, Still(q),
           pc[q] \in {"snapHourUp", "snapHourDown"} =>
               snap' = snap /\ settled' = settled /\ hour["up"] <= hour'["up"],
           TypeInv'
    PROVE  SnapInv(q)'
  <1>1. snap.hour["up"] \in Nat /\ hour["up"] \in Nat /\ hour'["up"] \in Nat
    BY DEF BillInv, TypeInv, TypeOK, SavedUsage, Dirs
  <1> QED BY <1>1 DEF Still, BillInv, SnapInv

(* The row on disk stays below the bill as long as the bill does not fall. *)
LEMMA SavedKept ==
    ASSUME BillInv, TypeInv', saved' = saved, metering' = metering, Due <= Due'
    PROVE  SnapshotNotAhead'
  <1>1. /\ saved.settled \in Nat /\ saved.hour["up"] \in Nat /\ saved.hour["down"] \in Nat
        /\ metering \in AllMeterings
    BY MeteringsAssumption DEF BillInv, TypeInv, TypeOK, SavedUsage, Dirs
  <1>2. bill(metering, saved.hour["up"], saved.hour["down"]) \in Nat BY <1>1, BillType
  <1>3. Due \in Nat /\ Due' \in Nat BY DueFacts, DueNatNext DEF BillInv
  <1> QED BY <1>1, <1>2, <1>3 DEF BillInv, SnapshotNotAhead

(* A step of actor p that leaves the buckets and the sums alone. *)
LEMMA QuietStep ==
    ASSUME BillInv, TypeInv', LockDiscipline', NEW p \in Actors,
           \A q \in Actors \ {p} : Still(q),
           metering' = metering, hour' = hour, held' = held, settled' = settled,
           pc[p] # "swapDown", pc'[p] # "swapDown",
           pc[p] \in Swapping <=> pc'[p] \in Swapping,
           pc'[p] = "fold" => view'[p].metering = metering,
           \A q \in Actors \ {p} : pc[q] \in {"snapHourUp", "snapHourDown"} => snap' = snap,
           ViewInv(p)', SnapInv(p)',
           saved' = saved \/ SnapshotNotAhead'
    PROVE  BillInv' /\ Due' = Due
  <1>1. Due' = Due BY QuietDue DEF Still
  <1>2. Due \in Nat /\ settled \in Nat /\ hour["up"] \in Nat BY DueFacts DEF BillInv
  <1>3. Due <= Due' /\ settled <= settled' /\ hour["up"] <= hour'["up"] BY <1>1, <1>2
  <1>4. HeldInv'
    <2>1. (\A q \in Actors : pc'[q] \notin Swapping) => \A q \in Actors : pc[q] \notin Swapping
      BY DEF Still
    <2>2. (\E q \in Actors : pc'[q] = "swapDown") => \E q \in Actors : pc[q] = "swapDown"
      BY DEF Still
    <2> QED BY <2>1, <2>2 DEF BillInv, HeldInv, Still
  <1>5. ASSUME NEW q \in Actors PROVE ViewInv(q)' /\ SnapInv(q)'
    <2>1. CASE q = p BY <2>1
    <2>2. CASE q # p
      <3>1. Still(q) BY <2>2
      <3>2. pc[q] = "readDown" /\ metering # "download" => StillDue(view[q])'
        BY <3>1 DEF BillInv, ViewInv, StillDue, Still
      <3> QED BY <1>3, <2>2, <3>1, <3>2, ViewKept, SnapKept
    <2> QED BY <2>1, <2>2
  <1>6. SnapshotNotAhead' BY <1>3, SavedKept
  <1> QED BY <1>1, <1>4, <1>5, <1>6 DEF BillInv

\* The locations at which a reader or a snapshot has something to lose.
Watched == {"readMetering", "readUp", "readDown", "verdict", "snapHourUp", "snapHourDown"}

(* A step to a location where nothing has been read yet. *)
LEMMA PlainStep ==
    ASSUME BillInv, TypeInv', LockDiscipline', NEW p \in Actors, NEW from, NEW to,
           At(p, from, to), from \notin Swapping, to \notin Swapping \cup Watched,
           \A q \in Actors \ {p} : view'[q] = view[q],
           metering' = metering, hour' = hour, held' = held, settled' = settled,
           snap' = snap \/ from \in Locked,
           saved' = saved \/ SnapshotNotAhead'
    PROVE  BillInv' /\ Due' = Due
  <1>1. pc[p] = from /\ pc'[p] = to /\ \A q \in Actors \ {p} : pc'[q] = pc[q]
    BY DEF At, BillInv, TypeInv, TypeOK
  <1>2. \A q \in Actors \ {p} : Still(q) BY <1>1 DEF Still
  <1>3. \A q \in Actors \ {p} : pc[q] \in {"snapHourUp", "snapHourDown"} => snap' = snap
    BY <1>1 DEF BillInv, LockDiscipline, Locked
  <1>4. ViewInv(p)' /\ SnapInv(p)' BY <1>1 DEF ViewInv, SnapInv, Watched
  <1> QED BY <1>1, <1>2, <1>3, <1>4, QuietStep DEF Swapping, Watched

LEMMA SwapUpStep ==
    ASSUME BillInv, TypeInv', LockDiscipline', NEW p \in Actors, SwapUp(p) PROVE BillInv'
  <1>1. /\ pc[p] = "swapUp" /\ pc' = [pc EXCEPT ![p] = "swapDown"]
        /\ held' = [held EXCEPT !["up"] = hour["up"]] /\ hour' = [hour EXCEPT !["up"] = 0]
        /\ settled' = settled /\ metering' = metering /\ saved' = saved
        /\ view' = view /\ snap' = snap
    BY DEF SwapUp, Swap, At
  <1>2. pc'[p] = "swapDown" /\ \A q \in Actors \ {p} : Still(q)
    BY <1>1 DEF Still, BillInv, TypeInv, TypeOK
  <1>3. \A q \in Actors : pc[q] \in Locked => q = p
    BY <1>1 DEF BillInv, LockDiscipline, Locked
  <1>4. held = Empty BY <1>1, <1>3 DEF BillInv, HeldInv, Swapping, Locked
  <1>5. /\ held["up"] = 0 /\ held'["down"] = 0 /\ held'["up"] = hour["up"]
        /\ hour["up"] \in Nat /\ settled \in Nat
    BY <1>1, <1>4 DEF Empty, Dirs, BillInv, TypeInv, TypeOK
  <1>6. Due' = Due /\ Due \in Nat BY SwapUpDue, DueFacts DEF BillInv
  <1>7. HeldInv'
    BY <1>1, <1>2, <1>3, <1>5 DEF HeldInv, Swapping, Still, Locked
  <1>8. ASSUME NEW q \in Actors PROVE ViewInv(q)' /\ SnapInv(q)'
    <2>1. CASE q = p BY <1>2, <2>1 DEF ViewInv, SnapInv
    <2>2. CASE q # p
      <3>1. Still(q) BY <1>2, <2>2
      <3>2. view[q].up \in Nat /\ view[q].settled \in Nat /\ hour["down"] \in Nat
        BY DEF BillInv, TypeInv, TypeOK, Views, Dirs
      <3>3. pc[q] = "readDown" /\ metering # "download" => StillDue(view[q])'
        BY <1>1, <1>5, <3>1, <3>2 DEF BillInv, ViewInv, StillDue, Still
      <3>4. pc[q] \notin Locked BY <1>3, <2>2
      <3> QED BY <1>1, <1>5, <1>6, <3>1, <3>3, <3>4, ViewKept, SnapKept DEF Locked
    <2> QED BY <2>1, <2>2
  <1>9. SnapshotNotAhead' BY <1>1, <1>6, SavedKept
  <1> QED BY <1>7, <1>8, <1>9 DEF BillInv

LEMMA SwapDownStep ==
    ASSUME BillInv, TypeInv', LockDiscipline', NEW p \in Actors, SwapDown(p) PROVE BillInv'
  <1>1. /\ pc[p] = "swapDown" /\ pc' = [pc EXCEPT ![p] = "bill"]
        /\ held' = [held EXCEPT !["down"] = hour["down"]] /\ hour' = [hour EXCEPT !["down"] = 0]
        /\ settled' = settled /\ metering' = metering /\ saved' = saved
        /\ view' = view /\ snap' = snap
    BY DEF SwapDown, Swap, At
  <1>2. pc'[p] = "bill" /\ \A q \in Actors \ {p} : Still(q)
    BY <1>1 DEF Still, BillInv, TypeInv, TypeOK
  <1>3. \A q \in Actors : pc[q] \in Locked => q = p
    BY <1>1 DEF BillInv, LockDiscipline, Locked
  <1>4. held'["up"] = held["up"] /\ hour'["up"] = hour["up"] /\ settled \in Nat /\ hour["up"] \in Nat
    BY <1>1 DEF Dirs, BillInv, TypeInv, TypeOK
  <1>5. Due' = Due /\ Due \in Nat BY SwapDownDue, DueFacts DEF BillInv
  <1>6. HeldInv'
    BY <1>2, <1>3 DEF HeldInv, Swapping, Still, Locked
  <1>7. ASSUME NEW q \in Actors PROVE ViewInv(q)' /\ SnapInv(q)'
    <2>1. CASE q = p BY <1>2, <2>1 DEF ViewInv, SnapInv
    <2>2. CASE q # p
      <3>1. Still(q) BY <1>2, <2>2
      <3>2. pc[q] = "readDown" /\ metering # "download" => StillDue(view[q])'
        BY <1>1, <1>4, <3>1 DEF BillInv, ViewInv, StillDue, Still
      <3>3. pc[q] \notin Locked BY <1>3, <2>2
      <3> QED BY <1>1, <1>4, <1>5, <3>1, <3>2, <3>3, ViewKept, SnapKept DEF Locked
    <2> QED BY <2>1, <2>2
  <1>8. SnapshotNotAhead' BY <1>1, <1>5, SavedKept
  <1> QED BY <1>6, <1>7, <1>8 DEF BillInv

LEMMA FoldStep ==
    ASSUME BillInv, TypeInv', LockDiscipline', NEW p \in Actors, Fold(p) PROVE BillInv'
  <1>1. /\ pc[p] = "fold" /\ pc' = [pc EXCEPT ![p] = "storeHour"]
        /\ held' = Empty /\ hour' = hour /\ metering' = metering /\ saved' = saved
        /\ view' = view /\ snap' = snap
    BY DEF Fold, At
  <1>2. pc'[p] = "storeHour" /\ \A q \in Actors \ {p} : Still(q)
    BY <1>1 DEF Still, BillInv, TypeInv, TypeOK
  <1>3. \A q \in Actors : pc[q] \in Locked => q = p
    BY <1>1 DEF BillInv, LockDiscipline, Locked
  <1>4. /\ settled' = settled + bill(metering, held["up"], held["down"])
        /\ settled <= settled' /\ settled' \in Nat /\ settled \in Nat
        /\ Due' = Due /\ Due \in Nat
    BY FoldDue, DueFacts DEF BillInv
  <1>5. /\ bill(metering, held["up"], held["down"]) \in Nat
        /\ metering # "download" => held["up"] <= bill(metering, held["up"], held["down"])
        /\ held["up"] \in Nat /\ hour["up"] \in Nat
    BY BillFacts, DueFacts DEF BillInv
  <1>6. HeldInv'
    BY <1>1, <1>2, <1>3 DEF HeldInv, Swapping, Still, Locked, Empty, Dirs
  <1>7. ASSUME NEW q \in Actors PROVE ViewInv(q)' /\ SnapInv(q)'
    <2>1. CASE q = p BY <1>2, <2>1 DEF ViewInv, SnapInv
    <2>2. CASE q # p
      <3>1. Still(q) BY <1>2, <2>2
      <3>2. view[q].up \in Nat /\ view[q].settled \in Nat
        BY DEF BillInv, TypeInv, TypeOK, Views
      <3>3. pc[q] = "readDown" => view[q].settled <= settled BY DEF BillInv, ViewInv
      <3>4. pc[q] = "readDown" /\ metering # "download" => StillDue(view[q])'
        BY <1>1, <1>4, <1>5, <3>1, <3>2, <3>3 DEF BillInv, ViewInv, StillDue, Still
      <3>5. pc[q] \notin Locked BY <1>3, <2>2
      <3> QED BY <1>1, <1>4, <3>1, <3>4, <3>5, ViewKept, SnapKept DEF Locked
    <2> QED BY <2>1, <2>2
  <1>8. SnapshotNotAhead' BY <1>1, <1>4, SavedKept
  <1> QED BY <1>6, <1>7, <1>8 DEF BillInv

LEMMA AddBucketStep ==
    ASSUME BillInv, TypeInv', LockDiscipline', NEW p \in Actors, AddBucket(p) PROVE BillInv'
  <1>1. /\ pc[p] = "addBucket" /\ pc' = [pc EXCEPT ![p] = "readLimit"]
        /\ held' = held /\ settled' = settled /\ metering' = metering /\ saved' = saved
        /\ view' = view /\ snap' = snap
    BY DEF AddBucket, Access, At
  <1>2. pc'[p] = "readLimit" /\ \A q \in Actors \ {p} : Still(q)
    BY <1>1 DEF Still, BillInv, TypeInv, TypeOK
  <1>3. /\ Due <= Due' /\ hour["up"] <= hour'["up"]
        /\ settled \in Nat /\ hour["up"] \in Nat /\ hour'["up"] \in Nat
    BY AddDue, DueFacts DEF BillInv, TypeInv, TypeOK, Dirs
  <1>4. HeldInv'
    <2>1. \A q \in Actors : pc'[q] \in Swapping <=> pc[q] \in Swapping
      BY <1>1, <1>2 DEF Still, Swapping
    <2>2. \A q \in Actors : /\ pc'[q] = "swapDown" <=> pc[q] = "swapDown"
                            /\ pc'[q] = "fold" <=> pc[q] = "fold"
      BY <1>1, <1>2 DEF Still
    <2> QED BY <1>1, <2>1, <2>2 DEF BillInv, HeldInv
  <1>5. ASSUME NEW q \in Actors PROVE ViewInv(q)' /\ SnapInv(q)'
    <2>1. CASE q = p BY <1>2, <2>1 DEF ViewInv, SnapInv
    <2>2. CASE q # p
      <3>1. Still(q) BY <1>2, <2>2
      <3>2. view[q].up \in Nat BY DEF BillInv, TypeInv, TypeOK, Views
      <3>3. pc[q] = "readDown" /\ metering # "download" => StillDue(view[q])'
        BY <1>1, <1>3, <3>1, <3>2 DEF BillInv, ViewInv, StillDue, Still
      <3> QED BY <1>1, <1>3, <3>1, <3>3, ViewKept, SnapKept
    <2> QED BY <2>1, <2>2
  <1>6. SnapshotNotAhead' BY <1>1, <1>3, SavedKept
  <1> QED BY <1>4, <1>5, <1>6 DEF BillInv

-----------------------------------------------------------------------------
(* The loads of used(). *)
LEMMA LoadStep ==
    ASSUME BillInv, TypeInv', LockDiscipline', NEW p \in Actors, metering' = metering,
           \/ ReadSettled(p) \/ ReadMetering(p) \/ ReadUp(p) \/ ReadDown(p) \/ Bill(p)
    PROVE  BillInv' /\ Due' = Due
  <1>1. /\ hour' = hour /\ held' = held /\ settled' = settled /\ saved' = saved /\ snap' = snap
        /\ pc \in [Actors -> Locations] /\ view \in [Actors -> Views]
    BY DEF ReadSettled, ReadMetering, ReadUp, ReadDown, Bill, Load, shared, BillInv, TypeInv, TypeOK
  <1>2. \A q \in Actors \ {p} : Still(q)
    BY <1>1 DEF ReadSettled, ReadMetering, ReadUp, ReadDown, Bill, Load, At, Still
  <1>3. /\ metering \in AllMeterings /\ settled \in Nat /\ Due \in Nat
        /\ hour["up"] \in Nat /\ hour["down"] \in Nat /\ held["up"] \in Nat /\ held["down"] \in Nat
    BY DueFacts DEF BillInv
  <1>4. view[p] \in Views BY <1>1
  <1>5. CASE ReadSettled(p)
    <2>1. pc[p] = "readSettled" /\ pc'[p] = "readMetering" /\ view'[p].settled = settled
      BY <1>1, <1>4, <1>5 DEF ReadSettled, Load, At, Views
    <2>2. ViewInv(p)' /\ SnapInv(p)' BY <1>1, <1>3, <2>1 DEF ViewInv, SnapInv
    <2> QED BY <1>1, <1>2, <2>1, <2>2, QuietStep DEF Swapping
  <1>6. CASE ReadMetering(p)
    <2>1. /\ pc[p] = "readMetering" /\ pc'[p] = "readUp"
          /\ view'[p].settled = view[p].settled /\ view'[p].metering = metering
      BY <1>1, <1>4, <1>6 DEF ReadMetering, Load, At, Views
    <2>2. ViewInv(p)' /\ SnapInv(p)' BY <1>1, <2>1 DEF BillInv, ViewInv, SnapInv
    <2> QED BY <1>1, <1>2, <2>1, <2>2, QuietStep DEF Swapping
  <1>7. CASE ReadUp(p)
    <2>1. /\ pc[p] = "readUp" /\ pc'[p] = "readDown"
          /\ view'[p].settled = view[p].settled /\ view'[p].metering = view[p].metering
          /\ view'[p].up = hour["up"]
      BY <1>1, <1>4, <1>7 DEF ReadUp, Load, At, Views
    <2>2. StillDue(view[p])' BY <1>1, <1>3, <2>1 DEF StillDue
    <2>3. ViewInv(p)' /\ SnapInv(p)' BY <1>1, <2>1, <2>2 DEF BillInv, ViewInv, SnapInv
    <2> QED BY <1>1, <1>2, <2>1, <2>3, QuietStep DEF Swapping
  <1>8. CASE ReadDown(p)
    <2> DEFINE s == view[p].settled
               u == view[p].up
               d == hour["down"]
    <2>1. /\ pc[p] = "readDown" /\ pc'[p] = "verdict"
          /\ view'[p].settled = s /\ view'[p].metering = view[p].metering
          /\ view'[p].up = u /\ view'[p].down = d
      BY <1>1, <1>4, <1>8 DEF ReadDown, Load, At, Views
    <2>2. /\ view[p].metering = metering /\ s <= settled
          /\ metering # "download" => StillDue(view[p])
      BY <2>1 DEF BillInv, ViewInv
    <2>3. UsedOf(view[p])' = s + bill(metering, u, d) BY <2>1, <2>2 DEF UsedOf
    <2>4. s \in Nat /\ u \in Nat BY <1>4 DEF Views
    <2>5. \A q \in Actors : pc'[q] = "swapDown" <=> pc[q] = "swapDown"
      BY <1>2, <2>1 DEF Still
    <2>6. Due' = Due BY <1>1, <2>5, QuietDue
    <2>7. s + bill(metering, u, d) <= Due
      <3>1. CASE \E q \in Actors : pc[q] = "swapDown"
        <4>1. Due = settled + bill(metering, held["up"], d) + bill(metering, hour["up"], 0)
          BY <3>1 DEF Due
        <4> HIDE DEF s, u, d
        <4> QED BY <1>3, <2>2, <2>4, <4>1 DEF StillDue, bill, AllMeterings, s, u, d
      <3>2. CASE ~ \E q \in Actors : pc[q] = "swapDown"
        <4>1. Due = settled + bill(metering, held["up"], held["down"]) + bill(metering, hour["up"], d)
          BY <3>2 DEF Due
        <4> HIDE DEF s, u, d
        <4> QED BY <1>3, <2>2, <2>4, <4>1 DEF StillDue, bill, AllMeterings, s, u, d
      <3> QED BY <3>1, <3>2
    <2>8. ViewInv(p)' /\ SnapInv(p)'
      BY <2>1, <2>2, <2>3, <2>6, <2>7 DEF ViewInv, SnapInv
    <2> QED BY <1>1, <1>2, <2>1, <2>8, QuietStep DEF Swapping
  <1>9. CASE Bill(p)
    <2>1. pc[p] = "bill" /\ pc'[p] = "fold" /\ view'[p].metering = metering
      BY <1>1, <1>4, <1>9 DEF Bill, Load, At, Views
    <2>2. ViewInv(p)' /\ SnapInv(p)' BY <2>1 DEF ViewInv, SnapInv
    <2> QED BY <1>1, <1>2, <2>1, <2>2, QuietStep DEF Swapping
  <1> QED BY <1>5, <1>6, <1>7, <1>8, <1>9

(* The loads of snapshot, which holds the lock. *)
LEMMA SnapStep ==
    ASSUME BillInv, TypeInv', LockDiscipline', NEW p \in Actors, metering' = metering,
           \/ SnapUpload(p) \/ SnapDownload(p) \/ SnapSettled(p) \/ SnapHourUp(p) \/ SnapHourDown(p)
    PROVE  BillInv' /\ Due' = Due
  <1>1. /\ hour' = hour /\ held' = held /\ settled' = settled
        /\ pc \in [Actors -> Locations] /\ view \in [Actors -> Views]
    BY DEF SnapUpload, SnapDownload, SnapSettled, SnapHourUp, SnapHourDown, SnapLoad, shared,
           BillInv, TypeInv, TypeOK
  <1>2. /\ pc[p] \in Locked
        /\ \A q \in Actors \ {p} : Still(q)
    BY <1>1 DEF SnapUpload, SnapDownload, SnapSettled, SnapHourUp, SnapHourDown, SnapLoad, Return,
                At, Still, Locked
  <1>3. \A q \in Actors \ {p} : pc[q] \notin Locked
    BY <1>2 DEF BillInv, LockDiscipline
  <1>4. settled \in Nat /\ hour["up"] \in Nat /\ hour["down"] \in Nat /\ metering \in AllMeterings
    BY DueFacts DEF BillInv
  <1>5. snap \in SavedUsage BY DEF BillInv, TypeInv, TypeOK
  <1>6. CASE SnapUpload(p)
    BY <1>1, <1>6, PlainStep DEF SnapUpload, SnapLoad, shared, Swapping, Watched, Locked
  <1>7. CASE SnapDownload(p)
    BY <1>1, <1>7, PlainStep DEF SnapDownload, SnapLoad, shared, Swapping, Watched, Locked
  <1>8. CASE SnapSettled(p)
    <2>1. /\ pc[p] = "snapSettled" /\ pc'[p] = "snapHourUp" /\ snap'.settled = settled
          /\ saved' = saved
      BY <1>1, <1>5, <1>8 DEF SnapSettled, SnapLoad, At, shared, SavedUsage
    <2>2. ViewInv(p)' /\ SnapInv(p)' BY <1>1, <1>4, <2>1 DEF ViewInv, SnapInv
    <2> QED BY <1>1, <1>2, <1>3, <2>1, <2>2, QuietStep DEF Swapping, Locked
  <1>9. CASE SnapHourUp(p)
    <2>1. /\ pc[p] = "snapHourUp" /\ pc'[p] = "snapHourDown" /\ snap'.settled = snap.settled
          /\ snap'.hour["up"] = hour["up"] /\ saved' = saved
      BY <1>1, <1>5, <1>9 DEF SnapHourUp, SnapLoad, At, shared, SavedUsage, Dirs
    <2>2. ViewInv(p)' /\ SnapInv(p)'
      BY <1>1, <1>4, <2>1 DEF BillInv, ViewInv, SnapInv
    <2> QED BY <1>1, <1>2, <1>3, <2>1, <2>2, QuietStep DEF Swapping, Locked
  <1>10. CASE SnapHourDown(p)
    <2>1. /\ pc[p] = "snapHourDown" /\ pc'[p] = "idle"
          /\ saved' = [snap EXCEPT !.hour["down"] = hour["down"], !.hour_id = bucket_hour]
      BY <1>1, <1>10 DEF SnapHourDown, Return, At
    <2>2. /\ saved'.settled = snap.settled /\ saved'.hour["up"] = snap.hour["up"]
          /\ saved'.hour["down"] = hour["down"]
      BY <1>5, <2>1 DEF SavedUsage, Dirs
    <2>3. snap.settled = settled /\ snap.hour["up"] <= hour["up"]
      BY <2>1 DEF BillInv, SnapInv
    <2>4. snap.settled \in Nat /\ snap.hour["up"] \in Nat BY <1>5 DEF SavedUsage, Dirs
    <2>5. /\ \A q \in Actors : pc[q] # "swapDown"
          /\ \A q \in Actors : pc'[q] # "swapDown"
          /\ held = Empty
      BY <1>2, <1>3, <2>1 DEF BillInv, HeldInv, Swapping, Locked, Still
    <2>6. Due = settled + bill(metering, 0, 0) + bill(metering, hour["up"], hour["down"])
      BY <2>5 DEF Due, Empty, Dirs
    <2>7. Due' = Due BY <1>1, <2>5, QuietDue
    <2>8. snap.settled + bill(metering, snap.hour["up"], hour["down"]) <= Due
      BY <1>4, <2>3, <2>4, <2>6 DEF bill, AllMeterings
    <2>9. SnapshotNotAhead' BY <2>2, <2>7, <2>8 DEF SnapshotNotAhead
    <2>10. ViewInv(p)' /\ SnapInv(p)' BY <2>1 DEF ViewInv, SnapInv
    <2> QED BY <1>1, <1>2, <1>3, <2>1, <2>9, <2>10, QuietStep DEF Swapping, Locked
  <1> QED BY <1>6, <1>7, <1>8, <1>9, <1>10

(* A restart takes the bill back to the one on disk. *)
LEMMA RestartStep ==
    ASSUME BillInv, TypeInv', LockDiscipline', Restart
    PROVE  /\ BillInv' /\ Due' <= Due
           /\ Due' = saved.settled + bill(metering, saved.hour["up"], saved.hour["down"])
  <1>1. /\ \A q \in Actors : pc'[q] = "idle"
        /\ held' = Empty /\ metering' = metering /\ saved' = saved
        /\ settled' = RestoredSettled(saved, metering, clock)
        /\ hour' = RestoredHour(saved, clock)
    BY DEF Restart
  <1>2. /\ saved.settled \in Nat /\ saved.hour["up"] \in Nat /\ saved.hour["down"] \in Nat
        /\ metering \in AllMeterings
    BY MeteringsAssumption DEF BillInv, TypeInv, TypeOK, SavedUsage, Dirs
  <1>3. bill(metering, saved.hour["up"], saved.hour["down"]) \in Nat /\ bill(metering, 0, 0) = 0
    BY <1>2, BillFacts
  <1>4. Due' = settled' + bill(metering, 0, 0) + bill(metering, hour'["up"], hour'["down"])
    BY <1>1 DEF Due, Empty, Dirs
  <1>5. Due' = saved.settled + bill(metering, saved.hour["up"], saved.hour["down"])
    <2>1. CASE saved.hour_id = clock
      BY <1>1, <1>2, <1>3, <1>4, <2>1 DEF RestoredSettled, RestoredHour
    <2>2. CASE saved.hour_id # clock
      BY <1>1, <1>2, <1>3, <1>4, <2>2 DEF RestoredSettled, RestoredHour, Empty, Dirs
    <2> QED BY <2>1, <2>2
  <1>6. SnapshotNotAhead' BY <1>1, <1>2, <1>3, <1>5 DEF SnapshotNotAhead
  <1>7. HeldInv' BY <1>1 DEF HeldInv
  <1>8. \A q \in Actors : ViewInv(q)' /\ SnapInv(q)' BY <1>1 DEF ViewInv, SnapInv
  <1>9. Due' <= Due BY <1>5 DEF BillInv, SnapshotNotAhead
  <1> QED BY <1>5, <1>6, <1>7, <1>8, <1>9 DEF BillInv

-----------------------------------------------------------------------------
(* While the rule stands, no step changes it. *)
LEMMA MeteringKept ==
    ASSUME FixedMetering, TypeInv, TypeInv', [Next]_vars PROVE metering' = metering
  <1>1. CASE \E m \in AllMeterings : Meterings = {m} BY <1>1 DEF TypeInv, TypeOK
  <1>2. CASE Controllers = {}
    <2>1. CASE UNCHANGED vars BY <2>1 DEF vars, shared
    <2>2. CASE Tick BY <2>2 DEF Tick
    <2>3. CASE Restart BY <2>3 DEF Restart
    <2>4. CASE \E p \in Actors : ActorStep(p)
      BY <2>4 DEF ActorStep, Consume, CheckFlag, Report, RollOver, Lock, Recheck, SwapUp, SwapDown,
         Swap, Bill, Fold, StoreHour, AddTotal, AddBucket, ReadLimit, LimitOr, ReadSettled,
         ReadMetering, ReadUp, ReadDown, Load, Verdict, StoreFlag, SendWatch, SnapUpload,
         SnapDownload, SnapSettled, SnapHourUp, SnapHourDown, SnapLoad, Snapshot, shared
    <2> QED BY <1>2, <2>1, <2>2, <2>3, <2>4, StepCases
  <1> QED BY <1>1, <1>2 DEF FixedMetering

(* One step of the system: the invariant, and what happens to the bill. *)
LEMMA BillStep ==
    ASSUME FixedMetering, BillInv, [Next]_vars
    PROVE  /\ BillInv'
           /\ \/ Due' = Due
              \/ Restart /\ Due' <= Due
              \/ \E p \in Actors : AddBucket(p) /\ Due <= Due' /\ Due' <= Due + call[p].n
  <1> USE DEF Swapping, Watched
  <1>1. TypeInv' /\ LockDiscipline' BY NextType, NextLock DEF BillInv
  <1>2. metering' = metering BY <1>1, MeteringKept DEF BillInv
  <1>3. pc \in [Actors -> Locations] /\ view \in [Actors -> Views]
    BY DEF BillInv, TypeInv, TypeOK
  <1>4. CASE UNCHANGED vars
    BY <1>4, <1>1 DEF vars, shared, BillInv, HeldInv, ViewInv, SnapInv, StillDue, SnapshotNotAhead, Due
  <1>5. CASE Tick
    BY <1>5, <1>1 DEF Tick, BillInv, HeldInv, ViewInv, SnapInv, StillDue, SnapshotNotAhead, Due
  <1>6. CASE Restart BY <1>6, <1>1, RestartStep
  <1>7. CASE \E p \in Actors : ActorStep(p)
    <2> PICK p \in Actors : ActorStep(p) BY <1>7
    <2>1. CASE Consume(p) BY <1>1, <1>2, <1>3, <2>1, PlainStep DEF Consume, Begin, shared
    <2>2. CASE CheckFlag(p) BY <1>1, <1>2, <1>3, <2>2, PlainStep DEF CheckFlag, Return, Access, shared
    <2>3. CASE Report(p) BY <1>1, <1>2, <1>3, <2>3, PlainStep DEF Report, Begin, shared
    <2>4. CASE RollOver(p) BY <1>1, <1>2, <1>3, <2>4, PlainStep DEF RollOver, AfterRoll, Access, shared
    <2>5. CASE Lock(p) BY <1>1, <1>2, <1>3, <2>5, PlainStep DEF Lock, Access
    <2>6. CASE Recheck(p) BY <1>1, <1>2, <1>3, <2>6, PlainStep DEF Recheck, AfterRoll, Access
    <2>7. CASE StoreHour(p) BY <1>1, <1>2, <1>3, <2>7, PlainStep DEF StoreHour, AfterRoll, Access
    <2>8. CASE AddTotal(p) BY <1>1, <1>2, <1>3, <2>8, PlainStep DEF AddTotal, Access
    <2>9. CASE ReadLimit(p) BY <1>1, <1>2, <1>3, <2>9, PlainStep DEF ReadLimit, LimitOr, Return, shared
    <2>10. CASE Verdict(p) BY <1>1, <1>2, <1>3, <2>10, PlainStep DEF Verdict, Return, shared
    <2>11. CASE StoreFlag(p) BY <1>1, <1>2, <1>3, <2>11, PlainStep DEF StoreFlag, Access
    <2>12. CASE SendWatch(p) BY <1>1, <1>2, <1>3, <2>12, PlainStep DEF SendWatch, Return
    <2>13. CASE Snapshot(p) BY <1>1, <1>2, <1>3, <2>13, PlainStep DEF Snapshot, Begin, shared
    <2>14. CASE SwapUp(p) BY <1>1, <2>14, SwapUpStep, SwapUpDue
    <2>15. CASE SwapDown(p) BY <1>1, <2>15, SwapDownStep, SwapDownDue
    <2>16. CASE Fold(p) BY <1>1, <2>16, FoldStep, FoldDue
    <2>17. CASE AddBucket(p) BY <1>1, <2>17, AddBucketStep, AddDue
    <2>18. CASE \/ ReadSettled(p) \/ ReadMetering(p) \/ ReadUp(p) \/ ReadDown(p) \/ Bill(p)
      BY <1>1, <1>2, <2>18, LoadStep
    <2>19. CASE \/ SnapUpload(p) \/ SnapDownload(p) \/ SnapSettled(p) \/ SnapHourUp(p)
                \/ SnapHourDown(p)
      BY <1>1, <1>2, <2>19, SnapStep
    <2> QED BY <2>1, <2>2, <2>3, <2>4, <2>5, <2>6, <2>7, <2>8, <2>9, <2>10, <2>11, <2>12, <2>13,
               <2>14, <2>15, <2>16, <2>17, <2>18, <2>19 DEF ActorStep
  <1>8. CASE \E p \in Controllers : p \in Actors /\ SetStep(p)
    <2> PICK p \in Actors : SetStep(p) BY <1>8
    <2>1. CASE SetLimit(p) BY <1>1, <1>2, <1>3, <2>1, PlainStep DEF SetLimit, Begin
    <2>2. CASE SetMetering(p) BY <1>1, <1>2, <1>3, <2>2, PlainStep DEF SetMetering, Begin
    <2>3. CASE RereadLimit(p) BY <1>1, <1>2, <1>3, <2>3, PlainStep DEF RereadLimit, LimitOr, Return, shared
    <2>4. CASE StoreLimit(p) BY <1>1, <1>2, <1>3, <2>4, PlainStep DEF StoreLimit, Access
    <2> QED BY <2>1, <2>2, <2>3, <2>4 DEF SetStep
  <1> QED BY <1>4, <1>5, <1>6, <1>7, <1>8, StepCases

LEMMA InitBill == Init => BillInv
  <1> SUFFICES ASSUME Init PROVE BillInv OBVIOUS
  <1>1. TypeInv /\ LockDiscipline BY InitType, InitLock
  <1>2. /\ \A p \in Actors : pc[p] = "idle"
        /\ held = Empty /\ saved = DefaultUsage /\ settled = 0 /\ hour = Empty
    BY DEF Init
  <1>3. HeldInv /\ \A p \in Actors : ViewInv(p) /\ SnapInv(p)
    BY <1>2 DEF HeldInv, ViewInv, SnapInv
  <1>4. SnapshotNotAhead
    BY <1>2, DueFacts, BillFacts, <1>1 DEF SnapshotNotAhead, DefaultUsage, Due, Empty, Dirs
  <1> QED BY <1>1, <1>3, <1>4 DEF BillInv

(* However rollovers, traffic and other calls interleave with its four     *)
(* loads, used() never returns more than the user owes: an hour is never   *)
(* counted twice.                                                          *)
THEOREM UsedNeverOverbills == ASSUME FixedMetering PROVE Spec => []NeverOverbilled
  <1>1. BillInv /\ [Next]_vars => BillInv' BY BillStep
  <1>2. BillInv => NeverOverbilled BY DEF BillInv, ViewInv, NeverOverbilled
  <1> QED BY <1>1, <1>2, InitBill, PTL DEF Spec

(* The row on disk never bills more than the user owes, so no crash makes  *)
(* a restart count an hour twice.                                          *)
THEOREM RestoreNeverOverbills == ASSUME FixedMetering PROVE Spec => []SnapshotNotAhead
  <1>1. BillInv /\ [Next]_vars => BillInv' BY BillStep
  <1>2. BillInv => SnapshotNotAhead BY DEF BillInv
  <1> QED BY <1>1, <1>2, InitBill, PTL DEF Spec

(* The guard of settle_lock keeps every snapshot whole: no rollover comes  *)
(* between the settled sum and the buckets that go into one row.           *)
THEOREM SnapshotsAreWhole == ASSUME FixedMetering PROVE Spec => []SnapshotNotTorn
  <1>1. BillInv /\ [Next]_vars => BillInv' BY BillStep
  <1>2. BillInv => SnapshotNotTorn
    <2> SUFFICES ASSUME BillInv, NEW p \in Actors, pc[p] \in {"snapHourUp", "snapHourDown"}
                 PROVE  snap.settled = settled /\ held = Empty
      BY DEF SnapshotNotTorn
    <2>1. \A q \in Actors : pc[q] \notin Swapping
      BY DEF BillInv, LockDiscipline, Locked, Swapping
    <2> QED BY <2>1 DEF BillInv, HeldInv, SnapInv
  <1> QED BY <1>1, <1>2, InitBill, PTL DEF Spec

(* A rollover leaves the bill as it is, at every one of its steps; only    *)
(* transferred bytes raise it and only a restart lowers it.                *)
THEOREM RolloverIsNeutral == ASSUME FixedMetering PROVE Spec => BillMovesOnlyWithTraffic
  <1>1. BillInv /\ [Next]_vars => BillInv' BY BillStep
  <1>2. BillInv /\ [Next]_vars =>
          [\/ Due' = Due
           \/ Restart /\ Due' <= Due
           \/ \E p \in Actors : AddBucket(p) /\ Due <= Due' /\ Due' <= Due + call[p].n]_vars
    BY BillStep
  <1> QED BY <1>1, <1>2, InitBill, PTL DEF Spec, BillMovesOnlyWithTraffic

-----------------------------------------------------------------------------
\* Where a call compares the bill with a limit it has read.
Comparing == {"readSettled", "readMetering", "readUp", "readDown", "verdict"}

Reached == limit # NoLimit /\ limit <= Due

CutInv ==
    /\ \A p \in Actors :
          /\ call[p].op # "limit"
          /\ pc[p] \in Comparing /\ call[p].op = "consume" => limit # NoLimit /\ call[p].lim = limit
          /\ pc[p] \in {"storeFlag", "sendWatch"} /\ call[p].ex => Reached
    /\ exhausted_flag \/ exhausted => Reached

LEMMA CutStep ==
    ASSUME Controllers = {}, BillInv, CutInv, [Next]_vars PROVE CutInv'
  <1>1. FixedMetering BY DEF FixedMetering
  <1>2. BillInv' /\ TypeInv /\ TypeInv' BY <1>1, BillStep DEF BillInv
  <1>3. Due \in Nat /\ Due' \in Nat BY <1>2, DueFacts, DueNatNext
  <1>4. limit = NoLimit \/ limit \in Nat BY <1>2, LimitsAssumption DEF TypeInv, TypeOK
  <1>5. CASE UNCHANGED vars BY <1>5 DEF vars, shared, CutInv, Reached, Due
  <1>6. CASE Tick BY <1>6 DEF Tick, CutInv, Reached, Due
  <1>7. CASE Restart
    <2>1. Due' = saved.settled + bill(metering, saved.hour["up"], saved.hour["down"])
      BY <1>2, <1>7, RestartStep DEF BillInv
    <2>2. ExhaustedNow(saved, metering, limit) => limit # NoLimit /\ limit <= Due'
      BY <1>3, <1>4, <2>1 DEF ExhaustedNow
    <2>3. limit' = limit /\ \A p \in Actors : pc'[p] = "idle" /\ call'[p] = NoCall
      BY <1>7 DEF Restart
    <2>4. /\ exhausted_flag' = ExhaustedNow(saved, metering, limit)
          /\ exhausted' = ExhaustedNow(saved, metering, limit)
      BY <1>7 DEF Restart
    <2> QED BY <2>2, <2>3, <2>4 DEF CutInv, Reached, NoCall, Comparing
  <1>8. CASE \E p \in Actors : ActorStep(p)
    <2> PICK p \in Actors : ActorStep(p) BY <1>8
    <2>1. limit' = limit
      BY DEF ActorStep, Consume, CheckFlag, Report, RollOver, Lock, Recheck, SwapUp, SwapDown,
         Swap, Bill, Fold, StoreHour, AddTotal, AddBucket, ReadLimit, LimitOr, ReadSettled,
         ReadMetering, ReadUp, ReadDown, Load, Verdict, StoreFlag, SendWatch, SnapUpload,
         SnapDownload, SnapSettled, SnapHourUp, SnapHourDown, SnapLoad, Snapshot, shared
    <2>2. CASE Restart BY <1>7, <2>2
    <2>3. CASE ~Restart
      <3>1. Due <= Due' BY <1>1, <1>3, <2>3, BillStep DEF BillInv
      <3>2. Reached => Reached' BY <1>3, <1>4, <2>1, <3>1 DEF Reached
      <3>3. pc \in [Actors -> Locations] /\ call \in [Actors -> Calls] BY <1>2 DEF TypeInv, TypeOK
      <3> USE DEF Comparing
      <3>4. CASE Consume(p)
        BY <2>1, <3>2, <3>3, <3>4 DEF Consume, Begin, At, shared, NoCall, CutInv
      <3>5. CASE CheckFlag(p)
        BY <2>1, <3>2, <3>3, <3>5 DEF CheckFlag, Return, Access, At, shared, NoCall, CutInv
      <3>6. CASE Report(p)
        BY <2>1, <3>2, <3>3, <3>6 DEF Report, Begin, At, shared, NoCall, CutInv
      <3>7. CASE RollOver(p)
        BY <2>1, <3>2, <3>3, <3>7 DEF RollOver, AfterRoll, Access, At, shared, CutInv
      <3>8. CASE Lock(p)
        BY <2>1, <3>2, <3>3, <3>8 DEF Lock, Access, At, CutInv
      <3>9. CASE Recheck(p)
        BY <2>1, <3>2, <3>3, <3>9 DEF Recheck, AfterRoll, Access, At, CutInv
      <3>10. CASE SwapUp(p)
        BY <2>1, <3>2, <3>3, <3>10 DEF SwapUp, Swap, At, CutInv
      <3>11. CASE SwapDown(p)
        BY <2>1, <3>2, <3>3, <3>11 DEF SwapDown, Swap, At, CutInv
      <3>12. CASE Bill(p)
        BY <2>1, <3>2, <3>3, <3>12 DEF Bill, Load, At, shared, CutInv
      <3>13. CASE Fold(p)
        BY <2>1, <3>2, <3>3, <3>13 DEF Fold, At, CutInv
      <3>14. CASE StoreHour(p)
        BY <2>1, <3>2, <3>3, <3>14 DEF StoreHour, AfterRoll, Access, At, CutInv
      <3>15. CASE AddTotal(p)
        BY <2>1, <3>2, <3>3, <3>15 DEF AddTotal, Access, At, CutInv
      <3>16. CASE AddBucket(p)
        BY <2>1, <3>2, <3>3, <3>16 DEF AddBucket, Access, At, CutInv
      <3>17. CASE ReadLimit(p)
        BY <2>1, <3>2, <3>3, <3>17 DEF ReadLimit, LimitOr, Return, At, shared, NoCall, Calls, CutInv
      <3>18. CASE ReadSettled(p)
        BY <2>1, <3>2, <3>3, <3>18 DEF ReadSettled, Load, At, shared, CutInv
      <3>19. CASE ReadMetering(p)
        BY <2>1, <3>2, <3>3, <3>19 DEF ReadMetering, Load, At, shared, CutInv
      <3>20. CASE ReadUp(p)
        BY <2>1, <3>2, <3>3, <3>20 DEF ReadUp, Load, At, shared, CutInv
      <3>21. CASE ReadDown(p)
        BY <2>1, <3>2, <3>3, <3>21 DEF ReadDown, Load, At, shared, CutInv
      <3>22. CASE StoreFlag(p)
        BY <2>1, <3>2, <3>3, <3>22 DEF StoreFlag, Access, At, CutInv
      <3>23. CASE SendWatch(p)
        BY <2>1, <3>2, <3>3, <3>23 DEF SendWatch, Return, At, NoCall, CutInv
      <3>24. CASE SnapUpload(p)
        BY <2>1, <3>2, <3>3, <3>24 DEF SnapUpload, SnapLoad, At, shared, CutInv
      <3>25. CASE SnapDownload(p)
        BY <2>1, <3>2, <3>3, <3>25 DEF SnapDownload, SnapLoad, At, shared, CutInv
      <3>26. CASE SnapSettled(p)
        BY <2>1, <3>2, <3>3, <3>26 DEF SnapSettled, SnapLoad, At, shared, CutInv
      <3>27. CASE SnapHourUp(p)
        BY <2>1, <3>2, <3>3, <3>27 DEF SnapHourUp, SnapLoad, At, shared, CutInv
      <3>28. CASE SnapHourDown(p)
        BY <2>1, <3>2, <3>3, <3>28 DEF SnapHourDown, Return, At, NoCall, CutInv
      <3>29. CASE Snapshot(p)
        BY <2>1, <3>2, <3>3, <3>29 DEF Snapshot, Begin, At, shared, NoCall, CutInv
      <3>30. CASE Verdict(p)
        <4>1. CASE Return(p, "verdict")
          BY <2>1, <3>2, <3>3, <3>30, <4>1 DEF Verdict, Return, At, shared, NoCall, CutInv
        <4>2. CASE At(p, "verdict", "storeFlag")
          <5>1. /\ call[p].op = "consume" /\ UsedOf(view[p]) >= call[p].lim /\ pc[p] = "verdict"
                /\ call' = [call EXCEPT ![p].ex = (UsedOf(view[p]) >= call[p].lim)]
            <6>1. pc[p] = "verdict" /\ pc'[p] = "storeFlag" BY <3>3, <4>2 DEF At
            <6>2. ~Return(p, "verdict") BY <3>3, <6>1 DEF Return, At
            <6> QED BY <3>30, <6>1, <6>2 DEF Verdict, CutInv
          <5>2. UsedOf(view[p]) <= Due /\ call[p].lim = limit /\ limit # NoLimit
            BY <5>1 DEF BillInv, ViewInv, CutInv
          <5>3. UsedOf(view[p]) \in Nat
            <6>1. /\ view[p].settled \in Nat /\ view[p].up \in Nat /\ view[p].down \in Nat
                  /\ view[p].metering \in AllMeterings
              BY <1>2 DEF TypeInv, TypeOK, Views
            <6>2. bill(view[p].metering, view[p].up, view[p].down) \in Nat BY <6>1, BillType
            <6> QED BY <6>1, <6>2 DEF UsedOf
          <5>4. Reached BY <1>3, <1>4, <5>1, <5>2, <5>3 DEF Reached
          <5> QED BY <2>1, <3>2, <3>3, <3>30, <4>2, <5>1, <5>4 DEF Verdict, At, shared, CutInv, Calls
        <4> QED BY <3>30, <4>1, <4>2 DEF Verdict
      <3> QED BY <3>4, <3>5, <3>6, <3>7, <3>8, <3>9, <3>10, <3>11, <3>12, <3>13, <3>14, <3>15, <3>16, <3>17, <3>18, <3>19, <3>20, <3>21, <3>22, <3>23, <3>24, <3>25, <3>26, <3>27, <3>28, <3>29, <3>30 DEF ActorStep
    <2> QED BY <2>2, <2>3
  <1> QED BY <1>5, <1>6, <1>7, <1>8, StepCases

LEMMA InitCut == Init => CutInv
  <1> SUFFICES ASSUME Init PROVE CutInv OBVIOUS
  <1>1. TypeInv BY InitType
  <1>2. /\ \A p \in Actors : pc[p] = "idle" /\ call[p] = NoCall
        /\ held = Empty /\ saved = DefaultUsage /\ settled = 0 /\ hour = Empty
        /\ exhausted_flag = ExhaustedNow(saved, metering, limit) /\ exhausted = exhausted_flag
    BY DEF Init
  <1>3. limit = NoLimit \/ limit \in Nat BY <1>1, LimitsAssumption DEF TypeInv, TypeOK
  <1>4. bill(metering, 0, 0) = 0 BY <1>1, DueFacts, BillFacts
  <1>5. Due = 0 BY <1>2, <1>4 DEF Due, Empty, Dirs
  <1>6. ExhaustedNow(saved, metering, limit) => Reached
    BY <1>2, <1>3, <1>4, <1>5 DEF ExhaustedNow, DefaultUsage, Reached, Empty, Dirs
  <1> QED BY <1>2, <1>6 DEF CutInv, NoCall, Comparing

(* While nobody changes the settings, no interleaving of relay tasks with  *)
(* rollovers, snapshots and restarts stops a user who has quota left.      *)
THEOREM NobodyIsCutOffEarly == ASSUME Controllers = {} PROVE Spec => []NoEarlyCutoff
  <1>1. FixedMetering BY DEF FixedMetering
  <1>2. BillInv /\ CutInv /\ [Next]_vars => (BillInv /\ CutInv)' BY <1>1, BillStep, CutStep
  <1>3. Init => BillInv /\ CutInv BY InitBill, InitCut
  <1>4. BillInv /\ CutInv => NoEarlyCutoff
    <2> SUFFICES ASSUME BillInv, CutInv PROVE NoEarlyCutoff OBVIOUS
    <2>1. limit = NoLimit \/ limit \in Nat
      BY LimitsAssumption DEF BillInv, TypeInv, TypeOK
    <2>2. Due \in Nat BY DueFacts DEF BillInv
    <2> QED BY <2>1, <2>2 DEF CutInv, Reached, NoEarlyCutoff
  <1> QED BY <1>2, <1>3, <1>4, PTL DEF Spec

-----------------------------------------------------------------------------
(***************************************************************************)
(* Bytes are never lost.  Bytes in flight are counted as the elements of a *)
(* set, one pair <<call, i>> per byte; it is finite because every call in  *)
(* flight has come from a step.                                            *)
(***************************************************************************)
Parts(A, c) == UNION {{q} \X (1..c[q].n) : q \in A}

Flying == {q \in Actors : pc[q] = "addBucket"}

KeptInv ==
    /\ IsFiniteSet(InFlight)
    /\ BytesNeverLost

LEMMA PartSize ==
    ASSUME NEW p, NEW n \in Nat
    PROVE  IsFiniteSet({p} \X (1..n)) /\ Cardinality({p} \X (1..n)) = n
  <1>1. IsFiniteSet({p}) /\ Cardinality({p}) = 1 BY FS_Singleton
  <1>2. PICK I : I = 1..n OBVIOUS
  <1>3. IsFiniteSet(I) /\ Cardinality(I) = n
    <2>1. 1 \in Int /\ n \in Int OBVIOUS
    <2>2. IsFiniteSet(1..n) /\ Cardinality(1..n) = IF 1 > n THEN 0 ELSE n - 1 + 1 BY <2>1, FS_Interval
    <2> QED BY <1>2, <2>2
  <1>4. IsFiniteSet({p} \X I) /\ Cardinality({p} \X I) = Cardinality({p}) * Cardinality(I)
    BY <1>1, <1>3, FS_Product
  <1> QED BY <1>1, <1>2, <1>3, <1>4

(* One more call in flight adds its bytes and nothing else. *)
LEMMA OnePart ==
    ASSUME NEW A, NEW c, NEW p, p \notin A, c[p].n \in Nat,
           IsFiniteSet(Parts(A, c)) \/ IsFiniteSet(Parts(A \cup {p}, c))
    PROVE  /\ IsFiniteSet(Parts(A, c)) /\ IsFiniteSet(Parts(A \cup {p}, c))
           /\ Cardinality(Parts(A \cup {p}, c)) = Cardinality(Parts(A, c)) + c[p].n
           /\ Cardinality(Parts(A, c)) \in Nat
  <1> DEFINE old == Parts(A, c)
             all == Parts(A \cup {p}, c)
  <1>1. PICK new : new = {p} \X (1..c[p].n) OBVIOUS
  <1>2. IsFiniteSet(new) /\ Cardinality(new) = c[p].n
    <2>1. PICK n \in Nat : n = c[p].n OBVIOUS
    <2> QED BY <1>1, <2>1, PartSize
  <1>3. all = old \cup new
    <2>1. ASSUME NEW x \in all PROVE x \in old \cup new
      <3>1. PICK q \in A \cup {p} : x \in {q} \X (1..c[q].n) BY DEF Parts
      <3> QED BY <1>1, <3>1 DEF Parts
    <2>2. ASSUME NEW x \in old PROVE x \in all
      <3>1. PICK q \in A : x \in {q} \X (1..c[q].n) BY DEF Parts
      <3> QED BY <3>1 DEF Parts
    <2>3. ASSUME NEW x \in new PROVE x \in all BY <1>1 DEF Parts
    <2> QED BY <2>1, <2>2, <2>3
  <1>4. old \cap new = {}
    <2>1. ASSUME NEW x \in old, x \in new PROVE FALSE
      <3>1. PICK q \in A : x \in {q} \X (1..c[q].n) BY DEF Parts
      <3>2. x[1] = q BY <3>1
      <3>3. x[1] = p BY <1>1, <2>1
      <3> QED BY <3>2, <3>3
    <2> QED BY <2>1
  <1> HIDE DEF old, all
  <1>5. IsFiniteSet(old)
    <2>1. old \in SUBSET all BY <1>3
    <2>2. CASE IsFiniteSet(all) BY <2>1, <2>2, FS_Subset
    <2>3. CASE IsFiniteSet(old) BY <2>3
    <2> QED BY <2>2, <2>3 DEF old, all
  <1>6. /\ IsFiniteSet(old \cup new)
        /\ Cardinality(old \cup new) = Cardinality(old) + Cardinality(new) - Cardinality(old \cap new)
    BY <1>2, <1>5, FS_Union
  <1>7. Cardinality(old \cap new) = 0 BY <1>4, FS_EmptySet
  <1>8. Cardinality(old) \in Nat BY <1>5, FS_CardinalityType
  <1>9. IsFiniteSet(all) /\ Cardinality(all) = Cardinality(old) + c[p].n BY <1>2, <1>3, <1>6, <1>7, <1>8
  <1> QED BY <1>5, <1>8, <1>9 DEF old, all

(* Steps of other calls leave what is in flight alone. *)
LEMMA SameFlight ==
    ASSUME \A q \in Actors : /\ pc'[q] = "addBucket" <=> pc[q] = "addBucket"
                             /\ pc[q] = "addBucket" => call'[q] = call[q]
    PROVE  InFlight' = InFlight
  <1>1. ASSUME NEW x \in InFlight PROVE x \in InFlight'
    <2>1. PICK q \in Flying : x \in {q} \X (1..call[q].n) BY DEF InFlight, Flying
    <2>2. q \in Flying' /\ call'[q] = call[q] BY DEF Flying
    <2> QED BY <2>1, <2>2 DEF InFlight, Flying
  <1>2. ASSUME NEW x \in InFlight' PROVE x \in InFlight
    <2>1. PICK q \in Flying' : x \in {q} \X (1..call'[q].n) BY <1>2 DEF InFlight, Flying
    <2>2. q \in Flying /\ call'[q] = call[q] BY <2>1 DEF Flying
    <2> QED BY <2>1, <2>2 DEF InFlight, Flying
  <1> QED BY <1>1, <1>2

(* The step of a call that moves no byte. *)
LEMMA NoByteMoves ==
    ASSUME TypeInv, KeptInv, metering' = metering, total' = total, settled' = settled, held' = held,
           hour' = hour, NEW p \in Actors, NEW from, NEW to, At(p, from, to),
           from # "addBucket", to # "addBucket", \A q \in Actors \ {p} : call'[q] = call[q]
    PROVE  KeptInv'
  <1>1. pc[p] = from /\ pc'[p] = to /\ \A q \in Actors \ {p} : pc'[q] = pc[q]
    BY DEF At, TypeInv, TypeOK
  <1>2. InFlight' = InFlight BY <1>1, SameFlight
  <1> QED BY <1>2 DEF KeptInv, BytesNeverLost

(* try_consume adds to the lifetime total first: its bytes are in flight. *)
LEMMA TotalKept ==
    ASSUME TypeInv, KeptInv, metering' = metering, NEW p \in Actors, AddTotal(p) PROVE KeptInv'
  <1>1. /\ pc[p] = "addTotal" /\ pc' = [pc EXCEPT ![p] = "addBucket"] /\ call' = call
        /\ total' = [total EXCEPT ![call[p].dir] = @ + call[p].n]
        /\ settled' = settled /\ held' = held /\ hour' = hour
        /\ pc \in [Actors -> Locations] /\ total \in [Dirs -> Nat]
    BY DEF AddTotal, Access, At, TypeInv, TypeOK
  <1>2. PICK n \in Nat : n = call[p].n BY DEF TypeInv, TypeOK, Calls
  <1>3. call[p].dir \in Dirs BY DEF TypeInv, TypeOK, Calls
  <1>4. p \notin Flying /\ Flying' = Flying \cup {p} BY <1>1 DEF Flying
  <1>5. InFlight = Parts(Flying, call) BY DEF InFlight, Parts, Flying
  <1>6. InFlight' = Parts(Flying \cup {p}, call) BY <1>1, <1>4 DEF InFlight, Parts, Flying
  <1>7. /\ IsFiniteSet(InFlight') /\ Cardinality(InFlight) \in Nat
        /\ Cardinality(InFlight') = Cardinality(InFlight) + n
    <2>1. IsFiniteSet(Parts(Flying, call)) BY <1>5 DEF KeptInv
    <2>2. call[p].n \in Nat BY <1>2
    <2>3. /\ IsFiniteSet(Parts(Flying \cup {p}, call)) /\ Cardinality(Parts(Flying, call)) \in Nat
          /\ Cardinality(Parts(Flying \cup {p}, call)) = Cardinality(Parts(Flying, call)) + call[p].n
      BY <1>4, <2>1, <2>2, OnePart
    <2> QED BY ONLY <1>2, <1>5, <1>6, <2>3
  <1>8. /\ total["up"] \in Nat /\ total["down"] \in Nat
        /\ total'["up"] + total'["down"] = total["up"] + total["down"] + n
    BY <1>1, <1>2, <1>3 DEF Dirs
  <1>9. settled \in Nat /\ \A d \in {"up", "down"} : held[d] \in Nat /\ hour[d] \in Nat
    BY DEF TypeInv, TypeOK, Dirs
  <1> HIDE DEF InFlight
  <1>10. BytesNeverLost' BY <1>1, <1>7, <1>8, <1>9 DEF KeptInv, BytesNeverLost
  <1> QED BY <1>7, <1>10 DEF KeptInv

(* Its second addition lands them in the bucket of the hour. *)
LEMMA BucketKept ==
    ASSUME TypeInv, KeptInv, metering' = metering, NEW p \in Actors, AddBucket(p) PROVE KeptInv'
  <1>1. /\ pc[p] = "addBucket" /\ pc' = [pc EXCEPT ![p] = "readLimit"] /\ call' = call
        /\ hour' = [hour EXCEPT ![call[p].dir] = @ + call[p].n]
        /\ settled' = settled /\ held' = held /\ total' = total
        /\ pc \in [Actors -> Locations] /\ hour \in [Dirs -> Nat]
    BY DEF AddBucket, Access, At, TypeInv, TypeOK
  <1>2. PICK n \in Nat : n = call[p].n BY DEF TypeInv, TypeOK, Calls
  <1>3. call[p].dir \in Dirs BY DEF TypeInv, TypeOK, Calls
  <1>4. PICK A : A = Flying' OBVIOUS
  <1>5. p \notin A /\ Flying = A \cup {p} BY <1>1, <1>4 DEF Flying
  <1>6. InFlight = Parts(A \cup {p}, call) BY <1>5 DEF InFlight, Parts, Flying
  <1>7. InFlight' = Parts(A, call) BY <1>1, <1>4 DEF InFlight, Parts, Flying
  <1>8. /\ IsFiniteSet(InFlight') /\ Cardinality(InFlight') \in Nat
        /\ Cardinality(InFlight) = Cardinality(InFlight') + n
    <2>1. IsFiniteSet(Parts(A \cup {p}, call)) BY <1>6 DEF KeptInv
    <2>2. call[p].n \in Nat BY <1>2
    <2>3. /\ IsFiniteSet(Parts(A, call)) /\ Cardinality(Parts(A, call)) \in Nat
          /\ Cardinality(Parts(A \cup {p}, call)) = Cardinality(Parts(A, call)) + call[p].n
      BY <1>5, <2>1, <2>2, OnePart
    <2> QED BY ONLY <1>2, <1>6, <1>7, <2>3
  <1>9. /\ hour["up"] \in Nat /\ hour["down"] \in Nat
        /\ hour'["up"] \in Nat /\ hour'["down"] \in Nat
        /\ hour'["up"] + hour'["down"] = hour["up"] + hour["down"] + n
    BY <1>1, <1>2, <1>3 DEF Dirs
  <1>10. settled \in Nat /\ \A d \in {"up", "down"} : held[d] \in Nat /\ total[d] \in Nat
    BY DEF TypeInv, TypeOK, Dirs
  <1> HIDE DEF InFlight
  <1>11. BytesNeverLost' BY <1>1, <1>8, <1>9, <1>10 DEF KeptInv, BytesNeverLost
  <1> QED BY <1>8, <1>11 DEF KeptInv

(* A rollover passes the bytes from the buckets through its hands into the *)
(* settled sum.                                                            *)
LEMMA RollKept ==
    ASSUME BillInv, KeptInv, metering' = metering, NEW p \in Actors,
           SwapUp(p) \/ SwapDown(p) \/ Fold(p)
    PROVE  KeptInv'
  <1>1. /\ pc[p] \in {"swapUp", "swapDown", "fold"} /\ pc'[p] # "addBucket" /\ call' = call /\ total' = total
        /\ \A q \in Actors \ {p} : pc'[q] = pc[q]
    BY DEF SwapUp, SwapDown, Swap, Fold, At, BillInv, TypeInv, TypeOK
  <1>2. InFlight' = InFlight BY <1>1, SameFlight
  <1>3. /\ settled \in Nat /\ held["up"] \in Nat /\ held["down"] \in Nat
        /\ hour["up"] \in Nat /\ hour["down"] \in Nat
        /\ held \in [Dirs -> Nat] /\ hour \in [Dirs -> Nat]
    BY DEF BillInv, TypeInv, TypeOK, Dirs
  <1>4. IsFiniteSet(InFlight) /\ Cardinality(InFlight) \in Nat BY FS_CardinalityType DEF KeptInv
  <1> HIDE DEF InFlight
  <1>5. CASE SwapUp(p)
    <2>1. \A q \in Actors : pc[q] \notin Swapping
      BY <1>5, NoActorAssumption DEF SwapUp, Swap, At, BillInv, LockDiscipline, Locked, Swapping
    <2>2. held["up"] = 0 BY <2>1 DEF BillInv, HeldInv, Empty, Dirs
    <2>3. /\ held'["up"] = hour["up"] /\ held'["down"] = held["down"]
          /\ hour'["up"] = 0 /\ hour'["down"] = hour["down"] /\ settled' = settled
      BY <1>3, <1>5 DEF SwapUp, Swap, Dirs
    <2> QED BY <1>1, <1>2, <1>3, <1>4, <2>2, <2>3 DEF KeptInv, BytesNeverLost
  <1>6. CASE SwapDown(p)
    <2>1. pc[p] = "swapDown" BY <1>6 DEF SwapDown, Swap, At
    <2>2. held["down"] = 0 BY <2>1 DEF BillInv, HeldInv
    <2>3. /\ held'["up"] = held["up"] /\ held'["down"] = hour["down"]
          /\ hour'["up"] = hour["up"] /\ hour'["down"] = 0 /\ settled' = settled
      BY <1>3, <1>6 DEF SwapDown, Swap, Dirs
    <2> QED BY <1>1, <1>2, <1>3, <1>4, <2>2, <2>3 DEF KeptInv, BytesNeverLost
  <1>7. CASE Fold(p)
    <2>1. settled' = settled + bill(metering, held["up"], held["down"]) BY <1>7, FoldDue
    <2>2. metering = "sum" => settled' = settled + held["up"] + held["down"]
      BY <1>3, <2>1 DEF bill
    <2>3. held'["up"] = 0 /\ held'["down"] = 0 /\ hour' = hour BY <1>7 DEF Fold, Empty, Dirs
    <2> QED BY <1>1, <1>2, <1>3, <1>4, <2>2, <2>3 DEF KeptInv, BytesNeverLost
  <1> QED BY <1>5, <1>6, <1>7

LEMMA KeptStep ==
    ASSUME FixedMetering, BillInv, KeptInv, [Run]_vars PROVE KeptInv'
  <1>0. [Next]_vars BY DEF Next
  <1>1. TypeInv /\ TypeInv' BY <1>0, BillStep DEF BillInv
  <1>2. metering' = metering BY <1>0, <1>1, MeteringKept
  <1>3. \A q \in Actors : call[q] \in Calls BY <1>1 DEF TypeInv, TypeOK
  <1>4. call \in [Actors -> Calls] BY <1>1 DEF TypeInv, TypeOK
  <1>5. CASE UNCHANGED vars \/ Tick
    <2>1. /\ pc' = pc /\ call' = call /\ total' = total /\ settled' = settled /\ held' = held
          /\ hour' = hour
      BY <1>5 DEF vars, shared, Tick
    <2>2. InFlight' = InFlight BY <2>1, SameFlight
    <2> QED BY <1>2, <2>1, <2>2 DEF KeptInv, BytesNeverLost
  <1>6. ASSUME NEW p \in Actors, ActorStep(p) PROVE KeptInv'
    <2> USE DEF AfterRoll
    <2>1. CASE Consume(p) BY <1>1, <1>2, <1>4, <2>1, NoByteMoves DEF Consume, Begin, shared
    <2>2. CASE CheckFlag(p) BY <1>1, <1>2, <1>4, <2>2, NoByteMoves DEF CheckFlag, Return, Access, shared
    <2>3. CASE Report(p) BY <1>1, <1>2, <1>4, <2>3, NoByteMoves DEF Report, Begin, shared
    <2>4. CASE RollOver(p) BY <1>1, <1>2, <1>4, <2>4, NoByteMoves DEF RollOver, Access, shared
    <2>5. CASE Lock(p) BY <1>1, <1>2, <1>4, <2>5, NoByteMoves DEF Lock, Access
    <2>6. CASE Recheck(p) BY <1>1, <1>2, <1>4, <2>6, NoByteMoves DEF Recheck, Access
    <2>7. CASE StoreHour(p) BY <1>1, <1>2, <1>4, <2>7, NoByteMoves DEF StoreHour, Access
    <2>8. CASE AddTotal(p) BY <1>1, <1>2, <2>8, TotalKept
    <2>9. CASE ReadLimit(p) BY <1>1, <1>2, <1>4, <2>9, NoByteMoves DEF ReadLimit, LimitOr, Return, shared
    <2>10. CASE Verdict(p) BY <1>1, <1>2, <1>4, <2>10, NoByteMoves DEF Verdict, Return, shared
    <2>11. CASE StoreFlag(p) BY <1>1, <1>2, <1>4, <2>11, NoByteMoves DEF StoreFlag, Access
    <2>12. CASE SendWatch(p) BY <1>1, <1>2, <1>4, <2>12, NoByteMoves DEF SendWatch, Return
    <2>13. CASE Snapshot(p) BY <1>1, <1>2, <1>4, <2>13, NoByteMoves DEF Snapshot, Begin, shared
    <2>14. CASE SwapUp(p) \/ SwapDown(p) \/ Fold(p) BY <1>2, <2>14, RollKept
    <2>15. CASE AddBucket(p) BY <1>1, <1>2, <2>15, BucketKept
    <2>16. CASE \/ ReadSettled(p) \/ ReadMetering(p) \/ ReadUp(p) \/ ReadDown(p) \/ Bill(p)
      BY <1>1, <1>2, <1>4, <2>16, NoByteMoves
         DEF ReadSettled, ReadMetering, ReadUp, ReadDown, Bill, Load, shared
    <2>17. CASE \/ SnapUpload(p) \/ SnapDownload(p) \/ SnapSettled(p) \/ SnapHourUp(p)
      BY <1>1, <1>2, <1>4, <2>17, NoByteMoves
         DEF SnapUpload, SnapDownload, SnapSettled, SnapHourUp, SnapLoad, shared
    <2>18. CASE SnapHourDown(p) BY <1>1, <1>2, <1>4, <2>18, NoByteMoves DEF SnapHourDown, Return
    <2> QED BY <1>6, <2>1, <2>2, <2>3, <2>4, <2>5, <2>6, <2>7, <2>8, <2>9, <2>10, <2>11, <2>12, <2>13,
               <2>14, <2>15, <2>16, <2>17, <2>18 DEF ActorStep
  <1>7. ASSUME NEW p \in Actors, SetStep(p) PROVE KeptInv'
    <2>1. CASE SetLimit(p) BY <1>1, <1>2, <1>4, <2>1, NoByteMoves DEF SetLimit, Begin
    <2>2. CASE SetMetering(p) BY <1>1, <1>2, <1>4, <2>2, NoByteMoves DEF SetMetering, Begin
    <2>3. CASE RereadLimit(p) BY <1>1, <1>2, <1>4, <2>3, NoByteMoves DEF RereadLimit, LimitOr, Return, shared
    <2>4. CASE StoreLimit(p) BY <1>1, <1>2, <1>4, <2>4, NoByteMoves DEF StoreLimit, Access
    <2> QED BY <1>7, <2>1, <2>2, <2>3, <2>4 DEF SetStep
  <1> QED BY <1>5, <1>6, <1>7, RunCases

LEMMA InitKept == Init => KeptInv
  <1> SUFFICES ASSUME Init PROVE KeptInv OBVIOUS
  <1>1. Flying = {} BY DEF Init, Flying
  <1>2. InFlight = {} BY <1>1 DEF InFlight, Flying
  <1>3. total = Empty /\ held = Empty /\ hour = Empty /\ settled = 0 BY DEF Init
  <1> QED BY <1>2, <1>3, FS_EmptySet DEF KeptInv, BytesNeverLost, Empty, Dirs

(* Bytes are never lost: as long as the process runs, whatever rollovers,  *)
(* snapshots and other calls race with traffic, the bytes of the lifetime  *)
(* totals are those of the settled sum, the rollover in progress, the open *)
(* bucket and the calls between their two additions.                       *)
THEOREM NoByteIsLost == ASSUME FixedMetering PROVE RunSpec => []BytesNeverLost
  <1>1. BillInv /\ KeptInv /\ [Run]_vars => (BillInv /\ KeptInv)'
    <2>1. [Run]_vars => [Next]_vars BY DEF Next
    <2> QED BY <2>1, BillStep, KeptStep
  <1>2. BillInv /\ KeptInv => BytesNeverLost BY DEF KeptInv
  <1> QED BY <1>1, <1>2, InitBill, InitKept, PTL DEF RunSpec

-----------------------------------------------------------------------------
(***************************************************************************)
(* The hard stop.  Every task is charged one unit for each buffer it moves *)
(* that leaves the bill at or past the limit, and one for each rollover it *)
(* performs.  After R rollovers no task has been charged more than R + 1   *)
(* units: a task that is past the limit and still free to go on has read   *)
(* too little, which takes a rollover, of another task, for each time.     *)
(***************************************************************************)
Racing ==
    /\ Controllers = {} /\ Observers = {} /\ Threads \cap Flushers = {}
    /\ IsFiniteSet(Threads) /\ Threads # {}
    /\ \E most \in Chunks : most > 0 /\ \A n \in Chunks : n <= most

Rolling == {"swapUp", "swapDown", "bill", "fold", "storeHour"}

Adding == {"addTotal", "addBucket"}

Before == {"roll", "lock", "recheck"} \cup Rolling \cup Adding

Reading == {"readLimit"} \cup Comparing

InRoll == \E q \in Threads : pc[q] \in Rolling

\* What task p has read so far will make it see that the limit is reached.
Covered(p) ==
    /\ ~InRoll /\ limit <= Due
    /\ pc[p] \in {"readMetering", "readUp", "readDown"} => view[p].settled = settled
    /\ pc[p] = "readDown" => limit <= settled + bill(metering, view[p].up, hour["down"])
    /\ pc[p] = "verdict" => limit <= UsedOf(view[p])

\* Task p, charged a units, after R rollovers.
ThreadInv(p, a, R) ==
    /\ a <= R + 1
    /\ pc[p] # "idle" => call[p].op = "consume" /\ call[p].now <= clock /\ call[p].n \in Chunks
    /\ pc[p] \in {"idle", "check"} => a <= R \/ exhausted_flag
    /\ pc[p] \in Before => a <= R
    /\ InRoll =>
          /\ pc[p] = "check" /\ call[p].now = bucket_hour => a < R \/ exhausted_flag
          /\ pc[p] = "roll" /\ call[p].now = bucket_hour => a < R
          /\ pc[p] \in Adding => a < R
    /\ pc[p] \in Rolling => bucket_hour < call[p].now
    /\ pc[p] \in Reading /\ R < a => Covered(p)
    /\ pc[p] = "storeFlag" => call[p].ex
    /\ pc[p] = "sendWatch" => exhausted_flag

\* Only tasks roll over, and every rollover moves the bucket to a later hour.
HourInv(R) ==
    /\ bucket_hour <= clock /\ R <= bucket_hour /\ (~InRoll => R < bucket_hour)
    /\ \A q \in Actors \ Threads : pc[q] \notin Rolling

Units(g) == UNION {{p} \X (1..g[p]) : p \in Threads}

RaceWith(g, R, k) ==
    /\ Cardinality(Units(g)) = R + k
    /\ Due < limit + k * Max(Chunks)
    /\ HourInv(R)
    /\ \A p \in Threads : ThreadInv(p, g[p], R)

RaceInv ==
    limit # NoLimit /\ ~reopened =>
        \E g \in [Threads -> Nat], R \in Nat, k \in Nat : RaceWith(g, R, k)

LEMMA LargestChunk ==
    ASSUME Racing
    PROVE  Max(Chunks) \in Nat /\ Max(Chunks) > 0 /\ \A n \in Chunks : n <= Max(Chunks)
  <1>1. PICK most \in Chunks : most > 0 /\ \A n \in Chunks : n <= most BY DEF Racing
  <1>2. \A n \in Chunks : n \in Nat BY ChunksAssumption
  <1>3. \A n \in Chunks : most >= n BY <1>1, <1>2
  <1>4. \E x \in Chunks : \A y \in Chunks : x >= y BY <1>3
  <1>5. Max(Chunks) \in Chunks /\ \A y \in Chunks : Max(Chunks) >= y BY <1>4 DEF Max
  <1> HIDE DEF Max
  <1> QED BY <1>1, <1>2, <1>5

(* No more than m units for each task are no more than m times the tasks. *)
LEMMA UnitsBounded ==
    ASSUME Racing, NEW g \in [Threads -> Nat], NEW m \in Nat, \A p \in Threads : g[p] <= m
    PROVE  /\ IsFiniteSet(Units(g)) /\ Cardinality(Units(g)) <= Cardinality(Threads) * m
           /\ Cardinality(Threads) \in Nat
  <1>1. PICK I : I = 1..m OBVIOUS
  <1>2. IsFiniteSet(I) /\ Cardinality(I) = m
    <2>1. 1 \in Int /\ m \in Int OBVIOUS
    <2>2. IsFiniteSet(1..m) /\ Cardinality(1..m) = IF 1 > m THEN 0 ELSE m - 1 + 1 BY <2>1, FS_Interval
    <2> QED BY <1>1, <2>2
  <1>3. IsFiniteSet(Threads) BY DEF Racing
  <1>4. PICK room : room = Threads \X I OBVIOUS
  <1>5. IsFiniteSet(room) /\ Cardinality(room) = Cardinality(Threads) * m
    BY <1>2, <1>3, <1>4, FS_Product
  <1>6. ASSUME NEW x \in Units(g) PROVE x \in room
    <2>1. PICK p \in Threads : x \in {p} \X (1..g[p]) BY DEF Units
    <2>2. PICK i \in 1..g[p] : x = <<p, i>> BY <2>1
    <2>3. g[p] \in Nat /\ g[p] <= m OBVIOUS
    <2>4. i \in 1..m BY <2>2, <2>3
    <2> QED BY <1>1, <1>4, <2>2, <2>4
  <1>7. Units(g) \in SUBSET room BY <1>6
  <1>8. IsFiniteSet(Units(g)) /\ Cardinality(Units(g)) <= Cardinality(room) BY <1>5, <1>7, FS_Subset
  <1> QED BY <1>3, <1>5, <1>8, FS_CardinalityType

(* Charging task p one unit. *)
LEMMA OneUnit ==
    ASSUME NEW g \in [Threads -> Nat], NEW p \in Threads, IsFiniteSet(Units(g))
    PROVE  \E h \in [Threads -> Nat] :
              /\ h[p] = g[p] + 1 /\ \A q \in Threads \ {p} : h[q] = g[q]
              /\ Cardinality(Units(h)) = Cardinality(Units(g)) + 1
  <1>0. PICK h : h = [g EXCEPT ![p] = g[p] + 1] OBVIOUS
  <1>1. PICK a \in Nat : a = g[p] OBVIOUS
  <1>2. h \in [Threads -> Nat] /\ h[p] = a + 1 /\ \A q \in Threads \ {p} : h[q] = g[q]
    BY <1>0, <1>1
  <1>3. PICK new : new = <<p, a + 1>> OBVIOUS
  <1>4. Units(h) = Units(g) \cup {new}
    <2>1. ASSUME NEW x \in Units(h) PROVE x \in Units(g) \cup {new}
      <3>1. PICK q \in Threads : x \in {q} \X (1..h[q]) BY DEF Units
      <3>2. PICK i \in 1..h[q] : x = <<q, i>> BY <3>1
      <3>3. CASE q # p
        <4>1. x \in {q} \X (1..g[q]) BY <1>2, <3>1, <3>3
        <4> QED BY <4>1 DEF Units
      <3>4. CASE q = p /\ i = a + 1 BY <1>3, <3>2, <3>4
      <3>5. CASE q = p /\ i # a + 1
        <4>1. i \in 1..(a + 1) BY <1>2, <3>2, <3>5
        <4>2. i \in 1..a BY <4>1, <3>5
        <4>3. x \in {p} \X (1..g[p]) BY <1>1, <3>2, <3>5, <4>2
        <4> QED BY <4>3 DEF Units
      <3> QED BY <3>3, <3>4, <3>5
    <2>2. ASSUME NEW x \in Units(g) PROVE x \in Units(h)
      <3>1. PICK q \in Threads : x \in {q} \X (1..g[q]) BY DEF Units
      <3>2. PICK i \in 1..g[q] : x = <<q, i>> BY <3>1
      <3>3. g[q] \in Nat /\ (h[q] = g[q] \/ h[q] = g[q] + 1) BY <1>1, <1>2
      <3>4. i \in 1..h[q] BY <3>2, <3>3
      <3>5. x \in {q} \X (1..h[q]) BY <3>2, <3>4
      <3> QED BY <3>5 DEF Units
    <2>3. new \in Units(h)
      <3>1. a + 1 \in 1..h[p] BY <1>2
      <3>2. new \in {p} \X (1..h[p]) BY <1>3, <3>1
      <3> QED BY <3>2 DEF Units
    <2> QED BY <2>1, <2>2, <2>3
  <1>5. new \notin Units(g)
    <2>1. ASSUME new \in Units(g) PROVE FALSE
      <3>1. PICK q \in Threads : new \in {q} \X (1..g[q]) BY <2>1 DEF Units
      <3>2. PICK i \in 1..g[q] : new = <<q, i>> BY <3>1
      <3>3. q = p /\ i = a + 1 BY <1>3, <3>2
      <3>4. a + 1 \in 1..a BY <1>1, <3>2, <3>3
      <3> QED BY <3>4
    <2> QED BY <2>1
  <1>6. PICK U : U = Units(g) OBVIOUS
  <1>7. Cardinality(U \cup {new}) = Cardinality(U) + 1 BY <1>5, <1>6, FS_AddElement
  <1> QED BY <1>1, <1>2, <1>4, <1>6, <1>7

(* While nobody rolls over, the bill is what used() adds up. *)
LEMMA QuietBill ==
    ASSUME BillInv, \A q \in Actors : pc[q] \notin Swapping
    PROVE  Due = settled + bill(metering, hour["up"], hour["down"])
  <1>1. held["up"] = 0 /\ held["down"] = 0 BY DEF BillInv, HeldInv, Empty, Dirs
  <1>2. Due = settled + bill(metering, 0, 0) + bill(metering, hour["up"], hour["down"])
    BY <1>1 DEF Due, Swapping
  <1>3. /\ bill(metering, 0, 0) = 0 /\ settled \in Nat
        /\ bill(metering, hour["up"], hour["down"]) \in Nat
    BY DueFacts, BillFacts DEF BillInv
  <1> QED BY <1>2, <1>3

(* A task keeps its place, and what it has read, while another one steps. *)
LEMMA OtherKept ==
    ASSUME BillInv, TypeInv', limit \in Nat, NEW q \in Threads, NEW a \in Nat, NEW R \in Nat,
           ThreadInv(q, a, R), pc'[q] = pc[q], call'[q] = call[q], view'[q] = view[q],
           limit' = limit, metering' = metering, clock <= clock', exhausted_flag => exhausted_flag',
           bucket_hour' = bucket_hour \/ ~InRoll', InRoll' => InRoll, Due <= Due',
           InRoll \/ (settled' = settled /\ hour["down"] <= hour'["down"])
    PROVE  ThreadInv(q, a, R)'
  <1>1. q \in Actors BY DEF Actors
  <1>2. /\ clock \in Nat /\ clock' \in Nat /\ call[q].now \in Nat /\ bucket_hour \in Nat
        /\ view[q].up \in Nat /\ settled \in Nat
    BY <1>1 DEF BillInv, TypeInv, TypeOK, Calls, Views
  <1>3. /\ hour["down"] \in Nat /\ hour'["down"] \in Nat /\ metering \in AllMeterings
    BY MeteringsAssumption DEF BillInv, TypeInv, TypeOK, Dirs
  <1>4. Due \in Nat /\ Due' \in Nat BY DueFacts, DueNatNext DEF BillInv
  <1>5. ASSUME pc[q] \in Reading, R < a PROVE Covered(q)'
    <2>1. Covered(q) BY <1>5 DEF ThreadInv
    <2>2. ~InRoll /\ ~InRoll' BY <2>1 DEF Covered
    <2>3. settled' = settled /\ hour["down"] <= hour'["down"] BY <2>2
    <2>4. limit <= Due' BY <1>4, <2>1 DEF Covered
    <2>5. /\ bill(metering, view[q].up, hour["down"]) <= bill(metering, view[q].up, hour'["down"])
          /\ bill(metering, view[q].up, hour["down"]) \in Nat
          /\ bill(metering, view[q].up, hour'["down"]) \in Nat
      <3>1. view[q].up <= view[q].up BY <1>2
      <3> QED BY <1>2, <1>3, <2>3, <3>1, BillFacts
    <2>6. pc[q] = "readDown" => limit <= settled + bill(metering, view[q].up, hour'["down"])
      BY <1>2, <2>1, <2>5 DEF Covered
    <2>7. UsedOf(view[q])' = UsedOf(view[q]) BY DEF UsedOf
    <2> QED BY <2>1, <2>2, <2>3, <2>4, <2>6, <2>7 DEF Covered
  <1>6. pc[q] \in Rolling => bucket_hour' = bucket_hour
    BY DEF InRoll
  <1>7. InRoll' => bucket_hour' = bucket_hour OBVIOUS
  <1>8. call[q].now <= clock => call[q].now <= clock' BY <1>2
  <1> HIDE DEF Covered, InRoll
  <1> QED BY <1>5, <1>6, <1>7, <1>8 DEF ThreadInv

\* Only task p steps, and no rollover starts or ends.
OnlyCall(p) ==
    /\ \A q \in Actors \ {p} : pc'[q] = pc[q] /\ call'[q] = call[q] /\ view'[q] = view[q]
    /\ limit' = limit /\ metering' = metering /\ clock' = clock /\ bucket_hour' = bucket_hour
    /\ exhausted_flag => exhausted_flag'
    /\ InRoll' <=> InRoll
    /\ InRoll \/ (settled' = settled /\ hour' = hour)

LEMMA CallStep ==
    ASSUME BillInv, TypeInv', limit \in Nat, NEW g \in [Threads -> Nat], NEW R \in Nat, NEW k \in Nat,
           RaceWith(g, R, k), NEW p \in Threads, OnlyCall(p), Due' = Due,
           NEW a, a = g[p], ThreadInv(p, a, R)'
    PROVE  RaceWith(g, R, k)'
  <1>1. clock \in Nat /\ hour["down"] \in Nat BY DEF BillInv, TypeInv, TypeOK, Dirs
  <1>2. Due \in Nat BY DueFacts DEF BillInv
  <1>3. Due <= Due' /\ clock <= clock' /\ hour["down"] <= hour["down"] BY <1>1, <1>2 DEF OnlyCall
  <1>4. ASSUME NEW q \in Threads PROVE ThreadInv(q, g[q], R)'
    <2>1. PICK b \in Nat : b = g[q] OBVIOUS
    <2>2. CASE q # p
      <3>1. ThreadInv(q, b, R) BY <2>1 DEF RaceWith
      <3>2. ThreadInv(q, b, R)' BY <1>3, <2>2, <3>1, OtherKept DEF OnlyCall, Actors
      <3> QED BY <2>1, <3>2
    <2>3. CASE q = p BY <2>3
    <2> QED BY <2>2, <2>3
  <1>5. HourInv(R)' BY DEF OnlyCall, HourInv, RaceWith
  <1>6. Due' < limit' + k * Max(Chunks) BY DEF OnlyCall, RaceWith
  <1>7. Cardinality(Units(g)) = R + k BY DEF RaceWith
  <1> QED BY <1>4, <1>5, <1>6, <1>7 DEF RaceWith

(* An access of task p outside a rollover. *)
LEMMA QuietCall ==
    ASSUME BillInv, limit \in Nat, NEW p \in Threads, NEW from, NEW to, At(p, from, to),
           from \notin Rolling, to \notin Rolling,
           \A q \in Actors \ {p} : call'[q] = call[q] /\ view'[q] = view[q],
           limit' = limit, metering' = metering, clock' = clock, bucket_hour' = bucket_hour,
           exhausted_flag => exhausted_flag', settled' = settled, hour' = hour, held' = held
    PROVE  OnlyCall(p) /\ Due' = Due /\ pc[p] = from /\ pc'[p] = to
  <1>1. pc[p] = from /\ pc'[p] = to /\ \A q \in Actors \ {p} : pc'[q] = pc[q]
    BY DEF At, BillInv, TypeInv, TypeOK, Actors
  <1>2. InRoll' <=> InRoll BY <1>1 DEF InRoll, Actors
  <1>3. Due' = Due BY <1>1, QuietDue DEF Rolling
  <1> QED BY <1>1, <1>2, <1>3 DEF OnlyCall, Actors

(* Whoever rolls over does so towards an hour the clock has reached. *)
LEMMA RollBehind ==
    ASSUME BillInv, NEW g, NEW R, NEW k, RaceWith(g, R, k), InRoll PROVE bucket_hour < clock
  <1>1. PICK q \in Threads : pc[q] \in Rolling BY DEF InRoll
  <1>2. ThreadInv(q, g[q], R) BY DEF RaceWith
  <1>3. bucket_hour < call[q].now /\ call[q].now <= clock BY <1>1, <1>2 DEF ThreadInv, Rolling
  <1>4. bucket_hour \in Nat /\ clock \in Nat /\ call[q].now \in Nat
    BY DEF BillInv, TypeInv, TypeOK, Calls, Actors
  <1> QED BY <1>3, <1>4

(* Nobody but a task rolls over. *)
LEMMA QuietRoll ==
    ASSUME NEW R, HourInv(R), ~InRoll
    PROVE  \A q \in Actors : pc[q] \notin Swapping
  BY DEF HourInv, InRoll, Rolling, Swapping

(* The accesses of a relay task outside a rollover keep its charge. *)
LEMMA QuietKept ==
    ASSUME BillInv, CutInv, TypeInv', limit \in Nat, metering' = metering,
           NEW g \in [Threads -> Nat], NEW R \in Nat, NEW k \in Nat, RaceWith(g, R, k), NEW p \in Threads,
           \/ Consume(p) \/ CheckFlag(p) \/ RollOver(p) \/ Lock(p)
           \/ Recheck(p) /\ bucket_hour = call[p].now
           \/ AddTotal(p) \/ ReadLimit(p) \/ ReadSettled(p) \/ ReadMetering(p) \/ ReadUp(p)
           \/ ReadDown(p) \/ Verdict(p) \/ StoreFlag(p) \/ SendWatch(p)
    PROVE  RaceWith(g, R, k)'
  <1>1. PICK a \in Nat : a = g[p] OBVIOUS
  <1>2. ThreadInv(p, a, R) BY <1>1 DEF RaceWith
  <1>3. p \in Actors BY DEF Actors
  <1>4. /\ pc \in [Actors -> Locations] /\ call \in [Actors -> Calls] /\ view \in [Actors -> Views]
        /\ clock \in Nat /\ bucket_hour \in Nat
    BY DEF BillInv, TypeInv, TypeOK
  <1>5. SUFFICES OnlyCall(p) /\ Due' = Due /\ ThreadInv(p, a, R)' BY <1>1, CallStep
  <1> USE DEF Rolling
  <1>6. CASE Consume(p)
    <2>1. OnlyCall(p) /\ Due' = Due /\ pc[p] = "idle" /\ pc'[p] = "check"
      <3>1. At(p, "idle", "check") /\ view' = view /\ held' = held BY <1>6 DEF Consume, Begin
      <3>2. \A q \in Actors \ {p} : call'[q] = call[q] /\ view'[q] = view[q]
        BY <1>3, <1>4, <1>6, <3>1 DEF Consume, Begin
      <3>3. /\ limit' = limit /\ metering' = metering /\ clock' = clock /\ bucket_hour' = bucket_hour
            /\ exhausted_flag' = exhausted_flag /\ settled' = settled /\ hour' = hour
        BY <1>6 DEF Consume, shared
      <3>4. "idle" \notin Rolling /\ "check" \notin Rolling OBVIOUS
      <3> QED BY <3>1, <3>2, <3>3, <3>4, QuietCall
    <2>2. call'[p].op = "consume" /\ call'[p].now = clock /\ call'[p].n \in Chunks /\ clock' = clock
      BY <1>3, <1>4, <1>6 DEF Consume, Begin, NoCall, shared
    <2>3. InRoll' => bucket_hour' < clock BY <2>1, RollBehind DEF OnlyCall
    <2>4. clock <= clock BY <1>4
    <2> HIDE DEF InRoll
    <2>5. ThreadInv(p, a, R)'
      BY <1>2, <1>4, <2>1, <2>2, <2>3, <2>4 DEF ThreadInv, OnlyCall, Before, Adding, Reading, Comparing
    <2> QED BY <2>1, <2>5
  <1>7. CASE CheckFlag(p) /\ exhausted_flag
    <2>1. OnlyCall(p) /\ Due' = Due /\ pc[p] = "check" /\ pc'[p] = "idle"
      BY <1>3, <1>4, <1>7, QuietCall DEF CheckFlag, Return, shared
    <2>2. exhausted_flag' BY <1>7 DEF CheckFlag, shared
    <2> HIDE DEF InRoll
    <2>3. ThreadInv(p, a, R)'
      BY <1>2, <2>1, <2>2 DEF ThreadInv, Before, Adding, Reading, Comparing
    <2> QED BY <2>1, <2>3
  <1>8. CASE CheckFlag(p) /\ ~exhausted_flag
    <2>1. OnlyCall(p) /\ Due' = Due /\ pc[p] = "check" /\ pc'[p] = "roll"
      BY <1>3, <1>4, <1>8, QuietCall DEF CheckFlag, Access, shared
    <2>2. call'[p] = call[p] /\ clock' = clock BY <1>8, <2>1 DEF CheckFlag, Access, OnlyCall
    <2> HIDE DEF InRoll
    <2>3. ThreadInv(p, a, R)'
      BY <1>2, <1>4, <1>8, <2>1, <2>2 DEF CheckFlag, ThreadInv, OnlyCall, Before, Adding, Reading, Comparing
    <2> QED BY <2>1, <2>3
  <1>9. CASE RollOver(p)
    <2>0. pc[p] = "roll" /\ call[p].op = "consume" BY <1>2, <1>9 DEF RollOver, Access, At, ThreadInv
    <2>1. /\ OnlyCall(p) /\ Due' = Due /\ pc[p] = "roll"
          /\ pc'[p] = IF bucket_hour # call[p].now THEN "lock" ELSE "addTotal"
      BY <1>3, <1>4, <1>9, <2>0, QuietCall DEF RollOver, Access, shared, AfterRoll
    <2>2. call'[p] = call[p] /\ clock' = clock BY <1>9, <2>1 DEF RollOver, Access, OnlyCall
    <2> HIDE DEF InRoll
    <2>3. ThreadInv(p, a, R)'
      BY <1>2, <1>4, <1>9, <2>1, <2>2 DEF RollOver, ThreadInv, OnlyCall, Before, Adding, Reading, Comparing
    <2> QED BY <2>1, <2>3
  <1>10. CASE Lock(p)
    <2>0. pc[p] = "lock" /\ call[p].op = "consume" BY <1>2, <1>10 DEF Lock, Access, At, ThreadInv
    <2>1. OnlyCall(p) /\ Due' = Due /\ pc[p] = "lock" /\ pc'[p] = "recheck"
      BY <1>3, <1>4, <1>10, <2>0, QuietCall DEF Lock, Access
    <2>2. call'[p] = call[p] /\ clock' = clock BY <1>10, <2>1 DEF Lock, Access, OnlyCall
    <2> HIDE DEF InRoll
    <2>3. ThreadInv(p, a, R)'
      BY <1>2, <1>4, <1>10, <2>1, <2>2 DEF Lock, ThreadInv, OnlyCall, Before, Adding, Reading, Comparing
    <2> QED BY <2>1, <2>3
  <1>11. CASE Recheck(p) /\ bucket_hour = call[p].now
    <2>1. OnlyCall(p) /\ Due' = Due /\ pc[p] = "recheck" /\ pc'[p] = "addTotal"
      BY <1>2, <1>3, <1>4, <1>11, QuietCall DEF Recheck, Access, AfterRoll, ThreadInv, At
    <2>2. call'[p] = call[p] /\ clock' = clock BY <1>11, <2>1 DEF Recheck, Access, OnlyCall
    <2>3. settle_lock = p BY <1>3, <2>1 DEF BillInv, LockDiscipline, Locked
    <2>4. ~InRoll'
      <3>1. ASSUME NEW q \in Threads, pc[q] \in Rolling PROVE FALSE
        BY <2>1, <2>3, <3>1, NoActorAssumption DEF BillInv, LockDiscipline, Locked, Actors
      <3> QED BY <2>1, <3>1 DEF OnlyCall, InRoll
    <2> HIDE DEF InRoll
    <2>5. ThreadInv(p, a, R)'
      BY <1>2, <2>1, <2>2, <2>4 DEF ThreadInv, OnlyCall, Before, Adding, Reading, Comparing
    <2> QED BY <2>1, <2>5
  <1>12. CASE AddTotal(p)
    <2>1. OnlyCall(p) /\ Due' = Due /\ pc[p] = "addTotal" /\ pc'[p] = "addBucket"
      BY <1>3, <1>4, <1>12, QuietCall DEF AddTotal, Access
    <2>2. call'[p] = call[p] /\ clock' = clock BY <1>12, <2>1 DEF AddTotal, Access, OnlyCall
    <2> HIDE DEF InRoll
    <2>3. ThreadInv(p, a, R)'
      BY <1>2, <1>4, <1>12, <2>1, <2>2 DEF AddTotal, ThreadInv, OnlyCall, Before, Adding, Reading, Comparing
    <2> QED BY <2>1, <2>3
  <1>13. CASE ReadLimit(p)
    <2>1. limit # NoLimit BY NoLimitAssumption
    <2>2. OnlyCall(p) /\ Due' = Due /\ pc[p] = "readLimit" /\ pc'[p] = "readSettled"
      BY <1>3, <1>4, <1>13, <2>1, QuietCall DEF ReadLimit, LimitOr, shared
    <2>3. /\ call'[p].op = call[p].op /\ call'[p].now = call[p].now /\ call'[p].n = call[p].n
          /\ clock' = clock
      BY <1>3, <1>4, <1>13, <2>1 DEF ReadLimit, LimitOr, shared, Calls
    <2> HIDE DEF InRoll
    <2>4. ThreadInv(p, a, R)'
      BY <1>2, <2>2, <2>3 DEF ThreadInv, Covered, OnlyCall, Before, Adding, Reading, Comparing
    <2> QED BY <2>2, <2>4
  <1>14. CASE ReadSettled(p)
    <2>1. OnlyCall(p) /\ Due' = Due /\ pc[p] = "readSettled" /\ pc'[p] = "readMetering"
      BY <1>3, <1>4, <1>14, QuietCall DEF ReadSettled, Load, shared
    <2>2. call'[p] = call[p] /\ clock' = clock /\ settled' = settled /\ hour' = hour
      BY <1>14 DEF ReadSettled, Load, shared
    <2>3. view'[p].settled = settled
      BY <1>3, <1>4, <1>14 DEF ReadSettled, Load, Views
    <2> HIDE DEF InRoll
    <2>9. ASSUME R < a PROVE Covered(p)'
      BY <1>2, <2>1, <2>2, <2>3, <2>9 DEF ThreadInv, Covered, OnlyCall, Reading, Comparing
    <2>10. ThreadInv(p, a, R)'
      BY <1>2, <2>1, <2>2, <2>9 DEF ThreadInv, OnlyCall, Before, Adding, Reading, Comparing
    <2> QED BY <2>1, <2>10
  <1>15. CASE ReadMetering(p)
    <2>1. OnlyCall(p) /\ Due' = Due /\ pc[p] = "readMetering" /\ pc'[p] = "readUp"
      BY <1>3, <1>4, <1>15, QuietCall DEF ReadMetering, Load, shared
    <2>2. call'[p] = call[p] /\ clock' = clock /\ settled' = settled /\ hour' = hour
      BY <1>15 DEF ReadMetering, Load, shared
    <2>3. view'[p].settled = view[p].settled
      BY <1>3, <1>4, <1>15 DEF ReadMetering, Load, Views
    <2> HIDE DEF InRoll
    <2>9. ASSUME R < a PROVE Covered(p)'
      BY <1>2, <2>1, <2>2, <2>3, <2>9 DEF ThreadInv, Covered, OnlyCall, Reading, Comparing
    <2>10. ThreadInv(p, a, R)'
      BY <1>2, <2>1, <2>2, <2>9 DEF ThreadInv, OnlyCall, Before, Adding, Reading, Comparing
    <2> QED BY <2>1, <2>10
  <1>16. CASE ReadUp(p)
    <2>1. OnlyCall(p) /\ Due' = Due /\ pc[p] = "readUp" /\ pc'[p] = "readDown"
      BY <1>3, <1>4, <1>16, QuietCall DEF ReadUp, Load, shared
    <2>2. call'[p] = call[p] /\ clock' = clock /\ settled' = settled /\ hour' = hour
      BY <1>16 DEF ReadUp, Load, shared
    <2>3. view'[p].settled = view[p].settled /\ view'[p].up = hour["up"]
      BY <1>3, <1>4, <1>16 DEF ReadUp, Load, Views
    <2>4. ~InRoll => Due = settled + bill(metering, hour["up"], hour["down"])
      BY QuietRoll, QuietBill DEF RaceWith
    <2> HIDE DEF InRoll
    <2>9. ASSUME R < a PROVE Covered(p)'
      BY <1>2, <2>1, <2>2, <2>3, <2>4, <2>9 DEF ThreadInv, Covered, OnlyCall, Reading, Comparing
    <2>10. ThreadInv(p, a, R)'
      BY <1>2, <2>1, <2>2, <2>9 DEF ThreadInv, OnlyCall, Before, Adding, Reading, Comparing
    <2> QED BY <2>1, <2>10
  <1>17. CASE ReadDown(p)
    <2>1. OnlyCall(p) /\ Due' = Due /\ pc[p] = "readDown" /\ pc'[p] = "verdict"
      BY <1>3, <1>4, <1>17, QuietCall DEF ReadDown, Load, shared
    <2>2. call'[p] = call[p] /\ clock' = clock /\ settled' = settled /\ hour' = hour
      BY <1>17 DEF ReadDown, Load, shared
    <2>3. /\ view'[p].settled = view[p].settled /\ view'[p].up = view[p].up
          /\ view'[p].down = hour["down"] /\ view'[p].metering = view[p].metering
      BY <1>3, <1>4, <1>17 DEF ReadDown, Load, Views
    <2>4. view[p].metering = metering BY <1>3, <2>1 DEF BillInv, ViewInv
    <2>5. UsedOf(view[p])' = view[p].settled + bill(metering, view[p].up, hour["down"])
      BY <2>3, <2>4 DEF UsedOf
    <2> HIDE DEF InRoll
    <2>9. ASSUME R < a PROVE Covered(p)'
      BY <1>2, <2>1, <2>2, <2>3, <2>4, <2>5, <2>9 DEF ThreadInv, Covered, OnlyCall, Reading, Comparing
    <2>10. ThreadInv(p, a, R)'
      BY <1>2, <2>1, <2>2, <2>9 DEF ThreadInv, OnlyCall, Before, Adding, Reading, Comparing
    <2> QED BY <2>1, <2>10
  <1>18. CASE Verdict(p)
    <2>1. pc[p] = "verdict" BY <1>18 DEF Verdict, Return, At
    <2>2. call[p].op = "consume" /\ call[p].lim = limit
      BY <1>2, <1>3, <2>1 DEF ThreadInv, CutInv, Comparing
    <2>3. UsedOf(view[p]) \in Nat
      <3>1. /\ view[p].settled \in Nat /\ view[p].up \in Nat /\ view[p].down \in Nat
            /\ view[p].metering \in AllMeterings
        BY <1>3, <1>4 DEF Views
      <3>2. bill(view[p].metering, view[p].up, view[p].down) \in Nat BY <3>1, BillType
      <3> QED BY <3>1, <3>2 DEF UsedOf
    <2> HIDE DEF InRoll
    <2>4. CASE Return(p, "verdict") /\ UsedOf(view[p]) < call[p].lim
      <3>1. OnlyCall(p) /\ Due' = Due /\ pc'[p] = "idle"
        BY <1>3, <1>4, <1>18, <2>4, QuietCall DEF Verdict, Return, shared
      <3>2. a <= R
        BY <1>2, <2>1, <2>2, <2>3, <2>4 DEF ThreadInv, Covered, Reading, Comparing
      <3>3. ThreadInv(p, a, R)'
        BY <1>2, <3>1, <3>2 DEF ThreadInv, Before, Adding, Reading, Comparing
      <3> QED BY <3>1, <3>3
    <2>5. CASE /\ At(p, "verdict", "storeFlag") /\ UsedOf(view[p]) >= call[p].lim
               /\ call' = [call EXCEPT ![p].ex = (UsedOf(view[p]) >= call[p].lim)] /\ view' = view
      <3>1. OnlyCall(p) /\ Due' = Due /\ pc'[p] = "storeFlag"
        BY <1>3, <1>4, <1>18, <2>5, QuietCall DEF Verdict, shared
      <3>2. /\ call'[p].op = call[p].op /\ call'[p].now = call[p].now /\ call'[p].n = call[p].n
            /\ call'[p].ex
        BY <1>3, <1>4, <2>5 DEF Calls
      <3>3. ThreadInv(p, a, R)'
        BY <1>2, <2>1, <3>1, <3>2 DEF ThreadInv, OnlyCall, Before, Adding, Reading, Comparing
      <3> QED BY <3>1, <3>3
    <2> QED BY <1>18, <2>2, <2>4, <2>5 DEF Verdict
  <1>19. CASE StoreFlag(p)
    <2>1. pc[p] = "storeFlag" /\ call' = call /\ exhausted_flag' = call[p].ex
      BY <1>19 DEF StoreFlag, Access, At
    <2>2. call[p].ex BY <1>2, <2>1 DEF ThreadInv
    <2>3. OnlyCall(p) /\ Due' = Due /\ pc'[p] = "sendWatch"
      BY <1>3, <1>4, <1>19, <2>1, <2>2, QuietCall DEF StoreFlag, Access
    <2> HIDE DEF InRoll
    <2>4. ThreadInv(p, a, R)'
      BY <1>2, <2>1, <2>2, <2>3 DEF ThreadInv, OnlyCall, Before, Adding, Reading, Comparing
    <2> QED BY <2>3, <2>4
  <1>20. CASE SendWatch(p)
    <2>1. OnlyCall(p) /\ Due' = Due /\ pc[p] = "sendWatch" /\ pc'[p] = "idle"
      BY <1>3, <1>4, <1>20, QuietCall DEF SendWatch, Return
    <2> HIDE DEF InRoll
    <2>2. ThreadInv(p, a, R)'
      BY <1>2, <2>1 DEF ThreadInv, OnlyCall, Before, Adding, Reading, Comparing
    <2> QED BY <2>1, <2>2
  <1> QED BY <1>6, <1>7, <1>8, <1>9, <1>10, <1>11, <1>12, <1>13, <1>14, <1>15, <1>16, <1>17, <1>18, <1>19, <1>20

(* A rollover under way moves no task's charge. *)
LEMMA RollingKept ==
    ASSUME BillInv, TypeInv', limit \in Nat, metering' = metering,
           NEW g \in [Threads -> Nat], NEW R \in Nat, NEW k \in Nat, RaceWith(g, R, k), NEW p \in Threads,
           SwapUp(p) \/ SwapDown(p) \/ Bill(p) \/ Fold(p)
    PROVE  RaceWith(g, R, k)'
  <1>1. PICK a \in Nat : a = g[p] OBVIOUS
  <1>2. ThreadInv(p, a, R) BY <1>1 DEF RaceWith
  <1>3. p \in Actors /\ pc \in [Actors -> Locations] /\ view \in [Actors -> Views]
    BY DEF Actors, BillInv, TypeInv, TypeOK
  <1>4. /\ pc[p] \in Rolling /\ pc'[p] \in Rolling /\ call' = call
        /\ \A q \in Actors \ {p} : pc'[q] = pc[q] /\ view'[q] = view[q]
        /\ limit' = limit /\ clock' = clock /\ bucket_hour' = bucket_hour
        /\ exhausted_flag' = exhausted_flag
    BY <1>3 DEF SwapUp, SwapDown, Swap, Bill, Load, Fold, At, shared, Rolling
  <1>5. InRoll /\ InRoll' BY <1>4 DEF InRoll
  <1>6. OnlyCall(p) BY <1>4, <1>5 DEF OnlyCall
  <1>7. Due' = Due
    <2>1. CASE SwapUp(p) BY <1>3, <2>1, SwapUpDue
    <2>2. CASE SwapDown(p) BY <1>3, <2>2, SwapDownDue
    <2>3. CASE Fold(p) BY <1>3, <2>3, FoldDue
    <2>4. CASE Bill(p)
      <3>1. \A q \in Actors : pc'[q] = "swapDown" <=> pc[q] = "swapDown"
        BY <1>3, <2>4 DEF Bill, Load, At
      <3> QED BY <2>4, <3>1, QuietDue DEF Bill, Load, shared
    <2> QED BY <2>1, <2>2, <2>3, <2>4
  <1> HIDE DEF InRoll
  <1>8. ThreadInv(p, a, R)'
    BY <1>2, <1>4, <1>5 DEF ThreadInv, Rolling, Before, Adding, Reading, Comparing
  <1> QED BY <1>1, <1>6, <1>7, <1>8, CallStep

(* A rollover ends: the tasks that waited for it may go on. *)
LEMMA RollEnds ==
    ASSUME BillInv, TypeInv', limit \in Nat, metering' = metering,
           NEW g \in [Threads -> Nat], NEW R \in Nat, NEW k \in Nat, RaceWith(g, R, k), NEW p \in Threads,
           StoreHour(p)
    PROVE  RaceWith(g, R, k)'
  <1>1. PICK a \in Nat : a = g[p] OBVIOUS
  <1>2. ThreadInv(p, a, R) BY <1>1 DEF RaceWith
  <1>3. p \in Actors /\ pc \in [Actors -> Locations] BY DEF Actors, BillInv, TypeInv, TypeOK
  <1>4. pc[p] = "storeHour" /\ call[p].op = "consume"
    BY <1>2 DEF StoreHour, Access, At, ThreadInv
  <1>5. /\ pc'[p] = "addTotal" /\ call' = call /\ view' = view /\ bucket_hour' = call[p].now
        /\ \A q \in Actors \ {p} : pc'[q] = pc[q]
        /\ limit' = limit /\ clock' = clock /\ exhausted_flag' = exhausted_flag
        /\ settled' = settled /\ hour' = hour /\ held' = held
    BY <1>3, <1>4 DEF StoreHour, Access, At, AfterRoll
  <1>6. InRoll BY <1>4 DEF InRoll, Rolling
  <1>7. ~InRoll'
    <2>1. settle_lock = p BY <1>3, <1>4 DEF BillInv, LockDiscipline, Locked
    <2>2. ASSUME NEW q \in Threads, pc[q] \in Rolling, q # p PROVE FALSE
      BY <2>1, <2>2, NoActorAssumption DEF BillInv, LockDiscipline, Locked, Rolling, Actors
    <2> QED BY <1>5, <2>2 DEF InRoll, Rolling, Actors
  <1>8. Due' = Due BY <1>3, <1>4, <1>5, QuietDue
  <1>9. /\ Due \in Nat /\ clock \in Nat /\ bucket_hour \in Nat /\ call[p].now \in Nat
        /\ hour["down"] \in Nat
    BY <1>3, DueFacts DEF BillInv, TypeInv, TypeOK, Calls, Dirs
  <1>10. bucket_hour < call[p].now /\ call[p].now <= clock
    BY <1>2, <1>4 DEF ThreadInv, Rolling
  <1>11. R <= bucket_hour /\ \A q \in Actors \ Threads : pc[q] \notin Rolling
    BY DEF RaceWith, HourInv
  <1>12. HourInv(R)' BY <1>5, <1>9, <1>10, <1>11 DEF HourInv
  <1> HIDE DEF InRoll
  <1>13. ThreadInv(p, a, R)'
    BY <1>2, <1>4, <1>5, <1>7 DEF ThreadInv, Rolling, Before, Adding, Reading, Comparing
  <1>14. ASSUME NEW q \in Threads PROVE ThreadInv(q, g[q], R)'
    <2>1. PICK b \in Nat : b = g[q] OBVIOUS
    <2>2. CASE q # p
      <3>1. ThreadInv(q, b, R) BY <2>1 DEF RaceWith
      <3>2. Due <= Due' /\ clock <= clock' BY <1>5, <1>8, <1>9
      <3>3. pc'[q] = pc[q] /\ call'[q] = call[q] /\ view'[q] = view[q] BY <1>5, <2>2 DEF Actors
      <3>4. ThreadInv(q, b, R)' BY <1>5, <1>6, <1>7, <3>1, <3>2, <3>3, OtherKept
      <3> QED BY <2>1, <3>4
    <2>3. CASE q = p BY <1>1, <1>13, <2>3
    <2> QED BY <2>2, <2>3
  <1>15. Due' < limit' + k * Max(Chunks) BY <1>5, <1>8 DEF RaceWith
  <1>16. Cardinality(Units(g)) = R + k BY DEF RaceWith
  <1> QED BY <1>12, <1>14, <1>15, <1>16 DEF RaceWith

(* A rollover starts: it is charged to the task that performs it, and every *)
(* other task may read too little once more.                                *)
LEMMA RollStarts ==
    ASSUME Racing, BillInv, TypeInv', limit \in Nat, metering' = metering,
           NEW g \in [Threads -> Nat], NEW R \in Nat, NEW k \in Nat, RaceWith(g, R, k), NEW p \in Threads,
           Recheck(p), bucket_hour < call[p].now
    PROVE  \E h \in [Threads -> Nat] : RaceWith(h, R + 1, k)'
  <1>1. PICK a \in Nat : a = g[p] OBVIOUS
  <1>2. ThreadInv(p, a, R) BY <1>1 DEF RaceWith
  <1>3. p \in Actors /\ pc \in [Actors -> Locations] BY DEF Actors, BillInv, TypeInv, TypeOK
  <1>4. /\ bucket_hour \in Nat /\ call[p].now \in Nat /\ Due \in Nat
    BY <1>3, DueFacts DEF BillInv, TypeInv, TypeOK, Calls
  <1>5. /\ pc[p] = "recheck" /\ pc'[p] = "swapUp" /\ call' = call /\ view' = view
        /\ \A q \in Actors \ {p} : pc'[q] = pc[q]
        /\ limit' = limit /\ clock' = clock /\ exhausted_flag' = exhausted_flag
        /\ bucket_hour' = bucket_hour /\ settled' = settled /\ hour' = hour /\ held' = held
    BY <1>3, <1>4 DEF Recheck, Access, At
  <1>6. ~InRoll
    <2>1. settle_lock = p BY <1>3, <1>5 DEF BillInv, LockDiscipline, Locked
    <2>2. ASSUME NEW q \in Threads, pc[q] \in Rolling PROVE FALSE
      BY <1>5, <2>1, <2>2, NoActorAssumption DEF BillInv, LockDiscipline, Locked, Rolling, Actors
    <2> QED BY <2>2 DEF InRoll
  <1>7. InRoll' BY <1>5 DEF InRoll, Rolling
  <1>8. Due' = Due BY <1>3, <1>5, QuietDue
  <1>9. bucket_hour <= clock /\ R < bucket_hour /\ \A q \in Actors \ Threads : pc[q] \notin Rolling
    BY <1>6 DEF RaceWith, HourInv
  <1>10. PICK S \in Nat : S = R + 1 OBVIOUS
  <1>11. HourInv(S)' BY <1>4, <1>5, <1>7, <1>9, <1>10 DEF HourInv
  <1>12. ASSUME NEW q \in Threads PROVE g[q] <= S
    BY <1>10 DEF RaceWith, ThreadInv
  <1>13. IsFiniteSet(Units(g)) BY <1>12, UnitsBounded
  <1>14. PICK h \in [Threads -> Nat] :
            /\ h[p] = g[p] + 1 /\ \A q \in Threads \ {p} : h[q] = g[q]
            /\ Cardinality(Units(h)) = Cardinality(Units(g)) + 1
    BY <1>13, OneUnit
  <1>15. /\ h \in [Threads -> Nat] /\ h[p] = g[p] + 1 /\ \A q \in Threads \ {p} : h[q] = g[q]
         /\ Cardinality(Units(h)) = Cardinality(Units(g)) + 1
    BY <1>14
  <1>16. Cardinality(Units(h)) = S + k BY <1>10, <1>15 DEF RaceWith
  <1>17. Due' < limit' + k * Max(Chunks) BY <1>5, <1>8 DEF RaceWith
  <1> HIDE DEF InRoll
  <1>18. ASSUME NEW q \in Threads, NEW b \in Nat, NEW c \in Nat, b = g[q], c = h[q]
         PROVE  ThreadInv(q, c, S)'
    <2>1. ThreadInv(q, b, R) BY <1>18 DEF RaceWith
    <2>2. CASE q = p
      <3>1. b <= R BY <1>5, <2>1, <2>2 DEF ThreadInv, Before
      <3>2. c <= S BY <1>10, <1>15, <1>18, <2>2, <3>1
      <3> QED BY <1>5, <1>10, <2>1, <2>2, <3>2 DEF ThreadInv, Rolling, Before, Adding, Reading, Comparing
    <2>3. CASE q # p
      <3>1. c = b BY <1>15, <1>18, <2>3
      <3>2. pc'[q] = pc[q] /\ pc[q] \notin Rolling
        BY <1>5, <1>6, <2>3 DEF Actors, InRoll
      <3>3. c <= S BY <1>12, <1>18, <3>1
      <3>4. c <= R => c < S BY <1>10
      <3>5. c <= R => c <= S BY <1>10
      <3> QED BY <1>5, <1>10, <2>1, <3>1, <3>2, <3>3, <3>4, <3>5 DEF ThreadInv, Before, Reading, Comparing
    <2> QED BY <2>2, <2>3
  <1>19. \A q \in Threads : ThreadInv(q, h[q], S)' BY <1>15, <1>18
  <1>20. RaceWith(h, S, k)' BY <1>11, <1>16, <1>17, <1>19 DEF RaceWith
  <1> QED BY <1>10, <1>15, <1>20

(* A buffer moves.  If it leaves the bill at or past the limit its task is *)
(* charged for it, and one buffer more is allowed.                         *)
LEMMA BufferMoves ==
    ASSUME Racing, BillInv, TypeInv', limit \in Nat, metering' = metering,
           NEW g \in [Threads -> Nat], NEW R \in Nat, NEW k \in Nat, RaceWith(g, R, k), NEW p \in Threads,
           AddBucket(p)
    PROVE  \E h \in [Threads -> Nat], j \in Nat : RaceWith(h, R, j)'
  <1>1. PICK a \in Nat : a = g[p] OBVIOUS
  <1>2. ThreadInv(p, a, R) BY <1>1 DEF RaceWith
  <1>3. p \in Actors /\ pc \in [Actors -> Locations] BY DEF Actors, BillInv, TypeInv, TypeOK
  <1>4. /\ pc[p] = "addBucket" /\ pc'[p] = "readLimit" /\ call' = call /\ view' = view
        /\ \A q \in Actors \ {p} : pc'[q] = pc[q]
        /\ limit' = limit /\ clock' = clock /\ exhausted_flag' = exhausted_flag
        /\ bucket_hour' = bucket_hour /\ settled' = settled
    BY <1>3 DEF AddBucket, Access, At
  <1>5. InRoll' <=> InRoll BY <1>4 DEF InRoll, Rolling, Actors
  <1>6. PICK M \in Nat : M = Max(Chunks) BY LargestChunk
  <1>7. PICK n \in Nat : n = call[p].n BY <1>3 DEF BillInv, TypeInv, TypeOK, Calls
  <1>8. n \in Chunks BY <1>2, <1>4, <1>7 DEF ThreadInv
  <1>9. n <= M BY <1>6, <1>8, LargestChunk
  <1>10. /\ Due <= Due' /\ Due' <= Due + n /\ hour["down"] <= hour'["down"]
    BY <1>3, <1>7, AddDue
  <1>11. Due \in Nat /\ Due' \in Nat /\ clock \in Nat
    BY DueFacts, DueNatNext DEF BillInv, TypeInv, TypeOK
  <1>12. HourInv(R)' BY <1>4, <1>5 DEF HourInv, RaceWith, Rolling
  <1>13. a <= R /\ (InRoll => a < R) BY <1>2, <1>4 DEF ThreadInv, Before, Adding
  <1>14. Due < limit + k * M /\ Cardinality(Units(g)) = R + k BY <1>6 DEF RaceWith
  <1>15. k * M \in Nat /\ (k + 1) * M = k * M + M OBVIOUS
  <1>16. ASSUME NEW q \in Threads \ {p} PROVE ThreadInv(q, g[q], R)'
    <2>1. PICK b \in Nat : b = g[q] OBVIOUS
    <2>2. ThreadInv(q, b, R) BY <2>1 DEF RaceWith
    <2>3. clock <= clock' BY <1>4, <1>11
    <2>4. pc'[q] = pc[q] /\ call'[q] = call[q] /\ view'[q] = view[q] BY <1>4 DEF Actors
    <2>5. ThreadInv(q, b, R)' BY <1>4, <1>5, <1>10, <2>2, <2>3, <2>4, OtherKept
    <2> QED BY <2>1, <2>5
  <1> HIDE DEF InRoll
  <1>17. CASE Due' < limit
    <2>1. ThreadInv(p, a, R)'
      BY <1>2, <1>4, <1>5, <1>13 DEF ThreadInv, Rolling, Before, Adding, Reading, Comparing
    <2>2. \A q \in Threads : ThreadInv(q, g[q], R)' BY <1>1, <1>16, <2>1
    <2>3. Due' < limit' + k * M BY <1>4, <1>11, <1>15, <1>17
    <2>4. RaceWith(g, R, k)' BY <1>6, <1>12, <1>14, <2>2, <2>3 DEF RaceWith
    <2> QED BY <2>4
  <1>18. CASE limit <= Due'
    <2>1. ASSUME NEW q \in Threads PROVE g[q] <= R + 1 BY DEF RaceWith, ThreadInv
    <2>2. IsFiniteSet(Units(g))
      <3>1. PICK m \in Nat : m = R + 1 OBVIOUS
      <3> QED BY <2>1, <3>1, UnitsBounded
    <2>3. PICK h \in [Threads -> Nat] :
             /\ h[p] = g[p] + 1 /\ \A q \in Threads \ {p} : h[q] = g[q]
             /\ Cardinality(Units(h)) = Cardinality(Units(g)) + 1
      BY <2>2, OneUnit
    <2>4. PICK c \in Nat : c = a + 1 OBVIOUS
    <2>5. h[p] = c BY <1>1, <2>3, <2>4
    <2>6. R < c => Covered(p)'
      <3>1. ASSUME R < c PROVE ~InRoll' /\ limit' <= Due'
        BY <1>4, <1>5, <1>13, <1>18, <2>4, <3>1
      <3> QED BY <1>4, <3>1 DEF Covered
    <2>7. c <= R + 1 BY <1>13, <2>4
    <2>8. ThreadInv(p, c, R)'
      BY <1>2, <1>4, <1>5, <2>6, <2>7 DEF ThreadInv, Rolling, Before, Adding, Reading, Comparing
    <2>9. \A q \in Threads : ThreadInv(q, h[q], R)' BY <1>16, <2>3, <2>5, <2>8
    <2>10. PICK j \in Nat : j = k + 1 OBVIOUS
    <2>11. j * M = k * M + M BY <1>15, <2>10
    <2>12. Due' < limit' + j * M
      <3>1. PICK x \in Nat : x = k * M BY <1>15
      <3>2. Due < limit + x BY <1>14, <3>1
      <3>3. Due' < limit + (x + M) BY <1>9, <1>10, <1>11, <3>2
      <3> QED BY <1>4, <2>11, <3>1, <3>3
    <2>13. Cardinality(Units(h)) = R + j BY <1>14, <2>3, <2>10
    <2>14. RaceWith(h, R, j)' BY <1>6, <1>12, <2>9, <2>12, <2>13 DEF RaceWith
    <2> QED BY <2>3, <2>14
  <1> QED BY <1>11, <1>17, <1>18

(* The clock and the flush task leave every relay task where it is. *)
LEMMA BesideKept ==
    ASSUME BillInv, TypeInv', limit \in Nat, metering' = metering,
           NEW g \in [Threads -> Nat], NEW R \in Nat, NEW k \in Nat, RaceWith(g, R, k),
           \A q \in Threads : pc'[q] = pc[q] /\ call'[q] = call[q] /\ view'[q] = view[q],
           \A q \in Actors \ Threads : pc'[q] \notin Rolling,
           limit' = limit, clock <= clock', bucket_hour' = bucket_hour, exhausted_flag' = exhausted_flag,
           settled' = settled, hour' = hour, Due' = Due
    PROVE  RaceWith(g, R, k)'
  <1>1. InRoll' <=> InRoll BY DEF InRoll
  <1>2. /\ Due \in Nat /\ clock \in Nat /\ clock' \in Nat /\ bucket_hour \in Nat /\ hour["down"] \in Nat
    BY DueFacts DEF BillInv, TypeInv, TypeOK, Dirs
  <1>3. Due <= Due' /\ hour["down"] <= hour["down"] BY <1>2
  <1>4. ASSUME NEW q \in Threads PROVE ThreadInv(q, g[q], R)'
    <2>1. PICK b \in Nat : b = g[q] OBVIOUS
    <2>2. ThreadInv(q, b, R) BY <2>1 DEF RaceWith
    <2>3. ThreadInv(q, b, R)' BY <1>1, <1>3, <2>2, OtherKept
    <2> QED BY <2>1, <2>3
  <1>5. HourInv(R)' BY <1>1, <1>2 DEF HourInv, RaceWith
  <1> QED BY <1>4, <1>5 DEF RaceWith

LEMMA FlushKept ==
    ASSUME Racing, BillInv, TypeInv', limit \in Nat, metering' = metering,
           NEW g \in [Threads -> Nat], NEW R \in Nat, NEW k \in Nat, RaceWith(g, R, k),
           NEW p \in Flushers, FlusherStep(p)
    PROVE  RaceWith(g, R, k)'
  <1>1. p \in Actors /\ p \notin Threads /\ pc \in [Actors -> Locations]
    BY DEF Racing, Actors, BillInv, TypeInv, TypeOK
  <1>2. call \in [Actors -> Calls] /\ view \in [Actors -> Views] /\ clock \in Nat
    BY DEF BillInv, TypeInv, TypeOK
  <1>3. /\ \A q \in Actors \ {p} : pc'[q] = pc[q] /\ call'[q] = call[q] /\ view'[q] = view[q]
        /\ pc[p] # "swapDown" /\ pc'[p] \notin Rolling
        /\ limit' = limit /\ clock' = clock /\ bucket_hour' = bucket_hour
        /\ exhausted_flag' = exhausted_flag /\ settled' = settled /\ hour' = hour /\ held' = held
    <2>1. CASE Snapshot(p) BY <1>1, <1>2, <2>1 DEF Snapshot, Begin, At, shared, Rolling
    <2>2. CASE Lock(p) BY <1>1, <1>2, <2>2 DEF Lock, Access, At, Rolling
    <2>3. CASE SnapUpload(p) \/ SnapDownload(p) \/ SnapSettled(p) \/ SnapHourUp(p)
      BY <1>1, <1>2, <2>3
         DEF SnapUpload, SnapDownload, SnapSettled, SnapHourUp, SnapLoad, At, shared, Rolling
    <2>4. CASE SnapHourDown(p) BY <1>1, <1>2, <2>4 DEF SnapHourDown, Return, At, Rolling
    <2> QED BY <2>1, <2>2, <2>3, <2>4 DEF FlusherStep
  <1>4. Due' = Due BY <1>1, <1>3, QuietDue DEF Rolling
  <1>5. \A q \in Actors \ Threads : pc'[q] \notin Rolling BY <1>3 DEF RaceWith, HourInv
  <1>6. clock <= clock' BY <1>2, <1>3
  <1>7. \A q \in Threads : pc'[q] = pc[q] /\ call'[q] = call[q] /\ view'[q] = view[q]
    BY <1>1, <1>3 DEF Actors
  <1> QED BY <1>3, <1>4, <1>5, <1>6, <1>7, BesideKept

LEMMA RaceStep ==
    ASSUME Racing, BillInv, CutInv, RaceInv, [RaceNext]_<<vars, reopened>> PROVE RaceInv'
  <1>1. [Next]_vars /\ FixedMetering /\ Controllers = {} BY DEF RaceNext, Next, Racing, FixedMetering
  <1>2. BillInv' /\ TypeInv /\ TypeInv' BY <1>1, BillStep DEF BillInv
  <1>3. metering' = metering BY <1>1, <1>2, MeteringKept
  <1>4. clock \in Nat /\ (limit = NoLimit \/ limit \in Nat)
    BY <1>2, LimitsAssumption DEF TypeInv, TypeOK
  <1>5. SUFFICES ASSUME limit' # NoLimit, ~reopened'
                 PROVE  \E h \in [Threads -> Nat], S \in Nat, j \in Nat : RaceWith(h, S, j)'
    BY DEF RaceInv
  <1>6. /\ ~reopened
        /\ \/ UNCHANGED vars
           \/ Tick
           \/ \E p \in Threads : ThreadStep(p)
           \/ \E p \in Flushers : FlusherStep(p)
        /\ UNCHANGED vars \/ \A p \in Actors : ~Reopens(p)
    <2>1. CASE UNCHANGED <<vars, reopened>> BY <1>5, <2>1
    <2>2. CASE RaceNext
      <3>1. ~(reopened \/ \E p \in Actors : Reopens(p)) BY <1>5, <2>2, Zenon DEF RaceNext
      <3>2. ~reopened /\ \A p \in Actors : ~Reopens(p) BY <3>1
      <3>3. Run BY <2>2 DEF RaceNext
      <3>4. \/ Tick
            \/ \E p \in Threads : ThreadStep(p)
            \/ \E p \in Flushers : FlusherStep(p)
        BY <3>3 DEF Run, Racing
      <3> QED BY <3>2, <3>4
    <2> QED BY <2>1, <2>2
  <1>7. limit' = limit
    BY <1>6 DEF vars, shared, Tick, ThreadStep, FlusherStep, roll_over, used, Announce,
       Consume, CheckFlag, RollOver, Lock, Recheck, SwapUp, SwapDown, Swap, Bill, Fold, StoreHour,
       AddTotal, AddBucket, ReadLimit, LimitOr, ReadSettled, ReadMetering, ReadUp, ReadDown, Load,
       Verdict, StoreFlag, SendWatch, SnapUpload, SnapDownload, SnapSettled, SnapHourUp,
       SnapHourDown, SnapLoad, Snapshot
  <1>8. limit \in Nat BY <1>4, <1>5, <1>7
  <1>9. PICK g \in [Threads -> Nat], R \in Nat, k \in Nat : RaceWith(g, R, k)
    BY <1>5, <1>6, <1>7 DEF RaceInv
  <1>10. CASE UNCHANGED vars
    <2>1. /\ pc' = pc /\ call' = call /\ view' = view /\ limit' = limit /\ clock' = clock /\ bucket_hour' = bucket_hour
          /\ exhausted_flag' = exhausted_flag /\ settled' = settled /\ hour' = hour /\ held' = held
      BY <1>10 DEF vars, shared
    <2>2. Due' = Due BY <1>3, <2>1, QuietDue
    <2>3. \A q \in Actors \ Threads : pc'[q] \notin Rolling BY <1>9, <2>1 DEF RaceWith, HourInv
    <2>4. clock <= clock' BY <1>4, <2>1
    <2>5. RaceWith(g, R, k)' BY <1>2, <1>3, <1>8, <1>9, <2>1, <2>2, <2>3, <2>4, BesideKept
    <2> QED BY <2>5
  <1>11. CASE Tick
    <2>1. /\ pc' = pc /\ call' = call /\ view' = view /\ limit' = limit /\ clock' = clock + 1 /\ bucket_hour' = bucket_hour
          /\ exhausted_flag' = exhausted_flag /\ settled' = settled /\ hour' = hour /\ held' = held
      BY <1>11 DEF Tick
    <2>2. Due' = Due BY <1>3, <2>1, QuietDue
    <2>3. \A q \in Actors \ Threads : pc'[q] \notin Rolling BY <1>9, <2>1 DEF RaceWith, HourInv
    <2>4. clock <= clock' BY <1>4, <2>1
    <2>5. RaceWith(g, R, k)' BY <1>2, <1>3, <1>8, <1>9, <2>1, <2>2, <2>3, <2>4, BesideKept
    <2> QED BY <2>5
  <1>12. ASSUME NEW p \in Flushers, FlusherStep(p) PROVE RaceWith(g, R, k)'
    BY <1>2, <1>3, <1>8, <1>9, <1>12, FlushKept
  <1>13. ASSUME NEW p \in Threads, ThreadStep(p), ~UNCHANGED vars
         PROVE  \E h \in [Threads -> Nat], S \in Nat, j \in Nat : RaceWith(h, S, j)'
    <2>1. CASE AddBucket(p) BY <1>2, <1>3, <1>8, <1>9, <2>1, BufferMoves
    <2>2. CASE StoreHour(p)
      <3>1. RaceWith(g, R, k)' BY <1>2, <1>3, <1>8, <1>9, <2>2, RollEnds
      <3> QED BY <3>1
    <2>3. CASE SwapUp(p) \/ SwapDown(p) \/ Bill(p) \/ Fold(p)
      <3>1. RaceWith(g, R, k)' BY <1>2, <1>3, <1>8, <1>9, <2>3, RollingKept
      <3> QED BY <3>1
    <2>4. CASE Recheck(p) /\ bucket_hour # call[p].now
      <3>1. p \in Actors BY DEF Actors
      <3>2. pc'[p] = "swapUp"
        BY <1>2, <2>4, <3>1 DEF Recheck, Access, At, TypeInv, TypeOK
      <3>3. ~(call[p].now < bucket_hour) BY <1>6, <1>13, <3>1, <3>2 DEF Reopens
      <3>4. call[p].now \in Nat /\ bucket_hour \in Nat BY <1>2, <3>1 DEF TypeInv, TypeOK, Calls
      <3>5. bucket_hour < call[p].now BY <2>4, <3>3, <3>4
      <3>6. PICK h \in [Threads -> Nat] : RaceWith(h, R + 1, k)'
        BY <1>2, <1>3, <1>8, <1>9, <2>4, <3>5, RollStarts
      <3> QED BY <3>6
    <2>5. CASE \/ Consume(p) \/ CheckFlag(p) \/ RollOver(p) \/ Lock(p)
               \/ Recheck(p) /\ bucket_hour = call[p].now
               \/ AddTotal(p) \/ ReadLimit(p) \/ ReadSettled(p) \/ ReadMetering(p) \/ ReadUp(p)
               \/ ReadDown(p) \/ Verdict(p) \/ StoreFlag(p) \/ SendWatch(p)
      <3>1. RaceWith(g, R, k)' BY <1>2, <1>3, <1>8, <1>9, <2>5, QuietKept
      <3> QED BY <3>1
    <2> QED BY <1>13, <2>1, <2>2, <2>3, <2>4, <2>5 DEF ThreadStep, roll_over, used, Announce
  <1> QED BY <1>6, <1>9, <1>10, <1>11, <1>12, <1>13

LEMMA InitRace == ASSUME Racing, Init PROVE RaceInv
  <1>1. TypeInv BY InitType
  <1>2. SUFFICES ASSUME limit # NoLimit
                 PROVE  \E g \in [Threads -> Nat], R \in Nat, k \in Nat : RaceWith(g, R, k)
    BY DEF RaceInv
  <1>3. limit \in Nat BY <1>1, <1>2, LimitsAssumption DEF TypeInv, TypeOK
  <1>4. /\ \A p \in Actors : pc[p] = "idle"
        /\ held = Empty /\ settled = 0 /\ hour = Empty /\ clock = 1 /\ bucket_hour = 1
        /\ exhausted_flag = ExhaustedNow(DefaultUsage, metering, limit)
    BY DEF Init
  <1>5. bill(metering, 0, 0) = 0 BY <1>1, DueFacts, BillFacts
  <1>6. Due = 0 BY <1>4, <1>5 DEF Due, Empty, Dirs
  <1>7. limit = 0 => exhausted_flag
    BY <1>2, <1>4, <1>5 DEF ExhaustedNow, DefaultUsage, Empty, Dirs
  <1>8. \A p \in Threads : pc[p] = "idle" BY <1>4 DEF Actors
  <1>9. ~InRoll /\ \A q \in Actors \ Threads : pc[q] \notin Rolling BY <1>4, <1>8 DEF InRoll, Rolling
  <1>10. HourInv(0) BY <1>4, <1>9 DEF HourInv
  <1>11. PICK M \in Nat : M = Max(Chunks) /\ M > 0 BY LargestChunk
  <1>12. ASSUME NEW a \in {0, 1}, limit = 0 \/ a = 0, NEW p \in Threads PROVE ThreadInv(p, a, 0)
    BY <1>7, <1>8, <1>9, <1>12 DEF ThreadInv, Rolling, Before, Adding, Reading, Comparing
  <1>13. CASE limit # 0
    <2>1. PICK g : g = [p \in Threads |-> 0] OBVIOUS
    <2>2. g \in [Threads -> Nat] /\ \A p \in Threads : g[p] = 0 BY <2>1
    <2>3. Units(g) = {} BY <2>2 DEF Units
    <2>4. Cardinality(Units(g)) = 0 BY <2>3, FS_EmptySet
    <2>5. RaceWith(g, 0, 0)
      BY <1>3, <1>6, <1>10, <1>11, <1>12, <1>13, <2>2, <2>4 DEF RaceWith
    <2> QED BY <2>2, <2>5
  <1>14. CASE limit = 0
    <2>1. PICK p \in Threads : TRUE BY DEF Racing
    <2>2. PICK z : z = [q \in Threads |-> 0] OBVIOUS
    <2>3. z \in [Threads -> Nat] /\ \A q \in Threads : z[q] = 0 BY <2>2
    <2>4. Units(z) = {} BY <2>3 DEF Units
    <2>5. IsFiniteSet(Units(z)) /\ Cardinality(Units(z)) = 0 BY <2>4, FS_EmptySet
    <2>6. PICK g \in [Threads -> Nat] :
             /\ g[p] = z[p] + 1 /\ \A q \in Threads \ {p} : g[q] = z[q]
             /\ Cardinality(Units(g)) = Cardinality(Units(z)) + 1
      BY <2>3, <2>5, OneUnit
    <2>7. Cardinality(Units(g)) = 0 + 1 BY <2>5, <2>6
    <2>8. g[p] = 1 /\ \A q \in Threads \ {p} : g[q] = 0 BY <2>3, <2>6
    <2>9. \A q \in Threads : g[q] \in {0, 1} BY <2>8
    <2>10. \A q \in Threads : ThreadInv(q, g[q], 0) BY <1>12, <1>14, <2>9
    <2>11. Due < limit + 1 * M BY <1>6, <1>11, <1>14
    <2>12. RaceWith(g, 0, 1) BY <1>10, <1>11, <2>7, <2>10, <2>11 DEF RaceWith
    <2> QED BY <2>6, <2>12
  <1> QED BY <1>13, <1>14

(* The hard stop holds for any number of relay tasks and any sizes of      *)
(* buffer: a user moves less than one buffer per task past the limit, and  *)
(* at most one more for each other task and each hour that has turned.     *)
THEOREM OvershootIsBounded == ASSUME Racing PROVE RaceSpec => []OvershootBounded
  <1>1. BillInv /\ CutInv /\ RaceInv /\ [RaceNext]_<<vars, reopened>> => (BillInv /\ CutInv /\ RaceInv)'
    <2>1. [RaceNext]_<<vars, reopened>> => [Next]_vars BY DEF RaceNext, Next
    <2>2. FixedMetering /\ Controllers = {} BY DEF Racing, FixedMetering
    <2> QED BY <2>1, <2>2, BillStep, CutStep, RaceStep
  <1>2. RaceInit => BillInv /\ CutInv /\ RaceInv BY InitBill, InitCut, InitRace DEF RaceInit
  <1>3. ASSUME BillInv, RaceInv PROVE OvershootBounded
    <2>1. SUFFICES ASSUME limit # NoLimit, ~reopened
                   PROVE  Due < limit + (Cardinality(Threads) + (clock - 1) * (Cardinality(Threads) - 1)) * Max(Chunks)
      BY DEF OvershootBounded
    <2>2. PICK g \in [Threads -> Nat], R \in Nat, k \in Nat : RaceWith(g, R, k) BY <1>3, <2>1 DEF RaceInv
    <2>3. PICK m \in Nat : m = R + 1 OBVIOUS
    <2>4. \A p \in Threads : g[p] <= m BY <2>2, <2>3 DEF RaceWith, ThreadInv
    <2>5. PICK N : N = Cardinality(Threads) OBVIOUS
    <2>6. N \in Nat /\ Cardinality(Units(g)) <= N * m BY <2>4, <2>5, UnitsBounded
    <2>7. N >= 1
      <3>1. N # 0 BY <2>5, FS_EmptySet DEF Racing
      <3> QED BY <2>6, <3>1
    <2>8. R + 1 <= clock
      <3>1. bucket_hour \in Nat /\ clock \in Nat BY <1>3 DEF BillInv, TypeInv, TypeOK
      <3>2. CASE InRoll
        <4>1. bucket_hour < clock BY <1>3, <2>2, <3>2, RollBehind
        <4>2. R <= bucket_hour BY <2>2 DEF RaceWith, HourInv
        <4> QED BY <3>1, <4>1, <4>2
      <3>3. CASE ~InRoll
        <4>1. R < bucket_hour /\ bucket_hour <= clock BY <2>2, <3>3 DEF RaceWith, HourInv
        <4> QED BY <3>1, <4>1
      <3> QED BY <3>2, <3>3
    <2>9. PICK c \in Nat : c = clock - 1
      BY <1>3, <2>8 DEF BillInv, TypeInv, TypeOK
    <2>10. PICK M \in Nat : M = Max(Chunks) BY LargestChunk
    <2>11. PICK o \in Nat : o = N - 1 BY <2>6, <2>7
    <2>12. R + k <= N * m /\ Due < limit + k * M BY <2>2, <2>6, <2>10 DEF RaceWith
    <2>13. N * m = N + R * o + R
      <3>1. N * m = N * R + N BY <2>3, <2>6
      <3>2. N * R = R * o + R BY <2>6, <2>11
      <3> QED BY <2>6, <3>1, <3>2
    <2>14. R <= c
      <3>1. clock \in Nat BY <1>3 DEF BillInv, TypeInv, TypeOK
      <3> QED BY <2>8, <2>9, <3>1
    <2>15. R * o <= c * o /\ R * o \in Nat /\ c * o \in Nat BY <2>14
    <2>16. k <= N + c * o
      <3>1. PICK x \in Nat : x = R * o BY <2>15
      <3>2. R + k <= N + x + R BY <2>12, <2>13, <3>1
      <3>3. k <= N + x BY <2>6, <3>2
      <3> QED BY <2>6, <2>15, <3>1, <3>3
    <2>17. PICK e \in Nat : e = N + c * o BY <2>6, <2>15
    <2>18. k * M <= e * M /\ k * M \in Nat /\ e * M \in Nat BY <2>16, <2>17
    <2>19. Due \in Nat /\ limit \in Nat
      BY <1>3, <2>1, DueFacts, LimitsAssumption DEF BillInv, TypeInv, TypeOK
    <2>20. Due < limit + e * M
      <3>1. PICK x \in Nat : x = k * M BY <2>18
      <3>2. PICK y \in Nat : y = e * M BY <2>18
      <3> QED BY <2>12, <2>18, <2>19, <3>1, <3>2
    <2> QED BY <2>5, <2>9, <2>10, <2>11, <2>17, <2>20
  <1> QED BY <1>1, <1>2, <1>3, PTL DEF RaceSpec

=============================================================================
