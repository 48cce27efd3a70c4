-------------------------------- MODULE Pool --------------------------------
(***************************************************************************)
(* TargetPool (src/src/pool.rs): the prioritized targets of one rule, with *)
(* the tasks that share it: connect_active of src/src/tcp.rs and           *)
(* src/src/udp.rs, the probe task, and the cooldown timers of UDP-only     *)
(* rules.  Target 1 is the primary.                                        *)
(*                                                                         *)
(*   Callers  tasks that dial the active target (TCP), or open a UDP       *)
(*            session to it and relay over it                              *)
(*   Timers   slots for the tasks mark_down spawns to re-arm a target      *)
(*   Targets  stand for the probe tasks too: probe i dials target i        *)
(*                                                                         *)
(* mark_up and mark_down flip `healthy' and recompute `active' under       *)
(* health_lock; `healthy' is also read without the lock and `active' is a  *)
(* watch channel, so the window between the flip and the recomputation is  *)
(* visible, and is a step of its own.                                      *)
(***************************************************************************)
EXTENDS Naturals, FiniteSets

CONSTANTS
    N,           \* number of targets
    Callers,
    Timers,      \* bound: cooldown timers pending at one time
    Free,        \* nobody holds health_lock
    CheckTicks   \* check_secs

Targets == 1..N

Tasks == Callers \cup Timers \cup Targets

ASSUME TargetsAssumption == N \in Nat \ {0}
ASSUME TicksAssumption == CheckTicks \in Nat
ASSUME TasksAssumption ==
    /\ Callers \cap Timers = {}
    /\ (Callers \cup Timers) \cap Targets = {}
    /\ Free \notin Tasks

VARIABLES
    cooldown,     \* Some for a UDP-only rule with fallbacks, else None
    healthy, active, health_lock,
    recent,       \* targets whose last confirmation is younger than check_secs
    up,           \* environment: targets that answer
    pc, idx,      \* where each task is, and the target it is working on
    job,          \* what a task is: a TCP connection, a UDP session, a probe
    tries,        \* iterations connect_active has begun
    left,         \* ticks a sleeping timer still has to sleep
    scan          \* probe_pool: 0 waits for the tick, 1..N scans, N+1 joins

vars == <<cooldown, healthy, active, health_lock, recent, up, pc, idx, job, tries, left, scan>>

Locations == {"idle", "pick", "dial", "confirm", "up", "down", "raised", "lowered",
              "spawn", "repick", "session", "sleep"}

Jobs == {"none", "tcp", "udp", "probe"}

\* The tasks inside the critical section of health_lock.
Holding == {p \in Tasks : pc[p] \in {"raised", "lowered"}}

\* update_active's choice: the first healthy target, the primary if none is.
First(h) ==
    LET ok == {i \in Targets : h[i]} IN
    IF ok = {} THEN 1 ELSE CHOOSE i \in ok : \A j \in ok : i <= j

\* start (src/src/runtime.rs): a rule with fallbacks either probes or cools down.
Init ==
    /\ cooldown \in BOOLEAN
    /\ healthy = [i \in Targets |-> TRUE]
    /\ active = 1
    /\ health_lock = Free
    /\ recent = Targets
    /\ up \in SUBSET Targets
    /\ pc = [p \in Tasks |-> "idle"]
    /\ idx = [p \in Tasks |-> IF p \in Targets THEN p ELSE 1]
    /\ job = [p \in Tasks |-> CASE p \in Callers -> "none"
                               [] p \in Timers -> "none"
                               [] OTHER -> "probe"]
    /\ tries = [p \in Tasks |-> 0]
    /\ left = [s \in Timers |-> 0]
    /\ scan = 0

\* Task p goes on at location to; the locals of a call that returns are gone.
Goto(p, to) ==
    /\ pc' = [pc EXCEPT ![p] = to]
    /\ IF to = "idle" /\ p \notin Targets
       THEN idx' = [idx EXCEPT ![p] = 1] /\ job' = [job EXCEPT ![p] = "none"]
       ELSE UNCHANGED <<idx, job>>

-----------------------------------------------------------------------------
(***************************************************************************)
(* The two flips.  The unlocked fast path of mark_up and its check under   *)
(* the lock decide alike, so they are one step.                            *)
(***************************************************************************)

\* mark_up(idx[p]) by task p, which goes on at ret.
mark_up(p, ret) ==
    \/ /\ healthy[idx[p]]
       /\ Goto(p, ret)
       /\ UNCHANGED <<healthy, health_lock>>
    \/ /\ ~healthy[idx[p]]
       /\ health_lock = Free
       /\ health_lock' = p
       /\ healthy' = [healthy EXCEPT ![idx[p]] = TRUE]
       /\ Goto(p, "raised")

\* A timer slot is left for every task that is about to spawn one.
SlotLeft ==
    Cardinality({s \in Timers : pc[s] = "idle"})
        > Cardinality({p \in Tasks : pc[p] \in {"lowered", "spawn"}})

\* mark_down(idx[p]) up to and including the swap.
mark_down(p, ret) ==
    /\ health_lock = Free
    /\ \/ /\ ~healthy[idx[p]]
          /\ Goto(p, ret)
          /\ UNCHANGED <<healthy, health_lock>>
       \/ /\ healthy[idx[p]]
          /\ cooldown => SlotLeft
          /\ health_lock' = p
          /\ healthy' = [healthy EXCEPT ![idx[p]] = FALSE]
          /\ Goto(p, "lowered")

\* Where a task goes on once its mark_up or mark_down has returned.  A send
\* that fails does not stop the relay_downstream task of its session.
AfterUp(p) == IF job[p] = "udp" THEN "session" ELSE "idle"
AfterDown(p) ==
    CASE tries[p] > 0 -> "repick"
      [] tries[p] = 0 /\ job[p] = "udp" -> "session"
      [] OTHER -> "idle"

\* Mutant: the active index only ever moves to a lower priority.
update_active_NoFailback(p) ==
    /\ pc[p] \in {"raised", "lowered"}
    /\ active' = IF First(healthy) > active THEN First(healthy) ELSE active
    /\ health_lock' = Free
    /\ Goto(p, CASE pc[p] = "raised" -> AfterUp(p)
                 [] pc[p] = "lowered" -> IF cooldown THEN "spawn" ELSE AfterDown(p))
    /\ UNCHANGED <<cooldown, healthy, recent, up, tries, left, scan>>

\* update_active, and the release of health_lock.
update_active(p) ==
    /\ pc[p] \in {"raised", "lowered"}
    /\ active' = First(healthy)
    /\ health_lock' = Free
    /\ Goto(p, CASE pc[p] = "raised" -> AfterUp(p)
                 [] pc[p] = "lowered" -> IF cooldown THEN "spawn" ELSE AfterDown(p))
    /\ UNCHANGED <<cooldown, healthy, recent, up, tries, left, scan>>

\* The rest of mark_down: the task that will re-arm the target.
spawn_timer(p) ==
    /\ pc[p] = "spawn"
    /\ \E s \in Timers :
         /\ pc[s] = "idle"
         /\ pc' = [pc EXCEPT ![s] = "sleep", ![p] = AfterDown(p)]
         /\ idx' = [idx EXCEPT ![s] = idx[p]]
         /\ left' = [left EXCEPT ![s] = CheckTicks]
    /\ UNCHANGED <<cooldown, healthy, active, health_lock, recent, up, job, tries, scan>>

\* confirm: the timestamp first, then mark_up.  A TCP stream is handed to the
\* relay and the pool hears no more of it.
confirm(p) ==
    /\ pc[p] = "confirm"
    /\ recent' = recent \cup {idx[p]}
    /\ tries' = [tries EXCEPT ![p] = 0]
    /\ Goto(p, "up")
    /\ UNCHANGED <<cooldown, healthy, active, health_lock, up, left, scan>>

ConfirmUp(p) ==
    /\ pc[p] = "up"
    /\ mark_up(p, AfterUp(p))
    /\ UNCHANGED <<cooldown, active, recent, up, tries, left, scan>>

MarkDown(p) ==
    /\ pc[p] = "down"
    /\ mark_down(p, AfterDown(p))
    /\ UNCHANGED <<cooldown, active, recent, up, tries, left, scan>>

-----------------------------------------------------------------------------
(***************************************************************************)
(* connect_active, of a TCP connection and of a UDP session.               *)
(***************************************************************************)
Arrive(p) ==
    /\ pc[p] = "idle"
    /\ pc' = [pc EXCEPT ![p] = "dial"]
    /\ \E j \in {"tcp", "udp"} :
         /\ cooldown => j = "udp"
         /\ job' = [job EXCEPT ![p] = j]
    /\ idx' = [idx EXCEPT ![p] = active]
    /\ tries' = [tries EXCEPT ![p] = 1]
    /\ UNCHANGED <<cooldown, healthy, active, health_lock, recent, up, left, scan>>

\* The next iteration's pick.
pick(p) ==
    /\ pc[p] = "pick"
    /\ pc' = [pc EXCEPT ![p] = "dial"]
    /\ idx' = [idx EXCEPT ![p] = active]
    /\ tries' = [tries EXCEPT ![p] = @ + 1]
    /\ UNCHANGED <<cooldown, healthy, active, health_lock, recent, up, job, left, scan>>

\* Opening a UDP session proves nothing: it can succeed on a dead target.
Dial(p) ==
    /\ pc[p] = "dial"
    /\ \/ /\ job[p] # "udp" /\ idx[p] \in up
          /\ Goto(p, "confirm")
          /\ UNCHANGED tries
       \/ /\ job[p] = "udp"
          /\ Goto(p, "session")
          /\ tries' = [tries EXCEPT ![p] = 0]
       \/ /\ idx[p] \notin up
          /\ Goto(p, "down")
          /\ UNCHANGED tries
    /\ UNCHANGED <<cooldown, healthy, active, health_lock, recent, up, left, scan>>

\* Mutant: the walk ends only when the index stops moving.
Repick_Unbounded(p) ==
    /\ pc[p] = "repick"
    /\ IF active = idx[p]
       THEN Goto(p, "idle") /\ tries' = [tries EXCEPT ![p] = 0]
       ELSE Goto(p, "pick") /\ UNCHANGED tries
    /\ UNCHANGED <<cooldown, healthy, active, health_lock, recent, up, left, scan>>

\* After a failure: give up if the index has not moved, or after N targets.
Repick(p) ==
    /\ pc[p] = "repick"
    /\ IF active = idx[p] \/ tries[p] = N
       THEN Goto(p, "idle") /\ tries' = [tries EXCEPT ![p] = 0]
       ELSE Goto(p, "pick") /\ UNCHANGED tries
    /\ UNCHANGED <<cooldown, healthy, active, health_lock, recent, up, left, scan>>

-----------------------------------------------------------------------------
(***************************************************************************)
(* An open UDP session: relay_downstream and forward (src/src/udp.rs).     *)
(***************************************************************************)

\* A reply from the target vouches for it.
Reply(p) ==
    /\ pc[p] = "session" /\ idx[p] \in up
    /\ Goto(p, "confirm")
    /\ UNCHANGED <<cooldown, healthy, active, health_lock, recent, up, tries, left, scan>>

\* An ICMP unreachable surfaces on send.
SendFails(p) ==
    /\ pc[p] = "session" /\ idx[p] \notin up
    /\ Goto(p, "down")
    /\ UNCHANGED <<cooldown, healthy, active, health_lock, recent, up, tries, left, scan>>

\* Mutant: only a failover is noticed, never a failback.
active_moved_ForwardOnly(p) ==
    /\ pc[p] = "session" /\ active > idx[p]
    /\ Goto(p, "idle")
    /\ UNCHANGED <<cooldown, healthy, active, health_lock, recent, up, tries, left, scan>>

\* The pool's active target has moved away from the session's.
active_moved(p) ==
    /\ pc[p] = "session" /\ active # idx[p]
    /\ Goto(p, "idle")
    /\ UNCHANGED <<cooldown, healthy, active, health_lock, recent, up, tries, left, scan>>

\* Idle timeout, receive error, or a quota or rule that ends the session.
SessionEnds(p) ==
    /\ pc[p] = "session"
    /\ Goto(p, "idle")
    /\ UNCHANGED <<cooldown, healthy, active, health_lock, recent, up, tries, left, scan>>

-----------------------------------------------------------------------------
(***************************************************************************)
(* Recovery: the probe task of a rule with TCP, the timers of a UDP rule.  *)
(***************************************************************************)

\* Mutant: a target that is down is not looked at again.
needs_probe_IdleOnly(i) == healthy[i] /\ i \notin recent

needs_probe(i) == ~healthy[i] \/ i \notin recent

ProbeTick ==
    /\ ~cooldown
    /\ scan = 0
    /\ scan' = 1
    /\ UNCHANGED <<cooldown, healthy, active, health_lock, recent, up, pc, idx, job, tries, left>>

\* One iteration of the loop that spawns a round's probes.
ProbeSpawn ==
    /\ scan \in Targets
    /\ pc' = [pc EXCEPT ![scan] = IF needs_probe(scan) THEN "dial" ELSE @]
    /\ scan' = scan + 1
    /\ UNCHANGED <<cooldown, healthy, active, health_lock, recent, up, idx, job, tries, left>>

\* The next round waits for every probe of this one.
ProbeJoin ==
    /\ scan = N + 1
    /\ \A i \in Targets : pc[i] = "idle"
    /\ scan' = 0
    /\ UNCHANGED <<cooldown, healthy, active, health_lock, recent, up, pc, idx, job, tries, left>>

\* Time passes: a confirmation becomes older than the interval.
Age(i) ==
    /\ ~cooldown
    /\ i \in recent
    /\ recent' = recent \ {i}
    /\ UNCHANGED <<cooldown, healthy, active, health_lock, up, pc, idx, job, tries, left, scan>>

\* Time passes: every sleeping timer has one tick less to sleep.
Tick ==
    /\ \E s \in Timers : pc[s] = "sleep" /\ left[s] > 0
    /\ left' = [s \in Timers |-> IF left[s] > 0 THEN left[s] - 1 ELSE 0]
    /\ UNCHANGED <<cooldown, healthy, active, health_lock, recent, up, pc, idx, job, tries, scan>>

\* Mutant: a timer that finds the lock taken gives up.
Fire_TryLock(s) ==
    /\ pc[s] = "sleep" /\ left[s] = 0
    /\ \/ mark_up(s, "idle")
       \/ health_lock # Free /\ Goto(s, "idle") /\ UNCHANGED <<healthy, health_lock>>
    /\ UNCHANGED <<cooldown, active, recent, up, tries, left, scan>>

\* The timer wakes up and marks its target up.
Fire(s) ==
    /\ pc[s] = "sleep" /\ left[s] = 0
    /\ mark_up(s, "idle")
    /\ UNCHANGED <<cooldown, active, recent, up, tries, left, scan>>

\* Environment: a target dies or comes back.
Flip(i) ==
    /\ up' = IF i \in up THEN up \ {i} ELSE up \cup {i}
    /\ UNCHANGED <<cooldown, healthy, active, health_lock, recent, pc, idx, job, tries, left, scan>>

-----------------------------------------------------------------------------
\* The steps a task takes on its own once it has begun.
Step(p) ==
    \/ Dial(p) \/ confirm(p) \/ ConfirmUp(p) \/ MarkDown(p)
    \/ update_active(p) \/ spawn_timer(p)

CallerStep(p) == Step(p) \/ pick(p) \/ Repick(p) \/ active_moved(p)

Probing == ProbeTick \/ ProbeSpawn \/ ProbeJoin

Next ==
    \/ \E p \in Callers :
         CallerStep(p) \/ Arrive(p) \/ Reply(p) \/ SendFails(p) \/ SessionEnds(p)
    \/ \E i \in Targets : Step(i) \/ Age(i) \/ Flip(i)
    \/ \E s \in Timers : Fire(s) \/ update_active(s)
    \/ Probing
    \/ Tick

Spec == Init /\ [][Next]_vars

(***************************************************************************)
(* A task that can go on does; time passes; the probe task keeps running.  *)
(* A caller or a timer that waits for health_lock gets it: the lock is     *)
(* held for a few instructions, and flips are whole dials or cooldowns     *)
(* apart.  The select of relay_downstream picks among ready arms at random,*)
(* so replies cannot keep it from the arm of active_moved for ever.        *)
(***************************************************************************)
LiveSpec ==
    /\ Spec
    /\ \A p \in Callers : SF_vars(CallerStep(p)) /\ SF_vars(active_moved(p))
    /\ \A i \in Targets : WF_vars(Step(i)) /\ WF_vars(Age(i))
    /\ \A s \in Timers : SF_vars(Fire(s)) /\ WF_vars(update_active(s))
    /\ WF_vars(Probing)
    /\ WF_vars(Tick)

-----------------------------------------------------------------------------
TypeOK ==
    /\ cooldown \in BOOLEAN
    /\ healthy \in [Targets -> BOOLEAN]
    /\ active \in Targets
    /\ health_lock \in Tasks \cup {Free}
    /\ recent \subseteq Targets
    /\ up \subseteq Targets
    /\ pc \in [Tasks -> Locations]
    /\ idx \in [Tasks -> Targets]
    /\ job \in [Tasks -> Jobs]
    /\ tries \in [Tasks -> 0..N]
    /\ left \in [Timers -> 0..CheckTicks]
    /\ scan \in 0..(N + 1)

(***************************************************************************)
(* The watch value never goes stale: with no flip in progress, the active  *)
(* target is the highest-priority healthy one, or the primary if all are   *)
(* down, whatever flips raced (update_active's comment, pick's comment).   *)
(***************************************************************************)
ActiveNotStale == health_lock = Free => active = First(healthy)

(***************************************************************************)
(* No target of a UDP-only rule is down with nobody left to re-arm it: a   *)
(* timer sleeps for it, or the task that took it down is about to spawn    *)
(* one.  mark_down starts a timer only on the healthy-to-down edge, and a  *)
(* timer whose target is healthy ends for nothing.                         *)
(***************************************************************************)
RecoveryPending ==
    \A i \in Targets :
        cooldown /\ ~healthy[i] =>
            \E p \in Tasks : /\ idx[p] = i
                             /\ pc[p] \in {"sleep", "lowered", "spawn"}

\* The best target of those in R, the primary if there is none.
Best(R) == First([i \in Targets |-> i \in R])

\* A target of a UDP-only rule that is down is armed again.
Rearmed == \A i \in Targets : (cooldown /\ ~healthy[i]) ~> healthy[i]

(***************************************************************************)
(* Once reachability stops changing, the rule settles on the best target   *)
(* that answers (on the primary if none does), whatever was in flight:     *)
(* probing notices a dead idle target and a recovered one.  Without probes *)
(* a target that is down is armed again by its timer.                      *)
(***************************************************************************)
FailoverSettles ==
    /\ \A R \in SUBSET Targets : <>[](~cooldown /\ up = R) => <>[](active = Best(R))
    /\ Rearmed

(***************************************************************************)
(* No UDP session stays on a target that is no longer the active one:      *)
(* relay_downstream ends it, on failover and on failback, however many     *)
(* replies and failed sends come first, unless its target becomes active   *)
(* again (README: "UDP sessions are actively terminated").                 *)
(***************************************************************************)
SessionsFollow ==
    \A p \in Callers :
        (pc[p] = "session" /\ idx[p] # active) ~> (pc[p] = "idle" \/ idx[p] = active)
=============================================================================
