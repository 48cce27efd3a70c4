--------------------------- MODULE StateFileProofs ---------------------------
(***************************************************************************)
(* Proofs about StateFile, for any number of users, quota objects, bytes,  *)
(* configs, hours and faults.                                              *)
(***************************************************************************)
EXTENDS StateFile, TLAPS

Bytes == 0..MaxBytes
Tables == [Users -> Bytes]

\* What a flush and an apply are made of.
JobTypes ==
    [pc : {"idle", "queued", "commit", "flushed", "failed", "done"}, objs : SUBSET Objects,
     dirty : SUBSET (Objects \X Bytes), checkpoint : BOOLEAN,
     marks : {<<>>} \cup [Objects -> Bytes]]
ApplyTypes ==
    [pc : {"idle", "load", "switch", "flush", "publish"}, next : SUBSET Users,
     saved : {<<>>} \cup Tables, gone : SUBSET Objects,
     floor : {<<>>} \cup [Objects -> Bytes], ok : BOOLEAN]

Shapes ==
    /\ up \in {"off", "on", "stopping", "exiting"}
    /\ bytes \in [Objects -> Bytes] /\ marks \in [Objects -> Bytes]
    /\ newest \in [Users -> 0..Gens] /\ writer \in [Users -> 0..Gens]
    /\ live \subseteq Objects /\ relays \subseteq Objects
    /\ rows \in Tables /\ since \subseteq Tables /\ rows \in since
    /\ last_flushed \in [Users -> 0..Unknown]
    /\ promised \in Tables /\ moved \in Tables
    /\ job \in [Jobs -> JobTypes] /\ apply \in ApplyTypes

OneEach(objs) == \A o, p \in objs : User(o) = User(p) => o = p
Known(objs) == \A o \in objs : Gen(o) <= newest[User(o)]

\* A flush is about one object of a user, which the user has had.
ObjectsInv ==
    /\ OneEach(live) /\ Known(live)
    /\ \A j \in Jobs : OneEach(job[j].objs) /\ Known(job[j].objs)
    /\ Known(apply.gone)
    /\ \A u \in Users : writer[u] <= newest[u]
    /\ apply.pc \in {"flush", "publish"} => \A u \in apply.next : newest[u] > 0

\* The lock is held while rows are written; the main task flushes only in apply.
LockInv ==
    /\ lock \in Jobs \cup {"free"}
    /\ \A j \in Jobs : /\ lock = j <=> job[j].pc = "commit"
                       /\ job[j].dirty # {} => job[j].pc = "commit"
                       /\ \A d \in job[j].dirty : d[1] \in job[j].objs
                       /\ \A d, e \in job[j].dirty : d[1] = e[1] => d = e
    /\ job["main"].pc # "idle" => apply.pc = "flush"
    /\ apply.pc = "flush" => job["main"].objs = apply.gone
    /\ apply.pc \in {"idle", "load", "switch"} => apply.gone = {}
    /\ apply.pc \in {"load", "switch"} => apply.saved \in Tables
    /\ apply.gone # {} => apply.floor \in [Objects -> Bytes]
    /\ job["flusher"].pc # "idle" => job["flusher"].marks \in [Objects -> Bytes]
    /\ \A j \in Jobs : job[j].pc = "idle" => job[j].objs = {}

FilterInv == \A u \in Users : last_flushed[u] \in {Unknown, rows[u]}

\* Nothing that is a row, may become one or is restored from one says more than
\* was moved.
MovedInv ==
    /\ \A u \in Users : \A table \in since : table[u] <= moved[u]
    /\ \A o \in Objects : bytes[o] <= moved[User(o)] /\ marks[o] <= bytes[o]
    /\ \A j \in Jobs : \A d \in job[j].dirty : d[2] <= moved[User(d[1])]
    /\ apply.pc \in {"load", "switch"} => \A u \in Users : apply.saved[u] <= moved[u]

\* What the flush of a task is for: the objects, and how much of each the file
\* has to have when the flush has worked.
Owes(j) == IF j = "flusher" THEN job[j].objs ELSE apply.gone
Floor(j) == IF j = "flusher" THEN job[j].marks ELSE apply.floor
Settled(j) ==
    IF j = "flusher" THEN job[j].pc = "flushed"
    ELSE \/ apply.pc = "flush" /\ job[j].pc = "flushed"
         \/ apply.pc = "publish" /\ apply.ok

FloorInv ==
    \A j \in Jobs :
      /\ \A o \in Owes(j) : Floor(j)[o] <= bytes[o]
      /\ \A d \in job[j].dirty : d[1] \in Owes(j) /\ Floor(j)[d[1]] <= d[2]
      /\ job[j].pc = "commit" =>
           \A o \in Owes(j) : (\A d \in job[j].dirty : d[1] # o) => Floor(j)[o] <= rows[User(o)]

\* A flush that has worked is undone by no other: what the other one has read
\* and not yet written was read later.
SettledInv ==
    \A k \in Jobs : Settled(k) =>
      \A o \in Owes(k) :
        /\ writer[User(o)] = Gen(o) => Floor(k)[o] <= rows[User(o)]
        /\ \A j \in Jobs : \A d \in job[j].dirty : d[1] = o => Floor(k)[o] <= d[2]

PromiseInv ==
    /\ \A u \in Users : \A table \in since : promised[u] <= table[u]
    /\ \A u \in Users : \A g \in 1..Gens : writer[u] = g => promised[u] <= bytes[<<u, g>>]
    /\ \A j \in Jobs : \A d \in job[j].dirty :
         writer[User(d[1])] = Gen(d[1]) => promised[User(d[1])] <= d[2]

StateInv ==
    /\ Shapes /\ ObjectsInv /\ LockInv /\ FilterInv /\ MovedInv /\ FloorInv /\ SettledInv
    /\ PromiseInv

-----------------------------------------------------------------------------
(* What is written: a row for each user that has a dirty object, one of them. *)
LEMMA OverFacts ==
    ASSUME NEW table, NEW dirty, NEW u \in Users
    PROVE  /\ (\A d \in dirty : User(d[1]) # u) => Over(table, dirty)[u] = table[u]
           /\ (\E d \in dirty : User(d[1]) = u) =>
                \E d \in dirty : User(d[1]) = u /\ Over(table, dirty)[u] = d[2]
  BY DEF Over

(* Two tables that are written the same rows agree on them. *)
LEMMA OverSame ==
    ASSUME NEW t1, NEW t2, NEW dirty, NEW u \in Users, \E d \in dirty : User(d[1]) = u
    PROVE  Over(t1, dirty)[u] = Over(t2, dirty)[u]
  BY DEF Over

LEMMA OverType ==
    ASSUME NEW table, NEW dirty, NEW V, table \in [Users -> V], \A d \in dirty : d[2] \in V
    PROVE  Over(table, dirty) \in [Users -> V]
  <1>1. \A u \in Users : Over(table, dirty)[u] \in V BY OverFacts
  <1> QED BY <1>1 DEF Over

LEMMA InitInv == Init => StateInv
  <1> SUFFICES ASSUME Init PROVE StateInv OBVIOUS
  <1>0. MaxBytes \in Nat /\ Gens \in Nat BY BoundsAssumption
  <1> USE DEF Init, Zero
  <1>1. Shapes BY <1>0 DEF Shapes, Bytes, Tables, JobTypes, ApplyTypes, NoJob, NoApply, Unknown
  <1>2. ObjectsInv BY <1>0 DEF ObjectsInv, OneEach, Known, NoJob, NoApply
  <1>3. LockInv BY DEF LockInv, NoJob, NoApply, Jobs
  <1>4. FilterInv BY DEF FilterInv
  <1>5. MovedInv BY <1>0 DEF MovedInv, NoJob, NoApply, Objects, User
  <1>6. FloorInv BY DEF FloorInv, Owes, NoJob, NoApply
  <1>7. SettledInv BY DEF SettledInv, Settled, Owes, NoJob, NoApply
  <1>8. PromiseInv BY <1>0 DEF PromiseInv, NoJob, Objects
  <1> QED BY <1>1, <1>2, <1>3, <1>4, <1>5, <1>6, <1>7, <1>8 DEF StateInv

(* The numbers, and what they are about, are what they should be. *)
LEMMA Facts ==
    ASSUME StateInv
    PROVE  /\ MaxBytes \in Nat /\ Gens \in Nat
           /\ \A o \in Objects : /\ User(o) \in Users /\ Gen(o) \in 1..Gens
                                /\ o = <<User(o), Gen(o)>>
                                /\ bytes[o] \in Nat /\ marks[o] \in Nat
           /\ \A u \in Users : /\ rows[u] \in Nat /\ promised[u] \in Nat /\ moved[u] \in Nat
                              /\ writer[u] \in Nat /\ newest[u] \in Nat
                              /\ \A table \in since : table[u] \in Nat
           /\ \A j \in Jobs :
                /\ \A d \in job[j].dirty : d[1] \in Objects /\ d[2] \in Bytes /\ d[2] \in Nat
                /\ job[j].objs \subseteq Objects
                /\ \A o \in Owes(j) : o \in Objects /\ Floor(j)[o] \in Nat
           /\ apply.pc \in {"load", "switch"} => \A u \in Users : apply.saved[u] \in Nat
  <1>0. MaxBytes \in Nat /\ Gens \in Nat BY BoundsAssumption
  <1> USE DEF StateInv, Shapes
  <1>1. \A o \in Objects : /\ User(o) \in Users /\ Gen(o) \in 1..Gens /\ o = <<User(o), Gen(o)>>
                           /\ bytes[o] \in Nat /\ marks[o] \in Nat
    BY <1>0 DEF Objects, User, Gen, Bytes
  <1>2. \A u \in Users : /\ rows[u] \in Nat /\ promised[u] \in Nat /\ moved[u] \in Nat
                         /\ writer[u] \in Nat /\ newest[u] \in Nat
                         /\ \A table \in since : table[u] \in Nat
    BY <1>0 DEF Tables, Bytes
  <1>3. ASSUME NEW j \in Jobs
        PROVE  /\ \A d \in job[j].dirty : d[1] \in Objects /\ d[2] \in Bytes /\ d[2] \in Nat
               /\ job[j].objs \subseteq Objects
    BY <1>0 DEF JobTypes, Bytes
  <1>4. ASSUME NEW j \in Jobs, NEW o \in Owes(j) PROVE o \in Objects /\ Floor(j)[o] \in Nat
    <2>1. CASE j = "flusher" BY <1>0, <1>3, <2>1 DEF LockInv, Owes, Floor, Bytes
    <2>2. CASE j # "flusher" BY <1>0, <2>2 DEF LockInv, Owes, Floor, Bytes, ApplyTypes
    <2> QED BY <2>1, <2>2
  <1>5. apply.pc \in {"load", "switch"} => \A u \in Users : apply.saved[u] \in Nat
    BY <1>0 DEF LockInv, Tables, Bytes
  <1> QED BY <1>0, <1>1, <1>2, <1>3, <1>4, <1>5

LEMMA TrafficInv == ASSUME StateInv, NEW o \in Objects, Traffic(o) PROVE StateInv'
  <1>0. MaxBytes \in Nat /\ Gens \in Nat BY BoundsAssumption
  <1> USE DEF StateInv, Traffic, disk, counts
  <1>1. /\ User(o) \in Users /\ bytes[o] \in Bytes /\ bytes[o] + 1 \in Bytes
        /\ moved[User(o)] \in Bytes /\ moved[User(o)] + 1 \in Bytes
    BY <1>0 DEF Shapes, MovedInv, Objects, User, Bytes, Tables
  <1>2. Shapes' BY <1>1 DEF Shapes, Tables
  <1>b. /\ \A p \in Objects : /\ User(p) \in Users /\ bytes[p] \in Nat /\ bytes'[p] \in Nat
                             /\ bytes[p] <= bytes'[p]
        /\ \A u \in Users : moved[u] \in Nat /\ moved'[u] \in Nat /\ moved[u] <= moved'[u]
    BY <1>0, <1>1, <1>2 DEF Shapes, Objects, User, Bytes, Tables
  <1>3. ObjectsInv' BY DEF ObjectsInv, OneEach, Known
  <1>4. LockInv' BY DEF LockInv
  <1>5. FilterInv' BY DEF FilterInv
  <1>6. MovedInv'
    <2>1. \A p \in Objects : bytes'[p] <= moved'[User(p)]
      <3> TAKE p \in Objects
      <3>1. bytes[p] <= moved[User(p)] BY DEF MovedInv
      <3>2. CASE p = o BY <1>1, <3>1, <3>2, Facts DEF Shapes, Tables
      <3>3. CASE p # o
        <4>1. bytes'[p] = bytes[p] BY <3>3 DEF Shapes
        <4> QED BY <1>b, <3>1, <4>1, Facts
      <3> QED BY <3>2, <3>3
    <2> QED BY <1>b, <2>1, Facts DEF MovedInv
  <1>7. FloorInv' BY <1>b, Facts DEF FloorInv, Owes, Floor
  <1>8. SettledInv' BY DEF SettledInv, Settled, Owes, Floor
  <1>9. PromiseInv' BY <1>b, Facts DEF PromiseInv, Objects
  <1> QED BY <1>2, <1>3, <1>4, <1>5, <1>6, <1>7, <1>8, <1>9

(* The end of a relay, the hour boundary and a signal are about no flush. *)
LEMMA QuietInv ==
    ASSUME StateInv, (\E o \in Objects : RelayStops(o)) \/ HourPasses \/ Stop
    PROVE  StateInv'
  <1> USE DEF StateInv, disk, counts, memory, history
  <1>1. /\ relays' \subseteq relays /\ up' \in {"off", "on", "stopping", "exiting"}
        /\ marks' \in [Objects -> Bytes] /\ \A o \in Objects : marks'[o] <= bytes[o]
        /\ UNCHANGED <<bytes, newest, live, rows, since, last_flushed, lock, job, apply,
                       promised, writer, moved>>
    <2>1. \A o \in Objects : bytes[o] <= bytes[o] BY Facts
    <2> QED BY <2>1 DEF RelayStops, HourPasses, Stop, Shapes, MovedInv
  <1>2. Shapes' BY <1>1 DEF Shapes
  <1> QED BY <1>1, <1>2 DEF ObjectsInv, OneEach, Known, LockInv, FilterInv, MovedInv, FloorInv, Owes, Floor, SettledInv, Settled, PromiseInv

-----------------------------------------------------------------------------
(***************************************************************************)
(* A flush.                                                                *)
(***************************************************************************)
(* An update of a flush is one. *)
LEMMA JobType ==
    ASSUME NEW jobs \in [Jobs -> JobTypes], NEW j \in Jobs,
           NEW to \in {"idle", "queued", "commit", "flushed", "failed", "done"}
    PROVE  /\ [jobs EXCEPT ![j].pc = to] \in [Jobs -> JobTypes]
           /\ \A dirty \in SUBSET (Objects \X Bytes) :
                [jobs EXCEPT ![j].pc = to, ![j].dirty = dirty] \in [Jobs -> JobTypes]
  <1>1. jobs[j] \in JobTypes OBVIOUS
  <1>2. [jobs[j] EXCEPT !.pc = to] \in JobTypes BY <1>1 DEF JobTypes
  <1>3. \A dirty \in SUBSET (Objects \X Bytes) :
          [jobs[j] EXCEPT !.pc = to, !.dirty = dirty] \in JobTypes BY <1>1 DEF JobTypes
  <1> QED BY <1>2, <1>3

LEMMA SnapshotInv == ASSUME StateInv, NEW j \in Jobs, Snapshot(j) PROVE StateInv'
  <1> DEFINE dirty == {o \in job[j].objs : last_flushed[User(o)] # bytes[o]}
  <1> USE DEF StateInv, disk, counts, memory, history
  <1>u. UNCHANGED <<up, bytes, newest, live, relays, rows, since, last_flushed, apply, marks,
                    promised, writer, moved>> BY DEF Snapshot
  <1>j. job[j].pc = "queued" /\ lock = "free" BY DEF Snapshot
  <1>f. \A k \in Jobs : job[k].pc # "commit" /\ job[k].dirty = {}
    BY <1>j DEF LockInv, Jobs
  <1>b. \A o \in job[j].objs : o \in Objects /\ bytes[o] \in Bytes /\ o \in Owes(j)
    BY <1>j, Facts DEF Shapes, Owes, LockInv, Jobs
  <1>n. \A o \in job[j].objs \ dirty : rows[User(o)] = bytes[o]
    BY <1>b, Facts DEF FilterInv, Unknown, Bytes
  <1>1. CASE dirty = {}
    <2>1. /\ job' = [job EXCEPT ![j].pc = "flushed"] /\ UNCHANGED lock
      BY <1>1 DEF Snapshot
    <2>2. Shapes' BY <1>u, <2>1, JobType DEF Shapes
    <2>3. \A k \in Jobs : /\ job'[k].objs = job[k].objs /\ job'[k].dirty = {}
                          /\ job'[k].pc = IF k = j THEN "flushed" ELSE job[k].pc
                          /\ job'[k].marks = job[k].marks
      BY <1>f, <2>1 DEF Shapes, JobTypes
    <2>4. ObjectsInv' BY <1>u, <2>3 DEF ObjectsInv, OneEach, Known
    <2>5. LockInv' BY <1>u, <1>j, <1>f, <2>1, <2>3 DEF LockInv, Jobs
    <2>6. FilterInv' /\ MovedInv' /\ PromiseInv' BY <1>u, <2>3 DEF FilterInv, MovedInv, PromiseInv
    <2>7. \A k \in Jobs : Owes(k)' = Owes(k) /\ Floor(k)' = Floor(k)
      BY <1>u, <2>3 DEF Owes, Floor
    <2>8. FloorInv' BY <1>u, <1>f, <2>3, <2>7 DEF FloorInv
    <2>9. SettledInv'
      <3>1. ASSUME NEW k \in Jobs, Settled(k)', NEW o \in Owes(k), writer[User(o)] = Gen(o)
            PROVE  Floor(k)[o] <= rows[User(o)]
        <4>1. CASE k = j
          <5>1. o \in job[j].objs BY <1>j, <4>1 DEF Owes, LockInv, Jobs
          <5>2. rows[User(o)] = bytes[o] BY <1>1, <1>n, <5>1
          <5> QED BY <4>1, <5>2 DEF FloorInv
        <4>2. CASE k # j
          <5>1. Settled(k) BY <1>u, <2>3, <3>1, <4>2 DEF Settled, Jobs
          <5> QED BY <3>1, <5>1 DEF SettledInv
        <4> QED BY <4>1, <4>2
      <3> QED BY <1>u, <2>3, <2>7, <3>1 DEF SettledInv
    <2> QED BY <2>2, <2>4, <2>5, <2>6, <2>8, <2>9
  <1>2. CASE dirty # {}
    <2> DEFINE read == {<<o, bytes[o]>> : o \in dirty}
    <2>1. /\ job' = [job EXCEPT ![j].pc = "commit", ![j].dirty = read] /\ lock' = j
      BY <1>2 DEF Snapshot
    <2>r. /\ read \in SUBSET (Objects \X Bytes)
          /\ \A d \in read : d[1] \in dirty /\ d[2] = bytes[d[1]]
          /\ \A o \in dirty : \E d \in read : d[1] = o
          /\ read # {}
      <3>1. \A o \in dirty : o \in Objects /\ bytes[o] \in Bytes BY <1>b
      <3> HIDE DEF dirty
      <3>2. read \subseteq Objects \X Bytes BY <3>1
      <3>3. \A d \in read : d[1] \in dirty /\ d[2] = bytes[d[1]] OBVIOUS
      <3>4. \A o \in dirty : <<o, bytes[o]>> \in read OBVIOUS
      <3>5. \A o \in dirty : \E d \in read : d[1] = o BY <3>4
      <3>6. read # {} BY <1>2, <3>4
      <3> QED BY <3>2, <3>3, <3>5, <3>6
    <2> HIDE DEF read
    <2>2. Shapes' BY <1>u, <2>1, <2>r, JobType DEF Shapes
    <2>3. \A k \in Jobs : /\ job'[k].objs = job[k].objs
                          /\ job'[k].dirty = IF k = j THEN read ELSE {}
                          /\ job'[k].pc = IF k = j THEN "commit" ELSE job[k].pc
                          /\ job'[k].marks = job[k].marks
      BY <1>f, <2>1 DEF Shapes, JobTypes
    <2>4. ObjectsInv' BY <1>u, <2>3 DEF ObjectsInv, OneEach, Known
    <2>5. LockInv'
      <3>1. \A d, e \in read : d[1] = e[1] => d = e BY <2>r
      <3>2. \A d \in read : d[1] \in job[j].objs BY <2>r
      <3> HIDE DEF dirty
      <3>3. \A k \in Jobs : /\ lock' = k <=> job'[k].pc = "commit"
                            /\ job'[k].dirty # {} => job'[k].pc = "commit"
                            /\ \A d \in job'[k].dirty : d[1] \in job'[k].objs
                            /\ \A d, e \in job'[k].dirty : d[1] = e[1] => d = e
                            /\ job'[k].pc = "idle" => job[k].pc = "idle"
                            /\ job[k].pc # "idle" <=> job'[k].pc # "idle"
        <4> TAKE k \in Jobs
        <4>1. CASE k = j
          <5>1. job'[j].pc = "commit" /\ job'[j].dirty = read /\ job'[j].objs = job[j].objs BY <2>3
          <5>2. lock' = j BY <2>1
          <5> QED BY <1>j, <3>1, <3>2, <4>1, <5>1, <5>2
        <4>2. CASE k # j BY <1>f, <2>1, <2>3, <4>2
        <4> QED BY <4>1, <4>2
      <3> QED BY <1>u, <2>1, <2>3, <3>3 DEF LockInv, Jobs
    <2>6. FilterInv' BY <1>u DEF FilterInv
    <2>7. MovedInv' BY <1>u, <1>b, <2>3, <2>r DEF MovedInv
    <2>8. \A k \in Jobs : Owes(k)' = Owes(k) /\ Floor(k)' = Floor(k)
      BY <1>u, <2>3 DEF Owes, Floor
    <2>9. FloorInv'
      <3>1. ASSUME NEW o \in Owes(j), \A d \in read : d[1] # o PROVE Floor(j)[o] <= rows[User(o)]
        <4>1. o \in job[j].objs \ dirty BY <1>j, <2>r, <3>1 DEF Owes, LockInv, Jobs
        <4> QED BY <1>n, <4>1 DEF FloorInv
      <3> QED BY <1>u, <1>f, <1>b, <2>3, <2>8, <2>r, <3>1 DEF FloorInv
    <2>10. SettledInv'
      <3>1. ASSUME NEW k \in Jobs, Settled(k)' PROVE k # j /\ Settled(k)
        BY <1>u, <1>j, <2>3, <3>1 DEF Settled, LockInv, Jobs
      <3> QED BY <1>u, <1>b, <2>3, <2>8, <2>r, <3>1 DEF SettledInv, FloorInv
    <2>11. PromiseInv' BY <1>u, <1>b, <2>3, <2>r, Facts DEF PromiseInv
    <2> QED BY <2>2, <2>4, <2>5, <2>6, <2>7, <2>9, <2>10, <2>11
  <1> QED BY <1>1, <1>2

(* The rows and the filter get the same, the writer is the object that was read. *)
LEMMA CommitInv == ASSUME StateInv, NEW j \in Jobs, Commit(j) PROVE StateInv'
  <1> DEFINE dirty == job[j].dirty
             gens == {<<d[1], Gen(d[1])>> : d \in dirty}
             Dirty(u) == \E d \in dirty : User(d[1]) = u
  <1> USE DEF StateInv, disk, counts, memory, history
  <1>u. UNCHANGED <<up, bytes, newest, live, relays, apply, marks, moved>> BY DEF Commit
  <1>j. job[j].pc = "commit" /\ lock = j BY DEF Commit, LockInv
  <1>f. \A k \in Jobs : k # j => job[k].pc # "commit" /\ job[k].dirty = {}
    BY <1>j DEF LockInv
  <1>d. \A d \in dirty : /\ d[1] \in Objects /\ d[2] \in Bytes /\ d[1] \in job[j].objs
                         /\ d[2] \in Nat
    BY Facts DEF LockInv
  <1>o. \A d, e \in dirty : User(d[1]) = User(e[1]) => d = e
    BY <1>d DEF LockInv, ObjectsInv, OneEach
  <1> HIDE DEF dirty, gens
  <1>g. /\ \A e \in gens : \E d \in dirty : e[1] = d[1] /\ e[2] = Gen(d[1])
        /\ \A d \in dirty : <<d[1], Gen(d[1])>> \in gens
    BY DEF gens
  <1>1. /\ rows' = Over(rows, dirty) /\ since' = since \cup {rows'}
        /\ last_flushed' = Over(last_flushed, dirty) /\ writer' = Over(writer, gens)
        /\ promised' = [u \in Users |-> IF writer'[u] = writer[u] THEN promised[u] ELSE 0]
        /\ lock' = "free" /\ job' = [job EXCEPT ![j].pc = "flushed", ![j].dirty = {}]
    BY DEF Commit, Stored, dirty, gens
  <1>2. \A d \in dirty : rows'[User(d[1])] = d[2] /\ writer'[User(d[1])] = Gen(d[1])
    <2> TAKE d \in dirty
    <2>0. User(d[1]) \in Users BY <1>d, Facts
    <2>1. PICK e \in dirty : User(e[1]) = User(d[1]) /\ rows'[User(d[1])] = e[2]
      BY <1>1, <2>0, OverFacts
    <2>2. \E g \in gens : User(g[1]) = User(d[1]) BY <1>g
    <2>3. PICK g \in gens : User(g[1]) = User(d[1]) /\ writer'[User(d[1])] = g[2]
      BY <1>1, <2>0, <2>2, OverFacts
    <2>4. PICK h \in dirty : g[1] = h[1] /\ g[2] = Gen(h[1]) BY <1>g
    <2>5. e = d /\ h = d BY <1>o, <2>1, <2>3, <2>4
    <2> QED BY <2>1, <2>3, <2>4, <2>5
  <1>3. \A u \in Users : ~Dirty(u) => /\ rows'[u] = rows[u] /\ writer'[u] = writer[u]
                                      /\ last_flushed'[u] = last_flushed[u]
    <2> TAKE u \in Users
    <2> HAVE ~Dirty(u)
    <2>1. \A g \in gens : User(g[1]) # u BY <1>g
    <2> QED BY <1>1, <2>1, OverFacts
  <1>4. \A u \in Users : Dirty(u) => last_flushed'[u] = rows'[u] BY <1>1, OverSame
  <1>5. /\ rows' \in Tables /\ last_flushed' \in [Users -> 0..Unknown]
        /\ writer' \in [Users -> 0..Gens] /\ promised' \in Tables
    <2>1. rows' \in Tables BY <1>1, <1>d, OverType DEF Shapes, Tables
    <2>2. \A d \in dirty : d[2] \in 0..Unknown BY <1>d, BoundsAssumption DEF Bytes, Unknown
    <2>3. last_flushed' \in [Users -> 0..Unknown] BY <1>1, <2>2, OverType DEF Shapes
    <2>4. \A g \in gens : g[2] \in 0..Gens BY <1>d, <1>g, Facts
    <2>5. writer' \in [Users -> 0..Gens] BY <1>1, <2>4, OverType DEF Shapes
    <2>6. 0 \in Bytes BY Facts DEF Bytes
    <2>7. promised' \in Tables BY <1>1, <2>6 DEF Shapes, Tables
    <2> QED BY <2>1, <2>3, <2>5, <2>7
  <1>6. /\ job' \in [Jobs -> JobTypes]
        /\ \A k \in Jobs : /\ job'[k].objs = job[k].objs /\ job'[k].dirty = {}
                           /\ job'[k].marks = job[k].marks
                           /\ job'[k].pc = IF k = j THEN "flushed" ELSE job[k].pc
    <2>1. job' \in [Jobs -> JobTypes] BY <1>1, JobType DEF Shapes
    <2> QED BY <1>1, <1>f, <2>1 DEF Shapes, JobTypes
  <1>7. \A k \in Jobs : Owes(k)' = Owes(k) /\ Floor(k)' = Floor(k)
    BY <1>u, <1>6 DEF Owes, Floor
  <1>n. \A u \in Users : rows'[u] \in Nat /\ promised'[u] \in Nat
    BY <1>5, Facts DEF Tables, Bytes
  <1>8. Shapes' BY <1>u, <1>1, <1>5, <1>6 DEF Shapes
  <1>9. ObjectsInv'
    <2>1. \A u \in Users : writer'[u] <= newest[u]
      <3> TAKE u \in Users
      <3>1. CASE Dirty(u) BY <1>d, <1>2, <3>1 DEF ObjectsInv, Known
      <3>2. CASE ~Dirty(u) BY <1>3, <3>2 DEF ObjectsInv
      <3> QED BY <3>1, <3>2
    <2> QED BY <1>u, <1>6, <2>1 DEF ObjectsInv, OneEach, Known
  <1>10. LockInv' BY <1>u, <1>1, <1>6, <1>j, <1>f DEF LockInv, Jobs
  <1>11. FilterInv'
    <2>1. \A u \in Users : last_flushed'[u] \in {Unknown, rows'[u]} BY <1>3, <1>4 DEF FilterInv
    <2> QED BY <2>1 DEF FilterInv, Unknown
  <1>12. \A u \in Users : rows'[u] <= moved[u] /\ promised'[u] <= rows'[u]
    <2> TAKE u \in Users
    <2>1. CASE Dirty(u)
      <3>1. PICK d \in dirty : User(d[1]) = u BY <2>1
      <3>2. rows'[u] = d[2] /\ writer'[u] = Gen(d[1]) BY <1>2, <3>1
      <3>3. d[2] <= moved[u] BY <3>1 DEF MovedInv, dirty
      <3>4. writer[u] = Gen(d[1]) => promised[u] <= d[2] BY <3>1 DEF PromiseInv, dirty
      <3> QED BY <1>1, <1>d, <3>2, <3>3, <3>4
    <2>2. CASE ~Dirty(u)
      <3>1. rows'[u] = rows[u] /\ writer'[u] = writer[u] BY <1>3, <2>2
      <3> QED BY <1>1, <3>1 DEF MovedInv, PromiseInv, Shapes
    <2> QED BY <2>1, <2>2
  <1>13. MovedInv' BY <1>u, <1>1, <1>6, <1>12 DEF MovedInv
  <1>14. FloorInv' BY <1>u, <1>f, <1>6, <1>7 DEF FloorInv
  <1>15. SettledInv'
    <2>1. ASSUME NEW k \in Jobs, Settled(k)', NEW o \in Owes(k), writer'[User(o)] = Gen(o)
          PROVE  Floor(k)[o] <= rows'[User(o)]
      <3>0. o \in Objects /\ User(o) \in Users BY Facts
      <3>1. CASE \E d \in dirty : d[1] = o
        <4>1. PICK d \in dirty : d[1] = o BY <3>1
        <4>2. rows'[User(o)] = d[2] BY <1>2, <4>1
        <4>3. CASE k = j BY <4>1, <4>2, <4>3 DEF FloorInv, dirty
        <4>4. CASE k # j
          <5>1. Settled(k) BY <1>u, <1>6, <2>1, <4>4 DEF Settled, Jobs
          <5> QED BY <4>1, <4>2, <5>1 DEF SettledInv, dirty
        <4> QED BY <4>3, <4>4
      <3>2. CASE \A d \in dirty : d[1] # o
        <4>1. ~Dirty(User(o))
          <5> SUFFICES ASSUME NEW d \in dirty, User(d[1]) = User(o) PROVE FALSE OBVIOUS
          <5>1. d[1] \in Objects /\ Gen(d[1]) = Gen(o) BY <1>2, <1>d, <2>1
          <5> QED BY <3>0, <3>2, <5>1, Facts
        <4>2. rows'[User(o)] = rows[User(o)] /\ writer[User(o)] = Gen(o)
          BY <1>3, <2>1, <3>0, <4>1
        <4>3. CASE k = j BY <1>j, <3>2, <4>2, <4>3 DEF FloorInv, dirty
        <4>4. CASE k # j
          <5>1. Settled(k) BY <1>u, <1>6, <2>1, <4>4 DEF Settled, Jobs
          <5> QED BY <4>2, <5>1 DEF SettledInv
        <4> QED BY <4>3, <4>4
      <3> QED BY <3>1, <3>2
    <2> QED BY <1>6, <1>7, <2>1 DEF SettledInv
  <1>16. PromiseInv'
    <2>1. ASSUME NEW u \in Users, NEW g \in 1..Gens, writer'[u] = g
          PROVE  promised'[u] <= bytes[<<u, g>>]
      <3>1. <<u, g>> \in Objects BY DEF Objects
      <3>2. CASE writer'[u] = writer[u] BY <1>1, <2>1, <3>2 DEF PromiseInv
      <3>3. CASE writer'[u] # writer[u] BY <1>1, <3>1, <3>3, Facts
      <3> QED BY <3>2, <3>3
    <2>2. \A u \in Users : \A table \in since : promised'[u] <= table[u]
      BY <1>1, Facts DEF PromiseInv
    <2> QED BY <1>u, <1>1, <1>6, <1>12, <2>1, <2>2 DEF PromiseInv
  <1> QED BY <1>8, <1>9, <1>10, <1>11, <1>13, <1>14, <1>15, <1>16

(* A flush that failed, or whose checkpoint did, owes nothing any more. *)
LEMMA FailsInv ==
    ASSUME StateInv, CheckpointFails \/ \E j \in Jobs : CommitFails(j)
    PROVE  StateInv'
  <1> USE DEF StateInv, disk, counts, memory, history
  <1>1. PICK j \in Jobs :
          /\ \/ job[j].pc = "commit" /\ lock' = "free"
             \/ job[j].pc = "flushed" /\ job[j].dirty = {} /\ lock' = lock
          /\ job' = [job EXCEPT ![j].pc = "failed", ![j].dirty = {}]
          /\ UNCHANGED <<up, bytes, newest, live, relays, rows, since, last_flushed, apply, marks,
                         promised, writer, moved>>
    <2>1. ASSUME NEW j \in Jobs, CommitFails(j)
          PROVE  /\ job[j].pc = "commit" /\ lock' = "free"
                 /\ job' = [job EXCEPT ![j].pc = "failed", ![j].dirty = {}]
                 /\ UNCHANGED <<up, bytes, newest, live, relays, rows, since, last_flushed, apply,
                                marks, promised, writer, moved>>
      BY <2>1 DEF CommitFails
    <2>2. ASSUME CheckpointFails
          PROVE  /\ job["flusher"].pc = "flushed" /\ job["flusher"].dirty = {} /\ lock' = lock
                 /\ job' = [job EXCEPT !["flusher"].pc = "failed", !["flusher"].dirty = {}]
                 /\ UNCHANGED <<up, bytes, newest, live, relays, rows, since, last_flushed, apply,
                                marks, promised, writer, moved>>
      <3>1. job["flusher"].pc = "flushed" /\ job["flusher"].dirty = {}
        BY <2>2 DEF CheckpointFails, LockInv, Jobs
      <3>2. job' = [job EXCEPT !["flusher"].pc = "failed"] BY <2>2 DEF CheckpointFails
      <3>3. [job EXCEPT !["flusher"].pc = "failed"]
              = [job EXCEPT !["flusher"].pc = "failed", !["flusher"].dirty = {}]
        BY <3>1 DEF Shapes, JobTypes, Jobs
      <3> QED BY <2>2, <3>1, <3>2, <3>3 DEF CheckpointFails
    <2> QED BY <2>1, <2>2 DEF Jobs
  <1>2. job' \in [Jobs -> JobTypes] BY <1>1, JobType DEF Shapes
  <1>3. \A k \in Jobs : /\ job'[k].objs = job[k].objs
                        /\ job'[k].dirty = IF k = j THEN {} ELSE job[k].dirty
                        /\ job'[k].marks = job[k].marks
                        /\ job'[k].pc = IF k = j THEN "failed" ELSE job[k].pc
    BY <1>1, <1>2 DEF Shapes, JobTypes
  <1>j. /\ job'[j].pc = "failed" /\ job'[j].dirty = {} /\ job[j].pc \in {"commit", "flushed"}
        /\ \A k \in Jobs : k # j => job'[k].pc = job[k].pc /\ job'[k].dirty = job[k].dirty
    BY <1>1, <1>3
  <1>4. \A k \in Jobs : /\ Owes(k)' = Owes(k) /\ Floor(k)' = Floor(k)
                        /\ Settled(k)' => Settled(k)
                        /\ job'[k].dirty \subseteq job[k].dirty
    <2> TAKE k \in Jobs
    <2>1. Owes(k)' = Owes(k) /\ Floor(k)' = Floor(k) BY <1>1, <1>3 DEF Owes, Floor
    <2>2. Settled(k)' => Settled(k) BY <1>1, <1>j DEF Settled
    <2>3. job'[k].dirty \subseteq job[k].dirty BY <1>j
    <2> QED BY <2>1, <2>2, <2>3
  <1>5. Shapes' BY <1>1, <1>2 DEF Shapes
  <1>6. ObjectsInv' BY <1>1, <1>3 DEF ObjectsInv, OneEach, Known
  <1>7. LockInv'
    <2>1. \A k \in Jobs : /\ lock' = k <=> job'[k].pc = "commit"
                          /\ job'[k].dirty # {} => job'[k].pc = "commit"
                          /\ job'[k].pc = "idle" <=> job[k].pc = "idle"
      BY <1>1, <1>j DEF LockInv, Jobs
    <2>2. \A k \in Jobs : /\ \A d \in job'[k].dirty : d[1] \in job'[k].objs
                          /\ \A d, e \in job'[k].dirty : d[1] = e[1] => d = e
                          /\ job'[k].pc = "idle" => job'[k].objs = {}
      BY <1>3, <1>4, <2>1 DEF LockInv
    <2>3. lock' \in Jobs \cup {"free"} BY <1>1 DEF LockInv
    <2> HIDE DEF StateInv
    <2>4. LockInv BY DEF StateInv
    <2>5. /\ apply' = apply /\ job'["main"].objs = job["main"].objs
          /\ job'["flusher"].marks = job["flusher"].marks
          /\ job'["main"].pc = "idle" <=> job["main"].pc = "idle"
          /\ job'["flusher"].pc = "idle" <=> job["flusher"].pc = "idle"
      BY <1>1, <1>3, <2>1 DEF Jobs
    <2>6. \A k \in Jobs : /\ lock' = k <=> job'[k].pc = "commit"
                          /\ job'[k].dirty # {} => job'[k].pc = "commit"
                          /\ \A d \in job'[k].dirty : d[1] \in job'[k].objs
                          /\ \A d, e \in job'[k].dirty : d[1] = e[1] => d = e
      BY <2>1, <2>2
    <2>7. \A k \in Jobs : job'[k].pc = "idle" => job'[k].objs = {} BY <2>2
    <2> QED BY <2>3, <2>4, <2>5, <2>6, <2>7 DEF LockInv
  <1>8. FilterInv' /\ MovedInv' /\ PromiseInv'
    BY <1>1, <1>3, <1>4 DEF FilterInv, MovedInv, PromiseInv
  <1>9. FloorInv' BY <1>1, <1>j, <1>4 DEF FloorInv
  <1>10. SettledInv' BY <1>1, <1>3, <1>4 DEF SettledInv
  <1> QED BY <1>5, <1>6, <1>7, <1>8, <1>9, <1>10

(* The flush task takes the users that are live, and the marks of the last hour. *)
LEMMA QueueInv ==
    ASSUME StateInv, Tick \/ HourDeadline \/ FinalFlush
    PROVE  StateInv'
  <1> USE DEF StateInv, disk, counts, memory, history
  <1>1. PICK c \in BOOLEAN : Queue(c) BY DEF Tick, HourDeadline, FinalFlush
  <1>u. /\ up' \in {"off", "on", "stopping", "exiting"}
        /\ UNCHANGED <<bytes, newest, live, relays, rows, since, last_flushed, lock, apply, marks,
                       promised, writer, moved>>
    BY DEF Tick, HourDeadline, FinalFlush, Shapes
  <1>2. job["flusher"].pc = "idle" /\ job["flusher"].dirty = {} /\ lock # "flusher"
    BY <1>1 DEF Queue, LockInv, Jobs
  <1> DEFINE new == [NoJob EXCEPT !.pc = "queued", !.objs = live, !.checkpoint = c, !.marks = marks]
  <1>3. /\ new \in JobTypes /\ new.pc = "queued" /\ new.objs = live /\ new.dirty = {}
        /\ new.marks = marks
    BY DEF Shapes, JobTypes, NoJob
  <1> HIDE DEF new
  <1>4. job' = [job EXCEPT !["flusher"] = new] BY <1>1 DEF Queue, new
  <1>5. job'["flusher"] = new /\ job'["main"] = job["main"] /\ job' \in [Jobs -> JobTypes]
    BY <1>3, <1>4 DEF Shapes, Jobs
  <1>6. Shapes' BY <1>u, <1>5 DEF Shapes
  <1>7. ObjectsInv' BY <1>u, <1>3, <1>5 DEF ObjectsInv, OneEach, Known, Jobs
  <1>8. LockInv' BY <1>u, <1>2, <1>3, <1>5 DEF LockInv, Jobs, Shapes
  <1>9. FilterInv' /\ MovedInv' /\ PromiseInv'
    BY <1>u, <1>3, <1>5 DEF FilterInv, MovedInv, PromiseInv, Jobs
  <1>10. FloorInv'
    <2>1. \A o \in live : marks[o] <= bytes[o] BY DEF Shapes, MovedInv
    <2> QED BY <1>u, <1>3, <1>5, <2>1 DEF FloorInv, Owes, Floor, Jobs
  <1>11. SettledInv' BY <1>u, <1>3, <1>5 DEF SettledInv, Settled, Owes, Floor, Jobs
  <1> QED BY <1>6, <1>7, <1>8, <1>9, <1>10, <1>11

(* The rows that were flushed are the only ones a power loss can leave. *)
LEMMA CheckpointInv == ASSUME StateInv, Checkpoint PROVE StateInv'
  <1> DEFINE mine == job["flusher"]
  <1> USE DEF StateInv, disk, counts, memory, history
  <1>1. /\ mine.pc = "flushed" /\ since' = {rows}
        /\ promised' = [u \in Users |-> IF <<u, writer[u]>> \in mine.objs
                                        THEN mine.marks[<<u, writer[u]>>] ELSE promised[u]]
        /\ job' = [job EXCEPT !["flusher"].pc = "done"]
        /\ UNCHANGED <<up, bytes, newest, live, relays, rows, last_flushed, lock, apply, marks,
                       writer, moved>>
    BY DEF Checkpoint, Synced
  <1>2. job' \in [Jobs -> JobTypes] BY <1>1, JobType DEF Shapes, Jobs
  <1>3. \A k \in Jobs : /\ job'[k].objs = job[k].objs /\ job'[k].dirty = job[k].dirty
                        /\ job'[k].marks = job[k].marks
                        /\ job'[k].pc = IF k = "flusher" THEN "done" ELSE job[k].pc
    BY <1>1, <1>2 DEF Shapes, JobTypes
  <1>4. \A k \in Jobs : /\ Owes(k)' = Owes(k) /\ Floor(k)' = Floor(k)
                        /\ Settled(k)' => Settled(k)
    BY <1>1, <1>3 DEF Owes, Floor, Settled, Jobs
  <1>s. Settled("flusher") /\ Owes("flusher") = mine.objs /\ Floor("flusher") = mine.marks
    BY <1>1 DEF Settled, Owes, Floor
  <1>w. ASSUME NEW u \in Users, <<u, writer[u]>> \in mine.objs
        PROVE  /\ <<u, writer[u]>> \in Objects
               /\ mine.marks[<<u, writer[u]>>] \in Bytes
               /\ mine.marks[<<u, writer[u]>>] <= rows[u]
               /\ mine.marks[<<u, writer[u]>>] <= bytes[<<u, writer[u]>>]
               /\ \A j \in Jobs : \A d \in job[j].dirty :
                    d[1] = <<u, writer[u]>> => mine.marks[<<u, writer[u]>>] <= d[2]
    <2>0. "flusher" \in Jobs BY DEF Jobs
    <2>1. /\ <<u, writer[u]>> \in Objects
          /\ User(<<u, writer[u]>>) = u /\ Gen(<<u, writer[u]>>) = writer[u]
      BY <1>w, <2>0, Facts DEF User, Gen
    <2>2. mine.marks \in [Objects -> Bytes] BY <1>1 DEF LockInv
    <2> QED BY <1>w, <1>s, <2>0, <2>1, <2>2 DEF SettledInv, FloorInv
  <1>5. promised' \in Tables BY <1>1, <1>w DEF Tables, Shapes
  <1>6. Shapes' BY <1>1, <1>2, <1>5 DEF Shapes
  <1>7. ObjectsInv' BY <1>1, <1>3 DEF ObjectsInv, OneEach, Known
  <1>8. LockInv' BY <1>1, <1>3 DEF LockInv, Jobs
  <1>9. FilterInv' BY <1>1 DEF FilterInv
  <1>10. MovedInv' BY <1>1, <1>3 DEF MovedInv, Shapes
  <1>11. FloorInv' BY <1>1, <1>3, <1>4 DEF FloorInv
  <1>12. SettledInv' BY <1>1, <1>3, <1>4 DEF SettledInv
  <1>13. PromiseInv'
    <2>1. \A u \in Users : promised'[u] <= rows[u] BY <1>1, <1>w DEF PromiseInv, Shapes
    <2>2. ASSUME NEW u \in Users, NEW g \in 1..Gens, writer[u] = g
          PROVE  promised'[u] <= bytes[<<u, g>>]
      BY <1>1, <1>w, <2>2 DEF PromiseInv
    <2>3. ASSUME NEW j \in Jobs, NEW d \in job[j].dirty, writer[User(d[1])] = Gen(d[1])
          PROVE  promised'[User(d[1])] <= d[2]
      <3>1. d[1] = <<User(d[1]), writer[User(d[1])]>> /\ User(d[1]) \in Users BY <2>3, Facts
      <3> QED BY <1>1, <1>w, <2>3, <3>1 DEF PromiseInv
    <2> QED BY <1>1, <1>3, <2>1, <2>2, <2>3 DEF PromiseInv
  <1> QED BY <1>6, <1>7, <1>8, <1>9, <1>10, <1>11, <1>12, <1>13

(* The process is gone; of the file, some table that a power loss may leave. *)
LEMMA GoneInv ==
    ASSUME StateInv, Gone, job' = [j \in Jobs |-> NoJob], rows' \in since', since' \subseteq since
    PROVE  StateInv'
  <1> USE DEF StateInv, Gone
  <1>0. NoJob \in JobTypes /\ NoApply \in ApplyTypes BY DEF NoJob, NoApply, JobTypes, ApplyTypes
  <1>1. Shapes' BY <1>0, BoundsAssumption DEF Shapes, Unknown, Tables
  <1>2. \A j \in Jobs : job'[j].pc = "idle" /\ job'[j].objs = {} /\ job'[j].dirty = {}
    BY DEF NoJob
  <1>3. apply'.pc = "idle" /\ apply'.gone = {} BY DEF NoApply
  <1>4. ObjectsInv' BY <1>2, <1>3 DEF ObjectsInv, OneEach, Known
  <1>5. LockInv' BY <1>2, <1>3 DEF LockInv, Jobs
  <1>6. FilterInv' BY DEF FilterInv, Unknown
  <1>7. MovedInv' /\ PromiseInv' BY <1>2, <1>3 DEF MovedInv, PromiseInv
  <1>8. FloorInv' /\ SettledInv' BY <1>2, <1>3 DEF FloorInv, SettledInv, Settled, Owes
  <1> QED BY <1>1, <1>4, <1>5, <1>6, <1>7, <1>8

LEMMA CrashInv ==
    ASSUME StateInv, Crash(rows) \/ \E table \in since : Crash(table)
    PROVE  StateInv'
  <1>1. PICK table \in since : Crash(table) BY DEF StateInv, Shapes
  <1> QED BY <1>1, GoneInv DEF Crash

(* The flush task is back in its loop, or the process exits. *)
LEMMA FlushedInv == ASSUME StateInv, Flushed PROVE StateInv'
  <1> USE DEF disk, counts, memory, history
  <1>1. CASE /\ job' = [job EXCEPT !["flusher"] = NoJob]
             /\ UNCHANGED <<up, memory, disk, last_flushed, lock, apply, marks, due, history, counts>>
    <2> USE DEF StateInv
    <2>0. NoJob \in JobTypes BY DEF NoJob, JobTypes
    <2>1. job'["flusher"] = NoJob /\ job'["main"] = job["main"] /\ job' \in [Jobs -> JobTypes]
      BY <1>1, <2>0 DEF Shapes, Jobs
    <2>2. NoJob.pc = "idle" /\ NoJob.objs = {} /\ NoJob.dirty = {} BY DEF NoJob
    <2>3. job["flusher"].pc # "commit" BY DEF Flushed
    <2>4. Shapes' BY <1>1, <2>1 DEF Shapes
    <2>5. ObjectsInv' BY <1>1, <2>1, <2>2 DEF ObjectsInv, OneEach, Known, Jobs
    <2>6. LockInv' BY <1>1, <2>1, <2>2, <2>3 DEF LockInv, Jobs
    <2>7. FilterInv' /\ MovedInv' /\ PromiseInv'
      BY <1>1, <2>1, <2>2 DEF FilterInv, MovedInv, PromiseInv, Jobs
    <2>8. FloorInv' BY <1>1, <2>1, <2>2 DEF FloorInv, Owes, Floor, Jobs
    <2>9. SettledInv' BY <1>1, <2>1, <2>2 DEF SettledInv, Settled, Owes, Floor, Jobs
    <2> QED BY <2>4, <2>5, <2>6, <2>7, <2>8, <2>9
  <1>2. CASE Gone /\ job' = [j \in Jobs |-> NoJob] /\ UNCHANGED <<disk, counts>>
    <2>1. rows \in since BY DEF StateInv, Shapes
    <2> QED BY <1>2, <2>1, GoneInv
  <1> QED BY <1>1, <1>2 DEF Flushed

-----------------------------------------------------------------------------
(***************************************************************************)
(* Apply.                                                                  *)
(***************************************************************************)
(* Up to the switch, apply owes nothing. *)
LEMMA ApplyInv ==
    ASSUME StateInv, Load \/ LoadFails \/ \E next \in SUBSET Users : Apply(next)
    PROVE  StateInv'
  <1> USE DEF StateInv, disk, counts, memory, history
  <1>1. /\ UNCHANGED <<up, bytes, newest, live, relays, rows, since, last_flushed, lock, job, marks,
                       promised, writer, moved>>
        /\ apply.pc \in {"idle", "load"}
    BY DEF Load, LoadFails, Apply
  <1>2. /\ apply' \in ApplyTypes /\ apply'.pc \in {"idle", "load", "switch"} /\ apply'.gone = {}
        /\ apply'.pc # "idle" => apply'.saved = rows
    <2>1. ASSUME NEW next \in SUBSET Users, Apply(next)
          PROVE  /\ apply' \in ApplyTypes /\ apply'.pc \in {"idle", "load", "switch"}
                 /\ apply'.gone = {} /\ apply'.saved = rows
      BY <2>1 DEF Apply, NoApply, ApplyTypes, Shapes
    <2>2. CASE Load
      <3>1. apply.gone = {} BY <2>2 DEF Load, LockInv
      <3> QED BY <2>2, <3>1 DEF Load, ApplyTypes, Shapes
    <2>3. CASE LoadFails BY <2>3 DEF LoadFails, NoApply, ApplyTypes
    <2> QED BY <2>1, <2>2, <2>3
  <1>3. job["main"].pc = "idle" /\ job["main"].dirty = {} BY <1>1 DEF LockInv, Jobs
  <1>4. Shapes' BY <1>1, <1>2 DEF Shapes
  <1>5. ObjectsInv' BY <1>1, <1>2 DEF ObjectsInv, OneEach, Known
  <1>6. LockInv' BY <1>1, <1>2, <1>3 DEF LockInv, Shapes
  <1>7. FilterInv' /\ MovedInv' /\ PromiseInv'
    BY <1>1, <1>2 DEF FilterInv, MovedInv, PromiseInv, Shapes
  <1>8. FloorInv' BY <1>1, <1>2, <1>3 DEF FloorInv, Owes, Floor, Jobs
  <1>9. SettledInv' BY <1>1, <1>2, <1>3 DEF SettledInv, Settled, Owes, Floor, Jobs
  <1> QED BY <1>4, <1>5, <1>6, <1>7, <1>8, <1>9

(* New objects are nobody's yet; what is owed is what the removed ones have now. *)
LEMMA SwitchInv == ASSUME StateInv, Switch PROVE StateInv'
  <1> USE DEF StateInv, disk, counts, memory, history
  <1>u. UNCHANGED <<up, live, rows, since, last_flushed, lock, promised, writer, moved>>
    BY DEF Switch
  <1>1. apply.pc = "switch" /\ Added \subseteq Objects /\ apply.saved \in Tables
    BY DEF Switch, LockInv
  <1>2. /\ bytes' = [o \in Objects |-> IF o \in Added THEN apply.saved[User(o)] ELSE bytes[o]]
        /\ marks' = [o \in Objects |-> IF o \in Added THEN 0 ELSE marks[o]]
        /\ newest' = [u \in Users |-> IF u \in apply.next \ Present THEN newest[u] + 1 ELSE newest[u]]
        /\ relays' = relays \cup Added
    BY DEF Switch
  <1>a. /\ \A o \in Added : Gen(o) = newest[User(o)] + 1 /\ User(o) \in apply.next \ Present
        /\ \A u \in apply.next \ Present : <<u, newest[u] + 1>> \in Objects
    BY <1>1 DEF Added, User, Gen
  <1>n. /\ newest' \in [Users -> 0..Gens]
        /\ \A u \in Users : newest[u] <= newest'[u] /\ newest'[u] \in Nat
    <2>1. ASSUME NEW u \in apply.next \ Present PROVE newest[u] + 1 \in 0..Gens
      <3>1. Gen(<<u, newest[u] + 1>>) \in 1..Gens BY <1>a, Facts
      <3> QED BY <3>1, Facts DEF Gen
    <2> QED BY <1>2, <2>1, Facts DEF Shapes
  <1>b. bytes' \in [Objects -> Bytes] /\ marks' \in [Objects -> Bytes]
    BY <1>1, <1>2, Facts DEF Shapes, Tables, Bytes
  <1>k. \A o \in Objects : Gen(o) <= newest[User(o)] => /\ bytes'[o] = bytes[o]
                                                        /\ Gen(o) <= newest'[User(o)]
    <2> SUFFICES ASSUME NEW o \in Objects, Gen(o) <= newest[User(o)]
                 PROVE  bytes'[o] = bytes[o] /\ Gen(o) <= newest'[User(o)]
      OBVIOUS
    <2>1. o \notin Added BY <1>a, Facts
    <2> QED BY <1>2, <1>n, <2>1, Facts
  <1>o. job["main"].pc = "idle" /\ job["main"].dirty = {} /\ lock # "main" BY <1>1 DEF LockInv, Jobs
  <1>g. /\ apply' \in ApplyTypes /\ apply'.pc = IF live \subseteq Kept THEN "publish" ELSE "flush"
        /\ apply'.gone = live \ Kept /\ apply'.floor = bytes /\ apply'.next = apply.next
    <2>1. apply' = [apply EXCEPT !.pc = IF live \subseteq Kept THEN "publish" ELSE "flush",
                                 !.gone = live \ Kept, !.floor = bytes]
      BY DEF Switch
    <2> QED BY <2>1 DEF ApplyTypes, Shapes
  <1>j. /\ job' \in [Jobs -> JobTypes] /\ job'["flusher"] = job["flusher"]
        /\ job'["main"].dirty = {} /\ job'["main"].pc \in {"idle", "queued"}
        /\ job'["main"].pc # "idle" => apply'.pc = "flush"
        /\ apply'.pc = "flush" => job'["main"].objs = live \ Kept
        /\ job'["main"].pc = "idle" => job'["main"].objs = {}
        /\ job'["main"].objs \subseteq live
    <2>1. CASE live \subseteq Kept
      <3>1. job' = job BY <2>1 DEF Switch
      <3> QED BY <1>o, <1>g, <2>1, <3>1 DEF Shapes, LockInv, Jobs
    <2>2. CASE ~(live \subseteq Kept)
      <3> DEFINE new == [NoJob EXCEPT !.pc = "queued", !.objs = live \ Kept]
      <3>1. job' = [job EXCEPT !["main"] = new] BY <2>2 DEF Switch, ToFlush
      <3>2. new \in JobTypes /\ new.pc = "queued" /\ new.objs = live \ Kept /\ new.dirty = {}
        BY DEF Shapes, JobTypes, NoJob
      <3> HIDE DEF new
      <3>3. job'["main"] = new /\ job'["flusher"] = job["flusher"] /\ job' \in [Jobs -> JobTypes]
        BY <3>1, <3>2 DEF Shapes, Jobs
      <3> QED BY <1>g, <2>2, <3>2, <3>3
    <2> QED BY <2>1, <2>2
  <1>3. Shapes' BY <1>u, <1>1, <1>2, <1>n, <1>b, <1>g, <1>j DEF Shapes
  <1>4. ObjectsInv'
    <2>1. Known(live)' BY <1>u, <1>k DEF ObjectsInv, Known, Shapes
    <2>2. \A j \in Jobs : job'[j].objs \subseteq Objects /\ OneEach(job'[j].objs)
      BY <1>3, <1>j DEF ObjectsInv, OneEach, Jobs, JobTypes, Shapes
    <2>3. \A j \in Jobs : \A o \in job'[j].objs : Gen(o) <= newest[User(o)]
      BY <1>j DEF ObjectsInv, Known, Jobs
    <2>4. \A j \in Jobs : Known(job[j].objs)' BY <1>k, <2>2, <2>3 DEF Known
    <2>5. Known(apply.gone)' BY <1>g, <2>1, <1>u DEF Known
    <2>6. \A u \in Users : writer'[u] <= newest'[u]
      BY <1>u, <1>n, Facts DEF ObjectsInv
    <2>7. \A u \in apply.next : newest'[u] > 0
      <3> TAKE u \in apply.next
      <3>0. u \in Users BY DEF Shapes, ApplyTypes
      <3>1. CASE u \in Present
        <4>1. PICK o \in live : User(o) = u BY <3>1 DEF Present
        <4>2. o \in Objects /\ Gen(o) <= newest'[u] BY <1>u, <2>1, <4>1 DEF Known, Shapes
        <4> QED BY <1>n, <3>0, <4>2, Facts
      <3>2. CASE u \notin Present BY <1>2, <3>0, <3>2, Facts
      <3> QED BY <3>1, <3>2
    <2> QED BY <1>u, <1>g, <2>1, <2>2, <2>4, <2>5, <2>6, <2>7 DEF ObjectsInv, OneEach
  <1>5. LockInv' BY <1>u, <1>o, <1>g, <1>j DEF LockInv, Jobs, Shapes
  <1>6. FilterInv' BY <1>u DEF FilterInv
  <1>7. MovedInv'
    <2>1. ASSUME NEW o \in Objects PROVE bytes'[o] <= moved[User(o)] /\ marks'[o] <= bytes'[o]
      <3>1. CASE o \in Added BY <1>1, <1>2, <3>1, Facts DEF MovedInv
      <3>2. CASE o \notin Added BY <1>2, <3>2 DEF MovedInv
      <3> QED BY <3>1, <3>2
    <2> QED BY <1>u, <1>g, <1>j, <2>1 DEF MovedInv, Jobs
  <1>8. FloorInv'
    <2>1. \A o \in live : bytes[o] <= bytes'[o] BY <1>k, Facts DEF ObjectsInv, Known, Shapes
    <2>2. \A o \in job["flusher"].objs : bytes'[o] = bytes[o]
      BY <1>k, Facts DEF ObjectsInv, Known, Jobs
    <2> QED BY <1>u, <1>g, <1>j, <2>1, <2>2 DEF FloorInv, Owes, Floor, Jobs
  <1>9. SettledInv'
    <2>1. ~Settled("main")' \/ Owes("main")' = {}
      BY <1>g, <1>j DEF Settled, Owes, Kept
    <2> QED BY <1>u, <1>j, <2>1 DEF SettledInv, Settled, Owes, Floor, Jobs
  <1>10. PromiseInv'
    <2>1. ASSUME NEW u \in Users, NEW g \in 1..Gens, writer[u] = g
          PROVE  bytes'[<<u, g>>] = bytes[<<u, g>>]
      BY <1>k, <2>1 DEF ObjectsInv, Objects, User, Gen
    <2> QED BY <1>u, <1>j, <2>1 DEF PromiseInv, Jobs
  <1> QED BY <1>3, <1>4, <1>5, <1>6, <1>7, <1>8, <1>9, <1>10

(* The flush of the removed users hands over what it settled. *)
LEMMA GoneFlushedInv == ASSUME StateInv, GoneFlushed PROVE StateInv'
  <1> USE DEF StateInv, disk, counts, memory, history
  <1>1. /\ UNCHANGED <<up, bytes, newest, live, relays, rows, since, last_flushed, lock, marks,
                       promised, writer, moved>>
        /\ apply.pc = "flush" /\ job["main"].pc \in {"flushed", "failed"}
    BY DEF GoneFlushed
  <1>2. /\ apply' \in ApplyTypes /\ apply'.pc = "publish" /\ apply'.gone = apply.gone
        /\ apply'.floor = apply.floor /\ apply'.next = apply.next
        /\ apply'.ok = (job["main"].pc = "flushed")
    BY DEF GoneFlushed, ApplyTypes, Shapes
  <1>3. NoJob \in JobTypes /\ NoJob.pc = "idle" /\ NoJob.objs = {} /\ NoJob.dirty = {}
    BY DEF NoJob, JobTypes
  <1>4. job'["main"] = NoJob /\ job'["flusher"] = job["flusher"] /\ job' \in [Jobs -> JobTypes]
    BY <1>3 DEF GoneFlushed, Shapes, Jobs
  <1>5. job["main"].dirty = {} BY <1>1 DEF LockInv, Jobs
  <1>6. Shapes' BY <1>1, <1>2, <1>4 DEF Shapes
  <1>7. ObjectsInv' BY <1>1, <1>2, <1>3, <1>4 DEF ObjectsInv, OneEach, Known, Jobs
  <1>8. LockInv' BY <1>1, <1>2, <1>3, <1>4 DEF LockInv, Jobs
  <1>9. FilterInv' /\ MovedInv' /\ PromiseInv'
    BY <1>1, <1>2, <1>3, <1>4 DEF FilterInv, MovedInv, PromiseInv, Jobs
  <1>10. FloorInv' BY <1>1, <1>2, <1>3, <1>4 DEF FloorInv, Owes, Floor, Jobs
  <1>11. SettledInv'
    <2>1. \A k \in Jobs : /\ Owes(k)' = Owes(k) /\ Floor(k)' = Floor(k)
                          /\ Settled(k)' => Settled(k)
                          /\ job'[k].dirty = job[k].dirty
      <3>1. ASSUME Settled("main")' PROVE Settled("main") BY <1>1, <1>2, <3>1 DEF Settled
      <3> QED BY <1>1, <1>2, <1>3, <1>4, <1>5, <3>1 DEF Settled, Owes, Floor, Jobs
    <2> QED BY <1>1, <2>1 DEF SettledInv
  <1> QED BY <1>6, <1>7, <1>8, <1>9, <1>10, <1>11

LEMMA PublishInv == ASSUME StateInv, Publish PROVE StateInv'
  <1> USE DEF StateInv, disk, counts, memory, history
  <1>1. /\ UNCHANGED <<bytes, newest, relays, rows, since, last_flushed, lock, job, marks,
                       promised, writer, moved>>
        /\ apply.pc = "publish" /\ live' = {<<u, newest[u]>> : u \in apply.next}
        /\ up' \in {"off", "on", "stopping", "exiting"}
    BY DEF Publish, Shapes
  <1>2. NoApply \in ApplyTypes /\ apply' = NoApply /\ apply'.pc = "idle" /\ apply'.gone = {}
    BY DEF NoApply, ApplyTypes, Publish
  <1>3. job["main"].pc = "idle" /\ job["main"].objs = {} /\ job["main"].dirty = {}
    BY <1>1 DEF LockInv, Jobs
  <1>4. /\ live' \subseteq Objects
        /\ \A o \in live' : User(o) \in apply.next /\ Gen(o) = newest[User(o)]
    <2>1. \A u \in apply.next : u \in Users /\ newest[u] \in 1..Gens
      BY <1>1, Facts DEF ObjectsInv, Shapes, ApplyTypes
    <2> QED BY <1>1, <2>1 DEF Objects, User, Gen
  <1>5. Shapes' BY <1>1, <1>2, <1>4 DEF Shapes
  <1>6. ObjectsInv'
    <2>1. OneEach(live') BY <1>4, Facts DEF OneEach
    <2>2. Known(live)' BY <1>1, <1>4, Facts DEF Known
    <2> QED BY <1>1, <1>2, <2>1, <2>2 DEF ObjectsInv, OneEach, Known
  <1>7. LockInv' BY <1>1, <1>2, <1>3 DEF LockInv
  <1>8. FilterInv' /\ MovedInv' /\ PromiseInv' BY <1>1, <1>2 DEF FilterInv, MovedInv, PromiseInv
  <1>9. FloorInv' BY <1>1, <1>2, <1>3 DEF FloorInv, Owes, Floor, Jobs
  <1>10. SettledInv' BY <1>1, <1>2, <1>3 DEF SettledInv, Settled, Owes, Floor, Jobs
  <1> QED BY <1>5, <1>6, <1>7, <1>8, <1>9, <1>10

LEMMA NextInv == StateInv /\ [Next]_vars => StateInv'
  <1> SUFFICES ASSUME StateInv, [Next]_vars PROVE StateInv' OBVIOUS
  <1>1. CASE Next
    <2>1. "flusher" \in Jobs /\ "main" \in Jobs BY DEF Jobs
    <2> QED BY <1>1, <2>1, TrafficInv, QuietInv, SnapshotInv, CommitInv, FailsInv, QueueInv,
               CheckpointInv, FlushedInv, ApplyInv, SwitchInv, GoneFlushedInv, PublishInv, CrashInv
            DEF Next, Flusher, Main, Flush
  <1>2. CASE UNCHANGED vars
    BY <1>2 DEF vars, memory, disk, history, counts, StateInv, Shapes, ObjectsInv, OneEach, Known,
                LockInv, FilterInv, MovedInv, FloorInv, Owes, Floor, SettledInv, Settled, PromiseInv
  <1> QED BY <1>1, <1>2

LEMMA InvAlways == Spec => []StateInv
  BY InitInv, NextInv, PTL DEF Spec

(***************************************************************************)
(* The filter that lets StateDb::flush skip untouched rows knows what is   *)
(* in the file, whichever of the two tasks flushed and however often a     *)
(* commit failed or the process died.                                      *)
(***************************************************************************)
THEOREM FilterExact == Spec => []FilterIsExact
  <1>1. StateInv => FilterIsExact
    BY DEF StateInv, FilterIsExact, FilterInv, TypeOK, Shapes, Bytes, Tables, ObjectsInv, OneEach,
           LockInv
  <1> QED BY <1>1, InvAlways, PTL

(***************************************************************************)
(* What the hourly checkpoint made durable is in every table that a power  *)
(* loss may leave, and no byte gets into a row or a restored counter       *)
(* twice.                                                                  *)
(***************************************************************************)
THEOREM HoursAreDurable == Spec => []PowerLossKeepsHours
  <1>1. StateInv => PowerLossKeepsHours
    <2> SUFFICES ASSUME StateInv PROVE PowerLossKeepsHours OBVIOUS
    <2>1. NeverCountedTwice
      <3>1. \A u \in Users : \A g \in 1..Gens : <<u, g>> \in Objects /\ User(<<u, g>>) = u
        BY DEF Objects, User
      <3> QED BY <3>1 DEF StateInv, MovedInv, Shapes, NeverCountedTwice
    <2> QED BY <2>1 DEF StateInv, PromiseInv, PowerLossKeepsHours
  <1> QED BY <1>1, InvAlways, PTL

(***************************************************************************)
(* When a set without a user is published and the flush of the removed     *)
(* users worked, the row that the removed object wrote has all that it had *)
(* counted when its rules were removed.                                    *)
(***************************************************************************)
THEOREM RemovedUsersAreSaved == Spec => []RemovedAreSaved
  <1>1. StateInv => RemovedAreSaved
    <2> SUFFICES ASSUME StateInv, apply.pc = "publish", apply.ok, NEW o \in apply.gone,
                        writer[User(o)] = Gen(o)
                 PROVE  rows[User(o)] >= apply.floor[o]
      BY DEF RemovedAreSaved
    <2>1. "main" \in Jobs /\ Settled("main") /\ Owes("main") = apply.gone
          /\ Floor("main") = apply.floor
      BY DEF Jobs, Settled, Owes, Floor
    <2>2. apply.floor[o] <= rows[User(o)] BY <2>1 DEF StateInv, SettledInv
    <2> QED BY <2>1, <2>2, Facts
  <1> QED BY <1>1, InvAlways, PTL
=============================================================================
