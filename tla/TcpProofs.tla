------------------------------ MODULE TcpProofs ------------------------------
(***************************************************************************)
(* Proofs about TcpRelay, for any connections, workers and pipes, however  *)
(* the quota is set: the pool of pipes never mixes two connections, and    *)
(* the relay implements module Streams.                                    *)
(***************************************************************************)
EXTENDS TcpRelay, TLAPS, FiniteSetTheorems, SequenceTheorems, NaturalsInduction,
        WellFoundedInduction

\* A pipe nobody holds is empty, and the bytes of a held one are counted.
PipesInv ==
    /\ \A w \in Workers : IsFiniteSet(idle[w]) /\ Cardinality(idle[w]) <= MaxIdle
    /\ \A w \in Workers : \A f \in Flows : lease[f] \notin idle[w]
    /\ \A v, w \in Workers : v # w => idle[v] \cap idle[w] = {}
    /\ \A f, g \in Flows : f # g /\ lease[f] = lease[g] => lease[f] = NoPipe
    /\ \A p \in Pipes : (\A f \in Flows : lease[f] # p) => content[p] = <<>>
    /\ \A f \in Flows : lease[f] # NoPipe =>
         fpc[f] \in {"read", "write"} /\ buffered[f] = Len(content[lease[f]])

\* A loop runs while its connection is open, and is done once its end is passed on.
LoopInv ==
    \A f \in Flows :
      /\ fpc[f] = "off" <=> conn[f[1]] # "open"
      /\ conn[f[1]] = "open" => (fin[f] <=> fpc[f] = "done")
      /\ conn[f[1]] \in {"none", "queued", "connecting"} =>
           taken[f] = 0 /\ out[f] = <<>> /\ ~fin[f]

\* What has gone out, what is in hand and what is yet to be read.
DataInv ==
    \A f \in Flows :
      /\ Len(out[f]) <= taken[f] /\ out[f] = Bytes(f, 0, Len(out[f]))
      /\ fpc[f] # "write" \/ lease[f] # NoPipe => buf[f] = <<>>
      /\ fpc[f] = "read" => Len(out[f]) = taken[f]
      /\ fpc[f] = "read" /\ lease[f] # NoPipe => content[lease[f]] = <<>>
      /\ fpc[f] = "write" => InHand(f) = Bytes(f, Len(out[f]), taken[f])

TcpInv == TypeOK /\ PipesInv /\ LoopInv /\ DataInv

-----------------------------------------------------------------------------
(***************************************************************************)
(* Sequences of bytes and small sets.                                      *)
(***************************************************************************)
AnyBytes == Seq(Flows \X Nat)

(* Consecutive bytes of one flow. *)
LEMMA BytesFacts ==
    ASSUME NEW f \in Flows, NEW a \in Nat, NEW b \in Nat, a <= b
    PROVE  /\ Bytes(f, a, b) \in AnyBytes /\ Len(Bytes(f, a, b)) = b - a
           /\ \A i \in 1..(b - a) : Bytes(f, a, b)[i] = Byte(f, a + i)
           /\ a = b => Bytes(f, a, b) = <<>>
           /\ a # b => Bytes(f, a, b) # <<>>
  <1>1. b - a \in Nat OBVIOUS
  <1>2. Bytes(f, a, b) \in [1..(b - a) -> Flows \X Nat] BY <1>1 DEF Bytes, Byte
  <1>3. Bytes(f, a, b) \in AnyBytes /\ Len(Bytes(f, a, b)) = b - a
    <2>1. PICK n \in Nat : n = b - a BY <1>1
    <2>2. \A s \in [1..n -> Flows \X Nat] : s \in Seq(Flows \X Nat) BY SeqDef
    <2>3. Bytes(f, a, b) \in Seq(Flows \X Nat) BY <1>2, <2>1, <2>2
    <2>4. DOMAIN Bytes(f, a, b) = 1..n BY <2>1 DEF Bytes
    <2>5. PICK m \in Nat : m = Len(Bytes(f, a, b)) /\ DOMAIN Bytes(f, a, b) = 1..m
      BY <2>3, LenProperties
    <2>6. 1..n = 1..m BY <2>4, <2>5
    <2>7. n = m
      <3>1. n # 0 => n \in 1..m BY <2>6
      <3>2. m # 0 => m \in 1..n BY <2>6
      <3> QED BY <3>1, <3>2
    <2> QED BY <2>1, <2>3, <2>5, <2>7 DEF AnyBytes
  <1>4. \A i \in 1..(b - a) : Bytes(f, a, b)[i] = Byte(f, a + i) BY DEF Bytes
  <1>5. Bytes(f, a, b) # <<>> => Len(Bytes(f, a, b)) \in Nat \ {0} BY <1>3, EmptySeq DEF AnyBytes
  <1>6. Len(<<>>) = 0 BY EmptySeq
  <1> QED BY <1>3, <1>4, <1>5, <1>6

LEMMA NextBytes ==
    ASSUME NEW f \in Flows, NEW a \in Nat, NEW n \in Nat
    PROVE  Bytes(f, a, a + n) \in AnyBytes /\ Len(Bytes(f, a, a + n)) = n
  <1>1. PICK b \in Nat : b = a + n /\ a <= b /\ b - a = n OBVIOUS
  <1>2. Bytes(f, a, b) \in AnyBytes /\ Len(Bytes(f, a, b)) = b - a BY <1>1, BytesFacts
  <1> QED BY <1>1, <1>2

LEMMA BytesJoin ==
    ASSUME NEW f \in Flows, NEW a \in Nat, NEW b \in Nat, NEW c \in Nat, a <= b, b <= c
    PROVE  Bytes(f, a, b) \o Bytes(f, b, c) = Bytes(f, a, c)
  <1> DEFINE s == Bytes(f, a, b)
             t == Bytes(f, b, c)
             u == Bytes(f, a, c)
  <1>1. /\ s \in AnyBytes /\ t \in AnyBytes /\ u \in AnyBytes
        /\ Len(s) = b - a /\ Len(t) = c - b /\ Len(u) = c - a
        /\ \A i \in 1..(b - a) : s[i] = Byte(f, a + i)
        /\ \A i \in 1..(c - b) : t[i] = Byte(f, b + i)
        /\ \A i \in 1..(c - a) : u[i] = Byte(f, a + i)
    BY BytesFacts
  <1> HIDE DEF s, t, u
  <1>2. /\ s \o t \in AnyBytes /\ Len(s \o t) = Len(s) + Len(t)
        /\ \A i \in 1..(Len(s) + Len(t)) :
             (s \o t)[i] = IF i <= Len(s) THEN s[i] ELSE t[i - Len(s)]
    BY <1>1, ConcatProperties DEF AnyBytes
  <1>3. Len(s \o t) = Len(u) /\ Len(u) = c - a BY <1>1, <1>2
  <1>4. ASSUME NEW i \in 1..Len(s \o t) PROVE (s \o t)[i] = u[i]
    <2>1. i \in 1..(c - a) /\ i \in Nat BY <1>3
    <2>2. CASE i <= b - a
      <3>1. i \in 1..(b - a) BY <2>1, <2>2
      <3> QED BY <1>1, <1>2, <2>1, <2>2, <3>1
    <2>3. CASE ~(i <= b - a)
      <3>1. i - (b - a) \in 1..(c - b) /\ b + (i - (b - a)) = a + i BY <2>1, <2>3
      <3>2. (s \o t)[i] = t[i - (b - a)] BY <1>1, <1>2, <2>1, <2>3
      <3>3. t[i - (b - a)] = Byte(f, b + (i - (b - a))) BY <1>1, <3>1
      <3>4. u[i] = Byte(f, a + i) BY <1>1, <2>1
      <3> QED BY <3>1, <3>2, <3>3, <3>4
    <2> QED BY <2>2, <2>3
  <1>5. s \o t = u BY <1>1, <1>2, <1>3, <1>4, SeqEqual DEF AnyBytes
  <1> QED BY <1>5 DEF s, t, u

LEMMA BytesCut ==
    ASSUME NEW f \in Flows, NEW a \in Nat, NEW b \in Nat, a <= b, NEW n \in 1..(b - a)
    PROVE  /\ SubSeq(Bytes(f, a, b), 1, n) = Bytes(f, a, a + n)
           /\ SubSeq(Bytes(f, a, b), n + 1, b - a) = Bytes(f, a + n, b)
  <1> DEFINE s == Bytes(f, a, b)
             t == Bytes(f, a, a + n)
             u == Bytes(f, a + n, b)
  <1>0. n \in Nat /\ a + n \in Nat /\ a <= a + n /\ a + n <= b /\ b - a \in Nat /\ n <= b - a OBVIOUS
  <1>1. /\ t \in AnyBytes /\ u \in AnyBytes
        /\ Len(t) = n /\ Len(u) = b - (a + n)
        /\ \A i \in 1..(b - a) : s[i] = Byte(f, a + i)
        /\ \A i \in 1..n : t[i] = Byte(f, a + i)
        /\ \A i \in 1..(b - (a + n)) : u[i] = Byte(f, (a + n) + i)
    <2>1. (a + n) - a = n BY <1>0
    <2>2. PICK m \in Nat : m = a + n BY <1>0
    <2>3. a <= m /\ m <= b BY <1>0, <2>2
    <2>4. /\ Bytes(f, a, m) \in AnyBytes /\ Len(Bytes(f, a, m)) = m - a
          /\ \A i \in 1..(m - a) : Bytes(f, a, m)[i] = Byte(f, a + i)
      BY <2>3, BytesFacts
    <2>5. /\ Bytes(f, m, b) \in AnyBytes /\ Len(Bytes(f, m, b)) = b - m
          /\ \A i \in 1..(b - m) : Bytes(f, m, b)[i] = Byte(f, m + i)
      BY <2>3, BytesFacts
    <2>6. \A i \in 1..(b - a) : s[i] = Byte(f, a + i) BY BytesFacts
    <2> QED BY <2>1, <2>2, <2>4, <2>5, <2>6
  <1>2. \A i \in 1..(b - a) : s[i] \in Flows \X Nat
    <2>1. s \in AnyBytes /\ Len(s) = b - a BY BytesFacts
    <2> QED BY <2>1, ElementOfSeq DEF AnyBytes
  <1> HIDE DEF s, t, u
  <1>3. SubSeq(s, 1, n) = t
    <2>1. \A i \in 1..n : s[i] \in Flows \X Nat BY <1>0, <1>2
    <2>2. /\ SubSeq(s, 1, n) \in AnyBytes
          /\ Len(SubSeq(s, 1, n)) = IF 1 <= n THEN n - 1 + 1 ELSE 0
          /\ \A i \in 1..(n - 1 + 1) : SubSeq(s, 1, n)[i] = s[1 + i - 1]
      BY <1>0, <2>1, SubSeqProperties DEF AnyBytes
    <2>3. Len(SubSeq(s, 1, n)) = n BY <1>0, <2>2
    <2>4. \A i \in 1..n : SubSeq(s, 1, n)[i] = t[i]
      <3> TAKE i \in 1..n
      <3>1. 1 + i - 1 = i /\ n - 1 + 1 = n /\ i \in 1..(b - a) BY <1>0
      <3>2. SubSeq(s, 1, n)[i] = s[i] BY <2>2, <3>1
      <3> QED BY <1>1, <3>1, <3>2
    <2> QED BY <1>1, <2>2, <2>3, <2>4, SeqEqual DEF AnyBytes
  <1>4. SubSeq(s, n + 1, b - a) = u
    <2>0. n + 1 \in Int /\ b - a \in Int BY <1>0
    <2>1. \A i \in (n + 1)..(b - a) : s[i] \in Flows \X Nat BY <1>0, <1>2
    <2>2. /\ SubSeq(s, n + 1, b - a) \in AnyBytes
          /\ Len(SubSeq(s, n + 1, b - a)) = IF n + 1 <= b - a THEN (b - a) - (n + 1) + 1 ELSE 0
          /\ \A i \in 1..((b - a) - (n + 1) + 1) : SubSeq(s, n + 1, b - a)[i] = s[n + 1 + i - 1]
      BY <2>0, <2>1, SubSeqProperties DEF AnyBytes
    <2>3. Len(SubSeq(s, n + 1, b - a)) = b - (a + n) BY <1>0, <2>2
    <2>4. \A i \in 1..(b - (a + n)) : SubSeq(s, n + 1, b - a)[i] = u[i]
      <3> TAKE i \in 1..(b - (a + n))
      <3>1. /\ n + 1 + i - 1 = n + i /\ (b - a) - (n + 1) + 1 = b - (a + n)
            /\ n + i \in 1..(b - a) /\ a + (n + i) = (a + n) + i
        BY <1>0
      <3>2. SubSeq(s, n + 1, b - a)[i] = s[n + i] BY <2>2, <3>1
      <3>3. s[n + i] = Byte(f, a + (n + i)) BY <1>1, <3>1
      <3> QED BY <1>1, <3>1, <3>2, <3>3
    <2> QED BY <1>1, <2>2, <2>3, <2>4, SeqEqual DEF AnyBytes
  <1> QED BY <1>3, <1>4 DEF s, t, u

(* The smaller of two numbers. *)
LEMMA MinOfTwo ==
    ASSUME NEW a \in Int, NEW b \in Int
    PROVE  Min({a, b}) \in {a, b} /\ Min({a, b}) <= a /\ Min({a, b}) <= b
  <1>1. \E x \in {a, b} : \A y \in {a, b} : x <= y
    <2>1. CASE a <= b BY <2>1
    <2>2. CASE b <= a BY <2>2
    <2> QED BY <2>1, <2>2
  <1> QED BY <1>1 DEF Min

LEMMA SmallestLimit == Min(Limits) \in Limits
  <1>1. IsWellFoundedOn(OpToRel(<, Nat), Nat) BY NatLessThanWellFounded
  <1>2. Limits \subseteq Nat /\ Limits # {} BY LimitsAssumption
  <1>3. PICK i \in Limits : \A j \in Limits : ~(<<j, i>> \in OpToRel(<, Nat)) BY <1>1, <1>2, WFMin
  <1>4. \A j \in Limits : i <= j
    <2> TAKE j \in Limits
    <2>1. i \in Nat /\ j \in Nat BY <1>2
    <2>2. ~(j < i) BY <1>3, <2>1 DEF OpToRel
    <2> QED BY <2>1, <2>2
  <1> QED BY <1>4 DEF Min

(* The flows of a connection. *)
LEMMA FlowFacts ==
    /\ \A f \in Flows : f[1] \in Conns /\ f \in FlowsOf(f[1])
    /\ \A c \in Conns : \A f \in Flows : f \in FlowsOf(c) <=> f[1] = c
    /\ \A c \in Conns : FlowsOf(c) \subseteq Flows
  BY DEF Flows, FlowsOf, Directions

(* The pipes of the flows of a connection are at most two. *)
LEMMA PipesFinite ==
    ASSUME TypeOK, NEW c \in Conns, NEW fs \in SUBSET FlowsOf(c)
    PROVE  PipesOf(fs) \subseteq Pipes /\ IsFiniteSet(PipesOf(fs))
  <1>1. PipesOf(fs) \subseteq Pipes
    BY FlowFacts DEF PipesOf, TypeOK
  <1>2. PipesOf(fs) \subseteq {lease[<<c, "up">>]} \cup {lease[<<c, "down">>]}
    <2>1. \A f \in fs : f = <<c, "up">> \/ f = <<c, "down">> BY DEF FlowsOf, Directions
    <2> QED BY <2>1 DEF PipesOf
  <1>3. IsFiniteSet({lease[<<c, "up">>]} \cup {lease[<<c, "down">>]})
    BY FS_Singleton, FS_Union
  <1> QED BY <1>1, <1>2, <1>3, FS_Subset

-----------------------------------------------------------------------------
(***************************************************************************)
(* Pipe and Lease.                                                         *)
(***************************************************************************)
\* The part of PipesInv that does not look at the loops.
PoolInv ==
    /\ \A w \in Workers : IsFiniteSet(idle[w]) /\ Cardinality(idle[w]) <= MaxIdle
    /\ \A w \in Workers : \A f \in Flows : lease[f] \notin idle[w]
    /\ \A v, w \in Workers : v # w => idle[v] \cap idle[w] = {}
    /\ \A f, g \in Flows : f # g /\ lease[f] = lease[g] => lease[f] = NoPipe
    /\ \A p \in Pipes : (\A f \in Flows : lease[f] # p) => content[p] = <<>>

PipeTypes ==
    /\ lease \in [Flows -> Pipes \cup {NoPipe}] /\ buffered \in [Flows -> Nat]
    /\ content \in [Pipes -> Seq(Flows \X Nat)]
    /\ capacity \in [Pipes -> {Small, Big}] /\ busy \in [Pipes -> 0..(GrowAfter + 1)]
    /\ idle \in [Workers -> SUBSET Pipes]

(* Giving back pipes that only the loops fs have, or nobody, keeps the pool   *)
(* bounded and clean if the ones kept are empty.                              *)
LEMMA Released ==
    ASSUME TcpInv, NEW w \in Workers, NEW fs \in SUBSET Flows,
           NEW held \in SUBSET Pipes, NEW clean \in SUBSET held, IsFiniteSet(clean),
           \A f \in fs : lease[f] # NoPipe => lease[f] \in held,
           \A f \in Flows : lease[f] \in held => f \in fs,
           \A p \in held : \A v \in Workers \ {w} : p \notin idle[v],
           \A p \in clean : content[p] = <<>>,
           release(fs, held, clean, w)
    PROVE  /\ PipeTypes' /\ PoolInv'
           /\ \A f \in fs : lease'[f] = NoPipe
           /\ \A f \in Flows \ fs :
                /\ lease'[f] = lease[f] /\ buffered'[f] = buffered[f]
                /\ lease[f] # NoPipe => content'[lease[f]] = content[lease[f]]
  <1>1. PICK kept \in SUBSET clean :
          /\ Cardinality(kept) = Min({Cardinality(clean), MaxIdle - Cardinality(idle[w] \ held)})
          /\ idle' = [idle EXCEPT ![w] = (@ \ held) \cup kept]
          /\ content' = [p \in Pipes |-> IF p \in held \ kept THEN <<>> ELSE content[p]]
          /\ capacity' = [p \in Pipes |-> IF p \in held \ kept THEN Small ELSE capacity[p]]
          /\ busy' = [p \in Pipes |-> IF p \in held THEN 0 ELSE busy[p]]
          /\ lease' = [f \in Flows |-> IF f \in fs THEN NoPipe ELSE lease[f]]
          /\ buffered' = [f \in Flows |-> IF f \in fs THEN 0 ELSE buffered[f]]
    BY DEF release
  <1>2. PipeTypes /\ PoolInv BY DEF TcpInv, TypeOK, PipesInv, PipeTypes, PoolInv
  <1>3. /\ idle' \in [Workers -> SUBSET Pipes] /\ idle'[w] = (idle[w] \ held) \cup kept
        /\ \A v \in Workers \ {w} : idle'[v] = idle[v]
    BY <1>1, <1>2 DEF PipeTypes
  <1>4. PipeTypes'
    <2>1. lease' \in [Flows -> Pipes \cup {NoPipe}] /\ buffered' \in [Flows -> Nat]
      BY <1>1, <1>2 DEF PipeTypes
    <2>2. content' \in [Pipes -> Seq(Flows \X Nat)]
      <3>1. <<>> \in Seq(Flows \X Nat) BY EmptySeq
      <3> QED BY <1>1, <1>2, <3>1 DEF PipeTypes
    <2>3. capacity' \in [Pipes -> {Small, Big}] BY <1>1, <1>2 DEF PipeTypes
    <2>4. busy' \in [Pipes -> 0..(GrowAfter + 1)]
      <3>1. 0 \in 0..(GrowAfter + 1) BY BoundsAssumption
      <3> QED BY <1>1, <1>2, <3>1 DEF PipeTypes
    <2> QED BY <1>3, <2>1, <2>2, <2>3, <2>4 DEF PipeTypes
  <1>5. \A v \in Workers : IsFiniteSet(idle'[v]) /\ Cardinality(idle'[v]) <= MaxIdle
    <2> DEFINE others == idle[w] \ held
    <2>1. IsFiniteSet(others) /\ IsFiniteSet(kept)
      BY <1>2, FS_Subset DEF PoolInv
    <2>2. /\ Cardinality(others) \in Nat /\ Cardinality(kept) \in Nat
          /\ Cardinality(clean) \in Nat /\ Cardinality(others \cap kept) \in Nat
      <3>1. IsFiniteSet(others \cap kept) BY <2>1, FS_Subset
      <3> QED BY <2>1, <3>1, FS_CardinalityType
    <2>3. MaxIdle - Cardinality(others) \in Int BY <2>2, BoundsAssumption
    <2>4. Cardinality(kept) <= MaxIdle - Cardinality(others)
      <3>1. PICK m \in Int : m = Cardinality(clean) BY <2>2
      <3>2. PICK n \in Int : n = MaxIdle - Cardinality(others) BY <2>3
      <3>3. Cardinality(kept) = Min({m, n}) BY <1>1, <3>1, <3>2
      <3>4. Min({m, n}) <= n BY MinOfTwo
      <3> QED BY <3>2, <3>3, <3>4
    <2>5. /\ IsFiniteSet(others \cup kept)
          /\ Cardinality(others \cup kept)
               = Cardinality(others) + Cardinality(kept) - Cardinality(others \cap kept)
      BY <2>1, FS_Union
    <2>6. Cardinality(others \cup kept) <= MaxIdle BY <2>2, <2>4, <2>5, BoundsAssumption
    <2> QED BY <1>2, <1>3, <2>5, <2>6 DEF PoolInv
  <1>6. /\ \A f \in fs : lease'[f] = NoPipe
        /\ \A f \in Flows \ fs : lease'[f] = lease[f] /\ buffered'[f] = buffered[f]
    BY <1>1
  <1>7. \A f \in Flows \ fs : lease[f] # NoPipe => content'[lease[f]] = content[lease[f]]
    BY <1>1, <1>2 DEF PipeTypes
  <1>8. NoPipe \notin Pipes BY PipesAssumption
  <1>9. PoolInv'
    <2>1. ASSUME NEW v \in Workers, NEW f \in Flows PROVE lease'[f] \notin idle'[v]
      <3>1. CASE f \in fs BY <1>3, <1>6, <1>8, <3>1
      <3>2. CASE f \notin fs
        <4>1. lease'[f] = lease[f] /\ lease[f] \notin held /\ lease[f] \notin idle[v]
          BY <1>2, <1>6, <3>2 DEF PoolInv
        <4> QED BY <1>3, <4>1
      <3> QED BY <3>1, <3>2
    <2>2. ASSUME NEW u \in Workers, NEW v \in Workers, u # v PROVE idle'[u] \cap idle'[v] = {}
      <3>1. idle[u] \cap idle[v] = {} BY <1>2, <2>2 DEF PoolInv
      <3>2. CASE u = w BY <1>3, <2>2, <3>1, <3>2
      <3>3. CASE v = w BY <1>3, <2>2, <3>1, <3>3
      <3>4. CASE u # w /\ v # w BY <1>3, <3>1, <3>4
      <3> QED BY <3>2, <3>3, <3>4
    <2>3. \A f, g \in Flows : f # g /\ lease'[f] = lease'[g] => lease'[f] = NoPipe
      BY <1>2, <1>6 DEF PoolInv
    <2>4. ASSUME NEW p \in Pipes, \A f \in Flows : lease'[f] # p PROVE content'[p] = <<>>
      <3>1. CASE p \in held \ kept BY <1>1, <3>1
      <3>2. CASE p \in kept BY <1>1, <3>2
      <3>3. CASE p \notin held
        <4>1. content'[p] = content[p] BY <1>1, <3>3
        <4>2. \A f \in Flows : lease[f] # p BY <1>6, <1>8, <2>4, <3>3
        <4> QED BY <1>2, <4>1, <4>2 DEF PoolInv
      <3> QED BY <3>1, <3>2, <3>3
    <2> QED BY <1>5, <2>1, <2>2, <2>3, <2>4 DEF PoolInv
  <1> QED BY <1>4, <1>6, <1>7, <1>9

(* The loops after a release: nothing changes for those that keep their pipe. *)
LEMMA PipesFromPool ==
    ASSUME PoolInv', \A f \in Flows : lease'[f] # NoPipe =>
                       fpc'[f] \in {"read", "write"} /\ buffered'[f] = Len(content'[lease'[f]])
    PROVE  PipesInv'
  BY DEF PipesInv, PoolInv

(* The pipe a read is about to fill is the loop's own or nobody's, and empty. *)
LEMMA LeasedFacts ==
    ASSUME TcpInv, NEW f \in Flows, fpc[f] = "read", NEW w \in Workers, NEW p \in Leased(f, w)
    PROVE  /\ p \in Pipes \cup {NoPipe}
           /\ lease[f] # NoPipe => p = lease[f]
           /\ p # NoPipe => /\ content[p] = <<>>
                            /\ \A g \in Flows : lease[g] = p => g = f
                            /\ \A v \in Workers \ {w} : p \notin idle[v]
  <1>1. PipeTypes /\ PoolInv BY DEF TcpInv, TypeOK, PipesInv, PipeTypes, PoolInv
  <1>2. CASE lease[f] # NoPipe
    <2>1. p = lease[f] BY <1>2 DEF Leased
    <2>2. content[p] = <<>> BY <1>2, <2>1 DEF TcpInv, DataInv
    <2> QED BY <1>1, <1>2, <2>1, <2>2 DEF PipeTypes, PoolInv
  <1>3. CASE lease[f] = NoPipe /\ p # NoPipe
    <2>1. p \in idle[w] \/ p \in Unused BY <1>3 DEF Leased
    <2>2. CASE p \in idle[w]
      <3>1. p \in Pipes /\ \A g \in Flows : lease[g] # p BY <1>1, <2>2 DEF PipeTypes, PoolInv
      <3>2. \A v \in Workers \ {w} : p \notin idle[v] BY <1>1, <2>2 DEF PoolInv
      <3> QED BY <1>1, <1>3, <3>1, <3>2 DEF PoolInv
    <2>3. CASE p \in Unused
      <3>1. /\ p \in Pipes /\ \A v \in Workers : p \notin idle[v]
            /\ \A g \in Flows : lease[g] # p
        BY <1>3, <2>3 DEF Unused, Held
      <3> QED BY <1>1, <1>3, <3>1 DEF PoolInv
    <2> QED BY <1>3, <2>1, <2>2, <2>3
  <1> QED BY <1>2, <1>3

\* The part of TypeOK that is not about the pipes.
RestTypes ==
    /\ acc \in {"accept", "backoff", "gone"}
    /\ conn \in [Conns -> {"none", "queued", "connecting", "open", "closed"}]
    /\ broken \subseteq Conns
    /\ sent \in [Flows -> Nat] /\ taken \in [Flows -> Nat]
    /\ \A f \in Flows : taken[f] <= sent[f]
    /\ over \in [Flows -> BOOLEAN] /\ fin \in [Flows -> BOOLEAN]
    /\ out \in [Flows -> Seq(Flows \X Nat)] /\ buf \in [Flows -> Seq(Flows \X Nat)]
    /\ fpc \in [Flows -> {"off", "read", "write", "done"}]
    /\ can_splice \in [Flows -> BOOLEAN]
    /\ used \in Nat /\ limit \in Limits /\ exhausted \in BOOLEAN /\ stop \in BOOLEAN

LEMMA TypeParts == (TypeOK <=> PipeTypes /\ RestTypes) /\ (TypeOK' <=> PipeTypes' /\ RestTypes')
  BY DEF TypeOK, PipeTypes, RestTypes

LEMMA Parts == TcpInv => PipeTypes /\ RestTypes /\ PoolInv
  BY TypeParts DEF TcpInv, PipesInv, PoolInv

(* What the invariant says of one flow. *)
LEMMA FlowState ==
    ASSUME TcpInv, NEW f \in Flows
    PROVE  /\ f[1] \in Conns /\ taken[f] \in Nat /\ sent[f] \in Nat /\ taken[f] <= sent[f]
           /\ Len(out[f]) \in Nat /\ Len(out[f]) <= taken[f]
           /\ out[f] = Bytes(f, 0, Len(out[f]))
           /\ fpc[f] \in {"off", "read", "write", "done"}
           /\ buffered[f] \in Nat /\ fin[f] \in BOOLEAN
           /\ lease[f] # NoPipe => lease[f] \in Pipes /\ content[lease[f]] \in AnyBytes
           /\ out[f] \in AnyBytes /\ buf[f] \in AnyBytes
  <1>1. PipeTypes /\ RestTypes BY Parts
  <1>2. out[f] \in Seq(Flows \X Nat) /\ buf[f] \in Seq(Flows \X Nat) BY <1>1 DEF RestTypes
  <1>3. Len(out[f]) \in Nat BY <1>2, LenProperties
  <1>4. Len(out[f]) <= taken[f] /\ out[f] = Bytes(f, 0, Len(out[f])) BY DEF TcpInv, DataInv
  <1> QED BY <1>1, <1>2, <1>3, <1>4, FlowFacts DEF PipeTypes, RestTypes, AnyBytes

LEMMA InitInv == Init => TcpInv
  <1> SUFFICES ASSUME Init PROVE TcpInv OBVIOUS
  <1>1. <<>> \in Seq(Flows \X Nat) /\ Len(<<>>) = 0 BY EmptySeq
  <1>2. RestTypes
    <2>1. limit \in Limits BY SmallestLimit DEF Init
    <2>2. exhausted \in BOOLEAN /\ stop \in BOOLEAN BY DEF Init
    <2>3. out \in [Flows -> Seq(Flows \X Nat)] /\ buf \in [Flows -> Seq(Flows \X Nat)]
      BY <1>1 DEF Init
    <2>4. /\ sent \in [Flows -> Nat] /\ taken \in [Flows -> Nat] /\ used \in Nat
          /\ \A f \in Flows : taken[f] <= sent[f]
      BY DEF Init
    <2>5. /\ over \in [Flows -> BOOLEAN] /\ fin \in [Flows -> BOOLEAN]
          /\ can_splice \in [Flows -> BOOLEAN]
      BY DEF Init
    <2>6. /\ conn \in [Conns -> {"none", "queued", "connecting", "open", "closed"}]
          /\ fpc \in [Flows -> {"off", "read", "write", "done"}]
          /\ acc = "accept" /\ broken = {}
      BY DEF Init
    <2> QED BY <2>1, <2>2, <2>3, <2>4, <2>5, <2>6 DEF RestTypes
  <1>3. PipeTypes BY <1>1, BoundsAssumption DEF Init, PipeTypes
  <1>4. TypeOK BY <1>2, <1>3, TypeParts
  <1>5. PipesInv
    <2>1. IsFiniteSet({}) /\ Cardinality({}) <= MaxIdle BY FS_EmptySet, BoundsAssumption
    <2> QED BY <2>1 DEF Init, PipesInv
  <1>6. LoopInv BY FlowFacts DEF Init, LoopInv
  <1>7. DataInv
    <2>1. \A f \in Flows : Bytes(f, 0, 0) = <<>> BY BytesFacts
    <2> QED BY <1>1, <2>1 DEF Init, DataInv
  <1> QED BY <1>4, <1>5, <1>6, <1>7 DEF TcpInv

-----------------------------------------------------------------------------
(***************************************************************************)
(* Steps that leave the open connections alone.                            *)
(***************************************************************************)
Before == {"none", "queued", "connecting"}

LEMMA Aside ==
    ASSUME TcpInv, UNCHANGED <<loops, pipes, ends>>, RestTypes',
           \A c \in Conns : /\ conn'[c] = "open" <=> conn[c] = "open"
                            /\ conn'[c] \in Before => conn[c] \in Before
    PROVE  TcpInv'
  <1>1. UNCHANGED <<fpc, taken, lease, buffered, can_splice, buf, content, capacity, busy, idle, out, fin>>
    BY DEF loops, pipes, ends
  <1>2. TypeOK'
    <2>1. PipeTypes' BY <1>1, Parts DEF PipeTypes
    <2> QED BY <2>1, TypeParts
  <1>3. PipesInv' BY <1>1 DEF TcpInv, PipesInv
  <1>4. LoopInv' BY <1>1, FlowFacts DEF TcpInv, LoopInv, Before
  <1>5. DataInv' BY <1>1 DEF TcpInv, DataInv, InHand
  <1> QED BY <1>2, <1>3, <1>4, <1>5 DEF TcpInv

LEMMA AsideSteps ==
    ASSUME TcpInv,
           \/ \E c \in Conns : Arrive(c) \/ AcceptReset(c) \/ Accept(c) \/ NotConnected(c)
           \/ \E f \in Flows : SourceSends(f) \/ SourceEnds(f)
           \/ \E l \in Limits : set_limit(l)
           \/ RemoveRule \/ AcceptFails \/ BackoffEnds \/ Leave
    PROVE  TcpInv'
  <1> USE DEF loops, pipes, ends, sources, quota, relay, served
  <1>1. RestTypes BY Parts
  <1>2. ASSUME NEW c \in Conns, Arrive(c) \/ AcceptReset(c) \/ Accept(c) \/ NotConnected(c)
        PROVE  TcpInv'
    <2>1. /\ UNCHANGED <<acc, broken, loops, pipes, ends, sources, quota, stop>>
          /\ \E to \in {"queued", "connecting", "closed"} : conn' = [conn EXCEPT ![c] = to]
          /\ conn[c] \in Before
      BY <1>2 DEF Arrive, AcceptReset, Accept, NotConnected, Before
    <2>2. PICK to \in {"queued", "connecting", "closed"} : conn' = [conn EXCEPT ![c] = to] BY <2>1
    <2>3. RestTypes' BY <1>1, <2>1, <2>2 DEF RestTypes
    <2>4. \A d \in Conns : conn'[d] = IF d = c THEN to ELSE conn[d] BY <1>1, <2>2 DEF RestTypes
    <2> QED BY <2>1, <2>3, <2>4, Aside DEF Before
  <1>3. ASSUME NEW f \in Flows, SourceSends(f) PROVE TcpInv'
    <2>1. /\ UNCHANGED <<acc, conn, broken, over, loops, pipes, ends, quota, stop>>
          /\ sent' = [sent EXCEPT ![f] = @ + 1]
      BY <1>3 DEF SourceSends
    <2>2. sent' \in [Flows -> Nat] BY <1>1, <2>1 DEF RestTypes
    <2>3. \A g \in Flows : taken[g] <= sent'[g] BY <1>1, <2>1 DEF RestTypes
    <2>4. RestTypes' BY <1>1, <2>1, <2>2, <2>3 DEF RestTypes
    <2> QED BY <2>1, <2>4, Aside
  <1>4. ASSUME NEW f \in Flows, SourceEnds(f) PROVE TcpInv'
    <2>1. /\ UNCHANGED <<acc, conn, broken, sent, loops, pipes, ends, quota, stop>>
          /\ over' = [over EXCEPT ![f] = TRUE]
      BY <1>4 DEF SourceEnds
    <2>4. RestTypes' BY <1>1, <2>1 DEF RestTypes
    <2> QED BY <2>1, <2>4, Aside
  <1>5. ASSUME NEW l \in Limits, set_limit(l) PROVE TcpInv'
    <2>1. /\ UNCHANGED <<acc, conn, broken, sources, loops, pipes, ends, used, stop>>
          /\ limit' = l /\ exhausted' = (used >= l)
      BY <1>5 DEF set_limit
    <2>4. RestTypes' BY <1>1, <2>1 DEF RestTypes
    <2> QED BY <2>1, <2>4, Aside
  <1>6. CASE RemoveRule
    <2>4. RestTypes' BY <1>1, <1>6 DEF RestTypes, RemoveRule
    <2> QED BY <1>6, <2>4, Aside DEF RemoveRule
  <1>7. CASE AcceptFails \/ BackoffEnds
    <2>4. RestTypes' BY <1>1, <1>7 DEF RestTypes, AcceptFails, BackoffEnds
    <2> QED BY <1>7, <2>4, Aside DEF AcceptFails, BackoffEnds
  <1>8. CASE Leave
    <2>1. /\ UNCHANGED served /\ acc' = "gone"
          /\ conn' = [c \in Conns |-> IF conn[c] = "queued" THEN "closed" ELSE conn[c]]
      BY <1>8 DEF Leave
    <2>2. conn' \in [Conns -> {"none", "queued", "connecting", "open", "closed"}]
      BY <1>1, <2>1 DEF RestTypes
    <2>3. RestTypes' BY <1>1, <2>1, <2>2 DEF RestTypes
    <2>4. \A c \in Conns : conn'[c] = IF conn[c] = "queued" THEN "closed" ELSE conn[c] BY <2>1
    <2> QED BY <2>1, <2>3, <2>4, Aside DEF Before
  <1> QED BY <1>2, <1>3, <1>4, <1>5, <1>6, <1>7, <1>8

(* Both loops of a new connection start with nothing in hand. *)
LEMMA ConnectedInv == ASSUME TcpInv, NEW c \in Conns, Connected(c) PROVE TcpInv'
  <1>1. /\ conn[c] = "connecting" /\ conn' = [conn EXCEPT ![c] = "open"]
        /\ fpc' = [f \in Flows |-> IF f[1] = c THEN "read" ELSE fpc[f]]
        /\ UNCHANGED <<acc, broken, sent, over, out, fin, taken, lease, buffered, can_splice, buf,
                       content, capacity, busy, idle, used, limit, exhausted, stop>>
    BY DEF Connected, sources, ends, pipes, quota
  <1>2. PipeTypes /\ RestTypes BY Parts
  <1>3. TypeOK'
    <2>1. fpc' \in [Flows -> {"off", "read", "write", "done"}] BY <1>1, <1>2 DEF RestTypes
    <2>2. RestTypes' BY <1>1, <1>2, <2>1 DEF RestTypes
    <2>3. PipeTypes' BY <1>1, <1>2 DEF PipeTypes
    <2> QED BY <2>2, <2>3, TypeParts
  <1>4. \A d \in Conns : conn'[d] = IF d = c THEN "open" ELSE conn[d] BY <1>1, <1>2 DEF RestTypes
  <1>5. \A f \in Flows : f[1] = c => /\ fpc[f] = "off" /\ lease[f] = NoPipe /\ buf[f] = <<>>
                                     /\ taken[f] = 0 /\ out[f] = <<>> /\ ~fin[f]
    BY <1>1 DEF TcpInv, PipesInv, LoopInv, DataInv
  <1>6. PipesInv' BY <1>1, <1>5 DEF TcpInv, PipesInv
  <1>7. LoopInv' BY <1>1, <1>4, <1>5, FlowFacts DEF TcpInv, LoopInv
  <1>8. DataInv'
    <2>1. Len(<<>>) = 0 BY EmptySeq
    <2> QED BY <1>1, <1>5, <2>1 DEF TcpInv, DataInv, InHand
  <1> QED BY <1>3, <1>6, <1>7, <1>8 DEF TcpInv

(* A connection that ends with its pipes given back. *)
LEMMA Ended ==
    ASSUME TcpInv, NEW c \in Conns, conn[c] = "open", End(c), UNCHANGED <<ends, sources, acc, limit, stop>>,
           broken' \subseteq Conns, used' \in Nat, exhausted' \in BOOLEAN,
           taken' \in [Flows -> Nat],
           \A f \in Flows : /\ taken[f] <= taken'[f] /\ taken'[f] <= sent[f]
                            /\ f \notin FlowsOf(c) => taken'[f] = taken[f],
           PipeTypes', PoolInv', \A f \in FlowsOf(c) : lease'[f] = NoPipe,
           \A f \in Flows \ FlowsOf(c) :
             /\ lease'[f] = lease[f] /\ buffered'[f] = buffered[f]
             /\ lease[f] # NoPipe => content'[lease[f]] = content[lease[f]]
    PROVE  TcpInv'
  <1>1. /\ conn' = [conn EXCEPT ![c] = "closed"]
        /\ fpc' = [f \in Flows |-> IF f[1] = c THEN "off" ELSE fpc[f]]
        /\ buf' = [f \in Flows |-> IF f[1] = c THEN <<>> ELSE buf[f]]
        /\ UNCHANGED <<can_splice, out, fin, sent, over, acc, limit, stop>>
    BY DEF End, ends, sources
  <1>2. PipeTypes /\ RestTypes BY Parts
  <1>3. \A f \in Flows : /\ f[1] = c => fpc'[f] = "off" /\ buf'[f] = <<>> /\ lease'[f] = NoPipe
                         /\ f[1] # c => /\ fpc'[f] = fpc[f] /\ buf'[f] = buf[f]
                                        /\ taken'[f] = taken[f] /\ lease'[f] = lease[f]
                                        /\ buffered'[f] = buffered[f]
                                        /\ lease[f] # NoPipe => content'[lease[f]] = content[lease[f]]
    BY <1>1, FlowFacts
  <1>4. \A d \in Conns : conn'[d] = IF d = c THEN "closed" ELSE conn[d] BY <1>1, <1>2 DEF RestTypes
  <1>5. TypeOK'
    <2>1. fpc' \in [Flows -> {"off", "read", "write", "done"}] BY <1>1, <1>2 DEF RestTypes
    <2>2. buf' \in [Flows -> Seq(Flows \X Nat)]
      <3>1. <<>> \in Seq(Flows \X Nat) BY EmptySeq
      <3> QED BY <1>1, <1>2, <3>1 DEF RestTypes
    <2>3. conn' \in [Conns -> {"none", "queued", "connecting", "open", "closed"}]
      BY <1>1, <1>2 DEF RestTypes
    <2>4. RestTypes' BY <1>1, <1>2, <2>1, <2>2, <2>3 DEF RestTypes
    <2> QED BY <2>4, TypeParts
  <1>6. PipesInv'
    <2>1. \A f \in Flows : lease'[f] # NoPipe =>
            fpc'[f] \in {"read", "write"} /\ buffered'[f] = Len(content'[lease'[f]])
      BY <1>3 DEF TcpInv, PipesInv
    <2> QED BY <2>1, PipesFromPool
  <1>7. LoopInv' BY <1>1, <1>3, <1>4, FlowFacts DEF TcpInv, LoopInv
  <1>8. DataInv'
    <2> SUFFICES ASSUME NEW f \in Flows
                 PROVE  /\ Len(out[f]) <= taken'[f] /\ out[f] = Bytes(f, 0, Len(out[f]))
                        /\ fpc'[f] # "write" \/ lease'[f] # NoPipe => buf'[f] = <<>>
                        /\ fpc'[f] = "read" => Len(out[f]) = taken'[f]
                        /\ fpc'[f] = "read" /\ lease'[f] # NoPipe => content'[lease'[f]] = <<>>
                        /\ fpc'[f] = "write" => InHand(f)' = Bytes(f, Len(out[f]), taken'[f])
      BY <1>1 DEF DataInv, InHand
    <2>1. /\ Len(out[f]) <= taken[f] /\ out[f] = Bytes(f, 0, Len(out[f]))
          /\ Len(out[f]) \in Nat /\ taken[f] \in Nat /\ taken'[f] \in Nat
      BY FlowState
    <2>2. Len(out[f]) <= taken'[f] BY <2>1
    <2>3. CASE f[1] = c BY <1>3, <2>1, <2>2, <2>3
    <2>4. CASE f[1] # c
      <3>1. /\ fpc'[f] = fpc[f] /\ buf'[f] = buf[f] /\ taken'[f] = taken[f] /\ lease'[f] = lease[f]
            /\ lease[f] # NoPipe => content'[lease[f]] = content[lease[f]]
        BY <1>3, <2>4
      <3>2. InHand(f)' = InHand(f) BY <3>1 DEF InHand
      <3> QED BY <2>2, <3>1, <3>2 DEF TcpInv, DataInv
    <2> QED BY <2>3, <2>4
  <1> QED BY <1>5, <1>6, <1>7, <1>8 DEF TcpInv

(* A cut connection: its clean pipes go back, the others are closed. *)
LEMMA CloseInv ==
    ASSUME TcpInv, NEW c \in Conns, NEW w \in Workers, Dropped(c, w) \/ Breaks(c, w)
    PROVE  TcpInv'
  <1>1. /\ conn[c] = "open" /\ End(c) /\ give_back(FlowsOf(c), w)
        /\ UNCHANGED <<ends, sources, acc, taken, used, limit, exhausted, stop>>
        /\ broken' \subseteq Conns
    BY Parts DEF Dropped, Breaks, Close, quota, RestTypes
  <1> DEFINE fs == FlowsOf(c)
             held == PipesOf(fs)
             clean == PipesOf({f \in fs : buffered[f] = 0})
  <1>2. /\ fs \subseteq Flows /\ held \subseteq Pipes /\ clean \subseteq held /\ IsFiniteSet(clean)
    <2>1. {f \in fs : buffered[f] = 0} \in SUBSET FlowsOf(c) /\ fs \in SUBSET FlowsOf(c) OBVIOUS
    <2> QED BY <2>1, FlowFacts, PipesFinite, Parts, TypeParts DEF PipesOf
  <1>3. release(fs, held, clean, w) BY <1>1 DEF give_back
  <1>4. \A f \in fs : lease[f] # NoPipe => lease[f] \in held BY DEF PipesOf
  <1>5. \A f \in Flows : lease[f] \in held => f \in fs
    BY <1>2, Parts DEF PipesOf, PoolInv
  <1>6. \A p \in held : \A v \in Workers \ {w} : p \notin idle[v] BY <1>2, Parts DEF PipesOf, PoolInv
  <1>7. \A p \in clean : content[p] = <<>>
    <2> TAKE p \in clean
    <2>1. PICK f \in fs : buffered[f] = 0 /\ lease[f] = p /\ p # NoPipe BY DEF PipesOf
    <2>2. f \in Flows /\ content[p] \in AnyBytes BY <1>2, <2>1, FlowState
    <2>3. Len(content[p]) = 0 BY <2>1, <2>2 DEF TcpInv, PipesInv
    <2> QED BY <2>2, <2>3, EmptySeq DEF AnyBytes
  <1>8. /\ PipeTypes' /\ PoolInv'
        /\ \A f \in fs : lease'[f] = NoPipe
        /\ \A f \in Flows \ fs :
             /\ lease'[f] = lease[f] /\ buffered'[f] = buffered[f]
             /\ lease[f] # NoPipe => content'[lease[f]] = content[lease[f]]
    <2> HIDE DEF fs, held, clean
    <2> QED BY <1>2, <1>3, <1>4, <1>5, <1>6, <1>7, Released
  <1>9. /\ used' \in Nat /\ exhausted' \in BOOLEAN /\ taken' \in [Flows -> Nat]
        /\ \A f \in Flows : taken[f] <= taken'[f] /\ taken'[f] <= sent[f] /\ taken'[f] = taken[f]
    BY <1>1, Parts DEF RestTypes
  <1> QED BY <1>1, <1>8, <1>9, Ended

-----------------------------------------------------------------------------
(***************************************************************************)
(* copy_counted.                                                           *)
(***************************************************************************)
(* A read returns no more than the source has sent. *)
LEMMA AmountFacts ==
    ASSUME TcpInv, NEW f \in Flows, NEW p \in Pipes \cup {NoPipe}, NEW n \in Amounts(f, p)
    PROVE  n \in Nat /\ 1 <= n /\ taken[f] + n <= sent[f]
  <1>1. taken[f] \in Nat /\ sent[f] \in Nat /\ taken[f] <= sent[f] BY FlowState
  <1>2. PICK k \in Int : k = IF p = NoPipe THEN Small ELSE capacity[p]
    BY Parts, BoundsAssumption DEF PipeTypes
  <1>3. PICK m \in Int : m = sent[f] - taken[f] BY <1>1
  <1>4. n \in 1..Min({m, k}) BY <1>2, <1>3 DEF Amounts
  <1>5. Min({m, k}) \in {m, k} /\ Min({m, k}) <= m BY MinOfTwo
  <1>6. Min({m, k}) \in Int BY <1>5
  <1> QED BY <1>1, <1>3, <1>4, <1>5, <1>6

(* The bytes read are the next ones, into the loop's pipe or its buffer. *)
LEMMA ReadInv == ASSUME TcpInv, NEW f \in Flows, NEW w \in Workers, Read(f, w) PROVE TcpInv'
  <1> DEFINE Reads(p, n) ==
         /\ used' = used + n
         /\ lease' = [lease EXCEPT ![f] = p]
         /\ can_splice' = [can_splice EXCEPT ![f] = (p # NoPipe)]
         /\ idle' = [idle EXCEPT ![w] = @ \ {p}]
         /\ taken' = [taken EXCEPT ![f] = @ + n]
         /\ \/ /\ p # NoPipe /\ fill_from(p, Bytes(f, taken[f], taken[f] + n))
               /\ buffered' = [buffered EXCEPT ![f] = n] /\ UNCHANGED buf
            \/ /\ p = NoPipe /\ buf' = [buf EXCEPT ![f] = Bytes(f, taken[f], taken[f] + n)]
               /\ UNCHANGED <<content, capacity, busy, buffered>>
  <1>0. PICK p \in Leased(f, w) : \E n \in Amounts(f, p) : Reads(p, n) BY DEF Read, Counted
  <1>1. PICK n \in Amounts(f, p) : Reads(p, n) BY <1>0
  <1>2. /\ conn[f[1]] = "open" /\ fpc[f] = "read" /\ fpc' = [fpc EXCEPT ![f] = "write"]
        /\ UNCHANGED <<acc, conn, broken, sent, over, out, fin, limit, exhausted, stop>>
    BY DEF Read, Readable, sources, ends
  <1>3. PipeTypes /\ RestTypes /\ PoolInv BY Parts
  <1>4. /\ p \in Pipes \cup {NoPipe}
        /\ lease[f] # NoPipe => p = lease[f]
        /\ p # NoPipe => /\ content[p] = <<>>
                         /\ \A g \in Flows : lease[g] = p => g = f
                         /\ \A v \in Workers \ {w} : p \notin idle[v]
    BY <1>2, LeasedFacts
  <1>5. /\ n \in Nat /\ taken[f] \in Nat /\ sent[f] \in Nat /\ taken[f] + n <= sent[f]
        /\ Len(out[f]) = taken[f] /\ buf[f] = <<>>
    BY <1>2, <1>4, AmountFacts, FlowState DEF TcpInv, DataInv
  <1>6. PICK bytes \in AnyBytes : bytes = Bytes(f, taken[f], taken[f] + n) /\ Len(bytes) = n
    <2>1. taken[f] \in Nat /\ n \in Nat BY <1>5
    <2>2. Bytes(f, taken[f], taken[f] + n) \in AnyBytes /\ Len(Bytes(f, taken[f], taken[f] + n)) = n
      BY ONLY <2>1, NextBytes, f \in Flows
    <2> QED BY <2>2
  <1>7. /\ lease'[f] = p /\ taken'[f] = taken[f] + n /\ fpc'[f] = "write"
        /\ \A g \in Flows \ {f} : lease'[g] = lease[g] /\ taken'[g] = taken[g] /\ fpc'[g] = fpc[g]
        /\ idle'[w] = idle[w] \ {p} /\ \A v \in Workers \ {w} : idle'[v] = idle[v]
    BY <1>1, <1>2, <1>3 DEF PipeTypes, RestTypes
  <1>8. CASE p # NoPipe
    <2>1. p \in Pipes BY <1>4, <1>8
    <2>2. /\ content' = [content EXCEPT ![p] = bytes] /\ buf' = buf
          /\ buffered' = [buffered EXCEPT ![f] = n]
          /\ busy' = [busy EXCEPT ![p] = Min({@ + 1, GrowAfter + 1})]
          /\ capacity' = capacity \/ capacity' = [capacity EXCEPT ![p] = Big]
      <3>1. content[p] \o bytes = bytes BY <1>4, <1>6, <1>8, ConcatEmptySeq DEF AnyBytes
      <3> QED BY <1>1, <1>6, <1>8, <3>1 DEF fill_from
    <2>3. /\ content'[p] = bytes /\ \A q \in Pipes \ {p} : content'[q] = content[q]
          /\ buffered'[f] = n /\ \A g \in Flows \ {f} : buffered'[g] = buffered[g]
      BY <1>3, <2>1, <2>2 DEF PipeTypes
    <2>4. PipeTypes'
      <3>1. lease' \in [Flows -> Pipes \cup {NoPipe}] /\ idle' \in [Workers -> SUBSET Pipes]
        BY <1>1, <1>3, <1>4 DEF PipeTypes
      <3>2. content' \in [Pipes -> Seq(Flows \X Nat)] /\ buffered' \in [Flows -> Nat]
        BY <1>3, <1>5, <1>6, <2>2 DEF PipeTypes, AnyBytes
      <3>3. capacity' \in [Pipes -> {Small, Big}] BY <1>3, <2>2 DEF PipeTypes
      <3>4. busy' \in [Pipes -> 0..(GrowAfter + 1)]
        <4>1. busy[p] \in 0..(GrowAfter + 1) /\ GrowAfter \in Nat
          BY <1>3, <2>1, BoundsAssumption DEF PipeTypes
        <4>2. PICK a \in Int : a = busy[p] + 1 /\ a >= 0 BY <4>1
        <4>3. PICK b \in Int : b = GrowAfter + 1 /\ b >= 0 BY <4>1
        <4>4. Min({a, b}) \in {a, b} /\ Min({a, b}) <= b BY MinOfTwo
        <4>5. Min({busy[p] + 1, GrowAfter + 1}) \in 0..(GrowAfter + 1) BY <4>2, <4>3, <4>4
        <4> QED BY <1>3, <2>2, <4>5 DEF PipeTypes
      <3> QED BY <3>1, <3>2, <3>3, <3>4 DEF PipeTypes
    <2>5. RestTypes'
      <3>1. taken' \in [Flows -> Nat] /\ \A g \in Flows : taken'[g] <= sent[g]
        BY <1>1, <1>3, <1>5, <1>7 DEF RestTypes
      <3>2. fpc' \in [Flows -> {"off", "read", "write", "done"}]
            /\ can_splice' \in [Flows -> BOOLEAN] /\ used' \in Nat
        BY <1>1, <1>2, <1>3, <1>5 DEF RestTypes
      <3> QED BY <1>2, <1>3, <2>2, <3>1, <3>2 DEF RestTypes
    <2>6. PoolInv'
      <3>1. \A v \in Workers : IsFiniteSet(idle'[v]) /\ Cardinality(idle'[v]) <= MaxIdle
        <4>1. IsFiniteSet(idle[w] \ {p}) /\ Cardinality(idle[w] \ {p}) <= Cardinality(idle[w])
          BY <1>3, FS_Subset DEF PoolInv
        <4>2. /\ Cardinality(idle[w] \ {p}) \in Nat /\ Cardinality(idle[w]) \in Nat
              /\ Cardinality(idle[w]) <= MaxIdle /\ MaxIdle \in Nat
          BY <1>3, <4>1, FS_CardinalityType, BoundsAssumption DEF PoolInv
        <4>3. Cardinality(idle[w] \ {p}) <= MaxIdle BY <4>1, <4>2
        <4> QED BY <1>3, <1>7, <4>1, <4>3 DEF PoolInv
      <3>2. \A v \in Workers : \A g \in Flows : lease'[g] \notin idle'[v]
        BY <1>3, <1>4, <1>7, <1>8 DEF PoolInv
      <3>3. \A u, v \in Workers : u # v => idle'[u] \cap idle'[v] = {} BY <1>3, <1>7 DEF PoolInv
      <3>4. \A g, h \in Flows : g # h /\ lease'[g] = lease'[h] => lease'[g] = NoPipe
        BY <1>3, <1>4, <1>7, <1>8 DEF PoolInv
      <3>5. ASSUME NEW q \in Pipes, \A g \in Flows : lease'[g] # q PROVE content'[q] = <<>>
        <4>1. q # p BY <1>7, <3>5
        <4>2. lease[f] # q BY <1>4, <4>1, PipesAssumption
        <4>3. \A g \in Flows : lease[g] # q BY <1>7, <3>5, <4>2
        <4> QED BY <1>3, <2>3, <4>1, <4>3 DEF PoolInv
      <3> QED BY <3>1, <3>2, <3>3, <3>4, <3>5 DEF PoolInv
    <2>7. \A g \in Flows \ {f} : lease[g] # NoPipe => lease[g] \in Pipes /\ content'[lease[g]] = content[lease[g]]
      BY <1>3, <1>4, <2>3 DEF PipeTypes
    <2>8. PipesInv'
      <3>1. \A g \in Flows : lease'[g] # NoPipe =>
              fpc'[g] \in {"read", "write"} /\ buffered'[g] = Len(content'[lease'[g]])
        BY <1>6, <1>7, <2>3, <2>7 DEF TcpInv, PipesInv
      <3> QED BY <2>6, <3>1, PipesFromPool
    <2>9. LoopInv' BY <1>2, <1>7 DEF TcpInv, LoopInv
    <2>10. DataInv'
      <3> SUFFICES ASSUME NEW g \in Flows
                   PROVE  /\ Len(out[g]) <= taken'[g] /\ out[g] = Bytes(g, 0, Len(out[g]))
                          /\ fpc'[g] # "write" \/ lease'[g] # NoPipe => buf[g] = <<>>
                          /\ fpc'[g] = "read" => Len(out[g]) = taken'[g]
                          /\ fpc'[g] = "read" /\ lease'[g] # NoPipe => content'[lease'[g]] = <<>>
                          /\ fpc'[g] = "write" => InHand(g)' = Bytes(g, Len(out[g]), taken'[g])
        BY <1>2, <2>2 DEF DataInv, InHand
      <3>1. CASE g = f
        <4>1. InHand(f)' = bytes BY <1>7, <1>8, <2>3 DEF InHand
        <4>2. out[f] = Bytes(f, 0, Len(out[f])) BY FlowState
        <4> QED BY <1>5, <1>6, <1>7, <3>1, <4>1, <4>2
      <3>2. CASE g # f
        <4>1. InHand(g)' = InHand(g) BY <1>7, <2>2, <2>7, <3>2 DEF InHand
        <4> QED BY <1>7, <2>7, <3>2, <4>1 DEF TcpInv, DataInv
      <3> QED BY <3>1, <3>2
    <2> QED BY <2>4, <2>5, <2>8, <2>9, <2>10, TypeParts DEF TcpInv
  <1>9. CASE p = NoPipe
    <2>1. /\ buf' = [buf EXCEPT ![f] = bytes] /\ UNCHANGED <<content, capacity, busy, buffered>>
          /\ lease[f] = NoPipe /\ lease' = lease
      BY <1>1, <1>3, <1>4, <1>6, <1>9 DEF PipeTypes
    <2>2. \A v \in Workers : idle'[v] = idle[v]
      <3>1. NoPipe \notin idle[w] BY <1>3, PipesAssumption DEF PipeTypes
      <3>2. idle[w] \ {NoPipe} = idle[w] BY <3>1
      <3> QED BY <1>7, <1>9, <3>2
    <2>3. idle' \in [Workers -> SUBSET Pipes] BY <1>1, <1>3 DEF PipeTypes
    <2>4. PipeTypes' BY <1>3, <2>1, <2>3 DEF PipeTypes
    <2>5. RestTypes'
      <3>1. taken' \in [Flows -> Nat] /\ \A g \in Flows : taken'[g] <= sent[g]
        BY <1>1, <1>3, <1>5, <1>7 DEF RestTypes
      <3>2. fpc' \in [Flows -> {"off", "read", "write", "done"}]
            /\ can_splice' \in [Flows -> BOOLEAN] /\ used' \in Nat
        BY <1>1, <1>2, <1>3, <1>5 DEF RestTypes
      <3>3. buf' \in [Flows -> Seq(Flows \X Nat)] BY <1>3, <1>6, <2>1 DEF RestTypes, AnyBytes
      <3> QED BY <1>2, <1>3, <3>1, <3>2, <3>3 DEF RestTypes
    <2>6. PipesInv'
      <3>1. PoolInv' BY <1>3, <2>1, <2>2 DEF PoolInv
      <3>2. \A g \in Flows : lease'[g] # NoPipe =>
              fpc'[g] \in {"read", "write"} /\ buffered'[g] = Len(content'[lease'[g]])
        BY <1>7, <2>1 DEF TcpInv, PipesInv
      <3> QED BY <3>1, <3>2, PipesFromPool
    <2>7. LoopInv' BY <1>2, <1>7 DEF TcpInv, LoopInv
    <2>8. buf'[f] = bytes /\ \A g \in Flows \ {f} : buf'[g] = buf[g] BY <1>3, <2>1 DEF RestTypes
    <2>9. DataInv'
      <3> SUFFICES ASSUME NEW g \in Flows
                   PROVE  /\ Len(out[g]) <= taken'[g] /\ out[g] = Bytes(g, 0, Len(out[g]))
                          /\ fpc'[g] # "write" \/ lease'[g] # NoPipe => buf'[g] = <<>>
                          /\ fpc'[g] = "read" => Len(out[g]) = taken'[g]
                          /\ fpc'[g] = "read" /\ lease'[g] # NoPipe => content'[lease'[g]] = <<>>
                          /\ fpc'[g] = "write" => InHand(g)' = Bytes(g, Len(out[g]), taken'[g])
        BY <1>2 DEF DataInv, InHand
      <3>1. CASE g = f
        <4>1. InHand(f)' = bytes BY <2>1, <2>8 DEF InHand
        <4>2. out[f] = Bytes(f, 0, Len(out[f])) BY FlowState
        <4> QED BY <1>5, <1>6, <1>7, <2>1, <3>1, <4>1, <4>2
      <3>2. CASE g # f
        <4>1. InHand(g)' = InHand(g) BY <2>1, <2>8, <3>2 DEF InHand
        <4> QED BY <1>7, <2>1, <2>8, <3>2, <4>1 DEF TcpInv, DataInv
      <3> QED BY <3>1, <3>2
    <2> QED BY <2>4, <2>5, <2>6, <2>7, <2>9, TypeParts DEF TcpInv
  <1> QED BY <1>8, <1>9

(* The read that the quota refuses ends the connection; its pipe is closed. *)
LEMMA ReadRefusedInv ==
    ASSUME TcpInv, NEW f \in Flows, NEW w \in Workers, ReadRefused(f, w)
    PROVE  TcpInv'
  <1> DEFINE c == f[1]
             fs == FlowsOf(c)
             clean == PipesOf({g \in fs \ {f} : buffered[g] = 0})
             held(p) == PipesOf(fs) \cup ({p} \ {NoPipe})
             Refuses(p, n) == /\ used' = IF exhausted THEN used ELSE used + n
                              /\ taken' = [taken EXCEPT ![f] = @ + n]
                              /\ release(fs, held(p), clean, w)
  <1>1. PICK p \in Leased(f, w) : \E n \in Amounts(f, p) : Refuses(p, n) BY DEF ReadRefused, Counted
  <1>2. PICK n \in Amounts(f, p) : Refuses(p, n) BY <1>1
  <1>3. /\ conn[c] = "open" /\ fpc[f] = "read" /\ exhausted' = TRUE /\ End(c)
        /\ UNCHANGED <<ends, sources, acc, limit, stop>> /\ broken' = broken
    BY DEF ReadRefused, Readable
  <1>4. PipeTypes /\ RestTypes /\ PoolInv BY Parts
  <1>5. /\ p \in Pipes \cup {NoPipe}
        /\ lease[f] # NoPipe => p = lease[f]
        /\ p # NoPipe => /\ \A g \in Flows : lease[g] = p => g = f
                         /\ \A v \in Workers \ {w} : p \notin idle[v]
    BY <1>3, LeasedFacts
  <1>6. n \in Nat /\ taken[f] \in Nat /\ taken[f] + n <= sent[f] BY <1>5, AmountFacts, FlowState
  <1>7. c \in Conns /\ fs \subseteq Flows /\ f \in fs BY FlowFacts
  <1>8. /\ PipesOf(fs) \subseteq Pipes /\ clean \subseteq PipesOf(fs) /\ IsFiniteSet(clean)
    <2>1. {g \in fs \ {f} : buffered[g] = 0} \in SUBSET FlowsOf(c) /\ fs \in SUBSET FlowsOf(c) OBVIOUS
    <2> QED BY <1>4, <1>7, <2>1, PipesFinite, TypeParts DEF PipesOf
  <1>9. held(p) \subseteq Pipes /\ clean \subseteq held(p) BY <1>5, <1>8
  <1>10. \A g \in fs : lease[g] # NoPipe => lease[g] \in held(p) BY DEF PipesOf
  <1>11. \A g \in Flows : lease[g] \in held(p) => g \in fs
    <2> TAKE g \in Flows
    <2> HAVE lease[g] \in held(p)
    <2>1. CASE lease[g] \in PipesOf(fs) BY <1>4, <1>7, <2>1 DEF PipesOf, PoolInv
    <2>2. CASE lease[g] = p /\ p # NoPipe BY <1>5, <1>7, <2>2
    <2> QED BY <2>1, <2>2
  <1>12. \A q \in held(p) : \A v \in Workers \ {w} : q \notin idle[v]
    BY <1>4, <1>5, <1>7 DEF PipesOf, PoolInv
  <1>13. \A q \in clean : content[q] = <<>>
    <2> TAKE q \in clean
    <2>1. PICK g \in fs : buffered[g] = 0 /\ lease[g] = q /\ q # NoPipe BY DEF PipesOf
    <2>2. g \in Flows /\ content[q] \in AnyBytes BY <1>7, <2>1, FlowState
    <2>3. Len(content[q]) = 0 BY <2>1, <2>2 DEF TcpInv, PipesInv
    <2> QED BY <2>2, <2>3, EmptySeq DEF AnyBytes
  <1>14. /\ PipeTypes' /\ PoolInv'
         /\ \A g \in fs : lease'[g] = NoPipe
         /\ \A g \in Flows \ fs :
              /\ lease'[g] = lease[g] /\ buffered'[g] = buffered[g]
              /\ lease[g] # NoPipe => content'[lease[g]] = content[lease[g]]
    <2>1. PICK h \in SUBSET Pipes : h = held(p) BY <1>9
    <2>2. release(fs, h, clean, w) BY <1>2, <2>1
    <2>3. clean \in SUBSET h BY <1>9, <2>1
    <2>4. \A g \in fs : lease[g] # NoPipe => lease[g] \in h BY <1>10, <2>1
    <2>5. \A g \in Flows : lease[g] \in h => g \in fs BY <1>11, <2>1
    <2>6. \A q \in h : \A v \in Workers \ {w} : q \notin idle[v] BY <1>12, <2>1
    <2> HIDE DEF held, clean, fs
    <2> QED BY <1>7, <1>8, <1>13, <2>2, <2>3, <2>4, <2>5, <2>6, Released
  <1>15. /\ taken' \in [Flows -> Nat] /\ used' \in Nat /\ exhausted' \in BOOLEAN
         /\ broken' \subseteq Conns
    BY <1>2, <1>3, <1>4, <1>6 DEF RestTypes
  <1>16. \A g \in Flows : /\ taken[g] <= taken'[g] /\ taken'[g] <= sent[g]
                          /\ g \notin FlowsOf(c) => taken'[g] = taken[g]
    <2> TAKE g \in Flows
    <2>1. CASE g = f
      <3>1. taken'[f] = taken[f] + n BY <1>2, <1>4 DEF RestTypes
      <3> QED BY <1>6, <1>7, <2>1, <3>1
    <2>2. CASE g # f
      <3>1. taken'[g] = taken[g] BY <1>2, <1>4, <2>2 DEF RestTypes
      <3> QED BY <3>1, FlowState
    <2> QED BY <2>1, <2>2
  <1> QED BY <1>3, <1>7, <1>14, <1>15, <1>16, Ended

(* Writing moves bytes from the hand to the other end, in order. *)
LEMMA WriteInv == ASSUME TcpInv, NEW f \in Flows, Write(f) PROVE TcpInv'
  <1> DEFINE left(n) == SubSeq(InHand(f), n + 1, Len(InHand(f)))
  <1>1. PICK n \in 1..Len(InHand(f)) :
         /\ out' = [out EXCEPT ![f] = @ \o SubSeq(InHand(f), 1, n)]
         /\ fpc' = [fpc EXCEPT ![f] = IF left(n) = <<>> THEN "read" ELSE "write"]
         /\ \/ /\ lease[f] # NoPipe /\ content' = [content EXCEPT ![lease[f]] = left(n)]
               /\ buffered' = [buffered EXCEPT ![f] = @ - n] /\ UNCHANGED buf
            \/ /\ lease[f] = NoPipe /\ buf' = [buf EXCEPT ![f] = left(n)]
               /\ UNCHANGED <<content, buffered>>
    BY DEF Write
  <1>2. /\ conn[f[1]] = "open" /\ fpc[f] = "write"
        /\ UNCHANGED <<acc, conn, broken, sent, over, fin, taken, lease, can_splice, capacity, busy, idle,
                       used, limit, exhausted, stop>>
    BY DEF Write, sources, quota
  <1>3. PipeTypes /\ RestTypes /\ PoolInv BY Parts
  <1>4. PICK a \in Nat, b \in Nat :
          /\ a = Len(out[f]) /\ b = taken[f] /\ a <= b /\ out[f] = Bytes(f, 0, a)
          /\ InHand(f) = Bytes(f, a, b) /\ Len(InHand(f)) = b - a
    <2>1. PICK a \in Nat : a = Len(out[f]) BY FlowState
    <2>2. PICK b \in Nat : b = taken[f] BY FlowState
    <2>3. a <= b /\ out[f] = Bytes(f, 0, a) BY <2>1, <2>2, FlowState
    <2>4. InHand(f) = Bytes(f, a, b) BY <1>2, <2>1, <2>2 DEF TcpInv, DataInv
    <2>5. Len(Bytes(f, a, b)) = b - a BY <2>3, BytesFacts
    <2> QED BY <2>1, <2>2, <2>3, <2>4, <2>5
  <1>5. n \in 1..(b - a) BY <1>1, <1>4
  <1>6. PICK d \in Nat : d = a + n /\ a <= d /\ d <= b /\ d # a BY <1>5
  <1>7. SubSeq(InHand(f), 1, n) = Bytes(f, a, d) /\ left(n) = Bytes(f, d, b)
    <2>1. a <= b BY <1>4
    <2>2. /\ SubSeq(Bytes(f, a, b), 1, n) = Bytes(f, a, a + n)
          /\ SubSeq(Bytes(f, a, b), n + 1, b - a) = Bytes(f, a + n, b)
      BY <1>5, <2>1, BytesCut
    <2> QED BY <1>4, <1>6, <2>2
  <1>8. /\ Bytes(f, 0, a) \o Bytes(f, a, d) = Bytes(f, 0, d)
        /\ Bytes(f, 0, d) \in AnyBytes /\ Len(Bytes(f, 0, d)) = d
        /\ Bytes(f, d, b) \in AnyBytes /\ Len(Bytes(f, d, b)) = b - d
        /\ Bytes(f, d, b) = <<>> <=> d = b
    <2>1. 0 <= a /\ 0 <= d /\ d - 0 = d OBVIOUS
    <2>2. Bytes(f, 0, a) \o Bytes(f, a, d) = Bytes(f, 0, d) BY <1>6, <2>1, BytesJoin
    <2>3. Bytes(f, 0, d) \in AnyBytes /\ Len(Bytes(f, 0, d)) = d - 0
      <3>1. PICK z \in Nat : z = 0 /\ z <= d OBVIOUS
      <3>2. Bytes(f, z, d) \in AnyBytes /\ Len(Bytes(f, z, d)) = d - z
        <4>1. z <= d BY <3>1
        <4> QED BY ONLY f \in Flows, z \in Nat, d \in Nat, <4>1, BytesFacts
      <3> QED BY <3>1, <3>2
    <2>4. d <= b BY <1>6
    <2>5. /\ Bytes(f, d, b) \in AnyBytes /\ Len(Bytes(f, d, b)) = b - d
          /\ Bytes(f, d, b) = <<>> <=> d = b
      BY <2>4, BytesFacts
    <2> QED BY <2>1, <2>2, <2>3, <2>5
  <1> HIDE DEF left
  <1>9. /\ out'[f] = Bytes(f, 0, d) /\ \A g \in Flows \ {f} : out'[g] = out[g]
        /\ out' \in [Flows -> Seq(Flows \X Nat)]
    <2>1. out' = [out EXCEPT ![f] = out[f] \o SubSeq(InHand(f), 1, n)] BY <1>1
    <2>2. out' = [out EXCEPT ![f] = Bytes(f, 0, d)] BY <1>4, <1>7, <1>8, <2>1
    <2> QED BY <1>3, <1>8, <2>2 DEF RestTypes, AnyBytes
  <1>10. /\ fpc'[f] = IF d = b THEN "read" ELSE "write"
         /\ \A g \in Flows \ {f} : fpc'[g] = fpc[g]
         /\ fpc' \in [Flows -> {"off", "read", "write", "done"}]
    BY <1>1, <1>3, <1>7, <1>8 DEF RestTypes
  <1>11. LoopInv'
    <2> DEFINE Loops(g) ==
          /\ fpc[g] = "off" <=> conn[g[1]] # "open"
          /\ conn[g[1]] = "open" => (fin[g] <=> fpc[g] = "done")
          /\ conn[g[1]] \in {"none", "queued", "connecting"} =>
               taken[g] = 0 /\ out[g] = <<>> /\ ~fin[g]
    <2>1. \A g \in Flows : Loops(g) BY DEF TcpInv, LoopInv
    <2>2. /\ conn' = conn /\ fin' = fin /\ taken' = taken BY <1>2
    <2>3. ASSUME NEW g \in Flows PROVE Loops(g)'
      <3>1. CASE g = f
        <4>1. fpc'[f] # "off" /\ fpc'[f] # "done" BY <1>10
        <4>2. ~fin[f] BY <1>2, <2>1
        <4> QED BY <1>2, <2>2, <3>1, <4>1, <4>2
      <3>2. CASE g # f
        <4>1. out'[g] = out[g] /\ fpc'[g] = fpc[g] BY <1>9, <1>10, <3>2
        <4>2. Loops(g) BY <2>1
        <4> QED BY <2>2, <4>1, <4>2
      <3> QED BY <3>1, <3>2
    <2> HIDE DEF Loops
    <2>4. (\A g \in Flows : Loops(g))' BY <2>3
    <2> QED BY <2>4 DEF LoopInv, Loops
  <1>12. CASE lease[f] # NoPipe
    <2>1. /\ content' = [content EXCEPT ![lease[f]] = left(n)] /\ buf' = buf
          /\ buffered' = [buffered EXCEPT ![f] = @ - n]
      BY <1>1, <1>12
    <2>2. lease[f] \in Pipes /\ InHand(f) = content[lease[f]] BY <1>3, <1>12 DEF PipeTypes, InHand
    <2>3. buffered[f] = b - a BY <1>4, <1>12, <2>2 DEF TcpInv, PipesInv
    <2>4. /\ content'[lease[f]] = Bytes(f, d, b)
          /\ \A q \in Pipes \ {lease[f]} : content'[q] = content[q]
          /\ buffered'[f] = b - d /\ \A g \in Flows \ {f} : buffered'[g] = buffered[g]
      <3>1. (b - a) - n = b - d BY <1>5, <1>6
      <3> QED BY <1>3, <1>7, <2>1, <2>2, <2>3, <3>1 DEF PipeTypes
    <2>5. \A g \in Flows \ {f} : lease[g] # NoPipe =>
                  lease[g] \in Pipes /\ content'[lease[g]] = content[lease[g]]
      BY <1>3, <1>12, <2>4 DEF PipeTypes, PoolInv
    <2>6. TypeOK'
      <3>1. content' \in [Pipes -> Seq(Flows \X Nat)] BY <1>3, <1>7, <1>8, <2>1 DEF PipeTypes, AnyBytes
      <3>2. buffered' \in [Flows -> Nat]
        <4>1. buffered[f] - n \in Nat BY <1>5, <2>3
        <4> QED BY <1>3, <2>1, <4>1 DEF PipeTypes
      <3>3. PipeTypes' BY <1>2, <1>3, <3>1, <3>2 DEF PipeTypes
      <3>4. RestTypes' BY <1>2, <1>3, <1>9, <1>10, <2>1 DEF RestTypes
      <3> QED BY <3>3, <3>4, TypeParts
    <2>7. PipesInv'
      <3>1. \A p \in Pipes : (\A g \in Flows : lease'[g] # p) => content'[p] = <<>>
        BY <1>2, <1>3, <2>4 DEF PoolInv
      <3>2. PoolInv' BY <1>2, <1>3, <3>1 DEF PoolInv
      <3>3. \A g \in Flows : lease'[g] # NoPipe =>
              fpc'[g] \in {"read", "write"} /\ buffered'[g] = Len(content'[lease'[g]])
        <4> TAKE g \in Flows
        <4>1. lease' = lease BY <1>2
        <4>2. lease[g] # NoPipe => fpc[g] \in {"read", "write"} /\ buffered[g] = Len(content[lease[g]])
          BY DEF TcpInv, PipesInv
        <4>3. CASE g = f
          <5>1. fpc'[f] \in {"read", "write"} BY <1>10
          <5>2. buffered'[f] = Len(content'[lease[f]]) BY <1>8, <2>4
          <5> QED BY <4>1, <4>3, <5>1, <5>2
        <4>4. CASE g # f
          <5>1. fpc'[g] = fpc[g] /\ buffered'[g] = buffered[g] BY <1>10, <2>4, <4>4
          <5>2. lease[g] # NoPipe => content'[lease[g]] = content[lease[g]] BY <2>5, <4>4
          <5> QED BY <4>1, <4>2, <5>1, <5>2
        <4> QED BY <4>3, <4>4
      <3> QED BY <3>2, <3>3, PipesFromPool
    <2>8. DataInv'
      <3> SUFFICES ASSUME NEW g \in Flows
                   PROVE  /\ Len(out'[g]) <= taken[g] /\ out'[g] = Bytes(g, 0, Len(out'[g]))
                          /\ fpc'[g] # "write" \/ lease[g] # NoPipe => buf[g] = <<>>
                          /\ fpc'[g] = "read" => Len(out'[g]) = taken[g]
                          /\ fpc'[g] = "read" /\ lease[g] # NoPipe => content'[lease[g]] = <<>>
                          /\ fpc'[g] = "write" => InHand(g)' = Bytes(g, Len(out'[g]), taken[g])
        BY <1>2, <2>1 DEF DataInv, InHand
      <3>1. CASE g = f
        <4>1. InHand(f)' = Bytes(f, d, b) BY <1>2, <1>12, <2>4 DEF InHand
        <4>2. buf[f] = <<>> BY <1>12 DEF TcpInv, DataInv
        <4> QED BY <1>4, <1>6, <1>8, <1>9, <1>10, <2>4, <3>1, <4>1, <4>2
      <3>2. CASE g # f
        <4>1. InHand(g)' = InHand(g) BY <1>2, <2>1, <2>5, <3>2 DEF InHand
        <4> QED BY <1>9, <1>10, <2>5, <3>2, <4>1 DEF TcpInv, DataInv
      <3> QED BY <3>1, <3>2
    <2> QED BY <1>11, <2>6, <2>7, <2>8 DEF TcpInv
  <1>13. CASE lease[f] = NoPipe
    <2>1. buf' = [buf EXCEPT ![f] = left(n)] /\ UNCHANGED <<content, buffered>> BY <1>1, <1>13
    <2>2. /\ buf'[f] = Bytes(f, d, b) /\ \A g \in Flows \ {f} : buf'[g] = buf[g]
          /\ buf' \in [Flows -> Seq(Flows \X Nat)]
      BY <1>3, <1>7, <1>8, <2>1 DEF RestTypes, AnyBytes
    <2>3. TypeOK'
      <3>3. PipeTypes' BY <1>2, <1>3, <2>1 DEF PipeTypes
      <3>4. RestTypes' BY <1>2, <1>3, <1>9, <1>10, <2>2 DEF RestTypes
      <3> QED BY <3>3, <3>4, TypeParts
    <2>4. PipesInv'
      <3>2. PoolInv' BY <1>2, <1>3, <2>1 DEF PoolInv
      <3>3. \A g \in Flows : lease'[g] # NoPipe =>
              fpc'[g] \in {"read", "write"} /\ buffered'[g] = Len(content'[lease'[g]])
        BY <1>2, <1>10, <2>1 DEF TcpInv, PipesInv
      <3> QED BY <3>2, <3>3, PipesFromPool
    <2>5. DataInv'
      <3> SUFFICES ASSUME NEW g \in Flows
                   PROVE  /\ Len(out'[g]) <= taken[g] /\ out'[g] = Bytes(g, 0, Len(out'[g]))
                          /\ fpc'[g] # "write" \/ lease[g] # NoPipe => buf'[g] = <<>>
                          /\ fpc'[g] = "read" => Len(out'[g]) = taken[g]
                          /\ fpc'[g] = "read" /\ lease[g] # NoPipe => content[lease[g]] = <<>>
                          /\ fpc'[g] = "write" => InHand(g)' = Bytes(g, Len(out'[g]), taken[g])
        BY <1>2, <2>1 DEF DataInv, InHand
      <3>1. CASE g = f
        <4>1. InHand(f)' = Bytes(f, d, b) BY <1>2, <1>13, <2>2 DEF InHand
        <4> QED BY <1>4, <1>6, <1>8, <1>9, <1>10, <1>13, <2>2, <3>1, <4>1
      <3>2. CASE g # f
        <4>1. InHand(g)' = InHand(g) BY <1>2, <2>1, <2>2, <3>2 DEF InHand
        <4> QED BY <1>9, <1>10, <2>2, <3>2, <4>1 DEF TcpInv, DataInv
      <3> QED BY <3>1, <3>2
    <2> QED BY <1>11, <2>3, <2>4, <2>5 DEF TcpInv
  <1> QED BY <1>12, <1>13

(* A read that returns nothing leaves its loop without a pipe. *)
LEMMA GivenBack ==
    ASSUME TcpInv, NEW f \in Flows, fpc[f] = "read", NEW w \in Workers, give_back_unused(f, w)
    PROVE  /\ PipeTypes' /\ PoolInv'
           /\ lease'[f] = NoPipe
           /\ \A g \in Flows \ {f} :
                /\ lease'[g] = lease[g] /\ buffered'[g] = buffered[g]
                /\ lease[g] # NoPipe => content'[lease[g]] = content[lease[g]]
  <1>1. PICK p \in Leased(f, w) : release({f}, {p} \ {NoPipe}, {p} \ {NoPipe}, w)
    BY DEF give_back_unused
  <1>2. /\ p \in Pipes \cup {NoPipe}
        /\ lease[f] # NoPipe => p = lease[f]
        /\ p # NoPipe => /\ content[p] = <<>>
                         /\ \A g \in Flows : lease[g] = p => g = f
                         /\ \A v \in Workers \ {w} : p \notin idle[v]
    BY LeasedFacts
  <1>3. PICK held \in SUBSET Pipes : held = {p} \ {NoPipe} BY <1>2
  <1>4. IsFiniteSet(held)
    <2>1. IsFiniteSet({p}) /\ held \in SUBSET {p} BY <1>3, FS_Singleton
    <2> QED BY <2>1, FS_Subset
  <1>5. release({f}, held, held, w) BY <1>1, <1>3
  <1>6. /\ \A g \in {f} : lease[g] # NoPipe => lease[g] \in held
        /\ \A g \in Flows : lease[g] \in held => g \in {f}
        /\ \A q \in held : \A v \in Workers \ {w} : q \notin idle[v]
        /\ \A q \in held : content[q] = <<>>
    BY <1>2, <1>3
  <1>7. {f} \in SUBSET Flows /\ held \in SUBSET held OBVIOUS
  <1>8. /\ PipeTypes' /\ PoolInv'
        /\ \A g \in {f} : lease'[g] = NoPipe
        /\ \A g \in Flows \ {f} :
             /\ lease'[g] = lease[g] /\ buffered'[g] = buffered[g]
             /\ lease[g] # NoPipe => content'[lease[g]] = content[lease[g]]
    <2>1. PICK fs \in SUBSET Flows : fs = {f} BY <1>7
    <2>2. /\ \A g \in fs : lease[g] # NoPipe => lease[g] \in held
          /\ \A g \in Flows : lease[g] \in held => g \in fs
          /\ release(fs, held, held, w)
      BY <1>5, <1>6, <2>1
    <2>3. /\ PipeTypes' /\ PoolInv'
          /\ \A g \in fs : lease'[g] = NoPipe
          /\ \A g \in Flows \ fs :
               /\ lease'[g] = lease[g] /\ buffered'[g] = buffered[g]
               /\ lease[g] # NoPipe => content'[lease[g]] = content[lease[g]]
      BY <1>4, <1>6, <1>7, <2>2, Released
    <2> QED BY <2>1, <2>3
  <1> QED BY <1>8

LEMMA WouldBlockInv ==
    ASSUME TcpInv, NEW f \in Flows, NEW w \in Workers, WouldBlock(f, w)
    PROVE  TcpInv'
  <1>1. /\ fpc[f] = "read" /\ give_back_unused(f, w)
        /\ UNCHANGED <<acc, conn, broken, sent, over, out, fin, fpc, taken, can_splice, buf, used,
                       limit, exhausted, stop>>
    BY DEF WouldBlock, sources, ends, quota
  <1>2. /\ PipeTypes' /\ PoolInv'
        /\ lease'[f] = NoPipe
        /\ \A g \in Flows \ {f} :
             /\ lease'[g] = lease[g] /\ buffered'[g] = buffered[g]
             /\ lease[g] # NoPipe => content'[lease[g]] = content[lease[g]]
    BY <1>1, GivenBack
  <1>3. TypeOK'
    <2>1. RestTypes' BY <1>1, Parts DEF RestTypes
    <2> QED BY <1>2, <2>1, TypeParts
  <1>4. PipesInv'
    <2>1. \A g \in Flows : lease'[g] # NoPipe =>
            fpc'[g] \in {"read", "write"} /\ buffered'[g] = Len(content'[lease'[g]])
      BY <1>1, <1>2 DEF TcpInv, PipesInv
    <2> QED BY <1>2, <2>1, PipesFromPool
  <1>5. LoopInv' BY <1>1 DEF TcpInv, LoopInv
  <1>6. DataInv'
    <2>1. \A g \in Flows \ {f} : InHand(g)' = InHand(g) BY <1>1, <1>2 DEF InHand
    <2> QED BY <1>1, <1>2, <2>1 DEF TcpInv, DataInv
  <1> QED BY <1>3, <1>4, <1>5, <1>6 DEF TcpInv

(* The end of one direction, and of the connection with the second. *)
LEMMA EofInv == ASSUME TcpInv, NEW f \in Flows, NEW w \in Workers, Eof(f, w) PROVE TcpInv'
  <1>1. /\ conn[f[1]] = "open" /\ fpc[f] = "read" /\ give_back_unused(f, w)
        /\ fin' = [fin EXCEPT ![f] = TRUE]
        /\ UNCHANGED <<acc, broken, sent, over, out, taken, can_splice, buf, used,
                       limit, exhausted, stop>>
    BY DEF Eof, sources, quota
  <1>2. /\ PipeTypes' /\ PoolInv'
        /\ lease'[f] = NoPipe
        /\ \A g \in Flows \ {f} :
             /\ lease'[g] = lease[g] /\ buffered'[g] = buffered[g]
             /\ lease[g] # NoPipe => content'[lease[g]] = content[lease[g]]
    BY <1>1, GivenBack
  <1>3. RestTypes /\ PipeTypes BY Parts
  <1>4. /\ fin' \in [Flows -> BOOLEAN] /\ fin'[f] = TRUE
        /\ \A g \in Flows \ {f} : fin'[g] = fin[g]
    BY <1>1, <1>3 DEF RestTypes
  <1>5. PICK ended \in BOOLEAN : ended = (\A g \in FlowsOf(f[1]) \ {f} : fpc[g] = "done") OBVIOUS
  <1>6. /\ conn' = IF ended THEN [conn EXCEPT ![f[1]] = "closed"] ELSE conn
        /\ fpc' = IF ended THEN [g \in Flows |-> IF g[1] = f[1] THEN "off" ELSE fpc[g]]
                  ELSE [fpc EXCEPT ![f] = "done"]
    BY <1>5 DEF Eof
  <1>7. /\ conn' \in [Conns -> {"none", "queued", "connecting", "open", "closed"}]
        /\ fpc' \in [Flows -> {"off", "read", "write", "done"}]
    BY <1>3, <1>6 DEF RestTypes
  <1>8. /\ fpc'[f] \in {"off", "done"} /\ (fpc'[f] = "off") = ended
        /\ \A g \in Flows \ {f} : \/ fpc'[g] = fpc[g] /\ (ended => g[1] # f[1])
                                  \/ ended /\ g[1] = f[1] /\ fpc[g] = "done" /\ fpc'[g] = "off"
    <2>1. CASE ended
      <3>1. \A g \in Flows : fpc'[g] = IF g[1] = f[1] THEN "off" ELSE fpc[g] BY <1>6, <2>1
      <3>2. \A g \in Flows \ {f} : g[1] = f[1] => fpc[g] = "done" BY <1>5, <2>1, FlowFacts
      <3> QED BY <2>1, <3>1, <3>2
    <2>2. CASE ~ended
      <3>1. fpc' = [fpc EXCEPT ![f] = "done"] BY <1>6, <2>2
      <3>2. fpc'[f] = "done" /\ \A g \in Flows \ {f} : fpc'[g] = fpc[g] BY <1>3, <3>1 DEF RestTypes
      <3> QED BY <2>2, <3>2
    <2> QED BY <2>1, <2>2
  <1>9. \A c \in Conns : conn'[c] = IF ended /\ c = f[1] THEN "closed" ELSE conn[c]
    BY <1>3, <1>6, FlowFacts DEF RestTypes
  <1>10. TypeOK'
    <2>1. RestTypes' BY <1>1, <1>3, <1>4, <1>7 DEF RestTypes
    <2> QED BY <1>2, <2>1, TypeParts
  <1>11. PipesInv'
    <2>1. \A g \in Flows : lease'[g] # NoPipe =>
            fpc'[g] \in {"read", "write"} /\ buffered'[g] = Len(content'[lease'[g]])
      BY <1>2, <1>8 DEF TcpInv, PipesInv
    <2> QED BY <1>2, <2>1, PipesFromPool
  <1>12. LoopInv'
    <2> SUFFICES ASSUME NEW g \in Flows
                 PROVE  /\ fpc'[g] = "off" <=> conn'[g[1]] # "open"
                        /\ conn'[g[1]] = "open" => (fin'[g] <=> fpc'[g] = "done")
                        /\ conn'[g[1]] \in {"none", "queued", "connecting"} =>
                             taken[g] = 0 /\ out[g] = <<>> /\ ~fin'[g]
      BY <1>1 DEF LoopInv
    <2>0. g[1] \in Conns /\ f[1] \in Conns BY FlowFacts
    <2>1. CASE g = f BY <1>1, <1>4, <1>8, <1>9, <2>0, <2>1
    <2>2. CASE g # f BY <1>1, <1>4, <1>8, <1>9, <2>0, <2>2 DEF TcpInv, LoopInv
    <2> QED BY <2>1, <2>2
  <1>13. DataInv'
    <2>1. \A g \in Flows \ {f} : InHand(g)' = InHand(g) BY <1>1, <1>2 DEF InHand
    <2> QED BY <1>1, <1>2, <1>8, <2>1 DEF TcpInv, DataInv
  <1> QED BY <1>10, <1>11, <1>12, <1>13 DEF TcpInv

-----------------------------------------------------------------------------
(* Every step keeps the invariant. *)
LEMMA NextInv == TcpInv /\ [Next]_vars => TcpInv'
  <1> SUFFICES ASSUME TcpInv, [Next]_vars PROVE TcpInv' OBVIOUS
  <1>1. CASE Environment BY <1>1, AsideSteps, CloseInv DEF Environment
  <1>2. CASE Serve BY <1>2, AsideSteps DEF Serve
  <1>3. CASE \E c \in Conns : Handle(c) BY <1>3, AsideSteps, ConnectedInv, CloseInv DEF Handle
  <1>4. CASE \E f \in Flows : Loop(f)
    BY <1>4, ReadInv, ReadRefusedInv, WriteInv, WouldBlockInv, EofInv DEF Loop
  <1>5. CASE UNCHANGED vars
    <2>1. RestTypes' BY <1>5, Parts DEF vars, sources, ends, loops, pipes, quota, RestTypes
    <2> QED BY <1>5, <2>1, Aside DEF vars
  <1> QED BY <1>1, <1>2, <1>3, <1>4, <1>5 DEF Next

LEMMA InvAlways == Spec => []TcpInv
  BY InitInv, NextInv, PTL DEF Spec

(* The pool is clean. *)
LEMMA CleanPool == ASSUME TcpInv PROVE TypeOK /\ PipesClean
  <1>1. \A w \in Workers : \A p \in idle[w] : content[p] = <<>> /\ p \notin Held
    <2> TAKE w \in Workers
    <2> TAKE p \in idle[w]
    <2>1. p \in Pipes /\ \A f \in Flows : lease[f] # p BY Parts DEF PipeTypes, PoolInv
    <2> QED BY <2>1, Parts DEF PoolInv, Held
  <1> QED BY <1>1, Parts DEF PipesClean, PoolInv, TcpInv

-----------------------------------------------------------------------------
(***************************************************************************)
(* What is counted.  Sums are the sizes of sets of bytes.                  *)
(***************************************************************************)
\* How many bytes of each flow have been counted: all that were read, unless the
\* last read of a connection found the quota used up.
CountInv ==
    /\ IsFiniteSet({f \in Flows : taken[f] > 0})
    /\ \E n \in [Flows -> Nat] :
         /\ IsFiniteSet(FirstBytes(n)) /\ used = Cardinality(FirstBytes(n))
         /\ \A f \in Flows :
              /\ Len(out[f]) <= n[f] /\ n[f] <= taken[f] /\ n[f] <= Len(out[f]) + Big
              /\ conn[f[1]] = "open" => n[f] = taken[f]

LEMMA FirstBytesElements ==
    ASSUME NEW n \in [Flows -> Nat]
    PROVE  /\ FirstBytes(n) \subseteq Flows \X Nat
           /\ \A f \in Flows : \A i \in Nat : <<f, i>> \in FirstBytes(n) <=> 1 <= i /\ i <= n[f]
  <1>1. ASSUME NEW x \in FirstBytes(n) PROVE x \in Flows \X Nat
    <2>1. PICK f \in Flows : x \in {f} \X (1..n[f]) BY DEF FirstBytes
    <2> QED BY <2>1
  <1>2. ASSUME NEW f \in Flows, NEW i \in Nat, <<f, i>> \in FirstBytes(n) PROVE 1 <= i /\ i <= n[f]
    <2>1. PICK g \in Flows : <<f, i>> \in {g} \X (1..n[g]) BY <1>2 DEF FirstBytes
    <2>2. g = f /\ i \in 1..n[f] BY <2>1
    <2> QED BY <2>2
  <1>3. ASSUME NEW f \in Flows, NEW i \in Nat, 1 <= i, i <= n[f] PROVE <<f, i>> \in FirstBytes(n)
    <2>1. n[f] \in Nat OBVIOUS
    <2>2. i \in 1..n[f] BY <1>3, <2>1
    <2>3. <<f, i>> \in {f} \X (1..n[f]) BY <2>2
    <2> QED BY <2>3 DEF FirstBytes
  <1> QED BY <1>1, <1>2, <1>3

(* A function that is nowhere larger counts no more. *)
LEMMA FewerBytes ==
    ASSUME NEW n \in [Flows -> Nat], NEW m \in [Flows -> Nat], IsFiniteSet(FirstBytes(n)),
           \A f \in Flows : m[f] <= n[f]
    PROVE  /\ FirstBytes(m) \subseteq FirstBytes(n)
           /\ IsFiniteSet(FirstBytes(m)) /\ Cardinality(FirstBytes(m)) <= Cardinality(FirstBytes(n))
  <1>1. ASSUME NEW x \in FirstBytes(m) PROVE x \in FirstBytes(n)
    <2>1. PICK f \in Flows, i \in Nat : x = <<f, i>> BY FirstBytesElements
    <2>2. 1 <= i /\ i <= m[f] BY <2>1, FirstBytesElements
    <2>3. m[f] \in Nat /\ n[f] \in Nat OBVIOUS
    <2>4. i <= n[f] BY <2>2, <2>3
    <2> QED BY <2>1, <2>2, <2>4, FirstBytesElements
  <1>2. FirstBytes(m) \in SUBSET FirstBytes(n) BY <1>1
  <1> QED BY <1>2, FS_Subset

(* Counting k more bytes of one flow. *)
LEMMA MoreBytes ==
    ASSUME NEW n \in [Flows -> Nat], IsFiniteSet(FirstBytes(n)), NEW f \in Flows, NEW k \in Nat
    PROVE  \E m \in [Flows -> Nat] :
             /\ m[f] = n[f] + k /\ \A g \in Flows : g # f => m[g] = n[g]
             /\ IsFiniteSet(FirstBytes(m))
             /\ Cardinality(FirstBytes(m)) = Cardinality(FirstBytes(n)) + k
  <1>1. PICK a \in Nat : a = n[f] OBVIOUS
  <1>2. PICK b \in Nat : b = a + k OBVIOUS
  <1>3. PICK m \in [Flows -> Nat] : m = [n EXCEPT ![f] = @ + k] BY <1>1, <1>2
  <1>4. m[f] = b /\ \A g \in Flows : g # f => m[g] = n[g] BY <1>1, <1>2, <1>3
  <1> DEFINE new == {f} \X ((a + 1)..b)
  <1>5. IsFiniteSet(new) /\ Cardinality(new) = k
    <2>1. IsFiniteSet({f}) /\ Cardinality({f}) = 1 BY FS_Singleton
    <2>2. PICK I : I = (a + 1)..b OBVIOUS
    <2>3. IsFiniteSet(I) /\ Cardinality(I) = k
      <3>1. PICK d \in Int : d = a + 1 OBVIOUS
      <3>. b \in Int OBVIOUS
      <3>2. IsFiniteSet(d..b) /\ Cardinality(d..b) = IF d > b THEN 0 ELSE b - d + 1 BY FS_Interval
      <3> QED BY <1>2, <2>2, <3>1, <3>2
    <2>4. IsFiniteSet({f} \X I) /\ Cardinality({f} \X I) = Cardinality({f}) * Cardinality(I)
      BY <2>1, <2>3, FS_Product
    <2> QED BY <2>1, <2>2, <2>3, <2>4
  <1>6. FirstBytes(m) = FirstBytes(n) \cup new
    <2>1. ASSUME NEW g \in Flows, NEW i \in Nat
          PROVE  <<g, i>> \in FirstBytes(m) <=> <<g, i>> \in FirstBytes(n) \/ <<g, i>> \in new
      <3>1. CASE g = f
        <4>1. <<g, i>> \in new <=> a + 1 <= i /\ i <= b BY <3>1
        <4>2. <<g, i>> \in FirstBytes(m) <=> 1 <= i /\ i <= b BY <1>4, <3>1, FirstBytesElements
        <4>3. <<g, i>> \in FirstBytes(n) <=> 1 <= i /\ i <= a BY <1>1, <3>1, FirstBytesElements
        <4>4. (1 <= i /\ i <= b) <=> ((1 <= i /\ i <= a) \/ (a + 1 <= i /\ i <= b)) BY <1>2
        <4> QED BY <4>1, <4>2, <4>3, <4>4
      <3>2. CASE g # f
        <4>1. <<g, i>> \notin new BY <3>2
        <4>2. <<g, i>> \in FirstBytes(m) <=> 1 <= i /\ i <= n[g] BY <1>4, <3>2, FirstBytesElements
        <4> QED BY <4>1, <4>2, FirstBytesElements
      <3> QED BY <3>1, <3>2
    <2>2. new \subseteq Flows \X Nat OBVIOUS
    <2>3. FirstBytes(m) \subseteq Flows \X Nat /\ FirstBytes(n) \subseteq Flows \X Nat
      BY FirstBytesElements
    <2> HIDE DEF new
    <2> QED BY <2>1, <2>2, <2>3
  <1>7. FirstBytes(n) \cap new = {}
    <2>1. ASSUME NEW x \in FirstBytes(n), x \in new PROVE FALSE
      <3>1. PICK i \in (a + 1)..b : x = <<f, i>> BY <2>1
      <3>2. i \in Nat BY <3>1
      <3>3. i <= a BY <1>1, <2>1, <3>1, <3>2, FirstBytesElements
      <3> QED BY <3>1, <3>3
    <2> QED BY <2>1
  <1> HIDE DEF new
  <1>8. IsFiniteSet(FirstBytes(m)) /\ Cardinality(FirstBytes(m)) = Cardinality(FirstBytes(n)) + k
    <2>1. Cardinality(FirstBytes(n)) \in Nat BY FS_CardinalityType
    <2>2. /\ IsFiniteSet(FirstBytes(n) \cup new)
          /\ Cardinality(FirstBytes(n) \cup new)
               = Cardinality(FirstBytes(n)) + Cardinality(new) - Cardinality(FirstBytes(n) \cap new)
      BY <1>5, FS_Union
    <2>3. Cardinality(FirstBytes(n) \cap new) = 0 BY <1>7, FS_EmptySet
    <2> QED BY <1>5, <1>6, <2>1, <2>2, <2>3
  <1>9. m[f] = n[f] + k BY <1>1, <1>2, <1>4
  <1> QED BY <1>4, <1>8, <1>9

(* At most Big bytes of each flow that was read lie between the two counts. *)
LEMMA FewInHand ==
    ASSUME NEW n \in [Flows -> Nat], NEW m \in [Flows -> Nat], IsFiniteSet(FirstBytes(n)),
           NEW F \in SUBSET Flows, IsFiniteSet(F),
           \A f \in Flows : /\ m[f] <= n[f] /\ n[f] <= m[f] + Big
                            /\ f \notin F => n[f] = 0
    PROVE  Cardinality(FirstBytes(n)) <= Cardinality(FirstBytes(m)) + Big * Cardinality(F)
  <1> DEFINE rest == FirstBytes(n) \ FirstBytes(m)
             room == F \X (1..Big)
             place == [x \in rest |-> <<x[1], x[2] - m[x[1]]>>]
  <1>0. Big \in Nat BY BoundsAssumption
  <1>1. ASSUME NEW x \in rest
        PROVE  \E f \in F, i \in Nat : /\ x = <<f, i>> /\ x[1] = f /\ x[2] = i
                                       /\ m[f] < i /\ i <= m[f] + Big
    <2>1. PICK f \in Flows, i \in Nat : x = <<f, i>> BY FirstBytesElements
    <2>2. 1 <= i /\ i <= n[f] /\ ~(i <= m[f]) BY <2>1, FirstBytesElements
    <2>3. n[f] \in Nat /\ m[f] \in Nat OBVIOUS
    <2>4. f \in F BY <2>2, <2>3
    <2>5. m[f] < i /\ i <= m[f] + Big BY <1>0, <2>2, <2>3
    <2> QED BY <2>1, <2>4, <2>5
  <1>2. IsFiniteSet(room) /\ Cardinality(room) = Cardinality(F) * Big
    <2>1. PICK I : I = 1..Big OBVIOUS
    <2>2. IsFiniteSet(I) /\ Cardinality(I) = Big
      <3>1. IsFiniteSet(1..Big) /\ Cardinality(1..Big) = IF 1 > Big THEN 0 ELSE Big - 1 + 1
        BY <1>0, FS_Interval
      <3> QED BY <1>0, <2>1, <3>1
    <2>3. IsFiniteSet(F \X I) /\ Cardinality(F \X I) = Cardinality(F) * Cardinality(I)
      BY <2>2, FS_Product
    <2> QED BY <2>1, <2>2, <2>3
  <1>3. place \in Injection(rest, room)
    <2>1. ASSUME NEW x \in rest PROVE <<x[1], x[2] - m[x[1]]>> \in room
      <3>1. PICK f \in F, i \in Nat : x[1] = f /\ x[2] = i /\ m[f] < i /\ i <= m[f] + Big
        BY <1>1
      <3>2. m[f] \in Nat OBVIOUS
      <3>3. i - m[f] \in 1..Big BY <1>0, <3>1, <3>2
      <3> QED BY <3>1, <3>3
    <2>2. ASSUME NEW x \in rest, NEW y \in rest, place[x] = place[y] PROVE x = y
      <3>1. PICK f \in F, i \in Nat : x = <<f, i>> /\ x[1] = f /\ x[2] = i BY <1>1
      <3>2. PICK g \in F, j \in Nat : y = <<g, j>> /\ y[1] = g /\ y[2] = j BY <1>1
      <3>3. <<f, i - m[f]>> = <<g, j - m[g]>> BY <2>2, <3>1, <3>2
      <3>4. f = g /\ i - m[f] = j - m[g] BY <3>3
      <3>5. m[f] \in Nat /\ m[g] \in Nat OBVIOUS
      <3>6. i = j BY <3>4, <3>5
      <3> QED BY <3>1, <3>2, <3>4, <3>6
    <2>3. place \in [rest -> room] BY <2>1
    <2> HIDE DEF place, rest, room
    <2> QED BY <2>2, <2>3 DEF Injection, IsInjective
  <1>4. IsFiniteSet(rest) /\ Cardinality(rest) <= Cardinality(room)
    <2> HIDE DEF place, rest, room
    <2> QED BY <1>2, <1>3, FS_Injection
  <1>5. FirstBytes(m) \subseteq FirstBytes(n) /\ IsFiniteSet(FirstBytes(m)) BY FewerBytes
  <1>6. FirstBytes(m) \cup rest = FirstBytes(n) /\ FirstBytes(m) \cap rest = {} BY <1>5
  <1> HIDE DEF rest, room, place
  <1>7. /\ Cardinality(FirstBytes(m)) \in Nat /\ Cardinality(rest) \in Nat
        /\ Cardinality(F) \in Nat
    BY <1>4, <1>5, FS_CardinalityType
  <1>8. Cardinality(FirstBytes(m) \cup rest)
          = Cardinality(FirstBytes(m)) + Cardinality(rest) - Cardinality(FirstBytes(m) \cap rest)
    BY <1>4, <1>5, FS_Union
  <1>9. Cardinality(FirstBytes(m) \cap rest) = 0 BY <1>6, FS_EmptySet
  <1>10. Cardinality(F) * Big = Big * Cardinality(F) BY <1>0, <1>7
  <1>11. Cardinality(F) * Big \in Nat BY <1>0, <1>7
  <1>12. Cardinality(FirstBytes(n)) = Cardinality(FirstBytes(m)) + Cardinality(rest)
    <2>1. Cardinality(FirstBytes(n))
            = Cardinality(FirstBytes(m)) + Cardinality(rest) - Cardinality(FirstBytes(m) \cap rest)
      BY <1>6, <1>8, Zenon
    <2> QED BY ONLY <1>7, <1>9, <2>1
  <1>13. Cardinality(rest) <= Big * Cardinality(F) BY <1>2, <1>4, <1>10
  <1> QED BY <1>7, <1>10, <1>11, <1>12, <1>13

(* Steps that count nothing: a connection that opens has read nothing yet. *)
LEMMA CountKept ==
    ASSUME TcpInv, CountInv, UNCHANGED <<used, taken, out>>,
           \A c \in Conns : conn'[c] = "open" => conn[c] \in {"open", "connecting"}
    PROVE  CountInv'
  <1>1. PICK n \in [Flows -> Nat] :
         /\ IsFiniteSet(FirstBytes(n)) /\ used = Cardinality(FirstBytes(n))
         /\ \A f \in Flows :
              /\ Len(out[f]) <= n[f] /\ n[f] <= taken[f] /\ n[f] <= Len(out[f]) + Big
              /\ conn[f[1]] = "open" => n[f] = taken[f]
    BY DEF CountInv
  <1>2. ASSUME NEW f \in Flows, conn'[f[1]] = "open" PROVE n[f] = taken[f]
    <2>1. f[1] \in Conns /\ taken[f] \in Nat BY FlowState
    <2>2. conn[f[1]] = "connecting" => taken[f] = 0 BY DEF TcpInv, LoopInv
    <2>3. n[f] \in Nat /\ n[f] <= taken[f] BY <1>1
    <2> QED BY <1>1, <1>2, <2>1, <2>2, <2>3
  <1>3. /\ IsFiniteSet(FirstBytes(n)) /\ used' = Cardinality(FirstBytes(n))
        /\ \A f \in Flows :
             /\ Len(out'[f]) <= n[f] /\ n[f] <= taken'[f] /\ n[f] <= Len(out'[f]) + Big
             /\ conn'[f[1]] = "open" => n[f] = taken'[f]
    BY <1>1, <1>2
  <1>4. FirstBytes(n)' = FirstBytes(n) BY DEF FirstBytes
  <1>5. IsFiniteSet({f \in Flows : taken'[f] > 0}) BY DEF CountInv
  <1> QED BY <1>3, <1>5 DEF CountInv

(* A read: n bytes more are taken, and as many are counted, or none. *)
LEMMA CountRead ==
    ASSUME TcpInv, CountInv, NEW f \in Flows, fpc[f] = "read", conn[f[1]] = "open",
           NEW k \in Nat, k <= Big, UNCHANGED out,
           taken' = [taken EXCEPT ![f] = @ + k],
           \/ used' = used + k
           \/ used' = used /\ conn'[f[1]] # "open",
           \A c \in Conns : conn'[c] = "open" => conn[c] = "open"
    PROVE  CountInv'
  <1>1. PICK n \in [Flows -> Nat] :
         /\ IsFiniteSet(FirstBytes(n)) /\ used = Cardinality(FirstBytes(n))
         /\ \A g \in Flows :
              /\ Len(out[g]) <= n[g] /\ n[g] <= taken[g] /\ n[g] <= Len(out[g]) + Big
              /\ conn[g[1]] = "open" => n[g] = taken[g]
    BY DEF CountInv
  <1>2. taken \in [Flows -> Nat] BY Parts DEF RestTypes
  <1>3. taken'[f] = taken[f] + k /\ \A g \in Flows : g # f => taken'[g] = taken[g] BY <1>2
  <1>4. /\ Len(out[f]) \in Nat /\ taken[f] \in Nat /\ n[f] = taken[f] /\ Len(out[f]) = taken[f]
    BY <1>1, FlowState DEF TcpInv, DataInv
  <1>5. Big \in Nat BY BoundsAssumption
  <1>6. IsFiniteSet({g \in Flows : taken'[g] > 0})
    <2>1. IsFiniteSet({g \in Flows : taken[g] > 0} \cup {f}) BY FS_AddElement DEF CountInv
    <2>2. {g \in Flows : taken'[g] > 0} \in SUBSET ({g \in Flows : taken[g] > 0} \cup {f}) BY <1>3
    <2> QED BY <2>1, <2>2, FS_Subset
  <1>7. \A g \in Flows : g[1] \in Conns BY FlowFacts
  <1>8. CASE used' = used + k
    <2>1. IsFiniteSet(FirstBytes(n)) BY <1>1
    <2>2. PICK m \in [Flows -> Nat] :
             /\ m[f] = n[f] + k /\ \A g \in Flows : g # f => m[g] = n[g]
             /\ IsFiniteSet(FirstBytes(m))
             /\ Cardinality(FirstBytes(m)) = Cardinality(FirstBytes(n)) + k
      BY <2>1, MoreBytes
    <2>3. m[f] = n[f] + k /\ \A g \in Flows : g # f => m[g] = n[g] BY <2>2
    <2>4. \A g \in Flows :
              /\ Len(out'[g]) <= m[g] /\ m[g] <= taken'[g] /\ m[g] <= Len(out'[g]) + Big
              /\ conn'[g[1]] = "open" => m[g] = taken'[g]
      <3> TAKE g \in Flows
      <3>1. CASE g = f BY <1>3, <1>4, <1>5, <2>3, <3>1
      <3>2. CASE g # f BY <1>1, <1>3, <1>7, <2>3, <3>2
      <3> QED BY <3>1, <3>2
    <2>5. used' = Cardinality(FirstBytes(m)) BY <1>1, <1>8, <2>2
    <2> QED BY <1>6, <2>2, <2>4, <2>5 DEF CountInv
  <1>9. CASE used' = used /\ conn'[f[1]] # "open"
    <2>1. \A g \in Flows :
              /\ Len(out'[g]) <= n[g] /\ n[g] <= taken'[g] /\ n[g] <= Len(out'[g]) + Big
              /\ conn'[g[1]] = "open" => n[g] = taken'[g]
      <3> TAKE g \in Flows
      <3>1. CASE g = f BY <1>1, <1>3, <1>4, <1>5, <1>9, <3>1
      <3>2. CASE g # f BY <1>1, <1>3, <1>7, <3>2
      <3> QED BY <3>1, <3>2
    <2>2. used' = Cardinality(FirstBytes(n)) BY <1>1, <1>9
    <2> QED BY <1>1, <1>6, <2>1, <2>2 DEF CountInv
  <1> QED BY <1>8, <1>9

(* A read returns no more than the largest pipe holds. *)
LEMMA AmountBounded ==
    ASSUME TcpInv, NEW f \in Flows, NEW p \in Pipes \cup {NoPipe}, NEW n \in Amounts(f, p)
    PROVE  n <= Big
  <1>1. taken[f] \in Nat /\ sent[f] \in Nat BY FlowState
  <1>2. PICK k \in Int : k = (IF p = NoPipe THEN Small ELSE capacity[p]) /\ k <= Big
    BY Parts, BoundsAssumption DEF PipeTypes
  <1>3. PICK m \in Int : m = sent[f] - taken[f] BY <1>1
  <1>4. n \in 1..Min({m, k}) BY <1>2, <1>3 DEF Amounts
  <1>5. Min({m, k}) \in {m, k} /\ Min({m, k}) <= k BY MinOfTwo
  <1>6. Min({m, k}) \in Int BY <1>5
  <1> QED BY <1>2, <1>4, <1>5, <1>6, BoundsAssumption

LEMMA CountReads ==
    ASSUME TcpInv, CountInv, NEW f \in Flows, NEW w \in Workers, Read(f, w) \/ ReadRefused(f, w)
    PROVE  CountInv'
  <1>1. conn[f[1]] = "open" /\ fpc[f] = "read" /\ UNCHANGED out
    BY DEF Read, ReadRefused, Readable, ends
  <1>2. \E p \in Leased(f, w) : \E k \in Amounts(f, p) :
          /\ taken' = [taken EXCEPT ![f] = @ + k]
          /\ \/ Read(f, w) /\ used' = used + k
             \/ ReadRefused(f, w) /\ used' \in {used, used + k}
    <2>1. CASE Read(f, w) BY <2>1 DEF Read, Counted
    <2>2. CASE ReadRefused(f, w) BY <2>2 DEF ReadRefused, Counted
    <2> QED BY <2>1, <2>2
  <1>3. PICK p \in Leased(f, w) : \E k \in Amounts(f, p) :
          /\ taken' = [taken EXCEPT ![f] = @ + k]
          /\ \/ Read(f, w) /\ used' = used + k
             \/ ReadRefused(f, w) /\ used' \in {used, used + k}
    BY <1>2
  <1>4. PICK k \in Amounts(f, p) :
          /\ taken' = [taken EXCEPT ![f] = @ + k]
          /\ \/ Read(f, w) /\ used' = used + k
             \/ ReadRefused(f, w) /\ used' \in {used, used + k}
    BY <1>3
  <1>5. p \in Pipes \cup {NoPipe} BY <1>1, LeasedFacts
  <1>6. k \in Nat /\ k <= Big BY <1>5, AmountFacts, AmountBounded
  <1>7. Read(f, w) => conn' = conn BY DEF Read
  <1>8. ReadRefused(f, w) => conn' = [conn EXCEPT ![f[1]] = "closed"] BY DEF ReadRefused, End
  <1>9. conn \in [Conns -> {"none", "queued", "connecting", "open", "closed"}] /\ f[1] \in Conns
    BY Parts, FlowFacts DEF RestTypes
  <1>10. \A c \in Conns : conn'[c] = "open" => conn[c] = "open" BY <1>7, <1>8, <1>9
  <1>11. ReadRefused(f, w) => conn'[f[1]] # "open" BY <1>8, <1>9
  <1> QED BY <1>1, <1>4, <1>6, <1>10, <1>11, CountRead

(* What has gone out only grows, and never past what was read. *)
LEMMA WriteGrows ==
    ASSUME TcpInv, TcpInv', NEW f \in Flows, Write(f)
    PROVE  Len(out'[f]) \in Nat /\ Len(out'[f]) <= taken[f] /\ Len(out[f]) <= Len(out'[f])
  <1>1. taken' = taken BY DEF Write
  <1>2. Len(out'[f]) <= taken[f] BY <1>1 DEF TcpInv, DataInv
  <1>3. out'[f] \in Seq(Flows \X Nat) /\ out[f] \in Seq(Flows \X Nat) BY DEF TcpInv, TypeOK
  <1>4. PICK n \in 1..Len(InHand(f)) : out' = [out EXCEPT ![f] = @ \o SubSeq(InHand(f), 1, n)]
    BY DEF Write
  <1>5. PICK h : h = InHand(f) OBVIOUS
  <1>6. h \in Seq(Flows \X Nat)
    <2>1. CASE lease[f] # NoPipe BY <1>5, <2>1, FlowState DEF InHand, AnyBytes
    <2>2. CASE lease[f] = NoPipe BY <1>5, <2>2, FlowState DEF InHand, AnyBytes
    <2> QED BY <2>1, <2>2
  <1>7. PICK s \in Seq(Flows \X Nat) : s = SubSeq(h, 1, n)
    <2>1. Len(h) \in Nat /\ \A i \in 1..Len(h) : h[i] \in Flows \X Nat
      BY <1>6, LenProperties, ElementOfSeq
    <2>2. n \in Nat /\ n <= Len(h) BY <1>4, <1>5, <2>1
    <2>3. \A i \in 1..n : h[i] \in Flows \X Nat BY <2>1, <2>2
    <2>4. SubSeq(h, 1, n) \in Seq(Flows \X Nat) BY <2>2, <2>3, SubSeqProperties
    <2> QED BY <2>4
  <1>8. out'[f] = out[f] \o s
    <2>1. out \in [Flows -> Seq(Flows \X Nat)] BY Parts DEF RestTypes
    <2>2. out' = [out EXCEPT ![f] = out[f] \o s] BY <1>4, <1>5, <1>7
    <2> QED BY <2>1, <2>2
  <1>9. Len(out[f] \o s) = Len(out[f]) + Len(s) BY <1>3, <1>7, ConcatProperties
  <1>10. Len(s) \in Nat /\ Len(out[f]) \in Nat BY <1>3, <1>7, LenProperties
  <1> QED BY <1>2, <1>8, <1>9, <1>10

LEMMA CountWrite == ASSUME TcpInv, TcpInv', CountInv, NEW f \in Flows, Write(f) PROVE CountInv'
  <1>1. PICK n \in [Flows -> Nat] :
         /\ IsFiniteSet(FirstBytes(n)) /\ used = Cardinality(FirstBytes(n))
         /\ \A g \in Flows :
              /\ Len(out[g]) <= n[g] /\ n[g] <= taken[g] /\ n[g] <= Len(out[g]) + Big
              /\ conn[g[1]] = "open" => n[g] = taken[g]
    BY DEF CountInv
  <1>2. /\ conn[f[1]] = "open" /\ UNCHANGED <<conn, taken, used>>
        /\ \E n1 \in 1..Len(InHand(f)) : out' = [out EXCEPT ![f] = @ \o SubSeq(InHand(f), 1, n1)]
    BY DEF Write, quota
  <1>3. PICK s : out' = [out EXCEPT ![f] = @ \o s] BY <1>2
  <1>4. out \in [Flows -> Seq(Flows \X Nat)] BY Parts DEF RestTypes
  <1>5. \A g \in Flows : g # f => out'[g] = out[g] BY <1>3, <1>4
  <1>6. Len(out'[f]) \in Nat /\ Len(out'[f]) <= taken[f] /\ Len(out[f]) <= Len(out'[f])
    BY <1>2, WriteGrows
  <1>7. Len(out[f]) \in Nat /\ Big \in Nat /\ taken[f] \in Nat BY FlowState, BoundsAssumption
  <1>8. \A g \in Flows :
              /\ Len(out'[g]) <= n[g] /\ n[g] <= taken'[g] /\ n[g] <= Len(out'[g]) + Big
              /\ conn'[g[1]] = "open" => n[g] = taken'[g]
    <2> TAKE g \in Flows
    <2>1. CASE g = f
      <3>1. n[f] = taken[f] /\ n[f] <= Len(out[f]) + Big /\ n[f] \in Nat BY <1>1, <1>2
      <3> QED BY <1>2, <1>6, <1>7, <2>1, <3>1
    <2>2. CASE g # f BY <1>1, <1>2, <1>5, <2>2
    <2> QED BY <2>1, <2>2
  <1>9. used' = Cardinality(FirstBytes(n)) BY <1>1, <1>2
  <1>10. IsFiniteSet({g \in Flows : taken'[g] > 0}) BY <1>2 DEF CountInv
  <1> QED BY <1>1, <1>8, <1>9, <1>10 DEF CountInv

LEMMA InitCount == Init => CountInv
  <1> SUFFICES ASSUME Init PROVE CountInv OBVIOUS
  <1>1. PICK n \in [Flows -> Nat] : n = [f \in Flows |-> 0] OBVIOUS
  <1>2. FirstBytes(n) = {}
    <2>1. ASSUME NEW x \in FirstBytes(n) PROVE FALSE
      <3>1. PICK f \in Flows, i \in Nat : x = <<f, i>> BY FirstBytesElements
      <3>2. 1 <= i /\ i <= n[f] BY <3>1, FirstBytesElements
      <3> QED BY <1>1, <3>2
    <2> QED BY <2>1
  <1>3. {f \in Flows : taken[f] > 0} = {} BY DEF Init
  <1>4. Len(<<>>) = 0 BY EmptySeq
  <1>5. \A f \in Flows : out[f] = <<>> /\ taken[f] = 0 BY DEF Init
  <1>6. used = 0 /\ Big \in Nat BY BoundsAssumption DEF Init
  <1> QED BY <1>1, <1>2, <1>3, <1>4, <1>5, <1>6, FS_EmptySet DEF CountInv

LEMMA NextCount == TcpInv /\ TcpInv' /\ CountInv /\ [Next]_vars => CountInv'
  <1> SUFFICES ASSUME TcpInv, TcpInv', CountInv, [Next]_vars PROVE CountInv' OBVIOUS
  <1>0. conn \in [Conns -> {"none", "queued", "connecting", "open", "closed"}] BY Parts DEF RestTypes
  <1>1. CASE Environment
    <2>1. UNCHANGED <<used, taken, out>> /\ \A c \in Conns : conn'[c] = "open" => conn[c] = "open"
      BY <1>0, <1>1 DEF Environment, Arrive, AcceptReset, Breaks, Close, End, SourceSends, SourceEnds,
             set_limit, RemoveRule, AcceptFails, relay, served, loops, ends, quota
    <2> QED BY <2>1, CountKept
  <1>2. CASE Serve
    <2>1. UNCHANGED <<used, taken, out>> /\ \A c \in Conns : conn'[c] = "open" => conn[c] = "open"
      BY <1>0, <1>2 DEF Serve, BackoffEnds, Leave, Accept, served, loops, ends, quota
    <2> QED BY <2>1, CountKept
  <1>3. CASE \E c \in Conns : Handle(c)
    <2>1. UNCHANGED <<used, taken, out>>
          /\ \A c \in Conns : conn'[c] = "open" => conn[c] \in {"open", "connecting"}
      BY <1>0, <1>3 DEF Handle, Connected, NotConnected, Dropped, Close, End, served, loops, ends, quota
    <2> QED BY <2>1, CountKept
  <1>4. ASSUME NEW f \in Flows, Loop(f) PROVE CountInv'
    <2>1. CASE \E w \in Workers : Read(f, w) \/ ReadRefused(f, w) BY <2>1, CountReads
    <2>2. CASE Write(f) BY <2>2, CountWrite
    <2>3. CASE \E w \in Workers : WouldBlock(f, w) \/ Eof(f, w)
      <3>1. UNCHANGED <<used, taken, out>> /\ \A c \in Conns : conn'[c] = "open" => conn[c] = "open"
        BY <1>0, <2>3 DEF WouldBlock, Eof, ends, quota
      <3> QED BY <3>1, CountKept
    <2> QED BY <1>4, <2>1, <2>2, <2>3 DEF Loop
  <1>5. CASE UNCHANGED vars
    BY <1>5, CountKept DEF vars, ends, loops, quota
  <1> QED BY <1>1, <1>2, <1>3, <1>4, <1>5 DEF Next

(***************************************************************************)
(* Byte-exact accounting, for any number of connections and however reads  *)
(* and writes are cut up: every byte that reached an end was counted, and  *)
(* what is counted beyond is at most one pipe for each flow that was read; *)
(* the pool the bytes pass through is clean.                               *)
(***************************************************************************)
THEOREM CountedToTheByte == Spec => []ByteExact
  <1>1. TcpInv /\ CountInv => ByteExact
    <2> SUFFICES ASSUME TcpInv, CountInv PROVE ByteExact OBVIOUS
    <2>1. PICK n \in [Flows -> Nat] :
            /\ IsFiniteSet(FirstBytes(n)) /\ used = Cardinality(FirstBytes(n))
            /\ \A f \in Flows :
                 Len(out[f]) <= n[f] /\ n[f] <= taken[f] /\ n[f] <= Len(out[f]) + Big
      BY DEF CountInv
    <2>2. PICK m \in [Flows -> Nat] : m = [f \in Flows |-> Len(out[f])] BY FlowState
    <2>3. PICK F \in SUBSET Flows : F = {f \in Flows : taken[f] > 0} OBVIOUS
    <2>4. IsFiniteSet(F) BY <2>3 DEF CountInv
    <2>5. \A f \in Flows : /\ m[f] <= n[f] /\ n[f] <= m[f] + Big
                           /\ f \notin F => n[f] = 0
      <3> TAKE f \in Flows
      <3>1. taken[f] \in Nat /\ n[f] \in Nat BY FlowState
      <3>2. f \notin F => taken[f] = 0 BY <2>3, <3>1
      <3> QED BY <2>1, <2>2, <3>1, <3>2
    <2>6. Cardinality(FirstBytes(m)) <= used BY <2>1, <2>5, FewerBytes
    <2>7. used <= Cardinality(FirstBytes(m)) + Big * Cardinality(F)
      <3>1. Cardinality(FirstBytes(n)) <= Cardinality(FirstBytes(m)) + Big * Cardinality(F)
        BY <2>1, <2>4, <2>5, FewInHand
      <3> QED BY <2>1, <3>1
    <2>8. TypeOK /\ PipesClean BY CleanPool
    <2> QED BY <2>2, <2>3, <2>6, <2>7, <2>8 DEF ByteExact
  <1> QED BY <1>1, InitInv, InitCount, NextInv, NextCount, PTL DEF Spec

-----------------------------------------------------------------------------
(***************************************************************************)
(* TcpRelay implements Streams, step by step.                              *)
(***************************************************************************)
LEMMA LinkFacts ==
    /\ \A c \in Conns : link[c] = IF conn[c] = "open" THEN "open"
                                  ELSE IF conn[c] = "closed" THEN "over" ELSE "new"
    /\ \A c \in Conns : link'[c] = IF conn'[c] = "open" THEN "open"
                                   ELSE IF conn'[c] = "closed" THEN "over" ELSE "new"
    /\ link = [c \in Conns |-> link[c]] /\ link' = [c \in Conns |-> link'[c]]
  BY DEF link

LEMMA CauseType == TcpInv' => cause' \in SUBSET Conns
  BY DEF TcpInv, TypeOK, cause

(* A step in which connections are over at most, those that were open for a cause. *)
LEMMA CutMaps ==
    ASSUME TcpInv', UNCHANGED <<sent, over, out, fin>>,
           \A c \in Conns : link'[c] # link[c] =>
             link'[c] = "over" /\ (link[c] = "open" => c \in cause')
    PROVE  S!SNext
  <1> DEFINE cs == {c \in Conns : link'[c] # link[c]}
  <1>1. \A c \in cs : link[c] = "open" => c \in cause' OBVIOUS
  <1>2. link' = [c \in Conns |-> IF c \in cs THEN "over" ELSE link[c]] BY LinkFacts
  <1>3. S!SCut(cs) BY <1>1, <1>2 DEF S!SCut
  <1>4. cs \in SUBSET Conns OBVIOUS
  <1> QED BY <1>3, <1>4, CauseType DEF S!SNext

(* Steps that leave the open connections alone. *)
LEMMA AsideMaps ==
    ASSUME TcpInv, TcpInv',
           \/ \E c \in Conns : Arrive(c) \/ AcceptReset(c) \/ Accept(c) \/ NotConnected(c)
           \/ \E f \in Flows : SourceSends(f) \/ SourceEnds(f)
           \/ \E l \in Limits : set_limit(l)
           \/ RemoveRule \/ AcceptFails \/ BackoffEnds \/ Leave
    PROVE  S!SNext
  <1> USE DEF loops, pipes, ends, sources, quota, relay, served
  <1>1. RestTypes BY Parts
  <1>2. ASSUME NEW c \in Conns, Arrive(c) \/ AcceptReset(c) \/ Accept(c) \/ NotConnected(c)
        PROVE  S!SNext
    <2>1. /\ UNCHANGED <<sent, over, out, fin>>
          /\ \E to \in {"queued", "connecting", "closed"} : conn' = [conn EXCEPT ![c] = to]
          /\ conn[c] \in Before
      BY <1>2 DEF Arrive, AcceptReset, Accept, NotConnected, Before
    <2>2. PICK to \in {"queued", "connecting", "closed"} : conn' = [conn EXCEPT ![c] = to] BY <2>1
    <2>4. \A d \in Conns : conn'[d] = IF d = c THEN to ELSE conn[d] BY <1>1, <2>2 DEF RestTypes
    <2>5. \A d \in Conns : link'[d] # link[d] => link'[d] = "over" /\ link[d] # "open"
      BY <2>1, <2>4, LinkFacts DEF Before
    <2> QED BY <2>1, <2>5, CutMaps
  <1>3. ASSUME NEW f \in Flows, SourceSends(f) \/ SourceEnds(f) PROVE S!SNext
    <2>1. link' = link BY <1>3 DEF SourceSends, SourceEnds, link
    <2>2. S!SSend(f) \/ S!SEnd(f)
      BY <1>3, <2>1 DEF SourceSends, SourceEnds, S!SSend, S!SEnd
    <2>3. f \in S!Flows BY DEF Flows, S!Flows, Directions, S!Directions
    <2> QED BY <2>2, <2>3, CauseType DEF S!SNext
  <1>4. ASSUME \/ \E l \in Limits : set_limit(l)
               \/ RemoveRule \/ AcceptFails \/ BackoffEnds
        PROVE  S!SNext
    <2>1. UNCHANGED <<sent, over, out, fin, conn>>
      BY <1>4 DEF set_limit, RemoveRule, AcceptFails, BackoffEnds
    <2>2. link' = link BY <2>1 DEF link
    <2> QED BY <2>1, <2>2, CutMaps
  <1>5. CASE Leave
    <2>1. UNCHANGED <<sent, over, out, fin>>
          /\ conn' = [c \in Conns |-> IF conn[c] = "queued" THEN "closed" ELSE conn[c]]
      BY <1>5 DEF Leave
    <2>2. \A d \in Conns : link'[d] # link[d] => link'[d] = "over" /\ link[d] # "open"
      BY <2>1, LinkFacts
    <2> QED BY <2>1, <2>2, CutMaps
  <1> QED BY <1>2, <1>3, <1>4, <1>5

LEMMA OpenMaps == ASSUME TcpInv, TcpInv', NEW c \in Conns, Connected(c) PROVE S!SNext
  <1>1. /\ conn[c] = "connecting" /\ conn' = [conn EXCEPT ![c] = "open"]
        /\ UNCHANGED <<sent, over, out, fin>>
    BY DEF Connected, sources, ends
  <1>2. \A d \in Conns : conn'[d] = IF d = c THEN "open" ELSE conn[d] BY <1>1, Parts DEF RestTypes
  <1>3. link[c] = "new" /\ link' = [link EXCEPT ![c] = "open"] BY <1>1, <1>2, LinkFacts
  <1>4. S!SOpen(c) BY <1>1, <1>3 DEF S!SOpen
  <1> QED BY <1>4, CauseType DEF S!SNext

(* A connection is cut because it broke, or the quota or the rule is gone. *)
LEMMA EndMaps ==
    ASSUME TcpInv, TcpInv', NEW c \in Conns, NEW w \in Workers,
           \/ Dropped(c, w) \/ Breaks(c, w)
           \/ \E f \in Flows : f[1] = c /\ ReadRefused(f, w)
    PROVE  S!SNext
  <1>1. UNCHANGED <<sent, over, out, fin>> /\ End(c)
    BY DEF Dropped, Breaks, ReadRefused, Close, sources, ends
  <1>2. exhausted' \/ stop' \/ c \in broken' BY DEF Dropped, Breaks, ReadRefused, quota
  <1>3. c \in cause' BY <1>2 DEF cause
  <1>4. conn' = [conn EXCEPT ![c] = "closed"] BY <1>1 DEF End
  <1>5. \A d \in Conns : conn'[d] = IF d = c THEN "closed" ELSE conn[d] BY <1>4, Parts DEF RestTypes
  <1>6. \A d \in Conns : link'[d] # link[d] => link'[d] = "over" /\ d = c BY <1>5, LinkFacts
  <1> QED BY <1>1, <1>3, <1>6, CutMaps

LEMMA ReadMaps ==
    ASSUME TcpInv, TcpInv', NEW f \in Flows, NEW w \in Workers, Read(f, w) \/ WouldBlock(f, w)
    PROVE  S!SNext
  <1>1. UNCHANGED <<sent, over, out, fin, conn>> BY DEF Read, WouldBlock, sources, ends
  <1>2. link' = link BY <1>1 DEF link
  <1> QED BY <1>1, <1>2, CutMaps

(* What goes out extends what has gone out, by bytes that were sent. *)
LEMMA WriteMaps == ASSUME TcpInv, TcpInv', NEW f \in Flows, Write(f) PROVE S!SNext
  <1>1. /\ conn[f[1]] = "open" /\ fpc[f] = "write" /\ UNCHANGED <<sent, over, fin, conn, taken>>
        /\ \E n \in 1..Len(InHand(f)) : out' = [out EXCEPT ![f] = @ \o SubSeq(InHand(f), 1, n)]
    BY DEF Write, sources
  <1>2. PICK n \in 1..Len(InHand(f)) : out' = [out EXCEPT ![f] = @ \o SubSeq(InHand(f), 1, n)]
    BY <1>1
  <1>3. PICK a \in Nat, b \in Nat :
          /\ a = Len(out[f]) /\ b = taken[f] /\ a <= b /\ out[f] = Bytes(f, 0, a)
          /\ InHand(f) = Bytes(f, a, b) /\ Len(InHand(f)) = b - a
    <2>1. PICK a \in Nat : a = Len(out[f]) BY FlowState
    <2>2. PICK b \in Nat : b = taken[f] BY FlowState
    <2>3. a <= b /\ out[f] = Bytes(f, 0, a) BY <2>1, <2>2, FlowState
    <2>4. InHand(f) = Bytes(f, a, b) BY <1>1, <2>1, <2>2 DEF TcpInv, DataInv
    <2>5. Len(Bytes(f, a, b)) = b - a BY <2>3, BytesFacts
    <2> QED BY <2>1, <2>2, <2>3, <2>4, <2>5
  <1>4. n \in 1..(b - a) BY <1>2, <1>3
  <1>5. PICK d \in Nat : d = a + n /\ a <= d /\ d <= b /\ a < d BY <1>4
  <1>6. SubSeq(InHand(f), 1, n) = Bytes(f, a, d)
    <2>1. SubSeq(Bytes(f, a, b), 1, n) = Bytes(f, a, a + n) BY <1>3, <1>4, BytesCut
    <2> QED BY <1>3, <1>5, <2>1
  <1>7. Bytes(f, 0, a) \o Bytes(f, a, d) = Bytes(f, 0, d)
    <2>1. 0 <= a OBVIOUS
    <2> QED BY <1>5, <2>1, BytesJoin
  <1>8. out' = [out EXCEPT ![f] = Bytes(f, 0, d)]
    <2>1. out' = [out EXCEPT ![f] = out[f] \o SubSeq(InHand(f), 1, n)] BY <1>2
    <2> QED BY <1>3, <1>6, <1>7, <2>1
  <1>9. Bytes(f, 0, d) = [i \in 1..d |-> S!Byte(f, i)]
    <2>1. d - 0 = d /\ \A i \in 1..d : 0 + i = i OBVIOUS
    <2>2. Bytes(f, 0, d) = [i \in 1..d |-> Byte(f, 0 + i)] BY <2>1 DEF Bytes
    <2> QED BY <2>1, <2>2 DEF Byte, S!Byte
  <1>10. d \in (Len(out[f]) + 1)..sent[f]
    <2>1. PICK m \in Nat : m = sent[f] /\ b <= m BY <1>3, FlowState
    <2>2. d \in (a + 1)..m BY <1>5, <2>1
    <2> QED BY <1>3, <2>1, <2>2
  <1>11. link' = link /\ link[f[1]] = "open" BY <1>1, FlowFacts DEF link
  <1>12. ~fin[f] BY <1>1 DEF TcpInv, LoopInv
  <1>13. S!SDeliver(f) BY <1>1, <1>8, <1>9, <1>10, <1>11, <1>12 DEF S!SDeliver
  <1>14. f \in S!Flows BY DEF Flows, S!Flows, Directions, S!Directions
  <1> QED BY <1>13, <1>14, CauseType DEF S!SNext

(* The end of a stream is passed on after its last byte. *)
LEMMA EofMaps == ASSUME TcpInv, TcpInv', NEW f \in Flows, NEW w \in Workers, Eof(f, w) PROVE S!SNext
  <1>1. /\ conn[f[1]] = "open" /\ fpc[f] = "read" /\ sent[f] = taken[f] /\ over[f]
        /\ fin' = [fin EXCEPT ![f] = TRUE] /\ UNCHANGED <<sent, over, out>>
        /\ conn' = IF \A g \in FlowsOf(f[1]) \ {f} : fpc[g] = "done"
                   THEN [conn EXCEPT ![f[1]] = "closed"] ELSE conn
    BY DEF Eof, sources
  <1>2. Len(out[f]) = sent[f] /\ ~fin[f] BY <1>1 DEF TcpInv, DataInv, LoopInv
  <1>3. f[1] \in Conns /\ f \in FlowsOf(f[1]) /\ FlowsOf(f[1]) \subseteq Flows BY FlowFacts
  <1>4. \A g \in Flows : fin'[g] = IF g = f THEN TRUE ELSE fin[g] BY <1>1, Parts DEF RestTypes
  <1>5. \A g \in FlowsOf(f[1]) : conn[g[1]] = "open" BY <1>1 DEF FlowsOf
  <1>6. (\A d \in S!Directions : fin'[<<f[1], d>>]) <=> (\A g \in FlowsOf(f[1]) \ {f} : fpc[g] = "done")
    <2>1. \A g \in FlowsOf(f[1]) : fin[g] <=> fpc[g] = "done" BY <1>3, <1>5 DEF TcpInv, LoopInv
    <2>2. (\A d \in S!Directions : fin'[<<f[1], d>>]) <=> (\A g \in FlowsOf(f[1]) : fin'[g])
      BY DEF FlowsOf, Directions, S!Directions
    <2> QED BY <1>3, <1>4, <2>1, <2>2
  <1>7. link[f[1]] = "open" BY <1>1, <1>3 DEF link
  <1>8. link' = IF \A d \in S!Directions : fin'[<<f[1], d>>]
                THEN [link EXCEPT ![f[1]] = "over"] ELSE link
    <2>1. CASE \A g \in FlowsOf(f[1]) \ {f} : fpc[g] = "done"
      <3>1. \A c \in Conns : conn'[c] = IF c = f[1] THEN "closed" ELSE conn[c]
        BY <1>1, <1>3, <2>1, Parts DEF RestTypes
      <3>2. link' = [link EXCEPT ![f[1]] = "over"] BY <1>3, <3>1, LinkFacts
      <3> QED BY <1>6, <2>1, <3>2
    <2>2. CASE ~(\A g \in FlowsOf(f[1]) \ {f} : fpc[g] = "done")
      <3>1. link' = link BY <1>1, <2>2 DEF link
      <3> QED BY <1>6, <2>2, <3>1
    <2> QED BY <2>1, <2>2
  <1>9. S!SFinish(f) BY <1>1, <1>2, <1>7, <1>8 DEF S!SFinish
  <1>10. f \in S!Flows BY DEF Flows, S!Flows, Directions, S!Directions
  <1> QED BY <1>9, <1>10, CauseType DEF S!SNext

(***************************************************************************)
(* The relay implements byte streams: what leaves it is what came, in      *)
(* order, and an open connection ends with its second stream or is cut for *)
(* a cause, whatever pipes, workers and short writes the bytes go through. *)
(***************************************************************************)
THEOREM RelayImplementsStreams == Spec => RelaysStreams
  <1>1. Init => S!SInit
    <2> SUFFICES ASSUME Init PROVE S!SInit OBVIOUS
    <2>1. link = [c \in Conns |-> "new"] BY DEF Init, link
    <2>2. cause \in SUBSET Conns BY DEF Init, cause
    <2>3. S!Flows = Flows BY DEF Flows, S!Flows, Directions, S!Directions
    <2> QED BY <2>1, <2>2, <2>3 DEF Init, S!SInit
  <1>2. TcpInv /\ TcpInv' /\ [Next]_vars => [S!SNext]_(S!svars)
    <2> SUFFICES ASSUME TcpInv, TcpInv', [Next]_vars PROVE [S!SNext]_(S!svars) OBVIOUS
    <2>1. CASE Environment BY <2>1, AsideMaps, EndMaps DEF Environment
    <2>2. CASE Serve BY <2>2, AsideMaps DEF Serve
    <2>3. CASE \E c \in Conns : Handle(c) BY <2>3, AsideMaps, OpenMaps, EndMaps DEF Handle
    <2>4. CASE \E f \in Flows : Loop(f)
      BY <2>4, FlowFacts, ReadMaps, EndMaps, WriteMaps, EofMaps DEF Loop
    <2>5. CASE UNCHANGED vars
      BY <2>5 DEF vars, sources, ends, quota, S!svars, link, cause
    <2> QED BY <2>1, <2>2, <2>3, <2>4, <2>5 DEF Next
  <1> QED BY <1>1, <1>2, InvAlways, PTL DEF Spec, RelaysStreams, S!SSpec
=============================================================================
