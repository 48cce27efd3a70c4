------------------------------ MODULE TcpRelay ------------------------------
(***************************************************************************)
(* The TCP side of a rule (src/src/tcp.rs): the accept loop, a task per    *)
(* connection with its two copy_counted loops, and the pipes they borrow   *)
(* from a pool kept by each worker thread (src/src/pipe.rs).               *)
(*                                                                         *)
(* A step is what a task does between two awaits, on whichever worker      *)
(* polls it; what it does there touches only its own sockets and pipes,    *)
(* the worker's pool, and the quota, once.  Bytes carry their flow and     *)
(* number, so that one in the wrong place is visible.  How connect_active  *)
(* picks a target is module Pool's, how try_consume counts Quota's matter. *)
(***************************************************************************)
EXTENDS Naturals, Sequences, FiniteSets, FiniteSetsExt

CONSTANTS
    Conns,      \* connections that clients may open
    Workers,    \* threads of the runtime, each with its own idle pipes
    Pipes, NoPipe,
    MaxIdle,    \* MAX_IDLE pipes kept by a worker
    Small, Big, \* capacity of a pipe as created and once grown
    GrowAfter,  \* GROW_AFTER fills in a row grow a pipe
    Limits,     \* limits the user's quota may get, the first one smallest
    MaxBytes    \* bound on the bytes that all sources send

ASSUME PipesAssumption == NoPipe \notin Pipes
ASSUME BoundsAssumption ==
    /\ {MaxIdle, MaxBytes} \subseteq Nat /\ {Small, Big, GrowAfter} \subseteq Nat \ {0}
    /\ Small <= Big
ASSUME LimitsAssumption == Limits \subseteq Nat /\ Limits # {}

VARIABLES
    acc,                    \* the accept loop
    conn,                   \* where each connection is
    broken,                 \* connections that ended with an I/O error
    sent, over,             \* what the sources of the flows have sent
    taken,                  \* how much of it copy_counted has read
    out, fin,               \* what the other ends have received
    fpc, lease, buffered,   \* each copy loop and its Lease
    can_splice, buf,        \* its fallback, and the bytes it holds without a pipe
    content, capacity, busy,\* the pipes
    idle,                   \* IDLE of each worker
    used, limit, exhausted, \* the user's quota
    stop                    \* the rule has been removed

sources == <<sent, over>>
ends == <<out, fin>>
loops == <<fpc, taken, lease, buffered, can_splice, buf>>
pipes == <<content, capacity, busy, idle>>
quota == <<used, limit, exhausted>>
vars == <<acc, conn, broken, sources, ends, loops, pipes, quota, stop>>

Directions == {"up", "down"}
Flows == Conns \X Directions
Byte(f, n) == <<f, n>>
Bytes(f, a, b) == [i \in 1..(b - a) |-> Byte(f, a + i)]

\* The first n[f] bytes of each flow f.
FirstBytes(n) == UNION {{f} \X (1..n[f]) : f \in Flows}

\* The refinement mapping: a connection is cut for an I/O error, or because the
\* quota is used up or the rule removed.
link == [c \in Conns |-> IF conn[c] = "open" THEN "open"
                        ELSE IF conn[c] = "closed" THEN "over" ELSE "new"]
cause == IF exhausted \/ stop THEN Conns ELSE broken
S == INSTANCE Streams WITH sent <- sent, over <- over, out <- out, fin <- fin,
                           link <- link, cause <- cause

Init ==
    /\ acc = "accept"
    /\ conn = [c \in Conns |-> "none"] /\ broken = {}
    /\ sent = [f \in Flows |-> 0] /\ over = [f \in Flows |-> FALSE]
    /\ out = [f \in Flows |-> <<>>] /\ fin = [f \in Flows |-> FALSE]
    /\ fpc = [f \in Flows |-> "off"] /\ taken = [f \in Flows |-> 0]
    /\ lease = [f \in Flows |-> NoPipe] /\ buffered = [f \in Flows |-> 0]
    /\ can_splice = [f \in Flows |-> TRUE] /\ buf = [f \in Flows |-> <<>>]
    /\ content = [p \in Pipes |-> <<>>]
    /\ capacity = [p \in Pipes |-> Small] /\ busy = [p \in Pipes |-> 0]
    /\ idle = [w \in Workers |-> {}]
    /\ used = 0 /\ limit = Min(Limits) /\ exhausted = (limit = 0)
    /\ stop = FALSE

-----------------------------------------------------------------------------
(***************************************************************************)
(* Pipe and Lease.                                                         *)
(***************************************************************************)
Held == {lease[f] : f \in Flows} \ {NoPipe}
Unused == Pipes \ (Held \cup UNION {idle[w] : w \in Workers})

\* What `lease.pipe' may be when flow f, polled by w, is about to fill it:
\* acquire takes an idle pipe before it creates one, and creation may fail.
Leased(f, w) ==
    IF lease[f] # NoPipe THEN {lease[f]}
    ELSE IF ~can_splice[f] THEN {NoPipe}
    ELSE IF idle[w] # {} THEN idle[w]
    ELSE Unused \cup {NoPipe}

\* Lease::give_back for the loops fs, polled by w, that have the pipes `held':
\* the ones in `clean' are released to the pool if there is room, the others
\* closed.
release(fs, held, clean, w) ==
    \E kept \in SUBSET clean :
      /\ Cardinality(kept) = Min({Cardinality(clean), MaxIdle - Cardinality(idle[w] \ held)})
      /\ idle' = [idle EXCEPT ![w] = (@ \ held) \cup kept]
      /\ content' = [p \in Pipes |-> IF p \in held \ kept THEN <<>> ELSE content[p]]
      /\ capacity' = [p \in Pipes |-> IF p \in held \ kept THEN Small ELSE capacity[p]]
      /\ busy' = [p \in Pipes |-> IF p \in held THEN 0 ELSE busy[p]]
      /\ lease' = [f \in Flows |-> IF f \in fs THEN NoPipe ELSE lease[f]]
      /\ buffered' = [f \in Flows |-> IF f \in fs THEN 0 ELSE buffered[f]]

PipesOf(fs) == {lease[f] : f \in fs} \ {NoPipe}

\* Mutant: a pipe goes back to the pool whatever it holds.
give_back_Any(fs, w) == release(fs, PipesOf(fs), PipesOf(fs), w)

give_back(fs, w) == release(fs, PipesOf(fs), PipesOf({f \in fs : buffered[f] = 0}), w)

\* A read of flow f that returns no byte: the pipe, borrowed for it if there
\* was none, goes back.
give_back_unused(f, w) ==
    \E p \in Leased(f, w) : release({f}, {p} \ {NoPipe}, {p} \ {NoPipe}, w)

FlowsOf(c) == {c} \X Directions

\* The task of c ends.
End(c) ==
    /\ conn' = [conn EXCEPT ![c] = "closed"]
    /\ fpc' = [f \in Flows |-> IF f[1] = c THEN "off" ELSE fpc[f]]
    /\ buf' = [f \in Flows |-> IF f[1] = c THEN <<>> ELSE buf[f]]
    /\ UNCHANGED can_splice

\* It is at an await and is dropped: both copy futures, their leases with them.
Close(c, w) == conn[c] = "open" /\ End(c) /\ give_back(FlowsOf(c), w)

-----------------------------------------------------------------------------
(***************************************************************************)
(* The peers, the operator, and the runtime that removes the rule.         *)
(***************************************************************************)
relay == <<acc, loops, pipes, ends>>

Arrive(c) ==
    /\ conn[c] = "none" /\ acc # "gone"
    /\ conn' = [conn EXCEPT ![c] = "queued"]
    /\ UNCHANGED <<relay, broken, sources, quota, stop>>

SourceSends(f) ==
    /\ conn[f[1]] = "open" /\ ~over[f] /\ Cardinality(FirstBytes(sent)) < MaxBytes
    /\ sent' = [sent EXCEPT ![f] = @ + 1]
    /\ UNCHANGED <<relay, conn, broken, over, quota, stop>>

SourceEnds(f) ==
    /\ conn[f[1]] = "open" /\ ~over[f]
    /\ over' = [over EXCEPT ![f] = TRUE]
    /\ UNCHANGED <<relay, conn, broken, sent, quota, stop>>

set_limit(l) ==
    /\ l # limit
    /\ limit' = l /\ exhausted' = (used >= l)
    /\ UNCHANGED <<relay, conn, broken, sources, used, stop>>

RemoveRule ==
    /\ ~stop /\ stop' = TRUE
    /\ UNCHANGED <<relay, conn, broken, sources, quota>>

-----------------------------------------------------------------------------
(***************************************************************************)
(* serve.                                                                  *)
(***************************************************************************)
served == <<loops, pipes, ends, sources, broken, quota, stop>>

\* The select looks at the stop channel before it looks at the listener, so a
\* connection may still be accepted as the rule goes away.
Accept(c) ==
    /\ acc = "accept" /\ conn[c] = "queued"
    /\ conn' = [conn EXCEPT ![c] = IF exhausted THEN "closed" ELSE "connecting"]
    /\ UNCHANGED <<served, acc>>

\* The connection died in the backlog.
AcceptReset(c) ==
    /\ acc = "accept" /\ conn[c] = "queued"
    /\ conn' = [conn EXCEPT ![c] = "closed"]
    /\ UNCHANGED <<served, acc>>

\* No descriptor is left: the loop sleeps, deaf to the removal of the rule.
AcceptFails ==
    /\ acc = "accept" /\ acc' = "backoff"
    /\ UNCHANGED <<served, conn>>

BackoffEnds ==
    /\ acc = "backoff" /\ acc' = "accept"
    /\ UNCHANGED <<served, conn>>

\* serve returns; its backlog is closed with the listener, or is another rule's
\* with a listener that is handed over: no longer this one's either way.
Leave ==
    /\ acc = "accept" /\ stop
    /\ acc' = "gone"
    /\ conn' = [c \in Conns |-> IF conn[c] = "queued" THEN "closed" ELSE conn[c]]
    /\ UNCHANGED served

-----------------------------------------------------------------------------
(***************************************************************************)
(* handle.                                                                 *)
(***************************************************************************)
Connected(c) ==
    /\ conn[c] = "connecting"
    /\ conn' = [conn EXCEPT ![c] = "open"]
    /\ fpc' = [f \in Flows |-> IF f[1] = c THEN "read" ELSE fpc[f]]
    /\ UNCHANGED <<acc, broken, sources, ends, taken, lease, buffered, can_splice, buf, pipes, quota, stop>>

\* Every target failed, or the rule was removed meanwhile.
NotConnected(c) ==
    /\ conn[c] = "connecting"
    /\ conn' = [conn EXCEPT ![c] = "closed"]
    /\ UNCHANGED <<served, acc>>

\* Mutant: the connection is not watching the rule.
Dropped_Unwatched(c, w) ==
    /\ exhausted
    /\ Close(c, w)
    /\ UNCHANGED <<acc, broken, sources, ends, taken, quota, stop>>

\* The watch channels of the quota and of the rule.
Dropped(c, w) ==
    /\ exhausted \/ stop
    /\ Close(c, w)
    /\ UNCHANGED <<acc, broken, sources, ends, taken, quota, stop>>

\* A peer resets the connection, a read or a write fails: try_join ends with
\* the error.
Breaks(c, w) ==
    /\ broken' = broken \cup {c}
    /\ Close(c, w)
    /\ UNCHANGED <<acc, sources, ends, taken, quota, stop>>

-----------------------------------------------------------------------------
(***************************************************************************)
(* copy_counted.                                                           *)
(***************************************************************************)
InHand(f) == IF lease[f] # NoPipe THEN content[lease[f]] ELSE buf[f]

\* fill_from counts the fills in a row; the GROW_AFTER-th tries to grow the
\* pipe for the next ones.
fill_from(p, bytes) ==
    /\ content' = [content EXCEPT ![p] = @ \o bytes]
    /\ busy' = [busy EXCEPT ![p] = Min({@ + 1, GrowAfter + 1})]
    /\ \/ UNCHANGED capacity
       \/ busy'[p] = GrowAfter /\ capacity' = [capacity EXCEPT ![p] = Big]

\* Mutant: a read is taken to have filled its buffer.
Amounts_Whole(f, p) ==
    IF sent[f] > taken[f] THEN {IF p = NoPipe THEN Small ELSE capacity[p]} ELSE {}

\* How many bytes one read may return.
Amounts(f, p) ==
    1..Min({sent[f] - taken[f], IF p = NoPipe THEN Small ELSE capacity[p]})

\* try_consume lets n bytes pass, or not.
Passes(n) == ~exhausted /\ used + n < limit

\* Mutant: what was read without a pipe is not counted.
Counted_Spliced(p, n) == IF p = NoPipe THEN 0 ELSE n

\* What the quota is told of n bytes read into pipe p, or without one.
Counted(p, n) == n

Readable(f) == conn[f[1]] = "open" /\ fpc[f] = "read" /\ sent[f] > taken[f]

\* The reader is readable: borrow a pipe if there is none, read, and count.
Read(f, w) ==
    /\ Readable(f)
    /\ \E p \in Leased(f, w) : \E n \in Amounts(f, p) :
         LET bytes == Bytes(f, taken[f], taken[f] + n) IN
         /\ Passes(n)
         /\ used' = used + Counted(p, n)
         /\ lease' = [lease EXCEPT ![f] = p]
         /\ can_splice' = [can_splice EXCEPT ![f] = (p # NoPipe)]
         /\ idle' = [idle EXCEPT ![w] = @ \ {p}]
         /\ taken' = [taken EXCEPT ![f] = @ + n]
         /\ \/ /\ p # NoPipe /\ fill_from(p, bytes)
               /\ buffered' = [buffered EXCEPT ![f] = n] /\ UNCHANGED buf
            \/ /\ p = NoPipe /\ buf' = [buf EXCEPT ![f] = bytes]
               /\ UNCHANGED <<content, capacity, busy, buffered>>
    /\ fpc' = [fpc EXCEPT ![f] = "write"]
    /\ UNCHANGED <<acc, conn, broken, sources, ends, limit, exhausted, stop>>

\* The quota is used up: the bytes go no further, the connection ends, and the
\* pipe they are in is not reused.
ReadRefused(f, w) ==
    /\ Readable(f)
    /\ \E p \in Leased(f, w) : \E n \in Amounts(f, p) :
         /\ ~Passes(n)
         /\ used' = IF exhausted THEN used ELSE used + Counted(p, n)
         /\ taken' = [taken EXCEPT ![f] = @ + n]
         /\ release(FlowsOf(f[1]), PipesOf(FlowsOf(f[1])) \cup ({p} \ {NoPipe}),
                    PipesOf({g \in FlowsOf(f[1]) \ {f} : buffered[g] = 0}), w)
    /\ exhausted' = TRUE
    /\ End(f[1])
    /\ UNCHANGED <<acc, broken, sources, ends, limit, stop>>

\* Mutant: one write is taken to have written all.
Write_Once(f) ==
    /\ conn[f[1]] = "open" /\ fpc[f] = "write"
    /\ \E n \in 1..Len(InHand(f)) :
         LET left == SubSeq(InHand(f), n + 1, Len(InHand(f))) IN
         /\ out' = [out EXCEPT ![f] = @ \o SubSeq(InHand(f), 1, n)]
         /\ fpc' = [fpc EXCEPT ![f] = "read"]
         /\ \/ /\ lease[f] # NoPipe /\ content' = [content EXCEPT ![lease[f]] = left]
               /\ buffered' = [buffered EXCEPT ![f] = @ - n] /\ UNCHANGED buf
            \/ /\ lease[f] = NoPipe /\ buf' = [buf EXCEPT ![f] = left]
               /\ UNCHANGED <<content, buffered>>
    /\ UNCHANGED <<acc, conn, broken, sources, fin, taken, lease, can_splice, capacity, busy, idle,
                   quota, stop>>

\* Some of the bytes go out.  The loop writes until none is left.
Write(f) ==
    /\ conn[f[1]] = "open" /\ fpc[f] = "write"
    /\ \E n \in 1..Len(InHand(f)) :
         LET left == SubSeq(InHand(f), n + 1, Len(InHand(f))) IN
         /\ out' = [out EXCEPT ![f] = @ \o SubSeq(InHand(f), 1, n)]
         /\ fpc' = [fpc EXCEPT ![f] = IF left = <<>> THEN "read" ELSE "write"]
         /\ \/ /\ lease[f] # NoPipe /\ content' = [content EXCEPT ![lease[f]] = left]
               /\ buffered' = [buffered EXCEPT ![f] = @ - n] /\ UNCHANGED buf
            \/ /\ lease[f] = NoPipe /\ buf' = [buf EXCEPT ![f] = left]
               /\ UNCHANGED <<content, buffered>>
    /\ UNCHANGED <<acc, conn, broken, sources, fin, taken, lease, can_splice, capacity, busy, idle,
                   quota, stop>>

\* The readiness left over from the last read was stale: no more data for now.
WouldBlock(f, w) ==
    /\ conn[f[1]] = "open" /\ fpc[f] = "read" /\ sent[f] = taken[f] /\ ~over[f]
    /\ can_splice[f]
    /\ give_back_unused(f, w)
    /\ UNCHANGED <<acc, conn, broken, sources, ends, fpc, taken, can_splice, buf, quota, stop>>

\* Mutant: the end of one direction ends the connection.
Eof_Both(f, w) ==
    /\ conn[f[1]] = "open" /\ fpc[f] = "read" /\ sent[f] = taken[f] /\ over[f]
    /\ fin' = [fin EXCEPT ![f] = TRUE]
    /\ Close(f[1], w)
    /\ UNCHANGED <<acc, broken, sources, out, taken, quota, stop>>

\* End of the stream: passed on as a half-close.  The loop returns, and the
\* connection is over once both have.
Eof(f, w) ==
    /\ conn[f[1]] = "open" /\ fpc[f] = "read" /\ sent[f] = taken[f] /\ over[f]
    /\ fin' = [fin EXCEPT ![f] = TRUE]
    /\ IF \A g \in FlowsOf(f[1]) \ {f} : fpc[g] = "done"
       THEN /\ conn' = [conn EXCEPT ![f[1]] = "closed"]
            /\ fpc' = [g \in Flows |-> IF g[1] = f[1] THEN "off" ELSE fpc[g]]
       ELSE /\ fpc' = [fpc EXCEPT ![f] = "done"]
            /\ UNCHANGED conn
    /\ give_back_unused(f, w)
    /\ UNCHANGED <<acc, broken, sources, out, taken, can_splice, buf, quota, stop>>

-----------------------------------------------------------------------------
Serve == BackoffEnds \/ Leave \/ \E c \in Conns : Accept(c)

Handle(c) == Connected(c) \/ NotConnected(c) \/ \E w \in Workers : Dropped(c, w)

Loop(f) ==
    \/ Write(f)
    \/ \E w \in Workers : Read(f, w) \/ ReadRefused(f, w) \/ WouldBlock(f, w) \/ Eof(f, w)

\* The clients, the targets, the operator, and what can fail.
Environment ==
    \/ \E c \in Conns : Arrive(c) \/ AcceptReset(c) \/ \E w \in Workers : Breaks(c, w)
    \/ \E f \in Flows : SourceSends(f) \/ SourceEnds(f)
    \/ \E l \in Limits : set_limit(l)
    \/ RemoveRule \/ AcceptFails

Next ==
    \/ Environment \/ Serve
    \/ \E c \in Conns : Handle(c)
    \/ \E f \in Flows : Loop(f)

Spec == Init /\ [][Next]_vars

\* Tokio polls what is ready, dials end in time, and the receiving ends read.
\* The biased select asks for the removal first each time the loop comes
\* round, so failing accepts cannot pass it over for ever.
LiveSpec ==
    /\ Spec
    /\ WF_vars(Serve) /\ SF_vars(Leave)
    /\ \A c \in Conns : WF_vars(Handle(c))
    /\ \A f \in Flows : WF_vars(Loop(f))

-----------------------------------------------------------------------------
TypeOK ==
    /\ acc \in {"accept", "backoff", "gone"}
    /\ conn \in [Conns -> {"none", "queued", "connecting", "open", "closed"}]
    /\ broken \subseteq Conns
    /\ sent \in [Flows -> Nat] /\ taken \in [Flows -> Nat]
    /\ \A f \in Flows : taken[f] <= sent[f]
    /\ over \in [Flows -> BOOLEAN] /\ fin \in [Flows -> BOOLEAN]
    /\ out \in [Flows -> Seq(Flows \X Nat)] /\ buf \in [Flows -> Seq(Flows \X Nat)]
    /\ fpc \in [Flows -> {"off", "read", "write", "done"}]
    /\ lease \in [Flows -> Pipes \cup {NoPipe}] /\ buffered \in [Flows -> Nat]
    /\ can_splice \in [Flows -> BOOLEAN]
    /\ content \in [Pipes -> Seq(Flows \X Nat)]
    /\ capacity \in [Pipes -> {Small, Big}] /\ busy \in [Pipes -> 0..(GrowAfter + 1)]
    /\ idle \in [Workers -> SUBSET Pipes]
    /\ used \in Nat /\ limit \in Limits /\ exhausted \in BOOLEAN /\ stop \in BOOLEAN

\* The pool of pipes: a pipe that waits in it is empty, and a pipe is in the hands
\* of one loop, or in the pool of one worker, never two, however connections end.
\* Otherwise one client would receive another's bytes.
PipesClean ==
    /\ \A w \in Workers : \A p \in idle[w] : content[p] = <<>> /\ p \notin Held
    /\ \A v, w \in Workers : v # w => idle[v] \cap idle[w] = {}
    /\ \A f, g \in Flows : f # g /\ lease[f] = lease[g] => lease[f] = NoPipe
    /\ \A w \in Workers : Cardinality(idle[w]) <= MaxIdle

(***************************************************************************)
(* The relay implements byte streams: each end receives the bytes of the   *)
(* other end of its own connection in order, the end of a stream after the *)
(* last of them, and nothing after a cut.  The end of one direction lets   *)
(* the other run on, and a connection is cut only for a cause.             *)
(***************************************************************************)
RelaysStreams == S!SSpec

(***************************************************************************)
(* README: "byte-exact accounting".  No byte is forwarded uncounted, and   *)
(* what is counted but never arrives is what was in hand of a loop when    *)
(* its connection ended, at most one pipe for each.  None of it is left in *)
(* a pipe for another connection.                                          *)
(***************************************************************************)
ByteExact ==
    LET forwarded == Cardinality(FirstBytes([f \in Flows |-> Len(out[f])]))
    IN  /\ TypeOK
        /\ forwarded <= used
        /\ used <= forwarded + Big * Cardinality({f \in Flows : taken[f] > 0})
        /\ PipesClean

(***************************************************************************)
(* README: "Removed or disabled rules stop listening, and their TCP        *)
(* connections ... are closed", also when the accept loop is sleeping or a *)
(* connection is still being made.                                         *)
(***************************************************************************)
RemovalCloses ==
    stop ~> (acc = "gone" /\ \A c \in Conns : conn[c] \in {"none", "closed"})

(***************************************************************************)
(* What a source has sent reaches the other end, unless the connection is  *)
(* cut: neither direction waits for the other, nor for a pipe.             *)
(***************************************************************************)
AllArrives ==
    \A f \in Flows :
      (conn[f[1]] = "open" /\ Len(out[f]) < sent[f])
        ~> (Len(out[f]) = sent[f] \/ conn[f[1]] = "closed")
=============================================================================
