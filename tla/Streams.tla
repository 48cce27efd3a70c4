------------------------------- MODULE Streams -------------------------------
(***************************************************************************)
(* What a TCP relay promises: each connection is two byte streams, one a   *)
(* direction.  A stream delivers what its source sent, in order, nothing   *)
(* else, and passes on the end of the stream only after the last byte.     *)
(* "Propagate EOF as a half-close and let the other direction run on": an  *)
(* open connection ends with the second of its streams, or is cut, which   *)
(* takes a cause; then both its streams stand still.                       *)
(*                                                                         *)
(* Module TcpRelay implements this specification.                          *)
(***************************************************************************)
EXTENDS Naturals, Sequences

CONSTANT Conns

Directions == {"up", "down"}
Flows == Conns \X Directions

\* The n-th byte that the source of flow f sends.
Byte(f, n) == <<f, n>>

VARIABLES
    sent,   \* how many bytes the source of each flow has sent
    over,   \* the source has sent its last byte
    out,    \* what the other end has received
    fin,    \* the other end has been told that the stream is over
    link,   \* whether each connection is new, open or over
    cause   \* the connections there is a cause to cut, whoever decides that

svars == <<sent, over, out, fin, link, cause>>

SInit ==
    /\ sent = [f \in Flows |-> 0] /\ over = [f \in Flows |-> FALSE]
    /\ out = [f \in Flows |-> <<>>] /\ fin = [f \in Flows |-> FALSE]
    /\ link = [c \in Conns |-> "new"] /\ cause \in SUBSET Conns

SSend(f) ==
    /\ ~over[f]
    /\ sent' = [sent EXCEPT ![f] = @ + 1]
    /\ UNCHANGED <<over, out, fin, link>>

SEnd(f) ==
    /\ ~over[f]
    /\ over' = [over EXCEPT ![f] = TRUE]
    /\ UNCHANGED <<sent, out, fin, link>>

SDeliver(f) ==
    /\ link[f[1]] = "open" /\ ~fin[f]
    /\ \E n \in (Len(out[f]) + 1)..sent[f] :
         out' = [out EXCEPT ![f] = [i \in 1..n |-> Byte(f, i)]]
    /\ UNCHANGED <<sent, over, fin, link>>

\* The end of the stream; with the second one the connection is done.
SFinish(f) ==
    /\ link[f[1]] = "open"
    /\ over[f] /\ Len(out[f]) = sent[f] /\ ~fin[f]
    /\ fin' = [fin EXCEPT ![f] = TRUE]
    /\ link' = IF \A d \in Directions : fin'[<<f[1], d>>]
               THEN [link EXCEPT ![f[1]] = "over"] ELSE link
    /\ UNCHANGED <<sent, over, out>>

SOpen(c) ==
    /\ link[c] = "new"
    /\ link' = [link EXCEPT ![c] = "open"]
    /\ UNCHANGED <<sent, over, out, fin>>

\* Connections may be cut together, when what serves them goes away.  One that is
\* not open yet may always come to nothing.
SCut(cs) ==
    /\ \A c \in cs : link[c] = "open" => c \in cause'
    /\ link' = [c \in Conns |-> IF c \in cs THEN "over" ELSE link[c]]
    /\ UNCHANGED <<sent, over, out, fin>>

\* `cause' is the environment's, and may change in every step.
SNext ==
    /\ cause' \in SUBSET Conns
    /\ \/ \E f \in Flows : SSend(f) \/ SEnd(f) \/ SDeliver(f) \/ SFinish(f)
       \/ \E c \in Conns : SOpen(c)
       \/ \E cs \in SUBSET Conns : SCut(cs)

SSpec == SInit /\ [][SNext]_svars
=============================================================================
