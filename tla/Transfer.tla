------------------------------ MODULE Transfer ------------------------------
(***************************************************************************)
(* What a copying loop promises: the sink receives the source byte by byte *)
(* in order, nothing twice and nothing left out; the transfer succeeds     *)
(* only when everything has arrived.                                       *)
(***************************************************************************)
EXTENDS Naturals, Sequences

CONSTANT Source     \* the sequence to be transferred

VARIABLES sink,     \* what has arrived
          status    \* "going", "complete" or "broken"

Init == sink = <<>> /\ status = "going"

Deliver ==
  /\ status = "going"
  /\ Len(sink) < Len(Source)
  /\ \E n \in (Len(sink) + 1)..Len(Source) : sink' = SubSeq(Source, 1, n)
  /\ UNCHANGED status

Complete == status = "going" /\ sink = Source /\ status' = "complete" /\ UNCHANGED sink

Break == status = "going" /\ status' = "broken" /\ UNCHANGED sink

Next == Deliver \/ Complete \/ Break

Spec == Init /\ [][Next]_<<sink, status>>
=============================================================================
