------------------------------ MODULE Queues ------------------------------
(* Vec::retain and VecDeque::retain of the Rust library, as the queues of     *)
(* u2dm-client use them: what is in the set stays, in its order. It is        *)
(* SelectSeq, written as a function because nothing can be proved about that  *)
(* operator; Queues_proofs has the facts.                                   *)
EXTENDS Naturals, Sequences

\* What is kept of the first n.
Kept(q, set) ==
    LET kept[n \in 0..Len(q)] ==
            IF n = 0 THEN <<>>
            ELSE IF q[n] \in set THEN Append(kept[n - 1], q[n]) ELSE kept[n - 1]
    IN kept

Retain(q, set) == Kept(q, set)[Len(q)]
=============================================================================
