-------------------------------- MODULE Lists --------------------------------
(***************************************************************************)
(* What the linked lists of the server have in common: a node or an entry  *)
(* is unlinked wherever it is, and the others keep their order.            *)
(***************************************************************************)
EXTENDS Integers, Sequences

(* The elements of q that are not in gone, in their order. A recursive     *)
(* function, not SelectSeq, so that the proofs can unfold it.              *)
Without(q, gone) ==
    LET kept[i \in 0 .. Len(q)] ==
            IF i = 0 THEN << >>
            ELSE IF q[i] \in gone THEN kept[i - 1]
            ELSE Append(kept[i - 1], q[i])
    IN  kept[Len(q)]
=============================================================================
