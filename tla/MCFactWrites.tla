---------------------------- MODULE MCFactWrites ----------------------------
(* FactWrites with two instruments, the second known by two identifiers. *)
EXTENDS FactWrites
MCOwner == [x \in {1, 2, 3} |-> IF x = 1 THEN 1 ELSE 2]
MCStated == {{1, 2}, {3}}
MCFacts == {[t |-> 1, i |-> 1, n |-> 1, attested |-> FALSE],
            [t |-> 2, i |-> 2, n |-> 2, attested |-> TRUE]}
=============================================================================
