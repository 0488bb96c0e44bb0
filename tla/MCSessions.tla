----------------------------- MODULE MCSessions -----------------------------
(* Three requests, an account without a subject whose email is not on the  *)
(* allowlist, and Google accounts that share an email or a subject.        *)
EXTENDS Sessions, TLC

CONSTANTS seed

Account(subject, email) == [subject |-> subject, email |-> email]

MCIdentities ==
    {Account("s1", "e1"), Account("s1", "e2"), Account("s2", "e1")}

MCSeeded == {[id |-> seed, subject |-> None, email |-> "e2"]}

(* The requests are alike, and so are the keys. *)
MCSymmetry == Permutations(Requests) \cup Permutations(Kids)
=============================================================================
