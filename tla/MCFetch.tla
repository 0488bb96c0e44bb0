------------------------------- MODULE MCFetch -------------------------------
(* Instances of Fetch for TLC. *)
EXTENDS Fetch

CONSTANTS id1, id2

\* A request sent twice, and one behind another that the integration declines.
MCRequests == {<<id1, id1>>, <<Unserved, id2>>}
=============================================================================
