-------------------------- MODULE MCTickerValidity --------------------------
(* TickerValidity with two datasources, the event source ranked second. *)
EXTENDS TickerValidity
CONSTANTS massive, openfigi
MCPrecedence == [d \in {massive, openfigi} |-> IF d = openfigi THEN 1 ELSE 2]
=============================================================================
