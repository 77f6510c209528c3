--------------------------- MODULE MCHelperServer ---------------------------
(***************************************************************************)
(* Small instances of HelperServer.  c1 sends two messages, so that the    *)
(* order of one sender's messages matters, c2 sends one and c3 listens.    *)
(* In the liveness instance c1 alone speaks.                               *)
(***************************************************************************)
EXTENDS HelperServer

CONSTANTS c1, c2, c3

MCConns == {c1, c2, c3}
TwoOneZero == [c \in MCConns |-> IF c = c1 THEN 2 ELSE IF c = c2 THEN 1 ELSE 0]
OneZeroZero == [c \in MCConns |-> IF c = c1 THEN 1 ELSE 0]
=============================================================================
