-------------------------- MODULE MCFocusProtocol --------------------------
(* Two contexts in one process, one in another; two descriptors each. *)
EXTENDS FocusProtocol

CONSTANTS c1, c2, d1, p1, p2

MCOwner == (c1 :> p1) @@ (c2 :> p1) @@ (d1 :> p2)
MCFirst == (p1 :> c1) @@ (p2 :> d1)
MCMaxOpens == (p1 :> 1) @@ (p2 :> 0)
MCMaxGone == (p1 :> 1) @@ (p2 :> 0)
=============================================================================
