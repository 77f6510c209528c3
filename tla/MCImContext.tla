---------------------------- MODULE MCImContext ----------------------------
(* One context, two engines beside direct input, two input modes. *)
EXTENDS ImContext

CONSTANTS a, b

MCEnabledLists == {<<a, b>>, <<b, Direct>>}
=============================================================================
