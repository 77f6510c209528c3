------------------------------ MODULE MCCustom ------------------------------
(* Two groups of one variable: the default input method, and another one. *)
EXTENDS Custom

CONSTANTS global, keys, im, key, a, b, toolbar, pref, switcher

MCGroups == <<global, keys>>
MCGroupOf == (im :> global) @@ (key :> keys)
=============================================================================
