------------------------------- MODULE MCAsk -------------------------------
(***************************************************************************)
(* Instance of Ask for TLC: two chunks of one content object, one of them  *)
(* larger than the budget, and two of others, in two locations.            *)
(***************************************************************************)
EXTENDS Ask

CONSTANTS l1, l2, a, b, c

MCContentOf == ("a1" :> a) @@ ("a2" :> a) @@ ("b1" :> b) @@ ("c1" :> c)
MCSizeOf == ("a1" :> 1) @@ ("a2" :> 4) @@ ("b1" :> 2) @@ ("c1" :> 1)
MCHome == (a :> {l1}) @@ (b :> {l1, l2}) @@ (c :> {l2})
=============================================================================
