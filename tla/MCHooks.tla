------------------------------ MODULE MCHooks -------------------------------
(* Instances of Hooks for TLC: two ULTs, two descriptors, one hooked file   *)
(* and one that is not, a ring of three entries.                            *)
EXTENDS Hooks

CONSTANTS a, b, other

MCList == <<a, b>>
MCNames == {a, other}
MCExtensions == [n \in {a, b} |-> {n}]
=============================================================================
