----------------------------- MODULE MCStartup ------------------------------
(* Instances of Startup for TLC: four regions to rewrite or to leave alone, *)
(* two drives with two cores each, and an admin ring that goes round more   *)
(* than twice during the five commands of a drive.                          *)
EXTENDS Startup

CONSTANTS lib, libc, stack, data, own, l1, c1, c2, s1, d1

MCRegions == {lib, libc, stack, data}
MCProt == [r \in MCRegions |-> CASE r \in {lib, libc} -> {"r", "x"}
                                 [] r = stack -> {"r", "w", "x"}
                                 [] r = data -> {"r", "w"}]
MCUntouched == {stack}
MCSites == {own, l1, c1, c2, s1, d1}
MCRegionOf == [s \in MCSites |-> CASE s \in {own, l1} -> lib
                                   [] s \in {c1, c2} -> libc
                                   [] s = s1 -> stack
                                   [] s = d1 -> data]
MCLists == {<<>>, <<"good", "good">>, <<"good", "good", "kernel">>, <<"good">>, <<"closed", "good">>,
            <<"good", "kernel">>, <<"slow", "good">>, <<"good", "fatal">>}
=============================================================================
