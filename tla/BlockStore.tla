----------------------------- MODULE BlockStore -----------------------------
(***************************************************************************)
(* What src/newlib/myfs.c promises about the blocks of the device: each is *)
(* free or is one block of one file, a place in a file is given a free     *)
(* block when it has none, and a block changes hands only by way of being  *)
(* free.  There is no superblock, no ring and no lock.                     *)
(***************************************************************************)
CONSTANTS Blocks, Places, Free

VARIABLE owner      \* the place in a file each block is used for, or Free

Init == owner = [b \in Blocks |-> Free]

Take(b, p) ==
    /\ owner[b] = Free
    /\ \A c \in Blocks : owner[c] # p
    /\ owner' = [owner EXCEPT ![b] = p]

Release(b) == owner' = [owner EXCEPT ![b] = Free]

Next == \E b \in Blocks : Release(b) \/ \E p \in Places : Take(b, p)

Spec == Init /\ [][Next]_owner
=============================================================================
