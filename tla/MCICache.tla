------------------------------ MODULE MCICache ------------------------------
(***************************************************************************)
(* Three lines that share an index of two ways, and one beside them; the   *)
(* program stores to a word of a line that is refilled by a burst.         *)
(***************************************************************************)
EXTENDS ICache

L(t, i) == [tag |-> t, index |-> i]
At(l, o) == [line |-> l, word |-> o]
MCAddress == {At(L(1, 0), 0), At(L(1, 0), 1), At(L(2, 0), 0), At(L(3, 0), 1)}
MCBurstable == {L(1, 0), L(1, 1)}
MCStored == {At(L(1, 0), 1)}
=============================================================================
