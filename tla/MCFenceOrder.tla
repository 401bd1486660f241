---------------------------- MODULE MCFenceOrder ----------------------------
(***************************************************************************)
(* A program of two lines that stores to one of its own words.             *)
(***************************************************************************)
EXTENDS FenceOrder

L(t) == [tag |-> t, index |-> 0]
MCAddress == [line : {L(1), L(2)}, word : {0, 1}]
MCBurstable == {L(1), L(2)}
MCStored == {[line |-> L(1), word |-> 1]}
=============================================================================
