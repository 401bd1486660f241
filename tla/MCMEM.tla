------------------------------- MODULE MCMEM -------------------------------
(***************************************************************************)
(* The instructions MEM is checked with: each kind on one address, a       *)
(* reservation of another one, and misaligned ones.                        *)
(***************************************************************************)
EXTENDS MEM

I(op, addr, src) == [op |-> op, addr |-> addr, src |-> src, aligned |-> TRUE]
Misaligned(i) == [i EXCEPT !.aligned = FALSE]

MCInsts ==
  { I("ALU", 1, 1), I("LOAD", 1, 0), I("STORE", 1, 1),
    I("LR", 1, 0), I("LR", 2, 0), I("SC", 1, 1),
    I("AMOADD", 1, 1), I("AMOSWAP", 1, 0) }
  \cup { Misaligned(i) : i \in {I("LOAD", 1, 0), I("AMOADD", 1, 1)} }
=============================================================================
