------------------------------- MODULE PLIC -------------------------------
(***************************************************************************)
(* The external interrupts, peripheral/PLIC.scala and RegMap.scala: the    *)
(* sources 1 .. NrIntr of one pending word, one context.  Like CLINT it is *)
(* always ready and answers with a pulse.                                  *)
(***************************************************************************)
EXTENDS Integers, FiniteSets

CONSTANT NrIntr  \* interrupt sources

ASSUME NrIntrAssumption == NrIntr \in 1 .. 31

Sources == 1 .. NrIntr
Bits(d) == {i \in 0 .. NrIntr : (d \div 2^i) % 2 = 1}

PlicInit == [priority |-> 0, pending |-> {}, enable |-> {}, threshold |-> 0,
             inHandle |-> {}, claimCompletion |-> 0, arReg |-> "none", rdata |-> {},
             rValid |-> FALSE, bValid |-> FALSE]

\* A word as the set of its one bits.
PlicRead(p, reg) ==
  CASE reg = "priority" -> Bits(p.priority)
    [] reg = "pending" -> p.pending
    [] reg = "enable" -> p.enable
    [] reg = "threshold" -> Bits(p.threshold)
    [] reg = "claim" -> Bits(p.claimCompletion)
    [] OTHER -> {}

\* PriorityEncoder of pending and enabled, 0 when there is none.
Lowest(S) == IF S = {} THEN 0 ELSE CHOOSE i \in S : \A j \in S : i <= j

\* One edge: `wires' is the register the read address names in this cycle, read
\* or not, and rdata lags it by two.  The test for a claim compares the whole
\* address with an offset, so no claim is ever seen; inHandle is cleared by a
\* completion and set by nothing.  A store needs W only, and one to claim
\* overrides the encoder.
PlicEdge(p, intr, arFire, wires, awFire, wFire, waddr, wdata) ==
  LET reg == IF wFire THEN waddr ELSE "none"
  IN [priority |-> IF reg = "priority" THEN wdata ELSE p.priority,
      pending |-> (p.pending \cup intr) \ p.inHandle,
      enable |-> IF reg = "enable" THEN Bits(wdata) ELSE p.enable,
      threshold |-> IF reg = "threshold" THEN wdata ELSE p.threshold,
      inHandle |-> IF reg = "claim" THEN p.inHandle \ {wdata} ELSE p.inHandle,
      claimCompletion |-> IF reg = "claim" THEN 0 ELSE Lowest(p.pending \cap p.enable),
      arReg |-> wires,
      rdata |-> IF arFire THEN PlicRead(p, p.arReg) ELSE {},
      rValid |-> arFire,
      bValid |-> awFire /\ wFire]

Meip(p) == p.claimCompletion # 0
=============================================================================
