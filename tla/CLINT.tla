------------------------------- MODULE CLINT -------------------------------
(***************************************************************************)
(* The timer and software interrupts, peripheral/CLINT.scala, as a record  *)
(* of its registers and the record one clock edge makes of it.  It is      *)
(* always ready and answers with a pulse of one cycle.                     *)
(***************************************************************************)
EXTENDS Integers

CONSTANT Half  \* 2^32: one past the largest word

ASSUME HalfAssumption == Half \in Nat \ {0}

ClintInit == [msip |-> 0, mtimecmp |-> Half * Half - 1, mtime |-> 0, rdata |-> 0,
              rValid |-> FALSE, bValid |-> FALSE, msipOut |-> FALSE, mtipOut |-> FALSE]

Low(x) == x % Half
High(x) == x \div Half

\* What a register reads as; other offsets of the range read as 0.
ClintRead(c, reg) ==
  CASE reg = "msip" -> c.msip
    [] reg = "mtimecmp" -> Low(c.mtimecmp)
    [] reg = "mtimecmph" -> High(c.mtimecmp)
    [] reg = "mtime" -> Low(c.mtime)
    [] reg = "mtimeh" -> High(c.mtime)
    [] OTHER -> 0

\* A store to one half keeps the other; what is not written is x.
Halves(low, high, x, old, reg, d) ==
  IF reg = low THEN High(old) * Half + d
  ELSE IF reg = high THEN d * Half + Low(old) ELSE x

\* mtip with the comparison latched: the flag never falls again.
MtipLatched(c) == c.mtipOut \/ c.mtimecmp < c.mtime
Mtip(c) == c.mtimecmp < c.mtime

\* One edge: raddr and waddr name the registers addressed; the access counts
\* only when its handshakes fire, AW and W together.  rdata is kept only
\* where r.valid shows it.
ClintEdge(c, arFire, raddr, awFire, wFire, waddr, wdata) ==
  LET d == wdata % Half
      writes == awFire /\ wFire
      reg == IF writes THEN waddr ELSE "none"
  IN [msip |-> IF reg = "msip" THEN d ELSE c.msip,
      mtimecmp |-> Halves("mtimecmp", "mtimecmph", c.mtimecmp, c.mtimecmp, reg, d),
      mtime |-> Halves("mtime", "mtimeh", (c.mtime + 1) % (Half * Half), c.mtime, reg, d),
      rdata |-> IF arFire THEN ClintRead(c, raddr) ELSE 0,
      rValid |-> arFire,
      bValid |-> writes,
      msipOut |-> c.msip % 2 = 1,
      mtipOut |-> Mtip(c)]
=============================================================================
