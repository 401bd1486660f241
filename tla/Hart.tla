-------------------------------- MODULE Hart --------------------------------
(***************************************************************************)
(* What the core promises a program: instructions are executed one at a    *)
(* time in program order, each reading the registers the ones before it    *)
(* wrote, and traps are precise.  It is the machine the simulation steps   *)
(* beside the core and compares with it (csrc/cpu/dut.cc).                 *)
(***************************************************************************)
EXTENDS Naturals

CONSTANTS
  Last,      \* addresses are 0..Last
  Programs,  \* the programs, functions from addresses to instructions
  Mtvec,     \* the address of the trap handler
  Regs,      \* the general registers in use, without x0
  MaxWord    \* words are 0..MaxWord

VARIABLES prog, pc, regs, mie, mpie, mepc

vars == <<prog, pc, regs, mie, mpie, mepc>>

PCs == 0 .. Last
Word == 0 .. MaxWord
Instruction ==
  [ op : {"ALU", "LOAD", "MUL", "DIV", "JMP", "BNZ", "SETMIE", "SETMEPC", "FENCEI",
          "ECALL", "MISALIGNED", "MRET"},
    rd : Regs \cup {0}, rs : Regs \cup {0}, target : PCs ]

\* A program that reaches its last instruction repeats it.
Succ(p) == IF p < Last THEN p + 1 ELSE p

Read(r, x) == IF x = 0 THEN 0 ELSE r[x]
Result(v) == (v + 1) % (MaxWord + 1)
Computes(i) == i.op \in {"ALU", "LOAD", "MUL", "DIV"}
Traps(i) == i.op \in {"ECALL", "MISALIGNED"}
Branches(i) == i.op \in {"JMP", "BNZ"}
Taken(i, v) == i.op = "JMP" \/ (i.op = "BNZ" /\ v # 0)

\* Where the program goes on after instruction i at p, its operand being v.
After(i, p, v) ==
  CASE Traps(i) -> Mtvec
    [] i.op = "MRET" -> mepc
    [] Taken(i, v) -> i.target
    [] OTHER -> Succ(p)

Init ==
  /\ prog \in Programs
  /\ pc = 0
  /\ regs = [x \in Regs |-> 0]
  /\ mie = FALSE
  /\ mpie = FALSE
  /\ mepc = 0

Trap ==
  /\ pc' = Mtvec
  /\ mepc' = pc
  /\ mpie' = mie
  /\ mie' = FALSE
  /\ UNCHANGED regs

Execute(i, v) ==
  /\ pc' = After(i, pc, v)
  /\ regs' = IF Computes(i) THEN [regs EXCEPT ![i.rd] = Result(v)] ELSE regs
  /\ mie' = CASE i.op = "MRET" -> mpie [] i.op = "SETMIE" -> TRUE [] OTHER -> mie
  /\ mpie' = (i.op = "MRET" \/ mpie)
  /\ mepc' = IF i.op = "SETMEPC" THEN i.target ELSE mepc

Step ==
  LET i == prog[pc] IN
  IF Traps(i) THEN Trap ELSE Execute(i, Read(regs, i.rs))

Interrupt == mie /\ Trap

Next == (Step \/ Interrupt) /\ UNCHANGED prog

Spec == Init /\ [][Next]_vars
=============================================================================
