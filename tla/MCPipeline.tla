---------------------------- MODULE MCPipeline ----------------------------
(***************************************************************************)
(* The programs the pipeline is checked with.  Each starts at 0 with a     *)
(* jump over the trap handler at 1 and ends in a jump back into its loop.  *)
(***************************************************************************)
EXTENDS Pipeline, Sequences

Do(op, rd, rs) == [op |-> op, rd |-> rd, rs |-> rs, target |-> 0]
Go(op, rs, target) == [op |-> op, rd |-> 0, rs |-> rs, target |-> target]
Sys(op) == Do(op, 0, 0)
Program(s) == [n \in 0 .. Len(s) - 1 |-> s[n + 1]]

\* Straight-line code, branches and traps: two free places in a loop.  What
\* stands behind a trap is killed: after ECALL before it comes into EXE, after
\* a misaligned load in EXE (a division there is left to StaleQuotient).  A
\* FENCEI behind something else is left to Loops.
Free == { Do("LOAD", 1, 2), Do("MUL", 1, 1), Do("DIV", 2, 1), Go("BNZ", 1, 6),
          Sys("ECALL"), Sys("MISALIGNED"), Sys("FENCEI") }
Order(a, b) == Program(<< Go("JMP", 0, 4),
  Do("LOAD", 1, 1), Go("SETMEPC", 0, 7), Sys("MRET"),
  a, b, Do("ALU", 2, 1), Go("JMP", 0, 4) >>)
Orders ==
  { Order(s[1], s[2]) :
      s \in { t \in Free \X Free :
              /\ t[1] # t[2] /\ t[2].op # "FENCEI"
              /\ t[1].op = "ECALL" => t[2].op \in {"DIV", "BNZ"}
              /\ t[1].op = "MISALIGNED" => t[2].op \in {"MUL", "BNZ"}
              /\ t[1].op = "FENCEI" => t[2].op \in {"LOAD", "BNZ", "ECALL"} } }

\* Interruptible loops without divisions, jumps in the loop or traps.
Plain == { Do("LOAD", 1, 2), Do("ALU", 2, 1), Do("MUL", 1, 2), Sys("FENCEI") }
Loop(a, b) == Program(<< Go("JMP", 0, 3), Do("ALU", 2, 2), Sys("MRET"),
  Sys("SETMIE"), a, b, Do("ALU", 1, 2) >>)
Loops == { Loop(s[1], s[2]) :
  s \in { t \in Plain \X Plain : t[1] # t[2] /\ t[1].op \in {"LOAD", "MUL"} } }

StaleQuotient == { Program(<< Go("JMP", 0, 3), Do("DIV", 2, 2), Sys("MRET"),
  Sys("SETMIE"), Do("DIV", 1, 1), Do("ALU", 2, 1), Do("ALU", 1, 2) >>) }
LostJump == { Program(<< Go("JMP", 0, 4), Go("BNZ", 2, 2), Do("LOAD", 2, 2), Sys("MRET"),
  Sys("SETMIE"), Do("LOAD", 1, 1), Go("JMP", 0, 5), Do("ALU", 1, 1) >>) }
TrapLost == { Program(<< Go("JMP", 0, 3), Do("ALU", 2, 2), Sys("MRET"),
  Sys("SETMIE"), Sys("ECALL"), Do("ALU", 1, 1), Do("ALU", 2, 1) >>) }

\* With 4 words told apart the load at 4 is taken for the jump at 0.
AliasedLoad == { Program(<< Go("JMP", 0, 4), Do("ALU", 2, 2), Sys("MRET"), Sys("MRET"),
  Do("LOAD", 1, 1), Do("ALU", 2, 1) >>) }
=============================================================================
