---------------------------- MODULE AtomicMemory ----------------------------
(***************************************************************************)
(* What the MEM stage promises the rest of the core: the instructions      *)
(* handed to it take effect one at a time, each exactly once and as one    *)
(* indivisible step on memory, the reservation and the write-back result.  *)
(***************************************************************************)
EXTENDS Naturals

CONSTANTS Addr, Word, Insts

VARIABLES
  cur,   \* the instruction handed over and not yet executed, or the nop
  mem,   \* memory as the program sees it
  resv,  \* the reserved address, 0 when there is none
  out    \* the last instruction's outcome; turn flips with each of them

Nop == [op |-> "NOP", addr |-> 0, src |-> 0, aligned |-> TRUE]

Loads == {"LOAD", "LR"}
Stores == {"STORE", "SC"}
Amos == {"AMOSWAP", "AMOADD"}

\* The two AMO computations kept apart, on words 0..Max of the model.
AmoResult(op, old, src) ==
  IF op = "AMOSWAP" THEN src ELSE (old + src) % (1 + CHOOSE m \in Word : \A x \in Word : x <= m)

ScFails(i, r) == i.op = "SC" /\ r # i.addr
Traps(i) == i.op \in Loads \cup Stores \cup Amos /\ ~i.aligned

\* The value an instruction leaves for its destination register.
Result(i, m, r) ==
  IF i.op \in Loads \cup Amos THEN m[i.addr]
  ELSE IF i.op = "SC" THEN IF ScFails(i, r) THEN 1 ELSE 0
  ELSE i.src

WritesReg(i) == i.op # "STORE" /\ ~Traps(i)

Memory(i, m, r) ==
  IF Traps(i) \/ ScFails(i, r) THEN m
  ELSE IF i.op \in Stores THEN [m EXCEPT ![i.addr] = i.src]
  ELSE IF i.op \in Amos
       THEN [m EXCEPT ![i.addr] = AmoResult(i.op, m[i.addr], i.src)]
  ELSE m

Reservation(i, r) ==
  IF Traps(i) THEN r
  ELSE IF i.op = "LR" THEN i.addr ELSE IF i.op = "SC" THEN 0 ELSE r

Outcome(i, m, r, turn) ==
  [ trap |-> Traps(i), regWrite |-> WritesReg(i), turn |-> turn,
    data |-> IF WritesReg(i) THEN Result(i, m, r) ELSE 0 ]

Init ==
  /\ cur = Nop
  /\ mem \in [Addr -> Word]
  /\ resv = 0
  /\ out = [trap |-> FALSE, regWrite |-> FALSE, turn |-> 0, data |-> 0]

Take ==
  /\ cur = Nop
  /\ cur' \in Insts
  /\ UNCHANGED <<mem, resv, out>>

\* An instruction that traps takes the one behind it along.
Execute ==
  /\ cur # Nop
  /\ mem' = Memory(cur, mem, resv)
  /\ resv' = Reservation(cur, resv)
  /\ out' = Outcome(cur, mem, resv, 1 - out.turn)
  /\ cur' \in IF Traps(cur) THEN {Nop} ELSE Insts \cup {Nop}

Next == Take \/ Execute

Spec == Init /\ [][Next]_<<cur, mem, resv, out>>
=============================================================================
