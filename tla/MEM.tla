-------------------------------- MODULE MEM --------------------------------
(***************************************************************************)
(* The memory stage of the pipeline (core/MEM.scala): its request state    *)
(* machine for loads, stores, LR/SC and AMOs, the reservation, and the     *)
(* hasFired/nop protocol that keeps an instruction from reaching WB twice. *)
(* One Cycle is one clock edge.  Behind it stand the data port of the      *)
(* arbiter and a word memory; before it the EXE stage.                     *)
(*                                                                         *)
(* StageConnect (Core.scala) registers only the bits of a stage: valid is  *)
(* the EXE stage's present valid, so the stage may hold an instruction     *)
(* while its own fromEXE.valid is low.                                     *)
(*                                                                         *)
(* RRespFireFree, DoneButSC, ReservationNextKept and AmoNextWide are the   *)
(* definitions after them with a bug planted (README, "Planted bugs").     *)
(***************************************************************************)
EXTENDS Naturals

CONSTANTS
  Addr,   \* word addresses, without the reset value 0 of reservation
  Word,   \* the values of a word
  Insts   \* the instructions EXE may hand over

VARIABLES
  inst,       \* the bits register between EXE and MEM
  state, reservation, hasFired,
  amoReadData, amoAluResReg, amoRegWriteDataReg,
  bus,        \* the request at the slave and its answer
  mem,        \* the memory behind the bus
  out,        \* the bits register between MEM and WB
  prior       \* history: memory and reservation when inst came in, and the
              \* requests it has made since

vars == <<inst, state, reservation, hasFired, amoReadData, amoAluResReg,
          amoRegWriteDataReg, bus, mem, out, prior>>

A == INSTANCE AtomicMemory
       WITH cur <- IF hasFired THEN [op |-> "NOP", addr |-> 0, src |-> 0, aligned |-> TRUE]
                   ELSE inst,
            mem <- IF hasFired THEN mem ELSE prior.mem,
            resv <- IF hasFired THEN reservation ELSE prior.resv

Nop == A!Nop
State == {"IDLE", "WAIT_RESP", "AMO_WAIT_READ_RESP", "AMO_CALC",
          "AMO_LAUNCH_WRITE_REQ", "AMO_WAIT_WRITE_RESP"}
NoBus == [st |-> "none", wr |-> FALSE, addr |-> 0, data |-> 0]

ASSUME MEMAssumption ==
  /\ Addr \subseteq Nat \ {0}
  /\ {0, 1} \subseteq Word /\ Word \subseteq Nat
  /\ \E m \in Word : Word = 0 .. m
  /\ Insts \subseteq [op : {"ALU"} \cup A!Loads \cup A!Stores \cup A!Amos,
                      addr : Addr, src : Word, aligned : BOOLEAN]

-----------------------------------------------------------------------------
ren == inst.op \in A!Loads \cup A!Amos
wen == inst.op \in A!Stores \cup A!Amos
fuTypeAMO == inst.op \in {"LR", "SC"} \cup A!Amos
isSC == inst.op = "SC"
access == (ren \/ wen) /\ inst.aligned
scFails == isSC /\ reservation # inst.addr

\* What the surroundings do in a cycle: EXE's valid, the port's ready, the
\* slave's answer, and the read data wires while no answer is on them.
Env == [exeValid : BOOLEAN, reqReady : BOOLEAN, answer : BOOLEAN, junk : Word]

ReqValid == \/ state = "IDLE" /\ access /\ ~scFails
            \/ state = "AMO_LAUNCH_WRITE_REQ"
ReqWr == state = "AMO_LAUNCH_WRITE_REQ" \/ (~ren /\ wen)
ReqData == IF state = "AMO_LAUNCH_WRITE_REQ" THEN amoAluResReg ELSE inst.src
ReqFire(e) == ReqValid /\ e.reqReady

RValid == bus.st = "answered" /\ ~bus.wr
WValid == bus.st = "answered" /\ bus.wr
RData(e) == IF RValid THEN bus.data ELSE e.junk

RRespFireFree(e) ==
  RValid /\ state \in {"WAIT_RESP", "AMO_WAIT_READ_RESP"}
RRespFire(e) == RValid /\ \/ state = "WAIT_RESP" /\ e.exeValid
                          \/ state = "AMO_WAIT_READ_RESP"
WRespFire(e) == /\ WValid
                /\ state \in {"WAIT_RESP", "AMO_WAIT_WRITE_RESP"}
                /\ e.exeValid

\* toWB.valid and fromEXE.ready are driven alike in every state.
DoneButSC == CASE state = "IDLE" -> ~access
               [] state = "WAIT_RESP" -> RValid \/ WValid
               [] state = "AMO_WAIT_WRITE_RESP" -> WValid
               [] OTHER -> FALSE
Done == CASE state = "IDLE" -> ~access \/ scFails
          [] state = "WAIT_RESP" -> RValid \/ WValid
          [] state = "AMO_WAIT_WRITE_RESP" -> WValid
          [] OTHER -> FALSE

FromEXEFire(e) == e.exeValid /\ Done

\* EXE turns its instruction into a nop while this is up.
flush2EXE == (ren \/ wen) /\ ~inst.aligned

amoRegWriteData(e) ==
  CASE state = "IDLE" /\ access /\ isSC -> IF scFails THEN 1 ELSE 0
    [] state = "WAIT_RESP" /\ inst.op = "LR" -> RData(e)
    [] state = "WAIT_RESP" /\ isSC -> 0
    [] OTHER -> amoRegWriteDataReg

regWdata(e) ==
  IF fuTypeAMO THEN amoRegWriteData(e) ELSE IF ren THEN RData(e) ELSE inst.src

regWrite == IF ren THEN inst.aligned ELSE inst.op # "STORE"
nop == inst = Nop \/ hasFired

-----------------------------------------------------------------------------
StateNext(e) ==
  state' = CASE state = "IDLE" ->
                  IF ~ReqFire(e) THEN "IDLE"
                  ELSE IF ren /\ wen THEN "AMO_WAIT_READ_RESP" ELSE "WAIT_RESP"
             [] state = "WAIT_RESP" ->
                  IF RRespFire(e) \/ WRespFire(e) THEN "IDLE" ELSE state
             [] state = "AMO_WAIT_READ_RESP" ->
                  IF RRespFire(e) THEN "AMO_CALC" ELSE state
             [] state = "AMO_CALC" -> "AMO_LAUNCH_WRITE_REQ"
             [] state = "AMO_LAUNCH_WRITE_REQ" ->
                  IF ReqFire(e) THEN "AMO_WAIT_WRITE_RESP" ELSE state
             [] state = "AMO_WAIT_WRITE_RESP" ->
                  IF WRespFire(e) THEN "IDLE" ELSE state

ReservationNextKept(e) ==
  reservation' = IF state = "WAIT_RESP" /\ inst.op = "LR" THEN inst.addr ELSE reservation
ReservationNext(e) ==
  reservation' =
    IF state = "IDLE" /\ access /\ isSC /\ (Done \/ ReqFire(e)) THEN 0
    ELSE IF state = "WAIT_RESP" /\ inst.op = "LR" THEN inst.addr
    ELSE reservation

AmoNextWide(e) ==
  /\ amoReadData' = RData(e)
  /\ amoAluResReg' = IF state = "AMO_CALC" THEN amoReadData + inst.src ELSE amoAluResReg
  /\ amoRegWriteDataReg' = amoRegWriteDataReg
AmoNext(e) ==
  /\ amoReadData' = RData(e)
  /\ amoAluResReg' = IF state = "AMO_CALC"
                     THEN A!AmoResult(inst.op, amoReadData, inst.src)
                     ELSE amoAluResReg
  /\ amoRegWriteDataReg' =
       IF state = "AMO_WAIT_READ_RESP" /\ RRespFire(e) THEN RData(e)
       ELSE IF fuTypeAMO THEN amoRegWriteData(e) ELSE amoRegWriteDataReg

\* RegEnable(false, toWB.fire && fromEXE.fire), set by a toWB.fire alone.
HasFiredNext(e) == hasFired' = (IF Done THEN ~FromEXEFire(e) ELSE hasFired)

InstNext(e) ==
  inst' \in IF ~FromEXEFire(e) THEN {inst}
           ELSE IF flush2EXE THEN {Nop} ELSE Insts \cup {Nop}

OutNext(e) ==
  out' = IF Done /\ ~nop
         THEN [ trap |-> flush2EXE, regWrite |-> regWrite, turn |-> 1 - out.turn,
                data |-> IF regWrite THEN regWdata(e) ELSE 0 ]
         ELSE out

PriorNext(e) ==
  prior' = IF FromEXEFire(e)
           THEN [mem |-> mem', resv |-> reservation', reads |-> 0, writes |-> 0]
           ELSE [prior EXCEPT
                   !.reads = IF ReqFire(e) /\ ~ReqWr THEN @ + 1 ELSE @,
                   !.writes = IF ReqFire(e) /\ ReqWr THEN @ + 1 ELSE @]

\* The slave takes a request, then performs and answers it; the answer
\* stays until the stage takes it.
BusNext(e) ==
  LET answers == bus.st = "pending" /\ e.answer IN
  /\ bus' = IF ReqFire(e)
            THEN [st |-> "pending", wr |-> ReqWr, addr |-> inst.addr, data |-> ReqData]
            ELSE IF answers
            THEN [bus EXCEPT !.st = "answered",
                             !.data = IF bus.wr THEN 0 ELSE mem[bus.addr]]
            ELSE IF RRespFire(e) \/ WRespFire(e) THEN NoBus ELSE bus
  /\ mem' = IF answers /\ bus.wr THEN [mem EXCEPT ![bus.addr] = bus.data] ELSE mem

Init ==
  /\ inst = Nop
  /\ state = "IDLE"
  /\ reservation = 0
  /\ hasFired = FALSE
  /\ amoReadData = 0
  /\ amoAluResReg = 0
  /\ amoRegWriteDataReg = 0
  /\ bus = NoBus
  /\ mem \in [Addr -> Word]
  /\ out = [trap |-> FALSE, regWrite |-> FALSE, turn |-> 0, data |-> 0]
  /\ prior = [mem |-> mem, resv |-> 0, reads |-> 0, writes |-> 0]

Cycle(e) ==
  /\ flush2EXE => e.exeValid        \* a nop in EXE never waits
  /\ StateNext(e)
  /\ ReservationNext(e)
  /\ AmoNext(e)
  /\ HasFiredNext(e)
  /\ InstNext(e)
  /\ OutNext(e)
  /\ BusNext(e)
  /\ PriorNext(e)

Next == \E e \in Env : Cycle(e)

(***************************************************************************)
(* The clock ticks, the port accepts, the slave answers, and EXE becomes   *)
(* valid again (a division ends, a redirected fetch is accepted).          *)
(***************************************************************************)
Fairness ==
  /\ WF_vars(Next)
  /\ WF_vars(\E e \in Env : ReqFire(e) /\ Cycle(e))
  /\ WF_vars(\E e \in Env : bus.st = "pending" /\ e.answer /\ Cycle(e))
  /\ WF_vars(\E e \in Env : FromEXEFire(e) /\ Cycle(e))

Spec == Init /\ [][Next]_vars
FairSpec == Spec /\ Fairness

-----------------------------------------------------------------------------
\* The registers hold what their width and enumeration allow.
TypeOK ==
  /\ inst \in Insts \cup {Nop}
  /\ state \in State
  /\ reservation \in Addr \cup {0}
  /\ hasFired \in BOOLEAN
  /\ {amoReadData, amoAluResReg, amoRegWriteDataReg} \subseteq Word
  /\ bus \in [st : {"none", "pending", "answered"}, wr : BOOLEAN,
             addr : Addr \cup {0}, data : Word]
  /\ mem \in [Addr -> Word]
  /\ out \in [trap : BOOLEAN, regWrite : BOOLEAN, turn : {0, 1}, data : Word]
  /\ prior \in [mem : [Addr -> Word], resv : Addr \cup {0},
               reads : Nat, writes : Nat]

(***************************************************************************)
(* The stage makes no bus access twice, however long EXE leaves a          *)
(* finished instruction in it: devices behind the bus would notice.  When  *)
(* the instruction has gone to WB it has made exactly its own accesses     *)
(* (the ready lines of WAIT_RESP and AMO_WAIT_WRITE_RESP wait for          *)
(* fromEXE.valid for this, MEM.scala:173, 174, 220).                       *)
(***************************************************************************)
AccessesOnce ==
  /\ prior.reads <= 1 /\ prior.writes <= 1
  /\ hasFired =>
       /\ prior.reads = (IF access /\ ren THEN 1 ELSE 0)
       /\ prior.writes = (IF access /\ wen /\ (isSC => prior.resv = inst.addr)
                         THEN 1 ELSE 0)

(***************************************************************************)
(* The stage does to memory, the reservation and the result what one       *)
(* indivisible instruction after the other would do (AtomicMemory).        *)
(***************************************************************************)
Atomic == A!Spec

(***************************************************************************)
(* Every instruction handed over reaches WB: no state of the machine waits *)
(* for an answer to a request it never made, or for EXE and EXE for it.    *)
(***************************************************************************)
Retires ==
  \A t \in {0, 1} :
    (inst # Nop /\ ~hasFired /\ out.turn = t) ~> (out.turn = 1 - t)
=============================================================================
