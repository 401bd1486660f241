------------------------------ MODULE Pipeline ------------------------------
(***************************************************************************)
(* The five stages of the core together (core/Core.scala, IF, ID, EXE, MEM *)
(* and WB.scala, BypassNetwork.scala, Divider.scala) with the trap unit of *)
(* CSRRegFile.scala.  One Cycle is one clock edge.  The instruction cache, *)
(* the branch predictor, the data memory and the interrupt line are what   *)
(* a cycle's input e makes of them; MEM keeps of MEM.scala what the other  *)
(* stages see (module MEM has the rest).                                   *)
(*                                                                         *)
(* The multiplier and the divider are those of the simulation build        *)
(* (FPGAPlatform = false).  intrCmdInFlight, raiseIntrOnce, ReqFireKilled, *)
(* mulOrDivUnmasked, toIDValidEarly, arAddrOfPC and stallOnMEM are the     *)
(* definitions after them with a bug planted                               *)
(* (README, "Planted bugs").                                               *)
(*                                                                         *)
(* StageConnect registers a stage's bits when the stage before it fires;   *)
(* valid and ready pass through, so all of a cycle's handshakes depend on  *)
(* one another.  The wires are defined from MEM back to IF.                *)
(*                                                                         *)
(* An instruction word is named by the address it was fetched from: the    *)
(* field inst.  It differs from pc when a stage holds a word under another *)
(* instruction's address.                                                  *)
(***************************************************************************)
EXTENDS Naturals

CONSTANTS
  Last, Programs, Mtvec, Regs, MaxWord,   \* as in Hart
  Levels,    \* the levels the interrupt line takes
  BtbWords   \* how many words the predictor's tags tell apart

VARIABLES
  prog,   \* the program in memory
  ifs,    \* PC, the prediction for it, reqFired, instGetted and instReg
  fetch,  \* the request in the instruction cache
  id,     \* the bits register before ID, and ID's hasFired
  exe,    \* the one before EXE; jumpBusFired
  mdu,    \* the multiplier and the divider; mulReqFired, divReqFired
  me,     \* the bits register before MEM, MEM's hasFired and state
  wb,     \* the bits register before WB
  regs,   \* RegFiles
  intr,   \* the interrupt line
  csr,    \* mstatus.mie, mstatus.mpie, mepc, hadInterrupt and flushQ
  pc      \* history: where the program goes on after what EXE has issued

vars == <<prog, ifs, fetch, id, exe, mdu, me, wb, regs, intr, csr, pc>>

\* The architectural registers once what is in MEM and WB has drained.
Writes(s) == s.regWrite /\ ~s.nop
Drained ==
  LET meLive == ~me.nop /\ ~me.hasFired
      op(s) == prog[s.inst].op
      System(s) == op(s) \in {"ECALL", "MISALIGNED", "MRET"}
      late == IF meLive /\ System(me) THEN [op |-> op(me), pc |-> me.pc]
              ELSE IF ~wb.nop /\ System(wb) THEN [op |-> op(wb), pc |-> wb.pc]
              ELSE [op |-> "none", pc |-> 0]
      value == IF op(me) = "LOAD" THEN (me.val + 1) % (MaxWord + 1) ELSE me.val
      trap == late.op \in {"ECALL", "MISALIGNED"}
  IN [ regs |-> [x \in Regs |->
                   IF meLive /\ me.regWrite /\ prog[me.inst].rd = x THEN value
                   ELSE IF Writes(wb) /\ prog[wb.inst].rd = x THEN wb.val
                   ELSE regs[x]],
       mepc |-> IF trap THEN late.pc ELSE csr.mepc,
       mie |-> IF trap THEN FALSE ELSE IF late.op = "MRET" THEN csr.mpie ELSE csr.mie,
       mpie |-> IF trap THEN csr.mie ELSE late.op = "MRET" \/ csr.mpie ]

H == INSTANCE Hart WITH regs <- Drained.regs, mie <- Drained.mie,
                        mpie <- Drained.mpie, mepc <- Drained.mepc

PCs == 0 .. Last
Boot == Last + 1                                  \* PC_INIT - 4
Word == 0 .. MaxWord
Next4(p) == IF p = Boot THEN 0 ELSE H!Succ(p)
NoPred == [taken |-> FALSE, target |-> Boot]

\* What the branch predictor may answer for the word at p: what it learnt
\* from a branch there, or from one whose tag is the same.
Predictions(p) ==
  {NoPred} \cup
  UNION { [taken : BOOLEAN, target : {prog[b].target, H!Succ(b)}] :
            b \in {b \in PCs : H!Branches(prog[b]) /\ b % BtbWords = p % BtbWords} }

ASSUME PipelineAssumption ==
  /\ Last \in Nat /\ MaxWord \in Nat \ {0} /\ Regs \subseteq Nat \ {0}
  /\ Mtvec \in PCs
  /\ \A P \in Programs :
       /\ P \in [PCs -> H!Instruction]
       /\ \A p \in PCs : H!Computes(P[p]) <=> P[p].rd # 0
  /\ Levels \subseteq BOOLEAN /\ Levels # {}
  /\ BtbWords \in Nat \ {0}

I(s) == prog[s.inst]
Units == {"MUL", "DIV"}
Csr(i) == i.op \in {"SETMIE", "SETMEPC", "ECALL", "MRET"}
Memory(i) == i.op \in {"LOAD", "MISALIGNED"}

-----------------------------------------------------------------------------
(***************************************************************************)
(* The wires of one cycle.  e.hit: the looked-up word is in the cache;     *)
(* e.refilled, e.loaded, e.computed: a refill, a data access, the units'   *)
(* operations end; e.intr: the interrupt line from the next cycle on.      *)
(***************************************************************************)

\* MEM.  Its toWB.valid and fromEXE.ready are one and the same wire.
LoadWaits == I(me).op = "LOAD" /\ ~me.nop
MemDone == ~LoadWaits \/ me.state = "RESP"
flush2EXE == I(me).op = "MISALIGNED" /\ ~me.nop
\* regWrite is not masked by nop here, and a misaligned load has none.
MemRegWrite == me.regWrite /\ ~flush2EXE
MemRegWdata == IF LoadWaits /\ MemDone THEN H!Result(me.val) ELSE me.val

\* CSRRegFile.
raiseExcep == ~wb.nop /\ H!Traps(I(wb))
mret == ~wb.nop /\ I(wb).op = "MRET"
raiseIntrOnce == intr /\ csr.mie /\ ~csr.hadInterrupt
raiseIntr == intr /\ csr.mie
intrCmdInFlight == ~(exe.nop \/ flush2EXE)
intrCmdValid == ~(exe.nop \/ flush2EXE \/ mdu.MUL.busy \/ mdu.DIV.busy)
takesIntr == raiseIntr /\ intrCmdValid
raiseIntrExcep == raiseExcep \/ takesIntr
redirectValid == csr.flushQ # "none" \/ raiseIntrExcep \/ mret
redirectTo ==
  LET sel == IF csr.flushQ # "none" THEN csr.flushQ
             ELSE IF raiseIntrExcep THEN "mtvec" ELSE "mepc"
  IN IF sel = "mtvec" THEN Mtvec ELSE csr.mepc
interrupt == (raiseIntr \/ csr.hadInterrupt) /\ redirectValid /\ intrCmdValid

\* EXE.
exeNop == exe.nop \/ interrupt \/ flush2EXE
jump == H!Taken(I(exe), exe.val)
redirect == \/ jump # exe.pred.taken
            \/ H!Branches(I(exe)) /\ I(exe).target # exe.pred.target
jumpBusValid ==
  (redirect \/ I(exe).op = "FENCEI" \/ Csr(I(exe))) /\ ~exeNop
jumpTarget == IF jump THEN I(exe).target ELSE Next4(exe.pc)
exeFlush ==
  \/ (jumpBusValid \/ I(exe).op = "ECALL" \/ Csr(I(exe))) /\ ~exeNop
  \/ flush2EXE
\* The multiplier is not asked for a killed instruction, the divider is.
ReqFireKilled(u) == I(exe).op = u /\ ~mdu[u].reqFired /\ ~mdu[u].busy /\ ~exe.nop
ReqFire(u) ==
  /\ I(exe).op = u /\ ~mdu[u].reqFired /\ ~mdu[u].busy
  /\ IF u = "MUL" THEN ~exeNop ELSE ~exe.nop
RespFire(u) == mdu[u].done /\ I(exe).op = u /\ MemDone
mulOrDivUnmasked == I(exe).op \in Units => \E u \in Units : RespFire(u)
mulOrDivValid ==
  I(exe).op \in Units /\ ~exeNop => \E u \in Units : RespFire(u)
\* Of a load this is the address.
ExeRegWdata ==
  CASE I(exe).op \in Units -> mdu[I(exe).op].res
    [] Memory(I(exe)) -> exe.val
    [] OTHER -> H!Result(exe.val)

\* IF.  The cache takes a request when it is idle or answering a hit.
rValid(e) == fetch.st = "finish" \/ (fetch.st = "lookup" /\ e.hit)
arReady(e) == fetch.st = "empty" \/ (fetch.st = "lookup" /\ e.hit)
arFire(e) == ~ifs.reqFired /\ arReady(e)
rFire(e) == rValid(e) /\ ~ifs.instGetted
toIDValidEarly(e) == rFire(e) \/ ifs.instGetted \/ ifs.PC = 0
toIDValid(e) ==
  \/ (rFire(e) \/ ifs.instGetted) /\ (arFire(e) \/ ifs.reqFired)
  \/ ifs.PC = 0                                   \* PC === PC_INIT
npc == IF redirectValid THEN redirectTo
       ELSE IF jumpBusValid THEN jumpTarget
       ELSE IF ifs.pred.taken THEN ifs.pred.target ELSE Next4(ifs.PC)
arAddrOfPC == ifs.PC
arAddr == npc

\* The handshakes.
jumpFire(e) == jumpBusValid /\ toIDValid(e)
exeValid(e) ==
  (jumpFire(e) \/ exe.jumpBusFired \/ ~jumpBusValid) /\ mulOrDivValid
toMEMFire(e) == exeValid(e) /\ MemDone
Issues(e) == toMEMFire(e) /\ ~exeNop

\* BypassNetwork and ID: the newest writer of a source register.
Source ==
  LET rs == I(id).rs IN
  IF rs = 0 THEN "REG"
  ELSE IF exe.regWrite /\ ~exeNop /\ I(exe).rd = rs THEN "EXE"
  ELSE IF MemRegWrite /\ I(me).rd = rs THEN "MEM"
  ELSE IF wb.regWrite /\ I(wb).rd = rs THEN "WB"
  ELSE "REG"
stallOnMEM == Source = "MEM" /\ ~MemDone
stall ==
  \/ Source = "EXE" /\ Memory(I(exe))
  \/ Source = "MEM" /\ ~MemDone
Operand ==
  CASE Source = "EXE" -> ExeRegWdata
    [] Source = "MEM" -> MemRegWdata
    [] Source = "WB" -> wb.val
    [] OTHER -> H!Read(regs, I(id).rs)
flush == exeFlush \/ redirectValid
idNop == id.nop \/ stall \/ id.hasFired \/ flush
toEXEFire(e) == toMEMFire(e)                      \* ID's valid is always up
toIDFire(e) == toIDValid(e) /\ toEXEFire(e) /\ ~stall
redirectFire(e) == redirectValid /\ toIDFire(e) /\ ~ifs.reqFired

-----------------------------------------------------------------------------
IFNext(e) ==
  LET fire == toIDFire(e)
      got == rFire(e)
      asked == arFire(e)
  IN
  /\ \E p \in IF fire THEN Predictions(npc) ELSE {ifs.pred} :
       ifs' = [ PC |-> IF fire THEN npc ELSE ifs.PC, pred |-> p,
                reqFired |-> ~fire /\ (ifs.reqFired \/ asked),
                instGetted |-> ~fire /\ (ifs.instGetted \/ got),
                instReg |-> IF got THEN fetch.addr ELSE ifs.instReg ]
  /\ fetch' = IF asked THEN [st |-> "lookup", addr |-> arAddr]
              ELSE [fetch EXCEPT !.st =
                      CASE got -> "empty"
                        [] @ = "lookup" /\ ~e.hit -> "refill"
                        [] @ = "refill" /\ e.refilled -> "finish"
                        [] OTHER -> @]

IDNext(e) ==
  LET takes == toIDFire(e)
      fired == IF ~toEXEFire(e) THEN id.hasFired
               ELSE ~takes /\ (id.hasFired \/ ~stall)
  IN id' = IF takes
           THEN [pc |-> ifs.PC, nop |-> ifs.PC = Boot \/ flush, hasFired |-> fired,
                 inst |-> IF rFire(e) THEN fetch.addr ELSE ifs.instReg,
                 pred |-> ifs.pred]
           ELSE [id EXCEPT !.hasFired = fired]

EXENext(e) ==
  LET fires == toMEMFire(e)
      nop == idNop
      fired == IF jumpFire(e) THEN ~fires ELSE exe.jumpBusFired
  IN
  exe' = IF fires                                  \* toEXEFire
         THEN [ pc |-> id.pc, inst |-> id.inst, pred |-> id.pred, nop |-> nop,
                regWrite |-> H!Computes(I(id)) /\ ~nop,
                val |-> IF nop THEN 0 ELSE Operand, jumpBusFired |-> fired ]
         ELSE [exe EXCEPT !.jumpBusFired = fired]

MduNext(e) ==
  LET fires == toEXEFire(e) IN
  mdu' = [ u \in Units |->
    [ busy |-> ReqFire(u) \/ (mdu[u].busy /\ ~RespFire(u)),
      done |-> mdu[u].busy /\ ~RespFire(u) /\ (mdu[u].done \/ u \in e.computed),
      res |-> IF ReqFire(u) THEN H!Result(exe.val) ELSE mdu[u].res,
      reqFired |-> ~fires /\ (mdu[u].reqFired \/ ReqFire(u)) ] ]

MEMNext(e) ==
  LET fired == IF MemDone THEN ~exeValid(e) ELSE me.hasFired
      state == IF me.state = "IDLE" /\ LoadWaits /\ e.loaded THEN "RESP"
               ELSE IF me.state = "RESP" /\ exeValid(e) THEN "IDLE" ELSE me.state
  IN me' = IF toMEMFire(e)
           THEN [pc |-> exe.pc, inst |-> exe.inst, nop |-> exeNop, val |-> ExeRegWdata,
                 regWrite |-> exe.regWrite, hasFired |-> fired, state |-> state]
           ELSE [me EXCEPT !.hasFired = fired, !.state = state]

WBNext(e) ==
  /\ wb' = IF MemDone
           THEN LET nop == me.nop \/ me.hasFired IN
                [pc |-> me.pc, inst |-> me.inst, nop |-> nop, val |-> MemRegWdata,
                 regWrite |-> MemRegWrite /\ ~nop]
           ELSE wb
  /\ regs' = IF wb.regWrite THEN [regs EXCEPT ![I(wb).rd] = wb.val] ELSE regs

CSRNext(e) ==
  LET Writing(op) == I(exe).op = op /\ Issues(e) IN
  csr' =
    [ mie |-> IF Writing("SETMIE") THEN TRUE ELSE IF raiseIntrExcep THEN FALSE
              ELSE IF mret THEN csr.mpie ELSE csr.mie,
      mpie |-> IF raiseIntrExcep THEN csr.mie ELSE mret \/ csr.mpie,
      mepc |-> IF Writing("SETMEPC") THEN I(exe).target
               ELSE IF ~raiseIntrExcep THEN csr.mepc
               ELSE IF raiseIntr THEN exe.pc ELSE wb.pc,
      hadInterrupt |-> raiseIntr \/ (csr.hadInterrupt /\ ~redirectFire(e)),
      flushQ |-> IF ~redirectValid \/ redirectFire(e) THEN "none"
                 ELSE IF csr.flushQ # "none" THEN csr.flushQ
                 ELSE IF raiseIntrExcep THEN "mtvec" ELSE "mepc" ]

\* History: what EXE issues decides where the program goes on.
PCNext(e) ==
  pc' = IF takesIntr THEN Mtvec
        ELSE IF Issues(e) THEN H!After(I(exe), exe.pc, exe.val) ELSE pc

\* At reset every stage holds the word 0, which decodes as NOP.
Init ==
  /\ prog \in Programs
  /\ ifs = [PC |-> Boot, pred |-> NoPred, reqFired |-> FALSE, instGetted |-> FALSE,
            instReg |-> 0]
  /\ fetch = [st |-> "empty", addr |-> 0]
  /\ id = [pc |-> 0, inst |-> 0, pred |-> NoPred, nop |-> TRUE, hasFired |-> FALSE]
  /\ exe = [pc |-> 0, inst |-> 0, pred |-> NoPred, nop |-> TRUE, regWrite |-> FALSE,
            val |-> 0, jumpBusFired |-> FALSE]
  /\ mdu = [u \in Units |-> [busy |-> FALSE, done |-> FALSE, res |-> 0, reqFired |-> FALSE]]
  /\ me = [pc |-> 0, inst |-> 0, nop |-> TRUE, val |-> 0, regWrite |-> FALSE,
           hasFired |-> FALSE, state |-> "IDLE"]
  /\ wb = [pc |-> 0, inst |-> 0, nop |-> TRUE, val |-> 0, regWrite |-> FALSE]
  /\ regs = [x \in Regs |-> 0]
  /\ csr = [mie |-> FALSE, mpie |-> FALSE, mepc |-> 0, hadInterrupt |-> FALSE,
            flushQ |-> "none"]
  /\ intr = FALSE
  /\ pc = 0

Cycle(e) ==
  /\ IFNext(e)
  /\ IDNext(e)
  /\ EXENext(e)
  /\ MduNext(e)
  /\ MEMNext(e)
  /\ WBNext(e)
  /\ CSRNext(e)
  /\ PCNext(e)
  /\ intr' = e.intr
  /\ UNCHANGED prog

\* An input nobody looks at in this cycle has one value only.
Bit(seen) == IF seen THEN BOOLEAN ELSE {FALSE}
Env ==
  [ hit : Bit(fetch.st = "lookup"), refilled : Bit(fetch.st = "refill"),
    loaded : Bit(LoadWaits /\ me.state = "IDLE"),
    computed : SUBSET {u \in Units : mdu[u].busy /\ ~mdu[u].done},
    intr : Levels ]

Next == \E e \in Env : Cycle(e)

Spec == Init /\ [][Next]_vars

\* The clock runs, and neither a refill nor a data access nor an operation of
\* a unit lasts for ever: each ends by the input of that name alone.
Fairness ==
  /\ WF_vars(Next)
  /\ []<>(fetch.st # "refill")
  /\ []<>~(LoadWaits /\ me.state = "IDLE")
  /\ \A u \in Units : []<>(mdu[u].busy => mdu[u].done)

FairSpec == Spec /\ Fairness

-----------------------------------------------------------------------------
\* The values the registers hold.
TypeOK ==
  LET Pred == [taken : BOOLEAN, target : PCs \cup {Boot}] IN
  /\ prog \in Programs
  /\ ifs \in [PC : PCs \cup {Boot}, pred : Pred, reqFired : BOOLEAN,
              instGetted : BOOLEAN, instReg : PCs]
  /\ fetch \in [st : {"empty", "lookup", "refill", "finish"}, addr : PCs]
  /\ id \in [pc : PCs \cup {Boot}, inst : PCs, pred : Pred, nop : BOOLEAN,
             hasFired : BOOLEAN]
  /\ exe \in [pc : PCs \cup {Boot}, inst : PCs, pred : Pred, nop : BOOLEAN,
              regWrite : BOOLEAN, val : Word, jumpBusFired : BOOLEAN]
  /\ mdu \in [Units -> [busy : BOOLEAN, done : BOOLEAN, res : Word, reqFired : BOOLEAN]]
  /\ me \in [pc : PCs \cup {Boot}, inst : PCs, nop : BOOLEAN, val : Word,
             regWrite : BOOLEAN, hasFired : BOOLEAN, state : {"IDLE", "RESP"}]
  /\ wb \in [pc : PCs \cup {Boot}, inst : PCs, nop : BOOLEAN, val : Word,
             regWrite : BOOLEAN]
  /\ regs \in [Regs -> Word]
  /\ csr \in [mie : BOOLEAN, mpie : BOOLEAN, mepc : PCs, hadInterrupt : BOOLEAN,
              flushQ : {"none", "mtvec", "mepc"}]
  /\ intr \in Levels \cup {FALSE}
  /\ pc \in PCs

(***************************************************************************)
(* A live instruction of any stage is the word at that stage's pc.  IF     *)
(* drops its PC while a fetch for it is under way, so a redirect must not  *)
(* leave an answer behind that is taken for the new PC's word              *)
(* (IF.scala:97-115, CSRRegFile's flushQ).                                 *)
(***************************************************************************)
WordMatchesPC ==
  \A s \in {id, exe, me, wb} : ~s.nop => s.inst = s.pc

(***************************************************************************)
(* A unit at work, and a redirect already sent, belong to the live         *)
(* instruction in EXE: the answer has no tag, and whatever stands in EXE   *)
(* when it arrives takes it (EXE.scala:162-163, 218-222).                  *)
(***************************************************************************)
NothingOrphaned ==
  /\ \A u \in Units : mdu[u].busy => ~exe.nop /\ I(exe).op = u
  /\ exe.jumpBusFired => ~exe.nop /\ ~(I(exe).op \in Units)

(***************************************************************************)
(* What the core does to the registers, the trap registers and the order   *)
(* of the program is what the reference machine does: dut.cc compares pc   *)
(* and every register after each instruction.                              *)
(***************************************************************************)
Difftest == H!Spec

\* The stages never wait for one another in a circle: the program moves on
\* from every instruction (the death loop cpu-exec.cpp watches for).
NeverStuck == \A p \in PCs : []<>(pc # p \/ H!Succ(p) = p)

\* An interrupt line that stays up is served whenever interrupts are enabled:
\* intrCmd waits for the units and for a live instruction, never for ever.
InterruptServed == (<>[]intr /\ []<>csr.mie) => []<>(pc = Mtvec)
=============================================================================
