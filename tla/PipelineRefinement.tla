------------------------- MODULE PipelineRefinement -------------------------
(***************************************************************************)
(* The pipeline implements the machine of module Hart, whatever the        *)
(* latencies, jumps, traps and interrupts, for as long as the coincidences *)
(* of NoClash stay away, which is where the core goes wrong.               *)
(***************************************************************************)
EXTENDS PipelineProofs

\* An interrupt does not meet an exception in WB, which would hand mepc the
\* pc in EXE (CSRRegFile.scala:190); it does not kill a jump that IF has been
\* told of (EXE.scala:162); and no division is killed, whose quotient would go
\* to another one (EXE.scala:218).  PipeTrapLost.cfg, PipeLostJump.cfg and
\* PipeQuotient.cfg show what happens then.
NoClash ==
  /\ raiseIntr => ~raiseExcep
  /\ takesIntr => ~exe.jumpBusFired
  /\ exeNop /\ ~exe.nop => I(exe).op # "DIV"

\* Without interrupts, and if no program holds both a division and an access
\* that may kill one, they do stay away.
NoInterrupts == Levels = {FALSE}
NoKilledDiv ==
  \A P \in Programs : ~\E p, q \in PCs : P[p].op = "MISALIGNED" /\ P[q].op = "DIV"

-----------------------------------------------------------------------------
(* The inductive invariant.                                                *)

System(s) == I(s).op \in {"ECALL", "MISALIGNED", "MRET"}
IdLive == ~id.nop /\ ~id.hasFired
MeLive == ~me.nop /\ ~me.hasFired

\* A redirect of the trap unit is on its way: its cause is in MEM or in WB, or
\* it waits in flushQ for IF.
InMEM == ~me.nop /\ System(me)
InWB == ~wb.nop /\ System(wb)
Pending == csr.flushQ # "none"
Goes(s) == IF H!Traps(I(s)) THEN Mtvec ELSE csr.mepc

\* A unit works for the live instruction in EXE; a redirect that has been sent
\* is that of the branch in EXE, which IF is about to leave for.
Owned ==
  /\ \A u \in Units :
       /\ mdu[u].busy => /\ ~exe.nop /\ I(exe).op = u /\ ~flush2EXE
                         /\ mdu[u].res = H!Result(exe.val)
       /\ mdu[u].done => mdu[u].busy
  /\ exe.jumpBusFired => /\ ~exe.nop /\ I(exe).op \notin Units /\ Ahead /\ ~Booting
                         /\ takesIntr \/ jumpBusValid

\* Traps are precise: there is one redirect at a time, nothing younger than its
\* cause is live, and the program goes on where the redirect leads.
Precise ==
  /\ InMEM => /\ ~me.hasFired /\ ~InWB /\ ~Pending /\ pc = Goes(me)
              /\ I(me).op = "MISALIGNED" \/ (exe.nop /\ ~IdLive)
  /\ InWB => ~Pending /\ exe.nop /\ me.nop /\ pc = Goes(wb)
  /\ Pending => /\ exe.nop \/ (csr.hadInterrupt /\ csr.flushQ = "mtvec")
                /\ \A u \in Units : ~mdu[u].busy
                /\ pc = IF csr.flushQ = "mtvec" THEN Mtvec ELSE csr.mepc
                /\ csr.flushQ = "mtvec" => ~csr.mie

\* The live instructions in EXE, ID and IF are the next ones of the program,
\* as far as the predictions go.
Foretold(s) == IF s.pred.taken THEN s.pred.target ELSE Next4(s.pc)
Awaited == IF exe.nop THEN pc ELSE Foretold(exe)
InOrder ==
  /\ ifs.PC = Boot => pc = 0
  /\ ~InMEM /\ ~InWB /\ ~Pending =>
       /\ ~exe.nop => exe.pc = pc
       /\ IdLive => id.pc = Awaited
       /\ ifs.PC # Boot => ifs.PC = IF IdLive THEN Foretold(id) ELSE Awaited

\* MEM offers ID the result of an instruction that was killed in EXE, in a
\* cycle in which ID has nothing to read it.
Killed == me.nop /\ me.regWrite => exe.nop /\ (redirectValid \/ ~IdLive)

\* EXE holds the operand as the instructions before it leave it, and what MEM
\* has handed to WB it still forwards.
Settled(x) == IF Writes(wb) /\ I(wb).rd = x THEN wb.val ELSE regs[x]
Forwarded ==
  /\ ~exe.nop /\ H!Computes(I(exe)) => exe.regWrite
  /\ me.regWrite => H!Computes(I(me))
  /\ wb.regWrite => ~wb.nop /\ H!Computes(I(wb))
  /\ me.hasFired => /\ MemDone
                    /\ ~me.nop /\ me.regWrite => Drained.regs[I(me).rd] = MemRegWdata
  /\ ~exe.nop => exe.val = H!Read(Drained.regs, I(exe).rs)

Core == Fetching /\ Owned /\ Precise
IInv == Core /\ InOrder /\ Killed /\ Forwarded

-----------------------------------------------------------------------------
\* Redirects and interrupts in a state of the invariant.
LEMMA Redirects ==
  ASSUME TypeInv, Owned, Precise
  PROVE  /\ takesIntr => interrupt /\ ~InMEM /\ ~InWB /\ ~Pending
         /\ interrupt => ~exe.nop /\ ~flush2EXE /\ (takesIntr \/ Pending)
         /\ redirectValid <=> Pending \/ InWB \/ takesIntr
         /\ raiseIntrExcep <=> raiseExcep \/ takesIntr
         /\ InWB <=> raiseExcep \/ mret
         /\ InMEM \/ InWB \/ Pending \/ takesIntr => exeNop
         /\ ~exeNop => ~redirectValid /\ ~raiseIntrExcep /\ ~mret
         /\ exeNop <=> exe.nop \/ flush2EXE \/ interrupt
         /\ flush2EXE => InMEM
<1>1. TypeOK
  BY DEF TypeInv
<1>2. InWB <=> raiseExcep \/ mret
  BY DEF InWB, System, raiseExcep, mret, H!Traps
<1>3. flush2EXE => InMEM
  BY DEF flush2EXE, InMEM, System
<1>4. InMEM => exe.nop \/ flush2EXE
  BY DEF InMEM, Precise, flush2EXE
<1>5. takesIntr => ~exe.nop /\ ~flush2EXE /\ csr.mie
  BY DEF takesIntr, raiseIntr, intrCmdValid
<1>6. takesIntr => ~InMEM /\ ~InWB
  BY <1>4, <1>5 DEF Precise
<1>7. takesIntr => ~Pending
  BY <1>5 DEF Precise
<1>8. redirectValid <=> Pending \/ InWB \/ takesIntr
  BY <1>2 DEF redirectValid, Pending, raiseIntrExcep
<1>9. takesIntr => interrupt
  BY DEF takesIntr, interrupt, redirectValid, raiseIntrExcep
<1>10. interrupt => ~exe.nop /\ ~flush2EXE
  BY DEF interrupt, intrCmdValid
<1>11. interrupt => takesIntr \/ Pending
  BY <1>8, <1>10 DEF interrupt, Precise
<1>12. Pending => exeNop
  <2>1. SUFFICES ASSUME Pending, ~exe.nop PROVE exeNop
    BY DEF exeNop
  <2>2. csr.hadInterrupt /\ \A u \in Units : ~mdu[u].busy
    BY <2>1 DEF Precise
  <2>3. ~InMEM
    BY <2>1 DEF Precise
  <2>4. intrCmdValid
    BY <1>3, <2>1, <2>2, <2>3 DEF intrCmdValid, Units
  <2> QED BY <1>8, <2>1, <2>2, <2>4 DEF interrupt, exeNop
<1>13. InWB => exeNop
  BY DEF Precise, exeNop
<1>14. InMEM => exeNop
  BY <1>4 DEF exeNop
<1>15. takesIntr => exeNop
  BY <1>9 DEF exeNop
<1>16. raiseIntrExcep <=> raiseExcep \/ takesIntr
  BY DEF raiseIntrExcep
<1>17. ~exeNop => ~redirectValid /\ ~raiseIntrExcep /\ ~mret
  BY <1>2, <1>8, <1>12, <1>13, <1>15, <1>16
<1>18. exeNop <=> exe.nop \/ flush2EXE \/ interrupt
  BY DEF exeNop
<1> QED BY <1>2, <1>3, <1>6, <1>7, <1>8, <1>9, <1>10, <1>11, <1>12, <1>13, <1>14, <1>15,
           <1>16, <1>17, <1>18

\* What is killed in EXE never waits there, and MEM waits for nothing but a
\* live load.
LEMMA Fires ==
  ASSUME NEW e \in Env
  PROVE  /\ exeNop => exeValid(e) /\ ~jumpBusValid /\ ~Issues(e)
         /\ toMEMFire(e) <=> exeValid(e) /\ MemDone
         /\ me.nop \/ InMEM => MemDone
         /\ Issues(e) => toMEMFire(e) /\ ~exeNop
<1>1. exeNop => exeValid(e) /\ ~jumpBusValid /\ ~Issues(e)
  BY DEF exeValid, jumpBusValid, mulOrDivValid, Issues
<1>2. me.nop \/ InMEM => MemDone
  BY DEF MemDone, LoadWaits, InMEM, System
<1> QED BY <1>1, <1>2 DEF toMEMFire, Issues

\* The registers of the stages after a cycle.
LEMMA EXEMoves ==
  ASSUME TypeInv, NEW e \in Env, Cycle(e)
  PROVE  /\ toMEMFire(e) => exe'.val = IF idNop THEN 0 ELSE Operand
         /\ idNop <=> id.nop \/ stall \/ id.hasFired \/ flush
         /\ flush <=> exeFlush \/ redirectValid
         /\ me'.hasFired = IF MemDone THEN ~exeValid(e) ELSE me.hasFired
         /\ toMEMFire(e) => me'.val = ExeRegWdata
         /\ ~toMEMFire(e) => me'.val = me.val /\ (me.state = "RESP" => me'.state = "RESP")
<1>1. /\ exe \in [pc : PCs \cup {Boot}, inst : PCs, pred : Pred, nop : BOOLEAN,
                  regWrite : BOOLEAN, val : Word, jumpBusFired : BOOLEAN]
      /\ me \in [pc : PCs \cup {Boot}, inst : PCs, nop : BOOLEAN, val : Word,
                 regWrite : BOOLEAN, hasFired : BOOLEAN, state : {"IDLE", "RESP"}]
  BY DEF TypeInv, TypeOK, Pred
<1> DEFINE fired == IF jumpFire(e) THEN ~toMEMFire(e) ELSE exe.jumpBusFired
           mefired == IF MemDone THEN ~exeValid(e) ELSE me.hasFired
           state == IF me.state = "IDLE" /\ LoadWaits /\ e.loaded THEN "RESP"
                    ELSE IF me.state = "RESP" /\ exeValid(e) THEN "IDLE" ELSE me.state
<1>2. exe' = IF toMEMFire(e)
             THEN [ pc |-> id.pc, inst |-> id.inst, pred |-> id.pred, nop |-> idNop,
                    regWrite |-> H!Computes(I(id)) /\ ~idNop,
                    val |-> IF idNop THEN 0 ELSE Operand, jumpBusFired |-> fired ]
             ELSE [exe EXCEPT !.jumpBusFired = fired]
  BY DEF Cycle, EXENext
<1>3. me' = IF toMEMFire(e)
            THEN [pc |-> exe.pc, inst |-> exe.inst, nop |-> exeNop, val |-> ExeRegWdata,
                  regWrite |-> exe.regWrite, hasFired |-> mefired, state |-> state]
            ELSE [me EXCEPT !.hasFired = mefired, !.state = state]
  BY DEF Cycle, MEMNext
<1>4. ~toMEMFire(e) /\ me.state = "RESP" => state = "RESP"
  BY DEF toMEMFire, MemDone
<1> HIDE DEF fired, mefired, state
<1>5. toMEMFire(e) => exe'.val = IF idNop THEN 0 ELSE Operand
  BY <1>2
<1>6. /\ me'.hasFired = mefired
      /\ toMEMFire(e) => me'.val = ExeRegWdata
      /\ ~toMEMFire(e) => me'.val = me.val /\ me'.state = state
  BY <1>1, <1>3
<1>7. /\ idNop <=> id.nop \/ stall \/ id.hasFired \/ flush
      /\ flush <=> exeFlush \/ redirectValid
  BY DEF idNop, flush
<1> QED BY <1>4, <1>5, <1>6, <1>7 DEF mefired

\* What a cycle does to the decode stage (ID.scala and the handshake from IF).
LEMMA IDMoves ==
  ASSUME TypeInv, NEW e \in Env, Cycle(e)
  PROVE  /\ toIDFire(e) <=> toIDValid(e) /\ toMEMFire(e) /\ ~stall
         /\ toIDFire(e) => /\ id'.pc = ifs.PC /\ id'.pred = ifs.pred /\ ~id'.hasFired
                           /\ id'.nop <=> ifs.PC = Boot \/ flush
         /\ ~toIDFire(e) => /\ id'.pc = id.pc /\ id'.pred = id.pred /\ id'.inst = id.inst
                            /\ id'.nop = id.nop
                            /\ ~toMEMFire(e) => id'.hasFired = id.hasFired
                            /\ toMEMFire(e) => (id'.hasFired <=> id.hasFired \/ ~stall)
<1>1. id \in [pc : PCs \cup {Boot}, inst : PCs, pred : Pred, nop : BOOLEAN,
              hasFired : BOOLEAN]
  BY DEF TypeInv, TypeOK, Pred
<1> DEFINE fired == IF ~toEXEFire(e) THEN id.hasFired
                    ELSE ~toIDFire(e) /\ (id.hasFired \/ ~stall)
<1>2. id' = IF toIDFire(e)
            THEN [pc |-> ifs.PC, nop |-> ifs.PC = Boot \/ flush, hasFired |-> fired,
                  inst |-> IF rFire(e) THEN fetch.addr ELSE ifs.instReg,
                  pred |-> ifs.pred]
            ELSE [id EXCEPT !.hasFired = fired]
  BY DEF Cycle, IDNext
<1>3. toIDFire(e) <=> toIDValid(e) /\ toMEMFire(e) /\ ~stall
  BY DEF toIDFire, toEXEFire
<1> HIDE DEF fired
<1>4. /\ id'.hasFired = fired
      /\ toIDFire(e) => /\ id'.pc = ifs.PC /\ id'.pred = ifs.pred
                        /\ id'.nop <=> ifs.PC = Boot \/ flush
      /\ ~toIDFire(e) => /\ id'.pc = id.pc /\ id'.pred = id.pred /\ id'.inst = id.inst
                         /\ id'.nop = id.nop
  BY <1>1, <1>2
<1>5. id.hasFired \in BOOLEAN
  BY <1>1
<1> QED BY <1>3, <1>4, <1>5 DEF fired, toEXEFire

\* What it does to the write-back stage and the registers.
LEMMA WBMoves ==
  ASSUME TypeInv, NEW e \in Env, Cycle(e)
  PROVE  /\ MemDone => /\ wb'.pc = me.pc /\ wb'.inst = me.inst /\ wb'.val = MemRegWdata
                       /\ wb'.nop <=> me.nop \/ me.hasFired
                       /\ wb'.regWrite <=> MemRegWrite /\ ~(me.nop \/ me.hasFired)
         /\ ~MemDone => wb' = wb
         /\ regs' = IF wb.regWrite THEN [regs EXCEPT ![I(wb).rd] = wb.val] ELSE regs
         /\ prog' = prog
<1>1. wb' = IF MemDone
            THEN [pc |-> me.pc, inst |-> me.inst, nop |-> me.nop \/ me.hasFired,
                  val |-> MemRegWdata,
                  regWrite |-> MemRegWrite /\ ~(me.nop \/ me.hasFired)]
            ELSE wb
  BY DEF Cycle, WBNext
<1>2. /\ MemDone => /\ wb'.pc = me.pc /\ wb'.inst = me.inst /\ wb'.val = MemRegWdata
                    /\ wb'.nop <=> me.nop \/ me.hasFired
                    /\ wb'.regWrite <=> MemRegWrite /\ ~(me.nop \/ me.hasFired)
      /\ ~MemDone => wb' = wb
  BY <1>1
<1>3. regs' = IF wb.regWrite THEN [regs EXCEPT ![I(wb).rd] = wb.val] ELSE regs
  BY DEF Cycle, WBNext
<1> QED BY <1>2, <1>3 DEF Cycle

\* What it does to the CSRs (CSRRegFile.scala).
LEMMA CSRMoves ==
  ASSUME NEW e \in Env, Cycle(e)
  PROVE  /\ csr'.mie = IF I(exe).op = "SETMIE" /\ Issues(e) THEN TRUE
                       ELSE IF raiseIntrExcep THEN FALSE
                       ELSE IF mret THEN csr.mpie ELSE csr.mie
         /\ csr'.mpie = IF raiseIntrExcep THEN csr.mie ELSE mret \/ csr.mpie
         /\ csr'.mepc = IF I(exe).op = "SETMEPC" /\ Issues(e) THEN I(exe).target
                        ELSE IF ~raiseIntrExcep THEN csr.mepc
                        ELSE IF raiseIntr THEN exe.pc ELSE wb.pc
         /\ csr'.hadInterrupt <=> raiseIntr \/ (csr.hadInterrupt /\ ~redirectFire(e))
         /\ Pending' => /\ redirectValid /\ ~redirectFire(e)
                        /\ csr'.flushQ = IF Pending THEN csr.flushQ
                                         ELSE IF raiseIntrExcep THEN "mtvec" ELSE "mepc"
         /\ redirectValid /\ ~redirectFire(e) => Pending'
         /\ pc' = IF takesIntr THEN Mtvec
                  ELSE IF Issues(e) THEN H!After(I(exe), exe.pc, exe.val) ELSE pc
<1>1. csr'.flushQ = IF ~redirectValid \/ redirectFire(e) THEN "none"
                    ELSE IF csr.flushQ # "none" THEN csr.flushQ
                    ELSE IF raiseIntrExcep THEN "mtvec" ELSE "mepc"
  BY DEF Cycle, CSRNext
<1>2. Pending' <=> csr'.flushQ # "none"
  BY DEF Pending
<1>3. /\ Pending' => /\ redirectValid /\ ~redirectFire(e)
                     /\ csr'.flushQ = IF Pending THEN csr.flushQ
                                      ELSE IF raiseIntrExcep THEN "mtvec" ELSE "mepc"
      /\ redirectValid /\ ~redirectFire(e) => Pending'
  BY <1>1, <1>2 DEF Pending
<1>4. /\ csr'.mie = IF I(exe).op = "SETMIE" /\ Issues(e) THEN TRUE
                    ELSE IF raiseIntrExcep THEN FALSE
                    ELSE IF mret THEN csr.mpie ELSE csr.mie
      /\ csr'.mpie = IF raiseIntrExcep THEN csr.mie ELSE mret \/ csr.mpie
      /\ csr'.mepc = IF I(exe).op = "SETMEPC" /\ Issues(e) THEN I(exe).target
                     ELSE IF ~raiseIntrExcep THEN csr.mepc
                     ELSE IF raiseIntr THEN exe.pc ELSE wb.pc
      /\ csr'.hadInterrupt = (raiseIntr \/ (csr.hadInterrupt /\ ~redirectFire(e)))
  BY DEF Cycle, CSRNext
<1> QED BY <1>3, <1>4 DEF Cycle, PCNext

-----------------------------------------------------------------------------
\* No multiplication or division jumps.
LEMMA UnitsDoNotJump ==
  ASSUME Fetching, jumpBusValid
  PROVE  I(exe).op \notin Units
<1>1. TypeOK /\ Foreseen /\ ~exe.nop
  BY DEF Fetching, TypeInv, jumpBusValid, exeNop
<1> SUFFICES ASSUME I(exe).op \in Units PROVE FALSE
  OBVIOUS
<1>2. ~H!Branches(I(exe)) /\ ~jump /\ ~Csr(I(exe)) /\ I(exe).op # "FENCEI"
  BY DEF Units, H!Branches, jump, H!Taken, Csr
<1>3. jump \in BOOLEAN
  BY DEF jump, H!Taken
<1>4. exe.pred.taken \in BOOLEAN
  BY <1>1, Types DEF Pred
<1> QED BY <1>1, <1>2, <1>3, <1>4 DEF jumpBusValid, redirect, Foreseen

\* A unit that starts or works on keeps its instruction in EXE.
LEMMA UnitHolds ==
  ASSUME NoClash, Core, NEW e \in Env, NEW u \in Units,
         ReqFire(u) \/ (mdu[u].busy /\ ~RespFire(u))
  PROVE  ~exe.nop /\ I(exe).op = u /\ ~exeNop /\ ~toMEMFire(e)
<1>1. TypeInv /\ Owned /\ Precise
  BY DEF Core, Fetching
<1>2. ~exe.nop /\ I(exe).op = u
  BY <1>1 DEF ReqFire, Owned, exeNop
<1>3. ~exeNop
  <2>1. CASE mdu[u].busy
    <3>1. ~intrCmdValid
      BY <2>1 DEF intrCmdValid, Units
    <3> QED BY <1>1, <1>2, <2>1, <3>1 DEF Owned, exeNop, interrupt
  <2>2. CASE ReqFire(u) /\ u = "MUL"
    BY <2>2 DEF ReqFire
  <2>3. CASE u = "DIV"
    BY <1>2, <2>3 DEF NoClash
  <2> QED BY <2>1, <2>2, <2>3 DEF Units
<1>4. ~\E v \in Units : RespFire(v)
  BY <1>1, <1>2 DEF RespFire, ReqFire, Owned
<1> QED BY <1>2, <1>3, <1>4 DEF toMEMFire, exeValid, mulOrDivValid

\* A jump that has been sent is sent on until EXE lets its instruction go.
LEMMA JumpSent ==
  ASSUME NoClash, Core, NEW e \in Env
  PROVE  exe.jumpBusFired => jumpFire(e)
<1>1. TypeInv /\ Owned
  BY DEF Core, Fetching
<1> QED BY <1>1, Handshakes DEF NoClash, Owned, jumpFire

\* A jump leaves EXE when IF leaves for its target.
LEMMA JumpTakes ==
  ASSUME NoClash, Core, NEW e \in Env, Cycle(e), jumpBusValid, toMEMFire(e)
  PROVE  toIDFire(e) /\ ifs'.PC = jumpTarget /\ flush
<1>1. Fetching /\ TypeInv /\ Owned /\ Precise
  BY DEF Core, Fetching
<1>2. ~exeNop
  BY DEF jumpBusValid
<1>3. ~redirectValid
  BY <1>1, <1>2, Redirects
<1>4. jumpFire(e)
  BY JumpSent DEF toMEMFire, exeValid
<1>5. ~stall
  BY <1>1, StallKeepsPC
<1>6. toIDFire(e)
  BY <1>4, <1>5 DEF jumpFire, toIDFire, toEXEFire
<1>7. ifs'.PC = npc
  BY <1>1, <1>6, IFMoves DEF Cycle
<1> QED BY <1>2, <1>3, <1>6, <1>7 DEF npc, flush, exeFlush

\* What stays in EXE stays under the same MEM stage.
LEMMA Stays ==
  ASSUME TypeInv, NEW e \in Env, Cycle(e), ~toMEMFire(e)
  PROVE  /\ exe'.nop = exe.nop /\ exe'.val = exe.val /\ I(exe)' = I(exe)
         /\ ~flush2EXE /\ ~flush2EXE' /\ (exeNop => ~MemDone)
         /\ jump' = jump /\ redirect' = redirect
<1>1. ~flush2EXE
  BY FlushFires
<1>2. /\ exe'.inst = exe.inst /\ exe'.pc = exe.pc /\ exe'.pred = exe.pred
      /\ exe'.nop = exe.nop /\ exe'.val = exe.val /\ prog' = prog
      /\ me'.inst = me.inst /\ me'.nop = me.nop
  BY StageMoves
<1>3. flush2EXE' = flush2EXE
  BY <1>2 DEF flush2EXE, I
<1>4. jump' = jump /\ redirect' = redirect /\ I(exe)' = I(exe)
  BY <1>2 DEF jump, redirect, I
<1>5. exeNop => ~MemDone
  BY Fires
<1> QED BY <1>1, <1>2, <1>3, <1>4, <1>5

-----------------------------------------------------------------------------
\* A trap or a return goes from EXE to MEM, and the one in MEM to WB.
LEMMA SystemMoves ==
  ASSUME Core, NEW e \in Env, Cycle(e)
  PROVE  /\ InMEM' => Issues(e) /\ System(exe) /\ I(me)' = I(exe)
         /\ InWB' => InMEM /\ I(wb)' = I(me)
         /\ InMEM => InWB' /\ toMEMFire(e) /\ ~InMEM' /\ ~Pending' /\ me'.nop
         /\ InWB => ~InWB' /\ ~InMEM' /\ toMEMFire(e)
<1>1. TypeInv /\ Owned /\ Precise
  BY DEF Core, Fetching
<1>2. /\ toMEMFire(e) => me'.inst = exe.inst /\ me'.nop = exeNop
      /\ ~toMEMFire(e) => me'.inst = me.inst /\ me'.nop = me.nop
      /\ prog' = prog
  BY <1>1, StageMoves
<1>3. /\ MemDone => wb'.inst = me.inst /\ (wb'.nop <=> me.nop \/ me.hasFired)
      /\ ~MemDone => wb' = wb
  BY <1>1, WBMoves
<1>4. InMEM \/ InWB => toMEMFire(e)
  BY <1>1, Fires, Redirects DEF Precise
<1>5. InMEM' => Issues(e) /\ System(exe) /\ I(me)' = I(exe)
  <2> SUFFICES ASSUME InMEM' PROVE Issues(e) /\ System(exe) /\ I(me)' = I(exe)
    OBVIOUS
  <2>1. CASE ~toMEMFire(e)
    <3>1. InMEM
      BY <1>2, <2>1 DEF InMEM, System, I
    <3> QED BY <1>4, <2>1, <3>1
  <2>2. CASE toMEMFire(e)
    BY <1>2, <2>2 DEF InMEM, System, I, Issues
  <2> QED BY <2>1, <2>2
<1>6. InWB' => InMEM /\ I(wb)' = I(me)
  <2> SUFFICES ASSUME InWB' PROVE InMEM /\ I(wb)' = I(me)
    OBVIOUS
  <2>1. CASE MemDone
    BY <1>2, <1>3, <2>1 DEF InWB, InMEM, System, I
  <2>2. CASE ~MemDone
    <3>1. InWB
      BY <1>2, <1>3, <2>2 DEF InWB, System, I
    <3> QED BY <1>4, <2>2, <3>1, Fires
  <2> QED BY <2>1, <2>2
<1>7. InMEM => InWB'
  BY <1>1, <1>2, <1>3, Fires DEF InWB, InMEM, System, I, Precise
<1>8. InMEM => ~Pending' /\ me'.nop /\ ~InMEM'
  <2>1. InMEM => ~redirectValid /\ exeNop
    BY <1>1, Redirects DEF Precise
  <2> QED BY <1>2, <1>4, <2>1, CSRMoves DEF InMEM
<1>9. InWB => ~InWB' /\ ~InMEM'
  <2>1. InWB => me.nop /\ exeNop /\ MemDone
    BY <1>1, Redirects, Fires DEF Precise
  <2> QED BY <1>2, <1>3, <1>4, <2>1 DEF InWB, InMEM
<1> QED BY <1>4, <1>5, <1>6, <1>7, <1>8, <1>9

\* A redirect and a trap in MEM clear what is behind them.
LEMMA Clears ==
  ASSUME TypeInv, NEW e \in Env, Cycle(e)
  PROVE  /\ redirectValid \/ flush2EXE => /\ toMEMFire(e) => exe'.nop
                                          /\ toIDFire(e) => id'.nop
         /\ redirectFire(e) => redirectValid /\ toIDFire(e) /\ toMEMFire(e)
<1>1. redirectValid \/ flush2EXE => idNop /\ flush
  BY EXEMoves DEF exeFlush
<1> QED BY <1>1, StageMoves, IDMoves DEF redirectFire

\* Precise traps, while the cause is in MEM.
LEMMA PreciseInMEM ==
  ASSUME NoClash, Core, NEW e \in Env, Cycle(e), InMEM'
  PROVE  /\ ~me'.hasFired /\ ~InWB' /\ ~Pending' /\ pc' = Goes(me)'
         /\ I(me)'.op = "MISALIGNED" \/ (exe'.nop /\ ~IdLive')
<1>1. Fetching /\ TypeInv /\ Owned /\ Precise
  BY DEF Core, Fetching
<1>2. Issues(e) /\ System(exe) /\ I(me)' = I(exe) /\ toMEMFire(e) /\ ~exeNop
  BY SystemMoves, Fires
<1>3. ~InMEM /\ ~InWB /\ ~redirectValid /\ ~raiseIntrExcep /\ ~takesIntr
  BY <1>1, <1>2, Redirects
<1>4. ~InWB' /\ ~Pending'
  BY <1>3, SystemMoves, CSRMoves
<1>5. ~me'.hasFired
  BY <1>1, <1>2, EXEMoves, Fires
<1>6. pc' = Goes(me)'
  <2>1. csr'.mepc = csr.mepc
    BY <1>2, <1>3, CSRMoves DEF System
  <2>2. Drained.mepc = csr.mepc
    BY <1>3 DEF Drained, InMEM, InWB, System, I
  <2>3. pc' = H!After(I(exe), exe.pc, exe.val)
    BY <1>2, <1>3, CSRMoves
  <2>4. H!After(I(exe), exe.pc, exe.val) = IF H!Traps(I(exe)) THEN Mtvec ELSE Drained.mepc
    BY <1>2 DEF H!After, H!Traps, H!Taken, System
  <2> QED BY <1>2, <2>1, <2>2, <2>3, <2>4 DEF Goes, H!Traps
<1>7. I(exe).op # "MISALIGNED" => exe'.nop /\ ~IdLive'
  <2>1. I(exe).op # "MISALIGNED" => jumpBusValid
    BY <1>2 DEF System, jumpBusValid, Csr
  <2>2. I(exe).op # "MISALIGNED" => toIDFire(e) /\ flush
    BY <1>2, <2>1, JumpTakes
  <2>3. I(exe).op # "MISALIGNED" => exe'.nop /\ id'.nop
    BY <1>1, <1>2, <2>2, StageMoves, EXEMoves, IDMoves
  <2> QED BY <2>3 DEF IdLive
<1> QED BY <1>2, <1>4, <1>5, <1>6, <1>7

\* The units and the redirect sent.
LEMMA MduMoves ==
  ASSUME NEW e \in Env, Cycle(e), NEW u \in Units
  PROVE  /\ mdu'[u].busy = (ReqFire(u) \/ (mdu[u].busy /\ ~RespFire(u)))
         /\ mdu'[u].done = (mdu[u].busy /\ ~RespFire(u) /\ (mdu[u].done \/ u \in e.computed))
         /\ mdu'[u].res = IF ReqFire(u) THEN H!Result(exe.val) ELSE mdu[u].res
BY DEF Cycle, MduNext

\* While a redirect stands no unit works.
LEMMA UnitsRest ==
  ASSUME NoClash, Core, NEW e \in Env, Cycle(e), redirectValid
  PROVE  \A u \in Units : ~mdu'[u].busy
<1>1. TypeInv /\ Owned /\ Precise
  BY DEF Core, Fetching
<1>2. exeNop
  BY <1>1, Redirects
<1>3. SUFFICES ASSUME NEW u \in Units, mdu'[u].busy PROVE FALSE
  OBVIOUS
<1>4. ReqFire(u) \/ (mdu[u].busy /\ ~RespFire(u))
  BY <1>3, MduMoves
<1> QED BY <1>2, <1>4, UnitHolds

\* Precise traps, while the cause is in WB.
LEMMA PreciseInWB ==
  ASSUME NoClash, Core, NEW e \in Env, Cycle(e), InWB'
  PROVE  ~Pending' /\ exe'.nop /\ me'.nop /\ pc' = Goes(wb)'
<1>1. TypeInv /\ Owned /\ Precise
  BY DEF Core, Fetching
<1>2. InMEM /\ I(wb)' = I(me) /\ toMEMFire(e) /\ ~Pending' /\ me'.nop
  BY SystemMoves
<1>3. ~InWB /\ ~Pending /\ ~takesIntr /\ pc = Goes(me) /\ exeNop
  BY <1>1, <1>2, Redirects DEF Precise
<1>4. ~raiseIntrExcep /\ ~Issues(e)
  BY <1>1, <1>3, Redirects, Fires
<1>5. pc' = pc /\ csr'.mepc = csr.mepc
  BY <1>3, <1>4, CSRMoves
<1>6. pc' = Goes(wb)'
  BY <1>2, <1>3, <1>5 DEF Goes, H!Traps
<1>7. exe'.nop
  <2>1. CASE flush2EXE
    BY <1>1, <1>2, <2>1, Clears
  <2>2. CASE ~flush2EXE
    <3>1. ~IdLive
      BY <1>1, <1>2, <2>2 DEF Precise, flush2EXE, InMEM
    <3>2. idNop
      BY <1>1, <3>1, EXEMoves DEF IdLive
    <3> QED BY <1>1, <1>2, <3>2, StageMoves
  <2> QED BY <2>1, <2>2
<1> QED BY <1>2, <1>6, <1>7

\* Precise traps, while the redirect waits for IF.
LEMMA PrecisePending ==
  ASSUME NoClash, Core, NEW e \in Env, Cycle(e), Pending'
  PROVE  /\ exe'.nop \/ (csr'.hadInterrupt /\ csr'.flushQ = "mtvec")
         /\ \A u \in Units : ~mdu'[u].busy
         /\ pc' = IF csr'.flushQ = "mtvec" THEN Mtvec ELSE csr'.mepc
         /\ csr'.flushQ = "mtvec" => ~csr'.mie
<1>1. TypeInv /\ Owned /\ Precise
  BY DEF Core, Fetching
<1>2. /\ redirectValid /\ ~redirectFire(e)
      /\ csr'.flushQ = IF Pending THEN csr.flushQ
                       ELSE IF raiseIntrExcep THEN "mtvec" ELSE "mepc"
  BY CSRMoves
<1>3. exeNop /\ ~Issues(e)
  BY <1>1, <1>2, Redirects, Fires
<1>4. \A u \in Units : ~mdu'[u].busy
  BY <1>2, UnitsRest
<1>5. toMEMFire(e) => exe'.nop
  BY <1>1, <1>2, Clears
<1>6. ~toMEMFire(e) => exe'.nop = exe.nop
  BY <1>1, Stays
<1>7. CASE Pending
  <2>1. ~InWB /\ ~takesIntr
    BY <1>1, <1>7, Redirects DEF Precise
  <2>2. ~raiseIntrExcep /\ ~mret
    BY <1>1, <2>1, Redirects
  <2>3. csr'.mie = csr.mie /\ csr'.mepc = csr.mepc /\ pc' = pc /\ csr'.flushQ = csr.flushQ
        /\ (csr.hadInterrupt => csr'.hadInterrupt)
    BY <1>2, <1>3, <1>7, <2>1, <2>2, CSRMoves
  <2> QED BY <1>1, <1>4, <1>5, <1>6, <1>7, <2>3 DEF Precise
<1>8. CASE InWB
  <2>1. ~Pending /\ ~takesIntr /\ pc = Goes(wb) /\ toMEMFire(e)
    BY <1>1, <1>8, Redirects, SystemMoves DEF Precise
  <2>2. pc' = pc
    BY <1>3, <2>1, CSRMoves
  <2>3. CASE raiseExcep
    <3>1. raiseIntrExcep /\ H!Traps(I(wb))
      BY <2>3 DEF raiseIntrExcep, raiseExcep
    <3>2. csr'.flushQ = "mtvec" /\ ~csr'.mie
      BY <1>2, <1>3, <2>1, <3>1, CSRMoves
    <3> QED BY <1>4, <1>5, <2>1, <2>2, <3>1, <3>2 DEF Goes
  <2>4. CASE ~raiseExcep
    <3>1. ~raiseIntrExcep /\ ~H!Traps(I(wb))
      BY <1>1, <1>8, <2>1, <2>4, Redirects DEF raiseExcep, InWB
    <3>2. csr'.flushQ = "mepc" /\ csr'.mepc = csr.mepc
      BY <1>2, <1>3, <2>1, <3>1, CSRMoves
    <3> QED BY <1>4, <1>5, <2>1, <2>2, <3>1, <3>2 DEF Goes
  <2> QED BY <2>3, <2>4
<1>9. CASE takesIntr
  <2>1. ~Pending /\ raiseIntrExcep /\ raiseIntr
    BY <1>1, <1>9, Redirects DEF takesIntr
  <2>2. csr'.flushQ = "mtvec" /\ ~csr'.mie /\ csr'.hadInterrupt /\ pc' = Mtvec
    BY <1>2, <1>3, <1>9, <2>1, CSRMoves
  <2> QED BY <1>4, <2>2
<1> QED BY <1>1, <1>2, <1>7, <1>8, <1>9, Redirects

\* A cycle keeps traps precise.
LEMMA PreciseStep ==
  ASSUME NoClash, Core, NEW e \in Env, Cycle(e)
  PROVE  Precise'
<1>1. InMEM' => /\ ~me'.hasFired /\ ~InWB' /\ ~Pending' /\ pc' = Goes(me)'
                /\ I(me)'.op = "MISALIGNED" \/ (exe'.nop /\ ~IdLive')
  BY PreciseInMEM
<1>2. InWB' => ~Pending' /\ exe'.nop /\ me'.nop /\ pc' = Goes(wb)'
  BY PreciseInWB
<1>3. Pending' => /\ exe'.nop \/ (csr'.hadInterrupt /\ csr'.flushQ = "mtvec")
                  /\ \A u \in Units : ~mdu'[u].busy
                  /\ pc' = IF csr'.flushQ = "mtvec" THEN Mtvec ELSE csr'.mepc
                  /\ csr'.flushQ = "mtvec" => ~csr'.mie
  BY PrecisePending
<1> QED BY <1>1, <1>2, <1>3 DEF Precise

\* A cycle keeps every instruction owned by one stage.
LEMMA OwnedStep ==
  ASSUME NoClash, Core, NEW e \in Env, Cycle(e)
  PROVE  Owned'
<1>1. Fetching /\ TypeInv /\ Owned /\ Precise
  BY DEF Core, Fetching
<1>2. ASSUME NEW u \in Units
      PROVE  /\ mdu'[u].busy => /\ ~exe'.nop /\ I(exe)'.op = u /\ ~flush2EXE'
                                /\ mdu'[u].res = H!Result(exe'.val)
             /\ mdu'[u].done => mdu'[u].busy
  <2>1. /\ mdu'[u].busy = (ReqFire(u) \/ (mdu[u].busy /\ ~RespFire(u)))
        /\ mdu'[u].done = (mdu[u].busy /\ ~RespFire(u) /\ (mdu[u].done \/ u \in e.computed))
        /\ mdu'[u].res = IF ReqFire(u) THEN H!Result(exe.val) ELSE mdu[u].res
    BY <1>2, MduMoves
  <2>2. mdu'[u].busy => ~exe.nop /\ I(exe).op = u /\ ~toMEMFire(e)
    BY <2>1, UnitHolds
  <2>3. mdu'[u].busy => mdu'[u].res = H!Result(exe.val)
    BY <1>1, <2>1 DEF Owned
  <2> QED BY <1>1, <2>1, <2>2, <2>3, Stays DEF H!Result
<1>3. ASSUME exe'.jumpBusFired
      PROVE  /\ ~exe'.nop /\ I(exe)'.op \notin Units /\ Ahead' /\ ~Booting'
             /\ takesIntr' \/ jumpBusValid'
  <2>1. jumpFire(e) /\ ~toMEMFire(e)
    BY <1>1, <1>3, StageMoves, JumpSent
  <2>2. jumpBusValid /\ toIDValid(e) /\ ~toIDFire(e)
    BY <2>1 DEF jumpFire, toIDFire, toEXEFire
  <2>3. ~Booting
    BY <1>1, <2>2, AsleepMoves DEF Fetching, Boots
  <2>4. Waiting \/ Got \/ Ahead
    BY <1>1, <2>3 DEF Fetching, Phase
  <2>5. /\ ifs'.PC = ifs.PC
        /\ ifs'.reqFired <=> ifs.reqFired \/ arFire(e)
        /\ ifs'.instGetted <=> ifs.instGetted \/ rFire(e)
        /\ arFire(e) => fetch'.st = "lookup"
        /\ ~arFire(e) /\ ~rFire(e) => (fetch'.st = "empty" <=> fetch.st = "empty")
    BY <1>1, <2>2, IFMoves DEF Cycle
  <2>6. Ahead' /\ ~Booting'
    BY <1>1, <2>2, <2>3, <2>4, <2>5, Handshakes DEF Waiting, Got, Ahead, Booting
  <2>7. ~exeNop /\ ~exe.nop
    BY <2>2 DEF jumpBusValid, exeNop
  <2>8. /\ exe'.nop = exe.nop /\ I(exe)' = I(exe) /\ ~flush2EXE'
        /\ jump' = jump /\ redirect' = redirect
    BY <1>1, <2>1, Stays
  <2>9. ~Pending'
    BY <1>1, <2>7, Redirects, CSRMoves
  <2>10. ~InWB'
    <3>1. ~InMEM
      BY <1>1, <2>7, Redirects
    <3> QED BY <3>1, SystemMoves
  <2>11. interrupt' => takesIntr'
    <3>1. redirectValid' => Pending' \/ raiseExcep' \/ takesIntr' \/ mret'
      BY DEF redirectValid, Pending, raiseIntrExcep
    <3>2. raiseExcep' \/ mret' => InWB'
      BY DEF InWB, System, raiseExcep, mret, H!Traps
    <3> QED BY <2>9, <2>10, <3>1, <3>2 DEF interrupt
  <2>12. takesIntr' \/ jumpBusValid'
    <3>1. ~takesIntr' => ~exeNop'
      BY <2>7, <2>8, <2>11 DEF exeNop
    <3> QED BY <2>2, <2>8, <3>1 DEF jumpBusValid
  <2>13. I(exe)'.op \notin Units
    BY <1>1, <2>2, <2>8, UnitsDoNotJump
  <2> QED BY <2>6, <2>7, <2>8, <2>12, <2>13
<1> QED BY <1>2, <1>3 DEF Owned

-----------------------------------------------------------------------------
\* A redirect that IF takes leads where the program goes on.
LEMMA RedirectTakes ==
  ASSUME Core, NEW e \in Env, Cycle(e), redirectValid, ~Pending'
  PROVE  exe'.nop /\ id'.nop /\ ifs'.PC = pc'
<1>1. TypeInv /\ Owned /\ Precise
  BY DEF Core, Fetching
<1>2. redirectFire(e)
  BY CSRMoves
<1>3. toIDFire(e) /\ toMEMFire(e) /\ exe'.nop /\ id'.nop
  BY <1>1, <1>2, Clears
<1>4. ifs'.PC = redirectTo
  BY <1>1, <1>3, IFMoves DEF Cycle, npc
<1>5. pc' = IF takesIntr THEN Mtvec ELSE pc
  BY <1>1, Redirects, Fires, CSRMoves
<1>6. CASE Pending
  BY <1>1, <1>3, <1>4, <1>5, <1>6, Redirects DEF Precise, redirectTo, Pending
<1>7. CASE InWB
  <2>1. ~Pending /\ ~takesIntr /\ pc = Goes(wb)
    BY <1>1, <1>7, Redirects DEF Precise
  <2>2. raiseIntrExcep <=> H!Traps(I(wb))
    BY <1>1, <1>7, <2>1, Redirects DEF raiseExcep, InWB
  <2> QED BY <1>3, <1>4, <1>5, <2>1, <2>2 DEF Goes, redirectTo, Pending
<1>8. CASE takesIntr
  BY <1>1, <1>3, <1>4, <1>5, <1>8, Redirects DEF redirectTo, Pending
<1> QED BY <1>1, <1>6, <1>7, <1>8, Redirects

\* Where no redirect stands.
LEMMA Undirected ==
  ASSUME Core, NEW e \in Env, Cycle(e), ~redirectValid, ~InWB'
  PROVE  /\ ~InMEM /\ ~InWB /\ ~Pending /\ ~takesIntr /\ ~flush2EXE /\ ~interrupt
         /\ ~raiseIntrExcep /\ ~mret
         /\ exeNop <=> exe.nop
         /\ pc' = IF Issues(e) THEN H!After(I(exe), exe.pc, exe.val) ELSE pc
<1>1. TypeInv /\ Owned /\ Precise
  BY DEF Core, Fetching
<1>2. ~InMEM
  BY SystemMoves
<1>3. ~InWB /\ ~Pending /\ ~takesIntr /\ ~flush2EXE /\ ~interrupt
  BY <1>1, <1>2, Redirects
<1>4. exeNop <=> exe.nop
  BY <1>3 DEF exeNop
<1>5. ~raiseIntrExcep /\ ~mret
  BY <1>1, <1>3, Redirects
<1> QED BY <1>2, <1>3, <1>4, <1>5, CSRMoves

\* Where the program goes on after an instruction that is no trap or return.
LEMMA Afterwards ==
  ASSUME TypeInv, ~exe.nop, ~System(exe)
  PROVE  H!After(I(exe), exe.pc, exe.val) = jumpTarget
<1>1. Next4(exe.pc) = H!Succ(exe.pc)
  BY DEF TypeInv, Young, Next4
<1> QED BY <1>1 DEF H!After, System, H!Traps, jumpTarget, jump

\* Program order while the stages follow the predictions.
LEMMA Follows ==
  ASSUME Core, InOrder, NEW e \in Env, Cycle(e), ~redirectValid, ~InWB', ~InMEM',
         toMEMFire(e), ~jumpBusValid
  PROVE  pc' = Awaited /\ ~flush /\ npc = IF ifs.pred.taken THEN ifs.pred.target
                                          ELSE Next4(ifs.PC)
<1>1. TypeInv /\ Foreseen
  BY DEF Core, Fetching
<1>2. ~flush2EXE /\ (exeNop <=> exe.nop) /\ ~InMEM /\ ~InWB /\ ~Pending
  BY Undirected
<1>3. CASE exe.nop
  <2>1. pc' = pc
    BY <1>2, <1>3, Undirected, Fires
  <2> QED BY <1>2, <1>3, <2>1 DEF Awaited, flush, exeFlush, npc
<1>4. CASE ~exe.nop
  <2>1. Issues(e)
    BY <1>2, <1>4 DEF Issues
  <2>2. ~System(exe)
    <3>1. me'.inst = exe.inst /\ ~me'.nop /\ prog' = prog
      BY <1>1, <1>2, <1>4, StageMoves
    <3> QED BY <3>1 DEF InMEM, System, I
  <2>3. pc' = jumpTarget
    BY <1>1, <1>4, <2>1, <2>2, Undirected, Afterwards
  <2>4. ~redirect /\ ~Csr(I(exe))
    BY <1>2, <1>4 DEF jumpBusValid
  <2>5. jump <=> exe.pred.taken
    <3>1. exe.pred.taken \in BOOLEAN /\ jump \in BOOLEAN
      BY <1>1, Types DEF TypeInv, Pred, jump, H!Taken
    <3> QED BY <2>4, <3>1 DEF redirect
  <2>6. jump => I(exe).target = exe.pred.target
    BY <2>4 DEF redirect, jump, H!Taken, H!Branches
  <2>7. pc' = Foretold(exe)
    BY <2>3, <2>5, <2>6 DEF jumpTarget, Foretold
  <2>8. ~flush
    BY <1>2, <2>2, <2>4 DEF flush, exeFlush, System
  <2> QED BY <1>4, <2>7, <2>8 DEF Awaited, npc
<1> QED BY <1>3, <1>4

\* A cycle keeps the instructions in program order.
LEMMA InOrderStep ==
  ASSUME NoClash, Core, InOrder, NEW e \in Env, Cycle(e)
  PROVE  InOrder'
<1>1. TypeInv /\ Boots /\ Owned /\ Precise
  BY DEF Core, Fetching
<1>2. ifs'.PC = Boot => pc' = 0
  <2>1. ifs'.PC = Boot => ifs.PC = Boot
    BY <1>1, IFTypes DEF Cycle
  <2>2. ifs.PC = Boot => ~takesIntr /\ ~Issues(e)
    BY <1>1, AsleepMoves DEF Boots, Booting, raiseIntrExcep
  <2> QED BY <2>1, <2>2, CSRMoves DEF InOrder
<1>3. SUFFICES ASSUME ~InMEM', ~InWB', ~Pending'
               PROVE  /\ ~exe'.nop => exe'.pc = pc'
                      /\ IdLive' => id'.pc = Awaited'
                      /\ ifs'.PC # Boot =>
                           ifs'.PC = IF IdLive' THEN Foretold(id)' ELSE Awaited'
  BY <1>2 DEF InOrder
<1>4. CASE redirectValid
  BY <1>3, <1>4, RedirectTakes DEF IdLive, Awaited
<1>5. CASE ~redirectValid /\ ~toMEMFire(e)
  <2>1. ~InMEM /\ ~InWB /\ ~Pending /\ pc' = pc
    BY <1>3, <1>5, Undirected DEF Issues
  <2>2. exe'.nop = exe.nop /\ exe'.pc = exe.pc /\ exe'.pred = exe.pred
    BY <1>1, <1>5, StageMoves
  <2>3. /\ ~toIDFire(e) /\ id'.pc = id.pc /\ id'.pred = id.pred /\ id'.nop = id.nop
        /\ id'.hasFired = id.hasFired
    BY <1>1, <1>5, IDMoves
  <2>4. ifs'.PC = ifs.PC
    BY <1>1, <2>3, IFMoves DEF Cycle
  <2>5. Awaited' = Awaited /\ IdLive' = IdLive /\ Foretold(id)' = Foretold(id)
    BY <2>1, <2>2, <2>3 DEF Awaited, IdLive, Foretold
  <2> QED BY <2>1, <2>2, <2>3, <2>4, <2>5 DEF InOrder
<1>6. CASE ~redirectValid /\ toMEMFire(e) /\ jumpBusValid
  <2>1. ifs'.PC = jumpTarget /\ toIDFire(e) /\ flush
    BY <1>6, JumpTakes
  <2>2. exe'.nop /\ id'.nop
    BY <1>1, <1>6, <2>1, StageMoves, EXEMoves, IDMoves
  <2>3. Issues(e) /\ ~exe.nop
    BY <1>6 DEF jumpBusValid, Issues, exeNop
  <2>4. ~System(exe)
    <3>1. me'.inst = exe.inst /\ ~me'.nop /\ prog' = prog
      BY <1>1, <1>6, <2>3, StageMoves DEF Issues
    <3> QED BY <1>3, <3>1 DEF InMEM, System, I
  <2>5. pc' = jumpTarget
    BY <1>1, <1>3, <1>6, <2>3, <2>4, Undirected, Afterwards
  <2> QED BY <2>1, <2>2, <2>5 DEF IdLive, Awaited
<1>7. CASE ~redirectValid /\ toMEMFire(e) /\ ~jumpBusValid
  <2>1. /\ pc' = Awaited /\ ~flush
        /\ npc = IF ifs.pred.taken THEN ifs.pred.target ELSE Next4(ifs.PC)
    BY <1>3, <1>7, Follows
  <2>2. ~InMEM /\ ~InWB /\ ~Pending
    BY <1>3, <1>7, Undirected
  <2>3. /\ exe'.nop <=> ~IdLive \/ stall
        /\ exe'.pc = id.pc /\ exe'.pred = id.pred
    BY <1>1, <1>7, <2>1, StageMoves, EXEMoves DEF IdLive
  <2>4. ~exe'.nop => exe'.pc = pc'
    BY <2>1, <2>2, <2>3 DEF InOrder
  <2>5. CASE stall
    <3>1. ~toIDFire(e) /\ id'.pc = id.pc /\ id'.pred = id.pred /\ IdLive' = IdLive
      <4>1. id.hasFired \in BOOLEAN /\ id.nop \in BOOLEAN
        BY <1>1, Types DEF TypeInv
      <4> QED BY <1>1, <1>7, <2>5, <4>1, IDMoves DEF IdLive
    <3>2. ifs'.PC = ifs.PC
      BY <1>1, <3>1, IFMoves DEF Cycle
    <3>3. Awaited' = Awaited /\ Foretold(id)' = Foretold(id)
      BY <2>1, <2>3, <2>5, <3>1 DEF Awaited, Foretold
    <3> QED BY <2>2, <2>4, <3>1, <3>2, <3>3 DEF InOrder
  <2>6. CASE ~stall
    <3>1. Awaited' = IF IdLive THEN Foretold(id) ELSE Awaited
      BY <2>1, <2>3, <2>6 DEF Awaited, Foretold
    <3>2. ifs.PC # Boot => ifs.PC = Awaited'
      BY <2>2, <3>1 DEF InOrder
    <3>3. CASE ~toIDFire(e)
      <4>1. ~IdLive'
        BY <1>1, <1>7, <2>6, <3>3, IDMoves DEF IdLive
      <4>2. ifs'.PC = ifs.PC
        BY <1>1, <3>3, IFMoves DEF Cycle
      <4> QED BY <2>4, <3>2, <4>1, <4>2
    <3>4. CASE toIDFire(e)
      <4>1. /\ id'.pc = ifs.PC /\ id'.pred = ifs.pred
            /\ IdLive' <=> ifs.PC # Boot
        BY <1>1, <2>1, <3>4, IDMoves DEF IdLive
      <4>2. ifs'.PC = Foretold(id)'
        BY <1>1, <2>1, <3>4, <4>1, IFMoves DEF Cycle, Foretold
      <4>3. ifs.PC = Boot => ifs'.PC = Awaited'
        <5>1. ifs.PC = Boot => /\ ~ifs.pred.taken /\ exe.nop /\ id.nop /\ pc = 0
          BY <1>1 DEF Boots, Booting, Asleep, InOrder
        <5>2. ifs.PC = Boot => ifs'.PC = 0
          BY <4>1, <4>2, <5>1, Successors DEF Foretold
        <5> QED BY <3>1, <5>1, <5>2 DEF Awaited, IdLive
      <4> QED BY <2>4, <3>2, <4>1, <4>2, <4>3
    <3> QED BY <3>3, <3>4
  <2> QED BY <2>5, <2>6
<1> QED BY <1>4, <1>5, <1>6, <1>7

\* A cause that has reached WB, or waits, is a redirect that stands.
LEMMA Stands == InWB \/ Pending => redirectValid
BY DEF InWB, System, Pending, redirectValid, raiseIntrExcep, raiseExcep, mret, H!Traps

\* A cycle keeps what a flush has killed without effect.
LEMMA KilledStep ==
  ASSUME NoClash, Core, Killed, NEW e \in Env, Cycle(e)
  PROVE  Killed'
<1>1. TypeInv /\ Owned /\ Precise /\ Writers
  BY DEF Core, Fetching
<1>2. SUFFICES ASSUME me'.nop, me'.regWrite
               PROVE  exe'.nop /\ (redirectValid' \/ ~IdLive')
  BY DEF Killed
<1>3. CASE toMEMFire(e)
  <2>1. exeNop /\ exe.regWrite
    BY <1>1, <1>2, <1>3, StageMoves
  <2>2. flush2EXE \/ interrupt
    BY <1>1, <2>1 DEF Writers, exeNop
  <2>3. CASE flush2EXE
    <3>1. InWB' /\ exe'.nop
      BY <1>1, <1>3, <2>3, Redirects, SystemMoves, Clears
    <3>2. redirectValid'
      BY <3>1, Stands, PTL
    <3> QED BY <3>1, <3>2
  <2>4. CASE interrupt
    <3>1. redirectValid
      BY <2>4 DEF interrupt
    <3>2. exe'.nop /\ (redirectFire(e) => id'.nop)
      BY <1>1, <1>3, <3>1, Clears
    <3>3. ~redirectFire(e) => Pending'
      BY <3>1, CSRMoves
    <3>4. Pending' => redirectValid'
      BY Stands, PTL
    <3> QED BY <3>2, <3>3, <3>4 DEF IdLive
  <2> QED BY <2>2, <2>3, <2>4
<1>4. CASE ~toMEMFire(e)
  <2>1. me.nop /\ exe.nop
    BY <1>1, <1>2, <1>4, StageMoves DEF Killed
  <2> QED BY <1>4, <2>1, Fires DEF exeNop
<1> QED BY <1>3, <1>4

-----------------------------------------------------------------------------
(***************************************************************************)
(* The registers as the reference machine has them.                        *)
(***************************************************************************)
MeValue == IF I(me).op = "LOAD" THEN H!Result(me.val) ELSE me.val
Late(s) == [ mepc |-> IF H!Traps(I(s)) THEN s.pc ELSE csr.mepc,
             mie |-> ~H!Traps(I(s)) /\ csr.mpie,
             mpie |-> IF H!Traps(I(s)) THEN csr.mie ELSE TRUE ]

\* The registers once MEM and WB have drained, one at a time.
LEMMA DrainedRegs ==
  /\ Drained.regs = [x \in Regs |-> IF MeLive /\ me.regWrite /\ I(me).rd = x
                                    THEN MeValue ELSE Settled(x)]
  /\ MemDone /\ ~me.nop => MemRegWdata = MeValue
<1>1. Drained.regs = [x \in Regs |-> IF MeLive /\ me.regWrite /\ I(me).rd = x
                                     THEN MeValue ELSE Settled(x)]
  BY DEF Drained, MeLive, Settled, MeValue, H!Result, I
<1>2. MemDone /\ ~me.nop => MemRegWdata = MeValue
  BY DEF MemRegWdata, LoadWaits, MeValue
<1> QED BY <1>1, <1>2

\* The CSRs as they will be once the trap in MEM or WB has been taken.
LEMMA DrainedTrap ==
  TypeInv /\ Precise =>
    /\ InMEM => /\ Drained.mepc = Late(me).mepc /\ Drained.mie = Late(me).mie
                /\ Drained.mpie = Late(me).mpie
    /\ InWB => /\ Drained.mepc = Late(wb).mepc /\ Drained.mie = Late(wb).mie
               /\ Drained.mpie = Late(wb).mpie
    /\ ~InMEM /\ ~InWB => /\ Drained.mepc = csr.mepc /\ Drained.mie = csr.mie
                          /\ Drained.mpie = csr.mpie
<1> SUFFICES ASSUME TypeInv, Precise
             PROVE  /\ InMEM => /\ Drained.mepc = Late(me).mepc
                                /\ Drained.mie = Late(me).mie
                                /\ Drained.mpie = Late(me).mpie
                    /\ InWB => /\ Drained.mepc = Late(wb).mepc
                               /\ Drained.mie = Late(wb).mie
                               /\ Drained.mpie = Late(wb).mpie
                    /\ ~InMEM /\ ~InWB => /\ Drained.mepc = csr.mepc
                                          /\ Drained.mie = csr.mie
                                          /\ Drained.mpie = csr.mpie
  OBVIOUS
<1>1. csr.mie \in BOOLEAN /\ csr.mpie \in BOOLEAN
  BY Types DEF TypeInv
<1>2. ASSUME InMEM
      PROVE  /\ Drained.mepc = Late(me).mepc /\ Drained.mie = Late(me).mie
             /\ Drained.mpie = Late(me).mpie
  BY <1>1, <1>2 DEF Drained, InMEM, Precise, System, I, Late, H!Traps
<1>3. ASSUME InWB, ~InMEM
      PROVE  /\ Drained.mepc = Late(wb).mepc /\ Drained.mie = Late(wb).mie
             /\ Drained.mpie = Late(wb).mpie
  BY <1>1, <1>3 DEF Drained, InMEM, InWB, System, I, Late, H!Traps
<1>4. ASSUME ~InWB, ~InMEM
      PROVE  Drained.mepc = csr.mepc /\ Drained.mie = csr.mie /\ Drained.mpie = csr.mpie
  BY <1>1, <1>4 DEF Drained, InMEM, InWB, System, I
<1> QED BY <1>2, <1>3, <1>4 DEF Precise

\* The same a cycle later.
LEMMA DrainedTrapNext ==
  ASSUME TypeInv', Precise'
  PROVE  /\ InMEM' => /\ Drained.mepc' = Late(me)'.mepc /\ Drained.mie' = Late(me)'.mie
                      /\ Drained.mpie' = Late(me)'.mpie
         /\ InWB' => /\ Drained.mepc' = Late(wb)'.mepc /\ Drained.mie' = Late(wb)'.mie
                     /\ Drained.mpie' = Late(wb)'.mpie
         /\ ~InMEM' /\ ~InWB' => /\ Drained.mepc' = csr'.mepc /\ Drained.mie' = csr'.mie
                                 /\ Drained.mpie' = csr'.mpie
<1>1. (TypeInv /\ Precise =>
         /\ InMEM => /\ Drained.mepc = Late(me).mepc /\ Drained.mie = Late(me).mie
                     /\ Drained.mpie = Late(me).mpie
         /\ InWB => /\ Drained.mepc = Late(wb).mepc /\ Drained.mie = Late(wb).mie
                    /\ Drained.mpie = Late(wb).mpie
         /\ ~InMEM /\ ~InWB => /\ Drained.mepc = csr.mepc /\ Drained.mie = csr.mie
                               /\ Drained.mpie = csr.mpie)'
  BY DrainedTrap, PTL
<1> QED BY <1>1

\* WB keeps what it passes to the registers.
LEMMA SettledMoves ==
  ASSUME TypeInv, Forwarded, NEW e \in Env, Cycle(e), NEW x \in Regs
  PROVE  Settled(x)' = IF MemDone THEN Drained.regs[x] ELSE Settled(x)
<1>1. /\ MemDone => /\ wb'.inst = me.inst /\ wb'.val = MemRegWdata
                    /\ wb'.nop <=> me.nop \/ me.hasFired
                    /\ wb'.regWrite <=> MemRegWrite /\ ~(me.nop \/ me.hasFired)
      /\ ~MemDone => wb' = wb
      /\ regs' = IF wb.regWrite THEN [regs EXCEPT ![I(wb).rd] = wb.val] ELSE regs
      /\ prog' = prog
  BY WBMoves
<1>2. regs \in [Regs -> Word]
  BY Types DEF TypeInv
<1>3. wb.regWrite => ~wb.nop
  BY DEF Forwarded
<1>4. regs'[x] = Settled(x)
  BY <1>1, <1>2, <1>3 DEF Settled, Writes
<1>5. CASE ~MemDone
  <2>1. Settled(x)' = IF Writes(wb) /\ I(wb).rd = x THEN wb.val ELSE regs'[x]
    BY <1>1, <1>5 DEF Settled, Writes, I
  <2> QED BY <1>4, <1>5, <2>1 DEF Settled
<1>6. CASE MemDone
  <2>1. me.regWrite /\ MeLive => MemRegWrite
    BY DEF Forwarded, MemRegWrite, flush2EXE, H!Computes, MeLive
  <2>2. Writes(wb)' <=> me.regWrite /\ MeLive
    BY <1>1, <1>6, <2>1 DEF Writes, MemRegWrite, MeLive
  <2>3. Settled(x)' = IF me.regWrite /\ MeLive /\ I(me).rd = x THEN MemRegWdata
                      ELSE regs'[x]
    BY <1>1, <1>6, <2>2 DEF Settled, I
  <2> QED BY <1>4, <1>6, <2>3, DrainedRegs DEF MeLive
<1> QED BY <1>5, <1>6

\* What EXE computes, when it lets the instruction go.
LEMMA ExeResult ==
  ASSUME TypeInv, Owned, NEW e \in Env, Issues(e), H!Computes(I(exe))
  PROVE  ExeRegWdata = IF I(exe).op = "LOAD" THEN exe.val ELSE H!Result(exe.val)
<1>1. CASE I(exe).op \in Units
  <2>1. \E u \in Units : RespFire(u)
    BY <1>1 DEF Issues, toMEMFire, exeValid, mulOrDivValid
  <2>2. mdu[I(exe).op].res = H!Result(exe.val)
    BY <2>1 DEF RespFire, Owned
  <2> QED BY <1>1, <2>2 DEF ExeRegWdata, Units, Memory
<1>2. CASE I(exe).op \notin Units
  BY <1>2 DEF ExeRegWdata, Memory, H!Computes
<1> QED BY <1>1, <1>2

\* A cycle that issues a computation writes its register, another none.
LEMMA DrainedMoves ==
  ASSUME Core, Forwarded, NEW e \in Env, Cycle(e)
  PROVE  Drained.regs' = IF Issues(e) /\ H!Computes(I(exe))
                         THEN [Drained.regs EXCEPT ![I(exe).rd] = H!Result(exe.val)]
                         ELSE Drained.regs
<1>1. TypeInv /\ Owned /\ Writers
  BY DEF Core, Fetching
<1>2. Drained.regs = [x \in Regs |-> Drained.regs[x]]
  BY DrainedRegs
<1>3. Drained.regs' = [x \in Regs |-> IF MeLive' /\ me'.regWrite /\ I(me)'.rd = x
                                      THEN MeValue' ELSE Settled(x)']
  <2>1. (Drained.regs = [x \in Regs |-> IF MeLive /\ me.regWrite /\ I(me).rd = x
                                        THEN MeValue ELSE Settled(x)])'
    BY DrainedRegs, PTL
  <2> QED BY <2>1
<1>4. \A x \in Regs : Settled(x)' = IF MemDone THEN Drained.regs[x] ELSE Settled(x)
  BY <1>1, SettledMoves
<1>5. CASE toMEMFire(e)
  <2>1. MemDone /\ exeValid(e) /\ ~me'.hasFired
    BY <1>1, <1>5, EXEMoves, Fires
  <2>2. /\ MeLive' <=> Issues(e)
        /\ I(me)' = I(exe) /\ me'.regWrite = exe.regWrite /\ me'.val = ExeRegWdata
    BY <1>1, <1>5, <2>1, StageMoves, EXEMoves DEF MeLive, Issues, I
  <2>3. Issues(e) => (exe.regWrite <=> H!Computes(I(exe)))
    BY <1>1 DEF Issues, exeNop, Writers, Forwarded
  <2>4. Issues(e) /\ H!Computes(I(exe)) => MeValue' = H!Result(exe.val)
    BY <1>1, <2>2, ExeResult DEF MeValue, H!Result
  <2>5. ASSUME NEW x \in Regs
        PROVE  (IF MeLive' /\ me'.regWrite /\ I(me)'.rd = x THEN MeValue' ELSE Settled(x)')
                 = IF Issues(e) /\ H!Computes(I(exe)) /\ I(exe).rd = x
                   THEN H!Result(exe.val) ELSE Drained.regs[x]
    BY <1>4, <2>1, <2>2, <2>3, <2>4
  <2> QED BY <1>2, <1>3, <2>5
<1>6. CASE ~toMEMFire(e)
  <2>1. ~Issues(e) /\ (MemDone => ~exeValid(e))
    BY <1>6 DEF Issues, toMEMFire
  <2>2. /\ I(me)' = I(me) /\ me'.nop = me.nop /\ me'.regWrite = me.regWrite
        /\ me'.val = me.val /\ (~MemDone => me'.hasFired = me.hasFired)
        /\ (MemDone => me'.hasFired)
    BY <1>1, <1>6, <2>1, StageMoves, EXEMoves DEF I
  <2>3. MeValue' = MeValue
    BY <2>2 DEF MeValue, H!Result
  <2>4. ASSUME NEW x \in Regs
        PROVE  (IF MeLive' /\ me'.regWrite /\ I(me)'.rd = x THEN MeValue' ELSE Settled(x)')
                 = Drained.regs[x]
    BY <1>4, <2>2, <2>3, DrainedRegs DEF MeLive
  <2> QED BY <1>2, <1>3, <2>1, <2>4
<1> QED BY <1>5, <1>6

\* The operand that ID hands to EXE.
LEMMA OperandRight ==
  ASSUME Core, Killed, Forwarded, NEW e \in Env, Cycle(e), toMEMFire(e), ~idNop
  PROVE  Operand = H!Read(Drained.regs', I(id).rs)
<1>1. TypeInv /\ TypeOK /\ Owned /\ Writers
  BY DEF Core, Fetching, TypeInv
<1>2. IdLive /\ ~stall /\ ~redirectValid /\ MemDone
  BY DEF idNop, IdLive, flush, toMEMFire
<1> DEFINE rs == I(id).rs
<1>3. rs \in Regs \cup {0}
  BY <1>1, Types, Instructions DEF I
<1>4. CASE rs = 0
  BY <1>4 DEF Source, Operand, H!Read
<1>5. CASE rs # 0
  <2>1. rs \in Regs
    BY <1>3, <1>5
  <2>2. Drained.regs'[rs] = IF Issues(e) /\ H!Computes(I(exe)) /\ I(exe).rd = rs
                            THEN H!Result(exe.val) ELSE Drained.regs[rs]
    BY <2>1, DrainedMoves, DrainedRegs
  <2>3. SUFFICES Operand = Drained.regs'[rs]
    BY <1>5 DEF H!Read
  <2>4. CASE exe.regWrite /\ ~exeNop /\ I(exe).rd = rs
    <3>1. Source = "EXE" /\ ~Memory(I(exe))
      BY <1>2, <1>5, <2>4 DEF Source, stall
    <3>2. Issues(e) /\ H!Computes(I(exe))
      BY <1>1, <2>4 DEF Issues, Writers
    <3>3. Operand = H!Result(exe.val)
      BY <1>1, <3>1, <3>2, ExeResult DEF Operand, Memory
    <3> QED BY <2>2, <2>4, <3>2, <3>3
  <2>5. CASE ~(exe.regWrite /\ ~exeNop /\ I(exe).rd = rs)
    <3>1. Drained.regs'[rs] = Drained.regs[rs]
      BY <2>2, <2>5 DEF Issues, Forwarded, exeNop
    <3>2. CASE MemRegWrite /\ I(me).rd = rs
      <4>1. Source = "MEM"
        BY <1>5, <2>5, <3>2 DEF Source
      <4>2. Operand = MemRegWdata
        BY <4>1 DEF Operand
      <4>3. ~me.nop /\ me.regWrite
        BY <1>2, <3>2 DEF Killed, MemRegWrite
      <4>4. MeLive => Drained.regs[rs] = MemRegWdata
        BY <1>2, <2>1, <3>2, <4>3, DrainedRegs
      <4>5. ~MeLive => Drained.regs[rs] = MemRegWdata
        BY <3>2, <4>3 DEF MeLive, Forwarded
      <4> QED BY <3>1, <4>2, <4>4, <4>5
    <3>3. CASE ~(MemRegWrite /\ I(me).rd = rs)
      <4>1. ~(MeLive /\ me.regWrite /\ I(me).rd = rs)
        BY <3>3 DEF MemRegWrite, flush2EXE, Forwarded, H!Computes
      <4>2. Drained.regs[rs] = Settled(rs)
        BY <2>1, <4>1, DrainedRegs
      <4>3. Operand = IF wb.regWrite /\ I(wb).rd = rs THEN wb.val ELSE regs[rs]
        BY <1>5, <2>5, <3>3 DEF Operand, Source, H!Read
      <4> QED BY <3>1, <4>2, <4>3 DEF Settled, Writes, Forwarded
    <3> QED BY <3>2, <3>3
  <2> QED BY <2>4, <2>5
<1> QED BY <1>4, <1>5

\* A cycle keeps the forwarded operands equal to the drained registers.
LEMMA ForwardedStep ==
  ASSUME Core, Killed, Forwarded, NEW e \in Env, Cycle(e)
  PROVE  Forwarded'
<1>1. TypeInv /\ TypeOK /\ Owned /\ Writers
  BY DEF Core, Fetching, TypeInv
<1>2. /\ toMEMFire(e) => /\ I(exe)' = I(id) /\ exe'.nop = idNop
                         /\ exe'.regWrite <=> H!Computes(I(id)) /\ ~idNop
                         /\ I(me)' = I(exe) /\ me'.regWrite = exe.regWrite
      /\ ~toMEMFire(e) => /\ I(exe)' = I(exe) /\ exe'.nop = exe.nop
                          /\ exe'.regWrite = exe.regWrite /\ exe'.val = exe.val
                          /\ I(me)' = I(me) /\ me'.nop = me.nop
                          /\ me'.regWrite = me.regWrite
  BY <1>1, StageMoves DEF I
<1>3. ~exe'.nop /\ H!Computes(I(exe)') => exe'.regWrite
  BY <1>2 DEF Forwarded
<1>4. me'.regWrite => H!Computes(I(me)')
  BY <1>1, <1>2 DEF Forwarded, Writers
<1>5. wb'.regWrite => ~wb'.nop /\ H!Computes(I(wb)')
  <2>1. MemDone => /\ I(wb)' = I(me)
                   /\ wb'.nop <=> me.nop \/ me.hasFired
                   /\ wb'.regWrite <=> MemRegWrite /\ ~(me.nop \/ me.hasFired)
    BY <1>1, WBMoves DEF I
  <2>2. ~MemDone => wb' = wb /\ I(wb)' = I(wb)
    BY <1>1, WBMoves DEF I
  <2>3. ~MemDone => (wb'.regWrite => ~wb'.nop /\ H!Computes(I(wb)'))
    BY <2>2 DEF Forwarded
  <2>4. MemDone => (wb'.regWrite => ~wb'.nop /\ H!Computes(I(wb)'))
    BY <2>1 DEF Forwarded, MemRegWrite
  <2> QED BY <2>3, <2>4
<1>6. ~toMEMFire(e) => Drained.regs' = Drained.regs
  BY DrainedMoves DEF Issues
<1>7. ASSUME me'.hasFired
      PROVE  /\ MemDone'
             /\ ~me'.nop /\ me'.regWrite => Drained.regs'[I(me)'.rd] = MemRegWdata'
  <2>1. MemDone /\ ~toMEMFire(e)
    BY <1>1, <1>7, EXEMoves, Fires DEF Forwarded
  <2>2. I(me)' = I(me) /\ me'.nop = me.nop /\ me'.val = me.val
        /\ (me.state = "RESP" => me'.state = "RESP")
    BY <1>1, <1>2, <2>1, EXEMoves
  <2>3. LoadWaits' = LoadWaits
    BY <2>2 DEF LoadWaits
  <2>4. MemDone'
    BY <2>1, <2>2, <2>3 DEF MemDone
  <2>5. MemRegWdata' = MemRegWdata
    BY <2>1, <2>2, <2>3, <2>4 DEF MemRegWdata, H!Result
  <2>6. ASSUME ~me.nop, me.regWrite
        PROVE  Drained.regs[I(me).rd] = MemRegWdata
    <3>1. I(me).rd \in Regs
      BY <1>1, <2>6, Types, Instructions DEF I, Forwarded
    <3>2. CASE me.hasFired
      BY <2>6, <3>2 DEF Forwarded
    <3>3. CASE ~me.hasFired
      BY <2>1, <2>6, <3>1, <3>3, DrainedRegs DEF MeLive
    <3> QED BY <3>2, <3>3
  <2> QED BY <1>2, <1>6, <2>1, <2>2, <2>4, <2>5, <2>6
<1>8. ~exe'.nop => exe'.val = H!Read(Drained.regs', I(exe)'.rs)
  <2>1. CASE toMEMFire(e)
    BY <1>1, <1>2, <2>1, EXEMoves, OperandRight
  <2>2. CASE ~toMEMFire(e)
    BY <1>2, <1>6, <2>2 DEF Forwarded
  <2> QED BY <2>1, <2>2
<1> QED BY <1>3, <1>4, <1>5, <1>7, <1>8 DEF Forwarded, H!Computes, H!Read

-----------------------------------------------------------------------------
\* The invariant holds at reset and in a step in which nothing changes.
LEMMA IInvInit == Init => IInv
<1> SUFFICES ASSUME Init PROVE IInv
  OBVIOUS
<1>1. /\ ifs.PC = Boot /\ id.nop = TRUE /\ exe.nop = TRUE /\ exe.jumpBusFired = FALSE
      /\ me.nop = TRUE /\ me.regWrite = FALSE /\ me.hasFired = FALSE
      /\ wb.nop = TRUE /\ wb.regWrite = FALSE
      /\ csr.hadInterrupt = FALSE /\ csr.flushQ = "none" /\ pc = 0
  BY DEF Init
<1>2. \A u \in Units : mdu[u].busy = FALSE /\ mdu[u].done = FALSE
  BY DEF Init
<1>3. Owned /\ Precise
  BY <1>1, <1>2 DEF Owned, Precise, InMEM, InWB, Pending
<1>4. InOrder /\ Killed /\ Forwarded
  BY <1>1 DEF InOrder, IdLive, Killed, Forwarded
<1> QED BY <1>3, <1>4, FetchingInit DEF IInv, Core

\* A stutter leaves everything the invariant speaks of.
LEMMA Rests ==
  ASSUME UNCHANGED vars
  PROVE  /\ prog' = prog /\ ifs' = ifs /\ fetch' = fetch /\ id' = id /\ exe' = exe
         /\ mdu' = mdu /\ me' = me /\ wb' = wb /\ regs' = regs /\ intr' = intr
         /\ csr' = csr /\ pc' = pc
         /\ flush2EXE' = flush2EXE /\ takesIntr' = takesIntr
         /\ jumpBusValid' = jumpBusValid /\ redirectValid' = redirectValid
         /\ MemDone' = MemDone /\ MemRegWdata' = MemRegWdata
         /\ Drained.regs' = Drained.regs /\ Drained.mie' = Drained.mie
         /\ Drained.mpie' = Drained.mpie /\ Drained.mepc' = Drained.mepc
<1>1. /\ prog' = prog /\ ifs' = ifs /\ fetch' = fetch /\ id' = id /\ exe' = exe
      /\ mdu' = mdu /\ me' = me /\ wb' = wb /\ regs' = regs /\ intr' = intr
      /\ csr' = csr /\ pc' = pc
  BY DEF vars
<1>2. flush2EXE' = flush2EXE /\ raiseExcep' = raiseExcep /\ mret' = mret
      /\ raiseIntr' = raiseIntr
  BY <1>1 DEF flush2EXE, raiseExcep, mret, raiseIntr, I
<1>3. takesIntr' = takesIntr /\ intrCmdValid' = intrCmdValid
  BY <1>1, <1>2 DEF takesIntr, intrCmdValid
<1>4. redirectValid' = redirectValid
  BY <1>1, <1>2, <1>3 DEF redirectValid, raiseIntrExcep
<1>5. jumpBusValid' = jumpBusValid
  BY <1>1, <1>2, <1>3, <1>4 DEF jumpBusValid, exeNop, interrupt, jump, redirect, I
<1>6. MemDone' = MemDone /\ MemRegWdata' = MemRegWdata
  BY <1>1 DEF MemDone, MemRegWdata, LoadWaits, I, H!Result
<1>7. Drained' = Drained
  BY <1>1 DEF Drained, Writes
<1> QED BY <1>1, <1>2, <1>3, <1>4, <1>5, <1>6, <1>7

\* So it keeps the invariant,
LEMMA IInvRests == NoAlias /\ NeverBack /\ IInv /\ UNCHANGED vars => IInv'
<1> SUFFICES ASSUME NoAlias, NeverBack, IInv, UNCHANGED vars PROVE IInv'
  OBVIOUS
<1>1. Core /\ Fetching
  BY DEF IInv, Core
<1>2. Fetching'
  BY <1>1, FetchingStep
<1>3. Owned'
  BY <1>1, Rests DEF Core, Owned, Ahead, Booting, I, H!Result
<1>4. Precise'
  BY <1>1, Rests DEF Core, Precise, InMEM, InWB, Pending, IdLive, Goes, System, I
<1>5. InOrder'
  BY Rests DEF IInv, InOrder, Awaited, Foretold, InMEM, InWB, Pending, IdLive, System, I
<1>6. Killed'
  BY Rests DEF IInv, Killed, IdLive
<1>7. Forwarded'
  BY Rests DEF IInv, Forwarded, I, H!Read
<1> QED BY <1>2, <1>3, <1>4, <1>5, <1>6, <1>7 DEF IInv, Core

\* as does every step.
LEMMA IInvStep ==
  NoAlias /\ NeverBack /\ NoClash /\ IInv /\ [Next]_vars => IInv'
<1>1. ASSUME NoAlias, NeverBack, NoClash, IInv, NEW e \in Env, Cycle(e)
      PROVE  IInv'
  <2>1. Core /\ InOrder /\ Killed /\ Forwarded /\ Fetching
    BY <1>1 DEF IInv, Core
  <2>2. Fetching'
    BY <1>1, <2>1, FetchingStep DEF Next
  <2>3. Owned' /\ Precise'
    BY <1>1, <2>1, OwnedStep, PreciseStep
  <2>4. InOrder' /\ Killed' /\ Forwarded'
    BY <1>1, <2>1, InOrderStep, KilledStep, ForwardedStep
  <2> QED BY <2>2, <2>3, <2>4 DEF IInv, Core
<1> QED BY <1>1, IInvRests DEF Next

-----------------------------------------------------------------------------
(***************************************************************************)
(* A cycle is a step of the machine: of the instruction that EXE lets go,  *)
(* of the interrupt that kills it, or none.                                *)
(***************************************************************************)

\* The trap registers of a cycle in which EXE lets no instruction go.
LEMMA TrapMoves ==
  ASSUME NoClash, Core, NEW e \in Env, Cycle(e), ~Issues(e), ~takesIntr
  PROVE  /\ Drained.mepc' = Drained.mepc /\ Drained.mie' = Drained.mie
         /\ Drained.mpie' = Drained.mpie
<1>1. TypeInv /\ Owned /\ Precise
  BY DEF Core, Fetching
<1>2. TypeInv' /\ Precise'
  BY <1>1, StepTypes, PreciseStep DEF Next
<1>3. ~InMEM'
  BY SystemMoves
<1>4. csr.mie \in BOOLEAN /\ csr.mpie \in BOOLEAN /\ csr'.mie \in BOOLEAN
      /\ csr'.mpie \in BOOLEAN
  BY <1>1, <1>2, Types DEF TypeInv, TypeOK
<1>5. CASE InMEM
  <2>1. ~InWB /\ ~raiseIntrExcep /\ ~mret /\ InWB' /\ I(wb)' = I(me) /\ MemDone
    BY <1>1, <1>5, SystemMoves, Redirects, Fires DEF Precise
  <2>2. csr'.mie = csr.mie /\ csr'.mpie = csr.mpie /\ csr'.mepc = csr.mepc
    BY <2>1, <1>4, CSRMoves
  <2>3. wb'.pc = me.pc
    BY <1>1, <2>1, WBMoves
  <2>4. Late(wb)' = Late(me)
    BY <2>1, <2>2, <2>3 DEF Late, H!Traps
  <2>5. /\ Drained.mepc' = Late(wb)'.mepc /\ Drained.mie' = Late(wb)'.mie
        /\ Drained.mpie' = Late(wb)'.mpie
    BY <1>2, <2>1, DrainedTrapNext
  <2> QED BY <1>1, <1>5, <2>4, <2>5, DrainedTrap
<1>6. CASE InWB
  <2>1. ~InMEM /\ ~InWB' /\ (raiseIntrExcep <=> H!Traps(I(wb))) /\ (mret <=> ~raiseIntrExcep)
    <3>1. ~InMEM /\ ~InWB'
      BY <1>1, <1>6, SystemMoves DEF Precise
    <3>2. raiseIntrExcep <=> H!Traps(I(wb))
      BY <1>1, <1>6, Redirects DEF raiseExcep, InWB
    <3>3. mret <=> ~H!Traps(I(wb))
      BY <1>6 DEF mret, InWB, System, H!Traps
    <3> QED BY <3>1, <3>2, <3>3
  <2>2. raiseIntrExcep => ~raiseIntr
    BY <1>6, <2>1 DEF NoClash, raiseExcep, InWB
  <2>3. /\ csr'.mie = Late(wb).mie /\ csr'.mpie = Late(wb).mpie
        /\ csr'.mepc = Late(wb).mepc
    BY <1>4, <2>1, <2>2, CSRMoves DEF Late
  <2>4. /\ Drained.mepc' = csr'.mepc /\ Drained.mie' = csr'.mie
        /\ Drained.mpie' = csr'.mpie
    BY <1>2, <1>3, <2>1, DrainedTrapNext
  <2> QED BY <1>1, <1>6, <2>3, <2>4, DrainedTrap
<1>7. CASE ~InMEM /\ ~InWB
  <2>1. ~raiseIntrExcep /\ ~mret /\ ~InWB'
    BY <1>1, <1>7, Redirects, SystemMoves
  <2>2. csr'.mie = csr.mie /\ csr'.mpie = csr.mpie /\ csr'.mepc = csr.mepc
    BY <2>1, <1>4, CSRMoves
  <2>3. /\ Drained.mepc' = csr'.mepc /\ Drained.mie' = csr'.mie
        /\ Drained.mpie' = csr'.mpie
    BY <1>2, <1>3, <2>1, DrainedTrapNext
  <2> QED BY <1>1, <1>7, <2>2, <2>3, DrainedTrap
<1> QED BY <1>5, <1>6, <1>7

\* The instruction that EXE issues is the hart's next step.
LEMMA IssueSteps ==
  ASSUME NoClash, IInv, NEW e \in Env, Cycle(e), Issues(e)
  PROVE  H!Step
<1>1. Core /\ InOrder /\ Forwarded /\ Fetching /\ TypeInv /\ Owned /\ Precise
  BY DEF IInv, Core, Fetching
<1>2. TypeInv' /\ Precise'
  BY <1>1, StepTypes, PreciseStep DEF Next
<1>3. ~exeNop /\ ~exe.nop /\ toMEMFire(e)
  BY DEF Issues, exeNop
<1>4. /\ ~redirectValid /\ ~raiseIntrExcep /\ ~mret /\ ~takesIntr
      /\ ~InMEM /\ ~InWB /\ ~Pending /\ ~InWB'
  BY <1>1, <1>3, Redirects, SystemMoves
<1>5. exe.pc = pc /\ exe.inst = pc
  BY <1>1, <1>3, <1>4 DEF InOrder, Fetching, WordMatchesPC
<1> DEFINE i == I(exe)
<1>6. prog[pc] = i /\ exe.val = H!Read(Drained.regs, i.rs)
  BY <1>1, <1>3, <1>5 DEF I, Forwarded
<1>7. pc' = H!After(i, pc, exe.val)
  BY <1>4, <1>5, CSRMoves
<1>8. Drained.regs' = IF H!Computes(i)
                      THEN [Drained.regs EXCEPT ![i.rd] = H!Result(exe.val)]
                      ELSE Drained.regs
  BY <1>1, DrainedMoves
<1>9. /\ Drained.mepc = csr.mepc /\ Drained.mie = csr.mie /\ Drained.mpie = csr.mpie
      /\ csr.mie \in BOOLEAN /\ csr.mpie \in BOOLEAN
  BY <1>1, <1>4, DrainedTrap, Types DEF TypeInv
<1>10. /\ csr'.mie = IF i.op = "SETMIE" THEN TRUE ELSE csr.mie
       /\ csr'.mpie = csr.mpie
       /\ csr'.mepc = IF i.op = "SETMEPC" THEN i.target ELSE csr.mepc
  BY <1>4, <1>9, CSRMoves
<1>11. InMEM' <=> System(exe)
  BY <1>1, <1>3, StageMoves DEF InMEM, System, I
<1>12. I(me)' = i /\ me'.pc = exe.pc
  BY <1>1, <1>3, StageMoves DEF I
<1>13. System(exe) => /\ Drained.mepc' = Late(me)'.mepc /\ Drained.mie' = Late(me)'.mie
                      /\ Drained.mpie' = Late(me)'.mpie
  BY <1>2, <1>11, DrainedTrapNext
<1>14. ~System(exe) => /\ Drained.mepc' = csr'.mepc /\ Drained.mie' = csr'.mie
                       /\ Drained.mpie' = csr'.mpie
  BY <1>2, <1>4, <1>11, DrainedTrapNext
<1>15. CASE H!Traps(i)
  <2>1. System(exe) /\ ~H!Computes(i) /\ i.op # "SETMIE" /\ i.op # "SETMEPC"
    BY <1>15 DEF H!Traps, System, H!Computes
  <2>2. Drained.mepc' = pc /\ Drained.mie' = FALSE /\ Drained.mpie' = Drained.mie
    BY <1>5, <1>9, <1>10, <1>12, <1>13, <1>15, <2>1 DEF Late, H!Traps
  <2>3. pc' = Mtvec
    BY <1>7, <1>15 DEF H!After, H!Traps, H!Taken
  <2> QED BY <1>6, <1>8, <1>15, <2>1, <2>2, <2>3 DEF H!Step, H!Trap
<1>16. CASE ~H!Traps(i)
  <2>1. System(exe) <=> i.op = "MRET"
    BY <1>16 DEF System, H!Traps
  <2>2. CASE i.op = "MRET"
    <3>1. /\ Drained.mepc' = Drained.mepc /\ Drained.mie' = Drained.mpie
          /\ Drained.mpie' = TRUE
      BY <1>9, <1>10, <1>12, <1>13, <1>16, <2>1, <2>2 DEF Late, H!Traps
    <3> QED BY <1>6, <1>7, <1>8, <1>16, <2>2, <3>1 DEF H!Step, H!Execute
  <2>3. CASE i.op # "MRET"
    <3>1. /\ Drained.mepc' = IF i.op = "SETMEPC" THEN i.target ELSE Drained.mepc
          /\ Drained.mie' = IF i.op = "SETMIE" THEN TRUE ELSE Drained.mie
          /\ Drained.mpie' = Drained.mpie
      BY <1>9, <1>10, <1>14, <2>1, <2>3
    <3> QED BY <1>6, <1>7, <1>8, <1>9, <1>16, <2>3, <3>1 DEF H!Step, H!Execute
  <2> QED BY <2>2, <2>3
<1> QED BY <1>15, <1>16

\* An interrupt that EXE takes is the hart's interrupt.
LEMMA InterruptSteps ==
  ASSUME NoClash, IInv, NEW e \in Env, Cycle(e), takesIntr
  PROVE  H!Interrupt
<1>1. Core /\ InOrder /\ Forwarded /\ Fetching /\ TypeInv /\ Owned /\ Precise
  BY DEF IInv, Core, Fetching
<1>2. TypeInv' /\ Precise'
  BY <1>1, StepTypes, PreciseStep DEF Next
<1>3. /\ ~InMEM /\ ~InWB /\ ~Pending /\ exeNop /\ ~exe.nop
      /\ raiseIntrExcep /\ raiseIntr /\ csr.mie
  BY <1>1, Redirects DEF takesIntr, raiseIntr
<1>4. ~Issues(e) /\ ~InMEM' /\ ~InWB' /\ exe.pc = pc
  BY <1>1, <1>3, Fires, SystemMoves DEF InOrder
<1>5. /\ Drained.mepc = csr.mepc /\ Drained.mie = csr.mie /\ Drained.mpie = csr.mpie
  BY <1>1, <1>3, DrainedTrap
<1>6. /\ Drained.mepc' = csr'.mepc /\ Drained.mie' = csr'.mie /\ Drained.mpie' = csr'.mpie
  BY <1>2, <1>4, DrainedTrapNext
<1>7. csr'.mie = FALSE /\ csr'.mpie = csr.mie /\ csr'.mepc = pc /\ pc' = Mtvec
  BY <1>3, <1>4, CSRMoves
<1>8. Drained.regs' = Drained.regs
  BY <1>1, <1>4, DrainedMoves
<1> QED BY <1>3, <1>5, <1>6, <1>7, <1>8 DEF H!Interrupt, H!Trap

\* Every step of the pipeline is a step of the hart or none.
LEMMA HartStep == NoClash /\ IInv /\ [Next]_vars => [H!Next]_(H!vars)
<1>1. ASSUME NoClash, IInv, NEW e \in Env, Cycle(e)
      PROVE  [H!Next]_(H!vars)
  <2>1. prog' = prog
    BY <1>1 DEF Cycle
  <2>2. CASE Issues(e)
    BY <1>1, <2>1, <2>2, IssueSteps DEF H!Next
  <2>3. CASE takesIntr
    BY <1>1, <2>1, <2>3, InterruptSteps DEF H!Next
  <2>4. CASE ~Issues(e) /\ ~takesIntr
    <3>1. Core /\ Forwarded
      BY <1>1 DEF IInv
    <3>2. Drained.regs' = Drained.regs /\ pc' = pc
      BY <1>1, <2>4, <3>1, DrainedMoves, CSRMoves
    <3> QED BY <1>1, <2>1, <2>4, <3>1, <3>2, TrapMoves DEF H!vars
  <2> QED BY <2>2, <2>3, <2>4
<1>2. ASSUME UNCHANGED vars PROVE UNCHANGED H!vars
  BY <1>2, Rests DEF H!vars
<1> QED BY <1>1, <1>2 DEF Next

\* Both start alike.
LEMMA HartInit == Init => H!Init
<1> SUFFICES ASSUME Init PROVE H!Init
  OBVIOUS
<1>1. /\ prog \in Programs /\ pc = 0 /\ me.nop = TRUE /\ wb.nop = TRUE
      /\ regs = [x \in Regs |-> 0]
      /\ csr.mie = FALSE /\ csr.mpie = FALSE /\ csr.mepc = 0
  BY DEF Init
<1>2. TypeInv /\ Precise
  BY IInvInit DEF IInv, Core, Fetching
<1>3. Drained.mie = FALSE /\ Drained.mpie = FALSE /\ Drained.mepc = 0
  BY <1>1, <1>2, DrainedTrap DEF InMEM, InWB
<1>4. Drained.regs = [x \in Regs |-> 0]
  BY <1>1, DrainedRegs DEF MeLive, Settled, Writes
<1> QED BY <1>1, <1>3, <1>4 DEF H!Init

-----------------------------------------------------------------------------
\* A unit at work and a redirect already sent are those of the instruction in
\* EXE, so an untagged answer goes to the one that asked (EXE.scala:162-163,
\* 218-222), for as long as nothing kills that instruction.
THEOREM NothingIsOrphaned ==
  ASSUME NoAlias
  PROVE  Spec /\ []NeverBack /\ []NoClash => []NothingOrphaned
<1>1. IInv => NothingOrphaned
  BY DEF IInv, Core, Owned, NothingOrphaned
<1> QED BY <1>1, IInvInit, IInvStep, PTL DEF Spec

\* The core does what the reference machine of dut.cc does, one instruction
\* after the other: the operands bypassed from EXE, MEM and WB are those the
\* instructions before left (BypassNetwork.scala), wrong predictions leave no
\* trace (EXE.scala:147-160), and traps, returns and interrupts are precise
\* (CSRRegFile.scala), but for the coincidences of NoClash.
THEOREM ImplementsHart ==
  ASSUME NoAlias
  PROVE  Spec /\ []NeverBack /\ []NoClash => Difftest
<1>1. NoClash /\ IInv /\ [Next]_vars => [H!Next]_(H!vars)
  BY HartStep
<1> QED BY <1>1, IInvInit, IInvStep, HartInit, PTL DEF Spec, Difftest, H!Spec

\* The coincidences need an interrupt, or a division behind an access that may
\* kill it.
LEMMA NeverClashes ==
  ASSUME NoInterrupts, NoKilledDiv
  PROVE  Spec => []NoClash
<1> DEFINE Quiet == ~csr.hadInterrupt
<1>1. Init => Quiet
  BY DEF Init
<1>2. TypeInv => ~raiseIntr /\ ~takesIntr
  BY DEF TypeInv, TypeOK, NoInterrupts, raiseIntr, takesIntr
<1>3. TypeInv /\ Quiet /\ [Next]_vars => Quiet'
  <2>1. ASSUME TypeInv, Quiet, NEW e \in Env, Cycle(e) PROVE Quiet'
    BY <1>2, <2>1, CSRMoves
  <2> QED BY <2>1 DEF Next, vars
<1>4. TypeInv /\ Quiet => NoClash
  <2>1. SUFFICES ASSUME TypeInv, Quiet, flush2EXE PROVE I(exe).op # "DIV"
    BY <1>2 DEF NoClash, exeNop, interrupt
  <2>2. prog \in Programs /\ me.inst \in PCs /\ exe.inst \in PCs
    BY <2>1, Types DEF TypeInv, TypeOK
  <2> QED BY <2>1, <2>2 DEF flush2EXE, NoKilledDiv, I
<1> QED BY <1>1, <1>3, <1>4, InitTypes, StepTypes, PTL DEF Spec

\* So without interrupts the core passes the difftest on every program without
\* MRET whose jumps and traps do not lead to PC_INIT and that has no division
\* to be killed.
THEOREM PassesDifftest ==
  ASSUME NoAlias, NoInterrupts, NoKilledDiv, Forward
  PROVE  Spec => Difftest
BY ImplementsHart, NeverClashes, StaysAway, PTL
=============================================================================
