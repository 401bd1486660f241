--------------------------- MODULE PipelineProofs ---------------------------
(***************************************************************************)
(* Proofs about the pipeline for every set of programs, every latency of   *)
(* the cache, the memory and the units, and every interrupt.               *)
(***************************************************************************)
EXTENDS Pipeline, TLAPS

Pred == [taken : BOOLEAN, target : PCs \cup {Boot}]

\* PC_INIT - 4 stands in the front stages only until they have been through,
\* and till then no instruction is live behind it.
Young ==
  /\ ifs.PC = Boot \/ id.pc = Boot => id.nop
  /\ ifs.PC = Boot \/ id.pc = Boot \/ exe.pc = Boot =>
       exe.nop /\ me.nop /\ wb.nop /\ ~csr.mie
  /\ ~exe.nop => exe.pc # Boot
  /\ ~me.nop => me.pc # Boot
  /\ ~wb.nop => wb.pc # Boot

\* A prediction to jump has somewhere to go.
Aimed == ifs.pred.taken => ifs.pred.target \in PCs

TypeInv == TypeOK /\ Young /\ Aimed

-----------------------------------------------------------------------------
\* The addresses and the words.
LEMMA Constants ==
  /\ Last \in Nat /\ 0 \in PCs /\ Mtvec \in PCs /\ Boot \notin PCs
  /\ PCs \subseteq Nat /\ Boot \in Nat /\ Boot # 0
  /\ 0 \in Word /\ 0 \notin Regs
  /\ Levels \subseteq BOOLEAN
BY PipelineAssumption DEF PCs, Boot, Word

\* The instructions of a program.
LEMMA Instructions ==
  ASSUME TypeOK, NEW p \in PCs
  PROVE  /\ prog[p].op \in {"ALU", "LOAD", "MUL", "DIV", "JMP", "BNZ", "SETMIE", "SETMEPC",
                            "FENCEI", "ECALL", "MISALIGNED", "MRET"}
         /\ prog[p].rd \in Regs \cup {0} /\ prog[p].rs \in Regs \cup {0}
         /\ prog[p].target \in PCs
         /\ H!Computes(prog[p]) <=> prog[p].rd # 0
<1>1. prog \in Programs
  BY DEF TypeOK
<1>2. prog \in [PCs -> H!Instruction] /\ (H!Computes(prog[p]) <=> prog[p].rd # 0)
  BY <1>1, PipelineAssumption
<1>3. prog[p] \in H!Instruction
  BY <1>2
<1>4. H!PCs = PCs
  BY DEF H!PCs, PCs
<1> QED BY <1>2, <1>3, <1>4 DEF H!Instruction

\* The next address, and the result of an operation.
LEMMA Successors ==
  /\ \A p \in PCs : H!Succ(p) \in PCs
  /\ \A p \in PCs \cup {Boot} : Next4(p) \in PCs
  /\ Next4(Boot) = 0
<1>1. \A p \in PCs : H!Succ(p) \in PCs
  BY Constants DEF H!Succ, PCs
<1> QED BY <1>1, Constants DEF Next4

LEMMA Results == \A v \in Word : H!Result(v) \in Word
<1> SUFFICES ASSUME NEW v \in Word PROVE H!Result(v) \in Word
  OBVIOUS
<1>1. MaxWord \in Nat /\ v \in 0 .. MaxWord
  BY PipelineAssumption DEF Word
<1>2. (v + 1) % (MaxWord + 1) \in 0 .. MaxWord
  BY <1>1
<1> QED BY <1>2 DEF H!Result, Word

\* The fields of the registers.
LEMMA Types ==
  ASSUME TypeOK
  PROVE  /\ ifs.PC \in PCs \cup {Boot} /\ ifs.pred \in Pred /\ ifs.instReg \in PCs
         /\ ifs.reqFired \in BOOLEAN /\ ifs.instGetted \in BOOLEAN
         /\ fetch.st \in {"empty", "lookup", "refill", "finish"} /\ fetch.addr \in PCs
         /\ id.pc \in PCs \cup {Boot} /\ id.inst \in PCs /\ id.pred \in Pred
         /\ id.nop \in BOOLEAN /\ id.hasFired \in BOOLEAN
         /\ exe.pc \in PCs \cup {Boot} /\ exe.inst \in PCs /\ exe.pred \in Pred
         /\ exe.nop \in BOOLEAN /\ exe.regWrite \in BOOLEAN /\ exe.val \in Word
         /\ exe.jumpBusFired \in BOOLEAN
         /\ me.pc \in PCs \cup {Boot} /\ me.inst \in PCs /\ me.nop \in BOOLEAN
         /\ me.val \in Word /\ me.regWrite \in BOOLEAN /\ me.hasFired \in BOOLEAN
         /\ me.state \in {"IDLE", "RESP"}
         /\ wb.pc \in PCs \cup {Boot} /\ wb.inst \in PCs /\ wb.nop \in BOOLEAN
         /\ wb.val \in Word /\ wb.regWrite \in BOOLEAN
         /\ csr.mie \in BOOLEAN /\ csr.mpie \in BOOLEAN /\ csr.mepc \in PCs
         /\ csr.hadInterrupt \in BOOLEAN /\ csr.flushQ \in {"none", "mtvec", "mepc"}
         /\ pc \in PCs /\ regs \in [Regs -> Word] /\ intr \in BOOLEAN
<1>1. ifs.PC \in PCs \cup {Boot} /\ ifs.pred \in Pred /\ ifs.instReg \in PCs
      /\ ifs.reqFired \in BOOLEAN /\ ifs.instGetted \in BOOLEAN
  BY DEF TypeOK, Pred
<1>2. fetch.st \in {"empty", "lookup", "refill", "finish"} /\ fetch.addr \in PCs
  BY DEF TypeOK
<1>3. id.pc \in PCs \cup {Boot} /\ id.inst \in PCs /\ id.pred \in Pred
      /\ id.nop \in BOOLEAN /\ id.hasFired \in BOOLEAN
  BY DEF TypeOK, Pred
<1>4. exe.pc \in PCs \cup {Boot} /\ exe.inst \in PCs /\ exe.pred \in Pred
      /\ exe.nop \in BOOLEAN /\ exe.regWrite \in BOOLEAN /\ exe.val \in Word
      /\ exe.jumpBusFired \in BOOLEAN
  BY DEF TypeOK, Pred
<1>5. me.pc \in PCs \cup {Boot} /\ me.inst \in PCs /\ me.nop \in BOOLEAN
      /\ me.val \in Word /\ me.regWrite \in BOOLEAN /\ me.hasFired \in BOOLEAN
      /\ me.state \in {"IDLE", "RESP"}
  BY DEF TypeOK
<1>6. wb.pc \in PCs \cup {Boot} /\ wb.inst \in PCs /\ wb.nop \in BOOLEAN
      /\ wb.val \in Word /\ wb.regWrite \in BOOLEAN
  BY DEF TypeOK
<1>7. csr.mie \in BOOLEAN /\ csr.mpie \in BOOLEAN /\ csr.mepc \in PCs
      /\ csr.hadInterrupt \in BOOLEAN /\ csr.flushQ \in {"none", "mtvec", "mepc"}
  BY DEF TypeOK
<1>8. pc \in PCs /\ regs \in [Regs -> Word] /\ intr \in BOOLEAN
  BY Constants DEF TypeOK
<1> QED BY <1>1, <1>2, <1>3, <1>4, <1>5, <1>6, <1>7, <1>8

\* What a prediction for p can be.
LEMMA Predicted ==
  ASSUME TypeOK, NEW p, NEW q \in Predictions(p)
  PROVE  /\ q \in Pred
         /\ q.taken => /\ q.target \in PCs
                       /\ \E b \in PCs : H!Branches(prog[b]) /\ b % BtbWords = p % BtbWords
<1>1. CASE q = NoPred
  BY <1>1 DEF NoPred, Pred
<1>2. ASSUME NEW b \in {b \in PCs : H!Branches(prog[b]) /\ b % BtbWords = p % BtbWords},
             q \in [taken : BOOLEAN, target : {prog[b].target, H!Succ(b)}]
      PROVE  /\ q \in Pred /\ q.target \in PCs
             /\ b \in PCs /\ H!Branches(prog[b]) /\ b % BtbWords = p % BtbWords
  <2>1. b \in PCs /\ H!Branches(prog[b]) /\ b % BtbWords = p % BtbWords
    BY <1>2
  <2>2. prog[b].target \in PCs /\ H!Succ(b) \in PCs
    BY <2>1, Instructions, Successors
  <2> QED BY <1>2, <2>1, <2>2 DEF Pred
<1>3. q = NoPred \/ \E b \in {b \in PCs : H!Branches(prog[b]) /\ b % BtbWords = p % BtbWords} :
                      q \in [taken : BOOLEAN, target : {prog[b].target, H!Succ(b)}]
  BY DEF Predictions
<1>4. CASE q # NoPred
  BY <1>2, <1>3, <1>4
<1> QED BY <1>1, <1>4 DEF NoPred

\* Where IF goes on is an address.
LEMMA NpcType ==
  ASSUME TypeInv
  PROVE  npc \in PCs
<1>1. redirectTo \in PCs
  BY Types, Constants DEF TypeInv, redirectTo
<1>2. jumpTarget \in PCs
  BY Types, Instructions, Successors DEF TypeInv, jumpTarget, I
<1>3. ifs.pred.taken => ifs.pred.target \in PCs
  BY DEF TypeInv, Aimed
<1>4. Next4(ifs.PC) \in PCs
  BY Types, Successors DEF TypeInv
<1> QED BY <1>1, <1>2, <1>3, <1>4 DEF npc

\* Where a return goes, whatever trap is still on its way.
LEMMA MepcType ==
  ASSUME TypeInv
  PROVE  Drained.mepc \in PCs
<1>1. TypeOK /\ Young
  BY DEF TypeInv
<1> DEFINE System(s) == prog[s.inst].op \in {"ECALL", "MISALIGNED", "MRET"}
           late == IF (~me.nop /\ ~me.hasFired) /\ System(me)
                   THEN [op |-> prog[me.inst].op, pc |-> me.pc]
                   ELSE IF ~wb.nop /\ System(wb) THEN [op |-> prog[wb.inst].op, pc |-> wb.pc]
                   ELSE [op |-> "none", pc |-> 0]
<1>2. Drained.mepc = IF late.op \in {"ECALL", "MISALIGNED"} THEN late.pc ELSE csr.mepc
  BY DEF Drained
<1>3. late.pc \in PCs
  BY <1>1, Types, Constants DEF Young
<1> HIDE DEF late
<1> QED BY <1>1, <1>2, <1>3, Types

\* What the stages pass on is a word.
LEMMA WordTypes ==
  ASSUME TypeOK
  PROVE  ExeRegWdata \in Word /\ MemRegWdata \in Word /\ Operand \in Word
<1>1. /\ \A u \in Units : mdu[u].res \in Word
      /\ exe.val \in Word /\ me.val \in Word /\ wb.val \in Word
      /\ H!Read(regs, I(id).rs) \in Word
  <2>1. mdu \in [Units -> [busy : BOOLEAN, done : BOOLEAN, res : Word, reqFired : BOOLEAN]]
    BY DEF TypeOK
  <2>2. I(id).rs \in Regs \cup {0} /\ regs \in [Regs -> Word]
    BY Types, Instructions DEF I
  <2>3. H!Read(regs, I(id).rs) \in Word
    BY <2>2, Constants DEF H!Read
  <2> QED BY <2>1, <2>3, Types
<1>2. ExeRegWdata \in Word
  BY <1>1, Results DEF ExeRegWdata, Units
<1>3. MemRegWdata \in Word
  BY <1>1, Results DEF MemRegWdata
<1> QED BY <1>1, <1>2, <1>3 DEF Operand

\* A live instruction has an address, and so has one that is interrupted or
\* traps.
LEMMA Interrupted ==
  ASSUME TypeInv
  PROVE  /\ takesIntr => ~exe.nop /\ ~flush2EXE /\ exe.pc \in PCs
         /\ raiseIntrExcep => exe.pc \in PCs
         /\ raiseExcep => wb.pc \in PCs
         /\ ~exeNop => exe.pc \in PCs
<1>1. TypeOK /\ Young
  BY DEF TypeInv
<1>2. takesIntr => ~exe.nop /\ ~flush2EXE /\ exe.pc \in PCs
  BY <1>1, Types DEF Young, takesIntr, intrCmdValid
<1>3. raiseExcep => wb.pc \in PCs /\ exe.pc \in PCs
  BY <1>1, Types DEF Young, raiseExcep
<1>4. ~exeNop => exe.pc \in PCs
  BY <1>1, Types DEF Young, exeNop
<1> QED BY <1>2, <1>3, <1>4 DEF raiseIntrExcep

-----------------------------------------------------------------------------
\* The types are kept, stage by stage.
LEMMA InitTypes == Init => TypeInv
<1> SUFFICES ASSUME Init PROVE TypeInv
  OBVIOUS
<1>1. /\ ifs.PC = Boot /\ ifs.pred = NoPred /\ id.nop /\ exe.nop /\ me.nop /\ wb.nop
      /\ csr.mie = FALSE
  BY DEF Init
<1>2. Young /\ Aimed
  BY <1>1 DEF Young, Aimed, NoPred
<1>3. NoPred \in Pred
  BY DEF NoPred, Pred
<1>4. /\ prog \in Programs
      /\ ifs \in [PC : PCs \cup {Boot}, pred : Pred, reqFired : BOOLEAN,
                  instGetted : BOOLEAN, instReg : PCs]
      /\ fetch \in [st : {"empty", "lookup", "refill", "finish"}, addr : PCs]
      /\ id \in [pc : PCs \cup {Boot}, inst : PCs, pred : Pred, nop : BOOLEAN,
                 hasFired : BOOLEAN]
  BY <1>3, Constants DEF Init
<1>5. /\ exe \in [pc : PCs \cup {Boot}, inst : PCs, pred : Pred, nop : BOOLEAN,
                  regWrite : BOOLEAN, val : Word, jumpBusFired : BOOLEAN]
      /\ mdu \in [Units -> [busy : BOOLEAN, done : BOOLEAN, res : Word, reqFired : BOOLEAN]]
  BY <1>3, Constants DEF Init
<1>6. /\ me \in [pc : PCs \cup {Boot}, inst : PCs, nop : BOOLEAN, val : Word,
                 regWrite : BOOLEAN, hasFired : BOOLEAN, state : {"IDLE", "RESP"}]
      /\ wb \in [pc : PCs \cup {Boot}, inst : PCs, nop : BOOLEAN, val : Word,
                 regWrite : BOOLEAN]
      /\ regs \in [Regs -> Word]
  BY Constants DEF Init
<1>7. /\ csr \in [mie : BOOLEAN, mpie : BOOLEAN, mepc : PCs, hadInterrupt : BOOLEAN,
                  flushQ : {"none", "mtvec", "mepc"}]
      /\ intr \in Levels \cup {FALSE} /\ pc \in PCs
  BY Constants DEF Init
<1> QED BY <1>2, <1>4, <1>5, <1>6, <1>7 DEF TypeInv, TypeOK, Pred

LEMMA IFTypes ==
  ASSUME TypeInv, NEW e \in Env, IFNext(e), prog' = prog
  PROVE  /\ ifs' \in [PC : PCs \cup {Boot}, pred : Pred, reqFired : BOOLEAN,
                      instGetted : BOOLEAN, instReg : PCs]
         /\ fetch' \in [st : {"empty", "lookup", "refill", "finish"}, addr : PCs]
         /\ Aimed'
         /\ ifs'.PC = Boot => ifs.PC = Boot /\ ~toIDFire(e)
<1>1. TypeOK /\ npc \in PCs
  BY NpcType DEF TypeInv
<1>2. PICK p \in IF toIDFire(e) THEN Predictions(npc) ELSE {ifs.pred} :
        ifs' = [ PC |-> IF toIDFire(e) THEN npc ELSE ifs.PC, pred |-> p,
                 reqFired |-> ~toIDFire(e) /\ (ifs.reqFired \/ arFire(e)),
                 instGetted |-> ~toIDFire(e) /\ (ifs.instGetted \/ rFire(e)),
                 instReg |-> IF rFire(e) THEN fetch.addr ELSE ifs.instReg ]
  BY DEF IFNext
<1>3. p \in Pred /\ (p.taken => p.target \in PCs)
  BY <1>1, <1>2, Predicted, Types DEF TypeInv, Aimed
<1>4. ifs' \in [PC : PCs \cup {Boot}, pred : Pred, reqFired : BOOLEAN,
                instGetted : BOOLEAN, instReg : PCs]
  BY <1>1, <1>2, <1>3, Types
<1>5. fetch' = IF arFire(e) THEN [st |-> "lookup", addr |-> arAddr]
               ELSE [fetch EXCEPT !.st =
                       CASE rFire(e) -> "empty"
                         [] @ = "lookup" /\ ~e.hit -> "refill"
                         [] @ = "refill" /\ e.refilled -> "finish"
                         [] OTHER -> @]
  BY DEF IFNext
<1>6. fetch \in [st : {"empty", "lookup", "refill", "finish"}, addr : PCs]
  BY <1>1 DEF TypeOK
<1>7. fetch' \in [st : {"empty", "lookup", "refill", "finish"}, addr : PCs]
  BY <1>1, <1>5, <1>6 DEF arAddr
<1>8. Aimed'
  BY <1>2, <1>3 DEF Aimed
<1>9. ifs'.PC = Boot => ifs.PC = Boot /\ ~toIDFire(e)
  BY <1>1, <1>2, Constants
<1> QED BY <1>4, <1>7, <1>8, <1>9

LEMMA IDTypes ==
  ASSUME TypeInv, NEW e \in Env, IDNext(e)
  PROVE  /\ id' \in [pc : PCs \cup {Boot}, inst : PCs, pred : Pred, nop : BOOLEAN,
                     hasFired : BOOLEAN]
         /\ id'.pc = IF toIDFire(e) THEN ifs.PC ELSE id.pc
         /\ id'.nop = IF toIDFire(e) THEN ifs.PC = Boot \/ flush ELSE id.nop
<1>1. id \in [pc : PCs \cup {Boot}, inst : PCs, pred : Pred, nop : BOOLEAN,
              hasFired : BOOLEAN]
  BY DEF TypeInv, TypeOK, Pred
<1> DEFINE fired == IF ~toEXEFire(e) THEN id.hasFired
                    ELSE ~toIDFire(e) /\ (id.hasFired \/ ~stall)
<1>2. fired \in BOOLEAN
  BY <1>1
<1>3. id' = IF toIDFire(e)
            THEN [pc |-> ifs.PC, nop |-> ifs.PC = Boot \/ flush, hasFired |-> fired,
                  inst |-> IF rFire(e) THEN fetch.addr ELSE ifs.instReg,
                  pred |-> ifs.pred]
            ELSE [id EXCEPT !.hasFired = fired]
  BY DEF IDNext
<1> HIDE DEF fired
<1> QED BY <1>1, <1>2, <1>3, Types DEF TypeInv

LEMMA EXETypes ==
  ASSUME TypeInv, NEW e \in Env, EXENext(e)
  PROVE  /\ exe' \in [pc : PCs \cup {Boot}, inst : PCs, pred : Pred, nop : BOOLEAN,
                      regWrite : BOOLEAN, val : Word, jumpBusFired : BOOLEAN]
         /\ exe'.pc = IF toMEMFire(e) THEN id.pc ELSE exe.pc
         /\ exe'.nop = IF toMEMFire(e) THEN idNop ELSE exe.nop
<1>1. exe \in [pc : PCs \cup {Boot}, inst : PCs, pred : Pred, nop : BOOLEAN,
               regWrite : BOOLEAN, val : Word, jumpBusFired : BOOLEAN]
  BY DEF TypeInv, TypeOK, Pred
<1> DEFINE fired == IF jumpFire(e) THEN ~toMEMFire(e) ELSE exe.jumpBusFired
<1>2. fired \in BOOLEAN
  BY <1>1
<1>3. exe' = IF toMEMFire(e)
             THEN [ pc |-> id.pc, inst |-> id.inst, pred |-> id.pred, nop |-> idNop,
                    regWrite |-> H!Computes(I(id)) /\ ~idNop,
                    val |-> IF idNop THEN 0 ELSE Operand, jumpBusFired |-> fired ]
             ELSE [exe EXCEPT !.jumpBusFired = fired]
  BY DEF EXENext
<1>4. idNop \in BOOLEAN
  BY Types DEF TypeInv, idNop
<1> HIDE DEF fired
<1> QED BY <1>1, <1>2, <1>3, <1>4, Types, WordTypes, Constants DEF TypeInv

LEMMA MduTypes ==
  ASSUME TypeInv, NEW e \in Env, MduNext(e)
  PROVE  mdu' \in [Units -> [busy : BOOLEAN, done : BOOLEAN, res : Word, reqFired : BOOLEAN]]
<1>1. \A u \in Units : mdu[u] \in [busy : BOOLEAN, done : BOOLEAN, res : Word,
                                   reqFired : BOOLEAN]
  BY DEF TypeInv, TypeOK
<1>2. H!Result(exe.val) \in Word
  BY Types, Results DEF TypeInv
<1>3. ASSUME NEW u \in Units
      PROVE  [ busy |-> ReqFire(u) \/ (mdu[u].busy /\ ~RespFire(u)),
               done |-> mdu[u].busy /\ ~RespFire(u) /\ (mdu[u].done \/ u \in e.computed),
               res |-> IF ReqFire(u) THEN H!Result(exe.val) ELSE mdu[u].res,
               reqFired |-> ~toEXEFire(e) /\ (mdu[u].reqFired \/ ReqFire(u)) ]
             \in [busy : BOOLEAN, done : BOOLEAN, res : Word, reqFired : BOOLEAN]
  BY <1>1, <1>2
<1> QED BY <1>3 DEF MduNext

LEMMA MEMTypes ==
  ASSUME TypeInv, NEW e \in Env, MEMNext(e)
  PROVE  /\ me' \in [pc : PCs \cup {Boot}, inst : PCs, nop : BOOLEAN, val : Word,
                     regWrite : BOOLEAN, hasFired : BOOLEAN, state : {"IDLE", "RESP"}]
         /\ me'.pc = IF toMEMFire(e) THEN exe.pc ELSE me.pc
         /\ me'.nop = IF toMEMFire(e) THEN exeNop ELSE me.nop
<1>1. me \in [pc : PCs \cup {Boot}, inst : PCs, nop : BOOLEAN, val : Word,
              regWrite : BOOLEAN, hasFired : BOOLEAN, state : {"IDLE", "RESP"}]
  BY DEF TypeInv, TypeOK
<1> DEFINE fired == IF MemDone THEN ~exeValid(e) ELSE me.hasFired
           state == IF me.state = "IDLE" /\ LoadWaits /\ e.loaded THEN "RESP"
                    ELSE IF me.state = "RESP" /\ exeValid(e) THEN "IDLE" ELSE me.state
<1>2. fired \in BOOLEAN /\ state \in {"IDLE", "RESP"}
  BY <1>1
<1>3. me' = IF toMEMFire(e)
            THEN [pc |-> exe.pc, inst |-> exe.inst, nop |-> exeNop, val |-> ExeRegWdata,
                  regWrite |-> exe.regWrite, hasFired |-> fired, state |-> state]
            ELSE [me EXCEPT !.hasFired = fired, !.state = state]
  BY DEF MEMNext
<1>4. exeNop \in BOOLEAN
  BY Types DEF TypeInv, exeNop
<1> HIDE DEF fired, state
<1> QED BY <1>1, <1>2, <1>3, <1>4, Types, WordTypes DEF TypeInv

LEMMA WBTypes ==
  ASSUME TypeInv, NEW e \in Env, WBNext(e)
  PROVE  /\ wb' \in [pc : PCs \cup {Boot}, inst : PCs, nop : BOOLEAN, val : Word,
                     regWrite : BOOLEAN]
         /\ wb'.pc = IF MemDone THEN me.pc ELSE wb.pc
         /\ wb'.nop = IF MemDone THEN me.nop \/ me.hasFired ELSE wb.nop
         /\ regs' \in [Regs -> Word]
<1>1. wb \in [pc : PCs \cup {Boot}, inst : PCs, nop : BOOLEAN, val : Word,
              regWrite : BOOLEAN] /\ regs \in [Regs -> Word]
  BY DEF TypeInv, TypeOK
<1>2. wb' = IF MemDone
            THEN [pc |-> me.pc, inst |-> me.inst, nop |-> me.nop \/ me.hasFired,
                  val |-> MemRegWdata,
                  regWrite |-> MemRegWrite /\ ~(me.nop \/ me.hasFired)]
            ELSE wb
  BY DEF WBNext
<1>3. regs' = IF wb.regWrite THEN [regs EXCEPT ![I(wb).rd] = wb.val] ELSE regs
  BY DEF WBNext
<1>4. regs' \in [Regs -> Word]
  BY <1>1, <1>3, Types DEF TypeInv
<1> QED BY <1>1, <1>2, <1>4, Types, WordTypes DEF TypeInv

LEMMA CSRTypes ==
  ASSUME TypeInv, NEW e \in Env, CSRNext(e)
  PROVE  /\ csr' \in [mie : BOOLEAN, mpie : BOOLEAN, mepc : PCs, hadInterrupt : BOOLEAN,
                      flushQ : {"none", "mtvec", "mepc"}]
         /\ csr'.mie => csr.mie \/ Issues(e) \/ mret
<1> DEFINE Writing(op) == I(exe).op = op /\ Issues(e)
           mie == IF Writing("SETMIE") THEN TRUE ELSE IF raiseIntrExcep THEN FALSE
                  ELSE IF mret THEN csr.mpie ELSE csr.mie
           mpie == IF raiseIntrExcep THEN csr.mie ELSE mret \/ csr.mpie
           mepc == IF Writing("SETMEPC") THEN I(exe).target
                   ELSE IF ~raiseIntrExcep THEN csr.mepc
                   ELSE IF raiseIntr THEN exe.pc ELSE wb.pc
           had == raiseIntr \/ (csr.hadInterrupt /\ ~redirectFire(e))
           queue == IF ~redirectValid \/ redirectFire(e) THEN "none"
                    ELSE IF csr.flushQ # "none" THEN csr.flushQ
                    ELSE IF raiseIntrExcep THEN "mtvec" ELSE "mepc"
<1>1. csr' = [mie |-> mie, mpie |-> mpie, mepc |-> mepc, hadInterrupt |-> had, flushQ |-> queue]
  BY DEF CSRNext
<1>2. mie \in BOOLEAN /\ mpie \in BOOLEAN /\ (mie => csr.mie \/ Issues(e) \/ mret)
  BY Types DEF TypeInv
<1>3. mepc \in PCs
  <2>1. I(exe).target \in PCs
    BY Types, Instructions DEF TypeInv, I
  <2>2. raiseIntrExcep => (IF raiseIntr THEN exe.pc ELSE wb.pc) \in PCs
    BY Interrupted DEF raiseIntrExcep, takesIntr
  <2> QED BY <2>1, <2>2, Types DEF TypeInv
<1>4. had \in BOOLEAN /\ queue \in {"none", "mtvec", "mepc"}
  BY Types DEF TypeInv
<1> HIDE DEF mie, mpie, mepc, had, queue
<1> QED BY <1>1, <1>2, <1>3, <1>4

LEMMA PCTypes ==
  ASSUME TypeInv, NEW e \in Env, PCNext(e)
  PROVE  pc' \in PCs
<1>1. CASE takesIntr
  BY <1>1, Constants DEF PCNext
<1>2. CASE ~takesIntr /\ Issues(e)
  <2>1. exe.pc \in PCs
    BY <1>2, Interrupted DEF Issues
  <2>2. H!After(I(exe), exe.pc, exe.val) \in PCs
    BY <2>1, Constants, MepcType, Types, Instructions, Successors DEF TypeInv, H!After, I
  <2> QED BY <1>2, <2>2 DEF PCNext
<1>3. CASE ~takesIntr /\ ~Issues(e)
  BY <1>3, Types DEF PCNext, TypeInv
<1> QED BY <1>1, <1>2, <1>3

\* The front stages empty from behind: what is not live stays so.
LEMMA YoungStep ==
  ASSUME TypeInv, NEW e \in Env, Cycle(e)
  PROVE  Young'
<1>1. TypeOK /\ Young
  BY DEF TypeInv
<1>2. /\ ifs'.PC = Boot => ifs.PC = Boot /\ ~toIDFire(e)
      /\ id'.pc = IF toIDFire(e) THEN ifs.PC ELSE id.pc
      /\ id'.nop = IF toIDFire(e) THEN ifs.PC = Boot \/ flush ELSE id.nop
      /\ exe'.pc = IF toMEMFire(e) THEN id.pc ELSE exe.pc
      /\ exe'.nop = IF toMEMFire(e) THEN idNop ELSE exe.nop
      /\ me'.pc = IF toMEMFire(e) THEN exe.pc ELSE me.pc
      /\ me'.nop = IF toMEMFire(e) THEN exeNop ELSE me.nop
      /\ wb'.pc = IF MemDone THEN me.pc ELSE wb.pc
      /\ wb'.nop = IF MemDone THEN me.nop \/ me.hasFired ELSE wb.nop
      /\ csr'.mie => csr.mie \/ Issues(e) \/ mret
  BY IFTypes, IDTypes, EXETypes, MEMTypes, WBTypes, CSRTypes DEF Cycle
<1>3. id.nop => idNop
  BY DEF idNop
<1>4. exe.nop => exeNop
  BY DEF exeNop
<1>5. ifs'.PC = Boot \/ id'.pc = Boot => id'.nop /\ (ifs.PC = Boot \/ id.pc = Boot)
  BY <1>1, <1>2 DEF Young
<1>6. ifs'.PC = Boot \/ id'.pc = Boot \/ exe'.pc = Boot =>
        /\ ifs.PC = Boot \/ id.pc = Boot \/ exe.pc = Boot
        /\ exe'.nop
  <2>1. ifs.PC = Boot \/ id.pc = Boot => exe.nop /\ id.nop
    BY <1>1 DEF Young
  <2>2. exe.pc = Boot => exe.nop
    BY <1>1 DEF Young
  <2> QED BY <1>2, <1>3, <1>5, <2>1, <2>2
<1>7. ifs'.PC = Boot \/ id'.pc = Boot \/ exe'.pc = Boot =>
        me'.nop /\ wb'.nop /\ ~csr'.mie
  BY <1>1, <1>2, <1>4, <1>6 DEF Young, Issues, mret
<1>8. ~id'.nop => id'.pc # Boot
  BY <1>5
<1>9. /\ ~exe'.nop => exe'.pc # Boot
      /\ ~me'.nop => me'.pc # Boot
      /\ ~wb'.nop => wb'.pc # Boot
  BY <1>1, <1>2, <1>3, <1>4 DEF Young
<1> QED BY <1>5, <1>6, <1>7, <1>9 DEF Young

LEMMA StepTypes == TypeInv /\ [Next]_vars => TypeInv'
<1>1. ASSUME TypeInv, NEW e \in Env, Cycle(e)
      PROVE  TypeInv'
  <2>1. IFNext(e) /\ IDNext(e) /\ EXENext(e) /\ MduNext(e) /\ MEMNext(e) /\ WBNext(e)
        /\ CSRNext(e) /\ PCNext(e) /\ intr' = e.intr /\ prog' = prog
    BY <1>1 DEF Cycle
  <2>2. /\ ifs' \in [PC : PCs \cup {Boot}, pred : Pred, reqFired : BOOLEAN,
                     instGetted : BOOLEAN, instReg : PCs]
        /\ fetch' \in [st : {"empty", "lookup", "refill", "finish"}, addr : PCs]
        /\ Aimed'
    BY <1>1, <2>1, IFTypes
  <2>3. id' \in [pc : PCs \cup {Boot}, inst : PCs, pred : Pred, nop : BOOLEAN,
                 hasFired : BOOLEAN]
    BY <1>1, <2>1, IDTypes
  <2>4. exe' \in [pc : PCs \cup {Boot}, inst : PCs, pred : Pred, nop : BOOLEAN,
                  regWrite : BOOLEAN, val : Word, jumpBusFired : BOOLEAN]
    BY <1>1, <2>1, EXETypes
  <2>5. mdu' \in [Units -> [busy : BOOLEAN, done : BOOLEAN, res : Word, reqFired : BOOLEAN]]
    BY <1>1, <2>1, MduTypes
  <2>6. me' \in [pc : PCs \cup {Boot}, inst : PCs, nop : BOOLEAN, val : Word,
                 regWrite : BOOLEAN, hasFired : BOOLEAN, state : {"IDLE", "RESP"}]
    BY <1>1, <2>1, MEMTypes
  <2>7. /\ wb' \in [pc : PCs \cup {Boot}, inst : PCs, nop : BOOLEAN, val : Word,
                    regWrite : BOOLEAN]
        /\ regs' \in [Regs -> Word]
    BY <1>1, <2>1, WBTypes
  <2>8. csr' \in [mie : BOOLEAN, mpie : BOOLEAN, mepc : PCs, hadInterrupt : BOOLEAN,
                  flushQ : {"none", "mtvec", "mepc"}]
    BY <1>1, <2>1, CSRTypes
  <2>9. intr' \in Levels \cup {FALSE} /\ pc' \in PCs /\ prog' \in Programs
    BY <1>1, <2>1, PCTypes DEF Env, TypeInv, TypeOK
  <2>10. TypeOK'
    BY <2>2, <2>3, <2>4, <2>5, <2>6, <2>7, <2>8, <2>9 DEF TypeOK, Pred
  <2> QED BY <1>1, <2>2, <2>10, YoungStep DEF TypeInv
<1>2. ASSUME TypeInv, UNCHANGED vars
      PROVE  TypeInv'
  <2>1. TypeOK'
    <3>1. prog' = prog /\ ifs' = ifs /\ fetch' = fetch /\ id' = id /\ exe' = exe /\ mdu' = mdu
          /\ me' = me /\ wb' = wb /\ regs' = regs /\ intr' = intr /\ csr' = csr /\ pc' = pc
      BY <1>2 DEF vars
    <3>2. TypeOK
      BY <1>2 DEF TypeInv
    <3>3. /\ prog' \in Programs /\ pc' \in PCs /\ intr' \in Levels \cup {FALSE}
          /\ regs' \in [Regs -> Word]
      BY <3>1, <3>2 DEF TypeOK
    <3>4. /\ ifs' \in [PC : PCs \cup {Boot}, pred : Pred, reqFired : BOOLEAN,
                        instGetted : BOOLEAN, instReg : PCs]
          /\ fetch' \in [st : {"empty", "lookup", "refill", "finish"}, addr : PCs]
          /\ id' \in [pc : PCs \cup {Boot}, inst : PCs, pred : Pred, nop : BOOLEAN,
                       hasFired : BOOLEAN]
      BY <3>1, <3>2 DEF TypeOK, Pred
    <3>5. /\ exe' \in [pc : PCs \cup {Boot}, inst : PCs, pred : Pred, nop : BOOLEAN,
                        regWrite : BOOLEAN, val : Word, jumpBusFired : BOOLEAN]
          /\ mdu' \in [Units -> [busy : BOOLEAN, done : BOOLEAN, res : Word,
                                 reqFired : BOOLEAN]]
      BY <3>1, <3>2 DEF TypeOK, Pred
    <3>6. /\ me' \in [pc : PCs \cup {Boot}, inst : PCs, nop : BOOLEAN, val : Word,
                       regWrite : BOOLEAN, hasFired : BOOLEAN, state : {"IDLE", "RESP"}]
          /\ wb' \in [pc : PCs \cup {Boot}, inst : PCs, nop : BOOLEAN, val : Word,
                       regWrite : BOOLEAN]
          /\ csr' \in [mie : BOOLEAN, mpie : BOOLEAN, mepc : PCs, hadInterrupt : BOOLEAN,
                        flushQ : {"none", "mtvec", "mepc"}]
      BY <3>1, <3>2 DEF TypeOK
    <3> QED BY <3>3, <3>4, <3>5, <3>6 DEF TypeOK, Pred
  <2>2. Young' /\ Aimed'
    BY <1>2 DEF TypeInv, Young, Aimed, vars
  <2> QED BY <2>1, <2>2 DEF TypeInv
<1> QED BY <1>1, <1>2 DEF Next

\* The registers of the stages and of the trap unit keep to their widths and
\* enumerations, mepc to the addresses of instructions though a trap and an
\* interrupt may compete for it (CSRRegFile.scala:190).
THEOREM TypeCorrect == Spec => []TypeOK
<1>1. TypeInv => TypeOK
  BY DEF TypeInv
<1> QED BY <1>1, InitTypes, StepTypes, PTL DEF Spec

-----------------------------------------------------------------------------
(***************************************************************************)
(* The word under a PC.  IF asks for the next word while it waits for its  *)
(* own one, so a redirect finds the request gone to the wrong address.     *)
(***************************************************************************)

\* The predictor's tags tell the words apart (PipeAliased.cfg shows why).
NoAlias == \A b, p \in PCs : b % BtbWords = p % BtbWords => b = p

\* The program does not come back to PC_INIT, where IF's valid is forced.
NeverBack == ifs.PC # Boot => npc # 0

\* Until IF is past PC_INIT nothing behind it is live.
Booting == ifs.PC \in {Boot, 0}
Asleep == /\ id.nop /\ exe.nop /\ ~exe.regWrite /\ me.nop /\ ~me.regWrite /\ wb.nop
          /\ ~csr.mie /\ ~csr.hadInterrupt /\ csr.flushQ = "none"
Boots ==
  /\ Booting => Asleep /\ ~ifs.instGetted
  /\ ifs.PC = Boot => /\ ~ifs.pred.taken
                      /\ ifs.reqFired => fetch.st # "empty" /\ fetch.addr = 0
                      /\ ~ifs.reqFired => fetch.st = "empty"
  /\ ifs.PC = 0 => ~ifs.reqFired /\ fetch.st = "empty" /\ ifs.instReg = 0

\* IF waits for its word, has it, or has it and has asked for the next one.
\* A wrong word is dropped by a redirect that still stands.
Waiting == ~ifs.reqFired /\ ~ifs.instGetted /\ fetch.st # "empty"
Got == ~ifs.reqFired /\ ifs.instGetted /\ fetch.st = "empty"
Ahead == ifs.reqFired /\ ifs.instGetted /\ fetch.st # "empty"
Phase ==
  ~Booting =>
    \/ Waiting /\ (fetch.addr = ifs.PC \/ redirectValid)
    \/ Got /\ (ifs.instReg = ifs.PC \/ redirectValid)
    \/ Ahead /\ ((ifs.instReg = ifs.PC /\ fetch.addr = npc) \/ redirectValid)

\* Only branches are predicted to jump.
Foreseen ==
  /\ ifs.pred.taken => ifs.PC \in PCs /\ H!Branches(prog[ifs.PC])
  /\ ~id.nop /\ id.pred.taken => H!Branches(I(id))
  /\ ~exe.nop /\ exe.pred.taken => H!Branches(I(exe))

\* A pending register write in EXE is a live instruction's.
Writers == exe.regWrite => ~exe.nop /\ H!Computes(I(exe))

Fetching == TypeInv /\ Boots /\ Phase /\ Foreseen /\ Writers /\ WordMatchesPC

-----------------------------------------------------------------------------
\* A misaligned access in MEM never waits, and neither does what it kills.
LEMMA FlushFires ==
  ASSUME TypeInv, NEW e \in Env, flush2EXE
  PROVE  toMEMFire(e) /\ ~stall /\ ~jumpBusValid
<1>1. exeNop /\ ~LoadWaits
  BY DEF exeNop, flush2EXE, LoadWaits
<1>2. MemDone /\ ~jumpBusValid /\ mulOrDivValid
  BY <1>1 DEF MemDone, jumpBusValid, mulOrDivValid
<1>3. ~stall
  BY <1>1, <1>2 DEF stall, Source, MemRegWrite
<1> QED BY <1>2, <1>3 DEF toMEMFire, exeValid

\* A redirect of the trap unit stands until IF takes it in time.
LEMMA RedirectStands ==
  ASSUME NEW e \in Env, CSRNext(e), redirectValid, ~redirectFire(e)
  PROVE  redirectValid'
<1>1. csr'.flushQ = IF csr.flushQ # "none" THEN csr.flushQ
                    ELSE IF raiseIntrExcep THEN "mtvec" ELSE "mepc"
  BY DEF CSRNext
<1> QED BY <1>1 DEF redirectValid

\* While nothing is live every stage moves.
LEMMA AsleepMoves ==
  ASSUME TypeInv, Asleep, NEW e \in Env
  PROVE  /\ toMEMFire(e) /\ ~stall /\ ~redirectValid /\ ~jumpBusValid
         /\ ~raiseIntrExcep /\ ~raiseIntr /\ ~Issues(e) /\ ~mret
         /\ toIDFire(e) <=> toIDValid(e)
<1>1. exeNop /\ ~LoadWaits /\ ~flush2EXE
  BY DEF Asleep, exeNop, flush2EXE, LoadWaits
<1>2. ~raiseIntrExcep /\ ~raiseIntr /\ ~mret /\ ~redirectValid
  BY DEF Asleep, raiseIntrExcep, raiseExcep, takesIntr, raiseIntr, mret, redirectValid
<1>3. MemDone /\ ~jumpBusValid /\ mulOrDivValid
  BY <1>1 DEF MemDone, jumpBusValid, mulOrDivValid
<1>4. toMEMFire(e)
  BY <1>3 DEF toMEMFire, exeValid
<1>5. ~stall
  BY <1>1, <1>3 DEF stall, Source, MemRegWrite, Asleep
<1> QED BY <1>1, <1>2, <1>3, <1>4, <1>5 DEF Issues, toIDFire, toEXEFire

\* The handshakes of IF in each of its states.
LEMMA Handshakes ==
  ASSUME TypeInv, NEW e \in Env, ~Booting
  PROVE  /\ Waiting => /\ toIDValid(e) <=> fetch.st = "lookup" /\ e.hit
                       /\ arFire(e) <=> fetch.st = "lookup" /\ e.hit
                       /\ rFire(e) <=> fetch.st = "finish" \/ (fetch.st = "lookup" /\ e.hit)
         /\ Got => toIDValid(e) /\ arFire(e) /\ ~rFire(e)
         /\ Ahead => toIDValid(e) /\ ~arFire(e) /\ ~rFire(e)
BY DEF Booting, Waiting, Got, Ahead, toIDValid, arFire, arReady, rFire, rValid

\* The registers of IF and the cache's request after a cycle.
LEMMA IFMoves ==
  ASSUME TypeInv, NEW e \in Env, IFNext(e)
  PROVE  /\ ifs'.PC = IF toIDFire(e) THEN npc ELSE ifs.PC
         /\ toIDFire(e) => ifs'.pred \in Predictions(npc)
         /\ ~toIDFire(e) => ifs'.pred = ifs.pred
         /\ ifs'.reqFired <=> ~toIDFire(e) /\ (ifs.reqFired \/ arFire(e))
         /\ ifs'.instGetted <=> ~toIDFire(e) /\ (ifs.instGetted \/ rFire(e))
         /\ ifs'.instReg = IF rFire(e) THEN fetch.addr ELSE ifs.instReg
         /\ fetch'.addr = IF arFire(e) THEN npc ELSE fetch.addr
         /\ arFire(e) => fetch'.st = "lookup"
         /\ ~arFire(e) /\ rFire(e) => fetch'.st = "empty"
         /\ ~arFire(e) /\ ~rFire(e) => (fetch'.st = "empty" <=> fetch.st = "empty")
<1>1. PICK p \in IF toIDFire(e) THEN Predictions(npc) ELSE {ifs.pred} :
        ifs' = [ PC |-> IF toIDFire(e) THEN npc ELSE ifs.PC, pred |-> p,
                 reqFired |-> ~toIDFire(e) /\ (ifs.reqFired \/ arFire(e)),
                 instGetted |-> ~toIDFire(e) /\ (ifs.instGetted \/ rFire(e)),
                 instReg |-> IF rFire(e) THEN fetch.addr ELSE ifs.instReg ]
  BY DEF IFNext
<1>2. fetch' = IF arFire(e) THEN [st |-> "lookup", addr |-> arAddr]
               ELSE [fetch EXCEPT !.st =
                       CASE rFire(e) -> "empty"
                         [] @ = "lookup" /\ ~e.hit -> "refill"
                         [] @ = "refill" /\ e.refilled -> "finish"
                         [] OTHER -> @]
  BY DEF IFNext
<1>3. fetch \in [st : {"empty", "lookup", "refill", "finish"}, addr : PCs]
  BY DEF TypeInv, TypeOK
<1>4. rFire(e) => ~(fetch.st = "lookup" /\ ~e.hit) /\ fetch.st # "refill"
  BY DEF rFire, rValid
<1>5. /\ fetch'.addr = IF arFire(e) THEN npc ELSE fetch.addr
      /\ arFire(e) => fetch'.st = "lookup"
      /\ ~arFire(e) /\ rFire(e) => fetch'.st = "empty"
      /\ ~arFire(e) /\ ~rFire(e) => (fetch'.st = "empty" <=> fetch.st = "empty")
  BY <1>2, <1>3, <1>4 DEF arAddr
<1> QED BY <1>1, <1>5

\* What EXE and MEM hold after a cycle.
LEMMA StageMoves ==
  ASSUME TypeInv, NEW e \in Env, Cycle(e)
  PROVE  /\ toMEMFire(e) => /\ exe'.inst = id.inst /\ exe'.pc = id.pc /\ exe'.pred = id.pred
                            /\ exe'.nop = idNop
                            /\ exe'.regWrite <=> H!Computes(I(id)) /\ ~idNop
         /\ ~toMEMFire(e) => /\ exe'.inst = exe.inst /\ exe'.pc = exe.pc
                             /\ exe'.pred = exe.pred /\ exe'.nop = exe.nop
                             /\ exe'.regWrite = exe.regWrite /\ exe'.val = exe.val
         /\ exe'.jumpBusFired = IF jumpFire(e) THEN ~toMEMFire(e) ELSE exe.jumpBusFired
         /\ toMEMFire(e) => /\ me'.inst = exe.inst /\ me'.pc = exe.pc /\ me'.nop = exeNop
                            /\ me'.regWrite = exe.regWrite
         /\ ~toMEMFire(e) => /\ me'.inst = me.inst /\ me'.pc = me.pc /\ me'.nop = me.nop
                             /\ me'.regWrite = me.regWrite
         /\ prog' = prog
<1>1. /\ exe \in [pc : PCs \cup {Boot}, inst : PCs, pred : Pred, nop : BOOLEAN,
                  regWrite : BOOLEAN, val : Word, jumpBusFired : BOOLEAN]
      /\ me \in [pc : PCs \cup {Boot}, inst : PCs, nop : BOOLEAN, val : Word,
                 regWrite : BOOLEAN, hasFired : BOOLEAN, state : {"IDLE", "RESP"}]
  BY DEF TypeInv, TypeOK, Pred
<1> DEFINE fired == IF jumpFire(e) THEN ~toMEMFire(e) ELSE exe.jumpBusFired
           mefired == IF MemDone THEN ~exeValid(e) ELSE me.hasFired
           state == IF me.state = "IDLE" /\ LoadWaits /\ e.loaded THEN "RESP"
                    ELSE IF me.state = "RESP" /\ exeValid(e) THEN "IDLE" ELSE me.state
<1>2. exe' = IF toMEMFire(e)
             THEN [ pc |-> id.pc, inst |-> id.inst, pred |-> id.pred, nop |-> idNop,
                    regWrite |-> H!Computes(I(id)) /\ ~idNop,
                    val |-> IF idNop THEN 0 ELSE Operand, jumpBusFired |-> fired ]
             ELSE [exe EXCEPT !.jumpBusFired = fired]
  BY DEF Cycle, EXENext
<1>3. me' = IF toMEMFire(e)
            THEN [pc |-> exe.pc, inst |-> exe.inst, nop |-> exeNop, val |-> ExeRegWdata,
                  regWrite |-> exe.regWrite, hasFired |-> mefired, state |-> state]
            ELSE [me EXCEPT !.hasFired = mefired, !.state = state]
  BY DEF Cycle, MEMNext
<1> HIDE DEF fired, mefired, state
<1>4. /\ toMEMFire(e) => /\ exe'.inst = id.inst /\ exe'.pc = id.pc /\ exe'.pred = id.pred
                         /\ exe'.nop = idNop
                         /\ exe'.regWrite <=> H!Computes(I(id)) /\ ~idNop
      /\ ~toMEMFire(e) => /\ exe'.inst = exe.inst /\ exe'.pc = exe.pc
                          /\ exe'.pred = exe.pred /\ exe'.nop = exe.nop
                          /\ exe'.regWrite = exe.regWrite /\ exe'.val = exe.val
      /\ exe'.jumpBusFired = fired
  BY <1>1, <1>2
<1>5. /\ toMEMFire(e) => /\ me'.inst = exe.inst /\ me'.pc = exe.pc /\ me'.nop = exeNop
                         /\ me'.regWrite = exe.regWrite
      /\ ~toMEMFire(e) => /\ me'.inst = me.inst /\ me'.pc = me.pc /\ me'.nop = me.nop
                          /\ me'.regWrite = me.regWrite
  BY <1>1, <1>3
<1> QED BY <1>4, <1>5 DEF fired, Cycle

\* A load that makes ID stall does not jump.
LEMMA StallKeepsPC ==
  ASSUME Fetching, NEW e \in Env, stall, toMEMFire(e)
  PROVE  ~jumpBusValid
<1>1. TypeOK /\ Foreseen /\ Writers
  BY DEF Fetching, TypeInv
<1>2. MemDone
  BY DEF toMEMFire
<1>3. Source = "EXE" /\ Memory(I(exe))
  BY <1>2 DEF stall
<1>4. exe.regWrite /\ ~exeNop
  BY <1>3 DEF Source
<1>5. I(exe).op = "LOAD" /\ ~exe.nop
  BY <1>1, <1>3, <1>4 DEF Writers, Memory, H!Computes, exeNop
<1>6. ~H!Branches(I(exe)) /\ ~jump /\ ~Csr(I(exe))
  BY <1>5 DEF H!Branches, jump, H!Taken, Csr
<1>7. exe.pred.taken = FALSE
  <2>1. exe.pred.taken \in BOOLEAN
    BY <1>1, Types DEF Pred
  <2> QED BY <1>1, <1>5, <1>6, <2>1 DEF Foreseen
<1>8. jump \in BOOLEAN
  BY DEF jump, H!Taken
<1> QED BY <1>5, <1>6, <1>7, <1>8 DEF jumpBusValid, redirect

\* What stands in EXE keeps its meaning for as long as it is not interrupted.
LEMMA ExeStays ==
  ASSUME TypeInv, NEW e \in Env, Cycle(e), ~toMEMFire(e), ~interrupt, ~interrupt'
  PROVE  /\ ~flush2EXE /\ ~flush2EXE'
         /\ jumpBusValid' = jumpBusValid /\ jumpTarget' = jumpTarget
         /\ I(exe)' = I(exe) /\ exe'.nop = exe.nop
<1>1. ~flush2EXE
  BY FlushFires
<1>2. /\ exe'.inst = exe.inst /\ exe'.pc = exe.pc /\ exe'.pred = exe.pred
      /\ exe'.nop = exe.nop /\ exe'.val = exe.val /\ prog' = prog
      /\ me'.inst = me.inst /\ me'.nop = me.nop
  BY StageMoves
<1>3. flush2EXE' = flush2EXE
  BY <1>2 DEF flush2EXE, I
<1>4. exeNop' = exeNop
  BY <1>1, <1>2, <1>3 DEF exeNop
<1>5. jump' = jump /\ redirect' = redirect /\ I(exe)' = I(exe)
  BY <1>2 DEF jump, redirect, I
<1>6. jumpBusValid' = jumpBusValid /\ jumpTarget' = jumpTarget
  BY <1>2, <1>4, <1>5 DEF jumpBusValid, jumpTarget
<1> QED BY <1>1, <1>2, <1>3, <1>5, <1>6

\* While IF holds a word that is not taken it asks for the same next one.
LEMMA Steady ==
  ASSUME Fetching, NEW e \in Env, Cycle(e),
         toIDValid(e), ~toIDFire(e), ~redirectValid, ~redirectValid'
  PROVE  npc' = npc
<1>1. TypeInv
  BY DEF Fetching
<1>2. ifs'.PC = ifs.PC /\ ifs'.pred = ifs.pred
  BY <1>1, IFMoves DEF Cycle
<1>3. CASE ~toMEMFire(e)
  <2>1. ~interrupt /\ ~interrupt'
    BY DEF interrupt
  <2>2. jumpBusValid' = jumpBusValid /\ jumpTarget' = jumpTarget
    BY <1>1, <1>3, <2>1, ExeStays
  <2> QED BY <1>2, <2>2 DEF npc
<1>4. CASE toMEMFire(e)
  <2>1. stall
    BY <1>4 DEF toIDFire, toEXEFire
  <2>2. ~jumpBusValid
    BY <1>4, <2>1, StallKeepsPC
  <2>3. exe'.nop
    BY <1>1, <1>4, <2>1, StageMoves DEF idNop
  <2>4. ~jumpBusValid'
    BY <2>3 DEF jumpBusValid, exeNop
  <2> QED BY <1>2, <2>2, <2>4 DEF npc
<1> QED BY <1>3, <1>4

\* From reset to the first word behind PC_INIT.
LEMMA BootStep ==
  ASSUME Fetching, NeverBack, NEW e \in Env, Cycle(e), ifs'.PC \in {Boot, 0}
  PROVE  /\ ifs.PC = Boot
         /\ ifs'.PC = 0 => toIDFire(e)
<1>1. TypeInv /\ Boots
  BY DEF Fetching
<1>2. ifs'.PC = IF toIDFire(e) THEN npc ELSE ifs.PC
  BY <1>1, IFMoves DEF Cycle
<1>3. npc \in PCs
  BY <1>1, NpcType
<1>4. ifs.PC = 0 => toIDFire(e)
  <2>1. ifs.PC = 0 => Asleep
    BY <1>1 DEF Boots, Booting
  <2>2. ifs.PC = 0 => toIDValid(e)
    BY DEF toIDValid
  <2> QED BY <1>1, <2>1, <2>2, AsleepMoves
<1> QED BY <1>2, <1>3, <1>4, Constants DEF NeverBack

LEMMA BootsStep ==
  ASSUME Fetching, NeverBack, NEW e \in Env, Cycle(e)
  PROVE  Boots'
<1>1. TypeInv /\ Boots
  BY DEF Fetching
<1>2. CASE ifs'.PC \notin {Boot, 0}
  BY <1>2 DEF Boots, Booting
<1>3. CASE ifs'.PC \in {Boot, 0}
  <2>1. ifs.PC = Boot /\ (ifs'.PC = 0 => toIDFire(e))
    BY <1>3, BootStep
  <2>2. Asleep /\ ~ifs.instGetted
    BY <1>1, <2>1 DEF Boots, Booting
  <2>3. /\ toMEMFire(e) /\ ~redirectValid /\ ~jumpBusValid /\ ~raiseIntrExcep /\ ~raiseIntr
        /\ ~Issues(e) /\ ~mret /\ (toIDFire(e) <=> toIDValid(e))
    BY <1>1, <2>2, AsleepMoves
  <2>4. idNop /\ exeNop
    BY <2>2 DEF Asleep, idNop, exeNop
  <2>5. id'.nop
    BY <1>1, <2>1, <2>2, IDTypes DEF Cycle, Asleep
  <2>6. exe'.nop /\ ~exe'.regWrite /\ me'.nop /\ ~me'.regWrite
    BY <1>1, <2>2, <2>3, <2>4, StageMoves DEF Asleep
  <2>7. wb'.nop
    BY <1>1, <2>2, WBTypes DEF Cycle, Asleep
  <2>8. ~csr'.mie /\ ~csr'.hadInterrupt /\ csr'.flushQ = "none"
    BY <2>2, <2>3 DEF Cycle, CSRNext, Asleep
  <2>9. Asleep'
    BY <2>5, <2>6, <2>7, <2>8 DEF Asleep
  <2>10. /\ ifs'.PC = IF toIDFire(e) THEN npc ELSE ifs.PC
         /\ ~toIDFire(e) => ifs'.pred = ifs.pred
         /\ ifs'.reqFired <=> ~toIDFire(e) /\ (ifs.reqFired \/ arFire(e))
         /\ ifs'.instGetted <=> ~toIDFire(e) /\ (ifs.instGetted \/ rFire(e))
         /\ ifs'.instReg = IF rFire(e) THEN fetch.addr ELSE ifs.instReg
         /\ fetch'.addr = IF arFire(e) THEN npc ELSE fetch.addr
         /\ arFire(e) => fetch'.st = "lookup"
         /\ ~arFire(e) /\ rFire(e) => fetch'.st = "empty"
         /\ ~arFire(e) /\ ~rFire(e) => (fetch'.st = "empty" <=> fetch.st = "empty")
    BY <1>1, IFMoves DEF Cycle
  <2>11. /\ ~ifs.pred.taken
         /\ ifs.reqFired => fetch.st # "empty" /\ fetch.addr = 0
         /\ ~ifs.reqFired => fetch.st = "empty"
    BY <1>1, <2>1 DEF Boots
  <2>12. npc = 0
    BY <2>1, <2>3, <2>11, Successors DEF npc
  <2>13. ifs'.PC = Boot => ~toIDFire(e)
    BY <2>10, <2>12, Constants
  <2>14. /\ arFire(e) => ~ifs.reqFired
         /\ ~ifs.reqFired => arFire(e) /\ ~rFire(e)
    BY <2>2, <2>11 DEF arFire, arReady, rFire, rValid
  <2>15. toIDFire(e) <=> rFire(e) /\ ifs.reqFired
    BY <2>1, <2>2, <2>3, <2>14, Constants DEF toIDValid
  <2>16. ifs.reqFired /\ rFire(e) => toIDFire(e)
    BY <2>15
  <2>17. ~ifs'.instGetted
    BY <2>2, <2>10, <2>14, <2>15
  <2>18. ifs'.PC = Boot => /\ ~ifs'.pred.taken
                           /\ ifs'.reqFired => fetch'.st # "empty" /\ fetch'.addr = 0
                           /\ ~ifs'.reqFired => fetch'.st = "empty"
    BY <2>10, <2>11, <2>12, <2>13, <2>14, <2>15
  <2>19. ifs'.PC = 0 => ~ifs'.reqFired /\ fetch'.st = "empty" /\ ifs'.instReg = 0
    BY <2>1, <2>10, <2>11, <2>14, <2>15
  <2> QED BY <2>9, <2>17, <2>18, <2>19 DEF Boots, Booting
<1> QED BY <1>2, <1>3

\* The word ID takes is the one at its PC, unless a redirect kills it.
LEMMA Taken ==
  ASSUME Fetching, NEW e \in Env, IDNext(e), toIDFire(e), ~id'.nop
  PROVE  /\ id'.pc = ifs.PC /\ id'.inst = ifs.PC /\ id'.pred = ifs.pred
         /\ ifs.PC # Boot /\ ~flush
<1>1. TypeInv /\ Boots /\ Phase
  BY DEF Fetching
<1>2. /\ id'.pc = ifs.PC /\ id'.pred = ifs.pred /\ id'.nop = (ifs.PC = Boot \/ flush)
      /\ id'.inst = IF rFire(e) THEN fetch.addr ELSE ifs.instReg
  BY DEF IDNext
<1>3. ifs.PC # Boot /\ ~flush /\ ~redirectValid /\ toIDValid(e)
  BY <1>2 DEF flush, toIDFire
<1>4. CASE ifs.PC = 0
  <2>1. fetch.st = "empty" /\ ifs.instReg = 0
    BY <1>1, <1>4 DEF Boots
  <2> QED BY <1>2, <1>3, <1>4, <2>1 DEF rFire, rValid
<1>5. CASE ~Booting
  <2>1. \/ Waiting /\ fetch.addr = ifs.PC
        \/ (Got \/ Ahead) /\ ifs.instReg = ifs.PC
    BY <1>1, <1>3, <1>5 DEF Phase
  <2> QED BY <1>1, <1>2, <1>3, <1>5, <2>1, Handshakes
<1> QED BY <1>3, <1>4, <1>5 DEF Booting

LEMMA PhaseStep ==
  ASSUME Fetching, NeverBack, NEW e \in Env, Cycle(e)
  PROVE  Phase'
<1> SUFFICES ASSUME ~Booting'
             PROVE  \/ Waiting' /\ (fetch'.addr = ifs'.PC \/ redirectValid')
                    \/ Got' /\ (ifs'.instReg = ifs'.PC \/ redirectValid')
                    \/ Ahead' /\ (\/ ifs'.instReg = ifs'.PC /\ fetch'.addr = npc'
                                  \/ redirectValid')
  BY DEF Phase
<1>1. TypeInv /\ Boots /\ Phase /\ IFNext(e) /\ CSRNext(e)
  BY DEF Fetching, Cycle
<1>2. /\ ifs'.PC = IF toIDFire(e) THEN npc ELSE ifs.PC
      /\ ifs'.reqFired <=> ~toIDFire(e) /\ (ifs.reqFired \/ arFire(e))
      /\ ifs'.instGetted <=> ~toIDFire(e) /\ (ifs.instGetted \/ rFire(e))
      /\ ifs'.instReg = IF rFire(e) THEN fetch.addr ELSE ifs.instReg
      /\ fetch'.addr = IF arFire(e) THEN npc ELSE fetch.addr
      /\ arFire(e) => fetch'.st = "lookup"
      /\ ~arFire(e) /\ rFire(e) => fetch'.st = "empty"
      /\ ~arFire(e) /\ ~rFire(e) => (fetch'.st = "empty" <=> fetch.st = "empty")
  BY <1>1, IFMoves
<1>3. redirectValid /\ ~redirectFire(e) => redirectValid'
  BY <1>1, RedirectStands
<1>4. redirectFire(e) => redirectValid /\ toIDFire(e) /\ ~ifs.reqFired
  BY DEF redirectFire
<1>5. toIDFire(e) => toIDValid(e)
  BY DEF toIDFire
<1>6. toIDValid(e) /\ ~toIDFire(e) => npc' = npc \/ redirectValid'
  <2>1. CASE redirectValid
    BY <1>3, <1>4, <2>1
  <2>2. CASE ~redirectValid
    BY <2>2, Steady
  <2> QED BY <2>1, <2>2
<1>7. CASE Booting
  <2>1. Asleep /\ ~ifs.instGetted
    BY <1>1, <1>7 DEF Boots
  <2>2. toIDFire(e) <=> toIDValid(e)
    BY <1>1, <2>1, AsleepMoves
  <2>3. toIDFire(e)
    BY <1>2, <1>7 DEF Booting
  <2>4. ifs.PC = 0
    <3>1. npc # 0 /\ npc \in PCs /\ npc # Boot
      BY <1>1, <1>2, <2>3, NpcType, Constants DEF Booting
    <3>2. ifs.PC = Boot => npc = 0
      <4>1. ~redirectValid /\ ~jumpBusValid
        BY <1>1, <2>1, AsleepMoves
      <4>2. ifs.PC = Boot => ~ifs.pred.taken
        BY <1>1 DEF Boots
      <4> QED BY <4>1, <4>2, Successors DEF npc
    <3> QED BY <1>7, <3>1, <3>2 DEF Booting
  <2>5. ~ifs.reqFired /\ fetch.st = "empty"
    BY <1>1, <2>4 DEF Boots
  <2>6. arFire(e) /\ ~rFire(e)
    BY <2>5 DEF arFire, arReady, rFire, rValid
  <2>7. Waiting' /\ fetch'.addr = ifs'.PC
    BY <1>2, <2>1, <2>3, <2>6 DEF Waiting
  <2> QED BY <2>7
<1>8. CASE ~Booting /\ Waiting
  <2>1. /\ toIDValid(e) <=> arFire(e)
        /\ arFire(e) => rFire(e)
    BY <1>1, <1>8, Handshakes
  <2>2. fetch.addr = ifs.PC \/ redirectValid
    BY <1>1, <1>8 DEF Phase, Waiting, Got, Ahead
  <2>3. CASE toIDFire(e)
    BY <1>2, <1>5, <2>1, <2>3 DEF Waiting
  <2>4. CASE ~toIDFire(e) /\ arFire(e)
    <3>1. Ahead' /\ ifs'.instReg = fetch.addr /\ ifs'.PC = ifs.PC /\ fetch'.addr = npc
      BY <1>2, <1>8, <2>1, <2>4 DEF Ahead
    <3> QED BY <1>3, <1>4, <1>6, <2>1, <2>2, <2>4, <3>1
  <2>5. CASE ~toIDFire(e) /\ ~arFire(e) /\ rFire(e)
    <3>1. Got' /\ ifs'.instReg = fetch.addr /\ ifs'.PC = ifs.PC
      BY <1>2, <1>8, <2>5 DEF Got, Waiting
    <3> QED BY <1>3, <1>4, <2>2, <2>5, <3>1
  <2>6. CASE ~toIDFire(e) /\ ~arFire(e) /\ ~rFire(e)
    <3>1. Waiting' /\ fetch'.addr = fetch.addr /\ ifs'.PC = ifs.PC
      BY <1>2, <1>8, <2>6 DEF Waiting
    <3> QED BY <1>3, <1>4, <2>2, <2>6, <3>1
  <2> QED BY <2>3, <2>4, <2>5, <2>6
<1>9. CASE ~Booting /\ Got
  <2>1. toIDValid(e) /\ arFire(e) /\ ~rFire(e)
    BY <1>1, <1>9, Handshakes
  <2>2. ifs.instReg = ifs.PC \/ redirectValid
    BY <1>1, <1>9 DEF Phase, Waiting, Got, Ahead
  <2>3. CASE toIDFire(e)
    BY <1>2, <2>1, <2>3 DEF Waiting
  <2>4. CASE ~toIDFire(e)
    <3>1. Ahead' /\ ifs'.instReg = ifs.instReg /\ ifs'.PC = ifs.PC /\ fetch'.addr = npc
      BY <1>2, <1>9, <2>1, <2>4 DEF Ahead, Got
    <3> QED BY <1>3, <1>4, <1>6, <2>1, <2>2, <2>4, <3>1
  <2> QED BY <2>3, <2>4
<1>10. CASE ~Booting /\ Ahead
  <2>1. toIDValid(e) /\ ~arFire(e) /\ ~rFire(e)
    BY <1>1, <1>10, Handshakes
  <2>2. (ifs.instReg = ifs.PC /\ fetch.addr = npc) \/ redirectValid
    BY <1>1, <1>10 DEF Phase, Waiting, Got, Ahead
  <2>3. CASE toIDFire(e)
    <3>1. Waiting' /\ ifs'.PC = npc /\ fetch'.addr = fetch.addr
      BY <1>2, <1>10, <2>1, <2>3 DEF Waiting, Ahead
    <3>2. ~redirectFire(e)
      BY <1>4, <1>10 DEF Ahead
    <3> QED BY <1>3, <2>2, <3>1, <3>2
  <2>4. CASE ~toIDFire(e)
    <3>1. Ahead' /\ ifs'.instReg = ifs.instReg /\ ifs'.PC = ifs.PC
          /\ fetch'.addr = fetch.addr
      BY <1>2, <1>10, <2>1, <2>4 DEF Ahead
    <3> QED BY <1>3, <1>4, <1>6, <2>1, <2>2, <2>4, <3>1
  <2> QED BY <2>3, <2>4
<1> QED BY <1>1, <1>7, <1>8, <1>9, <1>10 DEF Phase

LEMMA ForeseenStep ==
  ASSUME NoAlias, Fetching, NEW e \in Env, Cycle(e)
  PROVE  Foreseen'
<1>1. TypeInv /\ TypeOK /\ Foreseen /\ WordMatchesPC /\ npc \in PCs /\ prog' = prog
  BY NpcType DEF Fetching, TypeInv, Cycle
<1>2. ifs'.pred.taken => ifs'.PC \in PCs /\ H!Branches(prog'[ifs'.PC])
  <2>1. /\ ifs'.PC = IF toIDFire(e) THEN npc ELSE ifs.PC
        /\ toIDFire(e) => ifs'.pred \in Predictions(npc)
        /\ ~toIDFire(e) => ifs'.pred = ifs.pred
    BY <1>1, IFMoves DEF Cycle
  <2>2. CASE toIDFire(e) /\ ifs'.pred.taken
    <3>1. \E b \in PCs : H!Branches(prog[b]) /\ b % BtbWords = npc % BtbWords
      BY <1>1, <2>1, <2>2, Predicted
    <3>2. H!Branches(prog[npc])
      BY <1>1, <3>1 DEF NoAlias
    <3> QED BY <1>1, <2>1, <2>2, <3>2
  <2>3. CASE ~toIDFire(e)
    BY <1>1, <2>1, <2>3 DEF Foreseen
  <2> QED BY <2>2, <2>3
<1>3. ~id'.nop /\ id'.pred.taken => H!Branches(prog[id'.inst])
  <2>1. CASE toIDFire(e) /\ ~id'.nop
    <3>1. id'.inst = ifs.PC /\ id'.pred = ifs.pred
      BY <2>1, Taken DEF Cycle
    <3> QED BY <1>1, <3>1 DEF Foreseen
  <2>2. CASE ~toIDFire(e)
    <3>1. id \in [pc : PCs \cup {Boot}, inst : PCs, pred : Pred, nop : BOOLEAN,
                  hasFired : BOOLEAN]
      BY <1>1 DEF TypeOK, Pred
    <3>2. id'.nop = id.nop /\ id'.inst = id.inst /\ id'.pred = id.pred
      BY <2>2, <3>1 DEF Cycle, IDNext
    <3> QED BY <1>1, <3>2 DEF Foreseen, I
  <2> QED BY <2>1, <2>2
<1>4. ~exe'.nop /\ exe'.pred.taken => H!Branches(prog[exe'.inst])
  <2>1. CASE toMEMFire(e)
    <3>1. exe'.inst = id.inst /\ exe'.pred = id.pred /\ (id.nop => exe'.nop)
      BY <1>1, <2>1, StageMoves DEF idNop
    <3> QED BY <1>1, <3>1 DEF Foreseen, I
  <2>2. CASE ~toMEMFire(e)
    BY <1>1, <2>2, StageMoves DEF Foreseen, I
  <2> QED BY <2>1, <2>2
<1> QED BY <1>1, <1>2, <1>3, <1>4 DEF Foreseen, I

LEMMA WritersStep ==
  ASSUME Fetching, NEW e \in Env, Cycle(e)
  PROVE  Writers'
<1>1. TypeInv /\ Writers
  BY DEF Fetching
<1>2. CASE toMEMFire(e)
  BY <1>1, <1>2, StageMoves DEF Writers, I
<1>3. CASE ~toMEMFire(e)
  BY <1>1, <1>3, StageMoves DEF Writers, I
<1> QED BY <1>2, <1>3

LEMMA WordsStep ==
  ASSUME Fetching, NEW e \in Env, Cycle(e)
  PROVE  WordMatchesPC'
<1>1. TypeInv /\ TypeOK /\ WordMatchesPC
  BY DEF Fetching, TypeInv
<1>2. ~id'.nop => id'.inst = id'.pc
  <2>1. CASE toIDFire(e)
    BY <2>1, Taken DEF Cycle
  <2>2. CASE ~toIDFire(e)
    <3>1. id \in [pc : PCs \cup {Boot}, inst : PCs, pred : Pred, nop : BOOLEAN,
                  hasFired : BOOLEAN]
      BY <1>1 DEF TypeOK, Pred
    <3>2. id'.nop = id.nop /\ id'.inst = id.inst /\ id'.pc = id.pc
      BY <2>2, <3>1 DEF Cycle, IDNext
    <3> QED BY <1>1, <3>2 DEF WordMatchesPC
  <2> QED BY <2>1, <2>2
<1>3. ~exe'.nop => exe'.inst = exe'.pc
  BY <1>1, StageMoves DEF WordMatchesPC, idNop
<1>4. ~me'.nop => me'.inst = me'.pc
  BY <1>1, StageMoves DEF WordMatchesPC, exeNop
<1>5. ~wb'.nop => wb'.inst = wb'.pc
  <2>1. wb' = IF MemDone
              THEN [pc |-> me.pc, inst |-> me.inst, nop |-> me.nop \/ me.hasFired,
                    val |-> MemRegWdata,
                    regWrite |-> MemRegWrite /\ ~(me.nop \/ me.hasFired)]
              ELSE wb
    BY DEF Cycle, WBNext
  <2> QED BY <1>1, <2>1 DEF WordMatchesPC
<1> QED BY <1>2, <1>3, <1>4, <1>5 DEF WordMatchesPC

LEMMA FetchingInit == Init => Fetching
<1> SUFFICES ASSUME Init PROVE Fetching
  OBVIOUS
<1>1. /\ ifs.PC = Boot /\ ifs.pred = NoPred /\ ifs.reqFired = FALSE
      /\ ifs.instGetted = FALSE /\ fetch.st = "empty"
      /\ id.nop = TRUE /\ exe.nop = TRUE /\ exe.regWrite = FALSE
      /\ me.nop = TRUE /\ me.regWrite = FALSE /\ wb.nop = TRUE
      /\ csr.mie = FALSE /\ csr.hadInterrupt = FALSE /\ csr.flushQ = "none"
  BY DEF Init
<1>2. NoPred.taken = FALSE
  BY DEF NoPred
<1>3. Boots /\ Phase /\ Foreseen /\ Writers /\ WordMatchesPC
  BY <1>1, <1>2, Constants
  DEF Boots, Booting, Asleep, Phase, Foreseen, Writers, WordMatchesPC
<1> QED BY <1>3, InitTypes DEF Fetching

LEMMA FetchingStep == NoAlias /\ Fetching /\ NeverBack /\ [Next]_vars => Fetching'
<1>1. ASSUME NoAlias, Fetching, NeverBack, NEW e \in Env, Cycle(e)
      PROVE  Fetching'
  <2>1. TypeInv'
    BY <1>1, StepTypes DEF Next, Fetching
  <2> QED BY <1>1, <2>1, BootsStep, PhaseStep, ForeseenStep, WritersStep, WordsStep
          DEF Fetching
<1>2. ASSUME Fetching, UNCHANGED vars
      PROVE  Fetching'
  <2>1. TypeInv'
    BY <1>2, StepTypes DEF Fetching
  <2>2. /\ prog' = prog /\ ifs' = ifs /\ fetch' = fetch /\ id' = id /\ exe' = exe /\ mdu' = mdu
        /\ me' = me /\ wb' = wb /\ intr' = intr /\ csr' = csr
    BY <1>2 DEF vars
  <2>3. Boots' /\ Foreseen' /\ Writers' /\ WordMatchesPC'
    BY <1>2, <2>2 DEF Fetching, Boots, Booting, Asleep, Foreseen, Writers, WordMatchesPC, I
  <2>4. flush2EXE' = flush2EXE /\ raiseExcep' = raiseExcep /\ mret' = mret
        /\ raiseIntr' = raiseIntr
    BY <2>2 DEF flush2EXE, raiseExcep, mret, raiseIntr, I
  <2>5. intrCmdValid' = intrCmdValid
    BY <2>2, <2>4 DEF intrCmdValid
  <2>6. redirectValid' = redirectValid /\ raiseIntrExcep' = raiseIntrExcep
    BY <2>2, <2>4, <2>5 DEF redirectValid, raiseIntrExcep, takesIntr
  <2>7. exeNop' = exeNop /\ redirectTo' = redirectTo
    BY <2>2, <2>4, <2>5, <2>6 DEF exeNop, interrupt, redirectTo
  <2>8. jumpBusValid' = jumpBusValid /\ jumpTarget' = jumpTarget
    BY <2>2, <2>7 DEF jumpBusValid, jumpTarget, jump, redirect, I
  <2>9. npc' = npc
    BY <2>2, <2>6, <2>7, <2>8 DEF npc
  <2>10. Phase'
    BY <1>2, <2>2, <2>6, <2>9 DEF Fetching, Phase, Booting, Waiting, Got, Ahead
  <2> QED BY <2>1, <2>3, <2>10 DEF Fetching
<1> QED BY <1>1, <1>2 DEF Next

\* Whatever the latencies, jumps, traps and interrupts, no stage ever holds a
\* live word under another instruction's PC (IF.scala:97-115, flushQ), for a
\* program whose words the predictor tells apart and that does not come back
\* to PC_INIT.
THEOREM WordsInPlace ==
  ASSUME NoAlias
  PROVE  Spec /\ []NeverBack => []WordMatchesPC
<1>1. Fetching /\ NeverBack /\ [Next]_vars => Fetching'
  BY FetchingStep
<1>2. Fetching => WordMatchesPC
  BY DEF Fetching
<1> QED BY <1>1, <1>2, FetchingInit, PTL DEF Spec

-----------------------------------------------------------------------------
\* Programs that do not come back to PC_INIT: no jump goes there, nor a trap,
\* and there is no MRET before mepc is written.
Forward ==
  /\ Mtvec # 0 /\ Last # 0
  /\ \A P \in Programs : \A p \in PCs :
       P[p].op # "MRET" /\ (H!Branches(P[p]) => P[p].target # 0)

\* No prediction and no pending redirect goes there either.
Onward == (ifs.pred.taken => ifs.pred.target # 0) /\ csr.flushQ # "mepc"

LEMMA OnwardNpc ==
  ASSUME Forward, TypeInv, Onward
  PROVE  NeverBack /\ ~mret
<1>1. TypeOK /\ Young /\ prog \in Programs
  BY DEF TypeInv, TypeOK
<1>2. ~mret
  BY <1>1, Types DEF Forward, mret, I
<1>3. \A p \in PCs : H!Succ(p) # 0
  BY Constants DEF Forward, H!Succ, PCs
<1>4. redirectValid => redirectTo # 0
  BY <1>1, <1>2, Types DEF redirectValid, redirectTo, Forward, Onward
<1>5. jumpBusValid => jumpTarget # 0
  <2>1. jump => H!Branches(I(exe))
    BY DEF jump, H!Taken, H!Branches
  <2>2. jump => I(exe).target # 0
    BY <1>1, <2>1, Types DEF Forward, I
  <2>3. jumpBusValid => exe.pc \in PCs
    BY Interrupted DEF jumpBusValid
  <2>4. jumpBusValid => Next4(exe.pc) # 0
    BY <1>3, <2>3, Constants DEF Next4
  <2> QED BY <2>2, <2>4 DEF jumpTarget
<1>6. ifs.PC # Boot => Next4(ifs.PC) # 0
  BY <1>1, <1>3, Types DEF Next4
<1> QED BY <1>2, <1>4, <1>5, <1>6 DEF NeverBack, npc, Onward

LEMMA OnwardPredicted ==
  ASSUME Forward, TypeInv, NEW p, NEW q \in Predictions(p)
  PROVE  q.taken => q.target # 0
<1>1. TypeOK /\ prog \in Programs
  BY DEF TypeInv, TypeOK
<1>2. ASSUME NEW b \in {b \in PCs : H!Branches(prog[b]) /\ b % BtbWords = p % BtbWords},
             q \in [taken : BOOLEAN, target : {prog[b].target, H!Succ(b)}]
      PROVE  q.target # 0
  <2>1. b \in PCs /\ H!Branches(prog[b])
    BY <1>2
  <2>2. prog[b].target # 0
    BY <1>1, <2>1 DEF Forward
  <2>3. H!Succ(b) # 0
    BY <2>1, Constants DEF Forward, H!Succ, PCs
  <2> QED BY <1>2, <2>2, <2>3
<1>3. q = NoPred \/ \E b \in {b \in PCs : H!Branches(prog[b]) /\ b % BtbWords = p % BtbWords} :
                      q \in [taken : BOOLEAN, target : {prog[b].target, H!Succ(b)}]
  BY DEF Predictions
<1>4. CASE q = NoPred
  BY <1>4 DEF NoPred
<1>5. CASE q # NoPred
  BY <1>2, <1>3, <1>5
<1> QED BY <1>4, <1>5

\* The hypothesis of WordsInPlace is met by such programs.
THEOREM StaysAway ==
  ASSUME Forward
  PROVE  Spec => []NeverBack
<1>1. Init => Onward
  BY DEF Init, Onward, NoPred
<1>2. ASSUME TypeInv, Onward, NEW e \in Env, Cycle(e)
      PROVE  Onward'
  <2>1. ~mret
    BY <1>2, OnwardNpc
  <2>2. ifs'.pred.taken => ifs'.pred.target # 0
    <3>1. /\ toIDFire(e) => ifs'.pred \in Predictions(npc)
          /\ ~toIDFire(e) => ifs'.pred = ifs.pred
      BY <1>2, IFMoves DEF Cycle
    <3>2. CASE toIDFire(e)
      BY <1>2, <3>1, <3>2, OnwardPredicted
    <3>3. CASE ~toIDFire(e)
      BY <1>2, <3>1, <3>3 DEF Onward
    <3> QED BY <3>2, <3>3
  <2>3. csr'.flushQ = IF ~redirectValid \/ redirectFire(e) THEN "none"
                      ELSE IF csr.flushQ # "none" THEN csr.flushQ
                      ELSE IF raiseIntrExcep THEN "mtvec" ELSE "mepc"
    BY <1>2 DEF Cycle, CSRNext
  <2>4. csr'.flushQ # "mepc"
    BY <1>2, <2>1, <2>3 DEF Onward, redirectValid
  <2> QED BY <2>2, <2>4 DEF Onward
<1>3. TypeInv /\ Onward /\ [Next]_vars => Onward'
  BY <1>2 DEF Next, Onward, vars
<1>4. TypeInv /\ Onward => NeverBack
  BY OnwardNpc
<1> QED BY <1>1, <1>3, <1>4, InitTypes, StepTypes, PTL DEF Spec
=============================================================================
