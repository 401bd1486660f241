------------------------------ MODULE MEMProofs ------------------------------
(***************************************************************************)
(* Proofs about the memory stage for every set of addresses and            *)
(* instructions and every width of a word.                                 *)
(***************************************************************************)
EXTENDS MEM, TLAPS

\* A misaligned SC traps and still writes its register (MEM.scala:227 masks
\* regWrite for reads only), so the refinement is proved of programs without one.
AlignedSC == \A i \in Insts : i.op = "SC" => i.aligned

-----------------------------------------------------------------------------
\* The word the instruction found, and the one an AMO leaves.
Old == prior.mem[inst.addr]
New == A!AmoResult(inst.op, Old, inst.src)

\* The requests made since the instruction came in.
Made(r, w) == prior.reads = r /\ prior.writes = w

\* Nothing on the bus, nothing done to memory yet.
Quiet == bus.st = "none" /\ mem = prior.mem

\* The instruction's read is under way.
ReadOut == /\ bus.st \in {"pending", "answered"} /\ ~bus.wr
           /\ bus.addr = inst.addr
           /\ mem = prior.mem
           /\ bus.st = "answered" => bus.data = Old

\* The instruction's write of d is under way.
WriteOut(d) ==
  /\ bus.st \in {"pending", "answered"} /\ bus.wr
  /\ bus.addr = inst.addr
  /\ bus.st = "pending" => bus.data = d /\ mem = prior.mem
  /\ bus.st = "answered" => mem = [prior.mem EXCEPT ![inst.addr] = d]

\* What the instruction makes of the reservation it found.
Reserved == A!Reservation(inst, prior.resv)

IdleInv ==
  /\ Quiet /\ Made(0, 0)
  /\ hasFired => /\ ~access \/ (isSC /\ prior.resv # inst.addr)
                 /\ reservation = Reserved
  /\ ~hasFired => reservation = prior.resv

WaitInv ==
  /\ access /\ inst.op \in A!Loads \cup A!Stores
  /\ ren => ReadOut /\ Made(1, 0)
  /\ ~ren => WriteOut(inst.src) /\ Made(0, 1)
  /\ inst.op = "LR" => reservation \in {prior.resv, inst.addr}
  /\ isSC => prior.resv = inst.addr /\ reservation = 0
  /\ inst.op \in {"LOAD", "STORE"} => reservation = prior.resv
  /\ hasFired => bus.st = "answered" /\ reservation = Reserved

AmoInv == access /\ inst.op \in A!Amos /\ reservation = prior.resv
AmoReadInv == AmoInv /\ ~hasFired /\ ReadOut /\ Made(1, 0)
AmoCalcInv == /\ AmoInv /\ ~hasFired /\ Quiet /\ Made(1, 0)
              /\ amoReadData = Old /\ amoRegWriteDataReg = Old
AmoLaunchInv == /\ AmoInv /\ ~hasFired /\ Quiet /\ Made(1, 0)
                /\ amoAluResReg = New /\ amoRegWriteDataReg = Old
AmoWriteInv == /\ AmoInv /\ WriteOut(New) /\ Made(1, 1)
               /\ amoRegWriteDataReg = Old
               /\ hasFired => bus.st = "answered"

\* The inductive invariant: what has been done, state by state.
IInv ==
  /\ TypeOK
  /\ state = "IDLE" => IdleInv
  /\ state = "WAIT_RESP" => WaitInv
  /\ state = "AMO_WAIT_READ_RESP" => AmoReadInv
  /\ state = "AMO_CALC" => AmoCalcInv
  /\ state = "AMO_LAUNCH_WRITE_REQ" => AmoLaunchInv
  /\ state = "AMO_WAIT_WRITE_RESP" => AmoWriteInv

-----------------------------------------------------------------------------
\* The addresses and the fields of an instruction.
LEMMA Constants ==
  /\ 0 \notin Addr /\ 0 \in Word /\ 1 \in Word
  /\ Nop.op = "NOP" /\ Nop.addr = 0 /\ Nop.src = 0 /\ Nop.aligned = TRUE
  /\ \A i \in Insts : /\ i.op \in {"ALU"} \cup A!Loads \cup A!Stores \cup A!Amos
                      /\ i.addr \in Addr /\ i.src \in Word /\ i.aligned \in BOOLEAN
BY MEMAssumption DEF Nop, A!Nop

\* An AMO computes a word of two words.
LEMMA AmoWord ==
  ASSUME NEW op, NEW old \in Word, NEW src \in Word
  PROVE  A!AmoResult(op, old, src) \in Word
<1>1. PICK m \in Word : Word = 0 .. m /\ m \in Nat
  BY MEMAssumption
<1> DEFINE top == CHOOSE n \in Word : \A x \in Word : x <= n
<1>2. top \in Word /\ \A x \in Word : x <= top
  BY <1>1
<1>3. top = m
  BY <1>1, <1>2
<1> HIDE DEF top
<1>4. (old + src) % (1 + top) \in 0 .. m
  BY <1>1, <1>3
<1> QED BY <1>1, <1>4 DEF A!AmoResult, top

\* The instruction in the stage.
LEMMA InstFacts ==
  ASSUME TypeOK
  PROVE  /\ inst.op \in {"NOP", "ALU"} \cup A!Loads \cup A!Stores \cup A!Amos
         /\ inst.addr \in Addr \cup {0} /\ inst.src \in Word
         /\ inst.op = "NOP" <=> inst = Nop
         /\ inst # Nop => inst \in Insts /\ inst.addr \in Addr
         /\ access => inst # Nop /\ inst.addr \in Addr
<1>1. inst \in Insts \/ inst = Nop
  BY DEF TypeOK
<1>2. CASE inst \in Insts
  BY <1>2, Constants DEF access, A!Loads, A!Stores, A!Amos
<1>3. CASE inst = Nop
  BY <1>3, Constants DEF access, ren, wen, A!Loads, A!Stores, A!Amos
<1> QED BY <1>1, <1>2, <1>3

\* An access is either a read alone, a write alone or both, by its name.
LEMMA Kinds ==
  ASSUME TypeOK
  PROVE  /\ ren <=> inst.op \in {"LOAD", "LR", "AMOSWAP", "AMOADD"}
         /\ wen <=> inst.op \in {"STORE", "SC", "AMOSWAP", "AMOADD"}
         /\ isSC <=> inst.op = "SC"
         /\ inst.op \in A!Amos <=> ren /\ wen
BY DEF ren, wen, isSC, A!Loads, A!Stores, A!Amos

\* The words the invariant speaks of.
LEMMA OldNew ==
  ASSUME TypeOK, inst.addr \in Addr
  PROVE  Old \in Word /\ New \in Word
<1>1. prior.mem \in [Addr -> Word]
  BY DEF TypeOK
<1>2. Old \in Word
  BY <1>1 DEF Old
<1> QED BY <1>2, AmoWord, InstFacts DEF New

\* The request at the slave is the one of the instruction.
LEMMA BusFacts ==
  ASSUME IInv
  PROVE  /\ bus.st \in {"none", "pending", "answered"}
         /\ bus.st # "none" => bus.addr = inst.addr /\ inst.addr \in Addr
         /\ bus.st # "none" => state \in {"WAIT_RESP", "AMO_WAIT_READ_RESP",
                                          "AMO_WAIT_WRITE_RESP"}
<1>1. bus.st \in {"none", "pending", "answered"} /\ state \in State
  BY DEF IInv, TypeOK
<1>2. CASE state \in {"IDLE", "AMO_CALC", "AMO_LAUNCH_WRITE_REQ"}
  BY <1>1, <1>2 DEF IInv, IdleInv, AmoCalcInv, AmoLaunchInv, Quiet
<1>3. CASE state = "WAIT_RESP"
  BY <1>1, <1>3, InstFacts DEF IInv, WaitInv, ReadOut, WriteOut
<1>4. CASE state \in {"AMO_WAIT_READ_RESP", "AMO_WAIT_WRITE_RESP"}
  BY <1>1, <1>4, InstFacts
     DEF IInv, AmoReadInv, AmoWriteInv, AmoInv, ReadOut, WriteOut
<1> QED BY <1>1, <1>2, <1>3, <1>4 DEF State

\* The wires of a cycle carry words.
LEMMA Wires ==
  ASSUME TypeOK, NEW e \in Env
  PROVE  /\ RData(e) \in Word /\ ReqData \in Word
         /\ amoRegWriteData(e) \in Word /\ regWdata(e) \in Word
<1>1. e.junk \in Word
  BY DEF Env
<1>2. RData(e) \in Word
  BY <1>1 DEF RData, TypeOK
<1>3. ReqData \in Word
  BY InstFacts DEF ReqData, TypeOK
<1>4. amoRegWriteData(e) \in Word
  BY <1>2, Constants DEF amoRegWriteData, TypeOK
<1> QED BY <1>2, <1>3, <1>4, InstFacts DEF regWdata

-----------------------------------------------------------------------------
\* After reset.
LEMMA InitInv == Init => IInv
<1> SUFFICES ASSUME Init PROVE IInv
  OBVIOUS
<1>1. TypeOK
  BY Constants DEF Init, TypeOK, State, NoBus
<1>2. state = "IDLE" /\ IdleInv
  BY DEF Init, IdleInv, Quiet, Made, NoBus
<1> QED BY <1>1, <1>2 DEF IInv

\* Every cycle keeps the types.
LEMMA TypeStep ==
  ASSUME IInv, NEW e \in Env, Cycle(e)
  PROVE  TypeOK'
<1> USE DEF Cycle
<1>1. TypeOK
  BY DEF IInv
<1>2. inst' \in Insts \cup {Nop}
  BY <1>1 DEF InstNext, TypeOK
<1>3. state' \in State
  BY <1>1 DEF StateNext, State, TypeOK
<1>4. reservation' \in Addr \cup {0}
  BY <1>1, InstFacts DEF ReservationNext, TypeOK
<1>5. hasFired' \in BOOLEAN
  BY <1>1 DEF HasFiredNext, TypeOK
<1>6. {amoReadData', amoAluResReg', amoRegWriteDataReg'} \subseteq Word
  BY <1>1, Wires, AmoWord, InstFacts DEF AmoNext, TypeOK
<1>7. mem' \in [Addr -> Word]
  BY <1>1 DEF BusNext, TypeOK
<1>8. bus' \in [st : {"none", "pending", "answered"}, wr : BOOLEAN,
                addr : Addr \cup {0}, data : Word]
  <2>1. CASE ReqFire(e)
    <3>1. bus' = [st |-> "pending", wr |-> ReqWr, addr |-> inst.addr, data |-> ReqData]
      BY <2>1 DEF BusNext
    <3>2. ReqWr \in BOOLEAN /\ inst.addr \in Addr \cup {0} /\ ReqData \in Word
      BY <1>1, InstFacts, Wires DEF ReqWr
    <3> QED BY <3>1, <3>2
  <2>2. CASE ~ReqFire(e) /\ bus.st = "pending" /\ e.answer
    <3> DEFINE d == IF bus.wr THEN 0 ELSE mem[bus.addr]
    <3>1. bus' = [bus EXCEPT !.st = "answered", !.data = d]
      BY <2>2 DEF BusNext
    <3>2. d \in Word
      BY <1>1, <2>2, BusFacts, Constants DEF TypeOK
    <3>3. bus \in [st : {"none", "pending", "answered"}, wr : BOOLEAN,
                   addr : Addr \cup {0}, data : Word]
      BY <1>1 DEF TypeOK
    <3> HIDE DEF d
    <3> QED BY <3>1, <3>2, <3>3
  <2>3. CASE ~ReqFire(e) /\ ~(bus.st = "pending" /\ e.answer)
    <3>1. bus' = NoBus \/ bus' = bus
      BY <2>3 DEF BusNext
    <3>2. CASE bus' = NoBus
      BY <3>2, Constants DEF NoBus
    <3>3. CASE bus' = bus
      BY <1>1, <3>3 DEF TypeOK
    <3> QED BY <3>1, <3>2, <3>3
  <2> QED BY <2>1, <2>2, <2>3
<1>9. out' \in [trap : BOOLEAN, regWrite : BOOLEAN, turn : {0, 1}, data : Word]
  <2>1. CASE Done /\ ~nop
    <3>1. out' = [ trap |-> flush2EXE, regWrite |-> regWrite, turn |-> 1 - out.turn,
                   data |-> IF regWrite THEN regWdata(e) ELSE 0 ]
      BY <2>1 DEF OutNext
    <3>2. regWrite \in BOOLEAN
      <4>1. CASE inst = Nop
        BY <4>1, Constants DEF regWrite, ren, A!Loads, A!Amos
      <4>2. CASE inst \in Insts
        BY <4>2, Constants DEF regWrite
      <4> QED BY <1>1, <4>1, <4>2 DEF TypeOK
    <3>3. flush2EXE \in BOOLEAN /\ 1 - out.turn \in {0, 1}
      BY <1>1 DEF flush2EXE, TypeOK
    <3>4. (IF regWrite THEN regWdata(e) ELSE 0) \in Word
      BY <1>1, Wires, Constants
    <3> QED BY <3>1, <3>2, <3>3, <3>4
  <2>2. CASE ~(Done /\ ~nop)
    BY <1>1, <2>2 DEF OutNext, TypeOK
  <2> QED BY <2>1, <2>2
<1>10. prior' \in [mem : [Addr -> Word], resv : Addr \cup {0}, reads : Nat, writes : Nat]
  <2>1. CASE FromEXEFire(e)
    BY <1>4, <1>7, <2>1 DEF PriorNext
  <2>2. CASE ~FromEXEFire(e)
    <3> DEFINE r == IF ReqFire(e) /\ ~ReqWr THEN prior.reads + 1 ELSE prior.reads
               w == IF ReqFire(e) /\ ReqWr THEN prior.writes + 1 ELSE prior.writes
    <3>1. prior' = [prior EXCEPT !.reads = r, !.writes = w]
      BY <2>2 DEF PriorNext
    <3>2. r \in Nat /\ w \in Nat
      BY <1>1 DEF TypeOK
    <3> HIDE DEF r, w
    <3> QED BY <1>1, <3>1, <3>2 DEF TypeOK
  <2> QED BY <2>1, <2>2
<1> QED
  BY <1>2, <1>3, <1>4, <1>5, <1>6, <1>7, <1>8, <1>9, <1>10 DEF TypeOK

-----------------------------------------------------------------------------
\* The tables of the state machine, one state at a time.
LEMMA InIdle ==
  ASSUME TypeOK, NEW e \in Env, Cycle(e), state = "IDLE"
  PROVE  /\ Done <=> ~access \/ scFails
         /\ ReqFire(e) <=> access /\ ~scFails /\ e.reqReady
         /\ ReqWr <=> ~ren /\ wen
         /\ ReqData = inst.src
         /\ ~RRespFire(e) /\ ~WRespFire(e)
         /\ state' = IF ~ReqFire(e) THEN "IDLE"
                     ELSE IF ren /\ wen THEN "AMO_WAIT_READ_RESP" ELSE "WAIT_RESP"
BY DEF Done, ReqFire, ReqValid, ReqWr, ReqData, RRespFire, WRespFire, Cycle, StateNext

LEMMA InWait ==
  ASSUME TypeOK, NEW e \in Env, Cycle(e), state = "WAIT_RESP"
  PROVE  /\ Done <=> RValid \/ WValid
         /\ ~ReqFire(e)
         /\ RRespFire(e) <=> RValid /\ e.exeValid
         /\ WRespFire(e) <=> WValid /\ e.exeValid
         /\ state' = IF RRespFire(e) \/ WRespFire(e) THEN "IDLE" ELSE state
BY DEF Done, ReqFire, ReqValid, RRespFire, WRespFire, Cycle, StateNext

LEMMA InRead ==
  ASSUME TypeOK, NEW e \in Env, Cycle(e), state = "AMO_WAIT_READ_RESP"
  PROVE  /\ ~Done /\ ~ReqFire(e) /\ ~WRespFire(e)
         /\ RRespFire(e) <=> RValid
         /\ state' = IF RRespFire(e) THEN "AMO_CALC" ELSE state
BY DEF Done, ReqFire, ReqValid, RRespFire, WRespFire, Cycle, StateNext

LEMMA InCalc ==
  ASSUME TypeOK, NEW e \in Env, Cycle(e), state = "AMO_CALC"
  PROVE  /\ ~Done /\ ~ReqFire(e) /\ ~RRespFire(e) /\ ~WRespFire(e)
         /\ state' = "AMO_LAUNCH_WRITE_REQ"
BY DEF Done, ReqFire, ReqValid, RRespFire, WRespFire, Cycle, StateNext

LEMMA InLaunch ==
  ASSUME TypeOK, NEW e \in Env, Cycle(e), state = "AMO_LAUNCH_WRITE_REQ"
  PROVE  /\ ~Done /\ ~RRespFire(e) /\ ~WRespFire(e)
         /\ ReqFire(e) <=> e.reqReady
         /\ ReqWr /\ ReqData = amoAluResReg
         /\ state' = IF ReqFire(e) THEN "AMO_WAIT_WRITE_RESP" ELSE state
BY DEF Done, ReqFire, ReqValid, ReqWr, ReqData, RRespFire, WRespFire, Cycle, StateNext

LEMMA InWrite ==
  ASSUME TypeOK, NEW e \in Env, Cycle(e), state = "AMO_WAIT_WRITE_RESP"
  PROVE  /\ Done <=> WValid
         /\ ~ReqFire(e) /\ ~RRespFire(e)
         /\ WRespFire(e) <=> WValid /\ e.exeValid
         /\ state' = IF WRespFire(e) THEN "IDLE" ELSE state
BY DEF Done, ReqFire, ReqValid, RRespFire, WRespFire, Cycle, StateNext

\* The bus in a cycle without and with a request.
LEMMA BusStep ==
  ASSUME IInv, NEW e \in Env, Cycle(e)
  PROVE  /\ ReqFire(e) => /\ bus'.st = "pending" /\ (bus'.wr <=> ReqWr)
                          /\ bus'.addr = inst.addr /\ bus'.data = ReqData
         /\ bus.st # "pending" => mem' = mem
         /\ ~ReqFire(e) /\ bus.st = "none" => bus' = bus \/ bus' = NoBus
         /\ ~ReqFire(e) /\ bus.st = "answered" =>
              bus' = IF RRespFire(e) \/ WRespFire(e) THEN NoBus ELSE bus
         /\ ~ReqFire(e) /\ bus.st = "pending" =>
              \/ bus' = bus /\ mem' = mem
              \/ /\ bus'.st = "answered" /\ (bus'.wr <=> bus.wr) /\ bus'.addr = bus.addr
                 /\ ~bus.wr => bus'.data = mem[bus.addr] /\ mem' = mem
                 /\ bus.wr => mem' = [mem EXCEPT ![bus.addr] = bus.data]
<1>1. ReqFire(e) => bus' = [st |-> "pending", wr |-> ReqWr, addr |-> inst.addr,
                            data |-> ReqData]
  BY DEF Cycle, BusNext
<1>2. bus.st # "pending" => mem' = mem
  BY DEF Cycle, BusNext
<1>3. bus.st # "pending" /\ ~ReqFire(e) =>
        bus' = IF RRespFire(e) \/ WRespFire(e) THEN NoBus ELSE bus
  BY DEF Cycle, BusNext
<1>4. ASSUME ~ReqFire(e), bus.st = "pending", e.answer
      PROVE  /\ bus' = [bus EXCEPT !.st = "answered",
                                   !.data = IF bus.wr THEN 0 ELSE mem[bus.addr]]
             /\ mem' = IF bus.wr THEN [mem EXCEPT ![bus.addr] = bus.data] ELSE mem
  BY <1>4 DEF Cycle, BusNext
<1>5. ASSUME ~ReqFire(e), bus.st = "pending", ~e.answer
      PROVE  bus' = bus /\ mem' = mem
  BY <1>5 DEF Cycle, BusNext, RRespFire, WRespFire, RValid, WValid
<1>6. ASSUME ~ReqFire(e), bus.st = "pending", e.answer
      PROVE  /\ bus'.st = "answered" /\ (bus'.wr <=> bus.wr) /\ bus'.addr = bus.addr
             /\ ~bus.wr => bus'.data = mem[bus.addr] /\ mem' = mem
             /\ bus.wr => mem' = [mem EXCEPT ![bus.addr] = bus.data]
  <2>1. bus \in [st : {"none", "pending", "answered"}, wr : BOOLEAN,
                 addr : Addr \cup {0}, data : Word]
    BY DEF IInv, TypeOK
  <2> QED BY <1>4, <1>6, <2>1
<1> QED BY <1>1, <1>2, <1>3, <1>5, <1>6

\* While nothing comes in, the instruction and what it found stay.
LEMMA Held ==
  ASSUME TypeOK, NEW e \in Env, Cycle(e), ~FromEXEFire(e)
  PROVE  /\ inst' = inst /\ prior'.mem = prior.mem /\ prior'.resv = prior.resv
         /\ prior'.reads = IF ReqFire(e) /\ ~ReqWr THEN prior.reads + 1 ELSE prior.reads
         /\ prior'.writes = IF ReqFire(e) /\ ReqWr THEN prior.writes + 1 ELSE prior.writes
         /\ hasFired' <=> Done \/ hasFired
         /\ Old' = Old /\ New' = New /\ Reserved' = Reserved
         /\ (ren' <=> ren) /\ (wen' <=> wen) /\ (isSC' <=> isSC) /\ (access' <=> access)
<1>1. inst' = inst
  BY DEF Cycle, InstNext
<1> DEFINE r == IF ReqFire(e) /\ ~ReqWr THEN prior.reads + 1 ELSE prior.reads
           w == IF ReqFire(e) /\ ReqWr THEN prior.writes + 1 ELSE prior.writes
<1>2. prior' = [prior EXCEPT !.reads = r, !.writes = w]
  BY DEF Cycle, PriorNext
<1>3. prior \in [mem : [Addr -> Word], resv : Addr \cup {0}, reads : Nat, writes : Nat]
  BY DEF TypeOK
<1>4. prior'.mem = prior.mem /\ prior'.resv = prior.resv /\ prior'.reads = r /\ prior'.writes = w
  <2> HIDE DEF r, w
  <2> QED BY <1>2, <1>3
<1>5. hasFired' <=> Done \/ hasFired
  BY DEF Cycle, HasFiredNext, TypeOK
<1>6. Old' = Old
  BY <1>1, <1>4 DEF Old
<1>7. New' = New
  BY <1>1, <1>6 DEF New, A!AmoResult
<1>8. Reserved' = Reserved
  BY <1>1, <1>4 DEF Reserved, A!Reservation, A!Traps, A!Loads, A!Stores, A!Amos
<1>9. (ren' <=> ren) /\ (wen' <=> wen) /\ (isSC' <=> isSC) /\ (access' <=> access)
  BY <1>1 DEF ren, wen, isSC, access, A!Loads, A!Stores, A!Amos
<1> QED BY <1>1, <1>4, <1>5, <1>6, <1>7, <1>8, <1>9

-----------------------------------------------------------------------------
\* A new instruction finds the stage idle, the bus quiet and the history reset.
LEMMA Arrival ==
  ASSUME IInv, NEW e \in Env, Cycle(e), FromEXEFire(e)
  PROVE  state' = "IDLE" /\ IdleInv'
<1>1. TypeOK /\ Done /\ e.exeValid
  BY DEF IInv, FromEXEFire
<1>2. /\ prior'.mem = mem' /\ prior'.resv = reservation'
      /\ prior'.reads = 0 /\ prior'.writes = 0 /\ hasFired' = FALSE
  BY <1>1 DEF Cycle, PriorNext, HasFiredNext
<1>3. state' = "IDLE" /\ bus'.st = "none"
  <2>1. CASE state = "IDLE"
    <3>1. ~ReqFire(e) /\ bus.st = "none"
      BY <1>1, <2>1, InIdle DEF IInv, IdleInv, Quiet
    <3> QED BY <1>1, <2>1, <3>1, InIdle, BusStep DEF NoBus
  <2>2. CASE state = "WAIT_RESP"
    <3>1. bus.st = "answered" /\ (RRespFire(e) \/ WRespFire(e))
      BY <1>1, <2>2, InWait DEF RValid, WValid
    <3> QED BY <1>1, <2>2, <3>1, InWait, BusStep DEF NoBus
  <2>3. CASE state = "AMO_WAIT_WRITE_RESP"
    <3>1. bus.st = "answered" /\ WRespFire(e)
      BY <1>1, <2>3, InWrite DEF WValid
    <3> QED BY <1>1, <2>3, <3>1, InWrite, BusStep DEF NoBus
  <2>4. state \in {"IDLE", "WAIT_RESP", "AMO_WAIT_WRITE_RESP"}
    BY <1>1, InRead, InCalc, InLaunch DEF TypeOK, State
  <2> QED BY <2>1, <2>2, <2>3, <2>4
<1> QED BY <1>2, <1>3 DEF IdleInv, Quiet, Made

\* A finished instruction is one that has nothing to ask for or has its answer.
LEMMA FiredDone == ASSUME IInv, hasFired PROVE Done
<1>1. TypeOK
  BY DEF IInv
<1>2. CASE state = "IDLE"
  <2>1. ~access \/ (isSC /\ prior.resv # inst.addr)
    BY <1>2 DEF IInv, IdleInv
  <2>2. CASE ~access
    BY <1>2, <2>2 DEF Done
  <2>3. CASE access /\ isSC /\ prior.resv # inst.addr
    <3>1. reservation = 0
      BY <1>2, <2>3 DEF IInv, IdleInv, Reserved, A!Reservation, A!Traps, isSC, access
    <3>2. scFails
      BY <1>1, <2>3, <3>1, InstFacts, Constants DEF scFails
    <3> QED BY <1>2, <3>2 DEF Done
  <2> QED BY <2>1, <2>2, <2>3
<1>3. CASE state = "WAIT_RESP"
  BY <1>3 DEF IInv, WaitInv, Done, RValid, WValid
<1>4. CASE state = "AMO_WAIT_WRITE_RESP"
  <2>1. bus.st = "answered" /\ bus.wr
    BY <1>4 DEF IInv, AmoWriteInv, WriteOut
  <2> QED BY <1>4, <2>1 DEF Done, WValid
<1> QED BY <1>1, <1>2, <1>3, <1>4 DEF IInv, TypeOK, State, AmoReadInv, AmoCalcInv, AmoLaunchInv

\* An idle cycle without a request: nothing is done, or nothing was to do.
LEMMA IdleStays ==
  ASSUME IInv, NEW e \in Env, Cycle(e), ~FromEXEFire(e), state = "IDLE", ~ReqFire(e)
  PROVE  state' = "IDLE" /\ IdleInv'
<1>1. TypeOK /\ IdleInv
  BY DEF IInv
<1>2. state' = "IDLE"
  BY <1>1, InIdle
<1>3. Quiet' /\ Made(0, 0)'
  <2>1. bus'.st = "none" /\ mem' = mem
    BY <1>1, BusStep DEF IdleInv, Quiet, NoBus
  <2> QED BY <1>1, <2>1, Held DEF IdleInv, Quiet, Made
<1>4. ~hasFired' => reservation' = prior'.resv
  <2>1. ~hasFired' => ~Done /\ ~hasFired
    BY <1>1, Held
  <2> QED BY <1>1, <2>1, Held DEF IdleInv, Cycle, ReservationNext
<1>5. ASSUME hasFired'
      PROVE  (~access \/ (isSC /\ prior.resv # inst.addr)) /\ reservation' = Reserved
  <2>1. Done
    BY <1>1, <1>5, Held, FiredDone
  <2>2. CASE ~access
    <3>1. reservation = Reserved
      BY <1>1, <2>2, Kinds DEF IdleInv, Reserved, A!Reservation, A!Traps, access, ren, wen, isSC,
            A!Loads, A!Stores, A!Amos
    <3>2. reservation' = reservation
      BY <2>2 DEF Cycle, ReservationNext
    <3> QED BY <2>2, <3>1, <3>2
  <2>3. CASE access
    <3>1. scFails
      BY <1>1, <2>1, <2>3, InIdle
    <3>2. isSC /\ prior.resv # inst.addr
      BY <1>1, <2>3, <3>1 DEF IdleInv, scFails
    <3>3. reservation' = 0
      BY <2>1, <2>3, <3>2 DEF Cycle, ReservationNext
    <3>4. Reserved = 0
      BY <2>3, <3>2 DEF Reserved, A!Reservation, A!Traps, isSC, access
    <3> QED BY <3>2, <3>3, <3>4
  <2> QED BY <2>2, <2>3
<1> QED BY <1>1, <1>2, <1>3, <1>4, <1>5, Held DEF IdleInv

\* An idle cycle with a request starts the access.
LEMMA IdleAsks ==
  ASSUME IInv, NEW e \in Env, Cycle(e), ~FromEXEFire(e), state = "IDLE", ReqFire(e)
  PROVE  \/ state' = "WAIT_RESP" /\ WaitInv'
         \/ state' = "AMO_WAIT_READ_RESP" /\ AmoReadInv'
<1>1. TypeOK /\ IdleInv
  BY DEF IInv
<1>2. access /\ ~scFails /\ ~Done /\ ~hasFired
  BY <1>1, InIdle, FiredDone
<1>3. /\ bus'.st = "pending" /\ (bus'.wr <=> ~ren /\ wen)
      /\ bus'.addr = inst.addr /\ bus'.data = inst.src /\ mem' = mem
  BY <1>1, InIdle, BusStep DEF IdleInv, Quiet
<1>4. ~hasFired' /\ mem' = prior'.mem /\ (ren \/ wen)
  BY <1>1, <1>2, <1>3, Held DEF IdleInv, Quiet, access
<1>5. reservation = prior.resv
  BY <1>1, <1>2 DEF IdleInv
<1>6. IF isSC THEN prior.resv = inst.addr /\ reservation' = 0 ELSE reservation' = prior'.resv
  <2>1. CASE isSC
    BY <1>2, <1>5, <2>1 DEF Cycle, ReservationNext, scFails
  <2>2. CASE ~isSC
    BY <1>1, <1>5, <2>2, Held DEF Cycle, ReservationNext
  <2> QED BY <2>1, <2>2
<1>7. ren => Made(1, 0)' /\ ReadOut'
  <2>1. ren => Made(1, 0)'
    BY <1>1, InIdle, Held DEF Made, IdleInv
  <2>2. ren => ReadOut'
    BY <1>1, <1>3, <1>4, Held DEF ReadOut
  <2> QED BY <2>1, <2>2
<1>8. ~ren => Made(0, 1)' /\ WriteOut(inst.src)'
  <2>1. ~ren => Made(0, 1)'
    BY <1>1, <1>4, InIdle, Held DEF Made, IdleInv
  <2>2. ~ren => WriteOut(inst.src)'
    BY <1>1, <1>3, <1>4, Held DEF WriteOut
  <2> QED BY <2>1, <2>2
<1>9. CASE ren /\ wen
  <2>1. inst.op \in A!Amos /\ ~isSC
    BY <1>1, <1>9, Kinds
  <2>2. AmoInv'
    BY <1>1, <1>2, <1>6, <2>1, Held DEF AmoInv
  <2> QED BY <1>1, <1>4, <1>7, <1>9, <2>2, InIdle DEF AmoReadInv
<1>10. CASE ~(ren /\ wen)
  <2>1. inst.op \in A!Loads \cup A!Stores
    BY <1>1, <1>4, <1>10, Kinds DEF A!Loads, A!Stores
  <2>2. WaitInv'
    BY <1>1, <1>2, <1>4, <1>6, <1>7, <1>8, <2>1, Held, Kinds DEF WaitInv
  <2> QED BY <1>1, <1>10, <2>2, InIdle
<1> QED BY <1>9, <1>10

\* A cycle of a plain access: the request is performed, answered, or kept for EXE.
LEMMA WaitStays ==
  ASSUME IInv, NEW e \in Env, Cycle(e), ~FromEXEFire(e), state = "WAIT_RESP"
  PROVE  state' = "WAIT_RESP" /\ WaitInv'
<1>1. TypeOK /\ WaitInv
  BY DEF IInv
<1>2. /\ ~ReqFire(e) /\ ~RRespFire(e) /\ ~WRespFire(e) /\ state' = "WAIT_RESP"
      /\ Done <=> bus.st = "answered"
  BY <1>1, InWait DEF FromEXEFire, RValid, WValid
<1>3. inst.op \in A!Loads => ren
  BY DEF ren
<1>4. ren => ReadOut' /\ Made(1, 0)'
  <2>1. ASSUME ren PROVE ReadOut'
    <3>1. ReadOut
      BY <1>1, <2>1 DEF WaitInv
    <3>2. CASE bus.st = "answered"
      BY <1>1, <1>2, <3>1, <3>2, BusStep, Held DEF ReadOut
    <3>3. CASE bus.st = "pending"
      BY <1>1, <1>2, <3>1, <3>3, BusStep, Held DEF ReadOut, Old
    <3> QED BY <3>1, <3>2, <3>3 DEF ReadOut
  <2>2. ren => Made(1, 0)'
    BY <1>1, <1>2, Held DEF Made, WaitInv
  <2> QED BY <2>1, <2>2
<1>5. ~ren => WriteOut(inst.src)' /\ Made(0, 1)'
  <2>1. ASSUME ~ren PROVE WriteOut(inst.src)'
    <3>1. WriteOut(inst.src)
      BY <1>1, <2>1 DEF WaitInv
    <3>2. CASE bus.st = "answered"
      BY <1>1, <1>2, <3>1, <3>2, BusStep, Held DEF WriteOut
    <3>3. CASE bus.st = "pending"
      BY <1>1, <1>2, <3>1, <3>3, BusStep, Held DEF WriteOut
    <3> QED BY <3>1, <3>2, <3>3 DEF WriteOut
  <2>2. ~ren => Made(0, 1)'
    BY <1>1, <1>2, Held DEF Made, WaitInv
  <2> QED BY <2>1, <2>2
<1>6. reservation' = IF inst.op = "LR" THEN inst.addr ELSE reservation
  BY DEF Cycle, ReservationNext
<1>7. hasFired' => bus'.st = "answered" /\ reservation' = Reserved
  <2>1. hasFired' => bus.st = "answered"
    BY <1>1, <1>2, Held, FiredDone
  <2>2. bus.st = "answered" => bus'.st = "answered"
    BY <1>2, BusStep
  <2>3. reservation' = Reserved
    BY <1>1, <1>6, Kinds DEF WaitInv, Reserved, A!Reservation, A!Traps, access, A!Loads, A!Stores
  <2> QED BY <2>1, <2>2, <2>3
<1>8. /\ inst.op = "LR" => reservation' = inst.addr
      /\ isSC => prior.resv = inst.addr /\ reservation' = 0
      /\ inst.op \in {"LOAD", "STORE"} => reservation' = prior.resv
  BY <1>1, <1>6, Kinds DEF WaitInv
<1> QED BY <1>1, <1>2, <1>4, <1>5, <1>7, <1>8, Held DEF WaitInv

\* What no cycle of an AMO touches.
LEMMA AmoKept ==
  ASSUME IInv, NEW e \in Env, Cycle(e), ~FromEXEFire(e), AmoInv, state # "IDLE"
  PROVE  AmoInv' /\ fuTypeAMO /\ ~isSC /\ inst.op # "LR"
<1>1. TypeOK /\ inst.op \in {"AMOSWAP", "AMOADD"}
  BY DEF IInv, AmoInv, A!Amos
<1>2. fuTypeAMO /\ ~isSC /\ inst.op # "LR"
  BY <1>1 DEF fuTypeAMO, isSC, A!Amos
<1>3. reservation' = reservation
  BY <1>2 DEF Cycle, ReservationNext
<1> QED BY <1>1, <1>2, <1>3, Held DEF AmoInv

\* The read of an AMO: its answer is taken into two registers.
LEMMA AmoReadStep ==
  ASSUME IInv, NEW e \in Env, Cycle(e), state = "AMO_WAIT_READ_RESP"
  PROVE  \/ state' = "AMO_WAIT_READ_RESP" /\ AmoReadInv'
         \/ state' = "AMO_CALC" /\ AmoCalcInv'
<1>1. TypeOK /\ AmoReadInv
  BY DEF IInv
<1>2. ~Done /\ ~ReqFire(e) /\ ~WRespFire(e) /\ ~FromEXEFire(e)
  BY <1>1, InRead DEF FromEXEFire
<1>3. AmoInv' /\ ~hasFired' /\ Made(1, 0)' /\ ReadOut
  BY <1>1, <1>2, AmoKept, Held DEF AmoReadInv, Made
<1>4. CASE bus.st = "answered"
  <2>1. RRespFire(e) /\ RValid /\ RData(e) = Old
    BY <1>1, <1>3, <1>4, InRead DEF RValid, ReadOut, RData
  <2>2. bus'.st = "none" /\ mem' = mem /\ state' = "AMO_CALC"
    BY <1>1, <1>2, <1>4, <2>1, BusStep, InRead DEF NoBus
  <2>3. amoReadData' = Old /\ amoRegWriteDataReg' = Old
    BY <2>1 DEF Cycle, AmoNext
  <2> QED BY <1>1, <1>2, <1>3, <2>2, <2>3, Held DEF AmoCalcInv, Quiet, ReadOut
<1>5. CASE bus.st = "pending"
  <2>1. state' = "AMO_WAIT_READ_RESP"
    BY <1>1, <1>5, InRead DEF RValid
  <2>2. ReadOut'
    BY <1>1, <1>2, <1>3, <1>5, BusStep, Held DEF ReadOut, Old
  <2> QED BY <1>3, <2>1, <2>2 DEF AmoReadInv
<1> QED BY <1>3, <1>4, <1>5 DEF ReadOut

\* The computation of an AMO.
LEMMA AmoCalcStep ==
  ASSUME IInv, NEW e \in Env, Cycle(e), state = "AMO_CALC"
  PROVE  state' = "AMO_LAUNCH_WRITE_REQ" /\ AmoLaunchInv'
<1>1. TypeOK /\ AmoCalcInv
  BY DEF IInv
<1>2. ~Done /\ ~ReqFire(e) /\ ~RRespFire(e) /\ ~WRespFire(e) /\ ~FromEXEFire(e)
  BY <1>1, InCalc DEF FromEXEFire
<1>3. AmoInv' /\ ~hasFired' /\ Made(1, 0)' /\ fuTypeAMO /\ ~isSC /\ inst.op # "LR"
  BY <1>1, <1>2, AmoKept, Held DEF AmoCalcInv, Made
<1>4. Quiet'
  <2>1. bus'.st = "none" /\ mem' = mem
    BY <1>1, <1>2, BusStep DEF AmoCalcInv, Quiet, NoBus
  <2> QED BY <1>1, <1>2, <2>1, Held DEF AmoCalcInv, Quiet
<1>5. amoAluResReg' = New
  BY <1>1 DEF Cycle, AmoNext, AmoCalcInv, New
<1>6. amoRegWriteData(e) = amoRegWriteDataReg
  BY <1>3 DEF amoRegWriteData
<1>7. amoRegWriteDataReg' = Old
  BY <1>1, <1>3, <1>6 DEF Cycle, AmoNext, AmoCalcInv
<1> QED BY <1>1, <1>2, <1>3, <1>4, <1>5, <1>7, InCalc, Held DEF AmoLaunchInv

\* The write request of an AMO.
LEMMA AmoLaunchStep ==
  ASSUME IInv, NEW e \in Env, Cycle(e), state = "AMO_LAUNCH_WRITE_REQ"
  PROVE  \/ state' = "AMO_LAUNCH_WRITE_REQ" /\ AmoLaunchInv'
         \/ state' = "AMO_WAIT_WRITE_RESP" /\ AmoWriteInv'
<1>1. TypeOK /\ AmoLaunchInv
  BY DEF IInv
<1>2. ~Done /\ ~RRespFire(e) /\ ~WRespFire(e) /\ ~FromEXEFire(e) /\ ReqWr
  BY <1>1, InLaunch DEF FromEXEFire
<1>3. AmoInv' /\ ~hasFired' /\ fuTypeAMO /\ ~isSC /\ inst.op # "LR"
  BY <1>1, <1>2, AmoKept, Held DEF AmoLaunchInv
<1>4. amoRegWriteData(e) = amoRegWriteDataReg
  BY <1>3 DEF amoRegWriteData
<1>5. amoRegWriteDataReg' = Old
  BY <1>1, <1>3, <1>4 DEF Cycle, AmoNext, AmoLaunchInv
<1>6. bus.st = "none" /\ mem' = mem /\ mem = prior.mem
  BY <1>1, BusStep DEF AmoLaunchInv, Quiet
<1>7. CASE ReqFire(e)
  <2>1. bus'.st = "pending" /\ bus'.wr /\ bus'.addr = inst.addr /\ bus'.data = New
    BY <1>1, <1>2, <1>7, BusStep, InLaunch DEF AmoLaunchInv
  <2>2. WriteOut(New)'
    BY <1>1, <1>2, <1>6, <2>1, Held DEF WriteOut
  <2>3. Made(1, 1)'
    BY <1>1, <1>2, <1>7, Held DEF Made, AmoLaunchInv
  <2> QED BY <1>1, <1>2, <1>3, <1>5, <1>7, <2>2, <2>3, InLaunch, Held DEF AmoWriteInv
<1>8. CASE ~ReqFire(e)
  <2>1. amoAluResReg' = New
    BY <1>1 DEF Cycle, AmoNext, AmoLaunchInv
  <2>2. Quiet'
    BY <1>1, <1>2, <1>6, <1>8, BusStep, Held DEF Quiet, NoBus
  <2>3. Made(1, 0)'
    BY <1>1, <1>2, <1>8, Held DEF Made, AmoLaunchInv
  <2> QED BY <1>1, <1>2, <1>3, <1>5, <1>8, <2>1, <2>2, <2>3, InLaunch, Held DEF AmoLaunchInv
<1> QED BY <1>7, <1>8

\* The write of an AMO: performed, answered, or kept for EXE.
LEMMA AmoWriteStays ==
  ASSUME IInv, NEW e \in Env, Cycle(e), ~FromEXEFire(e), state = "AMO_WAIT_WRITE_RESP"
  PROVE  state' = "AMO_WAIT_WRITE_RESP" /\ AmoWriteInv'
<1>1. TypeOK /\ AmoWriteInv
  BY DEF IInv
<1>2. /\ ~ReqFire(e) /\ ~RRespFire(e) /\ ~WRespFire(e) /\ state' = "AMO_WAIT_WRITE_RESP"
      /\ Done => bus.st = "answered"
  BY <1>1, InWrite DEF FromEXEFire, WValid
<1>3. AmoInv' /\ fuTypeAMO /\ ~isSC /\ inst.op # "LR"
  BY <1>1, AmoKept DEF AmoWriteInv
<1>4. amoRegWriteData(e) = amoRegWriteDataReg
  BY <1>3 DEF amoRegWriteData
<1>5. amoRegWriteDataReg' = Old
  BY <1>1, <1>3, <1>4 DEF Cycle, AmoNext, AmoWriteInv
<1>6. Made(1, 1)'
  BY <1>1, <1>2, Held DEF Made, AmoWriteInv
<1>7. WriteOut(New)'
  <2>1. WriteOut(New)
    BY <1>1 DEF AmoWriteInv
  <2>2. CASE bus.st = "answered"
    BY <1>1, <1>2, <2>1, <2>2, BusStep, Held DEF WriteOut
  <2>3. CASE bus.st = "pending"
    BY <1>1, <1>2, <2>1, <2>3, BusStep, Held DEF WriteOut
  <2> QED BY <2>1, <2>2, <2>3 DEF WriteOut
<1>8. hasFired' => bus'.st = "answered"
  <2>1. hasFired' => bus.st = "answered"
    BY <1>1, <1>2, Held DEF AmoWriteInv
  <2>2. bus.st = "answered" => bus'.st = "answered"
    BY <1>2, BusStep
  <2> QED BY <2>1, <2>2
<1> QED BY <1>1, <1>2, <1>3, <1>5, <1>6, <1>7, <1>8, Held DEF AmoWriteInv

\* Every cycle keeps the inductive invariant.
LEMMA StepInv == IInv /\ [Next]_vars => IInv'
<1>1. ASSUME IInv, NEW e \in Env, Cycle(e)
      PROVE  IInv'
  <2>1. TypeOK /\ TypeOK'
    BY <1>1, TypeStep DEF IInv
  <2>2. CASE FromEXEFire(e)
    BY <1>1, <2>1, <2>2, Arrival DEF IInv
  <2>3. CASE ~FromEXEFire(e) /\ state = "IDLE"
    BY <1>1, <2>1, <2>3, IdleStays, IdleAsks DEF IInv
  <2>4. CASE ~FromEXEFire(e) /\ state = "WAIT_RESP"
    BY <1>1, <2>1, <2>4, WaitStays DEF IInv
  <2>5. CASE state = "AMO_WAIT_READ_RESP"
    BY <1>1, <2>1, <2>5, AmoReadStep DEF IInv
  <2>6. CASE state = "AMO_CALC"
    BY <1>1, <2>1, <2>6, AmoCalcStep DEF IInv
  <2>7. CASE state = "AMO_LAUNCH_WRITE_REQ"
    BY <1>1, <2>1, <2>7, AmoLaunchStep DEF IInv
  <2>8. CASE ~FromEXEFire(e) /\ state = "AMO_WAIT_WRITE_RESP"
    BY <1>1, <2>1, <2>8, AmoWriteStays DEF IInv
  <2> QED BY <2>1, <2>2, <2>3, <2>4, <2>5, <2>6, <2>7, <2>8 DEF TypeOK, State
<1>2. ASSUME IInv, UNCHANGED vars PROVE IInv'
  BY <1>2 DEF vars, IInv, TypeOK, IdleInv, WaitInv, AmoReadInv, AmoCalcInv, AmoLaunchInv,
     AmoWriteInv, AmoInv, Quiet, Made, ReadOut, WriteOut, Old, New, Reserved, ren, wen, isSC, access
<1> QED BY <1>1, <1>2 DEF Next

-----------------------------------------------------------------------------
\* The invariant says the accesses are made once.
LEMMA InvAccessesOnce == IInv => AccessesOnce
<1> SUFFICES ASSUME IInv PROVE AccessesOnce
  OBVIOUS
<1>1. TypeOK
  BY DEF IInv
<1>2. CASE state = "IDLE"
  BY <1>1, <1>2, Kinds DEF IInv, IdleInv, Made, AccessesOnce
<1>3. CASE state = "WAIT_RESP"
  <2>1. WaitInv
    BY <1>3 DEF IInv
  <2>2. ~ren => wen
    BY <2>1 DEF WaitInv, access
  <2>3. ren => ~wen
    BY <1>1, <2>1, Kinds DEF WaitInv, A!Loads, A!Stores
  <2> QED BY <2>1, <2>2, <2>3 DEF WaitInv, Made, AccessesOnce
<1>4. CASE state \in {"AMO_WAIT_READ_RESP", "AMO_CALC", "AMO_LAUNCH_WRITE_REQ"}
  BY <1>4 DEF IInv, AmoReadInv, AmoCalcInv, AmoLaunchInv, Made, AccessesOnce
<1>5. CASE state = "AMO_WAIT_WRITE_RESP"
  <2>1. AmoWriteInv
    BY <1>5 DEF IInv
  <2>2. ren /\ wen /\ access /\ ~isSC
    BY <1>1, <2>1, Kinds DEF AmoWriteInv, AmoInv, A!Amos
  <2> QED BY <2>1, <2>2 DEF AmoWriteInv, Made, AccessesOnce
<1> QED BY <1>1, <1>2, <1>3, <1>4, <1>5 DEF TypeOK, State

\* The registers keep within their width and enumeration (MEM.scala:47-57, 115).
THEOREM TypeCorrect == Spec => []TypeOK
<1>1. IInv => TypeOK
  BY DEF IInv
<1> QED BY <1>1, InitInv, StepInv, PTL DEF Spec

\* No instruction makes a bus access twice, and one that has gone to WB has
\* made exactly its own (MEM.scala:173, 174, 220).
THEOREM NoAccessTwice == Spec => []AccessesOnce
BY InitInv, StepInv, InvAccessesOnce, PTL DEF Spec

-----------------------------------------------------------------------------
\* What AtomicMemory sees.
Cur == IF hasFired THEN Nop ELSE inst
Mem == IF hasFired THEN mem ELSE prior.mem
Resv == IF hasFired THEN reservation ELSE prior.resv
Seen == <<Cur, Mem, Resv, out>>

\* The cycle that hands an instruction to WB does all of it and nothing else.
LEMMA Effect ==
  ASSUME AlignedSC, IInv, NEW e \in Env, Cycle(e), Done, ~hasFired, inst # Nop
  PROVE  /\ mem' = A!Memory(inst, prior.mem, prior.resv)
         /\ reservation' = Reserved
         /\ flush2EXE <=> A!Traps(inst)
         /\ regWrite <=> A!WritesReg(inst)
         /\ regWrite => regWdata(e) = A!Result(inst, prior.mem, prior.resv)
<1>1. TypeOK /\ inst \in Insts /\ inst.addr \in Addr
  BY InstFacts DEF IInv
<1>2. inst.op \in {"ALU", "LOAD", "STORE", "LR", "SC", "AMOSWAP", "AMOADD"}
  BY <1>1, Constants DEF A!Loads, A!Stores, A!Amos
<1>3. isSC => inst.aligned
  BY <1>1 DEF AlignedSC, isSC
<1>4. flush2EXE <=> A!Traps(inst)
  BY DEF flush2EXE, A!Traps, ren, wen, A!Loads, A!Stores, A!Amos
<1>5. regWrite <=> A!WritesReg(inst)
  BY <1>2, <1>3 DEF regWrite, A!WritesReg, A!Traps, ren, isSC, A!Loads, A!Stores, A!Amos
<1>6. CASE state = "IDLE"
  <2>1. IdleInv /\ mem' = mem
    BY <1>6, BusStep DEF IInv, IdleInv, Quiet
  <2>2. mem = prior.mem /\ reservation = prior.resv
    BY <2>1 DEF IdleInv, Quiet
  <2>3. CASE ~access
    <3>1. A!Traps(inst) \/ inst.op = "ALU"
      BY <1>2, <2>3 DEF access, ren, wen, A!Traps, A!Loads, A!Stores, A!Amos
    <3>2. mem' = A!Memory(inst, prior.mem, prior.resv)
      BY <2>1, <2>2, <3>1 DEF A!Memory, A!ScFails, A!Stores, A!Amos
    <3>3. reservation' = Reserved
      BY <1>6, <2>2, <2>3, <3>1 DEF Cycle, ReservationNext, Reserved, A!Reservation
    <3>4. regWrite => regWdata(e) = A!Result(inst, prior.mem, prior.resv)
      <4>1. regWrite => inst.op = "ALU"
        BY <1>5, <3>1 DEF A!WritesReg
      <4> QED BY <4>1 DEF regWdata, A!Result, fuTypeAMO, ren, A!Loads, A!Amos
    <3> QED BY <1>4, <1>5, <3>2, <3>3, <3>4
  <2>4. CASE access
    <3>1. scFails /\ isSC /\ inst.op = "SC" /\ ~A!Traps(inst)
      BY <1>1, <1>6, <2>4, InIdle DEF scFails, isSC, A!Traps, access
    <3>2. A!ScFails(inst, prior.resv)
      BY <2>2, <3>1 DEF scFails, A!ScFails
    <3>3. mem' = A!Memory(inst, prior.mem, prior.resv)
      BY <2>1, <2>2, <3>2 DEF A!Memory
    <3>4. reservation' = Reserved
      BY <1>6, <2>4, <3>1 DEF Cycle, ReservationNext, Reserved, A!Reservation
    <3>5. amoRegWriteData(e) = 1
      BY <1>6, <2>4, <3>1 DEF amoRegWriteData
    <3>6. regWdata(e) = A!Result(inst, prior.mem, prior.resv)
      BY <3>1, <3>2, <3>5 DEF regWdata, fuTypeAMO, A!Result, A!Loads, A!Amos
    <3> QED BY <1>4, <1>5, <3>3, <3>4, <3>6
  <2> QED BY <2>3, <2>4
<1>7. CASE state = "WAIT_RESP"
  <2>1. WaitInv /\ bus.st = "answered" /\ mem' = mem /\ ~A!Traps(inst)
    BY <1>1, <1>7, InWait, BusStep DEF IInv, WaitInv, RValid, WValid, A!Traps, access
  <2>2. reservation' = IF inst.op = "LR" THEN inst.addr ELSE reservation
    BY <1>7 DEF Cycle, ReservationNext
  <2>3. reservation' = Reserved
    BY <1>1, <2>1, <2>2, Kinds DEF WaitInv, Reserved, A!Reservation, A!Loads, A!Stores
  <2>4. CASE inst.op \in {"LOAD", "LR"}
    <3>1. ren /\ ReadOut /\ RValid
      BY <1>1, <2>1, <2>4, Kinds DEF WaitInv, ReadOut, RValid
    <3>2. mem' = A!Memory(inst, prior.mem, prior.resv)
      BY <2>1, <2>4, <3>1 DEF A!Memory, A!ScFails, A!Stores, A!Amos, ReadOut
    <3>3. RData(e) = Old
      BY <2>1, <3>1 DEF RData, ReadOut
    <3>4. ASSUME inst.op = "LR" PROVE amoRegWriteData(e) = RData(e)
      <4>1. ~isSC /\ state # "IDLE"
        BY <1>7, <3>4 DEF isSC
      <4> QED BY <1>7, <3>4, <4>1 DEF amoRegWriteData
    <3>5. regWdata(e) = Old
      BY <2>4, <3>1, <3>3, <3>4 DEF regWdata, fuTypeAMO, A!Amos
    <3>6. A!Result(inst, prior.mem, prior.resv) = Old
      BY <2>4 DEF A!Result, A!Loads, Old
    <3> QED BY <1>4, <1>5, <2>3, <3>2, <3>5, <3>6
  <2>5. CASE inst.op \in {"STORE", "SC"}
    <3>1. ~ren /\ WriteOut(inst.src) /\ ~A!ScFails(inst, prior.resv)
      BY <1>1, <2>1, <2>5, Kinds DEF WaitInv, A!ScFails
    <3>2. mem' = A!Memory(inst, prior.mem, prior.resv)
      BY <2>1, <2>5, <3>1 DEF A!Memory, A!Stores, WriteOut
    <3>3. inst.op = "SC" => amoRegWriteData(e) = 0
      BY <1>7 DEF amoRegWriteData, isSC
    <3>4. regWrite => inst.op = "SC"
      BY <2>5, <3>1 DEF regWrite
    <3>5. regWrite => regWdata(e) = A!Result(inst, prior.mem, prior.resv)
      BY <3>1, <3>3, <3>4 DEF regWdata, fuTypeAMO, A!Result, A!Loads, A!Amos
    <3> QED BY <1>4, <1>5, <2>3, <3>2, <3>5
  <2> QED BY <2>1, <2>4, <2>5 DEF WaitInv, A!Loads, A!Stores
<1>8. CASE state = "AMO_WAIT_WRITE_RESP"
  <2>1. AmoWriteInv /\ mem' = mem /\ bus.st = "answered"
    BY <1>1, <1>8, InWrite, BusStep DEF IInv, AmoWriteInv, WriteOut, WValid
  <2>2. inst.op \in {"AMOSWAP", "AMOADD"} /\ ~A!Traps(inst) /\ ~A!ScFails(inst, prior.resv)
    BY <2>1 DEF AmoWriteInv, AmoInv, access, A!Amos, A!Traps, A!ScFails
  <2>3. mem' = [prior.mem EXCEPT ![inst.addr] = New]
    BY <2>1 DEF AmoWriteInv, WriteOut
  <2>4. mem' = A!Memory(inst, prior.mem, prior.resv)
    BY <2>2, <2>3 DEF A!Memory, A!Stores, A!Amos, New, Old
  <2>5. reservation' = Reserved
    BY <1>8, <2>1, <2>2
    DEF Cycle, ReservationNext, isSC, Reserved, A!Reservation, AmoWriteInv, AmoInv
  <2>6. amoRegWriteData(e) = Old
    BY <1>8, <2>1, <2>2 DEF amoRegWriteData, isSC, AmoWriteInv
  <2>7. regWdata(e) = A!Result(inst, prior.mem, prior.resv)
    BY <2>2, <2>6 DEF regWdata, fuTypeAMO, A!Result, A!Loads, A!Amos, Old
  <2> QED BY <1>4, <1>5, <2>4, <2>5, <2>7
<1>9. state \in {"IDLE", "WAIT_RESP", "AMO_WAIT_WRITE_RESP"}
  BY <1>1 DEF TypeOK, State, Done
<1> QED BY <1>6, <1>7, <1>8, <1>9

\* A cycle that hands nothing to WB and takes nothing is not seen.
LEMMA Unseen ==
  ASSUME IInv, NEW e \in Env, Cycle(e), ~Done
  PROVE  Seen' = Seen
<1>1. TypeOK /\ ~hasFired /\ ~FromEXEFire(e)
  BY FiredDone DEF IInv, FromEXEFire
<1>2. inst' = inst /\ prior'.mem = prior.mem /\ prior'.resv = prior.resv /\ ~hasFired'
  BY <1>1, Held
<1>3. out' = out
  BY DEF Cycle, OutNext
<1> QED BY <1>1, <1>2, <1>3 DEF Seen, Cur, Mem, Resv

\* What is seen after the stage is done with an instruction.
LEMMA After ==
  ASSUME IInv, NEW e \in Env, Cycle(e), Done
  PROVE  /\ Mem' = mem' /\ Resv' = reservation'
         /\ Cur' \in IF flush2EXE THEN {Nop} ELSE Insts \cup {Nop}
<1>1. TypeOK
  BY DEF IInv
<1>2. CASE FromEXEFire(e)
  <2>1. hasFired' = FALSE /\ prior'.mem = mem' /\ prior'.resv = reservation'
    BY <1>2 DEF Cycle, HasFiredNext, PriorNext
  <2>2. inst' \in IF flush2EXE THEN {Nop} ELSE Insts \cup {Nop}
    BY <1>2 DEF Cycle, InstNext
  <2> QED BY <2>1, <2>2 DEF Cur, Mem, Resv
<1>3. CASE ~FromEXEFire(e)
  <2>1. hasFired'
    BY <1>1, <1>3, Held
  <2>2. Nop' = Nop
    BY DEF Nop, A!Nop
  <2> QED BY <2>1, <2>2 DEF Cur, Mem, Resv
<1> QED BY <1>2, <1>3

\* With no instruction left to execute the stage changes nothing.
LEMMA Rests ==
  ASSUME IInv, NEW e \in Env, Cycle(e), Done, nop
  PROVE  Cur = Nop /\ Mem' = Mem /\ Resv' = Resv /\ out' = out
<1>1. TypeOK
  BY DEF IInv
<1>2. Cur = Nop /\ out' = out
  BY DEF nop, Cur, Cycle, OutNext
<1>3. bus.st # "pending" => mem' = mem
  BY BusStep
<1>4. CASE hasFired
  <2>1. bus.st # "pending"
    BY <1>1, <1>4 DEF IInv, TypeOK, State, IdleInv, Quiet, WaitInv, AmoReadInv,
       AmoCalcInv, AmoLaunchInv, AmoWriteInv
  <2>2. CASE state = "IDLE"
    <3>1. reservation = Reserved
      BY <1>4, <2>2 DEF IInv, IdleInv
    <3>2. access /\ isSC => Reserved = 0
      BY DEF Reserved, A!Reservation, A!Traps, access, isSC
    <3> QED BY <1>2, <1>3, <1>4, <2>1, <2>2, <3>1, <3>2, After DEF Cycle, ReservationNext, Mem, Resv
  <2>3. CASE state = "WAIT_RESP"
    <3>1. reservation = Reserved /\ access
      BY <1>4, <2>3 DEF IInv, WaitInv
    <3>2. inst.op = "LR" => Reserved = inst.addr
      BY <3>1 DEF Reserved, A!Reservation, A!Traps, access
    <3> QED BY <1>2, <1>3, <1>4, <2>1, <2>3, <3>1, <3>2, After DEF Cycle, ReservationNext, Mem, Resv
  <2>4. CASE state \notin {"IDLE", "WAIT_RESP"}
    BY <1>2, <1>3, <1>4, <2>1, <2>4, After DEF Cycle, ReservationNext, Mem, Resv
  <2> QED BY <2>2, <2>3, <2>4
<1>5. CASE ~hasFired
  <2>1. inst = Nop
    BY <1>5 DEF nop
  <2>2. ~access
    BY <1>1, <2>1, InstFacts
  <2>3. state = "IDLE"
    BY <1>1, <2>2 DEF IInv, TypeOK, State, WaitInv, AmoReadInv, AmoCalcInv, AmoLaunchInv,
       AmoWriteInv, AmoInv
  <2>4. IdleInv /\ reservation' = reservation
    BY <2>2, <2>3 DEF IInv, Cycle, ReservationNext
  <2> QED BY <1>2, <1>3, <1>5, <2>4, After DEF IdleInv, Quiet, Mem, Resv
<1> QED BY <1>4, <1>5

\* Every cycle is a step of AtomicMemory or not seen.
LEMMA StepAtomic ==
  ASSUME AlignedSC, IInv, NEW e \in Env, Cycle(e)
  PROVE  A!Next \/ Seen' = Seen
<1>1. CASE ~Done
  BY <1>1, Unseen
<1>2. CASE Done /\ nop
  <2>1. Cur = Nop /\ Mem' = Mem /\ Resv' = Resv /\ out' = out /\ Cur' \in Insts \cup {Nop}
    BY <1>2, Rests, After
  <2>2. CASE Cur' = Nop
    BY <2>1, <2>2 DEF Seen
  <2>3. CASE Cur' \in Insts
    <3>1. A!Take
      BY <2>1, <2>3 DEF A!Take, Cur, Mem, Resv, Nop, A!Nop
    <3> QED BY <3>1 DEF A!Next
  <2> QED BY <2>1, <2>2, <2>3
<1>3. CASE Done /\ ~nop
  <2>1. ~hasFired /\ inst # Nop /\ Cur = inst /\ Mem = prior.mem /\ Resv = prior.resv
    BY <1>3 DEF nop, Cur, Mem, Resv
  <2>2. Mem' = A!Memory(Cur, Mem, Resv) /\ Resv' = A!Reservation(Cur, Resv)
    BY <1>3, <2>1, Effect, After DEF Reserved
  <2>3. out' = A!Outcome(Cur, Mem, Resv, 1 - out.turn)
    <3>1. flush2EXE = A!Traps(inst)
      BY <1>3, <2>1, Effect DEF flush2EXE, A!Traps
    <3>2. regWrite = A!WritesReg(inst)
      <4>1. inst.aligned \in BOOLEAN
        BY <2>1, InstFacts, Constants DEF IInv
      <4>2. regWrite \in BOOLEAN /\ A!WritesReg(inst) \in BOOLEAN
        BY <4>1 DEF regWrite, A!WritesReg
      <4> QED BY <1>3, <2>1, <4>2, Effect
    <3>3. (IF regWrite THEN regWdata(e) ELSE 0)
            = IF A!WritesReg(inst) THEN A!Result(inst, prior.mem, prior.resv) ELSE 0
      BY <1>3, <2>1, Effect
    <3>4. out' = [ trap |-> flush2EXE, regWrite |-> regWrite, turn |-> 1 - out.turn,
                   data |-> IF regWrite THEN regWdata(e) ELSE 0 ]
      BY <1>3 DEF Cycle, OutNext
    <3> QED BY <2>1, <3>1, <3>2, <3>3, <3>4 DEF A!Outcome
  <2>4. Cur' \in IF A!Traps(Cur) THEN {Nop} ELSE Insts \cup {Nop}
    BY <1>3, <2>1, Effect, After
  <2>5. A!Execute
    BY <2>1, <2>2, <2>3, <2>4 DEF A!Execute, Cur, Mem, Resv, Nop, A!Nop
  <2> QED BY <2>5 DEF A!Next
<1> QED BY <1>1, <1>2, <1>3

\* After reset AtomicMemory is in its initial state.
LEMMA InitAtomic == Init => A!Init
BY DEF Init, A!Init, Nop, A!Nop

\* The stage implements AtomicMemory: whatever the bus and EXE do, memory,
\* the reservation and the results are those of one indivisible instruction
\* after the other (MEM.scala:47-232), if no SC is misaligned.
THEOREM ImplementsAtomicMemory ==
  ASSUME AlignedSC
  PROVE  Spec => Atomic
<1>1. IInv /\ [Next]_vars => [A!Next]_Seen
  <2>1. ASSUME IInv, NEW e \in Env, Cycle(e) PROVE [A!Next]_Seen
    BY <2>1, StepAtomic
  <2>2. ASSUME UNCHANGED vars PROVE Seen' = Seen
    BY <2>2 DEF vars, Seen, Cur, Mem, Resv, Nop, A!Nop
  <2> QED BY <2>1, <2>2 DEF Next
<1>2. IInv /\ [Next]_vars =>
        [A!Next]_<<IF hasFired THEN [op |-> "NOP", addr |-> 0, src |-> 0, aligned |-> TRUE]
                   ELSE inst,
                   IF hasFired THEN mem ELSE prior.mem,
                   IF hasFired THEN reservation ELSE prior.resv, out>>
  BY <1>1 DEF Seen, Cur, Mem, Resv, Nop, A!Nop
<1> QED BY <1>2, InitInv, StepInv, InitAtomic, PTL DEF Spec, Atomic, A!Spec
=============================================================================
