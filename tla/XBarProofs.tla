----------------------------- MODULE XBarProofs -----------------------------
(***************************************************************************)
(* Proofs about the crossbar for every address map, line length, word size *)
(* and number of interrupt sources.  What ArbiterProofs says of a clock    *)
(* edge of the arbiter holds here too, since the answers the crossbar      *)
(* merges are those a slave of one burst and one write would give.         *)
(***************************************************************************)
EXTENDS XBar, ArbiterProofs, FiniteSetTheorems

\* The program is fetched from memory: a device has no word to burst.
FetchesFromMemory == IAddr \cap (DOMAIN ClintReg \cup DOMAIN PlicReg) = {}

Devices == {"mem", "clint", "plic"}

\* The read in flight is with one device, which has it as the port is owed it.
ReadSide ==
  /\ rd.left > 0 => \E d \in Devices : Answering = {d} /\ Answers[d] = rd
  /\ rd.left = 0 => Answering = {}

\* So is the write; one that is half received is with the memory.
WriteSide ==
  /\ b => \E d \in Devices : Acknowledging = {d}
  /\ ~b => Acknowledging = {}
  /\ mem.aw = aw /\ mem.w = w
  /\ writeState # "WriteIDLE" => WritesTo("mem")

\* The clock and the deadline are double words.
Double == 0 .. Half * Half - 1
TimerType == clint.mtime \in Double /\ clint.mtimecmp \in Double

XInv == IInv /\ ReadSide /\ WriteSide /\ TimerType

-----------------------------------------------------------------------------
\* Which devices answer.
LEMMA Who ==
  /\ Answering \subseteq Devices
  /\ "mem" \in Answering <=> mem.rd.left > 0
  /\ "clint" \in Answering <=> clint.rValid
  /\ "plic" \in Answering <=> plic.rValid
  /\ Acknowledging \subseteq Devices
  /\ "mem" \in Acknowledging <=> mem.b
  /\ "clint" \in Acknowledging <=> clint.bValid
  /\ "plic" \in Acknowledging <=> plic.bValid
BY DEF Answering, Acknowledging, Devices

LEMMA WhoNext ==
  /\ Answering' \subseteq Devices
  /\ "mem" \in Answering' <=> mem'.rd.left > 0
  /\ "clint" \in Answering' <=> clint'.rValid
  /\ "plic" \in Answering' <=> plic'.rValid
  /\ Acknowledging' \subseteq Devices
  /\ "mem" \in Acknowledging' <=> mem'.b
  /\ "clint" \in Acknowledging' <=> clint'.bValid
  /\ "plic" \in Acknowledging' <=> plic'.bValid
BY DEF Answering, Acknowledging, Devices

\* An address is of one device.
LEMMA OneDevice ==
  ASSUME NEW a
  PROVE  /\ Device(a) \in Devices
         /\ Device(a) = "clint" <=> a \in DOMAIN ClintReg
         /\ Device(a) = "plic" <=> a \in DOMAIN PlicReg
BY RangesAssumption DEF Device, Devices

\* A cycle of the crossbar is one of the arbiter's surroundings.
LEMMA InputsAreEnv ==
  ASSUME XInv, NEW e \in Inputs
  PROVE  e \in Env
<1> DEFINE INext == IF iReq # None /\ reqBusy THEN {None} ELSE IReq \cup {None}
           DNext == IF dReq # None \/ credit = 0 THEN {None} ELSE DReq \cup {None}
<1>1. /\ e = [arReady |-> e.arReady, awReady |-> e.awReady, wReady |-> e.wReady,
              rValid |-> e.rValid, takeWrite |-> e.takeWrite, bValid |-> e.bValid,
              dReady |-> e.dReady, iNext |-> e.iNext, dNext |-> e.dNext]
      /\ e.arReady \in Ready(AddrDriven, ReadsFrom("mem"))
      /\ e.awReady \in Ready(AwValid, WritesTo("mem"))
      /\ e.wReady \in Ready(WValid, WritesTo("mem"))
      /\ e.rValid \in Answered(Answering) /\ e.bValid \in Answered(Acknowledging)
      /\ e.takeWrite \in Maybe(mem.aw # None /\ mem.w # None /\ ~mem.b)
      /\ e.dReady \in Maybe(respQ["dbus"] # None \/ bRespQ \/ rd.left > 0 \/ b)
      /\ e.iNext \in INext
      /\ e.dNext \in IF dReq # None \/ credit = 0 THEN {None}
                     ELSE {None} \cup {r \in DReq : r.op = "load" => r.data = NoData}
  BY DEF Inputs
<1>2. e.arReady \in BOOLEAN /\ e.awReady \in Maybe(AwValid) /\ e.wReady \in Maybe(WValid)
  BY <1>1 DEF Ready, Maybe
<1>3. e.rValid \in Maybe(rd.left > 0)
  <2>1. rd.left > 0 \/ Answering = {}
    BY DEF XInv, ReadSide, IInv, TypeOK
  <2> QED BY <1>1, <2>1 DEF Answered, Maybe
<1>4. e.bValid \in Maybe(b)
  BY <1>1 DEF Answered, Maybe, XInv, WriteSide
<1>5. e.takeWrite \in Maybe(aw # None /\ w # None /\ ~b)
  <2>1. b => aw = None
    BY DEF XInv, IInv, WritesConserved
  <2>2. mem.aw # None /\ mem.w # None /\ ~mem.b => aw # None /\ w # None /\ ~b
    BY <2>1 DEF XInv, WriteSide
  <2> QED BY <1>1, <2>2 DEF Maybe
<1>6. e.dReady \in BOOLEAN /\ e.dNext \in DNext
  BY <1>1 DEF Maybe
<1> HIDE DEF INext, DNext
<1>7. e \in [ arReady : BOOLEAN, awReady : Maybe(AwValid), wReady : Maybe(WValid),
              rValid : Maybe(rd.left > 0), takeWrite : Maybe(aw # None /\ w # None /\ ~b),
              bValid : Maybe(b), dReady : BOOLEAN, iNext : INext, dNext : DNext ]
  BY <1>1, <1>2, <1>3, <1>4, <1>5, <1>6
<1> QED BY <1>7 DEF Env, INext, DNext

\* A device takes a request and shows its answer at once.
LEMMA AtOnce ==
  ASSUME XInv, NEW e \in Inputs
  PROVE  /\ ~WritesTo("mem") => (AwFire(e) <=> AwValid) /\ (WFire(e) <=> WValid)
         /\ rd.left > 0 /\ Answering # {"mem"} => e.rValid
         /\ b /\ Acknowledging # {"mem"} => e.bValid
<1>1. ~WritesTo("mem") => (AwFire(e) <=> AwValid) /\ (WFire(e) <=> WValid)
  BY DEF Inputs, Ready, AwFire, WFire
<1>2. rd.left > 0 /\ Answering # {"mem"} => e.rValid
  <2>1. rd.left > 0 => Answering # {}
    BY DEF XInv, ReadSide
  <2>2. e.rValid \in Answered(Answering)
    BY DEF Inputs
  <2> QED BY <2>1, <2>2 DEF Answered
<1>3. b /\ Acknowledging # {"mem"} => e.bValid
  <2>1. b => Acknowledging # {}
    BY DEF XInv, WriteSide
  <2>2. e.bValid \in Answered(Acknowledging)
    BY DEF Inputs
  <2> QED BY <2>1, <2>2 DEF Answered
<1> QED BY <1>1, <1>2, <1>3

\* What a clock edge does behind the port.
LEMMA Behind ==
  ASSUME XInv, NEW e \in Inputs, XBarCycle(e)
  PROVE  /\ clint'.rValid <=> ArFireOf("clint", e)
         /\ plic'.rValid <=> ArFireOf("plic", e)
         /\ clint'.bValid <=> AwFireOf("clint", e) /\ WFireOf("clint", e)
         /\ plic'.bValid <=> AwFireOf("plic", e) /\ WFireOf("plic", e)
         /\ mem'.rd = IF ArFireOf("mem", e)
                      THEN [id |-> ArId, word |-> ArAddr, left |-> ArLen + 1]
                      ELSE IF MemBeat(e)
                           THEN [mem.rd EXCEPT !.word = @ + 1, !.left = @ - 1] ELSE mem.rd
         /\ mem'.aw = IF AwFireOf("mem", e) THEN dReq.addr
                      ELSE IF e.takeWrite THEN None ELSE mem.aw
         /\ mem'.w = IF WFireOf("mem", e) THEN dReq.data
                     ELSE IF e.takeWrite THEN None ELSE mem.w
         /\ mem'.b = IF e.takeWrite THEN TRUE ELSE IF BFire(e) /\ mem.b THEN FALSE ELSE mem.b
         /\ asked' = IF ArFire(e) THEN ArAddr ELSE 0
<1>1. /\ clint'.rValid <=> ArFireOf("clint", e)
      /\ clint'.bValid <=> AwFireOf("clint", e) /\ WFireOf("clint", e)
  BY DEF XBarCycle, ClintNext, ClintEdge
<1>2. /\ plic'.rValid <=> ArFireOf("plic", e)
      /\ plic'.bValid <=> AwFireOf("plic", e) /\ WFireOf("plic", e)
  <2> DEFINE Addr == IF DWrite THEN PlicName(dReq.addr) ELSE "none"
             Word == IF DWrite THEN dReq.data ELSE 0
  <2>1. PICK intr \in SUBSET (Sources \ plic.pending) :
          plic' = PlicEdge(plic, intr, ArFireOf("plic", e), PlicName(OnAR),
                           AwFireOf("plic", e), WFireOf("plic", e), Addr, Word)
    BY DEF XBarCycle, PlicNext
  <2> HIDE DEF Addr, Word
  <2> QED BY <2>1 DEF PlicEdge
<1> QED BY <1>1, <1>2 DEF XBarCycle, MemNext

\* A read that is accepted goes to the device its address selects.
LEMMA Routed ==
  ASSUME FetchesFromMemory, XInv, NEW e \in Inputs, ArFire(e)
  PROVE  /\ \A d \in Devices : ArFireOf(d, e) <=> Device(ArAddr) = d
         /\ Device(ArAddr) # "mem" => ArId = "dbus" /\ ArLen = 0
         /\ rd.left = 0 /\ ArLen \in Nat
<1>1. rd.left = 0
  BY InputsAreEnv, ReadAccept DEF XInv
<1>2. ~GrantD => iReq \in IReq
  BY InputsAreEnv, ReadAccept DEF XInv, ArId, IReqFire, IInv, TypeOK
<1>3. AddrDriven
  BY <1>2, Constants DEF AddrDriven
<1>4. \A d \in Devices : ArFireOf(d, e) <=> Device(ArAddr) = d
  BY <1>3 DEF ArFireOf, ReadsFrom
<1>5. Device(ArAddr) # "mem" => GrantD
  <2> SUFFICES ASSUME ~GrantD PROVE Device(ArAddr) = "mem"
    OBVIOUS
  <2>1. ArAddr = iReq.addr /\ iReq.addr \in IAddr
    BY <1>2, Constants DEF ArAddr
  <2> QED BY <2>1, OneDevice DEF FetchesFromMemory, Devices
<1>6. ArLen \in Nat
  BY <1>2, Constants DEF ArLen
<1> QED BY <1>1, <1>4, <1>5, <1>6 DEF ArId, ArLen

\* The read in flight stays with its device, which answers for it alone.
LEMMA ReadSideStep ==
  ASSUME FetchesFromMemory, XInv, NEW e \in Inputs, XBarCycle(e)
  PROVE  ReadSide'
<1>1. e \in Env /\ IInv /\ ReadSide /\ rd \in [id : Port, word : Nat, left : Nat]
  BY InputsAreEnv DEF XInv, IInv, TypeOK
<1>2. rd' = IF ArFire(e) THEN [id |-> ArId, word |-> ArAddr, left |-> ArLen + 1]
            ELSE IF RFire(e) THEN [rd EXCEPT !.word = @ + 1, !.left = @ - 1]
            ELSE rd
  BY DEF XBarCycle, SlaveReadNext
<1>3. /\ Answers["mem"] = mem.rd /\ Answers["clint"] = Pulse /\ Answers["plic"] = Pulse
      /\ Answers'["mem"] = mem'.rd /\ Answers'["clint"] = Pulse' /\ Answers'["plic"] = Pulse'
  BY DEF Answers
<1>4. CASE ArFire(e)
  <2> DEFINE d == Device(ArAddr)
  <2>1. d \in Devices /\ rd.left = 0 /\ Answering = {} /\ rd'.left > 0
    BY <1>1, <1>2, <1>4, Routed, OneDevice DEF ReadSide
  <2>2. ~MemBeat(e) /\ ~(mem.rd.left > 0)
    BY <2>1, Who DEF MemBeat
  <2>3. /\ d = "mem" => mem'.rd = rd'
        /\ d # "mem" => mem'.rd = mem.rd
    BY <1>2, <1>4, <2>1, <2>2, Behind, Routed DEF Devices
  <2>4. Answering' = {d}
    <3>1. \A x \in Devices : ArFireOf(x, e) <=> d = x
      BY <1>4, Routed
    <3>2. /\ "clint" \in Answering' <=> d = "clint"
          /\ "plic" \in Answering' <=> d = "plic"
      BY <3>1, Behind, WhoNext DEF Devices
    <3>3. "mem" \in Answering' <=> d = "mem"
      BY <2>1, <2>2, <2>3, WhoNext
    <3> HIDE DEF d
    <3> QED BY <2>1, <3>2, <3>3, WhoNext DEF Devices
  <2>5. d # "mem" => rd' = Pulse'
    <3>1. rd' = [id |-> ArId, word |-> ArAddr, left |-> ArLen + 1] /\ asked' = ArAddr
      BY <1>2, <1>4, Behind
    <3>2. d # "mem" => ArId = "dbus" /\ ArLen + 1 = 1
      BY <1>4, Routed
    <3> QED BY <3>1, <3>2 DEF Pulse
  <2>6. Answers'[d] = rd'
    BY <1>3, <2>1, <2>3, <2>5 DEF Devices
  <2> QED BY <2>1, <2>4, <2>6 DEF ReadSide
<1>5. CASE ~ArFire(e)
  <2>1. \A d : ~ArFireOf(d, e)
    BY <1>5 DEF ArFireOf
  <2>2. ~clint'.rValid /\ ~plic'.rValid
    BY <2>1, Behind
  <2>3. mem'.rd = IF MemBeat(e) THEN [mem.rd EXCEPT !.word = @ + 1, !.left = @ - 1]
                  ELSE mem.rd
    BY <2>1, Behind
  <2>4. CASE rd.left = 0
    <3>1. Answering = {} /\ rd' = rd
      BY <1>1, <1>2, <1>5, <2>4, EnvFacts DEF ReadSide, RFire
    <3>2. mem'.rd = mem.rd /\ ~(mem.rd.left > 0)
      BY <2>3, <3>1, Who DEF MemBeat
    <3>3. Answering' = {}
      BY <2>2, <3>2, WhoNext DEF Devices
    <3> QED BY <2>4, <3>1, <3>3 DEF ReadSide
  <2>5. CASE rd.left > 0 /\ Answering = {"mem"}
    <3>1. mem.rd = rd /\ mem.rd.left > 0
      BY <1>1, <1>3, <2>5, Who DEF ReadSide
    <3>2. MemBeat(e) <=> RFire(e)
      BY <3>1 DEF MemBeat, RFire
    <3>3. mem'.rd = rd'
      BY <1>2, <1>5, <2>3, <3>1, <3>2
    <3>4. rd'.left \in Nat
      BY <1>1, RegTypes DEF XBarCycle
    <3>5. Answering' = IF rd'.left > 0 THEN {"mem"} ELSE {}
      BY <2>2, <3>3, WhoNext DEF Devices
    <3> QED BY <1>3, <3>3, <3>4, <3>5 DEF ReadSide, Devices
  <2>6. CASE rd.left > 0 /\ Answering # {"mem"}
    <3>1. PICK d \in Devices : Answering = {d} /\ Answers[d] = rd
      BY <1>1, <2>6 DEF ReadSide
    <3>2. rd = Pulse /\ ~(mem.rd.left > 0)
      BY <1>3, <2>6, <3>1, Who DEF Devices
    <3>3. rd.id = "dbus" /\ rd.left = 1
      BY <3>2 DEF Pulse
    <3>4. respQ["dbus"] = None
      BY <1>1, <3>3 DEF IInv, EnoughOwed, OneDataAccess, Queued, Coming, Port
    <3>5. RFire(e)
      BY <2>6, <3>3, <3>4, AtOnce DEF RFire, RReady
    <3>6. rd'.left = 0
      BY <1>1, <1>2, <1>5, <3>3, <3>5
    <3>7. mem'.rd = mem.rd
      BY <2>3, <3>2 DEF MemBeat
    <3>8. Answering' = {}
      BY <2>2, <3>2, <3>7, WhoNext DEF Devices
    <3> QED BY <3>6, <3>8 DEF ReadSide
  <2> QED BY <1>1, <2>4, <2>5, <2>6
<1> QED BY <1>4, <1>5

-----------------------------------------------------------------------------
\* A device takes AW and W of a store in one cycle, and no other is there.
LEMMA Whole ==
  ASSUME XInv, NEW e \in Inputs
  PROVE  /\ (AwFire(e) \/ WFire(e)) /\ ~WritesTo("mem") => Instant(e)
         /\ Instant(e) => /\ DWrite /\ writeState = "WriteIDLE" /\ DWriteFire(e)
                          /\ dReq \in DReq /\ wOwed = None /\ ~b /\ ~bRespQ
                          /\ aw = None /\ w = None /\ ~e.takeWrite /\ ~e.bValid
<1>1. e \in Env /\ IInv /\ WriteSide
  BY InputsAreEnv DEF XInv
<1>2. ASSUME AwFire(e) \/ WFire(e), ~WritesTo("mem") PROVE Instant(e)
  <2>1. writeState = "WriteIDLE" /\ DWrite
    BY <1>1, <1>2 DEF WriteSide, AwFire, WFire, AwValid, WValid
  <2> QED BY <1>2, <2>1, AtOnce DEF Instant, AwValid, WValid
<1>3. ASSUME Instant(e)
      PROVE  /\ DWrite /\ writeState = "WriteIDLE" /\ DWriteFire(e)
             /\ dReq \in DReq /\ wOwed = None /\ ~b /\ ~bRespQ
             /\ aw = None /\ w = None /\ ~e.takeWrite /\ ~e.bValid
  <2>1. DWrite /\ AwFire(e) /\ WFire(e)
    BY <1>3 DEF Instant, AwFire, AwValid
  <2>2. writeState = "WriteIDLE"
    BY <1>1, <2>1 DEF IInv, TypeOK, WriteState, AwFire, WFire, AwValid, WValid
  <2>3. dReq \in DReq /\ wOwed = None
    BY <1>1, <2>1 DEF DWrite, IInv, TypeOK, OneDataAccess
  <2>4. ~b /\ ~bRespQ /\ aw = None /\ w = None
    BY <1>1, <2>2, <2>3 DEF IInv, WritesConserved
  <2>5. ~e.takeWrite /\ ~e.bValid
    BY <1>1, <2>4, EnvFacts
  <2> QED BY <2>1, <2>2, <2>3, <2>4, <2>5 DEF DWriteFire, DbusWReady
<1> QED BY <1>2, <1>3

\* The arbiter's invariant survives a cycle of the crossbar.
LEMMA ArbiterStep ==
  ASSUME XInv, NEW e \in Inputs, XBarCycle(e)
  PROVE  IInv'
<1>1. e \in Env /\ IInv /\ ArbiterNext(e) /\ SlaveReadNext(e)
  BY InputsAreEnv DEF XInv, XBarCycle
<1>2. CASE ~Instant(e)
  <2>1. Cycle(e)
    BY <1>1, <1>2 DEF Cycle, XBarCycle, WriteOwed
  <2> QED BY <1>1, <2>1, IInvStep DEF Next
<1>3. CASE Instant(e)
  <2>1. /\ DWrite /\ writeState = "WriteIDLE" /\ DWriteFire(e) /\ dReq \in DReq
        /\ ~bRespQ /\ aw = None /\ w = None /\ ~e.bValid
    BY <1>3, Whole
  <2>2. b' = TRUE /\ aw' = None /\ w' = None
    BY <1>3, <2>1 DEF XBarCycle, WriteOwed
  <2>3. writeState' = "WriteIDLE" /\ wOwed' = dReq /\ ~bRespQ'
    BY <1>1, <2>1 DEF ArbiterNext, WriteStateNext, WOwedNext, BRespQNext
  <2>4. awReqBusy' = dReq.addr
    BY <1>1, <1>3 DEF ArbiterNext, AwReqBusyNext, Instant
  <2>5. wOwed' # None
    BY <2>1, <2>3, Constants
  <2>6. WritesConserved' /\ AwReqBusyExact'
    BY <2>2, <2>3, <2>4, <2>5 DEF WritesConserved, AwReqBusyExact
  <2>7. TypeOK'
    BY <1>1, <2>2, RegTypes DEF TypeOK
  <2> QED BY <1>1, <2>6, <2>7, ReadFlagsStep, EnoughOwedStep, OneDataAccessStep DEF IInv
<1> QED BY <1>2, <1>3

\* The write in flight stays with its device, which alone acknowledges it.
LEMMA WriteSideStep ==
  ASSUME XInv, NEW e \in Inputs, XBarCycle(e)
  PROVE  WriteSide'
<1>1. e \in Env /\ IInv /\ WriteSide /\ ArbiterNext(e)
  BY InputsAreEnv DEF XInv, XBarCycle
<1>2. CASE Instant(e)
  <2> DEFINE d == Device(dReq.addr)
  <2>1. /\ DWrite /\ writeState = "WriteIDLE" /\ DWriteFire(e) /\ ~b
        /\ aw = None /\ w = None /\ ~e.takeWrite
    BY <1>2, Whole
  <2>2. AwFire(e) /\ WFire(e) /\ ~WritesTo("mem") /\ d \in {"clint", "plic"}
    BY <1>2, <2>1, OneDevice DEF Instant, WritesTo, Devices
  <2>3. /\ clint'.bValid <=> d = "clint"
        /\ plic'.bValid <=> d = "plic"
    BY <2>1, <2>2, Behind DEF AwFireOf, WFireOf, WritesTo
  <2>4. mem'.aw = mem.aw /\ mem'.w = mem.w /\ ~mem'.b
    <3>1. ~mem.b
      BY <1>1, <2>1, Who DEF WriteSide
    <3> QED BY <2>1, <2>2, <3>1, Behind DEF AwFireOf, WFireOf
  <2>5. b' = TRUE /\ aw' = aw /\ w' = w
    BY <1>2 DEF XBarCycle, WriteOwed
  <2>6. Acknowledging' = {d}
    <3> HIDE DEF d
    <3> QED BY <2>2, <2>3, <2>4, WhoNext DEF Devices
  <2>7. writeState' = "WriteIDLE"
    BY <1>1, <2>1 DEF ArbiterNext, WriteStateNext
  <2>8. d \in Devices
    BY OneDevice
  <2> QED BY <1>1, <2>4, <2>5, <2>6, <2>7, <2>8 DEF WriteSide
<1>3. CASE ~Instant(e)
  <2>1. /\ aw' = IF AwFire(e) THEN dReq.addr ELSE IF e.takeWrite THEN None ELSE aw
        /\ w' = IF WFire(e) THEN dReq.data ELSE IF e.takeWrite THEN None ELSE w
        /\ b' = IF e.takeWrite THEN TRUE ELSE IF BFire(e) THEN FALSE ELSE b
    BY <1>3 DEF XBarCycle, WriteOwed, SlaveWriteNext
  <2>2. /\ AwFireOf("mem", e) <=> AwFire(e)
        /\ WFireOf("mem", e) <=> WFire(e)
    BY <1>3, Whole DEF AwFireOf, WFireOf
  <2>3. ~clint'.bValid /\ ~plic'.bValid
    <3>1. AwFire(e) => WritesTo("mem")
      BY <1>3, Whole
    <3> QED BY <3>1, Behind DEF AwFireOf, WritesTo
  <2>4. mem'.aw = aw' /\ mem'.w = w'
    BY <1>1, <2>1, <2>2, Behind DEF WriteSide
  <2>5. Acknowledging' = IF b' THEN {"mem"} ELSE {}
    <3>1. CASE e.takeWrite
      <4>1. b' /\ mem'.b
        BY <2>1, <3>1, Behind
      <4> QED BY <2>3, <4>1, WhoNext DEF Devices
    <3>2. CASE ~e.takeWrite /\ ~b
      <4>1. ~b' /\ ~mem.b
        BY <1>1, <2>1, <3>2, Who DEF WriteSide
      <4>2. ~mem'.b
        BY <3>2, <4>1, Behind
      <4> QED BY <2>3, <4>1, <4>2, WhoNext DEF Devices
    <3>3. CASE ~e.takeWrite /\ b /\ Acknowledging = {"mem"}
      <4>1. mem.b /\ b' = (~BFire(e))
        BY <2>1, <3>3, Who
      <4>2. mem'.b <=> b'
        BY <3>3, <4>1, Behind
      <4> QED BY <2>3, <4>2, WhoNext DEF Devices
    <3>4. CASE ~e.takeWrite /\ b /\ Acknowledging # {"mem"}
      <4>1. BFire(e)
        BY <1>1, <3>4, AtOnce DEF BFire, IInv, WritesConserved
      <4>2. ~mem.b
        BY <1>1, <3>4, Who DEF WriteSide
      <4>3. ~b' /\ ~mem'.b
        BY <2>1, <3>4, <4>1, <4>2, Behind
      <4> QED BY <2>3, <4>3, WhoNext DEF Devices
    <3> QED BY <3>1, <3>2, <3>3, <3>4
  <2>6. writeState' # "WriteIDLE" => WritesTo("mem")'
    <3>1. ASSUME writeState' # "WriteIDLE" PROVE WritesTo("mem") /\ ~DWriteFire(e)
      BY <1>1, <1>3, <3>1, Whole DEF ArbiterNext, WriteStateNext, WriteSide
    <3>2. WritesTo("mem") /\ ~DWriteFire(e) => dReq' = dReq
      BY <1>1 DEF ArbiterNext, DBusNext, WritesTo, DWrite, DReadFire, DRead
    <3> QED BY <3>1, <3>2 DEF WritesTo, DWrite
  <2> QED BY <2>4, <2>5, <2>6 DEF WriteSide, Devices
<1> QED BY <1>2, <1>3

-----------------------------------------------------------------------------
\* The halves of a double word, and a double word of two halves.
LEMMA HalvesOf ==
  ASSUME NEW x \in Double, NEW d \in 0 .. Half - 1
  PROVE  /\ High(x) * Half + d \in Double
         /\ d * Half + Low(x) \in Double
<1>1. Half \in Nat \ {0} /\ x \in Nat /\ x < Half * Half
  BY HalfAssumption DEF Double
<1>2. ASSUME NEW q \in 0 .. Half - 1, NEW r \in 0 .. Half - 1
      PROVE  q * Half + r \in Double
  <2>1. q * Half \in Nat /\ q * Half + Half <= Half * Half
    <3>1. Half - 1 - q \in Nat
      BY <1>1, <1>2
    <3>2. (Half - 1 - q) * Half >= 0
      BY <1>1, <3>1
    <3>3. (Half - 1 - q) * Half = Half * Half - Half - q * Half
      BY <1>1, <1>2
    <3> QED BY <1>1, <1>2, <3>2, <3>3
  <2> QED BY <1>1, <1>2, <2>1 DEF Double
<1>3. Low(x) \in 0 .. Half - 1
  BY <1>1 DEF Low
<1>4. High(x) \in 0 .. Half - 1
  <2>1. High(x) \in Nat /\ High(x) * Half <= x
    BY <1>1 DEF High
  <2>2. ASSUME High(x) >= Half PROVE FALSE
    <3>1. (High(x) - Half) * Half >= 0
      BY <1>1, <2>1, <2>2
    <3>2. (High(x) - Half) * Half = High(x) * Half - Half * Half
      BY <1>1, <2>1
    <3> QED BY <1>1, <2>1, <3>1, <3>2
  <2> QED BY <1>1, <2>1, <2>2
<1> QED BY <1>2, <1>3, <1>4

\* The clock and the deadline after a clock edge.
LEMMA TimerStep ==
  ASSUME XInv, NEW e \in Inputs, XBarCycle(e)
  PROVE  TimerType' /\ TimerQuiet'
<1> DEFINE raddr == ClintName(OnAR)
           waddr == IF DWrite THEN ClintName(dReq.addr) ELSE "none"
           wdata == IF DWrite THEN dReq.data ELSE 0
           writes == AwFireOf("clint", e) /\ WFireOf("clint", e)
           reg == IF writes THEN waddr ELSE "none"
           d == wdata % Half
           tick == (clint.mtime + 1) % (Half * Half)
<1>1. /\ clint'.mtimecmp = Halves("mtimecmp", "mtimecmph", clint.mtimecmp,
                                  clint.mtimecmp, reg, d)
      /\ clint'.mtime = Halves("mtime", "mtimeh", tick, clint.mtime, reg, d)
      /\ clint'.bValid = writes
      /\ clint'.mtipOut = (clint.mtimecmp < clint.mtime)
  BY DEF XBarCycle, ClintNext, ClintEdge, Mtip
<1>2. wdata \in Nat
  BY RangesAssumption, Constants DEF XInv, IInv, TypeOK, DWrite
<1> HIDE DEF wdata, reg, writes, raddr, waddr
<1>3. clint.mtime \in Double /\ clint.mtimecmp \in Double /\ Half \in Nat \ {0}
  BY HalfAssumption DEF XInv, TimerType
<1>4. d \in 0 .. Half - 1
  BY <1>2, <1>3
<1>5. Half * Half \in Nat \ {0}
  BY <1>3
<1>6. tick \in Double /\ (tick = clint.mtime + 1 \/ tick = 0)
  <2> DEFINE H == Half * Half
  <2>1. H \in Nat \ {0} /\ clint.mtime \in 0 .. H - 1
    BY <1>3, <1>5 DEF Double
  <2> HIDE DEF H
  <2>2. clint.mtime + 1 < H => (clint.mtime + 1) % H = clint.mtime + 1
    BY <2>1
  <2>3. clint.mtime + 1 = H => (clint.mtime + 1) % H = 0
    BY <2>1
  <2>4. clint.mtime + 1 < H \/ clint.mtime + 1 = H
    BY <2>1
  <2>5. (clint.mtime + 1) % H \in 0 .. H - 1
    BY <2>1, <2>2, <2>3, <2>4
  <2> QED BY <2>2, <2>3, <2>4, <2>5 DEF H, Double
<1> HIDE DEF d, tick
<1>7. TimerType'
  BY <1>1, <1>3, <1>4, <1>6, HalvesOf DEF TimerType, Halves
<1>8. TimerQuiet'
  <2> SUFFICES ASSUME clint.mtimecmp < clint.mtime, ~writes, clint'.mtime # 0
               PROVE  clint'.mtimecmp < clint'.mtime
    BY <1>1 DEF TimerQuiet
  <2>1. clint'.mtimecmp = clint.mtimecmp /\ clint'.mtime = tick
    BY <1>1 DEF Halves, reg
  <2> QED BY <1>3, <1>6, <2>1 DEF Double
<1> QED BY <1>7, <1>8

-----------------------------------------------------------------------------
\* After reset nothing is under way.
LEMMA XBarInitInv == XBarInit => XInv /\ TimerQuiet
<1> SUFFICES ASSUME XBarInit PROVE XInv /\ TimerQuiet
  OBVIOUS
<1>1. IInv
  BY InitInv DEF XBarInit
<1>2. /\ rd.left = 0 /\ ~b /\ aw = None /\ w = None /\ writeState = "WriteIDLE"
      /\ mem.rd = rd /\ mem.aw = None /\ mem.w = None /\ ~mem.b
  BY DEF XBarInit, Init
<1>3. /\ ~clint.rValid /\ ~clint.bValid /\ ~clint.mtipOut
      /\ clint.mtime = 0 /\ clint.mtimecmp = Half * Half - 1
      /\ ~plic.rValid /\ ~plic.bValid
  BY DEF XBarInit, ClintInit, PlicInit
<1>4. Answering = {} /\ Acknowledging = {}
  BY <1>2, <1>3, Who DEF Devices
<1>5. ReadSide /\ WriteSide
  BY <1>2, <1>4 DEF ReadSide, WriteSide
<1>6. TimerType
  <2>1. Half * Half \in Nat \ {0}
    BY HalfAssumption
  <2> QED BY <1>3, <2>1 DEF TimerType, Double
<1> QED BY <1>1, <1>3, <1>5, <1>6 DEF XInv, TimerQuiet

LEMMA XBarStep ==
  ASSUME FetchesFromMemory
  PROVE  XInv /\ TimerQuiet /\ [XBarNext]_allVars => XInv' /\ TimerQuiet'
<1> SUFFICES ASSUME XInv, TimerQuiet, [XBarNext]_allVars
             PROVE  XInv' /\ TimerQuiet'
  OBVIOUS
<1>1. ASSUME NEW e \in Inputs, XBarCycle(e) PROVE XInv' /\ TimerQuiet'
  BY <1>1, ArbiterStep, ReadSideStep, WriteSideStep, TimerStep DEF XInv
<1>2. CASE UNCHANGED allVars
  <2>1. IInv'
    <3>1. UNCHANGED vars
      BY <1>2 DEF allVars
    <3> QED BY <3>1, IInvStep DEF XInv
  <2>2. ReadSide' /\ WriteSide'
    BY <1>2 DEF allVars, vars, regs, masters, slave, XInv, ReadSide, WriteSide, Answering,
       Acknowledging, Answers, Pulse, WritesTo, DWrite
  <2>3. TimerType' /\ TimerQuiet'
    BY <1>2 DEF allVars, XInv, TimerType, TimerQuiet
  <2> QED BY <2>1, <2>2, <2>3 DEF XInv
<1> QED BY <1>1, <1>2 DEF XBarNext

LEMMA XBarInvariance ==
  ASSUME FetchesFromMemory
  PROVE  XBarSpec => [](XInv /\ TimerQuiet)
BY XBarInitInv, XBarStep, PTL DEF XBarSpec

\* Answers reach the request they are for although the crossbar records
\* nothing (XBar.scala:54): for every address map from which no line is fetched
\* out of a device, at most one device answers the port, with the next word of
\* the read in flight, and a write is whole in the one that acknowledges it.
THEOREM NoAnswerStray ==
  ASSUME FetchesFromMemory
  PROVE  XBarSpec => []AnswersInStep
<1>1. XInv => AnswersInStep
  <2> SUFFICES ASSUME XInv PROVE AnswersInStep
    OBVIOUS
  <2>1. b => Cardinality(Acknowledging) = 1
    BY FS_Singleton DEF XInv, WriteSide
  <2>2. DOMAIN Answers = Devices
    BY DEF Answers, Devices
  <2> QED BY <2>1, <2>2 DEF XInv, ReadSide, WriteSide, AnswersInStep
<1> QED BY <1>1, XBarInvariance, PTL

\* The timer interrupt is quiet unless due, but for the cycle in which the
\* store that put it off is answered (CLINT.scala:34-89): for every width of a
\* word and whatever the bus does.
THEOREM TimerStaysQuiet ==
  ASSUME FetchesFromMemory
  PROVE  XBarSpec => []TimerQuiet
BY XBarInvariance, PTL

\* The arbiter's registers and masters keep their shape, its stores their
\* pairing, with the real devices behind it.
THEOREM ArbiterUndisturbed ==
  ASSUME FetchesFromMemory
  PROVE  XBarSpec => [](TypeOK /\ WritesConserved)
<1>1. XInv => TypeOK /\ WritesConserved
  BY DEF XInv, IInv
<1> QED BY <1>1, XBarInvariance, PTL
=============================================================================
