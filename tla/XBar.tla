------------------------------- MODULE XBar -------------------------------
(***************************************************************************)
(* The crossbar, peripheral/XBar.scala: the arbiter's one AXI port fans    *)
(* out to the memory, CLINT and PLIC.  A request goes to the device its    *)
(* address selects and no record of it is kept ("use a FIFO" says a TODO); *)
(* the answers of the three are merged by priority and every device sees   *)
(* the arbiter's ready.  EXTENDS Arbiter: its registers and masters are    *)
(* there as they are, and its slave variables rd, aw, w, b become the      *)
(* record of what the port owes, which the devices must live up to.        *)
(***************************************************************************)
EXTENDS Arbiter, CLINT, PLIC

CONSTANTS ClintReg, PlicReg  \* the registers at addresses of the two ranges

ASSUME RangesAssumption == /\ DOMAIN ClintReg \cap DOMAIN PlicReg = {}
                           /\ Data \subseteq Nat

VARIABLES clint, plic,  \* the registers of the two devices
          mem,          \* the memory's burst, half-received write and answer
          asked         \* the address of the last read, which a pulse answers
allVars == <<vars, clint, plic, mem, asked>>

-----------------------------------------------------------------------------
(* Selection (read_sel_, write_sel_): by the address on the wire.           *)
Device(a) == CASE a \in DOMAIN ClintReg -> "clint"
               [] a \in DOMAIN PlicReg -> "plic"
               [] OTHER -> "mem"
\* The masters' address on AR, valid or not; without one it is of no device.
AddrDriven == GrantD \/ iReq # None
OnAR == IF AddrDriven THEN ArAddr ELSE 0
ReadsFrom(d) == AddrDriven /\ Device(ArAddr) = d
WritesTo(d) == DWrite /\ Device(dReq.addr) = d
ClintName(a) == IF a \in DOMAIN ClintReg THEN ClintReg[a] ELSE "none"
PlicName(a) == IF a \in DOMAIN PlicReg THEN PlicReg[a] ELSE "none"

\* The handshakes a device sees; ArFireUnselected forgets read_sel_.
ArFireUnselected(d, e) == ArFire(e)
ArFireOf(d, e) == ArFire(e) /\ ReadsFrom(d)
AwFireOf(d, e) == AwFire(e) /\ WritesTo(d)
WFireOf(d, e) == WFire(e) /\ WritesTo(d)
Instant(e) == AwFire(e) /\ WFire(e) /\ ~WritesTo("mem")

\* The read answers the devices hold for the port.
Pulse == [id |-> "dbus", word |-> asked, left |-> 1]
Answers == [mem |-> mem.rd, clint |-> Pulse, plic |-> Pulse]
Answering == (IF mem.rd.left > 0 THEN {"mem"} ELSE {})
             \cup (IF clint.rValid THEN {"clint"} ELSE {})
             \cup (IF plic.rValid THEN {"plic"} ELSE {})
\* The devices that hold a write answer, and those that hold a whole write.
Acknowledging == (IF mem.b THEN {"mem"} ELSE {})
                 \cup (IF clint.bValid THEN {"clint"} ELSE {})
                 \cup (IF plic.bValid THEN {"plic"} ELSE {})

\* The inputs of a cycle, as Env has them, with the wires the crossbar makes: a
\* device is always ready and its answer is there for one cycle; the memory
\* takes its time.  Inputs without effect in this cycle are fixed.
Ready(valid, toMem) == IF valid /\ ~toMem THEN {TRUE} ELSE Maybe(valid)
Answered(by) == IF by \ {"mem"} # {} THEN {TRUE} ELSE Maybe(by # {})
NoData == CHOOSE d \in Data : TRUE   \* what wdata shows for a load
Inputs ==
  [ arReady : Ready(AddrDriven, ReadsFrom("mem")), awReady : Ready(AwValid, WritesTo("mem")),
    wReady : Ready(WValid, WritesTo("mem")), rValid : Answered(Answering),
    takeWrite : Maybe(mem.aw # None /\ mem.w # None /\ ~mem.b),
    bValid : Answered(Acknowledging),
    dReady : Maybe(respQ["dbus"] # None \/ bRespQ \/ rd.left > 0 \/ b),
    iNext : IF iReq # None /\ reqBusy THEN {None} ELSE IReq \cup {None},
    dNext : IF dReq # None \/ credit = 0 THEN {None}
            ELSE {None} \cup {r \in DReq : r.op = "load" => r.data = NoData} ]
Effective(e) ==
  /\ e.iNext = None \/ iReq = None \/ IReqFire(e)
  /\ e.dNext = None \/ DBusIdle \/ DBusDone(e)
  /\ e.dReady => respQ["dbus"] # None \/ Beat("dbus", e) \/ bRespQ \/ e.bValid

-----------------------------------------------------------------------------
ClintNext(e) ==
  clint' = ClintEdge(clint, ArFireOf("clint", e), ClintName(OnAR),
                     AwFireOf("clint", e), WFireOf("clint", e),
                     IF DWrite THEN ClintName(dReq.addr) ELSE "none",
                     IF DWrite THEN dReq.data ELSE 0)
\* A source that is pending stays so, asserted again or not.
PlicNext(e) ==
  \E intr \in SUBSET (Sources \ plic.pending) :
    plic' = PlicEdge(plic, intr, ArFireOf("plic", e), PlicName(OnAR),
                     AwFireOf("plic", e), WFireOf("plic", e),
                     IF DWrite THEN PlicName(dReq.addr) ELSE "none",
                     IF DWrite THEN dReq.data ELSE 0)

\* The memory behind io.toMem: r.ready reaches it even while a device answers.
MemBeat(e) == mem.rd.left > 0 /\ e.rValid /\ RReady
MemNext(e) ==
  mem' = [rd |-> IF ArFireOf("mem", e) THEN [id |-> ArId, word |-> ArAddr, left |-> ArLen + 1]
                 ELSE IF MemBeat(e) THEN [mem.rd EXCEPT !.word = @ + 1, !.left = @ - 1]
                 ELSE mem.rd,
          aw |-> IF AwFireOf("mem", e) THEN dReq.addr ELSE IF e.takeWrite THEN None ELSE mem.aw,
          w |-> IF WFireOf("mem", e) THEN dReq.data ELSE IF e.takeWrite THEN None ELSE mem.w,
          b |-> IF e.takeWrite THEN TRUE
                ELSE IF BFire(e) /\ mem.b THEN FALSE ELSE mem.b]

\* What the port owes for writes: a device performs one as it takes it.
WriteOwed(e) ==
  IF Instant(e) THEN b' = TRUE /\ UNCHANGED <<aw, w>> ELSE SlaveWriteNext(e)

XBarInit == /\ Init /\ clint = ClintInit /\ plic = PlicInit /\ asked = 0
            /\ mem = [rd |-> rd, aw |-> None, w |-> None, b |-> FALSE]
XBarCycle(e) ==
  /\ Effective(e)
  /\ ArbiterNext(e) /\ SlaveReadNext(e) /\ WriteOwed(e)
  /\ ClintNext(e) /\ PlicNext(e) /\ MemNext(e)
  /\ asked' = IF ArFire(e) THEN ArAddr ELSE 0
XBarNext == \E e \in Inputs : XBarCycle(e)
XBarSpec == XBarInit /\ [][XBarNext]_allVars

-----------------------------------------------------------------------------
\* The merged answers are those the arbiter waits for, although nothing records
\* which device a request went to and CLINT and PLIC drop an answer after one
\* cycle: at most one device has a read answer for the port, and it is the next
\* word of the read in flight for the port that asked (io.out.r); a write in
\* flight is whole in exactly one device, and a write answer is of that write
\* (io.out.b).  No answer is lost: what is owed stays with a device.
AnswersInStep ==
  /\ rd.left > 0 => \E d \in DOMAIN Answers : Answering = {d} /\ Answers[d] = rd
  /\ rd.left = 0 => Answering = {}
  /\ b => Cardinality(Acknowledging) = 1
  /\ ~b => Acknowledging = {} /\ mem.aw = aw /\ mem.w = w

\* The timer interrupt: mtip is up without being due only in the cycle in which
\* the store that moved the deadline or the clock is answered (or the clock
\* wraps, which 64 bits never do): a handler that waits for its store's answer
\* sees one stale cycle at most.
TimerQuiet == clint.mtipOut => \/ clint.mtimecmp < clint.mtime
                               \/ clint.bValid
                               \/ clint.mtime = 0
=============================================================================
