------------------------------ MODULE Arbiter ------------------------------
(***************************************************************************)
(* The bus arbiter (peripheral/Arbiter.scala): it merges the instruction   *)
(* port (ibus, driven by the ICache) and the data port (dbus, driven by    *)
(* the MEM stage) onto the five channels of one AXI4 master port.          *)
(*                                                                         *)
(* One Cycle step is one rising clock edge.  The wires of the Chisel       *)
(* module are operators over the registers and over the record e of what   *)
(* the environment does in that cycle; each register has one next-state    *)
(* conjunct.  Addresses are compared as they stand on the wires, so that a *)
(* sub-word store's is not its word's (README, 4); the beats of a burst    *)
(* count words.  0 is the reset value 0.U, which the code uses as "no      *)
(* write in flight".                                                       *)
(*                                                                         *)
(* GrantDUnlocked, ArValidUnordered, DbusWReadyEither, DbusWReadyAwFirst,  *)
(* IReqFireUnlocked and ReqBusyNextIbus are the definitions after them     *)
(* with a bug planted (README, "Planted bugs").                            *)
(***************************************************************************)
EXTENDS Integers

CONSTANTS
  IAddr,       \* addresses the ICache asks for (the first word of a line)
  DAddr,       \* addresses loads and stores use
  Data,        \* store data, as far as it has to be told apart
  BlockWords,  \* words of a cache line: beats of a burst
  Depth,       \* data requests the pipeline can still make while IF waits
  None         \* an empty slot

IReq == [addr : IAddr, len : {0, BlockWords - 1}]
DReq == [op : {"load", "store"}, addr : DAddr, data : Data]

ASSUME ArbiterAssumption ==
  /\ IAddr \subseteq Nat \ {0}
  /\ DAddr \subseteq Nat \ {0}
  /\ BlockWords \in Nat \ {0}
  /\ Depth \in Nat
  /\ None \notin Nat
  /\ None \notin Data
  /\ None \notin IReq \cup DReq

Port == {"ibus", "dbus"}
WriteState == {"WriteIDLE", "WaitWChannel", "WaitAWChannel"}

VARIABLES
  awReqBusy,   \* address of the write in flight, 0 when there is none
  reqBusy,     \* a read burst is in flight
  respQ,       \* the two 1-entry R queues: None or the word they hold
  bRespQ,      \* the 1-entry B queue holds a response
  reqLock,     \* ar.valid is up and was not taken yet
  selDBus,     \* the locked request is the data port's
  writeState,  \* which of AW and W of the current store is still to go
  iReq, dReq,  \* the requests the two masters present
  owed,        \* what each master was promised: next word, words left
  wOwed,       \* the store whose wResp the MEM stage waits for
  credit,      \* data requests left before the pipeline runs dry
  rd,          \* the slave's read burst: port, next word, words left
  aw, w, b     \* the slave's half-received write, and its answer

regs == <<awReqBusy, reqBusy, respQ, bRespQ, reqLock, selDBus, writeState>>
masters == <<iReq, dReq, owed, wOwed, credit>>
slave == <<rd, aw, w, b>>
vars == <<regs, masters, slave>>

Burst == [word : Nat, left : Nat]

-----------------------------------------------------------------------------
(* The wires that depend on registers and presented requests only.         *)

DRead == dReq # None /\ dReq.op = "load"
DWrite == dReq # None /\ dReq.op = "store"

\* Which port drives the AR channel in this cycle.
GrantDUnlocked == DRead
GrantD == IF reqLock THEN selDBus ELSE DRead

ArId == IF GrantD THEN "dbus" ELSE "ibus"
ArAddr == IF GrantD THEN dReq.addr ELSE iReq.addr
ArLen == IF GrantD THEN 0 ELSE iReq.len

\* A read of the very address of the write in flight has to wait.
ArValidUnordered == ~reqBusy /\ (DRead \/ iReq # None)
ArValid == ~reqBusy /\ (DRead \/ iReq # None) /\ ArAddr # awReqBusy

WValid == DWrite /\ writeState # "WaitAWChannel"
AwValid == DWrite /\ writeState # "WaitWChannel"

-----------------------------------------------------------------------------
(* The environment of one cycle: the slave's ready and valid inputs, the   *)
(* MEM stage's readiness (its fromEXE.valid), and the requests the masters *)
(* present next.  The ICache drives resp.ready with resp.valid, so it is   *)
(* always ready.  An input that has no effect without its partner signal   *)
(* is fixed to FALSE.                                                      *)

Maybe(c) == IF c THEN BOOLEAN ELSE {FALSE}

Env == [ arReady : BOOLEAN, awReady : Maybe(AwValid), wReady : Maybe(WValid),
         rValid : Maybe(rd.left > 0), takeWrite : Maybe(aw # None /\ w # None /\ ~b),
         bValid : Maybe(b), dReady : BOOLEAN,
         iNext : IF iReq # None /\ reqBusy THEN {None} ELSE IReq \cup {None},
         dNext : IF dReq # None \/ credit = 0 THEN {None}
                 ELSE DReq \cup {None} ]

ArFire(e) == ArValid /\ e.arReady
AwFire(e) == AwValid /\ e.awReady
WFire(e) == WValid /\ e.wReady

RReady == respQ[rd.id] = None
RFire(e) == e.rValid /\ RReady
RLast == rd.left = 1
BFire(e) == e.bValid /\ ~bRespQ

\* dbusWReady: both halves of the store are out after this cycle.
DbusWReadyEither(e) == AwFire(e) \/ WFire(e)
DbusWReadyAwFirst(e) ==
  /\ writeState = "WaitWChannel" \/ (writeState = "WriteIDLE" /\ AwFire(e))
  /\ WFire(e)
DbusWReady(e) ==
  \/ writeState = "WriteIDLE" /\ AwFire(e) /\ WFire(e)
  \/ writeState = "WaitWChannel" /\ WFire(e)
  \/ writeState = "WaitAWChannel" /\ AwFire(e)

IReqFireUnlocked(e) == iReq # None /\ e.arReady /\ ~reqBusy /\ ~DRead
IReqFire(e) ==
  /\ iReq # None
  /\ e.arReady
  /\ ~reqBusy
  /\ IF reqLock THEN ~selDBus ELSE ~DRead

DReadFire(e) ==
  /\ DRead
  /\ e.arReady
  /\ ~reqBusy
  /\ IF reqLock THEN selDBus ELSE ArAddr # awReqBusy

DWriteFire(e) == DWrite /\ DbusWReady(e)

\* A port's response: the queued word, or the beat that flows through.
Beat(p, e) == e.rValid /\ rd.id = p
RespFire(p, e) ==
  /\ respQ[p] # None \/ Beat(p, e)
  /\ p = "ibus" \/ e.dReady
WRespFire(e) == (bRespQ \/ e.bValid) /\ e.dReady

-----------------------------------------------------------------------------
(* The registers of the arbiter.                                           *)

AwReqBusyNext(e) ==
  awReqBusy' = IF AwFire(e) THEN dReq.addr
               ELSE IF e.bValid THEN 0 ELSE awReqBusy

ReqBusyNextIbus(e) ==
  reqBusy' = (ArFire(e) \/ (reqBusy /\ ~(RFire(e) /\ RLast /\ rd.id = "ibus")))
ReqBusyNext(e) ==
  reqBusy' = IF ArFire(e) THEN TRUE
             ELSE IF RFire(e) /\ RLast THEN FALSE ELSE reqBusy

\* Queue.irrevocable(_, 1, flow = true): an entry is stored only when the
\* reader does not take it in the same cycle.
RespQNext(e) ==
  respQ' = [p \in Port |->
              IF respQ[p] = None
              THEN IF Beat(p, e) /\ ~RespFire(p, e) THEN rd.word ELSE None
              ELSE IF RespFire(p, e) THEN None ELSE respQ[p]]

BRespQNext(e) == bRespQ' = ((bRespQ \/ e.bValid) /\ ~e.dReady)

LockNext(e) ==
  IF ArValid /\ ~e.arReady
  THEN reqLock' = TRUE /\ selDBus' = (IF reqLock THEN selDBus ELSE DRead)
  ELSE reqLock' = (reqLock /\ ~e.arReady) /\ UNCHANGED selDBus

WriteStateNext(e) ==
  writeState' = IF DWriteFire(e) THEN "WriteIDLE"
                ELSE IF writeState # "WriteIDLE" THEN writeState
                ELSE IF AwFire(e) THEN "WaitWChannel"
                ELSE IF WFire(e) THEN "WaitAWChannel" ELSE "WriteIDLE"

-----------------------------------------------------------------------------
(* The masters.  The ICache may present its next line as soon as the last  *)
(* one was accepted; the MEM stage makes one access at a time, and while   *)
(* IF waits for a line at most Depth more are left in the pipeline.        *)

IBusNext(e) ==
  iReq' = IF iReq # None /\ ~IReqFire(e) THEN iReq ELSE e.iNext

DBusIdle == dReq = None /\ owed["dbus"].left = 0 /\ wOwed = None
DBusDone(e) ==
  IF wOwed # None THEN WRespFire(e) ELSE owed["dbus"].left = 1 /\ RespFire("dbus", e)

DBusNext(e) ==
  dReq' = IF dReq # None /\ ~DReadFire(e) /\ ~DWriteFire(e) THEN dReq
          ELSE IF (DBusIdle \/ DBusDone(e)) /\ credit > 0 THEN e.dNext
          ELSE None

\* A word handed over is one word less to come.
Deliver(o) == [word |-> o.word + 1, left |-> o.left - 1]

OwedNext(e) ==
  owed' = [p \in Port |->
             IF p = "ibus" /\ IReqFire(e)
             THEN [word |-> iReq.addr, left |-> iReq.len + 1]
             ELSE IF p = "dbus" /\ DReadFire(e)
             THEN [word |-> dReq.addr, left |-> 1]
             ELSE IF RespFire(p, e) THEN Deliver(owed[p]) ELSE owed[p]]

WOwedNext(e) ==
  wOwed' = IF DWriteFire(e) THEN dReq
           ELSE IF WRespFire(e) THEN None ELSE wOwed

CreditNext(e) ==
  credit' = IF iReq = None /\ owed["ibus"].left = 0 THEN Depth
            ELSE IF dReq' # None /\ dReq = None THEN credit - 1 ELSE credit

-----------------------------------------------------------------------------
(* The AXI slave (the interconnect and the memories behind it): it holds   *)
(* one burst and one write, as XBar.scala does, and answers after any      *)
(* delay.  Accepting a second one overwrites the first.                    *)

SlaveReadNext(e) ==
  rd' = IF ArFire(e) THEN [id |-> ArId, word |-> ArAddr, left |-> ArLen + 1]
        ELSE IF RFire(e) THEN [rd EXCEPT !.word = @ + 1, !.left = @ - 1]
        ELSE rd

SlaveWriteNext(e) ==
  /\ aw' = IF AwFire(e) THEN dReq.addr ELSE IF e.takeWrite THEN None ELSE aw
  /\ w' = IF WFire(e) THEN dReq.data ELSE IF e.takeWrite THEN None ELSE w
  /\ b' = IF e.takeWrite THEN TRUE ELSE IF BFire(e) THEN FALSE ELSE b

-----------------------------------------------------------------------------
Init ==
  /\ awReqBusy = 0
  /\ reqBusy = FALSE
  /\ respQ = [p \in Port |-> None]
  /\ bRespQ = FALSE
  /\ reqLock = FALSE
  /\ selDBus = FALSE
  /\ writeState = "WriteIDLE"
  /\ iReq = None
  /\ dReq = None
  /\ owed = [p \in Port |-> [word |-> 0, left |-> 0]]
  /\ wOwed = None
  /\ credit = Depth
  /\ rd = [id |-> "ibus", word |-> 0, left |-> 0]
  /\ aw = None
  /\ w = None
  /\ b = FALSE

\* What the clock edge does to the arbiter and its masters.
ArbiterNext(e) ==
  /\ AwReqBusyNext(e)
  /\ ReqBusyNext(e)
  /\ RespQNext(e)
  /\ BRespQNext(e)
  /\ LockNext(e)
  /\ WriteStateNext(e)
  /\ IBusNext(e)
  /\ DBusNext(e)
  /\ OwedNext(e)
  /\ WOwedNext(e)
  /\ CreditNext(e)

Cycle(e) == ArbiterNext(e) /\ SlaveReadNext(e) /\ SlaveWriteNext(e)

Next == \E e \in Env : Cycle(e)

(***************************************************************************)
(* Fairness of the surroundings: a channel that stays requested is taken,  *)
(* the slave performs and answers what it accepted, and the MEM stage      *)
(* eventually takes an answer (the EXE stage behind it becomes valid).     *)
(***************************************************************************)
Fairness ==
  /\ WF_vars(\E e \in Env : ArFire(e) /\ Cycle(e))
  /\ WF_vars(\E e \in Env : AwFire(e) /\ Cycle(e))
  /\ WF_vars(\E e \in Env : WFire(e) /\ Cycle(e))
  /\ WF_vars(\E e \in Env : e.rValid /\ Cycle(e))
  /\ WF_vars(\E e \in Env : e.takeWrite /\ Cycle(e))
  /\ WF_vars(\E e \in Env : e.bValid /\ Cycle(e))
  /\ WF_vars(\E e \in Env : RespFire("dbus", e) /\ Cycle(e))
  /\ WF_vars(\E e \in Env : WRespFire(e) /\ Cycle(e))

Spec == Init /\ [][Next]_vars
FairSpec == Spec /\ Fairness

-----------------------------------------------------------------------------
(* Properties.                                                             *)

\* Every register, request and slave slot has its declared shape.
TypeOK ==
  /\ awReqBusy \in DAddr \cup {0}
  /\ reqBusy \in BOOLEAN
  /\ respQ \in [Port -> Nat \cup {None}]
  /\ bRespQ \in BOOLEAN
  /\ reqLock \in BOOLEAN
  /\ selDBus \in BOOLEAN
  /\ writeState \in WriteState
  /\ iReq \in IReq \cup {None}
  /\ dReq \in DReq \cup {None}
  /\ owed \in [Port -> Burst]
  /\ wOwed \in DReq \cup {None}
  /\ credit \in 0..Depth
  /\ rd \in [id : Port, word : Nat, left : Nat]
  /\ aw \in DAddr \cup {None}
  /\ w \in Data \cup {None}
  /\ b \in BOOLEAN

Queued(p) == IF respQ[p] = None THEN 0 ELSE 1
Coming(p) == IF rd.id = p THEN rd.left ELSE 0

(***************************************************************************)
(* The words a master was promised are exactly the one in its queue and    *)
(* those still to come from the slave, in order: no fetch or load is lost, *)
(* answered twice, or answered to the other port, however the two ports    *)
(* and the slave interleave.                                               *)
(***************************************************************************)
ReadsConserved ==
  \A p \in Port :
    /\ owed[p].left = Queued(p) + Coming(p)
    /\ respQ[p] # None => respQ[p] = owed[p].word
    /\ Coming(p) > 0 => rd.word = owed[p].word + Queued(p)

(***************************************************************************)
(* The address and the data the slave holds are those of one and the same  *)
(* store, and a store the MEM stage waits for is in exactly one place:     *)
(* half or wholly at the slave, in the B channel, or in the B queue.       *)
(***************************************************************************)
WritesConserved ==
  /\ aw # None => IF wOwed = None
                  THEN DWrite /\ aw = dReq.addr /\ writeState = "WaitWChannel"
                  ELSE w # None /\ aw = wOwed.addr
  /\ w # None => IF wOwed = None
                 THEN DWrite /\ w = dReq.data /\ writeState = "WaitAWChannel"
                 ELSE aw # None /\ w = wOwed.data
  /\ wOwed # None <=> (aw # None /\ w # None) \/ b \/ bRespQ
  /\ ~(b /\ bRespQ)
  /\ b \/ bRespQ => aw = None /\ w = None
  /\ writeState = "WaitWChannel" => aw # None /\ w = None
  /\ writeState = "WaitAWChannel" => w # None /\ aw = None

(***************************************************************************)
(* A read is not sent to an address whose write the slave has accepted and *)
(* not answered (what awReqBusy is for).  Two places in one word are two   *)
(* addresses, here as in the code (Arbiter.scala:166, 168).                *)
(***************************************************************************)
NoReadPassesWrite ==
  ArValid => /\ aw # ArAddr
             /\ b => wOwed.addr # ArAddr

-----------------------------------------------------------------------------
(* The strengthening that makes WritesConserved inductive, and with        
   Disjoint also ReadsConserved.                                           *)

\* The stores and fetches of the program never name the same word.  It is
\* an assumption, not a fact of the code: ArHeld and ReadsConserved fail
\* without it.
Disjoint == IAddr \cap DAddr = {}

\* The flags of the read channel agree with the slave and the masters.
ReadFlags ==
  /\ reqBusy <=> rd.left > 0
  /\ respQ["ibus"] = None
  /\ reqLock => ~reqBusy /\ IF selDBus THEN DRead ELSE iReq # None

\* The MEM stage has one access under way.
OneDataAccess ==
  /\ dReq # None => owed["dbus"].left = 0 /\ wOwed = None
  /\ owed["dbus"].left \in {0, 1}
  /\ owed["dbus"].left = 1 => wOwed = None

\* awReqBusy is the address of the write the slave has not answered.
AwReqBusyExact ==
  awReqBusy = IF aw # None THEN aw ELSE IF b THEN wOwed.addr ELSE 0

\* A master is owed at least what is on its way to it.
EnoughOwed == \A p \in Port : owed[p].left >= Queued(p) + Coming(p)

IInv ==
  /\ TypeOK
  /\ ReadFlags
  /\ OneDataAccess
  /\ EnoughOwed
  /\ WritesConserved
  /\ AwReqBusyExact

(***************************************************************************)
(* "once out_arvalid is high, the request must not change until ready is   *)
(* high" (the comment above reqLock): a read that was presented and not    *)
(* taken is presented unchanged in the next cycle.                         *)
(***************************************************************************)
ArHeld ==
  [][reqLock' => /\ ArValid'
                 /\ ArId' = ArId
                 /\ ArAddr' = ArAddr
                 /\ ArLen' = ArLen]_vars

(***************************************************************************)
(* Every line the ICache asks for is accepted and then wholly delivered,   *)
(* although loads have priority over it.                                   *)
(***************************************************************************)
FetchServed ==
  /\ iReq # None ~> owed["ibus"].left > 0
  /\ owed["ibus"].left > 0 ~> owed["ibus"].left = 0

(***************************************************************************)
(* Every load and store is accepted and then answered.                     *)
(***************************************************************************)
DataServed ==
  /\ dReq # None ~> dReq = None
  /\ owed["dbus"].left > 0 \/ wOwed # None
       ~> owed["dbus"].left = 0 /\ wOwed = None
=============================================================================
