--------------------------- MODULE ArbiterProofs ---------------------------
(* Proofs about the arbiter for any address sets, line length and depth.   *)
EXTENDS Arbiter, TLAPS

\* What the proofs need of the constants: 0 and None are no address and no request.
LEMMA Constants ==
  /\ \A a \in IAddr : a \in Nat /\ a # 0
  /\ \A a \in DAddr : a \in Nat /\ a # 0 /\ a # None
  /\ \A d \in Data : d # None
  /\ \A r \in IReq : r # None /\ r.addr \in IAddr /\ r.len \in Nat
  /\ \A r \in DReq : /\ r # None /\ r.op \in {"load", "store"}
                     /\ r.addr \in DAddr /\ r.data \in Data
  /\ BlockWords - 1 \in Nat
  /\ 0 # None
  BY ArbiterAssumption DEF IReq, DReq

\* What the environment may do in one cycle.
LEMMA EnvFacts ==
  ASSUME NEW e \in Env
  PROVE  /\ e.arReady \in BOOLEAN
         /\ e.awReady \in BOOLEAN /\ (e.awReady => AwValid)
         /\ e.wReady \in BOOLEAN /\ (e.wReady => WValid)
         /\ e.rValid \in BOOLEAN /\ (e.rValid => rd.left > 0)
         /\ e.takeWrite \in BOOLEAN
         /\ e.takeWrite => aw # None /\ w # None /\ ~b
         /\ e.bValid \in BOOLEAN /\ (e.bValid => b)
         /\ e.dReady \in BOOLEAN
         /\ e.iNext \in IReq \cup {None}
         /\ e.dNext \in DReq \cup {None}
         /\ e.dNext # None => credit # 0
  BY DEF Env, Maybe

\* After reset the strengthened invariant holds.
LEMMA InitInv == Init => IInv
<1> SUFFICES ASSUME Init PROVE IInv
  OBVIOUS
<1>1. TypeOK
  <2>1. credit \in 0..Depth
    BY ArbiterAssumption DEF Init
  <2>2. respQ \in [Port -> Nat \cup {None}]
    BY DEF Init
  <2>3. owed \in [Port -> Burst]
    BY DEF Init, Burst
  <2>4. rd \in [id : Port, word : Nat, left : Nat]
    BY DEF Init, Port
  <2>5. /\ awReqBusy \in DAddr \cup {0} /\ aw \in DAddr \cup {None}
        /\ w \in Data \cup {None} /\ writeState \in WriteState
        /\ wOwed \in DReq \cup {None}
        /\ iReq \in IReq \cup {None} /\ dReq \in DReq \cup {None}
    BY DEF Init, WriteState
  <2>6. /\ reqBusy \in BOOLEAN /\ bRespQ \in BOOLEAN /\ reqLock \in BOOLEAN
        /\ selDBus \in BOOLEAN /\ b \in BOOLEAN
    BY DEF Init
  <2> QED
    BY <2>1, <2>2, <2>3, <2>4, <2>5, <2>6 DEF TypeOK
<1>2. ReadFlags /\ OneDataAccess /\ EnoughOwed
  BY DEF Init, ReadFlags, OneDataAccess, EnoughOwed, Port, Queued, Coming
<1>3. WritesConserved /\ AwReqBusyExact
  BY DEF Init, WritesConserved, AwReqBusyExact
<1> QED
  BY <1>1, <1>2, <1>3 DEF IInv

\* A load waits for no write, because the MEM stage has none under way.
LEMMA LoadFree ==
  ASSUME IInv
  PROVE  DRead => awReqBusy = 0 /\ dReq.addr # 0 /\ dReq.addr # awReqBusy
<1>1. DRead => awReqBusy = 0
  BY DEF IInv, OneDataAccess, WritesConserved, AwReqBusyExact, DRead, DWrite
<1>2. DRead => dReq.addr \in DAddr
  BY Constants DEF IInv, TypeOK, DRead
<1> QED
  BY <1>1, <1>2, Constants

\* A read goes out only when no other is under way, and the port it goes
\* out for sees its request accepted in the same cycle.
LEMMA ReadAccept ==
  ASSUME IInv, NEW e \in Env
  PROVE  /\ ArFire(e) => rd.left = 0
         /\ ArFire(e) /\ ArId = "ibus" => IReqFire(e)
         /\ ArFire(e) /\ ArId = "dbus" <=> DReadFire(e)
         /\ IReqFire(e) => rd.left = 0
         /\ IReqFire(e) => ~DReadFire(e) /\ ~GrantD
         /\ IReqFire(e) /\ Disjoint => ArFire(e)
<1>1. /\ rd.left \in Nat /\ reqBusy \in BOOLEAN /\ reqLock \in BOOLEAN
      /\ selDBus \in BOOLEAN
  BY DEF IInv, TypeOK
<1>2. (reqBusy <=> rd.left > 0)
      /\ (reqLock => ~reqBusy /\ IF selDBus THEN DRead ELSE iReq # None)
  BY DEF IInv, ReadFlags
<1>3. GrantD => DRead
  BY <1>2 DEF GrantD
<1>4. ArFire(e) => rd.left = 0
  BY <1>1, <1>2 DEF ArFire, ArValid
<1>5. ArFire(e) /\ ArId = "ibus" => IReqFire(e)
  BY <1>2 DEF ArFire, ArValid, ArId, GrantD, IReqFire
<1>6. ArFire(e) /\ ArId = "dbus" <=> DReadFire(e)
  BY <1>2, <1>3, LoadFree DEF ArFire, ArValid, ArId, ArAddr, GrantD, DReadFire
<1>7. IReqFire(e) => rd.left = 0
  BY <1>1, <1>2 DEF IReqFire
<1>8. IReqFire(e) => ~DReadFire(e) /\ ~GrantD
  BY <1>2 DEF IReqFire, DReadFire, GrantD
<1>9. IReqFire(e) /\ Disjoint => ArFire(e)
  <2> SUFFICES ASSUME IReqFire(e), Disjoint PROVE ArFire(e)
    OBVIOUS
  <2>1. iReq # None /\ iReq.addr \in IAddr /\ ArAddr = iReq.addr
    BY <1>8, Constants DEF IReqFire, IInv, TypeOK, ArAddr
  <2>2. awReqBusy \in DAddr \cup {0}
    BY DEF IInv, TypeOK
  <2> QED
    BY <2>1, <2>2, Constants DEF IReqFire, ArFire, ArValid, Disjoint
<1> QED
  BY <1>4, <1>5, <1>6, <1>7, <1>8, <1>9

\* A response only goes to a master that is owed one.
LEMMA RespOwed ==
  ASSUME IInv, NEW e \in Env, NEW p \in Port, RespFire(p, e)
  PROVE  owed[p].left > 0
<1>1. owed[p] \in Burst /\ rd.left \in Nat
  BY DEF IInv, TypeOK
<1>2. owed[p].left >= Queued(p) + Coming(p)
  BY DEF IInv, EnoughOwed
<1>3. Queued(p) \in {0, 1} /\ Coming(p) \in Nat
  BY <1>1 DEF Queued, Coming
<1>4. Queued(p) = 1 \/ Coming(p) > 0
  BY EnvFacts DEF RespFire, Beat, Queued, Coming
<1> QED
  BY <1>1, <1>2, <1>3, <1>4 DEF Burst

\* No clock edge takes a register, a request or the slave's burst out of its type.
LEMMA RegTypes ==
  ASSUME IInv, NEW e \in Env, ArbiterNext(e), SlaveReadNext(e)
  PROVE  /\ awReqBusy' \in DAddr \cup {0} /\ reqBusy' \in BOOLEAN
         /\ respQ' \in [Port -> Nat \cup {None}] /\ bRespQ' \in BOOLEAN
         /\ reqLock' \in BOOLEAN /\ selDBus' \in BOOLEAN /\ writeState' \in WriteState
         /\ iReq' \in IReq \cup {None} /\ dReq' \in DReq \cup {None}
         /\ owed' \in [Port -> Burst] /\ wOwed' \in DReq \cup {None}
         /\ credit' \in 0..Depth /\ rd' \in [id : Port, word : Nat, left : Nat]
<1> USE DEF IInv
<1>1. /\ iReq' \in IReq \cup {None} /\ dReq' \in DReq \cup {None}
      /\ dReq' # None /\ dReq = None => credit # 0
  BY EnvFacts DEF ArbiterNext, IBusNext, DBusNext, TypeOK
<1>2. awReqBusy' \in DAddr \cup {0}
  BY EnvFacts, Constants DEF ArbiterNext, AwReqBusyNext, AwFire, AwValid, DWrite, TypeOK
<1>3. respQ' \in [Port -> Nat \cup {None}]
  BY DEF ArbiterNext, RespQNext, TypeOK
<1>4. rd' \in [id : Port, word : Nat, left : Nat]
  <2>1. CASE ArFire(e)
    <3>1. CASE GrantD
      <4>1. dReq \in DReq
        BY <3>1 DEF GrantD, ReadFlags, DRead, TypeOK
      <4> QED
        BY <2>1, <3>1, <4>1, Constants
        DEF SlaveReadNext, ArAddr, ArLen, ArId, Port
    <3>2. CASE ~GrantD
      <4>1. ArId = "ibus"
        BY <3>2 DEF ArId
      <4>2. iReq \in IReq
        BY <2>1, <4>1, ReadAccept DEF IReqFire, TypeOK
      <4> QED
        BY <2>1, <3>2, <4>1, <4>2, Constants
        DEF SlaveReadNext, ArAddr, ArLen, Port
    <3> QED BY <3>1, <3>2
  <2>2. CASE ~ArFire(e)
    <3>1. RFire(e) => rd.left - 1 \in Nat
      BY EnvFacts DEF RFire, TypeOK
    <3>2. rd' = IF RFire(e) THEN [rd EXCEPT !.word = @ + 1, !.left = @ - 1] ELSE rd
      BY <2>2 DEF SlaveReadNext
    <3>3. CASE RFire(e)
      <4>1. rd' = [id |-> rd.id, word |-> rd.word + 1, left |-> rd.left - 1]
        BY <3>2, <3>3 DEF TypeOK
      <4>2. rd.id \in Port /\ rd.word + 1 \in Nat
        BY DEF TypeOK
      <4> QED BY <3>1, <3>3, <4>1, <4>2
    <3> QED BY <3>2, <3>3 DEF TypeOK
  <2> QED BY <2>1, <2>2
<1>5. owed' \in [Port -> Burst]
  <2> SUFFICES ASSUME NEW p \in Port PROVE owed'[p] \in Burst
    BY DEF ArbiterNext, OwedNext
  <2>1. CASE p = "ibus" /\ IReqFire(e)
    BY <2>1, Constants DEF ArbiterNext, OwedNext, IReqFire, Burst, TypeOK
  <2>2. CASE p = "dbus" /\ DReadFire(e)
    BY <2>2, Constants DEF ArbiterNext, OwedNext, DReadFire, DRead, Burst, TypeOK
  <2>3. CASE ~(p = "ibus" /\ IReqFire(e)) /\ ~(p = "dbus" /\ DReadFire(e))
    <3>1. owed[p] \in Burst
      BY DEF TypeOK
    <3>2. RespFire(p, e) => Deliver(owed[p]) \in Burst
      BY <3>1, RespOwed DEF Deliver, Burst
    <3>3. owed'[p] = IF RespFire(p, e) THEN Deliver(owed[p]) ELSE owed[p]
      BY <2>3 DEF ArbiterNext, OwedNext
    <3> QED BY <3>1, <3>2, <3>3
  <2> QED BY <2>1, <2>2, <2>3
<1>6. wOwed' \in DReq \cup {None}
  BY DEF ArbiterNext, WOwedNext, DWriteFire, DWrite, TypeOK
<1>7. credit' \in 0..Depth
  BY <1>1, ArbiterAssumption DEF ArbiterNext, CreditNext, TypeOK
<1>8. writeState' \in WriteState
  BY DEF ArbiterNext, WriteStateNext, TypeOK, WriteState
<1>9. reqBusy' \in BOOLEAN /\ bRespQ' \in BOOLEAN
  BY EnvFacts DEF ArbiterNext, ReqBusyNext, BRespQNext, TypeOK
<1>10. reqLock' \in BOOLEAN /\ selDBus' \in BOOLEAN
  BY DEF ArbiterNext, LockNext, TypeOK, DRead
<1> QED
  BY <1>1, <1>2, <1>3, <1>4, <1>5, <1>6, <1>7, <1>8, <1>9, <1>10

\* Nor the slave's write.
LEMMA TypeStep ==
  ASSUME IInv, NEW e \in Env, Cycle(e)
  PROVE  TypeOK'
<1>1. aw' \in DAddr \cup {None} /\ w' \in Data \cup {None}
  BY Constants
  DEF IInv, Cycle, SlaveWriteNext, AwFire, AwValid, WFire, WValid, DWrite, TypeOK
<1>2. b' \in BOOLEAN
  BY EnvFacts DEF IInv, Cycle, SlaveWriteNext, TypeOK
<1> QED
  BY <1>1, <1>2, RegTypes DEF Cycle, TypeOK

Accept(p, e) == IF p = "ibus" THEN IReqFire(e) ELSE DReadFire(e)

\* What a port is owed, and what is on its way to it, after a cycle in
\* which one of its reads was accepted.
LEMMA AcceptStep ==
  ASSUME IInv, NEW e \in Env, ArbiterNext(e), SlaveReadNext(e), NEW p \in Port, Accept(p, e)
  PROVE  /\ owed'[p].left \in Nat \ {0}
         /\ respQ'[p] = None
         /\ ArFire(e) => /\ Coming(p)' = owed'[p].left
                         /\ rd'.word = owed'[p].word
         /\ ~ArFire(e) => Coming(p)' = 0
<1> USE DEF IInv
<1>1. rd.left = 0 /\ ~RFire(e) /\ ~Beat(p, e)
  <2>1. rd.left = 0
    BY ReadAccept DEF Accept
  <2> QED BY <2>1, EnvFacts DEF RFire, Beat
<1>2. respQ[p] = None
  <2>1. CASE p = "ibus"
    BY <2>1 DEF ReadFlags
  <2>2. CASE p = "dbus"
    <3>1. owed[p].left = 0
      BY <2>2 DEF Accept, DReadFire, DRead, OneDataAccess
    <3>2. Coming(p) \in Nat
      BY DEF Coming, TypeOK
    <3> QED BY <3>1, <3>2 DEF EnoughOwed, Queued
  <2> QED BY <2>1, <2>2 DEF Port
<1>3. respQ'[p] = None
  BY <1>1, <1>2 DEF ArbiterNext, RespQNext
<1>4. ArFire(e) => ArId = p
  BY ReadAccept DEF Accept, Port, ArId
<1>5. ~ArFire(e) => rd' = rd
  BY <1>1 DEF SlaveReadNext
<1>6. CASE p = "ibus"
  <2>1. owed'[p] = [word |-> iReq.addr, left |-> iReq.len + 1]
    BY <1>6 DEF ArbiterNext, OwedNext, Accept
  <2>2. iReq \in IReq /\ ~GrantD
    BY <1>6, ReadAccept DEF Accept, IReqFire, TypeOK
  <2>3. ArFire(e) => rd' = [id |-> p, word |-> iReq.addr, left |-> iReq.len + 1]
    BY <1>4, <2>2 DEF SlaveReadNext, ArAddr, ArLen
  <2>4. iReq.len \in Nat
    BY <2>2, Constants
  <2> QED BY <1>1, <1>3, <1>5, <2>1, <2>3, <2>4 DEF Coming, TypeOK
<1>7. CASE p = "dbus"
  <2>1. owed'[p] = [word |-> dReq.addr, left |-> 1]
    BY <1>7 DEF ArbiterNext, OwedNext, Accept
  <2>2. ArFire(e) /\ GrantD
    BY <1>7, ReadAccept DEF Accept, ArId
  <2>3. rd' = [id |-> p, word |-> dReq.addr, left |-> 1]
    BY <1>4, <2>2 DEF SlaveReadNext, ArAddr, ArLen
  <2> QED BY <1>3, <2>1, <2>2, <2>3 DEF Coming
<1> QED BY <1>6, <1>7 DEF Port

\* Without an acceptance nothing is added, and what is delivered is both
\* no longer owed and no longer on its way.
LEMMA FlowStep ==
  ASSUME IInv, NEW e \in Env, ArbiterNext(e), SlaveReadNext(e), NEW p \in Port, ~Accept(p, e)
  PROVE  /\ owed'[p] = IF RespFire(p, e) THEN Deliver(owed[p]) ELSE owed[p]
         /\ Queued(p)' + Coming(p)'
              = Queued(p) + Coming(p) - (IF RespFire(p, e) THEN 1 ELSE 0)
         /\ respQ'[p] = IF respQ[p] = None
                        THEN IF Beat(p, e) /\ ~RespFire(p, e) THEN rd.word ELSE None
                        ELSE IF RespFire(p, e) THEN None ELSE respQ[p]
         /\ Coming(p)' > 0 => /\ Coming(p) > 0
                              /\ rd'.word = IF RFire(e) THEN rd.word + 1 ELSE rd.word
                              /\ RFire(e) <=> Beat(p, e) /\ respQ[p] = None
<1> USE DEF IInv
<1>1. owed'[p] = IF RespFire(p, e) THEN Deliver(owed[p]) ELSE owed[p]
  BY DEF ArbiterNext, OwedNext, Accept, Port
<1>2. respQ'[p] = IF respQ[p] = None
                  THEN IF Beat(p, e) /\ ~RespFire(p, e) THEN rd.word ELSE None
                  ELSE IF RespFire(p, e) THEN None ELSE respQ[p]
  BY DEF ArbiterNext, RespQNext
<1>3. rd.left \in Nat /\ rd.word \in Nat /\ rd.word # None
  BY ArbiterAssumption DEF TypeOK
<1>4. CASE ArFire(e)
  <2>1. rd.left = 0 /\ ~Beat(p, e)
    BY <1>4, ReadAccept, EnvFacts DEF Beat
  <2>2. rd'.id # p
    <3>1. ArId # p
      BY <1>4, ReadAccept DEF Accept, ArId, Port
    <3> QED BY <1>4, <3>1 DEF SlaveReadNext
  <2>3. Coming(p)' = 0 /\ Coming(p) = 0
    BY <2>1, <2>2 DEF Coming
  <2>4. Queued(p)' = Queued(p) - (IF RespFire(p, e) THEN 1 ELSE 0)
    BY <1>2, <2>1 DEF Queued, RespFire
  <2> QED BY <1>1, <1>2, <2>3, <2>4 DEF Queued
<1>5. CASE ~ArFire(e)
  <2>1. rd' = IF RFire(e) THEN [rd EXCEPT !.word = @ + 1, !.left = @ - 1] ELSE rd
    BY <1>5 DEF SlaveReadNext
  <2>2. CASE rd.id # p
    <3>1. rd'.id # p /\ ~Beat(p, e)
      BY <2>1, <2>2 DEF Beat, TypeOK
    <3>2. Coming(p)' = 0 /\ Coming(p) = 0
      BY <2>2, <3>1 DEF Coming
    <3>3. Queued(p)' = Queued(p) - (IF RespFire(p, e) THEN 1 ELSE 0)
      BY <1>2, <3>1 DEF Queued, RespFire
    <3> QED BY <1>1, <1>2, <3>2, <3>3 DEF Queued
  <2>3. CASE rd.id = p
    <3>1. rd'.id = p /\ Coming(p) = rd.left /\ Coming(p)' = rd'.left
      BY <2>1, <2>3 DEF Coming, TypeOK
    <3>2. RFire(e) <=> Beat(p, e) /\ respQ[p] = None
      BY <2>3 DEF RFire, RReady, Beat
    <3>3. CASE RFire(e)
      <4>1. rd'.left = rd.left - 1 /\ rd'.word = rd.word + 1 /\ rd.left > 0
        BY <2>1, <3>3, EnvFacts DEF RFire, TypeOK
      <4>2. Queued(p) = 0 /\ Queued(p)' = (IF RespFire(p, e) THEN 0 ELSE 1)
        BY <1>2, <1>3, <3>2, <3>3 DEF Queued
      <4> QED BY <1>1, <1>2, <1>3, <3>1, <3>2, <3>3, <4>1, <4>2
    <3>4. CASE ~RFire(e)
      <4>1. rd' = rd
        BY <2>1, <3>4
      <4>2. Queued(p)' = Queued(p) - (IF RespFire(p, e) THEN 1 ELSE 0)
        BY <1>2, <1>3, <3>2, <3>4 DEF Queued, RespFire
      <4> QED BY <1>1, <1>2, <1>3, <3>1, <3>2, <3>4, <4>1, <4>2 DEF Queued
    <3> QED BY <3>3, <3>4
  <2> QED BY <2>2, <2>3
<1> QED BY <1>4, <1>5

\* A clock edge keeps reqBusy and the lock in step with the read channel.
LEMMA ReadFlagsStep ==
  ASSUME IInv, NEW e \in Env, ArbiterNext(e), SlaveReadNext(e)
  PROVE  ReadFlags'
<1> USE DEF IInv
<1>1. respQ'["ibus"] = None
  BY DEF ArbiterNext, RespQNext, RespFire, ReadFlags, Port
<1>2. reqBusy' <=> rd'.left > 0
  <2>1. CASE ArFire(e)
    <3>1. rd'.left = ArLen + 1 /\ reqBusy'
      BY <2>1 DEF ArbiterNext, SlaveReadNext, ReqBusyNext
    <3>2. ArLen \in Nat
      <4>1. ~GrantD => iReq \in IReq
        BY <2>1, ReadAccept DEF ArId, IReqFire, TypeOK
      <4> QED BY <4>1, Constants DEF ArLen
    <3> QED BY <3>1, <3>2
  <2>2. CASE ~ArFire(e)
    <3>1. rd' = IF RFire(e) THEN [rd EXCEPT !.word = @ + 1, !.left = @ - 1] ELSE rd
      BY <2>2 DEF SlaveReadNext
    <3>2. reqBusy' = IF RFire(e) /\ RLast THEN FALSE ELSE reqBusy
      BY <2>2 DEF ArbiterNext, ReqBusyNext
    <3>3. RFire(e) => rd.left > 0 /\ rd'.left = rd.left - 1
      BY <3>1, EnvFacts DEF RFire, TypeOK
    <3> QED BY <3>1, <3>2, <3>3 DEF RLast, ReadFlags, TypeOK
  <2> QED BY <2>1, <2>2
<1>3. ASSUME reqLock' PROVE ~reqBusy' /\ IF selDBus' THEN DRead' ELSE iReq' # None
  <2>1. ~e.arReady
    BY <1>3, EnvFacts DEF ArbiterNext, LockNext, TypeOK
  <2>2. ~ArFire(e) /\ ~IReqFire(e) /\ ~DReadFire(e)
    BY <2>1 DEF ArFire, IReqFire, DReadFire
  <2>3. DRead => DRead'
    BY <2>2 DEF ArbiterNext, DBusNext, DWriteFire, DRead, DWrite
  <2>4. iReq # None => iReq' # None
    BY <2>2 DEF ArbiterNext, IBusNext
  <2>5. ~reqBusy /\ IF selDBus' THEN DRead ELSE iReq # None
    <3>1. CASE ArValid
      <4>1. selDBus' = (IF reqLock THEN selDBus ELSE DRead)
        BY <2>1, <3>1 DEF ArbiterNext, LockNext
      <4> QED BY <3>1, <4>1 DEF ArValid, ReadFlags, TypeOK
    <3>2. CASE ~ArValid
      BY <1>3, <3>2 DEF ArbiterNext, LockNext, ReadFlags
    <3> QED BY <3>1, <3>2
  <2>6. ~reqBusy'
    BY <2>2, <2>5 DEF ArbiterNext, ReqBusyNext
  <2> QED BY <2>3, <2>4, <2>5, <2>6
<1> QED BY <1>1, <1>2, <1>3 DEF ReadFlags

\* A clock edge never brings a master a word it was not promised.
LEMMA EnoughOwedStep ==
  ASSUME IInv, NEW e \in Env, ArbiterNext(e), SlaveReadNext(e)
  PROVE  EnoughOwed'
<1> SUFFICES ASSUME NEW p \in Port
             PROVE  owed'[p].left >= Queued(p)' + Coming(p)'
  BY DEF EnoughOwed
<1>1. CASE Accept(p, e)
  BY <1>1, AcceptStep DEF Queued
<1>2. CASE ~Accept(p, e)
  <2>1. owed[p].left \in Nat /\ Queued(p) \in Nat /\ Coming(p) \in Nat
    BY DEF IInv, TypeOK, Burst, Queued, Coming
  <2>2. owed[p].left >= Queued(p) + Coming(p)
    BY DEF IInv, EnoughOwed
  <2>3. owed'[p].left = owed[p].left - (IF RespFire(p, e) THEN 1 ELSE 0)
    <3>1. owed'[p] = IF RespFire(p, e) THEN Deliver(owed[p]) ELSE owed[p]
      BY <1>2, FlowStep
    <3> QED BY <2>1, <3>1 DEF Deliver
  <2>4. Queued(p)' + Coming(p)'
          = Queued(p) + Coming(p) - (IF RespFire(p, e) THEN 1 ELSE 0)
    BY <1>2, FlowStep
  <2> QED BY <2>1, <2>2, <2>3, <2>4
<1> QED BY <1>1, <1>2

\* With fetches and stores apart, what is owed is exactly what is coming.
LEMMA ReadsStep ==
  ASSUME IInv, ReadsConserved, Disjoint, NEW e \in Env, ArbiterNext(e), SlaveReadNext(e)
  PROVE  ReadsConserved'
<1> SUFFICES ASSUME NEW p \in Port
             PROVE  /\ owed'[p].left = Queued(p)' + Coming(p)'
                    /\ respQ'[p] # None => respQ'[p] = owed'[p].word
                    /\ Coming(p)' > 0 => rd'.word = owed'[p].word + Queued(p)'
  BY DEF ReadsConserved
<1>1. CASE Accept(p, e)
  <2>1. ArFire(e)
    BY <1>1, ReadAccept DEF Accept, Port
  <2>2. owed'[p].left \in Nat /\ owed'[p].word \in Nat
    BY RegTypes DEF Burst
  <2> QED BY <1>1, <2>1, <2>2, AcceptStep DEF Queued
<1>2. CASE ~Accept(p, e)
  <2>1. /\ owed[p].left \in Nat /\ owed[p].word \in Nat /\ rd.word \in Nat
        /\ Queued(p) \in Nat /\ Coming(p) \in Nat
    BY DEF IInv, TypeOK, Burst, Queued, Coming
  <2>2. /\ owed[p].left = Queued(p) + Coming(p)
        /\ respQ[p] # None => respQ[p] = owed[p].word
        /\ Coming(p) > 0 => rd.word = owed[p].word + Queued(p)
    BY DEF ReadsConserved
  <2>3. owed'[p] = IF RespFire(p, e) THEN Deliver(owed[p]) ELSE owed[p]
    BY <1>2, FlowStep
  <2>4. /\ owed'[p].left = owed[p].left - (IF RespFire(p, e) THEN 1 ELSE 0)
        /\ owed'[p].word = owed[p].word + (IF RespFire(p, e) THEN 1 ELSE 0)
    BY <2>1, <2>3 DEF Deliver
  <2>5. owed'[p].left = Queued(p)' + Coming(p)'
    BY <1>2, <2>1, <2>2, <2>4, FlowStep
  <2>6. respQ'[p] = IF respQ[p] = None
                    THEN IF Beat(p, e) /\ ~RespFire(p, e) THEN rd.word ELSE None
                    ELSE IF RespFire(p, e) THEN None ELSE respQ[p]
    BY <1>2, FlowStep
  <2>7. Beat(p, e) => Coming(p) > 0
    BY EnvFacts DEF Beat, Coming
  <2>8. respQ'[p] # None => respQ'[p] = owed'[p].word
    BY <2>1, <2>2, <2>4, <2>6, <2>7 DEF Queued
  <2>9. ASSUME Coming(p)' > 0 PROVE rd'.word = owed'[p].word + Queued(p)'
    <3>1. /\ rd.word = owed[p].word + Queued(p)
          /\ rd'.word = IF RFire(e) THEN rd.word + 1 ELSE rd.word
          /\ RFire(e) <=> Beat(p, e) /\ respQ[p] = None
      BY <1>2, <2>2, <2>9, FlowStep
    <3>2. rd.word # None
      BY <2>1, ArbiterAssumption
    <3>3. Queued(p)' = IF respQ[p] = None
                       THEN IF Beat(p, e) /\ ~RespFire(p, e) THEN 1 ELSE 0
                       ELSE IF RespFire(p, e) THEN 0 ELSE 1
      BY <2>6, <3>2 DEF Queued
    <3>4. RespFire(p, e) => respQ[p] # None \/ Beat(p, e)
      BY DEF RespFire
    <3> QED BY <2>1, <2>4, <3>1, <3>3, <3>4 DEF Queued
  <2> QED BY <2>5, <2>8, <2>9
<1> QED BY <1>1, <1>2

\* A clock edge leaves the MEM stage with at most one access under way.
LEMMA OneDataAccessStep ==
  ASSUME IInv, NEW e \in Env, ArbiterNext(e), SlaveReadNext(e)
  PROVE  OneDataAccess'
<1> USE DEF IInv
<1>1. owed["dbus"].left \in {0, 1}
      /\ owed'["dbus"] = IF DReadFire(e) THEN [word |-> dReq.addr, left |-> 1]
                         ELSE IF RespFire("dbus", e) THEN Deliver(owed["dbus"])
                         ELSE owed["dbus"]
  BY DEF OneDataAccess, ArbiterNext, OwedNext, Port
<1>2. owed'["dbus"].left = IF DReadFire(e) THEN 1
                           ELSE IF RespFire("dbus", e) THEN owed["dbus"].left - 1
                           ELSE owed["dbus"].left
  BY <1>1 DEF Deliver
<1>3. RespFire("dbus", e) => owed["dbus"].left = 1
  BY <1>1, RespOwed DEF Port
<1>4. wOwed' = IF DWriteFire(e) THEN dReq ELSE IF WRespFire(e) THEN None ELSE wOwed
  BY DEF ArbiterNext, WOwedNext
<1>5. DReadFire(e) => dReq # None /\ ~DWriteFire(e)
  BY DEF DReadFire, DWriteFire, DRead, DWrite
<1>6. DWriteFire(e) => dReq # None
  BY DEF DWriteFire, DWrite
<1>7. dReq' # None => ~DReadFire(e) /\ ~DWriteFire(e)
                      /\ (dReq # None \/ DBusIdle \/ DBusDone(e))
  <2>1. dReq # None => ~DBusIdle /\ ~DBusDone(e)
    BY DEF DBusIdle, DBusDone, OneDataAccess
  <2> QED BY <1>5, <1>6, <2>1 DEF ArbiterNext, DBusNext
<1>8. WRespFire(e) => bRespQ \/ b
  BY EnvFacts DEF WRespFire
<1>9. owed'["dbus"].left = 1 => wOwed' = None
  BY <1>1, <1>2, <1>3, <1>4, <1>5, <1>6 DEF OneDataAccess
<1>10. ASSUME dReq' # None PROVE owed'["dbus"].left = 0 /\ wOwed' = None
  <2>1. ~DReadFire(e) /\ ~DWriteFire(e)
    BY <1>7, <1>10
  <2>2. CASE dReq # None \/ DBusIdle
    <3>1. owed["dbus"].left = 0 /\ wOwed = None
      BY <2>2 DEF OneDataAccess, DBusIdle
    <3> QED BY <1>2, <1>3, <1>4, <2>1, <3>1
  <2>3. CASE DBusDone(e)
    <3>1. CASE wOwed # None
      BY <1>1, <1>2, <1>3, <1>4, <2>1, <2>3, <3>1 DEF DBusDone, OneDataAccess
    <3>2. CASE wOwed = None
      BY <1>2, <1>4, <2>1, <2>3, <3>2 DEF DBusDone
    <3> QED BY <3>1, <3>2
  <2> QED BY <1>7, <1>10, <2>2, <2>3
<1> QED BY <1>1, <1>2, <1>3, <1>9, <1>10 DEF OneDataAccess

\* A clock edge keeps the address and data of a store together, and awReqBusy exact.
LEMMA WritesStep ==
  ASSUME IInv, NEW e \in Env, Cycle(e)
  PROVE  WritesConserved' /\ AwReqBusyExact'
<1> USE DEF IInv
<1>1. /\ wOwed' = IF DWriteFire(e) THEN dReq ELSE IF WRespFire(e) THEN None ELSE wOwed
      /\ aw' = IF AwFire(e) THEN dReq.addr ELSE IF e.takeWrite THEN None ELSE aw
      /\ w' = IF WFire(e) THEN dReq.data ELSE IF e.takeWrite THEN None ELSE w
      /\ b' = IF e.takeWrite THEN TRUE ELSE IF BFire(e) THEN FALSE ELSE b
      /\ bRespQ' = ((bRespQ \/ e.bValid) /\ ~e.dReady)
      /\ writeState' = IF DWriteFire(e) THEN "WriteIDLE"
                       ELSE IF writeState # "WriteIDLE" THEN writeState
                       ELSE IF AwFire(e) THEN "WaitWChannel"
                       ELSE IF WFire(e) THEN "WaitAWChannel" ELSE "WriteIDLE"
      /\ awReqBusy' = IF AwFire(e) THEN dReq.addr
                      ELSE IF e.bValid THEN 0 ELSE awReqBusy
  BY DEF Cycle, ArbiterNext, WOwedNext, SlaveWriteNext, BRespQNext, WriteStateNext, AwReqBusyNext
<1>2. CASE DWrite
  <2>1. /\ wOwed = None /\ ~b /\ ~bRespQ /\ ~(aw # None /\ w # None)
        /\ dReq \in DReq /\ dReq # None /\ dReq.addr # None /\ dReq.data # None
    BY <1>2, Constants DEF DWrite, OneDataAccess, WritesConserved, TypeOK
  <2>2. ~e.takeWrite /\ ~e.bValid /\ ~WRespFire(e) /\ ~BFire(e)
    BY <2>1, EnvFacts DEF WRespFire, BFire
  <2>3. dReq' = IF DWriteFire(e) THEN dReq' ELSE dReq
    BY <1>2, <2>1 DEF Cycle, ArbiterNext, DBusNext, DReadFire, DRead, DWrite
  <2>4. CASE writeState = "WriteIDLE"
    <3>1. aw = None /\ w = None
      BY <2>1, <2>4 DEF WritesConserved
    <3>2. DWriteFire(e) <=> AwFire(e) /\ WFire(e)
      BY <1>2, <2>4 DEF DWriteFire, DbusWReady
    <3> QED
      BY <1>1, <1>2, <2>1, <2>2, <2>3, <2>4, <3>1, <3>2
      DEF WritesConserved, AwReqBusyExact, DWrite
  <2>5. CASE writeState = "WaitWChannel"
    <3>1. aw = dReq.addr /\ w = None
      BY <2>1, <2>5 DEF WritesConserved
    <3>2. ~AwFire(e) /\ (DWriteFire(e) <=> WFire(e))
      BY <1>2, <2>5 DEF DWriteFire, DbusWReady, AwFire, AwValid
    <3>3. CASE WFire(e)
      <4>1. /\ wOwed' = dReq /\ aw' = dReq.addr /\ w' = dReq.data
            /\ b' = b /\ ~bRespQ' /\ writeState' = "WriteIDLE"
            /\ awReqBusy' = awReqBusy
        BY <1>1, <2>1, <2>2, <3>1, <3>2, <3>3
      <4> QED BY <2>1, <3>1, <4>1 DEF WritesConserved, AwReqBusyExact
    <3>4. CASE ~WFire(e)
      <4>1. /\ wOwed' = None /\ aw' = aw /\ w' = w /\ dReq' = dReq
            /\ b' = b /\ ~bRespQ' /\ writeState' = writeState
            /\ awReqBusy' = awReqBusy
        BY <1>1, <2>1, <2>2, <2>3, <2>5, <3>2, <3>4
      <4> QED
        BY <1>2, <2>1, <2>5, <3>1, <4>1 DEF WritesConserved, AwReqBusyExact, DWrite
    <3> QED BY <3>3, <3>4
  <2>6. CASE writeState = "WaitAWChannel"
    <3>1. aw = None /\ w = dReq.data
      BY <2>1, <2>6 DEF WritesConserved
    <3>2. ~WFire(e) /\ (DWriteFire(e) <=> AwFire(e))
      BY <1>2, <2>6 DEF DWriteFire, DbusWReady, WFire, WValid
    <3>3. CASE AwFire(e)
      <4>1. /\ wOwed' = dReq /\ aw' = dReq.addr /\ w' = dReq.data
            /\ b' = b /\ ~bRespQ' /\ writeState' = "WriteIDLE"
            /\ awReqBusy' = dReq.addr
        BY <1>1, <2>1, <2>2, <3>1, <3>2, <3>3
      <4> QED BY <2>1, <3>1, <4>1 DEF WritesConserved, AwReqBusyExact
    <3>4. CASE ~AwFire(e)
      <4>1. /\ wOwed' = None /\ aw' = aw /\ w' = w /\ dReq' = dReq
            /\ b' = b /\ ~bRespQ' /\ writeState' = writeState
            /\ awReqBusy' = awReqBusy
        BY <1>1, <2>1, <2>2, <2>3, <2>6, <3>2, <3>4
      <4> QED
        BY <1>2, <2>1, <2>6, <3>1, <4>1 DEF WritesConserved, AwReqBusyExact, DWrite
    <3> QED BY <3>3, <3>4
  <2> QED BY <2>4, <2>5, <2>6 DEF TypeOK, WriteState
<1>3. CASE ~DWrite
  <2>1. ~AwFire(e) /\ ~WFire(e) /\ ~DWriteFire(e)
    BY <1>3 DEF AwFire, AwValid, WFire, WValid, DWriteFire
  <2>2. writeState = "WriteIDLE" /\ (wOwed = None => aw = None /\ w = None)
    BY <1>3 DEF WritesConserved, TypeOK, WriteState
  <2>3. writeState' = "WriteIDLE"
    BY <1>1, <2>1, <2>2
  <2>4. (e.takeWrite => aw # None /\ w # None /\ ~b) /\ (e.bValid => b)
    BY EnvFacts
  <2>5. b \in BOOLEAN /\ bRespQ \in BOOLEAN /\ e.bValid \in BOOLEAN
        /\ e.dReady \in BOOLEAN /\ e.takeWrite \in BOOLEAN
    BY EnvFacts DEF TypeOK
  <2>6. BFire(e) <=> e.bValid /\ ~bRespQ
    BY DEF BFire
  <2>7. WRespFire(e) <=> (bRespQ \/ e.bValid) /\ e.dReady
    BY DEF WRespFire
  <2>8. WritesConserved'
    BY <1>1, <2>1, <2>2, <2>3, <2>4, <2>5, <2>6, <2>7 DEF WritesConserved
  <2>9. AwReqBusyExact'
    BY <1>1, <2>1, <2>2, <2>4, <2>5, <2>6, <2>7 DEF WritesConserved, AwReqBusyExact
  <2> QED BY <2>8, <2>9
<1> QED BY <1>2, <1>3

\* The strengthened invariant is inductive.
LEMMA IInvStep == IInv /\ [Next]_vars => IInv'
<1> SUFFICES ASSUME IInv, [Next]_vars PROVE IInv'
  OBVIOUS
<1>1. ASSUME NEW e \in Env, Cycle(e) PROVE IInv'
  BY <1>1, TypeStep, ReadFlagsStep, EnoughOwedStep, OneDataAccessStep, WritesStep
  DEF Cycle, IInv
<1>2. CASE UNCHANGED vars
  BY <1>2 DEF vars, regs, masters, slave, IInv, TypeOK, ReadFlags, OneDataAccess,
     EnoughOwed, WritesConserved, AwReqBusyExact, Queued, Coming, DRead, DWrite
<1> QED BY <1>1, <1>2 DEF Next

\* The strengthened invariant holds in every reachable state.
LEMMA Invariance == Spec => []IInv
  BY InitInv, IInvStep, PTL DEF Spec

(***************************************************************************)
(* Every register and every slave slot keeps its declared shape.           *)
(***************************************************************************)
THEOREM TypeCorrect == Spec => []TypeOK
<1>1. IInv => TypeOK
  BY DEF IInv
<1> QED BY <1>1, Invariance, PTL

(***************************************************************************)
(* AW and W of a store stay paired and its one response is never lost,     *)
(* whatever the channels' order: for all addresses, data and line lengths. *)
(***************************************************************************)
THEOREM StoresSafe == Spec => []WritesConserved
<1>1. IInv => WritesConserved
  BY DEF IInv
<1> QED BY <1>1, Invariance, PTL

(***************************************************************************)
(* awReqBusy does its work: no read is presented to the slave for an       *)
(* address whose write is still unanswered.                                *)
(***************************************************************************)
THEOREM ReadsWait == Spec => []NoReadPassesWrite
<1>1. IInv => NoReadPassesWrite
  <2> SUFFICES ASSUME IInv, ArValid
               PROVE  aw # ArAddr /\ (b => wOwed.addr # ArAddr)
    BY DEF NoReadPassesWrite
  <2>1. ArAddr # awReqBusy /\ (DRead \/ iReq # None)
    BY DEF ArValid
  <2>2. b => aw = None
    BY DEF IInv, WritesConserved
  <2>3. GrantD => DRead
    BY DEF GrantD, IInv, ReadFlags
  <2>4. ~GrantD => iReq # None
    BY <2>1 DEF GrantD, IInv, ReadFlags
  <2>5. ArAddr # None
    BY <2>3, <2>4, Constants, ArbiterAssumption DEF ArAddr, DRead, IInv, TypeOK
  <2> QED BY <2>1, <2>2, <2>5 DEF IInv, AwReqBusyExact
<1> QED BY <1>1, Invariance, PTL

(***************************************************************************)
(* When fetches and stores name different addresses, every fetch and every *)
(* load gets exactly the words it asked for, in order and on its own port. *)
(***************************************************************************)
THEOREM ReadsSafe ==
  ASSUME Disjoint
  PROVE  Spec => []ReadsConserved
<1>1. Init => ReadsConserved
  BY DEF Init, ReadsConserved, Queued, Coming, Port
<1>2. IInv /\ ReadsConserved /\ [Next]_vars => ReadsConserved'
  <2> SUFFICES ASSUME IInv, ReadsConserved, [Next]_vars PROVE ReadsConserved'
    OBVIOUS
  <2>1. ASSUME NEW e \in Env, Cycle(e) PROVE ReadsConserved'
    BY <2>1, ReadsStep DEF Cycle
  <2>2. CASE UNCHANGED vars
    BY <2>2 DEF vars, regs, slave, masters, ReadsConserved, Queued, Coming
  <2> QED BY <2>1, <2>2 DEF Next
<1> QED BY <1>1, <1>2, Invariance, PTL DEF Spec

(***************************************************************************)
(* Under the same assumption a presented read is never withdrawn or        *)
(* changed before the slave takes it, as the AXI4 port's Irrevocable type  *)
(* and the comment above reqLock promise.                                  *)
(***************************************************************************)
THEOREM ReadHeld ==
  ASSUME Disjoint
  PROVE  Spec => ArHeld
<1>1. IInv /\ IInv' /\ [Next]_vars
        => [reqLock' => /\ ArValid'
                        /\ ArId' = ArId
                        /\ ArAddr' = ArAddr
                        /\ ArLen' = ArLen]_vars
  <2> SUFFICES ASSUME IInv, IInv', NEW e \in Env, Cycle(e), reqLock'
               PROVE  ArValid' /\ ArId' = ArId /\ ArAddr' = ArAddr /\ ArLen' = ArLen
    BY DEF Next
  <2>1. ~e.arReady
    BY EnvFacts DEF Cycle, ArbiterNext, LockNext, IInv, TypeOK
  <2>2. ~ArFire(e) /\ ~IReqFire(e) /\ ~DReadFire(e)
    BY <2>1 DEF ArFire, IReqFire, DReadFire
  <2>3. ~reqBusy' /\ IF selDBus' THEN DRead' ELSE iReq' # None
    BY DEF IInv, ReadFlags
  <2>4. selDBus' = GrantD
    <3>1. CASE ArValid
      BY <2>1, <3>1 DEF Cycle, ArbiterNext, LockNext, GrantD
    <3>2. CASE ~ArValid
      BY <3>2 DEF Cycle, ArbiterNext, LockNext, GrantD
    <3> QED BY <3>1, <3>2
  <2>5. GrantD' = GrantD
    BY <2>4 DEF GrantD
  <2>6. GrantD => dReq' = dReq
    <3>1. GrantD => DRead
      BY DEF GrantD, IInv, ReadFlags
    <3> QED BY <2>2, <3>1 DEF Cycle, ArbiterNext, DBusNext, DWriteFire, DRead, DWrite
  <2>7. ~GrantD => iReq' = iReq
    <3>1. ~GrantD => iReq # None
      <4>1. reqLock \/ ArValid
        BY DEF Cycle, ArbiterNext, LockNext
      <4> QED BY <4>1 DEF GrantD, ArValid, IInv, ReadFlags
    <3> QED BY <2>2, <3>1 DEF Cycle, ArbiterNext, IBusNext
  <2>8. ArId' = ArId /\ ArAddr' = ArAddr /\ ArLen' = ArLen
    BY <2>5, <2>6, <2>7 DEF ArId, ArAddr, ArLen
  <2>9. ArAddr' # awReqBusy'
    <3>1. CASE GrantD
      <4>1. DRead'
        BY <2>3, <2>4, <3>1
      <4>2. awReqBusy' = 0 /\ dReq'.addr # 0
        <5>1. awReqBusy' = 0
          BY <4>1 DEF IInv, OneDataAccess, WritesConserved, AwReqBusyExact, DRead, DWrite
        <5>2. dReq' \in DReq
          BY <4>1 DEF IInv, TypeOK, DRead
        <5> QED BY <5>1, <5>2, Constants
      <4> QED BY <2>5, <3>1, <4>2 DEF ArAddr
    <3>2. CASE ~GrantD
      <4>1. iReq' \in IReq /\ awReqBusy' \in DAddr \cup {0}
        BY <2>3, <2>4, <3>2 DEF IInv, TypeOK
      <4>2. iReq'.addr # awReqBusy'
        BY <4>1, Constants DEF Disjoint
      <4> QED BY <2>5, <3>2, <4>2 DEF ArAddr
    <3> QED BY <3>1, <3>2
  <2> QED BY <2>3, <2>4, <2>8, <2>9 DEF ArValid
<1> QED BY <1>1, Invariance, PTL DEF Spec, ArHeld
=============================================================================
