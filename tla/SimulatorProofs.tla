-------------------------- MODULE SimulatorProofs --------------------------
(***************************************************************************)
(* Proofs about the simulator's processes for every number of snapshots,    *)
(* watchpoints, cycles and commands and every behaviour of the design.      *)
(* First the watchpoint pool (watchpoint.cpp), for any number of nodes:     *)
(* each list operation keeps the two lists ordered and disjoint.            *)
(***************************************************************************)
EXTENDS Simulator, FiniteSetTheorems, SequenceTheorems, TLAPS


\* A set of numbers that is not empty has a least member; a finite interval
\* 0 .. x shrinks with x, so strict inclusion of intervals is what descends.
LEMMA Least ==
  ASSUME NEW T \in SUBSET Nat, T # {}
  PROVE  \E x \in T : \A y \in T : x <= y
<1> DEFINE R == StrictSubsetOrdering(Nat)
           F == {0 .. x : x \in T}
<1>1. IsWellFoundedOn(R, FiniteSubsetsOf(Nat))
  BY FS_StrictSubsetOrderingWellFounded
<1>2. F \subseteq FiniteSubsetsOf(Nat)
  <2> SUFFICES ASSUME NEW x \in T PROVE 0 .. x \in FiniteSubsetsOf(Nat)
    OBVIOUS
  <2>1. IsFiniteSet(0 .. x)
    BY FS_Interval
  <2> QED BY <2>1 DEF FiniteSubsetsOf
<1>3. \E X \in F : \A Y \in F : ~ (<<Y, X>> \in R)
  <2>1. F # {}
    OBVIOUS
  <2> HIDE DEF R, F
  <2> QED BY <1>1, <1>2, <2>1, WFMin
<1>4. PICK x \in T : \A Y \in F : ~ (<<Y, 0 .. x>> \in R)
  BY <1>3
<1>5. \A y \in T : x <= y
  <2> SUFFICES ASSUME NEW y \in T, ~ (x <= y) PROVE FALSE
    OBVIOUS
  <2>1. 0 .. y \subseteq 0 .. x /\ x \notin 0 .. y /\ x \in 0 .. x
    OBVIOUS
  <2>2. <<0 .. y, 0 .. x>> \in R
    BY <2>1 DEF StrictSubsetOrdering
  <2> QED BY <1>4, <2>2
<1> QED BY <1>5

\* The loop that looks for a place in an ordered list (watchpoint.cpp:47-70)
\* ends at one: before the first larger number, or at the end.
LEMMA Slots ==
  ASSUME NEW s \in Seq(Nat), Ordered(s), NEW n \in Nat
  PROVE  \E k \in 0 .. Len(s) : Fits(s, n, k)
<1> DEFINE T == {i \in DOMAIN s : n < s[i]}
<1>1. CASE T = {}
  <2>1. Fits(s, n, Len(s))
    BY <1>1 DEF Fits
  <2> QED BY <2>1
<1>2. CASE T # {}
  <2>1. T \in SUBSET Nat
    OBVIOUS
  <2>2. PICK x \in T : \A y \in T : x <= y
    BY <1>2, <2>1, Least
  <2>3. x - 1 \in 0 .. Len(s) /\ x - 1 + 1 = x
    OBVIOUS
  <2>4. Fits(s, n, x - 1)
    BY <2>2, <2>3 DEF Fits
  <2> QED BY <2>3, <2>4
<1> QED BY <1>1, <1>2

\* Inserting a node that is not in the list keeps it ordered and adds just it.
LEMMA InsertOK ==
  ASSUME NEW s \in Seq(Nodes), Ordered(s), NEW n \in Nodes, n \notin Elems(s)
  PROVE  /\ InsertByNO(s, n) \in Seq(Nodes)
         /\ Ordered(InsertByNO(s, n))
         /\ Elems(InsertByNO(s, n)) = Elems(s) \cup {n}
<1>1. n \in Nat /\ s \in Seq(Nat) /\ Nodes \subseteq Nat
  BY NRWPAssumption DEF Nodes
<1> DEFINE k == Slot(s, n)
           t == InsertAt(s, n, k)
<1>2. k \in 0 .. Len(s) /\ Fits(s, n, k)
  BY <1>1, Slots DEF Slot
<1>3. InsertByNO(s, n) = t
  BY DEF InsertByNO
<1> HIDE DEF k
<1>4. DOMAIN t = 1 .. Len(s) + 1 /\ \A i \in DOMAIN t : t[i] \in Nodes
  <2>1. DOMAIN t = 1 .. Len(s) + 1
    BY DEF InsertAt
  <2>2. ASSUME NEW i \in 1 .. Len(s) + 1 PROVE t[i] \in Nodes
    <3>1. t[i] = IF i <= k THEN s[i] ELSE IF i = k + 1 THEN n ELSE s[i - 1]
      BY <2>2 DEF InsertAt
    <3>2. i <= k => s[i] \in Nodes
      BY <1>2
    <3>3. k + 1 < i => s[i - 1] \in Nodes
      BY <1>2
    <3> QED BY <1>2, <3>1, <3>2, <3>3
  <2> QED BY <2>1, <2>2
<1>5. t \in Seq(Nodes) /\ Len(t) = Len(s) + 1
  BY <1>4 DEF InsertAt
<1>6. \A i \in DOMAIN s : i <= k => s[i] < n
  BY <1>1, <1>2 DEF Fits, Elems
<1>7. \A i \in DOMAIN s : k < i => n < s[i]
  <2> SUFFICES ASSUME NEW i \in DOMAIN s, k < i PROVE n < s[i]
    OBVIOUS
  <2>1. k + 1 \in DOMAIN s /\ k + 1 <= i /\ n < s[k + 1]
    BY <1>2 DEF Fits
  <2>2. k + 1 < i => s[k + 1] < s[i]
    BY <2>1 DEF Ordered
  <2>3. s[i] \in Nat /\ s[k + 1] \in Nat
    BY <1>1, <2>1
  <2> QED BY <1>1, <1>2, <2>1, <2>2, <2>3
<1>8. Ordered(t)
  <2> SUFFICES ASSUME NEW i \in DOMAIN t, NEW j \in DOMAIN t, i < j
               PROVE  t[i] < t[j]
    BY DEF Ordered
  <2>1. CASE j <= k
    BY <1>2, <1>4, <2>1 DEF Ordered, InsertAt
  <2>2. CASE j = k + 1
    BY <1>2, <1>4, <1>6, <2>2 DEF InsertAt
  <2>3. CASE j > k + 1 /\ i = k + 1
    BY <1>2, <1>4, <1>7, <2>3 DEF InsertAt
  <2>4. CASE j > k + 1 /\ i # k + 1
    BY <1>2, <1>4, <2>4 DEF Ordered, InsertAt
  <2> QED BY <1>2, <1>4, <2>1, <2>2, <2>3, <2>4
<1>9. Elems(t) = Elems(s) \cup {n}
  <2>1. Elems(t) \subseteq Elems(s) \cup {n}
    BY <1>2, <1>4 DEF Elems, InsertAt
  <2>2. t[k + 1] = n /\ k + 1 \in DOMAIN t
    BY <1>2, <1>4 DEF InsertAt
  <2>3. \A i \in DOMAIN s : \E j \in DOMAIN t : t[j] = s[i]
    <3> SUFFICES ASSUME NEW i \in DOMAIN s PROVE \E j \in DOMAIN t : t[j] = s[i]
      OBVIOUS
    <3>1. CASE i <= k
      <4>1. i \in DOMAIN t /\ t[i] = s[i]
        BY <1>2, <1>4, <3>1 DEF InsertAt
      <4> QED BY <4>1
    <3>2. CASE k < i
      <4>1. i + 1 \in DOMAIN t /\ t[i + 1] = s[i]
        BY <1>2, <1>4, <3>2 DEF InsertAt
      <4> QED BY <4>1
    <3> QED BY <1>2, <3>1, <3>2
  <2> QED BY <2>1, <2>2, <2>3 DEF Elems
<1> QED BY <1>3, <1>5, <1>8, <1>9

\* Taking a node out of the list (watchpoint.cpp:84-94) keeps the order and
\* removes just it.
LEMMA UnlinkOK ==
  ASSUME NEW s \in Seq(Nodes), Ordered(s), NEW n \in Elems(s)
  PROVE  /\ Unlink(s, n) \in Seq(Nodes)
         /\ Ordered(Unlink(s, n))
         /\ Elems(Unlink(s, n)) = Elems(s) \ {n}
<1>1. s \in Seq(Nat) /\ Nodes \subseteq Nat
  BY NRWPAssumption DEF Nodes
<1> DEFINE k == CHOOSE k \in 1 .. Len(s) : s[k] = n
           t == [i \in 1 .. Len(s) - 1 |-> IF i < k THEN s[i] ELSE s[i + 1]]
<1>2. k \in 1 .. Len(s) /\ s[k] = n
  BY DEF Elems
<1>3. Unlink(s, n) = t
  BY DEF Unlink
<1> HIDE DEF k
<1>4. t \in Seq(Nodes) /\ DOMAIN t = 1 .. Len(s) - 1
  BY <1>2
<1>5. Ordered(t)
  <2> SUFFICES ASSUME NEW i \in DOMAIN t, NEW j \in DOMAIN t, i < j
               PROVE  t[i] < t[j]
    BY DEF Ordered
  <2> DEFINE At(m) == IF m < k THEN m ELSE m + 1
  <2>1. t[i] = s[At(i)] /\ t[j] = s[At(j)]
    BY <1>2, <1>4
  <2>2. At(i) \in DOMAIN s /\ At(j) \in DOMAIN s /\ At(i) < At(j)
    BY <1>2, <1>4
  <2> QED BY <2>1, <2>2 DEF Ordered
<1>6. \A i \in DOMAIN s : i # k => s[i] # n
  BY <1>1, <1>2 DEF Ordered
<1>7. Elems(t) \subseteq Elems(s) \ {n}
  BY <1>2, <1>4, <1>6 DEF Elems
<1>8. \A i \in DOMAIN s : i # k => \E j \in DOMAIN t : t[j] = s[i]
  <2> SUFFICES ASSUME NEW i \in DOMAIN s, i # k PROVE \E j \in DOMAIN t : t[j] = s[i]
    OBVIOUS
  <2>1. CASE i < k
    <3>1. i \in DOMAIN t /\ t[i] = s[i]
      BY <1>2, <1>4, <2>1
    <3> QED BY <3>1
  <2>2. CASE k < i
    <3>1. i - 1 \in DOMAIN t /\ t[i - 1] = s[i]
      BY <1>2, <1>4, <2>2
    <3> QED BY <3>1
  <2> QED BY <1>2, <2>1, <2>2
<1>9. Elems(s) \ {n} \subseteq Elems(t)
  BY <1>2, <1>8 DEF Elems
<1> QED BY <1>3, <1>4, <1>5, <1>7, <1>9

-----------------------------------------------------------------------------
\* The type of a pool: two lists of nodes and the nodes themselves.
PoolType == [head : Seq(Nodes), free : Seq(Nodes), node : [Nodes -> Node]]

\* init_wp_pool leaves every node free and none in use.
LEMMA InitPoolOK == InitPool \in PoolType /\ PoolOK(InitPool) /\ InitPool.head = <<>>
<1>1. NR_WP \in Nat /\ NR_WP # 0
  BY NRWPAssumption
<1>2. [i \in 1 .. NR_WP |-> i - 1] \in Seq(Nodes)
  BY <1>1 DEF Nodes
<1>3. Ordered([i \in 1 .. NR_WP |-> i - 1])
  BY <1>1 DEF Ordered
<1>4. <<>> \in Seq(Nodes) /\ Ordered(<<>>) /\ Elems(<<>>) = {}
  BY DEF Ordered, Elems
<1>5. [n \in Nodes |-> BlankNode] \in [Nodes -> Node]
  BY DEF BlankNode, Node
<1> QED BY <1>2, <1>3, <1>4, <1>5 DEF InitPool, PoolType, PoolOK

\* new_wp on a pool with a free node keeps the lists sound; a node in use is
\* the new one with its expression, or was in use and is as it was.
LEMMA NewWpOK ==
  ASSUME NEW pool \in PoolType, PoolOK(pool), CanAdd(pool), NEW e \in Nat, NEW v \in Nat
  PROVE  /\ NewWp(pool, e, v) \in PoolType
         /\ PoolOK(NewWp(pool, e, v))
         /\ \A n \in Elems(NewWp(pool, e, v).head) :
              \/ NewWp(pool, e, v).node[n].what = e
              \/ n \in Elems(pool.head) /\ NewWp(pool, e, v).node[n] = pool.node[n]
<1> DEFINE n == Head(pool.free)
           new == NewWp(pool, e, v)
<1>1. pool.head \in Seq(Nodes) /\ pool.free \in Seq(Nodes) /\ pool.node \in [Nodes -> Node]
  BY DEF PoolType
<1>2. n \in Nodes /\ n \in Elems(pool.free) /\ n \notin Elems(pool.head)
  <2>1. n \in Nodes /\ n \in Elems(pool.free)
    BY <1>1 DEF CanAdd, Elems
  <2> QED BY <2>1 DEF PoolOK
<1>3. /\ Tail(pool.free) \in Seq(Nodes) /\ Ordered(Tail(pool.free))
      /\ Elems(Tail(pool.free)) \subseteq Elems(pool.free) \ {n}
  <2>1. /\ Tail(pool.free) \in Seq(Nodes) /\ Len(Tail(pool.free)) = Len(pool.free) - 1
        /\ \A i \in 1 .. Len(pool.free) - 1 : Tail(pool.free)[i] = pool.free[i + 1]
    BY <1>1 DEF CanAdd
  <2>2. Ordered(pool.free) /\ Nodes \subseteq Nat /\ Len(pool.free) \in Nat
    BY <1>1, NRWPAssumption DEF PoolOK, Nodes
  <2>3. Ordered(Tail(pool.free))
    BY <1>1, <2>1, <2>2 DEF Ordered
  <2>4. \A i \in 1 .. Len(pool.free) - 1 : pool.free[i + 1] # n
    <3>1. n = pool.free[1] /\ 1 \in DOMAIN pool.free
      BY <1>1 DEF CanAdd
    <3> HIDE DEF n, new
    <3>2. ASSUME NEW j \in DOMAIN pool.free PROVE pool.free[j] \in Nat
      <4>1. pool.free[j] \in Nodes
        BY <1>1
      <4> QED BY <2>2, <4>1
    <3> SUFFICES ASSUME NEW i \in 1 .. Len(pool.free) - 1 PROVE pool.free[i + 1] # n
      OBVIOUS
    <3>3. i + 1 \in DOMAIN pool.free /\ 1 < i + 1
      BY <1>1, <2>2
    <3>4. pool.free[1] < pool.free[i + 1]
      BY <2>2, <3>1, <3>3 DEF Ordered
    <3> QED BY <3>1, <3>2, <3>3, <3>4
  <2>5. Elems(Tail(pool.free)) \subseteq Elems(pool.free) \ {n}
    <3> SUFFICES ASSUME NEW i \in DOMAIN Tail(pool.free)
                 PROVE  Tail(pool.free)[i] \in Elems(pool.free) \ {n}
      BY DEF Elems
    <3>1. i \in 1 .. Len(pool.free) - 1 /\ i + 1 \in DOMAIN pool.free
      BY <1>1, <2>1
    <3> QED BY <2>1, <2>4, <3>1 DEF Elems
  <2> QED BY <2>1, <2>3, <2>5
<1>4. /\ InsertByNO(pool.head, n) \in Seq(Nodes) /\ Ordered(InsertByNO(pool.head, n))
      /\ Elems(InsertByNO(pool.head, n)) = Elems(pool.head) \cup {n}
  BY <1>1, <1>2, InsertOK DEF PoolOK
<1>5. /\ new.head = InsertByNO(pool.head, n) /\ new.free = Tail(pool.free)
      /\ new.node = [pool.node EXCEPT ![n] = [what |-> e, value |-> v, trigger |-> @.trigger]]
      /\ new = [head |-> new.head, free |-> new.free, node |-> new.node]
  BY <1>1, <1>2 DEF NewWp
<1> HIDE DEF n, new
<1>6. new.node \in [Nodes -> Node] /\ new.node[n].what = e
      /\ \A m \in Nodes \ {n} : new.node[m] = pool.node[m]
  <2>1. pool.node[n] \in Node
    BY <1>1, <1>2
  <2>2. [what |-> e, value |-> v, trigger |-> pool.node[n].trigger] \in Node
    BY <2>1 DEF Node
  <2> QED BY <1>1, <1>2, <1>5, <2>2
<1>7. new \in PoolType
  BY <1>3, <1>4, <1>5, <1>6 DEF PoolType
<1>8. PoolOK(new)
  BY <1>2, <1>3, <1>4, <1>5, <1>6 DEF PoolOK
<1>9. Elems(new.head) \subseteq Elems(pool.head) \cup {n} /\ Elems(pool.head) \subseteq Nodes
  <2>1. Elems(pool.head) \subseteq Nodes
    BY <1>1 DEF Elems
  <2> QED BY <1>4, <1>5, <2>1
<1>10. \A m \in Elems(new.head) : \/ new.node[m].what = e
                                  \/ m \in Elems(pool.head) /\ new.node[m] = pool.node[m]
  BY <1>2, <1>6, <1>9
<1> QED BY <1>7, <1>8, <1>10 DEF new

\* free_wp of a node in use keeps the lists sound, also when no node was free
\* (the node is then in neither list), and touches no other node in use.
LEMMA FreeWpOK ==
  ASSUME NEW pool \in PoolType, PoolOK(pool), NEW n, InUse(pool, n)
  PROVE  /\ FreeWp(pool, n) \in PoolType
         /\ PoolOK(FreeWp(pool, n))
         /\ \A m \in Elems(FreeWp(pool, n).head) :
              m \in Elems(pool.head) /\ FreeWp(pool, n).node[m] = pool.node[m]
<1> DEFINE new == FreeWp(pool, n)
<1>1. pool.head \in Seq(Nodes) /\ pool.free \in Seq(Nodes) /\ pool.node \in [Nodes -> Node]
  BY DEF PoolType
<1>2. n \in Elems(pool.head) /\ n \in Nodes /\ n \notin Elems(pool.free)
  <2>1. n \in Elems(pool.head)
    BY DEF InUse
  <2>2. n \in Nodes
    BY <1>1, <2>1 DEF Elems
  <2> QED BY <2>1, <2>2 DEF PoolOK
<1>3. /\ Unlink(pool.head, n) \in Seq(Nodes) /\ Ordered(Unlink(pool.head, n))
      /\ Elems(Unlink(pool.head, n)) = Elems(pool.head) \ {n}
  BY <1>1, <1>2, UnlinkOK DEF PoolOK
<1>4. /\ new.head = Unlink(pool.head, n)
      /\ new.free = IF pool.free = <<>> THEN <<>> ELSE InsertByNO(pool.free, n)
      /\ new.node = [pool.node EXCEPT ![n] = [what |-> 0, value |-> 0, trigger |-> @.trigger]]
      /\ new = [head |-> new.head, free |-> new.free, node |-> new.node]
  BY <1>1, <1>2 DEF FreeWp
<1>5. /\ new.free \in Seq(Nodes) /\ Ordered(new.free)
      /\ Elems(new.free) \subseteq Elems(pool.free) \cup {n}
  <2>1. CASE pool.free = <<>>
    BY <1>4, <2>1 DEF Ordered, Elems
  <2>2. CASE pool.free # <<>>
    BY <1>1, <1>2, <1>4, <2>2, InsertOK DEF PoolOK
  <2> QED BY <2>1, <2>2
<1> HIDE DEF new
<1>6. new.node \in [Nodes -> Node] /\ \A m \in Nodes \ {n} : new.node[m] = pool.node[m]
  <2>1. pool.node[n] \in Node
    BY <1>1, <1>2
  <2>2. [what |-> 0, value |-> 0, trigger |-> pool.node[n].trigger] \in Node
    BY <2>1 DEF Node
  <2> QED BY <1>1, <1>2, <1>4, <2>2
<1>7. new \in PoolType
  BY <1>3, <1>4, <1>5, <1>6 DEF PoolType
<1>8. PoolOK(new)
  <2>1. Elems(new.head) \cap Elems(new.free) = {}
    BY <1>3, <1>4, <1>5 DEF PoolOK
  <2> QED BY <1>3, <1>4, <1>5, <1>6, <2>1 DEF PoolOK
<1>9. Elems(pool.head) \subseteq Nodes
  BY <1>1 DEF Elems
<1>10. \A m \in Elems(new.head) : m \in Elems(pool.head) /\ new.node[m] = pool.node[m]
  BY <1>3, <1>4, <1>6, <1>9
<1> QED BY <1>7, <1>8, <1>10 DEF new

\* check_diff over the list (watchpoint.cpp:127-140, cpu-exec.cpp:74-88)
\* changes values and triggers only: lists and expressions stay.
LEMMA CheckDiffOK ==
  ASSUME NEW pool \in PoolType, PoolOK(pool), NEW val,
         \A m \in Elems(pool.head) : val[pool.node[m].what] \in Nat
  PROVE  /\ CheckDiff(pool, val) \in PoolType
         /\ PoolOK(CheckDiff(pool, val))
         /\ CheckDiff(pool, val).head = pool.head
         /\ \A m \in Nodes : CheckDiff(pool, val).node[m].what = pool.node[m].what
<1> DEFINE new == CheckDiff(pool, val)
           M == Moved(pool, val)
           n == Hit(pool, val)
<1>1. CASE M = {}
  BY <1>1 DEF CheckDiff
<1>2. CASE M # {}
  <2>1. pool.head \in Seq(Nodes) /\ pool.free \in Seq(Nodes) /\ pool.node \in [Nodes -> Node]
    BY DEF PoolType
  <2>2. M \in SUBSET Nat /\ M \subseteq DOMAIN pool.head
    BY <2>1 DEF Moved
  <2>3. \E i \in M : \A j \in M : i <= j
    BY <1>2, <2>2, Least
  <2>4. n \in Elems(pool.head) /\ n \in Nodes
    BY <2>1, <2>2, <2>3 DEF Hit, Elems
  <2> HIDE DEF n, M
  <2> DEFINE node == Checked(pool.node[n], val)
  <2>5. pool.node[n] \in Node /\ val[pool.node[n].what] \in Nat
    BY <2>1, <2>4
  <2>6. node \in Node /\ node.what = pool.node[n].what
    BY <2>5 DEF Node, Checked
  <2>7. new = [head |-> pool.head, free |-> pool.free,
               node |-> [pool.node EXCEPT ![n] = node]]
    BY <1>2 DEF CheckDiff, M, n
  <2> HIDE DEF node, new
  <2>8. new \in PoolType /\ new.head = pool.head /\ new.free = pool.free
        /\ new.node = [pool.node EXCEPT ![n] = node]
    BY <2>1, <2>4, <2>6, <2>7 DEF PoolType
  <2>9. PoolOK(new)
    BY <2>8 DEF PoolOK, PoolType
  <2>10. \A m \in Nodes : new.node[m].what = pool.node[m].what
    BY <2>1, <2>4, <2>6, <2>8
  <2> QED BY <2>8, <2>9, <2>10 DEF new
<1> QED BY <1>1, <1>2


-----------------------------------------------------------------------------
(* The processes.                                                           *)

\* Where dump_wave returns to.
Resumes == {"reset", "main", "high", "count"}
\* The parts of a process's memory that the invariant speaks of.
Fields == {"at", "then", "state", "slots", "wp", "ev"}
\* A sound pool whose nodes in use watch known expressions.
Watching(pool) == /\ pool \in PoolType /\ PoolOK(pool)
                  /\ \A n \in Elems(pool.head) : pool.node[n].what \in Exprs
\* What holds of the memory of each process.
ProcOK(s) == /\ Fields \subseteq DOMAIN s
             /\ s.at \in Places /\ s.then \in Resumes /\ s.state \in States
             /\ s.slots \in Seq(Pids) /\ s.ev \in Nat /\ Watching(s.wp)
\* The same for a process that is not about to raise the flag.
Calm(s) == ProcOK(s) /\ s.at # "flag"

\* The counters behind the bounds exist, and process numbers start at 1.
BudgetOK == {"pid", "fails", "cmds", "ints"} \subseteq DOMAIN budget /\ budget.pid \in Nat \ {0}
\* The inductive invariant.  The second conjunct of its last line is why a
\* raised flag implies notgood: wakeup_child writes notgood first
\* (lightsss.cpp:96-97), and whoever is about to raise the flag has done so.
IInv == /\ dut \in Duts
        /\ BudgetOK
        /\ {"flag", "notgood"} \subseteq DOMAIN shm
        /\ shm.flag => shm.notgood
        /\ \A p \in DOMAIN proc : ProcOK(proc[p]) /\ (proc[p].at = "flag" => shm.notgood)

\* What a step must show of the processes when shm keeps its notgood.
Kept == \A q \in DOMAIN proc' : \/ Calm(proc'[q])
                                \/ q \in DOMAIN proc /\ proc'[q] = proc[q]

-----------------------------------------------------------------------------
\* An expression's value counts the retirements that changed it.
LEMMA ValNat ==
  ASSUME dut \in Duts, NEW k \in Nat, NEW e \in Exprs
  PROVE  Val(k)[e] \in Nat
<1>1. dut.change[e] \subseteq 1 .. Len(dut.kind) /\ Len(dut.kind) \in Nat
  BY SimulatorAssumption DEF DutOK
<1> DEFINE S == {i \in dut.change[e] : i <= k}
<1>2. IsFiniteSet(S)
  <2>1. S \in SUBSET Nat /\ \A i \in S : i <= k
    BY <1>1
  <2> HIDE DEF S
  <2> QED BY <2>1, FS_BoundedSetOfNaturals
<1>3. Cardinality(S) \in Nat
  BY <1>2, FS_CardinalityType
<1> QED BY <1>3 DEF Val

\* The tail of dump_wave goes on at the place it was called from.
LEMMA DumpedOK ==
  ASSUME NEW s, ProcOK(s), NEW next \in Resumes
  PROVE  Calm(Dumped(s, next))
BY DEF ProcOK, Calm, Dumped, Fields, Resumes, Places, States

\* A clock edge keeps the parts the invariant speaks of.
LEMMA PosedgeOK ==
  ASSUME NEW s, ProcOK(s)
  PROVE  ProcOK(Posedge(s))
BY DEF ProcOK, Posedge, Fields, Resumes, Places, States

\* divide_condition's counter is none of them.
LEMMA CountedOK ==
  ASSUME NEW s, ProcOK(s)
  PROVE  ProcOK(Counted(s)) /\ Counted(s).slots = s.slots
BY DEF ProcOK, Counted, Fields, Resumes, Places, States

\* Back at the prompt, or at the exit in batch mode.
LEMMA ReturnOK ==
  ASSUME NEW s, ProcOK(s)
  PROVE  Calm(Return(s))
BY DEF ProcOK, Calm, Return, Fields, Resumes, Places, States

\* The start of exec_once.
LEMMA ExecOnceOK ==
  ASSUME NEW s, ProcOK(s)
  PROVE  Calm(ExecOnce(s))
BY DEF ProcOK, Calm, ExecOnce, Fields, Resumes, Places, States

\* cpu_exec up to its first exec_once, or its early return.
LEMMA CpuExecOK ==
  ASSUME NEW s, ProcOK(s), NEW n
  PROVE  Calm(CpuExec(s, n))
<1> DEFINE t == [s EXCEPT !.n = n, !.state = "RUNNING",
                          !.sigint = IF batch THEN "clear" ELSE "stop"]
<1>1. ProcOK(t)
  BY DEF ProcOK, Fields, Resumes, Places, States
<1> HIDE DEF t
<1>2. Calm(ExecOnce(t)) /\ Calm(Return(s))
  BY <1>1, ExecOnceOK, ReturnOK
<1> QED BY <1>2 DEF CpuExec, t

\* The end of a simulated cycle.
LEMMA TickedOK ==
  ASSUME NEW s, ProcOK(s)
  PROVE  Calm(Ticked(s))
BY DEF ProcOK, Calm, Ticked, Fields, Resumes, Places, States

\* difftest_step changes the reference and the state only.
LEMMA ComparedOK ==
  ASSUME NEW s, ProcOK(s)
  PROVE  ProcOK(Compared(s))
BY DEF ProcOK, Compared, Fields, Resumes, Places, States

\* The walk over the watchpoints keeps the pool sound.
LEMMA WatchedOK ==
  ASSUME NEW s, ProcOK(s), dut \in Duts
  PROVE  ProcOK(Watched(s))
<1>1. \A n \in Elems(s.wp.head) : Val(s.ev)[s.wp.node[n].what] \in Nat
  BY ValNat DEF ProcOK, Watching
<1>2. /\ CheckDiff(s.wp, Val(s.ev)) \in PoolType
      /\ PoolOK(CheckDiff(s.wp, Val(s.ev)))
      /\ CheckDiff(s.wp, Val(s.ev)).head = s.wp.head
      /\ \A m \in Nodes : CheckDiff(s.wp, Val(s.ev)).node[m].what = s.wp.node[m].what
  BY <1>1, CheckDiffOK DEF ProcOK, Watching
<1>3. Elems(s.wp.head) \subseteq Nodes
  BY DEF ProcOK, Watching, PoolType, Elems
<1>4. Watching(CheckDiff(s.wp, Val(s.ev)))
  BY <1>2, <1>3 DEF ProcOK, Watching
<1> QED BY <1>4 DEF ProcOK, Watched, Fields, Resumes, Places, States

\* trace_and_difftest and the return to cpu_exec's loop.
LEMMA TracedOK ==
  ASSUME NEW s, ProcOK(s), dut \in Duts
  PROVE  Calm(Traced(s))
<1> DEFINE t == Watched(Compared(s))
<1>1. ProcOK(t)
  BY ComparedOK, WatchedOK
<1> HIDE DEF t
<1>2. Calm(ExecOnce(t)) /\ Calm([t EXCEPT !.at = "leave"])
  BY <1>1, ExecOnceOK DEF ProcOK, Calm, Fields, Resumes, Places, States
<1> QED BY <1>2 DEF Traced, t

\* The end of cpu_exec.
LEMMA LeftOK ==
  ASSUME NEW s, ProcOK(s)
  PROVE  Calm(Left(s))
<1> DEFINE t == [s EXCEPT !.sigint = "default"]
           u == [t EXCEPT !.state = IF @ = "RUNNING" THEN "STOP" ELSE @]
           v == [t EXCEPT !.at = IF s.kid THEN "exit" ELSE "wake"]
<1>1. ProcOK(t)
  BY DEF ProcOK, Fields, Resumes, Places, States
<1> HIDE DEF t
<1>2. ProcOK(u)
  BY <1>1 DEF ProcOK, Fields, Resumes, Places, States
<1>3. Calm(v)
  BY <1>1 DEF ProcOK, Calm, Fields, Resumes, Places, States
<1> HIDE DEF u
<1>4. Calm(Return(u))
  BY <1>2, ReturnOK
<1> QED BY <1>3, <1>4 DEF Left, t, u

-----------------------------------------------------------------------------
\* A step of one process leaves the others as they are.
LEMMA BecomeOK ==
  ASSUME NEW p \in DOMAIN proc, NEW s, Calm(s), Become(p, s)
  PROVE  Kept
BY DEF Become, Kept

\* dump_wave in all its outcomes: no snapshot due, a fork, a failed fork.
\* A forked child holds a copy of the parent's memory, so it is sound as well.
LEMMA DumpWaveOK ==
  ASSUME IInv, NEW p \in DOMAIN proc, NEW s, ProcOK(s), NEW next \in Resumes,
         DumpWave(p, s, next)
  PROVE  Kept /\ BudgetOK'
<1> DEFINE c    == Counted(s)
           left == Without(Victims(c))
           par  == [c EXCEPT !.slots = Shift(c)]
           kid  == [par EXCEPT !.kid = TRUE, !.at = "shwait", !.then = next]
           told == [par EXCEPT !.slots = <<NewPid>> \o @]
<1>1. ProcOK(c)
  BY CountedOK
<1>2. Calm(Dumped(c, next))
  BY <1>1, DumpedOK
<1> HIDE DEF c
<1>3. Shift(c) \in Seq(Pids)
  <2>1. c.slots \in Seq(Pids)
    BY <1>1 DEF ProcOK
  <2>2. SLOT_SIZE \in Nat \ {0}
    BY SimulatorAssumption
  <2>3. CASE Len(c.slots) = SLOT_SIZE
    <3>1. \A i \in 1 .. Len(c.slots) - 1 : c.slots[i] \in Pids
      BY <2>1
    <3>2. SubSeq(c.slots, 1, Len(c.slots) - 1) \in Seq(Pids)
      BY <2>1, <2>2, <2>3, <3>1, SubSeqProperties
    <3> QED BY <2>3, <3>2 DEF Shift, Full
  <2>4. CASE Len(c.slots) # SLOT_SIZE
    BY <2>1, <2>4 DEF Shift, Full
  <2> QED BY <2>3, <2>4
<1>4. ProcOK(par)
  BY <1>1, <1>3 DEF ProcOK, Fields
<1> HIDE DEF par
<1>5. Calm(kid)
  BY <1>4 DEF ProcOK, Calm, Fields, Places
<1>7. DumpWave(p, s, next) =>
        \/ Become(p, Dumped(c, next)) /\ UNCHANGED budget
        \/ /\ NewPid <= MaxPid
           /\ proc' = [q \in DOMAIN left \cup {NewPid} |->
                         IF q = NewPid THEN kid
                         ELSE IF q = p THEN Dumped(told, next) ELSE left[q]]
           /\ budget' = [budget EXCEPT !.pid = @ + 1]
        \/ /\ proc' = [left EXCEPT ![p] = Dumped(par, next)]
           /\ budget' = [budget EXCEPT !.fails = @ - 1]
  BY DEF DumpWave, c, par
<1>8. \A q \in DOMAIN left : q \in DOMAIN proc /\ left[q] = proc[q]
  BY DEF Without
<1> HIDE DEF left, kid
<1>9. CASE Become(p, Dumped(c, next)) /\ UNCHANGED budget
  <2>1. Kept
    BY <1>2, <1>9, BecomeOK
  <2> QED BY <2>1, <1>9 DEF IInv, BudgetOK
<1>10. CASE /\ NewPid <= MaxPid
            /\ proc' = [q \in DOMAIN left \cup {NewPid} |->
                          IF q = NewPid THEN kid
                          ELSE IF q = p THEN Dumped(told, next) ELSE left[q]]
            /\ budget' = [budget EXCEPT !.pid = @ + 1]
  <2>1. NewPid \in Pids
    BY <1>10, SimulatorAssumption DEF IInv, BudgetOK, NewPid, Pids
  <2>2. ProcOK(told)
    <3>1. par.slots \in Seq(Pids) /\ <<NewPid>> \in Seq(Pids)
      BY <1>4, <2>1 DEF ProcOK
    <3>2. <<NewPid>> \o par.slots \in Seq(Pids)
      BY <3>1, ConcatProperties
    <3> QED BY <1>4, <3>2 DEF ProcOK, Fields
  <2> HIDE DEF told
  <2>3. Calm(Dumped(told, next))
    BY <2>2, DumpedOK
  <2>4. Kept
    BY <1>5, <1>8, <1>10, <2>3 DEF Kept
  <2>5. BudgetOK'
    BY <1>10 DEF IInv, BudgetOK
  <2> QED BY <2>4, <2>5
<1>11. CASE /\ proc' = [left EXCEPT ![p] = Dumped(par, next)]
            /\ budget' = [budget EXCEPT !.fails = @ - 1]
  <2>1. Calm(Dumped(par, next))
    BY <1>4, DumpedOK
  <2>2. Kept
    BY <1>8, <1>11, <2>1 DEF Kept
  <2>3. BudgetOK'
    BY <1>11 DEF IInv, BudgetOK
  <2> QED BY <2>2, <2>3
<1> QED BY <1>7, <1>9, <1>10, <1>11

-----------------------------------------------------------------------------
\* What every step but the flag's keeps.
LEMMA KeptInv ==
  ASSUME IInv, Kept, BudgetOK', dut' = dut, shm' = shm
  PROVE  IInv'
BY DEF IInv, Kept, Calm, ProcOK, Watching, PoolType, PoolOK

\* The invariant implies the types and the soundness of every pool.
LEMMA TypeOKFromIInv == IInv => TypeOK
BY DEF IInv, ProcOK, Watching, TypeOK

\* A process that only moves on stays sound.
LEMMA ExceptOK ==
  ASSUME NEW s, ProcOK(s), NEW at \in Places \ {"flag"}
  PROVE  Calm([s EXCEPT !.at = at])
BY DEF ProcOK, Calm, Fields, Places

\* Steps of a process that runs the design.
LEMMA RunStep ==
  ASSUME IInv, NEW p \in DOMAIN proc,
         ResetHalf(p) \/ MainLoop(p) \/ Low(p) \/ High(p) \/ Count(p) \/ Trace(p) \/ Leave(p)
  PROVE  IInv'
<1> DEFINE s == proc[p]
<1>1. ProcOK(s) /\ BudgetOK
  BY DEF IInv
<1> HIDE DEF s
<1>2. CASE ResetHalf(p)
  <2> DEFINE t == [s EXCEPT !.resets = @ - 1]
             next == IF t.resets = 0 THEN "main" ELSE "reset"
  <2>1. ProcOK(t)
    BY <1>1 DEF ProcOK, Fields
  <2>2. DumpWave(p, t, next) /\ dut' = dut /\ shm' = shm
    BY <1>2 DEF ResetHalf, config, s
  <2>3. next \in Resumes
    BY DEF Resumes
  <2> HIDE DEF t, next
  <2> QED BY <2>1, <2>2, <2>3, DumpWaveOK, KeptInv
<1>3. CASE MainLoop(p)
  <2> DEFINE t == [s EXCEPT !.diff = InitDiff]
             u == [s EXCEPT !.diff = InitDiff, !.at = "prompt"]
  <2>1. ProcOK(t) /\ Calm(u)
    BY <1>1 DEF ProcOK, Calm, Fields, Places
  <2>2. Become(p, IF batch THEN CpuExec(t, Forever) ELSE u)
        /\ dut' = dut /\ shm' = shm /\ budget' = budget
    BY <1>3 DEF MainLoop, config, s
  <2> HIDE DEF t, u
  <2>3. Kept
    BY <2>1, <2>2, CpuExecOK, BecomeOK
  <2> QED BY <1>1, <2>2, <2>3, KeptInv DEF BudgetOK
<1>4. CASE Low(p)
  <2>1. DumpWave(p, s, "high") /\ dut' = dut /\ shm' = shm
    BY <1>4 DEF Low, config, s
  <2> QED BY <1>1, <2>1, DumpWaveOK, KeptInv DEF Resumes
<1>5. CASE High(p)
  <2>1. DumpWave(p, Posedge(s), "count") /\ dut' = dut /\ shm' = shm
    BY <1>5 DEF High, config, s
  <2>2. ProcOK(Posedge(s))
    BY <1>1, PosedgeOK
  <2> QED BY <2>1, <2>2, DumpWaveOK, KeptInv DEF Resumes
<1>6. CASE Count(p)
  <2>1. Become(p, Ticked(s)) /\ dut' = dut /\ shm' = shm /\ budget' = budget
    BY <1>6 DEF Count, config, s
  <2>2. Kept
    BY <1>1, <2>1, TickedOK, BecomeOK
  <2> QED BY <1>1, <2>1, <2>2, KeptInv DEF BudgetOK
<1>7. CASE Trace(p)
  <2>1. Become(p, Traced(s)) /\ dut' = dut /\ shm' = shm /\ budget' = budget
    BY <1>7 DEF Trace, config, s
  <2>2. Kept
    BY <1>1, <2>1, TracedOK, BecomeOK DEF IInv
  <2> QED BY <1>1, <2>1, <2>2, KeptInv DEF BudgetOK
<1>8. CASE Leave(p)
  <2>1. Become(p, Left(s)) /\ dut' = dut /\ shm' = shm /\ budget' = budget
    BY <1>8 DEF Leave, config, s
  <2>2. Kept
    BY <1>1, <2>1, LeftOK, BecomeOK
  <2> QED BY <1>1, <2>1, <2>2, KeptInv DEF BudgetOK
<1> QED BY <1>2, <1>3, <1>4, <1>5, <1>6, <1>7, <1>8

\* A step that removes processes and moves p on, as far as it is still there.
LEMMA MovedOn ==
  ASSUME IInv, NEW S, NEW p, NEW v,
         p \in DOMAIN proc \ S => Calm(v),
         proc' = [Without(S) EXCEPT ![p] = v]
  PROVE  Kept
BY DEF Kept, Without

\* Steps of LightSSS: waiting, waking, replaying and cleaning up.
LEMMA SnapshotStep ==
  ASSUME IInv, NEW p \in DOMAIN proc,
         Wake(p) \/ WakeOldest(p) \/ NotGood(p) \/ Flag(p) \/ WaitPid(p) \/ Clear(p)
  PROVE  IInv'
<1> DEFINE s == proc[p]
<1>1. ProcOK(s) /\ BudgetOK
  BY DEF IInv
<1> HIDE DEF s
<1>2. CASE Wake(p)
  <2> DEFINE t == [s EXCEPT !.wave = (shm.oldest = p)]
  <2>1. ProcOK(t) /\ s.then \in Resumes
    BY <1>1 DEF ProcOK, Fields
  <2>2. Become(p, IF ~ shm.notgood THEN [s EXCEPT !.at = "exit"] ELSE Dumped(t, s.then))
        /\ dut' = dut /\ shm' = shm /\ budget' = budget
    BY <1>2 DEF Wake, config, s
  <2> HIDE DEF t
  <2>3. Calm([s EXCEPT !.at = "exit"]) /\ Calm(Dumped(t, s.then))
    BY <1>1, <2>1, ExceptOK, DumpedOK DEF Places
  <2>4. Kept
    BY <2>2, <2>3, BecomeOK
  <2> QED BY <1>1, <2>2, <2>4, KeptInv DEF BudgetOK
<1>3. CASE WakeOldest(p)
  <2>1. dut' = dut /\ budget' = budget
    BY <1>3 DEF WakeOldest, config
  <2>2. \/ shm' = shm
        \/ \E end, oldest : shm' = [shm EXCEPT !.end = end, !.oldest = oldest]
    BY <1>3 DEF WakeOldest
  <2>3. \/ proc' = [Without(Elems(s.slots) \ {Target(s)}) EXCEPT ![p].at = "notgood"]
        \/ Become(p, [s EXCEPT !.at = "dead"])
    BY <1>3 DEF WakeOldest, s
  <2>4. Calm([s EXCEPT !.at = "notgood"]) /\ Calm([s EXCEPT !.at = "dead"])
    BY <1>1, ExceptOK DEF Places
  <2>5. ASSUME proc' = [Without(Elems(s.slots) \ {Target(s)}) EXCEPT ![p].at = "notgood"]
        PROVE  Kept
    <3> DEFINE S == Elems(s.slots) \ {Target(s)}
    <3>1. proc' = [Without(S) EXCEPT ![p] = [Without(S)[p] EXCEPT !.at = "notgood"]]
      BY <2>5
    <3>2. p \in DOMAIN proc \ S => Without(S)[p] = s
      BY DEF Without, s
    <3> HIDE DEF S
    <3> QED BY <2>4, <3>1, <3>2, MovedOn
  <2>6. Kept
    BY <2>3, <2>4, <2>5, BecomeOK
  <2>7. {"flag", "notgood"} \subseteq DOMAIN shm' /\ shm'.flag = shm.flag /\ shm'.notgood = shm.notgood
    BY <2>2 DEF IInv
  <2> QED BY <1>1, <2>1, <2>6, <2>7 DEF IInv, BudgetOK, Kept, Calm
<1>4. CASE NotGood(p)
  <2>1. /\ shm' = [shm EXCEPT !.notgood = TRUE] /\ Become(p, [s EXCEPT !.at = "flag"])
        /\ dut' = dut /\ budget' = budget
    BY <1>4 DEF NotGood, config, s
  <2>2. ProcOK([s EXCEPT !.at = "flag"])
    BY <1>1 DEF ProcOK, Fields, Places
  <2>3. shm'.notgood /\ {"flag", "notgood"} \subseteq DOMAIN shm'
    BY <2>1 DEF IInv
  <2>4. \A q \in DOMAIN proc' : ProcOK(proc'[q])
    BY <2>1, <2>2 DEF IInv, Become
  <2> QED BY <1>1, <2>1, <2>3, <2>4 DEF IInv, BudgetOK
<1>5. CASE Flag(p)
  <2>1. /\ shm' = [shm EXCEPT !.flag = TRUE] /\ Become(p, [s EXCEPT !.at = "waitpid"])
        /\ dut' = dut /\ budget' = budget /\ s.at = "flag"
    BY <1>5 DEF Flag, Is, config, s
  <2>2. Kept
    BY <1>1, <2>1, ExceptOK, BecomeOK DEF Places
  <2>3. shm.notgood /\ shm'.notgood = shm.notgood /\ {"flag", "notgood"} \subseteq DOMAIN shm'
    BY <2>1 DEF IInv, s
  <2> QED BY <1>1, <2>1, <2>2, <2>3 DEF IInv, BudgetOK, Kept, Calm
<1>6. CASE WaitPid(p)
  <2> DEFINE S == {Target(s)}
  <2>1. /\ proc' = [Without(S) EXCEPT ![p].at = "clear"]
        /\ dut' = dut /\ shm' = shm /\ budget' = budget
    BY <1>6 DEF WaitPid, config, s
  <2>2. proc' = [Without(S) EXCEPT ![p] = [Without(S)[p] EXCEPT !.at = "clear"]]
    BY <2>1
  <2>3. p \in DOMAIN proc \ S => Without(S)[p] = s
    BY DEF Without, s
  <2>4. Calm([s EXCEPT !.at = "clear"])
    BY <1>1, ExceptOK DEF Places
  <2> HIDE DEF S
  <2>5. Kept
    BY <2>2, <2>3, <2>4, MovedOn
  <2> QED BY <1>1, <2>1, <2>5, KeptInv DEF BudgetOK
<1>7. CASE Clear(p)
  <2> DEFINE S == Elems(s.slots)
             t == [s EXCEPT !.slots = <<>>]
  <2>1. /\ proc' = [Without(S) EXCEPT ![p] = Return([@ EXCEPT !.slots = <<>>])]
        /\ dut' = dut /\ shm' = shm /\ budget' = budget
    BY <1>7 DEF Clear, config, s
  <2>2. p \in DOMAIN proc \ S => Without(S)[p] = s
    BY DEF Without, s
  <2>3. ProcOK(t)
    BY <1>1 DEF ProcOK, Fields
  <2>4. Calm(Return(t))
    BY <2>3, ReturnOK
  <2> HIDE DEF S
  <2>5. Kept
    BY <2>1, <2>2, <2>4, MovedOn
  <2> QED BY <1>1, <2>1, <2>5, KeptInv DEF BudgetOK
<1> QED BY <1>2, <1>3, <1>4, <1>5, <1>6, <1>7

\* Commands at the prompt, the watchpoint commands w and d included.
LEMMA CommandStep ==
  ASSUME IInv, NEW p \in DOMAIN proc, Command(p)
  PROVE  IInv'
<1> DEFINE s == proc[p]
<1>1. ProcOK(s) /\ BudgetOK /\ dut \in Duts
  BY DEF IInv
<1>2. /\ \/ Types(p, CpuExec(s, Forever))
         \/ \E k \in StepCounts : Types(p, CpuExec(s, k))
         \/ Types(p, [s EXCEPT !.state = "QUIT", !.at = "exit"])
         \/ Types(p, [s EXCEPT !.at = "exit"])
         \/ CanAdd(s.wp) /\ \E e \in Exprs : Types(p, [s EXCEPT !.wp = NewWp(@, e, Val(s.ev)[e])])
         \/ \E n \in 0 .. NR_WP : Types(p, IF InUse(s.wp, n) THEN [s EXCEPT !.wp = FreeWp(@, n)]
                                           ELSE [s EXCEPT !.at = "dead"])
      /\ dut' = dut /\ shm' = shm /\ s.at = "prompt"
  BY DEF Command, config, Is
<1> HIDE DEF s
<1>3. \E t : Calm(t) /\ Types(p, t)
  <2>1. \A n : Calm(CpuExec(s, n))
    BY <1>1, CpuExecOK
  <2>2. Calm([s EXCEPT !.at = "exit"]) /\ Calm([s EXCEPT !.at = "dead"])
    BY <1>1, ExceptOK DEF Places
  <2>3. Calm([s EXCEPT !.state = "QUIT", !.at = "exit"])
    BY <1>1 DEF ProcOK, Calm, Fields, Places, States
  <2>4. ASSUME NEW pool, Watching(pool)
        PROVE  Calm([s EXCEPT !.wp = pool])
    BY <1>1, <1>2, <2>4 DEF ProcOK, Calm, Fields, Places
  <2>5. ASSUME NEW e \in Exprs, CanAdd(s.wp)
        PROVE  Watching(NewWp(s.wp, e, Val(s.ev)[e]))
    <3>1. Val(s.ev)[e] \in Nat /\ e \in Nat
      BY <1>1, ValNat, SimulatorAssumption DEF ProcOK
    <3> DEFINE v == Val(s.ev)[e]
    <3> HIDE DEF v
    <3>2. /\ NewWp(s.wp, e, v) \in PoolType
          /\ PoolOK(NewWp(s.wp, e, v))
          /\ \A n \in Elems(NewWp(s.wp, e, v).head) :
               \/ NewWp(s.wp, e, v).node[n].what = e
               \/ n \in Elems(s.wp.head) /\ NewWp(s.wp, e, v).node[n] = s.wp.node[n]
      BY <1>1, <2>5, <3>1, NewWpOK DEF ProcOK, Watching, v
    <3>3. Watching(NewWp(s.wp, e, v))
      BY <1>1, <3>2 DEF ProcOK, Watching
    <3> QED BY <3>3 DEF v
  <2>6. ASSUME NEW n, InUse(s.wp, n)
        PROVE  Watching(FreeWp(s.wp, n))
    <3>1. /\ FreeWp(s.wp, n) \in PoolType
          /\ PoolOK(FreeWp(s.wp, n))
          /\ \A m \in Elems(FreeWp(s.wp, n).head) :
               m \in Elems(s.wp.head) /\ FreeWp(s.wp, n).node[m] = s.wp.node[m]
      BY <1>1, <2>6, FreeWpOK DEF ProcOK, Watching
    <3> QED BY <1>1, <3>1 DEF ProcOK, Watching
  <2>7. CASE CanAdd(s.wp) /\ \E e \in Exprs : Types(p, [s EXCEPT !.wp = NewWp(@, e, Val(s.ev)[e])])
    <3>1. PICK e \in Exprs : Types(p, [s EXCEPT !.wp = NewWp(@, e, Val(s.ev)[e])])
      BY <2>7
    <3>2. Calm([s EXCEPT !.wp = NewWp(s.wp, e, Val(s.ev)[e])])
      BY <2>4, <2>5, <2>7
    <3> QED BY <3>1, <3>2
  <2>8. CASE \E n \in 0 .. NR_WP : Types(p, IF InUse(s.wp, n) THEN [s EXCEPT !.wp = FreeWp(@, n)]
                                            ELSE [s EXCEPT !.at = "dead"])
    <3>1. PICK n \in 0 .. NR_WP :
            Types(p, IF InUse(s.wp, n) THEN [s EXCEPT !.wp = FreeWp(@, n)]
                     ELSE [s EXCEPT !.at = "dead"])
      BY <2>8
    <3>2. InUse(s.wp, n) => Calm([s EXCEPT !.wp = FreeWp(s.wp, n)])
      BY <2>4, <2>6
    <3> QED BY <2>2, <3>1, <3>2
  <2> QED BY <1>2, <2>1, <2>2, <2>3, <2>7, <2>8
<1>4. PICK t : Calm(t) /\ Types(p, t)
  BY <1>3
<1>5. Kept
  BY <1>4, BecomeOK DEF Types
<1>6. BudgetOK'
  BY <1>1, <1>4 DEF Types, BudgetOK
<1> QED BY <1>2, <1>5, <1>6, KeptInv

\* Ctrl-C reaches all processes: each stops, dies or vanishes.
LEMMA CtrlCStep ==
  ASSUME IInv, CtrlC
  PROVE  IInv'
<1>1. dut' = dut /\ shm' = shm /\ BudgetOK'
  BY DEF CtrlC, config, IInv, BudgetOK
<1>2. PICK live, gone :
        proc' = [q \in DOMAIN proc \ gone |->
                   IF q \in live
                   THEN [proc[q] EXCEPT !.state = "STOP", !.sigint = "default"]
                   ELSE IF Ended(q) THEN proc[q]
                   ELSE [proc[q] EXCEPT !.at = "dead"]]
  BY DEF CtrlC
<1>3. \A q \in DOMAIN proc :
        /\ ProcOK([proc[q] EXCEPT !.state = "STOP", !.sigint = "default"])
        /\ [proc[q] EXCEPT !.state = "STOP", !.sigint = "default"].at = proc[q].at
        /\ Calm([proc[q] EXCEPT !.at = "dead"])
  <2> SUFFICES ASSUME NEW q \in DOMAIN proc, ProcOK(proc[q])
               PROVE  /\ ProcOK([proc[q] EXCEPT !.state = "STOP", !.sigint = "default"])
                      /\ [proc[q] EXCEPT !.state = "STOP", !.sigint = "default"].at = proc[q].at
                      /\ Calm([proc[q] EXCEPT !.at = "dead"])
    BY DEF IInv
  <2> QED BY DEF ProcOK, Calm, Fields, Places, States
<1>4. \A q \in DOMAIN proc' : ProcOK(proc'[q]) /\ (proc'[q].at = "flag" => proc[q].at = "flag")
                             /\ q \in DOMAIN proc
  BY <1>2, <1>3 DEF IInv, Calm
<1> QED BY <1>1, <1>4 DEF IInv

\* The invariant holds when the simulator starts.
LEMMA InitIInv == Init => IInv
<1> SUFFICES ASSUME Init PROVE IInv
  OBVIOUS
<1>1. ProcOK(InitProc) /\ InitProc.at = "reset"
  <2>1. Watching(InitPool)
    BY InitPoolOK DEF Watching, Elems
  <2>2. <<>> \in Seq(Pids)
    OBVIOUS
  <2> QED BY <2>1, <2>2 DEF InitProc, ProcOK, Fields, Places, Resumes, States
<1>2. \A p \in DOMAIN proc : proc[p] = InitProc
  BY DEF Init
<1>3. BudgetOK
  BY DEF Init, BudgetOK, Parent
<1> QED BY <1>1, <1>2, <1>3 DEF Init, IInv

\* Every step keeps it.
LEMMA NextIInv == IInv /\ [Next]_vars => IInv'
<1> SUFFICES ASSUME IInv, [Next]_vars PROVE IInv'
  OBVIOUS
<1>1. CASE UNCHANGED vars
  BY <1>1 DEF vars, config, IInv, BudgetOK
<1>2. ASSUME NEW p \in DOMAIN proc, Step(p) PROVE IInv'
  BY <1>2, RunStep, SnapshotStep DEF Step
<1>3. ASSUME NEW p \in DOMAIN proc, Command(p) PROVE IInv'
  BY <1>3, CommandStep
<1>4. CASE CtrlC
  BY <1>4, CtrlCStep
<1> QED BY <1>1, <1>2, <1>3, <1>4 DEF Next

\* In every process, forked copies included, the watchpoint lists stay ordered
\* and share no node, the slots hold process numbers, and no snapshot sees the
\* wake-up flag before notgood.
THEOREM TypeCorrect == Spec => []TypeOK
<1>1. Init => IInv
  BY InitIInv
<1>2. IInv /\ [Next]_vars => IInv'
  BY NextIInv
<1>3. IInv => TypeOK
  BY TypeOKFromIInv
<1> QED BY <1>1, <1>2, <1>3, PTL DEF Spec

-----------------------------------------------------------------------------
(* The reference and the design it is compared with.                       *)
Rescue == {"wake", "notgood", "flag", "waitpid", "clear"}
\* Where a process is, or will be once it is woken.
Here(s) == IF s.at = "shwait" THEN s.then ELSE s.at
\* Only snapshots sleep and only they record waveforms; they wake nobody.
Image(s) == /\ s.wave => s.kid
            /\ s.at = "shwait" => s.kid /\ ~s.wave
            /\ s.kid => s.at \notin Rescue

\* The instructions the reference is behind the design.
Lag(s) == s.ev - s.diff.k
\* An instruction is in flight, or has retired and is not compared yet.
Flying(s, h) == h \in {"low", "high"} \/ (h = "count" /\ ~s.done)
Landed(s, h) == h = "trace" \/ (h = "count" /\ s.done)
\* The instructions that may have been left out: one in flight at each stop.
Given == IF batch THEN 1 ELSE MaxCmds - budget.cmds
Tracked(s, h, given) ==
  /\ h \in {"reset", "main"} => s.ev = 0 /\ s.diff.k = 0
  /\ batch => h # "prompt"
  /\ Lag(s) \in 0 .. given
  /\ Flying(s, h) => Lag(s) < given
  /\ Landed(s, h) => Lag(s) > 0
  /\ batch /\ Corrupt(s.ev) /\ (Flying(s, h) \/ h = "leave")
       => s.state # "RUNNING" \/ s.diff.ref = "bad"

Memory(s) ==
  /\ {"at", "then", "state", "slots", "ev", "done", "diff", "wave", "kid", "count"} \subseteq DOMAIN s
  /\ {"k", "ref", "skip", "intr"} \subseteq DOMAIN s.diff
  /\ s.done \in BOOLEAN /\ s.wave \in BOOLEAN /\ s.kid \in BOOLEAN
  /\ s.ev \in Nat /\ s.diff.k \in Nat
\* A process that goes on at h; one that records waveforms compares nothing.
Goes(s, h, given) == Memory(s) /\ (difftest /\ ~s.wave => Tracked(s, h, given))
Same(t, s) == t.wave = s.wave /\ t.kid = s.kid
Steady(s, given) == Goes(s, Here(s), given) /\ Image(s)

\* No step changes the design or the way the simulator was started.
LEMMA ConfigFixed ==
  ASSUME [Next]_vars
  PROVE  UNCHANGED config
<1>1. CASE Next
  <2>1. ASSUME NEW p \in DOMAIN proc, Step(p) \/ Command(p) PROVE UNCHANGED config
    BY <2>1 DEF Step, Command, ResetHalf, MainLoop, Low, High, Count, Trace, Leave, Wake, WakeOldest,
                NotGood, Flag, WaitPid, Clear
  <2>2. CtrlC => UNCHANGED config
    BY DEF CtrlC
  <2> QED BY <1>1, <2>1, <2>2 DEF Next
<1>2. CASE UNCHANGED vars
  BY <1>2 DEF vars
<1> QED BY <1>1, <1>2

\* What the design's port announces early leaves the reference where it is.
LEMMA IssueKeeps ==
  ASSUME NEW diff, NEW k, {"k", "ref", "skip", "intr"} \subseteq DOMAIN diff
  PROVE  /\ {"k", "ref", "skip", "intr"} \subseteq DOMAIN Issue(diff, k)
         /\ Issue(diff, k).k = diff.k /\ Issue(diff, k).ref = diff.ref
BY DEF Issue

\* A clock edge: the design retires at most one instruction more.
LEMMA PosedgeGoes ==
  ASSUME NEW s, NEW given \in Nat, Goes(s, "high", given)
  PROVE  Goes(Posedge(s), "count", given) /\ Same(Posedge(s), s)
<1> DEFINE t == Posedge(s)
           retires == s.ev < Events /\ s.window + 1 = dut.gap
<1>1. /\ {"at", "then", "state", "slots", "ev", "done", "diff", "wave", "kid", "count"} \subseteq DOMAIN t
      /\ t.done = retires /\ Same(t, s)
      /\ t.ev = IF retires THEN s.ev + 1 ELSE s.ev
      /\ t.state = s.state \/ t.state = "END"
  BY DEF Posedge, Goes, Memory, Same
<1>2. /\ {"k", "ref", "skip", "intr"} \subseteq DOMAIN t.diff
      /\ t.diff.k = s.diff.k /\ t.diff.ref = s.diff.ref
  <2> DEFINE first == IF s.cycle = 0 THEN Issue(s.diff, 1) ELSE s.diff
  <2>1. t.diff = IF retires THEN Issue(first, s.ev + 2) ELSE first
    BY DEF Posedge, Goes, Memory
  <2>2. /\ {"k", "ref", "skip", "intr"} \subseteq DOMAIN first
        /\ first.k = s.diff.k /\ first.ref = s.diff.ref
    BY IssueKeeps DEF Goes, Memory
  <2> HIDE DEF first
  <2> QED BY <2>1, <2>2, IssueKeeps
<1> HIDE DEF t
<1>3. Memory(t)
  <2>1. retires \in BOOLEAN
    OBVIOUS
  <2> HIDE DEF retires
  <2> QED BY <1>1, <1>2, <2>1 DEF Goes, Memory, Same
<1> HIDE DEF retires
<1>4. ASSUME difftest, ~s.wave
      PROVE  Tracked(t, "count", given)
  <2>1. Memory(s) /\ Tracked(s, "high", given)
    BY <1>4 DEF Goes
  <2>2. Lag(s) \in 0 .. given - 1
    BY <2>1 DEF Tracked, Flying
  <2>3. CASE retires
    <3>1. Lag(t) = Lag(s) + 1 /\ t.done
      BY <2>1, <2>3, <1>1, <1>2 DEF Lag, Memory
    <3> QED BY <2>2, <3>1 DEF Tracked, Flying, Landed
  <2>4. CASE ~retires
    <3>1. Lag(t) = Lag(s) /\ ~t.done /\ t.ev = s.ev
      BY <2>1, <2>4, <1>1, <1>2 DEF Lag, Memory
    <3> QED BY <2>1, <2>2, <3>1, <1>1, <1>2 DEF Tracked, Flying, Landed
  <2> QED BY <2>3, <2>4
<1> QED BY <1>1, <1>3, <1>4 DEF Goes, Same, t

\* The end of a cycle: on to the next one, to the comparison, or out.
LEMMA TickedGoes ==
  ASSUME NEW s, NEW given \in Nat, Goes(s, "count", given)
  PROVE  /\ Goes(Ticked(s), Ticked(s).at, given) /\ Same(Ticked(s), s)
         /\ Ticked(s).at \in {"low", "trace", "leave"}
<1> DEFINE t == Ticked(s)
<1>1. /\ {"at", "then", "state", "slots", "ev", "done", "diff", "wave", "kid", "count"} \subseteq DOMAIN t
      /\ t.done = s.done /\ Same(t, s) /\ t.ev = s.ev /\ t.diff = s.diff
      /\ \/ t.at = "low" /\ ~s.done /\ t.state = s.state
         \/ t.at = "trace" /\ s.done /\ t.state = "RUNNING"
         \/ t.at = "leave" /\ t.state # "RUNNING"
  BY DEF Ticked, Goes, Memory, Same
<1> HIDE DEF t
<1> QED BY <1>1 DEF Goes, Memory, Same, Tracked, Lag, Flying, Landed, t

\* exec_once starts the next instruction, if one more may still be left out.
LEMMA ExecOnceGoes ==
  ASSUME NEW s, NEW given \in Nat, Memory(s),
         difftest /\ ~s.wave =>
           /\ Lag(s) \in 0 .. given - 1
           /\ batch /\ Corrupt(s.ev) => s.state # "RUNNING" \/ s.diff.ref = "bad"
  PROVE  Goes(ExecOnce(s), "low", given) /\ Same(ExecOnce(s), s) /\ ExecOnce(s).at = "low"
BY DEF ExecOnce, Goes, Memory, Same, Tracked, Lag, Flying, Landed

\* cpu_exec does so too, or returns at once.
LEMMA CpuExecGoes ==
  ASSUME NEW s, NEW n, NEW given \in Nat, Memory(s),
         difftest /\ ~s.wave =>
           /\ Lag(s) \in 0 .. given - 1
           /\ batch => ~Corrupt(s.ev)
  PROVE  LET t == CpuExec(s, n)
         IN Goes(t, t.at, given) /\ Same(t, s) /\ t.at \in {"low", "exit", "prompt"}
<1> DEFINE u == [s EXCEPT !.n = n, !.state = "RUNNING",
                          !.sigint = IF batch THEN "clear" ELSE "stop"]
<1>1. /\ Memory(u) /\ Same(u, s) /\ u.ev = s.ev /\ u.diff = s.diff
  BY DEF Memory, Same
<1> HIDE DEF u
<1>2. Goes(ExecOnce(u), "low", given) /\ Same(ExecOnce(u), u) /\ ExecOnce(u).at = "low"
  BY <1>1, ExecOnceGoes DEF Same, Lag
<1>3. LET t == Return(s)
      IN Goes(t, t.at, given) /\ Same(t, s) /\ t.at \in {"low", "exit", "prompt"}
  BY DEF Return, Goes, Memory, Same, Tracked, Lag, Flying, Landed
<1> QED BY <1>1, <1>2, <1>3 DEF CpuExec, Same, u

\* difftest_step brings the reference up to the design or stays one behind
\* where it was, and a wrong state is either seen or taken over.
LEMMA ComparedGoes ==
  ASSUME NEW s, NEW given \in Nat, Goes(s, "trace", given)
  PROVE  LET t == Compared(s)
         IN /\ Memory(t) /\ Same(t, s)
            /\ difftest /\ ~t.wave =>
                 /\ Lag(t) \in 0 .. given - 1
                 /\ batch /\ Corrupt(t.ev) => t.state # "RUNNING" \/ t.diff.ref = "bad"
<1> DEFINE t == Compared(s)
<1>1. CASE ~Compares(s)
  <2>1. t = s
    BY <1>1 DEF Compared
  <2>2. ~(difftest /\ ~s.wave)
    BY <1>1 DEF Compares
  <2> QED BY <2>1, <2>2 DEF Goes, Same
<1>2. CASE Compares(s)
  <2>1. Memory(s)
    BY DEF Goes
  <2>2. t = [s EXCEPT !.diff = DifftestStep(s),
                      !.state = IF Mismatch(s) THEN "ABORT" ELSE @]
    BY <1>2 DEF Compared
  <2>3. CASE Skips(s)
    <3> DEFINE d == RegCpy(s)
    <3>1. /\ {"k", "ref", "skip", "intr"} \subseteq DOMAIN d
          /\ d.k = s.ev /\ (Corrupt(s.ev) => d.ref = "bad")
      BY <2>1 DEF RegCpy, Memory
    <3>2. t.diff = d /\ t.ev = s.ev /\ Same(t, s) /\ Memory(t)
      BY <2>1, <2>2, <2>3, <3>1 DEF DifftestStep, Memory, Same
    <3> HIDE DEF d, t
    <3>3. difftest /\ ~s.wave => given > 0
      BY <2>1 DEF Goes, Tracked, Landed, Lag, Memory
    <3> QED BY <2>1, <3>1, <3>2, <3>3 DEF Lag, Same, Memory, t
  <2>4. CASE ~Skips(s)
    <3> DEFINE d == RefStep(s)
    <3>1. /\ {"k", "ref", "skip", "intr"} \subseteq DOMAIN d /\ d.k = s.diff.k + 1
      BY <2>1 DEF RefStep, Memory
    <3>2. /\ t.diff = d /\ t.ev = s.ev /\ Same(t, s) /\ Memory(t)
          /\ ~Agrees(s, d) => t.state = "ABORT"
      BY <2>1, <2>2, <2>4, <3>1 DEF DifftestStep, Mismatch, Memory, Same
    <3> HIDE DEF d, t
    <3>3. Corrupt(s.ev) => t.state = "ABORT" \/ d.ref = "bad"
      BY <3>2 DEF Agrees
    <3>4. ASSUME difftest, ~s.wave PROVE Lag(t) \in 0 .. given - 1
      BY <2>1, <3>1, <3>2, <3>4 DEF Goes, Tracked, Landed, Lag, Memory
    <3> QED BY <3>1, <3>2, <3>3, <3>4 DEF Same, t
  <2> QED BY <2>3, <2>4
<1> QED BY <1>1, <1>2

\* trace_and_difftest compares, and goes on with the reference in step.
LEMMA TracedGoes ==
  ASSUME NEW s, NEW given \in Nat, Goes(s, "trace", given)
  PROVE  LET t == Traced(s)
         IN Goes(t, t.at, given) /\ Same(t, s) /\ t.at \in {"low", "leave"}
<1> DEFINE c == Compared(s)
           u == Watched(c)
           v == [u EXCEPT !.at = "leave"]
<1>1. /\ Memory(c) /\ Same(c, s)
      /\ difftest /\ ~c.wave =>
           /\ Lag(c) \in 0 .. given - 1
           /\ batch /\ Corrupt(c.ev) => c.state # "RUNNING" \/ c.diff.ref = "bad"
  BY ComparedGoes
<1> HIDE DEF c
<1>2. /\ Memory(u) /\ Same(u, c) /\ u.ev = c.ev /\ u.diff = c.diff
      /\ u.state = c.state \/ u.state = "STOP"
  BY <1>1 DEF Watched, Memory, Same
<1> HIDE DEF u
<1>3. /\ Memory(u) /\ Same(u, s)
      /\ difftest /\ ~u.wave =>
           /\ Lag(u) \in 0 .. given - 1
           /\ batch /\ Corrupt(u.ev) => u.state # "RUNNING" \/ u.diff.ref = "bad"
  BY <1>1, <1>2 DEF Same, Lag
<1>4. Goes(ExecOnce(u), "low", given) /\ Same(ExecOnce(u), u) /\ ExecOnce(u).at = "low"
  BY <1>3, ExecOnceGoes
<1>5. Goes(v, "leave", given) /\ Same(v, u) /\ v.at = "leave"
  BY <1>3 DEF Goes, Memory, Same, Tracked, Lag, Flying, Landed
<1> QED BY <1>3, <1>4, <1>5 DEF Traced, Same, u, c

\* The end of cpu_exec; only the first process goes on to wake a snapshot.
LEMMA LeftGoes ==
  ASSUME NEW s, NEW given \in Nat, Goes(s, "leave", given)
  PROVE  LET t == Left(s)
         IN Goes(t, t.at, given) /\ Same(t, s) /\ t.at \in {"exit", "prompt", "wake"}
            /\ (t.at = "wake" => ~t.kid)
BY DEF Left, Return, Goes, Memory, Same, Tracked, Lag, Flying, Landed

\* The tail of dump_wave leaves the reference alone.
LEMMA DumpedGoes ==
  ASSUME NEW s, NEW given \in Nat, NEW next \in Resumes, Goes(s, next, given)
  PROVE  Goes(Dumped(s, next), next, given) /\ Same(Dumped(s, next), s) /\ Dumped(s, next).at = next
BY DEF Dumped, Goes, Memory, Same, Tracked, Lag, Flying, Landed

\* The same memory but for the snapshots' bookkeeping.
Alike(c, s) == /\ DOMAIN c = DOMAIN s
               /\ \A f \in DOMAIN s \ {"count", "slots"} : c[f] = s[f]

\* What dump_wave makes of memory s: it goes on at next, or a copy of it sleeps.
Comes(r, s, next) ==
  \E c : /\ Alike(c, s)
         /\ \/ r = Dumped(c, next)
            \/ /\ ~s.kid /\ waveform
               /\ r = [c EXCEPT !.kid = TRUE, !.at = "shwait", !.then = next]

\* dump_wave copies the process and changes the bookkeeping of snapshots only.
LEMMA DumpWaveOutcome ==
  ASSUME NEW p \in DOMAIN proc, NEW s, NEW next, DumpWave(p, s, next),
         {"slots", "kid", "at", "then", "count"} \subseteq DOMAIN s
  PROVE  \A q \in DOMAIN proc' :
           \/ q \in DOMAIN proc /\ proc'[q] = proc[q]
           \/ Comes(proc'[q], s, next)
<1> DEFINE c    == Counted(s)
           left == Without(Victims(c))
           par  == [c EXCEPT !.slots = Shift(c)]
           kid  == [par EXCEPT !.kid = TRUE, !.at = "shwait", !.then = next]
           told == [par EXCEPT !.slots = <<NewPid>> \o @]
<1>1. Alike(c, s)
  BY DEF Counted, Alike
<1> HIDE DEF c
<1>2. Alike(par, s) /\ Alike(told, s)
  BY <1>1 DEF Alike
<1>4. \A q \in DOMAIN left : q \in DOMAIN proc /\ left[q] = proc[q]
  BY DEF Without
<1>5. \/ Become(p, Dumped(c, next))
      \/ /\ ~s.kid /\ waveform
         /\ proc' = [q \in DOMAIN left \cup {NewPid} |->
                       IF q = NewPid THEN kid
                       ELSE IF q = p THEN Dumped(told, next) ELSE left[q]]
      \/ proc' = [left EXCEPT ![p] = Dumped(par, next)]
  BY DEF DumpWave, Divides, c
<1> HIDE DEF left, par, told
<1>6. \A q \in DOMAIN proc' :
        \/ q \in DOMAIN proc /\ proc'[q] = proc[q]
        \/ proc'[q] \in {Dumped(c, next), Dumped(told, next), Dumped(par, next)}
        \/ ~s.kid /\ waveform /\ proc'[q] = kid
  BY <1>4, <1>5 DEF Become
<1> QED BY <1>1, <1>2, <1>6 DEF Comes

\* Every process after dump_wave is one that was there, or goes on at next.
LEMMA DumpWaveGoes ==
  ASSUME NEW p \in DOMAIN proc, NEW s, NEW given \in Nat, NEW next \in Resumes,
         Goes(s, next, given), s.wave => s.kid,
         DumpWave(p, s, next)
  PROVE  \A q \in DOMAIN proc' : \/ q \in DOMAIN proc /\ proc'[q] = proc[q]
                                 \/ Steady(proc'[q], given)
<1>1. {"slots", "kid", "at", "then", "count"} \subseteq DOMAIN s
  BY DEF Goes, Memory
<1>2. ASSUME NEW c, Alike(c, s)
      PROVE  Goes(c, next, given) /\ Same(c, s)
  BY <1>2 DEF Alike, Goes, Memory, Same, Tracked, Lag, Flying, Landed
<1>3. ASSUME NEW c, Alike(c, s)
      PROVE  Steady(Dumped(c, next), given)
  <2>1. /\ Goes(Dumped(c, next), next, given) /\ Same(Dumped(c, next), c)
        /\ Dumped(c, next).at = next /\ Same(c, s)
    BY <1>2, <1>3, DumpedGoes
  <2>2. next # "shwait" /\ next \notin Rescue
    BY DEF Resumes, Rescue
  <2> QED BY <2>1, <2>2 DEF Steady, Here, Image, Same
<1>4. ASSUME NEW c, Alike(c, s), ~s.kid
      PROVE  Steady([c EXCEPT !.kid = TRUE, !.at = "shwait", !.then = next], given)
  <2> DEFINE k == [c EXCEPT !.kid = TRUE, !.at = "shwait", !.then = next]
  <2>1. Goes(c, next, given) /\ Same(c, s)
    BY <1>2, <1>4
  <2>2. /\ Memory(k) /\ k.wave = c.wave /\ k.kid /\ k.at = "shwait" /\ k.then = next
        /\ k.ev = c.ev /\ k.diff = c.diff /\ k.state = c.state /\ k.done = c.done
    BY <2>1 DEF Goes, Memory
  <2>3. Image(k) /\ Here(k) = next
    BY <1>4, <2>1, <2>2 DEF Image, Here, Rescue, Same
  <2> HIDE DEF k
  <2>4. Goes(k, next, given)
    BY <2>1, <2>2 DEF Goes, Tracked, Lag, Flying, Landed
  <2> QED BY <2>3, <2>4 DEF Steady, k
<1>5. ASSUME NEW q \in DOMAIN proc', ~(q \in DOMAIN proc /\ proc'[q] = proc[q])
      PROVE  Steady(proc'[q], given)
  <2>1. PICK c : /\ Alike(c, s)
                 /\ \/ proc'[q] = Dumped(c, next)
                    \/ /\ ~s.kid /\ waveform
                       /\ proc'[q] = [c EXCEPT !.kid = TRUE, !.at = "shwait", !.then = next]
    <3>1. Comes(proc'[q], s, next)
      BY <1>1, <1>5, DumpWaveOutcome
    <3> QED BY <3>1 DEF Comes
  <2> QED BY <2>1, <1>3, <1>4
<1> QED BY <1>5

RInv == /\ IInv /\ budget.cmds \in 0 .. MaxCmds
        /\ \A p \in DOMAIN proc : Steady(proc[p], Given)
\* What a step must show of the processes.
Followed == \A q \in DOMAIN proc' : \/ q \in DOMAIN proc /\ proc'[q] = proc[q]
                                    \/ Steady(proc'[q], Given')

\* The allowance of left out instructions is a number.
LEMMA GivenNat == RInv => Given \in Nat
BY SimulatorAssumption DEF RInv, Given

\* What is to be shown of a step: every process follows, or is steady on its own.
LEMMA FollowedInv ==
  ASSUME RInv, IInv', UNCHANGED config, Followed, Given' \in Nat, Given' >= Given,
         budget'.cmds \in 0 .. MaxCmds
  PROVE  RInv'
<1>1. ASSUME NEW q \in DOMAIN proc' PROVE Steady(proc'[q], Given')
  <2>1. ASSUME NEW s, Steady(s, Given) PROVE Steady(s, Given')
    BY <2>1, GivenNat DEF Steady, Goes, Memory, Tracked, Lag
  <2> QED BY <1>1, <2>1 DEF Followed, RInv
<1>2. ASSUME NEW s, NEW g, Steady(s, g) PROVE Steady(s, g)'
  BY <1>2 DEF Steady, Goes, Memory, Tracked, Lag, Flying, Landed, Image, Corrupt, Here, Rescue, config, batch, difftest
<1> QED BY <1>1, <1>2 DEF RInv

\* A process that moves on to a place of its own is steady there.
LEMMA GoesSteady ==
  ASSUME NEW t, NEW s, NEW given, Goes(t, t.at, given), Same(t, s), s.wave => s.kid,
         t.at # "shwait", t.kid => t.at \notin Rescue
  PROVE  Steady(t, given)
BY DEF Steady, Image, Here, Same

\* Steps of a process that runs the design.
LEMMA RunFollows ==
  ASSUME RInv, NEW p \in DOMAIN proc,
         ResetHalf(p) \/ MainLoop(p) \/ Low(p) \/ High(p) \/ Count(p) \/ Trace(p) \/ Leave(p)
  PROVE  /\ \A q \in DOMAIN proc' : \/ q \in DOMAIN proc /\ proc'[q] = proc[q]
                                    \/ Steady(proc'[q], Given)
         /\ UNCHANGED config
<1> DEFINE s == proc[p]
<1>1. Memory(s) /\ Goes(s, Here(s), Given) /\ Image(s) /\ (s.wave => s.kid)
  BY DEF RInv, Steady, Goes, Image
<1>2. Given \in Nat
  BY GivenNat
<1>3. UNCHANGED config
  BY DEF ResetHalf, MainLoop, Low, High, Count, Trace, Leave
<1>4. ASSUME NEW t, Become(p, t), Steady(t, Given)
      PROVE  \A q \in DOMAIN proc' : \/ q \in DOMAIN proc /\ proc'[q] = proc[q]
                                     \/ Steady(proc'[q], Given)
  BY <1>4 DEF Become
<1> HIDE DEF s
<1>5. CASE ResetHalf(p)
  <2> DEFINE t == [s EXCEPT !.resets = @ - 1]
             next == IF t.resets = 0 THEN "main" ELSE "reset"
  <2>1. DumpWave(p, t, next) /\ s.at = "reset"
    BY <1>5 DEF ResetHalf, Is, s
  <2>2. Goes(s, "reset", Given)
    BY <1>1, <2>1 DEF Here
  <2>3. next \in {"main", "reset"}
    OBVIOUS
  <2>4. Goes(t, next, Given) /\ Same(t, s)
    BY <2>2, <2>3 DEF Goes, Memory, Same, Tracked, Lag, Flying, Landed
  <2> HIDE DEF t, next
  <2> QED BY <1>1, <1>2, <1>3, <2>1, <2>3, <2>4, DumpWaveGoes DEF Resumes, Same
<1>6. CASE MainLoop(p)
  <2> DEFINE t == [s EXCEPT !.diff = InitDiff]
             u == [s EXCEPT !.diff = InitDiff, !.at = "prompt"]
  <2>1. Become(p, IF batch THEN CpuExec(t, Forever) ELSE u) /\ s.at = "main"
    BY <1>6 DEF MainLoop, Is, s
  <2>2. Goes(s, "main", Given)
    BY <1>1, <2>1 DEF Here
  <2>3. /\ Memory(t) /\ Same(t, s) /\ t.diff.k = 0 /\ t.ev = s.ev
        /\ Memory(u) /\ Same(u, s) /\ u.diff.k = 0 /\ u.ev = s.ev /\ u.at = "prompt"
    BY <1>1 DEF Memory, Same, InitDiff
  <2> HIDE DEF t, u
  <2>4. difftest /\ ~s.wave => s.ev = 0
    BY <2>2 DEF Goes, Tracked
  <2>5. CASE batch
    <3>1. ~Corrupt(0)
      BY SimulatorAssumption DEF Corrupt, IInv, RInv, DutOK
    <3>2. Given = 1
      BY <2>5 DEF Given
    <3> DEFINE v == CpuExec(t, Forever)
    <3>3. Goes(v, v.at, Given) /\ Same(v, t) /\ v.at \in {"low", "exit", "prompt"}
      BY <1>2, <2>3, <2>4, <3>1, <3>2, CpuExecGoes DEF Lag, Same
    <3>4. Become(p, v)
      BY <2>1, <2>5
    <3> HIDE DEF v
    <3>5. Steady(v, Given)
      BY <1>1, <2>3, <3>3, GoesSteady DEF Same, Rescue
    <3> QED BY <1>3, <1>4, <3>4, <3>5
  <2>6. CASE ~batch
    <3>1. Goes(u, "prompt", Given)
      BY <1>2, <2>3, <2>4, <2>6 DEF Goes, Tracked, Lag, Flying, Landed, Same
    <3>2. Steady(u, Given)
      BY <1>1, <2>3, <3>1, GoesSteady DEF Same, Rescue
    <3> QED BY <1>3, <1>4, <2>1, <2>6, <3>2
  <2> QED BY <2>5, <2>6
<1>7. CASE Low(p)
  <2>1. DumpWave(p, s, "high") /\ s.at = "low"
    BY <1>7 DEF Low, Is, s
  <2>2. Goes(s, "high", Given)
    BY <1>1, <2>1 DEF Goes, Here, Tracked, Flying, Landed
  <2> QED BY <1>1, <1>2, <1>3, <2>1, <2>2, DumpWaveGoes DEF Resumes
<1>8. CASE High(p)
  <2>1. DumpWave(p, Posedge(s), "count") /\ s.at = "high"
    BY <1>8 DEF High, Is, s
  <2>2. Goes(Posedge(s), "count", Given) /\ Same(Posedge(s), s)
    BY <1>1, <1>2, <2>1, PosedgeGoes DEF Here
  <2> QED BY <1>1, <1>2, <1>3, <2>1, <2>2, DumpWaveGoes DEF Resumes, Same
<1>9. CASE Count(p)
  <2>1. Become(p, Ticked(s)) /\ s.at = "count"
    BY <1>9 DEF Count, Is, s
  <2>2. /\ Goes(Ticked(s), Ticked(s).at, Given) /\ Same(Ticked(s), s)
        /\ Ticked(s).at \in {"low", "trace", "leave"}
    BY <1>1, <1>2, <2>1, TickedGoes DEF Here
  <2>3. Steady(Ticked(s), Given)
    BY <1>1, <2>2, GoesSteady DEF Rescue
  <2> QED BY <1>3, <1>4, <2>1, <2>3
<1>10. CASE Trace(p)
  <2>1. Become(p, Traced(s)) /\ s.at = "trace"
    BY <1>10 DEF Trace, Is, s
  <2>2. /\ Goes(Traced(s), Traced(s).at, Given) /\ Same(Traced(s), s)
        /\ Traced(s).at \in {"low", "leave"}
    BY <1>1, <1>2, <2>1, TracedGoes DEF Here
  <2>3. Steady(Traced(s), Given)
    BY <1>1, <2>2, GoesSteady DEF Rescue
  <2> QED BY <1>3, <1>4, <2>1, <2>3
<1>11. CASE Leave(p)
  <2>1. Become(p, Left(s)) /\ s.at = "leave"
    BY <1>11 DEF Leave, Is, s
  <2>2. /\ Goes(Left(s), Left(s).at, Given) /\ Same(Left(s), s)
        /\ Left(s).at \in {"exit", "prompt", "wake"}
        /\ Left(s).at = "wake" => ~Left(s).kid
    BY <1>1, <1>2, <2>1, LeftGoes DEF Here
  <2>3. Steady(Left(s), Given)
    BY <1>1, <2>2, GoesSteady DEF Rescue
  <2> QED BY <1>3, <1>4, <2>1, <2>3
<1> QED BY <1>5, <1>6, <1>7, <1>8, <1>9, <1>10, <1>11

\* A process that does nothing but move on, once it is past the run.
LEMMA RescueSteady ==
  ASSUME NEW s, NEW given \in Nat, NEW at \in Rescue \cup {"exit", "dead"},
         Steady(s, given), at \in Rescue => ~s.kid
  PROVE  Steady([s EXCEPT !.at = at], given)
<1> DEFINE t == [s EXCEPT !.at = at]
<1>1. Memory(t) /\ Same(t, s) /\ t.at = at /\ t.ev = s.ev /\ t.diff = s.diff
  BY DEF Steady, Goes, Memory, Same
<1>2. at \notin {"reset", "main", "prompt", "low", "high", "count", "trace", "leave", "shwait"}
  BY DEF Rescue
<1> HIDE DEF t
<1>3. Goes(t, at, given)
  BY <1>1, <1>2 DEF Steady, Goes, Tracked, Lag, Flying, Landed, Same
<1> QED BY <1>1, <1>2, <1>3 DEF Steady, Image, Here, Same, t

\* The same when it removes others, or itself, on the way.
LEMMA RemovedFollows ==
  ASSUME RInv, NEW S, NEW p, NEW v, p \in DOMAIN proc \ S => Steady(v, Given),
         proc' = [Without(S) EXCEPT ![p] = v]
  PROVE  \A q \in DOMAIN proc' : \/ q \in DOMAIN proc /\ proc'[q] = proc[q]
                                 \/ Steady(proc'[q], Given)
BY DEF Without

\* The steps of LightSSS leave design and reference as they are.
LEMMA SnapshotFollows ==
  ASSUME RInv, NEW p \in DOMAIN proc,
         Wake(p) \/ WakeOldest(p) \/ NotGood(p) \/ Flag(p) \/ WaitPid(p) \/ Clear(p)
  PROVE  /\ \A q \in DOMAIN proc' : \/ q \in DOMAIN proc /\ proc'[q] = proc[q]
                                    \/ Steady(proc'[q], Given)
         /\ UNCHANGED config /\ budget' = budget
<1> DEFINE s == proc[p]
<1>1. Steady(s, Given) /\ s.then \in Resumes
  BY DEF RInv, IInv, ProcOK
<1>2. Given \in Nat
  BY GivenNat
<1>3. UNCHANGED config /\ budget' = budget
  BY DEF Wake, WakeOldest, NotGood, Flag, WaitPid, Clear
<1>4. ASSUME NEW t, Become(p, t), Steady(t, Given)
      PROVE  \A q \in DOMAIN proc' : \/ q \in DOMAIN proc /\ proc'[q] = proc[q]
                                     \/ Steady(proc'[q], Given)
  BY <1>4 DEF Become
<1>5. ASSUME NEW at \in Rescue \cup {"exit", "dead"}, s.at \in Rescue
      PROVE  Steady([s EXCEPT !.at = at], Given)
  <2>1. ~s.kid
    BY <1>1, <1>5 DEF Steady, Image
  <2> QED BY <1>1, <1>2, <2>1, RescueSteady
<1>6. CASE Wake(p)
  <2> DEFINE t == [s EXCEPT !.wave = (shm.oldest = p)]
             u == Dumped(t, s.then)
  <2>1. /\ s.at = "shwait"
        /\ Become(p, IF ~shm.notgood THEN [s EXCEPT !.at = "exit"] ELSE u)
    BY <1>6 DEF Wake, Is
  <2>2. s.kid /\ ~s.wave /\ Goes(s, s.then, Given)
    BY <1>1, <2>1 DEF Steady, Image, Here
  <2>3. Goes(t, s.then, Given) /\ t.kid = s.kid
    BY <2>2 DEF Goes, Memory, Tracked, Lag, Flying, Landed
  <2> HIDE DEF s, t
  <2>4. Goes(u, s.then, Given) /\ Same(u, t) /\ u.at = s.then
    BY <1>1, <1>2, <2>3, DumpedGoes
  <2> HIDE DEF u
  <2>5. s.then # "shwait" /\ s.then \notin Rescue
    BY <1>1 DEF Resumes, Rescue
  <2>6. Steady(u, Given)
    BY <2>2, <2>3, <2>4, <2>5 DEF Steady, Image, Here, Same
  <2>7. Steady([s EXCEPT !.at = "exit"], Given)
    BY <1>1, <1>2, RescueSteady DEF Rescue
  <2> QED BY <1>3, <1>4, <2>1, <2>6, <2>7
<1>7. CASE WakeOldest(p)
  <2>1. /\ s.at = "wake"
        /\ \/ proc' = [Without(Elems(s.slots) \ {Target(s)}) EXCEPT ![p].at = "notgood"]
           \/ Become(p, [s EXCEPT !.at = "dead"])
    BY <1>7 DEF WakeOldest, Is
  <2>2. Steady([s EXCEPT !.at = "notgood"], Given) /\ Steady([s EXCEPT !.at = "dead"], Given)
    BY <1>5, <2>1 DEF Rescue
  <2>3. CASE proc' = [Without(Elems(s.slots) \ {Target(s)}) EXCEPT ![p].at = "notgood"]
    <3> DEFINE S == Elems(s.slots) \ {Target(s)}
    <3>1. proc' = [Without(S) EXCEPT ![p] = [Without(S)[p] EXCEPT !.at = "notgood"]]
      BY <2>3
    <3>2. p \in DOMAIN proc \ S => Without(S)[p] = s
      BY DEF Without
    <3> HIDE DEF S, s
    <3> QED BY <1>3, <2>2, <3>1, <3>2, RemovedFollows
  <2> HIDE DEF s
  <2> QED BY <1>3, <1>4, <2>1, <2>2, <2>3
<1>8. CASE NotGood(p) \/ Flag(p)
  <2>1. s.at \in Rescue /\ \E at \in Rescue : Become(p, [s EXCEPT !.at = at])
    BY <1>8 DEF NotGood, Flag, Is, Rescue
  <2> HIDE DEF s
  <2> QED BY <1>3, <1>4, <1>5, <2>1
<1>9. CASE WaitPid(p)
  <2> DEFINE S == {Target(s)}
  <2>1. s.at = "waitpid" /\ proc' = [Without(S) EXCEPT ![p] = [Without(S)[p] EXCEPT !.at = "clear"]]
    BY <1>9 DEF WaitPid, Is
  <2>2. p \in DOMAIN proc \ S => Without(S)[p] = s
    BY DEF Without
  <2>3. Steady([s EXCEPT !.at = "clear"], Given)
    BY <1>5, <2>1 DEF Rescue
  <2> HIDE DEF S, s
  <2> QED BY <1>3, <2>1, <2>2, <2>3, RemovedFollows
<1>10. CASE Clear(p)
  <2> DEFINE S == Elems(s.slots)
             t == Return([s EXCEPT !.slots = <<>>])
             v == Return([Without(S)[p] EXCEPT !.slots = <<>>])
  <2>1. s.at = "clear" /\ proc' = [Without(S) EXCEPT ![p] = v]
    BY <1>10 DEF Clear, Is
  <2>2. p \in DOMAIN proc \ S => v = t
    BY DEF Without
  <2>3. Goes(s, "clear", Given) /\ Image(s)
    BY <1>1, <2>1 DEF Steady, Here
  <2> HIDE DEF s
  <2>4. Goes(t, t.at, Given) /\ Same(t, s) /\ t.at \in {"exit", "prompt"}
    BY <2>3 DEF Return, Goes, Memory, Same, Tracked, Lag, Flying, Landed
  <2> HIDE DEF t, v, S
  <2>5. Steady(t, Given)
    BY <2>3, <2>4, GoesSteady DEF Image, Rescue
  <2> QED BY <1>3, <2>1, <2>2, <2>5, RemovedFollows
<1> QED BY <1>6, <1>7, <1>8, <1>9, <1>10

\* Each command typed allows for one more instruction that is left out.
LEMMA CommandFollows ==
  ASSUME RInv, NEW p \in DOMAIN proc, Command(p)
  PROVE  /\ Followed /\ UNCHANGED config
         /\ Given' \in Nat /\ Given' >= Given /\ budget'.cmds \in 0 .. MaxCmds
<1> DEFINE s == proc[p]
<1>1. Steady(s, Given) /\ s.at = "prompt"
  BY DEF RInv, Command, Is
<1>2. /\ \/ Types(p, CpuExec(s, Forever))
         \/ \E k \in StepCounts : Types(p, CpuExec(s, k))
         \/ Types(p, [s EXCEPT !.state = "QUIT", !.at = "exit"])
         \/ Types(p, [s EXCEPT !.at = "exit"])
         \/ CanAdd(s.wp) /\ \E e \in Exprs : Types(p, [s EXCEPT !.wp = NewWp(@, e, Val(s.ev)[e])])
         \/ \E n \in 0 .. NR_WP : Types(p, IF InUse(s.wp, n) THEN [s EXCEPT !.wp = FreeWp(@, n)]
                                           ELSE [s EXCEPT !.at = "dead"])
      /\ UNCHANGED config /\ budget.cmds > 0
  BY DEF Command
<1> HIDE DEF s
<1>3. \/ \E n : Types(p, CpuExec(s, n))
      \/ \E state : Types(p, [s EXCEPT !.state = state, !.at = "exit"])
      \/ \E at \in {"exit", "dead"} : Types(p, [s EXCEPT !.at = at])
      \/ \E wp : Types(p, [s EXCEPT !.wp = wp])
  BY <1>2
<1>4. PICK t : /\ Types(p, t)
               /\ \/ \E n : t = CpuExec(s, n)
                  \/ \E state : t = [s EXCEPT !.state = state, !.at = "exit"]
                  \/ \E at \in {"exit", "dead"} : t = [s EXCEPT !.at = at]
                  \/ \E wp : t = [s EXCEPT !.wp = wp]
  BY <1>3
<1>5. Become(p, t) /\ budget'.cmds = budget.cmds - 1 /\ budget'.cmds \in 0 .. MaxCmds
  <2>1. Types(p, t) /\ "cmds" \in DOMAIN budget /\ budget.cmds \in 0 .. MaxCmds
    BY <1>4 DEF RInv, IInv, BudgetOK
  <2>2. Become(p, t) /\ budget'.cmds = budget.cmds - 1
    BY <2>1 DEF Types
  <2> QED BY <1>2, <2>1, <2>2, SimulatorAssumption
<1>6. /\ Given \in Nat /\ Given' \in Nat /\ Given' >= Given
      /\ ~batch => Given' = Given + 1
  BY <1>2, <1>5, SimulatorAssumption DEF Given, RInv, config, batch
<1>7. /\ Memory(s) /\ (s.wave => s.kid)
      /\ difftest /\ ~s.wave => ~batch /\ Lag(s) \in 0 .. Given
  BY <1>1 DEF Steady, Goes, Tracked, Image, Here
<1>8. difftest /\ ~s.wave => Lag(s) \in 0 .. Given' - 1
  BY <1>6, <1>7
<1> DEFINE g == Given'
<1>9. g \in Nat
  BY <1>6
<1>10. difftest /\ ~s.wave => ~batch /\ Lag(s) \in 0 .. g - 1
  BY <1>7, <1>8
<1> HIDE DEF g
<1>11. Goes(t, t.at, g) /\ Same(t, s) /\ t.at \in {"low", "exit", "prompt", "dead"}
  <2>1. ASSUME NEW n, t = CpuExec(s, n)
        PROVE  Goes(t, t.at, g) /\ Same(t, s) /\ t.at \in {"low", "exit", "prompt"}
    BY <1>7, <1>9, <1>10, <2>1, CpuExecGoes
  <2>2. ASSUME NEW state, t = [s EXCEPT !.state = state, !.at = "exit"]
        PROVE  Goes(t, t.at, g) /\ Same(t, s) /\ t.at = "exit"
    BY <1>7, <1>9, <1>10, <2>2 DEF Goes, Memory, Same, Tracked, Lag, Flying, Landed
  <2>3. ASSUME NEW at \in {"exit", "dead"}, t = [s EXCEPT !.at = at]
        PROVE  Goes(t, t.at, g) /\ Same(t, s) /\ t.at = at
    BY <1>7, <1>9, <1>10, <2>3 DEF Goes, Memory, Same, Tracked, Lag, Flying, Landed
  <2>4. ASSUME NEW wp, t = [s EXCEPT !.wp = wp]
        PROVE  Goes(t, t.at, g) /\ Same(t, s) /\ t.at = "prompt"
    BY <1>1, <1>7, <1>9, <1>10, <2>4 DEF Goes, Memory, Same, Tracked, Lag, Flying, Landed
  <2> QED BY <1>4, <2>1, <2>2, <2>3, <2>4
<1>12. Steady(t, g)
  BY <1>7, <1>11, GoesSteady DEF Rescue
<1>13. \A q \in DOMAIN proc' : \/ q \in DOMAIN proc /\ proc'[q] = proc[q]
                               \/ proc'[q] = t
  BY <1>5 DEF Become
<1> QED BY <1>2, <1>5, <1>6, <1>12, <1>13 DEF Followed, g

\* Ctrl-C only stops and kills.
LEMMA CtrlCFollows ==
  ASSUME RInv, CtrlC
  PROVE  Followed /\ UNCHANGED config /\ Given' = Given /\ budget'.cmds = budget.cmds
<1>1. UNCHANGED config /\ budget'.cmds = budget.cmds
  BY DEF CtrlC, RInv, IInv, BudgetOK
<1>2. Given' = Given /\ Given \in Nat
  BY <1>1, GivenNat DEF Given, batch, config
<1>3. PICK live, gone :
        proc' = [q \in DOMAIN proc \ gone |->
                   IF q \in live
                   THEN [proc[q] EXCEPT !.state = "STOP", !.sigint = "default"]
                   ELSE IF Ended(q) THEN proc[q]
                   ELSE [proc[q] EXCEPT !.at = "dead"]]
  BY DEF CtrlC
<1>4. ASSUME NEW q \in DOMAIN proc
      PROVE  /\ Steady([proc[q] EXCEPT !.state = "STOP", !.sigint = "default"], Given)
             /\ Steady([proc[q] EXCEPT !.at = "dead"], Given)
  <2> DEFINE s == proc[q]
  <2>1. Steady(s, Given)
    BY DEF RInv
  <2> HIDE DEF s
  <2>2. Steady([s EXCEPT !.state = "STOP", !.sigint = "default"], Given)
    BY <2>1, <1>2 DEF Steady, Goes, Memory, Image, Here, Tracked, Lag, Flying, Landed
  <2>3. Steady([s EXCEPT !.at = "dead"], Given)
    BY <2>1, <1>2, RescueSteady DEF Rescue
  <2> QED BY <2>2, <2>3 DEF s
<1> QED BY <1>1, <1>2, <1>3, <1>4 DEF Followed

\* At the start both stand at the reset state.
LEMMA InitRInv == Init => RInv
<1> SUFFICES ASSUME Init PROVE RInv
  OBVIOUS
<1>1. IInv
  BY InitIInv
<1>2. budget.cmds = MaxCmds /\ Given \in Nat
  BY SimulatorAssumption DEF Init, Given
<1>3. \A p \in DOMAIN proc : proc[p] = InitProc
  BY DEF Init
<1>4. dut.bad \in Nat
  BY SimulatorAssumption DEF Init, DutOK
<1>5. Memory(InitProc) /\ Image(InitProc) /\ Here(InitProc) = "reset"
      /\ InitProc.ev = 0 /\ InitProc.diff.k = 0
  BY DEF InitProc, InitDiff, Memory, Image, Here, Rescue
<1>6. Goes(InitProc, "reset", Given)
  BY <1>2, <1>5 DEF Goes, Tracked, Lag, Flying, Landed
<1>7. Steady(InitProc, Given)
  BY <1>5, <1>6 DEF Steady
<1> QED BY <1>1, <1>2, <1>3, <1>7, SimulatorAssumption DEF RInv

\* Every step keeps the reference in step.
LEMMA NextRInv == RInv /\ [Next]_vars => RInv'
<1> SUFFICES ASSUME RInv, [Next]_vars PROVE RInv'
  OBVIOUS
<1>1. IInv /\ IInv'
  BY NextIInv DEF RInv
<1>2. Given \in Nat
  BY GivenNat
<1>3. CASE UNCHANGED vars
  <2>1. Followed /\ UNCHANGED config /\ UNCHANGED budget
    BY <1>3 DEF vars, Followed
  <2>2. Given' = Given
    BY <2>1 DEF Given, batch, config
  <2> QED BY <1>1, <1>2, <2>1, <2>2, FollowedInv DEF RInv
<1>4. ASSUME NEW p \in DOMAIN proc, Step(p) PROVE RInv'
  <2>1. /\ \A q \in DOMAIN proc' : \/ q \in DOMAIN proc /\ proc'[q] = proc[q]
                                   \/ Steady(proc'[q], Given)
        /\ UNCHANGED config
    BY <1>4, RunFollows, SnapshotFollows DEF Step
  <2>2. budget'.cmds = budget.cmds
    BY <1>1, <1>4 DEF Step, ResetHalf, MainLoop, Low, High, Count, Trace, Leave, Wake, WakeOldest,
                      NotGood, Flag, WaitPid, Clear, DumpWave, IInv, BudgetOK
  <2>3. Given' = Given
    BY <2>1, <2>2 DEF Given, batch, config
  <2>4. Followed
    BY <2>1, <2>3 DEF Followed
  <2> QED BY <1>1, <1>2, <2>1, <2>2, <2>3, <2>4, FollowedInv DEF RInv
<1>5. ASSUME NEW p \in DOMAIN proc, Command(p) PROVE RInv'
  BY <1>1, <1>5, CommandFollows, FollowedInv
<1>6. CASE CtrlC
  BY <1>1, <1>2, <1>6, CtrlCFollows, FollowedInv DEF RInv
<1> QED BY <1>3, <1>4, <1>5, <1>6 DEF Next

\* At each comparison the reference is behind by the instruction compared and
\* at most one more for each command that stopped the design in mid-run; in
\* batch mode by that instruction alone (difftest_step, dut.cc).
THEOREM InStep == Spec => []RefInStep
<1>1. RInv => RefInStep
  <2> SUFFICES ASSUME RInv, NEW p \in DOMAIN proc, Is(p, "trace"), difftest, ~proc[p].wave
               PROVE  LET lag == proc[p].ev - 1 - proc[p].diff.k
                      IN lag >= 0 /\ lag <= (IF batch THEN 0 ELSE MaxCmds - budget.cmds)
    BY DEF RefInStep
  <2>1. Memory(proc[p]) /\ Tracked(proc[p], "trace", Given)
    BY DEF RInv, Steady, Goes, Here, Is
  <2> QED BY <2>1, GivenNat DEF Tracked, Landed, Lag, Memory, Given
<1> QED BY <1>1, InitRInv, NextRInv, PTL DEF Spec

\* In batch mode a design that has gone wrong retires one more instruction at
\* most after the comparison before the run stops, unless a device access has
\* made the reference take the wrong state over (difftest_skip_ref, dut.cc).
THEOREM Caught == Spec => []CorruptionCaught
<1>1. RInv => CorruptionCaught
  <2> SUFFICES ASSUME RInv, NEW p \in DOMAIN proc, proc[p].at \in {"low", "leave"}, batch,
                      difftest, ~proc[p].wave, Corrupt(proc[p].ev)
               PROVE  proc[p].state # "RUNNING" \/ proc[p].diff.ref = "bad"
    BY DEF CorruptionCaught
  <2>1. Tracked(proc[p], proc[p].at, Given)
    BY DEF RInv, Steady, Goes, Here
  <2> QED BY <2>1 DEF Tracked, Flying
<1> QED BY <1>1, InitRInv, NextRInv, PTL DEF Spec

-----------------------------------------------------------------------------
(* The first process and its snapshots.                                    *)
\* The parts of a process's memory that the snapshots' bookkeeping reads.
Booked(s) == {"at", "then", "state", "wave", "kid", "slots", "count", "cycle"} \subseteq DOMAIN s
\* Most of the code leaves the bookkeeping alone.
Hold(t, s) == /\ DOMAIN t = DOMAIN s /\ t.kid = s.kid /\ t.wave = s.wave
              /\ t.slots = s.slots /\ t.count = s.count /\ t.cycle = s.cycle

\* Most of what cpu_exec does leaves the bookkeeping of snapshots alone,
LEMMA RunHolds ==
  ASSUME NEW s, Booked(s)
  PROVE  /\ Hold(Posedge(s), s) /\ Hold(Traced(s), s) /\ Hold(Left(s), s) /\ Hold(Return(s), s)
         /\ \A n : Hold(CpuExec(s, n), s)
         /\ \A next : Hold(Dumped(s, next), s)
<1>1. Hold(Posedge(s), s) /\ Hold(Return(s), s)
  BY DEF Posedge, Return, Hold, Booked
<1>2. Hold(Left(s), s)
  BY DEF Left, Return, Hold, Booked
<1>3. \A n : Hold(CpuExec(s, n), s)
  BY DEF CpuExec, ExecOnce, Return, Hold, Booked
<1>4. \A next : Hold(Dumped(s, next), s)
  BY DEF Dumped, Hold, Booked
<1>5. Hold(Traced(s), s)
  <2> DEFINE u == Compared(s)
             v == Watched(u)
  <2>1. Hold(u, s)
    BY DEF Compared, Hold, Booked
  <2> HIDE DEF u
  <2>2. Hold(v, s)
    BY <2>1 DEF Watched, Hold, Booked
  <2> HIDE DEF v
  <2> QED BY <2>2 DEF Traced, ExecOnce, Hold, Booked, u, v
<1> QED BY <1>1, <1>2, <1>3, <1>4, <1>5

\* and the end of a cycle only counts the cycle.
LEMMA TickedHolds ==
  ASSUME NEW s, Booked(s)
  PROVE  LET t == Ticked(s)
         IN /\ DOMAIN t = DOMAIN s /\ t.kid = s.kid /\ t.wave = s.wave
            /\ t.slots = s.slots /\ t.count = s.count /\ t.cycle = s.cycle + 1
            /\ t.at \in {"low", "trace", "leave"}
BY DEF Ticked, Booked

\* Only the first process is no snapshot, and its slots hold only numbers given
\* out so far; budget counts what the bounds allow.
Family ==
  /\ Parent \in DOMAIN proc /\ ~proc[Parent].kid
  /\ Parent \notin Elems(proc[Parent].slots)
  /\ proc[Parent].cycle \in Nat /\ proc[Parent].count \in Nat
  /\ \A p \in DOMAIN proc : /\ Booked(proc[p]) /\ p \in Nat /\ p < budget.pid
                            /\ p # Parent => proc[p].kid
  /\ budget.ints \in 0 .. MaxInts /\ budget.fails \in 0 .. MaxForkFails

\* A snapshot forks nothing and wakes nobody.
LEMMA KidStep ==
  ASSUME RInv, Family, NEW p \in DOMAIN proc, p # Parent, Step(p) \/ Command(p)
  PROVE  /\ \E t : Become(p, t) /\ t.kid /\ Booked(t)
         /\ UNCHANGED shm
         /\ budget'.pid = budget.pid /\ budget'.fails = budget.fails /\ budget'.ints = budget.ints
<1> DEFINE s == proc[p]
<1>1. /\ Booked(s) /\ s.kid /\ s.at \notin Rescue
      /\ {"pid", "fails", "cmds", "ints"} \subseteq DOMAIN budget
  BY DEF Family, RInv, Steady, Image, IInv, BudgetOK
<1>2. ASSUME NEW t, Hold(t, s) PROVE t.kid /\ Booked(t)
  BY <1>1, <1>2 DEF Hold, Booked
<1>3. ASSUME NEW t, NEW next, Hold(t, s), DumpWave(p, t, next)
      PROVE  \E u : Become(p, u) /\ u.kid /\ Booked(u) /\ UNCHANGED budget
  <2>1. Become(p, Dumped(Counted(t), next)) /\ UNCHANGED budget
    BY <1>2, <1>3 DEF DumpWave
  <2>2. Counted(t).kid /\ Booked(Counted(t))
    BY <1>2, <1>3 DEF Counted, Booked
  <2>3. Dumped(Counted(t), next).kid /\ Booked(Dumped(Counted(t), next))
    BY <2>2, RunHolds DEF Hold, Booked
  <2> QED BY <2>1, <2>3
<1>4. CASE ResetHalf(p)
  <2> DEFINE t == [s EXCEPT !.resets = @ - 1]
  <2>1. Hold(t, s)
    BY <1>1 DEF Hold, Booked
  <2>2. UNCHANGED shm /\ \E next : DumpWave(p, t, next)
    BY <1>4 DEF ResetHalf
  <2> HIDE DEF s, t
  <2> QED BY <1>3, <2>1, <2>2
<1>5. CASE Low(p) \/ High(p)
  <2>1. UNCHANGED shm /\ \E t \in {s, Posedge(s)}, next \in {"high", "count"} : DumpWave(p, t, next)
    BY <1>5 DEF Low, High
  <2> HIDE DEF s
  <2>2. Hold(s, s) /\ Hold(Posedge(s), s)
    BY <1>1, RunHolds DEF Hold
  <2> QED BY <1>3, <2>1, <2>2
<1>6. CASE MainLoop(p)
  <2> DEFINE t == [s EXCEPT !.diff = InitDiff]
             u == [s EXCEPT !.diff = InitDiff, !.at = "prompt"]
  <2>1. UNCHANGED <<shm, budget>> /\ Become(p, IF batch THEN CpuExec(t, Forever) ELSE u)
    BY <1>6 DEF MainLoop
  <2> HIDE DEF s
  <2>2. Hold(t, s) /\ Hold(u, s) /\ Booked(t)
    BY <1>1 DEF Hold, Booked
  <2> HIDE DEF t, u
  <2>3. Hold(CpuExec(t, Forever), t)
    BY <2>2, RunHolds
  <2>4. Hold(CpuExec(t, Forever), s)
    BY <2>2, <2>3 DEF Hold
  <2> QED BY <1>2, <2>1, <2>2, <2>4
<1>7. CASE Count(p)
  <2>1. UNCHANGED <<shm, budget>> /\ Become(p, Ticked(s))
    BY <1>7 DEF Count
  <2> HIDE DEF s
  <2>2. Ticked(s).kid /\ Booked(Ticked(s))
    BY <1>1, TickedHolds DEF Booked
  <2> QED BY <2>1, <2>2
<1>8. CASE Trace(p) \/ Leave(p)
  <2>1. UNCHANGED <<shm, budget>> /\ \E t \in {Traced(s), Left(s)} : Become(p, t)
    BY <1>8 DEF Trace, Leave
  <2> HIDE DEF s
  <2> QED BY <1>1, <1>2, <2>1, RunHolds
<1>9. CASE Wake(p)
  <2> DEFINE t == [s EXCEPT !.wave = (shm.oldest = p)]
             u == Dumped(t, s.then)
             v == [s EXCEPT !.at = "exit"]
  <2>1. UNCHANGED <<shm, budget>> /\ (Become(p, v) \/ Become(p, u))
    BY <1>9 DEF Wake
  <2> HIDE DEF s
  <2>2. t.kid /\ Booked(t) /\ v.kid /\ Booked(v)
    BY <1>1 DEF Booked
  <2> HIDE DEF t, v
  <2>3. Hold(u, t)
    BY <2>2, RunHolds
  <2> HIDE DEF u
  <2>4. u.kid /\ Booked(u)
    BY <2>2, <2>3 DEF Hold, Booked
  <2> QED BY <2>1, <2>2, <2>4
<1>10. CASE WakeOldest(p) \/ NotGood(p) \/ Flag(p) \/ WaitPid(p) \/ Clear(p)
  BY <1>1, <1>10 DEF WakeOldest, NotGood, Flag, WaitPid, Clear, Is, Rescue
<1>11. CASE Command(p)
  <2>1. UNCHANGED shm /\ \E t : /\ Types(p, t)
                                /\ \/ \E n : t = CpuExec(s, n)
                                   \/ t = [s EXCEPT !.state = "QUIT", !.at = "exit"]
                                   \/ \E at \in {"exit", "dead"} : t = [s EXCEPT !.at = at]
                                   \/ \E wp : t = [s EXCEPT !.wp = wp]
    BY <1>11 DEF Command
  <2> HIDE DEF s
  <2>2. PICK t : /\ Types(p, t)
                 /\ \/ \E n : t = CpuExec(s, n)
                    \/ t = [s EXCEPT !.state = "QUIT", !.at = "exit"]
                    \/ \E at \in {"exit", "dead"} : t = [s EXCEPT !.at = at]
                    \/ \E wp : t = [s EXCEPT !.wp = wp]
    BY <2>1
  <2>3. Hold(t, s)
    <3>1. (\E n : t = CpuExec(s, n)) => Hold(t, s)
      BY <1>1, RunHolds
    <3>2. ASSUME NEW n, t = [s EXCEPT !.state = "QUIT", !.at = "exit"]
                        \/ t = [s EXCEPT !.at = n] \/ t = [s EXCEPT !.wp = n]
          PROVE  Hold(t, s)
      BY <1>1, <3>2 DEF Hold, Booked
    <3> QED BY <2>2, <3>1, <3>2
  <2>4. Types(p, t)
    BY <2>2
  <2>5. Become(p, t) /\ budget' = [budget EXCEPT !.cmds = @ - 1]
    BY <2>4 DEF Types
  <2> QED BY <1>1, <1>2, <2>1, <2>3, <2>5
<1> QED BY <1>4, <1>5, <1>6, <1>7, <1>8, <1>9, <1>10, <1>11 DEF Step

\* What dump_wave does to the first process and to the set of snapshots.
LEMMA ParentDump ==
  ASSUME RInv, Family, NEW s, NEW next, Hold(s, proc[Parent]), DumpWave(Parent, s, next)
  PROVE  LET t    == proc'[Parent]
             left == DOMAIN proc \ Victims(s)
         IN /\ Booked(t) /\ ~t.kid /\ t.at = next /\ t.state = s.state /\ t.cycle = s.cycle
            /\ \/ /\ ~Divides(s) /\ t.slots = s.slots /\ t.count = s.count
                  /\ DOMAIN proc' = DOMAIN proc /\ budget' = budget
                  /\ \A q \in DOMAIN proc \ {Parent} : proc'[q] = proc[q]
               \/ /\ Divides(s) /\ t.count = s.cycle \div ForkEvery
                  /\ t.slots = <<NewPid>> \o Shift(s)
                  /\ DOMAIN proc' = left \cup {NewPid} /\ Parent \in left /\ NewPid \notin DOMAIN proc
                  /\ \A q \in left \ {Parent} : proc'[q] = proc[q]
                  /\ Booked(proc'[NewPid]) /\ proc'[NewPid].kid /\ proc'[NewPid].at = "shwait"
                  /\ proc'[NewPid].cycle = s.cycle
                  /\ budget' = [budget EXCEPT !.pid = @ + 1]
               \/ /\ Divides(s) /\ t.count = s.cycle \div ForkEvery /\ t.slots = Shift(s)
                  /\ DOMAIN proc' = left /\ Parent \in left
                  /\ \A q \in left \ {Parent} : proc'[q] = proc[q]
                  /\ budget' = [budget EXCEPT !.fails = @ - 1] /\ budget.fails > 0
<1> DEFINE c    == Counted(s)
           rest == Without(Victims(c))
           par  == [c EXCEPT !.slots = Shift(c)]
           kid  == [par EXCEPT !.kid = TRUE, !.at = "shwait", !.then = next]
           told == [par EXCEPT !.slots = <<NewPid>> \o @]
<1>1. /\ Booked(s) /\ ~s.kid /\ ~s.wave /\ s.slots \in Seq(Pids)
      /\ Parent \in DOMAIN proc /\ Parent \notin Elems(s.slots)
  BY DEF Family, Hold, Booked, RInv, IInv, ProcOK, Steady, Image
<1>2. /\ Booked(c) /\ Hold([c EXCEPT !.count = s.count], s) /\ c.state = s.state /\ ~c.kid /\ ~c.wave
      /\ c.cycle = s.cycle /\ c.slots = s.slots
      /\ c.count = IF Divides(s) THEN s.cycle \div ForkEvery ELSE s.count
  BY <1>1 DEF Counted, Booked, Hold
<1>3. Victims(c) = Victims(s) /\ Shift(c) = Shift(s)
  BY <1>2 DEF Victims, Shift, Full
<1>4. Parent \notin Victims(s)
  <2>1. Full(s) => Oldest(s.slots) \in Elems(s.slots)
    BY <1>1, SimulatorAssumption DEF Full, Oldest, Elems
  <2> QED BY <1>1, <2>1 DEF Victims
<1>5. NewPid \notin DOMAIN proc
  BY DEF Family, NewPid
<1>6. \/ Become(Parent, Dumped(c, next)) /\ budget' = budget /\ ~Divides(s)
      \/ /\ proc' = [q \in DOMAIN rest \cup {NewPid} |->
                       IF q = NewPid THEN kid
                       ELSE IF q = Parent THEN Dumped(told, next) ELSE rest[q]]
         /\ Divides(s) /\ budget' = [budget EXCEPT !.pid = @ + 1]
      \/ /\ proc' = [rest EXCEPT ![Parent] = Dumped(par, next)]
         /\ Divides(s) /\ budget' = [budget EXCEPT !.fails = @ - 1] /\ budget.fails > 0
  BY <1>1 DEF DumpWave, c
<1> HIDE DEF c
<1>7. /\ Booked(par) /\ par.state = s.state /\ ~par.kid /\ ~par.wave /\ par.cycle = s.cycle
      /\ par.slots = Shift(s) /\ par.count = c.count
  BY <1>2, <1>3 DEF Booked
<1> HIDE DEF par
<1>8. /\ Booked(told) /\ told.state = s.state /\ ~told.kid /\ ~told.wave /\ told.cycle = s.cycle
      /\ told.slots = <<NewPid>> \o Shift(s) /\ told.count = c.count
  BY <1>7 DEF Booked
<1>9. Booked(kid) /\ kid.kid /\ kid.at = "shwait" /\ kid.cycle = s.cycle
  BY <1>7 DEF Booked
<1> HIDE DEF told, kid
<1>10. ASSUME NEW u, Booked(u), ~u.wave
       PROVE  LET v == Dumped(u, next)
              IN /\ Booked(v) /\ v.kid = u.kid /\ v.at = next /\ v.state = u.state
                 /\ v.cycle = u.cycle /\ v.slots = u.slots /\ v.count = u.count
  BY <1>10 DEF Dumped, Booked
<1>11. DOMAIN rest = DOMAIN proc \ Victims(s) /\ \A q \in DOMAIN rest : rest[q] = proc[q]
  BY <1>3 DEF Without
<1> HIDE DEF rest
<1>12. CASE Become(Parent, Dumped(c, next)) /\ budget' = budget /\ ~Divides(s)
  BY <1>1, <1>2, <1>10, <1>12 DEF Become
<1>13. CASE /\ proc' = [q \in DOMAIN rest \cup {NewPid} |->
                          IF q = NewPid THEN kid
                          ELSE IF q = Parent THEN Dumped(told, next) ELSE rest[q]]
            /\ Divides(s) /\ budget' = [budget EXCEPT !.pid = @ + 1]
  <2>1. proc'[NewPid] = kid /\ proc'[Parent] = Dumped(told, next)
    BY <1>1, <1>4, <1>5, <1>11, <1>13
  <2>2. DOMAIN proc' = (DOMAIN proc \ Victims(s)) \cup {NewPid}
    BY <1>11, <1>13
  <2>3. \A q \in (DOMAIN proc \ Victims(s)) \ {Parent} : proc'[q] = proc[q]
    BY <1>5, <1>11, <1>13
  <2> QED BY <1>1, <1>2, <1>4, <1>5, <1>8, <1>9, <1>10, <1>13, <2>1, <2>2, <2>3
<1>14. CASE /\ proc' = [rest EXCEPT ![Parent] = Dumped(par, next)]
            /\ Divides(s) /\ budget' = [budget EXCEPT !.fails = @ - 1] /\ budget.fails > 0
  <2>1. proc'[Parent] = Dumped(par, next)
    BY <1>1, <1>4, <1>11, <1>14
  <2>2. DOMAIN proc' = DOMAIN proc \ Victims(s)
    BY <1>11, <1>14
  <2>3. \A q \in (DOMAIN proc \ Victims(s)) \ {Parent} : proc'[q] = proc[q]
    BY <1>11, <1>14
  <2> QED BY <1>1, <1>2, <1>4, <1>7, <1>10, <1>14, <2>1, <2>2, <2>3
<1> QED BY <1>6, <1>12, <1>13, <1>14

\* do_fork puts the new snapshot in front and drops the last of a full row.
LEMMA NewRow ==
  ASSUME NEW s, s.slots \in Seq(Pids), Len(s.slots) <= SLOT_SIZE, NEW n,
         \A i, j \in DOMAIN s.slots : s.slots[i] = s.slots[j] => i = j
  PROVE  LET old == s.slots
             new == <<n>> \o Shift(s)
         IN /\ Len(new) = IF Full(s) THEN SLOT_SIZE ELSE Len(old) + 1
            /\ DOMAIN new = 1 .. Len(new) /\ new[1] = n
            /\ \A i \in DOMAIN new : i # 1 => i - 1 \in DOMAIN old /\ new[i] = old[i - 1]
            /\ Elems(new) = {n} \cup (Elems(old) \ Victims(s))
            /\ Elems(Shift(s)) \subseteq Elems(old)
<1> DEFINE old == s.slots
           sh  == Shift(s)
           new == <<n>> \o sh
           k   == IF Full(s) THEN Len(old) - 1 ELSE Len(old)
<1>1. /\ Len(old) \in Nat /\ DOMAIN old = 1 .. Len(old) /\ SLOT_SIZE \in Nat \ {0}
      /\ Full(s) => Len(old) = SLOT_SIZE
      /\ \A i \in 1 .. Len(old) : old[i] \in Pids
  BY SimulatorAssumption DEF Full
<1>2. Len(sh) = k /\ sh \in Seq(Pids) /\ \A i \in 1 .. k : sh[i] = old[i]
  <2>1. CASE Full(s)
    <3>1. sh = SubSeq(old, 1, Len(old) - 1)
      BY <2>1 DEF Shift
    <3> QED BY <1>1, <2>1, <3>1, SubSeqProperties
  <2>2. CASE ~Full(s)
    BY <1>1, <2>2 DEF Shift
  <2> QED BY <2>1, <2>2
<1> HIDE DEF sh
<1>3. /\ Len(new) = k + 1 /\ DOMAIN new = 1 .. k + 1 /\ new[1] = n
      /\ \A i \in 2 .. k + 1 : new[i] = sh[i - 1]
  <2> DEFINE S == Pids \cup {n}
  <2>1. <<n>> \in Seq(S) /\ sh \in Seq(S) /\ Len(<<n>>) = 1 /\ <<n>>[1] = n
    BY <1>2
  <2>2. k \in Nat
    BY <1>1
  <2> HIDE DEF S
  <2> QED BY <1>2, <2>1, <2>2, ConcatProperties
<1>4. \A i \in 2 .. k + 1 : new[i] = old[i - 1] /\ i - 1 \in 1 .. k
  BY <1>1, <1>2, <1>3
<1>5. {old[i] : i \in 1 .. k} = Elems(old) \ Victims(s)
  <2>1. CASE Full(s)
    <3>1. Victims(s) = {old[Len(old)]} /\ k = Len(old) - 1
      BY <2>1 DEF Victims, Oldest
    <3> QED BY <1>1, <2>1, <3>1 DEF Elems
  <2>2. CASE ~Full(s)
    BY <1>1, <2>2 DEF Victims, Elems
  <2> QED BY <2>1, <2>2
<1>6. Elems(sh) = {old[i] : i \in 1 .. k}
  <2>1. DOMAIN sh = 1 .. k
    BY <1>2
  <2> HIDE DEF old, k
  <2> QED BY <1>2, <2>1 DEF Elems
<1>7. Elems(new) = {n} \cup {old[i] : i \in 1 .. k}
  <2>1. ASSUME NEW x \in Elems(new) PROVE x \in {n} \cup {old[i] : i \in 1 .. k}
    BY <1>1, <1>3, <1>4 DEF Elems
  <2>2. ASSUME NEW i \in 1 .. k PROVE old[i] \in Elems(new)
    <3>1. k \in Nat /\ i \in Nat /\ i >= 1 /\ i <= k
      BY <1>1
    <3> HIDE DEF k, new, old
    <3>2. i + 1 \in 2 .. k + 1 /\ (i + 1) - 1 = i
      BY <3>1
    <3>3. new[i + 1] = old[i]
      BY <1>4, <3>2
    <3> QED BY <1>3, <3>1, <3>3 DEF Elems
  <2>3. n \in Elems(new)
    BY <1>1, <1>3 DEF Elems
  <2> QED BY <2>1, <2>2, <2>3
<1> QED BY <1>1, <1>3, <1>4, <1>5, <1>6, <1>7 DEF sh

\* After a fork the first process is not among its own snapshots either.
LEMMA FamilyDump ==
  ASSUME RInv, Family, NEW s, NEW next, Hold(s, proc[Parent]), DumpWave(Parent, s, next)
  PROVE  Family'
<1> DEFINE t    == proc'[Parent]
           left == DOMAIN proc \ Victims(s)
<1>1. /\ Booked(t) /\ ~t.kid /\ t.at = next /\ t.state = s.state /\ t.cycle = s.cycle
      /\ \/ /\ ~Divides(s) /\ t.slots = s.slots /\ t.count = s.count
            /\ DOMAIN proc' = DOMAIN proc /\ budget' = budget
            /\ \A q \in DOMAIN proc \ {Parent} : proc'[q] = proc[q]
         \/ /\ Divides(s) /\ t.count = s.cycle \div ForkEvery
            /\ t.slots = <<NewPid>> \o Shift(s)
            /\ DOMAIN proc' = left \cup {NewPid} /\ Parent \in left /\ NewPid \notin DOMAIN proc
            /\ \A q \in left \ {Parent} : proc'[q] = proc[q]
            /\ Booked(proc'[NewPid]) /\ proc'[NewPid].kid /\ proc'[NewPid].at = "shwait"
            /\ proc'[NewPid].cycle = s.cycle
            /\ budget' = [budget EXCEPT !.pid = @ + 1]
         \/ /\ Divides(s) /\ t.count = s.cycle \div ForkEvery /\ t.slots = Shift(s)
            /\ DOMAIN proc' = left /\ Parent \in left
            /\ \A q \in left \ {Parent} : proc'[q] = proc[q]
            /\ budget' = [budget EXCEPT !.fails = @ - 1] /\ budget.fails > 0
  BY ParentDump
<1>2. /\ s.slots \in Seq(Pids) /\ Parent \notin Elems(s.slots) /\ s.cycle \in Nat /\ s.count \in Nat
      /\ {"pid", "fails", "ints"} \subseteq DOMAIN budget /\ budget.pid \in Nat
      /\ ForkEvery \in Nat \ {0}
  BY SimulatorAssumption DEF Family, Hold, RInv, IInv, ProcOK, BudgetOK
<1>3. s.cycle \div ForkEvery \in Nat
  BY <1>2
<1>4. Elems(Shift(s)) \subseteq Elems(s.slots) /\ Shift(s) \in Seq(Pids)
  <2>1. CASE Full(s)
    <3>1. Len(s.slots) \in Nat /\ Len(s.slots) > 0 /\ Shift(s) = SubSeq(s.slots, 1, Len(s.slots) - 1)
          /\ \A i \in 1 .. Len(s.slots) : s.slots[i] \in Pids
      BY <1>2, <2>1, SimulatorAssumption DEF Full, Shift
    <3>2. /\ Len(Shift(s)) = Len(s.slots) - 1 /\ Shift(s) \in Seq(Pids)
          /\ \A i \in 1 .. Len(s.slots) - 1 : Shift(s)[i] = s.slots[i]
      BY <1>2, <3>1, SubSeqProperties
    <3> QED BY <1>2, <3>1, <3>2 DEF Elems
  <2>2. CASE ~Full(s)
    BY <1>2, <2>2 DEF Shift
  <2> QED BY <2>1, <2>2
<1>5. Elems(<<NewPid>> \o Shift(s)) \subseteq {NewPid} \cup Elems(s.slots)
  <2> DEFINE S == Pids \cup {NewPid}
             sh == Shift(s)
  <2>1. <<NewPid>> \in Seq(S) /\ sh \in Seq(S) /\ Len(<<NewPid>>) = 1 /\ <<NewPid>>[1] = NewPid
    BY <1>4
  <2>2. Elems(sh) \subseteq Elems(s.slots)
    BY <1>4
  <2> HIDE DEF S, sh
  <2>3. /\ Len(<<NewPid>> \o sh) = 1 + Len(sh) /\ Len(sh) \in Nat /\ DOMAIN sh = 1 .. Len(sh)
        /\ DOMAIN (<<NewPid>> \o sh) = 1 .. Len(<<NewPid>> \o sh)
        /\ \A i \in 1 .. 1 + Len(sh) :
             (<<NewPid>> \o sh)[i] = IF i <= 1 THEN <<NewPid>>[i] ELSE sh[i - 1]
    BY <2>1, ConcatProperties
  <2>4. ASSUME NEW i \in 1 .. 1 + Len(sh) PROVE (<<NewPid>> \o sh)[i] \in {NewPid} \cup Elems(sh)
    BY <2>1, <2>3 DEF Elems
  <2> QED BY <2>2, <2>3, <2>4 DEF Elems, sh
<1>6. Parent # NewPid /\ Parent \in DOMAIN proc
  BY DEF Family, NewPid
<1>7. /\ Parent \in DOMAIN proc' /\ ~t.kid /\ Parent \notin Elems(t.slots)
      /\ t.cycle \in Nat /\ t.count \in Nat
  BY <1>1, <1>2, <1>3, <1>4, <1>5, <1>6
<1>8. /\ \A p \in DOMAIN proc : /\ Booked(proc[p]) /\ p \in Nat /\ p < budget.pid
                                /\ p # Parent => proc[p].kid
      /\ budget.ints \in 0 .. MaxInts /\ budget.fails \in 0 .. MaxForkFails
  BY DEF Family
<1>9. /\ budget'.ints = budget.ints /\ budget'.fails \in 0 .. MaxForkFails
      /\ budget'.pid \in Nat /\ budget'.pid >= budget.pid
      /\ NewPid \in DOMAIN proc' \ DOMAIN proc => NewPid \in Nat /\ NewPid < budget'.pid
  <2>1. MaxForkFails \in Nat /\ NewPid = budget.pid
    BY SimulatorAssumption DEF NewPid
  <2>2. CASE budget' = budget /\ DOMAIN proc' = DOMAIN proc
    BY <1>2, <1>8, <2>2
  <2>3. CASE budget' = [budget EXCEPT !.pid = @ + 1]
    BY <1>2, <1>8, <2>1, <2>3
  <2>4. CASE /\ budget' = [budget EXCEPT !.fails = @ - 1] /\ budget.fails > 0
             /\ DOMAIN proc' = left
    BY <1>2, <1>8, <2>1, <2>4
  <2> QED BY <1>1, <2>2, <2>3, <2>4
<1>10. ASSUME NEW q \in DOMAIN proc'
       PROVE  Booked(proc'[q]) /\ q \in Nat /\ q < budget'.pid /\ (q # Parent => proc'[q].kid)
  <2>1. CASE q = Parent
    BY <1>1, <1>2, <1>6, <1>8, <1>9, <2>1
  <2>2. CASE q # Parent /\ q \in DOMAIN proc
    <3>1. proc'[q] = proc[q]
      BY <1>1, <2>2
    <3> QED BY <1>2, <1>8, <1>9, <2>2, <3>1
  <2>3. CASE q \notin DOMAIN proc
    <3>1. q = NewPid /\ Booked(proc'[q]) /\ proc'[q].kid
      BY <1>1, <2>3
    <3> QED BY <1>9, <2>3, <3>1
  <2> QED BY <2>1, <2>2, <2>3
<1> QED BY <1>7, <1>8, <1>9, <1>10 DEF Family, Booked

\* A step of the first process that forks nothing.
OnlyParent(t) == /\ DOMAIN proc' \subseteq DOMAIN proc /\ Parent \in DOMAIN proc'
                 /\ proc'[Parent] = t
                 /\ \A q \in DOMAIN proc' \ {Parent} : proc'[q] = proc[q]
\* A step of the first process that makes no snapshot keeps the family.
LEMMA FamilyMoves ==
  ASSUME Family, NEW t, OnlyParent(t), Booked(t), ~t.kid,
         Elems(t.slots) \subseteq Elems(proc[Parent].slots), t.cycle \in Nat, t.count \in Nat,
         budget'.pid = budget.pid, budget'.fails = budget.fails,
         budget'.ints \in 0 .. MaxInts
  PROVE  Family'
BY DEF Family, OnlyParent, Booked

\* The process moved on without forking: what it may have become.
Moves(t) == LET s == proc[Parent]
            IN /\ DOMAIN t = DOMAIN s /\ t.kid = s.kid /\ t.count = s.count
               /\ t.cycle = (IF s.at = "count" THEN s.cycle + 1 ELSE s.cycle)
               /\ t.slots = s.slots \/ (s.at = "clear" /\ t.slots = <<>>)

\* These steps make none.
LEMMA ParentMoves ==
  ASSUME RInv, Family,
         \/ MainLoop(Parent) \/ Count(Parent) \/ Trace(Parent) \/ Leave(Parent)
         \/ WakeOldest(Parent) \/ NotGood(Parent) \/ Flag(Parent) \/ WaitPid(Parent)
         \/ Clear(Parent) \/ Command(Parent)
  PROVE  /\ \E t : OnlyParent(t) /\ Moves(t)
         /\ budget'.pid = budget.pid /\ budget'.fails = budget.fails /\ budget'.ints = budget.ints
<1> DEFINE s == proc[Parent]
<1>1. /\ Booked(s) /\ Parent \in DOMAIN proc /\ Parent \notin Elems(s.slots) /\ s.slots \in Seq(Pids)
      /\ {"pid", "fails", "cmds", "ints"} \subseteq DOMAIN budget
  BY DEF Family, RInv, IInv, ProcOK, BudgetOK
<1>2. ASSUME NEW t, Hold(t, s), s.at # "count" PROVE Moves(t)
  BY <1>1, <1>2 DEF Hold, Moves, Booked
<1>3. ASSUME NEW t, Become(Parent, t) PROVE OnlyParent(t)
  BY <1>1, <1>3 DEF Become, OnlyParent
<1>4. ASSUME NEW t, NEW S, Parent \notin S, proc' = [Without(S) EXCEPT ![Parent] = t]
      PROVE  OnlyParent(t)
  BY <1>1, <1>4 DEF Without, OnlyParent
<1>5. Target(s) # Parent
  <2>1. s.slots # <<>> => Oldest(s.slots) \in Elems(s.slots)
    BY <1>1 DEF Oldest, Elems
  <2> QED BY <1>1, <2>1 DEF Target, NoPid, Parent
<1>6. CASE MainLoop(Parent)
  <2> DEFINE t == [s EXCEPT !.diff = InitDiff]
             u == [s EXCEPT !.diff = InitDiff, !.at = "prompt"]
  <2>1. budget' = budget /\ Become(Parent, IF batch THEN CpuExec(t, Forever) ELSE u) /\ s.at = "main"
    BY <1>6 DEF MainLoop, Is
  <2> HIDE DEF s
  <2>2. Hold(t, s) /\ Hold(u, s) /\ Booked(t)
    BY <1>1 DEF Hold, Booked
  <2> HIDE DEF t, u
  <2>3. Hold(CpuExec(t, Forever), s)
    BY <2>2, RunHolds DEF Hold
  <2> QED BY <1>2, <1>3, <2>1, <2>2, <2>3
<1>7. CASE Count(Parent)
  <2>1. budget' = budget /\ Become(Parent, Ticked(s)) /\ s.at = "count"
    BY <1>7 DEF Count, Is
  <2>2. Moves(Ticked(s))
    BY <1>1, <2>1, TickedHolds DEF Moves
  <2> QED BY <1>3, <2>1, <2>2
<1>8. CASE Trace(Parent) \/ Leave(Parent)
  <2>1. budget' = budget /\ s.at # "count" /\ \E t \in {Traced(s), Left(s)} : Become(Parent, t)
    BY <1>8 DEF Trace, Leave, Is
  <2> HIDE DEF s
  <2>2. Hold(Traced(s), s) /\ Hold(Left(s), s)
    BY <1>1, RunHolds
  <2> QED BY <1>2, <1>3, <2>1, <2>2
<1>9. ASSUME NEW at PROVE Hold([s EXCEPT !.at = at], s)
  BY <1>1 DEF Hold, Booked
<1>10. CASE NotGood(Parent) \/ Flag(Parent)
  <2>1. budget' = budget /\ s.at # "count" /\ \E at : Become(Parent, [s EXCEPT !.at = at])
    BY <1>10 DEF NotGood, Flag, Is
  <2> HIDE DEF s
  <2> QED BY <1>2, <1>3, <1>9, <2>1
<1>11. CASE WakeOldest(Parent) \/ WaitPid(Parent)
  <2>1. /\ budget' = budget /\ s.at # "count"
        /\ \/ \E S, at : Parent \notin S /\ proc' = [Without(S) EXCEPT ![Parent].at = at]
           \/ Become(Parent, [s EXCEPT !.at = "dead"])
    <3>1. Parent \notin Elems(s.slots) \ {Target(s)} /\ Parent \notin {Target(s)}
      BY <1>1, <1>5
    <3> QED BY <1>11, <3>1 DEF WakeOldest, WaitPid, Is
  <2>2. ASSUME NEW S, NEW at, Parent \notin S, proc' = [Without(S) EXCEPT ![Parent].at = at]
        PROVE  OnlyParent([s EXCEPT !.at = at])
    <3>1. Without(S)[Parent] = s
      BY <1>1, <2>2 DEF Without
    <3>2. proc' = [Without(S) EXCEPT ![Parent] = [s EXCEPT !.at = at]]
      BY <2>2, <3>1
    <3> QED BY <1>4, <2>2, <3>2
  <2> HIDE DEF s
  <2> QED BY <1>2, <1>3, <1>9, <2>1, <2>2
<1>12. CASE Clear(Parent)
  <2> DEFINE S == Elems(s.slots)
             t == Return([s EXCEPT !.slots = <<>>])
  <2>1. /\ budget' = budget /\ s.at = "clear"
        /\ proc' = [Without(S) EXCEPT ![Parent] = Return([Without(S)[Parent] EXCEPT !.slots = <<>>])]
    BY <1>12 DEF Clear, Is
  <2>2. Without(S)[Parent] = s
    BY <1>1 DEF Without
  <2>3. proc' = [Without(S) EXCEPT ![Parent] = t]
    BY <2>1, <2>2
  <2>4. OnlyParent(t)
    BY <1>1, <1>4, <2>3
  <2>5. Moves(t)
    BY <1>1, <2>1 DEF Moves, Return, Booked
  <2> QED BY <2>1, <2>4, <2>5
<1>13. CASE Command(Parent)
  <2>1. /\ s.at = "prompt"
        /\ \E t : /\ Types(Parent, t)
                  /\ \/ \E n : t = CpuExec(s, n)
                     \/ \E x : \/ t = [s EXCEPT !.state = x, !.at = "exit"]
                               \/ t = [s EXCEPT !.at = x]
                               \/ t = [s EXCEPT !.wp = x]
    BY <1>13 DEF Command, Is
  <2> HIDE DEF s
  <2>2. PICK t : /\ Types(Parent, t)
                 /\ \/ \E n : t = CpuExec(s, n)
                    \/ \E x : \/ t = [s EXCEPT !.state = x, !.at = "exit"]
                              \/ t = [s EXCEPT !.at = x]
                              \/ t = [s EXCEPT !.wp = x]
    BY <2>1
  <2>3. Hold(t, s)
    <3>1. (\E n : t = CpuExec(s, n)) => Hold(t, s)
      BY <1>1, RunHolds
    <3>2. ASSUME NEW x, t = [s EXCEPT !.state = x, !.at = "exit"]
                        \/ t = [s EXCEPT !.at = x] \/ t = [s EXCEPT !.wp = x]
          PROVE  Hold(t, s)
      BY <1>1, <3>2 DEF Hold, Booked
    <3> QED BY <2>2, <3>1, <3>2
  <2>4. Types(Parent, t)
    BY <2>2
  <2>5. Become(Parent, t) /\ budget' = [budget EXCEPT !.cmds = @ - 1]
    BY <2>4 DEF Types
  <2> QED BY <1>1, <1>2, <1>3, <2>1, <2>3, <2>5
<1> QED BY <1>6, <1>7, <1>8, <1>10, <1>11, <1>12, <1>13

\* The other three call dump_wave.
LEMMA ParentDumps ==
  ASSUME RInv, Family, ResetHalf(Parent) \/ Low(Parent) \/ High(Parent)
  PROVE  /\ UNCHANGED shm
         /\ \E s, next :
              /\ Hold(s, proc[Parent]) /\ DumpWave(Parent, s, next)
              /\ \/ proc[Parent].at = "reset" /\ next \in {"reset", "main"}
                 \/ proc[Parent].at = "low" /\ next = "high"
                 \/ proc[Parent].at = "high" /\ next = "count"
<1> DEFINE s == proc[Parent]
           t == [s EXCEPT !.resets = @ - 1]
<1>1. Booked(s)
  BY DEF Family
<1>2. \/ s.at = "reset" /\ \E next \in {"reset", "main"} : DumpWave(Parent, t, next)
      \/ s.at = "low" /\ DumpWave(Parent, s, "high")
      \/ s.at = "high" /\ DumpWave(Parent, Posedge(s), "count")
  BY DEF ResetHalf, Low, High, Is
<1>3. UNCHANGED shm
  BY DEF ResetHalf, Low, High
<1> HIDE DEF s
<1>4. Hold(t, s) /\ Hold(s, s) /\ Hold(Posedge(s), s)
  BY <1>1, RunHolds DEF Hold, Booked
<1> HIDE DEF t
<1>5. CASE s.at = "reset" /\ \E next \in {"reset", "main"} : DumpWave(Parent, t, next)
  BY <1>3, <1>4, <1>5 DEF s
<1>6. CASE s.at = "low" /\ DumpWave(Parent, s, "high")
  BY <1>3, <1>4, <1>6 DEF s
<1>7. CASE s.at = "high" /\ DumpWave(Parent, Posedge(s), "count")
  BY <1>3, <1>4, <1>7 DEF s
<1> QED BY <1>2, <1>5, <1>6, <1>7

\* The first process never sleeps.
LEMMA ParentAwake == RInv /\ Family => ~Wake(Parent)
BY DEF RInv, Family, Steady, Image, Wake, Is

\* Ctrl-C may remove snapshots, and is counted.
LEMMA CtrlCMoves ==
  ASSUME Family, CtrlC
  PROVE  Family' /\ budget'.ints < MaxInts
<1>1. /\ Parent \in DOMAIN proc
      /\ budget.ints \in 0 .. MaxInts /\ MaxInts \in Nat
      /\ \A p \in DOMAIN proc : Booked(proc[p])
  BY SimulatorAssumption DEF Family
<1>2. budget' = [budget EXCEPT !.ints = @ - 1] /\ budget.ints > 0
  BY DEF CtrlC
<1>3. PICK live, gone :
        /\ Parent \notin gone
        /\ proc' = [q \in DOMAIN proc \ gone |->
                     IF q \in live
                     THEN [proc[q] EXCEPT !.state = "STOP", !.sigint = "default"]
                     ELSE IF Ended(q) THEN proc[q]
                     ELSE [proc[q] EXCEPT !.at = "dead"]]
  BY DEF CtrlC
<1>4. ASSUME NEW q \in DOMAIN proc'
      PROVE  /\ q \in DOMAIN proc
             /\ Booked(proc'[q]) /\ proc'[q].kid = proc[q].kid /\ proc'[q].slots = proc[q].slots
             /\ proc'[q].cycle = proc[q].cycle /\ proc'[q].count = proc[q].count
  <2>1. q \in DOMAIN proc /\ Booked(proc[q])
    BY <1>1, <1>3
  <2> DEFINE s == proc[q]
  <2>2. proc'[q] \in {s, [s EXCEPT !.state = "STOP", !.sigint = "default"], [s EXCEPT !.at = "dead"]}
    BY <1>3
  <2> HIDE DEF s
  <2> QED BY <2>1, <2>2 DEF Booked, s
<1>5. Parent \in DOMAIN proc'
  BY <1>1, <1>3
<1> QED BY <1>1, <1>2, <1>4, <1>5 DEF Family

\* Every step keeps the family: new snapshots get numbers never used before.
LEMMA NextFamily ==
  ASSUME RInv, Family, [Next]_vars
  PROVE  Family'
<1>1. CASE UNCHANGED vars
  BY <1>1 DEF vars, Family, Booked
<1>2. ASSUME NEW p \in DOMAIN proc, p # Parent, Step(p) \/ Command(p) PROVE Family'
  <2>1. PICK t : Become(p, t) /\ t.kid /\ Booked(t)
    BY <1>2, KidStep
  <2>2. /\ budget'.pid = budget.pid /\ budget'.fails = budget.fails /\ budget'.ints = budget.ints
    BY <1>2, KidStep
  <2>3. /\ proc'[Parent] = proc[Parent] /\ DOMAIN proc' = DOMAIN proc /\ proc'[p] = t
        /\ \A q \in DOMAIN proc \ {p} : proc'[q] = proc[q]
    BY <1>2, <2>1 DEF Become
  <2> QED BY <1>2, <2>1, <2>2, <2>3 DEF Family
<1>3. CASE ResetHalf(Parent) \/ Low(Parent) \/ High(Parent)
  BY <1>3, ParentDumps, FamilyDump
<1>4. CASE \/ MainLoop(Parent) \/ Count(Parent) \/ Trace(Parent) \/ Leave(Parent)
           \/ WakeOldest(Parent) \/ NotGood(Parent) \/ Flag(Parent) \/ WaitPid(Parent)
           \/ Clear(Parent) \/ Command(Parent)
  <2>1. PICK t : OnlyParent(t) /\ Moves(t)
    BY <1>4, ParentMoves
  <2>2. /\ budget'.pid = budget.pid /\ budget'.fails = budget.fails /\ budget'.ints = budget.ints
    BY <1>4, ParentMoves
  <2>3. /\ Booked(t) /\ ~t.kid /\ Elems(t.slots) \subseteq Elems(proc[Parent].slots)
        /\ t.cycle \in Nat /\ t.count \in Nat /\ budget'.ints \in 0 .. MaxInts
    BY <2>1, <2>2 DEF Moves, Family, Booked, Elems
  <2> QED BY <2>1, <2>2, <2>3, FamilyMoves
<1>5. CASE CtrlC
  BY <1>5, CtrlCMoves
<1> QED BY <1>1, <1>2, <1>3, <1>4, <1>5, ParentAwake DEF Next, Step

-----------------------------------------------------------------------------
(* The row of snapshots reaches back far enough.                           *)
\* The cycle of the snapshot in slot i when the counter stands at m.
Since(m, i) == IF i <= m THEN (m - i + 1) * ForkEvery ELSE 0
\* How the counter of divide_condition, the slots and the cycle move together.
Paced(s) ==
  /\ s.at \in {"reset", "main", "prompt", "wake", "exit", "dead"} \cup Running
  /\ s.at = "wake" => s.state \in {"END", "ABORT"}
  /\ s.at \in {"reset", "main"} => s.cycle = 0
  /\ Len(s.slots) <= SLOT_SIZE
  /\ Len(s.slots) = SLOT_SIZE \/ s.count < Len(s.slots) \/ (s.count = 0 /\ s.at = "reset")
  /\ s.count * ForkEvery <= s.cycle /\ s.cycle <= (s.count + 1) * ForkEvery
  /\ s.at \in {"high", "count"} => s.cycle < (s.count + 1) * ForkEvery
\* All snapshots sleep, each forked where its slot says.
Row(s) ==
  /\ DOMAIN proc = {Parent} \cup Elems(s.slots)
  /\ \A i \in DOMAIN s.slots :
       proc[s.slots[i]].at = "shwait" /\ proc[s.slots[i]].cycle = Since(s.count, i)
  /\ \A i, j \in DOMAIN s.slots : s.slots[i] = s.slots[j] => i = j
Sleeping == ~shm.flag /\ Paced(proc[Parent]) /\ Row(proc[Parent])
\* The first process runs the design no more.
Over(s) == \/ s.at \in {"exit", "dead"}
           \/ s.at \in {"notgood", "flag", "waitpid", "clear", "prompt"} /\ s.state \in {"END", "ABORT"}
WInv == waveform /\ Undisturbed => Sleeping \/ Over(proc[Parent])

\* Whole periods, as the provers need them.
LEMMA Products ==
  ASSUME NEW m \in Nat
  PROVE  /\ m * ForkEvery \in Nat /\ (m + 1) * ForkEvery = m * ForkEvery + ForkEvery
         /\ \A k \in Nat : k <= m => k * ForkEvery <= m * ForkEvery
BY SimulatorAssumption

\* The quotient of a cycle of the current period or at its end.
LEMMA Quotient ==
  ASSUME NEW c \in Nat, NEW m \in Nat,
         m * ForkEvery <= c, c <= (m + 1) * ForkEvery
  PROVE  /\ c < (m + 1) * ForkEvery => c \div ForkEvery = m
         /\ c = (m + 1) * ForkEvery => c \div ForkEvery = m + 1
BY SimulatorAssumption

\* One period later each snapshot stands one slot further back.
LEMMA SinceShifts ==
  ASSUME NEW m \in Nat, NEW i \in Nat \ {0}
  PROVE  /\ Since(m + 1, i + 1) = Since(m, i)
         /\ Since(0, i) = 0
         /\ Since(m + 1, 1) = (m + 1) * ForkEvery
BY DEF Since

\* A call of dump_wave keeps the pace: it forks exactly when a period is over.
LEMMA SleepingDump ==
  ASSUME RInv, Family, Sleeping, waveform, UNCHANGED shm, budget'.fails = budget.fails,
         NEW s, NEW next, Hold(s, proc[Parent]), DumpWave(Parent, s, next),
         \/ proc[Parent].at = "reset" /\ next \in {"reset", "main"}
         \/ proc[Parent].at = "low" /\ next = "high"
         \/ proc[Parent].at = "high" /\ next = "count"
  PROVE  Sleeping'
<1> DEFINE t    == proc'[Parent]
           left == DOMAIN proc \ Victims(s)
<1>1. /\ Booked(t) /\ ~t.kid /\ t.at = next /\ t.state = s.state /\ t.cycle = s.cycle
      /\ \/ /\ ~Divides(s) /\ t.slots = s.slots /\ t.count = s.count
            /\ DOMAIN proc' = DOMAIN proc /\ budget' = budget
            /\ \A q \in DOMAIN proc \ {Parent} : proc'[q] = proc[q]
         \/ /\ Divides(s) /\ t.count = s.cycle \div ForkEvery
            /\ t.slots = <<NewPid>> \o Shift(s)
            /\ DOMAIN proc' = left \cup {NewPid} /\ Parent \in left /\ NewPid \notin DOMAIN proc
            /\ \A q \in left \ {Parent} : proc'[q] = proc[q]
            /\ Booked(proc'[NewPid]) /\ proc'[NewPid].kid /\ proc'[NewPid].at = "shwait"
            /\ proc'[NewPid].cycle = s.cycle
            /\ budget' = [budget EXCEPT !.pid = @ + 1]
         \/ /\ Divides(s) /\ t.count = s.cycle \div ForkEvery /\ t.slots = Shift(s)
            /\ DOMAIN proc' = left /\ Parent \in left
            /\ \A q \in left \ {Parent} : proc'[q] = proc[q]
            /\ budget' = [budget EXCEPT !.fails = @ - 1] /\ budget.fails > 0
  BY ParentDump
<1>2. /\ s.slots \in Seq(Pids) /\ Parent \notin Elems(s.slots) /\ s.cycle \in Nat /\ s.count \in Nat
      /\ Len(s.slots) \in Nat /\ DOMAIN s.slots = 1 .. Len(s.slots)
      /\ "fails" \in DOMAIN budget /\ budget.fails \in Nat
      /\ s.slots = proc[Parent].slots /\ s.count = proc[Parent].count /\ s.cycle = proc[Parent].cycle
  BY SimulatorAssumption DEF Family, Hold, RInv, IInv, ProcOK, BudgetOK
<1>3. ForkEvery \in Nat \ {0} /\ SLOT_SIZE \in Nat \ {0}
  BY SimulatorAssumption
<1>4. /\ next = "main" \/ next = "reset" => s.cycle = 0
      /\ Len(s.slots) <= SLOT_SIZE
      /\ Len(s.slots) = SLOT_SIZE \/ s.count < Len(s.slots)
           \/ (s.count = 0 /\ next \in {"reset", "main"} /\ s.cycle = 0)
      /\ s.count * ForkEvery <= s.cycle /\ s.cycle <= (s.count + 1) * ForkEvery
      /\ next \in {"reset", "main", "high", "count"}
      /\ next = "count" => s.cycle < (s.count + 1) * ForkEvery
  BY <1>2 DEF Sleeping, Paced
<1>5. /\ DOMAIN proc = {Parent} \cup Elems(s.slots)
      /\ \A i \in DOMAIN s.slots :
           proc[s.slots[i]].at = "shwait" /\ proc[s.slots[i]].cycle = Since(s.count, i)
      /\ \A i, j \in DOMAIN s.slots : s.slots[i] = s.slots[j] => i = j
  BY <1>2 DEF Sleeping, Row
<1>6. \A i \in DOMAIN s.slots : s.slots[i] # Parent
  BY <1>2 DEF Elems
<1>7. ~shm'.flag
  BY DEF Sleeping
<1> HIDE DEF t
<1>8. CASE /\ ~Divides(s) /\ t.slots = s.slots /\ t.count = s.count
           /\ DOMAIN proc' = DOMAIN proc /\ budget' = budget
           /\ \A q \in DOMAIN proc \ {Parent} : proc'[q] = proc[q]
  <2>1. s.cycle # 0 /\ s.count = s.cycle \div ForkEvery
    BY <1>8 DEF Divides
  <2>2. s.cycle < (s.count + 1) * ForkEvery
    <3>1. s.cycle # (s.count + 1) * ForkEvery
      BY <1>2, <1>4, <2>1, Quotient
    <3>2. (s.count + 1) * ForkEvery \in Nat
      BY <1>2, <1>3
    <3> QED BY <1>2, <1>4, <3>1, <3>2
  <2>3. Paced(t)
    BY <1>1, <1>2, <1>4, <1>8, <2>1, <2>2 DEF Paced, Running
  <2>4. \A i \in DOMAIN s.slots : s.slots[i] \in DOMAIN proc \ {Parent}
    BY <1>5, <1>6 DEF Elems
  <2>5. /\ DOMAIN proc' = {Parent} \cup Elems(t.slots)
        /\ \A i \in DOMAIN t.slots :
             proc'[t.slots[i]].at = "shwait" /\ proc'[t.slots[i]].cycle = Since(t.count, i)
        /\ \A i, j \in DOMAIN t.slots : t.slots[i] = t.slots[j] => i = j
    BY <1>5, <1>8, <2>4
  <2> QED BY <1>7, <2>3, <2>5 DEF Sleeping, Paced, Row, Since, t
<1>9. CASE /\ Divides(s) /\ t.count = s.cycle \div ForkEvery
           /\ t.slots = <<NewPid>> \o Shift(s)
           /\ DOMAIN proc' = left \cup {NewPid} /\ Parent \in left /\ NewPid \notin DOMAIN proc
           /\ \A q \in left \ {Parent} : proc'[q] = proc[q]
           /\ Booked(proc'[NewPid]) /\ proc'[NewPid].kid /\ proc'[NewPid].at = "shwait"
           /\ proc'[NewPid].cycle = s.cycle
           /\ budget' = [budget EXCEPT !.pid = @ + 1]
  <2> DEFINE m == s.count
             k == t.count
             new == t.slots
  <2>0. m \in Nat
    BY <1>2
  <2>1. /\ Len(new) = IF Full(s) THEN SLOT_SIZE ELSE Len(s.slots) + 1
        /\ DOMAIN new = 1 .. Len(new) /\ new[1] = NewPid
        /\ \A i \in DOMAIN new : i # 1 => i - 1 \in DOMAIN s.slots /\ new[i] = s.slots[i - 1]
        /\ Elems(new) = {NewPid} \cup (Elems(s.slots) \ Victims(s))
    <3>1. new = <<NewPid>> \o Shift(s)
      BY <1>9
    <3>2. /\ s.slots \in Seq(Pids) /\ Len(s.slots) <= SLOT_SIZE
          /\ \A i, j \in DOMAIN s.slots : s.slots[i] = s.slots[j] => i = j
      BY <1>2, <1>4, <1>5
    <3> HIDE DEF new
    <3> QED BY <3>1, <3>2, NewRow
  <2>2. Full(s) <=> Len(s.slots) = SLOT_SIZE
    BY DEF Full
  <2> HIDE DEF new
  <2>3. \/ s.cycle = 0 /\ m = 0 /\ t.count = 0
        \/ s.cycle = (m + 1) * ForkEvery /\ t.count = m + 1 /\ s.cycle # 0
    <3>1. CASE s.cycle = 0
      <4>1. m * ForkEvery = 0
        BY <1>2, <1>3, <1>4, <3>1, Products
      <4>2. m = 0
        BY <1>2, <1>3, <4>1
      <4>3. 0 \div ForkEvery = 0
        BY <1>3
      <4> QED BY <1>9, <3>1, <4>2, <4>3
    <3>2. CASE s.cycle # 0
      <4>1. s.count # s.cycle \div ForkEvery
        BY <1>9, <3>2 DEF Divides
      <4>2. ~(s.cycle < (m + 1) * ForkEvery)
        BY <1>2, <1>4, <4>1, Quotient
      <4>3. (m + 1) * ForkEvery \in Nat
        BY <1>2, <1>3
      <4>4. s.cycle = (m + 1) * ForkEvery
        BY <1>2, <1>4, <4>2, <4>3
      <4> QED BY <1>2, <1>4, <1>9, <3>2, <4>4, Quotient
    <3> QED BY <3>1, <3>2
  <2>4. s.cycle = k * ForkEvery /\ k \in Nat
    <3>1. \/ s.cycle = 0 /\ k = 0
          \/ s.cycle = (m + 1) * ForkEvery /\ k = m + 1
      BY <2>3
    <3>2. 0 * ForkEvery = 0
      BY <1>3
    <3> HIDE DEF k, m
    <3>3. CASE s.cycle = 0 /\ k = 0
      BY <3>2, <3>3
    <3>4. CASE s.cycle = (m + 1) * ForkEvery /\ k = m + 1
      BY <2>0, <3>4
    <3> QED BY <3>1, <3>3, <3>4
  <2>5. /\ k * ForkEvery <= t.cycle /\ t.cycle < (k + 1) * ForkEvery
        /\ t.cycle <= (k + 1) * ForkEvery
    <3> HIDE DEF k
    <3> QED BY <1>1, <1>3, <2>4, Products
  <2>6. Len(new) <= SLOT_SIZE /\ (Len(new) = SLOT_SIZE \/ k < Len(new))
    <3>1. /\ \/ k = 0
             \/ k = m + 1 /\ s.cycle # 0
          /\ Len(s.slots) = SLOT_SIZE \/ m < Len(s.slots) \/ (m = 0 /\ s.cycle = 0)
          /\ Len(s.slots) <= SLOT_SIZE
      BY <1>4, <2>3
    <3> HIDE DEF k, m
    <3> QED BY <1>2, <1>3, <2>0, <2>1, <2>2, <3>1
  <2>7. Paced(t)
    BY <1>1, <1>4, <2>5, <2>6 DEF Paced, Running, new
  <2>8. \A i \in DOMAIN s.slots : Since(k, i + 1) = Since(m, i)
    <3> SUFFICES ASSUME NEW i \in Nat \ {0} PROVE Since(k, i + 1) = Since(m, i)
      BY <1>2
    <3>1. CASE m = 0 /\ k = 0
      BY <3>1 DEF Since
    <3>2. CASE k = m + 1
      BY <2>0, <3>2, SinceShifts
    <3> QED BY <2>3, <3>1, <3>2
  <2>9. Since(k, 1) = s.cycle
    <3>1. CASE s.cycle = 0 /\ k = 0
      BY <3>1 DEF Since
    <3>2. CASE s.cycle = (m + 1) * ForkEvery /\ k = m + 1
      BY <2>0, <3>2, SinceShifts
    <3> QED BY <2>3, <3>1, <3>2
  <2> HIDE DEF m, k
  <2>10. \A q \in Elems(new) : q = NewPid \/ q \in left \ {Parent}
    BY <1>2, <1>5, <2>1
  <2>11. ASSUME NEW i \in DOMAIN new, i # 1
         PROVE  /\ i - 1 \in DOMAIN s.slots /\ new[i] = s.slots[i - 1] /\ i = (i - 1) + 1
                /\ new[i] \in left \ {Parent}
    <3>1. i - 1 \in DOMAIN s.slots /\ new[i] = s.slots[i - 1] /\ i \in Nat
      BY <2>1, <2>11
    <3>2. new[i] \in DOMAIN proc
      BY <1>5, <3>1 DEF Elems
    <3>3. new[i] \in Elems(new)
      BY DEF Elems
    <3> QED BY <1>9, <2>10, <3>1, <3>2, <3>3
  <2>12. ASSUME NEW i \in DOMAIN new
         PROVE  proc'[new[i]].at = "shwait" /\ proc'[new[i]].cycle = Since(k, i)
    <3>1. CASE i = 1
      BY <1>9, <2>1, <2>9, <3>1
    <3>2. CASE i # 1
      <4>1. /\ i - 1 \in DOMAIN s.slots /\ new[i] = s.slots[i - 1] /\ i = (i - 1) + 1
            /\ new[i] \in left \ {Parent}
        BY <2>11, <3>2
      <4>2. proc'[new[i]] = proc[s.slots[i - 1]]
        BY <1>9, <4>1
      <4>3. Since(k, i) = Since(m, i - 1)
        BY <2>8, <4>1
      <4> QED BY <1>5, <4>1, <4>2, <4>3 DEF m
    <3> QED BY <3>1, <3>2
  <2>13. ASSUME NEW i \in DOMAIN new, NEW j \in DOMAIN new, new[i] = new[j]
         PROVE  i = j
    <3>1. CASE i # 1 /\ j # 1
      BY <1>5, <2>11, <2>13, <3>1
    <3>2. CASE i = 1 \/ j = 1
      BY <1>9, <2>1, <2>11, <2>13, <3>2
    <3> QED BY <3>1, <3>2
  <2>14. DOMAIN proc' = {Parent} \cup Elems(new)
    BY <1>5, <1>9, <2>1
  <2> QED BY <1>7, <2>7, <2>12, <2>13, <2>14 DEF Sleeping, Paced, Row, Since, t, new, k
<1>10. ~ /\ budget' = [budget EXCEPT !.fails = @ - 1] /\ budget.fails > 0
  BY <1>2
<1> QED BY <1>1, <1>8, <1>9, <1>10

\* Where the other steps of the first process lead.
Turns(s, t) ==
  \/ /\ s.at \in {"main", "count", "trace", "leave", "prompt"}
     /\ t.at \in {"low", "trace", "leave", "prompt", "exit", "dead"}
     /\ s.at = "prompt" /\ s.state \in {"END", "ABORT"} =>
          t.at \in {"exit", "dead"} \/ (t.at = "prompt" /\ t.state = s.state)
     /\ DOMAIN proc' = DOMAIN proc /\ UNCHANGED shm
  \/ /\ s.at = "leave" /\ t.at = "wake" /\ t.state \in {"END", "ABORT"}
     /\ DOMAIN proc' = DOMAIN proc /\ UNCHANGED shm
  \/ /\ s.at \in Rescue /\ t.state = s.state
     /\ t.at \in {"notgood", "flag", "waitpid", "clear", "prompt", "exit", "dead"}

\* How those steps move the counter, the slots and the cycle.
LEMMA ParentTurns ==
  ASSUME RInv, Family,
         \/ MainLoop(Parent) \/ Count(Parent) \/ Trace(Parent) \/ Leave(Parent)
         \/ WakeOldest(Parent) \/ NotGood(Parent) \/ Flag(Parent) \/ WaitPid(Parent)
         \/ Clear(Parent) \/ Command(Parent)
  PROVE  Turns(proc[Parent], proc'[Parent])
<1> DEFINE s == proc[Parent]
<1>1. Booked(s) /\ Parent \in DOMAIN proc /\ Parent \notin Elems(s.slots) /\ s.slots \in Seq(Pids)
  BY DEF Family, RInv, IInv, ProcOK
<1>2. ASSUME NEW t, Become(Parent, t) PROVE proc'[Parent] = t /\ DOMAIN proc' = DOMAIN proc
  BY <1>1, <1>2 DEF Become
<1>3. ASSUME NEW u, Booked(u), NEW n
      PROVE  /\ CpuExec(u, n).at \in {"low", "prompt", "exit"}
             /\ u.state \in {"END", "ABORT"} =>
                  CpuExec(u, n).at # "low" /\ CpuExec(u, n).state = u.state
  BY <1>3 DEF CpuExec, ExecOnce, Return, Booked
<1>4. CASE MainLoop(Parent)
  <2> DEFINE t == [s EXCEPT !.diff = InitDiff]
             u == [s EXCEPT !.diff = InitDiff, !.at = "prompt"]
  <2>1. UNCHANGED shm /\ Become(Parent, IF batch THEN CpuExec(t, Forever) ELSE u) /\ s.at = "main"
    BY <1>4 DEF MainLoop, Is
  <2> HIDE DEF s
  <2>2. u.at = "prompt" /\ Booked(t)
    BY <1>1 DEF Booked
  <2> HIDE DEF t, u
  <2>3. proc'[Parent].at \in {"low", "prompt", "exit"} /\ DOMAIN proc' = DOMAIN proc
    BY <1>2, <1>3, <2>1, <2>2
  <2> QED BY <2>1, <2>3 DEF Turns, s
<1>5. CASE Count(Parent)
  <2>1. UNCHANGED shm /\ Become(Parent, Ticked(s)) /\ s.at = "count"
    BY <1>5 DEF Count, Is
  <2>2. Ticked(s).at \in {"low", "trace", "leave"}
    BY <1>1, TickedHolds
  <2> QED BY <1>2, <2>1, <2>2 DEF Turns
<1>6. CASE Trace(Parent)
  <2>1. UNCHANGED shm /\ Become(Parent, Traced(s)) /\ s.at = "trace"
    BY <1>6 DEF Trace, Is
  <2>2. Traced(s).at \in {"low", "leave"}
    BY <1>1, <2>1, GivenNat, TracedGoes DEF RInv, Steady, Here
  <2> QED BY <1>2, <2>1, <2>2 DEF Turns
<1>7. CASE Leave(Parent)
  <2>1. UNCHANGED shm /\ Become(Parent, Left(s)) /\ s.at = "leave"
    BY <1>7 DEF Leave, Is
  <2>2. \/ Left(s).at \in {"exit", "prompt"}
        \/ Left(s).at = "wake" /\ Left(s).state \in {"END", "ABORT"}
    <3> HIDE DEF s
    <3> QED BY <1>1 DEF Left, Return, Failed, Booked
  <2> QED BY <1>2, <2>1, <2>2 DEF Turns
<1>8. ASSUME NEW at PROVE [s EXCEPT !.at = at].at = at /\ [s EXCEPT !.at = at].state = s.state
  BY <1>1 DEF Booked
<1>9. CASE NotGood(Parent) \/ Flag(Parent)
  <2>1. s.at \in Rescue /\ \E at \in {"flag", "waitpid"} : Become(Parent, [s EXCEPT !.at = at])
    BY <1>9 DEF NotGood, Flag, Is, Rescue
  <2>2. PICK at \in {"flag", "waitpid"} : Become(Parent, [s EXCEPT !.at = at])
    BY <2>1
  <2>3. proc'[Parent].at = at /\ proc'[Parent].state = s.state
    BY <1>2, <1>8, <2>2
  <2> QED BY <2>1, <2>3 DEF Turns
<1>10. CASE WakeOldest(Parent) \/ WaitPid(Parent)
  <2>1. Target(s) # Parent
    <3>1. s.slots # <<>> => Oldest(s.slots) \in Elems(s.slots)
      BY <1>1 DEF Oldest, Elems
    <3> QED BY <1>1, <3>1 DEF Target, NoPid, Parent
  <2>2. /\ s.at \in Rescue
        /\ \/ \E S : \E at \in {"notgood", "clear"} :
                Parent \notin S /\ proc' = [Without(S) EXCEPT ![Parent].at = at]
           \/ Become(Parent, [s EXCEPT !.at = "dead"])
    <3>1. Parent \notin Elems(s.slots) \ {Target(s)} /\ Parent \notin {Target(s)}
      BY <1>1, <2>1
    <3> QED BY <1>10, <3>1 DEF WakeOldest, WaitPid, Is, Rescue
  <2>3. ASSUME NEW S, NEW at \in {"notgood", "clear"}, Parent \notin S,
               proc' = [Without(S) EXCEPT ![Parent].at = at]
        PROVE  proc'[Parent] = [s EXCEPT !.at = at]
    BY <1>1, <2>3 DEF Without
  <2>4. proc'[Parent].state = s.state /\ proc'[Parent].at \in {"notgood", "clear", "dead"}
    BY <1>2, <1>8, <2>2, <2>3
  <2> QED BY <2>2, <2>4 DEF Turns
<1>11. CASE Clear(Parent)
  <2> DEFINE S == Elems(s.slots)
             t == Return([s EXCEPT !.slots = <<>>])
  <2>1. s.at = "clear" /\ proc'[Parent] = t
    BY <1>1, <1>11 DEF Clear, Is, Without
  <2>2. t.at \in {"prompt", "exit"} /\ t.state = s.state
    BY <1>1 DEF Return, Booked
  <2> HIDE DEF t
  <2> QED BY <2>1, <2>2 DEF Turns, Rescue
<1>12. CASE Command(Parent)
  <2>1. /\ s.at = "prompt" /\ UNCHANGED shm
        /\ \E t : /\ Types(Parent, t)
                  /\ \/ \E n : t = CpuExec(s, n)
                     \/ t = [s EXCEPT !.state = "QUIT", !.at = "exit"]
                     \/ \E at \in {"exit", "dead"} : t = [s EXCEPT !.at = at]
                     \/ \E x : t = [s EXCEPT !.wp = x]
    BY <1>12 DEF Command, Is
  <2> HIDE DEF s
  <2>2. PICK t : /\ Types(Parent, t)
                 /\ \/ \E n : t = CpuExec(s, n)
                    \/ t = [s EXCEPT !.state = "QUIT", !.at = "exit"]
                    \/ \E at \in {"exit", "dead"} : t = [s EXCEPT !.at = at]
                    \/ \E x : t = [s EXCEPT !.wp = x]
    BY <2>1
  <2>3. /\ t.at \in {"low", "prompt", "exit", "dead"}
        /\ s.state \in {"END", "ABORT"} =>
             t.at \in {"exit", "dead"} \/ (t.at = "prompt" /\ t.state = s.state)
    <3>1. ASSUME NEW n, t = CpuExec(s, n)
          PROVE  /\ t.at \in {"low", "prompt", "exit"}
                 /\ s.state \in {"END", "ABORT"} => t.at # "low" /\ t.state = s.state
      BY <1>1, <1>3, <3>1
    <3>2. t = [s EXCEPT !.state = "QUIT", !.at = "exit"] => t.at = "exit"
      BY <1>1 DEF Booked
    <3>3. ASSUME NEW at \in {"exit", "dead"}, t = [s EXCEPT !.at = at] PROVE t.at = at
      BY <1>1, <3>3 DEF Booked
    <3>4. ASSUME NEW x, t = [s EXCEPT !.wp = x] PROVE t.at = "prompt" /\ t.state = s.state
      BY <1>1, <2>1, <3>4 DEF Booked
    <3> QED BY <2>2, <3>1, <3>2, <3>3, <3>4
  <2>4. Types(Parent, t)
    BY <2>2
  <2>5. proc'[Parent] = t /\ DOMAIN proc' = DOMAIN proc
    BY <1>2, <2>4 DEF Types
  <2> QED BY <2>1, <2>3, <2>5 DEF Turns, s
<1> QED BY <1>4, <1>5, <1>6, <1>7, <1>9, <1>10, <1>11, <1>12

\* The other steps of the first process leave its snapshots asleep, or it is over.
LEMMA MovesOn ==
  ASSUME RInv, Family, Sleeping \/ Over(proc[Parent]), NEW t, OnlyParent(t), Moves(t),
         Turns(proc[Parent], t)
  PROVE  (Sleeping \/ Over(proc[Parent]))'
<1> DEFINE s == proc[Parent]
<1>1. /\ Parent \in DOMAIN proc /\ s.cycle \in Nat /\ s.count \in Nat
      /\ proc'[Parent] = t /\ \A q \in DOMAIN proc' \ {Parent} : proc'[q] = proc[q]
      /\ Parent \notin Elems(s.slots)
  BY DEF Family, OnlyParent
<1>2. Over(t) => (Sleeping \/ Over(proc[Parent]))'
  BY <1>1 DEF Over
<1>3. CASE Over(s)
  <2>1. s.at \notin {"main", "count", "trace", "leave"} /\ (s.at = "prompt" => s.state \in {"END", "ABORT"})
    BY <1>3 DEF Over
  <2>2. Over(t)
    BY <1>3, <2>1 DEF Over, Turns, Rescue
  <2> QED BY <1>2, <2>2
<1>4. CASE Sleeping
  <2>1. Paced(s) /\ Row(s) /\ ~shm.flag
    BY <1>4 DEF Sleeping
  <2>2. CASE s.at \in Rescue
    <3>1. s.at = "wake" /\ s.state \in {"END", "ABORT"}
      BY <2>1, <2>2 DEF Paced, Rescue, Running
    <3>2. Over(t) \/ t.at \in {"exit", "dead"} \/ t.at \in {"notgood", "flag", "waitpid", "clear", "prompt"}
      BY <2>2, <3>1 DEF Turns, Rescue
    <3>3. Over(t)
      BY <3>1, <3>2 DEF Turns, Over, Rescue
    <3> QED BY <1>2, <3>3
  <2>3. CASE s.at \notin Rescue
    <3>1. /\ s.at \in {"main", "count", "trace", "leave", "prompt"}
          /\ t.at \in {"low", "trace", "leave", "prompt", "exit", "dead", "wake"}
          /\ t.at = "wake" => t.state \in {"END", "ABORT"}
          /\ DOMAIN proc' = DOMAIN proc /\ shm' = shm
      BY <2>3 DEF Turns
    <3>2. t.slots = s.slots /\ t.count = s.count
          /\ t.cycle = IF s.at = "count" THEN s.cycle + 1 ELSE s.cycle
      BY <3>1 DEF Moves
    <3>3. (s.count + 1) * ForkEvery \in Nat /\ s.count * ForkEvery \in Nat
      BY <1>1, SimulatorAssumption
    <3>4. Paced(t)
      BY <1>1, <2>1, <3>1, <3>2, <3>3 DEF Paced, Running
    <3>5. \A i \in DOMAIN s.slots : s.slots[i] \in DOMAIN proc' \ {Parent}
      BY <1>1, <2>1, <3>1 DEF Row, Elems
    <3>6. /\ DOMAIN proc' = {Parent} \cup Elems(t.slots)
          /\ \A i \in DOMAIN t.slots :
               proc'[t.slots[i]].at = "shwait" /\ proc'[t.slots[i]].cycle = Since(t.count, i)
          /\ \A i, j \in DOMAIN t.slots : t.slots[i] = t.slots[j] => i = j
      BY <1>1, <2>1, <3>1, <3>2, <3>5 DEF Row
    <3> QED BY <1>1, <2>1, <3>1, <3>4, <3>6 DEF Sleeping, Paced, Row, Since
  <2> QED BY <2>2, <2>3
<1> QED BY <1>3, <1>4

\* While all snapshots sleep only the first process has anything to do.
LEMMA KidsSleep ==
  ASSUME RInv, Family, Sleeping, NEW p \in DOMAIN proc, p # Parent
  PROVE  ~Step(p) /\ ~Command(p)
<1>1. p \in Elems(proc[Parent].slots)
  BY DEF Sleeping, Row
<1>2. proc[p].at = "shwait" /\ ~shm.flag
  BY <1>1 DEF Sleeping, Row, Elems
<1> QED BY <1>2 DEF Step, Command, ResetHalf, MainLoop, Low, High, Count, Trace, Leave, Wake, WakeOldest,
                    NotGood, Flag, WaitPid, Clear, Is

\* As long as no fork fails and nobody types Ctrl-C, every step keeps the row.
LEMMA NextWInv ==
  ASSUME RInv, Family, WInv, [Next]_vars
  PROVE  WInv'
<1> SUFFICES ASSUME waveform', Undisturbed'
             PROVE  (Sleeping \/ Over(proc[Parent]))'
  BY DEF WInv
<1>1. Family'
  BY NextFamily
<1>2. UNCHANGED config
  BY ConfigFixed
<1>3. waveform
  BY <1>2 DEF waveform, config
<1>4. /\ budget.ints \in 0 .. MaxInts /\ budget.fails \in 0 .. MaxForkFails
      /\ {"pid", "fails", "cmds", "ints"} \subseteq DOMAIN budget
      /\ budget'.ints = MaxInts /\ budget'.fails = MaxForkFails
      /\ MaxInts \in Nat /\ MaxForkFails \in Nat
      /\ Parent \in DOMAIN proc
  BY SimulatorAssumption DEF Family, RInv, IInv, BudgetOK, Undisturbed
<1>5. CASE UNCHANGED vars
  <2>1. Sleeping \/ Over(proc[Parent])
    BY <1>3, <1>4, <1>5 DEF WInv, Undisturbed, vars
  <2> QED BY <1>5, <2>1 DEF vars, Sleeping, Over, Paced, Row, Since
<1>6. ASSUME NEW p \in DOMAIN proc, p # Parent, Step(p) \/ Command(p)
      PROVE  (Sleeping \/ Over(proc[Parent]))'
  <2>1. budget'.ints = budget.ints /\ budget'.fails = budget.fails
    BY <1>6, KidStep
  <2>2. Over(proc[Parent])
    BY <1>3, <1>4, <1>6, <2>1, KidsSleep DEF WInv, Undisturbed
  <2>3. \E t : Become(p, t)
    BY <1>6, KidStep
  <2>4. proc'[Parent] = proc[Parent]
    BY <1>4, <1>6, <2>3 DEF Become
  <2> QED BY <2>2, <2>4 DEF Over
<1>7. CASE ResetHalf(Parent) \/ Low(Parent) \/ High(Parent)
  <2>1. PICK s, next :
          /\ Hold(s, proc[Parent]) /\ DumpWave(Parent, s, next)
          /\ \/ proc[Parent].at = "reset" /\ next \in {"reset", "main"}
             \/ proc[Parent].at = "low" /\ next = "high"
             \/ proc[Parent].at = "high" /\ next = "count"
    BY <1>7, ParentDumps
  <2>2. UNCHANGED shm
    BY <1>7, ParentDumps
  <2>3. \/ budget' = budget \/ budget' = [budget EXCEPT !.pid = @ + 1]
        \/ budget' = [budget EXCEPT !.fails = @ - 1] /\ budget.fails > 0
    BY <2>1, ParentDump
  <2>4. budget'.ints = budget.ints /\ budget'.fails = budget.fails
    BY <1>4, <2>3
  <2>5. Sleeping \/ Over(proc[Parent])
    BY <1>3, <1>4, <2>4 DEF WInv, Undisturbed
  <2>6. ~Over(proc[Parent])
    BY <2>1 DEF Over
  <2> QED BY <1>3, <2>1, <2>2, <2>4, <2>5, <2>6, SleepingDump
<1>8. CASE \/ MainLoop(Parent) \/ Count(Parent) \/ Trace(Parent) \/ Leave(Parent)
           \/ WakeOldest(Parent) \/ NotGood(Parent) \/ Flag(Parent) \/ WaitPid(Parent)
           \/ Clear(Parent) \/ Command(Parent)
  <2>1. PICK t : OnlyParent(t) /\ Moves(t)
    BY <1>8, ParentMoves
  <2>2. budget'.ints = budget.ints /\ budget'.fails = budget.fails
    BY <1>8, ParentMoves
  <2>3. Turns(proc[Parent], t)
    BY <1>8, <2>1, ParentTurns DEF OnlyParent
  <2>4. Sleeping \/ Over(proc[Parent])
    BY <1>3, <1>4, <2>2 DEF WInv, Undisturbed
  <2> QED BY <2>1, <2>3, <2>4, MovesOn
<1>9. CASE CtrlC
  BY <1>4, <1>9, CtrlCMoves
<1> QED BY <1>5, <1>6, <1>7, <1>8, <1>9, ParentAwake DEF Next, Step

\* At the start there is no snapshot.
LEMMA InitWInv == Init => Family /\ WInv
<1> SUFFICES ASSUME Init PROVE Family /\ WInv
  OBVIOUS
<1>1. DOMAIN proc = {Parent} /\ proc[Parent] = InitProc /\ ~shm.flag /\ 0 * ForkEvery = 0
      /\ (0 + 1) * ForkEvery = ForkEvery /\ ForkEvery \in Nat \ {0} /\ SLOT_SIZE \in Nat \ {0}
  BY SimulatorAssumption DEF Init
<1>2. /\ budget.pid = Parent + 1 /\ budget.ints = MaxInts /\ budget.fails = MaxForkFails
      /\ MaxInts \in Nat /\ MaxForkFails \in Nat
  BY SimulatorAssumption DEF Init
<1>3. /\ Booked(InitProc) /\ ~InitProc.kid /\ InitProc.slots = <<>>
      /\ InitProc.cycle = 0 /\ InitProc.count = 0 /\ InitProc.at = "reset"
  BY DEF InitProc, Booked
<1>4. Elems(<<>>) = {} /\ Len(<<>>) = 0 /\ DOMAIN <<>> = {}
  BY DEF Elems
<1>5. Family
  BY <1>1, <1>2, <1>3, <1>4 DEF Family, Parent
<1>6. Paced(InitProc)
  BY <1>1, <1>3, <1>4 DEF Paced, Running
<1>7. Row(InitProc)
  BY <1>1, <1>3, <1>4 DEF Row
<1> QED BY <1>1, <1>5, <1>6, <1>7 DEF WInv, Sleeping

\* The invariant says more than the property: which cycle each snapshot shows.
LEMMA WInvWindow ==
  ASSUME RInv, Family, WInv
  PROVE  WindowKept
<1> DEFINE s    == proc[Parent]
           kids == {q \in DOMAIN proc : Is(q, "shwait")}
           base == proc[Oldest(s.slots)].cycle
           m    == s.count
           n    == Len(s.slots)
<1> SUFFICES ASSUME waveform, Undisturbed, s.at \in Running
             PROVE  /\ Elems(s.slots) = kids /\ n \in 1 .. SLOT_SIZE
                    /\ \A i, j \in DOMAIN s.slots :
                         i < j => proc[s.slots[i]].cycle >= proc[s.slots[j]].cycle
                    /\ base = 0 \/ s.cycle - base >= (SLOT_SIZE - 1) * ForkEvery
                    /\ s.cycle - base <= SLOT_SIZE * ForkEvery
  BY DEF WindowKept
<1>1. ~Over(s)
  BY DEF Over, Running
<1>2. Paced(s) /\ Row(s)
  BY <1>1 DEF WInv, Sleeping
<1>3. /\ s.cycle \in Nat /\ m \in Nat /\ n \in Nat /\ DOMAIN s.slots = 1 .. n
      /\ Parent \in DOMAIN proc /\ Parent \notin Elems(s.slots)
      /\ SLOT_SIZE \in Nat \ {0} /\ ForkEvery \in Nat \ {0}
  BY SimulatorAssumption DEF Family, RInv, IInv, ProcOK
<1>4. n \in 1 .. SLOT_SIZE /\ (n = SLOT_SIZE \/ m < n)
  <2>1. n <= SLOT_SIZE /\ (n = SLOT_SIZE \/ m < n \/ s.at = "reset")
    BY <1>2 DEF Paced
  <2>2. s.at # "reset"
    BY DEF Running
  <2> HIDE DEF n, m, s
  <2> QED BY <1>3, <2>1, <2>2
<1>5. Elems(s.slots) = kids
  <2>1. ASSUME NEW q \in Elems(s.slots) PROVE q \in kids
    BY <1>2 DEF Row, Elems, Is
  <2>2. ASSUME NEW q \in kids PROVE q \in Elems(s.slots)
    <3>1. q # Parent
      BY DEF Is, Running
    <3> QED BY <1>2, <3>1 DEF Row
  <2> QED BY <2>1, <2>2
<1>6. \A i \in 1 .. n : proc[s.slots[i]].cycle = Since(m, i)
  BY <1>2, <1>3 DEF Row
<1>7. base = Since(m, n)
  BY <1>3, <1>4, <1>6 DEF Oldest
<1>8. m * ForkEvery <= s.cycle /\ s.cycle <= (m + 1) * ForkEvery
  BY <1>2 DEF Paced
<1> HIDE DEF m, n, base, s
<1>9. ASSUME NEW i \in 1 .. n, NEW j \in 1 .. n, i < j
      PROVE  Since(m, i) >= Since(m, j)
  <2>1. CASE j <= m
    <3> DEFINE a == m - i + 1
               b == m - j + 1
    <3>1. a \in Nat /\ b \in Nat /\ b <= a
      BY <1>3, <1>9, <2>1
    <3>2. Since(m, i) = a * ForkEvery /\ Since(m, j) = b * ForkEvery
      BY <1>3, <1>9, <2>1 DEF Since
    <3> HIDE DEF a, b
    <3>3. a * ForkEvery \in Nat /\ b * ForkEvery \in Nat /\ b * ForkEvery <= a * ForkEvery
      BY <3>1, Products
    <3> QED BY <3>2, <3>3
  <2>2. CASE ~(j <= m)
    <3>1. Since(m, j) = 0
      BY <2>2 DEF Since
    <3>2. Since(m, i) \in Nat
      BY <1>3, <1>9 DEF Since
    <3> QED BY <3>1, <3>2
  <2> QED BY <2>1, <2>2
<1>10. \A i, j \in 1 .. n : i < j => proc[s.slots[i]].cycle >= proc[s.slots[j]].cycle
  BY <1>6, <1>9
<1>11. /\ base = 0 \/ s.cycle - base >= (SLOT_SIZE - 1) * ForkEvery
       /\ s.cycle - base <= SLOT_SIZE * ForkEvery
  <2>1. CASE m < n
    <3>1. base = 0
      BY <1>3, <1>4, <1>7, <2>1 DEF Since
    <3>2. m + 1 <= SLOT_SIZE /\ m + 1 \in Nat /\ SLOT_SIZE \in Nat
      BY <1>3, <1>4, <2>1
    <3>3. (m + 1) * ForkEvery <= SLOT_SIZE * ForkEvery /\ (m + 1) * ForkEvery \in Nat
          /\ SLOT_SIZE * ForkEvery \in Nat
      BY <3>2, Products
    <3> QED BY <1>3, <1>8, <3>1, <3>3
  <2>2. CASE ~(m < n)
    <3> DEFINE d == SLOT_SIZE - 1
               e == m - SLOT_SIZE + 1
    <3>1. n = SLOT_SIZE /\ d \in Nat /\ e \in Nat /\ m = d + e
      BY <1>3, <1>4, <2>2
    <3>2. base = e * ForkEvery
      BY <1>3, <1>7, <2>2, <3>1 DEF Since
    <3>3. SLOT_SIZE * ForkEvery = d * ForkEvery + ForkEvery
      BY <1>3
    <3>4. (SLOT_SIZE - 1) * ForkEvery = d * ForkEvery
      OBVIOUS
    <3> HIDE DEF d, e
    <3>5. /\ m * ForkEvery = d * ForkEvery + e * ForkEvery
          /\ (m + 1) * ForkEvery = d * ForkEvery + e * ForkEvery + ForkEvery
          /\ d * ForkEvery \in Nat /\ e * ForkEvery \in Nat
      BY <1>3, <3>1
    <3> DEFINE D == d * ForkEvery
               E == e * ForkEvery
    <3>6. /\ D \in Nat /\ E \in Nat /\ base = E /\ s.cycle \in Nat /\ ForkEvery \in Nat
          /\ D + E <= s.cycle /\ s.cycle <= D + E + ForkEvery
      BY <1>3, <1>8, <3>2, <3>5
    <3>7. (SLOT_SIZE - 1) * ForkEvery = D /\ SLOT_SIZE * ForkEvery = D + ForkEvery
      BY <3>3, <3>4
    <3> HIDE DEF D, E
    <3>8. s.cycle - E >= D /\ s.cycle - E <= D + ForkEvery
      BY <3>6
    <3> QED BY <3>6, <3>7, <3>8
  <2> QED BY <2>1, <2>2
<1> QED BY <1>3, <1>4, <1>5, <1>10, <1>11 DEF s, n, base, m

\* While the first process runs, its slots hold exactly the sleeping snapshots,
\* newest first, and they reach back SLOT_SIZE - 1 periods or to the start, for
\* every number of slots and every period (do_fork and divide_condition,
\* lightsss.cpp): as long as no fork fails and nobody types Ctrl-C.
THEOREM WindowIsKept == Spec => []WindowKept
<1>1. RInv /\ Family /\ WInv /\ [Next]_vars => (RInv /\ Family /\ WInv)'
  BY NextRInv, NextFamily, NextWInv
<1>2. Init => RInv /\ Family /\ WInv
  BY InitRInv, InitWInv
<1>3. RInv /\ Family /\ WInv => WindowKept
  BY WInvWindow
<1> QED BY <1>1, <1>2, <1>3, PTL DEF Spec

-----------------------------------------------------------------------------
(* A replay runs at least as far as the run it repeats.                    *)
\* The cycle at which the current instruction ends: it retires, or the death
\* loop ends the run.
FlightEnd(ev) == IF ev < Events /\ dut.gap <= DeathLimit THEN (ev + 1) * dut.gap
                 ELSE ev * dut.gap + DeathLimit
\* The cycle at which a run ends that nothing stops before.
NaturalEnd == IF DeathLimit <= dut.gap THEN DeathLimit
              ELSE IF dut.halt # 0 THEN dut.halt * dut.gap ELSE Events * dut.gap + DeathLimit
\* Cycles are counted after the clock edge.
Clock(s, h) == IF h = "count" THEN s.cycle + 1 ELSE s.cycle
\* When a process that is to stop does so.
Due(s, h) == IF Flying(s, h) THEN FlightEnd(s.ev) ELSE Clock(s, h)
InFlight(s, h) ==
  /\ s.ev <= Events /\ Clock(s, h) = s.ev * dut.gap + s.window
  /\ s.ev < Events => s.window < dut.gap
  /\ s.ev > 0 => dut.gap < DeathLimit
  /\ dut.halt # 0 => s.ev < dut.halt
  /\ s.loops = DeathLimit - s.window + (IF h = "count" THEN 1 ELSE 0) /\ s.loops >= 1
  /\ s.state = "END" => s.ev + 1 = dut.halt
Retired(s, h) ==
  /\ 0 < s.ev /\ s.ev <= Events /\ Clock(s, h) = s.ev * dut.gap
  /\ h = "trace" \/ s.ev > 1 => dut.gap < DeathLimit
  /\ h = "trace" => s.state = "RUNNING"
  /\ h = "count" => s.loops = DeathLimit - dut.gap + 1 /\ s.loops >= 1
  /\ dut.halt # 0 => s.ev < dut.halt \/ (h = "count" /\ s.ev = dut.halt /\ s.state # "RUNNING")
  /\ s.state = "END" => s.ev = dut.halt
\* The same cycle always shows the same instruction, in the run and its replay.
Instant(s) ==
  /\ {"at", "then", "state", "wave", "kid", "cycle", "window", "ev", "done", "n", "loops",
      "sigint", "wp"} \subseteq DOMAIN s
  /\ s.cycle \in Nat /\ s.window \in Nat /\ s.ev \in Nat /\ s.done \in BOOLEAN /\ s.loops \in Int
  /\ s.wp.head = <<>> /\ s.sigint # "stop" /\ (s.wave \/ s.kid => waveform)
Timed(s, h) ==
  /\ Instant(s) /\ h # "prompt"
  /\ h \in {"reset", "main"} => s.cycle = 0 /\ s.ev = 0 /\ s.window = 0 /\ s.state = "STOP"
  /\ Flying(s, h) \/ Landed(s, h) =>
       /\ s.n = Forever /\ s.state \in {"RUNNING", "END", "ABORT"}
       /\ s.wave /\ s.state = "ABORT" => shm.end <= Due(s, h)
  /\ Flying(s, h) => InFlight(s, h)
  /\ Landed(s, h) => s.window = 0 /\ Retired(s, h)
  /\ h \in {"leave", "wake"} => IF s.wave THEN shm.end <= s.cycle ELSE s.cycle <= NaturalEnd
  /\ h = "exit" /\ s.kid => s.wave /\ shm.end <= s.cycle

\* The part of the design and the shared memory these speak of.
Known == /\ dut.gap \in Nat \ {0} /\ Events \in Nat /\ dut.halt \in 0 .. Events
         /\ DeathLimit \in Nat \ {0} /\ shm.end \in Nat
\* What is known of every design and of the shared memory.
LEMMA KnownDut == dut \in Duts /\ shm.end \in Nat => Known
BY SimulatorAssumption DEF Known, DutOK, Events

\* Retirements are whole gaps apart.
LEMMA Gaps ==
  ASSUME Known, NEW a \in Nat
  PROVE  /\ a * dut.gap \in Nat /\ (a + 1) * dut.gap = a * dut.gap + dut.gap
         /\ \A b \in Nat : a <= b => a * dut.gap <= b * dut.gap
BY DEF Known

\* An instruction in flight ends no later than the run would by itself.
LEMMA EndsNatural ==
  ASSUME Known, NEW ev \in Nat, ev <= Events, ev > 0 => dut.gap < DeathLimit,
         dut.halt # 0 => ev < dut.halt
  PROVE  FlightEnd(ev) \in Nat /\ FlightEnd(ev) <= NaturalEnd
<1>1. CASE DeathLimit <= dut.gap
  <2>1. ev = 0 /\ NaturalEnd = DeathLimit
    BY <1>1 DEF Known, NaturalEnd
  <2>2. ev * dut.gap = 0 /\ (ev + 1) * dut.gap = dut.gap
    BY <2>1 DEF Known
  <2> QED BY <1>1, <2>1, <2>2 DEF Known, FlightEnd
<1>2. CASE ~(DeathLimit <= dut.gap)
  <2>1. CASE dut.halt # 0
    <3>1. FlightEnd(ev) = (ev + 1) * dut.gap /\ ev + 1 <= dut.halt /\ dut.halt \in Nat
      BY <1>2, <2>1 DEF FlightEnd, Known
    <3>2. (ev + 1) * dut.gap \in Nat /\ (ev + 1) * dut.gap <= dut.halt * dut.gap
      BY <3>1, Gaps
    <3> QED BY <1>2, <2>1, <3>1, <3>2 DEF NaturalEnd
  <2>2. CASE dut.halt = 0
    <3>1. NaturalEnd = Events * dut.gap + DeathLimit
      BY <1>2, <2>2 DEF NaturalEnd
    <3>2. CASE ev < Events
      <4>1. FlightEnd(ev) = (ev + 1) * dut.gap /\ ev + 1 <= Events /\ Events \in Nat
        BY <1>2, <3>2 DEF FlightEnd, Known
      <4>2. (ev + 1) * dut.gap \in Nat /\ (ev + 1) * dut.gap <= Events * dut.gap
            /\ Events * dut.gap \in Nat
        BY <4>1, Gaps
      <4> QED BY <3>1, <4>1, <4>2 DEF Known
    <3>3. CASE ev = Events
      <4>1. FlightEnd(ev) = Events * dut.gap + DeathLimit
        BY <3>3 DEF FlightEnd
      <4>2. Events * dut.gap \in Nat
        BY Gaps DEF Known
      <4> QED BY <3>1, <4>1, <4>2 DEF Known
    <3> QED BY <3>2, <3>3 DEF Known
  <2> QED BY <2>1, <2>2
<1> QED BY <1>1, <1>2

\* A process in flight is not past the end of its instruction.
LEMMA NotPast ==
  ASSUME Known, NEW s, NEW h, Instant(s), Flying(s, h), InFlight(s, h)
  PROVE  Clock(s, h) <= FlightEnd(s.ev) /\ Clock(s, h) \in Nat /\ s.window <= DeathLimit
<1>1. s.ev * dut.gap \in Nat /\ (s.ev + 1) * dut.gap = s.ev * dut.gap + dut.gap
  BY Gaps DEF Instant
<1>2. s.window <= DeathLimit
  BY DEF InFlight, Instant, Known
<1>3. Clock(s, h) = s.ev * dut.gap + s.window
  BY DEF InFlight
<1> DEFINE x == s.ev * dut.gap
           f == FlightEnd(s.ev)
           c == Clock(s, h)
<1>4. /\ x \in Nat /\ c = x + s.window /\ s.window \in Nat /\ dut.gap \in Nat /\ DeathLimit \in Nat
      /\ (s.window < dut.gap /\ f = x + dut.gap) \/ f = x + DeathLimit
  BY <1>1, <1>3 DEF Instant, Known, FlightEnd, InFlight
<1> HIDE DEF x, f, c
<1>5. c <= f /\ c \in Nat
  BY <1>2, <1>4
<1> QED BY <1>2, <1>5 DEF c, f

\* A clock edge keeps the clock and the count of retirements together.
LEMMA PosedgeTimed ==
  ASSUME Known, NEW s, Timed(s, "high")
  PROVE  Timed(Posedge(s), "count")
<1> DEFINE t == Posedge(s)
           retires == s.ev < Events /\ s.window + 1 = dut.gap
           x == s.ev * dut.gap
<1>1. Instant(s) /\ InFlight(s, "high") /\ Flying(s, "high")
      /\ s.n = Forever /\ s.state \in {"RUNNING", "END", "ABORT"}
      /\ (s.wave /\ s.state = "ABORT" => shm.end <= FlightEnd(s.ev))
  BY DEF Timed, Flying, Due
<1>2. /\ DOMAIN t = DOMAIN s /\ t.done = retires /\ t.cycle = s.cycle /\ t.loops = s.loops
      /\ t.n = s.n /\ t.wp = s.wp /\ t.sigint = s.sigint /\ t.wave = s.wave /\ t.kid = s.kid
      /\ t.ev = (IF retires THEN s.ev + 1 ELSE s.ev)
      /\ t.window = (IF retires THEN 0 ELSE s.window + 1)
      /\ t.state = IF dut.halt # 0 /\ s.ev + 1 = dut.halt THEN "END" ELSE s.state
  BY <1>1 DEF Posedge, Instant
<1>3. /\ s.ev \in Nat /\ s.window \in Nat /\ s.cycle \in Nat /\ s.loops \in Int /\ x \in Nat
      /\ (s.ev + 1) * dut.gap = x + dut.gap /\ dut.gap \in Nat /\ DeathLimit \in Nat
      /\ Events \in Nat /\ dut.halt \in Nat
  <2>1. s.ev \in Nat /\ s.window \in Nat /\ s.cycle \in Nat /\ s.loops \in Int
    BY <1>1 DEF Instant
  <2>2. dut.gap \in Nat /\ DeathLimit \in Nat /\ Events \in Nat /\ dut.halt \in Nat
    BY DEF Known
  <2>3. s.ev * dut.gap \in Nat /\ (s.ev + 1) * dut.gap = s.ev * dut.gap + dut.gap
    BY <2>1, Gaps
  <2> QED BY <2>1, <2>2, <2>3
<1>4. /\ s.ev <= Events /\ s.cycle = x + s.window
      /\ s.ev < Events => s.window < dut.gap
      /\ s.ev > 0 => dut.gap < DeathLimit
      /\ dut.halt # 0 => s.ev < dut.halt
      /\ s.loops = DeathLimit - s.window /\ s.loops >= 1
      /\ s.state = "END" => s.ev + 1 = dut.halt
  <2>1. Clock(s, "high") = s.cycle
    BY DEF Clock
  <2> QED BY <1>1, <1>3, <2>1 DEF InFlight
<1> HIDE DEF t
<1>5. t.done \in BOOLEAN
  BY <1>2
<1>8. Instant(t)
  <2>1. t.ev \in Nat /\ t.window \in Nat
    BY <1>1, <1>2 DEF Instant
  <2> HIDE DEF retires
  <2> QED BY <1>1, <1>2, <1>5, <2>1 DEF Instant
<1>6. CASE retires
  <2>1. /\ t.ev = s.ev + 1 /\ t.window = 0 /\ t.done /\ Clock(t, "count") = s.cycle + 1
        /\ ~Flying(t, "count") /\ Landed(t, "count")
    BY <1>2, <1>6 DEF Clock, Flying, Landed
  <2>2. Clock(t, "count") = t.ev * dut.gap /\ dut.gap <= DeathLimit
    <3>1. t.ev * dut.gap = x + dut.gap
      BY <1>3, <2>1
    <3>2. s.cycle + 1 = x + dut.gap /\ dut.gap <= DeathLimit
      <4> HIDE DEF x
      <4> QED BY <1>3, <1>4, <1>6
    <3> QED BY <2>1, <3>1, <3>2
  <2>3. Retired(t, "count")
    <3> HIDE DEF x
    <3> QED BY <1>2, <1>3, <1>4, <1>6, <2>1, <2>2 DEF Retired
  <2>5. t.wave /\ t.state = "ABORT" => shm.end <= Due(t, "count")
    <3>1. Due(t, "count") = x + dut.gap
      BY <1>3, <2>1, <2>2 DEF Due
    <3>2. FlightEnd(s.ev) = x + dut.gap
      BY <1>3, <1>6, <2>2 DEF FlightEnd
    <3> QED BY <1>1, <1>2, <3>1, <3>2
  <2>6. t.n = Forever /\ t.state \in {"RUNNING", "END", "ABORT"}
    BY <1>1, <1>2
  <2>7. t.window = 0 /\ ~Flying(t, "count")
    BY <2>1
  <2> QED BY <1>8, <2>3, <2>5, <2>6, <2>7 DEF Timed, t
<1>7. CASE ~retires
  <2>1. /\ t.ev = s.ev /\ t.window = s.window + 1 /\ ~t.done /\ Clock(t, "count") = s.cycle + 1
        /\ Flying(t, "count") /\ ~Landed(t, "count")
    BY <1>2, <1>7 DEF Clock, Flying, Landed
  <2>2. InFlight(t, "count")
    <3>1. t.ev * dut.gap = x
      BY <2>1
    <3> HIDE DEF x
    <3> QED BY <1>2, <1>3, <1>4, <1>7, <2>1, <3>1 DEF InFlight
  <2>4. t.wave /\ t.state = "ABORT" => shm.end <= Due(t, "count")
    BY <1>1, <1>2, <2>1 DEF Due
  <2>5. t.n = Forever /\ t.state \in {"RUNNING", "END", "ABORT"}
    BY <1>1, <1>2
  <2>6. ~Landed(t, "count")
    BY <2>1
  <2> QED BY <1>8, <2>2, <2>4, <2>5, <2>6 DEF Timed, t
<1> QED BY <1>6, <1>7

\* The first half of a cycle changes neither.
LEMMA LowTimed ==
  ASSUME NEW s, Timed(s, "low")
  PROVE  Timed(s, "high")
BY DEF Timed, Flying, Landed, InFlight, Clock, Due

\* A replay is stopped by dump_wave only past the end of the run it repeats.
LEMMA DumpedTimed ==
  ASSUME Known, NEW s, NEW next \in Resumes, Timed(s, next)
  PROVE  Timed(Dumped(s, next), next)
<1> DEFINE t == Dumped(s, next)
           stops == s.wave /\ shm.end < s.cycle
<1>1. Instant(s) /\ Known
  BY DEF Timed
<1>2. /\ Instant(t) /\ t.done = s.done /\ t.cycle = s.cycle /\ t.loops = s.loops /\ t.ev = s.ev
      /\ t.n = s.n /\ t.wave = s.wave /\ t.window = s.window
      /\ t.state = IF stops THEN "ABORT" ELSE s.state
  BY <1>1 DEF Dumped, Instant
<1>3. next \in {"reset", "main"} => ~stops
  BY <1>1 DEF Timed, Known
<1> HIDE DEF t
<1>4. /\ Flying(t, next) = Flying(s, next) /\ Landed(t, next) = Landed(s, next)
      /\ Clock(t, next) = Clock(s, next) /\ Due(t, next) = Due(s, next)
  BY <1>2 DEF Flying, Landed, Clock, Due
<1>5. Flying(s, next) => InFlight(t, next)
  BY <1>2, <1>4 DEF Timed, InFlight
<1>6. Landed(s, next) => Retired(t, next)
  BY <1>2, <1>4 DEF Timed, Retired, Resumes
<1>7. ASSUME Flying(s, next) \/ Landed(s, next), stops
      PROVE  shm.end <= Due(s, next)
  <2>1. Clock(s, next) >= s.cycle /\ Clock(s, next) \in Nat
    BY <1>1 DEF Clock, Instant
  <2>2. Due(s, next) >= Clock(s, next) /\ Due(s, next) \in Int
    <3>1. CASE Flying(s, next)
      <4>1. /\ InFlight(s, next) /\ Due(s, next) = FlightEnd(s.ev)
            /\ s.ev <= Events /\ (s.ev > 0 => dut.gap < DeathLimit) /\ s.ev \in Nat
            /\ (dut.halt # 0 => s.ev < dut.halt)
        BY <3>1, <1>1 DEF Timed, InFlight, Due, Instant
      <4>2. FlightEnd(s.ev) \in Nat
        BY <4>1, EndsNatural
      <4>3. Clock(s, next) <= FlightEnd(s.ev)
        BY <1>1, <3>1, <4>1, NotPast
      <4> QED BY <2>1, <4>1, <4>2, <4>3
    <3>2. CASE ~Flying(s, next)
      BY <2>1, <3>2 DEF Due
    <3> QED BY <3>1, <3>2
  <2> QED BY <1>1, <1>7, <2>1, <2>2 DEF Known, Instant
<1>8. next \notin {"leave", "wake", "prompt", "exit"}
  BY DEF Resumes
<1> QED BY <1>2, <1>3, <1>4, <1>5, <1>6, <1>7, <1>8 DEF Timed, t

\* A run of which something in flight is left dies in the death loop at its
\* natural end.
LEMMA DiesNatural ==
  ASSUME Known, NEW s, Instant(s), Flying(s, "count"), InFlight(s, "count"), s.loops = 1
  PROVE  s.cycle + 1 = NaturalEnd
<1>1. /\ s.ev \in Nat /\ s.window \in Nat /\ Events \in Nat /\ dut.gap \in Nat \ {0} /\ DeathLimit \in Nat
      /\ dut.halt \in 0 .. Events
  BY DEF Instant, Known
<1>2. /\ s.window = DeathLimit /\ s.cycle + 1 = s.ev * dut.gap + s.window /\ s.ev <= Events
      /\ s.ev < Events => s.window < dut.gap
      /\ s.ev > 0 => dut.gap < DeathLimit
      /\ dut.halt # 0 => s.ev < dut.halt
  BY <1>1 DEF InFlight, Clock
<1>3. CASE s.ev = 0
  <2>1. s.cycle + 1 = DeathLimit
    BY <1>1, <1>2, <1>3
  <2>2. CASE DeathLimit <= dut.gap
    BY <2>1, <2>2 DEF NaturalEnd
  <2>3. CASE ~(DeathLimit <= dut.gap)
    <3>1. Events = 0
      BY <1>1, <1>2, <1>3, <2>3
    <3>2. dut.halt = 0 /\ Events * dut.gap = 0
      BY <1>1, <3>1
    <3> QED BY <1>1, <2>1, <2>3, <3>2 DEF NaturalEnd
  <2> QED BY <2>2, <2>3
<1>4. CASE s.ev # 0
  <2>1. dut.gap < DeathLimit
    BY <1>1, <1>2, <1>4
  <2>2. s.ev = Events /\ dut.halt = 0 /\ ~(DeathLimit <= dut.gap)
    BY <1>1, <1>2, <2>1
  <2> QED BY <1>2, <2>2 DEF NaturalEnd
<1> QED BY <1>3, <1>4

\* The end of a cycle: out of cpu_exec at the right time, or on.
LEMMA TickedTimed ==
  ASSUME Known, NEW s, Timed(s, "count"), s.wave => shm.end <= NaturalEnd
  PROVE  Timed(Ticked(s), Ticked(s).at)
<1> DEFINE t == Ticked(s)
           dead == s.loops = 1
           x == s.ev * dut.gap
<1>1. Instant(s) /\ s.n = Forever /\ s.state \in {"RUNNING", "END", "ABORT"}
      /\ (s.wave /\ s.state = "ABORT" => shm.end <= Due(s, "count"))
      /\ Clock(s, "count") = s.cycle + 1
  BY DEF Timed, Flying, Landed, Clock, Instant
<1>2. /\ DOMAIN t = DOMAIN s /\ t.done = s.done /\ t.cycle = s.cycle + 1 /\ t.loops = s.loops - 1
      /\ t.n = s.n /\ t.wp = s.wp /\ t.sigint = s.sigint /\ t.wave = s.wave /\ t.kid = s.kid
      /\ t.ev = s.ev /\ t.window = s.window
      /\ t.state = (IF dead THEN "ABORT" ELSE s.state)
      /\ t.at = IF ~dead /\ ~s.done THEN "low" ELSE IF t.state = "RUNNING" THEN "trace" ELSE "leave"
  BY <1>1 DEF Ticked, Instant
<1>3. /\ s.ev \in Nat /\ s.window \in Nat /\ s.cycle \in Nat /\ s.loops \in Int /\ x \in Nat
      /\ dut.gap \in Nat /\ DeathLimit \in Nat /\ Events \in Nat /\ dut.halt \in Nat
  <2>1. s.ev \in Nat /\ s.window \in Nat /\ s.cycle \in Nat /\ s.loops \in Int
    BY <1>1 DEF Instant
  <2>2. dut.gap \in Nat /\ DeathLimit \in Nat /\ Events \in Nat /\ dut.halt \in Nat
    BY DEF Known
  <2> QED BY <2>1, <2>2
<1> HIDE DEF t
<1>4. Instant(t)
  BY <1>1, <1>2 DEF Instant
<1>5. CASE ~dead /\ ~s.done
  <2>1. /\ t.at = "low" /\ t.state = s.state /\ Flying(s, "count") /\ Flying(t, "low") /\ ~Landed(t, "low")
        /\ Clock(t, "low") = s.cycle + 1 /\ Due(t, "low") = Due(s, "count")
    BY <1>2, <1>5 DEF Flying, Landed, Clock, Due
  <2>2. InFlight(s, "count")
    BY <2>1 DEF Timed
  <2>3. InFlight(t, "low")
    <3>1. t.ev * dut.gap = x /\ s.ev * dut.gap = x
      BY <1>2
    <3> HIDE DEF x
    <3> QED BY <1>1, <1>2, <1>3, <1>5, <2>1, <2>2, <3>1 DEF InFlight
  <2> QED BY <1>1, <1>2, <1>4, <2>1, <2>3 DEF Timed, t
<1>6. CASE t.at = "trace"
  <2>1. ~dead /\ s.done /\ t.state = "RUNNING" /\ s.state = "RUNNING"
    BY <1>2, <1>6
  <2>2. /\ Landed(s, "count") /\ ~Flying(s, "count") /\ Landed(t, "trace") /\ ~Flying(t, "trace")
        /\ Clock(t, "trace") = s.cycle + 1
    BY <1>2, <2>1 DEF Flying, Landed, Clock
  <2>3. Retired(s, "count") /\ s.window = 0
    BY <2>2 DEF Timed
  <2>4. dut.gap < DeathLimit
    BY <1>3, <2>1, <2>3 DEF Retired
  <2>5. Retired(t, "trace")
    <3>1. t.ev * dut.gap = x /\ s.ev * dut.gap = x
      BY <1>2
    <3> HIDE DEF x
    <3> QED BY <1>1, <1>2, <1>3, <2>1, <2>2, <2>3, <2>4, <3>1 DEF Retired
  <2>6. t.state # "ABORT" /\ t.n = Forever
    BY <1>1, <1>2, <2>1
  <2> QED BY <1>2, <1>4, <1>6, <2>1, <2>2, <2>3, <2>5, <2>6 DEF Timed, t
<1>7. CASE t.at = "leave"
  <2>1. IF s.wave THEN shm.end <= s.cycle + 1 ELSE s.cycle + 1 <= NaturalEnd
    <3>1. CASE s.done
      <4>1. /\ Landed(s, "count") /\ ~Flying(s, "count") /\ Due(s, "count") = s.cycle + 1
        BY <1>1, <3>1 DEF Landed, Flying, Due
      <4>2. Retired(s, "count") /\ s.cycle + 1 = x /\ s.loops = DeathLimit - dut.gap + 1
            /\ s.ev \in 1 .. Events
        BY <1>1, <1>3, <4>1 DEF Timed, Retired
      <4>3. CASE dead
        <5>1. dut.gap = DeathLimit
          <6>1. s.loops = 1 /\ s.loops = DeathLimit - dut.gap + 1 /\ dut.gap \in Nat /\ DeathLimit \in Nat
            BY <1>3, <4>2, <4>3
          <6> HIDE DEF x
          <6> QED BY <6>1
        <5>2. s.ev = 1
          BY <1>3, <4>2, <5>1 DEF Retired
        <5>3. NaturalEnd = DeathLimit /\ x = dut.gap
          BY <1>3, <5>1, <5>2 DEF NaturalEnd
        <5> QED BY <1>3, <4>2, <5>1, <5>3 DEF Known
      <4>4. CASE ~dead
        <5>1. dut.gap < DeathLimit
          BY <1>3, <4>2, <4>4 DEF Retired
        <5>2. s.state # "RUNNING"
          BY <1>2, <1>7, <3>1, <4>4
        <5>3. CASE dut.halt # 0
          <6>1. NaturalEnd = dut.halt * dut.gap /\ s.ev <= dut.halt /\ (s.state = "END" => s.ev = dut.halt)
            BY <1>3, <4>2, <5>1, <5>3 DEF NaturalEnd, Retired
          <6>2. x <= dut.halt * dut.gap
            BY <1>3, <6>1, Gaps
          <6>3. s.state = "END" => x = NaturalEnd
            BY <6>1
          <6> QED BY <1>1, <4>1, <4>2, <5>2, <6>1, <6>2, <6>3
        <5>4. CASE dut.halt = 0
          <6>1. NaturalEnd = Events * dut.gap + DeathLimit
            BY <1>3, <5>1, <5>4 DEF NaturalEnd
          <6>2. x <= Events * dut.gap /\ Events * dut.gap \in Nat
            <7>1. s.ev \in Nat /\ Events \in Nat /\ s.ev <= Events
              BY <1>3, <4>2
            <7> QED BY <7>1, Gaps
          <6>3. x <= NaturalEnd
            <7> HIDE DEF x
            <7> QED BY <1>3, <6>1, <6>2
          <6>4. s.state = "ABORT"
            BY <1>1, <1>3, <4>2, <5>2, <5>4 DEF Retired
          <6> QED BY <1>1, <4>1, <4>2, <6>3, <6>4
        <5> QED BY <5>3, <5>4
      <4> QED BY <4>3, <4>4
    <3>2. CASE ~s.done
      <4>1. dead
        BY <1>2, <1>7, <3>2
      <4>2. Flying(s, "count") /\ InFlight(s, "count")
        BY <3>2 DEF Timed, Flying
      <4>3. s.cycle + 1 = NaturalEnd
        BY <1>1, <4>1, <4>2, DiesNatural
      <4> QED BY <1>3, <4>3
    <3> QED BY <3>1, <3>2
  <2>2. ~Flying(t, "leave") /\ ~Landed(t, "leave")
    BY DEF Flying, Landed
  <2> QED BY <1>2, <1>4, <1>7, <2>1, <2>2 DEF Timed, t
<1> QED BY <1>2, <1>5, <1>6, <1>7

\* In batch mode the run starts from cycle 0, without a limit.
LEMMA MainTimed ==
  ASSUME Known, batch, NEW s, Timed(s, "main")
  PROVE  LET t == CpuExec([s EXCEPT !.diff = InitDiff], Forever)
         IN Timed(t, t.at) /\ t.at = "low"
<1> DEFINE u == [s EXCEPT !.diff = InitDiff]
           v == [u EXCEPT !.n = Forever, !.state = "RUNNING",
                          !.sigint = IF batch THEN "clear" ELSE "stop"]
           t == ExecOnce(v)
<1>1. /\ Instant(s) /\ s.cycle = 0 /\ s.ev = 0 /\ s.window = 0 /\ s.state = "STOP"
  BY DEF Timed
<1>2. CpuExec(u, Forever) = t
  BY <1>1 DEF CpuExec, Instant
<1>3. /\ DOMAIN t = DOMAIN s /\ t.at = "low" /\ t.cycle = 0 /\ t.ev = 0 /\ t.window = 0
      /\ t.state = "RUNNING" /\ t.n = Forever /\ t.loops = DeathLimit /\ t.sigint = "clear"
      /\ t.wave = s.wave /\ t.kid = s.kid /\ t.wp = s.wp /\ t.done = s.done
  BY <1>1 DEF ExecOnce, Instant
<1> HIDE DEF t
<1>4. Instant(t)
  BY <1>1, <1>3 DEF Instant, Known
<1>5. InFlight(t, "low")
  <2>1. 0 * dut.gap = 0 /\ dut.gap \in Nat \ {0} /\ Events \in Nat /\ dut.halt \in Nat
        /\ DeathLimit \in Nat \ {0}
    BY DEF Known
  <2>2. t.ev * dut.gap = 0
    BY <1>3, <2>1
  <2> QED BY <1>3, <2>1, <2>2 DEF InFlight, Clock
<1>6. Flying(t, "low") /\ ~Landed(t, "low")
  BY DEF Flying, Landed
<1>7. Timed(t, "low")
  BY <1>3, <1>4, <1>5, <1>6 DEF Timed
<1> QED BY <1>2, <1>3, <1>7 DEF t

\* In batch mode nothing is watched, and a replay is not compared.
LEMMA TracedTimed ==
  ASSUME Known, NEW s, ProcOK(s), Memory(s), dut \in Duts, Timed(s, "trace")
  PROVE  Timed(Traced(s), "low") /\ Traced(s).at = "low"
<1> DEFINE c == Compared(s)
           u == Watched(c)
           t == ExecOnce(u)
<1>1. /\ Instant(s) /\ s.n = Forever /\ s.state = "RUNNING" /\ s.window = 0 /\ Retired(s, "trace")
      /\ s.wp.head = <<>>
  BY DEF Timed, Landed, Retired, Instant
<1>2. /\ DOMAIN c = DOMAIN s /\ c.cycle = s.cycle /\ c.ev = s.ev /\ c.window = s.window
      /\ c.n = s.n /\ c.sigint = s.sigint /\ c.wave = s.wave /\ c.kid = s.kid /\ c.wp = s.wp
      /\ c.done = s.done /\ c.state \in {"RUNNING", "ABORT"} /\ (s.wave => c.state = "RUNNING")
  BY <1>1 DEF Compared, Compares, Instant
<1>3. ProcOK(c)
  BY ComparedOK
<1> HIDE DEF c
<1>4. CheckDiff(c.wp, Val(c.ev)) = c.wp /\ ~Stops(c.wp, Val(c.ev))
  <2>1. Moved(c.wp, Val(c.ev)) = {}
    BY <1>1, <1>2 DEF Moved
  <2> QED BY <2>1 DEF CheckDiff, Stops
<1>5. /\ DOMAIN u = DOMAIN s /\ u.cycle = s.cycle /\ u.ev = s.ev /\ u.window = s.window
      /\ u.n = s.n /\ u.sigint = s.sigint /\ u.wave = s.wave /\ u.kid = s.kid /\ u.wp = s.wp
      /\ u.done = s.done /\ u.state = c.state
  BY <1>1, <1>2, <1>4 DEF Watched, Instant
<1> HIDE DEF u
<1>6. /\ DOMAIN t = DOMAIN s /\ t.cycle = s.cycle /\ t.ev = s.ev /\ t.window = 0 /\ t.at = "low"
      /\ t.n = Forever /\ t.sigint = s.sigint /\ t.wave = s.wave /\ t.kid = s.kid /\ t.wp = s.wp
      /\ t.done = s.done /\ t.state = c.state /\ t.loops = DeathLimit
  BY <1>1, <1>5 DEF ExecOnce, Instant
<1> HIDE DEF t
<1>7. Traced(s) = t
  BY <1>1, <1>5 DEF Traced, t, u, c, Forever
<1>8. Instant(t)
  BY <1>1, <1>6 DEF Instant, Known
<1>9. InFlight(t, "low")
  <2> DEFINE x == s.ev * dut.gap
  <2>1. /\ dut.gap \in Nat \ {0} /\ Events \in Nat /\ dut.halt \in Nat
        /\ DeathLimit \in Nat \ {0} /\ s.ev \in Nat /\ s.cycle \in Nat
    BY <1>1 DEF Known, Instant
  <2>2. t.ev * dut.gap = x /\ s.cycle = x
    BY <1>1, <1>6 DEF Retired, Clock
  <2>3. /\ s.ev <= Events /\ dut.gap < DeathLimit /\ (dut.halt # 0 => s.ev < dut.halt)
    BY <1>1 DEF Retired
  <2> HIDE DEF x
  <2> QED BY <1>2, <1>6, <2>1, <2>2, <2>3 DEF InFlight, Clock
<1>10. Flying(t, "low") /\ ~Landed(t, "low")
  BY DEF Flying, Landed
<1>11. Timed(t, "low")
  BY <1>2, <1>6, <1>8, <1>9, <1>10 DEF Timed
<1> QED BY <1>6, <1>7, <1>11

\* Out of cpu_exec a snapshot exits, and the first process may wake one.
LEMMA LeftTimed ==
  ASSUME batch, NEW s, Timed(s, "leave"), Memory(s), s.wave => s.kid, s.kid => s.wave
  PROVE  LET t == Left(s)
         IN /\ Timed(t, t.at) /\ t.at \in {"exit", "wake"}
            /\ (t.at = "wake" => t.state \in {"END", "ABORT"} /\ t.state = s.state)
<1> DEFINE t == Left(s)
<1>1. Instant(s) /\ (IF s.wave THEN shm.end <= s.cycle ELSE s.cycle <= NaturalEnd)
  BY DEF Timed
<1>2. /\ DOMAIN t = DOMAIN s /\ t.cycle = s.cycle /\ t.ev = s.ev /\ t.window = s.window
      /\ t.sigint = "default" /\ t.wave = s.wave /\ t.kid = s.kid /\ t.wp = s.wp
      /\ t.done = s.done /\ t.loops = s.loops
      /\ t.at \in {"exit", "wake"} /\ (t.at = "wake" => ~s.kid /\ t.state = s.state /\ Failed(t))
  BY <1>1 DEF Left, Return, Failed, Instant
<1> HIDE DEF t
<1>3. Instant(t) /\ ~Flying(t, t.at) /\ ~Landed(t, t.at)
  BY <1>1, <1>2 DEF Instant, Flying, Landed
<1>4. Timed(t, t.at)
  BY <1>1, <1>2, <1>3 DEF Timed, Memory
<1> QED BY <1>2, <1>4 DEF t, Failed

\* The snapshots' bookkeeping does not count here.
LEMMA AlikeTimed ==
  ASSUME NEW s, NEW h, Timed(s, h), Memory(s), NEW c, Alike(c, s)
  PROVE  Timed(c, h) /\ Memory(c)
<1>1. /\ DOMAIN c = DOMAIN s /\ \A f \in DOMAIN s \ {"count", "slots"} : c[f] = s[f]
      /\ Instant(s)
  BY DEF Alike, Timed
<1>2. Memory(c)
  BY <1>1 DEF Memory
<1>3. /\ Instant(c) /\ c.state = s.state /\ c.wave = s.wave /\ c.kid = s.kid /\ c.cycle = s.cycle
      /\ c.window = s.window /\ c.ev = s.ev /\ c.done = s.done /\ c.n = s.n /\ c.loops = s.loops
  BY <1>1 DEF Instant
<1>4. /\ Flying(c, h) = Flying(s, h) /\ Landed(c, h) = Landed(s, h)
      /\ Clock(c, h) = Clock(s, h) /\ Due(c, h) = Due(s, h)
  BY <1>3 DEF Flying, Landed, Clock, Due
<1>5. (InFlight(s, h) => InFlight(c, h)) /\ (Retired(s, h) => Retired(c, h))
  BY <1>3, <1>4 DEF InFlight, Retired
<1> QED BY <1>2, <1>3, <1>4, <1>5 DEF Timed

\* dump_wave leaves every process, a new snapshot included, where its cycle says.
LEMMA DumpWaveTimed ==
  ASSUME Known, NEW p \in DOMAIN proc, NEW s, NEW next \in Resumes,
         Timed(s, next), Memory(s), DumpWave(p, s, next)
  PROVE  \A q \in DOMAIN proc' : \/ q \in DOMAIN proc /\ proc'[q] = proc[q]
                                 \/ Timed(proc'[q], Here(proc'[q]))
<1>1. {"slots", "kid", "at", "then", "count"} \subseteq DOMAIN s
  BY DEF Memory
<1>2. ASSUME NEW c, Alike(c, s)
      PROVE  Timed(c, next) /\ Memory(c)
  BY <1>2, AlikeTimed
<1>3. ASSUME NEW c, Alike(c, s)
      PROVE  Timed(Dumped(c, next), Here(Dumped(c, next)))
  <2>1. Timed(c, next) /\ Memory(c)
    BY <1>2, <1>3
  <2>2. Dumped(c, next).at = next
    BY <2>1 DEF Dumped, Memory
  <2>3. Timed(Dumped(c, next), next)
    BY <2>1, DumpedTimed
  <2> QED BY <2>2, <2>3 DEF Here, Resumes
<1>4. ASSUME NEW c, Alike(c, s), waveform
      PROVE  LET k == [c EXCEPT !.kid = TRUE, !.at = "shwait", !.then = next]
             IN Timed(k, Here(k))
  <2> DEFINE k == [c EXCEPT !.kid = TRUE, !.at = "shwait", !.then = next]
  <2>1. Timed(c, next) /\ Memory(c) /\ Instant(c)
    BY <1>2, <1>4 DEF Timed
  <2>2. /\ DOMAIN k = DOMAIN c /\ k.at = "shwait" /\ k.then = next /\ k.kid
        /\ k.state = c.state /\ k.wave = c.wave /\ k.cycle = c.cycle
        /\ k.window = c.window /\ k.ev = c.ev /\ k.done = c.done /\ k.n = c.n /\ k.loops = c.loops
        /\ k.wp = c.wp /\ k.sigint = c.sigint
    BY <2>1 DEF Memory, Instant
  <2> HIDE DEF k
  <2>3. Instant(k) /\ Here(k) = next
    BY <1>4, <2>1, <2>2 DEF Instant, Here
  <2>4. /\ Flying(k, next) = Flying(c, next) /\ Landed(k, next) = Landed(c, next)
        /\ Clock(k, next) = Clock(c, next) /\ Due(k, next) = Due(c, next)
    BY <2>2 DEF Flying, Landed, Clock, Due
  <2>5. (InFlight(c, next) => InFlight(k, next)) /\ (Retired(c, next) => Retired(k, next))
    BY <2>2, <2>4 DEF InFlight, Retired
  <2>6. next # "exit"
    BY DEF Resumes
  <2>7. Timed(k, next)
    BY <2>1, <2>2, <2>3, <2>4, <2>5, <2>6 DEF Timed
  <2> QED BY <2>3, <2>7 DEF k
<1>5. ASSUME NEW q \in DOMAIN proc', ~(q \in DOMAIN proc /\ proc'[q] = proc[q])
      PROVE  Timed(proc'[q], Here(proc'[q]))
  <2>1. PICK c : /\ Alike(c, s)
                 /\ \/ proc'[q] = Dumped(c, next)
                    \/ /\ ~s.kid /\ waveform
                       /\ proc'[q] = [c EXCEPT !.kid = TRUE, !.at = "shwait", !.then = next]
    <3>1. Comes(proc'[q], s, next)
      BY <1>1, <1>5, DumpWaveOutcome
    <3> QED BY <3>1 DEF Comes
  <2> QED BY <2>1, <1>3, <1>4
<1> QED BY <1>5

-----------------------------------------------------------------------------
(* The first process, asleep copies of it, and the one that replays.       *)
Others == DOMAIN proc \ {Parent}
\* The first process has nothing left but to wait for the replay and to go.
Resting == {"waitpid", "clear", "exit", "dead"}
Woken == shm.flag \/ proc[Parent].at \in {"notgood", "flag"}
\* Snapshots sleep until one of them, the oldest, replays.
Alone ==
  LET s == proc[Parent] IN
  /\ shm.flag => s.at \in Resting
  /\ ~shm.flag => \A p \in Others : proc[p].at = "shwait"
  /\ \A p \in Others : proc[p].at # "shwait" => proc[p].wave
  /\ s.at \in {"notgood", "flag"} \cup Resting \/ Others \subseteq Elems(s.slots)
  /\ Woken => shm.end <= NaturalEnd /\ \A p \in Others : p = shm.oldest
\* A snapshot taken after the failure was found stops no earlier than the
\* process it was taken from.
Linked ==
  LET s == proc[Parent] IN
  \A p \in Others :
    proc[p].at = "shwait" /\ proc[p].state = "ABORT" =>
      IF Woken THEN shm.end <= Due(proc[p], proc[p].then)
      ELSE \/ s.at \in Resting
           \/ s.state \in {"END", "ABORT"} /\ Due(s, s.at) <= Due(proc[p], proc[p].then)
Shared == {"flag", "notgood", "end", "oldest"} \subseteq DOMAIN shm /\ shm.end \in Nat
AllTimed == \A p \in DOMAIN proc : Timed(proc[p], Here(proc[p]))
Replaying == Alone /\ Linked /\ AllTimed
ReplayInv == Shared /\ (batch => Replaying)

\* Only the end that is asked of a replay can change what holds of a process.
LEMMA TimedStays ==
  ASSUME UNCHANGED config, NEW s, NEW h, Timed(s, h),
         shm'.end = shm.end \/ (~s.wave /\ ~(h = "exit" /\ s.kid))
  PROVE  Timed(s, h)'
BY DEF config, Timed, Instant, Flying, Landed, InFlight, Retired, Clock, Due, FlightEnd, NaturalEnd,
       Events, waveform, Forever


\* A clock edge keeps the parts of the memory these speak of.
LEMMA PosedgeMemory ==
  ASSUME NEW s, Memory(s)
  PROVE  Memory(Posedge(s))
<1> DEFINE t == Posedge(s)
           retires == s.ev < Events /\ s.window + 1 = dut.gap
           first == IF s.cycle = 0 THEN Issue(s.diff, 1) ELSE s.diff
<1>1. /\ DOMAIN t = DOMAIN s /\ t.done = retires /\ t.wave = s.wave /\ t.kid = s.kid
      /\ t.ev = IF retires THEN s.ev + 1 ELSE s.ev
      /\ t.diff = IF retires THEN Issue(first, s.ev + 2) ELSE first
  BY DEF Posedge, Memory
<1>2. {"k", "ref", "skip", "intr"} \subseteq DOMAIN first /\ first.k = s.diff.k
  BY IssueKeeps DEF Memory
<1> HIDE DEF t, first
<1>3. {"k", "ref", "skip", "intr"} \subseteq DOMAIN t.diff /\ t.diff.k = s.diff.k
  BY <1>1, <1>2, IssueKeeps
<1>4. retires \in BOOLEAN
  OBVIOUS
<1> HIDE DEF retires
<1> QED BY <1>1, <1>3, <1>4 DEF Memory, t

\* What the invariant says of one process, with the types it rests on.
LEMMA ProcFacts ==
  ASSUME RInv, Family, ReplayInv, batch, NEW p \in DOMAIN proc
  PROVE  /\ Known /\ dut \in Duts /\ ProcOK(proc[p]) /\ Memory(proc[p]) /\ Image(proc[p])
         /\ Booked(proc[p]) /\ Timed(proc[p], Here(proc[p]))
         /\ p # Parent => /\ proc[p].kid
                          /\ proc[p].at # "shwait" => proc[p].wave /\ shm.flag
         /\ shm.flag => shm.notgood
<1>1. dut \in Duts /\ shm.end \in Nat
  BY DEF RInv, IInv, ReplayInv, Shared
<1>2. Known
  BY <1>1, KnownDut
<1> QED BY <1>1, <1>2
         DEF RInv, IInv, Steady, Goes, Family, ReplayInv, Replaying, AllTimed, Alone, Others

\* Only the process that was woken replays, and it stays where its cycle says.
LEMMA KidTimed ==
  ASSUME RInv, Family, ReplayInv, batch, NEW p \in DOMAIN proc, p # Parent, Step(p) \/ Command(p)
  PROVE  /\ shm.flag /\ shm' = shm
         /\ \E t : Become(p, t) /\ t.wave /\ t.at # "shwait" /\ Timed(t, t.at)
<1> DEFINE s == proc[p]
<1>1. /\ Known /\ dut \in Duts /\ ProcOK(s) /\ Memory(s) /\ Image(s) /\ Booked(s) /\ s.kid
      /\ Timed(s, Here(s)) /\ (s.at # "shwait" => s.wave /\ shm.flag)
      /\ shm.flag => shm.notgood
  BY ProcFacts
<1>2. s.at \notin Rescue
  BY <1>1 DEF Image
<1>3. ASSUME NEW u, NEW next \in Resumes, DumpWave(p, u, next),
             Timed(u, next), Hold(u, s), Memory(u), s.wave
      PROVE  \E t : Become(p, t) /\ t.wave /\ t.at # "shwait" /\ Timed(t, t.at)
  <2> DEFINE c == Counted(u)
             t == Dumped(c, next)
  <2>1. Become(p, t)
    BY <1>1, <1>3 DEF DumpWave, Hold
  <2>2. Alike(c, u)
    BY DEF Counted, Alike
  <2> HIDE DEF c
  <2>3. Timed(c, next) /\ Memory(c) /\ c.wave
    <3>1. c.wave = u.wave /\ u.wave = s.wave
      BY <1>3, <2>2 DEF Alike, Hold, Memory
    <3> QED BY <1>3, <2>2, <3>1, AlikeTimed
  <2>4. Timed(t, next)
    BY <1>1, <2>3, DumpedTimed
  <2>5. t.at = next /\ t.wave
    BY <2>3 DEF Dumped, Memory
  <2> HIDE DEF t
  <2> QED BY <2>1, <2>4, <2>5 DEF Resumes
<1> HIDE DEF s
<1>4. CASE ResetHalf(p)
  <2> DEFINE u == [s EXCEPT !.resets = @ - 1]
             next == IF u.resets = 0 THEN "main" ELSE "reset"
  <2>1. DumpWave(p, u, next) /\ s.at = "reset" /\ shm' = shm
    BY <1>4 DEF ResetHalf, Is, s
  <2>2. Timed(s, "reset")
    BY <1>1, <2>1 DEF Here
  <2>3. next \in {"main", "reset"}
    OBVIOUS
  <2>4. Timed(u, next) /\ Hold(u, s) /\ Memory(u)
    BY <1>1, <2>2, <2>3 DEF Timed, Instant, Flying, Landed, Hold, Booked, Memory
  <2> HIDE DEF u, next
  <2> QED BY <1>1, <1>3, <2>1, <2>3, <2>4 DEF Resumes
<1>5. CASE Low(p)
  <2>1. DumpWave(p, s, "high") /\ s.at = "low" /\ shm' = shm
    BY <1>5 DEF Low, Is, s
  <2>2. Timed(s, "high")
    BY <1>1, <2>1, LowTimed DEF Here
  <2>3. Hold(s, s)
    BY DEF Hold
  <2> QED BY <1>1, <1>3, <2>1, <2>2, <2>3 DEF Resumes
<1>6. CASE High(p)
  <2>1. DumpWave(p, Posedge(s), "count") /\ s.at = "high" /\ shm' = shm
    BY <1>6 DEF High, Is, s
  <2>2. Timed(Posedge(s), "count")
    BY <1>1, <2>1, PosedgeTimed DEF Here
  <2>3. Hold(Posedge(s), s)
    BY <1>1, RunHolds
  <2>4. Memory(Posedge(s))
    BY <1>1, <2>1, PosedgeMemory
  <2> QED BY <1>1, <1>3, <2>1, <2>2, <2>3, <2>4 DEF Resumes
<1>7. CASE MainLoop(p)
  <2> DEFINE t == CpuExec([s EXCEPT !.diff = InitDiff], Forever)
  <2>1. Become(p, t) /\ s.at = "main" /\ shm' = shm
    BY <1>7 DEF MainLoop, Is, s
  <2>2. Timed(s, "main")
    BY <1>1, <2>1 DEF Here
  <2>3. Timed(t, t.at) /\ t.at = "low"
    BY <1>1, <2>2, MainTimed
  <2>4. t.wave
    <3> DEFINE d == [s EXCEPT !.diff = InitDiff]
    <3>1. Booked(d) /\ d.wave = s.wave
      BY <1>1 DEF Booked
    <3> HIDE DEF d
    <3>2. CpuExec(d, Forever).wave = d.wave
      BY <3>1, RunHolds DEF Hold
    <3> QED BY <1>1, <2>1, <3>1, <3>2 DEF d
  <2> HIDE DEF t
  <2> QED BY <1>1, <2>1, <2>3, <2>4
<1>8. CASE Count(p)
  <2>1. Become(p, Ticked(s)) /\ s.at = "count" /\ shm' = shm
    BY <1>8 DEF Count, Is, s
  <2>2. shm.end <= NaturalEnd
    BY <1>1, <2>1 DEF ReplayInv, Replaying, Alone, Woken
  <2>3. Timed(Ticked(s), Ticked(s).at)
    BY <1>1, <2>1, <2>2, TickedTimed DEF Here
  <2>4. Ticked(s).wave = s.wave /\ Ticked(s).at \in {"low", "trace", "leave"}
    BY <1>1, TickedHolds
  <2> QED BY <1>1, <2>1, <2>3, <2>4
<1>9. CASE Trace(p)
  <2>1. Become(p, Traced(s)) /\ s.at = "trace" /\ shm' = shm
    BY <1>9 DEF Trace, Is, s
  <2>2. Timed(Traced(s), "low") /\ Traced(s).at = "low"
    BY <1>1, <2>1, TracedTimed DEF Here
  <2>3. Traced(s).wave = s.wave
    BY <1>1, RunHolds DEF Hold
  <2> QED BY <1>1, <2>1, <2>2, <2>3
<1>10. CASE Leave(p)
  <2>1. Become(p, Left(s)) /\ s.at = "leave" /\ shm' = shm
    BY <1>10 DEF Leave, Is, s
  <2>2. Timed(Left(s), Left(s).at) /\ Left(s).at \in {"exit", "wake"}
    BY <1>1, <2>1, LeftTimed DEF Here
  <2>3. Left(s).wave = s.wave
    BY <1>1, RunHolds DEF Hold
  <2> QED BY <1>1, <2>1, <2>2, <2>3
<1>11. CASE Wake(p)
  <2> DEFINE u == [s EXCEPT !.wave = TRUE]
             t == Dumped(u, s.then)
  <2>1. s.at = "shwait" /\ shm.flag /\ shm' = shm
    BY <1>11 DEF Wake, Is, s
  <2>2. shm.oldest = p /\ shm.end <= NaturalEnd
    BY <1>1, <2>1 DEF ReplayInv, Replaying, Alone, Woken, Others
  <2>3. Become(p, t)
    BY <1>1, <1>11, <2>1, <2>2 DEF Wake, s
  <2>4. s.then \in Resumes /\ Here(s) = s.then /\ Timed(s, s.then)
    BY <1>1, <2>1 DEF ProcOK, Here
  <2>5. s.state = "ABORT" => shm.end <= Due(s, s.then)
    BY <1>1, <2>1 DEF ReplayInv, Replaying, Linked, Woken, Others, s
  <2>6. /\ DOMAIN u = DOMAIN s /\ u.wave /\ u.kid = s.kid /\ u.state = s.state
        /\ u.cycle = s.cycle /\ u.window = s.window /\ u.ev = s.ev /\ u.done = s.done
        /\ u.n = s.n /\ u.loops = s.loops /\ u.wp = s.wp /\ u.sigint = s.sigint
        /\ Instant(s)
    BY <1>1, <2>4 DEF Timed, Instant
  <2> HIDE DEF u
  <2>7. Instant(u)
    BY <1>1, <2>6 DEF Instant
  <2>8. /\ Flying(u, s.then) = Flying(s, s.then) /\ Landed(u, s.then) = Landed(s, s.then)
        /\ Clock(u, s.then) = Clock(s, s.then) /\ Due(u, s.then) = Due(s, s.then)
    BY <2>6 DEF Flying, Landed, Clock, Due
  <2>9. /\ InFlight(s, s.then) => InFlight(u, s.then)
        /\ Retired(s, s.then) => Retired(u, s.then)
    BY <2>6, <2>8 DEF InFlight, Retired
  <2>10. s.then \notin {"leave", "wake", "exit"}
    BY <2>4 DEF Resumes
  <2>11. Timed(u, s.then)
    BY <2>4, <2>5, <2>6, <2>7, <2>8, <2>9, <2>10 DEF Timed
  <2>12. Timed(t, s.then)
    BY <1>1, <2>4, <2>11, DumpedTimed
  <2>13. t.at = s.then /\ t.wave
    BY <1>1, <2>6 DEF Dumped, Memory
  <2> HIDE DEF t
  <2> QED BY <2>1, <2>3, <2>4, <2>12, <2>13 DEF Resumes
<1>12. CASE WakeOldest(p) \/ NotGood(p) \/ Flag(p) \/ WaitPid(p) \/ Clear(p)
  BY <1>2, <1>12 DEF WakeOldest, NotGood, Flag, WaitPid, Clear, Is, Rescue, s
<1>13. CASE Command(p)
  <2>1. s.at = "prompt"
    BY <1>13 DEF Command, Is, s
  <2> QED BY <1>1, <2>1 DEF Timed, Here
<1> QED BY <1>4, <1>5, <1>6, <1>7, <1>8, <1>9, <1>10, <1>11, <1>12, <1>13 DEF Step

\* When a run is due to end does not depend on the step.
LEMMA FixedDue ==
  ASSUME UNCHANGED config
  PROVE  batch' = batch /\ NaturalEnd' = NaturalEnd /\ \A s, h : Due(s, h)' = Due(s, h)
BY DEF config, batch, NaturalEnd, Due, Flying, FlightEnd, Clock, Events

\* One process moves on where its cycle says; nothing else changes.
LEMMA StaysTimed ==
  ASSUME UNCHANGED config, shm'.end = shm.end, AllTimed,
         \A q \in DOMAIN proc' : \/ q \in DOMAIN proc /\ proc'[q] = proc[q]
                                 \/ Timed(proc'[q], Here(proc'[q]))
  PROVE  AllTimed'
<1>1. ASSUME NEW s, NEW h, Timed(s, h) PROVE Timed(s, h)'
  BY <1>1, TimedStays
<1>2. \A q \in DOMAIN proc' : Timed(proc'[q], Here(proc'[q]))
  BY DEF AllTimed
<1>3. ASSUME NEW q \in DOMAIN proc' PROVE (Timed(proc[q], Here(proc[q])))'
  <2>1. PICK s : s = proc'[q]
    OBVIOUS
  <2>2. PICK h : h = Here(s)
    OBVIOUS
  <2>3. Timed(s, h)
    BY <1>2, <1>3, <2>1, <2>2
  <2>4. Timed(s, h)'
    BY <1>1, <2>3
  <2>5. Here(proc[q])' = h
    BY <2>1, <2>2 DEF Here
  <2> QED BY <2>1, <2>4, <2>5
<1> QED BY <1>3 DEF AllTimed

\* A step of a snapshot keeps the invariant.
LEMMA KidReplays ==
  ASSUME RInv, Family, ReplayInv, batch, NEW p \in DOMAIN proc, p # Parent, Step(p) \/ Command(p)
  PROVE  ReplayInv'
<1>1. PICK t : Become(p, t) /\ t.wave /\ t.at # "shwait" /\ Timed(t, t.at)
  BY KidTimed
<1>2. shm.flag /\ shm' = shm
  BY KidTimed
<1>3. UNCHANGED config
  BY ConfigFixed DEF Next
<1>4. /\ DOMAIN proc' = DOMAIN proc /\ proc'[p] = t /\ Here(t) = t.at
      /\ \A q \in DOMAIN proc \ {p} : proc'[q] = proc[q]
      /\ Parent \in DOMAIN proc /\ proc'[Parent] = proc[Parent]
  BY <1>1 DEF Become, Here, Family
<1>5. AllTimed'
  BY <1>1, <1>2, <1>3, <1>4, StaysTimed DEF ReplayInv, Replaying
<1>6. batch' = batch /\ NaturalEnd' = NaturalEnd /\ \A s, h : Due(s, h)' = Due(s, h)
  BY <1>3, FixedDue
<1>7. Alone'
  BY <1>1, <1>2, <1>4, <1>6 DEF ReplayInv, Replaying, Alone, Others, Woken
<1>8. Linked'
  BY <1>1, <1>2, <1>4, <1>6 DEF ReplayInv, Replaying, Linked, Others, Woken
<1> QED BY <1>2, <1>5, <1>7, <1>8 DEF ReplayInv, Replaying, Shared

\* The time a run is due to end is a number.
LEMMA DueNat ==
  ASSUME Known, NEW s, NEW h, Timed(s, h)
  PROVE  Due(s, h) \in Nat
<1>1. CASE Flying(s, h)
  <2>1. /\ s.ev \in Nat /\ s.ev <= Events /\ (s.ev > 0 => dut.gap < DeathLimit)
        /\ (dut.halt # 0 => s.ev < dut.halt)
    BY <1>1 DEF Timed, InFlight, Instant
  <2>2. FlightEnd(s.ev) \in Nat
    BY <2>1, EndsNatural
  <2> QED BY <1>1, <2>2 DEF Due
<1>2. CASE ~Flying(s, h)
  BY <1>2 DEF Due, Clock, Timed, Instant
<1> QED BY <1>1, <1>2

\* A process and its copy out of dump_wave are due at the same time.
LEMMA ComesDue ==
  ASSUME NEW s, NEW next \in Resumes, Memory(s), Timed(s, next), NEW r, Comes(r, s, next)
  PROVE  /\ Due(r, next) = Due(s, next)
         /\ r.at = next \/ (r.at = "shwait" /\ r.then = next /\ r.state = s.state)
<1>1. PICK c : /\ Alike(c, s)
               /\ \/ r = Dumped(c, next)
                  \/ /\ ~s.kid /\ waveform
                     /\ r = [c EXCEPT !.kid = TRUE, !.at = "shwait", !.then = next]
  BY DEF Comes
<1>2. /\ DOMAIN c = DOMAIN s /\ \A f \in DOMAIN s \ {"count", "slots"} : c[f] = s[f]
      /\ Instant(s)
  BY <1>1 DEF Alike, Timed
<1>3. /\ {"at", "then", "state", "wave", "kid", "cycle", "ev", "done"} \subseteq DOMAIN c
      /\ c.state = s.state /\ c.cycle = s.cycle /\ c.ev = s.ev /\ c.done = s.done
  BY <1>2 DEF Instant
<1>4. CASE r = Dumped(c, next)
  <2>1. r.at = next /\ r.cycle = c.cycle /\ r.ev = c.ev /\ r.done = c.done
    BY <1>3, <1>4 DEF Dumped
  <2> QED BY <1>3, <2>1 DEF Due, Flying, Clock
<1>5. CASE r = [c EXCEPT !.kid = TRUE, !.at = "shwait", !.then = next]
  <2>1. /\ r.at = "shwait" /\ r.then = next /\ r.state = c.state
        /\ r.cycle = c.cycle /\ r.ev = c.ev /\ r.done = c.done
    BY <1>3, <1>5
  <2> QED BY <1>3, <2>1 DEF Due, Flying, Clock
<1> QED BY <1>1, <1>4, <1>5

\* do_fork drops no snapshot from the slots that it leaves alive.
LEMMA RowKeeps ==
  ASSUME NEW s, s.slots \in Seq(Pids), NEW n
  PROVE  /\ Elems(s.slots) \ Victims(s) \subseteq Elems(Shift(s))
         /\ {n} \cup Elems(Shift(s)) \subseteq Elems(<<n>> \o Shift(s))
<1> DEFINE old == s.slots
           sh  == Shift(s)
<1>1. Len(old) \in Nat /\ DOMAIN old = 1 .. Len(old) /\ SLOT_SIZE \in Nat \ {0}
      /\ \A i \in 1 .. Len(old) : old[i] \in Pids
  BY SimulatorAssumption
<1>2. sh \in Seq(Pids) /\ Elems(old) \ Victims(s) \subseteq Elems(sh)
  <2>1. CASE Full(s)
    <3>1. sh = SubSeq(old, 1, Len(old) - 1) /\ Len(old) = SLOT_SIZE /\ Victims(s) = {old[Len(old)]}
      BY <2>1 DEF Shift, Full, Victims, Oldest
    <3>2. /\ Len(sh) = Len(old) - 1 /\ sh \in Seq(Pids)
          /\ \A i \in 1 .. Len(old) - 1 : sh[i] = old[i]
      BY <1>1, <3>1, SubSeqProperties
    <3>3. ASSUME NEW q \in Elems(old) \ Victims(s) PROVE q \in Elems(sh)
      <4>1. PICK i \in 1 .. Len(old) : q = old[i]
        BY <1>1 DEF Elems
      <4>2. i # Len(old)
        BY <3>1, <4>1
      <4>3. i \in 1 .. Len(old) - 1
        BY <1>1, <4>2
      <4>4. i \in DOMAIN sh /\ sh[i] = q
        BY <3>2, <4>1, <4>3
      <4> QED BY <4>4 DEF Elems
    <3> QED BY <3>2, <3>3
  <2>2. CASE ~Full(s)
    BY <2>2 DEF Shift
  <2> QED BY <2>1, <2>2
<1> HIDE DEF sh
<1>3. {n} \cup Elems(sh) \subseteq Elems(<<n>> \o sh)
  <2> DEFINE S == Pids \cup {n}
  <2>1. <<n>> \in Seq(S) /\ sh \in Seq(S) /\ Len(<<n>>) = 1 /\ <<n>>[1] = n
    BY <1>2
  <2> HIDE DEF S
  <2>2. /\ Len(sh) \in Nat /\ DOMAIN sh = 1 .. Len(sh)
        /\ DOMAIN (<<n>> \o sh) = 1 .. 1 + Len(sh)
        /\ \A i \in 1 .. 1 + Len(sh) : (<<n>> \o sh)[i] = IF i <= 1 THEN <<n>>[i] ELSE sh[i - 1]
    BY <2>1, ConcatProperties
  <2> DEFINE new == <<n>> \o sh
  <2> HIDE DEF new
  <2>3. 1 \in DOMAIN new /\ new[1] = n
    BY <2>1, <2>2 DEF new
  <2>4. ASSUME NEW i \in 1 .. Len(sh) PROVE sh[i] \in Elems(new)
    <3> DEFINE j == i + 1
    <3>1. j \in 1 .. 1 + Len(sh) /\ ~(j <= 1) /\ j - 1 = i
      BY <2>2
    <3> HIDE DEF j
    <3>2. new[j] = sh[j - 1] /\ j \in DOMAIN new
      BY <2>2, <3>1 DEF new
    <3>3. new[j] = sh[i]
      BY <3>1, <3>2
    <3> QED BY <3>2, <3>3 DEF Elems
  <2> QED BY <2>2, <2>3, <2>4 DEF Elems, new
<1> QED BY <1>2, <1>3 DEF sh

\* A step of the first process through dump_wave, which may fork and drop a snapshot.
LEMMA ParentForks ==
  ASSUME RInv, Family, ReplayInv, batch, UNCHANGED <<config, shm>>,
         NEW u, NEW next \in Resumes, Hold(u, proc[Parent]), Memory(u), Timed(u, next),
         DumpWave(Parent, u, next),
         proc[Parent].at \in {"reset", "low", "high"},
         proc[Parent].at # "reset" =>
           /\ next # proc[Parent].at /\ Due(u, next) = Due(proc[Parent], proc[Parent].at)
           /\ proc[Parent].state \in {"END", "ABORT"} => u.state \in {"END", "ABORT"},
         proc[Parent].at = "reset" => next \in {"reset", "main"}
  PROVE  ReplayInv'
<1> DEFINE s    == proc[Parent]
           t    == proc'[Parent]
           left == DOMAIN proc \ Victims(u)
<1>1. /\ Known /\ Memory(s) /\ Timed(s, Here(s)) /\ Here(s) = s.at /\ Parent \in DOMAIN proc
      /\ Parent \notin Elems(s.slots) /\ s.slots \in Seq(Pids)
  BY ProcFacts DEF Family, Here, RInv, IInv, ProcOK
<1>2. /\ t.at = next /\ t.state = u.state
      /\ \/ /\ t.slots = u.slots /\ DOMAIN proc' = DOMAIN proc
            /\ \A q \in DOMAIN proc \ {Parent} : proc'[q] = proc[q]
         \/ /\ t.slots = <<NewPid>> \o Shift(u)
            /\ DOMAIN proc' = left \cup {NewPid} /\ Parent \in left /\ NewPid \notin DOMAIN proc
            /\ \A q \in left \ {Parent} : proc'[q] = proc[q]
            /\ proc'[NewPid].at = "shwait"
         \/ /\ t.slots = Shift(u) /\ DOMAIN proc' = left /\ Parent \in left
            /\ \A q \in left \ {Parent} : proc'[q] = proc[q]
  BY ParentDump
<1>3. u.slots = s.slots
  BY DEF Hold
<1>4. \A q \in DOMAIN proc' : \/ q \in DOMAIN proc /\ proc'[q] = proc[q]
                              \/ Comes(proc'[q], u, next)
  BY <1>1, DumpWaveOutcome DEF Memory
<1>5. /\ ~shm.flag /\ ~Woken /\ Others \subseteq Elems(s.slots)
      /\ \A p \in Others : proc[p].at = "shwait"
  BY DEF ReplayInv, Replaying, Alone, Woken, Resting
<1>6. ~shm'.flag /\ ~Woken' /\ next \notin Resting /\ next # "shwait"
  BY <1>2, <1>5 DEF Woken, Resting, Resumes
<1>7. /\ Elems(u.slots) \ Victims(u) \subseteq Elems(Shift(u))
      /\ {NewPid} \cup Elems(Shift(u)) \subseteq Elems(<<NewPid>> \o Shift(u))
  BY <1>1, <1>3, RowKeeps
<1>8. /\ Parent \in DOMAIN proc' /\ DOMAIN proc' \ {Parent} \subseteq Elems(t.slots)
      /\ \A p \in DOMAIN proc' \ {Parent} :
           \/ p \in Others /\ proc'[p] = proc[p]
           \/ p \notin DOMAIN proc /\ proc'[p].at = "shwait"
  BY <1>1, <1>2, <1>3, <1>5, <1>7 DEF Others
<1>9. \A p \in DOMAIN proc' \ {Parent} : proc'[p].at = "shwait"
  BY <1>5, <1>8
<1>10. Alone'
  BY <1>6, <1>8, <1>9 DEF Alone, Others
<1>11. AllTimed'
  <2>1. \A q \in DOMAIN proc' : \/ q \in DOMAIN proc /\ proc'[q] = proc[q]
                                \/ Timed(proc'[q], Here(proc'[q]))
    BY <1>1, DumpWaveTimed
  <2> QED BY <2>1, StaysTimed DEF ReplayInv, Replaying
<1> HIDE DEF t, left
<1>12. ASSUME NEW p \in DOMAIN proc' \ {Parent}, proc'[p].at = "shwait", proc'[p].state = "ABORT"
       PROVE  t.state \in {"END", "ABORT"} /\ Due(t, t.at) <= Due(proc'[p], proc'[p].then)
  <2>1. s.at # "reset" => Due(t, next) = Due(u, next)
    <3>1. s.at # "reset" => t # s
      BY <1>2 DEF t
    <3>2. s.at # "reset" => Comes(t, u, next)
      BY <1>4, <1>8, <3>1 DEF t
    <3> QED BY <3>2, ComesDue
  <2>2. CASE p \in Others /\ proc'[p] = proc[p]
    <3>1. s.state \in {"END", "ABORT"} /\ Due(s, s.at) <= Due(proc[p], proc[p].then)
      BY <1>5, <1>12, <2>2 DEF ReplayInv, Replaying, Linked, Resting
    <3>2. s.at # "reset"
      BY <1>1, <3>1 DEF Timed
    <3> QED BY <1>2, <2>1, <2>2, <3>1, <3>2 DEF t
  <2>3. CASE p \notin DOMAIN proc
    <3>1. Comes(proc'[p], u, next)
      BY <1>4, <2>3
    <3>2. proc'[p].then = next /\ u.state = "ABORT" /\ Due(proc'[p], next) = Due(u, next)
      BY <1>6, <1>12, <3>1, ComesDue
    <3>3. s.at # "reset"
      BY <3>2 DEF Timed
    <3>4. Due(u, next) \in Nat
      BY <1>1, DueNat
    <3> QED BY <1>2, <2>1, <3>2, <3>3, <3>4 DEF t
  <2> QED BY <1>8, <2>2, <2>3
<1>13. \A z, h : Due(z, h)' = Due(z, h)
  BY FixedDue
<1>14. Linked'
  BY <1>6, <1>12, <1>13 DEF Linked, Others, t
<1>15. Shared'
  BY DEF ReplayInv, Shared
<1> QED BY <1>10, <1>11, <1>14, <1>15 DEF ReplayInv, Replaying

\* Neither half of a cycle changes when its instruction ends.
LEMMA PosedgeDue ==
  ASSUME Known, NEW s, Timed(s, "high"), Memory(s)
  PROVE  Due(Posedge(s), "count") = Due(s, "high")
<1> DEFINE t == Posedge(s)
           retires == s.ev < Events /\ s.window + 1 = dut.gap
           x == s.ev * dut.gap
<1>1. /\ Instant(s) /\ InFlight(s, "high") /\ Due(s, "high") = FlightEnd(s.ev)
  BY DEF Timed, Flying, Due
<1>2. /\ t.done = retires /\ t.cycle = s.cycle
      /\ t.ev = (IF retires THEN s.ev + 1 ELSE s.ev)
  BY <1>1 DEF Posedge, Instant
<1>3. CASE ~retires
  <2>1. t.ev = s.ev /\ ~t.done
    BY <1>2, <1>3
  <2> HIDE DEF t
  <2> QED BY <1>1, <2>1 DEF Due, Flying, t
<1>4. CASE retires
  <2>1. t.done /\ Due(t, "count") = s.cycle + 1
    BY <1>2, <1>4 DEF Due, Flying, Clock
  <2>2. /\ s.ev \in Nat /\ s.window \in Nat /\ s.cycle \in Nat /\ s.loops \in Int /\ x \in Nat
        /\ (s.ev + 1) * dut.gap = x + dut.gap /\ dut.gap \in Nat /\ DeathLimit \in Nat
    <3>1. s.ev \in Nat /\ s.window \in Nat /\ s.cycle \in Nat /\ s.loops \in Int
      BY <1>1 DEF Instant
    <3>2. s.ev * dut.gap \in Nat /\ (s.ev + 1) * dut.gap = s.ev * dut.gap + dut.gap
      BY <3>1, Gaps
    <3> QED BY <3>1, <3>2 DEF Known
  <2>3. s.cycle = x + s.window /\ s.loops = DeathLimit - s.window /\ s.loops >= 1
    BY <1>1, <2>2 DEF InFlight, Clock
  <2>4. dut.gap <= DeathLimit /\ s.cycle + 1 = x + dut.gap
    <3> HIDE DEF x
    <3> QED BY <1>4, <2>2, <2>3
  <2>5. FlightEnd(s.ev) = x + dut.gap
    BY <1>4, <2>2, <2>4 DEF FlightEnd
  <2> QED BY <1>1, <2>1, <2>4, <2>5
<1> QED BY <1>3, <1>4

\* A process that has failed ends its cycle no later than it was due.
LEMMA TickedDue ==
  ASSUME Known, NEW s, Timed(s, "count"), Booked(s), s.state \in {"END", "ABORT"}
  PROVE  LET t == Ticked(s)
         IN t.state \in {"END", "ABORT"} /\ Due(t, t.at) <= Due(s, "count")
<1> DEFINE t == Ticked(s)
<1>1. /\ Instant(s) /\ Due(s, "count") \in Nat /\ Clock(s, "count") = s.cycle + 1
      /\ s.done => Due(s, "count") = s.cycle + 1
      /\ ~s.done => Due(s, "count") = FlightEnd(s.ev)
  BY DueNat DEF Timed, Due, Flying, Clock, Instant
<1>2. /\ t.done = s.done /\ t.cycle = s.cycle + 1 /\ t.ev = s.ev /\ t.state \in {"END", "ABORT"}
      /\ t.at = "leave" \/ (t.at = "low" /\ ~s.done)
  BY <1>1 DEF Ticked, Instant
<1>3. s.cycle + 1 <= Due(s, "count")
  <2>1. CASE s.done
    BY <1>1, <2>1 DEF Instant
  <2>2. CASE ~s.done
    <3>1. Flying(s, "count") /\ InFlight(s, "count")
      BY <2>2 DEF Timed, Flying
    <3> QED BY <1>1, <2>2, <3>1, NotPast
  <2> QED BY <2>1, <2>2
<1> HIDE DEF t
<1>4. CASE t.at = "leave"
  BY <1>2, <1>3, <1>4 DEF Due, Flying, Clock, t
<1>5. CASE t.at = "low" /\ ~s.done
  <2>1. Due(t, "low") = FlightEnd(s.ev)
    BY <1>2, <1>5 DEF Due, Flying
  <2> QED BY <1>1, <1>2, <1>5, <2>1 DEF t
<1> QED BY <1>2, <1>4, <1>5

\* Those steps are the ones of reset and the two halves of a cycle.
LEMMA ParentDumpReplays ==
  ASSUME RInv, Family, ReplayInv, batch, ResetHalf(Parent) \/ Low(Parent) \/ High(Parent)
  PROVE  ReplayInv'
<1> DEFINE s == proc[Parent]
<1>1. /\ Known /\ Memory(s) /\ Booked(s) /\ (s.at # "shwait" => Timed(s, s.at)) /\ Parent \in DOMAIN proc
  BY ProcFacts DEF Family, Here
<1>2. UNCHANGED <<config, shm>>
  BY DEF ResetHalf, Low, High
<1> HIDE DEF s
<1>3. CASE ResetHalf(Parent)
  <2> DEFINE u == [s EXCEPT !.resets = @ - 1]
             next == IF u.resets = 0 THEN "main" ELSE "reset"
  <2>1. DumpWave(Parent, u, next) /\ s.at = "reset"
    BY <1>3 DEF ResetHalf, Is, s
  <2>2. Timed(s, "reset")
    BY <1>1, <2>1
  <2>3. next \in {"main", "reset"}
    OBVIOUS
  <2>4. Timed(u, next) /\ Hold(u, s) /\ Memory(u)
    BY <1>1, <2>2, <2>3 DEF Timed, Instant, Flying, Landed, Hold, Booked, Memory
  <2> HIDE DEF u, next
  <2>5. next \in Resumes
    BY <2>3 DEF Resumes
  <2> QED BY <1>2, <2>1, <2>3, <2>4, <2>5, ParentForks DEF s
<1>4. CASE Low(Parent)
  <2>1. DumpWave(Parent, s, "high") /\ s.at = "low"
    BY <1>4 DEF Low, Is, s
  <2>2. Timed(s, "high")
    BY <1>1, <2>1, LowTimed
  <2>3. Hold(s, s) /\ "high" \in Resumes
    BY DEF Hold, Resumes
  <2>4. Due(s, "high") = Due(s, "low")
    BY DEF Due, Flying
  <2> QED BY <1>1, <1>2, <2>1, <2>2, <2>3, <2>4, ParentForks DEF s
<1>5. CASE High(Parent)
  <2> DEFINE u == Posedge(s)
  <2>1. DumpWave(Parent, u, "count") /\ s.at = "high"
    BY <1>5 DEF High, Is, s
  <2>2. Timed(s, "high") /\ Timed(u, "count")
    BY <1>1, <2>1, PosedgeTimed
  <2>3. Hold(u, s) /\ "count" \in Resumes
    BY <1>1, RunHolds DEF Resumes
  <2>4. Memory(u)
    BY <1>1, PosedgeMemory
  <2>5. Due(u, "count") = Due(s, "high")
    BY <1>1, <2>2, PosedgeDue
  <2>6. s.state \in {"END", "ABORT"} => u.state \in {"END", "ABORT"}
    BY <1>1 DEF Posedge, Booked
  <2> HIDE DEF u
  <2> QED BY <1>1, <1>2, <2>1, <2>2, <2>3, <2>4, <2>5, <2>6, ParentForks DEF s
<1> QED BY <1>3, <1>4, <1>5

\* What the first process becomes when it runs on.
LEMMA ParentRunsOn ==
  ASSUME RInv, Family, ReplayInv, batch,
         MainLoop(Parent) \/ Count(Parent) \/ Trace(Parent) \/ Leave(Parent)
  PROVE  LET s == proc[Parent]
         IN /\ UNCHANGED <<config, shm>> /\ s.at \in {"main", "count", "trace", "leave"}
            /\ \E t : /\ Become(Parent, t) /\ Timed(t, t.at) /\ t.slots = s.slots
                      /\ t.at \in {"low", "trace", "leave", "wake", "exit"}
                      /\ s.state \in {"END", "ABORT"} =>
                           t.at = "exit" \/ (t.state \in {"END", "ABORT"} /\ Due(t, t.at) <= Due(s, s.at))
<1> DEFINE s == proc[Parent]
<1>1. /\ Known /\ dut \in Duts /\ ProcOK(s) /\ Memory(s) /\ Image(s) /\ Booked(s) /\ ~s.kid /\ ~s.wave
      /\ s.at # "shwait" => Timed(s, s.at)
      /\ Parent \in DOMAIN proc
  BY ProcFacts DEF Family, Here, Image, Memory
<1>2. UNCHANGED <<config, shm>>
  BY DEF MainLoop, Count, Trace, Leave
<1> HIDE DEF s
<1>3. CASE MainLoop(Parent)
  <2> DEFINE u == [s EXCEPT !.diff = InitDiff]
             t == CpuExec(u, Forever)
  <2>1. Become(Parent, t) /\ s.at = "main"
    BY <1>3 DEF MainLoop, Is, s
  <2>2. Timed(s, "main")
    BY <1>1, <2>1
  <2>3. Timed(t, t.at) /\ t.at = "low"
    BY <1>1, <2>2, MainTimed
  <2>4. Booked(u) /\ u.slots = s.slots
    BY <1>1 DEF Booked
  <2> HIDE DEF u
  <2>5. t.slots = s.slots
    BY <2>4, RunHolds DEF Hold
  <2>6. s.state = "STOP"
    BY <2>2 DEF Timed
  <2> HIDE DEF t
  <2> QED BY <1>2, <2>1, <2>3, <2>5, <2>6 DEF s
<1>4. CASE Count(Parent)
  <2> DEFINE t == Ticked(s)
  <2>1. Become(Parent, t) /\ s.at = "count"
    BY <1>4 DEF Count, Is, s
  <2>2. Timed(s, "count")
    BY <1>1, <2>1
  <2>3. Timed(t, t.at)
    BY <1>1, <2>2, TickedTimed
  <2>4. t.slots = s.slots /\ t.at \in {"low", "trace", "leave"}
    BY <1>1, TickedHolds
  <2>5. s.state \in {"END", "ABORT"} => t.state \in {"END", "ABORT"} /\ Due(t, t.at) <= Due(s, "count")
    BY <1>1, <2>2, TickedDue
  <2> HIDE DEF t
  <2> QED BY <1>2, <2>1, <2>3, <2>4, <2>5 DEF s
<1>5. CASE Trace(Parent)
  <2> DEFINE t == Traced(s)
  <2>1. Become(Parent, t) /\ s.at = "trace"
    BY <1>5 DEF Trace, Is, s
  <2>2. Timed(s, "trace")
    BY <1>1, <2>1
  <2>3. Timed(t, "low") /\ t.at = "low"
    BY <1>1, <2>2, TracedTimed
  <2>4. t.slots = s.slots
    BY <1>1, RunHolds DEF Hold
  <2>5. s.state = "RUNNING"
    BY <2>2 DEF Timed, Landed, Retired
  <2> HIDE DEF t
  <2> QED BY <1>2, <2>1, <2>3, <2>4, <2>5 DEF s
<1>6. CASE Leave(Parent)
  <2> DEFINE t == Left(s)
  <2>1. Become(Parent, t) /\ s.at = "leave"
    BY <1>6 DEF Leave, Is, s
  <2>2. Timed(s, "leave") /\ s.cycle \in Nat
    BY <1>1, <2>1 DEF Timed, Instant
  <2>3. /\ Timed(t, t.at) /\ t.at \in {"exit", "wake"}
        /\ (t.at = "wake" => t.state \in {"END", "ABORT"} /\ t.state = s.state)
    BY <1>1, <2>2, LeftTimed
  <2>4. t.slots = s.slots /\ t.cycle = s.cycle
    BY <1>1, RunHolds DEF Hold
  <2> HIDE DEF t
  <2>5. t.at = "wake" => Due(t, "wake") = s.cycle /\ Due(s, "leave") = s.cycle
    BY <2>4 DEF Due, Flying, Clock
  <2> QED BY <1>2, <2>1, <2>2, <2>3, <2>4, <2>5 DEF s
<1> QED BY <1>3, <1>4, <1>5, <1>6

\* The steps of the first process that only run the design.
LEMMA ParentRunReplays ==
  ASSUME RInv, Family, ReplayInv, batch,
         MainLoop(Parent) \/ Count(Parent) \/ Trace(Parent) \/ Leave(Parent)
  PROVE  ReplayInv'
<1> DEFINE s == proc[Parent]
<1>1. UNCHANGED <<config, shm>> /\ s.at \in {"main", "count", "trace", "leave"} /\ Parent \in DOMAIN proc
  BY ParentRunsOn DEF Family
<1>2. PICK t : /\ Become(Parent, t) /\ Timed(t, t.at) /\ t.slots = s.slots
               /\ t.at \in {"low", "trace", "leave", "wake", "exit"}
               /\ s.state \in {"END", "ABORT"} =>
                    t.at = "exit" \/ (t.state \in {"END", "ABORT"} /\ Due(t, t.at) <= Due(s, s.at))
  BY ParentRunsOn
<1>3. /\ DOMAIN proc' = DOMAIN proc /\ proc'[Parent] = t /\ Here(t) = t.at
      /\ \A q \in DOMAIN proc \ {Parent} : proc'[q] = proc[q]
  BY <1>1, <1>2 DEF Become, Here
<1>4. AllTimed'
  BY <1>1, <1>2, <1>3, StaysTimed DEF ReplayInv, Replaying
<1>5. ~shm.flag /\ ~Woken /\ ~Woken' /\ Others' = Others /\ Others \subseteq Elems(t.slots)
  BY <1>1, <1>2, <1>3 DEF ReplayInv, Replaying, Alone, Woken, Resting, Others
<1>6. Alone'
  BY <1>1, <1>2, <1>3, <1>5 DEF ReplayInv, Replaying, Alone, Others
<1>7. ASSUME NEW p \in Others, proc[p].at = "shwait", proc[p].state = "ABORT"
      PROVE  t.at \in Resting \/ (t.state \in {"END", "ABORT"} /\ Due(t, t.at) <= Due(proc[p], proc[p].then))
  <2>1. s.state \in {"END", "ABORT"} /\ Due(s, s.at) <= Due(proc[p], proc[p].then)
    BY <1>1, <1>5, <1>7 DEF ReplayInv, Replaying, Linked, Resting
  <2>2. CASE t.at = "exit"
    BY <2>2 DEF Resting
  <2>3. CASE t.at # "exit"
    <3>1. t.state \in {"END", "ABORT"} /\ Due(t, t.at) <= Due(s, s.at)
      BY <1>2, <2>1, <2>3
    <3>2. Due(t, t.at) \in Nat /\ Due(s, s.at) \in Nat /\ Due(proc[p], proc[p].then) \in Nat
      <4>1. Known /\ Timed(s, s.at) /\ Timed(proc[p], proc[p].then)
        BY <1>1, <1>7, ProcFacts DEF Here, Others
      <4> QED BY <1>2, <4>1, DueNat
    <3> HIDE DEF s
    <3> QED BY <2>1, <3>1, <3>2
  <2> QED BY <2>2, <2>3
<1>8. \A z, h : Due(z, h)' = Due(z, h)
  BY <1>1, FixedDue
<1>9. Linked'
  BY <1>3, <1>5, <1>7, <1>8 DEF Linked, Others
<1> QED BY <1>1, <1>4, <1>6, <1>9 DEF ReplayInv, Replaying, Shared

\* A process that is not in the middle of an instruction.
LEMMA IdleTimed ==
  ASSUME NEW s, NEW h, Timed(s, h), NEW t,
         {"at", "then", "state", "wave", "kid", "cycle", "window", "ev", "done", "n", "loops",
          "sigint", "wp"} \subseteq DOMAIN t,
         /\ t.cycle = s.cycle /\ t.window = s.window /\ t.ev = s.ev /\ t.done = s.done
         /\ t.loops = s.loops /\ t.wp = s.wp /\ t.wave = s.wave /\ t.kid = s.kid,
         t.sigint # "stop", ~s.kid,
         t.at \in {"notgood", "flag"} \cup Resting
  PROVE  Timed(t, t.at)
<1>1. Instant(t) /\ ~Flying(t, t.at) /\ ~Landed(t, t.at)
  BY DEF Timed, Instant, Flying, Landed, Resting
<1> QED BY <1>1 DEF Timed, Resting

\* What keeps the replay going while the first process waits for it.
LEMMA RescueKeeps ==
  ASSUME RInv, Family, ReplayInv, batch, UNCHANGED config,
         NEW t, OnlyParent(t), Timed(t, t.at), t.at \in {"notgood", "flag"} \cup Resting,
         DOMAIN shm' = DOMAIN shm, shm'.end = shm.end, shm'.oldest = shm.oldest,
         shm'.flag => t.at \in Resting,
         ~shm'.flag => ~shm.flag,
         (shm'.flag \/ t.at \in {"notgood", "flag"}) => Woken,
         ~(shm'.flag \/ t.at \in {"notgood", "flag"}) => t.at \in Resting
  PROVE  ReplayInv'
<1>1. /\ DOMAIN proc' \subseteq DOMAIN proc /\ Parent \in DOMAIN proc' /\ proc'[Parent] = t
      /\ \A q \in DOMAIN proc' \ {Parent} : proc'[q] = proc[q]
      /\ Here(t) = t.at
  BY DEF OnlyParent, Here, Resting
<1>2. AllTimed'
  BY <1>1, StaysTimed DEF ReplayInv, Replaying
<1>3. /\ Woken' <=> (shm'.flag \/ t.at \in {"notgood", "flag"})
      /\ Others' = DOMAIN proc' \ {Parent} /\ Others' \subseteq Others
  BY <1>1 DEF Woken, Others
<1>4. NaturalEnd' = NaturalEnd /\ \A z, h : Due(z, h)' = Due(z, h)
  BY FixedDue
<1>5. Alone'
  BY <1>1, <1>3, <1>4 DEF ReplayInv, Replaying, Alone, Others
<1>6. Linked'
  BY <1>1, <1>3, <1>4 DEF ReplayInv, Replaying, Linked, Others
<1> QED BY <1>2, <1>5, <1>6 DEF ReplayInv, Replaying, Shared

\* wakeup_child leaves one process to replay, and it can reach the failure.
LEMMA WakeOldestReplays ==
  ASSUME RInv, Family, ReplayInv, batch, WakeOldest(Parent)
  PROVE  ReplayInv'
<1> DEFINE s == proc[Parent]
           S == Elems(s.slots) \ {Target(s)}
           t == [s EXCEPT !.at = "notgood"]
           d == [s EXCEPT !.at = "dead"]
<1>1. /\ Known /\ Memory(s) /\ ~s.kid /\ ~s.wave /\ Parent \in DOMAIN proc /\ s.at = "wake"
      /\ Timed(s, "wake") /\ Instant(s) /\ Parent \notin Elems(s.slots) /\ s.slots \in Seq(Pids)
      /\ {"flag", "notgood", "end", "oldest"} \subseteq DOMAIN shm
  BY ProcFacts DEF Family, Here, Image, Memory, WakeOldest, Is, Timed, ReplayInv, Shared, RInv, IInv, ProcOK
<1>2. UNCHANGED config
  BY DEF WakeOldest
<1>3. ~shm.flag /\ ~Woken /\ Others \subseteq Elems(s.slots) /\ \A p \in Others : proc[p].at = "shwait"
  BY <1>1 DEF ReplayInv, Replaying, Alone, Woken, Resting
<1>4. Timed(t, "notgood") /\ Timed(d, "dead") /\ t.at = "notgood" /\ d.at = "dead"
  <2>1. t.at = "notgood" /\ d.at = "dead"
    BY <1>1 DEF Memory
  <2>2. Timed(t, t.at) /\ Timed(d, d.at)
    BY <1>1, <2>1, IdleTimed DEF Instant, Resting
  <2> QED BY <2>1, <2>2
<1>5. \/ /\ shm' = [shm EXCEPT !.end = s.cycle, !.oldest = Target(s)]
         /\ proc' = [Without(S) EXCEPT ![Parent].at = "notgood"]
      \/ s.slots = <<>> /\ Become(Parent, d) /\ UNCHANGED shm
  BY DEF WakeOldest
<1>6. CASE s.slots = <<>> /\ Become(Parent, d) /\ UNCHANGED shm
  <2>1. OnlyParent(d)
    BY <1>1, <1>6 DEF Become, OnlyParent
  <2> HIDE DEF d
  <2> QED BY <1>2, <1>3, <1>4, <1>6, <2>1, RescueKeeps DEF Resting
<1>7. CASE /\ shm' = [shm EXCEPT !.end = s.cycle, !.oldest = Target(s)]
           /\ proc' = [Without(S) EXCEPT ![Parent].at = "notgood"]
  <2>1. Without(S)[Parent] = s /\ Parent \in DOMAIN Without(S)
    BY <1>1 DEF Without
  <2>2. /\ proc'[Parent] = t /\ DOMAIN proc' = DOMAIN proc \ S
        /\ \A q \in DOMAIN proc' \ {Parent} : q \in Others /\ proc'[q] = proc[q]
    BY <1>1, <1>7, <2>1 DEF Without, Others
  <2>3. \A q \in DOMAIN proc' \ {Parent} : q = Target(s) /\ q \in Elems(s.slots) /\ proc'[q].at = "shwait"
    BY <1>3, <2>2
  <2>4. /\ shm'.end = s.cycle /\ shm'.oldest = Target(s) /\ shm'.flag = shm.flag
        /\ DOMAIN shm' = DOMAIN shm /\ s.cycle \in Nat
    BY <1>1, <1>7 DEF Instant
  <2>5. NaturalEnd' = NaturalEnd /\ \A z, h : Due(z, h)' = Due(z, h)
    BY <1>2, FixedDue
  <2>6. s.cycle <= NaturalEnd
    BY <1>1 DEF Timed
  <2> HIDE DEF t, d, S
  <2>7. Alone'
    BY <1>3, <1>4, <2>2, <2>3, <2>4, <2>5, <2>6 DEF Alone, Others, Woken
  <2>8. Linked'
    <3>1. ASSUME NEW p \in DOMAIN proc' \ {Parent}, proc'[p].state = "ABORT"
          PROVE  s.cycle <= Due(proc'[p], proc'[p].then)
      <4>1. p \in Others /\ proc'[p] = proc[p] /\ proc[p].at = "shwait"
        BY <2>2, <2>3
      <4>2. Due(s, "wake") <= Due(proc[p], proc[p].then)
        BY <1>1, <1>3, <3>1, <4>1 DEF ReplayInv, Replaying, Linked, Resting
      <4>3. Due(s, "wake") = s.cycle
        BY DEF Due, Flying, Clock
      <4> QED BY <4>1, <4>2, <4>3
    <3>2. Woken'
      BY <1>4, <2>2 DEF Woken
    <3> QED BY <2>4, <2>5, <3>1, <3>2 DEF Linked, Others
  <2>9. AllTimed'
    <3>1. ASSUME NEW q \in DOMAIN proc' PROVE (Timed(proc[q], Here(proc[q])))'
      <4>1. CASE q = Parent
        <5>1. PICK z : z = t
          OBVIOUS
        <5>2. Timed(z, "notgood") /\ ~z.wave /\ ~z.kid /\ z.at = "notgood"
          BY <1>1, <1>4, <5>1 DEF t
        <5>3. Timed(z, "notgood")'
          BY <1>2, <5>2, TimedStays
        <5>4. Here(proc[q])' = "notgood" /\ proc'[q] = z
          BY <2>2, <4>1, <5>1, <5>2 DEF Here
        <5> QED BY <5>3, <5>4
      <4>2. CASE q # Parent
        <5> DEFINE r == proc[q]
        <5>1. /\ q \in DOMAIN proc /\ proc'[q] = r /\ r.at = "shwait" /\ Here(r) = r.then
              /\ Timed(r, r.then) /\ ~r.wave /\ r.then \in Resumes
          BY <2>2, <2>3, <4>2, ProcFacts DEF Others, Here, Image, ProcOK
        <5>2. PICK z : z = r
          OBVIOUS
        <5>3. PICK h : h = z.then
          OBVIOUS
        <5>4. Timed(z, h)'
          BY <1>2, <5>1, <5>2, <5>3, TimedStays DEF Resumes
        <5>5. Here(proc[q])' = h /\ proc'[q] = z
          BY <5>1, <5>2, <5>3 DEF Here
        <5> QED BY <5>4, <5>5
      <4> QED BY <4>1, <4>2
    <3> QED BY <3>1 DEF AllTimed
  <2>10. Shared'
    BY <1>1, <2>4 DEF Shared
  <2> QED BY <2>7, <2>8, <2>9, <2>10 DEF ReplayInv, Replaying
<1> QED BY <1>5, <1>6, <1>7

\* The steps that raise the flags, wait and clear up.
LEMMA RescueReplays ==
  ASSUME RInv, Family, ReplayInv, batch,
         NotGood(Parent) \/ Flag(Parent) \/ WaitPid(Parent) \/ Clear(Parent)
  PROVE  ReplayInv'
<1> DEFINE s == proc[Parent]
<1>1. /\ Memory(s) /\ ~s.kid /\ Parent \in DOMAIN proc /\ s.at \in Rescue
      /\ Timed(s, s.at) /\ Instant(s) /\ Parent \notin Elems(s.slots) /\ s.slots \in Seq(Pids)
      /\ {"flag", "notgood", "end", "oldest"} \subseteq DOMAIN shm
  BY ProcFacts DEF Family, Here, NotGood, Flag, WaitPid, Clear, Is, Timed, ReplayInv, Shared, RInv, IInv,
                   ProcOK, Rescue
<1>2. UNCHANGED config
  BY DEF NotGood, Flag, WaitPid, Clear
<1>3. ASSUME NEW at \in {"notgood", "flag"} \cup Resting
      PROVE  LET t == [s EXCEPT !.at = at] IN t.at = at /\ Timed(t, at)
  <2> DEFINE t == [s EXCEPT !.at = at]
  <2>1. t.at = at
    BY <1>1 DEF Memory
  <2>2. Timed(t, t.at)
    BY <1>1, <2>1, IdleTimed DEF Instant
  <2> QED BY <2>1, <2>2
<1>4. ASSUME NEW t, NEW S, Parent \notin S, proc' = [Without(S) EXCEPT ![Parent] = t]
      PROVE  OnlyParent(t)
  BY <1>1, <1>4 DEF Without, OnlyParent
<1>5. ASSUME NEW t, Become(Parent, t) PROVE OnlyParent(t)
  BY <1>1, <1>5 DEF Become, OnlyParent
<1>6. CASE NotGood(Parent)
  <2> DEFINE t == [s EXCEPT !.at = "flag"]
  <2>1. /\ shm' = [shm EXCEPT !.notgood = TRUE] /\ Become(Parent, t) /\ s.at = "notgood"
    BY <1>6 DEF NotGood, Is
  <2>2. t.at = "flag" /\ Timed(t, "flag") /\ OnlyParent(t)
    BY <1>3, <1>5, <2>1
  <2>3. ~shm.flag /\ Woken
    BY <2>1 DEF ReplayInv, Replaying, Alone, Woken, Resting
  <2>4. /\ DOMAIN shm' = DOMAIN shm /\ shm'.end = shm.end /\ shm'.oldest = shm.oldest
        /\ shm'.flag = shm.flag
    BY <1>1, <2>1
  <2> HIDE DEF t
  <2> QED BY <1>2, <2>2, <2>3, <2>4, RescueKeeps
<1>7. CASE Flag(Parent)
  <2> DEFINE t == [s EXCEPT !.at = "waitpid"]
  <2>1. /\ shm' = [shm EXCEPT !.flag = TRUE] /\ Become(Parent, t) /\ s.at = "flag"
    BY <1>7 DEF Flag, Is
  <2>2. t.at = "waitpid" /\ Timed(t, "waitpid") /\ OnlyParent(t)
    BY <1>3, <1>5, <2>1 DEF Resting
  <2>3. Woken
    BY <2>1 DEF Woken
  <2>4. /\ DOMAIN shm' = DOMAIN shm /\ shm'.end = shm.end /\ shm'.oldest = shm.oldest
        /\ shm'.flag
    BY <1>1, <2>1
  <2> HIDE DEF t
  <2> QED BY <1>2, <2>2, <2>3, <2>4, RescueKeeps DEF Resting
<1>8. CASE WaitPid(Parent)
  <2> DEFINE t == [s EXCEPT !.at = "clear"]
             S == {Target(s)}
  <2>1. Parent \notin S
    <3>1. s.slots # <<>> => Oldest(s.slots) \in Elems(s.slots)
      BY <1>1 DEF Oldest, Elems
    <3> QED BY <1>1, <3>1 DEF Target, NoPid, Parent
  <2>2. /\ shm' = shm /\ s.at = "waitpid" /\ proc' = [Without(S) EXCEPT ![Parent].at = "clear"]
    BY <1>8 DEF WaitPid, Is
  <2>3. Without(S)[Parent] = s
    BY <1>1, <2>1 DEF Without
  <2>4. proc' = [Without(S) EXCEPT ![Parent] = t]
    BY <2>2, <2>3
  <2>5. t.at = "clear" /\ Timed(t, "clear") /\ OnlyParent(t)
    BY <1>3, <1>4, <2>1, <2>4 DEF Resting
  <2> HIDE DEF t, S
  <2> QED BY <1>2, <2>2, <2>5, RescueKeeps DEF Resting, Woken
<1>9. CASE Clear(Parent)
  <2> DEFINE S == Elems(s.slots)
             t == Return([s EXCEPT !.slots = <<>>])
  <2>1. /\ shm' = shm /\ s.at = "clear"
        /\ proc' = [Without(S) EXCEPT ![Parent] = Return([Without(S)[Parent] EXCEPT !.slots = <<>>])]
    BY <1>9 DEF Clear, Is
  <2>2. Without(S)[Parent] = s
    BY <1>1 DEF Without
  <2>3. OnlyParent(t)
    BY <1>1, <1>4, <2>1, <2>2
  <2>4. /\ DOMAIN t = DOMAIN s /\ t.at = "exit" /\ t.cycle = s.cycle /\ t.window = s.window
        /\ t.ev = s.ev /\ t.done = s.done /\ t.loops = s.loops /\ t.wp = s.wp /\ t.wave = s.wave
        /\ t.kid = s.kid /\ t.sigint = s.sigint
    BY <1>1 DEF Return, Instant, Memory
  <2> HIDE DEF t
  <2>5. Timed(t, t.at)
    BY <1>1, <2>4, IdleTimed DEF Instant, Resting
  <2> QED BY <1>2, <2>1, <2>3, <2>4, <2>5, RescueKeeps DEF Resting, Woken
<1> QED BY <1>6, <1>7, <1>8, <1>9

\* In batch mode Ctrl-C ends everything but a replay that is over.
LEMMA CtrlCReplays ==
  ASSUME RInv, Family, ReplayInv, batch, CtrlC
  PROVE  ReplayInv'
<1>1. UNCHANGED <<config, shm>> /\ Parent \in DOMAIN proc
  BY DEF CtrlC, Family
<1>2. \A p \in DOMAIN proc : /\ Timed(proc[p], Here(proc[p])) /\ Instant(proc[p]) /\ proc[p].sigint # "stop"
                             /\ Memory(proc[p]) /\ (p # Parent => proc[p].kid)
  BY ProcFacts DEF Timed, Instant
<1>3. proc' = [q \in DOMAIN proc \ {q \in DOMAIN proc \ {Parent} : ~Ended(q)} |->
                 IF Ended(q) THEN proc[q] ELSE [proc[q] EXCEPT !.at = "dead"]]
  BY <1>2 DEF CtrlC
<1>4. /\ DOMAIN proc' = {q \in DOMAIN proc : q = Parent \/ Ended(q)}
      /\ \A q \in DOMAIN proc' \ {Parent} : Ended(q) /\ proc'[q] = proc[q]
      /\ proc'[Parent] = IF Ended(Parent) THEN proc[Parent] ELSE [proc[Parent] EXCEPT !.at = "dead"]
  BY <1>1, <1>3
<1>5. \A q \in DOMAIN proc' \ {Parent} :
        q \in Others /\ proc'[q] = proc[q] /\ proc[q].at \in {"exit", "dead"}
  BY <1>4 DEF Ended, Is, Others
<1>6. proc'[Parent].at \in {"exit", "dead"}
  BY <1>1, <1>2, <1>4 DEF Ended, Is, Memory
<1>7. NaturalEnd' = NaturalEnd
  BY <1>1, FixedDue
<1>8. Alone'
  BY <1>1, <1>5, <1>6, <1>7 DEF ReplayInv, Replaying, Alone, Others, Woken, Resting
<1>9. Linked'
  BY <1>5 DEF Linked, Others
<1>10. ~proc[Parent].kid
  BY DEF Family
<1>11. Ended(Parent) \/ Timed(proc'[Parent], Here(proc'[Parent]))
  <2> DEFINE s == proc[Parent]
             t == [s EXCEPT !.at = "dead"]
  <2>1. /\ DOMAIN t = DOMAIN s /\ t.at = "dead" /\ t.cycle = s.cycle /\ t.window = s.window
        /\ t.ev = s.ev /\ t.done = s.done /\ t.loops = s.loops /\ t.wp = s.wp /\ t.wave = s.wave
        /\ t.kid = s.kid /\ t.sigint = s.sigint
    BY <1>1, <1>2 DEF Instant
  <2>2. Instant(s) /\ ~s.kid /\ Timed(s, Here(s))
    BY <1>1, <1>2, <1>10
  <2> HIDE DEF t, s
  <2>3. Timed(t, t.at)
    BY <2>1, <2>2, IdleTimed DEF Instant, Resting
  <2>4. Here(t) = t.at
    BY <2>1 DEF Here
  <2> QED BY <1>4, <2>3, <2>4 DEF t, s
<1>12. AllTimed'
  <2>1. \A q \in DOMAIN proc' : \/ q \in DOMAIN proc /\ proc'[q] = proc[q]
                                \/ Timed(proc'[q], Here(proc'[q]))
    BY <1>4, <1>11
  <2> QED BY <1>1, <2>1, StaysTimed DEF ReplayInv, Replaying
<1> QED BY <1>1, <1>8, <1>9, <1>12 DEF ReplayInv, Replaying, Shared

\* What the shared memory says stays sound.
LEMMA SharedKept ==
  ASSUME RInv, Family, ReplayInv, [Next]_vars
  PROVE  Shared'
<1>1. CASE shm' = shm
  BY <1>1 DEF ReplayInv, Shared
<1>2. ASSUME NEW p \in DOMAIN proc, NotGood(p) \/ Flag(p) PROVE Shared'
  BY <1>2 DEF NotGood, Flag, ReplayInv, Shared
<1>3. ASSUME NEW p \in DOMAIN proc, WakeOldest(p) PROVE Shared'
  <2>1. p = Parent /\ proc[p].cycle \in Nat
    BY <1>3 DEF WakeOldest, Is, Family, RInv, Steady, Image, Rescue
  <2>2. shm' = shm \/ \E old : shm' = [shm EXCEPT !.end = proc[p].cycle, !.oldest = old]
    BY <1>3 DEF WakeOldest
  <2> QED BY <2>1, <2>2 DEF ReplayInv, Shared
<1>4. ASSUME NEW p \in DOMAIN proc, Step(p) \/ Command(p) PROVE Shared'
  <2>1. \/ shm' = shm \/ NotGood(p) \/ Flag(p) \/ WakeOldest(p)
    BY <1>4 DEF Step, Command, ResetHalf, MainLoop, Low, High, Count, Trace, Leave, Wake, WaitPid, Clear
  <2> QED BY <1>1, <1>2, <1>3, <2>1
<1>5. CASE CtrlC
  BY <1>1, <1>5 DEF CtrlC
<1>6. CASE UNCHANGED vars
  BY <1>1, <1>6 DEF vars
<1> QED BY <1>4, <1>5, <1>6 DEF Next

\* Every step keeps the invariant.
LEMMA NextReplay ==
  ASSUME RInv, Family, ReplayInv, [Next]_vars
  PROVE  ReplayInv'
<1>1. Shared' /\ UNCHANGED config
  BY SharedKept, ConfigFixed
<1>2. batch' = batch
  BY <1>1, FixedDue
<1>3. CASE ~batch
  BY <1>1, <1>2, <1>3 DEF ReplayInv
<1>4. CASE batch
  <2>1. CASE UNCHANGED vars
    <3>1. /\ shm'.end = shm.end /\ AllTimed
          /\ \A q \in DOMAIN proc' : q \in DOMAIN proc /\ proc'[q] = proc[q]
      BY <1>4, <2>1 DEF vars, ReplayInv, Replaying
    <3>2. AllTimed'
      BY <1>1, <3>1, StaysTimed
    <3>3. NaturalEnd' = NaturalEnd /\ \A z, h : Due(z, h)' = Due(z, h)
      BY <1>1, FixedDue
    <3>4. Alone' /\ Linked'
      BY <1>4, <2>1, <3>3 DEF vars, ReplayInv, Replaying, Alone, Linked, Others, Woken
    <3> QED BY <1>1, <3>2, <3>4 DEF ReplayInv, Replaying
  <2>2. ASSUME NEW p \in DOMAIN proc, p # Parent, Step(p) \/ Command(p) PROVE ReplayInv'
    BY <1>4, <2>2, KidReplays
  <2>3. CASE ResetHalf(Parent) \/ Low(Parent) \/ High(Parent)
    BY <1>4, <2>3, ParentDumpReplays
  <2>4. CASE MainLoop(Parent) \/ Count(Parent) \/ Trace(Parent) \/ Leave(Parent)
    BY <1>4, <2>4, ParentRunReplays
  <2>5. CASE WakeOldest(Parent)
    BY <1>4, <2>5, WakeOldestReplays
  <2>6. CASE NotGood(Parent) \/ Flag(Parent) \/ WaitPid(Parent) \/ Clear(Parent)
    BY <1>4, <2>6, RescueReplays
  <2>7. ~Command(Parent)
    <3>1. Parent \in DOMAIN proc
      BY DEF Family
    <3>2. Timed(proc[Parent], Here(proc[Parent]))
      BY <1>4, <3>1, ProcFacts
    <3> QED BY <3>2 DEF Timed, Here, Command, Is
  <2>8. CASE CtrlC
    BY <1>4, <2>8, CtrlCReplays
  <2> QED BY <2>1, <2>2, <2>3, <2>4, <2>5, <2>6, <2>7, <2>8, ParentAwake DEF Next, Step
<1> QED BY <1>3, <1>4

\* Only wakeup_child says where a replay is to end.
LEMMA EndMoves ==
  ASSUME RInv, Family, ReplayInv, Next, shm'.end # shm.end
  PROVE  WakeOldest(Parent)
<1>1. \A p \in DOMAIN proc : NotGood(p) \/ Flag(p) => shm'.end = shm.end
  BY DEF NotGood, Flag, ReplayInv, Shared
<1>2. ASSUME NEW p \in DOMAIN proc, Step(p) \/ Command(p) PROVE WakeOldest(Parent)
  <2>1. shm' = shm \/ NotGood(p) \/ Flag(p) \/ WakeOldest(p)
    BY <1>2 DEF Step, Command, ResetHalf, MainLoop, Low, High, Count, Trace, Leave, Wake, WaitPid, Clear
  <2>2. WakeOldest(p)
    BY <1>1, <2>1
  <2>3. p = Parent
    BY <2>2 DEF WakeOldest, Is, Family, RInv, Steady, Image, Rescue
  <2> QED BY <2>2, <2>3
<1>3. CASE CtrlC
  BY <1>3 DEF CtrlC
<1> QED BY <1>2, <1>3 DEF Next

\* It holds at the start.
LEMMA InitReplay == Init => ReplayInv
<1> SUFFICES ASSUME Init PROVE ReplayInv
  OBVIOUS
<1>1. DOMAIN proc = {Parent} /\ proc[Parent] = InitProc
      /\ shm = [flag |-> FALSE, notgood |-> FALSE, end |-> 0, oldest |-> 0]
  BY DEF Init
<1>2. /\ InitProc.at = "reset" /\ InitProc.state = "STOP" /\ InitProc.cycle = 0 /\ InitProc.ev = 0
      /\ InitProc.window = 0 /\ ~InitProc.wave /\ ~InitProc.kid /\ InitProc.done = FALSE
      /\ InitProc.loops = 0 /\ InitProc.sigint = "default" /\ InitProc.wp = InitPool
      /\ {"at", "then", "state", "wave", "kid", "cycle", "window", "ev", "done", "n", "loops",
          "sigint", "wp"} \subseteq DOMAIN InitProc
  BY DEF InitProc
<1>3. InitPool.head = <<>>
  BY DEF InitPool
<1>4. Timed(InitProc, "reset") /\ Here(InitProc) = "reset"
  <2>1. Instant(InitProc)
    <3>1. InitProc.wp.head = <<>>
      BY <1>2, <1>3
    <3>2. InitProc.cycle \in Nat /\ InitProc.window \in Nat /\ InitProc.ev \in Nat
          /\ InitProc.loops \in Int
      BY <1>2
    <3>3. InitProc.done \in BOOLEAN /\ InitProc.sigint # "stop"
      BY <1>2
    <3> QED BY ONLY <1>2, <3>1, <3>2, <3>3, Zenon DEF Instant
  <2>2. ~Flying(InitProc, "reset") /\ ~Landed(InitProc, "reset")
    BY DEF Flying, Landed
  <2> QED BY <1>2, <2>1, <2>2 DEF Timed, Here
<1>5. Others = {} /\ ~shm.flag /\ shm.end = 0 /\ ~Woken
  BY <1>1, <1>2 DEF Others, Woken
<1>6. Alone /\ Linked
  BY <1>5 DEF Alone, Linked
<1> QED BY <1>1, <1>4, <1>6 DEF ReplayInv, Replaying, Shared, AllTimed

\* In batch mode a snapshot exits only after it has replayed with waveforms on
\* through the cycle at which the first process failed (wakeup_child,
\* lightsss.cpp, and the end of cpu_exec): the same cycle shows the same
\* instruction in the run and in its replay, nothing else wakes up, and a stop
\* found before the snapshot was taken is not overtaken.
THEOREM ReplayShowsTheEnd == Spec => ReplayReaches
<1>1. RInv /\ Family /\ ReplayInv /\ [Next]_vars => (RInv /\ Family /\ ReplayInv)'
  BY NextRInv, NextFamily, NextReplay
<1>2. Init => RInv /\ Family /\ ReplayInv
  BY InitRInv, InitWInv, InitReplay
<1>3. RInv /\ Family /\ ReplayInv /\ [Next]_vars /\ (RInv /\ Family /\ ReplayInv)'
        => [\A p \in DOMAIN proc \cap DOMAIN proc' :
              (batch /\ proc[p].kid /\ ~Is(p, "exit") /\ proc'[p].at = "exit")
                => proc'[p].wave /\ proc'[p].cycle >= shm.end]_vars
  <2> SUFFICES ASSUME RInv, Family, ReplayInv, Next, Family', ReplayInv',
                      NEW p \in DOMAIN proc \cap DOMAIN proc',
                      batch, proc[p].kid, ~Is(p, "exit"), proc'[p].at = "exit"
               PROVE  proc'[p].wave /\ proc'[p].cycle >= shm.end
    OBVIOUS
  <2>1. p # Parent /\ batch'
    BY ConfigFixed, FixedDue DEF Family
  <2>2. shm'.end = shm.end
    <3>1. ASSUME shm'.end # shm.end PROVE WakeOldest(Parent)
      BY <3>1, EndMoves
    <3>2. ~WakeOldest(Parent)
      <4>1. WakeOldest(Parent) => proc'[p] = proc[p]
        BY <2>1, ParentMoves DEF OnlyParent
      <4> QED BY <4>1 DEF Is
    <3> QED BY <3>1, <3>2
  <2>3. (Timed(proc[p], Here(proc[p])))' /\ proc'[p].kid
    BY <2>1 DEF ReplayInv, Replaying, AllTimed, Family
  <2>4. (Here(proc[p]))' = "exit"
    BY DEF Here
  <2> QED BY <2>2, <2>3, <2>4 DEF Timed
<1> QED BY <1>1, <1>2, <1>3, PTL DEF Spec, ReplayReaches

-----------------------------------------------------------------------------
(* A batch run raises no false alarm.                                      *)

\* No two instructions in a row are killed by an interrupt: taking one clears
\* mstatus.mie, without which none is raised (CSRRegFile.scala:168, 196).
IntrsApart == \A d \in Duts : \A k \in 1 .. Len(d.kind) - 1 :
                ~(d.kind[k] = "intr" /\ d.kind[k + 1] = "intr")
Happens(k, what) == k \in 1 .. Events /\ dut.kind[k] = what
\* What the queue of skips holds of instruction k.
News(k) == IF Happens(k, "dev") THEN <<k>> ELSE <<>>
\* The record of an interrupt is that of instruction k, if it is killed by one.
Noted(diff, k) == Happens(k, "intr") => diff.intr = k
\* The reference has missed nothing so far, and has been told of exactly those
\* instructions that have been issued and are not compared yet.
Sound(diff) == diff.ref \in {"good", "bad"} /\ (diff.ref = "bad" => Corrupt(diff.k))
Told(s, h) ==
  /\ Flying(s, h) \/ Landed(s, h) => Sound(s.diff)
  /\ Flying(s, h) => IF s.cycle = 0 /\ h # "count" THEN s.ev = 0 /\ s.diff.skip = <<>>
                     ELSE s.diff.skip = News(s.ev + 1) /\ Noted(s.diff, s.ev + 1)
  /\ Landed(s, h) => /\ s.ev \in 1 .. Events
                     /\ s.diff.skip = News(s.ev) \o News(s.ev + 1)
                     /\ Noted(s.diff, s.ev) /\ Noted(s.diff, s.ev + 1)
AllTold == \A p \in DOMAIN proc : ~proc[p].wave => Told(proc[p], Here(proc[p]))
Alert == batch /\ difftest => AllTold

\* What the design announces of instruction k goes to the end of the queue.
LEMMA IssueTells ==
  ASSUME dut \in Duts, NEW diff, {"k", "ref", "skip", "intr"} \subseteq DOMAIN diff,
         diff.skip \in Seq(Nat), NEW k \in Nat \ {0}
  PROVE  /\ {"k", "ref", "skip", "intr"} \subseteq DOMAIN Issue(diff, k)
         /\ Issue(diff, k).k = diff.k /\ Issue(diff, k).ref = diff.ref
         /\ Issue(diff, k).skip = diff.skip \o News(k)
         /\ Issue(diff, k).intr = IF Happens(k, "intr") THEN k ELSE diff.intr
<1>1. Events \in Nat
  BY SimulatorAssumption DEF DutOK, Events
<1>2. diff.skip \o <<>> = diff.skip /\ Append(diff.skip, k) = diff.skip \o <<k>>
  OBVIOUS
<1>3. CASE k > Events
  BY <1>1, <1>2, <1>3 DEF Issue, News, Happens
<1>4. CASE ~(k > Events)
  <2>1. k \in 1 .. Events
    BY <1>1, <1>4
  <2>2. CASE dut.kind[k] = "dev"
    BY <1>2, <1>4, <2>1, <2>2 DEF Issue, News, Happens
  <2>3. CASE dut.kind[k] = "intr"
    BY <1>2, <1>4, <2>1, <2>3 DEF Issue, News, Happens
  <2>4. CASE dut.kind[k] # "dev" /\ dut.kind[k] # "intr"
    BY <1>2, <1>4, <2>1, <2>4 DEF Issue, News, Happens
  <2> QED BY <2>2, <2>3, <2>4
<1> QED BY <1>3, <1>4

\* Two neighbours are not both killed by an interrupt.
LEMMA OneIntr ==
  ASSUME IntrsApart, dut \in Duts, NEW k \in Nat
  PROVE  ~(Happens(k, "intr") /\ Happens(k + 1, "intr"))
<1>1. Events \in Nat
  BY SimulatorAssumption DEF DutOK, Events
<1>2. Happens(k, "intr") /\ Happens(k + 1, "intr") => k \in 1 .. Events - 1
  BY <1>1 DEF Happens
<1> QED BY <1>2 DEF IntrsApart, Events, Happens

\* The front of a queue.
LEMMA FrontOfQueue ==
  ASSUME NEW k \in Nat, NEW rest \in Seq(Nat)
  PROVE  <<k>> \o rest # <<>> /\ Head(<<k>> \o rest) = k /\ Tail(<<k>> \o rest) = rest
OBVIOUS

\* The news of an instruction is a part of the queue.
LEMMA NewsSeq ==
  ASSUME dut \in Duts, NEW k \in Nat
  PROVE  News(k) \in Seq(Nat)
BY DEF News

\* A clock edge announces the next instruction before it retires the present one.
LEMMA PosedgeTold ==
  ASSUME IntrsApart, dut \in Duts, NEW s, Memory(s), Tracked(s, "high", 1), Told(s, "high")
  PROVE  Told(Posedge(s), "count")
<1> DEFINE t == Posedge(s)
           retires == s.ev < Events /\ s.window + 1 = dut.gap
           first == IF s.cycle = 0 THEN Issue(s.diff, 1) ELSE s.diff
<1>1. Events \in Nat
  BY SimulatorAssumption DEF DutOK, Events
<1>2. s.ev \in Nat /\ s.diff.k = s.ev /\ s.ev + 1 \in Nat \ {0} /\ s.ev + 2 \in Nat \ {0}
  BY DEF Memory, Tracked, Flying, Lag
<1>3. {"k", "ref", "skip", "intr"} \subseteq DOMAIN s.diff /\ Sound(s.diff)
  BY DEF Memory, Told, Flying
<1>4. /\ {"k", "ref", "skip", "intr"} \subseteq DOMAIN first
      /\ first.k = s.ev /\ first.ref = s.diff.ref
      /\ first.skip = News(s.ev + 1) /\ Noted(first, s.ev + 1)
  <2>1. CASE s.cycle = 0
    <3>1. s.ev = 0 /\ s.diff.skip = <<>>
      BY <2>1 DEF Told, Flying
    <3>2. <<>> \in Seq(Nat) /\ <<>> \o News(1) = News(1) /\ 1 \in Nat \ {0}
      BY DEF News
    <3> DEFINE k == s.ev + 1
    <3>3. first = Issue(s.diff, k) /\ k \in Nat \ {0} /\ s.diff.skip \in Seq(Nat)
          /\ <<>> \o News(k) = News(k)
      BY <2>1, <3>1, <3>2
    <3> HIDE DEF first, k
    <3>4. /\ {"k", "ref", "skip", "intr"} \subseteq DOMAIN first
          /\ first.k = s.diff.k /\ first.ref = s.diff.ref
          /\ first.skip = s.diff.skip \o News(k)
          /\ first.intr = IF Happens(k, "intr") THEN k ELSE s.diff.intr
      BY <1>3, <3>3, IssueTells
    <3>5. first.skip = News(k) /\ Noted(first, k)
      BY <3>1, <3>3, <3>4 DEF Noted
    <3> QED BY <1>2, <3>4, <3>5 DEF k
  <2>2. CASE s.cycle # 0
    BY <1>2, <1>3, <2>2 DEF Told, Flying
  <2> QED BY <2>1, <2>2
<1>5. /\ t.done = retires /\ t.ev = IF retires THEN s.ev + 1 ELSE s.ev
      /\ t.diff = IF retires THEN Issue(first, s.ev + 2) ELSE first
  BY DEF Posedge, Memory
<1> HIDE DEF t, first
<1>6. Sound(first)
  BY <1>2, <1>3, <1>4 DEF Sound
<1>7. CASE ~retires
  <2>1. t.done = FALSE /\ t.ev = s.ev /\ t.diff = first
    BY <1>5, <1>7
  <2> QED BY <1>4, <1>6, <2>1 DEF Told, Flying, Landed, t
<1>8. CASE retires
  <2> DEFINE d == Issue(first, s.ev + 2)
  <2>1. t.done = TRUE /\ t.ev = s.ev + 1 /\ t.diff = d
    BY <1>5, <1>8
  <2>2. News(s.ev + 1) \in Seq(Nat)
    BY <1>2, NewsSeq
  <2>3. /\ d.k = first.k /\ d.ref = first.ref
        /\ d.skip = News(s.ev + 1) \o News(s.ev + 2)
        /\ d.intr = IF Happens(s.ev + 2, "intr") THEN s.ev + 2 ELSE first.intr
    <3> DEFINE k == s.ev + 2
    <3>1. first.skip \in Seq(Nat) /\ k \in Nat \ {0}
      BY <1>2, <1>4, <2>2
    <3>2. d = Issue(first, k)
      OBVIOUS
    <3> HIDE DEF d, k
    <3>3. /\ d.k = first.k /\ d.ref = first.ref /\ d.skip = first.skip \o News(k)
          /\ d.intr = IF Happens(k, "intr") THEN k ELSE first.intr
      BY <1>4, <3>1, <3>2, IssueTells
    <3> QED BY <1>4, <3>3 DEF k
  <2> HIDE DEF d
  <2>4. s.ev + 1 \in 1 .. Events /\ (s.ev + 1) + 1 = s.ev + 2
    BY <1>1, <1>2, <1>8
  <2>5. ~(Happens(s.ev + 1, "intr") /\ Happens(s.ev + 2, "intr"))
    <3>1. s.ev + 1 \in Nat
      BY <1>2
    <3> QED BY <2>4, <3>1, OneIntr
  <2>6. Noted(d, s.ev + 1) /\ Noted(d, s.ev + 2)
    BY <1>4, <2>3, <2>5 DEF Noted
  <2>7. Sound(d)
    BY <1>6, <2>3 DEF Sound
  <2>8. ~Flying(t, "count") /\ Landed(t, "count")
    BY <2>1 DEF Flying, Landed
  <2>9. t.ev + 1 = s.ev + 2
    BY <2>1, <2>4
  <2> QED BY <2>1, <2>3, <2>4, <2>6, <2>7, <2>8, <2>9 DEF Told, t
<1> QED BY <1>7, <1>8

\* Counting the cycle announces nothing.
LEMMA TickedTold ==
  ASSUME NEW s, Memory(s), Booked(s), Told(s, "count"), s.cycle \in Nat
  PROVE  Told(Ticked(s), Ticked(s).at)
<1> DEFINE t == Ticked(s)
<1>1. /\ t.done = s.done /\ t.ev = s.ev /\ t.diff = s.diff /\ t.cycle = s.cycle + 1
      /\ \/ t.at = "low" /\ ~s.done
         \/ t.at = "trace" /\ s.done
         \/ t.at = "leave"
  BY DEF Ticked, Memory, Booked
<1> HIDE DEF t
<1>2. t.cycle # 0
  BY <1>1
<1> QED BY <1>1, <1>2 DEF Told, Flying, Landed, t

\* difftest_step takes off the queue what it is told of the instruction that has
\* retired and does what that instruction did: it finds no difference, unless
\* the design has gone wrong.
LEMMA ComparedTold ==
  ASSUME IntrsApart, dut \in Duts, difftest, NEW s, ~s.wave, Memory(s),
         Tracked(s, "trace", 1), Told(s, "trace")
  PROVE  LET d == Compared(s).diff
         IN /\ Sound(d) /\ d.skip = News(s.ev + 1) /\ Noted(d, s.ev + 1)
            /\ Mismatch(s) => Corrupt(s.ev)
<1>1. Events \in Nat /\ dut.kind \in Seq(Kinds) /\ dut.bad \in Nat
  BY SimulatorAssumption DEF DutOK, Events
<1>2. s.ev \in 1 .. Events /\ s.diff.k + 1 = s.ev /\ s.ev \in Nat /\ s.diff.k \in Nat
  BY DEF Memory, Tracked, Landed, Lag, Told
<1>3. /\ {"k", "ref", "skip", "intr"} \subseteq DOMAIN s.diff /\ Sound(s.diff)
      /\ s.diff.skip = News(s.ev) \o News(s.ev + 1)
      /\ Noted(s.diff, s.ev) /\ Noted(s.diff, s.ev + 1)
  BY DEF Memory, Told, Landed
<1>4. Compared(s).diff = DifftestStep(s)
  BY DEF Compared, Compares, Memory
<1>5. dut.kind[s.ev] \in Kinds
  BY <1>1, <1>2 DEF Events
<1>6. s.diff.ref = "bad" => Corrupt(s.ev)
  BY <1>1, <1>2, <1>3 DEF Sound, Corrupt
<1>7. CASE dut.kind[s.ev] = "dev"
  <2>1. News(s.ev) = <<s.ev>> /\ News(s.ev + 1) \in Seq(Nat)
    BY <1>2, <1>7, NewsSeq DEF News, Happens
  <2>2. /\ s.diff.skip # <<>> /\ Head(s.diff.skip) = s.ev
        /\ Tail(s.diff.skip) = News(s.ev + 1)
    <3> DEFINE rest == News(s.ev + 1)
    <3>1. s.diff.skip = <<s.ev>> \o rest /\ rest \in Seq(Nat) /\ s.ev \in Nat
      BY <1>2, <1>3, <2>1
    <3> HIDE DEF rest
    <3> QED BY <3>1, FrontOfQueue DEF rest
  <2>3. Skips(s)
    BY <2>2 DEF Skips
  <2> DEFINE d == RegCpy(s)
  <2>4. /\ d.k = s.ev /\ d.skip = News(s.ev + 1) /\ d.intr = s.diff.intr
        /\ d.ref = IF Corrupt(s.ev) THEN "bad" ELSE "good"
    BY <1>3, <2>2 DEF RegCpy
  <2> HIDE DEF d
  <2>5. Sound(d) /\ Noted(d, s.ev + 1)
    BY <1>3, <2>4 DEF Sound, Noted
  <2> QED BY <1>4, <2>3, <2>4, <2>5 DEF DifftestStep, Mismatch, d
<1>8. CASE dut.kind[s.ev] # "dev"
  <2>1. s.diff.skip = News(s.ev + 1)
    <3>1. News(s.ev) = <<>> /\ News(s.ev + 1) \in Seq(Nat)
      BY <1>2, <1>8, NewsSeq DEF News, Happens
    <3> QED BY <1>3, <3>1
  <2>2. ~Skips(s)
    <3>1. News(s.ev + 1) = <<>> \/ Head(News(s.ev + 1)) = s.ev + 1
      BY DEF News
    <3> QED BY <1>2, <2>1, <3>1 DEF Skips
  <2>3. RaiseIntr(s) <=> dut.kind[s.ev] = "intr"
    BY <1>2, <1>3 DEF RaiseIntr, Noted, Happens
  <2> DEFINE d == RefStep(s)
  <2>4. /\ d.k = s.ev /\ d.skip = News(s.ev + 1) /\ d.ref = s.diff.ref
        /\ d.intr = IF dut.kind[s.ev] = "intr" THEN 0 ELSE s.diff.intr
    <3>1. dut.kind[s.ev] = IF RaiseIntr(s) THEN "intr" ELSE "alu"
      BY <1>5, <1>8, <2>3 DEF Kinds
    <3>2. /\ d.k = s.ev /\ d.skip = s.diff.skip
          /\ d.ref = IF dut.kind[s.ev] = (IF RaiseIntr(s) THEN "intr" ELSE "alu")
                     THEN s.diff.ref ELSE "lost"
          /\ d.intr = IF RaiseIntr(s) THEN 0 ELSE s.diff.intr
      BY <1>2, <1>3 DEF RefStep
    <3> HIDE DEF d
    <3> QED BY <2>1, <2>3, <3>1, <3>2
  <2> HIDE DEF d
  <2>5. Sound(d)
    BY <1>3, <1>6, <2>4 DEF Sound
  <2>6. Noted(d, s.ev + 1)
    <3>1. dut.kind[s.ev] = "intr" => ~Happens(s.ev + 1, "intr")
      BY <1>2, OneIntr DEF Happens
    <3> QED BY <1>3, <2>4, <3>1 DEF Noted
  <2>7. ~Corrupt(s.ev) => Agrees(s, d)
    BY <1>3, <1>6, <2>4 DEF Agrees, Sound
  <2> QED BY <1>4, <2>2, <2>4, <2>5, <2>6, <2>7 DEF DifftestStep, Mismatch, d
<1> QED BY <1>7, <1>8

\* What is heard of a process that records no waveforms.
Hears(s) == ~s.wave => Told(s, Here(s))

\* After the comparison only the next instruction is announced.
LEMMA TracedTold ==
  ASSUME IntrsApart, dut \in Duts, difftest, batch, NEW s, ~s.wave, Memory(s), Known,
         Timed(s, "trace"), Tracked(s, "trace", 1), Told(s, "trace")
  PROVE  Told(Traced(s), "low")
<1> DEFINE c == Compared(s)
           u == Watched(c)
           t == Traced(s)
<1>1. /\ Sound(c.diff) /\ c.diff.skip = News(s.ev + 1) /\ Noted(c.diff, s.ev + 1)
  BY ComparedTold
<1>2. /\ DOMAIN c = DOMAIN s /\ c.ev = s.ev /\ c.cycle = s.cycle
  BY DEF Compared, Memory, Timed, Instant
<1>3. s.cycle # 0
  <2>1. 0 < s.ev /\ s.cycle = s.ev * dut.gap /\ s.ev \in Nat /\ dut.gap \in Nat \ {0}
    BY DEF Timed, Landed, Retired, Clock, Known, Memory
  <2>2. \A a, b \in Nat \ {0} : a * b # 0
    OBVIOUS
  <2>3. s.ev \in Nat \ {0}
    BY <2>1
  <2> QED BY <2>1, <2>2, <2>3
<1> HIDE DEF c
<1>4. /\ DOMAIN u = DOMAIN s /\ u.ev = s.ev /\ u.cycle = s.cycle /\ u.diff = c.diff
  BY <1>2 DEF Watched, Memory, Timed, Instant
<1>5. t \in {[u EXCEPT !.at = "leave"], ExecOnce(u)}
  BY DEF Traced, c
<1> HIDE DEF u, t
<1>6. t.ev = s.ev /\ t.cycle = s.cycle /\ t.diff = c.diff
  BY <1>2, <1>4, <1>5 DEF ExecOnce, Memory, Timed, Instant
<1>7. Flying(t, "low") /\ ~Landed(t, "low")
  BY DEF Flying, Landed
<1> QED BY <1>1, <1>3, <1>6, <1>7 DEF Told, t

\* A snapshot keeps the queue of the process it is taken of.
LEMMA DumpWaveTold ==
  ASSUME NEW p \in DOMAIN proc, NEW s, NEW next \in Resumes, Memory(s), Booked(s),
         Told(s, next), DumpWave(p, s, next)
  PROVE  \A q \in DOMAIN proc' : \/ q \in DOMAIN proc /\ proc'[q] = proc[q]
                                 \/ Hears(proc'[q])
<1>1. ASSUME NEW q \in DOMAIN proc', Comes(proc'[q], s, next)
      PROVE  Hears(proc'[q])
  <2> DEFINE r == proc'[q]
  <2>1. PICK c : /\ Alike(c, s)
                 /\ \/ r = Dumped(c, next)
                    \/ r = [c EXCEPT !.kid = TRUE, !.at = "shwait", !.then = next]
    BY <1>1 DEF Comes
  <2>2. /\ {"at", "then", "state", "kid", "ev", "done", "diff", "cycle"} \subseteq DOMAIN c
        /\ c.ev = s.ev /\ c.done = s.done /\ c.diff = s.diff /\ c.cycle = s.cycle
    BY <2>1 DEF Alike, Memory, Booked
  <2>3. /\ r.ev = s.ev /\ r.done = s.done /\ r.diff = s.diff /\ r.cycle = s.cycle
        /\ Here(r) = next
    <3>1. CASE r = Dumped(c, next)
      BY <2>2, <3>1 DEF Dumped, Here, Resumes
    <3>2. CASE r = [c EXCEPT !.kid = TRUE, !.at = "shwait", !.then = next]
      <4> HIDE DEF r
      <4> QED BY <2>2, <3>2 DEF Here
    <3> QED BY <2>1, <3>1, <3>2
  <2> HIDE DEF r
  <2>4. Told(r, next)
    BY <2>3 DEF Told, Flying, Landed
  <2> QED BY <2>3, <2>4 DEF Hears, r
<1>2. {"slots", "kid", "at", "then", "count"} \subseteq DOMAIN s
  BY DEF Booked
<1> QED BY <1>1, <1>2, DumpWaveOutcome

\* What is to be shown of a step: each process is as it was, or is sound on its own.
LEMMA HeardInv ==
  ASSUME batch, difftest, AllTold, UNCHANGED config,
         \A q \in DOMAIN proc' : \/ q \in DOMAIN proc /\ proc'[q] = proc[q]
                                 \/ Hears(proc'[q])
  PROVE  Alert'
<1>1. \A q \in DOMAIN proc' : Hears(proc'[q])
  BY DEF AllTold, Hears
<1>2. ASSUME NEW s, NEW h, Told(s, h) PROVE Told(s, h)'
  BY <1>2 DEF Told, Flying, Landed, Sound, Noted, News, Happens, Corrupt, Events, config
<1>3. ASSUME NEW s, Hears(s) PROVE Hears(s)'
  BY <1>2, <1>3 DEF Hears, Here
<1>4. \A q \in DOMAIN proc' : (~proc[q].wave => Told(proc[q], Here(proc[q])))'
  BY <1>1, <1>3 DEF Hears
<1> QED BY <1>4 DEF Alert, AllTold

\* A process in which no instruction is under way has nothing to be told.
LEMMA IdleHears ==
  ASSUME NEW s, s.at \notin {"low", "high", "count", "trace", "shwait"}
  PROVE  Hears(s)
BY DEF Hears, Told, Here, Flying, Landed

\* The steps that run the design.
LEMMA ParentHears ==
  ASSUME IntrsApart, RInv, Family, ReplayInv, Alert, batch, difftest,
         ResetHalf(Parent) \/ MainLoop(Parent) \/ Low(Parent) \/ High(Parent)
           \/ Count(Parent) \/ Trace(Parent) \/ Leave(Parent)
  PROVE  \A q \in DOMAIN proc' : \/ q \in DOMAIN proc /\ proc'[q] = proc[q]
                                 \/ Hears(proc'[q])
<1> DEFINE s == proc[Parent]
<1>1. /\ Known /\ dut \in Duts /\ Memory(s) /\ Booked(s) /\ ~s.wave
      /\ Parent \in DOMAIN proc
      /\ s.at # "shwait" => Timed(s, s.at) /\ Told(s, s.at) /\ Tracked(s, s.at, 1)
  <2>1. Parent \in DOMAIN proc /\ ~s.kid
    BY DEF Family
  <2>2. /\ Known /\ dut \in Duts /\ Memory(s) /\ Booked(s) /\ ~s.wave
        /\ Timed(s, Here(s))
    BY <2>1, ProcFacts DEF Image
  <2>3. Told(s, Here(s))
    BY <2>1, <2>2 DEF Alert, AllTold
  <2>4. Tracked(s, Here(s), 1)
    BY <2>1, <2>2 DEF RInv, Steady, Goes, Given
  <2> QED BY <2>1, <2>2, <2>3, <2>4 DEF Here
<1>2. ASSUME NEW t, Become(Parent, t), Hears(t)
      PROVE  \A q \in DOMAIN proc' : \/ q \in DOMAIN proc /\ proc'[q] = proc[q]
                                     \/ Hears(proc'[q])
  BY <1>2 DEF Become
<1> HIDE DEF s
<1>3. CASE ResetHalf(Parent)
  <2> DEFINE u == [s EXCEPT !.resets = @ - 1]
             next == IF u.resets = 0 THEN "main" ELSE "reset"
  <2>1. DumpWave(Parent, u, next)
    BY <1>3 DEF ResetHalf, s
  <2>2. Memory(u) /\ Booked(u)
    BY <1>1 DEF Memory, Booked
  <2>3. next \in {"main", "reset"}
    OBVIOUS
  <2> HIDE DEF u, next
  <2>4. Told(u, next) /\ next \in Resumes
    BY <2>3 DEF Told, Flying, Landed, Resumes
  <2> QED BY <1>1, <2>1, <2>2, <2>4, DumpWaveTold
<1>4. CASE MainLoop(Parent)
  <2> DEFINE u == [s EXCEPT !.diff = InitDiff]
             t == CpuExec(u, Forever)
  <2>1. Become(Parent, t) /\ s.at = "main"
    BY <1>4 DEF MainLoop, Is, s
  <2>2. Timed(s, "main") /\ s.cycle = 0 /\ s.ev = 0 /\ s.state = "STOP"
    BY <1>1, <2>1 DEF Timed
  <2>3. t.at = "low" /\ t.ev = 0 /\ t.cycle = 0 /\ t.diff = InitDiff
    BY <1>1, <2>2 DEF CpuExec, ExecOnce, Memory, Booked
  <2> HIDE DEF t
  <2>4. Sound(InitDiff) /\ InitDiff.skip = <<>>
    BY DEF Sound, InitDiff
  <2>5. Hears(t)
    BY <2>3, <2>4 DEF Hears, Told, Here, Flying, Landed
  <2> QED BY <1>2, <2>1, <2>5
<1>5. CASE Low(Parent)
  <2>1. DumpWave(Parent, s, "high") /\ s.at = "low"
    BY <1>5 DEF Low, Is, s
  <2>2. Told(s, "high") /\ "high" \in Resumes
    BY <1>1, <2>1 DEF Told, Flying, Landed, Resumes
  <2> QED BY <1>1, <2>1, <2>2, DumpWaveTold
<1>6. CASE High(Parent)
  <2>1. DumpWave(Parent, Posedge(s), "count") /\ s.at = "high"
    BY <1>6 DEF High, Is, s
  <2>2. Told(Posedge(s), "count") /\ "count" \in Resumes
    BY <1>1, <2>1, PosedgeTold DEF Resumes
  <2>3. Memory(Posedge(s)) /\ Booked(Posedge(s))
    BY <1>1, PosedgeMemory, RunHolds DEF Hold, Booked
  <2> QED BY <1>1, <2>1, <2>2, <2>3, DumpWaveTold
<1>7. CASE Count(Parent)
  <2>1. Become(Parent, Ticked(s)) /\ s.at = "count"
    BY <1>7 DEF Count, Is, s
  <2>2. s.cycle \in Nat
    BY <1>1, <2>1 DEF Timed, Instant
  <2>3. Told(Ticked(s), Ticked(s).at) /\ Ticked(s).at \in {"low", "trace", "leave"}
    BY <1>1, <2>1, <2>2, TickedTold, TickedHolds
  <2>4. Hears(Ticked(s))
    BY <2>3 DEF Hears, Here
  <2> QED BY <1>2, <2>1, <2>4
<1>8. CASE Trace(Parent)
  <2>1. Become(Parent, Traced(s)) /\ s.at = "trace"
    BY <1>8 DEF Trace, Is, s
  <2>2. Told(Traced(s), "low")
    BY <1>1, <2>1, TracedTold
  <2>3. Traced(s).at = "low"
    <3>1. ProcOK(s)
      BY <1>1 DEF RInv, IInv, s
    <3> QED BY <1>1, <2>1, <3>1, TracedTimed
  <2>4. Hears(Traced(s))
    BY <2>2, <2>3 DEF Hears, Here
  <2> QED BY <1>2, <2>1, <2>4
<1>9. CASE Leave(Parent)
  <2>1. Become(Parent, Left(s))
    BY <1>9 DEF Leave, s
  <2>2. Left(s).at \in {"exit", "prompt", "wake"}
    BY <1>1 DEF Left, Return, Memory
  <2>3. Hears(Left(s))
    BY <2>2, IdleHears
  <2> QED BY <1>2, <2>1, <2>3
<1> QED BY <1>3, <1>4, <1>5, <1>6, <1>7, <1>8, <1>9

\* The steps of wakeup_child and do_clear.
LEMMA RescueHears ==
  ASSUME RInv, Family,
         WakeOldest(Parent) \/ NotGood(Parent) \/ Flag(Parent) \/ WaitPid(Parent) \/ Clear(Parent)
  PROVE  \A q \in DOMAIN proc' : \/ q \in DOMAIN proc /\ proc'[q] = proc[q]
                                 \/ Hears(proc'[q])
<1> DEFINE s == proc[Parent]
<1>1. Parent \in DOMAIN proc /\ Memory(s) /\ s.slots \in Seq(Pids) /\ Parent \notin Elems(s.slots)
  BY DEF Family, RInv, Steady, Goes, IInv, ProcOK
<1>2. ASSUME NEW t, NEW S, Parent \notin S, proc' = [Without(S) EXCEPT ![Parent] = t],
             t.at \notin {"low", "high", "count", "trace", "shwait"}
      PROVE  \A q \in DOMAIN proc' : \/ q \in DOMAIN proc /\ proc'[q] = proc[q]
                                     \/ Hears(proc'[q])
  BY <1>1, <1>2, IdleHears DEF Without
<1>3. ASSUME NEW t, Become(Parent, t), t.at \notin {"low", "high", "count", "trace", "shwait"}
      PROVE  \A q \in DOMAIN proc' : \/ q \in DOMAIN proc /\ proc'[q] = proc[q]
                                     \/ Hears(proc'[q])
  BY <1>3, IdleHears DEF Become
<1>4. ASSUME NEW S, Parent \notin S PROVE Without(S)[Parent] = s
  BY <1>1, <1>4 DEF Without
<1>5. Target(s) # Parent
  <2>1. s.slots # <<>> => Oldest(s.slots) \in Elems(s.slots)
    BY <1>1 DEF Oldest, Elems
  <2> QED BY <1>1, <2>1 DEF Target, NoPid, Parent
<1>6. ASSUME NEW at \in {"notgood", "flag", "waitpid", "clear", "dead"}
      PROVE  [s EXCEPT !.at = at].at = at
  BY <1>1 DEF Memory
<1> HIDE DEF s
<1>7. CASE WakeOldest(Parent)
  <2> DEFINE S == Elems(s.slots) \ {Target(s)}
  <2>1. \/ proc' = [Without(S) EXCEPT ![Parent].at = "notgood"]
        \/ Become(Parent, [s EXCEPT !.at = "dead"])
    BY <1>7 DEF WakeOldest, s
  <2>2. Parent \notin S
    BY <1>1
  <2> HIDE DEF S
  <2>3. \/ proc' = [Without(S) EXCEPT ![Parent] = [s EXCEPT !.at = "notgood"]]
        \/ Become(Parent, [s EXCEPT !.at = "dead"])
    BY <1>4, <2>1, <2>2
  <2>4. ASSUME NEW t, t = [s EXCEPT !.at = "notgood"] \/ t = [s EXCEPT !.at = "dead"]
        PROVE  t.at \notin {"low", "high", "count", "trace", "shwait"}
    BY <1>6, <2>4
  <2>5. CASE proc' = [Without(S) EXCEPT ![Parent] = [s EXCEPT !.at = "notgood"]]
    BY <1>2, <2>2, <2>4, <2>5
  <2>6. CASE Become(Parent, [s EXCEPT !.at = "dead"])
    BY <1>3, <2>4, <2>6
  <2> QED BY <2>3, <2>5, <2>6
<1>8. CASE NotGood(Parent) \/ Flag(Parent)
  <2>1. \E at \in {"flag", "waitpid"} : Become(Parent, [s EXCEPT !.at = at])
    BY <1>8 DEF NotGood, Flag, s
  <2> QED BY <1>3, <1>6, <2>1
<1>9. CASE WaitPid(Parent)
  <2>1. proc' = [Without({Target(s)}) EXCEPT ![Parent].at = "clear"]
    BY <1>9 DEF WaitPid, s
  <2>2. proc' = [Without({Target(s)}) EXCEPT ![Parent] = [s EXCEPT !.at = "clear"]]
    BY <1>4, <1>5, <2>1
  <2> QED BY <1>2, <1>5, <1>6, <2>2
<1>10. CASE Clear(Parent)
  <2> DEFINE t == Return([s EXCEPT !.slots = <<>>])
             S == Elems(s.slots)
  <2>1. proc' = [Without(S) EXCEPT ![Parent] = Return([Without(S)[Parent] EXCEPT !.slots = <<>>])]
    BY <1>10 DEF Clear, s
  <2>2. proc' = [Without(S) EXCEPT ![Parent] = t]
    BY <1>1, <1>4, <2>1
  <2>3. t.at \in {"exit", "prompt"}
    BY <1>1 DEF Return, Memory
  <2> HIDE DEF t, S
  <2> QED BY <1>1, <1>2, <2>2, <2>3 DEF S
<1> QED BY <1>7, <1>8, <1>9, <1>10

\* In batch mode Ctrl-C changes neither the reference nor its queue.
LEMMA CtrlCHears ==
  ASSUME RInv, batch, difftest, Alert, CtrlC
  PROVE  \A q \in DOMAIN proc' : \/ q \in DOMAIN proc /\ proc'[q] = proc[q]
                                 \/ Hears(proc'[q])
<1>1. ASSUME NEW q \in DOMAIN proc', proc'[q] # proc[q] PROVE Hears(proc'[q])
  <2> DEFINE s == proc[q]
  <2>1. q \in DOMAIN proc /\ Memory(s) /\ Hears(s)
    BY <1>1 DEF CtrlC, RInv, Steady, Goes, Alert, AllTold, Hears
  <2>2. proc'[q] \in {[s EXCEPT !.state = "STOP", !.sigint = "default"], [s EXCEPT !.at = "dead"]}
    BY <1>1 DEF CtrlC
  <2> HIDE DEF s
  <2>3. CASE proc'[q] = [s EXCEPT !.at = "dead"]
    BY <2>1, <2>3, IdleHears DEF Memory
  <2>4. CASE proc'[q] = [s EXCEPT !.state = "STOP", !.sigint = "default"]
    <3> DEFINE t == [s EXCEPT !.state = "STOP", !.sigint = "default"]
    <3>1. /\ t.at = s.at /\ t.then = s.then /\ t.ev = s.ev /\ t.done = s.done
          /\ t.diff = s.diff /\ t.wave = s.wave
      BY <2>1 DEF Memory
    <3>2. t.cycle = s.cycle
      OBVIOUS
    <3> HIDE DEF t
    <3> QED BY <2>1, <2>4, <3>1, <3>2 DEF Hears, Told, Here, Flying, Landed, t
  <2> QED BY <2>2, <2>3, <2>4
<1>2. DOMAIN proc' \subseteq DOMAIN proc
  BY DEF CtrlC
<1> QED BY <1>1, <1>2

\* Every step keeps the invariant.
LEMMA NextAlert ==
  ASSUME IntrsApart, RInv, Family, ReplayInv, Alert, [Next]_vars
  PROVE  Alert'
<1>1. UNCHANGED config /\ batch' = batch /\ difftest' = difftest
  BY ConfigFixed, FixedDue DEF config, difftest
<1>2. CASE ~(batch /\ difftest)
  BY <1>1, <1>2 DEF Alert
<1>3. CASE batch /\ difftest
  <2>1. ASSUME \A q \in DOMAIN proc' : \/ q \in DOMAIN proc /\ proc'[q] = proc[q]
                                       \/ Hears(proc'[q])
        PROVE  Alert'
    BY <1>1, <1>3, <2>1, HeardInv DEF Alert
  <2>2. CASE UNCHANGED vars
    BY <2>1, <2>2 DEF vars
  <2>3. ASSUME NEW p \in DOMAIN proc, p # Parent, Step(p) \/ Command(p) PROVE Alert'
    <3>1. PICK t : Become(p, t) /\ t.wave
      BY <1>3, <2>3, KidTimed
    <3> QED BY <2>1, <3>1 DEF Become, Hears
  <2>4. CASE ResetHalf(Parent) \/ MainLoop(Parent) \/ Low(Parent) \/ High(Parent)
               \/ Count(Parent) \/ Trace(Parent) \/ Leave(Parent)
    BY <1>3, <2>1, <2>4, ParentHears
  <2>5. CASE WakeOldest(Parent) \/ NotGood(Parent) \/ Flag(Parent) \/ WaitPid(Parent) \/ Clear(Parent)
    BY <2>1, <2>5, RescueHears
  <2>6. ~Command(Parent)
    <3>1. Parent \in DOMAIN proc
      BY DEF Family
    <3>2. Timed(proc[Parent], Here(proc[Parent]))
      BY <1>3, <3>1, ProcFacts
    <3> QED BY <3>2 DEF Timed, Here, Command, Is
  <2>7. CASE CtrlC
    BY <1>3, <2>1, <2>7, CtrlCHears
  <2> QED BY <2>2, <2>3, <2>4, <2>5, <2>6, <2>7, ParentAwake DEF Next, Step
<1> QED BY <1>2, <1>3

\* It holds at the start.
LEMMA InitAlert == Init => Alert
<1> SUFFICES ASSUME Init PROVE Alert
  OBVIOUS
<1>1. DOMAIN proc = {Parent} /\ proc[Parent] = InitProc /\ InitProc.at = "reset"
  BY DEF Init, InitProc
<1>2. Hears(InitProc)
  BY <1>1, IdleHears
<1> QED BY <1>1, <1>2 DEF Alert, AllTold, Hears

\* In batch mode checkregs finds a difference only after the design has gone
\* wrong (dut.cc): the instructions the reference is told to skip or to take an
\* interrupt at are those that are compared next, although the design announces
\* each of them an instruction early.  In the monitor this is false.
THEOREM NoFalseAlarmInBatch ==
  ASSUME IntrsApart
  PROVE  Spec => [](batch => NoFalseAlarm)
<1>1. RInv /\ Family /\ ReplayInv /\ Alert /\ [Next]_vars
        => (RInv /\ Family /\ ReplayInv /\ Alert)'
  BY NextRInv, NextFamily, NextReplay, NextAlert
<1>2. Init => RInv /\ Family /\ ReplayInv /\ Alert
  BY InitRInv, InitWInv, InitReplay, InitAlert
<1>3. RInv /\ Family /\ ReplayInv /\ Alert => (batch => NoFalseAlarm)
  <2> SUFFICES ASSUME RInv, Family, ReplayInv, Alert, batch, NEW p \in DOMAIN proc,
                      Is(p, "trace"), Compares(proc[p]), Mismatch(proc[p])
               PROVE  Corrupt(proc[p].ev)
    BY DEF NoFalseAlarm
  <2> DEFINE s == proc[p]
  <2>1. /\ dut \in Duts /\ Memory(s) /\ Timed(s, Here(s)) /\ Here(s) = "trace"
    BY ProcFacts DEF Is, Here
  <2>2. difftest /\ ~s.wave
    BY <2>1 DEF Compares, Timed, Instant, Memory
  <2>3. Tracked(s, "trace", 1) /\ Told(s, "trace")
    BY <2>1, <2>2 DEF RInv, Steady, Goes, Given, Alert, AllTold
  <2> QED BY <2>1, <2>2, <2>3, ComparedTold
<1> QED BY <1>1, <1>2, <1>3, PTL DEF Spec
=============================================================================
