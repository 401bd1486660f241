------------------------------ MODULE WatchPool ------------------------------
(***************************************************************************)
(* The watchpoint pool of the monitor (csrc/sdb/watchpoint.cpp): NR_WP     *)
(* nodes, an active list `head' and a list `free_', both kept in the order *)
(* of the node numbers.  A list is the sequence of its nodes' numbers; a   *)
(* pool is a record, because the simulator that owns it is forked whole.   *)
(***************************************************************************)
EXTENDS Naturals, Sequences

CONSTANT NR_WP

ASSUME NRWPAssumption == NR_WP \in Nat \ {0}

Nodes == 0 .. NR_WP - 1
Nodes32 == 32          \* the literal bound of free_wp's range test

Elems(s) == {s[i] : i \in DOMAIN s}
Ordered(s) == \A i, j \in DOMAIN s : i < j => s[i] < s[j]

\* One node: the expression watched (0: none), its last value, trigger_flag.
BlankNode == [what |-> 0, value |-> 0, trigger |-> "armed"]

InitPool == [head |-> <<>>,
             free |-> [i \in 1 .. NR_WP |-> i - 1],
             node |-> [n \in Nodes |-> BlankNode]]

\* Where the insertion loops stop: k nodes stay in front of n, the next one,
\* if there is one, has a larger number.
Fits(s, n, k) == /\ \A i \in 1 .. k : ~(n < s[i])
                 /\ k < Len(s) => n < s[k + 1]
Slot(s, n) == CHOOSE k \in 0 .. Len(s) : Fits(s, n, k)
InsertAt(s, n, k) == [i \in 1 .. Len(s) + 1 |->
                        IF i <= k THEN s[i]
                        ELSE IF i = k + 1 THEN n ELSE s[i - 1]]
InsertByNO(s, n) == InsertAt(s, n, Slot(s, n))

\* The list without its node n.
Unlink(s, n) == LET k == CHOOSE k \in 1 .. Len(s) : s[k] = n
                IN [i \in 1 .. Len(s) - 1 |-> IF i < k THEN s[i] ELSE s[i + 1]]

\* new_wp and the assignments of cmd_w: the first free node watches e.
CanAdd(pool) == pool.free # <<>>
NewWp(pool, e, now) ==
  LET n == Head(pool.free)
  IN [head |-> InsertByNO(pool.head, n),
      free |-> Tail(pool.free),
      node |-> [pool.node EXCEPT ![n] = [what |-> e, value |-> now, trigger |-> @.trigger]]]

\* free_wp: a number that passes the range test but is not in use fails the
\* assertion; a node given back to an empty free list goes nowhere, and
\* trigger_flag keeps its value.
InRange(n) == n <= Nodes32
InUse(pool, n) == n \in Elems(pool.head)
\* A slip for FreeWp: the node goes to the end of the free list.
FreeWpAppended(pool, n) ==
  [head |-> Unlink(pool.head, n),
   free |-> Append(pool.free, n),
   node |-> [pool.node EXCEPT ![n] = [what |-> 0, value |-> 0, trigger |-> @.trigger]]]
FreeWp(pool, n) ==
  [head |-> Unlink(pool.head, n),
   free |-> IF pool.free = <<>> THEN <<>> ELSE InsertByNO(pool.free, n),
   node |-> [pool.node EXCEPT ![n] = [what |-> 0, value |-> 0, trigger |-> @.trigger]]]

\* check_diff and what trace_and_difftest does with its answer: only the
\* first node whose value moved is updated; it stops the simulator when its
\* flag is down, and every hit turns the flag over.
Moved(pool, val) == {i \in DOMAIN pool.head :
                       val[pool.node[pool.head[i]].what]
                         # pool.node[pool.head[i]].value}
Hit(pool, val) == pool.head[CHOOSE i \in Moved(pool, val) :
                              \A j \in Moved(pool, val) : i <= j]
Stops(pool, val) == /\ Moved(pool, val) # {}
                    /\ pool.node[Hit(pool, val)].trigger = "armed"
Checked(node, val) == [what |-> node.what, value |-> val[node.what],
                       trigger |-> IF node.trigger = "armed" THEN "fired" ELSE "armed"]
CheckDiff(pool, val) ==
  IF Moved(pool, val) = {} THEN pool
  ELSE [head |-> pool.head, free |-> pool.free,
        node |-> [pool.node EXCEPT ![Hit(pool, val)] = Checked(@, val)]]

-----------------------------------------------------------------------------
Node == [what : Nat, value : Nat, trigger : {"armed", "fired"}]

\* The pool is sound: both lists name nodes, in order, and no node twice.
PoolOK(pool) ==
  /\ pool.head \in Seq(Nodes) /\ Ordered(pool.head)
  /\ pool.free \in Seq(Nodes) /\ Ordered(pool.free)
  /\ Elems(pool.head) \cap Elems(pool.free) = {}
  /\ pool.node \in [Nodes -> Node]
=============================================================================
