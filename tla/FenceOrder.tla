----------------------------- MODULE FenceOrder -----------------------------
(***************************************************************************)
(* The instruction cache together with the stages behind IF, as far as a   *)
(* store in front of a fence.i needs them: ID, EXE and MEM hold an         *)
(* instruction each and move on together (Core.scala's StageConnect; ID    *)
(* and EXE are valid with MEM, see module Pipeline).  Memory performs a    *)
(* store while it stands in MEM, and only then it leaves; a fence.i in EXE *)
(* redirects IF and flushes what stands behind it.                         *)
(***************************************************************************)
EXTENDS ICache

VARIABLES
  id, exe, me,    \* the instructions in the stages
  idDead,         \* ID's instruction has gone on or is flushed
  jumpBusFired,   \* IF has taken the redirect of the fence.i in EXE
  performed,      \* memory has done the store in MEM
  issued,         \* versions with all stores in front of the last fence.i
  promised        \* issued, for req, when it was accepted

stages == <<id, exe, me, idDead, jumpBusFired, performed, issued, promised>>

Kinds == {"store", "fencei", "other"}

jumpFire == exe = "fencei" /\ toIDValid
exeValid == exe = "fencei" => jumpFire \/ jumpBusFired
MemDone == me = "store" => performed
toMEMFire == exeValid /\ MemDone

StagesNext(e, kind) ==
  LET fires == toMEMFire IN
  /\ id' = IF toIDFire(e) THEN kind ELSE id
  /\ idDead' = IF toIDFire(e) THEN exe = "fencei" ELSE fires \/ idDead
  /\ exe' = IF ~fires THEN exe ELSE IF idDead \/ exe = "fencei" THEN "other" ELSE id
  /\ me' = IF fires THEN exe ELSE me
  /\ jumpBusFired' = IF jumpFire THEN ~fires ELSE jumpBusFired
  /\ performed' = ((performed \/ e.store # {}) /\ ~fires)
  /\ issued' = IF fires /\ exe' = "fencei"
               THEN [a \in Stored |-> IF exe = "store" THEN mem[a] + 1 ELSE mem[a]]
               ELSE issued
  /\ promised' = IF arFromIFFire THEN Of(issued, e.ar) ELSE promised

CoreInit ==
  /\ Init
  /\ id = "other" /\ exe = "other" /\ me = "other"
  /\ idDead = FALSE
  /\ jumpBusFired = FALSE
  /\ performed = FALSE
  /\ issued = mem
  /\ promised = 0

\* The cache's surroundings are these stages; the program stores to one word.
CoreCycle(e, kind) ==
  /\ e.toID <=> toIDValid /\ toMEMFire
  /\ e.fencei <=> kind = "fencei"
  /\ e.store # {} => me = "store" /\ ~performed
  /\ Cycle(e)
  /\ StagesNext(e, kind)

CoreNext == \E e \in Env, kind \in Kinds : CoreCycle(e, kind)

CoreSpec == CoreInit /\ [][CoreNext]_<<vars, stages>>

(***************************************************************************)
(* An instruction fetched after a fence.i is at least as new as the stores *)
(* in front of the fence.i: the reference machine executes what they wrote *)
(* and dut.cc compares the registers.                                      *)
(***************************************************************************)
FenceI == rToIFValid => rdata.ver >= promised
=============================================================================
