------------------------------ MODULE Simulator ------------------------------
(***************************************************************************)
(* The simulator process and its snapshots: main and the monitor's command *)
(* loop (sim_main.cpp, sdb.cpp), cpu_exec (cpu-exec.cpp), difftest         *)
(* (dut.cc and spike-diff/difftest.cc), watchpoints (WatchPool) and        *)
(* LightSSS (lightsss.cpp), which forks the whole process every so many    *)
(* cycles and wakes the oldest copy to replay a failure with waveforms on. *)
(* Each process is a record that holds all of its memory; fork copies it.  *)
(***************************************************************************)
EXTENDS WatchPool, FiniteSets

CONSTANTS
  SLOT_SIZE,      \* snapshots kept (include/common.h)
  ForkEvery,      \* cycles between snapshots: 500000 in divide_condition
  DeathLimit,     \* cycles without a retired instruction: 20000 in exec_once
  ResetCycles,    \* reset(100) in main
  MaxPid,         \* processes ever created: bound
  MaxForkFails,   \* fork() returning -1: bound
  MaxCmds,        \* commands typed: bound
  MaxInts,        \* Ctrl-C typed: bound
  StepCounts,     \* the N of "si N"
  Exprs,          \* expressions a watchpoint may be set on
  Duts,           \* behaviours of the simulated design, see DutOK
  Modes           \* ways to build and start it: records of three Booleans

\* A behaviour of the design: its retirements in order, each with a kind and
\* gap cycles apart; the first one that goes wrong (0: none); the one during
\* whose flight ID decodes ebreak (0: none) and the a0 read then; and, for
\* each expression, the retirements that change its value.
Kinds == {"alu", "dev", "intr"}
DutOK(d) == /\ d.kind \in Seq(Kinds) /\ d.gap \in Nat \ {0}
            /\ d.bad \in 0 .. Len(d.kind) /\ d.halt \in 0 .. Len(d.kind)
            /\ d.a0 \in Nat
            /\ \A e \in Exprs : d.change[e] \subseteq 1 .. Len(d.kind)

ASSUME SimulatorAssumption ==
  /\ SLOT_SIZE \in Nat \ {0} /\ ForkEvery \in Nat \ {0}
  /\ DeathLimit \in Nat \ {0} /\ ResetCycles \in Nat \ {0}
  /\ MaxPid \in Nat \ {0} /\ Exprs \subseteq Nat
  /\ MaxForkFails \in Nat /\ MaxCmds \in Nat /\ MaxInts \in Nat
  /\ \A d \in Duts : DutOK(d)
  /\ Modes \subseteq [batch : BOOLEAN, waveform : BOOLEAN, difftest : BOOLEAN]

VARIABLES
  dut, mode,   \* the design, the build's options and the command line: fixed
  proc,    \* the processes alive or not yet waited for: pid -> memory
  shm,     \* LightSSS's shared memory
  budget   \* next pid, and what is left of the other bounds

config == <<dut, mode>>
batch == mode.batch            \* is_batch_mode
waveform == mode.waveform      \* CONFIG_WAVEFORM
difftest == mode.difftest      \* CONFIG_DIFFTEST
vars == <<config, proc, shm, budget>>

Parent == 1
Forever == 1000000              \* cpu_exec(-1)

-----------------------------------------------------------------------------
(* The design at a clock edge.                                             *)
Events == Len(dut.kind)
Corrupt(k) == dut.bad # 0 /\ dut.bad <= k
Val(k) == [e \in Exprs |-> Cardinality({i \in dut.change[e] : i <= k})]

\* diff_skip and diff_raise_intr, called by the design when instruction k
\* reaches MEM (a device access) or is killed in EXE by an interrupt.  A
\* device access has one request; an AMO, which has two, is to memory.
Issue(diff, k) ==
  IF k > Events THEN diff
  ELSE CASE dut.kind[k] = "dev"  -> [diff EXCEPT !.skip = Append(@, k)]
         [] dut.kind[k] = "intr" -> [diff EXCEPT !.intr = k]
         [] OTHER -> diff

\* top->eval() with clock = 1.  The window of an instruction is gap cycles;
\* the next one issues while it retires.  ebreak() is called from ID, so it
\* sets NPC_END while older instructions are still in flight.
Posedge(s) ==
  LET retires == s.ev < Events /\ s.window + 1 = dut.gap
      first   == IF s.cycle = 0 THEN Issue(s.diff, 1) ELSE s.diff
      decodes == dut.halt # 0 /\ s.ev + 1 = dut.halt
  IN [s EXCEPT !.done   = retires,
               !.ev     = IF retires THEN @ + 1 ELSE @,
               !.window = IF retires THEN 0 ELSE @ + 1,
               !.diff   = IF retires THEN Issue(first, s.ev + 2) ELSE first,
               !.state  = IF decodes THEN "END" ELSE @,
               !.ret    = IF decodes THEN dut.a0 ELSE @]

-----------------------------------------------------------------------------
(* Difftest.  The reference has performed the first `k' retirements of the *)
(* design; bad: it was overwritten with a corrupt state; lost: it was made *)
(* to do something else than the design did.                               *)
InitDiff == [k |-> 0, ref |-> "good", skip |-> <<>>, intr |-> 0]

Skips(s) == s.diff.skip # <<>> /\ Head(s.diff.skip) = s.ev
\* A slip for RegCpy: the registers are copied, the pc is not.
RegCpyNoPC(s) == [s.diff EXCEPT !.skip = Tail(@)]
RegCpy(s) == [s.diff EXCEPT !.k = s.ev, !.skip = Tail(@),
                            !.ref = IF Corrupt(s.ev) THEN "bad" ELSE "good"]
RaiseIntr(s) == dut.kind[s.ev] = "intr" /\ s.diff.intr = s.ev
\* difftest_raise_intr or difftest_exec(1): right when that is what comes next.
RefStep(s) ==
  LET next == s.diff.k + 1
      does == IF RaiseIntr(s) THEN "intr" ELSE "alu"
  IN [s.diff EXCEPT !.k   = next,
                    !.ref = IF dut.kind[next] = does THEN @ ELSE "lost",
                    !.intr = IF RaiseIntr(s) THEN 0 ELSE @]
DifftestStep(s) == IF Skips(s) THEN RegCpy(s) ELSE RefStep(s)
\* checkregs: registers and pc of the two sides.
Agrees(s, diff) == /\ diff.k = s.ev
                   /\ diff.ref = IF Corrupt(s.ev) THEN "bad" ELSE "good"
\* A slip for Mismatch: only the pc is compared.
MismatchOfPC(s) == ~Skips(s) /\ RefStep(s).k # s.ev
Mismatch(s) == ~Skips(s) /\ ~Agrees(s, RefStep(s))

-----------------------------------------------------------------------------
(* The process.                                                            *)
InitProc == [at |-> "reset", then |-> "reset", resets |-> 2 * ResetCycles,
             cycle |-> 0, window |-> 0, ev |-> 0, done |-> FALSE,
             n |-> 0, loops |-> 0, state |-> "STOP", ret |-> 0,
             wave |-> FALSE, kid |-> FALSE, slots |-> <<>>, count |-> 0,
             diff |-> InitDiff, wp |-> InitPool, sigint |-> "default"]

Init ==
  /\ dut \in Duts /\ mode \in Modes
  /\ proc = [p \in {Parent} |-> InitProc]
  /\ shm = [flag |-> FALSE, notgood |-> FALSE, end |-> 0, oldest |-> 0]
  /\ budget = [pid |-> Parent + 1, fails |-> MaxForkFails,
                cmds |-> MaxCmds, ints |-> MaxInts]

Is(p, at) == p \in DOMAIN proc /\ proc[p].at = at
Without(S) == [q \in DOMAIN proc \ S |-> proc[q]]
Become(p, s) == proc' = [proc EXCEPT ![p] = s]

\* The tail of dump_wave: the child that writes waveforms stops past the end.
Dumped(s, next) ==
  [s EXCEPT !.at = next,
            !.state = IF s.wave /\ shm.end < s.cycle THEN "ABORT" ELSE @]

\* divide_condition: at cycle 0, at every call, and once per ForkEvery cycles.
Divides(s) == waveform /\ (s.cycle = 0 \/ s.count # s.cycle \div ForkEvery)
Counted(s) == IF Divides(s) THEN [s EXCEPT !.count = s.cycle \div ForkEvery]
              ELSE s

\* do_fork: with all slots taken the oldest snapshot is killed first.
Full(s) == Len(s.slots) = SLOT_SIZE
\* A slip for Oldest: the front of the deque instead of its back.
OldestFront(slots) == slots[1]
Oldest(slots) == slots[Len(slots)]
Victims(s) == IF Full(s) THEN {Oldest(s.slots)} ELSE {}
Shift(s) == IF Full(s) THEN SubSeq(s.slots, 1, Len(s.slots) - 1) ELSE s.slots
NewPid == budget.pid

\* dump_wave in process p, whose memory at the call is s.
DumpWave(p, s, next) ==
  LET c    == Counted(s)
      left == Without(Victims(c))
      par  == [c EXCEPT !.slots = Shift(c)]
      kid  == [par EXCEPT !.kid = TRUE, !.at = "shwait", !.then = next]
      told == [par EXCEPT !.slots = <<NewPid>> \o @]
  IN \/ /\ ~Divides(s) \/ s.kid
        /\ Become(p, Dumped(c, next))
        /\ UNCHANGED budget
     \/ /\ Divides(s) /\ ~s.kid /\ NewPid <= MaxPid
        /\ proc' = [q \in DOMAIN left \cup {NewPid} |->
                      IF q = NewPid THEN kid
                      ELSE IF q = p THEN Dumped(told, next) ELSE left[q]]
        /\ budget' = [budget EXCEPT !.pid = @ + 1]
     \/ /\ Divides(s) /\ ~s.kid /\ budget.fails > 0
        /\ proc' = [left EXCEPT ![p] = Dumped(par, next)]
        /\ budget' = [budget EXCEPT !.fails = @ - 1]

\* A snapshot waits for the flag (shwait); woken, it checks that it is the
\* one that was meant and goes on behind its fork with waveforms on.
Wake(p) ==
  /\ Is(p, "shwait") /\ shm.flag
  /\ Become(p, IF ~shm.notgood THEN [proc[p] EXCEPT !.at = "exit"]
               ELSE LET woken == shm.oldest = p
                    IN Dumped([proc[p] EXCEPT !.wave = woken], proc[p].then))
  /\ UNCHANGED <<config, shm, budget>>

-----------------------------------------------------------------------------
(* reset(100), then init_difftest, then the command loop.                  *)
ResetHalf(p) ==
  /\ Is(p, "reset")
  /\ LET s == [proc[p] EXCEPT !.resets = @ - 1]
     IN DumpWave(p, s, IF s.resets = 0 THEN "main" ELSE "reset")
  /\ UNCHANGED <<config, shm>>

\* sdb_mainloop after a command; in batch mode the only command was `c'.
Return(s) == [s EXCEPT !.at = IF batch THEN "exit" ELSE "prompt"]

\* exec_once begins: one more of the n instructions of this cpu_exec.
ExecOnce(s) == [s EXCEPT !.n = IF @ = Forever THEN @ ELSE @ - 1,
                         !.loops = DeathLimit, !.at = "low"]
\* cpu_exec up to its first exec_once.
CpuExec(s, n) ==
  IF s.state \in {"END", "ABORT"} THEN Return(s)
  ELSE ExecOnce([s EXCEPT !.n = n, !.state = "RUNNING",
                          !.sigint = IF batch THEN "clear" ELSE "stop"])

MainLoop(p) ==
  /\ Is(p, "main")
  /\ Become(p, IF batch THEN CpuExec([proc[p] EXCEPT !.diff = InitDiff], Forever)
               ELSE [proc[p] EXCEPT !.diff = InitDiff, !.at = "prompt"])
  /\ UNCHANGED <<config, shm, budget>>

-----------------------------------------------------------------------------
(* exec_once and excute.                                                   *)
Low(p) ==  /\ Is(p, "low") /\ DumpWave(p, proc[p], "high")
           /\ UNCHANGED <<config, shm>>
High(p) == /\ Is(p, "high") /\ DumpWave(p, Posedge(proc[p]), "count")
           /\ UNCHANGED <<config, shm>>

\* The end of the do-while body and, once it is left, the check of the state
\* that comes before trace_and_difftest.
Ticked(s) ==
  LET dead  == s.loops = 1
      state == IF dead THEN "ABORT" ELSE s.state
  IN [s EXCEPT !.cycle = @ + 1, !.loops = @ - 1, !.state = state,
               !.at = IF ~dead /\ ~s.done THEN "low"
                      ELSE IF state = "RUNNING" THEN "trace" ELSE "leave"]
Count(p) == /\ Is(p, "count") /\ Become(p, Ticked(proc[p]))
            /\ UNCHANGED <<config, shm, budget>>

\* trace_and_difftest: a replay is not compared; a watchpoint that stops the
\* simulator does so whatever difftest has just found.
Compares(s) == difftest /\ ~(waveform /\ s.wave)
Compared(s) == IF ~Compares(s) THEN s
               ELSE [s EXCEPT !.diff = DifftestStep(s),
                              !.state = IF Mismatch(s) THEN "ABORT" ELSE @]
Watched(s) == [s EXCEPT !.wp = CheckDiff(@, Val(s.ev)),
                        !.state = IF Stops(s.wp, Val(s.ev)) THEN "STOP" ELSE @]
Traced(s) == LET t == Watched(Compared(s))
             IN IF t.n = 0 THEN [t EXCEPT !.at = "leave"] ELSE ExecOnce(t)
Trace(p) == /\ Is(p, "trace") /\ Become(p, Traced(proc[p]))
            /\ UNCHANGED <<config, shm, budget>>

\* The end of cpu_exec.
Failed(s) == s.state = "ABORT" \/ (s.state = "END" /\ s.ret # 0)
Left(s) == LET t == [s EXCEPT !.sigint = "default"]
           IN IF ~Failed(s)
              THEN Return([t EXCEPT !.state = IF @ = "RUNNING" THEN "STOP" ELSE @])
              ELSE [t EXCEPT !.at = IF s.kid THEN "exit" ELSE "wake"]
Leave(p) == /\ Is(p, "leave") /\ Become(p, Left(proc[p]))
            /\ UNCHANGED <<config, shm, budget>>

-----------------------------------------------------------------------------
(* wakeup_child and do_clear.  Without a snapshot pidSlot.back() is         *)
(* undefined: the process dies, or goes on with a number that is no process.*)
NoPid == 0
Target(s) == IF s.slots = <<>> THEN NoPid ELSE Oldest(s.slots)
WakeOldest(p) ==
  /\ Is(p, "wake")
  /\ \/ /\ shm' = [shm EXCEPT !.end = proc[p].cycle, !.oldest = Target(proc[p])]
        /\ LET left == Without(Elems(proc[p].slots) \ {Target(proc[p])})
           IN proc' = [left EXCEPT ![p].at = "notgood"]
     \/ /\ proc[p].slots = <<>>
        /\ Become(p, [proc[p] EXCEPT !.at = "dead"])
        /\ UNCHANGED shm
  /\ UNCHANGED <<config, budget>>
\* A slip for NotGood: the flag is raised without it.
NotGoodFlag(p) == /\ Is(p, "notgood")
                  /\ shm' = [shm EXCEPT !.flag = TRUE]
                  /\ Become(p, [proc[p] EXCEPT !.at = "waitpid"])
                  /\ UNCHANGED <<config, budget>>
NotGood(p) == /\ Is(p, "notgood")
              /\ shm' = [shm EXCEPT !.notgood = TRUE]
              /\ Become(p, [proc[p] EXCEPT !.at = "flag"])
              /\ UNCHANGED <<config, budget>>
\* A slip for Flag: it is never raised.
FlagDown(p) == /\ Is(p, "flag")
               /\ Become(p, [proc[p] EXCEPT !.at = "waitpid"])
               /\ UNCHANGED <<config, shm, budget>>
Flag(p) == /\ Is(p, "flag")
           /\ shm' = [shm EXCEPT !.flag = TRUE]
           /\ Become(p, [proc[p] EXCEPT !.at = "waitpid"])
           /\ UNCHANGED <<config, budget>>
Ended(q) == q \notin DOMAIN proc \/ Is(q, "exit") \/ Is(q, "dead")
WaitPid(p) == /\ Is(p, "waitpid") /\ Ended(Target(proc[p]))
              /\ proc' = [Without({Target(proc[p])}) EXCEPT ![p].at = "clear"]
              /\ UNCHANGED <<config, shm, budget>>
Clear(p) == /\ Is(p, "clear")
            /\ proc' = [Without(Elems(proc[p].slots))
                          EXCEPT ![p] = Return([@ EXCEPT !.slots = <<>>])]
            /\ UNCHANGED <<config, shm, budget>>

-----------------------------------------------------------------------------
(* The monitor's commands, typed to whichever process reads the terminal.  *)
Types(p, s) == /\ Become(p, s)
               /\ budget' = [budget EXCEPT !.cmds = @ - 1]
Command(p) ==
  /\ Is(p, "prompt") /\ budget.cmds > 0
  /\ LET s == proc[p] IN
     \/ Types(p, CpuExec(s, Forever))                                  \* c
     \/ \E k \in StepCounts : Types(p, CpuExec(s, k))                  \* si
     \/ Types(p, [s EXCEPT !.state = "QUIT", !.at = "exit"])           \* q
     \/ Types(p, [s EXCEPT !.at = "exit"])                 \* end of input
     \/ /\ CanAdd(s.wp)                                                \* w
        /\ \E e \in Exprs :
             Types(p, [s EXCEPT !.wp = NewWp(@, e, Val(s.ev)[e])])
     \/ \E n \in 0 .. NR_WP :                                          \* d
          /\ InRange(n)
          /\ Types(p, IF InUse(s.wp, n) THEN [s EXCEPT !.wp = FreeWp(@, n)]
                      ELSE [s EXCEPT !.at = "dead"])
  /\ UNCHANGED <<config, shm>>

\* Ctrl-C reaches every process of the group, sleeping snapshots included:
\* by default it kills; in batch mode the handler clears the snapshots and
\* then dies; in the monitor it sets NPC_STOP, once.
CtrlC ==
  /\ budget.ints > 0 /\ \E p \in DOMAIN proc : ~Ended(p)
  /\ LET live == {q \in DOMAIN proc : ~Ended(q) /\ proc[q].sigint = "stop"}
         gone == {q \in DOMAIN proc \ {Parent} : q \notin live /\ ~Ended(q)}
     IN proc' = [q \in DOMAIN proc \ gone |->
                   IF q \in live
                   THEN [proc[q] EXCEPT !.state = "STOP", !.sigint = "default"]
                   ELSE IF Ended(q) THEN proc[q]
                   ELSE [proc[q] EXCEPT !.at = "dead"]]
  /\ budget' = [budget EXCEPT !.ints = @ - 1]
  /\ UNCHANGED <<config, shm>>

Step(p) == \/ ResetHalf(p) \/ MainLoop(p) \/ Low(p) \/ High(p) \/ Count(p)
           \/ Trace(p) \/ Leave(p) \/ Wake(p)
           \/ WakeOldest(p) \/ NotGood(p) \/ Flag(p) \/ WaitPid(p) \/ Clear(p)
Pids == 1 .. MaxPid
Next == (\E p \in DOMAIN proc : Step(p) \/ Command(p)) \/ CtrlC

\* Every process is scheduled; nobody has to type anything.
Fairness == \A p \in Pids : WF_vars(Step(p))
Spec == Init /\ [][Next]_vars /\ Fairness

-----------------------------------------------------------------------------
Places == {"reset", "main", "prompt", "low", "high", "count", "trace", "leave",
           "wake", "notgood", "flag", "waitpid", "clear", "shwait",
           "exit", "dead"}
States == {"RUNNING", "STOP", "END", "ABORT", "QUIT"}
Running == {"low", "high", "count", "trace", "leave"}

(* Types, and the pools of all processes are sound: two ordered lists that  *)
(* share no node (watchpoint.cpp's new_wp and free_wp in any order, forked  *)
(* copies included).                                                        *)
TypeOK ==
  /\ \A p \in DOMAIN proc :
       /\ proc[p].at \in Places /\ proc[p].state \in States
       /\ proc[p].slots \in Seq(Pids)
       /\ PoolOK(proc[p].wp)
  /\ shm.flag => shm.notgood

(* While the first process runs, its slots are exactly the sleeping         *)
(* snapshots, newest first, never more than SLOT_SIZE, and together they    *)
(* reach back SLOT_SIZE - 1 whole periods or to the start: the oldest one   *)
(* is what a replay can show (do_fork's bookkeeping).                       *)
Undisturbed == budget.ints = MaxInts /\ budget.fails = MaxForkFails
WindowKept ==
  (waveform /\ Undisturbed /\ proc[Parent].at \in Running) =>
    LET s    == proc[Parent]
        kids == {q \in DOMAIN proc : Is(q, "shwait")}
        base == proc[Oldest(s.slots)].cycle
    IN /\ Elems(s.slots) = kids /\ Len(s.slots) \in 1 .. SLOT_SIZE
       /\ \A i, j \in DOMAIN s.slots :
            i < j => proc[s.slots[i]].cycle >= proc[s.slots[j]].cycle
       /\ base = 0 \/ s.cycle - base >= (SLOT_SIZE - 1) * ForkEvery
       /\ s.cycle - base <= SLOT_SIZE * ForkEvery

(* In batch mode a snapshot exits only after it has replayed with waveforms *)
(* on through the cycle at which the first process failed.                  *)
ReplayReaches ==
  [][\A p \in DOMAIN proc \cap DOMAIN proc' :
       (batch /\ proc[p].kid /\ ~Is(p, "exit") /\ proc'[p].at = "exit")
         => proc'[p].wave /\ proc'[p].cycle >= shm.end]_vars

(* The reference never runs ahead of the design, and lags behind it by at   *)
(* most one instruction for each command that stopped in mid-run; in batch  *)
(* mode it is exactly in step at each comparison.                           *)
RefInStep ==
  \A p \in DOMAIN proc :
    (Is(p, "trace") /\ difftest /\ ~proc[p].wave) =>
       LET lag == proc[p].ev - 1 - proc[p].diff.k
       IN lag >= 0 /\ lag <= (IF batch THEN 0 ELSE MaxCmds - budget.cmds)

(* A design that has gone wrong does not run on beyond the instruction after*)
(* the one difftest compared: the run ends, or a watchpoint or Ctrl-C hides *)
(* it, or a device access has made the reference take the wrong state over. *)
CorruptionCaught ==
  \A p \in DOMAIN proc :
    (proc[p].at \in {"low", "leave"} /\ batch /\ difftest /\ ~proc[p].wave
       /\ Corrupt(proc[p].ev))
      => proc[p].state # "RUNNING" \/ proc[p].diff.ref = "bad"

(* A batch run always ends, through the death loop if need be, and a failed *)
(* one leaves no process behind.                                            *)
AllGone == /\ Ended(Parent)
           /\ Failed(proc[Parent]) => \A q \in DOMAIN proc : Ended(q)
BatchEnds == batch ~> AllGone

(* What checkregs asserts of the design (dut.cc:118-127): it differs from   *)
(* the reference only if it went wrong.  The monitor breaks this: a stop in *)
(* mid-run skips the comparison of the instruction it stops at.             *)
NoFalseAlarm ==
  \A p \in DOMAIN proc :
    (Is(p, "trace") /\ Compares(proc[p]) /\ Mismatch(proc[p])) => Corrupt(proc[p].ev)

(* What is_exit_status_bad and "HIT GOOD TRAP" say (state.cc:6-10): a batch  *)
(* run that exits with 0 was right.  An ebreak decoded while the instruction*)
(* after a mismatch is in flight overwrites NPC_ABORT.                      *)
ExitBad(s) == ~(s.state = "QUIT" \/ (s.state = "END" /\ s.ret = 0))
GoodTrapIsGood ==
  (batch /\ difftest /\ Is(Parent, "exit") /\ Corrupt(proc[Parent].diff.k))
    => ExitBad(proc[Parent]) \/ proc[Parent].diff.ref = "bad"
=============================================================================
