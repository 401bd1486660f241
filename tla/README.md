# A TLA+ verification of the NPC core, its simulator and its configurator

The repository is a five-stage, in-order RV32IMA_Zicsr core written in Chisel
(`src/npc_chisel/npc_chisel/src`, called `CH/` below), its bus and interrupt
peripherals, and a Verilator harness in C++ (`src/csrc`) that runs the core,
steps a reference machine beside it (difftest) and offers a small debugger.

A third part is `src/tools/kconfig`, which configures both: the kconfig language
with `conf` and `mconf` (menuconfig) and the files they leave for make.

The modules here model, for the core, what its stages, its ports and the bus do
to one another, cycle by cycle, with every latency left open; for the simulator,
what its processes do, which fork themselves and are replayed; for kconfig, what
becomes of conditions, menus, symbols and files over sequences of runs, edits,
builds and kills. `PROJECT.json` maps each definition to its source lines.

The hardware modules describe the build that is simulated: `FPGAPlatform = false`
(`CH/Elaborate.scala:42`), with the parameters `ysyx_23060051.scala`
and `Core.scala` pass.

## 1. The system

| component | source | state | operations | talks to |
|---|---|---|---|---|
| IF | `CH/core/IF.scala` | PC, prediction, `reqFired`, `instGetted`, `instReg` | request npc from the ICache, hand a word to ID, take redirects | ICache, BPU, EXE (`jumpBus`), CSR unit (`redirectPC`), ID |
| ID | `CH/core/ID.scala`, `utils/id` | bits register, `hasFired` | decode, read registers, stall on pending loads, `fencei` | IF, EXE, bypass network, ICache |
| EXE | `CH/core/EXE.scala`, `utils/exe` | bits register, `jumpBusFired`, `mulReqFired`, `divReqFired` | ALU, branch, CSR write, MUL/DIV requests, redirect and flush | ID, MEM, multiplier, divider, CSR unit, IF |
| MEM | `CH/core/MEM.scala` | request state, reservation, three AMO registers, `hasFired` | load, store, LR/SC, AMO, misalignment trap | EXE, WB, arbiter (data port) |
| WB, register file | `CH/core/WB.scala`, `utils/RegFiles.scala` | bits register, 32 registers | write rd, raise ECALL / fault, MRET | CSR unit, difftest |
| bypass network | `utils/bypass/BypassNetwork.scala` | none | newest value of a source register | ID, EXE, MEM, WB |
| trap unit | `utils/csr/CSRRegFile.scala` | mstatus, mepc, mcause, mtval, mtvec, ..., `hadInterrupt`, `flushQ` | CSR read/write, trap entry, interrupt, MRET | EXE, MEM, WB, IF |
| multiplier, divider | `utils/exe/Multiplier.scala`, `Divider.scala` | busy, done, result | request, response | EXE |
| branch predictor | `utils/bpu/BPU.scala` | BTB tags, targets, 2-bit counters, LRU | predict, learn | IF, EXE |
| instruction cache | `utils/cache/ICache.scala` | state, valid bits, tags, data, LRU, refill counter | look up, refill by burst or by single words, fence.i | IF, ID, arbiter (instruction port) |
| bus arbiter | `CH/peripheral/Arbiter.scala` | `awReqBusy`, `reqBusy`, `reqLock`, `selDBus`, `writeState`, two R queues, a B queue | merge two ports onto one AXI4 port | ICache, MEM, crossbar |
| crossbar | `CH/peripheral/XBar.scala` | slave selections | route requests by address, merge responses | arbiter, CLINT, PLIC, SoC |
| CLINT, PLIC | `CH/peripheral/CLINT.scala`, `PLIC.scala` | mtime, mtimecmp, pending, enable, claim | register accesses, interrupt lines | crossbar, trap unit |
| simulation loop | `src/csrc/cpu/cpu-exec.cpp`, `sim_main.cpp` | NPC state, cycle counters, SIGINT handler | reset, run, single-step, stop on trap, death loop | model, difftest, monitor, snapshots |
| difftest | `src/csrc/cpu/dut.cc` | skip queue, interrupt record, reference state | step or overwrite the reference, compare | model, reference |
| monitor | `src/csrc/sdb` | watchpoint pool, tokens | `c si p w d q`, evaluate expressions | loop |
| snapshots | `src/csrc/cpu/lightsss.cpp` | slots of sleeping processes, shared memory | fork, sleep, wake, replay, clear | loop |
| simulated devices | `src/csrc/memory`, `utils` | memory, timer, uart | read, write, trace, count | model |
| kconfig language | `src/tools/kconfig/expr.c`, `menu.c`, `symbol.c`, `parser.y` | expressions, menu tree, symbols | parse, finalize, check recursion, calculate, set | conf, mconf |
| kconfig files | `src/tools/kconfig/confdata.c` | change count, flags of symbols | read and write .config, auto.conf, autoconf.h, defconfig | disk, make |
| conf, mconf | `src/tools/kconfig/conf.c`, `mconf.c` | question walk; open menus | batch modes; the interactive session | user, the above |
| fixdep, make | `src/tools/fixdep`, `src/scripts` | dependency files | compile what a touched file concerns | files of confdata.c |

`Core.scala` connects the stages with `StageConnect`: only the *bits* of a
stage are registered, when the stage before it fires; `valid` and `ready` pass
through combinationally. So a stage may hold an instruction whose valid is low,
an instruction that has already left a stage still stands in its register, and
nearly every stage carries a `hasFired` or `...Fired` flag to know it. That
protocol, rather than any one stage, is where this design is hard.

**What is hard here**, and what has to hold for each part (the lines are in the
`hazards` list of `PROJECT.json`):

- *Arbiter*: two masters, five independently handshaken channels, a lock and a
  write-in-flight address. Each port must get exactly the words it asked for;
  address and data of a store belong together; no read overtakes a write to
  its address; an untaken request is held; nobody starves.
- *MEM*: the bus answer and EXE's readiness come in any order. Each instruction
  accesses the bus exactly as often as it must and is atomic for the program.
- *Pipeline*: flushes by MEM (misaligned access), EXE (branch, fence.i, CSR),
  WB and the interrupt line meet stalls of the cache, the memory and the units.
  The core must be the sequential machine, and never wait in a circle.
- *ICache*: a registered lookup, a refill and a fence.i that may come at any
  moment of it. IF gets the word at its address, never older than its fence.i.
- *XBar, CLINT, PLIC*: responses must go to the request they answer, and a
  one-cycle response must not be missed.
- *Simulator*: every process is a fork of another with all of its memory. The
  slots must be the live snapshots and reach back far enough, the failing cycle
  must be replayed, a failed batch run must end and leave no process behind, the
  reference may only be stepped for what the core retired, and the pool's lists must stay
  sound in every copy.
- *Monitor*: an expression is split at its main operator by token numbers.
- *kconfig*: conditions are rewritten in place to a fixed point, entries move
  while the list is walked, values are cached and computed on demand, and several
  files have to agree after any run, also one that was killed.

## 2. Modules

| module | models | extends / instances |
|---|---|---|
| `Arbiter` | the arbiter with its two masters and its slave at their ports | |
| `ArbiterProofs` | theorems about `Arbiter` | `Arbiter` |
| `AtomicMemory` | abstract: memory instructions take effect one at a time | |
| `MEM` | the MEM stage with data port and memory | `A == INSTANCE AtomicMemory` |
| `MEMProofs` | theorems about `MEM`, the refinement among them | `MEM` |
| `MCMEM` | instructions to check `MEM` with | `MEM` |
| `Hart` | abstract: the sequential machine with precise traps | |
| `Pipeline` | IF, ID, EXE, MEM, WB, bypass, units, trap unit | `H == INSTANCE Hart` |
| `PipelineProofs` | theorems about `Pipeline`: types and words | `Pipeline` |
| `PipelineRefinement` | that `Pipeline` implements `Hart` | `PipelineProofs` |
| `MCPipeline` | programs to check `Pipeline` with | `Pipeline` |
| `ICache` | the instruction cache and the IF stage in front of it | |
| `MCICache` | lines and addresses to check `ICache` with | `ICache` |
| `FenceOrder` | the cache with the stores in ID, EXE and MEM | `ICache` |
| `ICacheProofs` | theorems about the two | `FenceOrder` |
| `MCFenceOrder` | a program that stores to itself | `FenceOrder` |
| `CLINT`, `PLIC` | the two devices: a record of registers and its successor | |
| `XBar` | arbiter, crossbar, the two devices and a memory | `Arbiter`, `CLINT`, `PLIC` |
| `XBarProofs` | theorems about `XBar` | `XBar`, `ArbiterProofs` |
| `MCXBar` | addresses to check `XBar` with | `XBar` |
| `WatchPool` | the watchpoint pool as a record | |
| `Simulator` | the simulator's processes, snapshots, difftest, monitor | `WatchPool` |
| `SimulatorProofs` | theorems about the two | `Simulator` |
| `MCSimulator` | designs to check `Simulator` with | `Simulator` |
| `SdbExpr` | the monitor's expressions | |
| `MCSdbExpr` | expression trees | `SdbExpr` |
| `KExpr` | dependency expressions: rewriting, comparison, value, printing | |
| `KCondition` | the life of one condition in `menu_finalize` | `KExpr` |
| `MCKCondition` | conditions, values and surroundings | `KCondition` |
| `KMenu` | from entries to the finalized menu tree; recursion check | `KExpr` |
| `KSymbols` | values, visibility, ranges, choices, setting | `KMenu` |
| `KConfData` | reading and writing configurations | `KSymbols` |
| `KConf` | the questions of `conf` | `KConfData` |
| `KFiles` | abstract: the files, and what a run may write to them; builds, edits, kills | |
| `KFilesProofs` | theorems about `KFiles` | `KFiles` |
| `KSession` | runs, menuconfig, and the files they write | `KConf`, `KFiles` |
| `MCKSession` | Kconfig texts and trees | `KSession` |

The hardware is synchronous, so each of its modules has one action `Cycle(e)`: a clock
edge, in which the surroundings do `e`. Wires are operators over the registers
and `e`; each register (or a record of the registers of one stage) has one
next-state conjunct. The existential over `Env` is the nondeterminism: every
ready, answer, latency and interrupt level is chosen anew in each cycle. What an
input cannot influence in a cycle is fixed to one value, which leaves the
behaviours alone and keeps the graph small.

### Arbiter

`awReqBusy`, `reqBusy`, `reqLock`, `selDBus`, `writeState` are the registers of
the same names, `respQ`/`bRespQ` the flow-through one-entry queues of
`respCacheEnable = true`. `iReq`, `dReq` are the requests the ICache and the MEM
stage hold up; `owed` and `wOwed` say what a master was promised and did not get
yet. `rd`, `aw`, `w`, `b` are the slave: it takes a burst and one write (as
`XBar.scala` does) and answers after any delay. The ICache may ask for its next
line once the last was accepted. `Depth` bounds how many data accesses the
pipeline still makes while IF waits for a line: IF feeds the pipeline, so it is
a property of the surroundings, and starvation of the fetch port by loads is
excluded by it and not by the arbiter.

### MEM and AtomicMemory

`MEM` keeps the state machine, `reservation`, `hasFired` and the AMO registers
of `MEM.scala`, the StageConnect registers on both sides (`inst`, `out`) and the
request in the memory system (`bus`). `prior` is history: memory and reservation
when the instruction came in and the accesses it has made. The refinement
mapping shows an instruction's effects at the moment it goes to WB, however
many cycles its accesses took. Words are small numbers, byte lanes and
sign extension are left out, and of the nine AMO operations one that ignores
memory and one that does not are kept. While no answer is on the read wires they
carry `junk`, any word.

### Pipeline and Hart

One record per stage: `ifs`, `id`, `exe`, `me`, `wb` are the bits registers with
the flags of the stage; `mdu` the two units; `csr` the trap registers with
`hadInterrupt` and `flushQ`; `fetch` the request inside the instruction cache;
`pc` is history: where the program goes on after what EXE has issued. A word is
named by the address it came from, so taking a wrong word under a right address
is visible. Twelve instruction kinds stand for the classes the control tells
apart. `Hart` is the machine that executes one of them at a time; the mapping
`Drained` completes what is in MEM and WB.

The branch predictor is the set of what it may answer: for a word, no
prediction or any direction with a target it learnt at a branch whose tag is
the same (`BtbWords`; `BPU.scala` compares 22 of the 30 bits). A prediction is
held while IF keeps a PC. The BTB may in fact change under it when EXE updates
the entry: a change of direction or target comes with the redirect that caused
it, which replaces the PC, and an eviction makes the target 0, which EXE
corrects like any wrong target.

Divisors are not zero and there is no overflow: those cases bypass the divider
(`EXE.scala`). The reset contents of the bits registers are the word 0, decoded
as NOP. A program that reaches its last instruction repeats it.

### ICache and FenceOrder

`valids`, `infoRams`, `dataRams`, `reqValid`, `req`, `state`, the two counters,
`replaceWay` and `inst2Fire` are the registers and RAMs of those names;
`blockValids`, `infoResp` and `dataResp` are what the last cycle read from them.
`bus` is the burst the arbiter holds; `PC`, `reqFired` and `instGetted` belong to
IF, whose PC matters only while it boots (`IF.scala:115` forces valid at
`PC_INIT`). A word is its address with its version, the number of times memory
has changed it, so a word from a wrong way, a wrong place or from before a
fence.i can be told from the right one. A RAM read in the cycle of a write to
the same place gives either word, as `SyncReadMem` leaves it open. The bypass for
SRAM addresses (`ICache.scala:163-168`) is not there: `Core.scala:62` passes
`skipSRAM = false`.

`fencei` is decoded from the word ID holds, so it lasts for as long as ID waits
for IF. `Answers` depends on that: the last beat of a refill sets its valid
bit in the very cycle fence.i clears all bits (`ICache.scala:264` comes after
`:174`), and the bit is cleared only because ID keeps the fence.i until IF has
the refilled word. `asked` is the version the last fence.i promised when the
request was accepted.

`FenceOrder` adds the stages behind IF as far as a store in front of a fence.i
needs them, and asks for what `ICache` takes for granted: that the store has
reached memory.

### XBar, CLINT and PLIC

`XBar` EXTENDS `Arbiter` and keeps its next-state conjuncts for everything but
the slave. The arbiter's slave variables `rd`, `aw`, `w`, `b` become the record of
what the port is owed; beside them stand what the devices really hold: `clint`
and `plic` with all their registers and `mem`, a burst, a half-received write
and an answer. `AnswersInStep` says that the two agree after every cycle: there
is no FIFO of transactions in `XBar.scala` (line 54 asks for one), yet since the
arbiter has one read and one write under way, the merged answers are the right
ones. A device is always ready and shows an answer for one cycle, so the property
also says that the arbiter never misses one. Only `r.valid` of the devices is
compared; `rdata` is kept where it is shown.

### Simulator and WatchPool

A process is a record that holds all the memory the modelled code uses: where it
is (`at`), `npc_state`, the counters, the difftest queue, the watchpoint pool and
the slots. `fork` copies the record. An action is the code between two points at
which another process could see a difference or the scheduler could matter:
`Low` and `High` are the two halves of `exec_once` with their `dump_wave`,
`Count` the end of the cycle, `Trace` is `trace_and_difftest`, `Leave` the end of
`cpu_exec`; `WakeOldest`, `NotGood`, `Flag`, `WaitPid` and `Clear` are
`wakeup_child` and `do_clear` with one action per write of shared memory, and
`Wake` is `shwait` seeing the flag. The design is data (`dut`): a sequence of
retirements of kinds alu, dev, intr, the one that goes wrong, the one during
whose flight ID decodes ebreak. The reference is the number of retirements it has
performed and whether it was overwritten with a wrong state (`bad`) or did
something else than the design (`lost`). `WatchPool` is a record of two
sequences and the nodes; its operators walk the lists as new_wp, free_wp and
check_diff do, with their literals (32 in free_wp's test).

### SdbExpr

Tokens carry the numbers of the C enum, because precedence is their comparison.
The variables are what the user typed and what `cmd_p` prints. The properties'
side has expression trees, prints them with the brackets C needs, and evaluates
them directly; `UserSees` compares. Numbers are unbounded.

### The kconfig modules

`KExpr` writes each function of `expr.c` as the tree it leaves; a fixed-point
loop is a recursive operator. `KCondition` takes one condition through the calls
`menu_finalize` makes for it, one action per call, and compares its meaning under
every assignment with what was written. `KMenu` adds entries, finalizes the tree
(dependencies, submenus, choices, flattening) and checks recursion. `KSymbols`
has values: a memory `st` with each symbol's cached value, flags and user values;
calculation is lazy, so every operator returns the memory it leaves.
`KConfData` reads and writes files as sequences of lines; `KConf` asks questions;
`kconfig` is the Kconfig file as `conf_parse` leaves it: the tree and the sets of
symbols the program finds in it. `reset` and the field `failed` record two situations in
which the code loses track (section 4) and are used by the properties only.

`KFiles` has the disk, the writes a process has still to do (`todo`), the symbols'
files under `include/config` (`touched`) and the objects (`built`). Each write is a
step (`WriteFile`), between two of which `KillProcess` may come. What is planned
is left open but for what every run has to keep to (`Planned`): a file one saves
to is kept as `.old` right before it is replaced, `auto.conf` comes last and
`autoconf.h` right before it, and each symbol whose line in `auto.conf` changes is
touched. `KSession` computes the plans, extends these actions, and implements
`FilesSpec`, a property of its run. `dropped` is history: the names a Kconfig has
mentioned without defining them, which `conf_touch_deps` skips.

### Planted bugs

Some definitions stand beside a variant with one plausible bug. Each property of
a passing run is checked to fail when its variant is put in place:

| variant | bug | run: property that fails |
|---|---|---|
| `GrantDUnlocked` | the read grant ignores the lock | `arbiter_reads`: `ArHeld` |
| `IReqFireUnlocked` | ibus.req.ready ignores the lock | `arbiter_reads`: `ReadsConserved` |
| `ReqBusyNextIbus` | only a line's last beat frees the read channel | `arbiter_reads`: `FetchServed` |
| `DbusWReadyAwFirst` | a store whose W went first is never done | `arbiter_reads`: `DataServed` |
| `DbusWReadyEither` | a store is done when one of AW, W is out | `arbiter_writes`: `WritesConserved` |
| `ArValidUnordered` | reads are not held back by `awReqBusy` | `arbiter_writes`: `NoReadPassesWrite` |
| `AmoNextWide` | the AMO sum is not cut to a word | `mem_atomic`: `TypeOK` |
| `RRespFireFree` | an answer is taken without waiting for EXE | `mem_atomic`: `AccessesOnce` |
| `ReservationNextKept` | an SC leaves the reservation in place | `mem_atomic`: `Atomic` |
| `DoneButSC` | an SC that fails is never done | `mem_atomic`: `Retires` |
| `arAddrOfPC` | IF requests its PC instead of npc | `pipe_order`: `TypeOK` (PC_INIT - 4 is fetched) |
| `toIDValidEarly` | IF hands over before its next request is out | `pipe_order`: `WordMatchesPC` |
| `ReqFireKilled` | the multiplier starts for killed instructions too | `pipe_order`: `NothingOrphaned` |
| `stallOnMEM` | ID stalls for a load in MEM only | `pipe_order`: `Difftest` |
| `mulOrDivUnmasked` | a killed MUL or DIV still waits for its unit | `pipe_order`: `NeverStuck` |
| `intrCmdInFlight` | an interrupt is taken while a unit works | `pipe_interrupt`: `Difftest` |
| `raiseIntrOnce` | an interrupt raised once is not raised again | `pipe_interrupt`: `InterruptServed` |
| `validsNextOneWay` | fence.i clears one way | `icache_fetch`: `Answers` |
| `newTagsBoth` | a refill writes the tag of both ways | `icache_fetch`: `NoTwins` |
| `reqCounterKept` | FINISH leaves the request counter | `icache_fetch`: `FetchAnswered` |
| `ArFireUnselected` | a device answers requests that are not for it | `peripherals`: `AnswersInStep` |
| `MtipLatched` | mtip never falls again | `peripherals`: `TimerQuiet` |
| `FreeWpAppended` | a freed node goes to the end of the free list | `simulator`: `TypeOK` |
| `OldestFront` | the newest snapshot is taken for the oldest | `simulator`: `WindowKept` |
| `RegCpyNoPC` | a skip copies the registers without the pc | `simulator`: `RefInStep` |
| `MismatchOfPC` | only the pc is compared | `simulator`: `CorruptionCaught` |
| `NotGoodFlag` | the flag is raised without notgood | `simulator`: `ReplayReaches` |
| `FlagDown` | the flag is never raised | `simulator`: `BatchEnds` |
| `LooserStrictly` | of equal operators the first splits the line | `monitor`: `UserSees` |
| `JoinAndAsCommented` | the case at expr.c:569 as its comment says | `kconfig_conditions`: `MeaningKept` |
| `DependsEither` | one operand of \|\| is enough | `kconfig_conditions`: `SubmenuSound` |
| `TightnessSwapped` | && and \|\| bind the other way round | `kconfig_conditions`: `PrintReadsBack` |
| `SpliceBefore` | hidden entries' children come in front | `kconfig_session`: `TreeKeepsText` |
| `CheckDepsDone` | what is being looked into counts as done | `kconfig_session`: `RecursionRejected` |
| `ClearModules` | a change invalidates MODULES only | `kconfig_session`: `ValuesKept` |
| `UnsavedMentioned` | a symbol absent from the file is never unsaved | `kconfig_session`: `LeavesSaved` |
| `IsChoiceChosen` | whatever is chosen counts as the default | `kconfig_session`: `Reproduced` |
| `AutoconfFirst` | auto.conf is written before the files are touched | `kconfig_session`: `Rebuilt` |
| `TouchKnown` | what is gone from the Kconfig is not touched | `kconfig_session`: `FilesSpec` |
| `Replace` | .config is written without keeping the old one | `kconfig_session`: `NothingLost` |

The exact pairs are the `mutants` of `PROJECT.json`.

## 3. Runs

| run | checks | bounds |
|---|---|---|
| `arbiter_reads` | `ReadsConserved`, `ArHeld`, `FetchServed`, `DataServed` | one line of two words, one data word, disjoint |
| `arbiter_writes` | `WritesConserved`, `NoReadPassesWrite` | two data words, one of them in the fetched line, two data values |
| `mem_atomic` | `TypeOK`, `AccessesOnce`, `Atomic`, `Retires` | two addresses, one-bit words, ten instructions |
| `pipe_order` | `TypeOK`, `WordMatchesPC`, `NothingOrphaned`, `Difftest`, `NeverStuck` | 27 programs: ordered pairs of seven kinds in a loop, without those whose second is killed in the same way as another's, and with fence.i only as the first |
| `pipe_interrupt` | `Difftest`, `InterruptServed` | six interruptible loops, the line free to move |
| `icache_fetch` | `Answers`, `NoTwins`, `FetchAnswered` | lines of two words, three of them on one index of the two ways, one refilled by bursts; one word is stored to, once |
| `fence_older_store` | `FenceI` is violated | two lines, a store to the second word of one |
| `peripherals` | `AnswersInStep`, `TimerQuiet` | lines of one word, one memory word, mtimecmp's high half and PLIC's enable as registers, words of one bit (`Half` = 2), one interrupt source |
| `simulator` | `TypeOK`, `WindowKept`, `RefInStep`, `CorruptionCaught`, `ReplayReaches`, `BatchEnds` | twelve designs of three retirements two cycles apart; a fork every two cycles, two slots, twelve processes, one failing fork; four cycles to the death loop; three commands, one Ctrl-C; two watchpoints, two expressions |
| `monitor` | `UserSees` | trees of two levels over the eight binary operators and dereference, on 3, -2, a register, an address and an unknown register; typed with and without spaces, and with an illegal word behind |
| `kconfig_conditions` | `MeaningKept`, `SubmenuSound`, `PrintReadsBack` | conditions of up to four operands out of eleven, over a bool, two tristates, MODULES and two numbers; four surroundings |
| `kconfig_session` | `TreeKeepsText`, `RecursionRejected`, `ValuesKept`, `LeavesSaved`, `Reproduced`, `Rebuilt`, `NothingLost`, `FilesSpec` | three texts with a range, a choice, a select and MODULES, with three commands, keys, edits or kills; 240 texts of three entries that are parsed only |

Why the bounds are enough. The arbiter holds one burst and one write and its
ports one request each; two-word lines already distinguish the last beat from
the others, two data values tell stores apart, and the address comparison has
only two outcomes. MEM holds one instruction and one reservation; the second
address is there for a reservation that does not match. In the pipeline at most
five instructions interact, and a loop of two free instructions between a
jump, a dependent ALU instruction and a jump back puts each of these pairs in
each pair of neighbouring stages; words of one bit make each dependent result
differ from the stale one, and two registers make a bypass from the wrong one
visible. Fetch, load and unit latencies are not bounded at all. In the cache
only the lines of one index compete, and three of them on two ways force every
replacement; two words make a first and a last beat, and one store suffices to
make a word stale, because a version is only compared with a later one. Behind
the crossbar the arbiter has one read and one write under way; one register in
each device meets one address of the memory in every order.

The simulator's counters are scaled down together: with two slots and a fork
every two cycles a run of three retirements shifts the window several times, the
death loop is longer than the gap between retirements, and two watchpoints fill
the pool, so that free_ is empty, and leave one in front of the other. Three
commands are enough for two watchpoints and a run, or a run that a Ctrl-C stops,
a step and another run. In kconfig the joining rules look at pairs of
comparisons and the loops around them at chains, for which four operands
suffice; among sequences of three commands are edit, save and kill, a change of
Kconfig between two builds, and a defconfig made, edited and loaded. Longer
sequences meet no new pair of neighbouring commands.

What the passing pipeline runs leave out, because the code does not have the
property there: programs in `pipe_order` never put a DIV straight behind a
misaligned access, never jump to address 0 (`PC_INIT`, where `IF.scala:115`
forces valid), and have no aliased predictions; programs in `pipe_interrupt`
have no divisions, no jumps in the interruptible part and no traps. Each
of these exclusions but the jump to `PC_INIT` can be seen to be needed: the
configurations `PipeQuotient.cfg`, `PipeLostJump.cfg`, `PipeTrapLost.cfg` and
`PipeAliased.cfg` (`tlc -config PipeQuotient.cfg MCPipeline`, ...) run one program
each and end with a violation of `Difftest`; so does `ArbiterOverlap.cfg`
(`tlc -config ArbiterOverlap.cfg Arbiter`) with one of `ArHeld`. In
`MEM`, address 0 (the reset value of `reservation`) and a misaligned SC (whose
regWrite is not masked, `MEM.scala:227`) are excluded and listed as hazards.

**Fairness.** The clock runs (weak fairness of `Next`). Beyond that each module
assumes only what its surroundings owe it: an AXI channel that stays requested
is taken and an accepted request answered; MEM takes an answer once EXE is valid
again; a refill, a load and a unit's operation end. `Pipeline` and `ICache` state
this as `[]<>`: again and again no such operation is under way. Nothing is
assumed about the order of those events, and no strong fairness is used. `InterruptServed` has its
own premise: the line stays up and interrupts are enabled again and again.
In `Simulator` the operating system schedules every process (weak fairness of
each process's own steps); nothing makes a user type, so `BatchEnds` is about
batch mode. `KSession`, `KCondition`, `SdbExpr` and `XBar` are checked for safety
only and assume no fairness. Deadlock is not checked where a program ends:
`simulator`, `kconfig_conditions` and `kconfig_session`.

## 4. What the code does otherwise

The sixth is a run of the project (`fence_older_store`). The first five are
reproduced by the configurations named; the rest are situations the properties
exempt, with the operator or the ghost variable that does so.

1. *Arbiter, an untaken read is withdrawn* (`ArbiterOverlap.cfg`). The comment at
   `Arbiter.scala:104` says a request must not change from ar.valid to ready;
   `ar.valid` at line 168 goes down when a store to the fetched word gets its AW
   accepted meanwhile.
2. *Stale quotient* (`PipeQuotient.cfg`). The divider's request is masked
   with the registered nop (`EXE.scala:162`), the multiplier's with the nop that
   includes interrupt and flush (`:107`). A killed DIV keeps the divider busy
   and the next DIV takes its answer.
3. *Lost jump* (`PipeLostJump.cfg`). `jumpBusFired` (`EXE.scala:224`) stays set when
   the jump that set it is killed before it leaves EXE.
4. *Lost trap* (`PipeTrapLost.cfg`). mepc and mcause are selected by `raiseIntr`
   alone (`CSRRegFile.scala:190-192`), also when the interrupt is not taken and
   the trap in this cycle is an ECALL's.
5. *Redirect lost behind a stall* (`PipeAliased.cfg`). `jumpBus.ready` is
   IF's valid and not its fire (`IF.scala:38`); with a load taken for a branch
   the redirect meets a stalled ID.
6. *fence.i does not wait for stores* (`fence_older_store`). The cache is cleared
   from ID (`ID.scala:89`) and IF redirected from EXE while an older store stands
   in MEM. The arbiter holds back a fetch of the very address being written
   (`Arbiter.scala:168`), for a burst the first word of the line; a line fetched
   for another word may be read before the store is done, and stays valid. Two
   instructions between the store and fence.i are enough (`FenceKeepsApart`).
7. *A stop in mid-run skips a comparison* (`NoFalseAlarm`, an invariant of
   `Simulator` that `MCSimulator` violates). After a watchpoint or Ctrl-C has set
   NPC_STOP, one more `exec_once` runs and its difftest is skipped
   (`cpu-exec.cpp:350-362`, `399-402`): the reference lags by one, and the next
   `c` reports a mismatch of a design that is right. In batch mode it cannot happen
   (`NoFalseAlarmInBatch`).
8. *A mismatch is forgotten* (`GoodTrapIsGood`, likewise). NPC_ABORT is
   overwritten by a watchpoint (`cpu-exec.cpp:79`) or by an ebreak decoded while
   the next instruction is in flight (`:331`): the run ends with status 0.
9. *PLIC*: no claim is ever recognised, because the whole address is compared
   with an offset (`PLIC.scala:56`), and `inHandle` is set nowhere, so a pending
   bit never clears. Read data is a cycle older than `r.valid` (`:83-84`); with
   32 sources (`top.scala:18`) source 32 needs a second pending word, which does
   not exist; priority and threshold have no effect.
10. *Monitor*: `1||0&&0` is 0, because TK_OR and TK_AND differ only in the bit
    that the comparison masks (`expr.cpp:262`); `0x10-1` fails an assertion, the
    minus being taken for a sign (`:140`); `1/0+1` prints 1, since the next
    operand sets `*success` again (`:283`); every dereference yields 0.
11. *kconfig, a value out of range* (`reset`). conf_read forgets it and
    invalidates that symbol only (`confdata.c:566`): what was calculated from it
    stays.
12. *kconfig, a failed load* (`failed`) has already cleared the change count
    (`confdata.c:519`, `mconf.c:909`): the next exit drops unsaved edits without a
    question.
13. *kconfig, a removed symbol* that is still mentioned has no type, and its file
    is not touched (`confdata.c:463-468`); `Rebuilt` leaves such names (`dropped`)
    out, also once a later Kconfig defines them again.
14. *conf_string* (`conf.c:132`) repeats a question for ever if Enter is refused
    too (`stuck`).
15. *expr.c:569*: the comment says `(a!='m') && (a!='n') -> (a='m')`; the code
    rightly gives `(a='y')`. `JoinAndAsCommented` is the comment.

16. *Arbiter, an address is a byte address.* `awReqBusy` is compared with the whole
    address of a fetch or load (`Arbiter.scala:166,168`), and MEM sends that of a
    `sb` or `sh` as it is (`MEM.scala:139`): a store at offset 1 to 3 does not hold
    back a read of its word. In `Arbiter` these are two different addresses, and
    `NoReadPassesWrite` speaks of equal ones.
17. *Difftest, an AMO on a device* announces its PC at both of its requests
    (`MEM.scala:279-285`). `dut.cc` drops one; the other stays in front of the queue
    and no later skip is recognised. `Issue` announces once; the designs checked
    have no such AMO.

## 5. Proofs

`ArbiterProofs` proves, for all address sets, data, line lengths and depths that
satisfy `ArbiterAssumption`:

- `TypeCorrect`: `Spec => []TypeOK`
- `StoresSafe`: `Spec => []WritesConserved`
- `ReadsWait`: `Spec => []NoReadPassesWrite`
- `ReadsSafe`: `Disjoint => (Spec => []ReadsConserved)`
- `ReadHeld`: `Disjoint => (Spec => ArHeld)`

None of the invariants is inductive alone. `IInv` adds what ties the registers to
the surroundings: `ReadFlags` (reqBusy says exactly that the slave owes beats; a
lock means somebody still asks), `OneDataAccess` (the MEM stage has one access
under way), `AwReqBusyExact` (awReqBusy is the address of the unanswered
write), and `EnoughOwed` (nothing is on its way that nobody asked for). With it
`IInvStep` goes through by channel: a step accepts a request (`AcceptStep`),
moves a word (`FlowStep`, `RespOwed`) or neither.

`Disjoint` says that fetches and stores name different words. It is an
assumption about programs, not something the code ensures: when they overlap,
`ibus.req.ready` (`Arbiter.scala:162`) answers a fetch whose `ar.valid` is held
back by awReqBusy, and both `ArHeld` and `ReadsConserved` fail. Self-modifying
code needs the ordering that fence.i is meant to give.

`SimulatorProofs` proves of the watchpoint pool, for every `NR_WP`, that `new_wp`, `free_wp` and
`check_diff` keep `PoolOK`: the two lists are ordered, share no node and have no
node twice. `free_wp` inserts behind the node its loop stops at, and the proof
needs that such a place exists: `Least` gets the least element of a non-empty set
of numbers from the well-foundedness of `<` on the naturals.

It proves of the simulator, for every design, every build and every number of
snapshots, nodes, cycles, processes and commands that satisfies
`SimulatorAssumption` and `NRWPAssumption`:

- `TypeCorrect`: `Spec => []TypeOK`
- `InStep`: `Spec => []RefInStep`
- `Caught`: `Spec => []CorruptionCaught`
- `WindowIsKept`: `Spec => []WindowKept`
- `ReplayShowsTheEnd`: `Spec => ReplayReaches`
- `NoFalseAlarmInBatch`: `Spec => [](batch => NoFalseAlarm)`, if no two
  instructions in a row are killed by an interrupt (`IntrsApart`: taking one
  clears mstatus.mie, `CSRRegFile.scala:168,196`)

`TypeOK` contains `PoolOK` of every copy of the pool and that no snapshot sees
the flag without notgood. The inductive invariant `IInv` says of every process
(`ProcOK`) what its record holds at the place it stands at, for instance that a
process that walks a list does so with a node in use, and of the shared words
that only the process that wakes another has written them. A step changes one
process and may add one; `KeptInv` and `ExceptOK` say that the others are as they
were, and `RunStep`, `SnapshotStep`, `CommandStep` and `CtrlCStep` take the
actions in the groups in which they touch the same parts.

The others need more, each on top of the one before:

- `RInv` (`RefInStep`, `CorruptionCaught`). `Tracked` bounds how far the reference
  is behind the design at every place, not only at the comparison: one less than
  allowed while an instruction is in flight, at least one when one has
  retired. What is allowed (`Given`) grows with each command typed, because each
  stop in mid-run leaves one comparison out. A sleeping snapshot is bound to the
  place it will wake up at (`Here`), since it is a copy made between the halves of
  a cycle; one that records waveforms compares nothing and is bound to
  nothing.
- `Family`: the first process is no snapshot, all others are, process numbers are
  never reused, and the slots hold only numbers that were given out.
- `WInv` (`WindowKept`). As long as no fork has failed and nobody has typed
  Ctrl-C, either the first process has left the design for good (`Over`), or all
  snapshots sleep and the one in slot i was taken `Since(count, i)`: at the end of
  the period i - 1 before the last, or at cycle 0. `Paced` ties the counter of
  `divide_condition` to the cycle from place to place; `WindowKept` follows by
  linear arithmetic, once `Products` and `Quotient` have said what the provers do
  not know of products.
- `ReplayInv` (`ReplayReaches`), in batch mode. The same cycle shows the same
  instruction in a run and in its replay: `InFlight` and `Retired` write the
  cycle as a function of the instruction's number, the cycles since the last
  one retired and the death loop's counter, and `NaturalEnd` is where a run
  ends that nothing stops. A run may be stopped before that, by a mismatch or by
  a watchpoint; what follows from the stop (`Due`) is the same in every copy, so
  that a snapshot in whose memory the stop is already found cannot exit
  before it (`Linked`), and nobody is woken but by the one process that
  failed (`Alone`).
- `Alert` (`NoFalseAlarmInBatch`). The design announces device accesses and
  interrupts when the instruction reaches MEM or is killed in EXE, which is before
  the one ahead of it is compared. `Told` says what the queue of skips and the
  record of the interrupt hold at every place of a cycle: the news of the
  instruction in flight, or of the one that has just retired followed by that of
  the next. `IntrsApart` is needed because `diff_raise_intr` keeps one record and not
  a queue. The theorem speaks of batch mode only: the monitor's
  stops break `NoFalseAlarm` (item 7 of section 4).

The assumptions of `WindowKept` are in the property: they are needed, since a
failed fork leaves a period without a snapshot, and a Ctrl-C reaches the sleeping
snapshots too.

`XBarProofs` proves, for every address map, line length, word size and number of
interrupt sources, with `FetchesFromMemory` (no line is fetched out of CLINT or
PLIC, which could not burst one):

- `NoAnswerStray`: `XBarSpec => []AnswersInStep`
- `TimerStaysQuiet`: `XBarSpec => []TimerQuiet`
- `ArbiterUndisturbed`: `XBarSpec => [](TypeOK /\ WritesConserved)`

It reuses `ArbiterProofs`: the lemmas there about a clock edge of the arbiter
(`ArbiterNext`) do not say who the slave is, and a cycle of the crossbar is one of
the arbiter's surroundings as long as the answers are in step (`InputsAreEnv`).
So the arbiter's `IInv` and `AnswersInStep` are proved together, each being used
for the other: that a pulse of one cycle is never missed follows from `EnoughOwed`
and `OneDataAccess` (the queue of the data port is empty while a load is under
way), and that a device gets AW and W in one cycle from `WriteSide` (a store that
is half sent is the memory's). `TimerQuiet` needs that the clock is a double word
(`TimerType`, `HalvesOf`), or it could wrap to another value than 0.

`MEMProofs` proves, for every set of addresses and instructions and every width
of a word:

- `TypeCorrect`: `Spec => []TypeOK`
- `NoAccessTwice`: `Spec => []AccessesOnce`
- `ImplementsAtomicMemory`: `AlignedSC => (Spec => Atomic)`, where `Atomic` is
  `AtomicMemory`'s specification under the refinement mapping

`IInv` says state by state what the instruction in MEM has done so far: which
access is on the bus and with what (`WaitInv`, `AmoReadInv`, `AmoWriteInv`), what
the AMO registers hold (`AmoCalcInv`, `AmoLaunchInv`) and what has become of the
reservation. Without it nothing would tie memory, which a write changes when it
is answered, to the instruction that is still to be shown. `AlignedSC` leaves
out programs with a misaligned SC, which traps and writes rd all the same
(`MEM.scala:227`).

`ICacheProofs` proves, for every number of lines, words, addresses and versions:

- `TypeCorrect`: `Spec => []TypeOK`
- `AnswersRight`: `Spec => []Answers`
- `NeverTwins`: `Spec => []NoTwins`

`Answers` is about the wires of one cycle. It needs what the RAMs hold
(`Lines`: every valid line but the one being replaced has its own words, none
from before the last fence.i), what was read from them (`HitData`, `Lookup`), and
what a refill has written so far (`Refill`, `Counters`). `Settled` is the delicate
part: while fence.i is in ID and IF waits for the word that was requested
before it, the line in refill may be older than the fence, and the invariant
says nothing of it until fence.i has cleared its valid bit.

It also proves of `FenceOrder`, whose `FenceI` is violated by the run
`fence_older_store`, what of it remains:

- `FenceKeepsApart`: `CoreSpec /\ []Apart => []FenceI`

`Apart` says that while a live fence.i is in ID no store is in EXE or MEM: two
other instructions stand between a store and a fence.i behind it. One is not
enough when the stored word is not the last of its line: a refill reads it,
memory changes it, MEM lets the store go and fence.i goes on, and the refill's
last beat sets its valid bit in the cycle in which fence.i leaves ID, too late to
be cleared. `DInv` repeats `Lines`, `HitData` and `Refill` for what fence.i
promised when it went to EXE. It does not follow from `Answers`: a fence.i that
is flushed clears the cache as well, and a request made under it is owed
nothing by `Answers` but still everything the fence.i before it promised.
`Doubtful` is the one line that may be older than that promise: a refill that
ended under a fence.i which IF has not caught up with.

`PipelineProofs` proves, for every set of programs, every prediction, every
latency of cache, memory and units:

- `TypeCorrect`: `Spec => []TypeOK`, also under interrupts
- `WordsInPlace`: `NoAlias => (Spec /\ []NeverBack => []WordMatchesPC)`, also
  under interrupts
- `StaysAway`: `Forward => (Spec => []NeverBack)`, so the premise
  `NeverBack` is met by programs without MRET whose jumps and traps do not lead
  to address 0

`TypeInv` adds to the types that the address before the first one (`PC_INIT - 4`)
stands in the stages only with nothing live behind it (`Young`). `Fetching`
carries `WordMatchesPC`: between IF and the cache one of three situations
holds (`Phase`: the word is awaited, is there, or the next one is asked for), and
the word belongs to IF's PC unless a redirect stands that will replace
it. The hard part is that this redirect stays until IF takes it: MEM's
`flush`, EXE's jump and the trap unit's redirect may each be disturbed by the
others, by a stall and by an interrupt. `Boots` treats the first fetches,
for which valid is forced, and `Foreseen` says that only a jump was predicted
taken.

`PipelineRefinement` builds on it and proves, for the same programs and latencies:

- `NothingIsOrphaned`: `NoAlias => (Spec /\ []NeverBack /\ []NoClash => []NothingOrphaned)`
- `ImplementsHart`: `NoAlias => (Spec /\ []NeverBack /\ []NoClash => Difftest)`, where
  `Difftest` is `Hart`'s specification under the refinement mapping
- `PassesDifftest`: with `NoAlias`, `NoInterrupts`, `NoKilledDiv` and `Forward`,
  `Spec => Difftest`

The mapping lets an instruction take effect when EXE issues it, and completes
what is then still in MEM and WB (`Drained`). The inductive invariant adds to
`Fetching`:

- `Owned`: a busy or finished unit and a sent redirect belong to the
  instruction in EXE;
- `Precise`: between the instruction that traps or returns and the moment IF
  leaves for the redirect, which three places may hold (`InMEM`, `InWB`,
  `Pending`), nothing younger is live and the history variable `pc` is where the
  redirect leads;
- `InOrder`: the live instructions in EXE, ID and IF are the next ones of the
  program, as far as the predictions go;
- `Killed`: a result that MEM offers for an instruction that was killed in EXE
  meets an ID that has nothing to read it;
- `Forwarded`: the operand in EXE is what the drained registers hold, however
  often it was stalled and bypassed.

`HartStep` then has one case for each kind of cycle: EXE issues (`IssueSteps`),
takes an interrupt (`InterruptSteps`) or does neither, and the machine stutters.

The assumptions are the situations in which the code does not have the
property. `NoAlias`: two addresses that share a predictor entry are equal;
otherwise a load is taken for a branch and its redirect can be lost
(`PipeAliased.cfg`). `NeverBack`: the program does not return to `PC_INIT`, where
`IF.scala:115` forces valid and hands on whatever word was last fetched.
`NoClash` is about three coincidences that are reproduced by a configuration
each: an interrupt raised in the cycle in which WB raises an exception
(`PipeTrapLost.cfg`), one that kills a jump whose redirect is already sent
(`PipeLostJump.cfg`), and a division that is killed after it was requested
(`PipeQuotient.cfg`). Everything else about interrupts is covered:
`ImplementsHart` does not restrict when the line moves. `NeverClashes` derives
`NoClash` from what a program is made of: no interrupts, and no program with
both a division and a misaligned access. `NoClash` is sufficient, not necessary:
some programs of `pipe_interrupt` do kill a fence.i that has sent its redirect
and still pass, because what follows it is the last instruction, which repeats
itself and so hides that one was skipped.

`KFilesProofs` proves, for every set of symbols, every plan, and any sequence of
runs, edits, builds and kills:

- `ObjectsRebuilt`: `FilesSpec => []Rebuilt`
- `NothingIsLost`: `FilesSpec => NothingLost`
- `RunsKeepTheirPromise`: `Update` and `Update` followed by `AutoconfOf` are
  `Planned`, if the names to touch cover each symbol whose line in `auto.conf`
  changes

The invariant says what is left of a plan while it is carried out (`KeptFirst`,
`HeaderWaits`, `Announced`) and what the files already show (`Compiled`,
`Marked`). A kill is harmless because a file that was touched stays newer than the
objects until they are compiled: `Compiled` compares with `auto.conf`, not with
the header, so a run that is killed after its header leaves `auto.conf` at what
the objects know, and the next run touches what differs. What ties these theorems to
the code are `RunsKeepTheirPromise`, for the order of the writes, and the
property `FilesSpec` of the run `kconfig_session`, for the names to touch, which
`KConfData` computes.

Only model-checked: all liveness properties (`FetchServed`, `DataServed`,
`Retires`, `NeverStuck`, `InterruptServed`, `FetchAnswered`, `BatchEnds`), since
reasoning under fairness and ENABLED is out of the prover's reach. `KExpr` and
the modules above it, and `SdbExpr`, are recursive programs over trees and are
written with RECURSIVE operators, which the prover does not support, and what
they compute would need induction over the trees; their properties are checked
over bounded inputs only, `KSession`'s implementation of `FilesSpec` among them. Every other safety property that a passing run checks
is a theorem.

## 6. Not modelled

- The decoder, the ALU and the CSR update functions are combinational tables.
- Of the trap unit `Pipeline` keeps what decides where the program goes on;
  privilege, mtval, counters and the masks of CSR writes are left out.
- The multiplier's and the divider's arithmetic, and the divider of the FPGA build,
  whose answer is a pulse that EXE must be ready for (`Divider.scala:63`).
- UART, test memory, `PreIF` and `LSU` are not instantiated.
- PLIC sources beyond 31 and priorities, byte masks of device registers.
- Third-party SoC controllers in `src/vsrc`, vendored tools and synthesis
  scripts carry none of the program's logic.
- The simulator's memory, MMIO, tracing and counters are sequential I/O. A
  process that the system kills, and signals other than SIGINT, do not occur.
- The monitor's token lines that no expression tree stands for (two operands in a
  row, a "(" that is never closed), and the 32-bit width of its values.
- Of `confdata.c`: failing system calls, the KCONFIG_* variables, SYMBOL_ALLNOCONFIG_Y,
  randconfig. Strings are values out of a short list; escaping and the limits of
  line buffers are left out.
- Of `conf.c`: oldaskconfig, listnewconfig, helpnewconfig and randconfig.
- Of `mconf.c`: search, help, the key that shows hidden entries, SIGINT, and
  which menus are open. `lxdialog` draws and reads keys; any choice it can
  return is a step of `KSession`.
- `preprocess.c`, `lexer.l` and the grammar: `KMenu` starts at the entries.
- `fixdep.c` and make: only their contract is used, that an object is compiled
  again if the file of a symbol it mentions is newer.

## 7. What is left

What could come next, in this order: the arbiter between `FenceOrder`'s cache and
its store, so that a line whose first word is the one stored to can be shown to
be safe; the trap unit with its priorities and masks as a module of its own; shift-and-subtract
division at a small width against its definition; a grammar for `parser.y` in
front of `KMenu`.
