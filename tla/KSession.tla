-------------------------------- MODULE KSession ------------------------------
(***************************************************************************)
(* What happens in a tree that is configured and built with tools/kconfig: *)
(* runs of conf (conf.c, main), a menuconfig session (mconf.c), the        *)
(* recipes of scripts/config.mk, incremental builds, a Kconfig that        *)
(* changes, and a process that is killed between two of its writes.  The   *)
(* files and the writes are those of KFiles; a run computes what it writes *)
(* and leaves it in `todo'.                                                *)
(***************************************************************************)
EXTENDS KConf, KFiles

CONSTANTS Configs,     \* the .config files a tree may start with, by Kconfig;
                       \* none: the Kconfig is only read
          Typed,       \* what a user types into an input box
          MaxCommands  \* bound on commands, keys and kills

VARIABLES mem,    \* mconf: its memory, the file it saves to, a failed load
          reset,  \* the last run had to forget a value that was out of range
          left    \* commands, keys and kills still to come
vars == <<kconfig, files, mem, reset, left>>

\* The Kconfigs a tree is configured with: nobody gets past one that is refused.
Versions == {k \in DOMAIN Texts : Configs[k] # {}}
Followed(k) == k.version \in Versions /\ ~k.bad
AllNames == UNION {NamesOf(Texts[k]) : k \in Versions}
Off == [st |-> <<>>, file |-> "", failed |-> FALSE]

Touching(t) == AutoconfOf(Listed(t.touch), AutoLines(t.st))
Autoconf(st) == Touching(TouchDeps(st, disk[AutoFile]))
\* The end of conf's main; only syncconfig updates an auto.conf that exists.
WriteAll(w, file, sync) ==
  Update(file, w.lines) \o (IF sync \/ disk[AutoFile] = <<>> THEN Autoconf(w.st) ELSE <<>>)
Finish(st, sync) == WriteAll(ConfWrite(st), Config, sync)

Command == left' = left - 1 /\ left > 0
\* A run of conf: it is the last one, and then comes `next'.
Run(name, writes, forgotten, next) ==
  /\ todo' = writes /\ last' = name /\ prog' = next
  /\ reset' = (forgotten # {}) /\ ok' = (IF name = "syncconfig" THEN FALSE ELSE ok)
  /\ UNCHANGED <<kconfig, disk, mem, touched, built, dropped>>

\* A user answers all questions with Enter, or one of them otherwise.
Answers(s) == CASE s \in ChoiceSyms -> ToSet(T.member[s])
                [] Type(s) \in Tristatelike -> Tristates
                [] OTHER -> Typed
Replies(st) ==
  LET enter == [s \in K.known |-> ""]
      new == {s \in K.known : ~st.sym[s].user}
  IN {enter} \cup UNION {{[enter EXCEPT ![s] = v] : v \in Answers(s)} : s \in new}
SyncDone(a, r) == ~a.stuck /\ Run("syncconfig", Finish(a.st, TRUE), r.reset, "none")
SyncRun(r) == \E reply \in Replies(r.st) : SyncDone(Oldconfig(r.st, reply), r)
Syncconfig ==
  /\ todo = <<>> /\ ((Idle /\ Command) \/ (prog = "syncconfig" /\ UNCHANGED left))
  /\ SyncRun(ConfRead(Fresh, disk[Config]))
RunOf(name, r, st, next) == Run(name, Finish(st, FALSE), r.reset, next)
DefaultsRun(r) == RunOf("defconfig", r, SetAllNew(r.st, "default"), "syncconfig")
DefconfigRun == /\ Idle /\ Command /\ disk[Defconfig] # <<>>
                /\ DefaultsRun(ConfReadNamed(Fresh, disk[Defconfig]))
SaveRun(r) == Run("savedefconfig", <<Op("put", Defconfig, <<>>),
                                     Op("put", Defconfig, ConfWriteDefconfig(r.st))>>,
                  r.reset, "none")
Savedefconfig == Idle /\ Command /\ SaveRun(ConfRead(Fresh, disk[Config]))
OldRun(r) == RunOf("olddefconfig", r, r.st, "none")
Olddefconfig == Idle /\ Command /\ OldRun(ConfRead(Fresh, disk[Config]))
Allconfig ==
  /\ Idle /\ Command
  /\ \E mode \in {"yes", "mod", "no", "default"} :
       RunOf("allconfig", NoReset(Fresh), SetAllNew(Fresh, mode), "none")
RewriteRun(r) == \E v \in {1, 2} : RunOf("yes2mod", r, RewriteModOrYes(r.st, v, 3 - v), "none")
YesToMod == Idle /\ Command /\ RewriteRun(ConfRead(Fresh, disk[Config]))

-----------------------------------------------------------------------------
(* mconf.  build_conf draws the entries of the open menus; menus and        *)
(* submenus are taken to be all open.  A choice looks at all its members,   *)
(* which calculates them, and if it is y goes on with the chosen one only.  *)
DefMenu(shown) == IF shown = <<>> THEN <<>>
                 ELSE SelectSeq(<<Last(shown)>>, LAMBDA m : T.kids[m] # <<>>)
DrawnMembers(looked, n, chosen) ==
  [st |-> looked.st,
   kids |-> IF TriOf(looked.st, T.sym[n]) # 2 THEN T.kids[n]
            ELSE DefMenu(SelectSeq(looked.ns, LAMBDA m : T.sym[m] = chosen))]
DrawnKids(st, n) ==
  IF n # Root /\ T.sym[n] \in ChoiceSyms
  THEN DrawnMembers(VisibleKids(st, n), n, st.sym[T.sym[n]].val)
  ELSE [st |-> st, kids |-> T.kids[n]]
RECURSIVE Draw(_, _)
DrawKids(d, items) == FoldLeft(Draw, [st |-> d.st, items |-> items], d.kids)
DrawSeen(a, r, n) ==
  IF ~r.ok THEN [a EXCEPT !.st = r.st]
  ELSE DrawKids(DrawnKids(r.st, n), a.items \cup {n})
Draw(a, n) ==
  DrawSeen(a, MenuIsVisible(a.st, n), n)
Screen(st) == Draw([st |-> st, items |-> {}], Root)
\* item_tag: what the entry lets one do.
Tag(st, n) ==
  LET s == T.sym[n] IN
  CASE n = Root \/ s = "" -> ":"
    [] n # Root /\ s \in ChoiceSyms ->
         IF Changeable(st, s) \/ st.sym[s].val # "" THEN "t" ELSE ":"
    [] OTHER -> IF ~(Type(s) \in Tristatelike) THEN "s"
                ELSE IF InChoice(s) /\ TriOf(st, s) = 2 THEN ":" ELSE "t"
Memory(st, file, failed) == [st |-> Screen(st).st, file |-> file, failed |-> failed]
Redrawn(st) == mem' = Memory(st, mem.file, mem.failed)
NoWrite == UNCHANGED <<kconfig, disk, touched, built, ok, last, dropped>>

Open(r) == mem' = Memory(r.st, Config, FALSE) /\ reset' = (r.reset # {})
Menuconfig ==
  /\ Idle /\ Command
  /\ Open(ConfRead(Fresh, disk[Config]))
  /\ prog' = "mconf"
  /\ NoWrite /\ UNCHANGED todo
InMenu == todo = <<>> /\ prog = "mconf"
Key == InMenu /\ Command /\ NoWrite /\ UNCHANGED <<todo, prog, reset>>
Items(tag) == {n \in Screen(mem.st).items : Tag(mem.st, n) = tag}
\* The keys y (or m, if y is refused), n, m and space.
OrMod(r, s) == IF r.ok THEN r.st ELSE SetTristate(r.st, s, 1).st
PressYes(n) == OrMod(SetTristate(mem.st, T.sym[n], 2), T.sym[n])
PressNo(n) == SetTristate(mem.st, T.sym[n], 0).st
PressMod(n) == SetTristate(mem.st, T.sym[n], 1).st
PressSpace(n) == Toggle(mem.st, T.sym[n])
SetValue ==
  Key /\ \E n \in Items("t") : \E st \in {PressYes(n), PressNo(n), PressMod(n), PressSpace(n)} :
           Redrawn(st)
EnterString == Key /\ \E n \in Items("s"), str \in Typed : Redrawn(SetString(mem.st, T.sym[n], str).st)
ChooseValue ==
  /\ Key
  /\ \E n \in Screen(mem.st).items :
       /\ n # Root /\ T.sym[n] \in ChoiceSyms /\ TriOf(mem.st, T.sym[n]) = 2
       /\ \E m \in ToSet(VisibleKids(mem.st, n).ns) :
            T.sym[m] # "" /\ Redrawn(SetTristate(mem.st, T.sym[m], 2).st)
\* A load that fails has already cleared the count of changes.
Loaded(f, r) ==
  /\ mem' = IF disk[f] = <<>> THEN Memory(r.st, mem.file, TRUE)
            ELSE Memory([r.st EXCEPT !.changed = TRUE], f, FALSE)
  /\ reset' = (r.reset # {})
Load ==
  /\ InMenu /\ Command /\ NoWrite /\ UNCHANGED <<todo, prog>>
  /\ \E f \in Named : Loaded(f, ConfReadNamed(mem.st, disk[f]))
Saved(f, w) == todo' = Update(f, w.lines) /\ mem' = Memory(w.st, f, FALSE)
Save ==
  /\ InMenu /\ Command /\ NoWrite /\ UNCHANGED <<prog, reset>>
  /\ \E f \in Named : Saved(f, ConfWrite(mem.st))
\* handle_exit; menuconfig's recipe then runs conf --syncconfig.
Leave(writes) == /\ todo' = writes /\ prog' = "syncconfig" /\ mem' = Off /\ left' = left
                 /\ NoWrite /\ UNCHANGED reset
Exit ==
  /\ InMenu
  /\ IF ~mem.st.changed THEN Leave(<<>>)
     ELSE Leave(<<>>) \/ Leave(WriteAll(ConfWrite(mem.st), mem.file, FALSE))

-----------------------------------------------------------------------------
Write == WriteFile /\ UNCHANGED <<kconfig, mem, reset, left>>
Kill == Command /\ KillProcess /\ mem' = Off /\ UNCHANGED <<kconfig, reset>>
Build == Command /\ BuildObjects /\ UNCHANGED <<kconfig, mem, reset>>
\* The next version of the Kconfig files.
Undefined == K.names \ K.known
EditKconfig ==
  /\ Command /\ UNCHANGED <<mem, reset>>
  /\ K.version + 1 \in Versions /\ kconfig' = Read(K.version + 1) /\ Followed(kconfig')
  /\ EditFiles(Undefined')

\* A tree as it is unpacked, or one that was built, where somebody has put
\* another .config.
Lines(c) == AutoLines(TouchDeps(ConfRead(Fresh, c).st, <<>>).st)
StartFiles(c) == [f \in Files |-> IF f = Config THEN c ELSE <<>>]
Init ==
  /\ \E k \in DOMAIN Texts : kconfig = Read(k)
  /\ \/ /\ ~Followed(kconfig) /\ left = 0
        /\ disk = StartFiles(<<>>) /\ built = <<>>
     \/ /\ Followed(kconfig) /\ left = MaxCommands
        /\ \E c, was \in Configs[K.version] :
             \/ disk = StartFiles(c) /\ built = <<>>
             \/ /\ was # <<>>
                /\ disk = [f \in Files |-> IF f \in {AutoFile, Header} THEN <<Lines(was)>>
                                           ELSE StartFiles(c)[f]]
                /\ built = [s \in Names |-> ValueIn(disk[Header], s)]
  /\ todo = <<>> /\ prog = "none" /\ mem = Off /\ touched = {}
  /\ ok = FALSE /\ last = "none" /\ reset = FALSE /\ dropped = Undefined
Next == \/ Syncconfig \/ DefconfigRun \/ Savedefconfig \/ Olddefconfig \/ Allconfig
        \/ YesToMod \/ Menuconfig \/ SetValue \/ EnterString \/ ChooseValue \/ Load
        \/ Save \/ Exit \/ Write \/ Kill \/ Build \/ EditKconfig
Spec == Init /\ [][Next]_vars

-----------------------------------------------------------------------------
JustRead == left \in {0, MaxCommands} /\ last = "none" /\ prog = "none"

\* The tree menu_finalize leaves is still the text.  A walk meets every entry
\* once, in the order it is written in: splicing and submenus change only the
\* nesting.  And whatever the symbols are, a prompt is hidden exactly if one of
\* the conditions written on it or around it is not met: all the rewriting of
\* conditions on the way down neither loses one nor invents one.
InOrder == /\ Preorder(T, Root) = [n \in DOMAIN T.entry |-> n]
           /\ \A n \in DOMAIN T.entry : n \in ToSet(T.kids[T.up[n]])
RECURSIVE Around(_)
Around(n) == IF n = Root THEN {}
             ELSE IF T.entry[n].kind = "choice"
             THEN {Sym(T.sym[n])}
             ELSE {T.entry[n].dep} \cup Around(T.entry[n].up)
WrittenOn(n) == {WithVisibility(K.text, T.entry[n].cond, T.entry[n].up), T.entry[n].dep}
                \cup Around(T.entry[n].up)
Varying == {s \in K.known : Type(s) \in Tristatelike}
Worlds == {[s \in K.names |-> IF s \in Varying THEN [tri |-> v[s], str |-> Letter(v[s])]
                              ELSE [tri |-> TriOf(Fresh, s), str |-> IF s \in K.known THEN "4" ELSE s]] :
             v \in {v \in [Varying -> 0 .. 2] : \A s \in Varying : Type(s) = "bool" => v[s] # 1}}
Hidden(world, e) == CalcValue(T.type, world, RewriteM(e, Modules)) = 0
PromptsKept == \A n \in {n \in DOMAIN T.entry : T.sym[n] # "" /\ HasPrompt(T, n)} :
  \A world \in Worlds :
    CalcValue(T.type, world, PromptCond(T, n)) = 0
      <=> \E e \in WrittenOn(n) : Hidden(world, e)
TreeKeepsText == JustRead => InOrder /\ PromptsKept

\* conf_parse refuses a Kconfig exactly if some symbol's value depends on
\* itself, a choice and its values counting as one (symbol.c, sym_check_deps).
GroupOf(s) == IF InChoice(s) THEN ChoiceOf(s) ELSE s
Needs(s) == ToSet(Refers(T, s))
InGroup(g) == {s \in K.names : GroupOf(s) = g}
GroupNeeds(g) == {GroupOf(r) : r \in UNION {Needs(s) : s \in InGroup(g)}} \ {g}
RECURSIVE Reach(_)
Reach(gs) == LET more == gs \cup UNION {GroupNeeds(g) : g \in gs}
             IN IF more = gs THEN gs ELSE Reach(more)
Circular ==
  \/ \E g \in {GroupOf(s) : s \in K.names} : g \in Reach(GroupNeeds(g))
  \/ \E s \in K.names : \E r \in Needs(s) :
       GroupOf(r) = GroupOf(s) /\ ~(InChoice(s) /\ r = ChoiceOf(s))
RecursionRejected == JustRead => (K.bad <=> Circular)

\* A value menuconfig shows as valid is what calculating it from nothing gives
\* (expr.h: SYMBOL_VALID, set when the value is up to date), and it keeps the
\* dependencies: no symbol is above both what it depends on and what selects
\* it, none below what selects it, and a choice that is y has one value that
\* is (symbol.c, sym_calc_value).  A load that had to forget a value out of
\* range leaves the values that depend on it as they were.
Again(st) == CalcAll(Calc(Invalid(st), Modules))
UpToDate(st) == LET a == Again(st) IN
  \A s \in K.known : st.sym[s].valid => StringValue(st, s) = StringValue(a, s)
Lawful(st) == \A s \in K.known :
  LET me == st.sym[s]
      picked == {m \in ToSet(T.member[s]) : TriOf(st, m) = 2}
  IN Type(s) \in Tristatelike =>
       IF s \in ChoiceSyms THEN me.tri = 2 => Cardinality(picked) = (IF me.val = "" THEN 0 ELSE 1)
       ELSE IF InChoice(s) THEN me.tri <= TriOf(st, ChoiceOf(s))
       ELSE me.tri >= me.rev /\ me.tri <= Max2(me.rev, me.dir)
ValuesKept == prog = "mconf" => (reset \/ UpToDate(mem.st)) /\ Lawful(Again(mem.st))

\* Where menuconfig would leave without a question, the values in it are those
\* of the file it saves to (mconf.c, handle_exit), unless a load failed.
LeavesSaved ==
  prog = "mconf" /\ todo = <<>> /\ ~mem.st.changed /\ ~mem.failed /\ ~reset =>
    /\ disk[mem.file] # <<>>
    /\ ToSet(disk[mem.file][1]) = ToSet(ConfWrite(mem.st).lines)

\* defconfig of what savedefconfig wrote is the configuration it was saved
\* from, as olddefconfig would write it (confdata.c, conf_write_defconfig: all
\* values that are defaults are redundant).
Reproduced ==
  last = "savedefconfig" /\ Idle /\ ~reset =>
    LET now  == ConfRead(Fresh, disk[Config]).st
        then == SetAllNew(ConfReadNamed(Fresh, disk[Defconfig]).st, "default")
    IN ConfWrite(then).lines = ConfWrite(now).lines
=============================================================================
