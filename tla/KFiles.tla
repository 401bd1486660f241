--------------------------------- MODULE KFiles -------------------------------
(***************************************************************************)
(* The files a tree is configured and built with, and what every run of    *)
(* tools/kconfig promises about them: conf_write, conf_touch_deps and      *)
(* conf_write_autoconf (confdata.c), make's builds (scripts/config.mk,     *)
(* fixdep), a Kconfig that is edited and a process that is killed between  *)
(* two writes.  What a run computes is left open (PlanWrites); KSession    *)
(* computes it and is shown to keep to FilesSpec.  Temporary files are     *)
(* left out: a file comes into being by a rename; only savedefconfig       *)
(* writes its file in place.                                               *)
(***************************************************************************)
EXTENDS Sequences, Naturals

CONSTANT Names  \* the symbols of all versions of the Kconfig

VARIABLES disk,    \* the files: <<>> (absent) or <<the lines>>
          todo,    \* the writes the running process has still to do
          prog,    \* "none", "mconf", or the run of conf a recipe has left
          touched, built, \* include/config/*.h newer than the objects; these
          ok,      \* the last syncconfig did all it had to do
          last,    \* the last run of conf that ended
          dropped  \* what a Kconfig so far mentions and does not define
files == <<disk, todo, prog, touched, built, ok, last, dropped>>

Config == ".config"
AutoFile == "include/config/auto.conf"
Header == "include/generated/autoconf.h"
Defconfig == "configs/defconfig"
Named == {Config, "alt"}          \* the files one may Load and Save
Old(f) == IF f = Config THEN ".config.old" ELSE "alt.old"
Targets == Named \cup {AutoFile, Header, Defconfig}
Files == Targets \cup {Old(f) : f \in Named}

Content == Seq(STRING \X STRING)
Ops == [op : {"keep", "put", "touch"}, file : Files \cup Names, lines : Content]
Op(op, file, lines) == [op |-> op, file |-> file, lines |-> lines]
\* A slip for Update: the old file is not kept.
Replace(f, lines) == IF disk[f] = <<lines>> THEN <<>> ELSE <<Op("put", f, lines)>>
\* conf_write: nothing if the file would not change, else it is kept as .old.
Update(f, lines) ==
  IF disk[f] = <<lines>> THEN <<>>
  ELSE <<Op("keep", f, <<>>), Op("put", f, lines)>>
Touches(names) == [i \in DOMAIN names |-> Op("touch", names[i], <<>>)]
\* A slip for AutoconfOf: auto.conf comes first.
AutoconfFirst(names, lines) ==
  <<Op("put", AutoFile, lines), Op("put", Header, lines)>> \o Touches(names)
\* conf_write_autoconf: every touched symbol, the header, auto.conf last.
AutoconfOf(names, lines) ==
  Touches(names) \o <<Op("put", Header, lines), Op("put", AutoFile, lines)>>

Do(op) ==
  CASE op.op = "keep" -> IF disk[op.file] = <<>> THEN disk
                         ELSE [disk EXCEPT ![Old(op.file)] = disk[op.file], ![op.file] = <<>>]
    [] op.op = "put" -> [disk EXCEPT ![op.file] = <<op.lines>>]
    [] op.op = "touch" -> disk

\* What a file says of a symbol.
ValueIn(file, s) == IF file = <<>> THEN "n"
                    ELSE LET ls == SelectSeq(file[1], LAMBDA l : l[1] = s)
                         IN IF ls = <<>> THEN "n" ELSE ls[1][2]

-----------------------------------------------------------------------------
(* What a run may plan.  A file one saves to is replaced only right after   *)
(* it was kept; auto.conf is written last, after a header with the same    *)
(* lines, and every symbol it changes is touched.                          *)
Does(op, what, f) == op.op = what /\ op.file = f
WritesAuto(w) == \E i \in DOMAIN w : Does(w[i], "put", AutoFile)
Kept(w) ==
  \A i \in DOMAIN w :
    /\ w[i].op = "keep" => /\ w[i].file \in Named
                           /\ i < Len(w) /\ Does(w[i + 1], "put", w[i].file)
    /\ w[i].op = "put" => w[i].file \in Targets
    /\ w[i].op = "put" /\ w[i].file \in Named => i > 1 /\ Does(w[i - 1], "keep", w[i].file)
AutoLast(w) ==
  \A i \in DOMAIN w :
    /\ Does(w[i], "put", Header) =>
         i + 1 = Len(w) /\ Does(w[i + 1], "put", AutoFile) /\ w[i].lines = w[i + 1].lines
    /\ Does(w[i], "put", AutoFile) => i = Len(w) /\ i > 1 /\ Does(w[i - 1], "put", Header)
Covered(w) ==
  WritesAuto(w) =>
    \A s \in Names \ dropped :
      \/ ValueIn(disk[AutoFile], s) = ValueIn(<<w[Len(w)].lines>>, s)
      \/ \E i \in DOMAIN w : Does(w[i], "touch", s)
Planned(w) == w \in Seq(Ops) /\ Kept(w) /\ AutoLast(w) /\ Covered(w)

Idle == todo = <<>> /\ prog = "none"
\* A process that writes nothing yet reads what it likes and plans; only
\* syncconfig updates an auto.conf that exists, and it always does.
PlanWrites ==
  /\ todo = <<>> /\ Planned(todo')
  /\ UNCHANGED <<disk, touched, built, dropped>>
  /\ ok' \in {ok, FALSE}
  /\ WritesAuto(todo') => ~ok' \/ disk[AutoFile] = <<>>
  /\ last' = "syncconfig" /\ prog' = "none" /\ todo' # <<>> => WritesAuto(todo')
WriteFile ==
  /\ todo # <<>>
  /\ disk' = Do(Head(todo)) /\ todo' = Tail(todo)
  /\ touched' = IF Head(todo).op = "touch" THEN touched \cup {Head(todo).file} ELSE touched
  /\ ok' = (ok \/ (last = "syncconfig" /\ prog = "none" /\ Len(todo) = 1))
  /\ UNCHANGED <<prog, built, last, dropped>>
\* The process is killed; make runs nothing after it.
KillProcess ==
  /\ todo # <<>> \/ prog # "none"
  /\ todo' = <<>> /\ prog' = "none" /\ last' = "killed"
  /\ UNCHANGED <<disk, touched, built, ok, dropped>>
\* One object depends on each symbol; make compiles it if the symbol's file
\* is newer, and only where auto.conf marks a finished syncconfig.
BuildObjects ==
  /\ Idle /\ ok
  /\ built' = [s \in Names |-> IF built = <<>> \/ s \in touched
                               THEN ValueIn(disk[Header], s) ELSE built[s]]
  /\ touched' = {}
  /\ UNCHANGED <<disk, todo, prog, ok, last, dropped>>
\* Other Kconfig files; make runs syncconfig before it builds again.
EditFiles(undefined) ==
  /\ Idle
  /\ ok' = FALSE /\ last' = "edited" /\ dropped' = dropped \cup undefined
  /\ UNCHANGED <<disk, todo, prog, touched, built>>

\* A tree as it is unpacked, or one that was built.
FilesInit ==
  /\ disk \in [Files -> Seq(Content)]
  /\ built # <<>> => /\ disk[Header] = disk[AutoFile]
                     /\ built = [s \in Names |-> ValueIn(disk[Header], s)]
  /\ todo = <<>> /\ prog = "none" /\ touched = {} /\ ok = FALSE /\ last = "none"
FilesNext == PlanWrites \/ WriteFile \/ KillProcess \/ BuildObjects \/ EditFiles(dropped' \ dropped)
FilesSpec == FilesInit /\ [][FilesNext]_files

-----------------------------------------------------------------------------
\* After a finished syncconfig an object that is not compiled again was
\* compiled with the values autoconf.h has now (confdata.c, conf_touch_deps):
\* whatever was killed, reconfigured or edited in between.  Names a Kconfig
\* mentioned but did not define are not touched.
Rebuilt ==
  ok /\ Idle /\ built # <<>> =>
    \A s \in Names \ dropped : s \in touched \/ built[s] = ValueIn(disk[Header], s)

\* A configuration that was there is there or in its .old, and a .old whose
\* configuration is gone stays, whenever a process is killed (conf_write).
NothingLost ==
  [][\A f \in Named : IF disk[f] = <<>> THEN disk'[Old(f)] = disk[Old(f)]
                      ELSE \E g \in {f, Old(f)} : disk'[g] = disk[f]]_files
=============================================================================
