--------------------------------- MODULE KConf --------------------------------
(***************************************************************************)
(* The questions of tools/kconfig/conf.c in the modes oldconfig and        *)
(* syncconfig, which ask for the symbols that have no value yet.  `reply'  *)
(* is what the user answers first for each symbol ("": just Enter); when   *)
(* that is refused, he presses Enter.  a = [st, asked, root, stuck] is the *)
(* memory, whether check_conf found something new (conf_cnt), rootEntry,   *)
(* and whether Enter is refused too, so that the question comes for ever.  *)
(***************************************************************************)
EXTENDS KConfData

\* conf_askvalue asks only for what can be changed and is new.
Asks(st, s) == Changeable(st, s) /\ ~st.sym[s].user

\* conf_string and conf_sym: the answer, then Enter, which keeps the value the
\* symbol has (a tristate's own, not the `n' an `m' is worth without modules).
Stored(a, r) == [a EXCEPT !.st = r.st, !.stuck = @ \/ ~r.ok]
Answer(a, s, strings) ==
  Stored(a, FoldLeft(LAMBDA r, str : IF r.ok THEN r ELSE SetString(r.st, s, str),
                     Refused(a.st), strings))
Enter(st, s) == IF Type(s) \in Tristatelike THEN Letter(TriOf(st, s)) ELSE StringValue(st, s)
Understood(s, str) == str # "" /\ (Type(s) \in Tristatelike => str \in Tristates)
ConfSym(a, s, reply) ==
  IF ~Asks(a.st, s) THEN a
  ELSE Answer(a, s, SelectSeq(<<reply[s]>>, LAMBDA str : Understood(s, str))
                    \o <<Enter(a.st, s)>>)

NoteVisible(ns, r, m) == [st |-> r.st, ns |-> IF r.ok THEN Append(ns, m) ELSE ns]
VisibleKids(st, n) ==
  FoldLeft(LAMBDA a, m : NoteVisible(a.ns, MenuIsVisible(a.st, m), m),
           [st |-> st, ns |-> <<>>], T.kids[n])

RECURSIVE ConfMenu(_, _, _)
RECURSIVE CheckConf(_, _, _)
ConfMenus(a, ns, reply) ==
  FoldLeft(LAMBDA b, m : IF b.stuck THEN b ELSE ConfMenu(b, m, reply), a, ns)

\* conf_choice, once the choice is `y': its value, then what is below it.
\* An Enter means the value the choice has, an answer only a new choice gets.
Below(a, m, reply) ==
  ConfMenus([a EXCEPT !.st = SetTristate(a.st, T.sym[m], 2).st], T.kids[m], reply)
PickFrom(a, pick, reply) == IF pick = <<>> THEN [a EXCEPT !.stuck = TRUE]
                            ELSE Below(a, pick[1], reply)
PickAmong(a, values, c, told, reply) ==
  LET At(s) == SelectSeq(values, LAMBDA m : T.sym[m] = s)
  IN PickFrom(a, IF Len(values) = 1 THEN values
                 ELSE IF At(told) # <<>> THEN At(told) ELSE At(a.st.sym[c].val), reply)
PickShown(a, shown, c, told, reply) ==
  PickAmong([a EXCEPT !.st = shown.st], SelectSeq(shown.ns, LAMBDA m : T.sym[m] # ""),
            c, told, reply)
PickValue(a, n, told, reply) ==
  IF TriOf(a.st, T.sym[n]) = 2
  THEN PickShown(a, VisibleKids(a.st, n), T.sym[n], told, reply) ELSE a
ConfChoice(a, n, reply) ==
  LET c == T.sym[n]
      told == IF a.st.sym[c].user THEN "" ELSE reply[c]
  IN PickValue(IF Changeable(a.st, c) THEN [ConfSym(a, c, reply) EXCEPT !.st = Calc(@, c)]
               ELSE a, n, told, reply)

\* conf: other menus than the one being configured are only checked.
IsMenu(n) == n = Root \/ T.entry[n].kind \in {"menu", "menuconfig"}
\* What is below a choice that is `m'.
ConfModules(a, n, reply) ==
  IF TriOf(a.st, T.sym[n]) = 1 THEN ConfMenus(a, T.kids[n], reply) ELSE a
ConfEntry(a, n, reply) ==
  LET s == T.sym[n] IN
  CASE n = Root \/ s = "" -> ConfMenus(a, T.kids[n], reply)
    [] n # Root /\ s \in ChoiceSyms -> ConfModules(ConfChoice(a, n, reply), n, reply)
    [] OTHER -> ConfMenus(ConfSym(a, s, reply), T.kids[n], reply)
ConfVisible(a, ok, n, reply) ==
  IF ~ok THEN a
  ELSE IF IsMenu(n) /\ a.root # n THEN CheckConf(a, n, reply)
  ELSE ConfEntry(a, n, reply)
ConfSeen(a, r, n, reply) == ConfVisible([a EXCEPT !.st = r.st], r.ok, n, reply)
ConfMenu(a, n, reply) == ConfSeen(a, MenuIsVisible(a.st, n), n, reply)

\* menu_get_parent_menu.
RECURSIVE ParentMenu(_)
ParentMenu(n) == IF IsMenu(n) THEN n ELSE ParentMenu(T.up[n])

IsNew(st, s) == /\ s # "" /\ ~st.sym[s].user
                /\ Changeable(st, s) \/ (s \in ChoiceSyms /\ TriOf(st, s) = 2)
AskMenu(a, n, m, reply) ==
  IF n # Root /\ IsNew(a.st, T.sym[n])
  THEN ConfMenu([a EXCEPT !.asked = TRUE, !.root = m], m, reply) ELSE a
CheckKids(a, n, reply) ==
  FoldLeft(LAMBDA d, k : IF d.stuck THEN d ELSE CheckConf(d, k, reply), a, T.kids[n])
CheckSeen(a, r, n, reply) ==
  IF r.ok THEN CheckKids(AskMenu([a EXCEPT !.st = r.st], n, ParentMenu(n), reply), n, reply)
  ELSE [a EXCEPT !.st = r.st]
CheckConf(a, n, reply) == CheckSeen(a, MenuIsVisible(a.st, n), n, reply)

\* main repeats check_conf until nothing was asked.
RECURSIVE CheckAll(_, _)
CheckAgain(a, reply) == IF a.asked /\ ~a.stuck THEN CheckAll(a, reply) ELSE a
CheckAll(a, reply) == CheckAgain(CheckConf([a EXCEPT !.asked = FALSE], Root, reply), reply)
Oldconfig(st, reply) ==
  CheckAll([st |-> st, asked |-> FALSE, root |-> Root, stuck |-> FALSE], reply)
=============================================================================
