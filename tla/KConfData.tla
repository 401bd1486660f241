------------------------------- MODULE KConfData ------------------------------
(***************************************************************************)
(* Configurations as files (tools/kconfig/confdata.c).  A file is <<>>     *)
(* (absent) or <<its lines>>; a line is <<symbol, value>>, where the value *)
(* "n" is what the comment `is not set' means; no string or number is      *)
(* taken to have the value n.                                              *)
(***************************************************************************)
EXTENDS KSymbols

Given == [has |-> FALSE, tri |-> 0, val |-> ""]

\* conf_set_sym_val: a line's value for s, and whether it makes sense.
Meaning(s, v) ==
  CASE Type(s) \in Tristatelike -> v \in Tristates /\ (Type(s) = "bool" => v # "m")
    [] Type(s) \in {"int", "hex"} -> StringValid(s, v)
    [] OTHER -> TRUE
SetSymVal(s, v) ==
  IF Type(s) \in Tristatelike THEN [has |-> TRUE, tri |-> TriOf(Fresh, v), val |-> ""]
  ELSE [has |-> TRUE, tri |-> 0, val |-> v]

\* A choice value moves its choice: the last `y' is chosen.
NoteChoice(r, s) ==
  LET c == ChoiceOf(s)
      v == r.given[s].tri
      was == r.given[c].tri
      has == r.given[c].has /\ ~(v = 1 /\ was = 2)
  IN [r EXCEPT !.given[c] = [has |-> has, tri |-> Max2(was, v),
                             val |-> IF v = 2 THEN s ELSE @.val],
               !.warned = @ \/ (v = 1 /\ was = 2) \/ (v = 2 /\ was # 0)]
ReadLine(r, line) ==
  LET s == line[1]
      again == [r EXCEPT !.warned = @ \/ r.given[s].has]
      noted == [again EXCEPT !.given[s] = SetSymVal(s, line[2])]
  IN IF ~(s \in K.names) THEN [r EXCEPT !.unknown = @ \cup {s}]
     ELSE IF ~(s \in K.known) THEN r
     ELSE IF line[2] = "n" /\ ~(Type(s) \in Tristatelike) THEN again
     ELSE IF ~Meaning(s, line[2]) THEN [again EXCEPT !.warned = TRUE]
     ELSE IF InChoice(s) THEN NoteChoice(noted, s) ELSE noted
\* The lines of a file: what they give each symbol, unknown names, warnings.
ReadLines(lines) ==
  FoldLeft(ReadLine,
           [given |-> [s \in K.known |-> [Given EXCEPT !.has = s \in ChoiceSyms]],
            unknown |-> {}, warned |-> FALSE], lines)

\* conf_read_simple for the user's values and for those of auto.conf.
GiveUser(st, r) ==
  [st EXCEPT !.sym = [s \in DOMAIN @ |->
     [@[s] EXCEPT !.valid = FALSE, !.user = r.given[s].has,
                  !.utri = r.given[s].tri, !.uval = r.given[s].val]]]
GiveAuto(st, r) ==
  [st EXCEPT !.sym = [s \in DOMAIN @ |->
     [@[s] EXCEPT !.valid = FALSE, !.auto = r.given[s].has,
                  !.atri = r.given[s].tri, !.aval = r.given[s].val]]]

\* A slip for Unsaved: symbols the file does not mention are not compared.
UnsavedMentioned(st, s) ==
  LET me == st.sym[s]
  IN /\ ~(s \in ChoiceSyms) /\ me.user
     /\ ~me.write \/ (IF Type(s) \in Tristatelike THEN me.tri # me.utri ELSE me.val # me.uval)
\* conf_read: a symbol is unsaved if its value is not the one in the file.
Unsaved(st, s) ==
  LET me == st.sym[s]
      same == IF Type(s) \in Tristatelike
              THEN me.tri = me.utri
              ELSE me.val = me.uval
  IN ~(s \in ChoiceSyms) /\ (me.user \/ me.write) /\ ~(me.user /\ me.write /\ same)
\* Values of invisible symbols are forgotten, and those out of range.
ForgetString(a, r, s) ==
  IF r.ok THEN [a EXCEPT !.st = r.st]
  ELSE [st |-> [r.st EXCEPT !.sym[s].user = FALSE, !.sym[s].valid = FALSE],
        unsaved |-> TRUE, reset |-> a.reset \cup {s}]
Forget(a, s) ==
  LET me == a.st.sym[s]
      hidden == me.vis = 0 /\ ~a.unsaved
      b == IF hidden THEN [a.st EXCEPT !.sym[s].user = FALSE] ELSE a.st
  IN IF ~me.user \/ InChoice(s) THEN a
     ELSE IF Type(s) \in Tristatelike THEN [a EXCEPT !.st = b]
     ELSE ForgetString(a, StringWithinRange(b, s, me.uval), s)
ForgetIn(st) ==
  FoldLeft(Forget, [st |-> st, unsaved |-> \E s \in K.known : Unsaved(st, s), reset |-> {}],
           K.order)
CountChanges(a, r) ==
  [st |-> [a.st EXCEPT !.changed = r.unknown # {} \/ r.warned \/ a.unsaved],
   reset |-> a.reset]
\* The memory after reading a file, and the values that were out of range.
TakeLines(st, r) == CountChanges(ForgetIn(CalcAll(Calc(GiveUser(st, r), Modules))), r)
ReadFile(st, file) == TakeLines(st, ReadLines(file[1]))
NoReset(st) == [st |-> st, reset |-> {}]
\* conf_read(NULL), and of a file that is named: a failure tells only the one.
ConfRead(st, file) ==
  IF file = <<>> THEN NoReset(Calc([st EXCEPT !.changed = TRUE], Modules))
  ELSE ReadFile(st, file)
ConfReadNamed(st, file) ==
  IF file = <<>> THEN NoReset(Calc([st EXCEPT !.changed = FALSE], Modules))
  ELSE ReadFile(st, file)

-----------------------------------------------------------------------------
(* conf_write and conf_write_defconfig: the menus in order.                *)
Line(st, s) == <<s, StringValue(st, s)>>
WriteSymbol(a, st, s) ==
  IF ~st.sym[s].write THEN [a EXCEPT !.st = st]
  ELSE [st |-> st, written |-> a.written \cup {s}, lines |-> Append(a.lines, Line(st, s))]
WriteNode(a, n) ==
  LET s == T.sym[n]
  IN IF s = "" THEN [a EXCEPT !.st = MenuIsVisible(@, n).st]
     ELSE IF s \in ChoiceSyms \/ s \in a.written THEN a
     ELSE WriteSymbol(a, Calc(a.st, s), s)
Writing(st) == [st |-> st, written |-> {}, lines |-> <<>>]
WriteDone(a) == [st |-> [a.st EXCEPT !.changed = FALSE], lines |-> a.lines]
ConfWrite(st) ==
  WriteDone(FoldLeft(WriteNode, Writing(IF st.changed THEN st ELSE ClearAllValid(st)),
                   Preorder(T, Root)))

\* A slip for IsChoiceDefault: it takes the chosen value for the default one.
IsChoiceChosen(st, s) == /\ InChoice(s) /\ ~(ChoiceOf(s) \in K.optional)
                         /\ Type(s) = "bool" /\ TriOf(st, s) = 2
\* The choice's own default needs no line, unless no value must be chosen.
IsChoiceDefault(st, s) ==
  /\ InChoice(s) /\ ~(ChoiceOf(s) \in K.optional)
  /\ ChoiceDefault(st, ChoiceOf(s)).sym = s
  /\ Type(s) = "bool" /\ TriOf(st, s) = 2
UnlessDefault(a, d, s) ==
  IF StringValue(d.st, s) = d.str \/ IsChoiceDefault(d.st, s)
  THEN [a EXCEPT !.st = d.st]
  ELSE [a EXCEPT !.st = d.st, !.lines = Append(@, Line(d.st, s))]
UnlessFixed(a, st, s) == IF ~Changeable(st, s) THEN [a EXCEPT !.st = st]
                         ELSE UnlessDefault(a, StringDefault(st, s), s)
DefconfigSymbol(a, st, s) ==
  IF ~st.sym[s].write THEN [a EXCEPT !.st = st]
  ELSE UnlessFixed(a, [st EXCEPT !.sym[s].write = FALSE], s)
DefconfigNode(a, n) ==
  LET s == T.sym[n]
  IN IF s = "" THEN [a EXCEPT !.st = MenuIsVisible(@, n).st]
     ELSE IF s \in ChoiceSyms THEN a
     ELSE DefconfigSymbol(a, Calc(a.st, s), s)
ConfWriteDefconfig(st) ==
  FoldLeft(DefconfigNode, Writing(ClearAllValid(st)), Preorder(T, Root)).lines

-----------------------------------------------------------------------------
(* conf_touch_deps: the symbols whose file under include/config is touched, *)
(* and conf_write_autoconf: the lines of auto.conf and of autoconf.h.      *)
Differs(st, s) ==
  LET me == st.sym[s]
      tristate == Type(s) \in Tristatelike
  IN IF ~me.write THEN me.auto
     ELSE IF me.auto THEN IF tristate THEN me.tri # me.atri ELSE me.val # me.aval
     ELSE ~(tristate /\ me.tri = 0)
TouchIn(st, gone) ==
  [st |-> st, touch |-> gone \cup {s \in K.known \ ChoiceSyms : Differs(st, s)}]
\* A slip for TouchAfter: what is gone from the Kconfig is not touched.
TouchKnown(st, r) == TouchIn(CalcAll(Calc(GiveAuto(st, r), Modules)), {})
TouchAfter(st, r) == TouchIn(CalcAll(Calc(GiveAuto(st, r), Modules)), r.unknown)
TouchDeps(st, auto) == IF auto = <<>> THEN TouchIn(CalcAll(Calc(st, Modules)), {})
                       ELSE TouchAfter(st, ReadLines(auto[1]))
AutoLines(st) ==
  LET In(s) == /\ st.sym[s].write /\ ~(s \in ChoiceSyms)
               /\ Type(s) \in Tristatelike => StringValue(st, s) # "n"
      ss == SelectSeq(K.order, In)
  IN [i \in DOMAIN ss |-> Line(st, ss[i])]

-----------------------------------------------------------------------------
(* conf_set_all_new_symbols (all modes but the random one), for             *)
(* allyesconfig, allmodconfig, allnoconfig and defconfig, and              *)
(* conf_rewrite_mod_or_yes.                                                *)
GiveAll(st, v) ==
  [st EXCEPT !.sym = [s \in DOMAIN @ |->
     IF @[s].user \/ @[s].valid \/ ~(Type(s) \in Tristatelike) THEN @[s]
     ELSE [@[s] EXCEPT !.user = TRUE, !.utri = v]]]
\* SYMBOL_NEED_SET_CHOICE_VALUES.
NeedChoices(st) ==
  [st EXCEPT !.sym = [s \in DOMAIN @ |->
     [@[s] EXCEPT !.need = @ \/ InChoice(s) \/ (s \in ChoiceSyms /\ ~st.sym[s].user)]]]
SettleNew(st, s) == IF st.sym[s].user \/ ~(s \in ChoiceSyms) THEN st
                    ELSE SetAllChoiceValues(Calc(st, s), s)
SetAllNew(st, mode) ==
  LET given == CASE mode = "default" -> st [] mode = "no" -> GiveAll(st, 0)
                 [] mode = "mod" -> GiveAll(st, 1) [] mode = "yes" -> GiveAll(st, 2)
  IN FoldLeft(SettleNew, NeedChoices(ClearAllValid(given)), K.order)
RewriteModOrYes(st, old, new) ==
  ClearAllValid([st EXCEPT !.sym = [s \in DOMAIN @ |->
     IF GetType(st, s) = "tristate" /\ @[s].utri = old THEN [@[s] EXCEPT !.utri = new]
     ELSE @[s]]])
=============================================================================
