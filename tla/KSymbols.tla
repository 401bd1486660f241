------------------------------- MODULE KSymbols -------------------------------
(***************************************************************************)
(* The values of symbols (tools/kconfig/symbol.c and what menu.c asks of   *)
(* them).  A memory st is what the program keeps in struct symbol: the     *)
(* calculated value and its SYMBOL_VALID flag, the values given by the     *)
(* user (.config) and by auto.conf, and the cached visibility.  Values are *)
(* calculated lazily, each one calculating what it depends on, so every    *)
(* operator that looks at one also returns the memory it leaves.           *)
(***************************************************************************)
EXTENDS KMenu

CONSTANT Texts      \* the Kconfig files

VARIABLE kconfig    \* the one that was read, as conf_parse leaves it

\* The tree, and sets of symbols the program finds in it again and again.
ReadTree(k, t) ==
  LET known == {s \in DOMAIN t.type : ~(t.type[s] \in {"unknown", "const"})}
  IN [version |-> k, text |-> Texts[k], tree |-> t, bad |-> Recursive(t),
      names |-> DOMAIN t.type, order |-> Listed(known), known |-> known,
      choices |-> {s \in known : IsChoice(t, s)},
      optional |-> {s \in known : \A n \in DOMAIN t.entry :
                                    t.sym[n] = s => IsOptional(t, n)}]
Read(k) == ReadTree(k, ConfParse(Texts[k]))
K == kconfig
T == K.tree
Type(s) == T.type[s]
Modules == T.modules
ChoiceSyms == K.choices
InChoice(s) == IsChoiceValue(T, s)
ChoiceOf(s) == T.choice[s]
Props(s, kind) == SelectSeq(T.props[s], LAMBDA p : p.kind = kind)
Tristatelike == {"bool", "tristate"}

Blank == [valid |-> FALSE, write |-> FALSE, user |-> FALSE, utri |-> 0, uval |-> "",
          auto |-> FALSE, atri |-> 0, aval |-> "", need |-> FALSE,
          tri |-> 0, val |-> "", vis |-> 0, dir |-> 0, rev |-> 0, imp |-> 0]
\* After conf_parse, which ends in sym_set_change_count(1).
Fresh == [sym |-> [s \in K.known |-> Blank], mods |-> 0, changed |-> TRUE,
          shown |-> [n \in DOMAIN T.entry |-> 0]]

TriOf(st, s) == IF s \in K.known THEN st.sym[s].tri
                ELSE CASE s = "y" -> 2 [] s = "m" -> 1 [] OTHER -> 0
Letter(v) == CASE v = 0 -> "n" [] v = 1 -> "m" [] v = 2 -> "y"
\* sym_get_string_value; words that are no symbols stand for themselves.
StringValue(st, s) ==
  IF ~(s \in K.known) THEN s
  ELSE IF ~(Type(s) \in Tristatelike) THEN st.sym[s].val
  ELSE IF st.sym[s].tri = 1 /\ TriOf(st, Modules) = 0 THEN "n"
  ELSE Letter(st.sym[s].tri)
\* curr.val, which of a tristate is never its letter: it is that of symbol_no.
CurrVal(st, s) ==
  IF s \in K.known /\ Type(s) \in Tristatelike THEN "n" ELSE StringValue(st, s)
Env(st) == [s \in K.names |-> [tri |-> TriOf(st, s), str |-> StringValue(st, s)]]

GetType(st, s) ==
  IF Type(s) = "tristate" /\ ((InChoice(s) /\ st.sym[s].vis = 2) \/ st.mods = 0)
  THEN "bool" ELSE Type(s)
HasValue(st, s) == st.sym[s].user
Changeable(st, s) == st.sym[s].vis > st.sym[s].rev

-----------------------------------------------------------------------------
(* sym_calc_value and what it calls.  A result r with a memory is           *)
(* [st |-> the memory, ...].                                               *)
RECURSIVE Calc(_, _)
\* expr_calc_value: its symbols first, in order, then the value.
After(st, e) == FoldLeft(Calc, st, SymbolsOf(e))
Value(st, e) == CalcValue(T.type, Env(st), e)

\* The first property that applies (sym_get_default_prop, _range_prop).
RECURSIVE FirstProp(_, _)
FirstIf(st, ps, v) ==
  IF v # 0 THEN [st |-> st, found |-> TRUE, what |-> Head(ps).what, tri |-> v]
  ELSE FirstProp(st, Tail(ps))
FirstAt(st, ps) == FirstIf(st, ps, Value(st, Head(ps).cond))
FirstProp(st, ps) == IF ps = <<>> THEN [st |-> st, found |-> FALSE]
                     ELSE FirstAt(After(st, Head(ps).cond), ps)
DefaultProp(st, s) == FirstProp(st, Props(s, "default"))
RangeProp(st, s) == FirstProp(st, Props(s, "range"))

\* A prompt of s, and the visibility s has from its prompts.
Shown(st, s, v) ==
  IF InChoice(s) /\ Type(s) = "tristate" /\ v = 1 /\ TriOf(st, ChoiceOf(s)) = 2
  THEN 0 ELSE v
ShowPrompt(st, tri, p, v) == [st |-> [st EXCEPT !.shown[p.node] = v], tri |-> Max2(tri, v)]
PromptAt(st, tri, s, p) == ShowPrompt(st, tri, p, Shown(st, s, Value(st, p.cond)))
Prompts(st, s) ==
  FoldLeft(LAMBDA r, p : PromptAt(After(r.st, p.cond), r.tri, s, p),
           [st |-> st, tri |-> 0], Props(s, "prompt"))
SetVis(r, s) ==
  [r.st EXCEPT !.sym[s].vis =
     IF r.tri = 1 /\ (Type(s) # "tristate" \/ r.st.mods = 0) THEN 2 ELSE r.tri]
\* A dependency: `m' is `y' for a bool, and none at all is worth `none'.
AsType(st, s, v) == [st |-> st, tri |-> IF v = 1 /\ GetType(st, s) = "bool" THEN 2 ELSE v]
DependencyAt(st, s, e, none) == AsType(st, s, IF e = Null THEN none ELSE Value(st, e))
Dependency(st, s, e, none) == DependencyAt(After(st, e), s, e, none)
\* What s depends on, what selects it and what implies it, in this order.
Limits == <<"dir", "rev", "imp">>
SetLimit(r, s, f) == [r.st EXCEPT !.sym[s][f] = r.tri]
CalcLimit(st, s, f) ==
  SetLimit(Dependency(st, s, T[f][s], IF f = "dir" THEN 2 ELSE 0), s, f)
CalcLimits(st, s) ==
  IF InChoice(s) THEN st ELSE FoldLeft(LAMBDA m, f : CalcLimit(m, s, f), st, Limits)
CalcVisibility(st, s) == CalcLimits(SetVis(Prompts(st, s), s), s)

\* sym_choice_default ("": none) and sym_calc_choice.
RECURSIVE FirstDefault(_, _)
DefaultAt(st, ps) ==
  LET s == Head(ps).what[2]
  IN IF Value(st, Head(ps).cond) # 0 /\ st.sym[s].vis # 0 THEN [st |-> st, sym |-> s]
     ELSE FirstDefault(st, Tail(ps))
FirstDefault(st, ps) == IF ps = <<>> THEN [st |-> st, sym |-> ""]
                        ELSE DefaultAt(After(st, Head(ps).cond), ps)
OrFirstVisible(r, c) ==
  LET visible == SelectSeq(T.member[c], LAMBDA s : r.st.sym[s].vis # 0)
  IN IF r.sym # "" \/ visible = <<>> THEN r ELSE [r EXCEPT !.sym = Head(visible)]
ChoiceDefault(st, c) == OrFirstVisible(FirstDefault(st, Props(c, "default")), c)
\* The choice counts as given by the user if all its visible values are.
KeepUser(st, c) ==
  [st EXCEPT !.sym[c].user =
     @ /\ \A s \in ToSet(T.member[c]) : st.sym[s].vis # 0 => st.sym[s].user]
PickDefault(r, c) == [r.st EXCEPT !.sym[c].val = r.sym,
                                  !.sym[c].tri = IF r.sym = "" THEN 0 ELSE @]
ChosenOrDefault(st, c) ==
  LET u == st.sym[c].uval
  IN IF u # "" /\ st.sym[u].vis # 0 THEN [st EXCEPT !.sym[c].val = u]
     ELSE PickDefault(ChoiceDefault(st, c), c)
CalcChoice(st, c) == ChosenOrDefault(KeepUser(FoldLeft(CalcVisibility, st, T.member[c]), c), c)

\* Numbers; the base is that of the symbol that holds them.
NumberIn(type, str) == ParseString(str, type).n
RangeVal(st, s, type) == NumberIn(IF Type(s) \in {"int", "hex"} THEN Type(s) ELSE type,
                                  StringValue(st, s))
ValOf(st, s) == NumberIn(Type(s), st.sym[s].val)
SetNumber(st, s, n) ==
  [st EXCEPT !.sym[s].val = (IF Type(s) = "hex" THEN "0x" ELSE "") \o ToString(n)]
NotAbove(st, s, high) == IF ValOf(st, s) > high THEN SetNumber(st, s, high) ELSE st
AboveLow(st, s, high) == NotAbove(st, s, RangeVal(st, high, Type(s)))
NotBelow(st, s, low, high) ==
  IF ValOf(st, s) < RangeVal(st, low, Type(s))
  THEN SetNumber(st, s, RangeVal(st, low, Type(s)))
  ELSE AboveLow(Calc(st, high), s, high)
ValidateIn(r, s) == IF ~r.found THEN r.st
                    ELSE NotBelow(Calc(r.st, r.what[2]), s, r.what[2], r.what[3])
ValidateRange(st, s) == IF Type(s) \in {"int", "hex"} THEN ValidateIn(RangeProp(st, s), s)
                        ELSE st

\* The new value of a bool or tristate and of the others; me is what the symbol
\* was when its dependencies had been calculated.
SetTri(st, s, tri) == [st EXCEPT !.sym[s].tri = AsType(st, s, tri).tri]
BelowCond(st, r) == [st |-> st, tri |-> Min2(Value(st, r.what), r.tri)]
DefaultTri(r) == IF r.found THEN BelowCond(After(r.st, r.what), r)
                 ELSE [st |-> r.st, tri |-> 0]
Implied(r, s, me) ==
  LET imply == me.imp # 0 /\ ~(s \in ChoiceSyms)
      tri == IF imply THEN Min2(Max2(r.tri, me.imp), me.dir) ELSE r.tri
  IN SetTri([r.st EXCEPT !.sym[s].write = @ \/ r.tri # 0 \/ imply], s, Max2(tri, me.rev))
\* The default of a symbol the user has not set: r below, and only then looked at.
Unset(st, s) == IF s \in ChoiceSyms THEN [st |-> st, found |-> FALSE] ELSE DefaultProp(st, s)
NewTri(st, s, r) ==
  LET me == st.sym[s]
  IN IF InChoice(s) /\ me.vis = 2
     THEN SetTri(st, s, IF st.sym[ChoiceOf(s)].val = s THEN 2 ELSE 0)
     ELSE IF me.vis # 0 /\ me.user THEN SetTri(st, s, Max2(Min2(me.utri, me.vis), me.rev))
     ELSE Implied(DefaultTri(r), s, me)
SetVal(st, s, from) == [st EXCEPT !.sym[s].val = CurrVal(st, from)]
DefaultString(r, s) ==
  IF ~r.found THEN r.st
  ELSE IF r.what[1] # "sym" THEN r.st
  ELSE SetVal(Calc([r.st EXCEPT !.sym[s].write = TRUE], r.what[2]), s, r.what[2])
NewString(st, s, r) ==
  IF st.sym[s].vis # 0 /\ st.sym[s].user THEN [st EXCEPT !.sym[s].val = st.sym[s].uval]
  ELSE DefaultString(r, s)

\* set_all_choice_values.
SetAllChoiceValues(st, c) ==
  [st EXCEPT !.sym = [s \in DOMAIN @ |->
     IF s \in ToSet(T.member[c]) /\ ~@[s].user THEN [@[s] EXCEPT !.utri = 0]
     ELSE IF s = c THEN [@[s] EXCEPT !.user = TRUE, !.valid = FALSE, !.need = FALSE]
     ELSE @[s]]]

\* The parts of sym_calc_value, in their order.
SettleChoice(st, s) ==
  IF InChoice(s) /\ st.sym[s].need
  THEN Calc([st EXCEPT !.sym[s].need = FALSE], ChoiceOf(s)) ELSE st
Start(st, s) == CalcVisibility([st EXCEPT !.sym[s].valid = TRUE, !.sym[s].write = FALSE], s)
Clear(st, s) ==
  [st EXCEPT !.sym[s].write = st.sym[s].vis # 0, !.sym[s].tri = 0, !.sym[s].val = ""]
NewFrom(st, s, r) ==
  IF Type(s) \in Tristatelike THEN NewTri(st, s, r) ELSE NewString(st, s, r)
NewValue(st, s) ==
  NewFrom(st, s, Unset([st EXCEPT !.sym[s].write =
                          @ \/ (Type(s) \in Tristatelike /\ st.sym[s].rev # 0)], s))
NewChoice(st, s) == IF s \in ChoiceSyms /\ st.sym[s].tri = 2 THEN CalcChoice(st, s) ELSE st
NoteModules(st, s) == IF s = Modules THEN [st EXCEPT !.mods = st.sym[s].tri] ELSE st
\* A choice is not written, its visible values are (SYMBOL_NO_WRITE).
MarkWritten(st, s) ==
  IF ~(s \in ChoiceSyms) THEN st
  ELSE [st EXCEPT !.sym = [m \in DOMAIN @ |->
          IF m = s THEN [@[m] EXCEPT !.write = FALSE]
          ELSE IF m \in ToSet(T.member[s]) /\ @[m].vis # 0 /\ @[s].write
          THEN [@[m] EXCEPT !.write = TRUE] ELSE @[m]]]
Finished(st, s) ==
  IF s \in ChoiceSyms /\ st.sym[s].need THEN SetAllChoiceValues(st, s) ELSE st
Calc(st, s) ==
  IF ~(s \in K.known) \/ (s \in K.known /\ st.sym[s].valid) THEN st
  ELSE Finished(MarkWritten(NoteModules(ValidateRange(NewChoice(NewValue(Clear(
         Start(SettleChoice(st, s), s), s), s), s), s), s), s), s)

CalcAll(st) == FoldLeft(Calc, st, K.order)
Invalid(st) == [st EXCEPT !.sym = [s \in DOMAIN @ |-> [@[s] EXCEPT !.valid = FALSE]]]
\* A slip for ClearAllValid: only MODULES is calculated again.
ClearModules(st) ==
  Calc([st EXCEPT !.changed = TRUE,
                  !.sym = [s \in DOMAIN @ |-> [@[s] EXCEPT !.valid = @ /\ s # Modules]]], Modules)
ClearAllValid(st) == Calc([Invalid(st) EXCEPT !.changed = TRUE], Modules)

-----------------------------------------------------------------------------
(* Setting values: each returns the memory and whether it was accepted.     *)
Refused(st) == [st |-> st, ok |-> FALSE]
Accepted(st) == [st |-> st, ok |-> TRUE]

TristateWithinRange(st, s, v) ==
  LET me == st.sym[s] type == GetType(st, s)
  IN /\ me.vis # 0 /\ type \in Tristatelike /\ ~(type = "bool" /\ v = 1)
     /\ me.vis > me.rev
     /\ IF InChoice(s) /\ me.vis = 2 THEN v = 2 ELSE v >= me.rev /\ v <= me.vis

SetTristate(st, s, v) ==
  LET old == TriOf(st, s)
      given == [st EXCEPT !.sym[s].user = TRUE]
      c == ChoiceOf(s)
      chosen == [given EXCEPT !.sym = [m \in DOMAIN @ |->
                   IF m = c THEN [@[m] EXCEPT !.uval = s, !.user = TRUE]
                   ELSE IF m \in ToSet(T.member[c]) /\ @[m].vis # 0
                   THEN [@[m] EXCEPT !.user = TRUE] ELSE @[m]]]
      set == [(IF InChoice(s) /\ v = 2 THEN chosen ELSE given) EXCEPT !.sym[s].utri = v]
  IN IF old # v /\ ~TristateWithinRange(st, s, v) THEN Refused(st)
     ELSE Accepted(IF old = v THEN set ELSE ClearAllValid(set))

\* no -> mod -> yes -> no, until one is accepted or the round is over.
FirstAccepted(tries) == tries[CHOOSE k \in DOMAIN tries :
                                tries[k].ok /\ \A j \in 1 .. k - 1 : ~tries[j].ok].st
Toggle(st, s) ==
  FirstAccepted([k \in 1 .. 3 |-> SetTristate(st, s, (TriOf(st, s) + k) % 3)])

IsInt(str) == \E k \in -1 .. MaxNumeral : str = ToString(k)
IsHex(str) == \E k \in 0 .. MaxNumeral : str \in {ToString(k), "0x" \o ToString(k)}
StringValid(s, str) == CASE Type(s) = "string" -> TRUE
                         [] Type(s) = "int" -> IsInt(str)
                         [] Type(s) = "hex" -> IsHex(str)
                         [] OTHER -> str \in Tristates
UpTo(st, s, high, val) == [st |-> st, ok |-> val <= RangeVal(st, high, Type(s))]
From(st, s, low, high, val) == IF val < RangeVal(st, low, Type(s)) THEN Refused(st)
                               ELSE UpTo(Calc(st, high), s, high, val)
InRange(r, s, val) == IF ~r.found THEN Accepted(r.st)
                      ELSE From(Calc(r.st, r.what[2]), s, r.what[2], r.what[3], val)
StringWithinRange(st, s, str) ==
  IF ~StringValid(s, str) THEN Refused(st)
  ELSE IF Type(s) = "string" THEN Accepted(st)
  ELSE InRange(RangeProp(st, s), s, NumberIn(Type(s), str))
Numbered(s, str) == IF Type(s) = "hex" /\ IsInt(str) THEN "0x" \o str ELSE str
GiveString(st, s, str) == [st EXCEPT !.sym[s].user = TRUE, !.sym[s].uval = Numbered(s, str)]
TakeString(r, s, str) ==
  IF ~r.ok THEN r
  ELSE Accepted(IF Numbered(s, str) = str /\ r.st.sym[s].uval = str
                THEN GiveString(r.st, s, str) ELSE ClearAllValid(GiveString(r.st, s, str)))
SetString(st, s, str) ==
  IF Type(s) \in Tristatelike
  THEN IF str \in Tristates THEN SetTristate(st, s, TriOf(st, str)) ELSE Refused(st)
  ELSE TakeString(StringWithinRange(st, s, str), s, str)

\* sym_get_string_default: r is what the default properties give.
BoolDefault(st, s, v) ==
  IF v = 1 /\ ((~InChoice(s) /\ TriOf(st, Modules) = 0) \/ Type(s) = "bool") THEN 2 ELSE v
LetterDefault(r, s) ==
  [st |-> r.st, str |-> Letter(Max2(BoolDefault(r.st, s, Max2(r.tri, r.st.sym[s].rev)),
                                    r.st.sym[s].imp))]
ValueDefault(st, from) == [st |-> st, str |-> CurrVal(st, from)]
DefaultText(r, s) == IF Type(s) \in Tristatelike THEN LetterDefault(DefaultTri(r), s)
                     ELSE IF ~r.found THEN [st |-> r.st, str |-> ""]
                     ELSE ValueDefault(Calc(r.st, r.what[2]), r.what[2])
StringDefault(st, s) ==
  DefaultText(DefaultProp(Calc(CalcVisibility(st, s), Modules), s), s)

-----------------------------------------------------------------------------
(* menu_is_visible, which marks a symbol that is shown only because of its  *)
(* submenu as given by the user.                                           *)
RECURSIVE MenuIsVisible(_, _)
RECURSIVE AnyVisible(_, _)
OrOthers(r, ns) == IF r.ok THEN r ELSE AnyVisible(r.st, ns)
AnyVisible(st, ns) == IF ns = <<>> THEN Refused(st)
                      ELSE OrOthers(MenuIsVisible(st, Head(ns)), Tail(ns))
ByItsKids(r, s) == IF r.ok THEN Accepted([r.st EXCEPT !.sym[s].user = TRUE]) ELSE r
\* v is what the node's own prompt says.
NodeVisible(st, n, v) ==
  IF v # 0 THEN Accepted(st)
  ELSE IF T.sym[n] = "" THEN Refused(st)
  ELSE IF TriOf(st, T.sym[n]) = 0 THEN Refused(st)
  ELSE ByItsKids(AnyVisible(st, T.kids[n]), T.sym[n])
CondVisible(st, n) == NodeVisible(st, n, Value(st, T.cond[n]))
PromptVisible(st, n) == NodeVisible(st, n, st.shown[n])
MenuVisible(st, n) ==
  IF Value(st, T.entry[n].vis) = 0 THEN Refused(st)
  ELSE IF T.sym[n] = "" THEN CondVisible(After(st, T.cond[n]), n)
  ELSE PromptVisible(Calc(st, T.sym[n]), n)
MenuIsVisible(st, n) ==
  IF n = Root THEN Accepted(st)
  ELSE IF ~HasPrompt(T, n) THEN Refused(st)
  ELSE MenuVisible(After(st, T.entry[n].vis), n)
=============================================================================
