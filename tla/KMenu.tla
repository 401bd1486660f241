-------------------------------- MODULE KMenu --------------------------------
(***************************************************************************)
(* From Kconfig files to the menu tree: the entries conf_parse adds (the   *)
(* actions of parser.y, menu.c), then menu_finalize, which passes          *)
(* dependencies down, moves entries below the symbol they depend on and    *)
(* flattens blocks without a title, and sym_check_deps, which rejects      *)
(* symbols that depend on themselves.                                      *)
(*                                                                         *)
(* A text is [entries, modules]: its entries in the order of the file and  *)
(* the symbol with `option modules' ("n": none).  An entry names the entry *)
(* it stands in (up, 0: the file), what it is, its symbol ("": none) with  *)
(* the properties written there, `depends on', `visible if' and its prompt.*)
(***************************************************************************)
EXTENDS KExpr, FiniteSets, FiniteSetsExt, TLC

Root == 0
Written(what, kind, cond) == [what |-> what, kind |-> kind, cond |-> cond]

\* All names of a text: symbols, and words that are only mentioned.
Mentioned(e) == {e.sym} \cup ToSet(SymbolsOf(e.dep)) \cup ToSet(SymbolsOf(e.vis))
                \cup ToSet(SymbolsOf(e.cond))
                \cup UNION {ToSet(SymbolsOf(e.props[i].what) \o SymbolsOf(e.props[i].cond)) :
                              i \in DOMAIN e.props}
NamesOf(text) == ((UNION {Mentioned(text.entries[i]) : i \in DOMAIN text.entries})
                    \ {""}) \cup Tristates \cup {text.modules}

\* menu_add_prompt puts the `visible if' of all menus around it on a prompt.
RECURSIVE WithVisibility(_, _, _)
WithVisibility(text, cond, up) ==
  IF up = Root THEN cond
  ELSE WithVisibility(text, And(cond, text.entries[up].vis), text.entries[up].up)

Prop(n, kind, cond, what) == [node |-> n, kind |-> kind, cond |-> cond, what |-> what]
PropsOf(text, n) ==
  LET e == text.entries[n]
      prompt == Prop(n, "prompt", WithVisibility(text, e.cond, e.up), Null)
  IN <<Prop(n, "symbol", Null, Null)>> \o (IF e.prompt THEN <<prompt>> ELSE <<>>)
     \o [i \in DOMAIN e.props |-> Prop(n, e.props[i].kind, e.props[i].cond, e.props[i].what)]

\* menu_add_entry and the options of the entry; menu_set_type keeps the first.
AddEntry(text, t, n) ==
  LET e == text.entries[n]
      u == [t EXCEPT !.kids[e.up] = Append(@, n)]
  IN IF e.sym = "" THEN u
     ELSE [u EXCEPT !.props[e.sym] = @ \o PropsOf(text, n),
                    !.type[e.sym] = IF @ = "unknown" THEN e.type ELSE @]

Parsed(text) ==
  LET ids   == DOMAIN text.entries
      names == NamesOf(text)
      Per(x) == [s \in names |-> x] @@ <<>>
      nodes(x) == (Root :> x) @@ [n \in ids |-> x]
      E(n) == text.entries[n]
      blank == [entry |-> text.entries, modules |-> text.modules,
                kids |-> nodes(<<>>),
                up   |-> [n \in ids |-> E(n).up] @@ <<>>,
                sym  |-> (Root :> "") @@ [n \in ids |-> E(n).sym],
                dep  |-> (Root :> Null) @@ [n \in ids |-> E(n).dep],
                cond |-> nodes(Null),       \* of a title without symbol
                type |-> [s \in Tristates |-> "const"] @@ [s \in names |-> "unknown"],
                props |-> Per(<<>>), dir |-> Per(Null), rev |-> Per(Null),
                imp |-> Per(Null), choice |-> Per(""), member |-> Per(<<>>)]
  IN FoldLeft(LAMBDA t, n : AddEntry(text, t, n), blank, [n \in ids |-> n])

HasPrompt(t, n) == n = Root \/ t.entry[n].prompt
IsChoiceNode(t, n) == n # Root /\ t.entry[n].kind = "choice"
IsChoice(t, s) == \E n \in DOMAIN t.entry : t.sym[n] = s /\ IsChoiceNode(t, n)
IsChoiceValue(t, s) == t.choice[s] # ""
IsOptional(t, n) == ~IsChoiceNode(t, n) \/ t.entry[n].optional
\* The condition of the node's prompt.
PromptCond(t, n) ==
  IF n = Root THEN Null
  ELSE IF t.sym[n] = "" THEN t.cond[n]
  ELSE LET ps == SelectSeq(t.props[t.sym[n]], LAMBDA p : p.node = n /\ p.kind = "prompt")
       IN IF ps = <<>> THEN Null ELSE Last(ps).cond

-----------------------------------------------------------------------------
(* menu_finalize.                                                          *)
Position(ls, x) == CHOOSE i \in DOMAIN ls : ls[i] = x

\* A choice without type takes that of its first value, and gives it to those
\* without one.
SetChoiceType(t, p) ==
  LET c     == t.sym[p]
      kids  == SelectSeq(t.kids[p], LAMBDA m : t.sym[m] # "")
      typed == SelectSeq(kids, LAMBDA m : t.type[t.sym[m]] # "unknown")
      type  == IF t.type[c] = "unknown" /\ typed # <<>> THEN t.type[t.sym[typed[1]]]
               ELSE t.type[c]
      takes == {t.sym[kids[i]] : i \in DOMAIN kids} \cup {c}
  IN [t EXCEPT !.type = [s \in DOMAIN @ |->
                           IF s \in takes /\ @[s] = "unknown" THEN type ELSE @[s]]]

\* A condition as menu_finalize keeps it: rewritten, and a bool for a bool.
Small(t, e) == Transform(t.type, RewriteM(e, t.modules))
AsBool(t, s, e) == IF s # "" /\ t.type[s] # "tristate" THEN TransBool(t.type, e) ELSE e
Within(t, s, base, e) == AsBool(t, s, EliminateDups(t.type, And(base, Small(t, e))))
DepBelow(t, p, m) ==
  EliminateDups(t.type, And(IF IsChoiceNode(t, p) THEN Sym(t.sym[p]) ELSE t.dep[p],
                            Small(t, t.dep[m])))
\* select and imply reach the symbols they name.
Selected(t, s, p) == And(Sym(s), p.cond)
SelectFrom(t, s, m, props) ==
  LET Force(u, q) ==
        IF q.node # m \/ ~(q.kind \in {"select", "imply"}) THEN u
        ELSE IF q.kind = "select"
             THEN [u EXCEPT !.rev[q.what[2]] = Or(@, Selected(t, s, q))]
             ELSE [u EXCEPT !.imp[q.what[2]] = Or(@, Selected(t, s, q))]
  IN FoldLeft(Force, [t EXCEPT !.props[s] = props], props)
\* The dependency and the properties of kid m below p.
PropagateBase(t, s, m, base) ==
  IF s = "" THEN [t EXCEPT !.dep[m] = base, !.cond[m] = Within(t, s, base, @)]
  ELSE SelectFrom([t EXCEPT !.dep[m] = base], s, m,
         [i \in DOMAIN t.props[s] |->
            IF t.props[s][i].node # m THEN t.props[s][i]
            ELSE [t.props[s][i] EXCEPT !.cond = Within(t, s, base, @)]])
Propagate(t, p, m) == PropagateBase(t, t.sym[m], m, DepBelow(t, p, m))

\* A value joins its choice; a bool in a tristate choice needs it to be `y'.
JoinChoice(t, p, m) ==
  LET c == t.sym[p]
      s == t.sym[m]
      u == [t EXCEPT !.choice[s] = c, !.member[c] = Append(@, s)]
      base == Comp("=", c, "y")
  IN IF ~(t.type[c] = "tristate" /\ t.type[s] # "tristate") THEN u
     ELSE [u EXCEPT !.dep[m] = And(base, @),
                    !.props[s] = [i \in DOMAIN @ |->
                       IF @[i].node # m THEN @[i]
                       ELSE [@[i] EXCEPT !.cond = And(base, @)]]]

\* A slip for Splice: the kids come before the entry they were below.
SpliceBefore(t, p, i) ==
  LET m  == t.kids[p][i]
      ks == t.kids[m]
  IN IF ks = <<>> \/ HasPrompt(t, m) THEN t
     ELSE [t EXCEPT !.kids = [@ EXCEPT ![p] = SubSeq(@, 1, i - 1) \o ks
                                                 \o SubSeq(@, i, Len(@)), ![m] = <<>>],
                    !.up = [k \in ToSet(ks) |-> p] @@ @]
\* An entry without a title gives its kids to its own parent.
Splice(t, p, i) ==
  LET m  == t.kids[p][i]
      ks == t.kids[m]
  IN IF ks = <<>> \/ HasPrompt(t, m) THEN t
     ELSE [t EXCEPT !.kids = [@ EXCEPT ![p] = SubSeq(@, 1, i) \o ks
                                                 \o SubSeq(@, i + 1, Len(@)),
                                       ![m] = <<>>],
                    !.up = [k \in ToSet(ks) |-> p] @@ @]
JoinIfValue(t, p, m) ==
  IF IsChoiceNode(t, p) /\ t.sym[m] # "" /\ ~IsChoiceValue(t, t.sym[m])
  THEN JoinChoice(t, p, m) ELSE t
RECURSIVE Flatten(_, _, _)
Flatten(t, p, i) ==
  IF i > Len(t.kids[p]) THEN t
  ELSE Flatten(Splice(JoinIfValue(t, p, t.kids[p][i]), p, i), p, i + 1)

\* A choice that is not optional is selected to `m' where it is visible.
Mandatory(t, p) ==
  IF p = Root \/ t.sym[p] = "" \/ IsOptional(t, p) \/ ~HasPrompt(t, p) THEN t
  ELSE [t EXCEPT !.rev[t.sym[p]] = Or(@, And(PromptCond(t, p), Sym("m")))]

RECURSIVE MenuFinalize(_, _)
RECURSIVE FinalizeKids(_, _, _)
FinalizeKids(t, p, i) ==
  IF i > Len(t.kids[p]) THEN t
  ELSE FinalizeKids(MenuFinalize(t, t.kids[p][i]), p, i + 1)

\* The entries behind n, from position i of its list g, that go below n.
Inside(t, n, m) ==
  LET e == IF m # Root /\ HasPrompt(t, m) THEN PromptCond(t, m) ELSE t.dep[m]
  IN /\ ContainsSymbol(e, t.sym[n])
     /\ DependsSymbol(e, t.sym[n]) \/ Superset(t.type, PromptCond(t, n), e)
RECURSIVE Gather(_, _, _, _)
Gather(t, g, n, i) ==
  IF i > Len(t.kids[g]) THEN t
  ELSE LET m == t.kids[g][i] IN
       IF ~Inside(t, n, m) THEN t
       ELSE Gather([MenuFinalize(t, m) EXCEPT !.up[m] = n], g, n, i + 1)
\* t.up has been changed, and the lists follow it.
MoveBelow(t, g, n) ==
  LET mine == SelectSeq(t.kids[g], LAMBDA m : t.up[m] = n)
  IN [t EXCEPT !.kids = [@ EXCEPT ![n] = mine, ![g] = SelectSeq(@, LAMBDA m : t.up[m] # n)],
               !.dir[t.sym[n]] = Or(@, t.dep[n])]
AutoSubmenu(t, n) ==
  LET g == t.up[n]
  IN MoveBelow(Gather(t, g, n, Position(t.kids[g], n) + 1), g, n)

PropagateAll(t, p) ==
  FoldLeft(LAMBDA u, m : Propagate(u, p, m), t, t.kids[p])
FinalizeBelow(t, p) ==
  IF t.kids[p] # <<>>
  THEN FinalizeKids(PropagateAll(IF IsChoiceNode(t, p) THEN SetChoiceType(t, p) ELSE t, p), p, 1)
  ELSE IF t.sym[p] # "" THEN AutoSubmenu(t, p) ELSE t
MenuFinalize(t, p) == Mandatory(Flatten(FinalizeBelow(t, p), p, 1), p)

-----------------------------------------------------------------------------
(* sym_check_deps: `check' are the symbols being looked into, `checked' the *)
(* finished ones, bad the symbol a circle comes back to.                    *)
Refers(t, s) ==
  LET Of(q) == IF q.kind \in {"select", "imply"} THEN <<>>
               ELSE SymbolsOf(q.cond) \o
                    (IF q.kind = "default" /\ ~IsChoice(t, s) THEN SymbolsOf(q.what)
                     ELSE <<>>)
  IN SymbolsOf(t.dir[s]) \o SymbolsOf(t.rev[s]) \o SymbolsOf(t.imp[s])
     \o FlattenSeq([i \in DOMAIN t.props[s] |-> Of(t.props[s][i])])

RECURSIVE CheckDeps(_, _, _)
CheckEach(t, d, ss) ==
  FoldLeft(LAMBDA e, s : IF e.bad # "" THEN e ELSE CheckDeps(t, e, s), d, ss)
CheckSymDeps(t, d, s) == CheckEach(t, d, Refers(t, s))
Entered(d, ss) == [d EXCEPT !.check = @ \cup ss, !.checked = @ \cup ss]
Left(d, ss) == [d EXCEPT !.check = @ \ ss]
LeftChoice(d, group, c) == [Left(d, group) EXCEPT !.bad = IF @ \in group THEN c ELSE @]
CheckMembers(t, d, c) ==
  FoldLeft(LAMBDA e, s : IF e.bad # "" THEN e ELSE CheckSymDeps(t, e, s), d, t.member[c])
CheckChoiceDeps(t, d, c) ==
  LET group == ToSet(t.member[c])
  IN LeftChoice(CheckMembers(t, Left(CheckSymDeps(t, Entered(d, group \cup {c}), c), {c}), c),
                group, c)
CheckSym(t, d, s) ==
  IF IsChoiceValue(t, s) THEN CheckDeps(t, d, t.choice[s])
  ELSE IF IsChoice(t, s) THEN CheckChoiceDeps(t, d, s)
  ELSE Left(CheckSymDeps(t, Entered(d, {s}), s), {s})
\* A slip for CheckDeps: what is being looked into counts as done.
CheckDepsDone(t, d, s) == IF s \in d.checked THEN d ELSE CheckSym(t, d, s)
CheckDeps(t, d, s) ==
  IF s \in d.check THEN [d EXCEPT !.bad = s]
  ELSE IF s \in d.checked THEN d
  ELSE CheckSym(t, d, s)

\* for_all_symbols: the order is that of a hash table, some order.
Listed(S) == FoldSet(LAMBDA x, ls : Append(ls, x), <<>>, S)
\* conf_parse asks for every symbol; one error is enough.
CountBad(d) == [d EXCEPT !.errors = IF d.bad # "" THEN @ + 1 ELSE @]
Recursive(t) ==
  FoldLeft(LAMBDA d, s : CountBad(CheckDeps(t, [d EXCEPT !.bad = ""], s)),
           [check |-> {}, checked |-> {}, bad |-> "", errors |-> 0],
           Listed(DOMAIN t.type)).errors > 0

ConfParse(text) == MenuFinalize(Parsed(text), Root)

\* The tree in the order of a walk from its root.
RECURSIVE Preorder(_, _)
Preorder(t, n) == FlattenSeq([i \in DOMAIN t.kids[n] |->
                     <<t.kids[n][i]>> \o Preorder(t, t.kids[n][i])])
=============================================================================
