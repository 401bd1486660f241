------------------------------- MODULE KExpr -------------------------------
(***************************************************************************)
(* Dependency expressions of tools/kconfig/expr.c as trees: <<"sym", s>>,  *)
(* <<"not", e>>, <<"and", e, f>>, <<"or", e, f>>, a comparison of two      *)
(* symbols <<op, s, t>>, or Null.  The C functions rewrite trees in place; *)
(* here each returns the tree it leaves.  `ty' is the type of each symbol. *)
(***************************************************************************)
EXTENDS Integers, Sequences, SequencesExt

CONSTANT StringOrder  \* every string that can be a value, in strcmp's order

Null == <<"null">>
Relations == {"=", "!=", "<", "<=", ">", ">="}
Sym(s) == <<"sym", s>>
Not(e) == <<"not", e>>
Comp(op, s, t) == <<op, s, t>>
Yes == Sym("y")
No == Sym("n")
Tristates == {"y", "m", "n"}
IsConst(ty, s) == ty[s] = "const"      \* SYMBOL_CONST

\* expr_alloc_and, expr_alloc_or: Null is no operand.
Alloc(t, e, f) == IF e = Null THEN f ELSE IF f = Null THEN e ELSE <<t, e, f>>
And(e, f) == Alloc("and", e, f)
Or(e, f) == Alloc("or", e, f)
IsYes(e) == e = Null \/ e = Yes

-----------------------------------------------------------------------------
(* expr_calc_value: env gives each symbol's tristate and its string.        *)
RankOf(str) == CHOOSE i \in DOMAIN StringOrder : StringOrder[i] = str
Sign(a, b) == IF a < b THEN -1 ELSE IF a > b THEN 1 ELSE 0
MaxNumeral == 20
\* How a number is written; 0x is no decimal number.
Spelled(k, type) == {ToString(k)} \cup (IF type = "int" THEN {} ELSE {"0x" \o ToString(k)})
Numerals(str, type) == {k \in -1 .. MaxNumeral : str \in Spelled(k, type)}

ParsedTo(ks, type) ==
  IF ks = {} THEN [kind |-> "string", n |-> 0]
  ELSE [kind |-> IF type = "hex" THEN "unsigned" ELSE "signed", n |-> CHOOSE k \in ks : TRUE]
ParseString(str, type) ==
  ParsedTo(IF ~(type \in {"bool", "tristate"}) THEN Numerals(str, type)
           ELSE CASE str = "n" -> {0} [] str = "m" -> {1} [] str = "y" -> {2} [] OTHER -> {-1},
           type)

\* By what the operands are compared: as strings if one is no number; as
\* unsigned 64-bit numbers, of which the negative ones are the largest, if one is.
Measure(kinds, p, str) ==
  IF "string" \in kinds THEN RankOf(str)
  ELSE IF "unsigned" \in kinds /\ p.n < 0 THEN MaxNumeral + 1 ELSE p.n
CompareBy(m, s, t) == Sign(m[s], m[t])
CompareParsed(p, env, kinds, s, t) ==
  CompareBy([x \in {s, t} |-> Measure(kinds, p[x], env[x].str)], s, t)
KindsOf(p, ty, s, t) == IF ty[s] = "string" /\ ty[t] = "string" THEN {"string"}
                        ELSE {p[s].kind, p[t].kind}
CompareOn(p, ty, env, s, t) == CompareParsed(p, env, KindsOf(p, ty, s, t), s, t)
Compare(ty, env, s, t) ==
  CompareOn([x \in {s, t} |-> ParseString(env[x].str, ty[x])], ty, env, s, t)

Holds(op, r) == CASE op = "="  -> r = 0  [] op = "!=" -> r # 0
                  [] op = "<"  -> r < 0  [] op = "<=" -> r <= 0
                  [] op = ">"  -> r > 0  [] op = ">=" -> r >= 0

Min2(a, b) == IF a < b THEN a ELSE b
Max2(a, b) == IF a > b THEN a ELSE b

RECURSIVE CalcValue(_, _, _)
CalcValue(ty, env, e) ==
  CASE e[1] = "null" -> 2
    [] e[1] = "sym"  -> env[e[2]].tri
    [] e[1] = "not"  -> 2 - CalcValue(ty, env, e[2])
    [] e[1] = "and"  -> Min2(CalcValue(ty, env, e[2]), CalcValue(ty, env, e[3]))
    [] e[1] = "or"   -> Max2(CalcValue(ty, env, e[2]), CalcValue(ty, env, e[3]))
    [] OTHER -> IF Holds(e[1], Compare(ty, env, e[2], e[3])) THEN 2 ELSE 0

-----------------------------------------------------------------------------
(* expr_eliminate_yn.                                                      *)
RECURSIVE EliminateYn(_)
EliminateYn(e) ==
  IF ~(e[1] \in {"and", "or"}) THEN e
  ELSE LET l    == EliminateYn(e[2])
           r    == EliminateYn(e[3])
           unit == IF e[1] = "and" THEN Yes ELSE No
           zero == IF e[1] = "and" THEN No ELSE Yes
       IN IF l = zero \/ r = zero THEN zero
          ELSE IF l = unit THEN r
          ELSE IF r = unit THEN l
          ELSE <<e[1], l, r>>

(* The operands of e at the level of t, and e with other operands there.   *)
RECURSIVE Leaves(_, _)
Leaves(t, e) == IF e[1] = t THEN Leaves(t, e[2]) \o Leaves(t, e[3]) ELSE <<e>>
RECURSIVE Rebuild(_, _, _)
Rebuild(t, e, ls) ==
  IF e[1] # t THEN ls[1]
  ELSE LET n == Len(Leaves(t, e[2]))
       IN <<t, Rebuild(t, e[2], SubSeq(ls, 1, n)),
               Rebuild(t, e[3], SubSeq(ls, n + 1, Len(ls)))>>
Unit(t) == IF t = "or" THEN No ELSE Yes
\* (1,1), (1,2), ..., (n,m): the order of the two nested recursions.
Pairs(n, m) == [k \in 1 .. n * m |-> <<((k - 1) \div m) + 1, ((k - 1) % m) + 1>>]

(* expr_eq and expr_eliminate_eq, which call each other.                   *)
RECURSIVE ExprEq(_, _)
\* __expr_eliminate_eq: equal operands of the pair become the unit of t.
Cancel(a, b) == ~(a = b /\ a \in {Yes, No}) /\ ExprEq(a, b)
RebuildBoth(t, e, f, ls) == <<Rebuild(t, e, ls[1]), Rebuild(t, f, ls[2])>>
EliminateEqOf(t, e, f) ==
  LET Step(ls, ij) ==
        IF ~Cancel(ls[1][ij[1]], ls[2][ij[2]]) THEN ls
        ELSE <<[ls[1] EXCEPT ![ij[1]] = Unit(t)], [ls[2] EXCEPT ![ij[2]] = Unit(t)]>>
  IN RebuildBoth(t, e, f,
       FoldLeft(Step, <<Leaves(t, e), Leaves(t, f)>>,
                Pairs(Len(Leaves(t, e)), Len(Leaves(t, f)))))
\* At the level of t, unless t is no operator; then at that of the second.
EliminateEqAt(t, e, f) == IF t \in {"and", "or"} THEN EliminateEqOf(t, e, f) ELSE <<e, f>>
EliminateEqAgain(p) == IF p[1][1] # p[2][1] THEN EliminateEqAt(p[2][1], p[1], p[2]) ELSE p
EliminateYnBoth(p) == <<EliminateYn(p[1]), EliminateYn(p[2])>>
EliminateEq(e, f) ==
  IF e = Null \/ f = Null THEN <<e, f>>
  ELSE EliminateYnBoth(EliminateEqAgain(EliminateEqAt(e[1], e, f)))
OneSymbol(p) == p[1][1] = "sym" /\ p[1] = p[2]
ExprEq(e, f) ==
  IF e = Null \/ f = Null THEN IsYes(e) /\ IsYes(f)
  ELSE /\ e[1] = f[1]
       /\ CASE e[1] = "not" -> ExprEq(e[2], f[2])
            [] e[1] \in {"and", "or"} -> OneSymbol(EliminateEq(e, f))
            [] OTHER -> e = f

-----------------------------------------------------------------------------
(* expr_trans_bool.                                                        *)
RECURSIVE TransBool(_, _)
TransBool(ty, e) ==
  CASE e[1] = "not" -> Not(TransBool(ty, e[2]))
    [] e[1] \in {"and", "or"} ->
         <<e[1], TransBool(ty, e[2]), TransBool(ty, e[3])>>
    [] e[1] = "!=" /\ ty[e[2]] = "tristate" /\ e[3] = "n" -> Sym(e[2])
    [] OTHER -> e

(* expr_join_or and expr_join_and: one operand for two, or Null.           *)
Joinable(e) == e[1] \in {"=", "!=", "sym", "not"}
\* The symbol an operand is about; the second operand's `not' must stand in
\* front of a symbol, the first one's may stand in front of a comparison.
About(e, inner) == IF e[1] # "not" THEN <<e[2]>>
                   ELSE IF e[2][1] \in inner THEN <<e[2][2]>> ELSE <<>>
SameSymbol(e, f) ==
  LET s == About(e, {"=", "!=", "sym"}) t == About(f, {"sym"})
  IN s # <<>> /\ s = t
Both(op, s, e, f, c, d) == {e, f} = {Comp(op, s, c), Comp(op, s, d)}

JoinOr(ty, e, f) ==
  IF ExprEq(e, f) THEN e
  ELSE IF ~(Joinable(e) /\ Joinable(f) /\ SameSymbol(e, f)) THEN Null
  ELSE LET s == About(e, {"=", "!=", "sym"})[1] IN
       CASE ty[s] = "tristate" ->
              (CASE Both("=", s, e, f, "y", "m") -> Comp("!=", s, "n")
                 [] Both("=", s, e, f, "y", "n") -> Comp("!=", s, "m")
                 [] Both("=", s, e, f, "m", "n") -> Comp("!=", s, "y")
                 [] OTHER -> Null)
         [] ty[s] = "bool" -> IF {e, f} = {Sym(s), Not(Sym(s))} THEN Yes ELSE Null
         [] OTHER -> Null

\* (a='b') && (a!='c') for constants b and c.
Excludes(ty, e, f) == /\ e[1] = "=" /\ f[1] = "!="
                      /\ IsConst(ty, e[3]) /\ IsConst(ty, f[3])
\* What the comment on (a!='m') && (a!='n') says: a='m'.
JoinAndAsCommented(ty, e, f) ==
  IF ExprEq(e, f) THEN e
  ELSE IF \E s \in DOMAIN ty : Both("!=", s, e, f, "m", "n") /\ ty[s] = "tristate"
       THEN Comp("=", e[2], "m") ELSE Null
JoinAnd(ty, e, f) ==
  IF ExprEq(e, f) THEN e
  ELSE IF ~(Joinable(e) /\ Joinable(f) /\ SameSymbol(e, f)) THEN Null
  ELSE LET s == About(e, {"=", "!=", "sym"})[1]
           With(op, c) == {e, f} = {Sym(s), Comp(op, s, c)} IN
       CASE ~(ty[s] \in {"bool", "tristate"}) -> Null
         [] With("=", "y")  -> Comp("=", s, "y")
         [] With("!=", "n") -> Sym(s)
         [] With("!=", "m") -> Comp("=", s, "y")
         [] ty[s] = "tristate" /\ Excludes(ty, e, f) ->
              IF e[3] # f[3] THEN Comp("=", s, e[3]) ELSE No
         [] ty[s] = "tristate" /\ Excludes(ty, f, e) ->
              IF e[3] # f[3] THEN Comp("=", s, f[3]) ELSE No
         [] ty[s] = "tristate" /\ Both("!=", s, e, f, "y", "n") -> Comp("=", s, "m")
         [] ty[s] = "tristate" /\ Both("!=", s, e, f, "y", "m") -> Comp("=", s, "n")
         [] ty[s] = "tristate" /\ Both("!=", s, e, f, "m", "n") -> Comp("=", s, "y")
         [] OTHER -> Null
Join(ty, t, e, f) == IF t = "or" THEN JoinOr(ty, e, f) ELSE JoinAnd(ty, e, f)

(* expr_eliminate_dups1: each operand against each other one, an operand   *)
(* of the other level first against itself.                                *)
RECURSIVE Dups1(_, _, _)
OwnDups(ty, e) == IF e[1] \in {"and", "or"} THEN Dups1(ty, e[1], e)
                  ELSE [e |-> e, joined |-> FALSE]
PutJoined(t, a, ij, own, tmp) ==
  [ls |-> IF tmp = Null THEN [a.ls EXCEPT ![ij[1]] = own.e]
          ELSE [a.ls EXCEPT ![ij[1]] = Unit(t), ![ij[2]] = tmp],
   joined |-> a.joined \/ own.joined \/ tmp # Null]
JoinPair(ty, t, a, ij, own) == PutJoined(t, a, ij, own, Join(ty, t, own.e, a.ls[ij[2]]))
RebuildJoined(t, e, a) == [e |-> Rebuild(t, e, a.ls), joined |-> a.joined]
Dups1(ty, t, e) ==
  LET Step(a, ij) == IF ij[1] = ij[2] THEN a
                     ELSE JoinPair(ty, t, a, ij, OwnDups(ty, a.ls[ij[1]]))
  IN RebuildJoined(t, e,
       FoldLeft(Step, [ls |-> Leaves(t, e), joined |-> FALSE],
                Pairs(Len(Leaves(t, e)), Len(Leaves(t, e)))))

(* expr_eliminate_dups: until a pass joins nothing (trans_count).          *)
RECURSIVE EliminateDups(_, _)
UntilNone(ty, r) == IF r.joined THEN EliminateDups(ty, EliminateYn(r.e)) ELSE r.e
EliminateDups(ty, e) ==
  IF e[1] \in {"and", "or"} THEN UntilNone(ty, Dups1(ty, e[1], e)) ELSE e

-----------------------------------------------------------------------------
(* expr_transform.                                                         *)
Opposite(op) == CASE op = "=" -> "!=" [] op = "!=" -> "=" [] op = "<=" -> ">"
                  [] op = ">=" -> "<" [] op = "<" -> ">=" [] op = ">" -> "<="
\* A comparison of a bool with a constant.
TransformComp(ty, e) ==
  IF ~(e[1] \in {"=", "!="}) \/ ty[e[2]] # "bool" \/ ~(e[3] \in Tristates) THEN e
  ELSE IF e[3] = "m" THEN IF e[1] = "=" THEN No ELSE Yes
  ELSE IF (e[1] = "=") = (e[3] = "y") THEN Sym(e[2]) ELSE Not(Sym(e[2]))
RECURSIVE Transform(_, _)
\* A `not' whose operand f has been transformed.
TransformNot(ty, f) ==
  CASE f[1] = "not" -> Transform(ty, f[2])
    [] f[1] \in Relations -> Comp(Opposite(f[1]), f[2], f[3])
    [] f[1] = "or"  -> Transform(ty, <<"and", Not(f[2]), Not(f[3])>>)
    [] f[1] = "and" -> Transform(ty, <<"or", Not(f[2]), Not(f[3])>>)
    [] f = Yes -> No
    [] f = No  -> Yes
    [] f = Sym("m") -> f
    [] OTHER -> Not(f)
Transform(ty, e) ==
  CASE e[1] \in {"null", "sym"} -> e
    [] e[1] \in Relations -> TransformComp(ty, e)
    [] e[1] = "not" -> TransformNot(ty, Transform(ty, e[2]))
    [] OTHER -> <<e[1], Transform(ty, e[2]), Transform(ty, e[3])>>

(* expr_trans_compare: e = s or e != s, for s `y' or `n'.                  *)
Flip(rel) == IF rel = "=" THEN "!=" ELSE "="
RECURSIVE TransCompare(_, _, _)
TransCompare(e, rel, s) ==
  CASE e[1] = "null" -> IF rel = "!=" THEN Not(Sym(s)) ELSE Sym(s)
    [] e[1] \in {"and", "or"} ->
         LET same == (e[1] = "and") = (s = "y")
             f == <<IF same THEN "and" ELSE "or",
                    TransCompare(e[2], "=", s), TransCompare(e[3], "=", s)>>
         IN IF rel = "!=" THEN Not(f) ELSE f
    [] e[1] = "not" -> TransCompare(e[2], Flip(rel), s)
    [] e[1] = "sym" -> Comp(rel, e[2], s)
    [] OTHER -> IF (rel = "=") = (s = "y") THEN e ELSE Not(e)

(* expr_contains_symbol and expr_depends_symbol.                           *)
RECURSIVE ContainsSymbol(_, _)
ContainsSymbol(e, s) ==
  CASE e[1] = "null" -> FALSE
    [] e[1] \in {"and", "or"} -> ContainsSymbol(e[2], s) \/ ContainsSymbol(e[3], s)
    [] e[1] = "not" -> ContainsSymbol(e[2], s)
    [] e[1] = "sym" -> e[2] = s
    [] OTHER -> e[2] = s \/ e[3] = s
RECURSIVE DependsSymbol(_, _)
\* A slip for DependsSymbol: one operand of `or' is enough.
DependsEither(e, s) ==
  CASE e[1] \in {"and", "or"} -> DependsSymbol(e[2], s) \/ DependsSymbol(e[3], s)
    [] e[1] = "sym" -> e[2] = s
    [] OTHER -> FALSE
DependsSymbol(e, s) ==
  CASE e[1] = "and" -> DependsSymbol(e[2], s) \/ DependsSymbol(e[3], s)
    [] e[1] = "sym" -> e[2] = s
    [] e[1] = "="  -> e[2] = s /\ e[3] \in {"y", "m"}
    [] e[1] = "!=" -> e[2] = s /\ e[3] = "n"
    [] OTHER -> FALSE

(* rewrite_m of menu.c: `m' needs MODULES.                                 *)
RECURSIVE RewriteM(_, _)
RewriteM(e, modules) ==
  CASE e[1] = "not" -> Not(RewriteM(e[2], modules))
    [] e[1] \in {"and", "or"} ->
         <<e[1], RewriteM(e[2], modules), RewriteM(e[3], modules)>>
    [] e = Sym("m") -> And(e, Sym(modules))
    [] OTHER -> e

-----------------------------------------------------------------------------
(* menu_finalize's test that e cannot hold without base.                    *)
Prepared(ty, e) == EliminateDups(ty, Transform(ty, TransCompare(e, "!=", "n")))
Superset(ty, base, e) == IsYes(EliminateEq(Prepared(ty, e), Prepared(ty, base))[2])

\* The symbols of an expression, in the order they are evaluated in.
RECURSIVE SymbolsOf(_)
SymbolsOf(e) == CASE e[1] = "null" -> <<>>
                  [] e[1] = "sym"  -> <<e[2]>>
                  [] e[1] = "not"  -> SymbolsOf(e[2])
                  [] e[1] \in {"and", "or"} -> SymbolsOf(e[2]) \o SymbolsOf(e[3])
                  [] OTHER -> <<e[2], e[3]>>

-----------------------------------------------------------------------------
(* expr_print: an operand gets parentheses when the operator around it     *)
(* binds tighter by expr_compare_type, whose cases fall through.           *)
\* A slip for Tightness: && and || change places.
TightnessSwapped(t) == CASE t = "not" -> 3 [] t = "or" -> 2 [] t = "and" -> 1
                         [] OTHER -> 0
Tightness(t) == CASE t \in {"<", "<=", ">", ">="} -> 5 [] t \in {"=", "!="} -> 4
                  [] t = "not" -> 3 [] t = "and" -> 2 [] t = "or" -> 1
                  [] OTHER -> 0
Parenthesised(outer, t) == Tightness(t) > 0 /\ Tightness(outer) > Tightness(t)
RECURSIVE PrintExpr(_, _)
PrintExpr(e, outer) ==
  LET body == CASE e[1] = "sym" -> <<e[2]>>
                [] e[1] = "not" -> <<"!">> \o PrintExpr(e[2], "not")
                [] e[1] = "and" -> PrintExpr(e[2], "and") \o <<"&&">> \o PrintExpr(e[3], "and")
                [] e[1] = "or"  -> PrintExpr(e[2], "or") \o <<"||">> \o PrintExpr(e[3], "or")
                [] OTHER -> <<e[2], e[1], e[3]>>
  IN IF e = Null THEN <<"y">>
     ELSE IF Parenthesised(outer, e[1]) THEN <<"(">> \o body \o <<")">> ELSE body
=============================================================================
