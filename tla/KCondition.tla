----------------------------- MODULE KCondition -----------------------------
(***************************************************************************)
(* The life of one dependency in menu_finalize (tools/kconfig/menu.c): the *)
(* condition written on an entry is rewritten, simplified, joined with the *)
(* condition of the menu around it and, for a symbol that is no tristate,  *)
(* reduced to a bool; then it decides whether the entry belongs into the   *)
(* submenu of a symbol in front of it.  All rewriting is KExpr's.          *)
(***************************************************************************)
EXTENDS KExpr

CONSTANTS
  Type,      \* symbol -> its type; "const" for y, m and n
  MODULES,   \* the name of modules_sym
  Raw,       \* conditions as they are written
  Around,    \* conditions of menus and symbols around them
  Envs,      \* values the symbols may have together
  First      \* the symbol in front

VARIABLES raw, around, tristate, dep, verdict, stage
vars == <<raw, around, tristate, dep, verdict, stage>>

Init == /\ raw \in Raw /\ around \in Around /\ tristate \in BOOLEAN
        /\ dep = raw /\ verdict = "none" /\ stage = "raw"

Becomes(from, to, e) ==
  /\ stage = from /\ stage' = to /\ dep' = e
  /\ UNCHANGED <<raw, around, tristate, verdict>>
Rewrite   == Becomes("raw", "rewritten", RewriteM(dep, MODULES))
Simplify  == Becomes("rewritten", "simple", Transform(Type, dep))
Propagate == Becomes("simple", "joined", And(around, dep))
Eliminate == Becomes("joined", "small", EliminateDups(Type, dep))
Reduce    == Becomes("small", "visible",
                     IF tristate THEN dep ELSE TransBool(Type, dep))

\* The automatic submenu of First, whose own condition is base.
Inside(base, e) == /\ ContainsSymbol(e, First)
                   /\ DependsSymbol(e, First) \/ Superset(Type, base, e)
Examine == /\ stage = "visible" /\ stage' = "examined"
           /\ \E base \in Around :
                /\ around' = base
                /\ verdict' = IF ~Inside(base, dep) THEN "beside"
                              ELSE IF DependsSymbol(dep, First) THEN "depends"
                              ELSE "superset"
           /\ UNCHANGED <<raw, tristate, dep>>

Next == Rewrite \/ Simplify \/ Propagate \/ Eliminate \/ Reduce \/ Examine
Spec == Init /\ [][Next]_vars

-----------------------------------------------------------------------------
Value(env, e) == CalcValue(Type, env, e)

\* What a written condition means: `m' counts only with MODULES.
RECURSIVE Meaning(_, _)
Meaning(env, e) ==
  CASE e[1] = "not" -> 2 - Meaning(env, e[2])
    [] e[1] = "and" -> Min2(Meaning(env, e[2]), Meaning(env, e[3]))
    [] e[1] = "or"  -> Max2(Meaning(env, e[2]), Meaning(env, e[3]))
    [] e = Sym("m") -> Min2(1, env[MODULES].tri)
    [] OTHER -> Value(env, e)

(* Simplification never changes what a condition allows: for every value of *)
(* the symbols the result is the written condition below the one around it, *)
(* and for a symbol that is not a tristate it is `n' exactly when that is   *)
(* (expr_transform, expr_join_or/and, expr_eliminate_dups, expr_trans_bool).*)
MeaningKept ==
  stage \in {"small", "visible"} =>
    \A env \in Envs :
      LET is == Value(env, dep)
          was == Min2(Meaning(env, raw), Value(env, around))
      IN IF tristate \/ stage = "small" THEN is = was ELSE (is = 0) = (was = 0)

(* An entry is moved below a symbol only if it can be visible only where the*)
(* symbol is: because its condition holds only if the symbol is set, or     *)
(* because it holds only if the symbol's own condition does                 *)
(* (menu_finalize's "superset", by expr_eliminate_eq and expr_eq).          *)
SubmenuSound ==
  stage = "examined" =>
    \A env \in Envs :
      Value(env, dep) # 0 =>
        /\ verdict = "depends"  => env[First].tri # 0
        /\ verdict = "superset" => Value(env, around) # 0

\* Reading a printed condition back: || weakest, then &&, then !.
Depth(ts, i) == Len(SelectSeq(SubSeq(ts, 1, i), LAMBDA t : t = "("))
                - Len(SelectSeq(SubSeq(ts, 1, i), LAMBDA t : t = ")"))
Splits(ts, t) == {i \in DOMAIN ts : ts[i] = t /\ Depth(ts, i) = 0}
RECURSIVE Reads(_, _)
Reads(env, ts) ==
  LET On(t) == CHOOSE i \in Splits(ts, t) : TRUE
      L(t) == Reads(env, SubSeq(ts, 1, On(t) - 1))
      R(t) == Reads(env, SubSeq(ts, On(t) + 1, Len(ts)))
  IN CASE Splits(ts, "||") # {} -> Max2(L("||"), R("||"))
       [] Splits(ts, "||") = {} /\ Splits(ts, "&&") # {} -> Min2(L("&&"), R("&&"))
       [] OTHER ->
            CASE ts[1] = "!" -> 2 - Reads(env, Tail(ts))
              [] ts[1] = "(" -> Reads(env, SubSeq(ts, 2, Len(ts) - 1))
              [] Len(ts) = 3 -> Value(env, Comp(ts[2], ts[1], ts[3]))
              [] OTHER -> Value(env, Sym(ts[1]))

(* A condition printed in help texts and warnings reads back as the one     *)
(* that is evaluated (expr_print's parentheses).                            *)
PrintReadsBack ==
  stage = "visible" => \A env \in Envs : Reads(env, PrintExpr(dep, "none")) = Value(env, dep)
=============================================================================
