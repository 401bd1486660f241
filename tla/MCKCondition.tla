---------------------------- MODULE MCKCondition ----------------------------
(* Instances of KCondition for TLC.                                         *)
EXTENDS KCondition, TLC

MCStringOrder == <<"", "-1", "0", "1", "10", "2", "m", "n", "y">>

\* A bool, two tristates, MODULES, an int and a hex; constants.
MCType == [B |-> "bool", T |-> "tristate", U |-> "tristate", M |-> "bool",
           I |-> "int", H |-> "hex"]
          @@ [c \in Tristates |-> "const"] @@ ("2" :> "unknown")

Cell(tri, str) == [tri |-> tri, str |-> str]
Tri(v) == Cell(v, CASE v = 0 -> "n" [] v = 1 -> "m" [] v = 2 -> "y")
Fixed == [y |-> Tri(2), m |-> Tri(1), n |-> Tri(0)] @@ ("2" :> Cell(0, "2"))
\* Without MODULES no tristate is m; numbers may be unset.
MCEnvs ==
  {[B |-> Tri(b), T |-> Tri(t), U |-> Tri(u), M |-> Tri(m),
    I |-> Cell(0, i[1]), H |-> Cell(0, i[2])] @@ Fixed :
      <<b, t, u, m, i>> \in
        {<<b, t, u, m, i>> \in {0, 2} \X {0, 1, 2} \X {0, 2} \X {0, 2}
                               \X {<<"10", "-1">>, <<"", "1">>} :
           t = 1 => m = 2}}

Atoms == {Sym("B"), Sym("T"), Sym("m"), Comp("=", "B", "n"), Comp("!=", "B", "m"),
          Comp("=", "T", "y"), Comp("=", "T", "m"), Comp("!=", "T", "n"),
          Comp("!=", "T", "m"), Comp("<", "I", "2"), Comp("<=", "H", "I")}
Few == {Sym("B"), Sym("T"), Comp("!=", "T", "n")}
Under(S, R) == {<<op, e, f>> : op \in {"and", "or"}, e \in S, f \in R}
Small == Atoms \cup {Not(e) : e \in Atoms} \cup Under(Atoms, Atoms)
MCRaw == Small \cup {Null} \cup {Not(e) : e \in Under(Atoms, Few)}
         \cup Under(Under(Atoms, Few), Few)
MCAround == {Null, Sym("T"), <<"or", Sym("T"), Sym("U")>>,
             <<"and", Sym("B"), Comp("=", "T", "m")>>}
=============================================================================
