----------------------------- MODULE MCKSession -----------------------------
(* Instances of KSession for TLC.                                           *)
EXTENDS KSession

Entry(kind, s, up) ==
  [kind |-> kind, sym |-> s, up |-> up, type |-> "bool", optional |-> FALSE, dep |-> Null,
   vis |-> Null, prompt |-> TRUE, cond |-> Null, props |-> <<>>]
Bool(s, up, dep) == [Entry("config", s, up) EXCEPT !.dep = dep]
Typing(e, type) == [e EXCEPT !.type = type]
With(e, props) == [e EXCEPT !.props = props]
Silent(e) == [e EXCEPT !.prompt = FALSE]
Default(v, cond) == Written(Sym(v), "default", cond)
Select(v, cond) == Written(Sym(v), "select", cond)
Imply(v, cond) == Written(Sym(v), "imply", cond)
Between(a, b, cond) == Written(<<"range", a, b>>, "range", cond)
File(modules, entries) == [modules |-> modules, entries |-> entries]

\* A bool with an int below it, a choice, a symbol selected by one of its
\* values; and the same after an edit: a narrower range, no choice.
Plain == File("n", <<
  Entry("menu", "", 0),
  With(Bool("A", 1, Null), <<Default("y", Null)>>),
  With(Typing(Bool("N", 1, Sym("A")), "int"),
       <<Between("1", "5", Null), Default("3", Null)>>),
  Entry("choice", "<c>", 0),
  Bool("C", 4, Null),
  With(Bool("D", 4, Sym("A")), <<Select("S", Null)>>),
  Bool("S", 0, Null)>>)
Edited == File("n", <<
  With(Typing(Bool("N", 0, Null), "int"),
       <<Between("4", "5", Null), Default("4", Null)>>),
  Bool("A", 0, Comp("<", "N", "5")),
  Bool("S", 0, Sym("C"))>>)
\* MODULES, and a tristate that another one selects.
Modular == File("M", <<
  Bool("M", 0, Null),
  Typing(Bool("T", 0, Null), "tristate"),
  With(Typing(Bool("U", 0, Null), "tristate"), <<Select("T", Null), Imply("V", Sym("m"))>>),
  Typing(Bool("V", 0, Sym("U")), "tristate")>>)

\* Kconfigs that are only read: a title, a block, a choice or a symbol, and two
\* symbols below or behind it.
Heads == <<[Entry("menu", "", 0) EXCEPT !.dep = Sym("B")],
           Silent([Entry("if", "", 0) EXCEPT !.dep = Sym("C")]),
           Entry("choice", "<c>", 0), Bool("A", 0, Null)>>
Nestings(h) == IF h = 4 THEN << <<0, 0>> >> ELSE << <<0, 0>>, <<1, 0>>, <<1, 1>> >>
Seconds == <<Bool("B", 0, Null), Bool("B", 0, Sym("A")), Bool("B", 0, Not(Sym("A"))),
             With(Bool("B", 0, Null), <<Select("C", Null)>>),
             With(Bool("B", 0, Sym("A")), <<Default("C", Null)>>)>>
Thirds == <<Bool("C", 0, Null), Bool("C", 0, Sym("B")),
            Bool("C", 0, <<"and", Sym("A"), Comp("!=", "B", "n")>>),
            With(Silent(Bool("C", 0, Sym("B"))), <<Default("A", Null)>>)>>
Pick(seq, i, w) == seq[((i \div w) % Len(seq)) + 1]
Family == [i \in 1 .. 240 |->
  LET h  == Pick(<<1, 2, 3, 4>>, i, 1)
      up == Pick(Nestings(h), i, 80)
  IN File("n", <<Heads[h], [Pick(Seconds, i, 4) EXCEPT !.up = up[1]],
                 [Pick(Thirds, i, 20) EXCEPT !.up = up[2]]>>)]
Trees == <<{<<>>, << << <<"A", "y">>, <<"N", "4">>, <<"D", "y">>, <<"Z", "y">> >> >>},
           {<< << <<"N", "7">> >> >>},
           {<< << <<"M", "y">>, <<"U", "m">>, <<"V", "y">> >> >>} >>
MCTexts == <<Plain, Edited, Modular>> \o Family
MCConfigs == [k \in DOMAIN MCTexts |-> IF k <= 3 THEN Trees[k] ELSE {}]
MCNames == AllNames
MCTyped == {"2", "5"}
MCStringOrder == <<"", "0", "1", "2", "3", "4", "5", "7", "m", "n", "y">>
=============================================================================
