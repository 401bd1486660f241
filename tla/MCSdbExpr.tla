----------------------------- MODULE MCSdbExpr -----------------------------
(* Instances of SdbExpr for TLC.                                            *)
EXTENDS SdbExpr, TLC

MCRegs == "a0" :> 2
Atom(type, val) == <<"atom", Token(type, val)>>
Address == Atom(TK.HEX, 40)
Numbers == {Atom(TK.NUM, 3), Atom(TK.NUM, -2), Atom(TK.REG, "a0")}
Atoms == Numbers \cup {Address}
Binary == {TK.OR, TK.AND, TK.EQ, TK.UEQ, TK.PLUS, TK.SUB, TK.MULT, TK.DIV}
Bin(E, F) == {<<"bin", type, e, f>> : type \in Binary, e \in E, f \in F}
Simple == Atoms \cup Bin(Numbers, Numbers) \cup {<<"deref", e>> : e \in {Address} \cup Numbers}
          \cup {Atom(TK.REG, "zz")}
MCExpressions == Simple \cup Bin(Simple, Simple)
                 \cup {<<"deref", e>> : e \in Bin(Simple, Atoms)}
=============================================================================
