------------------------------ MODULE SdbExpr ------------------------------
(***************************************************************************)
(* The monitor's expressions, csrc/sdb/expr.cpp: the line typed after `p'  *)
(* or `p/x' is split into tokens and evaluated by splitting it again and   *)
(* again at its main operator.  Integers are unbounded here.               *)
(***************************************************************************)
EXTENDS Integers, Sequences, SequencesExt, FiniteSetsExt

CONSTANTS Regs,         \* register names and their values
          PmemLeft, PmemRight,  \* the addresses that can be dereferenced
          Garbage,      \* an uninitialised int
          Expressions   \* what the user may type

\* The token types; a greater number binds tighter, 2k and 2k+1 alike.
TK == [BAD |-> 0, NOTYPE |-> 256, NUM |-> 257, HEX |-> 258, REG |-> 259, OR |-> 260,
       AND |-> 261, EQ |-> 262, UEQ |-> 263, PLUS |-> 264, SUB |-> 265, MULT |-> 266,
       DIV |-> 267, DEREF |-> 268, LBRACKET |-> 270, RBRACKET |-> 271]
Token(type, val) == [type |-> type, val |-> val]
Op(type) == Token(type, 0)
IsAtom(tok) == tok.type \in {TK.NUM, TK.HEX, TK.REG}

VARIABLES typed,    \* the expression at the prompt, or Nothing
          answer    \* what cmd_p has: success, result, and whether it crashed
vars == <<typed, answer>>
Nothing == <<"nothing">>

-----------------------------------------------------------------------------
(* make_token.  The line is a sequence of the words the rules match, except *)
(* that the rule for numbers, tried first, takes a minus it touches.        *)
EndsIn(toks, types) == toks # <<>> /\ toks[Len(toks)].type \in types
MinusNumber(line) == Len(line) > 1 /\ line[1].type = TK.SUB /\ line[2].type = TK.NUM
EndsOperand == {TK.NUM, TK.RBRACKET}
SplitMinus(toks) == toks = <<>> \/ EndsIn(toks, EndsOperand)

RECURSIVE MakeToken(_, _)
MakeToken(line, toks) ==
  IF line = <<>> THEN toks
  ELSE IF MinusNumber(line) THEN
    MakeToken(SubSeq(line, 3, Len(line)),
              toks \o IF SplitMinus(toks) THEN <<line[1], line[2]>>
                      ELSE <<Token(TK.NUM, -line[2].val)>>)
  ELSE MakeToken(Tail(line),
         CASE line[1].type = TK.NOTYPE -> toks
           [] line[1].type = TK.MULT ->
                Append(toks, Op(IF EndsIn(toks, EndsOperand \cup {TK.HEX, TK.REG})
                                THEN TK.MULT ELSE TK.DEREF))
           [] OTHER -> Append(toks, line[1]))
NoMatch(line) == \E i \in DOMAIN line : line[i].type = TK.BAD

-----------------------------------------------------------------------------
\* The brackets open after the tokens p .. i.
Depth(t, p, i) == Cardinality({k \in p .. i : t[k].type = TK.LBRACKET})
                  - Cardinality({k \in p .. i : t[k].type = TK.RBRACKET})
Bracketed(t, p, q) == t[p].type = TK.LBRACKET /\ t[q].type = TK.RBRACKET
\* Where the count stops: at the first negative depth or at q.
Stop(t, p, q) == Min({q} \cup {i \in p .. q : Depth(t, p, i) < 0})
CheckParentheses(t, p, q) ==
  /\ Bracketed(t, p, q) /\ Depth(t, p, Stop(t, p, q)) = 0
  /\ \A i \in p .. q - 1 : Depth(t, p, i) # 0
BadParentheses(t, p, q) == Bracketed(t, p, q) /\ Depth(t, p, Stop(t, p, q)) # 0

\* get_main_operation_index: the last of the loosest operators outside brackets.
Closing(t, i) == Min({j \in i .. Len(t) : Depth(t, i, j) = 0})
\* Mutant: of two equal operators the first is the main one.
LooserStrictly(t, i, m, p) == t[i].type < t[m].type \/ (m = p /\ IsAtom(t[m]))
Looser(t, i, m, p) == \/ t[i].type <= t[m].type
                      \/ t[i].type \div 2 = t[m].type \div 2
                      \/ m = p /\ IsAtom(t[m])
RECURSIVE MainFrom(_, _, _, _, _)
MainFrom(t, i, m, p, q) ==
  IF i >= q THEN m
  ELSE IF IsAtom(t[i]) THEN MainFrom(t, i + 1, m, p, q)
  ELSE LET j == IF t[i].type = TK.LBRACKET THEN Closing(t, i) ELSE i
       IN MainFrom(t, j + 1, IF Looser(t, j, m, p) THEN j ELSE m, p, q)
MainOperator(t, p, q) == MainFrom(t, p, p, p, q)

-----------------------------------------------------------------------------
(* eval returns the value and the flag the C function leaves in *success.   *)
Value(val, success) == [val |-> val, success |-> success, crash |-> FALSE]
Crash == [val |-> 0, success |-> FALSE, crash |-> TRUE]
Truth(b) == IF b THEN 1 ELSE 0
\* C's division truncates.
Quotient(a, b) == LET q == (IF a < 0 THEN -a ELSE a) \div (IF b < 0 THEN -b ELSE b)
                  IN IF (a < 0) = (b < 0) THEN q ELSE -q
Register(name) == IF name \in DOMAIN Regs THEN Value(Regs[name], TRUE) ELSE Value(0, FALSE)
Single(tok) == IF tok.type = TK.REG THEN Register(tok.val)
               ELSE IF IsAtom(tok) THEN Value(tok.val, TRUE) ELSE Value(Garbage, TRUE)
\* The switch over the main operator; success is what the operands left.
Apply(type, a, b, success) ==
  CASE type = TK.PLUS -> Value(a + b, success)
    [] type = TK.SUB -> Value(a - b, success)
    [] type = TK.MULT -> Value(a * b, success)
    [] type = TK.DIV -> IF b # 0 THEN Value(Quotient(a, b), success) ELSE Value(0, FALSE)
    [] type = TK.DEREF -> Value(0, success /\ b \in PmemLeft .. PmemRight)
    [] type = TK.EQ -> Value(Truth(a = b), success)
    [] type = TK.UEQ -> Value(Truth(a # b), success)
    [] type = TK.AND -> Value(Truth(a # 0 /\ b # 0), success)
    [] type = TK.OR -> Value(Truth(a # 0 \/ b # 0), success)
    [] OTHER -> Crash
\* p and q count from 1: q = 0 is the C function's q < 0.
RECURSIVE Eval(_, _, _, _)
Eval(t, p, q, success) ==
  IF q = 0 THEN Value(0, success)
  ELSE IF p > q THEN Value(0, FALSE)
  ELSE IF p = q THEN Single(t[p])
  ELSE IF CheckParentheses(t, p, q) THEN Eval(t, p + 1, q - 1, success)
  ELSE LET op == MainOperator(t, p, q)
           left == Eval(t, p, op - 1, success)
           right == Eval(t, op + 1, q, left.success)
       IN IF left.crash \/ right.crash THEN Crash
          ELSE Apply(t[op].type, left.val, right.val, right.success)

\* expr: a bad outermost pair of brackets leaves *success as it was.
Expr(line, success) ==
  LET t == MakeToken(line, <<>>)
  IN CASE NoMatch(line) -> Value(0, FALSE)
       [] ~NoMatch(line) /\ BadParentheses(t, 1, Len(t)) -> Value(0, success)
       [] OTHER -> Eval(t, 1, Len(t), TRUE)

-----------------------------------------------------------------------------
(* What a user means: a tree, <<"atom", token>>, <<"deref", e>> or          *)
(* <<"bin", type, e, f>>, typed with the brackets C asks for.               *)
IsBin(e) == e[1] = "bin"
Bracket(e) == <<Op(TK.LBRACKET)>> \o e \o <<Op(TK.RBRACKET)>>
Logical == {TK.AND, TK.OR}
Level(type) == type \div 2
\* && beside || gets brackets too: see UserSees.
Tighter(type, child) == IF {type, child} = Logical THEN FALSE ELSE Level(child) > Level(type)
Space == <<Op(TK.NOTYPE)>>
AtomWords(tok) == IF tok.type = TK.NUM /\ tok.val < 0
                  THEN <<Op(TK.SUB), Token(TK.NUM, -tok.val)>> ELSE <<tok>>
\* A space keeps - and the number after it apart.
Gap(type, words) == IF words[1].type = TK.NUM /\ type = TK.SUB THEN Space ELSE <<>>
RECURSIVE Typed(_, _)
Typed(e, tight) ==
  CASE e[1] = "atom" -> AtomWords(e[2])
    [] e[1] = "deref" ->
         <<Op(TK.MULT)>> \o IF e[2][1] = "atom" THEN Typed(e[2], tight)
                            ELSE Bracket(Typed(e[2], tight))
    [] e[1] = "bin" ->
         LET Operand(f, bare) == IF IsBin(f) /\ ~bare THEN Bracket(Typed(f, tight))
                                 ELSE Typed(f, tight)
             right == Operand(e[4], IsBin(e[4]) /\ Tighter(e[2], e[4][2]))
         IN Operand(e[3], IsBin(e[3]) /\ (e[3][2] = e[2] \/ Tighter(e[2], e[3][2])
                                           \/ (Level(e[3][2]) = Level(e[2]) /\ e[2] \notin Logical)))
            \o <<Op(e[2])>> \o (IF tight THEN <<>> ELSE Gap(e[2], right)) \o right

\* The value of a tree, and whether each part of it has one.
RECURSIVE Meaning(_)
Meaning(e) ==
  CASE e[1] = "atom" -> Single(e[2])
    [] e[1] = "deref" -> LET a == Meaning(e[2]) IN Apply(TK.DEREF, 0, a.val, a.success)
    [] e[1] = "bin" -> LET a == Meaning(e[3])
                           b == Meaning(e[4])
                       IN Apply(e[2], a.val, b.val, a.success /\ b.success)

-----------------------------------------------------------------------------
Init == typed = Nothing /\ answer = Value(0, FALSE)
\* cmd_p, cmd_px: `p EXPR' with success false before the call.
CmdP == /\ typed = Nothing
        /\ \E e \in Expressions, tight \in BOOLEAN, tail \in {<<>>, <<Op(TK.BAD)>>} :
             LET line == Typed(e, tight) \o tail
             IN typed' = <<e, line>> /\ answer' = Expr(line, FALSE)
\* The next prompt: expr clears its tokens first and success is a local.
Prompt == typed # Nothing /\ typed' = Nothing /\ answer' = Value(0, FALSE)
Next == CmdP \/ Prompt
Spec == Init /\ [][Next]_vars

-----------------------------------------------------------------------------
\* A minus glued to a number after a hexadecimal number or a register is taken
\* for its sign: two operands and no operator, and eval asserts.
SwallowedMinus(line) ==
  \E i \in 1 .. Len(line) - 2 : line[i].type \in {TK.HEX, TK.REG}
                                /\ MinusNumber(SubSeq(line, i + 1, Len(line)))
\* What the user sees is what the line means, for cmd_p (sdb.cpp) and expr.cpp:
\* a line that lexes is evaluated without a crash, whenever it has a value the
\* value is printed, and when its outermost operation is what fails, or it holds
\* a word no rule matches, the user is told.  Lines with a swallowed minus are
\* left out, && and || never stand side by side, and a failure inside is not
\* required to be reported: the code lets the next operand clear the flag.
UserSees ==
  typed # Nothing =>
    LET e == typed[1]
        line == typed[2]
        meant == Meaning(e)
        inner == e[1] # "atom" => \A i \in (IF IsBin(e) THEN 3 .. 4 ELSE {2}) :
                                     Meaning(e[i]).success
    IN CASE NoMatch(line) -> ~answer.success
         [] ~NoMatch(line) /\ SwallowedMinus(line) -> TRUE
         [] OTHER -> /\ ~answer.crash
                     /\ inner => answer = meant
=============================================================================
