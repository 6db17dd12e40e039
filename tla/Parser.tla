-------------------------------- MODULE Parser --------------------------------
(***************************************************************************)
(* How an expression is read (mpr_expr_new_from_str of                     *)
(* src/src/mapper/expression.c): Dijkstra's shunting yard, one token at a  *)
(* time, with an output stack in postfix order and a stack of operators.   *)
(* Every operator that reaches the output is looked at by check_type,      *)
(* which computes what is constant and drops operators whose operand zero  *)
(* or one makes them superfluous.                                          *)
(*                                                                         *)
(* alphabet   the tokens of the string                                     *)
(* input      the tokens read, as the lexer tells them apart               *)
(* out, ops   the two stacks, the top last                                 *)
(* allow      the kinds of token allowed next                              *)
(* assigning  left of an assignment                                        *)
(* known      the user variables, and y, that have been assigned           *)
(* moved      history: check_type has dropped an operator by moving the    *)
(*            tokens of its right operand                                  *)
(* status     "reading", "accepted" or "rejected"                          *)
(***************************************************************************)
EXTENDS Integers, Sequences, SequencesExt, FiniteSets

CONSTANTS Alphabets,  \* the sets of tokens strings are made of
          MaxTokens,  \* bound: the length of a string
          Samples     \* values of x the results are compared for

VARIABLES alphabet, input, out, ops, allow, assigning, known, moved, status
vars == <<alphabet, input, out, ops, allow, assigning, known, moved, status>>

-----------------------------------------------------------------------------
(* The operators: op_tbl, fn_tbl and the integer operations behind them.   *)

Numerals == {"0", "1", "2", "3"}
Num(c) == CHOOSE n \in 0 .. 3 : ToString(n) = c
UserVars == {"a"}
Variables == {"x", "y"} \cup UserVars
Fns == {"max"}
Precedence == [o \in {"!", "*", "/", "+", "-", "<", "&&", "?", "?:"} |->
  CASE o = "!" -> 11 [] o \in {"*", "/"} -> 10 [] o \in {"+", "-"} -> 9
    [] o = "<" -> 7 [] o = "&&" -> 2 [] OTHER -> 0]
Operators == DOMAIN Precedence
BinaryOps == Operators \ {"!", "?", "?:"}
Arity(o) == IF o \in {"!", "vmax"} THEN 1 ELSE IF o = "?:" THEN 3 ELSE 2

Quot(a, b) == LET abs(n) == IF n < 0 THEN -n ELSE n
                  q == abs(a) \div abs(b)
              IN  IF (a < 0) = (b < 0) THEN q ELSE -q
Bool(b) == IF b THEN 1 ELSE 0
(* A division by zero has no value; nor has what is computed from it. *)
Undef == 9999
Apply(o, s) ==
  IF \E i \in DOMAIN s : s[i] = Undef THEN Undef
  ELSE CASE o = "+" -> s[1] + s[2] [] o = "-" -> s[1] - s[2] [] o = "*" -> s[1] * s[2]
         [] o = "/" -> IF s[2] = 0 THEN Undef ELSE Quot(s[1], s[2])
         [] o = "<" -> Bool(s[1] < s[2])
         [] o = "&&" -> Bool(s[1] # 0 /\ s[2] # 0)
         [] o = "!" -> Bool(s[1] = 0)
         [] o = "?:" -> IF s[1] # 0 THEN s[2] ELSE s[3]
         [] o = "max" -> IF s[1] > s[2] THEN s[1] ELSE s[2]
         [] o = "vmax" -> s[1]

(* Mutant: the two sides of a division are swapped. *)
ShortcutSwapped(o, left, one) ==
  CASE o = "*" -> IF one THEN "operand" ELSE "zero"
    [] o = "/" /\ ~one -> IF left THEN "bad" ELSE "zero"
    [] OTHER -> "none"
(* optimize_const_ops of op_tbl: what an operand zero or one, on the left  *)
(* or on the right, makes of the operator.                                 *)
Shortcut(o, left, one) ==
  CASE o = "*" /\ ~one -> "zero"
    [] o = "*" /\ one -> "operand"
    [] o = "/" /\ ~one -> IF left THEN "zero" ELSE "bad"
    [] o = "/" /\ one /\ ~left -> "operand"
    [] o = "+" /\ ~one -> "operand"
    [] o = "-" /\ ~one /\ ~left -> "operand"
    [] o = "&&" /\ ~one -> "zero"
    [] OTHER -> "none"

-----------------------------------------------------------------------------
(* The output stack. *)

Tok(t, n) == [t |-> t, n |-> n, v |-> 0]
Lit(v) == [t |-> "lit", n |-> "", v |-> v]
IsLit(tok) == tok.t = "lit"
TokArity(tok) == IF tok.t \in {"op", "fn"} THEN Arity(tok.n) ELSE 0
Malformed == <<Tok("malformed", "")>>
Init1(s, n) == SubSeq(s, 1, n)

(* Where the operand that ends at position i begins, 0 if it does not. *)
RECURSIVE Begin(_, _, _)
Begin(s, i, need) ==
  IF i = 0 THEN 0
  ELSE LET n == need - 1 + TokArity(s[i]) IN IF n = 0 THEN i ELSE Begin(s, i - 1, n)
(* The tops of the operands of the operator at the top, the last one first. *)
RECURSIVE TopsBelow(_, _, _)
TopsBelow(s, i, n) ==
  IF n = 0 \/ i = 0 THEN <<>>
  ELSE <<i>> \o (LET b == Begin(s, i, 1) IN TopsBelow(s, IF b = 0 THEN 0 ELSE b - 1, n - 1))

(* The value of a postfix sequence, a stack of what it leaves.  An operator *)
(* without its operands has none.                                          *)
Operate(stack, tok, env) ==
  LET n == TokArity(tok)
      k == Len(stack)
  IN  CASE tok.t = "lit" -> Append(stack, tok.v)
        [] tok.t = "var" -> Append(stack, env[tok.n])
        [] k < n -> <<Undef>>
        [] OTHER -> Append(Init1(stack, k - n), Apply(tok.n, SubSeq(stack, k - n + 1, k)))
Compute(s, env) == Last(FoldLeft(LAMBDA stack, tok : Operate(stack, tok, env), <<>>, s))
NoEnv == [v \in Variables |-> Undef]

(* An operator whose right operand is a superfluous literal goes with it;  *)
(* if the left one is, the tokens of the right one move down by one place, *)
(* and the last of them also stays where it was.                           *)
Fold(s, low, value) == IF value = Undef THEN s ELSE Append(Init1(s, low - 1), Lit(value))
DropRight(s) == Init1(s, Len(s) - 2)
DropLeft(s, i) == Init1(s, i - 1) \o SubSeq(s, i + 1, Len(s) - 1) \o <<s[Len(s) - 1]>>

(* check_type, with the optimisation: tok is on top of s, the operands end *)
(* at "low" and (the last) at "right", which have these shortcuts.         *)
Optimise(s, tok, low, right, ofLow, ofRight) ==
  CASE ofRight = "operand" /\ TokArity(tok) = 2 -> DropRight(s)
    [] \A i \in low .. Len(s) - 1 : IsLit(s[i]) -> Fold(s, low, Compute(SubSeq(s, low, Len(s)), NoEnv))
    [] OTHER ->
  CASE ofLow = "bad" \/ (ofLow = "none" /\ ofRight = "bad") -> Malformed
    [] ofLow = "zero" \/ (ofLow = "none" /\ ofRight = "zero") ->
         Append(Init1(s, Begin(s, low, 1) - 1), Lit(0))
    [] ofLow = "operand" \/ (ofLow = "none" /\ ofRight = "operand") -> DropLeft(s, low)
    [] OTHER -> s

OfOperand(s, tok, i, left) ==
  IF tok.t = "op" /\ IsLit(s[i]) /\ s[i].v \in {0, 1} THEN Shortcut(tok.n, left, s[i].v = 1) ELSE "none"
CheckOperands(s, tok, tops) ==
  IF tok.n = "?" \/ Len(tops) < TokArity(tok) THEN Malformed
  ELSE Optimise(s, tok, Last(tops), Head(tops),
                OfOperand(s, tok, Last(tops), Len(tops) > 1), OfOperand(s, tok, Head(tops), FALSE))
CheckType(s) ==
  IF TokArity(Last(s)) = 0 THEN s
  ELSE CheckOperands(s, Last(s), TopsBelow(s, Len(s) - 1, TokArity(Last(s))))

(* DropLeft was the case: the history flag. *)
LeftGoes(s, tops) == /\ Len(tops) = 2 /\ ~IsLit(s[tops[1]])
                     /\ OfOperand(s, Last(s), tops[2], TRUE) = "operand"
Moves(s) == TokArity(Last(s)) = 2 /\ LeftGoes(s, TopsBelow(s, Len(s) - 1, 2))

-----------------------------------------------------------------------------
(* A state of the stacks while operators are popped.                       *)

State == [out |-> out, ops |-> ops, moved |-> moved]
(* POP_OPERATOR_TO_OUTPUT. *)
Output(r, s) == [out |-> CheckType(s), ops |-> Front(r.ops), moved |-> r.moved \/ Moves(s)]
PopOp(r) == Output(r, Append(r.out, Last(r.ops)))
Fails(r) == r.out = Malformed
RECURSIVE PopTo(_, _)
PopTo(r, n) == IF Fails(r) \/ Len(r.ops) = n THEN r ELSE PopTo(PopOp(r), n)
(* Operators are popped until one that stays. *)
PopUntil(r, stays(_)) == PopTo(r, Max({0} \cup {i \in DOMAIN r.ops : stays(r.ops[i])}))
Push(r, tok) == [r EXCEPT !.ops = Append(@, tok)]
Emit(r, tok) == [r EXCEPT !.out = Append(@, tok)]

Paren(n) == [t |-> "paren", n |-> "", v |-> n]
IsParen(tok) == tok.t = "paren"
IsAssign(tok) == tok.t = "assign"

Object == {"var", "lit", "fn", "neg", "(", "op"}
AfterOperand == {"op", ")", ",", ":", ";"}

(* The lexer takes "-" for a subtraction behind a letter, a digit or a     *)
(* closing bracket.                                                        *)
Lexed(c) == IF c # "-" THEN c
            ELSE IF input # <<>> /\ Last(input) \in Variables \cup Numerals \cup {")"} THEN "-" ELSE "neg"
Kind(c) == CASE c \in Variables -> "var" [] c \in Numerals -> "lit" [] c \in Fns -> "fn"
             [] c \in Operators -> "op" [] OTHER -> c

Init ==
  /\ alphabet \in Alphabets
  /\ input = <<>> /\ out = <<>> /\ ops = <<>>
  /\ allow = {"var"} /\ assigning = TRUE /\ known = {} /\ moved = FALSE
  /\ status = "reading"

Refuse(r) == /\ status' = "rejected" /\ moved' = r.moved
             /\ UNCHANGED <<out, ops, allow, assigning, known>>
Reject == Refuse(State)
Take(r, next) ==
  IF Fails(r) THEN Refuse(r)
  ELSE /\ out' = r.out /\ ops' = r.ops /\ moved' = r.moved /\ allow' = next
       /\ UNCHANGED <<status, assigning, known>>

(* TOK_VAR.  y is not read before it has been assigned twice. *)
ReadVar(c) ==
  Take(Emit(State, Tok("var", c)),
       IF assigning THEN {"="} \cup (IF c = "y" THEN {} ELSE AfterOperand)
       ELSE IF c = "y" THEN {} ELSE AfterOperand)
ReadLit(c) == Take(Emit(State, Lit(Num(c))), AfterOperand)
ReadFn(c) == Take(Push(State, Tok("fn", c)), {"("})
ReadNeg == Take(Push(Emit(State, Lit(-1)), Tok("op", "*")), {"lit", "var", "fn"})
ReadOpen == Take(Push(State, Paren(1)), Object)

(* TOK_OP: operators that bind at least as strongly go to the output. *)
(* Mutant: an operator of the same strength stays. *)
BindsMore(o, tok) == ~(tok.t = "op" /\ Precedence[tok.n] > Precedence[o])
Binds(o, tok) == ~(tok.t = "op" /\ Precedence[tok.n] >= Precedence[o])
ReadOp(o) == Take(Push(PopUntil(State, LAMBDA tok : Binds(o, tok)), Tok("op", o)), Object)

(* TOK_COLON makes a conditional of the open question. *)
IsQuestion(tok) == tok.t = "op" /\ tok.n = "?"
ReadColon ==
  \E r \in {PopUntil(State, IsQuestion)} :
    IF r.ops = <<>> THEN Reject ELSE Take([r EXCEPT !.ops[Len(r.ops)] = Tok("op", "?:")], Object)

(* TOK_COMMA counts the arguments at the parenthesis. *)
ReadComma ==
  \E r \in {PopUntil(State, IsParen)} :
    IF r.ops = <<>> THEN Reject ELSE Take([r EXCEPT !.ops[Len(r.ops)].v = @ + 1], Object)

(* TOK_CLOSE_PAREN, with the function before the parenthesis if there is   *)
(* one: max of one argument is the function of vectors.                    *)
Call(r, arity) ==
  IF r.ops = <<>> \/ Last(r.ops).t # "fn" THEN Take(r, AfterOperand)
  ELSE IF arity > 2 THEN Reject
  ELSE Take(PopOp(IF arity = 2 THEN r ELSE [r EXCEPT !.ops[Len(r.ops)].n = "vmax"]), AfterOperand)
ReadClose ==
  \E r \in {PopUntil(State, IsParen)} :
    IF r.ops = <<>> THEN Reject ELSE Call([r EXCEPT !.ops = Front(@)], Last(r.ops).v)

(* TOK_ASSIGN: the variable on top of the output becomes the assignment. *)
ReadAssign ==
  IF ~assigning \/ ops # <<>> \/ out = <<>> \/ Last(out).t # "var" \/ Last(out).n = "x" THEN Reject
  ELSE /\ ops' = <<Tok("assign", Last(out).n)>>
       /\ out' = Front(out)
       /\ known' = known \cup {Last(out).n}
       /\ assigning' = FALSE
       /\ allow' = Object
       /\ UNCHANGED <<moved, status>>

(* The operators of a statement, then the assignment. *)
Statement(p) ==
  IF Fails(p) \/ p.ops = <<>> \/ IsParen(Last(p.ops)) \/ p.out = <<>> \/ CheckType(p.out) = Malformed
  THEN [p EXCEPT !.out = Malformed]
  ELSE [p EXCEPT !.out = Append(@, Last(p.ops)), !.ops = <<>>]
Close(r) == Statement(PopUntil(r, LAMBDA tok : IsAssign(tok) \/ IsParen(tok)))

ReadSemicolon ==
  \E r \in {Close(State)} :
    IF Fails(r) THEN Refuse(r)
    ELSE /\ out' = r.out /\ ops' = r.ops /\ moved' = r.moved
         /\ assigning' = TRUE /\ allow' = {"var"}
         /\ UNCHANGED <<known, status>>

Read(c) ==
  /\ status = "reading" /\ Len(input) < MaxTokens
  /\ input' = Append(input, Lexed(c))
  /\ \E tok \in {Lexed(c)} :
         IF Kind(tok) \notin allow THEN Reject
         ELSE CASE Kind(tok) = "var" -> ReadVar(tok) [] Kind(tok) = "lit" -> ReadLit(tok)
                [] Kind(tok) = "fn" -> ReadFn(tok) [] Kind(tok) = "op" -> ReadOp(tok)
                [] tok = "neg" -> ReadNeg [] tok = "(" -> ReadOpen [] tok = ")" -> ReadClose
                [] tok = "," -> ReadComma [] tok = ":" -> ReadColon
                [] tok = "=" -> ReadAssign [] tok = ";" -> ReadSemicolon
  /\ UNCHANGED alphabet

(* The end of the string. *)
Complete == /\ allow \cap {"lit", "="} = {} /\ ops # <<>>
            /\ "y" \in known /\ ToSet(input) \cap UserVars \subseteq known
End ==
  /\ status = "reading"
  /\ \E r \in {Close(State)} :
         IF ~Complete \/ Fails(r) THEN Refuse(r)
         ELSE /\ out' = r.out /\ ops' = r.ops /\ moved' = r.moved /\ status' = "accepted"
              /\ UNCHANGED <<allow, assigning, known>>
  /\ UNCHANGED <<alphabet, input>>

Next == End \/ \E c \in alphabet : Read(c)
Spec == Init /\ [][Next]_vars

-----------------------------------------------------------------------------
(* What a string means, from the string alone: the operator that binds     *)
(* least, and of those the last one, is applied last.                      *)

Nesting(s, i) == Cardinality({j \in 1 .. i : s[j] = "("}) - Cardinality({j \in 1 .. i : s[j] = ")"})
Outer(s, C) == {i \in DOMAIN s : s[i] \in C /\ Nesting(s, i) = 0}
Final(S) == CHOOSE i \in S : \A j \in S : j <= i
Least(s) == LET S == Outer(s, BinaryOps)
            IN  Final({i \in S : \A j \in S : Precedence[s[i]] <= Precedence[s[j]]})
From(s, i) == SubSeq(s, i + 1, Len(s))
Inner(s) == SubSeq(s, 2, Len(s) - 1)
Wrapped(s) == /\ Len(s) > 2 /\ s[1] = "(" /\ Nesting(s, Len(s)) = 0
              /\ \A i \in 1 .. Len(s) - 1 : Nesting(s, i) > 0

(* The value of s: a set, empty if it has none, as it is not well formed. *)
RECURSIVE Meaning(_, _)
Both(o, l, r) == {Apply(o, <<a, b>>) : a \in l, b \in r}
Meaning(s, env) ==
  LET question == Final(Outer(s, {"?"}))
      colons == {i \in Outer(s, {":"}) : i > question}
      comma == Final(Outer(Tail(Inner(s)), {","}))
      args == Tail(Inner(s))
  IN  CASE s = <<>> -> {}
        [] Outer(s, {"?"}) # {} /\ Cardinality(colons) # 1 -> {}
        [] Outer(s, {"?"}) # {} /\ Cardinality(colons) = 1 ->
             {Apply("?:", <<a, b, c>>) :
                a \in Meaning(Init1(s, question - 1), env),
                b \in Meaning(SubSeq(s, question + 1, Final(colons) - 1), env),
                c \in Meaning(From(s, Final(colons)), env)}
        [] OTHER ->
      CASE Outer(s, BinaryOps) # {} ->
             Both(s[Least(s)], Meaning(Init1(s, Least(s) - 1), env), Meaning(From(s, Least(s)), env))
        [] OTHER ->
      CASE s[1] = "!" -> IF Len(s) > 1 /\ s[2] = "!" THEN {} ELSE {Apply("!", <<a>>) : a \in Meaning(Tail(s), env)}
        [] s[1] = "neg" -> IF Len(s) > 1 /\ s[2] \in {"(", "neg", "!"} THEN {}
                           ELSE {Apply("*", <<-1, a>>) : a \in Meaning(Tail(s), env)}
        [] s[1] = "max" /\ Wrapped(Tail(s)) ->
             IF Outer(args, {","}) = {} THEN Meaning(args, env)
             ELSE IF Cardinality(Outer(args, {","})) > 1 THEN {}
             ELSE Both("max", Meaning(Init1(args, comma - 1), env), Meaning(From(args, comma), env))
        [] Wrapped(s) -> Meaning(Inner(s), env)
        [] Len(s) = 1 /\ s[1] \in Numerals -> {Num(s[1])}
        [] Len(s) = 1 /\ s[1] \in {"x"} \cup {v \in UserVars : env[v] # Undef} -> {env[s[1]]}
        [] OTHER -> {}

(* Statements, one after the other; the value of y at the end. *)
Env(v) == [NoEnv EXCEPT !["x"] = v]
RECURSIVE Outcome(_, _)
Outcome(s, env) ==
  LET ends == Outer(s, {";"})
      stop == IF ends = {} THEN Len(s) + 1 ELSE CHOOSE i \in ends : \A j \in ends : i <= j
      value == Meaning(SubSeq(s, 3, stop - 1), env)
      v == CHOOSE v \in value : TRUE
  IN  IF Len(s) < 3 \/ s[1] \notin {"y"} \cup UserVars \/ s[2] # "=" \/ value = {} THEN {}
      ELSE IF stop > Len(s) THEN IF s[1] = "y" \/ env["y"] # Undef THEN {[env EXCEPT ![s[1]] = v]["y"]} ELSE {}
      ELSE Outcome(From(s, stop), [env EXCEPT ![s[1]] = v])

(* What the parsed tokens compute: each assignment takes what is on top of *)
(* the stack.                                                              *)
Assigned(env, stack, tok) == [env EXCEPT ![tok.n] = Last(stack)]
Result(v) ==
  LET step(r, tok) == IF tok.t = "assign" THEN [env |-> Assigned(r.env, r.stack, tok), stack |-> <<>>]
                      ELSE [r EXCEPT !.stack = Operate(@, tok, r.env)]
  IN  FoldLeft(step, [env |-> Env(v), stack |-> <<>>], out).env["y"]

(* The parsed expression computes what the string means, the constant      *)
(* parts computed beforehand and the superfluous operators dropped.  The   *)
(* operators whose left operand is dropped are an exception.               *)
ParsedRight ==
  status = "accepted" /\ ~moved =>
    \A v \in Samples : \A m \in Outcome(input, Env(v)) : m # Undef => Result(v) = m

(* No string that has a meaning is refused, but for a division by a        *)
(* literal zero and the same exception.                                    *)
NoneRefused ==
  status = "rejected" /\ ~moved =>
    \A v \in Samples : Outcome(input, Env(v)) \in {{}, {Undef}}

(* "copy tokens for non-zero operand": what is left is the operand.        *)
(* Not part of a run: it fails, see the README.                            *)
OperandKept ==
  status = "rejected" /\ Outcome(input, Env(2)) # {} =>
    \E i \in 1 .. Len(input) - 1 : input[i] = "/" /\ input[i + 1] = "0"
=============================================================================
