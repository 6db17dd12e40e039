------------------------------ MODULE Evaluator ------------------------------
(***************************************************************************)
(* The expression of a map at work (mpr_expr_eval of                       *)
(* src/src/mapper/expression.c, called from mpr_map_send and               *)
(* _set_expr of map.c).  The parser has left the expression in             *)
(* postfix order; the evaluation of one instance runs over the tokens with *)
(* a stack of vectors, jumps back once per active instance in a reduce     *)
(* function, keeps the history of input and output in circular buffers,    *)
(* and moves the start of the expression behind what is evaluated once.    *)
(*                                                                         *)
(* prog     the expression of the map: its name and its tokens             *)
(* x        the source slot: a buffer per instance                         *)
(* y        the destination slot: a buffer per instance                    *)
(* user     the user variables of the expression, per instance             *)
(* offset   where an instance that has a value starts to evaluate          *)
(* past     history: the values of each instance since it was released,    *)
(*          the latest first                                               *)
(* fresh    history: the instances released since the expression was set   *)
(* last     history: the latest evaluation and what mpr_map_send made of   *)
(*          it: the instance, whether it had been alive, the messages      *)
(* count    counter: evaluations so far, -1 before the expression is set   *)
(***************************************************************************)
EXTENDS Integers, Sequences, FiniteSets

CONSTANTS NumInst,   \* instances of the source signal
          Inputs,    \* the values it is updated with
          MaxEvals   \* bound: evaluations

VARIABLES prog, x, y, user, offset, past, fresh, last, count
vars == <<prog, x, y, user, offset, past, fresh, last, count>>

Insts == 0 .. NumInst - 1
None == "none"
Nobody == -1
NoInput == <<>>

-----------------------------------------------------------------------------
(* Tokens.  "past" marks a variable or an assignment with a history index, *)
(* "clear" the last assignment of a statement.                             *)

Tok(t, n) == [t |-> t, n |-> n, past |-> FALSE, clear |-> FALSE]
Lit(n) == Tok("lit", <<n>>)
Vec(s) == Tok("lit", s)
Var(n) == Tok("var", n)
Past(n) == [Tok("var", n) EXCEPT !.past = TRUE]
Op(o) == Tok("op", o)
Fn(f) == Tok("fn", f)
VFn(f) == Tok("vfn", f)
Vectorize(n) == Tok("vectorize", n)
Count == Tok("count", "x")
Cache == Tok("cache", 0)
SpAdd(n) == Tok("sp_add", n)
(* The jump of the token and the place of the instance below the top. *)
Branch(n, pos) == Tok("branch", <<n, pos>>)
Assign(n) == [Tok("assign", n) EXCEPT !.clear = TRUE]
AssignConst(n) == [Tok("assign_const", n) EXCEPT !.clear = TRUE]
AssignPast(n) == [AssignConst(n) EXCEPT !.past = TRUE]
Assigns == {"assign", "assign_const"}

(* The prefix and the suffix the parser puts around the argument of a      *)
(* reduce function over instances, for one accumulator or for two.         *)
Reduce(init, arg, fn) == <<Cache, Lit(init)>> \o arg \o <<fn, Branch(-2 - Len(arg), 1)>>
Reduce2(i1, i2, arg, fn) ==
  <<Cache, Lit(i1), Lit(i2)>> \o arg \o <<fn, SpAdd(1), Branch(-3 - Len(arg), 2)>>

(* INT_MIN and INT_MAX, beyond every value. *)
Least == -100
Greatest == 100

(* What mpr_expr_new_from_str makes of each expression. *)
Programs ==
  [accumulate |-> <<Lit(-1), Lit(10), AssignPast("y"),             \* y{-1}=10; y=y{-1}+x
                    Lit(-1), Past("y"), Var("x"), Op("+"), Assign("y")>>,
   difference |-> <<Var("x"), Lit(-1), Past("x"), Op("-"), Assign("y")>>, \* y=x-x{-1}
   constant   |-> <<Lit(3), AssignConst("a"), Var("a"), Var("x"), Op("*"), Assign("y")>>, \* a=3; y=a*x
   quotient   |-> <<Lit(6), Var("x"), Op("/"), Assign("y")>>,      \* y=6/x
   total      |-> <<Var("n"), Var("x"), Op("+"), Assign("n"), Var("n"), Assign("y")>>, \* n=n+x; y=n
   vector     |-> <<Var("x"), Lit(1), Vectorize(2), Vec(<<1, 2, 3>>), Op("+"), VFn("sum"), Assign("y")>>,
   choice     |-> <<Var("x"), Lit(5), Var("x"), Op("?:"), Assign("y")>>, \* y=x?5:x
   sum        |-> Reduce(0, <<Var("x")>>, Op("+")) \o <<Assign("y")>>,
   pastsum    |-> Reduce(0, <<Lit(-1), Past("x")>>, Op("+")) \o <<Assign("y")>>,
   max        |-> Reduce(Least, <<Var("x")>>, Fn("max")) \o <<Assign("y")>>,
   mean       |-> Reduce2(0, 0, <<Var("x")>>, VFn("sumnum")) \o <<Op("/"), Assign("y")>>,
   size       |-> Reduce2(Least, Greatest, <<Var("x")>>, VFn("maxmin")) \o <<Op("-"), Assign("y")>>,
   share      |-> <<Var("x")>> \o Reduce(0, <<Var("x")>>, Op("+")) \o <<Var("x"), Op("*"), Op("+"), Assign("y")>>,
   number     |-> <<Count, Assign("y")>>,
   dies_first |-> <<Var("x"), Lit(0), Op(">"), Assign("alive"), Var("x"), Assign("y")>>,
   dies_last  |-> <<Var("x"), Assign("y"), Var("x"), Lit(0), Op(">"), Assign("alive")>>,
   guarded    |-> <<Var("x"), Lit(0), Op(">"), Assign("alive"),   \* alive=x>0; y=y{-1}+x
                    Lit(-1), Past("y"), Var("x"), Op("+"), Assign("y")>>,
   muted      |-> <<Var("x"), Lit(1), Op(">"), Assign("muted"), Var("x"), Assign("y")>>]

Names == {"a", "n", "alive", "muted"}   \* user variables
Uses(P, n) == \E k \in DOMAIN P : P[k].t \in Assigns /\ P[k].n = n
(* The history the parser asks for: one more than the oldest index. *)
Hist(P, n) == IF \E k \in DOMAIN P : P[k].past /\ P[k].n = n THEN 2 ELSE 1

-----------------------------------------------------------------------------
(* Values, buffers and the functions on vectors. *)

Buffer(mlen) == [pos |-> -1, full |-> FALSE, samps |-> [k \in 0 .. mlen - 1 |-> 0]]
Mlen(b) == Cardinality(DOMAIN b.samps)
SampHist(b, k) == b.samps[(b.pos + Mlen(b) + k) % Mlen(b)]
SetSamp(b, v) ==
  LET wraps == b.pos + 1 >= Mlen(b)
      n == IF wraps THEN 0 ELSE b.pos + 1
  IN  [b EXCEPT !.pos = n, !.full = @ \/ wraps, !.samps[n] = v]

Bool(b) == IF b THEN 1 ELSE 0
Quot(a, b) == LET abs(n) == IF n < 0 THEN -n ELSE n
                  q == abs(a) \div abs(b)
              IN  IF (a < 0) = (b < 0) THEN q ELSE -q
Binary(o, a, b) == CASE o = "+" -> a + b [] o = "-" -> a - b [] o = "*" -> a * b
                     [] o = "/" -> Quot(a, b) [] o = ">" -> Bool(a > b)
                     [] o = "max" -> IF a > b THEN a ELSE b

(* Element i of a vector repeated as often as needed. *)
At(s, i) == s[((i - 1) % Len(s)) + 1]
Longest(s, t) == IF Len(s) > Len(t) THEN Len(s) ELSE Len(t)
(* The left operand is lengthened to the longest one, the others repeat. *)
Wide(s, n) == [i \in 1 .. n |-> At(s, i)]
Pointwise(o, s, t) == [i \in 1 .. Longest(s, t) |-> Binary(o, At(s, i), At(t, i))]
Total(s) == LET f[i \in 0 .. Len(s)] == IF i = 0 THEN 0 ELSE f[i - 1] + s[i] IN f[Len(s)]

Arity(tok) == CASE tok.t = "vectorize" -> tok.n
                [] tok.n \in {"maxmin", "sumnum", "?:"} -> 3
                [] tok.n = "sum" -> 1
                [] OTHER -> 2

-----------------------------------------------------------------------------
(* One evaluation: a machine of its own.  stk[dp] is the top of the stack, *)
(* what lies above dp is still there; xs is the source slot or NoInput.       *)

StackSize == 8
Start(P, xs, ys, us, off, i) ==
  [pc |-> IF ys[i].pos >= 0 THEN off + 1 ELSE 1,
   stk |-> [k \in 1 .. StackSize |-> <<0>>], dp |-> 0, inst |-> i, cache |-> 0,
   xs |-> xs, y |-> [ys[i] EXCEPT !.pos = (@ + 1) % Mlen(ys[i])], user |-> us, offset |-> off,
   advance |-> TRUE, status |-> {}, stop |-> None,
   alive |-> Uses(P, "alive") => us["alive"][i] # 0,
   muted |-> Uses(P, "muted") /\ us["muted"][i] # 0]

Push(s, v) == [s EXCEPT !.dp = @ + 1, !.stk[s.dp + 1] = v, !.pc = @ + 1]
Top(s) == s.stk[s.dp]
(* The token takes the n entries on top, leaves one. *)
Apply(s, n, v) == [s EXCEPT !.dp = @ - n + 1, !.stk[s.dp - n + 1] = v, !.pc = @ + 1]

(* TOK_VAR: a history index is on top of the stack, the sample replaces it. *)
Load(s, tok) ==
  LET k == IF tok.past THEN Top(s)[1] ELSE 0
      sample == IF tok.n = "x" THEN SampHist(s.xs[s.inst], k)
                ELSE IF tok.n = "y" THEN SampHist(s.y, k) ELSE s.user[tok.n][s.inst]
  IN  IF tok.n = "x" /\ s.xs = NoInput THEN [s EXCEPT !.stop = "no input"]
      ELSE IF tok.past THEN Apply(s, 1, <<sample>>) ELSE Push(s, <<sample>>)

(* TOK_VAR_NUM_INST. *)
LoadCount(s) ==
  IF s.xs = NoInput THEN [s EXCEPT !.stop = "no input"]
  ELSE Push(s, <<Cardinality({i \in Insts : s.xs[i].pos >= 0})>>)

(* Division of integers by zero gives up the statement; without another    *)
(* one nothing is updated and nothing is undone.                           *)
GiveUp(s, P) ==
  LET rest == {k \in s.pc + 1 .. Len(P) : P[k - 1].t \in Assigns /\ P[k].t \notin Assigns}
  IN  IF rest = {} THEN [s EXCEPT !.stop = "zero"]
      ELSE [s EXCEPT !.pc = CHOOSE k \in rest : \A j \in rest : k <= j]

Operate(s, tok, P) ==
  LET a == s.stk[s.dp - Arity(tok) + 1]  b == s.stk[s.dp - Arity(tok) + 2]
  IN  CASE tok.n = "?:" -> Apply(s, 3, [i \in 1 .. Longest(a, b) |->
                             IF At(a, i) # 0 THEN At(b, i) ELSE At(Top(s), i)])
        [] tok.n = "/" /\ \E i \in DOMAIN b : b[i] = 0 -> GiveUp(s, P)
        [] OTHER -> Apply(s, 2, Pointwise(tok.n, a, b))

(* The functions of vectors; "maxmin" and "sumnum" update the two entries  *)
(* below the new value, only one of which the stack pointer stays on.      *)
OperateVector(s, tok) ==
  LET a == s.stk[s.dp - Arity(tok) + 1]  b == s.stk[s.dp - Arity(tok) + 2]  new == Top(s)
      two(f, g) == [Apply(s, 3, f) EXCEPT !.stk[s.dp - 1] = g]
  IN  CASE tok.n = "sum" -> Apply(s, 1, <<Total(new)>>)
        [] tok.n = "maxmin" -> two([i \in DOMAIN new |-> IF new[i] > At(a, i) THEN new[i] ELSE At(a, i)],
                                   [i \in DOMAIN new |-> IF new[i] < At(b, i) THEN new[i] ELSE At(b, i)])
        [] tok.n = "sumnum" -> two(Pointwise("+", a, new), [i \in DOMAIN new |-> At(b, i) + 1])

(* TOK_VECTORIZE: the entries become one vector. *)
Concat(s, tok) ==
  LET f[k \in 0 .. tok.n] == IF k = 0 THEN <<>> ELSE f[k - 1] \o s.stk[s.dp - tok.n + k]
  IN  Apply(s, tok.n, f[tok.n])

(* The instances a reduce function goes through: those with enough history. *)
Enough(s, P, i) == s.xs[i].full \/ s.xs[i].pos >= Hist(P, "x") - 1
Active(s, P) == {i \in Insts : Enough(s, P, i)}
Lowest(S) == CHOOSE i \in S : \A j \in S : i <= j

CacheInst(s, P) ==
  LET n == [Push(s, <<s.inst>>) EXCEPT !.cache = @ + 1]
  IN  IF s.xs = NoInput THEN n
      ELSE IF Active(s, P) = {} THEN [n EXCEPT !.stop = "no instance"]
      ELSE [n EXCEPT !.inst = Lowest(Active(s, P))]

BranchForgets(s, tok, P) ==
  LET more == IF s.xs = NoInput THEN {} ELSE {i \in Active(s, P) : i > s.inst}
      at == s.dp - tok.n[2]
  IN  IF more # {} THEN [s EXCEPT !.inst = Lowest(more), !.pc = @ + tok.n[1] + 1]
      ELSE [s EXCEPT !.dp = @ - 1, !.cache = @ - 1, !.pc = @ + 1,
                     !.stk = [k \in DOMAIN @ |-> IF k >= at /\ k < s.dp THEN @[k + 1] ELSE @[k]]]

(* After the last instance the cached one is taken out of the stack. *)
BranchNext(s, tok, P) ==
  LET more == IF s.xs = NoInput THEN {} ELSE {i \in Active(s, P) : i > s.inst}
      at == s.dp - tok.n[2]
  IN  IF more # {} THEN [s EXCEPT !.inst = Lowest(more), !.pc = @ + tok.n[1] + 1]
      ELSE [s EXCEPT !.inst = s.stk[at][1], !.dp = @ - 1, !.cache = @ - 1, !.pc = @ + 1,
                     !.stk = [k \in DOMAIN @ |-> IF k >= at /\ k < s.dp THEN @[k + 1] ELSE @[k]]]

(* assign_done: constants and the initialisation of the history are not    *)
(* evaluated again.                                                        *)
Done(s, tok, advance) ==
  [s EXCEPT !.offset = IF advance \/ tok.past THEN s.pc ELSE @,
            !.advance = advance,
            !.dp = IF tok.clear THEN 0 ELSE IF tok.past THEN @ - 1 ELSE @,
            !.pc = @ + 1]

AssignY(s, tok) ==
  LET k == IF tok.past THEN s.stk[s.dp - 1][1] ELSE 0
  IN  IF ~s.alive THEN s
      ELSE [s EXCEPT !.status = @ \cup {IF s.muted THEN "muted" ELSE "update"},
                     !.y.samps[(s.y.pos + Mlen(s.y) + k) % Mlen(s.y)] = Top(s)[1]]

(* A user variable; "alive" and "muted" control the instance. *)
AssignUser(s, tok) ==
  LET v == Top(s)[1]
      n == [s EXCEPT !.user[tok.n][s.inst] = v]
  IN  CASE tok.n = "alive" ->
             [n EXCEPT !.alive = v # 0,
                       !.status = IF s.alive /\ v = 0
                                  THEN @ \cup {IF "update" \in @ THEN "release after" ELSE "release before"}
                                  ELSE @]
        [] tok.n = "muted" -> [n EXCEPT !.muted = v # 0]
        [] OTHER -> n

Store(s, tok) ==
  LET constant == s.advance /\ tok.t = "assign_const"
  IN  IF tok.n = "y" THEN Done(AssignY(s, tok), tok, constant /\ ~s.alive)
      ELSE Done(AssignUser(s, tok), tok, constant /\ tok.n \notin {"alive", "muted"})

Step(s, P) ==
  LET tok == P[s.pc]
  IN  CASE tok.t = "lit" -> Push(s, tok.n)
        [] tok.t = "var" -> Load(s, tok)
        [] tok.t = "count" -> LoadCount(s)
        [] tok.t \in {"op", "fn"} -> Operate(s, tok, P)
        [] tok.t = "vfn" -> OperateVector(s, tok)
        [] tok.t = "vectorize" -> Concat(s, tok)
        [] tok.t = "cache" -> CacheInst(s, P)
        [] tok.t = "sp_add" -> [s EXCEPT !.dp = @ + tok.n, !.pc = @ + 1]
        [] tok.t = "branch" -> BranchNext(s, tok, P)
        [] tok.t \in Assigns -> Store(s, tok)

RECURSIVE Run(_, _)
Run(s, P) == IF s.pc > Len(P) \/ s.stop # None THEN s ELSE Run(Step(s, P), P)

(* The end: if nothing was assigned the position goes back. *)
BackNever(b) == b
Back(b) == [b EXCEPT !.pos = IF @ = 0 THEN Mlen(b) - 1 ELSE @ - 1]
Undo(s) == IF s.stop = None /\ s.status \cap {"update", "muted"} = {} THEN [s EXCEPT !.y = Back(@)] ELSE s
Evaluate(P, xs, ys, us, off, i) == Undo(Run(Start(P, xs, ys, us, off, i), P))

-----------------------------------------------------------------------------
(* _set_expr: the new expression is evaluated for every instance           *)
(* without input, which initialises its constants.                         *)
RECURSIVE Initialise(_, _)
Initialise(i, r) ==
  IF i \notin Insts THEN r
  ELSE LET s == Evaluate(prog.tokens, NoInput, r.y, r.user, r.offset, i)
       IN  Initialise(i + 1, [y |-> [r.y EXCEPT ![i] = s.y], user |-> s.user, offset |-> s.offset])

Init ==
  /\ \E n \in DOMAIN Programs : prog = [name |-> n, tokens |-> Programs[n]]
  /\ x = [i \in Insts |-> Buffer(Hist(prog.tokens, "x"))]
  /\ y = [i \in Insts |-> Buffer(Hist(prog.tokens, "y"))]
  /\ user = [n \in Names |-> [i \in Insts |-> 0]]
  /\ offset = 0
  /\ past = [i \in Insts |-> <<>>]
  /\ fresh = {}
  /\ last = [inst |-> Nobody, alive |-> TRUE, sent |-> <<>>]
  /\ count = -1

SetExpr ==
  /\ count = -1
  /\ \E r \in {Initialise(0, [y |-> y, user |-> user, offset |-> offset])} :
       y' = r.y /\ user' = r.user /\ offset' = r.offset
  /\ count' = 0
  /\ UNCHANGED <<prog, x, past, fresh, last>>

(* mpr_map_send: a release before the value, the value, a release after. *)
Messages(s, i) ==
  (IF "release before" \in s.status THEN <<"release">> ELSE <<>>)
  \o (IF "update" \in s.status THEN <<s.y.samps[s.y.pos]>> ELSE <<>>)
  \o (IF "release after" \in s.status THEN <<"release">> ELSE <<>>)

(* The source is updated and its maps are processed. *)
Update(i, v) ==
  /\ count \in 0 .. MaxEvals - 1
  /\ LET xs == [x EXCEPT ![i] = SetSamp(@, v)]
         s == Evaluate(prog.tokens, xs, y, user, offset, i)
     IN  /\ x' = xs
         /\ y' = [y EXCEPT ![i] = s.y]
         /\ user' = s.user /\ offset' = s.offset
         /\ last' = [inst |-> i, alive |-> user["alive"][i] # 0,
                     sent |-> IF s.stop = "zero" THEN <<>> ELSE Messages(s, i)]
  /\ past' = [past EXCEPT ![i] = <<v>> \o @]
  /\ count' = count + 1
  /\ UNCHANGED <<prog, fresh>>

(* mpr_rtr_process_sig, of a released instance: both slots are reset. *)
Release(i) ==
  /\ past[i] # <<>>
  /\ x' = [x EXCEPT ![i] = Buffer(Hist(prog.tokens, "x"))]
  /\ y' = [y EXCEPT ![i] = Buffer(Hist(prog.tokens, "y"))]
  /\ past' = [past EXCEPT ![i] = <<>>]
  /\ fresh' = fresh \cup {i}
  /\ last' = [last EXCEPT !.inst = Nobody, !.sent = <<>>]
  /\ UNCHANGED <<prog, user, offset, count>>

Next == SetExpr \/ \E i \in Insts : Release(i) \/ \E v \in Inputs : Update(i, v)
Spec == Init /\ [][Next]_vars

-----------------------------------------------------------------------------
(* What each expression says, of the values alone. *)

Now(i) == past[i][1]
Before(i) == IF Len(past[i]) > 1 THEN past[i][2] ELSE 0
With(n) == {i \in Insts : Len(past[i]) >= n}
SumOver(S, f(_)) == LET g[k \in 0 .. NumInst] ==
                          IF k = 0 THEN 0 ELSE g[k - 1] + IF k - 1 \in S THEN f(k - 1) ELSE 0
                    IN  g[NumInst]
Largest == CHOOSE m \in {Now(i) : i \in With(1)} : \A i \in With(1) : Now(i) <= m
Smallest == CHOOSE m \in {Now(i) : i \in With(1)} : \A i \in With(1) : m <= Now(i)

Positive(v) == v > 0
Value(i) ==
  CASE prog.name = "accumulate" -> 10 + Total(past[i])
    [] prog.name = "difference" -> Now(i) - Before(i)
    [] prog.name = "constant" -> 3 * Now(i)
    [] prog.name = "quotient" -> Quot(6, Now(i))
    [] prog.name = "total" -> Total(past[i])
    [] prog.name = "guarded" -> Total(SelectSeq(past[i], Positive))
    [] prog.name = "vector" -> 3 * 2 + 1 + Now(i) * 2
    [] prog.name = "choice" -> IF Now(i) # 0 THEN 5 ELSE 0
    [] prog.name = "sum" -> SumOver(With(1), Now)
    [] prog.name = "pastsum" -> SumOver(With(2), Before)
    [] prog.name = "max" -> Largest
    [] prog.name = "mean" -> Quot(SumOver(With(1), Now), Cardinality(With(1)))
    [] prog.name = "size" -> Largest - Smallest
    [] prog.name = "share" -> Now(i) + SumOver(With(1), Now) * Now(i)
    [] prog.name = "number" -> Cardinality(With(1))
    [] OTHER -> Now(i)

Expected(i) ==
  CASE prog.name \in {"dies_first", "guarded"} -> IF Now(i) > 0 THEN <<Value(i)>> ELSE IF last.alive THEN <<"release">> ELSE <<>>
    [] prog.name = "dies_last" -> IF ~last.alive THEN <<>>
                             ELSE IF Now(i) > 0 THEN <<Value(i)>> ELSE <<Value(i), "release">>
    [] prog.name = "muted" -> IF Now(i) > 1 THEN <<>> ELSE <<Value(i)>>
    [] prog.name = "quotient" /\ Now(i) = 0 -> <<>>
    [] prog.name = "pastsum" /\ With(2) = {} -> <<>>
    [] OTHER -> <<Value(i)>>

(* What a map sends for an update is what its expression says of the       *)
(* values of that instance since it was released, or of the instances that *)
(* have one: whatever the others did in between, wherever the buffers      *)
(* wrap, and however often the expression was left early.  An expression   *)
(* that initialises its history is only right from the first release on,   *)
(* and a user variable keeps its value across a release.                   *)
SentRight ==
  last.inst # Nobody /\ (prog.name = "accumulate" => last.inst \in fresh)
                     /\ (prog.name = "total" => last.inst \notin fresh)
    => last.sent = Expected(last.inst)
=============================================================================
