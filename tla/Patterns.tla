------------------------------ MODULE Patterns ------------------------------
(***************************************************************************)
(* Address patterns of OSC (src/src/lo/pattern_match.c): which methods a   *)
(* message is for.  A pattern is put together from parts whose meaning is  *)
(* plain, and the matching of its characters compared with that meaning.   *)
(*                                                                         *)
(* parts   the parts of the pattern                                        *)
(* text    the path it is matched with                                     *)
(***************************************************************************)
EXTENDS Integers, Sequences, SequencesExt

CONSTANTS Letters,   \* characters of paths
          Words,     \* sequences of them, for braces
          MaxParts, MaxText

VARIABLES parts, text
vars == <<parts, text>>

Star == 42
Question == 63
Open == 91
Close == 93
Brace == 123
EndBrace == 125
Comma == 44
Hyphen == 45
Not == 33
Slash == 47

(* The part of q from the first of these characters on, if any. *)
FromFirst(q, chars) ==
  LET at == {i \in DOMAIN q : q[i] \in chars}
  IN  IF at = {} THEN <<>> ELSE SubSeq(q, CHOOSE i \in at : \A j \in at : i <= j, Len(q))
Rest(q) == IF q = <<>> THEN <<>> ELSE Tail(q)

-----------------------------------------------------------------------------
(* The code. *)

(* The inside of [...]: pairs and ranges are looked at until one fits.     *)
(* Found is "yes" or "no", or "bad" for a set without end.                 *)
RECURSIVE Found(_, _)
Found(s, q) ==
  IF Len(q) < 2 \/ (q[2] = Hyphen /\ Len(q) = 2) THEN "bad"
  ELSE IF q[2] = Hyphen
  THEN IF q[3] = Close THEN (IF s = Hyphen THEN "yes" ELSE "no")
       ELSE IF s = q[1] \/ s = q[3] \/ (s > q[1] /\ s < q[3]) THEN "yes"
       ELSE Found(s, SubSeq(q, 3, Len(q)))
  ELSE IF s = q[1] THEN "yes"
  ELSE IF q[2] = Close THEN "no"
  ELSE IF s = q[2] THEN "yes" ELSE Found(s, Tail(q))

RECURSIVE Match(_, _), Alternative(_, _, _, _)

MatchStarEager(s, q) == q = <<>> \/ (s # <<>> /\ Match(FromFirst(s, {q[1]}), q))
MatchStar(s, q) ==
  LET start == IF q[1] \in {Question, Open, Brace} THEN s ELSE FromFirst(s, {q[1]})
  IN  q = <<>> \/ \E i \in DOMAIN start : Match(SubSeq(start, i, Len(start)), q)

MatchSet(s, q) ==
  LET negate == q # <<>> /\ q[1] = Not
      found == Found(s[1], IF negate THEN Tail(q) ELSE q)
      behind == FromFirst(q, {Close})
  IN  /\ found # "bad" /\ (found = "yes") # negate
      /\ behind # <<>> /\ Match(Tail(s), Tail(behind))

(* {a,b}: s is what is left of the text, place what was left at the brace, *)
(* rest what follows the brace.                                            *)
Alternative(s, q, place, rest) ==
  IF q[1] = Comma THEN Match(s, rest) \/ Alternative(place, Tail(q), place, rest)
  ELSE IF q[1] = EndBrace THEN Match(s, Tail(q))
  ELSE IF s # <<>> /\ q[1] = s[1]
  THEN (Len(s) > 1 \/ rest = <<>>) /\ Alternative(Tail(s), Tail(q), place, rest)
  ELSE LET next == FromFirst(q, {Comma, EndBrace})
       IN  next[1] = Comma /\ Alternative(place, Tail(next), place, rest)

Match(s, p) ==
  IF p = <<>> THEN s = <<>>
  ELSE IF p[1] = Star
  THEN LET others == {i \in DOMAIN p : p[i] # Star}
       IN  others = {} \/ MatchStar(s, SubSeq(p, CHOOSE i \in others : \A j \in others : i <= j, Len(p)))
  ELSE IF s = <<>> THEN FALSE
  ELSE CASE p[1] = Question -> Match(Tail(s), Tail(p))
         [] p[1] = Open -> MatchSet(s, Tail(p))
         [] p[1] = Brace -> LET end == FromFirst(Tail(p), {EndBrace})
                            IN  end # <<>> /\ Alternative(s, Tail(p), s, Tail(end))
         [] OTHER -> p[1] = s[1] /\ Match(Tail(s), Tail(p))

-----------------------------------------------------------------------------
(* The meaning of the parts: "one" of some characters, "some" of them any  *)
(* number of times, or one of some "words".                                *)
Parts ==
  {[chars |-> <<c>>, kind |-> "one", of |-> {c}] : c \in Letters}
    \cup {[chars |-> <<Question>>, kind |-> "one", of |-> Letters],
          [chars |-> <<Star>>, kind |-> "some", of |-> Letters]}
    \cup {[chars |-> <<Open, c, d, Close>>, kind |-> "one", of |-> {c, d}] : c, d \in Letters}
    \cup {[chars |-> <<Open, c, Hyphen, d, Close>>, kind |-> "one",
           of |-> {c, d} \cup {e \in Letters : c <= e /\ e <= d}]
            : c, d \in Letters}
    \cup {[chars |-> <<Open, Not, c, Close>>, kind |-> "one", of |-> Letters \ {c}] : c \in Letters}
    \cup {[chars |-> <<Brace>> \o v \o <<Comma>> \o w \o <<EndBrace>>, kind |-> "words", of |-> {v, w}]
            : v, w \in Words}

RECURSIVE Means(_, _)
Means(s, ps) ==
  IF ps = <<>> THEN s = <<>>
  ELSE CASE ps[1].kind = "one" -> s # <<>> /\ s[1] \in ps[1].of /\ Means(Tail(s), Tail(ps))
         [] ps[1].kind = "some" -> \E i \in 0 .. Len(s) : Means(SubSeq(s, i + 1, Len(s)), Tail(ps))
         [] ps[1].kind = "words" -> \E w \in ps[1].of : /\ IsPrefix(w, s)
                                                       /\ Means(SubSeq(s, Len(w) + 1, Len(s)), Tail(ps))

Init == parts = <<>> /\ text = <<>>
AddPart(p) ==   \* braces come last
  /\ Len(parts) < MaxParts /\ (parts # <<>> => Last(parts).kind # "words")
  /\ text = <<>> /\ parts' = Append(parts, p) /\ UNCHANGED text
AddLetter(c) == Len(text) < MaxText /\ parts # <<>> /\ text' = Append(text, c) /\ UNCHANGED parts
Next == (\E p \in Parts : AddPart(p)) \/ (\E c \in Letters : AddLetter(c))
Spec == Init /\ [][Next]_vars

-----------------------------------------------------------------------------
(* A path is matched by the patterns that mean it: the search that jumps   *)
(* to the next likely character misses none.  (Before another part braces  *)
(* can miss a word, see the README.)                                       *)
MatchesRight ==
  Match(text, FlattenSeq([i \in DOMAIN parts |-> parts[i].chars])) = Means(text, parts)
=============================================================================
