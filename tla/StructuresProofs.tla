-------------------------- MODULE StructuresProofs --------------------------
(***************************************************************************)
(* What the parts that the other modules take for granted promise, proved  *)
(* for each value of the constants: the history of a signal, property      *)
(* tables and their copies, time stamps, sync clocks, the records of the   *)
(* graph, arrays of names, the names of maps, lists of objects.  Each has  *)
(* an invariant of its own; a run of Structures is one of a part, so their *)
(* conjunction is an invariant of it.                                      *)
(***************************************************************************)
EXTENDS Structures, FiniteSetTheorems, SequenceTheorems, TLAPS

-----------------------------------------------------------------------------
(* The history of a signal: rings of samples, of which memory is resized.  *)

\* The index k steps back from p in a ring of m, and how it follows p.
Back(p, m, k) == IF k <= p THEN p - k ELSE p + m - k
Ahead1(p, m) == IF p + 1 >= m THEN 0 ELSE p + 1

LEMMA Round ==
    ASSUME NEW m \in Nat \ {0}, NEW a \in 0 .. 2 * m - 1
    PROVE  a % m = IF a < m THEN a ELSE a - m
  OBVIOUS

LEMMA BackIs ==
    ASSUME NEW m \in Nat \ {0}, NEW p \in 0 .. m - 1, NEW k \in 0 .. m - 1
    PROVE  (p + m - k) % m = Back(p, m, k) /\ Back(p, m, k) \in 0 .. m - 1
<1>1. p + m - k \in 0 .. 2 * m - 1
  OBVIOUS
<1> DEFINE a == p + m - k
<1>2. a % m = IF a < m THEN a ELSE a - m
  <2> HIDE DEF a
  <2>1. a \in 0 .. 2 * m - 1
    BY <1>1 DEF a
  <2> QED BY <2>1, Round
<1> QED BY <1>2 DEF Back

LEMMA BackFollows ==
    ASSUME NEW m \in Nat \ {0}, NEW p \in -1 .. m - 1, NEW k \in 0 .. m - 1
    PROVE  /\ Ahead1(p, m) \in 0 .. m - 1
           /\ Back(Ahead1(p, m), m, 0) = Ahead1(p, m)
           /\ k > 0 => Back(Ahead1(p, m), m, k) # Ahead1(p, m) /\ Back(Ahead1(p, m), m, k) \in 0 .. m - 1
           /\ k > 0 /\ p >= 0 => Back(Ahead1(p, m), m, k) = Back(p, m, k - 1)
  BY DEF Back, Ahead1

LEMMA RoundFollows ==
    ASSUME NEW m \in Nat \ {0}, NEW p \in -1 .. m - 1
    PROVE  (p + 1) % m = Ahead1(p, m)
<1>1. p + 1 \in 0 .. 2 * m - 1
  OBVIOUS
<1> DEFINE a == p + 1
<1>2. a % m = IF a < m THEN a ELSE a - m
  <2> HIDE DEF a
  <2>1. a \in 0 .. 2 * m - 1
    BY <1>1 DEF a
  <2> QED BY <2>1, Round
<1> QED BY <1>2 DEF Ahead1

\* After a resize the position may be one too far, which is the first place again.
Blocks(m) == [samps : [0 .. m - 1 -> Int], pos : -1 .. m, full : BOOLEAN]
Place(p, m) == IF p = m THEN 0 ELSE p

\* The samples of f, from p back, are the len ones of h, and some of B behind them.
Ring(f, p, m, h, len, B) ==
    /\ p >= 0 => \A k \in 0 .. m - 1 : IF k < len THEN f[Back(p, m, k)] = h[k + 1]
                                       ELSE f[Back(p, m, k)] \in B
    /\ p < 0 => len = 0 /\ \A k \in 0 .. m - 1 : f[k] \in B

Agrees(b, m, h) ==
    /\ Ring(b.samps, Place(b.pos, m), m, h.since, Len(h.since), {0} \cup h.before)
    /\ b.pos < 0 => h = Buf!Nothing

Histories == {h \in Seq(Int) : Len(h) <= MaxMem}
Pasts == [since : Histories, before : SUBSET Int]

BufferInv ==
    /\ v1 \in {"src", "dst"} /\ v4 \in Nat
    /\ v2 = [mlen |-> v2.mlen, inst |-> v2.inst, active |-> v2.active]
    /\ v2.mlen \in 1 .. MaxMem
    /\ v2.inst \in Seq(Blocks(v2.mlen)) /\ v3 \in Seq(Pasts) /\ Len(v3) = Len(v2.inst)
    /\ \A i \in 1 .. Len(v3) : Agrees(v2.inst[i], v2.mlen, v3[i])
    /\ v1 = "src" => \A i \in 1 .. Len(v3) : v2.inst[i].pos < v2.mlen

LEMMA EmptyAgrees ==
    ASSUME NEW m \in 1 .. MaxMem
    PROVE  /\ Buf!Empty(m) \in Blocks(m) /\ Agrees(Buf!Empty(m), m, Buf!Nothing)
           /\ Buf!Empty(m).pos < m /\ Buf!Nothing \in Pasts
<1>1. m \in Nat \ {0}
  BY SizesAssumption
<1>2. Buf!Nothing.since = <<>> /\ Buf!Nothing.before = {} /\ Buf!Nothing \in Pasts
  BY SizesAssumption DEF Buf!Nothing, Pasts, Histories
<1>3. Buf!Empty(m) \in Blocks(m) /\ Place(Buf!Empty(m).pos, m) = -1 /\ Buf!Empty(m).pos < m
  BY <1>1 DEF Buf!Empty, Blocks, Place, Buf!Zero
<1>4. \A k \in 0 .. m - 1 : Buf!Empty(m).samps[k] = 0
  BY DEF Buf!Empty, Buf!Zero
<1> QED BY <1>2, <1>3, <1>4 DEF Agrees, Ring

\* What is read is what was written k steps ago.
LEMMA SampleIs ==
    ASSUME NEW m \in 1 .. MaxMem, NEW b \in Blocks(m), b.pos >= 0, NEW k \in 0 .. m - 1
    PROVE  Buf!Sample(b, m, k) = b.samps[Back(Place(b.pos, m), m, k)]
<1>1. m \in Nat \ {0} /\ b.pos \in 0 .. m
  BY SizesAssumption DEF Blocks
<1>2. CASE b.pos < m
  <2>1. b.pos \in 0 .. m - 1 /\ Place(b.pos, m) = b.pos
    BY <1>1, <1>2 DEF Place
  <2>2. (b.pos + m - k) % m = Back(b.pos, m, k)
    BY <1>1, <2>1, BackIs
  <2> QED BY <2>1, <2>2 DEF Buf!Sample
<1>3. CASE b.pos = m /\ k = 0
  <2>1. b.pos + m - k = 2 * m /\ Back(Place(b.pos, m), m, k) = 0
    BY <1>1, <1>3 DEF Back, Place
  <2>2. (2 * m) % m = 0
    BY <1>1
  <2> QED BY <2>1, <2>2 DEF Buf!Sample
<1>4. CASE b.pos = m /\ k > 0
  <2>1. PICK a \in 0 .. 2 * m - 1 : a = b.pos + m - k /\ ~ (a < m)
    BY <1>1, <1>4
  <2>2. a % m = a - m
    BY <1>1, <2>1, Round
  <2>3. Back(Place(b.pos, m), m, k) = a - m
    BY <1>1, <1>4, <2>1 DEF Back, Place
  <2> QED BY <2>1, <2>2, <2>3 DEF Buf!Sample
<1> QED BY <1>1, <1>2, <1>3, <1>4

\* What is kept of a history.
LEMMA FrontIs ==
    ASSUME NEW S, NEW c \in Seq(S), NEW l \in 0 .. Len(c)
    PROVE  /\ SubSeq(c, 1, l) \in Seq(S) /\ Len(SubSeq(c, 1, l)) = l
           /\ \A k \in 1 .. l : SubSeq(c, 1, l)[k] = c[k]
  OBVIOUS

LEMMA ConsIs ==
    ASSUME NEW S, NEW h \in Seq(S), NEW s \in S
    PROVE  /\ <<s>> \o h \in Seq(S) /\ Len(<<s>> \o h) = Len(h) + 1 /\ (<<s>> \o h)[1] = s
           /\ \A k \in 1 .. Len(h) : (<<s>> \o h)[k + 1] = h[k]
  OBVIOUS

LEMMA KeptIs ==
    ASSUME NEW c \in Seq(Int), NEW l, l = IF Len(c) < MaxMem THEN Len(c) ELSE MaxMem
    PROVE  l \in 0 .. Len(c) /\ Buf!Recent(c) = SubSeq(c, 1, l)
  BY SizesAssumption DEF Buf!Recent

LEMMA RecentIs ==
    ASSUME NEW h, h \in Histories, NEW s \in Int
    PROVE  LET n == Buf!Recent(<<s>> \o h)
           IN  /\ n \in Histories /\ n[1] = s /\ Len(n) > 0
               /\ Len(n) = IF Len(h) < MaxMem THEN Len(h) + 1 ELSE MaxMem
               /\ \A k \in 1 .. Len(n) - 1 : n[k + 1] = h[k]
<1>1. h \in Seq(Int) /\ Len(h) <= MaxMem /\ Len(h) \in Nat
  BY DEF Histories
<1> DEFINE c == <<s>> \o h
           l == IF Len(c) < MaxMem THEN Len(c) ELSE MaxMem
           n == Buf!Recent(c)
<1>2. /\ c \in Seq(Int) /\ Len(c) = Len(h) + 1 /\ c[1] = s
      /\ \A k \in 1 .. Len(h) : c[k + 1] = h[k]
  BY <1>1, ConsIs
<1>3. l \in 0 .. Len(c) /\ n = SubSeq(c, 1, l)
  <2> HIDE DEF c
  <2> QED BY <1>2, KeptIs
<1>4. l = IF Len(h) < MaxMem THEN Len(h) + 1 ELSE MaxMem
  <2> HIDE DEF c
  <2> QED BY <1>1, <1>2, SizesAssumption
<1> HIDE DEF c, l
<1>5. n \in Seq(Int) /\ Len(n) = l /\ \A k \in 1 .. l : n[k] = c[k]
  BY <1>2, <1>3, FrontIs
<1> HIDE DEF n
<1>6. l \in Nat /\ l > 0 /\ l <= MaxMem /\ l <= Len(h) + 1
  BY <1>1, <1>4, SizesAssumption
<1>7. ASSUME NEW k \in 1 .. Len(n) - 1
      PROVE  n[k + 1] = h[k]
  <2>1. k \in 1 .. Len(h) /\ k + 1 \in 1 .. l
    BY <1>1, <1>5, <1>6
  <2> QED BY <1>2, <1>5, <2>1
<1>8. n[1] = s /\ n \in Histories /\ Len(n) > 0
  BY <1>2, <1>5, <1>6 DEF Histories
<1> QED BY <1>4, <1>5, <1>7, <1>8 DEF n, c

\* A write at the next position: what was k steps back is one more step back.
LEMMA RingFollows ==
    ASSUME NEW m \in Nat \ {0}, NEW p \in -1 .. m - 1, NEW q, q = Ahead1(p, m),
           NEW f, NEW e, NEW s, e[q] = s, \A j \in 0 .. m - 1 : j # q => e[j] = f[j],
           NEW h, NEW g, NEW L \in Nat, NEW K \in Nat,
           g[1] = s, K > 0, \A k \in 1 .. K - 1 : g[k + 1] = h[k],
           K = L + 1 \/ (K <= L /\ K >= m), NEW B,
           Ring(f, p, m, h, L, B)
    PROVE  Ring(e, q, m, g, K, B)
<1>1. q \in 0 .. m - 1
  BY DEF Ahead1
<1>2. ASSUME NEW k \in 0 .. m - 1
      PROVE  IF k < K THEN e[Back(q, m, k)] = g[k + 1] ELSE e[Back(q, m, k)] \in B
  <2>1. CASE k = 0
    <3>1. Back(q, m, k) = q
      BY <2>1, BackFollows
    <3> QED BY <2>1, <3>1
  <2>2. CASE k > 0
    <3>1. PICK j \in 0 .. m - 1 : j = Back(q, m, k) /\ j # q /\ (p >= 0 => j = Back(p, m, k - 1))
      BY <2>2, BackFollows
    <3>2. e[j] = f[j]
      BY <3>1
    <3>3. k < K => g[k + 1] = h[k]
      BY <2>2
    <3>4. CASE p < 0
      <4>1. f[j] \in B /\ K = 1
        BY <3>4 DEF Ring
      <4> QED BY <2>2, <3>1, <3>2, <4>1
    <3>5. CASE p >= 0
      <4>1. PICK i \in 0 .. m - 1 : i = k - 1
        BY <2>2
      <4>2. IF i < L THEN f[j] = h[i + 1] ELSE f[j] \in B
        BY <3>1, <3>5, <4>1 DEF Ring
      <4>3. i + 1 = k /\ (i < L <=> k < K)
        BY <4>1
      <4> QED BY <3>1, <3>2, <3>3, <4>2, <4>3
    <3> QED BY <3>4, <3>5
  <2> QED BY <2>1, <2>2
<1> QED BY <1>1, <1>2 DEF Ring

LEMMA WriteAgrees ==
    ASSUME NEW m \in 1 .. MaxMem, NEW b \in Blocks(m), NEW h \in Pasts, Agrees(b, m, h),
           NEW s \in Int, NEW n \in Blocks(m),
           n.pos = Ahead1(Place(b.pos, m), m),
           n.samps[n.pos] = s, \A j \in 0 .. m - 1 : j # n.pos => n.samps[j] = b.samps[j]
    PROVE  LET g == [since |-> Buf!Recent(<<s>> \o h.since), before |-> h.before]
           IN  Agrees(n, m, g) /\ g \in Pasts /\ n.pos < m
<1> DEFINE g == Buf!Recent(<<s>> \o h.since)
<1>1. h.since \in Histories /\ h.before \in SUBSET Int
  BY DEF Pasts
<1>2. /\ g \in Histories /\ g[1] = s /\ Len(g) > 0
      /\ Len(g) = IF Len(h.since) < MaxMem THEN Len(h.since) + 1 ELSE MaxMem
      /\ \A k \in 1 .. Len(g) - 1 : g[k + 1] = h.since[k]
  BY <1>1, RecentIs
<1> HIDE DEF g
<1>3. Len(h.since) \in Nat /\ Len(h.since) <= MaxMem /\ Len(g) \in Nat /\ m \in Nat \ {0}
  BY <1>1, <1>2, SizesAssumption DEF Histories
<1>4. Len(g) = Len(h.since) + 1 \/ (Len(g) <= Len(h.since) /\ Len(g) >= m)
  BY <1>2, <1>3, SizesAssumption
<1>5. Place(b.pos, m) \in -1 .. m - 1
  BY <1>3 DEF Blocks, Place
<1>6. Ring(b.samps, Place(b.pos, m), m, h.since, Len(h.since), {0} \cup h.before)
  BY DEF Agrees
<1>7. Ring(n.samps, n.pos, m, g, Len(g), {0} \cup h.before)
  <2>1. PICK B, L, K, p, l : /\ B = {0} \cup h.before /\ p = Place(b.pos, m) /\ l = h.since
                             /\ L = Len(l) /\ K = Len(g)
    OBVIOUS
  <2>2. /\ L \in Nat /\ K \in Nat /\ K > 0 /\ g[1] = s /\ \A k \in 1 .. K - 1 : g[k + 1] = l[k]
        /\ K = L + 1 \/ (K <= L /\ K >= m)
    BY <1>2, <1>3, <1>4, <2>1
  <2>3. Ring(b.samps, p, m, l, L, B) /\ n.pos = Ahead1(p, m) /\ p \in -1 .. m - 1
    BY <1>5, <1>6, <2>1
  <2>4. Ring(n.samps, n.pos, m, g, K, B)
    BY <1>3, <2>2, <2>3, RingFollows, ZenonT(30)
  <2> QED BY <2>1, <2>4
<1>8. n.pos \in 0 .. m - 1
  BY <1>3, <1>5, BackFollows
<1>9. Place(n.pos, m) = n.pos /\ n.pos < m /\ ~ (n.pos < 0)
  BY <1>3, <1>8 DEF Place
<1>10. PICK r : r = [since |-> g, before |-> h.before]
  OBVIOUS
<1>11. r.since = g /\ r.before = h.before /\ r \in Pasts
  BY <1>1, <1>2, <1>10 DEF Pasts
<1>12. Agrees(n, m, r)
  BY <1>7, <1>9, <1>11 DEF Agrees
<1> QED BY <1>9, <1>10, <1>11, <1>12 DEF g

LEMMA WriteIs ==
    ASSUME NEW m \in 1 .. MaxMem, NEW b \in Blocks(m), NEW s \in Int
    PROVE  LET n == Buf!Write(b, m, s)
           IN  /\ n \in Blocks(m) /\ n.pos = Ahead1(b.pos, m)
               /\ n.samps[n.pos] = s /\ \A j \in 0 .. m - 1 : j # n.pos => n.samps[j] = b.samps[j]
<1> DEFINE a == Buf!Advance(b, m)
           n == Buf!Write(b, m, s)
<1>1. /\ m \in Nat \ {0} /\ b.pos \in -1 .. m
      /\ b = [samps |-> b.samps, pos |-> b.pos, full |-> b.full]
      /\ b.samps \in [0 .. m - 1 -> Int] /\ b.full \in BOOLEAN
  BY SizesAssumption DEF Blocks
<1>2. Ahead1(b.pos, m) \in 0 .. m - 1
  BY <1>1 DEF Ahead1
<1>3. a.pos = Ahead1(b.pos, m) /\ a.samps = b.samps /\ a.full \in BOOLEAN
      /\ a = [samps |-> a.samps, pos |-> a.pos, full |-> a.full]
  BY <1>1 DEF Buf!Advance, Ahead1
<1>4. n = [a EXCEPT !.samps[a.pos] = s]
  BY DEF Buf!Write
<1> HIDE DEF a, n
<1>5. n.pos = a.pos /\ n.full = a.full /\ n.samps = [a.samps EXCEPT ![a.pos] = s]
      /\ n = [samps |-> n.samps, pos |-> n.pos, full |-> n.full]
  BY <1>3, <1>4
<1>6. n.samps \in [0 .. m - 1 -> Int] /\ n.samps[a.pos] = s
      /\ \A j \in 0 .. m - 1 : j # a.pos => n.samps[j] = a.samps[j]
  BY <1>1, <1>2, <1>3, <1>5
<1>7. n \in Blocks(m)
  BY <1>1, <1>2, <1>3, <1>5, <1>6 DEF Blocks
<1> QED BY <1>3, <1>5, <1>6, <1>7 DEF n

\* One instance changes.
LEMMA OneSet ==
    ASSUME BufferInv, NEW i \in 1 .. Len(v3), NEW b \in Blocks(v2.mlen), NEW h \in Pasts,
           v1' = v1, v4' \in Nat,
           v2' = [mlen |-> v2'.mlen, inst |-> v2'.inst, active |-> v2'.active],
           v2'.mlen = v2.mlen, v2'.inst = [v2.inst EXCEPT ![i] = b], v3' = [v3 EXCEPT ![i] = h],
           Agrees(b, v2.mlen, h), v1 = "src" => b.pos < v2.mlen
    PROVE  BufferInv'
<1>1. v2'.inst \in Seq(Blocks(v2.mlen)) /\ Len(v2'.inst) = Len(v2.inst)
      /\ v2'.inst[i] = b /\ \A j \in 1 .. Len(v3) : j # i => v2'.inst[j] = v2.inst[j]
  BY DEF BufferInv
<1>2. v3' \in Seq(Pasts) /\ Len(v3') = Len(v3)
      /\ v3'[i] = h /\ \A j \in 1 .. Len(v3) : j # i => v3'[j] = v3[j]
  BY DEF BufferInv
<1>3. \A j \in 1 .. Len(v3') : Agrees(v2'.inst[j], v2'.mlen, v3'[j])
  BY <1>1, <1>2 DEF BufferInv
<1>4. v1' = "src" => \A j \in 1 .. Len(v3') : v2'.inst[j].pos < v2'.mlen
  BY <1>1, <1>2 DEF BufferInv
<1> QED BY <1>1, <1>2, <1>3, <1>4 DEF BufferInv

LEMMA InstIs ==
    ASSUME BufferInv, NEW i \in Buf!Insts
    PROVE  /\ i \in 1 .. Len(v3) /\ v2.inst[i] \in Blocks(v2.mlen) /\ v3[i] \in Pasts
           /\ v2.mlen \in 1 .. MaxMem /\ Agrees(v2.inst[i], v2.mlen, v3[i])
  BY DEF Buf!Insts, BufferInv

LEMMA SetSampKeeps ==
    ASSUME BufferInv, NEW i \in Buf!Insts, Buf!SetSamp(i)
    PROVE  BufferInv'
<1> DEFINE b == Buf!Write(v2.inst[i], v2.mlen, v4 + 1)
           h == [since |-> Buf!Recent(<<v4 + 1>> \o v3[i].since), before |-> v3[i].before]
<1>1. /\ i \in 1 .. Len(v3) /\ v2.inst[i] \in Blocks(v2.mlen) /\ v3[i] \in Pasts
      /\ v2.mlen \in 1 .. MaxMem /\ v4 \in Nat /\ Agrees(v2.inst[i], v2.mlen, v3[i])
      /\ v2 = [mlen |-> v2.mlen, inst |-> v2.inst, active |-> v2.active]
  BY InstIs DEF BufferInv
<1>2. Place(v2.inst[i].pos, v2.mlen) = v2.inst[i].pos
  <2>1. v2.inst[i].pos < v2.mlen /\ v2.inst[i].pos \in Int
    BY <1>1 DEF BufferInv, Buf!SetSamp, Blocks
  <2> QED BY <1>1, <2>1 DEF Place
<1>3. v2' = [v2 EXCEPT !.inst[i] = b, !.active = IF Buf!Used(v2.inst[i]) THEN @ ELSE @ + 1]
      /\ v3' = [v3 EXCEPT ![i] = h] /\ v4' = v4 + 1 /\ v1' = v1
  <2>1. [v3[i] EXCEPT !.since = Buf!Recent(<<v4 + 1>> \o @)] = h
    BY <1>1 DEF Pasts
  <2> HIDE DEF h
  <2> QED BY <2>1 DEF Buf!SetSamp
<1>4. /\ b \in Blocks(v2.mlen) /\ b.pos = Ahead1(v2.inst[i].pos, v2.mlen)
      /\ b.samps[b.pos] = v4 + 1 /\ \A j \in 0 .. v2.mlen - 1 : j # b.pos => b.samps[j] = v2.inst[i].samps[j]
  <2>1. v4 + 1 \in Int
    BY <1>1
  <2> QED BY <1>1, <2>1, WriteIs
<1> HIDE DEF b
<1>5. Agrees(b, v2.mlen, h) /\ h \in Pasts /\ b.pos < v2.mlen
  BY <1>1, <1>2, <1>4, WriteAgrees
<1> HIDE DEF h
<1>6. /\ v2' = [mlen |-> v2'.mlen, inst |-> v2'.inst, active |-> v2'.active]
      /\ v2'.mlen = v2.mlen /\ v2'.inst = [v2.inst EXCEPT ![i] = b]
  BY <1>1, <1>3
<1>7. v4' \in Nat
  BY <1>1, <1>3
<1> QED BY <1>1, <1>3, <1>4, <1>5, <1>6, <1>7, OneSet, ZenonT(30)

\* An evaluation that assigns nothing goes back to where it was, or to the last place.
LEMMA BackAgain ==
    ASSUME NEW m \in Nat \ {0}, NEW p \in -1 .. m
    PROVE  LET next == (p + 1) % m
               back == IF next = 0 THEN m - 1 ELSE next - 1
           IN  /\ next \in 0 .. m - 1 /\ back \in 0 .. m - 1
               /\ next = Ahead1(Place(p, m), m)
               /\ p >= 0 => back = Place(p, m)
<1>1. (p + 1) % m = Ahead1(Place(p, m), m)
  <2>1. CASE p < m
    BY <2>1, RoundFollows DEF Place
  <2>2. CASE p = m /\ m = 1
    BY <2>2 DEF Place, Ahead1
  <2>3. CASE p = m /\ m > 1
    <3>1. PICK a \in 0 .. 2 * m - 1 : a = p + 1 /\ ~ (a < m)
      BY <2>3
    <3> QED BY <2>3, <3>1, Round DEF Place, Ahead1
  <2> QED BY <2>1, <2>2, <2>3
<1>2. PICK q : q = (p + 1) % m
  OBVIOUS
<1>3. q \in 0 .. m - 1
  BY <1>2
<1> QED BY <1>1, <1>2, <1>3 DEF Ahead1, Place

LEMMA EvalKeeps ==
    ASSUME BufferInv, NEW i \in Buf!Insts, NEW assigns \in BOOLEAN, Buf!Eval(i, assigns)
    PROVE  BufferInv'
<1> DEFINE m == v2.mlen
           old == v2.inst[i]
           next == (old.pos + 1) % m
           back == IF next = 0 THEN m - 1 ELSE next - 1
<1>1. /\ i \in 1 .. Len(v3) /\ old \in Blocks(m) /\ v3[i] \in Pasts
      /\ m \in 1 .. MaxMem /\ v4 \in Nat /\ v2.inst \in Seq(Blocks(m)) /\ i \in 1 .. Len(v2.inst)
      /\ v2 = [mlen |-> v2.mlen, inst |-> v2.inst, active |-> v2.active]
      /\ Agrees(old, m, v3[i])
  BY InstIs DEF BufferInv
<1>2. /\ m \in Nat \ {0} /\ old.pos \in -1 .. m
      /\ old = [samps |-> old.samps, pos |-> old.pos, full |-> old.full]
      /\ old.samps \in [0 .. m - 1 -> Int] /\ old.full \in BOOLEAN
  BY <1>1, SizesAssumption DEF Blocks
<1>3. /\ next \in 0 .. m - 1 /\ back \in 0 .. m - 1
      /\ next = Ahead1(Place(old.pos, m), m)
      /\ old.pos >= 0 => back = Place(old.pos, m)
  <2> HIDE DEF old, m
  <2> QED BY <1>2, BackAgain
<1>4. v4' \in Nat /\ v1' = v1 /\ v1 # "src"
  BY <1>1 DEF Buf!Eval
<1>5. CASE assigns
  <2> DEFINE b == [samps |-> [old.samps EXCEPT ![next] = v4 + 1], pos |-> next, full |-> old.full]
             h == [since |-> Buf!Recent(<<v4 + 1>> \o v3[i].since), before |-> v3[i].before]
  <2>1. v2' = [v2 EXCEPT !.inst[i].pos = next, !.inst[i].samps[next] = v4 + 1]
        /\ v3' = [v3 EXCEPT ![i] = h]
    <3>1. [v3[i] EXCEPT !.since = Buf!Recent(<<v4 + 1>> \o @)] = h
      BY <1>1 DEF Pasts
    <3> HIDE DEF h
    <3> QED BY <1>5, <3>1 DEF Buf!Eval
  <2>2. /\ v2' = [mlen |-> v2'.mlen, inst |-> v2'.inst, active |-> v2'.active]
        /\ v2'.mlen = v2.mlen /\ v2'.inst = [v2.inst EXCEPT ![i] = b]
    <3>1. v2'.inst = [v2.inst EXCEPT ![i] = [[old EXCEPT !.pos = next] EXCEPT !.samps[next] = v4 + 1]]
      <4> HIDE DEF next
      <4> QED BY <1>1, <2>1
    <3>2. [[old EXCEPT !.pos = next] EXCEPT !.samps[next] = v4 + 1] = b
      <4> HIDE DEF next, old
      <4>1. PICK c : c = [old EXCEPT !.pos = next]
        OBVIOUS
      <4>2. c = [samps |-> old.samps, pos |-> next, full |-> old.full]
        BY <1>2, <4>1
      <4>3. [c EXCEPT !.samps[next] = v4 + 1] = b
        BY <4>2
      <4> QED BY <4>1, <4>3
    <3> QED BY <1>1, <2>1, <3>1, <3>2
  <2>3. /\ b \in Blocks(m) /\ b.pos = Ahead1(Place(old.pos, m), m)
        /\ b.samps[b.pos] = v4 + 1 /\ \A j \in 0 .. m - 1 : j # b.pos => b.samps[j] = old.samps[j]
    <3> HIDE DEF next, old, m
    <3>1. v4 + 1 \in Int /\ next \in -1 .. m
      BY <1>1, <1>2, <1>3
    <3>2. [old.samps EXCEPT ![next] = v4 + 1] \in [0 .. m - 1 -> Int]
      BY <1>2, <1>3, <3>1
    <3> QED BY <1>2, <1>3, <3>1, <3>2 DEF Blocks
  <2>4. h \in Pasts /\ Agrees(b, m, h)
    <3>1. v4 + 1 \in Int
      BY <1>1
    <3> HIDE DEF b, m, old
    <3> QED BY <1>1, <2>3, <3>1, WriteAgrees
  <2> HIDE DEF b, h, next, back, old
  <2> QED BY <1>1, <1>4, <2>1, <2>2, <2>3, <2>4, OneSet, ZenonT(30)
<1>6. CASE ~assigns
  <2> DEFINE b == [samps |-> old.samps, pos |-> back, full |-> old.full]
             h == v3[i]
  <2>1. v2' = [v2 EXCEPT !.inst[i].pos = back] /\ v3' = v3
    BY <1>6 DEF Buf!Eval
  <2>2. /\ v2' = [mlen |-> v2'.mlen, inst |-> v2'.inst, active |-> v2'.active]
        /\ v2'.mlen = v2.mlen /\ v2'.inst = [v2.inst EXCEPT ![i] = b]
    <3>1. v2'.inst = [v2.inst EXCEPT ![i] = [old EXCEPT !.pos = back]]
      <4> HIDE DEF back
      <4> QED BY <1>1, <2>1
    <3>2. [old EXCEPT !.pos = back] = b
      <4> HIDE DEF back, old
      <4> QED BY <1>2
    <3> QED BY <1>1, <2>1, <3>1, <3>2
  <2>3. b \in Blocks(m) /\ b.pos = back /\ b.samps = old.samps
    <3> HIDE DEF back, old, m
    <3>1. back \in -1 .. m
      BY <1>2, <1>3
    <3> QED BY <1>2, <3>1 DEF Blocks
  <2>4. Agrees(b, m, h)
    <3> HIDE DEF b, back, old, m, h
    <3>1. /\ Ring(old.samps, Place(old.pos, m), m, h.since, Len(h.since), {0} \cup h.before)
          /\ b.pos \in 0 .. m - 1 /\ Place(b.pos, m) = b.pos /\ ~ (b.pos < 0)
      BY <1>1, <1>2, <1>3, <2>3 DEF Agrees, Place, h
    <3>2. CASE old.pos >= 0
      BY <1>3, <2>3, <3>1, <3>2 DEF Agrees
    <3>3. CASE old.pos < 0
      <4>1. Len(h.since) = 0 /\ \A k \in 0 .. m - 1 : b.samps[k] \in {0} \cup h.before
        BY <1>2, <2>3, <3>1, <3>3 DEF Place, Ring
      <4>2. \A k \in 0 .. m - 1 : Back(b.pos, m, k) \in 0 .. m - 1
        BY <1>2, <3>1, BackIs
      <4>3. \A k \in 0 .. m - 1 : b.samps[Back(b.pos, m, k)] \in {0} \cup h.before /\ ~(k < Len(h.since))
        BY <4>1, <4>2
      <4> QED BY <3>1, <4>3 DEF Agrees, Ring
    <3> QED BY <1>2, <3>2, <3>3
  <2>5. v3' = [v3 EXCEPT ![i] = h]
    BY <1>1, <2>1 DEF BufferInv
  <2> HIDE DEF b, h, next, back, old
  <2>6. h \in Pasts
    BY <1>1 DEF h
  <2> QED BY <1>1, <1>4, <2>2, <2>3, <2>4, <2>5, <2>6, OneSet, ZenonT(30)
<1> QED BY <1>5, <1>6

LEMMA ResetInstKeeps ==
    ASSUME BufferInv, NEW i \in Buf!Insts, Buf!ResetInst(i)
    PROVE  BufferInv'
<1> DEFINE b == Buf!Empty(v2.mlen)
           h == Buf!Nothing
<1>1. /\ i \in 1 .. Len(v3) /\ v2.mlen \in 1 .. MaxMem /\ v4 \in Nat
      /\ v2 = [mlen |-> v2.mlen, inst |-> v2.inst, active |-> v2.active]
  BY InstIs DEF BufferInv
<1>2. b \in Blocks(v2.mlen) /\ Agrees(b, v2.mlen, h) /\ h \in Pasts /\ b.pos < v2.mlen
  BY <1>1, EmptyAgrees
<1>3. /\ v2' = [v2 EXCEPT !.inst[i] = b, !.active = IF Buf!Used(v2.inst[i]) THEN (@ + 255) % 256 ELSE @]
      /\ v3' = [v3 EXCEPT ![i] = h] /\ v4' = v4 /\ v1' = v1
  BY DEF Buf!ResetInst, Buf!Reset
<1> HIDE DEF b, h
<1>4. /\ v2' = [mlen |-> v2'.mlen, inst |-> v2'.inst, active |-> v2'.active]
      /\ v2'.mlen = v2.mlen /\ v2'.inst = [v2.inst EXCEPT ![i] = b]
  BY <1>1, <1>3
<1>5. v4' \in Nat
  BY <1>1, <1>3
<1> QED BY <1>1, <1>2, <1>3, <1>4, <1>5, OneSet, ZenonT(30)

\* An instance goes, from the values and from the history.
LEMMA WithoutIs ==
    ASSUME NEW S, NEW s \in Seq(S), NEW i \in 1 .. Len(s)
    PROVE  LET n == [j \in 1 .. Len(s) - 1 |-> IF j < i THEN s[j] ELSE s[j + 1]]
           IN  /\ n \in Seq(S) /\ Len(n) = Len(s) - 1
               /\ \A j \in 1 .. Len(s) - 1 : n[j] = IF j < i THEN s[j] ELSE s[j + 1]
<1> DEFINE n == [j \in 1 .. Len(s) - 1 |-> IF j < i THEN s[j] ELSE s[j + 1]]
<1>1. PICK l \in Nat : l = Len(s) - 1
  OBVIOUS
<1>2. n \in [1 .. l -> S]
  BY <1>1
<1> QED BY <1>1, <1>2

LEMMA RemoveInstKeeps ==
    ASSUME BufferInv, NEW i \in Buf!Insts, Buf!RemoveInst(i)
    PROVE  BufferInv'
<1>1. /\ i \in 1 .. Len(v3) /\ v2.inst \in Seq(Blocks(v2.mlen)) /\ v3 \in Seq(Pasts)
      /\ Len(v3) = Len(v2.inst)
      /\ v2 = [mlen |-> v2.mlen, inst |-> v2.inst, active |-> v2.active]
  BY InstIs DEF BufferInv
<1>2. /\ v2' = [v2 EXCEPT !.inst = Buf!Without(@, i),
                          !.active = IF Buf!Used(v2.inst[i]) THEN (@ + 255) % 256 ELSE @]
      /\ v3' = [j \in 1 .. Len(v3) - 1 |-> IF j < i THEN v3[j] ELSE v3[j + 1]]
      /\ v4' = v4 /\ v1' = v1
  BY DEF Buf!RemoveInst
<1>3. /\ v2' = [mlen |-> v2'.mlen, inst |-> v2'.inst, active |-> v2'.active]
      /\ v2'.mlen = v2.mlen /\ v2'.inst = Buf!Without(v2.inst, i)
  BY <1>1, <1>2
<1>4. /\ v2'.inst \in Seq(Blocks(v2.mlen)) /\ Len(v2'.inst) = Len(v3) - 1
      /\ \A j \in 1 .. Len(v3) - 1 : v2'.inst[j] = IF j < i THEN v2.inst[j] ELSE v2.inst[j + 1]
  BY <1>1, <1>3, WithoutIs DEF Buf!Without
<1>5. /\ v3' \in Seq(Pasts) /\ Len(v3') = Len(v3) - 1
      /\ \A j \in 1 .. Len(v3) - 1 : v3'[j] = IF j < i THEN v3[j] ELSE v3[j + 1]
  BY <1>1, <1>2, WithoutIs
<1>6. \A j \in 1 .. Len(v3') : \E k \in 1 .. Len(v3) : v3'[j] = v3[k] /\ v2'.inst[j] = v2.inst[k]
  <2> SUFFICES ASSUME NEW j \in 1 .. Len(v3')
               PROVE  \E k \in 1 .. Len(v3) : v3'[j] = v3[k] /\ v2'.inst[j] = v2.inst[k]
    OBVIOUS
  <2>1. j \in 1 .. Len(v3) /\ j + 1 \in 1 .. Len(v3)
    BY <1>1, <1>5
  <2> QED BY <1>4, <1>5, <2>1
<1>7. \A j \in 1 .. Len(v3') : Agrees(v2'.inst[j], v2'.mlen, v3'[j])
  BY <1>3, <1>6 DEF BufferInv
<1>8. v1 = "src" => \A j \in 1 .. Len(v3') : v2'.inst[j].pos < v2'.mlen
  BY <1>3, <1>6 DEF BufferInv
<1>9. Len(v3') = Len(v2'.inst)
  BY <1>4, <1>5
<1> QED BY <1>2, <1>3, <1>4, <1>5, <1>7, <1>8, <1>9 DEF BufferInv

\* All that a buffer holds was written into it since its reset, or is zero.
LEMMA AllWritten ==
    ASSUME NEW m \in 1 .. MaxMem, NEW b \in Blocks(m), NEW h \in Pasts, Agrees(b, m, h),
           NEW j \in 0 .. m - 1
    PROVE  b.samps[j] \in {0} \cup Buf!Written(h)
<1>1. PICK p : p = Place(b.pos, m)
  OBVIOUS
<1>2. p \in -1 .. m - 1 /\ m \in Nat \ {0}
  BY <1>1, SizesAssumption DEF Blocks, Place
<1>3. Ring(b.samps, p, m, h.since, Len(h.since), {0} \cup h.before)
  BY <1>1 DEF Agrees
<1>4. h.before \subseteq Buf!Written(h) /\ \A k \in 1 .. Len(h.since) : h.since[k] \in Buf!Written(h)
  BY DEF Buf!Written, Pasts, Histories
<1>5. CASE p < 0
  BY <1>3, <1>4, <1>5 DEF Ring
<1>6. CASE p >= 0
  <2>1. PICK k \in 0 .. m - 1 : k = IF j <= p THEN p - j ELSE p + m - j
    <3>1. CASE j <= p
      <4>1. p - j \in 0 .. m - 1
        BY <1>2, <1>6, <3>1
      <4> QED BY <3>1, <4>1
    <3>2. CASE ~ (j <= p)
      <4>1. p + m - j \in 0 .. m - 1
        BY <1>2, <1>6, <3>2
      <4> QED BY <3>2, <4>1
    <3> QED BY <3>1, <3>2
  <2>2. Back(p, m, k) = j
    BY <1>2, <1>6, <2>1 DEF Back
  <2>3. IF k < Len(h.since) THEN b.samps[j] = h.since[k + 1] ELSE b.samps[j] \in {0} \cup h.before
    BY <1>3, <1>6, <2>2 DEF Ring
  <2>4. Len(h.since) \in Nat
    BY DEF Pasts, Histories
  <2>5. k < Len(h.since) => k + 1 \in 1 .. Len(h.since)
    BY <2>4
  <2> QED BY <1>4, <2>3, <2>5
<1> QED BY <1>2, <1>5, <1>6

\* A copy of another size holds some of the same samples, and zeros.
LEMMA ResizedAgrees ==
    ASSUME NEW old \in 1 .. MaxMem, NEW new \in 1 .. MaxMem, NEW b \in Blocks(old),
           NEW h \in Pasts, Agrees(b, old, h)
    PROVE  LET r == Buf!Resized(b, old, new)
           IN  r \in Blocks(new) /\ Agrees(r, new, Buf!Older(h)) /\ Buf!Older(h) \in Pasts
<1> DEFINE o == Buf!Opos(b)
           n == IF new > old THEN old - o ELSE IF old - o < new THEN old - o ELSE new
           from(k) == IF k < n THEN b.samps[o + k] ELSE IF k < old THEN b.samps[k - n] ELSE Buf!Zero
           r == Buf!Resized(b, old, new)
<1>1. /\ r.samps = [k \in 0 .. new - 1 |-> from(k)]
      /\ r.pos = IF ~Buf!Used(b) THEN -1 ELSE IF new > old THEN old ELSE n
      /\ r.full = FALSE /\ r = [samps |-> r.samps, pos |-> r.pos, full |-> r.full]
  BY DEF Buf!Resized
<1>2. /\ old \in Nat \ {0} /\ new \in Nat \ {0} /\ b.pos \in -1 .. old
      /\ b.samps \in [0 .. old - 1 -> Int]
  BY SizesAssumption DEF Blocks
<1>3. o \in 0 .. old /\ (b.pos < 0 => o = 0)
  BY <1>2 DEF Buf!Opos, Buf!Used
<1>4. n \in 0 .. new /\ o + n <= old /\ (new > old => n <= old)
  <2> HIDE DEF o
  <2> QED BY <1>2, <1>3
<1>5. \A k \in 0 .. new - 1 : k < n => o + k \in 0 .. old - 1
  <2> HIDE DEF o, n
  <2> QED BY <1>2, <1>3, <1>4
<1>6. \A k \in 0 .. new - 1 : ~(k < n) /\ k < old => k - n \in 0 .. old - 1
  <2> HIDE DEF o, n
  <2> QED BY <1>2, <1>3, <1>4
<1>7. \A k \in 0 .. new - 1 : from(k) = Buf!Zero \/ \E j \in 0 .. old - 1 : from(k) = b.samps[j]
  <2> HIDE DEF o, n
  <2> QED BY <1>5, <1>6
<1> HIDE DEF r, from
<1>8. Buf!Zero = 0 /\ \A j \in 0 .. old - 1 : b.samps[j] \in Int
  BY <1>2 DEF Buf!Zero
<1>9. r.samps \in [0 .. new - 1 -> Int]
  BY <1>1, <1>7, <1>8
<1>10. r.pos \in -1 .. new
  <2> HIDE DEF o, n
  <2> QED BY <1>1, <1>2, <1>4
<1>11. r \in Blocks(new)
  BY <1>1, <1>9, <1>10 DEF Blocks
<1>12. PICK g : g = Buf!Older(h)
  OBVIOUS
<1>13. g.since = <<>> /\ g.before = Buf!Written(h) /\ g \in Pasts
  <2>1. Buf!Written(h) \in SUBSET Int
    BY DEF Buf!Written, Pasts, Histories
  <2>2. <<>> \in Histories
    BY SizesAssumption DEF Histories
  <2> QED BY <1>12, <2>1, <2>2 DEF Buf!Older, Pasts
<1>14. \A k \in 0 .. new - 1 : r.samps[k] \in {0} \cup g.before
  <2>1. \A j \in 0 .. old - 1 : b.samps[j] \in {0} \cup g.before
    BY <1>13, AllWritten
  <2> QED BY <1>1, <1>7, <1>8, <2>1
<1>15. r.pos < 0 => g = Buf!Nothing
  <2> SUFFICES ASSUME r.pos < 0
               PROVE  g = Buf!Nothing
    OBVIOUS
  <2>1. b.pos < 0
    <3> HIDE DEF o, n
    <3> QED BY <1>1, <1>2, <1>4 DEF Buf!Used
  <2>2. h = Buf!Nothing
    BY <2>1 DEF Agrees
  <2>3. Buf!Written(h) = {}
    BY <2>2 DEF Buf!Written, Buf!Nothing
  <2> QED BY <1>12, <2>3 DEF Buf!Older, Buf!Nothing
<1>16. Agrees(r, new, g)
  <2>1. PICK p : p = Place(r.pos, new)
    OBVIOUS
  <2>2. p \in -1 .. new - 1
    BY <1>2, <1>10, <2>1 DEF Place
  <2>3. ASSUME p >= 0, NEW k \in 0 .. new - 1
        PROVE  Back(p, new, k) \in 0 .. new - 1
    BY <1>2, <2>2, <2>3 DEF Back
  <2>4. Ring(r.samps, p, new, g.since, Len(g.since), {0} \cup g.before)
    BY <1>13, <1>14, <2>3 DEF Ring
  <2> QED BY <1>15, <2>1, <2>4 DEF Agrees
<1> QED BY <1>11, <1>12, <1>13, <1>16 DEF r

LEMMA ReallocKeeps ==
    ASSUME BufferInv, NEW mlen \in 1 .. MaxMem, NEW n \in 1 .. MaxInst, NEW other \in BOOLEAN,
           Buf!Realloc(mlen, n, other)
    PROVE  BufferInv'
<1> DEFINE fresh == v1 = "src" \/ other
           inst(i) == IF i \notin 1 .. Len(v3) \/ fresh THEN Buf!Empty(mlen)
                      ELSE IF mlen = v2.mlen THEN v2.inst[i] ELSE Buf!Resized(v2.inst[i], v2.mlen, mlen)
           hist(i) == IF i \notin 1 .. Len(v3) \/ fresh THEN Buf!Nothing
                      ELSE IF mlen = v2.mlen THEN v3[i] ELSE Buf!Older(v3[i])
<1>1. /\ Buf!Insts = 1 .. Len(v3) /\ v2.mlen \in 1 .. MaxMem
      /\ v1 \in {"src", "dst"} /\ v4 \in Nat
  BY DEF Buf!Insts, BufferInv
<1>2. /\ v2' = [mlen |-> mlen, active |-> v2.active, inst |-> [i \in 1 .. n |-> inst(i)]]
      /\ v3' = [i \in 1 .. n |-> hist(i)] /\ v1' = v1 /\ v4' = v4
  BY <1>1 DEF Buf!Realloc
<1>3. \A i : /\ inst(i) \in Blocks(mlen) /\ hist(i) \in Pasts /\ Agrees(inst(i), mlen, hist(i))
             /\ v1 = "src" => inst(i).pos < mlen
  <2> SUFFICES ASSUME NEW i
               PROVE  /\ inst(i) \in Blocks(mlen) /\ hist(i) \in Pasts /\ Agrees(inst(i), mlen, hist(i))
                      /\ v1 = "src" => inst(i).pos < mlen
    OBVIOUS
  <2>1. CASE i \notin 1 .. Len(v3) \/ fresh
    <3>1. inst(i) = Buf!Empty(mlen) /\ hist(i) = Buf!Nothing
      BY <2>1
    <3> HIDE DEF inst, hist
    <3> QED BY <3>1, EmptyAgrees
  <2>2. CASE i \in 1 .. Len(v3) /\ ~fresh
    <3>1. /\ v2.inst[i] \in Blocks(v2.mlen) /\ v3[i] \in Pasts
          /\ Agrees(v2.inst[i], v2.mlen, v3[i]) /\ v1 # "src"
      BY <1>1, <2>2, InstIs
    <3>2. CASE mlen = v2.mlen
      <4>1. inst(i) = v2.inst[i] /\ hist(i) = v3[i]
        BY <2>2, <3>2
      <4> HIDE DEF inst, hist
      <4> QED BY <3>1, <3>2, <4>1
    <3>3. CASE mlen # v2.mlen
      <4>1. inst(i) = Buf!Resized(v2.inst[i], v2.mlen, mlen) /\ hist(i) = Buf!Older(v3[i])
        BY <2>2, <3>3
      <4> HIDE DEF inst, hist
      <4> QED BY <1>1, <3>1, <4>1, ResizedAgrees
    <3> QED BY <3>2, <3>3
  <2> QED BY <2>1, <2>2
<1> HIDE DEF inst, hist
<1>4. /\ v2' = [mlen |-> v2'.mlen, inst |-> v2'.inst, active |-> v2'.active]
      /\ v2'.mlen = mlen /\ v2'.inst = [i \in 1 .. n |-> inst(i)]
  BY <1>2
<1>5. [i \in 1 .. n |-> inst(i)] \in [1 .. n -> Blocks(mlen)] /\ [i \in 1 .. n |-> hist(i)] \in [1 .. n -> Pasts]
  BY <1>3
<1>6. /\ v2'.inst \in Seq(Blocks(mlen)) /\ Len(v2'.inst) = n
      /\ v3' \in Seq(Pasts) /\ Len(v3') = n
      /\ \A i \in 1 .. n : v2'.inst[i] = inst(i) /\ v3'[i] = hist(i)
  BY <1>2, <1>4, <1>5
<1>7. \A i \in 1 .. Len(v3') : Agrees(v2'.inst[i], v2'.mlen, v3'[i])
  BY <1>3, <1>4, <1>6
<1>8. v1 = "src" => \A i \in 1 .. Len(v3') : v2'.inst[i].pos < v2'.mlen
  BY <1>3, <1>4, <1>6
<1> QED BY <1>1, <1>2, <1>4, <1>6, <1>7, <1>8 DEF BufferInv

LEMMA BufferStep ==
    ASSUME BufferInv, Buf!Next
    PROVE  BufferInv'
<1>1. ASSUME NEW i \in Buf!Insts,
             Buf!SetSamp(i) \/ Buf!ResetInst(i) \/ Buf!RemoveInst(i) \/ \E assigns \in BOOLEAN : Buf!Eval(i, assigns)
      PROVE  BufferInv'
  BY <1>1, SetSampKeeps, ResetInstKeeps, RemoveInstKeeps, EvalKeeps
<1> QED BY <1>1, ReallocKeeps DEF Buf!Next

LEMMA BufferInit ==
    ASSUME Buf!Init
    PROVE  BufferInv
<1>1. PICK mlen \in 1 .. MaxMem, n \in 1 .. MaxInst :
        v2 = [mlen |-> mlen, inst |-> [i \in 1 .. n |-> Buf!Empty(mlen)], active |-> 0]
  BY DEF Buf!Init
<1>2. v3 = [i \in 1 .. n |-> Buf!Nothing] /\ v1 \in {"src", "dst"} /\ v4 = 0
  BY <1>1 DEF Buf!Init
<1>3. /\ Buf!Empty(mlen) \in Blocks(mlen) /\ Agrees(Buf!Empty(mlen), mlen, Buf!Nothing)
      /\ Buf!Empty(mlen).pos < mlen /\ Buf!Nothing \in Pasts
  BY EmptyAgrees
<1>4. v2.inst \in [1 .. n -> Blocks(mlen)] /\ v3 \in [1 .. n -> Pasts] /\ v2.mlen = mlen
  BY <1>1, <1>2, <1>3
<1>5. /\ v2.inst \in Seq(Blocks(mlen)) /\ Len(v2.inst) = n /\ v3 \in Seq(Pasts) /\ Len(v3) = n
      /\ \A i \in 1 .. n : v2.inst[i] = Buf!Empty(mlen) /\ v3[i] = Buf!Nothing
  BY <1>1, <1>2, <1>4
<1> QED BY <1>1, <1>2, <1>3, <1>4, <1>5 DEF BufferInv

LEMMA BufferRight ==
    ASSUME BufferInv
    PROVE  Buf!HistoryRight
<1> SUFFICES ASSUME NEW i \in Buf!Insts
             PROVE  /\ Buf!Used(v2.inst[i]) => \A k \in 0 .. v2.mlen - 1 :
                         LET s == Buf!Sample(v2.inst[i], v2.mlen, k)
                         IN  IF k < Len(v3[i].since) THEN s = v3[i].since[k + 1]
                             ELSE s \in {Buf!Zero} \cup v3[i].before
                    /\ ~Buf!Used(v2.inst[i]) => v3[i] = Buf!Nothing
  BY DEF Buf!HistoryRight
<1>1. /\ i \in 1 .. Len(v3) /\ v2.inst[i] \in Blocks(v2.mlen) /\ v3[i] \in Pasts
      /\ v2.mlen \in 1 .. MaxMem /\ Agrees(v2.inst[i], v2.mlen, v3[i])
  BY InstIs
<1>2. v2.inst[i].pos \in Int /\ v2.mlen \in Nat
  BY <1>1, SizesAssumption DEF Blocks
<1>3. ASSUME Buf!Used(v2.inst[i]), NEW k \in 0 .. v2.mlen - 1
      PROVE  LET s == Buf!Sample(v2.inst[i], v2.mlen, k)
             IN  IF k < Len(v3[i].since) THEN s = v3[i].since[k + 1]
                 ELSE s \in {Buf!Zero} \cup v3[i].before
  <2>1. Buf!Sample(v2.inst[i], v2.mlen, k) = v2.inst[i].samps[Back(Place(v2.inst[i].pos, v2.mlen), v2.mlen, k)]
    BY <1>1, <1>3, SampleIs DEF Buf!Used
  <2>2. Place(v2.inst[i].pos, v2.mlen) >= 0
    BY <1>2, <1>3 DEF Place, Buf!Used
  <2> QED BY <1>1, <2>1, <2>2 DEF Agrees, Ring, Buf!Zero
<1>4. ASSUME ~Buf!Used(v2.inst[i])
      PROVE  v3[i] = Buf!Nothing
  BY <1>1, <1>2, <1>4 DEF Agrees, Buf!Used
<1> QED BY <1>3, <1>4

-----------------------------------------------------------------------------
(* Property tables: rows sorted by key, with marks, and messages of them.  *)

\* Induction over the natural numbers, for a set: if n were missing, the numbers up to n
\* that are missing would map to their predecessors, one to one, and none of them to n.
LEMMA SetInduction ==
    ASSUME NEW P, 0 \in P, \A n \in Nat : n \in P => n + 1 \in P
    PROVE  \A n \in Nat : n \in P
<1> SUFFICES ASSUME NEW n \in Nat, n \notin P
             PROVE  FALSE
  OBVIOUS
<1> DEFINE B == {m \in 0 .. n : m \notin P}
           f == [m \in B |-> m - 1]
<1>1. IsFiniteSet(B)
  <2>1. IsFiniteSet(0 .. n)
    BY FS_Interval
  <2> QED BY <2>1, FS_Subset
<1>2. \A m \in B : m - 1 \in B
  <2> SUFFICES ASSUME NEW m \in B
               PROVE  m - 1 \in B
    OBVIOUS
  <2>1. m # 0 /\ m - 1 \in Nat
    OBVIOUS
  <2>2. m - 1 \in P => m \in P
    BY <2>1
  <2> QED BY <2>1, <2>2
<1>3. f \in Injection(B, B)
  BY <1>2 DEF Injection, IsInjective
<1> HIDE DEF f
<1>4. f \in Surjection(B, B)
  BY <1>1, <1>3, FS_Injection
<1>5. PICK m \in B : f[m] = n
  BY <1>4 DEF Surjection
<1> QED BY <1>5 DEF f

\* A set of numbers has a least element.
LEMMA Least ==
    ASSUME NEW S \in SUBSET Nat, S # {}
    PROVE  \E i \in S : \A j \in S : i <= j
<1> DEFINE P == {n \in Nat : \A i \in 0 .. n : i \notin S}
<1> SUFFICES ASSUME ~ \E i \in S : \A j \in S : i <= j
             PROVE  FALSE
  OBVIOUS
<1>1. 0 \in P
  <2> SUFFICES ASSUME 0 \in S
               PROVE  FALSE
    OBVIOUS
  <2>1. \A j \in S : 0 <= j
    OBVIOUS
  <2> QED BY <2>1
<1>2. ASSUME NEW n \in Nat, n \in P
      PROVE  n + 1 \in P
  <2> SUFFICES ASSUME n + 1 \in S
               PROVE  FALSE
    BY <1>2
  <2>1. \A j \in S : j \notin 0 .. n
    BY <1>2
  <2>2. \A j \in S : n + 1 <= j
    BY <2>1
  <2> QED BY <2>2
<1> HIDE DEF P
<1>3. \A n \in Nat : n \in P
  BY <1>1, <1>2, SetInduction
<1>4. PICK n \in S : n \in Nat
  OBVIOUS
<1> QED BY <1>3, <1>4 DEF P

\* A table as the set of its rows.
Rows == [key : Keys, val : Vals \cup {0}, removed : BOOLEAN]
RowsOf(t) == {t[i] : i \in 1 .. Len(t)}
IsTable(t) == t \in Seq(Rows) /\ Tbl!Sorted(t)

\* n is t with the row r.
Put(t, n, r) == IsTable(n) /\ RowsOf(n) = {x \in RowsOf(t) : x.key # r.key} \cup {r}

LEMMA RowIs ==
    ASSUME NEW x \in Rows
    PROVE  /\ x.key \in Keys /\ x.key \in Int /\ x.val \in Vals \cup {0} /\ x.removed \in BOOLEAN
           /\ x = [key |-> x.key, val |-> x.val, removed |-> x.removed]
  BY TableAssumption DEF Rows

LEMMA RecordIs ==
    ASSUME NEW k \in Keys, NEW v \in Vals \cup {0}, NEW b \in BOOLEAN
    PROVE  /\ Tbl!Record(k, v, b) \in Rows
           /\ Tbl!Record(k, v, b).key = k
           /\ Tbl!Record(k, v, b).val = v
           /\ Tbl!Record(k, v, b).removed = b
  BY DEF Tbl!Record, Rows

LEMMA MarkIs ==
    ASSUME NEW k \in Keys, NEW v \in Vals \cup {0}
    PROVE  /\ \E r \in Rows : r = Tbl!Record(k, v, TRUE) /\ r.key = k /\ r.val = v /\ r.removed
           /\ \E r \in Rows : r = Tbl!Record(k, v, FALSE) /\ r.key = k /\ r.val = v /\ ~r.removed
<1>1. PICK r : r = Tbl!Record(k, v, TRUE)
  OBVIOUS
<1>2. r \in Rows /\ r.key = k /\ r.val = v /\ r.removed
  BY <1>1 DEF Tbl!Record, Rows
<1>3. PICK q : q = Tbl!Record(k, v, FALSE)
  OBVIOUS
<1>4. q \in Rows /\ q.key = k /\ q.val = v /\ ~q.removed
  BY <1>3 DEF Tbl!Record, Rows
<1> QED BY <1>1, <1>2, <1>3, <1>4

LEMMA TableIs ==
    ASSUME NEW t, IsTable(t)
    PROVE  /\ Len(t) \in Nat /\ DOMAIN t = 1 .. Len(t)
           /\ \A i \in 1 .. Len(t) : t[i] \in Rows /\ t[i] \in RowsOf(t) /\ t[i].key \in Int
           /\ RowsOf(t) \subseteq Rows
           /\ \A i, j \in 1 .. Len(t) : i < j => t[i].key < t[j].key
<1>1. Len(t) \in Nat /\ DOMAIN t = 1 .. Len(t) /\ \A i \in 1 .. Len(t) : t[i] \in Rows
  BY DEF IsTable
<1>2. \A i, j \in 1 .. Len(t) : i < j => t[i].key < t[j].key
  BY <1>1 DEF IsTable, Tbl!Sorted
<1> QED BY <1>1, <1>2, RowIs DEF RowsOf

LEMMA IsATable ==
    ASSUME NEW t \in Seq(Rows), \A i, j \in 1 .. Len(t) : i < j => t[i].key < t[j].key
    PROVE  IsTable(t)
  BY LenProperties DEF IsTable, Tbl!Sorted

\* A key has one row at most, and the search finds it.
LEMMA Found ==
    ASSUME NEW t, IsTable(t), NEW i \in 1 .. Len(t)
    PROVE  /\ Tbl!Has(t, t[i].key) /\ Tbl!At(t, t[i].key) = i
           /\ Tbl!Val(t, t[i].key) = t[i].val
<1>1. DOMAIN t = 1 .. Len(t) /\ Len(t) \in Nat
  BY TableIs
<1>2. \A j \in 1 .. Len(t) : t[j].key = t[i].key => j = i
  <2> SUFFICES ASSUME NEW j \in 1 .. Len(t), t[j].key = t[i].key
               PROVE  j = i
    OBVIOUS
  <2>1. t[i].key \in Int /\ t[j].key \in Int
    BY TableIs
  <2>2. ~(i < j) /\ ~(j < i)
    BY <2>1, TableIs
  <2> QED BY <1>1, <2>2
<1>3. Tbl!Has(t, t[i].key)
  BY <1>1 DEF Tbl!Has
<1>4. Tbl!At(t, t[i].key) = i
  BY <1>1, <1>2 DEF Tbl!At
<1> QED BY <1>3, <1>4 DEF Tbl!Val

LEMMA RowFound ==
    ASSUME NEW t, IsTable(t), NEW x \in RowsOf(t)
    PROVE  Tbl!Has(t, x.key) /\ Tbl!Val(t, x.key) = x.val /\ t[Tbl!At(t, x.key)] = x
<1>1. PICK i \in 1 .. Len(t) : t[i] = x
  BY DEF RowsOf
<1> QED BY <1>1, Found

LEMMA HasRow ==
    ASSUME NEW t, IsTable(t), NEW k, Tbl!Has(t, k)
    PROVE  /\ Tbl!At(t, k) \in 1 .. Len(t) /\ t[Tbl!At(t, k)] \in RowsOf(t)
           /\ t[Tbl!At(t, k)].key = k /\ Tbl!Val(t, k) = t[Tbl!At(t, k)].val
<1>1. DOMAIN t = 1 .. Len(t)
  BY TableIs
<1>2. PICK i \in 1 .. Len(t) : t[i].key = k
  BY <1>1 DEF Tbl!Has
<1>3. Tbl!At(t, k) = i
  BY <1>2, Found
<1> QED BY <1>2, <1>3, Found DEF RowsOf

LEMMA NoRow ==
    ASSUME NEW t, NEW k, ~Tbl!Has(t, k)
    PROVE  Tbl!Val(t, k) = 0
  BY DEF Tbl!Val, Tbl!Null

\* What a row that is put into a table changes.
LEMMA PutIs ==
    ASSUME NEW t, IsTable(t), NEW n, NEW r \in Rows, Put(t, n, r)
    PROVE  /\ IsTable(n) /\ Tbl!Has(n, r.key) /\ Tbl!Val(n, r.key) = r.val
           /\ \A k : k # r.key => /\ Tbl!Has(n, k) <=> Tbl!Has(t, k)
                                  /\ Tbl!Val(n, k) = Tbl!Val(t, k)
<1>1. IsTable(n) /\ RowsOf(n) = {x \in RowsOf(t) : x.key # r.key} \cup {r}
  BY DEF Put
<1>2. Tbl!Has(n, r.key) /\ Tbl!Val(n, r.key) = r.val
  <2>1. r \in RowsOf(n)
    BY <1>1
  <2> QED BY <1>1, <2>1, RowFound
<1>3. ASSUME NEW k, k # r.key
      PROVE  (Tbl!Has(n, k) <=> Tbl!Has(t, k)) /\ Tbl!Val(n, k) = Tbl!Val(t, k)
  <2>1. CASE Tbl!Has(t, k)
    <3>1. PICK x \in RowsOf(t) : x.key = k /\ Tbl!Val(t, k) = x.val
      BY <2>1, HasRow
    <3>2. x \in RowsOf(n)
      BY <1>1, <1>3, <3>1
    <3>3. Tbl!Has(n, x.key) /\ Tbl!Val(n, x.key) = x.val
      BY <1>1, <3>2, RowFound
    <3> QED BY <2>1, <3>1, <3>3
  <2>2. CASE ~Tbl!Has(t, k)
    <3>1. ~Tbl!Has(n, k)
      <4> SUFFICES ASSUME Tbl!Has(n, k)
                   PROVE  FALSE
        OBVIOUS
      <4>1. PICK x \in RowsOf(n) : x.key = k
        BY <1>1, HasRow
      <4>2. x \in RowsOf(t)
        BY <1>1, <1>3, <4>1
      <4>3. Tbl!Has(t, x.key)
        BY <4>2, RowFound
      <4> QED BY <2>2, <4>1, <4>3
    <3> QED BY <2>2, <3>1, NoRow
  <2> QED BY <2>1, <2>2
<1> QED BY <1>1, <1>2, <1>3

LEMMA ReplacePuts ==
    ASSUME NEW t, IsTable(t), NEW i \in 1 .. Len(t), NEW r \in Rows, r.key = t[i].key
    PROVE  Put(t, [t EXCEPT ![i] = r], r)
<1>1. PICK n : n = [t EXCEPT ![i] = r]
  OBVIOUS
<1>2. /\ n \in Seq(Rows) /\ Len(n) = Len(t) /\ Len(t) \in Nat
      /\ \A j \in 1 .. Len(t) : n[j] = IF j = i THEN r ELSE t[j]
  BY <1>1, ExceptSeq DEF IsTable
<1>3. \A j \in 1 .. Len(t) : n[j].key = t[j].key
  BY <1>2
<1>4. IsTable(n)
  BY <1>2, <1>3, TableIs, IsATable
<1>5. \A j \in 1 .. Len(t) : j # i => t[j].key # r.key
  <2> SUFFICES ASSUME NEW j \in 1 .. Len(t), t[j].key = r.key
               PROVE  j = i
    OBVIOUS
  <2>1. Tbl!At(t, t[j].key) = j /\ Tbl!At(t, t[i].key) = i
    BY Found
  <2> QED BY <2>1
<1>6. RowsOf(n) = {x \in RowsOf(t) : x.key # r.key} \cup {r}
  BY <1>2, <1>5 DEF RowsOf
<1> QED BY <1>1, <1>4, <1>6 DEF Put

\* The indices of the rows before a key are the first ones.
LEMMA Before ==
    ASSUME NEW t, IsTable(t), NEW k \in Int
    PROVE  \E b \in 0 .. Len(t) : /\ \A i \in 1 .. Len(t) : t[i].key < k <=> i <= b
                                  /\ Tbl!Cardinality({i \in DOMAIN t : t[i].key < k}) = b
<1> DEFINE S == {i \in 1 .. Len(t) + 1 : i = Len(t) + 1 \/ ~(t[i].key < k)}
<1>1. Len(t) \in Nat /\ DOMAIN t = 1 .. Len(t)
  BY TableIs
<1>2. S \in SUBSET Nat /\ Len(t) + 1 \in S
  BY <1>1
<1>3. PICK c \in S : \A j \in S : c <= j
  <2> HIDE DEF S
  <2>1. \E c \in S : \A j \in S : c <= j
    BY <1>2, Least
  <2> QED BY <2>1
<1>4. c \in 1 .. Len(t) + 1 /\ c - 1 \in 0 .. Len(t) /\ c - 1 \in Nat
  BY <1>1, <1>3
<1>5. ASSUME NEW i \in 1 .. Len(t)
      PROVE  t[i].key < k <=> i <= c - 1
  <2>1. CASE i < c
    <3>1. i \notin S
      BY <1>1, <1>3, <1>4, <2>1
    <3> QED BY <1>1, <1>4, <2>1, <3>1
  <2>2. CASE i >= c
    <3>1. c \in 1 .. Len(t) /\ ~(t[c].key < k)
      BY <1>1, <1>3, <1>4, <2>2
    <3>2. t[c].key \in Int /\ t[i].key \in Int
      BY <3>1, TableIs
    <3>3. t[c].key <= t[i].key
      <4>1. CASE i = c
        BY <3>2, <4>1
      <4>2. CASE c < i
        BY <3>1, <3>2, <4>2, TableIs
      <4> QED BY <1>4, <2>2, <4>1, <4>2
    <3>4. ~(t[i].key < k)
      BY <3>1, <3>2, <3>3
    <3> QED BY <1>4, <2>2, <3>4
  <2> QED BY <1>1, <1>4, <2>1, <2>2
<1>6. {i \in DOMAIN t : t[i].key < k} = 1 .. (c - 1)
  <2> HIDE DEF S
  <2>1. \A i \in 1 .. (c - 1) : i \in 1 .. Len(t)
    BY <1>1, <1>4
  <2>2. \A i \in 1 .. (c - 1) : i <= c - 1 /\ i \in Nat
    BY <1>4
  <2>3. \A i \in 1 .. Len(t) : i <= c - 1 => i \in 1 .. (c - 1)
    BY <1>1, <1>4
  <2> QED BY <1>1, <1>5, <2>1, <2>2, <2>3
<1>7. Cardinality(1 .. (c - 1)) = c - 1
  <2>1. PICK d \in Nat : d = c - 1
    BY <1>4
  <2>2. Cardinality(1 .. d) = d
    BY <2>1, FS_Interval
  <2> QED BY <2>1, <2>2
<1>8. Tbl!Cardinality(1 .. (c - 1)) = c - 1
  BY <1>7 DEF Tbl!Cardinality, Cardinality
<1> QED BY <1>4, <1>5, <1>6, <1>8

LEMMA AddPuts ==
    ASSUME NEW t, IsTable(t), NEW r \in Rows, ~Tbl!Has(t, r.key)
    PROVE  Put(t, Tbl!Add(t, r), r)
<1>1. PICK b \in 0 .. Len(t) : /\ \A i \in 1 .. Len(t) : t[i].key < r.key <=> i <= b
                               /\ Tbl!Cardinality({i \in DOMAIN t : t[i].key < r.key}) = b
  BY RowIs, Before
<1>2. Len(t) \in Nat /\ DOMAIN t = 1 .. Len(t) /\ t \in Seq(Rows) /\ \A i \in 1 .. Len(t) : t[i] \in Rows
  BY TableIs DEF IsTable
<1>3. PICK n, low, high : /\ low = SubSeq(t, 1, b) /\ high = SubSeq(t, b + 1, Len(t))
                          /\ n = low \o <<r>> \o high /\ n = Tbl!Add(t, r)
  BY <1>1 DEF Tbl!Add
<1>4. low \in Seq(Rows) /\ Len(low) = b /\ \A i \in 1 .. b : low[i] = t[i]
  <2>1. \A i \in 1 .. b : t[i] \in Rows /\ 1 + i - 1 = i
    BY <1>1, <1>2
  <2>2. /\ low \in Seq(Rows) /\ Len(low) = (IF 1 <= b THEN b - 1 + 1 ELSE 0)
        /\ \A i \in 1 .. (b - 1 + 1) : low[i] = t[1 + i - 1]
    BY <1>3, <2>1, SubSeqProperties
  <2> QED BY <2>1, <2>2
<1>5. /\ high \in Seq(Rows) /\ Len(high) = Len(t) - b
      /\ \A i \in 1 .. (Len(t) - b) : high[i] = t[b + i]
  <2>1. \A i \in (b + 1) .. Len(t) : t[i] \in Rows
    BY <1>1, <1>2
  <2>2. /\ high \in Seq(Rows)
        /\ Len(high) = (IF b + 1 <= Len(t) THEN Len(t) - (b + 1) + 1 ELSE 0)
        /\ \A i \in 1 .. (Len(t) - (b + 1) + 1) : high[i] = t[(b + 1) + i - 1]
    BY <1>2, <1>3, <2>1, SubSeqProperties
  <2>3. PICK l \in Nat : l = Len(t)
    BY <1>2
  <2>4. Len(high) = l - b /\ \A i \in 1 .. (l - b) : high[i] = t[(b + 1) + i - 1]
    BY <2>2, <2>3
  <2>5. \A i \in 1 .. (l - b) : (b + 1) + i - 1 = b + i
    OBVIOUS
  <2>6. \A i \in 1 .. (l - b) : high[i] = t[b + i]
    BY <2>4, <2>5
  <2> QED BY <2>2, <2>3, <2>4, <2>6
<1>6. PICK m : m = low \o <<r>>
  OBVIOUS
<1>7. m \in Seq(Rows) /\ Len(m) = b + 1 /\ \A i \in 1 .. (b + 1) : m[i] = IF i <= b THEN t[i] ELSE r
  <2>1. <<r>> \in Seq(Rows) /\ Len(<<r>>) = 1 /\ <<r>>[1] = r
    OBVIOUS
  <2>2. /\ m \in Seq(Rows) /\ Len(m) = b + 1
        /\ \A i \in 1 .. (b + 1) : m[i] = IF i <= b THEN low[i] ELSE <<r>>[i - b]
    BY <1>4, <1>6, <2>1, ConcatProperties
  <2>3. \A i \in 1 .. (b + 1) : ~(i <= b) => i - b = 1
    OBVIOUS
  <2> QED BY <1>4, <2>1, <2>2, <2>3
<1>8. /\ n \in Seq(Rows) /\ Len(n) = Len(t) + 1
      /\ \A i \in 1 .. (Len(t) + 1) : n[i] = IF i <= b THEN t[i] ELSE IF i = b + 1 THEN r ELSE t[i - 1]
  <2>1. n = m \o high
    BY <1>3, <1>6
  <2>2. /\ n \in Seq(Rows) /\ Len(n) = (b + 1) + (Len(t) - b)
        /\ \A i \in 1 .. ((b + 1) + (Len(t) - b)) : n[i] = IF i <= b + 1 THEN m[i] ELSE high[i - (b + 1)]
    <3>1. m \in Seq(Rows) /\ high \in Seq(Rows) /\ Len(m) = b + 1 /\ Len(high) = Len(t) - b
      BY <1>5, <1>7
    <3>2. /\ m \o high \in Seq(Rows) /\ Len(m \o high) = Len(m) + Len(high)
          /\ \A i \in 1 .. (Len(m) + Len(high)) : (m \o high)[i] = IF i <= Len(m) THEN m[i] ELSE high[i - Len(m)]
      BY ONLY <3>1, ConcatProperties
    <3> QED BY <2>1, <3>1, <3>2
  <2>3. PICK l \in Nat : l = Len(t)
    BY <1>2
  <2>4. (b + 1) + (l - b) = l + 1
    OBVIOUS
  <2>5. n \in Seq(Rows) /\ Len(n) = l + 1
    BY <2>2, <2>3, <2>4
  <2>6. \A i \in 1 .. (l + 1) : n[i] = IF i <= b + 1 THEN m[i] ELSE high[i - (b + 1)]
    BY <2>2, <2>3, <2>4
  <2>7. ASSUME NEW i \in 1 .. (l + 1)
        PROVE  n[i] = IF i <= b THEN t[i] ELSE IF i = b + 1 THEN r ELSE t[i - 1]
    <3>1. CASE i <= b + 1
      <4>1. i \in 1 .. (b + 1)
        BY <3>1
      <4> QED BY <1>7, <2>6, <3>1, <4>1
    <3>2. CASE ~(i <= b + 1)
      <4>1. PICK j \in 1 .. (l - b) : j = i - (b + 1) /\ b + j = i - 1
        BY <3>2
      <4>2. n[i] = high[j]
        BY <2>6, <3>2, <4>1
      <4>3. high[j] = t[b + j]
        BY <1>5, <2>3
      <4> QED BY <3>2, <4>1, <4>2, <4>3
    <3> QED BY <3>1, <3>2
  <2> QED BY <2>3, <2>5, <2>7
<1>9. \A i \in 1 .. Len(t) : IF i <= b THEN t[i].key < r.key ELSE r.key < t[i].key
  <2> SUFFICES ASSUME NEW i \in 1 .. Len(t), ~(i <= b)
               PROVE  r.key < t[i].key
    BY <1>1
  <2>1. ~(t[i].key < r.key) /\ t[i].key # r.key
    BY <1>1, <1>2 DEF Tbl!Has
  <2>2. t[i].key \in Int /\ r.key \in Int
    BY TableIs, RowIs
  <2> QED BY <2>1, <2>2
<1>10. IsTable(n)
  <2> SUFFICES ASSUME NEW i \in 1 .. Len(n), NEW j \in 1 .. Len(n), i < j
               PROVE  n[i].key < n[j].key
    BY <1>8, IsATable
  <2>1. i \in 1 .. (Len(t) + 1) /\ j \in 1 .. (Len(t) + 1)
    BY <1>8
  <2>2. CASE j <= b
    BY <1>2, <1>8, <2>1, <2>2, TableIs
  <2>3. CASE i <= b /\ j = b + 1
    BY <1>2, <1>8, <1>9, <2>1, <2>3
  <2>4. CASE i <= b /\ j > b + 1
    <3>1. PICK k \in 1 .. Len(t) : k = j - 1 /\ i < k
      BY <1>2, <2>1, <2>4
    <3>2. i \in 1 .. Len(t) /\ n[i] = t[i] /\ n[j] = t[k]
      BY <1>2, <1>8, <2>1, <2>4, <3>1
    <3> QED BY <3>1, <3>2, TableIs
  <2>5. CASE i = b + 1
    BY <1>2, <1>8, <1>9, <2>1, <2>5
  <2>6. CASE i > b + 1
    <3>1. PICK k \in 1 .. Len(t), p \in 1 .. Len(t) : k = j - 1 /\ p = i - 1 /\ p < k
      BY <1>2, <2>1, <2>6
    <3>2. n[i] = t[p] /\ n[j] = t[k]
      BY <1>2, <1>8, <2>1, <2>6, <3>1
    <3> QED BY <3>1, <3>2, TableIs
  <2> QED BY <2>1, <2>2, <2>3, <2>4, <2>5, <2>6
<1>11. RowsOf(n) = {x \in RowsOf(t) : x.key # r.key} \cup {r}
  <2>1. \A i \in 1 .. Len(n) : n[i] = r \/ \E j \in 1 .. Len(t) : n[i] = t[j]
    BY <1>2, <1>8
  <2>2. \A j \in 1 .. Len(t) : \E i \in 1 .. Len(n) : n[i] = t[j]
    <3> SUFFICES ASSUME NEW j \in 1 .. Len(t)
                 PROVE  \E i \in 1 .. Len(n) : n[i] = t[j]
      OBVIOUS
    <3>1. CASE j <= b
      BY <1>2, <1>8, <3>1
    <3>2. CASE ~(j <= b)
      <4>1. j + 1 \in 1 .. (Len(t) + 1) /\ (j + 1) - 1 = j /\ ~(j + 1 <= b) /\ j + 1 # b + 1
        BY <1>2, <3>2
      <4> QED BY <1>8, <4>1
    <3> QED BY <3>1, <3>2
  <2>3. \E i \in 1 .. Len(n) : n[i] = r
    <3>1. b + 1 \in 1 .. (Len(t) + 1) /\ ~(b + 1 <= b)
      BY <1>2
    <3>2. n[b + 1] = r
      BY <1>8, <3>1
    <3> QED BY <1>8, <3>1, <3>2
  <2>4. \A j \in 1 .. Len(t) : t[j].key # r.key
    BY <1>2 DEF Tbl!Has
  <2>5. \A x : x \in RowsOf(n) <=> \E i \in 1 .. Len(n) : n[i] = x
    BY DEF RowsOf
  <2>6. \A x : x \in RowsOf(t) <=> \E i \in 1 .. Len(t) : t[i] = x
    BY DEF RowsOf
  <2>7. \A x : x \in RowsOf(n) <=> (x \in RowsOf(t) /\ x.key # r.key) \/ x = r
    BY <2>1, <2>2, <2>3, <2>4, <2>5, <2>6
  <2> QED BY <2>7
<1> QED BY <1>3, <1>10, <1>11 DEF Put

\* Set, Remove, StageRemoval and SetFromAtom put one row into a table, or none.
LEMMA SetPuts ==
    ASSUME NEW t, IsTable(t), NEW k \in Keys, NEW v \in Vals
    PROVE  Put(t, Tbl!Set(t, k, v), Tbl!Record(k, v, FALSE))
<1>1. PICK r \in Rows : r = Tbl!Record(k, v, FALSE) /\ r.key = k
  BY RecordIs
<1>2. CASE Tbl!Has(t, k)
  <2>1. PICK i \in 1 .. Len(t) : i = Tbl!At(t, k) /\ t[i].key = k
    BY <1>2, HasRow
  <2>2. Tbl!Set(t, k, v) = [t EXCEPT ![i] = r]
    BY <1>1, <1>2, <2>1 DEF Tbl!Set
  <2>3. Put(t, [t EXCEPT ![i] = r], r)
    BY <1>1, <2>1, ReplacePuts
  <2> QED BY <1>1, <2>2, <2>3
<1>3. CASE ~Tbl!Has(t, k)
  <2>1. Tbl!Set(t, k, v) = Tbl!Add(t, r)
    BY <1>1, <1>3 DEF Tbl!Set
  <2> QED BY <1>1, <1>3, <2>1, AddPuts
<1> QED BY <1>2, <1>3

LEMMA RemovePuts ==
    ASSUME NEW t, IsTable(t), NEW k \in Keys
    PROVE  IF Tbl!Val(t, k) = 0 THEN Tbl!Remove(t, k) = t
           ELSE /\ Put(t, Tbl!Remove(t, k), Tbl!Record(k, 0, TRUE))
                /\ Tbl!Has(t, k)
<1>1. CASE Tbl!Val(t, k) = 0
  BY <1>1 DEF Tbl!Remove, Tbl!Null
<1>2. CASE Tbl!Val(t, k) # 0
  <2>1. PICK r \in Rows : r = Tbl!Record(k, 0, TRUE) /\ r.key = k
    BY RecordIs
  <2>2. Tbl!Has(t, k)
    BY <1>2, NoRow
  <2>3. PICK i \in 1 .. Len(t) : i = Tbl!At(t, k) /\ t[i].key = k
    BY <2>2, HasRow
  <2>4. Tbl!Remove(t, k) = [t EXCEPT ![i] = r]
    BY <1>2, <2>1, <2>3 DEF Tbl!Remove, Tbl!Null
  <2>5. Put(t, [t EXCEPT ![i] = r], r)
    BY <2>1, <2>3, ReplacePuts
  <2> QED BY <1>2, <2>1, <2>2, <2>4, <2>5
<1> QED BY <1>1, <1>2

LEMMA StagePuts ==
    ASSUME NEW t, IsTable(t), NEW k \in Keys
    PROVE  \/ Tbl!StageRemoval(t, k) = t /\ Tbl!Has(t, k) /\ Tbl!Val(t, k) = 0
           \/ Put(t, Tbl!StageRemoval(t, k), Tbl!Record(k, 0, TRUE))
<1>1. CASE Tbl!Has(t, k)
  BY <1>1, RemovePuts DEF Tbl!StageRemoval
<1>2. CASE ~Tbl!Has(t, k)
  <2>1. PICK r \in Rows : r = Tbl!Record(k, 0, TRUE) /\ r.key = k
    BY RecordIs
  <2>2. Tbl!StageRemoval(t, k) = Tbl!Add(t, r)
    BY <1>2, <2>1 DEF Tbl!StageRemoval, Tbl!Null
  <2> QED BY <1>2, <2>1, <2>2, AddPuts
<1> QED BY <1>1, <1>2

\* A row of the table keeps its mark.
AtomRow(t, a, r) ==
    /\ r \in Rows /\ r.key = a.key /\ r.val = a.val
    /\ ~r.removed \/ \E x \in RowsOf(t) : x.key = a.key /\ x.removed

LEMMA AtomPuts ==
    ASSUME NEW t, IsTable(t), NEW a \in Rows, NEW n, n = Tbl!SetFromAtom(t, a)
    PROVE  IF a.removed
           THEN (Tbl!Val(t, a.key) = 0 /\ n = t) \/ Put(t, n, Tbl!Record(a.key, 0, TRUE))
           ELSE \E r : AtomRow(t, a, r) /\ Put(t, n, r)
<1>1. CASE a.removed
  <2>1. n = Tbl!Remove(t, a.key) /\ a.key \in Keys
    BY <1>1, RowIs DEF Tbl!SetFromAtom
  <2> QED BY <1>1, <2>1, RemovePuts
<1>2. CASE ~a.removed /\ Tbl!Has(t, a.key)
  <2>1. PICK i \in 1 .. Len(t) : i = Tbl!At(t, a.key) /\ t[i].key = a.key /\ t[i] \in RowsOf(t) /\ t[i] \in Rows
    BY <1>2, HasRow, TableIs
  <2>2. PICK x \in Rows : x = t[i]
    BY <2>1
  <2>3. PICK r : r = [key |-> x.key, val |-> a.val, removed |-> x.removed]
    OBVIOUS
  <2>4. x = [key |-> x.key, val |-> x.val, removed |-> x.removed]
    BY RowIs
  <2>5. r = [x EXCEPT !.val = a.val]
    BY <2>3, <2>4
  <2>6. n = [t EXCEPT ![i].val = a.val]
    BY <1>2, <2>1 DEF Tbl!SetFromAtom
  <2>7. n = [t EXCEPT ![i] = r]
    BY <2>2, <2>5, <2>6
  <2>8. r \in Rows /\ r.key = a.key /\ r.val = a.val /\ r.removed = x.removed
    BY <2>1, <2>2, <2>3, RowIs DEF Rows
  <2>9. Put(t, [t EXCEPT ![i] = r], r)
    BY <2>1, <2>8, ReplacePuts
  <2>10. AtomRow(t, a, r)
    BY <2>1, <2>2, <2>8 DEF AtomRow
  <2> QED BY <1>2, <2>7, <2>9, <2>10
<1>3. CASE ~a.removed /\ ~Tbl!Has(t, a.key)
  <2>1. PICK r \in Rows : r = Tbl!Record(a.key, a.val, FALSE) /\ r.key = a.key /\ r.val = a.val /\ ~r.removed
    <3>1. a.key \in Keys /\ a.val \in Vals \cup {0}
      BY RowIs
    <3> QED BY <3>1, MarkIs
  <2>2. n = Tbl!Add(t, r)
    BY <1>3, <2>1 DEF Tbl!SetFromAtom
  <2>3. Put(t, n, r)
    BY <1>3, <2>1, <2>2, AddPuts
  <2> QED BY <1>3, <2>1, <2>3 DEF AtomRow
<1> QED BY <1>1, <1>2, <1>3

\* A row that is set has no mark, except where it is kept.
Marked(x) == (x.removed <=> x.val = 0) /\ (x.removed => x.key \in AppRemoves \cup EditRemoves)
Edited(x) == (x.removed <=> x.val = 0) /\ IF x.removed THEN x.key \in EditRemoves ELSE x.key \in EditSets
AllMarked(t) == \A x \in RowsOf(t) : Marked(x)
AllEdited(t) == \A x \in RowsOf(t) : Edited(x)

LEMMA AtomIs ==
    ASSUME NEW t, IsTable(t), NEW a \in Rows, a.removed => a.val = 0, NEW n, n = Tbl!SetFromAtom(t, a)
    PROVE  /\ IsTable(n) /\ Tbl!Val(n, a.key) = a.val
           /\ \A k : k # a.key => Tbl!Val(n, k) = Tbl!Val(t, k)
           /\ \A k : Tbl!Has(t, k) => Tbl!Has(n, k)
           /\ AllMarked(t) /\ Edited(a) => AllMarked(n)
<1>1. CASE a.removed /\ Tbl!Val(t, a.key) = 0 /\ n = t
  BY <1>1
<1>2. CASE a.removed /\ Put(t, n, Tbl!Record(a.key, 0, TRUE))
  <2>1. PICK r \in Rows : r = Tbl!Record(a.key, 0, TRUE) /\ r.key = a.key /\ r.val = 0 /\ r.removed
    <3>1. a.key \in Keys /\ 0 \in Vals \cup {0}
      BY RowIs
    <3> DEFINE k == a.key
    <3> HIDE DEF k
    <3>2. \E r \in Rows : r = Tbl!Record(k, 0, TRUE) /\ r.key = k /\ r.val = 0 /\ r.removed
      BY ONLY <3>1, MarkIs DEF k
    <3> QED BY <3>2 DEF k
  <2>2. AllMarked(t) /\ Edited(a) => AllMarked(n)
    BY <1>2, <2>1 DEF Put, AllMarked, Marked, Edited
  <2>3. Put(t, n, r) /\ r.key = a.key /\ r.val = a.val
    BY <1>2, <2>1
  <2> QED BY <2>2, <2>3, PutIs
<1>3. CASE ~a.removed /\ \E r : AtomRow(t, a, r) /\ Put(t, n, r)
  <2>1. PICK r \in Rows : AtomRow(t, a, r) /\ Put(t, n, r) /\ r.key = a.key /\ r.val = a.val
    BY <1>3 DEF AtomRow
  <2>2. AllMarked(t) /\ Edited(a) => AllMarked(n)
    <3> SUFFICES ASSUME AllMarked(t), Edited(a)
                 PROVE  Marked(r)
      BY <2>1 DEF Put, AllMarked
    <3>1. a.key \in EditSets /\ a.val # 0
      BY <1>3 DEF Edited
    <3>2. ~ \E x \in RowsOf(t) : x.key = a.key /\ x.removed
      BY <3>1, TableAssumption DEF AllMarked, Marked
    <3> QED BY <2>1, <3>1, <3>2 DEF AtomRow, Marked
  <2> QED BY <2>1, <2>2, PutIs
<1> QED BY <1>1, <1>2, <1>3, AtomPuts

\* A message is worked off row by row: a function that is defined by recursion exists.
LEMMA MsgInTurn ==
    ASSUME NEW t, NEW msg, Len(msg) \in Nat
    PROVE  \E f : /\ f[0] = t /\ f[Len(msg)] = Tbl!SetFromMsg(t, msg)
                  /\ \A i \in 1 .. Len(msg) : f[i] = Tbl!SetFromAtom(f[i - 1], msg[i])
<1> DEFINE Is(k, g) == g = [i \in 0 .. k |-> IF i = 0 THEN t ELSE Tbl!SetFromAtom(g[i - 1], msg[i])]
           P == {k \in Nat : \E g : Is(k, g)}
<1>1. 0 \in P
  <2>1. Is(0, [i \in 0 .. 0 |-> t])
    OBVIOUS
  <2> QED BY <2>1
<1>2. ASSUME NEW k \in Nat, k \in P
      PROVE  k + 1 \in P
  <2>1. PICK g : Is(k, g)
    BY <1>2
  <2> DEFINE h == [i \in 0 .. k + 1 |-> IF i = k + 1 THEN Tbl!SetFromAtom(g[k], msg[i]) ELSE g[i]]
  <2>2. \A i \in 0 .. k + 1 : h[i] = IF i = 0 THEN t ELSE Tbl!SetFromAtom(h[i - 1], msg[i])
    <3> SUFFICES ASSUME NEW i \in 0 .. k + 1
                 PROVE  h[i] = IF i = 0 THEN t ELSE Tbl!SetFromAtom(h[i - 1], msg[i])
      OBVIOUS
    <3>1. CASE i = k + 1
      BY <3>1
    <3>2. CASE i # k + 1 /\ i # 0
      <4>1. i \in 0 .. k /\ i - 1 \in 0 .. k /\ i - 1 # k + 1
        BY <3>2
      <4>2. h[i] = g[i] /\ h[i - 1] = g[i - 1]
        BY <4>1
      <4>3. g[i] = Tbl!SetFromAtom(g[i - 1], msg[i])
        BY <2>1, <3>2, <4>1
      <4> QED BY <3>2, <4>2, <4>3
    <3>3. CASE i = 0
      BY <2>1, <3>3
    <3> QED BY <3>1, <3>2, <3>3
  <2>3. Is(k + 1, h)
    BY <2>2
  <2> HIDE DEF h
  <2> QED BY <2>3
<1>3. Len(msg) \in P
  <2> HIDE DEF P
  <2> QED BY <1>1, <1>2, SetInduction
<1> DEFINE f == CHOOSE g : Is(Len(msg), g)
<1>4. Is(Len(msg), f)
  BY <1>3
<1>5. Tbl!SetFromMsg(t, msg) = f[Len(msg)]
  BY DEF Tbl!SetFromMsg
<1> HIDE DEF f
<1>6. f[0] = t /\ \A i \in 1 .. Len(msg) : f[i] = Tbl!SetFromAtom(f[i - 1], msg[i])
  BY <1>4
<1> QED BY <1>5, <1>6

\* u is t after the first i rows of the message.
Applied(t, msg, i, u) ==
    /\ IsTable(u)
    /\ \A j \in 1 .. Len(msg) : j <= i => Tbl!Val(u, msg[j].key) = msg[j].val
    /\ \A k : ~Tbl!Has(msg, k) => Tbl!Val(u, k) = Tbl!Val(t, k)
    /\ \A k : Tbl!Has(t, k) => Tbl!Has(u, k)
    /\ AllMarked(t) /\ AllEdited(msg) => AllMarked(u)

LEMMA AppliedFollows ==
    ASSUME NEW t, IsTable(t), NEW msg, IsTable(msg), \A x \in RowsOf(msg) : x.removed => x.val = 0,
           NEW i \in Nat, i + 1 <= Len(msg), NEW u, Applied(t, msg, i, u),
           NEW n, n = Tbl!SetFromAtom(u, msg[i + 1])
    PROVE  Applied(t, msg, i + 1, n)
<1>1. i + 1 \in 1 .. Len(msg) /\ Len(msg) \in Nat
  BY TableIs
<1>2. PICK a \in Rows : a = msg[i + 1] /\ a \in RowsOf(msg)
  BY <1>1, TableIs
<1>3. /\ IsTable(n) /\ Tbl!Val(n, a.key) = a.val
      /\ \A k : k # a.key => Tbl!Val(n, k) = Tbl!Val(u, k)
      /\ \A k : Tbl!Has(u, k) => Tbl!Has(n, k)
      /\ AllMarked(u) /\ Edited(a) => AllMarked(n)
  <2>1. IsTable(u) /\ n = Tbl!SetFromAtom(u, a) /\ (a.removed => a.val = 0)
    BY <1>2 DEF Applied
  <2> QED BY <2>1, AtomIs
<1>4. Tbl!Has(msg, a.key)
  BY <1>2, RowFound
<1>5. ASSUME NEW j \in 1 .. Len(msg), j <= i + 1
      PROVE  Tbl!Val(n, msg[j].key) = msg[j].val
  <2>1. CASE j = i + 1
    BY <1>2, <1>3, <2>1
  <2>2. CASE j # i + 1
    <3>1. j <= i /\ j < i + 1
      BY <1>1, <1>5, <2>2
    <3>2. msg[j].key < a.key /\ msg[j].key \in Int /\ a.key \in Int
      BY <1>1, <1>2, <3>1, TableIs
    <3>3. msg[j].key # a.key
      BY <3>2
    <3> QED BY <1>3, <3>1, <3>3 DEF Applied
  <2> QED BY <2>1, <2>2
<1>6. ASSUME NEW k, ~Tbl!Has(msg, k)
      PROVE  Tbl!Val(n, k) = Tbl!Val(t, k)
  BY <1>3, <1>4, <1>6 DEF Applied
<1>7. AllMarked(t) /\ AllEdited(msg) => AllMarked(n)
  BY <1>2, <1>3 DEF Applied, AllEdited
<1> QED BY <1>3, <1>5, <1>6, <1>7 DEF Applied

LEMMA MsgIs ==
    ASSUME NEW t, IsTable(t), NEW msg, IsTable(msg), \A x \in RowsOf(msg) : x.removed => x.val = 0,
           NEW n, n = Tbl!SetFromMsg(t, msg)
    PROVE  /\ IsTable(n)
           /\ \A k : Tbl!Val(n, k) = IF Tbl!Has(msg, k) THEN Tbl!Val(msg, k) ELSE Tbl!Val(t, k)
           /\ \A k : Tbl!Has(t, k) => Tbl!Has(n, k)
           /\ AllMarked(t) /\ AllEdited(msg) => AllMarked(n)
<1>1. Len(msg) \in Nat
  BY TableIs
<1>2. PICK f : /\ f[0] = t /\ f[Len(msg)] = Tbl!SetFromMsg(t, msg)
               /\ \A i \in 1 .. Len(msg) : f[i] = Tbl!SetFromAtom(f[i - 1], msg[i])
  BY <1>1, MsgInTurn
<1> DEFINE P == {i \in Nat : i <= Len(msg) => Applied(t, msg, i, f[i])}
<1>3. 0 \in P
  <2>1. Applied(t, msg, 0, t)
    BY DEF Applied
  <2> QED BY <1>2, <2>1
<1>4. ASSUME NEW i \in Nat, i \in P
      PROVE  i + 1 \in P
  <2> SUFFICES ASSUME i + 1 <= Len(msg)
               PROVE  Applied(t, msg, i + 1, f[i + 1])
    OBVIOUS
  <2>1. i + 1 \in 1 .. Len(msg) /\ i <= Len(msg) /\ (i + 1) - 1 = i
    BY <1>1
  <2>2. PICK u : u = f[i] /\ Applied(t, msg, i, u)
    BY <1>4, <2>1
  <2>3. PICK m : m = f[i + 1] /\ m = Tbl!SetFromAtom(u, msg[i + 1])
    BY <1>2, <2>1, <2>2
  <2>4. Applied(t, msg, i + 1, m)
    BY <2>2, <2>3, AppliedFollows
  <2> QED BY <2>3, <2>4
<1> HIDE DEF P
<1>5. \A i \in Nat : i \in P
  BY <1>3, <1>4, SetInduction
<1>6. Applied(t, msg, Len(msg), n)
  BY <1>1, <1>2, <1>5 DEF P
<1>7. ASSUME NEW k, Tbl!Has(msg, k)
      PROVE  Tbl!Val(n, k) = Tbl!Val(msg, k)
  <2>1. PICK j \in 1 .. Len(msg) : msg[j].key = k /\ Tbl!Val(msg, k) = msg[j].val
    BY <1>7, HasRow
  <2> QED BY <1>1, <1>6, <2>1 DEF Applied
<1> QED BY <1>6, <1>7 DEF Applied

\* What mpr_tbl_clear_empty makes of the rows that stay, and of one more.
CleanStep(p, r) ==
    IF ~p.skip /\ r.val = 0 /\ r.removed THEN [kept |-> p.kept, skip |-> TRUE]
    ELSE [kept |-> Append(p.kept, r), skip |-> FALSE]

LEMMA CleanInTurn ==
    ASSUME NEW t, Len(t) \in Nat
    PROVE  \E f : /\ f[1] = [kept |-> <<>>, skip |-> FALSE] /\ f[Len(t) + 1].kept = Tbl!ClearEmpty(t)
                  /\ \A i \in 2 .. Len(t) + 1 : f[i] = CleanStep(f[i - 1], t[i - 1])
<1> DEFINE none == [kept |-> <<>>, skip |-> FALSE]
           Is(k, g) == g = [i \in 1 .. k + 1 |-> IF i = 1 THEN none ELSE CleanStep(g[i - 1], t[i - 1])]
           P == {k \in Nat : \E g : Is(k, g)}
<1>0. Tbl!ClearEmpty(t) = (CHOOSE g : Is(Len(t), g))[Len(t) + 1].kept
  BY DEF Tbl!ClearEmpty, CleanStep, Tbl!Null
<1> HIDE DEF none
<1>1. 0 \in P
  <2>1. Is(0, [i \in 1 .. 0 + 1 |-> none])
    OBVIOUS
  <2> QED BY <2>1
<1>2. ASSUME NEW k \in Nat, k \in P
      PROVE  k + 1 \in P
  <2>1. PICK g : Is(k, g)
    BY <1>2
  <2> DEFINE h == [i \in 1 .. k + 2 |-> IF i = k + 2 THEN CleanStep(g[k + 1], t[i - 1]) ELSE g[i]]
  <2>2. \A i \in 1 .. k + 2 : h[i] = IF i = 1 THEN none ELSE CleanStep(h[i - 1], t[i - 1])
    <3> SUFFICES ASSUME NEW i \in 1 .. k + 2
                 PROVE  h[i] = IF i = 1 THEN none ELSE CleanStep(h[i - 1], t[i - 1])
      OBVIOUS
    <3>1. CASE i = k + 2
      <4>1. i - 1 = k + 1 /\ i - 1 \in 1 .. k + 2 /\ i # 1 /\ i - 1 # k + 2
        BY <3>1
      <4>2. h[i - 1] = g[k + 1] /\ h[i] = CleanStep(g[k + 1], t[i - 1])
        BY <3>1, <4>1
      <4> QED BY <4>1, <4>2
    <3>2. CASE i # k + 2 /\ i # 1
      <4>1. i \in 1 .. k + 1 /\ i - 1 \in 1 .. k + 1 /\ i - 1 # k + 2 /\ i - 1 \in 1 .. k + 2
        BY <3>2
      <4>2. h[i] = g[i] /\ h[i - 1] = g[i - 1]
        BY <3>2, <4>1
      <4>3. g[i] = CleanStep(g[i - 1], t[i - 1])
        BY <2>1, <3>2, <4>1
      <4> QED BY <3>2, <4>2, <4>3
    <3>3. CASE i = 1
      BY <2>1, <3>3
    <3> QED BY <3>1, <3>2, <3>3
  <2>3. Is(k + 1, h)
    <3>1. (k + 1) + 1 = k + 2
      OBVIOUS
    <3> QED BY <2>2, <3>1
  <2> HIDE DEF h
  <2> QED BY <2>3
<1>3. Len(t) \in P
  <2> HIDE DEF P
  <2> QED BY <1>1, <1>2, SetInduction
<1> DEFINE f == CHOOSE g : Is(Len(t), g)
<1>4. Is(Len(t), f)
  BY <1>3
<1>5. Tbl!ClearEmpty(t) = f[Len(t) + 1].kept
  BY <1>0
<1> HIDE DEF f
<1>6. f[1] = none /\ \A i \in 2 .. Len(t) + 1 : f[i] = CleanStep(f[i - 1], t[i - 1])
  BY <1>4
<1> QED BY <1>5, <1>6 DEF none

\* s is what stays of the first i rows.
Cleaned(t, i, s) ==
    /\ IsTable(s)
    /\ \A x \in RowsOf(s) : \E j \in 1 .. i : x = t[j]
    /\ \A j \in 1 .. i : t[j] \in RowsOf(s) \/ (t[j].val = 0 /\ t[j].removed)

LEMMA CleanedFollows ==
    ASSUME NEW t, IsTable(t), NEW i \in Nat, i + 1 <= Len(t), NEW s, Cleaned(t, i, s),
           NEW p, NEW q, p.kept = s, q = CleanStep(p, t[i + 1])
    PROVE  Cleaned(t, i + 1, q.kept)
<1>1. Len(t) \in Nat /\ i + 1 \in 1 .. Len(t)
  BY TableIs
<1>2. PICK r \in Rows : r = t[i + 1]
  BY <1>1, TableIs
<1>3. \A j \in 1 .. i + 1 : j \in 1 .. i \/ j = i + 1
  OBVIOUS
<1>4. CASE ~p.skip /\ r.val = 0 /\ r.removed
  <2>1. q.kept = s
    BY <1>2, <1>4 DEF CleanStep
  <2> QED BY <1>2, <1>3, <1>4, <2>1 DEF Cleaned
<1>5. CASE ~(~p.skip /\ r.val = 0 /\ r.removed)
  <2>1. PICK n : n = Append(s, r) /\ n = q.kept
    BY <1>2, <1>5 DEF CleanStep
  <2>2. s \in Seq(Rows) /\ Len(s) \in Nat
    BY DEF Cleaned, IsTable
  <2>3. /\ n \in Seq(Rows) /\ Len(n) = Len(s) + 1
        /\ \A j \in 1 .. Len(s) : n[j] = s[j]
        /\ n[Len(s) + 1] = r
    <3>1. s \in Seq(Rows) /\ r \in Rows
      BY <2>2
    <3>2. /\ Append(s, r) \in Seq(Rows) /\ Len(Append(s, r)) = Len(s) + 1
          /\ \A j \in 1 .. Len(s) : Append(s, r)[j] = s[j]
          /\ Append(s, r)[Len(s) + 1] = r
      BY ONLY <3>1, AppendProperties
    <3> QED BY <2>1, <3>2
  <2>4. \A j \in 1 .. Len(s) : s[j].key < r.key
    <3> SUFFICES ASSUME NEW j \in 1 .. Len(s)
                 PROVE  s[j].key < r.key
      OBVIOUS
    <3>1. s[j] \in RowsOf(s)
      BY DEF RowsOf
    <3>2. PICK l \in 1 .. i : s[j] = t[l]
      BY <3>1 DEF Cleaned
    <3>3. l \in 1 .. Len(t) /\ l < i + 1
      BY <1>1
    <3> QED BY <1>1, <1>2, <3>2, <3>3, TableIs
  <2>5. IsTable(n)
    <3> SUFFICES ASSUME NEW j \in 1 .. Len(n), NEW l \in 1 .. Len(n), j < l
                 PROVE  n[j].key < n[l].key
      BY <2>3, IsATable
    <3>1. j \in 1 .. Len(s) /\ n[j] = s[j]
      BY <2>2, <2>3
    <3>2. CASE l \in 1 .. Len(s)
      BY <2>3, <3>1, <3>2, TableIs DEF Cleaned
    <3>3. CASE l \notin 1 .. Len(s)
      <4>1. l = Len(s) + 1
        BY <2>2, <2>3, <3>3
      <4> QED BY <2>3, <2>4, <3>1, <4>1
    <3> QED BY <3>2, <3>3
  <2>6. \A x : x \in RowsOf(n) <=> x \in RowsOf(s) \/ x = r
    <3>1. \A x : x \in RowsOf(n) <=> \E j \in 1 .. Len(n) : n[j] = x
      BY DEF RowsOf
    <3>2. \A x : x \in RowsOf(s) <=> \E j \in 1 .. Len(s) : s[j] = x
      BY DEF RowsOf
    <3>3. \A j \in 1 .. Len(n) : j \in 1 .. Len(s) \/ j = Len(s) + 1
      BY <2>2, <2>3
    <3>4. Len(s) + 1 \in 1 .. Len(n) /\ \A j \in 1 .. Len(s) : j \in 1 .. Len(n)
      BY <2>2, <2>3
    <3> QED BY <2>3, <3>1, <3>2, <3>3, <3>4
  <2>7. \A x \in RowsOf(n) : \E j \in 1 .. i + 1 : x = t[j]
    BY <1>1, <1>2, <2>6 DEF Cleaned
  <2>8. \A j \in 1 .. i + 1 : t[j] \in RowsOf(n) \/ (t[j].val = 0 /\ t[j].removed)
    BY <1>2, <1>3, <2>6 DEF Cleaned
  <2> QED BY <2>1, <2>5, <2>7, <2>8 DEF Cleaned
<1> QED BY <1>4, <1>5

LEMMA ClearIs ==
    ASSUME NEW t, IsTable(t), NEW n, n = Tbl!ClearEmpty(t)
    PROVE  /\ IsTable(n) /\ RowsOf(n) \subseteq RowsOf(t)
           /\ \A k : Tbl!Val(n, k) = Tbl!Val(t, k)
<1>1. Len(t) \in Nat
  BY TableIs
<1>2. PICK f : /\ f[1] = [kept |-> <<>>, skip |-> FALSE] /\ f[Len(t) + 1].kept = Tbl!ClearEmpty(t)
               /\ \A i \in 2 .. Len(t) + 1 : f[i] = CleanStep(f[i - 1], t[i - 1])
  BY <1>1, CleanInTurn
<1> DEFINE P == {i \in Nat : i <= Len(t) => Cleaned(t, i, f[i + 1].kept)}
<1>3. 0 \in P
  <2>1. f[0 + 1].kept = <<>>
    BY <1>2
  <2>2. IsTable(<<>>) /\ RowsOf(<<>>) = {}
    BY DEF IsTable, Tbl!Sorted, RowsOf
  <2>3. Cleaned(t, 0, <<>>)
    BY <2>2 DEF Cleaned
  <2> QED BY <2>1, <2>3
<1>4. ASSUME NEW i \in Nat, i \in P
      PROVE  i + 1 \in P
  <2> SUFFICES ASSUME i + 1 <= Len(t)
               PROVE  Cleaned(t, i + 1, f[(i + 1) + 1].kept)
    OBVIOUS
  <2>1. i <= Len(t) /\ (i + 1) + 1 \in 2 .. Len(t) + 1 /\ ((i + 1) + 1) - 1 = i + 1
    BY <1>1
  <2>2. PICK p, q : p = f[i + 1] /\ q = f[(i + 1) + 1]
    OBVIOUS
  <2>3. q = CleanStep(p, t[i + 1])
    BY <1>2, <2>1, <2>2
  <2>4. Cleaned(t, i, p.kept)
    BY <1>4, <2>1, <2>2
  <2>5. Cleaned(t, i + 1, q.kept)
    BY <2>3, <2>4, CleanedFollows
  <2> QED BY <2>2, <2>5
<1> HIDE DEF P
<1>5. \A i \in Nat : i \in P
  BY <1>3, <1>4, SetInduction
<1>6. Cleaned(t, Len(t), n)
  BY <1>1, <1>2, <1>5 DEF P
<1>7. IsTable(n) /\ RowsOf(n) \subseteq RowsOf(t)
  BY <1>6 DEF Cleaned, RowsOf
<1>8. ASSUME NEW k
      PROVE  Tbl!Val(n, k) = Tbl!Val(t, k)
  <2>1. CASE Tbl!Has(n, k)
    <3>1. PICK x \in RowsOf(n) : x.key = k /\ Tbl!Val(n, k) = x.val
      BY <1>7, <2>1, HasRow
    <3> QED BY <1>7, <3>1, RowFound
  <2>2. CASE ~Tbl!Has(n, k) /\ Tbl!Has(t, k)
    <3>1. PICK j \in 1 .. Len(t) : t[j].key = k /\ Tbl!Val(t, k) = t[j].val
      BY <2>2, HasRow
    <3>2. t[j] \notin RowsOf(n)
      BY <1>7, <2>2, <3>1, RowFound
    <3> QED BY <1>6, <2>2, <3>1, <3>2, NoRow DEF Cleaned
  <2>3. CASE ~Tbl!Has(n, k) /\ ~Tbl!Has(t, k)
    BY <2>3, NoRow
  <2> QED BY <2>1, <2>2, <2>3
<1> QED BY <1>7, <1>8

\* Where marks are on rows without a value alone, a message is the table.
LEMMA MessageIs ==
    ASSUME NEW t, IsTable(t), \A x \in RowsOf(t) : x.removed <=> x.val = 0
    PROVE  Tbl!Message(t) = t
<1> DEFINE m == Tbl!Message(t)
<1>1. Len(t) \in Nat /\ DOMAIN t = 1 .. Len(t) /\ \A i \in 1 .. Len(t) : t[i] \in Rows /\ t[i] \in RowsOf(t)
  BY TableIs
<1>2. m = [i \in 1 .. Len(t) |-> IF t[i].removed THEN Tbl!Record(t[i].key, Tbl!Null, TRUE) ELSE t[i]]
  BY <1>1 DEF Tbl!Message
<1>3. ASSUME NEW i \in 1 .. Len(t)
      PROVE  m[i] = t[i]
  <2>1. PICK x \in Rows : x = t[i] /\ (x.removed <=> x.val = 0)
    BY <1>1
  <2>2. CASE x.removed
    <3>1. x.removed = TRUE
      BY <2>2, RowIs
    <3>2. x = [key |-> x.key, val |-> 0, removed |-> TRUE]
      BY <2>1, <2>2, <3>1, RowIs
    <3>3. m[i] = Tbl!Record(x.key, 0, TRUE)
      BY <1>2, <2>1, <2>2 DEF Tbl!Null
    <3> QED BY <2>1, <3>2, <3>3 DEF Tbl!Record
  <2>3. CASE ~x.removed
    BY <1>2, <2>1, <2>3
  <2> QED BY <2>2, <2>3
<1>4. m = t
  <2>1. t \in [1 .. Len(t) -> Rows]
    BY LenProperties DEF IsTable
  <2>2. m \in [1 .. Len(t) -> Rows]
    BY <1>1, <1>2, <1>3
  <2> HIDE DEF m
  <2> QED BY <1>3, <2>1, <2>2
<1> QED BY <1>4

-----------------------------------------------------------------------------
\* The copy will be what was told last: for each key the last message under way that has
\* a row for it says so, or the copy does; and nothing was told of a key without a row.
Told(k, own, copy, wire, told) ==
    /\ ~Tbl!Has(own, k) => told[k] = 0
    /\ \A j \in 1 .. Len(wire) :
         Tbl!Has(wire[j], k) /\ (\A l \in j + 1 .. Len(wire) : ~Tbl!Has(wire[l], k))
           => Tbl!Val(wire[j], k) = told[k]
    /\ (\A l \in 1 .. Len(wire) : ~Tbl!Has(wire[l], k)) => Tbl!Val(copy, k) = told[k]

LEMMA ToldAnew ==
    ASSUME NEW k \in Keys, NEW o, NEW c, NEW w, NEW d, Told(k, o, c, w, d), w \in Seq(Seq(Rows)),
           NEW t, t \in Seq(Rows), Tbl!Has(o, k) => Tbl!Has(t, k),
           NEW o2, ~Tbl!Has(o2, k) => Tbl!Val(t, k) = 0,
           NEW w2, w2 = Append(w, t), NEW e, e = Tbl!Contents(t)
    PROVE  Told(k, o2, c, w2, e)
<1>1. /\ Len(w) \in Nat /\ Len(w2) = Len(w) + 1 /\ w2[Len(w) + 1] = t
      /\ \A j \in 1 .. Len(w) : w2[j] = w[j]
  <2>1. /\ Len(Append(w, t)) = Len(w) + 1
        /\ \A j \in 1 .. Len(w) : Append(w, t)[j] = w[j]
        /\ Append(w, t)[Len(w) + 1] = t
    BY AppendProperties
  <2> QED BY <2>1
<1>2. e[k] = Tbl!Val(t, k)
  BY DEF Tbl!Contents
<1>3. PICK z \in Nat : z = Len(w)
  BY <1>1
<1>4. CASE Tbl!Has(t, k)
  <2>1. \A j \in 1 .. z : z + 1 \in j + 1 .. z + 1
    OBVIOUS
  <2>2. \A j \in 1 .. z + 1 : j \in 1 .. z \/ j = z + 1
    OBVIOUS
  <2>3. z + 1 \in 1 .. z + 1
    OBVIOUS
  <2> QED BY <1>1, <1>2, <1>3, <1>4, <2>1, <2>2, <2>3 DEF Told
<1>5. CASE ~Tbl!Has(t, k)
  <2>1. Tbl!Val(t, k) = 0 /\ ~Tbl!Has(o, k)
    BY <1>5, NoRow
  <2>2. d[k] = 0 /\ e[k] = 0
    BY <1>2, <2>1 DEF Told
  <2>3. ASSUME NEW j \in 1 .. z + 1, Tbl!Has(w2[j], k), \A l \in j + 1 .. z + 1 : ~Tbl!Has(w2[l], k)
        PROVE  Tbl!Val(w2[j], k) = e[k]
    <3>1. j \in 1 .. z /\ w2[j] = w[j]
      BY <1>1, <1>3, <1>5, <2>3
    <3>2. \A l \in j + 1 .. z : l \in j + 1 .. z + 1 /\ w2[l] = w[l]
      BY <1>1, <1>3, <3>1
    <3> QED BY <1>3, <2>2, <2>3, <3>1, <3>2 DEF Told
  <2>4. ASSUME \A l \in 1 .. z + 1 : ~Tbl!Has(w2[l], k)
        PROVE  Tbl!Val(c, k) = e[k]
    <3>1. \A l \in 1 .. z : l \in 1 .. z + 1 /\ w2[l] = w[l]
      BY <1>1, <1>3
    <3> QED BY <1>3, <2>2, <2>4, <3>1 DEF Told
  <2> QED BY <1>1, <1>3, <2>2, <2>3, <2>4 DEF Told
<1> QED BY <1>4, <1>5

LEMMA ToldLearned ==
    ASSUME NEW k \in Keys, NEW o, NEW c, NEW w, NEW d, Told(k, o, c, w, d), w \in Seq(Seq(Rows)), w # <<>>,
           NEW c2, Tbl!Val(c2, k) = IF Tbl!Has(Head(w), k) THEN Tbl!Val(Head(w), k) ELSE Tbl!Val(c, k),
           NEW w2, w2 = Tail(w)
    PROVE  Told(k, o, c2, w2, d)
<1>1. PICK z \in Nat : Len(w) = z + 1 /\ Len(w2) = z /\ \A j \in 1 .. z : w2[j] = w[j + 1]
  <2>1. Len(w) \in Nat /\ Len(w) # 0
    OBVIOUS
  <2>2. Len(Tail(w)) = Len(w) - 1 /\ \A i \in 1 .. Len(Tail(w)) : Tail(w)[i] = w[i + 1]
    BY HeadTailProperties
  <2>3. PICK z \in Nat : z = Len(w) - 1
    <3>1. Len(w) - 1 \in Nat
      BY <2>1
    <3> QED BY <3>1
  <2>4. Len(w) = z + 1 /\ Len(Tail(w)) = z
    BY <2>1, <2>2, <2>3
  <2> QED BY <2>2, <2>4
<1>2. Head(w) = w[1]
  OBVIOUS
<1>3. ASSUME NEW j \in 1 .. z, Tbl!Has(w2[j], k), \A l \in j + 1 .. z : ~Tbl!Has(w2[l], k)
      PROVE  Tbl!Val(w2[j], k) = d[k]
  <2>1. j + 1 \in 1 .. z + 1 /\ w2[j] = w[j + 1]
    BY <1>1
  <2>2. ASSUME NEW l \in (j + 1) + 1 .. z + 1
        PROVE  ~Tbl!Has(w[l], k)
    <3>1. l - 1 \in j + 1 .. z /\ l - 1 \in 1 .. z /\ (l - 1) + 1 = l
      OBVIOUS
    <3> QED BY <1>1, <1>3, <3>1
  <2> QED BY <1>1, <1>3, <2>1, <2>2 DEF Told
<1>4. ASSUME \A l \in 1 .. z : ~Tbl!Has(w2[l], k)
      PROVE  Tbl!Val(c2, k) = d[k]
  <2>1. ASSUME NEW l \in 2 .. z + 1
        PROVE  ~Tbl!Has(w[l], k)
    <3>1. l - 1 \in 1 .. z /\ (l - 1) + 1 = l
      OBVIOUS
    <3> QED BY <1>1, <1>4, <3>1
  <2>2. \A l \in 1 .. z + 1 : l = 1 \/ l \in 2 .. z + 1
    OBVIOUS
  <2>3. CASE Tbl!Has(w[1], k)
    <3>1. 1 \in 1 .. z + 1 /\ 1 + 1 = 2
      OBVIOUS
    <3> QED BY <1>1, <1>2, <2>1, <2>3, <3>1 DEF Told
  <2>4. CASE ~Tbl!Has(w[1], k)
    BY <1>1, <1>2, <2>1, <2>2, <2>4 DEF Told
  <2> QED BY <2>3, <2>4
<1> QED BY <1>1, <1>3, <1>4 DEF Told

LEMMA ContentsIs ==
    ASSUME NEW t, IsTable(t)
    PROVE  Tbl!Contents(t) \in [Keys -> Vals \cup {0}]
<1>1. ASSUME NEW k \in Keys
      PROVE  Tbl!Val(t, k) \in Vals \cup {0}
  <2>1. CASE Tbl!Has(t, k)
    BY <2>1, HasRow, TableIs, RowIs
  <2>2. CASE ~Tbl!Has(t, k)
    BY <2>2, NoRow
  <2> QED BY <2>1, <2>2
<1> QED BY <1>1 DEF Tbl!Contents

TableInv ==
    /\ IsTable(v1) /\ AllMarked(v1) /\ IsTable(v2) /\ IsTable(v3) /\ AllEdited(v3)
    /\ v4 \in Seq(Seq(Rows))
    /\ \A j \in 1 .. Len(v4) : IsTable(v4[j]) /\ \A x \in RowsOf(v4[j]) : x.removed <=> x.val = 0
    /\ v5 \in Seq(Seq(Rows))
    /\ \A j \in 1 .. Len(v5) : IsTable(v5[j]) /\ AllEdited(v5[j])
    /\ v6 = Tbl!Contents(v1) /\ v7 \in [Keys -> Vals \cup {0}]
    /\ \A k \in Keys : Told(k, v1, v2, v4, v7)

LEMMA TableInit ==
    ASSUME Tbl!Init
    PROVE  TableInv
<1>1. /\ v1 = <<>> /\ v2 = <<>> /\ v3 = <<>> /\ v4 = <<>> /\ v5 = <<>>
      /\ v6 = [k \in Keys |-> 0] /\ v7 = v6
  BY DEF Tbl!Init, Tbl!Null
<1>2. IsTable(<<>>) /\ RowsOf(<<>>) = {} /\ \A k : ~Tbl!Has(<<>>, k)
  BY DEF IsTable, Tbl!Sorted, RowsOf, Tbl!Has
<1>3. Tbl!Contents(<<>>) = [k \in Keys |-> 0]
  BY <1>2, NoRow DEF Tbl!Contents
<1>4. \A k \in Keys : Told(k, v1, v2, v4, v7)
  BY <1>1, <1>2, NoRow DEF Told
<1> QED BY <1>1, <1>2, <1>3, <1>4 DEF TableInv, AllMarked, AllEdited

LEMMA SetPropKeeps ==
    ASSUME TableInv, NEW k \in Keys, NEW v \in Vals, Tbl!SetProp(k, v)
    PROVE  TableInv'
<1>1. /\ v1' = Tbl!Set(v1, k, v) /\ v6' = [v6 EXCEPT ![k] = v]
      /\ v2' = v2 /\ v3' = v3 /\ v4' = v4 /\ v5' = v5 /\ v7' = v7
  BY DEF Tbl!SetProp
<1>2. PICK r \in Rows : r = Tbl!Record(k, v, FALSE) /\ r.key = k /\ r.val = v /\ ~r.removed
  <2>1. v \in Vals \cup {0}
    OBVIOUS
  <2> QED BY <2>1, MarkIs
<1>3. IsTable(v1) /\ Put(v1, v1', r)
  BY <1>1, <1>2, SetPuts DEF TableInv
<1>4. IsTable(v1') /\ \A j : Tbl!Has(v1, j) => Tbl!Has(v1', j)
  BY <1>3, PutIs
<1>5. AllMarked(v1')
  BY <1>2, <1>3, TableAssumption DEF TableInv, Put, AllMarked, Marked
<1>6. v6' = Tbl!Contents(v1')
  <2>1. \A j \in Keys : Tbl!Val(v1', j) = IF j = k THEN v ELSE Tbl!Val(v1, j)
    <3>1. Tbl!Val(v1', r.key) = r.val /\ \A j : j # r.key => Tbl!Val(v1', j) = Tbl!Val(v1, j)
      BY <1>3, PutIs
    <3> QED BY <1>2, <3>1
  <2>2. v6 = [j \in Keys |-> Tbl!Val(v1, j)]
    BY DEF TableInv, Tbl!Contents
  <2>3. v6' = [j \in Keys |-> IF j = k THEN v ELSE Tbl!Val(v1, j)]
    BY <1>1, <2>2
  <2> QED BY <2>1, <2>3 DEF Tbl!Contents
<1>7. \A j \in Keys : Told(j, v1', v2', v4', v7')
  BY <1>1, <1>4 DEF TableInv, Told
<1> QED BY <1>1, <1>4, <1>5, <1>6, <1>7 DEF TableInv

LEMMA RemovePropKeeps ==
    ASSUME TableInv, NEW k \in Keys, Tbl!RemoveProp(k)
    PROVE  TableInv'
<1>1. /\ v1' = Tbl!Remove(v1, k) /\ v6' = [v6 EXCEPT ![k] = 0] /\ k \in AppRemoves
      /\ v2' = v2 /\ v3' = v3 /\ v4' = v4 /\ v5' = v5 /\ v7' = v7
  BY DEF Tbl!RemoveProp, Tbl!Null
<1>2. CASE Tbl!Val(v1, k) = 0
  <2>1. v1' = v1
    BY <1>1, <1>2, RemovePuts DEF TableInv
  <2>2. v6' = v6
    BY <1>1, <1>2 DEF TableInv, Tbl!Contents
  <2> QED BY <1>1, <2>1, <2>2 DEF TableInv
<1>3. CASE Tbl!Val(v1, k) # 0
  <2>1. PICK r \in Rows : r = Tbl!Record(k, 0, TRUE) /\ r.key = k /\ r.val = 0 /\ r.removed
    <3>1. 0 \in Vals \cup {0}
      OBVIOUS
    <3> QED BY <3>1, MarkIs
  <2>2. IsTable(v1) /\ Put(v1, v1', r)
    BY <1>1, <1>3, <2>1, RemovePuts DEF TableInv
  <2>3. IsTable(v1') /\ \A j : Tbl!Has(v1, j) => Tbl!Has(v1', j)
    BY <2>2, PutIs
  <2>4. AllMarked(v1')
    BY <1>1, <2>1, <2>2 DEF TableInv, Put, AllMarked, Marked
  <2>5. v6' = Tbl!Contents(v1')
    <3>1. \A j \in Keys : Tbl!Val(v1', j) = IF j = k THEN 0 ELSE Tbl!Val(v1, j)
      <4>1. Tbl!Val(v1', r.key) = r.val /\ \A j : j # r.key => Tbl!Val(v1', j) = Tbl!Val(v1, j)
        BY <2>2, PutIs
      <4> QED BY <2>1, <4>1
    <3>2. v6 = [j \in Keys |-> Tbl!Val(v1, j)]
      BY DEF TableInv, Tbl!Contents
    <3>3. v6' = [j \in Keys |-> IF j = k THEN 0 ELSE Tbl!Val(v1, j)]
      BY <1>1, <3>2
    <3> QED BY <3>1, <3>3 DEF Tbl!Contents
  <2>6. \A j \in Keys : Told(j, v1', v2', v4', v7')
    BY <1>1, <2>3 DEF TableInv, Told
  <2> QED BY <1>1, <2>3, <2>4, <2>5, <2>6 DEF TableInv
<1> QED BY <1>2, <1>3

\* An announcement of the table t, of which own is what stays.
LEMMA AnnounceKeeps ==
    ASSUME TableInv, NEW t, IsTable(t), AllMarked(t), \A k : Tbl!Has(v1, k) => Tbl!Has(t, k),
           NEW o, \A k : ~Tbl!Has(o, k) => Tbl!Val(t, k) = 0,
           NEW w, w = Append(v4, Tbl!Message(t)), NEW e, e = Tbl!Contents(t)
    PROVE  /\ w \in Seq(Seq(Rows))
           /\ \A j \in 1 .. Len(w) : IsTable(w[j]) /\ \A x \in RowsOf(w[j]) : x.removed <=> x.val = 0
           /\ e \in [Keys -> Vals \cup {0}]
           /\ \A k \in Keys : Told(k, o, v2, w, e)
<1>1. \A x \in RowsOf(t) : x.removed <=> x.val = 0
  BY DEF AllMarked, Marked
<1>2. w = Append(v4, t)
  BY <1>1, MessageIs
<1>3. v4 \in Seq(Seq(Rows)) /\ t \in Seq(Rows)
  BY DEF TableInv, IsTable
<1>4. /\ Append(v4, t) \in Seq(Seq(Rows)) /\ Len(Append(v4, t)) = Len(v4) + 1 /\ Append(v4, t)[Len(v4) + 1] = t
      /\ \A j \in 1 .. Len(v4) : Append(v4, t)[j] = v4[j]
  BY ONLY <1>3, AppendProperties
<1>5. \A j \in 1 .. Len(w) : j \in 1 .. Len(v4) \/ j = Len(v4) + 1
  BY <1>2, <1>3, <1>4
<1>6. \A j \in 1 .. Len(w) : IsTable(w[j]) /\ \A x \in RowsOf(w[j]) : x.removed <=> x.val = 0
  BY <1>1, <1>2, <1>4, <1>5 DEF TableInv
<1>7. ASSUME NEW k \in Keys
      PROVE  Told(k, o, v2, w, e)
  <2>1. Told(k, v1, v2, v4, v7)
    BY DEF TableInv
  <2> QED BY <1>2, <1>3, <2>1, ToldAnew
<1> QED BY <1>2, <1>4, <1>6, <1>7, ContentsIs

LEMMA PushKeeps ==
    ASSUME TableInv, Tbl!Push
    PROVE  TableInv'
<1>1. /\ v4' = Append(v4, Tbl!Message(v1)) /\ v7' = v6
      /\ v1' = v1 /\ v2' = v2 /\ v3' = v3 /\ v5' = v5 /\ v6' = v6
  BY DEF Tbl!Push, Tbl!Announce
<1>2. IsTable(v1) /\ AllMarked(v1) /\ v7' = Tbl!Contents(v1)
  BY <1>1 DEF TableInv
<1>3. /\ v4' \in Seq(Seq(Rows)) /\ v7' \in [Keys -> Vals \cup {0}]
      /\ \A j \in 1 .. Len(v4') : IsTable(v4'[j]) /\ \A x \in RowsOf(v4'[j]) : x.removed <=> x.val = 0
      /\ \A k \in Keys : Told(k, v1, v2, v4', v7')
  <2>1. PICK w, e : w = v4' /\ e = v7'
    OBVIOUS
  <2>2. w = Append(v4, Tbl!Message(v1)) /\ e = Tbl!Contents(v1)
    BY <1>1, <1>2, <2>1
  <2>3. \A k : ~Tbl!Has(v1, k) => Tbl!Val(v1, k) = 0
    BY NoRow
  <2>4. /\ w \in Seq(Seq(Rows)) /\ e \in [Keys -> Vals \cup {0}]
        /\ \A j \in 1 .. Len(w) : IsTable(w[j]) /\ \A x \in RowsOf(w[j]) : x.removed <=> x.val = 0
        /\ \A k \in Keys : Told(k, v1, v2, w, e)
    BY <1>2, <2>2, <2>3, AnnounceKeeps
  <2> QED BY <2>1, <2>4
<1> QED BY <1>1, <1>3 DEF TableInv

LEMMA LearnKeeps ==
    ASSUME TableInv, Tbl!Learn
    PROVE  TableInv'
<1>1. /\ v4 # <<>> /\ v2' = Tbl!SetFromMsg(v2, Head(v4)) /\ v4' = Tail(v4)
      /\ v1' = v1 /\ v3' = v3 /\ v5' = v5 /\ v6' = v6 /\ v7' = v7
  BY DEF Tbl!Learn
<1>2. /\ v4 \in Seq(Seq(Rows)) /\ Len(v4) \in Nat /\ Len(v4) # 0 /\ Head(v4) = v4[1] /\ 1 \in 1 .. Len(v4)
  BY <1>1 DEF TableInv
<1>3. /\ v4' \in Seq(Seq(Rows)) /\ Len(v4') = Len(v4) - 1
      /\ \A j \in 1 .. Len(v4') : v4'[j] = v4[j + 1]
  BY <1>1, <1>2, HeadTailProperties
<1>4. \A j \in 1 .. Len(v4') : j + 1 \in 1 .. Len(v4)
  BY <1>2, <1>3
<1>5. PICK m : m = Head(v4) /\ IsTable(m) /\ \A x \in RowsOf(m) : x.removed => x.val = 0
  BY <1>2 DEF TableInv
<1>6. /\ IsTable(v2')
      /\ \A k : Tbl!Val(v2', k) = IF Tbl!Has(m, k) THEN Tbl!Val(m, k) ELSE Tbl!Val(v2, k)
  BY <1>1, <1>5, MsgIs DEF TableInv
<1>7. ASSUME NEW k \in Keys
      PROVE  Told(k, v1, v2', v4', v7)
  <2>1. Told(k, v1, v2, v4, v7)
    BY DEF TableInv
  <2>2. Tbl!Val(v2', k) = IF Tbl!Has(Head(v4), k) THEN Tbl!Val(Head(v4), k) ELSE Tbl!Val(v2, k)
    BY <1>5, <1>6
  <2>3. PICK c, w : c = v2' /\ w = v4'
    OBVIOUS
  <2>4. /\ Tbl!Val(c, k) = IF Tbl!Has(Head(v4), k) THEN Tbl!Val(Head(v4), k) ELSE Tbl!Val(v2, k)
        /\ w = Tail(v4)
    BY <1>1, <2>2, <2>3
  <2>5. Told(k, v1, c, w, v7)
    BY <1>1, <1>2, <2>1, <2>4, ToldLearned
  <2> QED BY <2>3, <2>5
<1> QED BY <1>1, <1>3, <1>4, <1>6, <1>7 DEF TableInv

LEMMA StageSetKeeps ==
    ASSUME TableInv, NEW k \in Keys, NEW v \in Vals, Tbl!StageSet(k, v)
    PROVE  TableInv'
<1>1. /\ v3' = Tbl!Set(v3, k, v) /\ k \in EditSets
      /\ v1' = v1 /\ v2' = v2 /\ v4' = v4 /\ v5' = v5 /\ v6' = v6 /\ v7' = v7
  BY DEF Tbl!StageSet
<1>2. PICK r \in Rows : r = Tbl!Record(k, v, FALSE) /\ r.key = k /\ r.val = v /\ ~r.removed
  <2>1. v \in Vals \cup {0}
    OBVIOUS
  <2> QED BY <2>1, MarkIs
<1>3. Put(v3, v3', r)
  BY <1>1, <1>2, SetPuts DEF TableInv
<1>4. IsTable(v3') /\ AllEdited(v3')
  BY <1>1, <1>2, <1>3, TableAssumption DEF TableInv, Put, AllEdited, Edited
<1> QED BY <1>1, <1>4 DEF TableInv

LEMMA StageRemoveKeeps ==
    ASSUME TableInv, NEW k \in Keys, Tbl!StageRemove(k)
    PROVE  TableInv'
<1>1. /\ v3' = Tbl!StageRemoval(v3, k) /\ k \in EditRemoves
      /\ v1' = v1 /\ v2' = v2 /\ v4' = v4 /\ v5' = v5 /\ v6' = v6 /\ v7' = v7
  BY DEF Tbl!StageRemove
<1>2. PICK r \in Rows : r = Tbl!Record(k, 0, TRUE) /\ r.key = k /\ r.val = 0 /\ r.removed
  <2>1. 0 \in Vals \cup {0}
    OBVIOUS
  <2> QED BY <2>1, MarkIs
<1>3. v3' = v3 \/ Put(v3, v3', r)
  BY <1>1, <1>2, StagePuts DEF TableInv
<1>4. IsTable(v3') /\ AllEdited(v3')
  BY <1>1, <1>2, <1>3 DEF TableInv, Put, AllEdited, Edited
<1> QED BY <1>1, <1>4 DEF TableInv

LEMMA PushStagedKeeps ==
    ASSUME TableInv, Tbl!PushStaged
    PROVE  TableInv'
<1>1. /\ v5' = Append(v5, Tbl!Message(v3)) /\ v3' = <<>>
      /\ v1' = v1 /\ v2' = v2 /\ v4' = v4 /\ v6' = v6 /\ v7' = v7
  BY DEF Tbl!PushStaged
<1>2. v5' = Append(v5, v3)
  BY <1>1, MessageIs DEF TableInv, AllEdited, Edited
<1>3. v5 \in Seq(Seq(Rows)) /\ v3 \in Seq(Rows)
  BY DEF TableInv, IsTable
<1>4. /\ Append(v5, v3) \in Seq(Seq(Rows)) /\ Len(Append(v5, v3)) = Len(v5) + 1
      /\ Append(v5, v3)[Len(v5) + 1] = v3
      /\ \A j \in 1 .. Len(v5) : Append(v5, v3)[j] = v5[j]
  BY ONLY <1>3, AppendProperties
<1>5. \A j \in 1 .. Len(v5') : j \in 1 .. Len(v5) \/ j = Len(v5) + 1
  BY <1>2, <1>3, <1>4
<1>6. \A j \in 1 .. Len(v5') : IsTable(v5'[j]) /\ AllEdited(v5'[j])
  BY <1>2, <1>4, <1>5 DEF TableInv
<1>7. IsTable(<<>>) /\ AllEdited(<<>>)
  BY DEF IsTable, Tbl!Sorted, AllEdited, RowsOf
<1> QED BY <1>1, <1>2, <1>4, <1>6, <1>7 DEF TableInv

LEMMA ModifiedKeeps ==
    ASSUME TableInv, Tbl!Modified
    PROVE  TableInv'
<1>1. PICK msg, next :
        /\ msg = Head(v5) /\ next = Tbl!SetFromMsg(v1, msg)
        /\ v6' = [k \in Keys |-> IF Tbl!Has(msg, k) THEN msg[Tbl!At(msg, k)].val ELSE v6[k]]
        /\ \/ /\ v1' = Tbl!ClearEmpty(next) /\ v4' = Append(v4, Tbl!Message(next)) /\ v7' = v6'
           \/ v1' = next /\ v4' = v4 /\ v7' = v7
  BY DEF Tbl!Modified, Tbl!Announce
<1>2. v5 # <<>> /\ v5' = Tail(v5) /\ v2' = v2 /\ v3' = v3
  BY DEF Tbl!Modified
<1>3. /\ v5 \in Seq(Seq(Rows)) /\ Len(v5) \in Nat /\ Len(v5) # 0 /\ Head(v5) = v5[1] /\ 1 \in 1 .. Len(v5)
  BY <1>2 DEF TableInv
<1>4. /\ v5' \in Seq(Seq(Rows))
      /\ \A j \in 1 .. Len(v5') : IsTable(v5'[j]) /\ AllEdited(v5'[j])
  <2>1. /\ v5' \in Seq(Seq(Rows)) /\ Len(v5') = Len(v5) - 1
        /\ \A j \in 1 .. Len(v5') : v5'[j] = v5[j + 1]
    BY <1>2, <1>3, HeadTailProperties
  <2>2. \A j \in 1 .. Len(v5') : j + 1 \in 1 .. Len(v5)
    BY <1>3, <2>1
  <2> QED BY <2>1, <2>2 DEF TableInv
<1>5. IsTable(msg) /\ AllEdited(msg)
  BY <1>1, <1>3 DEF TableInv
<1>6. /\ IsTable(next) /\ AllMarked(next)
      /\ \A k : Tbl!Val(next, k) = IF Tbl!Has(msg, k) THEN Tbl!Val(msg, k) ELSE Tbl!Val(v1, k)
      /\ \A k : Tbl!Has(v1, k) => Tbl!Has(next, k)
  <2>1. IsTable(v1) /\ AllMarked(v1) /\ \A x \in RowsOf(msg) : x.removed => x.val = 0
    BY <1>5 DEF TableInv, AllEdited, Edited
  <2> QED BY <1>1, <1>5, <2>1, MsgIs
<1>7. v6' = Tbl!Contents(next)
  <2>1. ASSUME NEW k \in Keys
        PROVE  v6'[k] = Tbl!Val(next, k)
    <3>1. CASE Tbl!Has(msg, k)
      BY <1>1, <1>5, <1>6, <3>1, HasRow
    <3>2. CASE ~Tbl!Has(msg, k)
      BY <1>1, <1>6, <3>2 DEF TableInv, Tbl!Contents
    <3> QED BY <3>1, <3>2
  <2> QED BY <1>1, <2>1 DEF Tbl!Contents
<1>8. CASE v1' = next /\ v4' = v4 /\ v7' = v7
  <2>1. \A k \in Keys : Told(k, v1', v2', v4', v7')
    BY <1>2, <1>6, <1>8 DEF TableInv, Told
  <2> QED BY <1>2, <1>4, <1>6, <1>7, <1>8, <2>1 DEF TableInv
<1>9. CASE v1' = Tbl!ClearEmpty(next) /\ v4' = Append(v4, Tbl!Message(next)) /\ v7' = v6'
  <2>1. IsTable(v1') /\ RowsOf(v1') \subseteq RowsOf(next) /\ \A k : Tbl!Val(v1', k) = Tbl!Val(next, k)
    BY <1>6, <1>9, ClearIs
  <2>2. AllMarked(v1')
    BY <1>6, <2>1 DEF AllMarked
  <2>3. v6' = Tbl!Contents(v1')
    BY <1>7, <2>1 DEF Tbl!Contents
  <2>4. \A k : ~Tbl!Has(v1', k) => Tbl!Val(next, k) = 0
    BY <2>1, NoRow
  <2>5. v7' = Tbl!Contents(next)
    BY <1>7, <1>9
  <2>6. /\ v4' \in Seq(Seq(Rows)) /\ v7' \in [Keys -> Vals \cup {0}]
        /\ \A j \in 1 .. Len(v4') : IsTable(v4'[j]) /\ \A x \in RowsOf(v4'[j]) : x.removed <=> x.val = 0
        /\ \A k \in Keys : Told(k, v1', v2, v4', v7')
    BY <1>6, <1>9, <2>4, <2>5, AnnounceKeeps
  <2> QED BY <1>2, <1>4, <2>1, <2>2, <2>3, <2>6 DEF TableInv
<1> QED BY <1>1, <1>8, <1>9

LEMMA TableStep ==
    ASSUME TableInv, Tbl!Next
    PROVE  TableInv'
<1>1. ASSUME NEW k \in Keys, Tbl!RemoveProp(k) \/ Tbl!StageRemove(k)
                               \/ \E v \in Vals : Tbl!SetProp(k, v) \/ Tbl!StageSet(k, v)
      PROVE  TableInv'
  BY <1>1, RemovePropKeeps, StageRemoveKeeps, SetPropKeeps, StageSetKeeps
<1>2. CASE Tbl!Push \/ Tbl!PushStaged \/ Tbl!Learn \/ Tbl!Modified
  BY <1>2, PushKeeps, PushStagedKeeps, LearnKeeps, ModifiedKeeps
<1> QED BY <1>1, <1>2 DEF Tbl!Next

LEMMA TableRight ==
    ASSUME TableInv
    PROVE  Tbl!Searchable /\ Tbl!IsDictionary /\ Tbl!CopyCatchesUp
<1>1. Tbl!Searchable
  BY DEF TableInv, IsTable, Tbl!Searchable, Tbl!Tables
<1>2. Tbl!IsDictionary
  BY DEF TableInv, Tbl!IsDictionary
<1>3. Tbl!CopyCatchesUp
  <2> SUFFICES ASSUME v4 = <<>>
               PROVE  Tbl!Contents(v2) = v7
    BY DEF Tbl!CopyCatchesUp
  <2>1. \A k \in Keys : Tbl!Val(v2, k) = v7[k]
    BY DEF TableInv, Told
  <2> QED BY <2>1 DEF Tbl!Contents, TableInv
<1> QED BY <1>1, <1>2, <1>3

-----------------------------------------------------------------------------
(* Time stamps: two words, with carry and borrow.                          *)

\* Two words, and the number that they are.
LEMMA Digits ==
    ASSUME NEW w \in Nat \ {0}, NEW s \in 0 .. w - 1, NEW f \in 0 .. w - 1
    PROVE  s * w + f \in 0 .. w * w - 1 /\ w * w \in Nat \ {0} /\ s * w \in Nat
<1>1. s * w \in Nat /\ w * w \in Nat /\ (w - 1 - s) * w \in Nat
  OBVIOUS
<1>2. (w - 1 - s) * w = w * w - w - s * w
  OBVIOUS
<1>3. w * w > 0
  OBVIOUS
<1> QED BY <1>1, <1>2, <1>3

LEMMA Division ==
    ASSUME NEW w \in Nat \ {0}, NEW e \in Int
    PROVE  e \div w \in Int /\ e % w \in 0 .. w - 1 /\ e = (e \div w) * w + (e % w)
  OBVIOUS

\* A number of two words that is a multiple of the second word too large.
LEMMA Wraps ==
    ASSUME NEW w \in Nat \ {0}, NEW S \in 0 .. 2 * w - 1, NEW f \in 0 .. w - 1
    PROVE  (S % w) * w + f = (S * w + f) % (w * w)
<1>1. CASE S < w
  <2>1. S % w = S /\ S * w + f \in 0 .. w * w - 1 /\ w * w \in Nat \ {0}
    BY <1>1, Round, Digits
  <2> DEFINE n == w * w
             x == S * w + f
  <2>2. x % n = x
    <3> HIDE DEF n, x
    <3>1. n \in Nat \ {0} /\ x \in 0 .. n - 1
      BY <2>1 DEF n, x
    <3> QED BY <3>1
  <2> QED BY <2>1, <2>2
<1>2. CASE S >= w
  <2>1. PICK s \in 0 .. w - 1 : S = s + w /\ S % w = s
    BY <1>2, Round
  <2>2. s * w + f \in 0 .. w * w - 1 /\ w * w \in Nat \ {0}
    BY Digits
  <2>3. S * w + f = (s * w + f) + w * w
    BY <2>1
  <2> DEFINE n == w * w
             x == s * w + f
  <2>4. (x + n) % n = x
    <3> HIDE DEF n, x
    <3>1. n \in Nat \ {0} /\ x \in 0 .. n - 1
      BY <2>2 DEF n, x
    <3>2. x + n \in 0 .. 2 * n - 1 /\ ~(x + n < n)
      BY <3>1
    <3>3. PICK a : a = x + n
      OBVIOUS
    <3>4. a % n = a - n
      BY <3>1, <3>2, <3>3, Round
    <3> QED BY <3>1, <3>3, <3>4
  <2> QED BY <2>1, <2>3, <2>4
<1> QED BY <1>1, <1>2

LEMMA TimeIs ==
    ASSUME NEW s \in Int, NEW f \in Int
    PROVE  Tim!Time(s, f) \in Tim!Times /\ Tim!Time(s, f).sec = s % Radix /\ Tim!Time(s, f).frac = f % Radix
<1>1. s % Radix \in 0 .. Radix - 1 /\ f % Radix \in 0 .. Radix - 1
  BY RadixAssumption, Division
<1> QED BY <1>1 DEF Tim!Time, Tim!Times

LEMMA PlusRight ==
    ASSUME NEW u \in Tim!Times, NEW v \in Tim!Times
    PROVE  /\ Tim!Plus(u, v) \in Tim!Times
           /\ Tim!Num(Tim!Plus(u, v)) = (Tim!Num(u) + Tim!Num(v)) % (Radix * Radix)
<1>1. PICK s1 \in 0 .. Radix - 1, a \in 0 .. Radix - 1, s2 \in 0 .. Radix - 1, b \in 0 .. Radix - 1 :
        u.sec = s1 /\ u.frac = a /\ v.sec = s2 /\ v.frac = b
  BY DEF Tim!Times
<1>a. PICK x \in 0 .. 2 * Radix - 1 : x = a + b
  BY RadixAssumption
<1>b. PICK f : f = x % Radix
  OBVIOUS
<1>2. f \in 0 .. Radix - 1 /\ f = (a + b) % Radix /\ f = IF x < Radix THEN x ELSE x - Radix
  <2>1. f = IF x < Radix THEN x ELSE x - Radix
    BY <1>b, RadixAssumption, Round
  <2> QED BY <1>a, <1>b, <2>1, RadixAssumption
<1>3. PICK c \in 0 .. 1 : c = IF f < b THEN 1 ELSE 0
  OBVIOUS
<1>4. a + b = f + c * Radix
  BY <1>a, <1>2, <1>3, RadixAssumption
<1>5. PICK S \in 0 .. 2 * Radix - 1 : S = s1 + s2 + c
  BY RadixAssumption
<1>6. Tim!Plus(u, v) = Tim!Time(S, a + b)
  BY <1>1, <1>2, <1>3, <1>5 DEF Tim!Plus
<1>7. Tim!Plus(u, v) \in Tim!Times /\ Tim!Plus(u, v).sec = S % Radix /\ Tim!Plus(u, v).frac = f
  BY <1>2, <1>6, TimeIs
<1>8. Tim!Num(Tim!Plus(u, v)) = (S % Radix) * Radix + f
  BY <1>7 DEF Tim!Num
<1>9. Tim!Num(u) + Tim!Num(v) = S * Radix + f
  <2>1. s1 * Radix \in Int /\ s2 * Radix \in Int /\ c * Radix \in Int
    BY RadixAssumption
  <2>2. S * Radix = s1 * Radix + s2 * Radix + c * Radix
    BY <1>5, RadixAssumption
  <2>3. Tim!Num(u) = s1 * Radix + a /\ Tim!Num(v) = s2 * Radix + b
    BY <1>1 DEF Tim!Num
  <2> QED BY <1>2, <1>4, <2>1, <2>2, <2>3
<1> QED BY <1>2, <1>7, <1>8, <1>9, RadixAssumption, Wraps

LEMMA MinusRight ==
    ASSUME NEW u \in Tim!Times, NEW v \in Tim!Times
    PROVE  LET d == Tim!Num(u) - Tim!Num(v)
           IN  /\ Tim!Minus(u, v) \in Tim!Times
               /\ IF d <= 0 THEN Tim!Num(Tim!Minus(u, v)) = 0
                  ELSE d - Tim!Num(Tim!Minus(u, v)) \in 0 .. Radix - 1
<1>1. PICK s1 \in 0 .. Radix - 1, a \in 0 .. Radix - 1, s2 \in 0 .. Radix - 1, b \in 0 .. Radix - 1 :
        u.sec = s1 /\ u.frac = a /\ v.sec = s2 /\ v.frac = b
  BY DEF Tim!Times
<1>2. /\ Tim!Num(u) = s1 * Radix + a /\ Tim!Num(v) = s2 * Radix + b
      /\ s1 * Radix \in Int /\ s2 * Radix \in Int /\ (s1 - s2) * Radix = s1 * Radix - s2 * Radix
  BY <1>1, RadixAssumption DEF Tim!Num
<1> DEFINE n == Tim!Minus(u, v)
<1>3. CASE s1 > s2
  <2>1. PICK c \in 0 .. 1 : c = IF a < b THEN 1 ELSE 0
    OBVIOUS
  <2>2. PICK S \in 0 .. Radix - 1 : S = s1 - s2 - c
    BY <1>3, RadixAssumption
  <2>3. n = Tim!Time(S, a - b)
    BY <1>1, <1>3, <2>1, <2>2 DEF Tim!Minus
  <2>4. PICK x \in 0 .. Radix - 1 : x = a - b + c * Radix
    BY <2>1, RadixAssumption
  <2>5. (a - b) % Radix = x /\ S % Radix = S
    BY <2>1, <2>4, RadixAssumption
  <2>6. n \in Tim!Times /\ n.sec = S /\ n.frac = x
    BY <2>3, <2>5, TimeIs
  <2> HIDE DEF n
  <2>7. Tim!Num(n) = S * Radix + x
    BY <2>6 DEF Tim!Num
  <2>8. S * Radix = (s1 - s2) * Radix - c * Radix /\ S * Radix \in Nat /\ c * Radix \in Int
    BY <2>2, RadixAssumption
  <2>9. Tim!Num(n) = Tim!Num(u) - Tim!Num(v)
    BY <1>2, <2>4, <2>7, <2>8
  <2>10. Tim!Num(n) \in Nat
    BY <2>7, <2>8
  <2> QED BY <1>2, <2>6, <2>9, <2>10, RadixAssumption DEF n
<1>4. CASE s1 <= s2
  <2>1. n = Tim!Time(0, 0)
    BY <1>1, <1>4 DEF Tim!Minus
  <2>2. 0 % Radix = 0
    BY RadixAssumption
  <2>3. n \in Tim!Times /\ n.sec = 0 /\ n.frac = 0
    BY <2>1, <2>2, TimeIs
  <2> HIDE DEF n
  <2>4. Tim!Num(n) = 0
    BY <2>3, RadixAssumption DEF Tim!Num
  <2>5. CASE s1 = s2
    <3>1. Tim!Num(u) - Tim!Num(v) = a - b
      BY <1>2, <2>5
    <3> QED BY <2>3, <2>4, <3>1, RadixAssumption DEF n
  <2>6. CASE s1 < s2
    <3>1. (s2 - s1 - 1) * Radix \in Nat /\ (s2 - s1 - 1) * Radix = s2 * Radix - s1 * Radix - Radix
      BY <2>6, RadixAssumption
    <3>2. Tim!Num(u) - Tim!Num(v) <= 0
      BY <1>2, <3>1, RadixAssumption
    <3> QED BY <2>3, <2>4, <3>2 DEF n
  <2> QED BY <1>4, <2>5, <2>6
<1> QED BY <1>3, <1>4

LEMMA LaterRight ==
    ASSUME NEW u \in Tim!Times, NEW d \in Int
    PROVE  /\ Tim!Later(u, d) \in Tim!Times
           /\ d \in -Tim!Num(u) .. Radix * Radix - 1 =>
                Tim!Num(Tim!Later(u, d)) = (Tim!Num(u) + d) % (Radix * Radix)
<1>1. PICK s \in 0 .. Radix - 1, a \in 0 .. Radix - 1 : u.sec = s /\ u.frac = a
  BY DEF Tim!Times
<1>2. PICK e \in Int : e = d + a
  OBVIOUS
<1>3. PICK q \in Int, f \in 0 .. Radix - 1 : q = e \div Radix /\ f = e % Radix /\ e = q * Radix + f
  BY RadixAssumption, Division
<1>4. f % Radix = f
  BY RadixAssumption
<1> DEFINE n == Tim!Later(u, d)
<1>5. n = Tim!Time(s + q, f)
  BY <1>1, <1>2, <1>3 DEF Tim!Later
<1>6. n \in Tim!Times /\ n.sec = (s + q) % Radix /\ n.frac = f
  BY <1>4, <1>5, TimeIs
<1>7. ASSUME d \in -Tim!Num(u) .. Radix * Radix - 1
      PROVE  Tim!Num(n) = (Tim!Num(u) + d) % (Radix * Radix)
  <2>1. Tim!Num(u) = s * Radix + a /\ s * Radix \in Int /\ q * Radix \in Int /\ Radix * Radix \in Int
        /\ (s + q) * Radix = s * Radix + q * Radix
    BY <1>1, RadixAssumption DEF Tim!Num
  <2>2. Tim!Num(u) + d = (s + q) * Radix + f
    BY <1>2, <1>3, <2>1
  <2>3. s + q >= 0
    <3> SUFFICES ASSUME s + q <= -1
                 PROVE  FALSE
      OBVIOUS
    <3>1. (-1 - (s + q)) * Radix \in Nat /\ (-1 - (s + q)) * Radix = -Radix - (s + q) * Radix
      BY RadixAssumption
    <3>2. (s + q) * Radix + f >= 0
      BY <1>7, <2>1, <2>2
    <3> QED BY <2>1, <3>1, <3>2, RadixAssumption
  <2>4. q <= Radix
    <3> SUFFICES ASSUME q >= Radix + 1
                 PROVE  FALSE
      BY RadixAssumption
    <3>1. (q - (Radix + 1)) * Radix \in Nat /\ (q - (Radix + 1)) * Radix = q * Radix - Radix * Radix - Radix
      BY RadixAssumption
    <3>2. e <= Radix * Radix - 1 + a
      BY <1>2, <1>7, <2>1
    <3> QED BY <1>3, <2>1, <3>1, <3>2, RadixAssumption
  <2>5. s + q \in 0 .. 2 * Radix - 1
    BY <2>3, <2>4, RadixAssumption
  <2>6. ((s + q) % Radix) * Radix + f = ((s + q) * Radix + f) % (Radix * Radix)
    BY <2>5, RadixAssumption, Wraps
  <2> HIDE DEF n
  <2> QED BY <1>6, <2>2, <2>6 DEF Tim!Num
<1> QED BY <1>6, <1>7

LEMMA CmpRight ==
    ASSUME NEW u \in Tim!Times, NEW v \in Tim!Times
    PROVE  IF Tim!Apart(u, v) \in -Tim!Half .. Tim!Half - 1
           THEN /\ Tim!Cmp(u, v) < 0 <=> Tim!Num(u) < Tim!Num(v)
                /\ Tim!Cmp(u, v) > 0 <=> Tim!Num(u) > Tim!Num(v)
           ELSE /\ Tim!Cmp(u, v) < 0 <=> Tim!Num(u) > Tim!Num(v)
                /\ Tim!Cmp(u, v) > 0 <=> Tim!Num(u) < Tim!Num(v)
<1>1. PICK s1 \in 0 .. Radix - 1, a \in 0 .. Radix - 1, s2 \in 0 .. Radix - 1, b \in 0 .. Radix - 1 :
        u.sec = s1 /\ u.frac = a /\ v.sec = s2 /\ v.frac = b
  BY DEF Tim!Times
<1>2. /\ Tim!Num(u) = s1 * Radix + a /\ Tim!Num(v) = s2 * Radix + b
      /\ s1 * Radix \in Int /\ s2 * Radix \in Int
  BY <1>1, RadixAssumption DEF Tim!Num
<1>3. PICK h \in Int : h = Tim!Half /\ Radix = 2 * h
  BY RadixAssumption DEF Tim!Half
<1>4. \A x \in 1 - Radix .. Radix - 1 :
        Tim!Signed(x) = IF x >= h THEN x - Radix ELSE IF x < -h THEN x + Radix ELSE x
  <2> SUFFICES ASSUME NEW x \in 1 - Radix .. Radix - 1
               PROVE  Tim!Signed(x) = IF x >= h THEN x - Radix ELSE IF x < -h THEN x + Radix ELSE x
    OBVIOUS
  <2>1. x % Radix = IF x >= 0 THEN x ELSE x + Radix
    BY RadixAssumption
  <2> QED BY <1>3, <2>1, RadixAssumption DEF Tim!Signed
<1>a. a - b \in Int /\ s1 - s2 \in Int
  OBVIOUS
<1>5. PICK x \in Int : x = IF s1 = s2 THEN a - b ELSE s1 - s2
  BY <1>a
<1>6. Tim!Cmp(u, v) = Tim!Signed(x)
  BY <1>1, <1>5 DEF Tim!Cmp
<1>7. (x < 0 <=> Tim!Num(u) < Tim!Num(v)) /\ (x > 0 <=> Tim!Num(u) > Tim!Num(v))
  <2>1. CASE s1 = s2
    BY <1>2, <1>5, <2>1
  <2>2. CASE s1 < s2
    <3>1. (s2 - s1 - 1) * Radix \in Nat /\ (s2 - s1 - 1) * Radix = s2 * Radix - s1 * Radix - Radix
      BY <2>2, RadixAssumption
    <3> QED BY <1>2, <1>5, <2>2, <3>1, RadixAssumption
  <2>3. CASE s1 > s2
    <3>1. (s1 - s2 - 1) * Radix \in Nat /\ (s1 - s2 - 1) * Radix = s1 * Radix - s2 * Radix - Radix
      BY <2>3, RadixAssumption
    <3> QED BY <1>2, <1>5, <2>3, <3>1, RadixAssumption
  <2> QED BY <2>1, <2>2, <2>3
<1>8. Tim!Apart(u, v) = x
  BY <1>1, <1>5 DEF Tim!Apart
<1>9. x \in 1 - Radix .. Radix - 1 /\ Tim!Num(u) \in Int /\ Tim!Num(v) \in Int
  BY <1>1, <1>2, <1>5, RadixAssumption
<1>10. /\ x \in -h .. h - 1 => Tim!Cmp(u, v) = x
       /\ x \notin -h .. h - 1 => (Tim!Cmp(u, v) < 0 <=> x > 0) /\ (Tim!Cmp(u, v) > 0 <=> x < 0)
  BY <1>3, <1>4, <1>6, <1>9, RadixAssumption
<1> QED BY <1>3, <1>7, <1>8, <1>10

TimeInv == v1 \in Tim!Times

LEMMA TimeInit ==
    ASSUME Tim!Init
    PROVE  TimeInv
  BY TimeIs DEF Tim!Init, TimeInv

LEMMA TimeStep ==
    ASSUME TimeInv, Tim!Next
    PROVE  TimeInv'
<1>1. ASSUME NEW v \in Tim!Times, Tim!Add(v) \/ Tim!Sub(v) \/ Tim!SetDbl(v)
      PROVE  v1' \in Tim!Times
  BY <1>1, PlusRight, MinusRight DEF TimeInv, Tim!Add, Tim!Sub, Tim!SetDbl
<1>2. ASSUME NEW d \in Tim!Amounts, Tim!AddDbl(d)
      PROVE  v1' \in Tim!Times
  <2>1. d \in Int
    BY RadixAssumption DEF Tim!Amounts
  <2> QED BY <1>2, <2>1, LaterRight DEF TimeInv, Tim!AddDbl
<1>3. v1' \in Tim!Times
  BY <1>1, <1>2 DEF Tim!Next
<1> QED BY <1>3 DEF TimeInv, Tim!Times

LEMMA TimeRight ==
    ASSUME TimeInv
    PROVE  Tim!ArithmeticRight /\ Tim!OrderRight
<1>1. v1 \in Tim!Times
  BY DEF TimeInv
<1>2. Tim!ArithmeticRight
  <2>1. \A v \in Tim!Times : Tim!Num(Tim!Plus(v1, v)) = (Tim!Num(v1) + Tim!Num(v)) % (Radix * Radix)
    BY <1>1, PlusRight
  <2>2. \A v \in Tim!Times :
          IF Tim!Num(v1) - Tim!Num(v) <= 0 THEN Tim!Num(Tim!Minus(v1, v)) = 0
          ELSE Tim!Num(v1) - Tim!Num(v) - Tim!Num(Tim!Minus(v1, v)) \in 0 .. Radix - 1
    BY <1>1, MinusRight
  <2>3. \A d \in -Tim!Num(v1) .. Radix * Radix - 1 :
          Tim!Num(Tim!Later(v1, d)) = (Tim!Num(v1) + d) % (Radix * Radix)
    <3>1. Tim!Num(v1) \in Int
      BY <1>1, RadixAssumption DEF Tim!Num, Tim!Times
    <3> QED BY <1>1, <3>1, LaterRight
  <2> QED BY <2>1, <2>2, <2>3 DEF Tim!ArithmeticRight
<1>3. Tim!OrderRight
  BY <1>1, CmpRight DEF Tim!OrderRight
<1> QED BY <1>2, <1>3

-----------------------------------------------------------------------------
(* Sync clocks: numbered pings that get lost and overtake each other.      *)

LEMMA TheOther ==
    ASSUME NEW p \in Peers
    PROVE  /\ Clk!Other(p) \in Peers /\ Clk!Other(p) # p /\ Clk!Other(Clk!Other(p)) = p
           /\ \A q \in Peers : q = p \/ q = Clk!Other(p)
           /\ \A q \in Peers : q # p => q = Clk!Other(p)
<1>1. PICK q \in Peers : q # p /\ Peers = {p, q}
  BY ClocksAssumption
<1>2. Clk!Other(p) = q /\ Clk!Other(q) = p
  BY <1>1 DEF Clk!Other
<1> QED BY <1>1, <1>2

LEMMA Extremes ==
    ASSUME NEW a \in Int, NEW b \in Int
    PROVE  /\ Clk!Min({a, b}) = IF a <= b THEN a ELSE b
           /\ Clk!Max({a, b}) = IF a <= b THEN b ELSE a
  BY DEF Clk!Min, Clk!Max

\* Sync clocks and pings under way. Numbers tell which two pings a round is
\* made of; only the answer to the last ping counts.
SyncClocks == [sent : Nat, sentAt : Int, rcvd : Int, rcvdAt : Int, new : BOOLEAN, latency : Int, offset : Int]
Pings == [to : Peers, id : Int, echo : Int, elapsed : Int, then : Int, at : Int, took : Int]

LEMMA ClockIs ==
    ASSUME NEW c \in SyncClocks
    PROVE  /\ c.sent \in Nat /\ c.sentAt \in Int /\ c.rcvd \in Int /\ c.rcvdAt \in Int
           /\ c.new \in BOOLEAN /\ c.latency \in Int /\ c.offset \in Int
           /\ c = [sent |-> c.sent, sentAt |-> c.sentAt, rcvd |-> c.rcvd, rcvdAt |-> c.rcvdAt,
                   new |-> c.new, latency |-> c.latency, offset |-> c.offset]
  BY DEF SyncClocks

\* A sync clock after a ping has arrived, and after one has left.
Arrival(c, i, now) == [c EXCEPT !.rcvd = i, !.rcvdAt = now]
Leave(c, i, now) == [c EXCEPT !.sent = i, !.sentAt = now]

LEMMA Arrived ==
    ASSUME NEW c, c \in SyncClocks, NEW i \in Int, NEW now \in Int,
           NEW n, n = Arrival(c, i, now)
    PROVE  /\ n \in SyncClocks /\ n.sent = c.sent /\ n.sentAt = c.sentAt
           /\ n.rcvd = i /\ n.rcvdAt = now /\ n.new = c.new /\ n.offset = c.offset
<1>1. /\ c.sent \in Nat /\ c.sentAt \in Int /\ c.new \in BOOLEAN /\ c.latency \in Int /\ c.offset \in Int
      /\ c = [sent |-> c.sent, sentAt |-> c.sentAt, rcvd |-> c.rcvd, rcvdAt |-> c.rcvdAt,
              new |-> c.new, latency |-> c.latency, offset |-> c.offset]
  BY ClockIs
<1>2. PICK x : x = [c EXCEPT !.rcvd = i]
  OBVIOUS
<1>3. x = [sent |-> c.sent, sentAt |-> c.sentAt, rcvd |-> i, rcvdAt |-> c.rcvdAt,
           new |-> c.new, latency |-> c.latency, offset |-> c.offset]
  BY <1>1, <1>2
<1>4. n = [x EXCEPT !.rcvdAt = now]
  BY <1>2 DEF Arrival
<1>5. n = [sent |-> c.sent, sentAt |-> c.sentAt, rcvd |-> i, rcvdAt |-> now,
           new |-> c.new, latency |-> c.latency, offset |-> c.offset]
  BY <1>3, <1>4
<1> QED BY <1>1, <1>5 DEF SyncClocks

LEMMA HasLeft ==
    ASSUME NEW c, c \in SyncClocks, NEW i \in Nat, NEW now \in Int,
           NEW n, n = Leave(c, i, now)
    PROVE  /\ n \in SyncClocks /\ n.rcvd = c.rcvd /\ n.rcvdAt = c.rcvdAt
           /\ n.sent = i /\ n.sentAt = now /\ n.new = c.new /\ n.offset = c.offset
<1>1. /\ c.rcvd \in Int /\ c.rcvdAt \in Int /\ c.new \in BOOLEAN /\ c.latency \in Int /\ c.offset \in Int
      /\ c = [sent |-> c.sent, sentAt |-> c.sentAt, rcvd |-> c.rcvd, rcvdAt |-> c.rcvdAt,
              new |-> c.new, latency |-> c.latency, offset |-> c.offset]
  BY ClockIs
<1>2. PICK x : x = [c EXCEPT !.sent = i]
  OBVIOUS
<1>3. x = [sent |-> i, sentAt |-> c.sentAt, rcvd |-> c.rcvd, rcvdAt |-> c.rcvdAt,
           new |-> c.new, latency |-> c.latency, offset |-> c.offset]
  BY <1>1, <1>2
<1>4. n = [x EXCEPT !.sentAt = now]
  BY <1>2 DEF Leave
<1>5. n = [sent |-> i, sentAt |-> now, rcvd |-> c.rcvd, rcvdAt |-> c.rcvdAt,
           new |-> c.new, latency |-> c.latency, offset |-> c.offset]
  BY <1>3, <1>4
<1> QED BY <1>1, <1>5 DEF SyncClocks

\* The true time at which p sent its last ping.
TrueSent(clk, p) == clk[p].sentAt - Ahead[p]

OnTheWay(m, t, clk) ==
    LET p == m.to
        q == Clk!Other(m.to)
    IN  /\ m.at <= t /\ t - m.at <= MaxDelay /\ m.then = m.at + Ahead[q] /\ m.took \in 0 .. MaxDelay
        /\ m.id > 0 /\ m.id <= clk[q].sent
        /\ m.id = clk[q].sent => m.at = TrueSent(clk, q)
        /\ m.echo # 0 /\ m.echo <= clk[p].sent
        /\ m.echo = clk[p].sent => TrueSent(clk, p) = m.at - m.elapsed - m.took

\* What arrived last at p.
Heard(p, clk, delay) ==
    LET q == Clk!Other(p)
    IN  /\ clk[p].rcvd # 0 /\ clk[p].rcvd <= clk[q].sent
        /\ clk[p].rcvd = clk[q].sent => TrueSent(clk, q) = clk[p].rcvdAt - Ahead[p] - delay[p]

Close(p, o) == o - 2 * (Ahead[p] - Ahead[Clk!Other(p)]) \in -MaxDelay .. MaxDelay

ClocksInv ==
    /\ v1 \in Int /\ v2 \in [Peers -> SyncClocks] /\ v3 \in [Peers -> BOOLEAN]
    /\ v4 \subseteq Pings /\ v5 \in [Peers -> 0 .. MaxDelay]
    /\ \A m \in v4 : OnTheWay(m, v1, v2)
    /\ \A p \in Peers : Heard(p, v2, v5)
    /\ \A p \in Peers : ~v2[p].new => Close(p, v2[p].offset)

LEMMA ClocksInit ==
    ASSUME Clk!Init
    PROVE  ClocksInv
<1>1. /\ v1 = 0 /\ v4 = {} /\ v3 \in [Peers -> BOOLEAN] /\ v5 = [p \in Peers |-> 0]
      /\ v2 = [p \in Peers |-> [sent |-> 0, sentAt |-> Clk!Now(p), rcvd |-> -1,
                                rcvdAt |-> Clk!Now(p) + Timeout,
                                new |-> TRUE, latency |-> 0, offset |-> 0]]
  BY DEF Clk!Init, Clk!NoNumber
<1>2. \A p \in Peers : Clk!Now(p) \in Int
  BY <1>1, ClocksAssumption DEF Clk!Now
<1>3. v2 \in [Peers -> SyncClocks]
  BY <1>1, <1>2, ClocksAssumption DEF SyncClocks
<1>4. \A p \in Peers : Heard(p, v2, v5)
  BY <1>1, TheOther DEF Heard
<1>5. v1 \in Int /\ v4 \subseteq Pings /\ \A m \in v4 : OnTheWay(m, v1, v2)
  BY <1>1
<1>6. v5 \in [Peers -> 0 .. MaxDelay]
  <2>1. 0 \in 0 .. MaxDelay
    BY ClocksAssumption
  <2> QED BY <1>1, <2>1
<1>7. \A p \in Peers : v2[p].new
  BY <1>1
<1> QED BY <1>1, <1>3, <1>4, <1>5, <1>6, <1>7 DEF ClocksInv

\* A round of pings took what these two pings took.
LEMMA RoundTook ==
    ASSUME ClocksInv, NEW m \in v4, Clk!Answers(m, v2[m.to])
    PROVE  Clk!Latency(m.to, m) = m.took + v1 - m.at
<1>1. OnTheWay(m, v1, v2) /\ m \in Pings /\ m.to \in Peers /\ v2[m.to] \in SyncClocks /\ v1 \in Int
  BY DEF ClocksInv, Pings
<1>2. m.echo = v2[m.to].sent
  BY DEF Clk!Answers
<1>3. v2[m.to].sentAt - Ahead[m.to] = m.at - m.elapsed - m.took
  BY <1>1, <1>2 DEF OnTheWay, TrueSent
<1>4. /\ v2[m.to].sentAt \in Int /\ Ahead[m.to] \in Int
      /\ m.at \in Int /\ m.elapsed \in Int /\ m.took \in Int
  BY <1>1, ClocksAssumption DEF Pings, SyncClocks
<1>5. PICK x, y : x = v2[m.to].sentAt /\ y = Ahead[m.to] /\ x \in Int /\ y \in Int
  BY <1>4
<1>6. Clk!Latency(m.to, m) = v1 + y - x - m.elapsed
  BY <1>1, <1>4, <1>5 DEF Clk!Latency, Clk!Now
<1>7. x - y = m.at - m.elapsed - m.took
  BY <1>3, <1>5
<1> QED BY <1>1, <1>4, <1>5, <1>6, <1>7

LEMMA OffsetIsClose ==
    ASSUME ClocksInv, NEW m \in v4, Clk!Answers(m, v2[m.to])
    PROVE  Clk!Offset(m.to, m) \in Int /\ Close(m.to, Clk!Offset(m.to, m))
<1> DEFINE p == m.to
           q == Clk!Other(p)
<1>1. OnTheWay(m, v1, v2) /\ m \in Pings /\ p \in Peers /\ q \in Peers /\ v1 \in Int
  BY TheOther DEF ClocksInv, Pings
<1>2. Clk!Latency(p, m) = m.took + v1 - m.at
  BY RoundTook
<1>3. /\ Ahead[p] \in Int /\ Ahead[q] \in Int /\ m.at \in Int /\ m.took \in 0 .. MaxDelay
      /\ m.then = m.at + Ahead[q] /\ v1 - m.at \in 0 .. MaxDelay /\ MaxDelay \in Nat
  BY <1>1, ClocksAssumption DEF Pings, OnTheWay
<1>4. Clk!Offset(p, m) = 2 * (v1 + Ahead[p] - m.then) - (m.took + v1 - m.at)
  <2>1. PICK y : y = Clk!Latency(p, m)
    OBVIOUS
  <2>2. Clk!Offset(p, m) = 2 * (v1 + Ahead[p] - m.then) - y
    BY <1>1, <1>3, <2>1 DEF Clk!Offset, Clk!Now
  <2>3. y = m.took + v1 - m.at
    BY <1>2, <2>1
  <2> QED BY <2>2, <2>3
<1>5. Clk!Offset(p, m) - 2 * (Ahead[p] - Ahead[q]) = (v1 - m.at) - m.took
  BY <1>1, <1>3, <1>4
<1>6. Clk!Offset(p, m) \in Int
  BY <1>1, <1>3, <1>4
<1> QED BY <1>3, <1>5, <1>6 DEF Close

\* What an estimate changes of a sync clock, and by how much.
LEMMA EstimatedIs ==
    ASSUME NEW d, d \in SyncClocks, NEW lat, lat \in Int, NEW off, off \in Int,
           NEW c, c \in Clk!Estimates(d, lat, off)
    PROVE  /\ c \in SyncClocks /\ c.sent = d.sent /\ c.sentAt = d.sentAt
           /\ \/ c.offset = off
              \/ ~d.new /\ off <= c.offset /\ c.offset <= d.offset
<1>1. /\ d.sent \in Nat /\ d.sentAt \in Int /\ d.rcvd \in Int /\ d.rcvdAt \in Int
      /\ d.new \in BOOLEAN /\ d.latency \in Int /\ d.offset \in Int
      /\ d = [sent |-> d.sent, sentAt |-> d.sentAt, rcvd |-> d.rcvd, rcvdAt |-> d.rcvdAt,
              new |-> d.new, latency |-> d.latency, offset |-> d.offset]
  BY ClockIs
<1>2. CASE d.new
  <2>1. c = [d EXCEPT !.new = FALSE, !.latency = lat, !.offset = off]
    BY <1>2 DEF Clk!Estimates
  <2>2. PICK x : x = [d EXCEPT !.new = FALSE]
    OBVIOUS
  <2>3. x = [sent |-> d.sent, sentAt |-> d.sentAt, rcvd |-> d.rcvd, rcvdAt |-> d.rcvdAt,
             new |-> FALSE, latency |-> d.latency, offset |-> d.offset]
    BY <1>1, <2>2
  <2>4. PICK y : y = [x EXCEPT !.latency = lat]
    OBVIOUS
  <2>5. y = [sent |-> d.sent, sentAt |-> d.sentAt, rcvd |-> d.rcvd, rcvdAt |-> d.rcvdAt,
             new |-> FALSE, latency |-> lat, offset |-> d.offset]
    BY <2>3, <2>4
  <2>6. c = [y EXCEPT !.offset = off]
    BY <2>1, <2>2, <2>4
  <2>7. c = [sent |-> d.sent, sentAt |-> d.sentAt, rcvd |-> d.rcvd, rcvdAt |-> d.rcvdAt,
             new |-> FALSE, latency |-> lat, offset |-> off]
    BY <2>5, <2>6
  <2> QED BY <1>1, <2>7 DEF SyncClocks
<1>3. CASE ~d.new /\ off > d.offset
  <2>1. c = [d EXCEPT !.offset = off]
    BY <1>1, <1>3 DEF Clk!Estimates
  <2>2. c = [sent |-> d.sent, sentAt |-> d.sentAt, rcvd |-> d.rcvd, rcvdAt |-> d.rcvdAt,
             new |-> d.new, latency |-> d.latency, offset |-> off]
    BY <1>1, <2>1
  <2> QED BY <1>1, <2>2 DEF SyncClocks
<1>4. CASE ~d.new /\ ~(off > d.offset)
  <2>1. PICK o \in Clk!Between(d.offset, off), l \in Clk!Between(d.latency, lat) :
          c = [d EXCEPT !.offset = o, !.latency = l]
    <3> DEFINE os == Clk!Between(d.offset, off)
               ls == Clk!Between(d.latency, lat)
    <3>1. c \in {[d EXCEPT !.offset = e[1], !.latency = e[2]] : e \in os \X ls}
      BY <1>1, <1>4 DEF Clk!Estimates
    <3> HIDE DEF os, ls
    <3>2. PICK e \in os \X ls : c = [d EXCEPT !.offset = e[1], !.latency = e[2]]
      BY <3>1
    <3>3. e[1] \in os /\ e[2] \in ls
      OBVIOUS
    <3> QED BY <3>2, <3>3 DEF os, ls
  <2>2. o \in Int /\ l \in Int /\ off <= o /\ o <= d.offset
    <3>1. off <= d.offset
      BY <1>1, <1>4
    <3> QED BY <1>1, <2>1, <3>1, Extremes DEF Clk!Between
  <2>3. PICK x : x = [d EXCEPT !.offset = o]
    OBVIOUS
  <2>4. x = [sent |-> d.sent, sentAt |-> d.sentAt, rcvd |-> d.rcvd, rcvdAt |-> d.rcvdAt,
             new |-> d.new, latency |-> d.latency, offset |-> o]
    BY <1>1, <2>3
  <2>5. c = [x EXCEPT !.latency = l]
    BY <2>1, <2>3
  <2>6. c = [sent |-> d.sent, sentAt |-> d.sentAt, rcvd |-> d.rcvd, rcvdAt |-> d.rcvdAt,
             new |-> d.new, latency |-> l, offset |-> o]
    BY <2>4, <2>5
  <2> QED BY <1>1, <1>4, <2>2, <2>6 DEF SyncClocks
<1>5. off > d.offset \/ ~(off > d.offset)
  OBVIOUS
<1> QED BY <1>1, <1>2, <1>3, <1>4, <1>5

LEMMA EstimateIs ==
    ASSUME ClocksInv, NEW m \in v4, Clk!Answers(m, v2[m.to]), NEW c, c \in Clk!Estimated(m.to, m)
    PROVE  /\ c \in SyncClocks /\ c.sent = v2[m.to].sent /\ c.sentAt = v2[m.to].sentAt
           /\ Close(m.to, c.offset)
<1>1. PICK p, d : p = m.to /\ d = v2[p]
  OBVIOUS
<1>2. p \in Peers /\ d \in SyncClocks /\ (~d.new => Close(p, d.offset))
  BY <1>1 DEF ClocksInv, Pings
<1>3. PICK x \in Int : x = Clk!Latency(p, m)
  <2>1. m.took \in Int /\ m.at \in Int /\ v1 \in Int
    BY DEF ClocksInv, Pings
  <2> QED BY <1>1, <2>1, RoundTook
<1>4. PICK lat \in Int : lat = Clk!Max({0, x})
  <2> DEFINE z == 0
  <2>1. z \in Int
    OBVIOUS
  <2> HIDE DEF z
  <2>2. Clk!Max({z, x}) = IF z <= x THEN x ELSE z
    BY <2>1, Extremes
  <2>3. Clk!Max({z, x}) \in Int
    BY <2>1, <2>2
  <2> QED BY <2>3 DEF z
<1>5. PICK off \in Int : off = Clk!Offset(p, m) /\ Close(p, off)
  BY <1>1, OffsetIsClose
<1>6. /\ c \in SyncClocks /\ c.sent = d.sent /\ c.sentAt = d.sentAt
      /\ c.offset = off \/ (~d.new /\ off <= c.offset /\ c.offset <= d.offset)
  <2>1. Clk!Estimated(p, m) = Clk!Estimates(v2[p], Clk!Max({0, Clk!Latency(p, m)}), Clk!Offset(p, m))
    BY DEF Clk!Estimated
  <2>2. c \in Clk!Estimates(d, lat, off)
    BY <1>1, <1>3, <1>4, <1>5, <2>1
  <2> QED BY <1>2, <2>2, EstimatedIs
<1>7. Close(p, c.offset)
  <2>1. Ahead[p] \in Int /\ Ahead[Clk!Other(p)] \in Int /\ MaxDelay \in Nat
    BY <1>2, TheOther, ClocksAssumption
  <2>2. c.offset \in Int /\ d.offset \in Int
    BY <1>2, <1>6, ClockIs
  <2> QED BY <1>2, <1>5, <1>6, <2>1, <2>2 DEF Close
<1> QED BY <1>1, <1>6, <1>7

LEMMA ReceiveKeeps ==
    ASSUME ClocksInv, NEW m \in v4, Clk!Receive(m)
    PROVE  ClocksInv'
<1> DEFINE p == m.to
           q == Clk!Other(p)
<1>1. PICK c \in IF Clk!Answers(m, v2[m.to]) THEN Clk!Estimated(m.to, m) ELSE {v2[m.to]} :
        v2' = [v2 EXCEPT ![p] = [c EXCEPT !.rcvd = m.id, !.rcvdAt = Clk!Now(p)]]
  BY DEF Clk!Receive
<1>2. /\ v5' = [v5 EXCEPT ![p] = v1 - m.at] /\ v1' = v1 /\ v3' = v3 /\ v4' = v4
  BY DEF Clk!Receive
<1>3. /\ c \in SyncClocks /\ c.sent = v2[p].sent /\ c.sentAt = v2[p].sentAt
      /\ ~c.new => Close(p, c.offset)
  <2>1. CASE Clk!Answers(m, v2[m.to])
    BY <1>1, <2>1, EstimateIs
  <2>2. CASE ~Clk!Answers(m, v2[m.to])
    BY <1>1, <2>2 DEF ClocksInv, Pings
  <2> QED BY <2>1, <2>2
<1>4. /\ p \in Peers /\ q \in Peers /\ p # q /\ OnTheWay(m, v1, v2) /\ m \in Pings
      /\ v1 \in Int /\ v2 \in [Peers -> SyncClocks] /\ v5 \in [Peers -> 0 .. MaxDelay]
      /\ Ahead[p] \in Int /\ Clk!Now(p) = v1 + Ahead[p]
  BY TheOther, ClocksAssumption DEF ClocksInv, Pings, Clk!Now
<1>5. PICK n \in SyncClocks : /\ n = [c EXCEPT !.rcvd = m.id, !.rcvdAt = Clk!Now(p)]
                              /\ n.sent = v2[p].sent /\ n.sentAt = v2[p].sentAt
                              /\ n.rcvd = m.id /\ n.rcvdAt = v1 + Ahead[p]
                              /\ n.new = c.new /\ n.offset = c.offset
  <2>1. m.id \in Int /\ v1 + Ahead[p] \in Int
    BY <1>4 DEF Pings
  <2>2. PICK now \in Int : now = Clk!Now(p) /\ now = v1 + Ahead[p]
    BY <1>4, <2>1
  <2>3. PICK n : n = Arrival(c, m.id, now)
    OBVIOUS
  <2>4. /\ n \in SyncClocks /\ n.sent = c.sent /\ n.sentAt = c.sentAt
        /\ n.rcvd = m.id /\ n.rcvdAt = now /\ n.new = c.new /\ n.offset = c.offset
    BY <1>3, <2>1, <2>2, <2>3, Arrived
  <2> QED BY <1>3, <2>2, <2>3, <2>4 DEF Arrival
<1>6. /\ v2' \in [Peers -> SyncClocks] /\ v2'[p] = n
      /\ \A x \in Peers : x # p => v2'[x] = v2[x]
  BY <1>1, <1>4, <1>5
<1>7. /\ v5' \in [Peers -> 0 .. MaxDelay] /\ v5'[p] = v1 - m.at
      /\ \A x \in Peers : x # p => v5'[x] = v5[x]
  <2>1. v1 - m.at \in 0 .. MaxDelay
    BY <1>4, ClocksAssumption DEF OnTheWay, Pings
  <2> HIDE DEF p
  <2> QED BY <1>2, <1>4, <2>1
<1>8. \A x \in Peers : v2'[x].sent = v2[x].sent /\ v2'[x].sentAt = v2[x].sentAt
  BY <1>5, <1>6
<1>9. \A x \in Peers : TrueSent(v2', x) = TrueSent(v2, x)
  BY <1>8 DEF TrueSent
<1>10. \A x \in v4' : OnTheWay(x, v1', v2')
  <2> SUFFICES ASSUME NEW x \in v4
               PROVE  OnTheWay(x, v1, v2')
    BY <1>2
  <2>1. OnTheWay(x, v1, v2) /\ x.to \in Peers /\ Clk!Other(x.to) \in Peers
    BY TheOther DEF ClocksInv, Pings
  <2> QED BY <1>8, <1>9, <2>1 DEF OnTheWay
<1>11. Heard(p, v2', v5')
  <2>1. m.id # 0 /\ m.id <= v2[q].sent /\ (m.id = v2[q].sent => m.at = TrueSent(v2, q)) /\ m.at \in Int
    BY <1>4 DEF OnTheWay, Pings
  <2>2. v2'[p].rcvdAt - Ahead[p] - v5'[p] = m.at
    BY <1>4, <1>5, <1>6, <1>7, <2>1
  <2> QED BY <1>4, <1>5, <1>6, <1>8, <1>9, <2>1, <2>2 DEF Heard
<1>12. Heard(q, v2', v5')
  <2>1. Heard(q, v2, v5) /\ Clk!Other(q) = p
    BY <1>4, TheOther DEF ClocksInv
  <2> HIDE DEF p, q
  <2> QED BY <1>4, <1>6, <1>7, <1>8, <1>9, <2>1 DEF Heard
<1>13. \A x \in Peers : Heard(x, v2', v5')
  BY <1>4, <1>11, <1>12, TheOther
<1>14. \A x \in Peers : ~v2'[x].new => Close(x, v2'[x].offset)
  BY <1>3, <1>5, <1>6 DEF ClocksInv
<1> QED BY <1>2, <1>6, <1>7, <1>10, <1>13, <1>14 DEF ClocksInv

LEMMA TickKeeps ==
    ASSUME ClocksInv, Clk!Tick
    PROVE  ClocksInv'
<1>1. PICK late \in SUBSET v4 : {m \in v4 : v1' - m.at > MaxDelay} \subseteq late /\ v4' = v4 \ late
  BY DEF Clk!Tick
<1>2. v1' = v1 + 1 /\ v2' = v2 /\ v3' = v3 /\ v5' = v5 /\ v1 \in Int /\ v4' \subseteq v4
  BY <1>1 DEF Clk!Tick, ClocksInv
<1>3. \A m \in v4' : OnTheWay(m, v1', v2')
  <2> SUFFICES ASSUME NEW m \in v4'
               PROVE  OnTheWay(m, v1', v2)
    BY <1>2
  <2>1. OnTheWay(m, v1, v2) /\ m.at \in Int /\ MaxDelay \in Nat
    BY <1>2, ClocksAssumption DEF ClocksInv, Pings
  <2>2. ~(v1' - m.at > MaxDelay)
    BY <1>1
  <2>3. m.at <= v1' /\ v1' - m.at <= MaxDelay
    BY <1>2, <2>1, <2>2 DEF OnTheWay
  <2> QED BY <2>1, <2>3 DEF OnTheWay
<1> QED BY <1>2, <1>3 DEF ClocksInv

LEMMA PingKeeps ==
    ASSUME ClocksInv, NEW p \in Peers, Clk!Ping(p)
    PROVE  ClocksInv'
<1> DEFINE q == Clk!Other(p)
           c == v2[p]
           elapsed == Clk!Now(p) - c.rcvdAt
           warn == elapsed > Timeout
           w == IF warn THEN [c EXCEPT !.rcvd = -1, !.rcvdAt = Clk!Now(p)] ELSE c
           n == [w EXCEPT !.sent = c.sent + 1, !.sentAt = Clk!Now(p)]
           m == [to |-> q, id |-> c.sent + 1, echo |-> w.rcvd, elapsed |-> elapsed,
                 then |-> Clk!Now(p), at |-> v1, took |-> v5[p]]
<1>1. /\ v1' = v1 /\ v5' = v5
      /\ \/ v2' = v2 /\ v4' = v4 /\ v3' = [v3 EXCEPT ![p] = FALSE]
         \/ v2' = [v2 EXCEPT ![p] = n] /\ v4' = v4 \cup {m} /\ v3' = v3
  BY DEF Clk!Ping, Clk!NoNumber
<1>2. CASE v2' = v2 /\ v4' = v4 /\ v3' = [v3 EXCEPT ![p] = FALSE]
  BY <1>1, <1>2 DEF ClocksInv
<1>3. CASE v2' = [v2 EXCEPT ![p] = n] /\ v4' = v4 \cup {m} /\ v3' = v3
  <2>1. /\ q \in Peers /\ q # p /\ Clk!Other(q) = p /\ c \in SyncClocks /\ v1 \in Int
        /\ v2 \in [Peers -> SyncClocks] /\ v5[p] \in 0 .. MaxDelay /\ MaxDelay \in Nat
        /\ Ahead[p] \in Int /\ Clk!Now(p) = v1 + Ahead[p]
    BY TheOther, ClocksAssumption DEF ClocksInv, Clk!Now
  <2>2. PICK now \in Int : now = Clk!Now(p) /\ now = v1 + Ahead[p]
    BY <2>1
  <2>3. c.sent \in Nat /\ c.rcvdAt \in Int /\ elapsed \in Int
    BY <2>1 DEF SyncClocks
  <2>4. /\ w \in SyncClocks /\ w.new = c.new /\ w.offset = c.offset
        /\ w.rcvd = -1 \/ (w.rcvd = c.rcvd /\ w.rcvdAt = c.rcvdAt)
    <3>1. CASE ~warn
      BY <2>1, <3>1
    <3>2. CASE warn
      <4>1. w = Arrival(c, -1, now)
        BY <2>2, <3>2 DEF Arrival
      <4>2. -1 \in Int /\ c \in SyncClocks
        BY <2>1
      <4> HIDE DEF w, c
      <4> QED BY <4>1, <4>2, <2>2, Arrived
    <3> QED BY <3>1, <3>2
  <2> HIDE DEF w
  <2>5. /\ n \in SyncClocks /\ n.new = c.new /\ n.offset = c.offset
        /\ n.sent = c.sent + 1 /\ n.sentAt = now /\ n.rcvd = w.rcvd /\ n.rcvdAt = w.rcvdAt
    <3>1. n = [w EXCEPT !.sent = c.sent + 1, !.sentAt = now] /\ c.sent + 1 \in Nat
      BY <2>2, <2>3
    <3>2. PICK i \in Nat : i = c.sent + 1
      BY <3>1
    <3> HIDE DEF c, n
    <3>3. n = Leave(w, i, now)
      BY <3>1, <3>2 DEF Leave
    <3>4. w \in SyncClocks /\ n = Leave(w, i, now) /\ i \in Nat /\ now \in Int
      BY <2>4, <3>3
    <3>5. /\ n \in SyncClocks /\ n.rcvd = w.rcvd /\ n.rcvdAt = w.rcvdAt
          /\ n.sent = i /\ n.sentAt = now /\ n.new = w.new /\ n.offset = w.offset
      BY ONLY <3>4, HasLeft
    <3> QED BY <2>4, <3>2, <3>5
  <2> HIDE DEF n
  <2>6. /\ v2' \in [Peers -> SyncClocks] /\ v2'[p] = n
        /\ \A x \in Peers : x # p => v2'[x] = v2[x]
    BY <1>3, <2>1, <2>5
  <2>7. Heard(p, v2, v5) /\ Heard(q, v2, v5)
    BY <2>1 DEF ClocksInv
  <2>8. TrueSent(v2', q) = TrueSent(v2, q) /\ TrueSent(v2', p) = v1
    BY <2>1, <2>2, <2>5, <2>6 DEF TrueSent
  <2>9. /\ w.rcvd # 0 /\ w.rcvd <= v2[q].sent
        /\ w.rcvd = v2[q].sent => TrueSent(v2, q) = c.rcvdAt - Ahead[p] - v5[p] /\ w.rcvdAt = c.rcvdAt
    <3>1. v2[q].sent \in Nat
      BY <2>1 DEF SyncClocks
    <3> QED BY <2>4, <2>7, <3>1 DEF Heard
  <2>10. m \in Pings
    BY <2>1, <2>2, <2>3, <2>4 DEF Pings, SyncClocks
  <2>11. OnTheWay(m, v1, v2')
    <3>1. /\ m.to = q /\ m.id = c.sent + 1 /\ m.echo = w.rcvd /\ m.elapsed = elapsed
          /\ m.then = now /\ m.at = v1 /\ m.took = v5[p]
      BY <2>2
    <3>2. v1 - elapsed - v5[p] = c.rcvdAt - Ahead[p] - v5[p]
      BY <2>1, <2>3
    <3> HIDE DEF m, elapsed
    <3>3. m.at <= v1 /\ v1 - m.at <= MaxDelay /\ m.then = m.at + Ahead[p] /\ m.took \in 0 .. MaxDelay
      BY <2>1, <2>2, <3>1
    <3>4. m.id > 0 /\ m.id <= v2'[p].sent /\ (m.id = v2'[p].sent => m.at = TrueSent(v2', p))
      BY <2>3, <2>5, <2>6, <2>8, <3>1
    <3>5. m.echo # 0 /\ m.echo <= v2'[q].sent
          /\ (m.echo = v2'[q].sent => TrueSent(v2', q) = m.at - m.elapsed - m.took)
      BY <2>1, <2>6, <2>8, <2>9, <3>1, <3>2
    <3> QED BY <2>1, <3>1, <3>3, <3>4, <3>5 DEF OnTheWay
  <2>12. ASSUME NEW x \in v4
         PROVE  OnTheWay(x, v1, v2')
    <3>1. OnTheWay(x, v1, v2) /\ x.to \in Peers /\ x.id \in Int /\ x.echo \in Int
      BY DEF ClocksInv, Pings
    <3>2. CASE x.to = p
      <4>1. x.echo <= c.sent /\ x.echo # n.sent /\ x.echo <= n.sent
        BY <2>3, <2>5, <3>1, <3>2 DEF OnTheWay
      <4> HIDE DEF q, c
      <4> QED BY <2>1, <2>6, <2>8, <3>1, <3>2, <4>1 DEF OnTheWay, q
    <3>3. CASE x.to = q
      <4>1. x.id <= c.sent /\ x.id # n.sent /\ x.id <= n.sent
        BY <2>1, <2>3, <2>5, <3>1, <3>3 DEF OnTheWay
      <4> QED BY <2>1, <2>6, <2>8, <3>1, <3>3, <4>1 DEF OnTheWay
    <3> QED BY <2>1, <3>1, <3>2, <3>3, TheOther
  <2>13. Heard(p, v2', v5)
    BY <2>1, <2>4, <2>5, <2>6, <2>7, <2>8, <2>9 DEF Heard
  <2>14. Heard(q, v2', v5)
    <3>1. v2[q].rcvd <= c.sent /\ v2[q].rcvd # 0 /\ v2[q].rcvd \in Int
      BY <2>1, <2>7 DEF Heard, SyncClocks
    <3>2. v2[q].rcvd # n.sent /\ v2[q].rcvd <= n.sent
      BY <2>3, <2>5, <3>1
    <3> QED BY <2>1, <2>6, <3>1, <3>2 DEF Heard
  <2>15. \A x \in Peers : Heard(x, v2', v5')
    BY <1>1, <2>13, <2>14, TheOther
  <2>16. \A x \in Peers : ~v2'[x].new => Close(x, v2'[x].offset)
    BY <2>5, <2>6 DEF ClocksInv
  <2>17. v4' \subseteq Pings /\ \A x \in v4' : OnTheWay(x, v1', v2')
    <3> HIDE DEF m
    <3> QED BY <1>1, <1>3, <2>10, <2>11, <2>12 DEF ClocksInv
  <2> QED BY <1>1, <1>3, <2>6, <2>15, <2>16, <2>17 DEF ClocksInv
<1> QED BY <1>1, <1>2, <1>3

LEMMA ClocksStep ==
    ASSUME ClocksInv, Clk!Next
    PROVE  ClocksInv'
  BY TickKeeps, PingKeeps, ReceiveKeeps DEF Clk!Next

LEMMA SyncRight ==
    ASSUME ClocksInv
    PROVE  Clk!LatencyRight /\ Clk!OffsetClose
<1>1. Clk!LatencyRight
  BY RoundTook DEF Clk!LatencyRight
<1>2. Clk!OffsetClose
  BY DEF Clk!OffsetClose, ClocksInv, Close
<1> QED BY <1>1, <1>2

-----------------------------------------------------------------------------
(* The records of the graph. r is the whole of them, as in Records.        *)

\* The records of the graph. r is the whole of them, as in Records.

\* The sizes of sets in Records are those of the library.
LEMMA RecSizes == \A S : Rec!Cardinality(S) = Cardinality(S)
  BY DEF Rec!Cardinality, Cardinality

Fields == {"devs", "sigs", "links", "maps", "slots", "count"}
Shape(r) == DOMAIN r = Fields /\ r = [f \in Fields |-> r[f]]
Whole(r) ==
    /\ Shape(r)
    /\ IsFiniteSet(DOMAIN r.maps) /\ DOMAIN r.maps \subseteq Maps
    /\ r.maps \in [DOMAIN r.maps -> [routed : BOOLEAN, ready : BOOLEAN]]
    /\ r.count \in [r.links -> Nat]
    /\ Here \in r.devs

\* Every record has the records that it points to.
Pointed(r) ==
    /\ \A s \in r.sigs : DevOf[s] \in r.devs
    /\ \A l \in r.links : l \subseteq r.devs
    /\ \A m \in DOMAIN r.maps : Rec!Ends(m) \subseteq r.sigs /\ Rec!SlotLinks(r, m) \subseteq r.links

\* A map is ready in the router, and at once if all its signals are here.
Staged(r) ==
    \A m \in DOMAIN r.maps : /\ r.maps[m].ready => r.maps[m].routed
                             /\ r.maps[m].routed /\ Rec!LocalOnly(m) => r.maps[m].ready

\* The ready maps from this device to itself, over its link to itself.
Selves(r) == {m \in DOMAIN r.maps : r.maps[m].ready /\ Rec!LocalOnly(m)}
Paid(r) ==
    /\ \A m \in DOMAIN r.maps : r.maps[m].ready =>
         \A l \in Rec!SlotLinks(r, m) \ {{Here}} : r.count[l] > 0
    /\ {Here} \in r.links => Cardinality(Selves(r)) <= r.count[{Here}]

\* A slot of the router is one of an end of its map.
Placed(r) == \A s, m : <<s, m>> \in r.slots => s \in Rec!Ends(m)

RecInv(r) == Whole(r) /\ Pointed(r) /\ Staged(r) /\ Paid(r) /\ Placed(r)

\* The slots of the router are those of the maps in the graph.
Live(r) ==
    r.slots = {x \in Sigs \X DOMAIN r.maps :
                 Rec!Local(x[1]) /\ x[1] \in Rec!Ends(x[2]) /\ r.maps[x[2]].routed}

-----------------------------------------------------------------------------
\* Which maps share the link of a device to itself.
LEMMA SelfLink ==
    ASSUME NEW r, NEW m
    PROVE  {Here} \in Rec!SlotLinks(r, m) <=> r.maps[m].routed /\ Rec!LocalOnly(m)
  BY DEF Rec!SlotLinks, Rec!LocalOnly, Rec!Local

LEMMA SelvesOver ==
    ASSUME NEW r, RecInv(r)
    PROVE  /\ Selves(r) = Rec!Over(r, {Here})
           /\ IsFiniteSet(Selves(r)) /\ Cardinality(Selves(r)) \in Nat
<1>1. Selves(r) = Rec!Over(r, {Here})
  BY SelfLink DEF Selves, Rec!Over, RecInv, Staged
<1>2. IsFiniteSet(Selves(r))
  BY FS_Subset DEF Selves, RecInv, Whole
<1> QED BY <1>1, <1>2, FS_CardinalityType

\* Maps that use a link to another device and are known.
LEMMA OverLink ==
    ASSUME NEW r, RecInv(r), NEW l
    PROVE  /\ IsFiniteSet(Rec!Over(r, l)) /\ Cardinality(Rec!Over(r, l)) \in Nat
           /\ Rec!Over(r, l) \subseteq DOMAIN r.maps
<1>1. Rec!Over(r, l) \subseteq DOMAIN r.maps
  BY DEF Rec!Over
<1>2. IsFiniteSet(Rec!Over(r, l))
  BY <1>1, FS_Subset DEF RecInv, Whole
<1> QED BY <1>1, <1>2, FS_CardinalityType

LEMMA AddSigsKeeps ==
    ASSUME NEW r, RecInv(r), NEW S
    PROVE  /\ RecInv(Rec!AddSigs(r, S))
           /\ Rec!AddSigs(r, S).maps = r.maps /\ Rec!AddSigs(r, S).links = r.links
           /\ Rec!AddSigs(r, S).slots = r.slots
           /\ Rec!AddSigs(r, S).sigs = r.sigs \cup S
           /\ Rec!AddSigs(r, S).devs = r.devs \cup {DevOf[s] : s \in S}
<1> DEFINE n == Rec!AddSigs(r, S)
<1>1. /\ n.sigs = r.sigs \cup S /\ n.devs = r.devs \cup {DevOf[s] : s \in S}
      /\ n.links = r.links /\ n.maps = r.maps /\ n.slots = r.slots /\ n.count = r.count
      /\ Shape(n)
  BY DEF Rec!AddSigs, RecInv, Whole, Shape, Fields
<1> HIDE DEF n
<1>2. \A m : Rec!SlotLinks(n, m) = Rec!SlotLinks(r, m)
  BY <1>1 DEF Rec!SlotLinks
<1>3. Selves(n) = Selves(r)
  BY <1>1 DEF Selves
<1>4. Whole(n) /\ Pointed(n)
  BY <1>1, <1>2 DEF RecInv, Whole, Pointed
<1>5. Staged(n) /\ Paid(n)
  BY <1>1, <1>2, <1>3 DEF RecInv, Staged, Paid
<1> QED BY <1>1, <1>4, <1>5 DEF RecInv, Placed, n

LEMMA AddLinksKeeps ==
    ASSUME NEW r, RecInv(r), NEW L, \A l \in L : l \subseteq r.devs
    PROVE  LET n == Rec!AddLinks(r, L)
           IN  /\ RecInv(n)
               /\ n.devs = r.devs /\ n.sigs = r.sigs /\ n.maps = r.maps /\ n.slots = r.slots
               /\ n.links = r.links \cup L
<1> DEFINE n == Rec!AddLinks(r, L)
<1>1. /\ n.devs = r.devs /\ n.sigs = r.sigs /\ n.maps = r.maps /\ n.slots = r.slots
      /\ n.links = r.links \cup L
      /\ n.count = [l \in r.links \cup L |-> IF l \in r.links THEN r.count[l] ELSE 0]
      /\ Shape(n)
  BY DEF Rec!AddLinks, RecInv, Whole, Shape, Fields
<1> HIDE DEF n
<1>2. \A m : Rec!SlotLinks(n, m) = Rec!SlotLinks(r, m)
  BY <1>1 DEF Rec!SlotLinks
<1>3. Selves(n) = Selves(r)
  BY <1>1 DEF Selves
<1>4. Whole(n) /\ Pointed(n)
  BY <1>1, <1>2 DEF RecInv, Whole, Pointed
<1>5. Staged(n)
  BY <1>1 DEF RecInv, Staged
<1>6. \A m \in DOMAIN n.maps : n.maps[m].ready =>
        \A l \in Rec!SlotLinks(n, m) \ {{Here}} : n.count[l] > 0
  BY <1>1, <1>2 DEF RecInv, Pointed, Paid
<1>7. ASSUME {Here} \in n.links
      PROVE  Cardinality(Selves(n)) <= n.count[{Here}]
  <2>1. CASE {Here} \in r.links
    BY <1>1, <1>3, <2>1 DEF RecInv, Paid
  <2>2. CASE {Here} \notin r.links
    <3>1. Selves(r) = {}
      BY <2>2, SelfLink DEF Selves, RecInv, Pointed, Staged
    <3> QED BY <1>1, <1>3, <1>7, <2>2, <3>1, FS_EmptySet
  <2> QED BY <2>1, <2>2
<1> QED BY <1>1, <1>4, <1>5, <1>6, <1>7 DEF RecInv, Paid, Placed, n

LEMMA AddMapKeeps ==
    ASSUME NEW r, RecInv(r), NEW m \in Maps, m \notin DOMAIN r.maps
    PROVE  LET n == Rec!AddMap(r, m)
           IN  /\ RecInv(n)
               /\ DOMAIN n.maps = DOMAIN r.maps \cup {m}
               /\ \A x \in DOMAIN r.maps : n.maps[x] = r.maps[x]
               /\ n.maps[m] = [routed |-> FALSE, ready |-> FALSE]
               /\ n.slots = r.slots
<1> DEFINE a == Rec!AddSigs(r, Rec!Ends(m))
           L == {{DevOf[s], DevOf[m.dst]} : s \in m.src}
           b == Rec!AddLinks(a, L)
           n == Rec!AddMap(r, m)
<1>1. /\ RecInv(a) /\ a.maps = r.maps /\ a.slots = r.slots
      /\ a.sigs = r.sigs \cup Rec!Ends(m) /\ \A s \in Rec!Ends(m) : DevOf[s] \in a.devs
  BY AddSigsKeeps
<1>2. \A l \in L : l \subseteq a.devs
  BY <1>1 DEF Rec!Ends
<1>3. /\ RecInv(b) /\ b.maps = r.maps /\ b.slots = r.slots /\ Rec!Ends(m) \subseteq b.sigs
  <2> HIDE DEF a, L
  <2> QED BY <1>1, <1>2, AddLinksKeeps
<1>4. /\ n.devs = b.devs /\ n.sigs = b.sigs /\ n.links = b.links /\ n.count = b.count
      /\ n.slots = b.slots /\ Shape(n)
      /\ n.maps = [x \in DOMAIN b.maps \cup {m} |->
                     IF x = m THEN [routed |-> FALSE, ready |-> FALSE] ELSE b.maps[x]]
  <2>1. n = [b EXCEPT !.maps = [x \in DOMAIN b.maps \cup {m} |->
                     IF x = m THEN [routed |-> FALSE, ready |-> FALSE] ELSE b.maps[x]]]
    BY DEF Rec!AddMap
  <2> HIDE DEF n, b
  <2> QED BY <1>3, <2>1 DEF RecInv, Whole, Shape, Fields
<1> HIDE DEF n, b, a, L
<1>5. /\ \A x \in DOMAIN r.maps : Rec!SlotLinks(n, x) = Rec!SlotLinks(b, x)
      /\ Rec!SlotLinks(n, m) = {}
  BY <1>3, <1>4 DEF Rec!SlotLinks
<1>6. Selves(n) = Selves(b)
  BY <1>3, <1>4 DEF Selves
<1>7. IsFiniteSet(DOMAIN n.maps)
  BY <1>3, <1>4, FS_AddElement DEF RecInv, Whole
<1>8. Whole(n) /\ Pointed(n)
  BY <1>3, <1>4, <1>5, <1>7 DEF RecInv, Whole, Pointed
<1>9. Staged(n) /\ Paid(n)
  BY <1>3, <1>4, <1>5, <1>6 DEF RecInv, Staged, Paid
<1> QED BY <1>3, <1>4, <1>8, <1>9 DEF RecInv, Placed, n

-----------------------------------------------------------------------------
\* A map becomes ready: each link of its slots has one map more.
LEMMA ReadyKeeps ==
    ASSUME NEW r, RecInv(r), NEW m \in DOMAIN r.maps, r.maps[m].routed, ~r.maps[m].ready
    PROVE  LET n == Rec!Ready(r, m)
           IN  RecInv(n) /\ (Live(r) => Live(n))
<1> DEFINE n == Rec!Ready(r, m)
<1>1. /\ n.devs = r.devs /\ n.sigs = r.sigs /\ n.links = r.links /\ n.slots = r.slots
      /\ Shape(n)
  BY DEF Rec!Ready, RecInv, Whole, Shape, Fields
<1>a. n.maps = [r.maps EXCEPT ![m].ready = TRUE]
  BY DEF Rec!Ready, RecInv, Whole, Shape, Fields
<1>b. n.count = [l \in r.links |-> IF l \in Rec!SlotLinks(r, m) THEN r.count[l] + 1 ELSE r.count[l]]
  BY DEF Rec!Ready, RecInv, Whole, Shape, Fields
<1> HIDE DEF n
<1>2. ~Rec!LocalOnly(m)
  BY DEF RecInv, Staged
<1>3. /\ DOMAIN n.maps = DOMAIN r.maps
      /\ \A x \in DOMAIN r.maps : n.maps[x].routed = r.maps[x].routed
      /\ \A x \in DOMAIN r.maps : x # m => n.maps[x] = r.maps[x]
      /\ n.maps \in [DOMAIN n.maps -> [routed : BOOLEAN, ready : BOOLEAN]]
      /\ n.maps[m].ready
  BY <1>a DEF RecInv, Whole
<1>4. \A x \in DOMAIN r.maps : Rec!SlotLinks(n, x) = Rec!SlotLinks(r, x)
  BY <1>3 DEF Rec!SlotLinks
<1>5. Selves(n) = Selves(r)
  BY <1>2, <1>3 DEF Selves
<1>6. Whole(n) /\ Pointed(n)
  BY <1>1, <1>b, <1>3, <1>4 DEF RecInv, Whole, Pointed
<1>7. Staged(n)
  BY <1>2, <1>3 DEF RecInv, Staged
<1>8. \A x \in DOMAIN n.maps : n.maps[x].ready =>
        \A l \in Rec!SlotLinks(n, x) \ {{Here}} : n.count[l] > 0
  <2> SUFFICES ASSUME NEW x \in DOMAIN n.maps, n.maps[x].ready,
                      NEW l \in Rec!SlotLinks(n, x) \ {{Here}}
               PROVE  n.count[l] > 0
    OBVIOUS
  <2>1. l \in r.links /\ r.count[l] \in Int /\ l \in Rec!SlotLinks(r, x)
    BY <1>3, <1>4 DEF RecInv, Pointed, Whole
  <2> QED
    <3>1. CASE x # m
      BY <1>1, <1>b, <1>3, <2>1, <3>1 DEF RecInv, Paid, Whole
    <3>2. CASE x = m
      BY <1>1, <1>b, <2>1, <3>2 DEF RecInv, Whole
    <3> QED BY <3>1, <3>2
<1>9. {Here} \in n.links => Cardinality(Selves(n)) <= n.count[{Here}]
  BY <1>1, <1>b, <1>2, <1>5, SelfLink DEF RecInv, Paid
<1>10. Live(r) => Live(n)
  BY <1>1, <1>3 DEF Live
<1> QED BY <1>1, <1>6, <1>7, <1>8, <1>9, <1>10 DEF RecInv, Paid, Placed, n

\* handler_map: the map is put into the router, and is ready if all is known of it.
Established(r, m) == LET n == Rec!Route(r, m) IN IF Rec!LocalOnly(m) THEN Rec!Ready(n, m) ELSE n

LEMMA EstablishKeeps ==
    ASSUME NEW r, RecInv(r), NEW m \in DOMAIN r.maps, ~r.maps[m].routed
    PROVE  LET n == Established(r, m)
           IN  RecInv(n) /\ (Live(r) => Live(n))
<1> DEFINE a == [[r EXCEPT !.maps[m].routed = TRUE] EXCEPT !.slots = Rec!Stored(r, m)]
           L == Rec!SlotLinks(a, m)
           b == Rec!AddLinks(a, L)
           n == Established(r, m)
<1>1. /\ a.devs = r.devs /\ a.sigs = r.sigs /\ a.links = r.links /\ a.count = r.count
      /\ a.slots = Rec!Stored(r, m) /\ Shape(a)
      /\ a.maps = [r.maps EXCEPT ![m].routed = TRUE]
  BY DEF RecInv, Whole, Shape, Fields
<1>2. Rec!Route(r, m) = b
  BY DEF Rec!Route
<1>3. n = IF Rec!LocalOnly(m) THEN Rec!Ready(b, m) ELSE b
  BY <1>2 DEF Established
<1> HIDE DEF a
<1>4. /\ b.devs = r.devs /\ b.sigs = r.sigs /\ b.maps = a.maps /\ b.slots = Rec!Stored(r, m)
      /\ b.links = r.links \cup L
      /\ b.count = [l \in r.links \cup L |-> IF l \in r.links THEN r.count[l] ELSE 0]
      /\ Shape(b)
  BY <1>1 DEF Rec!AddLinks, RecInv, Whole, Shape, Fields
<1> HIDE DEF b, n
<1>5. /\ n.devs = r.devs /\ n.sigs = r.sigs /\ n.links = r.links \cup L /\ n.slots = Rec!Stored(r, m)
      /\ Shape(n)
      /\ DOMAIN n.maps = DOMAIN r.maps
      /\ n.maps[m].routed /\ (n.maps[m].ready <=> Rec!LocalOnly(m))
      /\ \A x \in DOMAIN r.maps : x # m => n.maps[x] = r.maps[x]
      /\ n.maps \in [DOMAIN n.maps -> [routed : BOOLEAN, ready : BOOLEAN]]
  <2>0. r.maps[m] \in [routed : BOOLEAN, ready : BOOLEAN] /\ ~r.maps[m].ready
    BY DEF RecInv, Whole, Staged
  <2>a. a.maps = [r.maps EXCEPT ![m].routed = TRUE]
    BY <1>1
  <2>1. /\ DOMAIN a.maps = DOMAIN r.maps
        /\ a.maps[m].routed /\ ~a.maps[m].ready
        /\ \A x \in DOMAIN r.maps : x # m => a.maps[x] = r.maps[x]
        /\ a.maps \in [DOMAIN r.maps -> [routed : BOOLEAN, ready : BOOLEAN]]
    BY <2>a, <2>0 DEF RecInv, Whole
  <2>2. CASE ~Rec!LocalOnly(m)
    <3>1. n = b
      BY <1>3, <2>2
    <3> HIDE DEF L
    <3> QED BY <1>4, <2>1, <2>2, <3>1
  <2>3. CASE Rec!LocalOnly(m)
    <3>1. /\ n.devs = b.devs /\ n.sigs = b.sigs /\ n.links = b.links /\ n.slots = b.slots
          /\ n.maps = [b.maps EXCEPT ![m].ready = TRUE] /\ Shape(n)
      <4>1. n = Rec!Ready(b, m) /\ Shape(b)
        BY <1>3, <1>4, <2>3
      <4> QED BY <4>1 DEF Rec!Ready, Shape, Fields
    <3>2. n.maps = [a.maps EXCEPT ![m].ready = TRUE]
      BY <1>4, <3>1
    <3>3. /\ DOMAIN n.maps = DOMAIN r.maps
          /\ n.maps[m].routed /\ n.maps[m].ready
          /\ \A x \in DOMAIN r.maps : x # m => n.maps[x] = r.maps[x]
          /\ n.maps \in [DOMAIN n.maps -> [routed : BOOLEAN, ready : BOOLEAN]]
      <4> DEFINE f == a.maps
                 g == n.maps
                 D == DOMAIN r.maps
      <4>1. /\ m \in D /\ f[m].routed /\ g = [f EXCEPT ![m].ready = TRUE]
            /\ f \in [D -> [routed : BOOLEAN, ready : BOOLEAN]]
        BY <2>1, <3>2
      <4>2. \A x \in D : x # m => f[x] = r.maps[x]
        BY <2>1
      <4> HIDE DEF f, g, D
      <4>3. /\ DOMAIN g = D /\ g[m].routed /\ g[m].ready
            /\ \A x \in D : x # m => g[x] = f[x]
            /\ g \in [D -> [routed : BOOLEAN, ready : BOOLEAN]]
        <5> DEFINE w == [f[m] EXCEPT !.ready = TRUE]
        <5>1. g = [x \in D |-> IF x = m THEN w ELSE f[x]]
          BY <4>1
        <5>2. w \in [routed : BOOLEAN, ready : BOOLEAN] /\ w.routed /\ w.ready
          BY <4>1
        <5> HIDE DEF w
        <5> QED BY <4>1, <5>1, <5>2
      <4>4. /\ \A x \in D : x # m => g[x] = r.maps[x]
            /\ g \in [DOMAIN g -> [routed : BOOLEAN, ready : BOOLEAN]]
        BY <4>2, <4>3
      <4> QED BY <4>3, <4>4 DEF g, D
    <3> QED BY <1>4, <2>3, <3>1, <3>3
  <2> QED BY <2>2, <2>3
<1>6. /\ n.count \in [n.links -> Nat]
      /\ \A l \in r.links : n.count[l] >= r.count[l]
      /\ Rec!LocalOnly(m) => n.count[{Here}] = (IF {Here} \in r.links THEN r.count[{Here}] ELSE 0) + 1
  <2>1. b.count \in [b.links -> Nat]
    BY <1>4 DEF RecInv, Whole
  <2>2. CASE ~Rec!LocalOnly(m)
    <3>1. n = b
      BY <1>3, <2>2
    <3> HIDE DEF L
    <3>2. \A l \in r.links : b.count[l] = r.count[l] /\ r.count[l] \in Nat
      BY <1>4 DEF RecInv, Whole
    <3> QED BY <2>1, <2>2, <3>1, <3>2
  <2>3. CASE Rec!LocalOnly(m)
    <3>1. n.count = [l \in b.links |-> IF l \in Rec!SlotLinks(b, m) THEN b.count[l] + 1 ELSE b.count[l]]
      <4>1. n = Rec!Ready(b, m) /\ Shape(b) /\ DOMAIN b.count = b.links
        BY <1>3, <1>4, <2>3
      <4> QED BY <4>1 DEF Rec!Ready, Shape, Fields
    <3>2. {Here} \in Rec!SlotLinks(b, m) /\ {Here} \in L
      <4>1. a.maps[m].routed
        BY <1>1 DEF RecInv, Whole
      <4> QED BY <1>4, <2>3, <4>1, SelfLink
    <3> QED BY <1>4, <1>5, <2>1, <3>1, <3>2 DEF RecInv, Whole
  <2> QED BY <2>2, <2>3
<1>7. /\ \A x \in DOMAIN r.maps : x # m => Rec!SlotLinks(n, x) = Rec!SlotLinks(r, x)
      /\ Rec!SlotLinks(n, m) = L
  <2>1. a.maps[m].routed
    BY <1>1 DEF RecInv, Whole
  <2> QED BY <1>5, <2>1 DEF Rec!SlotLinks
<1>8. \A l \in L : l \subseteq r.devs
  <2>1. Rec!Ends(m) \subseteq r.sigs /\ Here \in r.devs /\ \A s \in r.sigs : DevOf[s] \in r.devs
    BY DEF RecInv, Pointed, Whole
  <2>2. \A l \in L : l = {Here} \/ \E s \in Rec!Ends(m) : l = {Here, DevOf[s]}
    BY DEF Rec!SlotLinks
  <2> HIDE DEF L
  <2> QED BY <2>1, <2>2
<1>9. Whole(n) /\ Pointed(n)
  BY <1>5, <1>6, <1>7, <1>8 DEF RecInv, Whole, Pointed
<1>10. Staged(n)
  BY <1>5 DEF RecInv, Staged
<1>11. \A x \in DOMAIN n.maps : n.maps[x].ready =>
        \A l \in Rec!SlotLinks(n, x) \ {{Here}} : n.count[l] > 0
  <2> SUFFICES ASSUME NEW x \in DOMAIN n.maps, n.maps[x].ready,
                      NEW l \in Rec!SlotLinks(n, x) \ {{Here}}
               PROVE  n.count[l] > 0
    OBVIOUS
  <2>1. x # m
    <3> SUFFICES ASSUME x = m PROVE FALSE
      OBVIOUS
    <3>1. Rec!LocalOnly(m)
      BY <1>5
    <3> QED BY <1>7, <3>1 DEF Rec!SlotLinks
  <2>2. l \in Rec!SlotLinks(r, x) /\ l \in r.links /\ r.count[l] \in Nat /\ r.count[l] > 0
    BY <1>5, <1>7, <2>1 DEF RecInv, Pointed, Whole, Paid
  <2>3. n.count[l] \in Nat
    BY <1>5, <1>6, <2>2
  <2> QED BY <1>6, <2>2, <2>3
<1>12. ASSUME {Here} \in n.links
       PROVE  Cardinality(Selves(n)) <= n.count[{Here}]
  <2>1. Selves(n) = IF Rec!LocalOnly(m) THEN Selves(r) \cup {m} ELSE Selves(r)
    <3>1. m \notin Selves(r)
      BY DEF Selves, RecInv, Staged
    <3> QED BY <1>5, <3>1 DEF Selves
  <2>2. IsFiniteSet(Selves(r)) /\ Cardinality(Selves(r)) \in Nat
    BY SelvesOver
  <2>3. Cardinality(Selves(r)) <= IF {Here} \in r.links THEN r.count[{Here}] ELSE 0
    <3>1. CASE {Here} \in r.links
      BY <3>1 DEF RecInv, Paid
    <3>2. CASE {Here} \notin r.links
      <4>1. Selves(r) = {}
        BY <3>2, SelfLink DEF Selves, RecInv, Pointed, Staged
      <4> QED BY <3>2, <4>1, FS_EmptySet
    <3> QED BY <3>1, <3>2
  <2>4. CASE Rec!LocalOnly(m)
    <3>0. Selves(n) = Selves(r) \cup {m}
      BY <2>1, <2>4
    <3>1. Cardinality(Selves(n)) <= Cardinality(Selves(r)) + 1
      <4>1. Cardinality(Selves(r) \cup {m}) = Cardinality(Selves(r)) \/ Cardinality(Selves(r) \cup {m}) = Cardinality(Selves(r)) + 1
        BY <2>2, FS_AddElement
      <4> HIDE DEF Selves
      <4> QED BY <2>2, <3>0, <4>1
    <3>2. Cardinality(Selves(n)) \in Nat
      BY <2>2, <3>0, FS_AddElement, FS_CardinalityType
    <3>3. {Here} \in r.links => r.count[{Here}] \in Nat
      BY DEF RecInv, Whole
    <3> QED BY <1>6, <2>2, <2>3, <2>4, <3>1, <3>2, <3>3
  <2>5. CASE ~Rec!LocalOnly(m)
    <3>1. {Here} \in r.links
      <4>1. {Here} \notin L
        BY <1>7, <2>5, SelfLink
      <4> QED BY <1>5, <1>12, <4>1
    <3>2. n.count[{Here}] >= r.count[{Here}] /\ n.count[{Here}] \in Nat /\ r.count[{Here}] \in Nat
      BY <1>5, <1>6, <3>1 DEF RecInv, Whole
    <3> QED BY <2>1, <2>2, <2>3, <2>5, <3>1, <3>2
  <2> QED BY <2>4, <2>5
<1>13. Live(r) => Live(n)
  <2>1. Rec!Ends(m) \subseteq Sigs
    BY MapsAssumption DEF RecInv, Whole, Rec!Ends
  <2> QED BY <1>5, <2>1 DEF Live, Rec!Stored
<1>14. Placed(n)
  BY <1>5 DEF RecInv, Placed, Rec!Stored
<1> QED BY <1>9, <1>10, <1>11, <1>12, <1>13, <1>14 DEF RecInv, Paid, n

-----------------------------------------------------------------------------
\* Records that go. The router gives up the maps S, the graph the maps T.
LEMMA UnrouteIs ==
    ASSUME NEW r, RecInv(r), NEW S
    PROVE  LET u == Rec!Unroute(r, S)
           IN  /\ Shape(u)
               /\ u.devs = r.devs /\ u.sigs = r.sigs /\ u.links = r.links /\ u.maps = r.maps
               /\ u.slots = {x \in r.slots : x[2] \notin S}
               /\ u.count = [l \in r.links |-> Rec!CountWithout(r, l, S \cap Rec!Over(r, l))]
  BY DEF Rec!Unroute, RecInv, Whole, Shape, Fields

LEMMA UnrouteNone ==
    ASSUME NEW r, RecInv(r)
    PROVE  Rec!Unroute(r, {}) = r
<1> DEFINE u == Rec!Unroute(r, {})
<1>1. /\ Shape(u)
      /\ u.devs = r.devs /\ u.sigs = r.sigs /\ u.links = r.links /\ u.maps = r.maps
      /\ u.slots = {x \in r.slots : x[2] \notin {}}
      /\ u.count = [l \in r.links |-> Rec!CountWithout(r, l, {} \cap Rec!Over(r, l))]
  BY UnrouteIs
<1> HIDE DEF u
<1>2. u.slots = r.slots
  BY <1>1
<1>3. \A l : Rec!CountWithout(r, l, {} \cap Rec!Over(r, l)) = r.count[l]
  BY DEF Rec!CountWithout
<1>4. u.count = r.count
  BY <1>1, <1>3 DEF RecInv, Whole
<1>5. \A f \in Fields : u[f] = r[f]
  BY <1>1, <1>2, <1>4 DEF Fields
<1>6. u = [f \in Fields |-> u[f]] /\ r = [f \in Fields |-> r[f]]
  BY <1>1 DEF Shape, RecInv, Whole
<1>7. u = r
  BY <1>5, <1>6
<1> QED BY <1>7 DEF u

\* What a link has to pay for after S is given up.
Left(r, S, l, c) ==
    /\ c \in Nat
    /\ l # {Here} => \A m \in DOMAIN r.maps \ S :
                       r.maps[m].ready /\ l \in Rec!SlotLinks(r, m) => c > 0
    /\ l = {Here} => Cardinality(Selves(r) \ S) <= c

LEMMA CountsLeft ==
    ASSUME NEW r, RecInv(r), NEW S, NEW l \in r.links
    PROVE  Left(r, S, l, Rec!CountWithout(r, l, S \cap Rec!Over(r, l)))
<1> SUFFICES ASSUME NEW O, O = Rec!Over(r, l), NEW D, D = S \cap O,
                    NEW c, c = Rec!CountWithout(r, l, D)
             PROVE  Left(r, S, l, c)
  OBVIOUS
<1>1. r.count[l] \in Nat
  BY DEF RecInv, Whole
<1>2. IsFiniteSet(O) /\ Cardinality(O) \in Nat
  BY OverLink
<1>3. CASE D = {}
  <2>1. c = r.count[l]
    BY <1>3 DEF Rec!CountWithout
  <2>2. l = {Here} => Selves(r) \ S = Selves(r)
    BY <1>3, SelvesOver
  <2>3. \A m \in DOMAIN r.maps \ S : r.maps[m].ready /\ l \in Rec!SlotLinks(r, m) /\ l # {Here} => c > 0
    BY <2>1 DEF RecInv, Paid
  <2> QED BY <1>1, <2>1, <2>2, <2>3 DEF RecInv, Paid, Left
<1>4. CASE D # {} /\ l # {Here}
  <2>1. c = Cardinality(O) - 1
    BY <1>4, RecSizes DEF Rec!CountWithout
  <2>2. PICK d \in D : TRUE
    BY <1>4
  <2>3. Cardinality(O \ {d}) = Cardinality(O) - 1 /\ IsFiniteSet(O \ {d})
    BY <1>2, <2>2, FS_RemoveElement
  <2>4. Cardinality(O \ {d}) \in Nat
    BY <2>3, FS_CardinalityType
  <2>5. ASSUME NEW m \in DOMAIN r.maps \ S, r.maps[m].ready, l \in Rec!SlotLinks(r, m)
        PROVE  c > 0
    <3>1. m \in O \ {d}
      BY <2>2, <2>5 DEF Rec!Over
    <3>2. Cardinality(O \ {d}) # 0
      BY <2>3, <3>1, FS_EmptySet
    <3>3. c = Cardinality(O \ {d})
      BY <2>1, <2>3
    <3> QED BY <2>4, <3>2, <3>3
  <2>6. c \in Nat
    BY <1>2, <2>1, <2>3, <2>4
  <2> QED BY <1>4, <2>5, <2>6 DEF Left
<1>5. CASE D # {} /\ l = {Here}
  <2>1. c = r.count[l] - Cardinality(D)
    BY <1>5, RecSizes DEF Rec!CountWithout
  <2>2. O = Selves(r)
    BY <1>5, SelvesOver
  <2>3. Cardinality(O) <= r.count[l]
    BY <1>5, <2>2 DEF RecInv, Paid
  <2>4. IsFiniteSet(D) /\ Cardinality(D) \in Nat /\ Cardinality(D) <= Cardinality(O)
    BY <1>2, FS_Subset, FS_CardinalityType
  <2>5. Cardinality(O \ D) = Cardinality(O) - Cardinality(D)
    <3>1. /\ IsFiniteSet(O \ D)
          /\ Cardinality(O \ D) = Cardinality(O) - Cardinality(O \cap D)
      BY <1>2, FS_Difference
    <3>2. O \cap D = D
      OBVIOUS
    <3> QED BY <3>1, <3>2
  <2>6. Cardinality(Selves(r) \ S) = Cardinality(O) - Cardinality(D)
    <3>1. Selves(r) \ S = O \ D
      BY <2>2
    <3> QED BY <2>5, <3>1
  <2>7. c \in Nat /\ Cardinality(Selves(r) \ S) <= c
    BY <1>1, <1>2, <2>1, <2>3, <2>4, <2>6
  <2> QED BY <1>5, <2>7 DEF Left
<1> QED BY <1>3, <1>4, <1>5

LEMMA DropKeeps ==
    ASSUME NEW r, RecInv(r), NEW S, NEW T, S \subseteq T
    PROVE  LET n == Rec!RemoveMaps(Rec!Unroute(r, S), T)
           IN  /\ RecInv(n)
               /\ n.devs = r.devs /\ n.sigs = r.sigs /\ n.links = r.links
               /\ DOMAIN n.maps = DOMAIN r.maps \ T
               /\ \A x \in DOMAIN n.maps : n.maps[x] = r.maps[x]
               /\ Live(r) /\ (\A m \in T \cap DOMAIN r.maps : r.maps[m].routed => m \in S) => Live(n)
<1> DEFINE u == Rec!Unroute(r, S)
           n == Rec!RemoveMaps(u, T)
<1>1. /\ Shape(u)
      /\ u.devs = r.devs /\ u.sigs = r.sigs /\ u.links = r.links /\ u.maps = r.maps
      /\ u.slots = {x \in r.slots : x[2] \notin S}
      /\ u.count = [l \in r.links |-> Rec!CountWithout(r, l, S \cap Rec!Over(r, l))]
  BY UnrouteIs
<1> HIDE DEF u
<1>2. /\ Shape(n)
      /\ n.devs = r.devs /\ n.sigs = r.sigs /\ n.links = r.links
      /\ n.slots = u.slots /\ n.count = u.count
      /\ n.maps = [x \in DOMAIN r.maps \ T |-> r.maps[x]]
  BY <1>1 DEF Rec!RemoveMaps, Rec!Minus, Shape, Fields
<1> HIDE DEF n
<1>3. /\ DOMAIN n.maps = DOMAIN r.maps \ T
      /\ \A x \in DOMAIN n.maps : n.maps[x] = r.maps[x]
      /\ n.maps \in [DOMAIN n.maps -> [routed : BOOLEAN, ready : BOOLEAN]]
  BY <1>2 DEF RecInv, Whole
<1>a. \A l \in r.links : Left(r, S, l, n.count[l])
  BY <1>1, <1>2, CountsLeft
<1>4. n.count \in [n.links -> Nat]
  BY <1>1, <1>2, <1>a DEF Left
<1>5. IsFiniteSet(DOMAIN n.maps)
  BY <1>3, FS_Subset DEF RecInv, Whole
<1>6. \A x \in DOMAIN n.maps : Rec!SlotLinks(n, x) = Rec!SlotLinks(r, x)
  BY <1>3 DEF Rec!SlotLinks
<1>7. Whole(n) /\ Pointed(n)
  BY <1>2, <1>3, <1>4, <1>5, <1>6 DEF RecInv, Whole, Pointed
<1>8. Staged(n)
  BY <1>3 DEF RecInv, Staged
<1>9. \A x \in DOMAIN n.maps : n.maps[x].ready =>
        \A l \in Rec!SlotLinks(n, x) \ {{Here}} : n.count[l] > 0
  <2> SUFFICES ASSUME NEW x \in DOMAIN n.maps, n.maps[x].ready,
                      NEW l \in Rec!SlotLinks(n, x) \ {{Here}}
               PROVE  n.count[l] > 0
    OBVIOUS
  <2>1. x \in DOMAIN r.maps \ S /\ r.maps[x].ready /\ l \in Rec!SlotLinks(r, x)
    BY <1>3, <1>6
  <2>2. l \in r.links /\ l # {Here}
    BY <2>1 DEF RecInv, Pointed
  <2> QED BY <1>2, <1>a, <2>1, <2>2 DEF Left
<1>10. {Here} \in n.links => Cardinality(Selves(n)) <= n.count[{Here}]
  <2> SUFFICES ASSUME {Here} \in n.links
               PROVE  Cardinality(Selves(n)) <= n.count[{Here}]
    OBVIOUS
  <2>1. Cardinality(Selves(r) \ S) <= n.count[{Here}] /\ n.count[{Here}] \in Nat
    BY <1>2, <1>a DEF Left
  <2>2. Selves(n) \subseteq Selves(r) \ S
    BY <1>3 DEF Selves
  <2>3. IsFiniteSet(Selves(r) \ S)
    BY SelvesOver, FS_Subset
  <2>4. /\ Cardinality(Selves(n)) <= Cardinality(Selves(r) \ S)
        /\ Cardinality(Selves(n)) \in Nat /\ Cardinality(Selves(r) \ S) \in Nat
    BY <2>2, <2>3, FS_Subset, FS_CardinalityType
  <2> QED BY <2>1, <2>4
<1>11. Live(r) /\ (\A m \in T \cap DOMAIN r.maps : r.maps[m].routed => m \in S) => Live(n)
  <2> SUFFICES ASSUME Live(r), \A m \in T \cap DOMAIN r.maps : r.maps[m].routed => m \in S
               PROVE  Live(n)
    OBVIOUS
  <2>1. n.slots = {x \in r.slots : x[2] \notin S}
    BY <1>1, <1>2
  <2> QED BY <1>3, <2>1 DEF Live
<1>12. Placed(n)
  BY <1>1, <1>2 DEF RecInv, Placed
<1> QED BY <1>2, <1>3, <1>7, <1>8, <1>9, <1>10, <1>11, <1>12 DEF RecInv, Paid, n, u

\* Signals and links go for which no map is left.
Cut(r, Q, L, n) ==
    /\ n.devs = r.devs /\ n.sigs = r.sigs \ Q /\ n.links = r.links \ L /\ n.maps = r.maps
    /\ n.slots = r.slots /\ n.count = [l \in r.links \ L |-> r.count[l]] /\ Shape(n)

LEMMA CutKeeps ==
    ASSUME NEW r, RecInv(r), NEW Q, NEW L, NEW n, Cut(r, Q, L, n),
           \A m \in DOMAIN r.maps : Rec!Ends(m) \cap Q = {} /\ Rec!SlotLinks(r, m) \cap L = {}
    PROVE  /\ RecInv(n) /\ (Live(r) => Live(n))
           /\ n.devs = r.devs /\ n.links = r.links \ L /\ n.maps = r.maps /\ n.sigs = r.sigs \ Q
<1>1. /\ n.devs = r.devs /\ n.sigs = r.sigs \ Q /\ n.links = r.links \ L /\ n.maps = r.maps
      /\ n.slots = r.slots /\ n.count = [l \in r.links \ L |-> r.count[l]] /\ Shape(n)
  BY DEF Cut
<1>2. \A m : Rec!SlotLinks(n, m) = Rec!SlotLinks(r, m)
  BY <1>1 DEF Rec!SlotLinks
<1>3. Whole(n)
  BY <1>1 DEF RecInv, Whole
<1>4. Pointed(n)
  BY <1>1, <1>2 DEF RecInv, Pointed
<1>5. Staged(n) /\ Placed(n)
  BY <1>1 DEF RecInv, Staged, Placed
<1>6. Paid(n)
  BY <1>1, <1>2, <1>4 DEF RecInv, Paid, Selves, Pointed
<1>7. Live(r) => Live(n)
  BY <1>1 DEF Live
<1> QED BY <1>1, <1>3, <1>4, <1>5, <1>6, <1>7 DEF RecInv

\* Signals go with their maps; the router gives up the maps S of these.
LEMMA RemoveSigsKeeps ==
    ASSUME NEW r, RecInv(r), NEW Q, NEW S,
           \A m \in S : m \in DOMAIN r.maps /\ Rec!Ends(m) \cap Q # {}
    PROVE  LET n == Rec!RemoveSigs(Rec!Unroute(r, S), Q)
           IN  /\ RecInv(n)
               /\ n.devs = r.devs /\ n.links = r.links /\ n.sigs = r.sigs \ Q
               /\ DOMAIN n.maps \subseteq DOMAIN r.maps
               /\ Live(r) /\ (\A m \in DOMAIN r.maps : r.maps[m].routed /\ Rec!Ends(m) \cap Q # {} => m \in S)
                    => Live(n)
<1> DEFINE u == Rec!Unroute(r, S)
           T == {m \in DOMAIN r.maps : Rec!Ends(m) \cap Q # {}}
           k == Rec!RemoveMaps(u, T)
           n == Rec!RemoveSigs(u, Q)
<1>1. u.maps = r.maps
  BY UnrouteIs
<1>2. n = [k EXCEPT !.sigs = @ \ Q]
  <2> HIDE DEF u
  <2> QED BY <1>1 DEF Rec!RemoveSigs
<1>a. RecInv(k) => Cut(k, Q, {}, n)
  <2> HIDE DEF k, n
  <2> QED BY <1>2 DEF Cut, RecInv, Whole, Shape, Fields
<1>3. /\ RecInv(k) /\ k.devs = r.devs /\ k.sigs = r.sigs /\ k.links = r.links
      /\ DOMAIN k.maps = DOMAIN r.maps \ T
      /\ Live(r) /\ (\A m \in T \cap DOMAIN r.maps : r.maps[m].routed => m \in S) => Live(k)
  <2>1. S \subseteq T
    OBVIOUS
  <2> HIDE DEF T
  <2> QED BY <2>1, DropKeeps
<1>4. \A m \in DOMAIN k.maps : Rec!Ends(m) \cap Q = {}
  BY <1>3
<1> HIDE DEF k, n
<1>5. /\ RecInv(n) /\ (Live(k) => Live(n))
      /\ n.devs = k.devs /\ n.links = k.links /\ n.maps = k.maps /\ n.sigs = k.sigs \ Q
  <2> DEFINE L == {}
  <2>1. \A m \in DOMAIN k.maps : Rec!Ends(m) \cap Q = {} /\ Rec!SlotLinks(k, m) \cap L = {}
    BY <1>4
  <2>2. Cut(k, Q, L, n) /\ RecInv(k) /\ k.links \ L = k.links
    BY <1>a, <1>3
  <2> HIDE DEF L
  <2>3. /\ RecInv(n) /\ (Live(k) => Live(n))
        /\ n.devs = k.devs /\ n.links = k.links \ L /\ n.maps = k.maps /\ n.sigs = k.sigs \ Q
    BY <2>1, <2>2, CutKeeps
  <2> QED BY <2>2, <2>3
<1>6. Live(r) /\ (\A m \in DOMAIN r.maps : r.maps[m].routed /\ Rec!Ends(m) \cap Q # {} => m \in S) => Live(n)
  BY <1>3, <1>5
<1>7. DOMAIN n.maps \subseteq DOMAIN r.maps
  BY <1>3, <1>5
<1> QED BY <1>3, <1>5, <1>6, <1>7 DEF n

\* Links go with their maps; the router gives up the maps S of these.
LEMMA RemoveLinksKeeps ==
    ASSUME NEW r, RecInv(r), NEW L, NEW S,
           S \subseteq UNION {Rec!Over(r, l) : l \in L}
    PROVE  LET n == Rec!RemoveLinks(Rec!Unroute(r, S), L)
           IN  /\ RecInv(n)
               /\ n.devs = r.devs /\ n.links = r.links \ L /\ n.sigs = r.sigs
               /\ DOMAIN n.maps = DOMAIN r.maps \ UNION {Rec!Over(r, l) : l \in L}
               /\ \A x \in DOMAIN n.maps : n.maps[x] = r.maps[x]
               /\ Live(r) /\ S = UNION {Rec!Over(r, l) : l \in L} => Live(n)
<1> DEFINE u == Rec!Unroute(r, S)
           T == UNION {Rec!Over(r, l) : l \in L}
           k == Rec!RemoveMaps(u, T)
           n == Rec!RemoveLinks(u, L)
<1>1. u.maps = r.maps
  BY UnrouteIs
<1>2. n = [k EXCEPT !.links = @ \ L, !.count = Rec!Minus(@, L)]
  <2> HIDE DEF u
  <2>1. \A l : Rec!Over(u, l) = Rec!Over(r, l)
    BY <1>1 DEF Rec!Over, Rec!SlotLinks
  <2>2. UNION {Rec!Over(u, l) : l \in L} = T
    BY <2>1
  <2> HIDE DEF T
  <2> QED BY <2>2 DEF Rec!RemoveLinks
<1>a. RecInv(k) => Cut(k, {}, L, n)
  <2> HIDE DEF k, n
  <2> QED BY <1>2 DEF Cut, RecInv, Whole, Shape, Fields, Rec!Minus
<1>3. /\ RecInv(k) /\ k.devs = r.devs /\ k.sigs = r.sigs /\ k.links = r.links
      /\ DOMAIN k.maps = DOMAIN r.maps \ T
      /\ \A x \in DOMAIN k.maps : k.maps[x] = r.maps[x]
      /\ Live(r) /\ (\A m \in T \cap DOMAIN r.maps : r.maps[m].routed => m \in S) => Live(k)
  <2>1. S \subseteq T
    OBVIOUS
  <2> HIDE DEF T
  <2> QED BY <2>1, DropKeeps
<1>4. \A m \in DOMAIN k.maps : Rec!SlotLinks(k, m) \cap L = {}
  <2> HIDE DEF k
  <2> SUFFICES ASSUME NEW m \in DOMAIN k.maps, NEW l \in Rec!SlotLinks(k, m), l \in L
               PROVE  FALSE
    OBVIOUS
  <2>1. Rec!SlotLinks(k, m) = Rec!SlotLinks(r, m) /\ m \in DOMAIN r.maps
    BY <1>3 DEF Rec!SlotLinks
  <2> QED BY <1>3, <2>1 DEF Rec!Over
<1> HIDE DEF k, n
<1>5. /\ RecInv(n) /\ (Live(k) => Live(n))
      /\ n.devs = k.devs /\ n.links = k.links \ L /\ n.maps = k.maps /\ n.sigs = k.sigs
  <2>1. \A m \in DOMAIN k.maps : Rec!Ends(m) \cap {} = {} /\ Rec!SlotLinks(k, m) \cap L = {}
    BY <1>4
  <2>2. Cut(k, {}, L, n) /\ RecInv(k)
    BY <1>a, <1>3
  <2> QED BY <2>1, <2>2, CutKeeps
<1>6. Live(r) /\ S = T => Live(n)
  <2> HIDE DEF T
  <2> QED BY <1>3, <1>5
<1>7. DOMAIN n.maps = DOMAIN r.maps \ T /\ \A x \in DOMAIN n.maps : n.maps[x] = r.maps[x]
  <2> HIDE DEF T
  <2> QED BY <1>3, <1>5
<1> QED BY <1>3, <1>5, <1>6, <1>7 DEF n

LEMMA RemoveDevKeeps ==
    ASSUME NEW r, RecInv(r), NEW d, d # Here
    PROVE  LET n == Rec!RemoveDev(r, d)
           IN  /\ RecInv(n)
               /\ Live(r) /\ (\A m \in DOMAIN r.maps : r.maps[m].routed =>
                                \A s \in Rec!Ends(m) : DevOf[s] # d) => Live(n)
<1> DEFINE T == {m \in DOMAIN r.maps : \E s \in Rec!Ends(m) : DevOf[s] = d}
           k == Rec!RemoveMaps(r, T)
           L == {l \in k.links : d \in l}
           o == Rec!RemoveLinks(k, L)
           Q == {s \in o.sigs : DevOf[s] = d}
           p == Rec!RemoveSigs(o, Q)
           n == Rec!RemoveDev(r, d)
           Far == \A m \in DOMAIN r.maps : r.maps[m].routed => \A s \in Rec!Ends(m) : DevOf[s] # d
<1>1. n = [p EXCEPT !.devs = @ \ {d}]
  BY DEF Rec!RemoveDev
<1>2. /\ RecInv(k) /\ k.devs = r.devs /\ k.sigs = r.sigs /\ k.links = r.links
      /\ DOMAIN k.maps = DOMAIN r.maps \ T
      /\ \A x \in DOMAIN k.maps : k.maps[x] = r.maps[x]
      /\ Live(r) /\ (\A m \in T \cap DOMAIN r.maps : r.maps[m].routed => m \in {}) => Live(k)
  <2> HIDE DEF T
  <2>1. Rec!Unroute(r, {}) = r
    BY UnrouteNone
  <2>2. {} \subseteq T
    OBVIOUS
  <2> QED BY <2>1, <2>2, DropKeeps
<1>3. Live(r) /\ Far => Live(k)
  <2>1. Far => \A m \in T \cap DOMAIN r.maps : r.maps[m].routed => m \in {}
    OBVIOUS
  <2> HIDE DEF T, k, Far
  <2> QED BY <1>2, <2>1
<1>4. \A m \in DOMAIN k.maps : \A s \in Rec!Ends(m) : DevOf[s] # d
  <2> HIDE DEF k
  <2> QED BY <1>2
<1> HIDE DEF T, k, n, Far
<1>5. UNION {Rec!Over(k, l) : l \in L} = {}
  BY <1>4 DEF Rec!Over, Rec!SlotLinks
<1>6. /\ RecInv(o) /\ o.devs = k.devs /\ o.links = k.links \ L /\ o.sigs = k.sigs
      /\ DOMAIN o.maps = DOMAIN k.maps
      /\ Live(k) => Live(o)
  <2>1. Rec!Unroute(k, {}) = k
    BY <1>2, UnrouteNone
  <2> HIDE DEF L
  <2>2. {} \subseteq UNION {Rec!Over(k, l) : l \in L}
    OBVIOUS
  <2> QED BY <1>2, <1>5, <2>1, <2>2, RemoveLinksKeeps
<1> HIDE DEF o
<1>7. \A m \in DOMAIN o.maps : Rec!Ends(m) \cap Q = {}
  BY <1>4, <1>6
<1>8. /\ RecInv(p) /\ p.devs = o.devs /\ p.links = o.links /\ p.sigs = o.sigs \ Q
      /\ Live(o) => Live(p)
  <2>1. Rec!Unroute(o, {}) = o
    BY <1>6, UnrouteNone
  <2> HIDE DEF Q
  <2>2. \A m \in {} : m \in DOMAIN o.maps /\ Rec!Ends(m) \cap Q # {}
    OBVIOUS
  <2>3. \A m \in DOMAIN o.maps : o.maps[m].routed /\ Rec!Ends(m) \cap Q # {} => m \in {}
    BY <1>7
  <2> QED BY <1>6, <2>1, <2>2, <2>3, RemoveSigsKeeps
<1> HIDE DEF p
<1>9. /\ n.devs = p.devs \ {d} /\ n.sigs = p.sigs /\ n.links = p.links /\ n.maps = p.maps
      /\ n.slots = p.slots /\ n.count = p.count /\ Shape(n)
  BY <1>1, <1>8 DEF RecInv, Whole, Shape, Fields
<1>10. (\A s \in n.sigs : DevOf[s] # d) /\ (\A l \in n.links : d \notin l)
  BY <1>6, <1>8, <1>9
<1> HIDE DEF L, Q
<1>11. \A m : Rec!SlotLinks(n, m) = Rec!SlotLinks(p, m)
  BY <1>9 DEF Rec!SlotLinks
<1>12. Whole(n)
  BY <1>8, <1>9 DEF RecInv, Whole
<1>13. Pointed(n)
  BY <1>8, <1>9, <1>10, <1>11 DEF RecInv, Pointed
<1>14. Staged(n) /\ Placed(n)
  BY <1>8, <1>9 DEF RecInv, Staged, Placed
<1>15. Paid(n)
  BY <1>8, <1>9, <1>11 DEF RecInv, Paid, Selves
<1>16. Live(p) => Live(n)
  BY <1>9 DEF Live
<1> QED BY <1>3, <1>6, <1>8, <1>12, <1>13, <1>14, <1>15, <1>16 DEF RecInv, n, Far

-----------------------------------------------------------------------------
\* The handlers of records: each changes them as a whole.
R == Rec!Recs
RecordsInv == RecInv(R) /\ (v1 => Live(R))

LEMMA Updated ==
    ASSUME NEW r, Rec!Update(r), RecInv(r), (v1 /\ Live(R)) => Live(r), RecordsInv
    PROVE  RecordsInv'
<1>1. /\ R' = [devs |-> r.devs, sigs |-> r.sigs, links |-> r.links, maps |-> r.maps,
               slots |-> r.slots, count |-> r.count]
      /\ v1' = v1
  BY DEF Rec!Update, R, Rec!Recs
<1>2. R' = r
  BY <1>1 DEF RecInv, Whole, Shape, Fields
<1>3. RecInv(R')
  BY <1>2
<1>4. v1' => Live(R')
  BY <1>1, <1>2 DEF RecordsInv
<1> QED BY <1>3, <1>4 DEF RecordsInv

LEMMA RecordsInit ==
    ASSUME Rec!Init
    PROVE  RecordsInv
<1>1. /\ R = [devs |-> {Here}, sigs |-> {}, links |-> {}, maps |-> v5, slots |-> {}, count |-> v5]
      /\ DOMAIN v5 = {} /\ v5 = [m \in {} |-> 0]
  BY DEF Rec!Init, R, Rec!Recs
<1>2. Selves(R) = {}
  BY <1>1 DEF Selves
<1>3. RecInv(R)
  BY <1>1, FS_EmptySet DEF RecInv, Whole, Shape, Fields, Pointed, Staged, Paid, Placed
<1>4. Live(R)
  BY <1>1 DEF Live
<1> QED BY <1>3, <1>4 DEF RecordsInv

\* A record more.
LEMMA LearnDevKeeps ==
    ASSUME RecordsInv, NEW d, Rec!LearnDev(d)
    PROVE  RecordsInv'
<1> DEFINE n == [R EXCEPT !.devs = @ \cup {d}]
<1>1. Rec!Update(n)
  BY DEF Rec!LearnDev, R
<1>2. RecInv(R) /\ (v1 => Live(R))
  BY DEF RecordsInv
<1> HIDE DEF R
<1>3. /\ n.devs = R.devs \cup {d} /\ n.sigs = R.sigs /\ n.links = R.links /\ n.maps = R.maps
      /\ n.slots = R.slots /\ n.count = R.count /\ Shape(n)
  BY <1>2 DEF RecInv, Whole, Shape, Fields
<1> HIDE DEF n
<1>4. \A m : Rec!SlotLinks(n, m) = Rec!SlotLinks(R, m)
  BY <1>3 DEF Rec!SlotLinks
<1>5. Whole(n) /\ Pointed(n)
  BY <1>2, <1>3, <1>4 DEF RecInv, Whole, Pointed
<1>6. Staged(n) /\ Placed(n)
  BY <1>2, <1>3 DEF RecInv, Staged, Placed
<1>7. Paid(n)
  BY <1>2, <1>3, <1>4 DEF RecInv, Paid, Selves
<1>8. Live(R) => Live(n)
  BY <1>3 DEF Live
<1> QED BY <1>1, <1>5, <1>6, <1>7, <1>8, Updated DEF RecInv

LEMMA LearnSigKeeps ==
    ASSUME RecordsInv, NEW s, Rec!LearnSig(s)
    PROVE  RecordsInv'
<1> DEFINE n == Rec!AddSigs(R, {s})
<1>1. Rec!Update(n) /\ RecInv(R)
  BY DEF Rec!LearnSig, R, RecordsInv
<1>2. RecInv(n) /\ n.maps = R.maps /\ n.slots = R.slots
  BY <1>1, AddSigsKeeps
<1> HIDE DEF n, R
<1>3. Live(R) => Live(n)
  BY <1>2 DEF Live
<1> QED BY <1>1, <1>2, <1>3, Updated

\* A map in the graph alone has no slots.
LEMMA AddMapLive ==
    ASSUME NEW r, RecInv(r), NEW m \in Maps, m \notin DOMAIN r.maps
    PROVE  /\ RecInv(Rec!AddMap(r, m)) /\ (Live(r) => Live(Rec!AddMap(r, m)))
           /\ m \in DOMAIN Rec!AddMap(r, m).maps /\ ~Rec!AddMap(r, m).maps[m].routed
<1> DEFINE n == Rec!AddMap(r, m)
<1>1. /\ RecInv(n)
      /\ DOMAIN n.maps = DOMAIN r.maps \cup {m}
      /\ \A x \in DOMAIN r.maps : n.maps[x] = r.maps[x]
      /\ n.maps[m] = [routed |-> FALSE, ready |-> FALSE]
      /\ n.slots = r.slots
  BY AddMapKeeps
<1> HIDE DEF n
<1>2. Live(r) => Live(n)
  BY <1>1 DEF Live
<1> QED BY <1>1, <1>2 DEF n

LEMMA LearnMapKeeps ==
    ASSUME RecordsInv, NEW m \in Maps, Rec!LearnMap(m)
    PROVE  RecordsInv'
<1> DEFINE n == Rec!AddMap(R, m)
<1>1. Rec!Update(n) /\ RecInv(R) /\ m \notin DOMAIN R.maps
  BY DEF Rec!LearnMap, R, RecordsInv, Rec!Recs, Rec!Known
<1> HIDE DEF R
<1>2. RecInv(n) /\ (Live(R) => Live(n))
  BY <1>1, AddMapLive
<1> HIDE DEF n
<1> QED BY <1>1, <1>2, Updated

LEMMA GetReadyKeeps ==
    ASSUME RecordsInv, NEW m, Rec!GetReady(m)
    PROVE  RecordsInv'
<1> DEFINE n == Rec!Ready(R, m)
<1>1. Rec!Update(n) /\ RecInv(R) /\ m \in DOMAIN R.maps /\ R.maps[m].routed /\ ~R.maps[m].ready
  BY DEF Rec!GetReady, R, RecordsInv, Rec!Recs, Rec!Known
<1> HIDE DEF R
<1>2. RecInv(n) /\ (Live(R) => Live(n))
  BY <1>1, ReadyKeeps
<1> HIDE DEF n
<1> QED BY <1>1, <1>2, Updated

LEMMA EstablishActionKeeps ==
    ASSUME RecordsInv, NEW m \in Maps, Rec!Establish(m)
    PROVE  RecordsInv'
<1> DEFINE a == Rec!AddMap(R, m)
           n == Established(a, m)
<1>1. Rec!Update(n) /\ RecInv(R) /\ m \notin DOMAIN R.maps
  BY DEF Rec!Establish, R, RecordsInv, Rec!Recs, Rec!Known, Established
<1> HIDE DEF R
<1>2. RecInv(a) /\ (Live(R) => Live(a)) /\ m \in DOMAIN a.maps /\ ~a.maps[m].routed
  BY <1>1, AddMapLive
<1> HIDE DEF a
<1>3. RecInv(n) /\ (Live(a) => Live(n))
  BY <1>2, EstablishKeeps
<1> HIDE DEF n
<1> QED BY <1>1, <1>2, <1>3, Updated

\* A map less.
LEMMA DropLive ==
    ASSUME NEW r, RecInv(r), NEW S, NEW T, S \subseteq T
    PROVE  LET n == Rec!RemoveMaps(Rec!Unroute(r, S), T)
           IN  /\ RecInv(n)
               /\ Live(r) /\ (\A m \in T \cap DOMAIN r.maps : r.maps[m].routed => m \in S) => Live(n)
  BY DropKeeps

LEMMA UnmapKeeps ==
    ASSUME RecordsInv, NEW m, Rec!Unmap(m)
    PROVE  RecordsInv'
<1> DEFINE T == {m}
           n == Rec!RemoveMaps(Rec!Unroute(R, T), T)
<1>1. Rec!Update(n) /\ RecInv(R)
  BY DEF Rec!Unmap, R, RecordsInv
<1>2. T \subseteq T /\ \A x \in T \cap DOMAIN R.maps : R.maps[x].routed => x \in T
  OBVIOUS
<1> HIDE DEF R, T
<1>3. RecInv(n) /\ (Live(R) => Live(n))
  BY <1>1, <1>2, DropLive
<1> HIDE DEF n
<1> QED BY <1>1, <1>3, Updated

LEMMA CleanUpKeeps ==
    ASSUME RecordsInv, NEW m, Rec!CleanUp(m)
    PROVE  RecordsInv'
<1> DEFINE T == {m}
           S == IF R.maps[m].routed THEN T ELSE {}
           n == Rec!RemoveMaps(Rec!Unroute(R, S), T)
<1>1. RecInv(R)
  BY DEF RecordsInv
<1>2. Rec!Update(n)
  <2>1. Rec!Update(Rec!RemoveMaps(IF R.maps[m].routed THEN Rec!Unroute(R, {m}) ELSE R, {m}))
    BY DEF Rec!CleanUp, R, Rec!Recs
  <2>2. Rec!Unroute(R, S) = IF R.maps[m].routed THEN Rec!Unroute(R, {m}) ELSE R
    BY <1>1, UnrouteNone
  <2> QED BY <2>1, <2>2
<1>3. S \subseteq T /\ \A x \in T \cap DOMAIN R.maps : R.maps[x].routed => x \in S
  OBVIOUS
<1> HIDE DEF R, T, S
<1>4. RecInv(n) /\ (Live(R) => Live(n))
  BY <1>1, <1>3, DropLive
<1> HIDE DEF n
<1> QED BY <1>2, <1>4, Updated

LEMMA UnmappedKeeps ==
    ASSUME RecordsInv, NEW m, Rec!Unmapped(m)
    PROVE  RecordsInv'
<1> DEFINE T == {m}
           S == {}
           n == Rec!RemoveMaps(Rec!Unroute(R, S), T)
<1>1. RecInv(R)
  BY DEF RecordsInv
<1>2. Rec!Update(n)
  <2>1. Rec!Update(Rec!RemoveMaps(R, {m}))
    BY DEF Rec!Unmapped, R
  <2> QED BY <1>1, <2>1, UnrouteNone
<1>3. S \subseteq T /\ (v1 => \A x \in T \cap DOMAIN R.maps : R.maps[x].routed => x \in S)
  BY DEF Rec!Unmapped, R, Rec!Recs
<1> HIDE DEF R, T, S
<1>4. RecInv(n) /\ (v1 /\ Live(R) => Live(n))
  BY <1>1, <1>3, DropLive
<1> HIDE DEF n
<1> QED BY <1>2, <1>4, Updated

\* Signals, links and devices less.
LEMMA RemoveSigsLive ==
    ASSUME NEW r, RecInv(r), NEW Q, NEW S,
           \A m \in S : m \in DOMAIN r.maps /\ Rec!Ends(m) \cap Q # {}
    PROVE  LET n == Rec!RemoveSigs(Rec!Unroute(r, S), Q)
           IN  /\ RecInv(n)
               /\ Live(r) /\ (\A m \in DOMAIN r.maps : r.maps[m].routed /\ Rec!Ends(m) \cap Q # {} => m \in S)
                    => Live(n)
  BY RemoveSigsKeeps

LEMMA SigRemovedKeeps ==
    ASSUME RecordsInv, NEW s, Rec!SigRemoved(s)
    PROVE  RecordsInv'
<1> DEFINE Q == {s}
           S == {}
           n == Rec!RemoveSigs(Rec!Unroute(R, S), Q)
<1>1. RecInv(R)
  BY DEF RecordsInv
<1>2. Rec!Update(n)
  <2>1. Rec!Update(Rec!RemoveSigs(R, {s}))
    BY DEF Rec!SigRemoved, R
  <2> QED BY <1>1, <2>1, UnrouteNone
<1>3. /\ \A m \in S : m \in DOMAIN R.maps /\ Rec!Ends(m) \cap Q # {}
      /\ v1 => \A m \in DOMAIN R.maps : R.maps[m].routed /\ Rec!Ends(m) \cap Q # {} => m \in S
  BY DEF Rec!SigRemoved, R, Rec!Recs, Rec!Known
<1> HIDE DEF R, Q, S
<1>4. RecInv(n) /\ (v1 /\ Live(R) => Live(n))
  BY <1>1, <1>3, RemoveSigsLive
<1> HIDE DEF n
<1> QED BY <1>2, <1>4, Updated

LEMMA FreeSigKeeps ==
    ASSUME RecordsInv, NEW s \in Sigs, Rec!FreeSig(s)
    PROVE  RecordsInv'
<1> DEFINE Q == {s}
           S == {m \in DOMAIN R.maps : <<s, m>> \in R.slots}
           n == Rec!RemoveSigs(Rec!Unroute(R, S), Q)
<1>1. RecInv(R) /\ (v1 => Live(R))
  BY DEF RecordsInv
<1>2. Rec!Update(n)
  BY DEF Rec!FreeSig, R, Rec!Recs, Rec!Known
<1>3. \A m \in S : m \in DOMAIN R.maps /\ Rec!Ends(m) \cap Q # {}
  BY <1>1 DEF RecInv, Placed
<1>4. v1 => \A m \in DOMAIN R.maps : R.maps[m].routed /\ Rec!Ends(m) \cap Q # {} => m \in S
  <2>1. Rec!Local(s)
    BY DEF Rec!FreeSig
  <2> QED BY <1>1, <2>1 DEF Live
<1> HIDE DEF R, Q, S
<1>5. RecInv(n) /\ (v1 /\ Live(R) => Live(n))
  BY <1>1, <1>3, <1>4, RemoveSigsLive
<1> HIDE DEF n
<1> QED BY <1>2, <1>5, Updated

LEMMA UnlinkLive ==
    ASSUME NEW r, RecInv(r), NEW l
    PROVE  LET n == Rec!RemoveLinks(Rec!UnrouteLink(r, l), {l})
           IN  /\ RecInv(n) /\ (Live(r) => Live(n))
               /\ DOMAIN n.maps = DOMAIN r.maps \ Rec!Over(r, l)
               /\ \A x \in DOMAIN n.maps : n.maps[x] = r.maps[x]
<1> DEFINE L == {l}
           S == Rec!Over(r, l)
           n == Rec!RemoveLinks(Rec!Unroute(r, S), L)
<1>1. S = UNION {Rec!Over(r, x) : x \in L}
  OBVIOUS
<1> HIDE DEF L, S
<1>2. /\ RecInv(n)
      /\ DOMAIN n.maps = DOMAIN r.maps \ UNION {Rec!Over(r, x) : x \in L}
      /\ \A x \in DOMAIN n.maps : n.maps[x] = r.maps[x]
      /\ Live(r) /\ S = UNION {Rec!Over(r, x) : x \in L} => Live(n)
  BY <1>1, RemoveLinksKeeps
<1> HIDE DEF n
<1>3. RecInv(n) /\ (Live(r) => Live(n)) /\ DOMAIN n.maps = DOMAIN r.maps \ S
      /\ \A x \in DOMAIN n.maps : n.maps[x] = r.maps[x]
  BY <1>1, <1>2
<1> QED BY <1>3 DEF n, L, S, Rec!UnrouteLink

LEMMA ExpireLinkKeeps ==
    ASSUME RecordsInv, NEW l, Rec!ExpireLink(l)
    PROVE  RecordsInv'
<1> DEFINE n == Rec!RemoveLinks(Rec!UnrouteLink(R, l), {l})
<1>1. Rec!Update(n) /\ RecInv(R)
  BY DEF Rec!ExpireLink, R, RecordsInv
<1> HIDE DEF R
<1>2. RecInv(n) /\ (Live(R) => Live(n))
  BY <1>1, UnlinkLive
<1> HIDE DEF n
<1> QED BY <1>1, <1>2, Updated

LEMMA LogoutKeeps ==
    ASSUME RecordsInv, NEW d, Rec!Logout(d)
    PROVE  RecordsInv'
<1> DEFINE l == {Here, d}
           k == IF l \in R.links THEN Rec!RemoveLinks(Rec!UnrouteLink(R, l), {l}) ELSE R
           n == Rec!RemoveDev(k, d)
           Far == \A m \in DOMAIN k.maps : k.maps[m].routed => \A s \in Rec!Ends(m) : DevOf[s] # d
<1>1. Rec!Update(n) /\ RecInv(R) /\ d # Here
  BY DEF Rec!Logout, R, RecordsInv, Rec!Recs
<1> HIDE DEF R
<1>2. /\ RecInv(k) /\ (Live(R) => Live(k))
      /\ DOMAIN k.maps = DOMAIN R.maps \ Rec!Over(R, l)
      /\ \A x \in DOMAIN k.maps : k.maps[x] = R.maps[x]
  <2>1. CASE l \in R.links
    <3> HIDE DEF l
    <3> QED BY <1>1, <2>1, UnlinkLive
  <2>2. CASE l \notin R.links
    <3>1. Rec!Over(R, l) = {}
      BY <1>1, <2>2 DEF Rec!Over, RecInv, Pointed
    <3> QED BY <1>1, <2>2, <3>1
  <2> QED BY <2>1, <2>2
<1> HIDE DEF k
<1>3. Far
  <2> SUFFICES ASSUME NEW m \in DOMAIN k.maps, k.maps[m].routed, NEW s \in Rec!Ends(m), DevOf[s] = d
               PROVE  FALSE
    OBVIOUS
  <2>1. m \in DOMAIN R.maps /\ R.maps[m].routed /\ l \notin Rec!SlotLinks(R, m)
    BY <1>2 DEF Rec!Over
  <2> QED BY <1>1, <2>1 DEF Rec!SlotLinks, Rec!LocalOnly, Rec!Local
<1>4. RecInv(n) /\ (Live(k) => Live(n))
  BY <1>1, <1>2, <1>3, RemoveDevKeeps
<1> HIDE DEF n
<1> QED BY <1>1, <1>2, <1>4, Updated

LEMMA ExpireDevKeeps ==
    ASSUME RecordsInv, NEW d, Rec!ExpireDev(d)
    PROVE  RecordsInv'
<1> DEFINE n == Rec!RemoveDev(R, d)
<1>1. Rec!Update(n) /\ RecInv(R) /\ d # Here
  BY DEF Rec!ExpireDev, R, RecordsInv, Rec!Recs
<1>2. v1 => \A m \in DOMAIN R.maps : R.maps[m].routed => \A s \in Rec!Ends(m) : DevOf[s] # d
  BY DEF Rec!ExpireDev, R, Rec!Recs, Rec!Known
<1> HIDE DEF R
<1>3. RecInv(n) /\ (v1 /\ Live(R) => Live(n))
  BY <1>1, <1>2, RemoveDevKeeps
<1> HIDE DEF n
<1> QED BY <1>1, <1>3, Updated

LEMMA RecordsStep ==
    ASSUME RecordsInv, Rec!Next
    PROVE  RecordsInv'
<1>1. ASSUME NEW d \in Devs, Rec!LearnDev(d) \/ Rec!Logout(d) \/ Rec!ExpireDev(d)
      PROVE  RecordsInv'
  BY <1>1, LearnDevKeeps, LogoutKeeps, ExpireDevKeeps
<1>2. ASSUME NEW s \in Sigs, Rec!LearnSig(s) \/ Rec!SigRemoved(s) \/ Rec!FreeSig(s)
      PROVE  RecordsInv'
  BY <1>2, LearnSigKeeps, SigRemovedKeeps, FreeSigKeeps
<1>3. ASSUME NEW m \in Maps,
             \/ Rec!LearnMap(m) \/ Rec!Establish(m) \/ Rec!GetReady(m)
             \/ Rec!Unmap(m) \/ Rec!CleanUp(m) \/ Rec!Unmapped(m)
      PROVE  RecordsInv'
  BY <1>3, LearnMapKeeps, EstablishActionKeeps, GetReadyKeeps, UnmapKeeps, CleanUpKeeps, UnmappedKeeps
<1>4. ASSUME NEW l \in v4, Rec!ExpireLink(l)
      PROVE  RecordsInv'
  BY <1>4, ExpireLinkKeeps
<1> QED BY <1>1, <1>2, <1>3, <1>4 DEF Rec!Next

\* The counts say what is pinged.
LEMMA RecordsRight ==
    ASSUME RecordsInv
    PROVE  Rec!RecordsComplete /\ Rec!SlotsLive /\ Rec!ReadyCounted
<1>1. /\ R.devs = v2 /\ R.sigs = v3 /\ R.links = v4 /\ R.maps = v5 /\ R.slots = v6 /\ R.count = v7
  BY DEF R, Rec!Recs
<1>2. RecInv(R) /\ (v1 => Live(R))
  BY DEF RecordsInv
<1>3. Rec!RecordsComplete
  BY <1>1, <1>2 DEF R, Rec!RecordsComplete, Rec!Known, RecInv, Pointed
<1>4. Rec!SlotsLive
  BY <1>1, <1>2 DEF Rec!SlotsLive, Rec!Known, Live
<1>5. Rec!ReadyCounted
  <2> SUFFICES ASSUME NEW m \in DOMAIN R.maps, R.maps[m].ready, NEW l \in Rec!SlotLinks(R, m)
               PROVE  R.count[l] > 0
    BY <1>1 DEF Rec!ReadyCounted, Rec!Known, R
  <2> HIDE DEF R
  <2>1. CASE l # {Here}
    BY <1>2, <2>1 DEF RecInv, Paid
  <2>2. CASE l = {Here}
    <3>1. l \in R.links /\ R.count[l] \in Nat /\ Cardinality(Selves(R)) <= R.count[l]
      BY <1>2, <2>2 DEF RecInv, Paid, Pointed, Whole
    <3>2. m \in Selves(R)
      BY <2>2, SelfLink DEF Selves
    <3>3. Cardinality(Selves(R)) # 0 /\ Cardinality(Selves(R)) \in Nat
      BY <1>2, <3>2, SelvesOver, FS_EmptySet
    <3> QED BY <3>1, <3>3
  <2> QED BY <2>1, <2>2
<1> QED BY <1>3, <1>4, <1>5

-----------------------------------------------------------------------------
(* Arrays of names.                                                        *)

Elems(s) == {s[i] : i \in DOMAIN s}
OnceEach(s) == \A i, j \in DOMAIN s : s[i] = s[j] => i = j
Arrays(S) == {s \in Seq(S) : OnceEach(s)}

LEMMA NamSizes == \A S : Nam!Cardinality(S) = Cardinality(S)
  BY DEF Nam!Cardinality, Cardinality

LEMMA HasIs ==
    ASSUME NEW s, NEW n
    PROVE  Nam!Has(s, n) <=> n \in Elems(s)
  BY DEF Nam!Has, Elems

LEMMA SeqIs ==
    ASSUME NEW S, NEW s \in Seq(S)
    PROVE  Len(s) \in Nat /\ DOMAIN s = 1 .. Len(s) /\ Elems(s) \subseteq S /\ \A i \in 1 .. Len(s) : s[i] \in S
<1>1. Len(s) \in Nat /\ DOMAIN s = 1 .. Len(s) /\ \A i \in 1 .. Len(s) : s[i] \in S
  BY LenProperties, ElementOfSeq
<1> QED BY <1>1 DEF Elems

\* n is s with x behind it.
Longer(s, n, x) == Len(n) = Len(s) + 1 /\ n[Len(s) + 1] = x /\ \A i \in 1 .. Len(s) : n[i] = s[i]

LEMMA LongerIs ==
    ASSUME NEW S, NEW s \in Seq(S), NEW x \in S, NEW n \in Seq(S), Longer(s, n, x)
    PROVE  /\ Elems(n) = Elems(s) \cup {x}
           /\ s \in Arrays(S) /\ x \notin Elems(s) => n \in Arrays(S)
<1>1. Len(s) \in Nat /\ DOMAIN s = 1 .. Len(s)
  BY SeqIs
<1>3. DOMAIN n = 1 .. Len(s) + 1
  BY SeqIs DEF Longer
<1>4. \A i : i \in DOMAIN n <=> i \in DOMAIN s \/ i = Len(s) + 1
  BY <1>1, <1>3
<1>5. \A y : y \in Elems(n) <=> y \in Elems(s) \/ y = x
  BY <1>1, <1>4 DEF Elems, Longer
<1>6. ASSUME OnceEach(s), x \notin Elems(s), NEW i \in DOMAIN n, NEW j \in DOMAIN n, n[i] = n[j]
      PROVE  i = j
  <2>1. \A k \in DOMAIN s : s[k] # x
    BY <1>6 DEF Elems
  <2>2. CASE i \in DOMAIN s /\ j \in DOMAIN s
    BY <1>1, <1>6, <2>2 DEF OnceEach, Longer
  <2>3. CASE i \notin DOMAIN s \/ j \notin DOMAIN s
    BY <1>1, <1>4, <1>6, <2>1, <2>3 DEF Longer
  <2> QED BY <2>2, <2>3
<1> QED BY <1>5, <1>6 DEF OnceEach, Arrays

LEMMA AppendIs ==
    ASSUME NEW S, NEW s \in Seq(S), NEW x \in S
    PROVE  Append(s, x) \in Seq(S) /\ Longer(s, Append(s, x), x)
  BY AppendProperties DEF Longer

\* _add_scope and mpr_dev_add_link.
LEMMA AddIs ==
    ASSUME NEW S, NEW s \in Arrays(S), NEW n \in S, NEW r, r = Nam!AddScope(s, n)
    PROVE  r \in Arrays(S) /\ Elems(r) = Elems(s) \cup {n}
<1>1. CASE n \in Elems(s)
  <2>1. r = s
    BY <1>1, HasIs DEF Nam!AddScope
  <2> QED BY <1>1, <2>1
<1>2. CASE n \notin Elems(s)
  <2>1. r = Append(s, n) /\ s \in Seq(S) /\ OnceEach(s)
    BY <1>2, HasIs DEF Nam!AddScope, Arrays
  <2>2. r \in Seq(S) /\ Longer(s, r, n)
    BY <2>1, AppendIs
  <2>3. Elems(r) = Elems(s) \cup {n} /\ r \in Arrays(S)
    BY <1>2, <2>1, <2>2, LongerIs
  <2> QED BY <2>3
<1> QED BY <1>1, <1>2

\* What a message names is added; links are added as scopes are.
AddAll(s, msg) == Nam!AddAll(s, msg, Nam!AddScope)

LEMMA LinksAsScopes ==
    ASSUME NEW s, NEW msg
    PROVE  Nam!AddAll(s, msg, Nam!AddLink) = AddAll(s, msg)
  BY DEF Nam!AddAll, Nam!AddLink, Nam!AddScope, AddAll

LEMMA AddedInTurn ==
    ASSUME NEW s, NEW msg, Len(msg) \in Nat
    PROVE  \E f : /\ f[0] = s /\ f[Len(msg)] = AddAll(s, msg)
                  /\ \A i \in 1 .. Len(msg) : f[i] = Nam!AddScope(f[i - 1], msg[i])
<1> DEFINE Is(k, g) == g = [i \in 0 .. k |-> IF i = 0 THEN s ELSE Nam!AddScope(g[i - 1], msg[i])]
           P == {k \in Nat : \E g : Is(k, g)}
<1>0. AddAll(s, msg) = (CHOOSE g : Is(Len(msg), g))[Len(msg)]
  BY DEF AddAll, Nam!AddAll
<1>1. 0 \in P
  <2>1. Is(0, [i \in 0 .. 0 |-> s])
    OBVIOUS
  <2> QED BY <2>1
<1>2. ASSUME NEW k \in Nat, k \in P
      PROVE  k + 1 \in P
  <2>1. PICK g : Is(k, g)
    BY <1>2
  <2> DEFINE h == [i \in 0 .. k + 1 |-> IF i = k + 1 THEN Nam!AddScope(g[k], msg[k + 1]) ELSE g[i]]
  <2>2. \A i \in 0 .. k + 1 : h[i] = IF i = 0 THEN s ELSE Nam!AddScope(h[i - 1], msg[i])
    <3> SUFFICES ASSUME NEW i \in 0 .. k + 1
                 PROVE  h[i] = IF i = 0 THEN s ELSE Nam!AddScope(h[i - 1], msg[i])
      OBVIOUS
    <3>1. CASE i = k + 1
      BY <3>1
    <3>2. CASE i # k + 1 /\ i # 0
      <4>1. i \in 0 .. k /\ i - 1 \in 0 .. k /\ i - 1 # k + 1
        BY <3>2
      <4>2. h[i] = g[i] /\ h[i - 1] = g[i - 1]
        BY <4>1
      <4>3. g[i] = Nam!AddScope(g[i - 1], msg[i])
        BY <2>1, <3>2, <4>1
      <4> QED BY <3>2, <4>2, <4>3
    <3>3. CASE i = 0
      BY <2>1, <3>3
    <3> QED BY <3>1, <3>2, <3>3
  <2>3. Is(k + 1, h)
    BY <2>2
  <2> HIDE DEF h
  <2> QED BY <2>3
<1>3. Len(msg) \in P
  <2> HIDE DEF P
  <2> QED BY <1>1, <1>2, SetInduction
<1> DEFINE f == CHOOSE g : Is(Len(msg), g)
<1>4. Is(Len(msg), f)
  BY <1>3
<1>5. AddAll(s, msg) = f[Len(msg)]
  BY <1>0
<1> HIDE DEF f
<1>6. f[0] = s /\ \A i \in 1 .. Len(msg) : f[i] = Nam!AddScope(f[i - 1], msg[i])
  BY <1>4
<1> QED BY <1>5, <1>6

LEMMA AddedIs ==
    ASSUME NEW S, NEW s \in Arrays(S), NEW msg \in Seq(S), NEW n, n = AddAll(s, msg)
    PROVE  n \in Arrays(S) /\ Elems(n) = Elems(s) \cup Elems(msg)
<1>1. Len(msg) \in Nat /\ DOMAIN msg = 1 .. Len(msg) /\ \A i \in 1 .. Len(msg) : msg[i] \in S
  BY SeqIs
<1>2. PICK f : /\ f[0] = s /\ f[Len(msg)] = n
               /\ \A i \in 1 .. Len(msg) : f[i] = Nam!AddScope(f[i - 1], msg[i])
  BY <1>1, AddedInTurn
<1> DEFINE P == {i \in Nat : i <= Len(msg) => f[i] \in Arrays(S) /\ Elems(f[i]) = Elems(s) \cup {msg[j] : j \in 1 .. i}}
<1>3. 0 \in P
  <2>1. 1 .. 0 = {}
    OBVIOUS
  <2> QED BY <1>2, <2>1
<1>4. ASSUME NEW i \in Nat, i \in P
      PROVE  i + 1 \in P
  <2> SUFFICES ASSUME i + 1 <= Len(msg)
               PROVE  /\ f[i + 1] \in Arrays(S)
                      /\ Elems(f[i + 1]) = Elems(s) \cup {msg[j] : j \in 1 .. i + 1}
    OBVIOUS
  <2>1. i + 1 \in 1 .. Len(msg) /\ (i + 1) - 1 = i /\ i <= Len(msg)
    BY <1>1
  <2>2. f[i + 1] = Nam!AddScope(f[i], msg[i + 1]) /\ msg[i + 1] \in S
    BY <1>1, <1>2, <2>1
  <2>3. f[i] \in Arrays(S) /\ Elems(f[i]) = Elems(s) \cup {msg[j] : j \in 1 .. i}
    BY <1>4, <2>1
  <2>4. f[i + 1] \in Arrays(S) /\ Elems(f[i + 1]) = Elems(f[i]) \cup {msg[i + 1]}
    BY <2>2, <2>3, AddIs
  <2>5. 1 .. i + 1 = (1 .. i) \cup {i + 1}
    OBVIOUS
  <2>6. {msg[j] : j \in 1 .. i + 1} = {msg[j] : j \in 1 .. i} \cup {msg[i + 1]}
    BY <2>5
  <2> QED BY <2>3, <2>4, <2>6
<1> HIDE DEF P
<1>5. \A i \in Nat : i \in P
  BY <1>3, <1>4, SetInduction
<1>6. n \in Arrays(S) /\ Elems(n) = Elems(s) \cup {msg[j] : j \in 1 .. Len(msg)}
  BY <1>1, <1>2, <1>5 DEF P
<1> QED BY <1>1, <1>6 DEF Elems

\* n is s without its k-th entry.
Shorter(s, n, k) ==
    /\ Len(n) = Len(s) - 1
    /\ \A j \in 1 .. Len(s) - 1 : n[j] = IF j < k THEN s[j] ELSE s[j + 1]

LEMMA ShorterIs ==
    ASSUME NEW S, NEW s \in Arrays(S), NEW n \in Seq(S), NEW k \in 1 .. Len(s), Shorter(s, n, k)
    PROVE  n \in Arrays(S) /\ Elems(n) = Elems(s) \ {s[k]}
<1>1. Len(s) \in Nat /\ DOMAIN s = 1 .. Len(s) /\ OnceEach(s) /\ DOMAIN n = 1 .. Len(s) - 1 /\ s \in Seq(S)
  BY SeqIs DEF Arrays, Shorter
<1> DEFINE at(j) == IF j < k THEN j ELSE j + 1
<1>2. \A j \in DOMAIN n : at(j) \in DOMAIN s /\ at(j) # k /\ n[j] = s[at(j)]
  BY <1>1 DEF Shorter
<1>3. ASSUME NEW i \in DOMAIN n, NEW j \in DOMAIN n, n[i] = n[j]
      PROVE  i = j
  <2>1. at(i) = at(j)
    BY <1>1, <1>2, <1>3 DEF OnceEach
  <2> QED BY <1>1, <2>1
<1>4. ASSUME NEW i \in DOMAIN s, i # k
      PROVE  \E j \in DOMAIN n : n[j] = s[i]
  <2>1. CASE i < k
    <3>1. i \in DOMAIN n /\ at(i) = i
      BY <1>1, <2>1
    <3> QED BY <1>2, <3>1
  <2>2. CASE i > k
    <3>1. i - 1 \in DOMAIN n /\ at(i - 1) = i
      BY <1>1, <2>2
    <3> QED BY <1>2, <3>1
  <2> QED BY <1>1, <1>4, <2>1, <2>2
<1>5. \A x : x \in Elems(n) <=> x \in Elems(s) /\ x # s[k]
  <2>1. ASSUME NEW j \in DOMAIN n
        PROVE  n[j] \in Elems(s) /\ n[j] # s[k]
    <3>1. at(j) \in DOMAIN s /\ at(j) # k /\ n[j] = s[at(j)]
      BY <1>2
    <3> QED BY <1>1, <3>1 DEF Elems, OnceEach
  <2>2. ASSUME NEW i \in DOMAIN s, s[i] # s[k]
        PROVE  s[i] \in Elems(n)
    BY <1>4, <2>2 DEF Elems
  <2> QED BY <2>1, <2>2 DEF Elems
<1> QED BY <1>3, <1>5 DEF Arrays, OnceEach

LEMMA CutOutIs ==
    ASSUME NEW S, NEW s \in Seq(S), NEW k \in 1 .. Len(s)
    PROVE  Nam!Without(s, k) \in Seq(S) /\ Shorter(s, Nam!Without(s, k), k)
<1> DEFINE a == SubSeq(s, 1, k - 1)
           b == SubSeq(s, k + 1, Len(s))
<1>1. Len(s) \in Nat
  BY SeqIs
<1>2. a \in Seq(S) /\ Len(a) = k - 1 /\ \A j \in 1 .. k - 1 : a[j] = s[j]
  <2>1. k - 1 \in 0 .. Len(s)
    BY <1>1
  <2> QED BY <2>1, FrontIs
<1>3. b \in Seq(S) /\ Len(b) = Len(s) - k /\ \A j \in 1 .. Len(s) - k : b[j] = s[k + j]
  BY <1>1
<1> HIDE DEF a, b
<1>4. /\ a \o b \in Seq(S) /\ Len(a \o b) = Len(s) - 1
      /\ \A j \in 1 .. Len(s) - 1 : (a \o b)[j] = IF j <= k - 1 THEN a[j] ELSE b[j - (k - 1)]
  <2>1. /\ a \o b \in Seq(S) /\ Len(a \o b) = Len(a) + Len(b)
        /\ \A j \in 1 .. Len(a) + Len(b) : (a \o b)[j] = IF j <= Len(a) THEN a[j] ELSE b[j - Len(a)]
    BY ONLY <1>2, <1>3, ConcatProperties
  <2>2. Len(a) + Len(b) = Len(s) - 1 /\ Len(a) = k - 1
    BY <1>1, <1>2, <1>3
  <2> QED BY <2>1, <2>2
<1>5. ASSUME NEW j \in 1 .. Len(s) - 1
      PROVE  (a \o b)[j] = IF j < k THEN s[j] ELSE s[j + 1]
  <2>1. CASE j < k
    BY <1>1, <1>2, <1>4, <2>1
  <2>2. CASE ~(j < k)
    <3>1. j - (k - 1) \in 1 .. Len(s) - k /\ k + (j - (k - 1)) = j + 1 /\ ~(j <= k - 1)
      BY <1>1, <2>2
    <3> QED BY <1>3, <1>4, <2>2, <3>1
  <2> QED BY <2>1, <2>2
<1>6. Nam!Without(s, k) = a \o b
  BY DEF a, b, Nam!Without
<1> QED BY <1>4, <1>5, <1>6 DEF Shorter

LEMMA FirstIs ==
    ASSUME NEW s, Len(s) \in Nat, DOMAIN s = 1 .. Len(s), NEW n \in Elems(s)
    PROVE  Nam!First(s, n) \in 1 .. Len(s) /\ s[Nam!First(s, n)] = n
<1> DEFINE I == {i \in DOMAIN s : s[i] = n}
<1>1. I \in SUBSET Nat /\ I # {}
  BY DEF Elems
<1>2. PICK k \in I : \A j \in I : k <= j
  BY <1>1, Least
<1>3. k \in DOMAIN s /\ s[k] = n /\ \A j \in 1 .. k - 1 : s[j] # n
  BY <1>2
<1> QED BY <1>3 DEF Nam!First

\* _remove_scope: something goes.
LEMMA RemoveScopeIs ==
    ASSUME NEW S, NEW s \in Arrays(S), NEW n \in Elems(s), NEW r, r = Nam!RemoveScope(s, n)
    PROVE  r \in Arrays(S) /\ Len(r) = Len(s) - 1 /\ Elems(r) \subseteq Elems(s)
<1>1. s \in Seq(S) /\ Len(s) \in Nat /\ DOMAIN s = 1 .. Len(s)
  BY SeqIs DEF Arrays
<1> DEFINE i == Nam!First(s, n)
<1>2. i \in 1 .. Len(s)
  BY <1>1, FirstIs
<1> DEFINE p == IF i < Len(s) THEN i + 1 ELSE i
<1>3. r = Nam!Without(s, p)
  BY HasIs DEF Nam!RemoveScope
<1> HIDE DEF i
<1>4. p \in 1 .. Len(s)
  BY <1>1, <1>2
<1> HIDE DEF p
<1>8. r \in Seq(S) /\ Shorter(s, r, p)
  BY <1>1, <1>3, <1>4, CutOutIs
<1>9. r \in Arrays(S) /\ Elems(r) = Elems(s) \ {s[p]}
  BY <1>4, <1>8, ShorterIs
<1> QED BY <1>8, <1>9 DEF Shorter

\* One round of _update_scope.
CutOne(u, msg) ==
    LET miss == Nam!Missing(u, msg)
    IN  IF miss = {} THEN u ELSE Nam!RemoveScope(u, u[CHOOSE i \in miss : \A j \in miss : i <= j])

LEMMA CutOneIs ==
    ASSUME NEW S, NEW u \in Arrays(S), NEW msg, NEW r, r = CutOne(u, msg)
    PROVE  /\ r \in Arrays(S) /\ Elems(r) \subseteq Elems(u)
           /\ Nam!Missing(u, msg) = {} => r = u
           /\ Nam!Missing(u, msg) # {} => Len(r) = Len(u) - 1
<1>1. u \in Seq(S) /\ Len(u) \in Nat /\ DOMAIN u = 1 .. Len(u)
  BY SeqIs DEF Arrays
<1>2. CASE Nam!Missing(u, msg) = {}
  <2>1. r = u
    BY <1>2 DEF CutOne
  <2> QED BY <1>2, <2>1
<1>3. CASE Nam!Missing(u, msg) # {}
  <2> DEFINE miss == Nam!Missing(u, msg)
             i == CHOOSE i \in miss : \A j \in miss : i <= j
  <2>1. miss \in SUBSET Nat /\ miss \subseteq DOMAIN u /\ miss # {}
    BY <1>1, <1>3 DEF Nam!Missing
  <2> HIDE DEF miss
  <2>2. i \in miss
    BY <2>1, Least
  <2> HIDE DEF i
  <2>3. r = Nam!RemoveScope(u, u[i])
    BY <1>3 DEF CutOne, miss, i
  <2>4. u[i] \in Elems(u)
    BY <2>1, <2>2 DEF Elems
  <2> QED BY <1>3, <2>3, <2>4, RemoveScopeIs
<1> QED BY <1>2, <1>3

LEMMA CutInTurn ==
    ASSUME NEW s, NEW msg, Len(s) \in Nat
    PROVE  \E f : /\ f[0] = s /\ f[Len(s)] = Nam!Cut(s, msg)
                  /\ \A i \in 1 .. Len(s) : f[i] = CutOne(f[i - 1], msg)
<1> DEFINE Is(k, g) == g = [i \in 0 .. k |-> IF i = 0 THEN s ELSE CutOne(g[i - 1], msg)]
           P == {k \in Nat : \E g : Is(k, g)}
<1>0. Nam!Cut(s, msg) = (CHOOSE g : Is(Len(s), g))[Len(s)]
  BY DEF Nam!Cut, CutOne
<1>1. 0 \in P
  <2>1. Is(0, [i \in 0 .. 0 |-> s])
    OBVIOUS
  <2> QED BY <2>1
<1>2. ASSUME NEW k \in Nat, k \in P
      PROVE  k + 1 \in P
  <2>1. PICK g : Is(k, g)
    BY <1>2
  <2> DEFINE h == [i \in 0 .. k + 1 |-> IF i = k + 1 THEN CutOne(g[k], msg) ELSE g[i]]
  <2>2. \A i \in 0 .. k + 1 : h[i] = IF i = 0 THEN s ELSE CutOne(h[i - 1], msg)
    <3> SUFFICES ASSUME NEW i \in 0 .. k + 1
                 PROVE  h[i] = IF i = 0 THEN s ELSE CutOne(h[i - 1], msg)
      OBVIOUS
    <3>1. CASE i = k + 1
      BY <3>1
    <3>2. CASE i # k + 1 /\ i # 0
      <4>1. i \in 0 .. k /\ i - 1 \in 0 .. k /\ i - 1 # k + 1
        BY <3>2
      <4>2. h[i] = g[i] /\ h[i - 1] = g[i - 1]
        BY <4>1
      <4>3. g[i] = CutOne(g[i - 1], msg)
        BY <2>1, <3>2, <4>1
      <4> QED BY <3>2, <4>2, <4>3
    <3>3. CASE i = 0
      BY <2>1, <3>3
    <3> QED BY <3>1, <3>2, <3>3
  <2>3. Is(k + 1, h)
    BY <2>2
  <2> HIDE DEF h
  <2> QED BY <2>3
<1>3. Len(s) \in P
  <2> HIDE DEF P
  <2> QED BY <1>1, <1>2, SetInduction
<1> DEFINE f == CHOOSE g : Is(Len(s), g)
<1>4. Is(Len(s), f)
  BY <1>3
<1>5. Nam!Cut(s, msg) = f[Len(s)]
  BY <1>0
<1> HIDE DEF f
<1>6. f[0] = s /\ \A i \in 1 .. Len(s) : f[i] = CutOne(f[i - 1], msg)
  BY <1>4
<1> QED BY <1>5, <1>6

\* There are as many rounds as entries, and each takes one as long as one is missing.
LEMMA CutIs ==
    ASSUME NEW S, NEW s \in Arrays(S), NEW msg, NEW n, n = Nam!Cut(s, msg)
    PROVE  n \in Arrays(S) /\ Elems(n) \subseteq Elems(s) /\ Elems(n) \subseteq Elems(msg) \cup {0}
<1>1. Len(s) \in Nat
  BY SeqIs DEF Arrays
<1>2. PICK f : /\ f[0] = s /\ f[Len(s)] = n
               /\ \A i \in 1 .. Len(s) : f[i] = CutOne(f[i - 1], msg)
  BY <1>1, CutInTurn
<1> DEFINE Cutting(u, i) == /\ u \in Arrays(S) /\ Elems(u) \subseteq Elems(s)
                            /\ Nam!Missing(u, msg) = {} \/ Len(u) <= Len(s) - i
           P == {i \in Nat : i <= Len(s) => Cutting(f[i], i)}
<1>3. 0 \in P
  BY <1>1, <1>2
<1>4. ASSUME NEW i \in Nat, i \in P
      PROVE  i + 1 \in P
  <2> SUFFICES ASSUME i + 1 <= Len(s)
               PROVE  Cutting(f[i + 1], i + 1)
    OBVIOUS
  <2>1. i + 1 \in 1 .. Len(s) /\ (i + 1) - 1 = i /\ i <= Len(s)
    BY <1>1
  <2>2. PICK u, r : u = f[i] /\ r = f[i + 1]
    OBVIOUS
  <2>3. r = CutOne(u, msg) /\ Cutting(u, i)
    BY <1>2, <1>4, <2>1, <2>2
  <2>4. /\ r \in Arrays(S) /\ Elems(r) \subseteq Elems(u)
        /\ Nam!Missing(u, msg) = {} => r = u
        /\ Nam!Missing(u, msg) # {} => Len(r) = Len(u) - 1
    BY <2>3, CutOneIs
  <2>5. Len(u) \in Nat
    BY <2>3, SeqIs DEF Arrays
  <2> QED BY <1>1, <2>2, <2>3, <2>4, <2>5
<1> HIDE DEF P
<1>5. \A i \in Nat : i \in P
  BY <1>3, <1>4, SetInduction
<1>6. Cutting(n, Len(s))
  <2> HIDE DEF Cutting
  <2>1. Len(s) <= Len(s) => Cutting(f[Len(s)], Len(s))
    BY <1>1, <1>5 DEF P
  <2> QED BY <1>1, <1>2, <2>1
<1>7. n \in Seq(S) /\ Len(n) \in Nat /\ DOMAIN n = 1 .. Len(n)
  BY <1>6, SeqIs DEF Arrays
<1>8. Nam!Missing(n, msg) = {}
  <2>1. CASE Len(n) = 0
    BY <1>7, <2>1 DEF Nam!Missing
  <2>2. CASE Len(n) # 0
    BY <1>1, <1>6, <1>7, <2>2
  <2> QED BY <2>1, <2>2
<1>9. \A i \in DOMAIN n : n[i] = 0 \/ n[i] \in Elems(msg)
  BY <1>8, HasIs DEF Nam!Missing, Nam!All
<1>10. Elems(n) \subseteq Elems(msg) \cup {0}
  BY <1>9 DEF Elems
<1> QED BY <1>6, <1>10

LEMMA UpdateScopeIs ==
    ASSUME NEW S, 0 \in S, NEW s \in Arrays(S), NEW msg \in Seq(S), NEW n, n = Nam!UpdateScope(s, msg)
    PROVE  /\ n \in Arrays(S)
           /\ 0 \notin Elems(s) => Elems(n) = Elems(msg)
<1> DEFINE c == Nam!Cut(s, msg)
<1>1. c \in Arrays(S) /\ Elems(c) \subseteq Elems(s) /\ Elems(c) \subseteq Elems(msg) \cup {0}
  BY CutIs
<1> HIDE DEF c
<1>2. n = AddAll(c, msg)
  BY DEF Nam!UpdateScope, AddAll, c
<1>3. n \in Arrays(S) /\ Elems(n) = Elems(c) \cup Elems(msg)
  BY <1>1, <1>2, AddedIs
<1> QED BY <1>1, <1>3

\* What the end in charge writes into its announcement.
LEMMA WordIs ==
    ASSUME NEW D \in SUBSET Others, NEW w, w = Nam!InSomeOrder(D)
    PROVE  w \in Arrays(Others) /\ Elems(w) = D
<1>1. IsFiniteSet(D)
  BY NamesAssumption, FS_Subset
<1>2. Cardinality(D) \in Nat /\ ExistsBijection(1 .. Cardinality(D), D)
  BY <1>1, FS_CardinalityType
<1> DEFINE n == Cardinality(D)
<1>3. \E f \in [1 .. n -> D] : Nam!IsInjective(f)
  <2>1. PICK f : f \in Bijection(1 .. n, D)
    BY <1>2 DEF ExistsBijection
  <2>2. f \in [1 .. n -> D] /\ \A i, j \in 1 .. n : f[i] = f[j] => i = j
    BY <2>1 DEF Bijection, Injection, IsInjective
  <2> QED BY <2>2 DEF Nam!IsInjective
<1>4. w \in [1 .. n -> D] /\ Nam!IsInjective(w)
  BY <1>3, NamSizes DEF Nam!InSomeOrder
<1>5. w \in Seq(Others) /\ DOMAIN w = 1 .. n
  BY <1>2, <1>4
<1>6. OnceEach(w)
  BY <1>4 DEF OnceEach, Nam!IsInjective
<1>7. w \in Injection(1 .. n, D)
  BY <1>4 DEF Injection, IsInjective, Nam!IsInjective
<1>8. IsFiniteSet(1 .. n) /\ Cardinality(1 .. n) = n
  <2>1. 1 \in Int /\ n \in Int /\ (n < 1 => n = 0)
    BY <1>2
  <2>2. IsFiniteSet(1 .. n) /\ Cardinality(1 .. n) = IF 1 > n THEN 0 ELSE n - 1 + 1
    BY <2>1, FS_Interval
  <2> QED BY <1>2, <2>2
<1>9. w \in Surjection(1 .. n, D)
  BY <1>1, <1>7, <1>8, FS_Injection
<1>10. Elems(w) = D
  BY <1>4, <1>5, <1>9 DEF Elems, Surjection
<1> QED BY <1>5, <1>6, <1>10 DEF Arrays

\* mpr_dev_remove_link.
LEMMA RemoveLinkIs ==
    ASSUME NEW S, NEW s \in Arrays(S), NEW e, NEW r, r = Nam!RemoveLink(s, e)
    PROVE  r \in Arrays(S) /\ Elems(r) = Elems(s) \ {e}
<1>1. s \in Seq(S) /\ Len(s) \in Nat /\ DOMAIN s = 1 .. Len(s)
  BY SeqIs DEF Arrays
<1>2. CASE e \notin Elems(s)
  <2>1. r = s
    BY <1>2, HasIs DEF Nam!RemoveLink
  <2> QED BY <1>2, <2>1
<1>3. CASE e \in Elems(s)
  <2> DEFINE k == Nam!First(s, e)
  <2>1. k \in 1 .. Len(s) /\ s[k] = e
    BY <1>1, <1>3, FirstIs
  <2>2. r = Nam!Without(s, k)
    BY <1>3, HasIs DEF Nam!RemoveLink
  <2> HIDE DEF k
  <2>3. r \in Seq(S) /\ Shorter(s, r, k)
    BY <1>1, <2>1, <2>2, CutOutIs
  <2> QED BY <2>1, <2>3, ShorterIs
<1> QED BY <1>2, <1>3

\* One round of mpr_dev_update_linked: what moves up is not looked at.
CompactOne(p, x, msg) ==
    IF p.skip \/ Nam!Has(msg, x) THEN [kept |-> Append(p.kept, x), skip |-> FALSE]
    ELSE [kept |-> p.kept, skip |-> TRUE]

LEMMA CompactInTurn ==
    ASSUME NEW s, NEW msg, Len(s) \in Nat
    PROVE  \E f : /\ f[0] = [kept |-> <<>>, skip |-> FALSE] /\ f[Len(s)].kept = Nam!Compact(s, msg)
                  /\ \A i \in 1 .. Len(s) : f[i] = CompactOne(f[i - 1], s[i], msg)
<1> DEFINE none == [kept |-> <<>>, skip |-> FALSE]
           Is(k, g) == g = [i \in 0 .. k |-> IF i = 0 THEN none ELSE CompactOne(g[i - 1], s[i], msg)]
           P == {k \in Nat : \E g : Is(k, g)}
<1>0. Nam!Compact(s, msg) = (CHOOSE g : Is(Len(s), g))[Len(s)].kept
  BY DEF Nam!Compact, CompactOne
<1> HIDE DEF none
<1>1. 0 \in P
  <2>1. Is(0, [i \in 0 .. 0 |-> none])
    OBVIOUS
  <2> QED BY <2>1
<1>2. ASSUME NEW k \in Nat, k \in P
      PROVE  k + 1 \in P
  <2>1. PICK g : Is(k, g)
    BY <1>2
  <2> DEFINE h == [i \in 0 .. k + 1 |-> IF i = k + 1 THEN CompactOne(g[k], s[i], msg) ELSE g[i]]
  <2>2. \A i \in 0 .. k + 1 : h[i] = IF i = 0 THEN none ELSE CompactOne(h[i - 1], s[i], msg)
    <3> SUFFICES ASSUME NEW i \in 0 .. k + 1
                 PROVE  h[i] = IF i = 0 THEN none ELSE CompactOne(h[i - 1], s[i], msg)
      OBVIOUS
    <3>1. CASE i = k + 1
      BY <3>1
    <3>2. CASE i # k + 1 /\ i # 0
      <4>1. i \in 0 .. k /\ i - 1 \in 0 .. k /\ i - 1 # k + 1
        BY <3>2
      <4>2. h[i] = g[i] /\ h[i - 1] = g[i - 1]
        BY <4>1
      <4>3. g[i] = CompactOne(g[i - 1], s[i], msg)
        BY <2>1, <3>2, <4>1
      <4> QED BY <3>2, <4>2, <4>3
    <3>3. CASE i = 0
      BY <2>1, <3>3
    <3> QED BY <3>1, <3>2, <3>3
  <2>3. Is(k + 1, h)
    BY <2>2
  <2> HIDE DEF h
  <2> QED BY <2>3
<1>3. Len(s) \in P
  <2> HIDE DEF P
  <2> QED BY <1>1, <1>2, SetInduction
<1> DEFINE f == CHOOSE g : Is(Len(s), g)
<1>4. Is(Len(s), f)
  BY <1>3
<1>5. Nam!Compact(s, msg) = f[Len(s)].kept
  BY <1>0
<1> HIDE DEF f
<1>6. f[0] = none /\ \A i \in 1 .. Len(s) : f[i] = CompactOne(f[i - 1], s[i], msg)
  BY <1>4
<1> QED BY <1>5, <1>6 DEF none

\* Of the first i entries those that the message does not name, and those of them that
\* are kept: each of these follows one that went.
Upto(s, i) == {s[j] : j \in 1 .. i}
Compacted(s, msg, i, p) ==
    /\ p.skip \in BOOLEAN
    /\ Elems(p.kept) \subseteq Upto(s, i)
    /\ 2 * Cardinality(Elems(p.kept) \ Elems(msg)) + (IF p.skip THEN 1 ELSE 0)
         <= Cardinality(Upto(s, i) \ Elems(msg))

LEMMA UptoFinite ==
    ASSUME NEW s, NEW i \in Nat, NEW M
    PROVE  IsFiniteSet(Upto(s, i)) /\ IsFiniteSet(Upto(s, i) \ M) /\ Cardinality(Upto(s, i) \ M) \in Nat
<1>1. IsFiniteSet(1 .. i)
  BY FS_Interval
<1> DEFINE f == [j \in 1 .. i |-> s[j]]
<1>2. f \in Surjection(1 .. i, Upto(s, i))
  BY DEF Surjection, Upto
<1> HIDE DEF f
<1>3. IsFiniteSet(Upto(s, i))
  BY <1>1, <1>2, FS_Surjection
<1>4. IsFiniteSet(Upto(s, i) \ M)
  BY <1>3, FS_Subset
<1> QED BY <1>3, <1>4, FS_CardinalityType

\* One more, with or without what is named.
LEMMA OneMore ==
    ASSUME NEW A, IsFiniteSet(A), NEW M, NEW x, x \notin A, NEW B, B = A \cup {x}
    PROVE  Cardinality(B \ M) = Cardinality(A \ M) + (IF x \in M THEN 0 ELSE 1)
<1>1. IsFiniteSet(A \ M)
  BY FS_Subset
<1>2. CASE x \in M
  <2>1. B \ M = A \ M /\ Cardinality(A \ M) \in Nat
    BY <1>1, <1>2, FS_CardinalityType
  <2> QED BY <1>2, <2>1
<1>3. CASE x \notin M
  <2>1. B \ M = (A \ M) \cup {x} /\ x \notin A \ M
    BY <1>3
  <2> QED BY <1>1, <1>3, <2>1, FS_AddElement
<1> QED BY <1>2, <1>3

LEMMA CompactedFollows ==
    ASSUME NEW S, NEW s \in Arrays(S), NEW msg, NEW i \in Nat, i + 1 <= Len(s),
           NEW p, p.kept \in Arrays(S), Compacted(s, msg, i, p), NEW q, q = CompactOne(p, s[i + 1], msg)
    PROVE  q.kept \in Arrays(S) /\ Compacted(s, msg, i + 1, q)
<1>1. s \in Seq(S) /\ Len(s) \in Nat /\ DOMAIN s = 1 .. Len(s) /\ OnceEach(s)
  BY SeqIs DEF Arrays
<1> DEFINE x == s[i + 1]
           M == Elems(msg)
           K == Elems(p.kept)
           U == Upto(s, i)
<1>2. x \in S
  BY <1>1, SeqIs
<1>3. x \notin U /\ Upto(s, i + 1) = U \cup {x}
  <2>1. \A j \in 1 .. i : s[j] # x
    BY <1>1 DEF OnceEach
  <2>2. 1 .. i + 1 = (1 .. i) \cup {i + 1}
    OBVIOUS
  <2> QED BY <2>1, <2>2 DEF Upto
<1>4. IsFiniteSet(U) /\ Cardinality(U \ M) \in Nat
  BY UptoFinite
<1>5. K \subseteq U /\ p.skip \in BOOLEAN
      /\ 2 * Cardinality(K \ M) + (IF p.skip THEN 1 ELSE 0) <= Cardinality(U \ M)
  BY DEF Compacted
<1>6. IsFiniteSet(K) /\ Cardinality(K \ M) \in Nat
  <2>1. IsFiniteSet(K)
    BY <1>4, <1>5, FS_Subset
  <2>2. IsFiniteSet(K \ M)
    BY <2>1, FS_Subset
  <2> QED BY <2>1, <2>2, FS_CardinalityType
<1>7. Cardinality(Upto(s, i + 1) \ M) = Cardinality(U \ M) + (IF x \in M THEN 0 ELSE 1)
  <2> DEFINE V == Upto(s, i + 1)
  <2>1. V = U \cup {x} /\ x \notin U
    BY <1>3
  <2> HIDE DEF M, U, x, V
  <2>2. Cardinality(V \ M) = Cardinality(U \ M) + (IF x \in M THEN 0 ELSE 1)
    BY ONLY <1>4, <2>1, OneMore
  <2> QED BY <2>2 DEF V
<1>8. CASE p.skip \/ x \in M
  <2>1. q = [kept |-> Append(p.kept, x), skip |-> FALSE]
    BY <1>8, HasIs DEF CompactOne
  <2>2. p.kept \in Seq(S)
    BY DEF Arrays
  <2>3. q.kept \in Seq(S) /\ Longer(p.kept, q.kept, x)
    BY <1>2, <2>1, <2>2, AppendIs
  <2>4. Elems(q.kept) = K \cup {x} /\ q.kept \in Arrays(S) /\ x \notin K
    BY <1>2, <1>3, <1>5, <2>2, <2>3, LongerIs
  <2>5. Cardinality(Elems(q.kept) \ M) = Cardinality(K \ M) + (IF x \in M THEN 0 ELSE 1)
    <3> DEFINE B == Elems(q.kept)
    <3>1. B = K \cup {x} /\ x \notin K
      BY <2>4
    <3> HIDE DEF B, K, M, x
    <3>2. Cardinality(B \ M) = Cardinality(K \ M) + (IF x \in M THEN 0 ELSE 1)
      BY ONLY <1>6, <3>1, OneMore
    <3> QED BY <3>2 DEF B
  <2>6. 2 * Cardinality(Elems(q.kept) \ M) + 0 <= Cardinality(Upto(s, i + 1) \ M)
    <3> HIDE DEF K, M, U, x
    <3>1. CASE x \in M
      BY <1>4, <1>5, <1>6, <1>7, <2>5, <3>1
    <3>2. CASE x \notin M
      BY <1>4, <1>5, <1>6, <1>7, <1>8, <2>5, <3>2
    <3> QED BY <3>1, <3>2
  <2>7. q.skip = FALSE /\ Elems(q.kept) \subseteq Upto(s, i + 1)
    BY <1>3, <1>5, <2>1, <2>4
  <2> QED BY <2>4, <2>6, <2>7 DEF Compacted
<1>9. CASE ~(p.skip \/ x \in M)
  <2>1. q = [kept |-> p.kept, skip |-> TRUE]
    BY <1>9, HasIs DEF CompactOne
  <2>2. 2 * Cardinality(K \ M) + 1 <= Cardinality(Upto(s, i + 1) \ M)
    <3> HIDE DEF K, M, U, x
    <3> QED BY <1>4, <1>5, <1>6, <1>7, <1>9
  <2>3. Elems(q.kept) = K /\ q.skip = TRUE /\ K \subseteq Upto(s, i + 1) /\ q.kept \in Arrays(S)
    BY <1>3, <1>5, <2>1
  <2> QED BY <2>2, <2>3 DEF Compacted
<1> QED BY <1>8, <1>9

LEMMA CompactIs ==
    ASSUME NEW S, NEW s \in Arrays(S), NEW msg, NEW n, n = Nam!Compact(s, msg)
    PROVE  /\ n \in Arrays(S)
           /\ 2 * Cardinality(Elems(n) \ Elems(msg)) <= Cardinality(Elems(s) \ Elems(msg))
<1>1. Len(s) \in Nat /\ DOMAIN s = 1 .. Len(s)
  BY SeqIs DEF Arrays
<1>2. PICK f : /\ f[0] = [kept |-> <<>>, skip |-> FALSE] /\ f[Len(s)].kept = n
               /\ \A i \in 1 .. Len(s) : f[i] = CompactOne(f[i - 1], s[i], msg)
  BY <1>1, CompactInTurn
<1> DEFINE Right(i) == f[i].kept \in Arrays(S) /\ Compacted(s, msg, i, f[i])
           P == {i \in Nat : i <= Len(s) => Right(i)}
<1>3. 0 \in P
  <2>1. <<>> \in Arrays(S) /\ Elems(<<>>) = {} /\ Upto(s, 0) = {}
    BY DEF Arrays, OnceEach, Elems, Upto
  <2>2. {} \ Elems(msg) = {} /\ Cardinality({}) = 0
    BY FS_EmptySet
  <2>4. f[0].kept = <<>> /\ f[0].skip = FALSE
    BY <1>2
  <2>5. 2 * 0 + 0 <= 0
    OBVIOUS
  <2>6. Elems(<<>>) \ Elems(msg) = {} /\ Upto(s, 0) \ Elems(msg) = {}
    BY <2>1
  <2>7. 2 * Cardinality(Elems(f[0].kept) \ Elems(msg)) + (IF f[0].skip THEN 1 ELSE 0)
          <= Cardinality(Upto(s, 0) \ Elems(msg))
    BY <2>2, <2>4, <2>5, <2>6
  <2>3. Right(0)
    BY <2>1, <2>4, <2>7 DEF Compacted
  <2> HIDE DEF Right
  <2> QED BY <2>3
<1>4. ASSUME NEW i \in Nat, i \in P
      PROVE  i + 1 \in P
  <2> SUFFICES ASSUME i + 1 <= Len(s)
               PROVE  Right(i + 1)
    <3> HIDE DEF Right
    <3> QED OBVIOUS
  <2>1. i + 1 \in 1 .. Len(s) /\ (i + 1) - 1 = i /\ i <= Len(s)
    BY <1>1
  <2>2. PICK p, q : p = f[i] /\ q = f[i + 1]
    OBVIOUS
  <2>3. q = CompactOne(p, s[i + 1], msg) /\ p.kept \in Arrays(S) /\ Compacted(s, msg, i, p)
    BY <1>2, <1>4, <2>1, <2>2
  <2>4. q.kept \in Arrays(S) /\ Compacted(s, msg, i + 1, q)
    BY <2>3, CompactedFollows
  <2> QED BY <2>2, <2>4
<1> HIDE DEF P
<1>5. \A i \in Nat : i \in P
  BY <1>3, <1>4, SetInduction
<1>6. n \in Arrays(S) /\ Compacted(s, msg, Len(s), f[Len(s)])
  <2> HIDE DEF Right
  <2>1. Len(s) <= Len(s) => Right(Len(s))
    BY <1>1, <1>5 DEF P
  <2> QED BY <1>1, <1>2, <2>1 DEF Right
<1>7. Upto(s, Len(s)) = Elems(s)
  BY <1>1 DEF Upto, Elems
<1>8. IsFiniteSet(Elems(n))
  BY <1>1, <1>2, <1>6, UptoFinite, FS_Subset DEF Compacted
<1>9. Cardinality(Elems(n) \ Elems(msg)) \in Nat /\ Cardinality(Elems(s) \ Elems(msg)) \in Nat
  BY <1>1, <1>7, <1>8, UptoFinite, FS_Subset, FS_CardinalityType
<1> QED BY <1>2, <1>6, <1>7, <1>9 DEF Compacted

LEMMA UpdateLinkedIs ==
    ASSUME NEW S, NEW s \in Arrays(S), NEW msg \in Seq(S), NEW n, n = Nam!UpdateLinked(s, msg)
    PROVE  /\ n \in Arrays(S) /\ Elems(msg) \subseteq Elems(n)
           /\ 2 * Cardinality(Elems(n) \ Elems(msg)) <= Cardinality(Elems(s) \ Elems(msg))
<1> DEFINE c == Nam!Compact(s, msg)
<1>1. /\ c \in Arrays(S)
      /\ 2 * Cardinality(Elems(c) \ Elems(msg)) <= Cardinality(Elems(s) \ Elems(msg))
  BY CompactIs
<1>2. n = AddAll(c, msg)
  BY LinksAsScopes DEF Nam!UpdateLinked
<1> HIDE DEF c
<1>3. n \in Arrays(S) /\ Elems(n) = Elems(c) \cup Elems(msg)
  BY <1>1, <1>2, AddedIs
<1>4. Elems(n) \ Elems(msg) = Elems(c) \ Elems(msg)
  BY <1>3
<1> QED BY <1>1, <1>3, <1>4

\* An array has as many entries that a message does not name as it has devices of that kind.
LEMMA StaleIs ==
    ASSUME NEW S, NEW s \in Arrays(S), NEW msg
    PROVE  Nam!Cardinality(Nam!Stale(s, msg)) = Cardinality(Elems(s) \ Elems(msg))
<1>1. Len(s) \in Nat /\ DOMAIN s = 1 .. Len(s) /\ OnceEach(s)
  BY SeqIs DEF Arrays
<1> DEFINE I == Nam!Stale(s, msg)
           E == Elems(s) \ Elems(msg)
           f == [i \in I |-> s[i]]
<1>2. \A i : i \in I <=> i \in DOMAIN s /\ s[i] \notin Elems(msg)
  BY HasIs DEF Nam!Stale
<1> HIDE DEF I
<1>3. f \in Bijection(I, E)
  <2>1. f \in [I -> E]
    BY <1>2 DEF Elems
  <2>2. \A i, j \in I : f[i] = f[j] => i = j
    BY <1>1, <1>2 DEF OnceEach
  <2>3. \A e \in E : \E i \in I : f[i] = e
    BY <1>2 DEF Elems
  <2> QED BY <2>1, <2>2, <2>3 DEF Bijection, Injection, Surjection, IsInjective
<1>4. IsFiniteSet(I)
  <2>1. I \subseteq 1 .. Len(s)
    BY <1>1, <1>2
  <2>2. IsFiniteSet(1 .. Len(s))
    BY <1>1, FS_Interval
  <2> QED BY <2>1, <2>2, FS_Subset
<1>5. ExistsBijection(I, E)
  BY <1>3 DEF ExistsBijection
<1> HIDE DEF E
<1>6. Cardinality(E) = Cardinality(I)
  BY <1>4, <1>5, FS_Bijection
<1> QED BY <1>6, NamSizes DEF I, E

\* The arrays hold devices, each once; and what was announced last, or what the copy has
\* once it has arrived, names the devices that are in scope.
Ours == Others \cup {0}
Tells(list, words) == Elems(words) = {d \in Others : Nam!InScope(list, d)}
LastOf(words, then) == IF words = <<>> THEN then ELSE words[Len(words)]
NamesInv ==
    /\ v1 \in {"scopes", "links"}
    /\ v2 \in Arrays(Ours) /\ v3 \in Arrays(Others) /\ v4 \in Seq(Arrays(Others))
    /\ v1 = "scopes" => Tells(v2, LastOf(v4, v3))

LEMMA InScopeIs ==
    ASSUME NEW s, NEW d
    PROVE  Nam!InScope(s, d) <=> 0 \in Elems(s) \/ d \in Elems(s)
  BY HasIs DEF Nam!InScope, Nam!All

LEMMA Widen ==
    ASSUME NEW s \in Arrays(Others)
    PROVE  s \in Arrays(Ours) /\ 0 \notin Elems(s)
<1>1. s \in Seq(Others) /\ OnceEach(s)
  BY DEF Arrays
<1>2. Len(s) \in Nat /\ DOMAIN s = 1 .. Len(s) /\ Elems(s) \subseteq Others /\ \A i \in 1 .. Len(s) : s[i] \in Others
  BY <1>1, SeqIs
<1>3. s \in Seq(Ours)
  BY <1>1, <1>2 DEF Ours
<1> QED BY <1>1, <1>2, <1>3, NamesAssumption DEF Arrays

LEMMA NamesInit ==
    ASSUME Nam!Init
    PROVE  NamesInv
<1>1. v1 \in {"scopes", "links"} /\ v3 = v2 /\ v4 = <<>>
  BY DEF Nam!Init
<1>2. v2 \in Arrays(Others)
  <2>1. CASE v2 = <<>>
    <3>1. <<>> \in Seq(Others) /\ DOMAIN <<>> = {}
      OBVIOUS
    <3> QED BY <2>1, <3>1 DEF Arrays, OnceEach
  <2>2. CASE v2 # <<>>
    <3>1. v2 \in [1 .. 1 -> Others] \cup [1 .. 2 -> Others] /\ Nam!IsInjective(v2)
      BY <2>2 DEF Nam!Init
    <3>3. \A k \in Nat : [1 .. k -> Others] \subseteq Seq(Others)
      OBVIOUS
    <3>2. v2 \in Seq(Others)
      BY <3>1, <3>3
    <3> QED BY <3>1, <3>2 DEF Arrays, OnceEach, Nam!IsInjective
  <2> QED BY <2>1, <2>2
<1>3. Tells(v2, v2)
  <2>1. 0 \notin Elems(v2) /\ Elems(v2) \subseteq Others
    BY <1>2, Widen, SeqIs DEF Arrays
  <2> QED BY <2>1, InScopeIs DEF Tells
<1> QED BY <1>1, <1>2, <1>3, Widen DEF NamesInv, LastOf

\* A change is announced: what the end in charge has now is named by the last message.
LEMMA ChangeKeeps ==
    ASSUME NamesInv, NEW list \in Arrays(Ours), NEW D \in SUBSET Others, Nam!Change(list, Nam!InSomeOrder(D)),
           v1 = "scopes" => D = {d \in Others : Nam!InScope(list, d)}
    PROVE  NamesInv'
<1> DEFINE w == Nam!InSomeOrder(D)
<1>1. w \in Arrays(Others) /\ Elems(w) = D
  BY WordIs
<1> HIDE DEF w
<1>2. v2' = list /\ v4' = Append(v4, w) /\ v1' = v1 /\ v3' = v3
  BY DEF Nam!Change, w
<1>3. v4 \in Seq(Arrays(Others)) /\ Len(v4) \in Nat
  BY SeqIs DEF NamesInv
<1>4. v4' \in Seq(Arrays(Others)) /\ Len(v4') = Len(v4) + 1 /\ v4'[Len(v4) + 1] = w
  BY <1>1, <1>2, <1>3, AppendIs DEF Longer
<1>5. v4' # <<>>
  BY <1>3, <1>4
<1>6. v1 = "scopes" => Tells(list, w)
  BY <1>1 DEF Tells
<1>7. LastOf(v4', v3') = w
  BY <1>4, <1>5 DEF LastOf
<1> QED BY <1>2, <1>4, <1>6, <1>7 DEF NamesInv

LEMMA SetScopesKeeps ==
    ASSUME NamesInv, NEW list \in Seq(Ours), Nam!SetScopes(list)
    PROVE  NamesInv'
<1> DEFINE n == Nam!UpdateScope(v2, list)
           D == {d \in Others : Nam!InScope(n, d)}
<1>1. n \in Arrays(Ours)
  BY UpdateScopeIs DEF NamesInv, Ours
<1>2. Nam!Change(n, Nam!InSomeOrder(D))
  BY DEF Nam!SetScopes, Nam!Scopes, Nam!Word
<1> HIDE DEF n
<1>3. D \in SUBSET Others
  OBVIOUS
<1> QED BY <1>1, <1>2, <1>3, ChangeKeeps

LEMMA LinksKeep ==
    ASSUME NamesInv, NEW list \in Arrays(Ours), Nam!Links(list)
    PROVE  NamesInv'
<1> DEFINE D == {d \in Others : Nam!Linked(list, d)}
<1>1. Nam!Change(list, Nam!InSomeOrder(D)) /\ v1 = "links" /\ D \in SUBSET Others
  BY DEF Nam!Links, Nam!Word
<1> HIDE DEF D
<1> QED BY <1>1, ChangeKeeps

LEMMA ReceiveNames ==
    ASSUME NamesInv, Nam!Receive
    PROVE  NamesInv'
<1>1. v4 \in Seq(Arrays(Others)) /\ v4 # <<>> /\ v3 \in Arrays(Others) /\ v1 \in {"scopes", "links"}
  BY DEF NamesInv, Nam!Receive
<1>2. Head(v4) \in Arrays(Others) /\ Tail(v4) \in Seq(Arrays(Others)) /\ Len(Tail(v4)) = Len(v4) - 1
      /\ Head(v4) = v4[1] /\ Len(v4) \in Nat /\ Len(v4) > 0
      /\ \A i \in 1 .. Len(v4) - 1 : Tail(v4)[i] = v4[i + 1]
  BY <1>1, HeadTailProperties, EmptySeq, SeqIs
<1> DEFINE msg == Head(v4)
<1>3. msg \in Seq(Others) /\ msg \in Seq(Ours)
  BY <1>2, Widen DEF Arrays
<1>4. v1' = v1 /\ v2' = v2 /\ v4' = Tail(v4)
      /\ v3' = IF v1 = "scopes" THEN Nam!UpdateScope(v3, msg) ELSE Nam!UpdateLinked(v3, msg)
  BY DEF Nam!Receive
<1>5. msg \in Arrays(Others)
  BY <1>2
<1> HIDE DEF msg
<1>6. CASE v1 = "links"
  <2>1. v3' \in Arrays(Others)
    BY <1>1, <1>3, <1>4, <1>6, UpdateLinkedIs
  <2> QED BY <1>2, <1>4, <1>6, <2>1 DEF NamesInv
<1>7. CASE v1 = "scopes"
  <2>1. v3 \in Arrays(Ours) /\ 0 \notin Elems(v3)
    BY <1>1, Widen
  <2>2. v3' = Nam!UpdateScope(v3, msg) /\ 0 \in Ours
    BY <1>4, <1>7 DEF Ours
  <2>3. v3' \in Arrays(Ours) /\ Elems(v3') = Elems(msg)
    BY <1>3, <2>1, <2>2, UpdateScopeIs
  <2>4. v3' \in Arrays(Others)
    <3>1. v3' \in Seq(Ours) /\ OnceEach(v3')
      BY <2>3 DEF Arrays
    <3>2. Elems(msg) \subseteq Others
      BY <1>3, SeqIs
    <3>3. Len(v3') \in Nat /\ DOMAIN v3' = 1 .. Len(v3') /\ \A i \in 1 .. Len(v3') : v3'[i] \in Others
      BY <2>3, <3>1, <3>2, SeqIs DEF Elems
    <3>4. v3' \in Seq(Others)
      BY <3>1, <3>3
    <3> QED BY <3>1, <3>4 DEF Arrays
  <2>5. LastOf(v4', msg) = LastOf(v4, v3)
    <3>1. CASE Len(v4) = 1
      <4>1. v4' = <<>>
        BY <1>2, <1>4, <3>1, EmptySeq
      <4>2. v4[Len(v4)] = msg
        BY <1>2, <3>1 DEF msg
      <4> QED BY <1>1, <4>1, <4>2 DEF LastOf
    <3>2. CASE Len(v4) # 1
      <4>1. Len(v4') = Len(v4) - 1 /\ Len(v4) - 1 \in 1 .. Len(v4) - 1 /\ (Len(v4) - 1) + 1 = Len(v4)
        BY <1>2, <1>4, <3>2
      <4>2. v4'[Len(v4')] = v4[Len(v4)]
        <5>1. v4'[Len(v4) - 1] = v4[(Len(v4) - 1) + 1]
          BY <1>2, <1>4, <4>1
        <5> QED BY <4>1, <5>1
      <4>3. v4' # <<>>
        <5>1. Len(<<>>) = 0
          BY EmptySeq
        <5> QED BY <1>2, <4>1, <5>1, <3>2
      <4> QED BY <1>1, <4>2, <4>3 DEF LastOf
    <3> QED BY <3>1, <3>2
  <2>6. Tells(v2, LastOf(v4', msg))
    BY <1>7, <2>5 DEF NamesInv
  <2>7. Tells(v2', LastOf(v4', v3'))
    BY <1>4, <2>3, <2>6 DEF LastOf, Tells
  <2>8. v2 \in Arrays(Ours) /\ v1 \in {"scopes", "links"}
    BY DEF NamesInv
  <2> QED BY <1>2, <1>4, <2>4, <2>7, <2>8 DEF NamesInv
<1> QED BY <1>1, <1>6, <1>7

LEMMA NamesStep ==
    ASSUME NamesInv, Nam!Next
    PROVE  NamesInv'
<1>1. v2 \in Arrays(Ours)
  BY DEF NamesInv
<1>2. ASSUME NEW n \in Others, Nam!AddOneScope(n)
      PROVE  NamesInv'
  <2>1. <<>> \in Seq(Ours)
    OBVIOUS
  <2> QED BY <1>2, <2>1, SetScopesKeeps DEF Nam!AddOneScope, Nam!Staged
<1>3. ASSUME NEW list \in Nam!Lists, Nam!SetScopes(list)
      PROVE  NamesInv'
  <2>1. list \in Seq(Ours)
    <3>1. CASE list = <<0>>
      BY <3>1 DEF Ours
    <3>2. CASE list # <<0>>
      <4>1. list \in UNION {[1 .. k -> Others] : k \in 0 .. 2}
        BY <3>2 DEF Nam!Lists, Nam!All
      <4>2. \A k \in Nat : [1 .. k -> Others] \subseteq Seq(Ours)
        BY DEF Ours
      <4>3. \A k \in 0 .. 2 : [1 .. k -> Others] \subseteq Seq(Ours)
        BY <4>2
      <4> QED BY <4>1, <4>3
    <3> QED BY <3>1, <3>2
  <2> QED BY <1>3, <2>1, SetScopesKeeps
<1>4. ASSUME NEW n \in Others, Nam!AddOneLink(n)
      PROVE  NamesInv'
  <2>1. Nam!AddLink(v2, n) = Nam!AddScope(v2, n) /\ n \in Ours
    BY DEF Nam!AddLink, Nam!AddScope, Ours
  <2>2. Nam!AddLink(v2, n) \in Arrays(Ours)
    BY <1>1, <2>1, AddIs
  <2> QED BY <1>4, <2>2, LinksKeep DEF Nam!AddOneLink
<1>5. ASSUME NEW n \in Others, Nam!RemoveOneLink(n)
      PROVE  NamesInv'
  <2>1. Nam!RemoveLink(v2, n) \in Arrays(Ours)
    BY <1>1, RemoveLinkIs
  <2> QED BY <1>5, <2>1, LinksKeep DEF Nam!RemoveOneLink
<1> QED BY <1>2, <1>3, <1>4, <1>5, ReceiveNames DEF Nam!Next

LEMMA NamesRight ==
    ASSUME NamesInv
    PROVE  Nam!SameScopes /\ Nam!NoneTwice /\ Nam!LinksConverge
<1>1. Nam!NoneTwice
  BY DEF NamesInv, Arrays, OnceEach, Nam!NoneTwice, Nam!IsInjective
<1>2. Nam!SameScopes
  <2> SUFFICES ASSUME v1 = "scopes", v4 = <<>>, NEW d \in Others
               PROVE  Nam!InScope(v2, d) <=> Nam!InScope(v3, d)
    BY DEF Nam!SameScopes, Nam!InScope, Nam!Has
  <2>1. Tells(v2, v3) /\ 0 \notin Elems(v3)
    BY Widen DEF NamesInv, LastOf
  <2> QED BY <2>1, InScopeIs DEF Tells
<1>3. Nam!LinksConverge
  <2> SUFFICES ASSUME v4 # <<>>
               PROVE  LET msg == Head(v4)
                          then == Nam!UpdateLinked(v3, msg)
                      IN  /\ Nam!Range(msg) \subseteq Nam!Range(then)
                          /\ 2 * Nam!Cardinality(Nam!Stale(then, msg)) <= Nam!Cardinality(Nam!Stale(v3, msg))
    BY DEF Nam!LinksConverge
  <2> DEFINE msg == Head(v4)
             n == Nam!UpdateLinked(v3, msg)
  <2>1. v4 \in Seq(Arrays(Others)) /\ v3 \in Arrays(Others)
    BY DEF NamesInv
  <2>2. msg \in Arrays(Others)
    BY <2>1, HeadTailProperties
  <2> HIDE DEF msg
  <2>3. /\ n \in Arrays(Others) /\ Elems(msg) \subseteq Elems(n)
        /\ 2 * Cardinality(Elems(n) \ Elems(msg)) <= Cardinality(Elems(v3) \ Elems(msg))
    BY <2>1, <2>2, UpdateLinkedIs DEF Arrays
  <2> HIDE DEF n
  <2>4. /\ Nam!Cardinality(Nam!Stale(n, msg)) = Cardinality(Elems(n) \ Elems(msg))
        /\ Nam!Cardinality(Nam!Stale(v3, msg)) = Cardinality(Elems(v3) \ Elems(msg))
    BY <2>1, <2>3, StaleIs
  <2>5. Nam!Range(msg) = Elems(msg) /\ Nam!Range(n) = Elems(n)
    BY DEF Nam!Range, Elems
  <2> QED BY <2>3, <2>4, <2>5 DEF msg, n
<1> QED BY <1>1, <1>2, <1>3

-----------------------------------------------------------------------------
(* The names of maps.                                                      *)

LEMMA MpnSizes == \A S : Mpn!Cardinality(S) = Cardinality(S)
  BY DEF Mpn!Cardinality, Cardinality

Up(s) == \A i, j \in DOMAIN s : i < j => s[i] < s[j]

\* A finite set of numbers can be written down in order: the least one first.
LEMMA OrderExists ==
    ASSUME NEW S \in SUBSET Nat, IsFiniteSet(S)
    PROVE  \E s \in [1 .. Cardinality(S) -> S] : Up(s)
<1> DEFINE Ordered(T) == \E s \in [1 .. Cardinality(T) -> T] : Up(s)
           P == {n \in Nat : \A T \in SUBSET Nat : IsFiniteSet(T) /\ Cardinality(T) = n => Ordered(T)}
<1>1. 0 \in P
  <2> SUFFICES ASSUME NEW T \in SUBSET Nat, IsFiniteSet(T), Cardinality(T) = 0
               PROVE  Ordered(T)
    OBVIOUS
  <2> DEFINE s == [i \in 1 .. 0 |-> 0]
  <2>1. 1 .. 0 = {}
    OBVIOUS
  <2>2. s \in [1 .. Cardinality(T) -> T] /\ Up(s)
    BY <2>1 DEF Up
  <2> QED BY <2>2
<1>2. ASSUME NEW n \in Nat, n \in P
      PROVE  n + 1 \in P
  <2> SUFFICES ASSUME NEW T \in SUBSET Nat, IsFiniteSet(T), Cardinality(T) = n + 1
               PROVE  Ordered(T)
    OBVIOUS
  <2>1. T # {}
    BY FS_EmptySet
  <2>2. PICK x \in T : \A y \in T : x <= y
    BY <2>1, Least
  <2> DEFINE D == T \ {x}
  <2>3. D \in SUBSET Nat /\ IsFiniteSet(D) /\ Cardinality(D) = n /\ D \subseteq T /\ \A y \in D : x < y
    <3>1. IsFiniteSet(D) /\ Cardinality(D) = Cardinality(T) - 1
      BY FS_RemoveElement
    <3> QED BY <2>2, <3>1
  <2> HIDE DEF D
  <2>4. PICK s \in [1 .. n -> D] : Up(s)
    BY <1>2, <2>3
  <2> DEFINE t == [i \in 1 .. n + 1 |-> IF i = 1 THEN x ELSE s[i - 1]]
  <2>5. \A i \in 2 .. n + 1 : i - 1 \in 1 .. n
    OBVIOUS
  <2>6. t \in [1 .. n + 1 -> T] /\ DOMAIN t = 1 .. n + 1
    <3>1. ASSUME NEW i \in 1 .. n + 1
          PROVE  (IF i = 1 THEN x ELSE s[i - 1]) \in T
      <4>1. i # 1 => i \in 2 .. n + 1
        OBVIOUS
      <4>2. i # 1 => s[i - 1] \in D
        BY <2>4, <2>5, <4>1
      <4> QED BY <2>3, <4>2
    <3> QED BY <3>1
  <2>7. ASSUME NEW i \in 1 .. n + 1, NEW j \in 1 .. n + 1, i < j
        PROVE  t[i] < t[j]
    <3>1. j \in 2 .. n + 1 /\ j - 1 \in DOMAIN s /\ t[j] = s[j - 1] /\ s[j - 1] \in D
      BY <2>4, <2>5, <2>7
    <3>2. CASE i = 1
      BY <2>3, <3>1, <3>2
    <3>3. CASE i # 1
      <4>1. i - 1 \in DOMAIN s /\ i - 1 < j - 1 /\ t[i] = s[i - 1]
        BY <2>4, <2>5, <2>7, <3>3
      <4> QED BY <2>4, <3>1, <4>1 DEF Up
    <3> QED BY <3>2, <3>3
  <2> HIDE DEF t
  <2> QED BY <2>6, <2>7 DEF Up
<1> HIDE DEF P
<1>3. \A n \in Nat : n \in P
  BY <1>1, <1>2, SetInduction
<1> QED BY <1>3, FS_CardinalityType DEF P

\* The sources of a map, as they are written: in order, each once.
Names == {s \in Seq(Sources) : /\ s # <<>> /\ s = Mpn!Sorted(Elems(s)) /\ Mpn!Alphabetical(s)
                               /\ IsFiniteSet(Elems(s)) /\ Len(s) = Cardinality(Elems(s))}

LEMMA SortedIs ==
    ASSUME NEW S \in SUBSET Sources, IsFiniteSet(S), NEW s, s = Mpn!Sorted(S)
    PROVE  /\ s \in Seq(Sources) /\ Elems(s) = S /\ Len(s) = Cardinality(S)
           /\ S = {} => s = <<>>
           /\ S # {} => s \in Names
<1> DEFINE n == Cardinality(S)
<1>1. n \in Nat /\ S \in SUBSET Nat
  BY FS_CardinalityType, SourcesAssumption
<1>2. \E f \in [1 .. n -> S] : \A i, j \in DOMAIN f : i < j => f[i] < f[j]
  BY <1>1, OrderExists DEF Up
<1>3. s \in [1 .. n -> S] /\ \A i, j \in DOMAIN s : i < j => s[i] < s[j]
  BY <1>2, MpnSizes DEF Mpn!Sorted
<1>4. s \in Seq(Sources) /\ Len(s) = n /\ DOMAIN s = 1 .. n
  <2> HIDE DEF n
  <2>1. [1 .. n -> Sources] \subseteq Seq(Sources)
    BY <1>1
  <2>2. s \in [1 .. n -> Sources]
    BY <1>3
  <2> QED BY <1>1, <1>3, <2>1, <2>2
<1>5. \A i, j \in 1 .. n : s[i] = s[j] => i = j
  <2> SUFFICES ASSUME NEW i \in 1 .. n, NEW j \in 1 .. n, s[i] = s[j], i # j
               PROVE  FALSE
    OBVIOUS
  <2> HIDE DEF n
  <2>1. s[i] \in Nat /\ s[j] \in Nat /\ DOMAIN s = 1 .. n
    BY <1>1, <1>3
  <2>2. i < j \/ j < i
    BY <1>1
  <2> QED BY <1>3, <2>1, <2>2
<1>6. Elems(s) = S
  <2>1. s \in Injection(1 .. n, S)
    BY <1>3, <1>5 DEF Injection, IsInjective
  <2>2. IsFiniteSet(1 .. n) /\ Cardinality(1 .. n) = n
    <3>1. 1 \in Int /\ n \in Int /\ (n < 1 => n = 0)
      BY <1>1
    <3>2. IsFiniteSet(1 .. n) /\ Cardinality(1 .. n) = IF 1 > n THEN 0 ELSE n - 1 + 1
      BY <3>1, FS_Interval
    <3> QED BY <1>1, <3>2
  <2>3. s \in Surjection(1 .. n, S)
    BY <2>1, <2>2, FS_Injection
  <2> QED BY <1>3, <1>4, <2>3 DEF Elems, Surjection
<1>7. Mpn!Alphabetical(s)
  <2> SUFFICES ASSUME NEW i \in 1 .. Len(s) - 1
               PROVE  s[i] < s[i + 1]
    BY DEF Mpn!Alphabetical
  <2>1. i \in DOMAIN s /\ i + 1 \in DOMAIN s /\ i < i + 1
    BY <1>1, <1>4
  <2> QED BY <1>3, <2>1
<1>8. ASSUME S = {}
      PROVE  s = <<>>
  BY <1>4, <1>8, FS_EmptySet, EmptySeq
<1>9. ASSUME S # {}
      PROVE  s \in Names
  <2>1. s # <<>>
    BY <1>6, <1>9 DEF Elems
  <2> QED BY <1>4, <1>6, <1>7, <2>1 DEF Names
<1> QED BY <1>4, <1>6, <1>8, <1>9

LEMMA NamesHave ==
    ASSUME NEW s \in Names
    PROVE  /\ s \in Seq(Sources) /\ s # <<>> /\ s = Mpn!Sorted(Elems(s)) /\ Mpn!Alphabetical(s)
           /\ IsFiniteSet(Elems(s)) /\ Len(s) = Cardinality(Elems(s)) /\ Elems(s) \subseteq Sources
           /\ Elems(s) # {} /\ Len(s) \in Nat /\ DOMAIN s = 1 .. Len(s) /\ Len(s) > 0
<1>1. s \in Seq(Sources) /\ s # <<>>
  BY DEF Names
<1>2. Len(s) \in Nat /\ DOMAIN s = 1 .. Len(s) /\ Elems(s) \subseteq Sources
  BY <1>1, SeqIs
<1>3. Len(s) > 0
  BY <1>1, EmptySeq
<1>4. Elems(s) # {}
  <2>1. 1 \in DOMAIN s
    BY <1>2, <1>3
  <2> QED BY <2>1 DEF Elems
<1> QED BY <1>1, <1>2, <1>3, <1>4 DEF Names

LEMMA SameNames ==
    ASSUME NEW s \in Names, NEW t \in Names, Elems(s) = Elems(t)
    PROVE  s = t
  BY DEF Names

\* The sources of a map that one device has.
On(s, d) == {x \in Elems(s) : SourceOf[x] = d}

LEMMA PartIs ==
    ASSUME NEW s \in Names, NEW d, NEW p, p = Mpn!Part(s, d)
    PROVE  /\ p \in Seq(Sources) /\ Elems(p) = On(s, d) /\ Len(p) = Cardinality(On(s, d))
           /\ IsFiniteSet(On(s, d))
           /\ On(s, d) = {} => p = <<>>
           /\ p # <<>> => p \in Names /\ On(s, d) # {}
<1>1. On(s, d) \in SUBSET Sources /\ IsFiniteSet(On(s, d))
  BY NamesHave, FS_Subset DEF On
<1>2. p = Mpn!Sorted(On(s, d))
  BY DEF Mpn!Part, Mpn!Range, On, Elems
<1> QED BY <1>1, <1>2, SortedIs

LEMMA ReadAsInt ==
    ASSUME NEW s \in Seq(Sources)
    PROVE  s \in Seq(Int) /\ Len(s) \in Nat /\ DOMAIN s = 1 .. Len(s) /\ \A i \in 1 .. Len(s) : s[i] \in Nat \ {0}
<1>1. Len(s) \in Nat /\ DOMAIN s = 1 .. Len(s) /\ \A i \in 1 .. Len(s) : s[i] \in Sources
  BY SeqIs
<1>2. \A x \in Sources : x \in Int /\ x \in Nat \ {0}
  BY SourcesAssumption
<1> QED BY <1>1, <1>2

LEMMA JoinIs ==
    ASSUME NEW a \in Seq(Int), NEW b \in Seq(Int)
    PROVE  /\ a \o b \in Seq(Int) /\ Len(a \o b) = Len(a) + Len(b) /\ DOMAIN (a \o b) = 1 .. Len(a) + Len(b)
           /\ \A i \in 1 .. Len(a) : (a \o b)[i] = a[i]
           /\ \A i \in 1 .. Len(b) : (a \o b)[Len(a) + i] = b[i]
<1>0. Len(a) \in Nat /\ Len(b) \in Nat
  BY LenProperties
<1>1. /\ a \o b \in Seq(Int) /\ Len(a \o b) = Len(a) + Len(b)
      /\ \A i \in 1 .. Len(a) + Len(b) : (a \o b)[i] = IF i <= Len(a) THEN a[i] ELSE b[i - Len(a)]
  BY ConcatProperties
<1>2. \A i \in 1 .. Len(a) : (a \o b)[i] = a[i]
  BY <1>0, <1>1
<1>3. ASSUME NEW i \in 1 .. Len(b)
      PROVE  (a \o b)[Len(a) + i] = b[i]
  <2>1. Len(a) + i \in 1 .. Len(a) + Len(b) /\ ~(Len(a) + i <= Len(a)) /\ (Len(a) + i) - Len(a) = i
    BY <1>0
  <2> QED BY <1>1, <2>1
<1>4. DOMAIN (a \o b) = 1 .. Len(a) + Len(b)
  BY <1>1, LenProperties
<1> QED BY <1>1, <1>2, <1>3, <1>4

\* The words of a message, one by one.
LEMMA AskedWords ==
    ASSUME NEW s \in Seq(Sources), NEW w, w = Mpn!Words(s, FALSE), NEW k, k = Len(s)
    PROVE  /\ w \in Seq(Int) /\ DOMAIN w = 1 .. k + 3 /\ Len(w) = k + 3
           /\ \A i \in 1 .. k : w[i] = s[i]
           /\ w[k + 1] = -1 /\ w[k + 2] = 0 /\ w[k + 3] = -3
<1>1. s \in Seq(Int) /\ k \in Nat
  BY ReadAsInt
<1> DEFINE b == <<-1, 0>>
           c == <<-3>>
           a == s \o b
<1>2. /\ b \in Seq(Int) /\ Len(b) = 2 /\ b[1] = -1 /\ b[2] = 0
      /\ c \in Seq(Int) /\ Len(c) = 1 /\ c[1] = -3
  OBVIOUS
<1>3. w = a \o c
  BY DEF Mpn!Words, Mpn!To, Mpn!Dst, Mpn!Props
<1> HIDE DEF b, c
<1>4. /\ a \in Seq(Int) /\ Len(a) = k + 2
      /\ \A i \in 1 .. k : a[i] = s[i]
      /\ \A i \in 1 .. 2 : a[k + i] = b[i]
  <2>1. /\ s \o b \in Seq(Int) /\ Len(s \o b) = Len(s) + Len(b)
        /\ DOMAIN (s \o b) = 1 .. Len(s) + Len(b)
        /\ \A i \in 1 .. Len(s) : (s \o b)[i] = s[i]
        /\ \A i \in 1 .. Len(b) : (s \o b)[Len(s) + i] = b[i]
    BY ONLY <1>1, <1>2, JoinIs
  <2>2. Len(s) = k /\ Len(b) = 2
    BY <1>2
  <2> QED BY ONLY <2>1, <2>2
<1> HIDE DEF a
<1>5. /\ w \in Seq(Int) /\ Len(w) = (k + 2) + 1 /\ DOMAIN w = 1 .. (k + 2) + 1
      /\ \A i \in 1 .. k + 2 : w[i] = a[i]
      /\ \A i \in 1 .. 1 : w[(k + 2) + i] = c[i]
  <2>1. /\ a \o c \in Seq(Int) /\ Len(a \o c) = Len(a) + Len(c)
        /\ DOMAIN (a \o c) = 1 .. Len(a) + Len(c)
        /\ \A i \in 1 .. Len(a) : (a \o c)[i] = a[i]
        /\ \A i \in 1 .. Len(c) : (a \o c)[Len(a) + i] = c[i]
    BY ONLY <1>2, <1>4, JoinIs
  <2>2. Len(a) = k + 2 /\ Len(c) = 1
    BY <1>2, <1>4
  <2> QED BY ONLY <1>3, <2>1, <2>2
<1>6. (k + 2) + 1 = k + 3 /\ k + 1 \in 1 .. k + 2 /\ k + 2 \in 1 .. k + 2 /\ \A i \in 1 .. k : i \in 1 .. k + 2
  BY <1>1
<1>7. w[k + 1] = -1 /\ w[k + 2] = 0 /\ w[k + 3] = -3
  <2>1. 1 \in 1 .. 2 /\ 2 \in 1 .. 2 /\ 1 \in 1 .. 1
    OBVIOUS
  <2> QED BY <1>2, <1>4, <1>5, <1>6, <2>1
<1> QED BY <1>4, <1>5, <1>6, <1>7

LEMMA ToldWords ==
    ASSUME NEW s \in Seq(Sources), NEW w, w = Mpn!Words(s, TRUE), NEW k, k = Len(s)
    PROVE  /\ w \in Seq(Int) /\ DOMAIN w = 1 .. k + 3 /\ Len(w) = k + 3
           /\ \A i \in 1 .. k : w[i + 2] = s[i]
           /\ w[1] = 0 /\ w[2] = -2 /\ w[k + 3] = -3
<1>1. s \in Seq(Int) /\ k \in Nat
  BY ReadAsInt
<1> DEFINE b == <<0, -2>>
           c == <<-3>>
           a == b \o s
<1>2. /\ b \in Seq(Int) /\ Len(b) = 2 /\ b[1] = 0 /\ b[2] = -2
      /\ c \in Seq(Int) /\ Len(c) = 1 /\ c[1] = -3
  OBVIOUS
<1>3. w = a \o c
  BY DEF Mpn!Words, Mpn!From, Mpn!Dst, Mpn!Props
<1> HIDE DEF b, c
<1>4. /\ a \in Seq(Int) /\ Len(a) = 2 + k
      /\ \A i \in 1 .. 2 : a[i] = b[i]
      /\ \A i \in 1 .. k : a[2 + i] = s[i]
  <2>1. /\ b \o s \in Seq(Int) /\ Len(b \o s) = Len(b) + Len(s)
        /\ DOMAIN (b \o s) = 1 .. Len(b) + Len(s)
        /\ \A i \in 1 .. Len(b) : (b \o s)[i] = b[i]
        /\ \A i \in 1 .. Len(s) : (b \o s)[Len(b) + i] = s[i]
    BY ONLY <1>1, <1>2, JoinIs
  <2>2. Len(s) = k /\ Len(b) = 2
    BY <1>2
  <2> QED BY ONLY <2>1, <2>2
<1> HIDE DEF a
<1>5. /\ w \in Seq(Int) /\ Len(w) = (2 + k) + 1 /\ DOMAIN w = 1 .. (2 + k) + 1
      /\ \A i \in 1 .. 2 + k : w[i] = a[i]
      /\ \A i \in 1 .. 1 : w[(2 + k) + i] = c[i]
  <2>1. /\ a \o c \in Seq(Int) /\ Len(a \o c) = Len(a) + Len(c)
        /\ DOMAIN (a \o c) = 1 .. Len(a) + Len(c)
        /\ \A i \in 1 .. Len(a) : (a \o c)[i] = a[i]
        /\ \A i \in 1 .. Len(c) : (a \o c)[Len(a) + i] = c[i]
    BY ONLY <1>2, <1>4, JoinIs
  <2>2. Len(a) = 2 + k /\ Len(c) = 1
    BY <1>2, <1>4
  <2> QED BY ONLY <1>3, <2>1, <2>2
<1>6. (2 + k) + 1 = k + 3 /\ 1 \in 1 .. 2 + k /\ 2 \in 1 .. 2 + k
      /\ \A i \in 1 .. k : i + 2 \in 1 .. 2 + k /\ i + 2 = 2 + i
  BY <1>1
<1>7. w[1] = 0 /\ w[2] = -2 /\ w[k + 3] = -3
  <2>1. 1 \in 1 .. 2 /\ 2 \in 1 .. 2 /\ 1 \in 1 .. 1
    OBVIOUS
  <2> QED BY <1>2, <1>4, <1>5, <1>6, <2>1
<1>8. ASSUME NEW i \in 1 .. k
      PROVE  w[i + 2] = s[i]
  <2>1. 2 + i \in 1 .. 2 + k /\ i + 2 = 2 + i
    BY <1>1
  <2>2. w[2 + i] = a[2 + i]
    BY <1>5, <2>1
  <2> QED BY <1>4, <2>1, <2>2
<1> QED BY <1>5, <1>6, <1>7, <1>8

\* Where the properties begin.
Stop(w) == CHOOSE i \in DOMAIN w : w[i] = -3 /\ \A j \in 1 .. i - 1 : w[j] # -3

LEMMA StopIs ==
    ASSUME NEW n \in Nat \ {0}, NEW w, DOMAIN w = 1 .. n, w[n] = -3, \A i \in 1 .. n - 1 : w[i] # -3
    PROVE  Stop(w) = n
<1>1. n \in DOMAIN w /\ w[n] = -3 /\ \A j \in 1 .. n - 1 : w[j] # -3
  OBVIOUS
<1>2. \A i \in DOMAIN w : w[i] = -3 => i = n
  OBVIOUS
<1> QED BY <1>1, <1>2 DEF Stop

LEMMA ParseIs ==
    ASSUME NEW w
    PROVE  Mpn!ParseSigNames(w) =
             LET arrow == {i \in 2 .. Stop(w) - 2 : w[i] = -1}
             IN  IF w[2] = -2 THEN SubSeq(w, 3, Stop(w) - 1)
                 ELSE IF arrow = {} THEN <<>> ELSE SubSeq(w, 1, Mpn!Min(arrow) - 1)
  BY DEF Mpn!ParseSigNames, Stop, Mpn!Props, Mpn!To, Mpn!From, Mpn!Refused

\* A sequence is what it is at each place.
LEMMA SameSeq ==
    ASSUME NEW S, NEW s \in Seq(S), NEW T, NEW t \in Seq(T), Len(s) = Len(t), \A i \in 1 .. Len(s) : s[i] = t[i]
    PROVE  s = t
<1>1. DOMAIN s = 1 .. Len(s) /\ DOMAIN t = 1 .. Len(s) /\ s = [i \in DOMAIN s |-> s[i]] /\ t = [i \in DOMAIN t |-> t[i]]
  OBVIOUS
<1> QED BY <1>1

LEMMA ParseTold ==
    ASSUME NEW s \in Seq(Sources)
    PROVE  Mpn!ParseSigNames(Mpn!Words(s, TRUE)) = s
<1>0. Len(s) \in Nat /\ DOMAIN s = 1 .. Len(s) /\ \A i \in 1 .. Len(s) : s[i] \in Nat
  BY ReadAsInt
<1> DEFINE w == Mpn!Words(s, TRUE)
           n == Len(s) + 3
<1>1. /\ w \in Seq(Int) /\ DOMAIN w = 1 .. n /\ Len(w) = n
      /\ \A i \in 1 .. Len(s) : w[i + 2] = s[i]
      /\ w[1] = 0 /\ w[2] = -2 /\ w[n] = -3
  BY ToldWords
<1> HIDE DEF w
<1>2. \A i \in 1 .. n - 1 : w[i] # -3
  <2> SUFFICES ASSUME NEW i \in 1 .. n - 1
               PROVE  w[i] # -3
    OBVIOUS
  <2>1. CASE i \in {1, 2}
    BY <1>1, <2>1
  <2>2. CASE i \notin {1, 2}
    <3>1. i - 2 \in 1 .. Len(s) /\ (i - 2) + 2 = i
      BY <1>0, <2>2
    <3>2. w[i] = s[i - 2] /\ s[i - 2] \in Nat
      BY <1>0, <1>1, <3>1
    <3> QED BY <3>2
  <2> QED BY <2>1, <2>2
<1>3. Stop(w) = n
  <2>1. n \in Nat \ {0}
    BY <1>0
  <2> QED BY <1>1, <1>2, <2>1, StopIs
<1>4. Mpn!ParseSigNames(w) = SubSeq(w, 3, n - 1)
  BY <1>1, <1>3, ParseIs
<1> DEFINE r == SubSeq(w, 3, n - 1)
<1>5. r \in Seq(Int) /\ Len(r) = Len(s) /\ \A i \in 1 .. Len(s) : r[i] = w[3 + i - 1]
  BY <1>0, <1>1
<1> HIDE DEF r
<1>6. \A i \in 1 .. Len(s) : r[i] = s[i]
  <2> SUFFICES ASSUME NEW i \in 1 .. Len(s)
               PROVE  r[i] = s[i]
    OBVIOUS
  <2>1. 3 + i - 1 = i + 2
    BY <1>0
  <2> QED BY <1>1, <1>5, <2>1
<1>7. r = s
  BY <1>5, <1>6, SameSeq
<1> QED BY <1>4, <1>7 DEF r, w

LEMMA ParseAsked ==
    ASSUME NEW s \in Seq(Sources)
    PROVE  Mpn!ParseSigNames(Mpn!Words(s, FALSE)) = s
<1>0. Len(s) \in Nat /\ DOMAIN s = 1 .. Len(s) /\ \A i \in 1 .. Len(s) : s[i] \in Nat \ {0}
  BY ReadAsInt
<1> DEFINE w == Mpn!Words(s, FALSE)
           n == Len(s) + 3
<1>1. /\ w \in Seq(Int) /\ DOMAIN w = 1 .. n /\ Len(w) = n
      /\ \A i \in 1 .. Len(s) : w[i] = s[i]
      /\ w[Len(s) + 1] = -1 /\ w[Len(s) + 2] = 0 /\ w[n] = -3
  BY AskedWords
<1> HIDE DEF w
<1>2. \A i \in 1 .. n - 1 : w[i] # -3 /\ w[i] # -2
  <2> SUFFICES ASSUME NEW i \in 1 .. n - 1
               PROVE  w[i] # -3 /\ w[i] # -2
    OBVIOUS
  <2>1. CASE i \in 1 .. Len(s)
    <3>1. w[i] = s[i] /\ s[i] \in Nat
      BY <1>0, <1>1, <2>1
    <3> QED BY <3>1
  <2>2. CASE i \notin 1 .. Len(s)
    <3>1. i = Len(s) + 1 \/ i = Len(s) + 2
      BY <1>0, <2>2
    <3> QED BY <1>1, <3>1
  <2> QED BY <2>1, <2>2
<1>3. Stop(w) = n
  <2>1. n \in Nat \ {0}
    BY <1>0
  <2> QED BY <1>1, <1>2, <2>1, StopIs
<1> DEFINE arrow == {i \in 2 .. n - 2 : w[i] = -1}
<1>4. Mpn!ParseSigNames(w) = IF arrow = {} THEN <<>> ELSE SubSeq(w, 1, Mpn!Min(arrow) - 1)
  <2>1. w[2] # -2
    <3>1. 2 \in 1 .. n - 1
      BY <1>0
    <3> QED BY <1>2, <3>1
  <2> QED BY <1>3, <2>1, ParseIs
<1>5. \A i \in arrow : i = Len(s) + 1
  <2> SUFFICES ASSUME NEW i \in 2 .. n - 2, w[i] = -1, i # Len(s) + 1
               PROVE  FALSE
    OBVIOUS
  <2>1. i \in 1 .. Len(s)
    BY <1>0
  <2>2. w[i] = s[i] /\ s[i] \in Nat
    BY <1>0, <1>1, <2>1
  <2> QED BY <2>2
<1>6. CASE Len(s) = 0
  <2>1. arrow = {}
    BY <1>5, <1>6
  <2>2. s = <<>>
    BY <1>6, EmptySeq
  <2> QED BY <1>4, <2>1, <2>2 DEF w
<1>7. CASE Len(s) # 0
  <2>1. Len(s) + 1 \in arrow
    BY <1>0, <1>1, <1>7
  <2>2. arrow = {Len(s) + 1}
    BY <1>5, <2>1
  <2>3. Mpn!Min(arrow) = Len(s) + 1
    <3> HIDE DEF arrow
    <3>1. \A y \in arrow : Len(s) + 1 =< y
      BY <1>0, <2>2
    <3> QED BY <2>2, <3>1 DEF Mpn!Min
  <2>4. Mpn!ParseSigNames(w) = SubSeq(w, 1, Len(s))
    <3>1. (Len(s) + 1) - 1 = Len(s)
      BY <1>0
    <3> HIDE DEF arrow
    <3> QED BY <1>4, <2>2, <2>3, <3>1
  <2> DEFINE r == SubSeq(w, 1, Len(s))
  <2>5. r \in Seq(Int) /\ Len(r) = Len(s) /\ \A i \in 1 .. Len(s) : r[i] = w[i]
    <3>1. Len(s) \in 0 .. Len(w)
      BY <1>0, <1>1
    <3> QED BY <1>1, <3>1, FrontIs
  <2> HIDE DEF r
  <2>6. r = s
    <3>1. \A i \in 1 .. Len(r) : r[i] = s[i]
      BY <1>1, <2>5
    <3> QED BY <2>5, <3>1, SameSeq
  <2> QED BY <2>4, <2>6 DEF r, w
<1> QED BY <1>6, <1>7

\* The maps at the destination have different sources; no two records have the same
\* sources, or the same id; a record with an id has the sources of that map, or one
\* device's part of them; and a map that the graph was told of has its record.
RecordOf(real, id) == [id |-> id, srcs |-> real[id]]
Parts(s) == {p \in Names : p = s \/ \E d : p = Mpn!Part(s, d)}
RecordsAre(recs, real) ==
    /\ recs \subseteq [id : {0} \cup DOMAIN real, srcs : Names]
    /\ \A r, q \in recs : r.srcs = q.srcs \/ (r.id = q.id /\ r.id # 0) => r = q
    /\ \A r \in recs : r.id # 0 => r.srcs \in Parts(real[r.id])
MapNamesInv ==
    /\ v2 \in Seq(Names) /\ \A i, j \in DOMAIN v2 : v2[i] = v2[j] => i = j
    /\ v3 \subseteq {Mpn!Words(s, FALSE) : s \in Names}
    /\ RecordsAre(v1, v2)
    /\ v4 \subseteq DOMAIN v2 /\ \A id \in v4 : RecordOf(v2, id) \in v1

LEMMA MapNamesInit ==
    ASSUME Mpn!Init
    PROVE  MapNamesInv
<1>1. v1 = {} /\ v2 = <<>> /\ v3 = {} /\ v4 = {}
  BY DEF Mpn!Init
<1>2. v2 \in Seq(Names) /\ DOMAIN v2 = {}
  BY <1>1
<1> QED BY <1>1, <1>2 DEF MapNamesInv, RecordsAre

\* Sources in some order, as they are written.
LEMMA OrderIs ==
    ASSUME NEW order \in Mpn!Orders, NEW s, s = Mpn!Sorted(Mpn!Range(order))
    PROVE  /\ s \in Names /\ Elems(s) = Elems(order)
           /\ Mpn!IsInjective(order) => Len(order) = Cardinality(Elems(order))
<1>1. PICK n \in 1 .. MaxSources : order \in [1 .. n -> Sources]
  BY DEF Mpn!Orders
<1>2. n \in Nat /\ n > 0 /\ Len(order) = n /\ DOMAIN order = 1 .. n
  <2>1. n \in Nat /\ n > 0
    BY <1>1
  <2> QED BY <1>1, <2>1
<1> DEFINE S == Elems(order)
<1>3. S \in SUBSET Sources /\ S # {} /\ Mpn!Range(order) = S
  <2>1. 1 \in DOMAIN order
    BY <1>2
  <2> QED BY <1>1, <2>1 DEF Elems, Mpn!Range
<1>4. IsFiniteSet(1 .. n) /\ Cardinality(1 .. n) = n
  <2>1. 1 \in Int /\ n \in Int /\ ~(1 > n)
    BY <1>2
  <2>2. IsFiniteSet(1 .. n) /\ Cardinality(1 .. n) = IF 1 > n THEN 0 ELSE n - 1 + 1
    BY <2>1, FS_Interval
  <2> QED BY <1>2, <2>1, <2>2
<1>5. order \in Surjection(1 .. n, S)
  BY <1>1, <1>2 DEF Surjection, Elems
<1> HIDE DEF S
<1>6. IsFiniteSet(S) /\ (Cardinality(S) = Cardinality(1 .. n) <=> order \in Injection(1 .. n, S))
  BY <1>4, <1>5, FS_Surjection
<1>7. Mpn!IsInjective(order) => order \in Injection(1 .. n, S)
  BY <1>2, <1>5 DEF Mpn!IsInjective, Injection, IsInjective, Surjection
<1>8. s \in Names /\ Elems(s) = S
  BY <1>3, <1>6, SortedIs
<1> QED BY <1>2, <1>4, <1>6, <1>7, <1>8 DEF S

LEMMA MapNewKeeps ==
    ASSUME MapNamesInv, NEW order \in Mpn!Orders, Mpn!MapNew(order)
    PROVE  MapNamesInv'
<1> DEFINE srcs == Mpn!Sorted(Mpn!Range(order))
           found == {r \in v1 : Len(r.srcs) = Len(order) /\ Mpn!Range(order) \subseteq Mpn!Range(r.srcs)}
           new == [id |-> 0, srcs |-> srcs]
<1>1. /\ found # {} \/ Mpn!IsInjective(order)
      /\ v1' = IF found # {} THEN v1 ELSE v1 \cup {new}
      /\ v3' = v3 \cup {Mpn!Words(r.srcs, FALSE) : r \in IF found # {} THEN found ELSE {new}}
      /\ v2' = v2 /\ v4' = v4
  BY DEF Mpn!MapNew
<1>2. srcs \in Names /\ Elems(srcs) = Elems(order)
      /\ (Mpn!IsInjective(order) => Len(order) = Cardinality(Elems(order)))
  BY OrderIs
<1>3. RecordsAre(v1, v2)
  BY DEF MapNamesInv
<1>4. ASSUME NEW r \in v1
      PROVE  r.srcs \in Names
  BY <1>3 DEF RecordsAre
<1>5. ASSUME found = {}, NEW r \in v1
      PROVE  r.srcs # srcs
  <2> SUFFICES ASSUME r.srcs = srcs
               PROVE  FALSE
    OBVIOUS
  <2>1. Len(srcs) = Cardinality(Elems(srcs)) /\ Len(order) = Cardinality(Elems(order))
    BY <1>1, <1>2, <1>5, NamesHave
  <2>2. Mpn!Range(order) = Mpn!Range(r.srcs)
    BY <1>2 DEF Elems, Mpn!Range
  <2>3. r \in found
    BY <1>2, <2>1, <2>2
  <2> QED BY <1>5, <2>3
<1>6. RecordsAre(v1', v2)
  <2>1. CASE found # {}
    BY <1>1, <1>3, <2>1
  <2>2. CASE found = {}
    <3>1. v1' = v1 \cup {new} /\ \A r \in v1 : r.srcs # new.srcs
      BY <1>1, <1>5, <2>2
    <3>2. new \in [id : {0} \cup DOMAIN v2, srcs : Names] /\ new.id = 0
      BY <1>2
    <3> HIDE DEF new
    <3> QED BY <1>3, <3>1, <3>2 DEF RecordsAre
  <2> QED BY <2>1, <2>2
<1>7. v3' \subseteq {Mpn!Words(s, FALSE) : s \in Names}
  <2>1. \A r \in IF found # {} THEN found ELSE {new} : r.srcs \in Names
    BY <1>2, <1>4
  <2> HIDE DEF found, new
  <2> QED BY <1>1, <2>1 DEF MapNamesInv
<1>8. v1 \subseteq v1'
  BY <1>1
<1> HIDE DEF found, new, srcs
<1> QED BY <1>1, <1>6, <1>7, <1>8 DEF MapNamesInv, RecordsAre, Parts, RecordOf

LEMMA HandlerMapKeeps ==
    ASSUME MapNamesInv, NEW words, Mpn!HandlerMap(words)
    PROVE  MapNamesInv'
<1> DEFINE srcs == Mpn!ParseSigNames(words)
<1>1. /\ words \in v3 /\ v2' = Append(v2, srcs) /\ \A i \in DOMAIN v2 : v2[i] # srcs
      /\ v1' = v1 /\ v3' = v3 /\ v4' = v4
  BY DEF Mpn!HandlerMap
<1>2. srcs \in Names
  <2>1. PICK s \in Names : words = Mpn!Words(s, FALSE)
    BY <1>1 DEF MapNamesInv
  <2>2. srcs = s
    BY <2>1, ParseAsked, NamesHave
  <2> QED BY <2>2
<1> HIDE DEF srcs
<1> DEFINE n == Len(v2) + 1
<1>3. v2 \in Seq(Names) /\ Len(v2) \in Nat /\ DOMAIN v2 = 1 .. Len(v2)
  BY SeqIs DEF MapNamesInv
<1>4. v2' \in Seq(Names) /\ Len(v2') = n /\ v2'[n] = srcs /\ \A i \in DOMAIN v2 : v2'[i] = v2[i]
  BY <1>1, <1>2, <1>3, AppendIs DEF Longer
<1>5. DOMAIN v2' = 1 .. n
  BY <1>4, SeqIs
<1>6. \A i : i \in DOMAIN v2' <=> i \in DOMAIN v2 \/ i = n
  BY <1>3, <1>5
<1>7. \A i, j \in DOMAIN v2' : v2'[i] = v2'[j] => i = j
  BY <1>1, <1>4, <1>6 DEF MapNamesInv
<1>8. RecordsAre(v1', v2')
  <2>2. DOMAIN v2 \subseteq DOMAIN v2'
    BY <1>6
  <2>3. RecordsAre(v1, v2)
    BY DEF MapNamesInv
  <2>4. \A r \in v1 : r.id # 0 => r.id \in DOMAIN v2 /\ r.srcs \in Parts(v2'[r.id])
    BY <1>4, <2>3 DEF RecordsAre
  <2> HIDE DEF n
  <2> QED BY <1>1, <2>2, <2>3, <2>4 DEF RecordsAre
<1>9. v4' \subseteq DOMAIN v2' /\ \A id \in v4 : RecordOf(v2', id) = RecordOf(v2, id)
  BY <1>1, <1>4, <1>6 DEF RecordOf, MapNamesInv
<1> QED BY <1>1, <1>4, <1>7, <1>8, <1>9 DEF MapNamesInv

\* A record takes the place of another, and of the one that it has become the equal of.
LEMMA ReplaceIs ==
    ASSUME RecordsAre(v1, v2), v2 \in Seq(Names), NEW r \in v1, NEW new \in [id : DOMAIN v2, srcs : Names],
           new.srcs \in Parts(v2[new.id]), \A q \in v1 : q # r => q.id # new.id,
           \A q \in v1 : q # r /\ q.srcs = new.srcs => q.id = 0,
           NEW n, n = Mpn!Replace(r, new)
    PROVE  RecordsAre(n, v2) /\ new \in n /\ \A q \in v1 : q # r /\ q.id # 0 => q \in n
<1> DEFINE gone == IF new.id # 0 /\ new.srcs # r.srcs THEN {[id |-> 0, srcs |-> new.srcs]} ELSE {}
<1>1. n = ((v1 \ {r}) \cup {new}) \ gone
  BY DEF Mpn!Replace, Mpn!ReplaceOnly
<1>2. new.id # 0
  BY SeqIs
<1>3. \A q \in gone : q.id = 0 /\ new \notin gone
  BY <1>2
<1>4. ASSUME NEW q \in v1, q # r, q.srcs = new.srcs
      PROVE  q \in gone
  <2>1. q = [id |-> q.id, srcs |-> q.srcs] /\ q.id = 0
    BY <1>4 DEF RecordsAre
  <2>2. r.srcs # new.srcs
    BY <1>4 DEF RecordsAre
  <2> QED BY <1>2, <1>4, <2>1, <2>2
<1>5. new \notin gone
  BY <1>2
<1> HIDE DEF gone
<1>6. \A q \in n : q = new \/ (q \in v1 /\ q # r /\ q.srcs # new.srcs /\ q.id # new.id)
  BY <1>1, <1>4
<1>7. n \subseteq [id : {0} \cup DOMAIN v2, srcs : Names]
  BY <1>6 DEF RecordsAre
<1>8. \A p, q \in n : p.srcs = q.srcs \/ (p.id = q.id /\ p.id # 0) => p = q
  BY <1>6 DEF RecordsAre
<1>9. \A q \in n : q.id # 0 => q.srcs \in Parts(v2[q.id])
  BY <1>6 DEF RecordsAre
<1>10. \A q \in v1 : q # r /\ q.id # 0 => q \in n
  BY <1>1, <1>3
<1> QED BY <1>1, <1>5, <1>7, <1>8, <1>9, <1>10 DEF RecordsAre

\* A part of a map's sources is all of them if it is as long.
LEMMA LongAs ==
    ASSUME NEW s \in Names, NEW p \in Parts(s)
    PROVE  /\ p \in Names /\ Elems(p) \subseteq Elems(s)
           /\ Len(p) \in Nat /\ Len(s) \in Nat /\ Len(p) <= Len(s)
           /\ Len(p) = Len(s) => p = s
<1>1. p \in Names /\ Elems(p) \subseteq Elems(s)
  <2>1. CASE p = s
    BY <2>1
  <2>2. CASE p # s
    <3>1. PICK d : p = Mpn!Part(s, d)
      BY <2>2 DEF Parts
    <3>2. Elems(p) = On(s, d)
      BY <3>1, PartIs
    <3> QED BY <3>2 DEF Parts, On
  <2> QED BY <2>1, <2>2
<1>2. /\ Len(p) \in Nat /\ Len(s) \in Nat /\ Len(p) = Cardinality(Elems(p)) /\ Len(s) = Cardinality(Elems(s))
      /\ IsFiniteSet(Elems(s))
  BY <1>1, NamesHave
<1>3. Cardinality(Elems(p)) <= Cardinality(Elems(s))
      /\ (Cardinality(Elems(p)) = Cardinality(Elems(s)) => Elems(p) = Elems(s))
  BY <1>1, <1>2, FS_Subset
<1> QED BY <1>1, <1>2, <1>3, SameNames

\* With two devices, two different parts are the whole.
LEMMA TwoParts ==
    ASSUME NEW s \in Names, NEW p \in Parts(s), NEW q \in Parts(s), Len(p) < Len(q)
    PROVE  /\ Elems(p) \cup Elems(q) = Elems(s)
           /\ \A d : \E x \in Elems(s) : SourceOf[x] # d
<1>1. Len(p) \in Nat /\ Len(q) \in Nat /\ Len(s) \in Nat /\ Len(q) <= Len(s)
      /\ p \in Names /\ q \in Names /\ Elems(p) \subseteq Elems(s) /\ Elems(q) \subseteq Elems(s)
  BY LongAs
<1>2. PICK e : p = Mpn!Part(s, e)
  BY <1>1 DEF Parts
<1>3. Elems(p) = On(s, e) /\ p # <<>> /\ On(s, e) # {} /\ Len(p) = Cardinality(On(s, e))
  BY <1>1, <1>2, NamesHave, PartIs
<1>4. CASE q = s
  <2>1. Elems(p) # Elems(s)
    BY <1>1, <1>4, SameNames
  <2>2. PICK x \in Elems(s) : SourceOf[x] # e
    BY <1>1, <1>3, <2>1 DEF On
  <2> QED BY <1>1, <1>3, <1>4, <2>2 DEF On
<1>5. CASE q # s
  <2>1. PICK d : q = Mpn!Part(s, d)
    BY <1>5 DEF Parts
  <2>2. Elems(q) = On(s, d) /\ On(s, d) # {}
    BY <1>1, <2>1, NamesHave, PartIs
  <2>3. d # e
    BY <1>1, <1>2, <2>1
  <2>4. \A x \in Elems(s) : SourceOf[x] \in {d, e}
    <3>1. PICK y \in Elems(s), z \in Elems(s) : SourceOf[y] = d /\ SourceOf[z] = e
      BY <1>3, <2>2 DEF On
    <3>2. Elems(s) \subseteq Sources
      BY NamesHave
    <3> QED BY <2>3, <3>1, <3>2, SourcesAssumption
  <2> QED BY <1>3, <2>2, <2>3, <2>4 DEF On
<1> QED BY <1>4, <1>5

LEMMA ReceiveMapKeeps ==
    ASSUME MapNamesInv, NEW id \in DOMAIN v2, NEW by, Mpn!Receive(id, by)
    PROVE  MapNamesInv'
<1> DEFINE s == v2[id]
           srcs == Mpn!ParseSigNames(Mpn!Announced(id, by))
           found == Mpn!Find(id, srcs)
<1>1. /\ srcs # <<>>
      /\ by # "dst" /\ Mpn!ById(id) = {} => \A r \in Mpn!ByNames(srcs) : r.id = 0
      /\ IF found = {} THEN v1' = v1 \cup {[id |-> id, srcs |-> srcs]}
         ELSE \E r \in found :
                v1' = IF r.id = id /\ Len(r.srcs) < Len(srcs) THEN Mpn!Replace(r, Mpn!Extended(r, srcs))
                      ELSE Mpn!Replace(r, [r EXCEPT !.id = id])
      /\ v4' = IF by = "dst" THEN v4 \cup {id} ELSE v4
      /\ v2' = v2 /\ v3' = v3
  BY DEF Mpn!Receive
<1>2. RecordsAre(v1, v2) /\ v2 \in Seq(Names) /\ id # 0 /\ s \in Names
      /\ (\A i, j \in DOMAIN v2 : v2[i] = v2[j] => i = j)
      /\ v4 \subseteq DOMAIN v2 /\ \A j \in v4 : RecordOf(v2, j) \in v1
  BY SeqIs DEF MapNamesInv
<1>3. srcs \in Parts(s) /\ (by = "dst" => srcs = s)
  <2>1. CASE by = "dst"
    <3>1. srcs = s
      BY <1>2, <2>1, ParseTold, NamesHave DEF Mpn!Announced
    <3> QED BY <1>2, <3>1 DEF Parts
  <2>2. CASE by # "dst"
    <3> DEFINE p == Mpn!Part(s, by)
    <3>1. p \in Seq(Sources) /\ (p # <<>> => p \in Names)
      BY <1>2, PartIs
    <3>2. srcs = p
      <4>1. Mpn!Announced(id, by) = Mpn!Words(p, FALSE)
        BY <2>2 DEF Mpn!Announced
      <4> HIDE DEF p
      <4> QED BY <3>1, <4>1, ParseAsked
    <3> QED BY <1>1, <2>2, <3>1, <3>2 DEF Parts
  <2> QED BY <2>1, <2>2
<1>4. srcs \in Names
  BY <1>3 DEF Parts
<1>5. Mpn!ById(id) = {r \in v1 : r.id = id} /\ Mpn!ByNames(srcs) = {r \in v1 : r.srcs = srcs}
      /\ found = IF Mpn!ById(id) # {} THEN Mpn!ById(id) ELSE Mpn!ByNames(srcs)
  BY <1>2 DEF Mpn!ById, Mpn!ByNames, Mpn!Find
<1>6. SUFFICES /\ RecordsAre(v1', v2)
               /\ \A j \in v4 : RecordOf(v2, j) \in v1'
               /\ by = "dst" => RecordOf(v2, id) \in v1'
  BY <1>1 DEF MapNamesInv
<1>7. CASE found = {}
  <2> DEFINE new == [id |-> id, srcs |-> srcs]
  <2>1. v1' = v1 \cup {new} /\ \A r \in v1 : r.id # id /\ r.srcs # srcs
    BY <1>1, <1>5, <1>7
  <2>2. new \in [id : {0} \cup DOMAIN v2, srcs : Names] /\ new.id = id /\ new.srcs = srcs
    BY <1>4
  <2>3. by = "dst" => RecordOf(v2, id) = new
    BY <1>3 DEF RecordOf
  <2> HIDE DEF new, srcs, s
  <2>4. RecordsAre(v1', v2)
    BY <1>2, <1>3, <2>1, <2>2 DEF RecordsAre, s
  <2> QED BY <1>2, <2>1, <2>3, <2>4
<1>8. CASE found # {}
  <2>1. PICK r \in found :
          v1' = IF r.id = id /\ Len(r.srcs) < Len(srcs) THEN Mpn!Replace(r, Mpn!Extended(r, srcs))
                ELSE Mpn!Replace(r, [r EXCEPT !.id = id])
    BY <1>1, <1>8
  <2>2. r \in v1 /\ r = [id |-> r.id, srcs |-> r.srcs] /\ r.srcs \in Names
    BY <1>2, <1>5, <2>1 DEF RecordsAre
  <2> HIDE DEF srcs, found
  <2>3. CASE r.id = id
    <3>1. r.srcs \in Parts(s) /\ \A q \in v1 : q # r => q.id # id
      BY <1>2, <2>2, <2>3 DEF RecordsAre
    <3>2. CASE Len(r.srcs) < Len(srcs)
      <4> DEFINE new == Mpn!Extended(r, srcs)
      <4>1. Elems(r.srcs) \cup Elems(srcs) = Elems(s) /\ \A d : \E x \in Elems(s) : SourceOf[x] # d
        BY <1>2, <1>3, <3>1, <3>2, TwoParts
      <4>2. new = [id |-> id, srcs |-> s]
        <5>1. Mpn!Range(r.srcs) \cup Mpn!Range(srcs) = Elems(s)
          BY <4>1 DEF Mpn!Range, Elems
        <5>2. Mpn!Sorted(Elems(s)) = s
          BY <1>2, NamesHave
        <5> QED BY <2>2, <2>3, <5>1, <5>2 DEF Mpn!Extended
      <4>3. v1' = Mpn!Replace(r, new)
        BY <2>1, <2>3, <3>2
      <4> HIDE DEF new
      <4>4. ASSUME NEW q \in v1, q # r, q.srcs = new.srcs, q.id # 0
            PROVE  FALSE
        <5>1. q.srcs = s /\ q.id \in DOMAIN v2 /\ q.id # id /\ s \in Parts(v2[q.id]) /\ v2[q.id] \in Names
          <6>1. q.srcs = s /\ q.id \in DOMAIN v2 /\ q.id # id /\ s \in Parts(v2[q.id])
            BY <1>2, <3>1, <4>2, <4>4 DEF RecordsAre
          <6> QED BY <1>2, <6>1, SeqIs
        <5>2. s # v2[q.id]
          BY <1>2, <5>1
        <5>3. PICK d : s = Mpn!Part(v2[q.id], d)
          BY <5>1, <5>2 DEF Parts
        <5>4. Elems(s) = On(v2[q.id], d)
          BY <5>1, <5>3, PartIs
        <5> QED BY <4>1, <5>4 DEF On
      <4>5. new \in [id : DOMAIN v2, srcs : Names] /\ new.id = id /\ new.srcs \in Parts(v2[id])
            /\ new = RecordOf(v2, id)
        BY <1>2, <4>2 DEF Parts, RecordOf
      <4>6. RecordsAre(v1', v2) /\ new \in v1' /\ \A q \in v1 : q # r /\ q.id # 0 => q \in v1'
        BY <1>2, <2>2, <3>1, <4>3, <4>4, <4>5, ReplaceIs
      <4>7. ASSUME NEW j \in v4
            PROVE  RecordOf(v2, j) \in v1'
        <5>1. CASE j = id
          BY <4>5, <4>6, <5>1
        <5>2. CASE j # id
          <6>1. RecordOf(v2, j).id = j /\ j # 0 /\ RecordOf(v2, j) \in v1
            BY <1>2, SeqIs DEF RecordOf
          <6> QED BY <2>3, <4>6, <5>2, <6>1
        <5> QED BY <5>1, <5>2
      <4> QED BY <4>5, <4>6, <4>7
    <3>3. CASE ~(Len(r.srcs) < Len(srcs))
      <4>1. [r EXCEPT !.id = id] = r
        BY <2>2, <2>3
      <4>2. v1' = v1
        BY <2>1, <2>2, <3>3, <4>1 DEF Mpn!Replace, Mpn!ReplaceOnly
      <4>3. by = "dst" => RecordOf(v2, id) = r
        <5>1. by = "dst" => r.srcs = s
          <6>1. Len(r.srcs) \in Nat /\ Len(s) \in Nat /\ Len(r.srcs) <= Len(s) /\ (Len(r.srcs) = Len(s) => r.srcs = s)
            BY <1>2, <3>1, LongAs
          <6> QED BY <1>3, <3>3, <6>1
        <5> QED BY <2>2, <2>3, <5>1 DEF RecordOf
      <4> QED BY <1>2, <2>2, <4>2, <4>3
    <3> QED BY <3>2, <3>3
  <2>4. CASE r.id # id
    <3> DEFINE new == [r EXCEPT !.id = id]
    <3>1. r.srcs = srcs /\ \A q \in v1 : q.id # id
      BY <1>5, <2>1, <2>4
    <3>2. new = [id |-> id, srcs |-> srcs]
      BY <2>2, <3>1
    <3>3. v1' = Mpn!Replace(r, new)
      BY <2>1, <2>4
    <3> HIDE DEF new
    <3>4. \A q \in v1 : q # r => q.srcs # new.srcs
      BY <1>2, <2>2, <3>1, <3>2 DEF RecordsAre
    <3>5. new \in [id : DOMAIN v2, srcs : Names] /\ new.id = id /\ new.srcs \in Parts(v2[id])
      BY <1>3, <1>4, <3>2
    <3>6. RecordsAre(v1', v2) /\ new \in v1' /\ \A q \in v1 : q # r /\ q.id # 0 => q \in v1'
      BY <1>2, <2>2, <3>1, <3>3, <3>4, <3>5, ReplaceIs
    <3>7. ASSUME NEW j \in v4
          PROVE  RecordOf(v2, j) \in v1'
      <4>1. RecordOf(v2, j) \in v1 /\ RecordOf(v2, j).id = j /\ RecordOf(v2, j).srcs = v2[j] /\ j # 0 /\ j \in DOMAIN v2
        BY <1>2, SeqIs DEF RecordOf
      <4>2. RecordOf(v2, j) # r
        <5> SUFFICES ASSUME RecordOf(v2, j) = r
                     PROVE  FALSE
          OBVIOUS
        <5>1. r.id = j /\ srcs = v2[j] /\ r.id # 0
          BY <3>1, <4>1
        <5>2. by = "dst"
          BY <1>1, <1>5, <2>2, <3>1, <5>1
        <5>3. v2[j] = v2[id]
          BY <1>3, <5>1, <5>2
        <5> QED BY <1>2, <2>4, <4>1, <5>1, <5>3
      <4> QED BY <3>6, <4>1, <4>2
    <3>8. by = "dst" => RecordOf(v2, id) = new
      BY <1>3, <3>2 DEF RecordOf
    <3> QED BY <3>6, <3>7, <3>8
  <2> QED BY <2>3, <2>4
<1> QED BY <1>7, <1>8

LEMMA MapNamesStep ==
    ASSUME MapNamesInv, Mpn!Next
    PROVE  MapNamesInv'
  BY MapNewKeeps, HandlerMapKeeps, ReceiveMapKeeps DEF Mpn!Next

LEMMA MapNamesRight ==
    ASSUME MapNamesInv
    PROVE  Mpn!ToldRight /\ Mpn!OneMapEach
<1>1. RecordsAre(v1, v2) /\ v2 \in Seq(Names) /\ (\A i, j \in DOMAIN v2 : v2[i] = v2[j] => i = j)
      /\ v4 \subseteq DOMAIN v2 /\ \A j \in v4 : RecordOf(v2, j) \in v1
  BY DEF MapNamesInv
<1>2. Mpn!ToldRight
  <2> SUFFICES ASSUME NEW id \in v4
               PROVE  {r \in v1 : r.id = id \/ r.srcs = v2[id]} = {[id |-> id, srcs |-> v2[id]]}
    BY DEF Mpn!ToldRight
  <2> DEFINE k == [id |-> id, srcs |-> v2[id]]
  <2>1. k \in v1 /\ k.id = id /\ k.srcs = v2[id] /\ id # 0
    BY <1>1, SeqIs DEF RecordOf
  <2> HIDE DEF k
  <2>2. \A r \in v1 : r.id = id \/ r.srcs = v2[id] => r = k
    BY <1>1, <2>1 DEF RecordsAre
  <2>3. {r \in v1 : r.id = id \/ r.srcs = v2[id]} = {k}
    BY <2>1, <2>2
  <2> QED BY <2>3 DEF k
<1>3. ASSUME NEW i \in DOMAIN v2, NEW j \in DOMAIN v2, Mpn!Range(v2[i]) = Mpn!Range(v2[j])
      PROVE  i = j
  <2>1. v2[i] \in Names /\ v2[j] \in Names
    BY <1>1, SeqIs
  <2>2. Elems(v2[i]) = Elems(v2[j])
    BY <1>3 DEF Mpn!Range, Elems
  <2> QED BY <1>1, <2>1, <2>2, SameNames
<1>4. ASSUME NEW words \in v3
      PROVE  Mpn!Alphabetical(Mpn!ParseSigNames(words))
  <2>1. PICK s \in Names : words = Mpn!Words(s, FALSE)
    BY DEF MapNamesInv
  <2> QED BY <2>1, ParseAsked, NamesHave
<1>5. Mpn!OneMapEach
  <2> DEFINE f == [i \in DOMAIN v2 |-> Mpn!Range(v2[i])]
  <2>1. \A i, j \in DOMAIN f : f[i] = f[j] => i = j
    BY <1>3
  <2> HIDE DEF f
  <2>2. Mpn!IsInjective(f)
    BY <2>1 DEF Mpn!IsInjective
  <2> QED BY <1>4, <2>2 DEF Mpn!OneMapEach, f
<1> QED BY <1>2, <1>5

-----------------------------------------------------------------------------
(* Object lists: a forest of headers, and walks along a chain of objects.  *)

\* Chains: the objects of one, and those that a walk has found, from the newest on.
Down(s) == \A m, n \in DOMAIN s : m < n => s[m] > s[n]
Chains == {s \in Seq(Objs) : Down(s)}

Ids == Lst!Ids
Kinds == {"leaf", "union", "isect", "diff"}
Headers == [kind : Kinds, set : SUBSET Objs, l : Ids \cup {0}, r : Ids \cup {0},
            at : Objs \cup {0}, seen : Chains, due : SUBSET Objs]
Heaps == [Ids -> Headers \cup {Lst!Freed}]

LEMMA LstSizes == \A S : Lst!Cardinality(S) = Cardinality(S)
  BY DEF Lst!Cardinality, Cardinality

LEMMA LiveIs ==
    ASSUME NEW h \in Heaps, NEW i \in Ids
    PROVE  /\ i \in Lst!Live(h) <=> h[i].kind # "freed"
           /\ i \in Lst!Live(h) <=> h[i] \in Headers
           /\ i \notin Lst!Live(h) <=> h[i] = Lst!Freed
<1>1. h[i] \in Headers => h[i].kind \in Kinds
  BY DEF Headers
<1>2. Lst!Freed.kind = "freed"
  BY DEF Lst!Freed
<1>3. h[i] \in Headers \/ h[i] = Lst!Freed
  BY DEF Heaps
<1> QED BY <1>1, <1>2, <1>3 DEF Lst!Live, Ids, Kinds

\* What a header has for components is on the heap, and below nothing else.
Sound(h) == \A j \in Lst!Live(h) : Lst!Components(h, j) \subseteq Lst!Live(h)
Closed(h, S) == \A j \in S : Lst!Components(h, j) \subseteq S

LEMMA BelowHas ==
    ASSUME NEW h, Sound(h), NEW i \in Lst!Live(h)
    PROVE  /\ i \in Lst!Below(h, i) /\ Lst!Below(h, i) \subseteq Lst!Live(h)
           /\ Closed(h, Lst!Below(h, i))
<1> DEFINE B == Lst!Below(h, i)
           C == {S \in SUBSET Lst!Live(h) : i \in S /\ Closed(h, S)}
<1>1. B = {j \in Lst!Live(h) : \A S \in C : j \in S}
  BY DEF Lst!Below, Closed
<1>2. ASSUME NEW j \in B, NEW k \in Lst!Components(h, j)
      PROVE  k \in B
  <2>1. k \in Lst!Live(h)
    BY <1>1, <1>2 DEF Sound
  <2>2. \A S \in C : k \in S
    BY <1>1, <1>2 DEF Closed
  <2> QED BY <1>1, <2>1, <2>2
<1>3. i \in B /\ B \subseteq Lst!Live(h)
  BY <1>1
<1> HIDE DEF B
<1> QED BY <1>2, <1>3 DEF Closed, B

LEMMA BelowLeast ==
    ASSUME NEW h, NEW i, NEW S \in SUBSET Lst!Live(h), i \in S, Closed(h, S)
    PROVE  Lst!Below(h, i) \subseteq S
  BY DEF Lst!Below, Closed

\* Headers that are the same but for their walks.
Alike(v, w) == v.kind = w.kind /\ v.set = w.set /\ v.l = w.l /\ v.r = w.r

LEMMA ComponentsSame ==
    ASSUME NEW h, NEW n, NEW j, n[j].kind = h[j].kind, n[j].l = h[j].l, n[j].r = h[j].r
    PROVE  Lst!Components(n, j) = Lst!Components(h, j)
  BY DEF Lst!Components

LEMMA BelowSame ==
    ASSUME NEW h, Sound(h), NEW n, Sound(n), NEW i \in Lst!Live(h), i \in Lst!Live(n),
           \A k \in Lst!Below(h, i) : k \in Lst!Live(n) /\ Lst!Components(n, k) = Lst!Components(h, k)
    PROVE  Lst!Below(n, i) = Lst!Below(h, i)
<1> DEFINE B == Lst!Below(h, i)
           C == Lst!Below(n, i)
<1>1. i \in B /\ B \subseteq Lst!Live(h) /\ Closed(h, B) /\ i \in C /\ Closed(n, C)
  BY BelowHas
<1>2. B \subseteq Lst!Live(n) /\ Closed(n, B)
  BY <1>1 DEF Closed
<1>3. C \subseteq B
  BY <1>1, <1>2, BelowLeast
<1>4. C \subseteq Lst!Live(h) /\ Closed(h, C)
  <2> HIDE DEF C
  <2> QED BY <1>1, <1>3 DEF Closed
<1>5. B \subseteq C
  BY <1>1, <1>4, BelowLeast
<1> QED BY <1>3, <1>5

\* Each header has one above it, or is a root; and every one is below a root.
Forest(h, T) ==
    /\ h \in Heaps /\ Sound(h)
    /\ T \subseteq Lst!Live(h)
    /\ \A j \in Lst!Live(h) : Lst!Components(h, j) \cap T = {}
    /\ \A j, k \in Lst!Live(h) : j # k => Lst!Components(h, j) \cap Lst!Components(h, k) = {}
    /\ \A j \in Lst!Live(h) : \E i \in T : j \in Lst!Below(h, i)

\* What is above a header below i is below i.
LEMMA AboveBelow ==
    ASSUME NEW h, NEW T, Forest(h, T), NEW i \in T, NEW j \in Lst!Live(h),
           NEW c \in Lst!Components(h, j), c \in Lst!Below(h, i)
    PROVE  j \in Lst!Below(h, i)
<1> SUFFICES ASSUME j \notin Lst!Below(h, i)
             PROVE  FALSE
  OBVIOUS
<1> DEFINE B == Lst!Below(h, i)
<1>1. i \in B /\ B \subseteq Lst!Live(h) /\ Closed(h, B)
  BY BelowHas DEF Forest
<1>2. i # c
  BY DEF Forest
<1>3. ASSUME NEW k \in B \ {c}
      PROVE  Lst!Components(h, k) \subseteq B \ {c}
  <2>1. k # j /\ k \in Lst!Live(h)
    BY <1>1
  <2>2. c \notin Lst!Components(h, k)
    BY <2>1 DEF Forest
  <2> QED BY <1>1, <1>3, <2>2 DEF Closed
<1>4. B \subseteq B \ {c}
  <2>1. i \in B \ {c} /\ B \ {c} \in SUBSET Lst!Live(h) /\ Closed(h, B \ {c})
    BY <1>1, <1>2, <1>3 DEF Closed
  <2> QED BY <2>1, BelowLeast
<1> QED BY <1>4

LEMMA BelowApart ==
    ASSUME NEW h, NEW T, Forest(h, T), NEW i \in T, NEW k \in T, i # k
    PROVE  Lst!Below(h, i) \cap Lst!Below(h, k) = {}
<1> DEFINE B == Lst!Below(h, i)
           C == Lst!Below(h, k)
<1>1. /\ i \in B /\ B \subseteq Lst!Live(h) /\ Closed(h, B)
      /\ k \in C /\ C \subseteq Lst!Live(h) /\ Closed(h, C)
  BY BelowHas DEF Forest
<1>2. i \notin C
  <2>1. ASSUME NEW m \in C \ {i}
        PROVE  Lst!Components(h, m) \subseteq C \ {i}
    BY <1>1, <2>1 DEF Forest, Closed
  <2>2. k \in C \ {i} /\ C \ {i} \in SUBSET Lst!Live(h) /\ Closed(h, C \ {i})
    BY <1>1, <2>1 DEF Closed
  <2>3. C \subseteq C \ {i}
    BY <2>2, BelowLeast
  <2> QED BY <2>3
<1>3. ASSUME NEW m \in B \ C
      PROVE  Lst!Components(h, m) \subseteq B \ C
  <2>1. m \in Lst!Live(h) /\ Lst!Components(h, m) \subseteq B
    BY <1>1 DEF Closed
  <2>2. ASSUME NEW c \in Lst!Components(h, m), c \in C
        PROVE  FALSE
    BY <2>1, <2>2, AboveBelow
  <2> QED BY <2>1, <2>2
<1>4. B \subseteq B \ C
  <2>1. i \in B \ C /\ B \ C \in SUBSET Lst!Live(h) /\ Closed(h, B \ C)
    BY <1>1, <1>2, <1>3 DEF Closed
  <2> QED BY <2>1, BelowLeast
<1> QED BY <1>4

LEMMA SameKeeps ==
    ASSUME NEW h, NEW T, Forest(h, T), NEW n \in Heaps, \A j \in Ids : Alike(n[j], h[j])
    PROVE  /\ Forest(n, T) /\ Lst!Live(n) = Lst!Live(h)
           /\ \A i \in Lst!Live(h) : Lst!Below(n, i) = Lst!Below(h, i)
<1>1. Lst!Live(n) = Lst!Live(h)
  BY DEF Alike, Lst!Live, Ids
<1>2. \A j \in Lst!Live(h) : Lst!Components(n, j) = Lst!Components(h, j)
  <2>1. ASSUME NEW j \in Lst!Live(h)
        PROVE  Lst!Components(n, j) = Lst!Components(h, j)
    <3>1. j \in Ids
      BY DEF Lst!Live, Ids
    <3> QED BY <3>1, ComponentsSame DEF Alike
  <2> QED BY <2>1
<1>3. Sound(n) /\ Sound(h)
  BY <1>1, <1>2 DEF Forest, Sound
<1>4. ASSUME NEW i \in Lst!Live(h)
      PROVE  Lst!Below(n, i) = Lst!Below(h, i)
  <2>1. \A k \in Lst!Below(h, i) : k \in Lst!Live(n) /\ Lst!Components(n, k) = Lst!Components(h, k)
    BY <1>1, <1>2, <1>3, BelowHas
  <2> QED BY <1>1, <1>3, <2>1, BelowSame
<1>5. Forest(n, T)
  BY <1>1, <1>2, <1>3, <1>4 DEF Forest
<1> QED BY <1>1, <1>4, <1>5

\* A list is freed with its components, and nothing of another list is.
LEMMA FreeKeeps ==
    ASSUME NEW h, NEW T, Forest(h, T), NEW i \in T, NEW n, n = Lst!FreeAll(h, i)
    PROVE  /\ Forest(n, T \ {i}) /\ n[i] = Lst!Freed /\ i \in Ids
           /\ \A k \in T \ {i} : /\ Lst!Below(n, k) = Lst!Below(h, k)
                                 /\ \A j \in Lst!Below(h, k) : n[j] = h[j]
<1> DEFINE B == Lst!Below(h, i)
<1>1. i \in B /\ B \subseteq Lst!Live(h) /\ Closed(h, B) /\ Sound(h) /\ h \in Heaps /\ T \subseteq Lst!Live(h)
  BY BelowHas DEF Forest
<1>2. Lst!Live(h) \subseteq Ids
  BY DEF Lst!Live, Ids
<1>3. n = [j \in Ids |-> IF j \in B THEN Lst!Freed ELSE h[j]]
  BY DEF Lst!FreeAll, Ids
<1> HIDE DEF B
<1>4. n \in Heaps
  BY <1>1, <1>3 DEF Heaps
<1>5. Lst!Live(n) = Lst!Live(h) \ B
  <2>1. ASSUME NEW j \in Ids
        PROVE  j \in Lst!Live(n) <=> j \in Lst!Live(h) \ B
    <3>1. CASE j \in B
      BY <1>1, <1>3, <1>4, <3>1, LiveIs
    <3>2. CASE j \notin B
      <4>1. n[j] = h[j]
        BY <1>3, <3>2
      <4> QED BY <1>1, <1>4, <3>2, <4>1, LiveIs
    <3> QED BY <3>1, <3>2
  <2> QED BY <1>2, <2>1 DEF Lst!Live, Ids
<1>6. \A j \in Lst!Live(n) : n[j] = h[j] /\ Lst!Components(n, j) = Lst!Components(h, j)
  <2>1. ASSUME NEW j \in Lst!Live(n)
        PROVE  n[j] = h[j]
    BY <1>2, <1>3, <1>5
  <2> QED BY <2>1, ComponentsSame
<1>7. Sound(n)
  <2>1. ASSUME NEW j \in Lst!Live(n), NEW c \in Lst!Components(h, j), c \in B
        PROVE  FALSE
    <3>1. j \in Lst!Live(h) /\ j \notin B
      BY <1>5
    <3> QED BY <2>1, <3>1, AboveBelow DEF B
  <2> QED BY <1>1, <1>5, <1>6, <2>1 DEF Sound
<1>8. ASSUME NEW k \in T \ {i}
      PROVE  Lst!Below(n, k) = Lst!Below(h, k) /\ k \in Lst!Live(n) /\ \A j \in Lst!Below(h, k) : n[j] = h[j]
  <2>1. Lst!Below(h, k) \cap B = {}
    BY BelowApart DEF B
  <2>2. k \in Lst!Below(h, k) /\ Lst!Below(h, k) \subseteq Lst!Live(h)
    BY <1>1, BelowHas
  <2>3. k \in Lst!Live(n) /\ \A j \in Lst!Below(h, k) : j \in Lst!Live(n)
    BY <1>5, <2>1, <2>2
  <2>4. Lst!Below(n, k) = Lst!Below(h, k)
    BY <1>1, <1>6, <1>7, <2>3, BelowSame
  <2> QED BY <1>6, <2>3, <2>4
<1>9. \A j \in Lst!Live(n) : \E k \in T \ {i} : j \in Lst!Below(n, k)
  <2>1. ASSUME NEW j \in Lst!Live(n)
        PROVE  \E k \in T \ {i} : j \in Lst!Below(n, k)
    <3>1. PICK k \in T : j \in Lst!Below(h, k)
      BY <1>5 DEF Forest
    <3>2. k # i
      BY <1>5, <3>1 DEF B
    <3> QED BY <1>8, <3>1, <3>2
  <2> QED BY <2>1
<1>10. Forest(n, T \ {i})
  BY <1>4, <1>5, <1>6, <1>7, <1>8, <1>9 DEF Forest
<1>11. n[i] = Lst!Freed /\ i \in Ids
  BY <1>1, <1>2, <1>3
<1> QED BY <1>8, <1>10, <1>11

\* One more header that nothing is above.
LEMMA AddedKeeps ==
    ASSUME NEW h, NEW T, Forest(h, T), NEW i \in Ids \ Lst!Live(h),
           NEW n \in Heaps, n[i] \in Headers, \A j \in Ids \ {i} : n[j] = h[j],
           NEW C, C = Lst!Components(n, i), C \subseteq T
    PROVE  /\ Forest(n, (T \ C) \cup {i}) /\ Lst!Live(n) = Lst!Live(h) \cup {i}
           /\ \A k \in Lst!Live(h) : Lst!Below(n, k) = Lst!Below(h, k) /\ n[k] = h[k]
<1>1. h \in Heaps /\ Sound(h) /\ T \subseteq Lst!Live(h) /\ \A j \in Ids : j # i => n[j] = h[j]
  BY DEF Forest
<1>2. n \in Heaps
  OBVIOUS
<1>3. Lst!Live(n) = Lst!Live(h) \cup {i} /\ Lst!Live(h) \subseteq Ids
  <2>1. ASSUME NEW j \in Ids
        PROVE  j \in Lst!Live(n) <=> j \in Lst!Live(h) \cup {i}
    BY <1>1, <1>2, LiveIs
  <2>2. Lst!Live(h) \subseteq Ids /\ Lst!Live(n) \subseteq Ids
    BY DEF Lst!Live, Ids
  <2> QED BY <2>1, <2>2
<1>4. \A j \in Lst!Live(h) : n[j] = h[j] /\ Lst!Components(n, j) = Lst!Components(h, j)
  <2>1. ASSUME NEW j \in Lst!Live(h)
        PROVE  n[j] = h[j]
    BY <1>1, <1>3
  <2> QED BY <2>1, ComponentsSame
<1>5. Sound(n)
  BY <1>1, <1>3, <1>4 DEF Sound
<1>6. ASSUME NEW k \in Lst!Live(h)
      PROVE  Lst!Below(n, k) = Lst!Below(h, k)
  <2>1. \A j \in Lst!Below(h, k) : j \in Lst!Live(n) /\ Lst!Components(n, j) = Lst!Components(h, j)
    BY <1>1, <1>3, <1>4, BelowHas
  <2> QED BY <1>1, <1>3, <1>5, <2>1, BelowSame
<1> DEFINE Q == (T \ C) \cup {i}
<1>7. Q \subseteq Lst!Live(n)
  BY <1>1, <1>3
<1>8. \A j \in Lst!Live(n) : Lst!Components(n, j) \cap Q = {}
  <2>1. ASSUME NEW j \in Lst!Live(h)
        PROVE  Lst!Components(n, j) \cap Q = {}
    BY <1>1, <1>4, <2>1 DEF Forest, Sound
  <2>2. C \cap Q = {}
    BY <1>1
  <2> QED BY <1>3, <2>1, <2>2
<1>9. \A j, k \in Lst!Live(n) : j # k => Lst!Components(n, j) \cap Lst!Components(n, k) = {}
  <2>1. \A j \in Lst!Live(h) : Lst!Components(n, j) \cap C = {}
    BY <1>4 DEF Forest
  <2>2. \A j, k \in Lst!Live(h) : j # k => Lst!Components(n, j) \cap Lst!Components(n, k) = {}
    BY <1>4 DEF Forest
  <2> QED BY <1>3, <2>1, <2>2
<1>10. i \in Lst!Below(n, i) /\ Closed(n, Lst!Below(n, i))
  BY <1>3, <1>5, BelowHas
<1>11. ASSUME NEW c \in C
       PROVE  Lst!Below(h, c) \subseteq Lst!Below(n, i)
  <2>1. c \in Lst!Below(n, i) /\ c \in Lst!Live(h)
    BY <1>1, <1>10 DEF Closed
  <2> DEFINE S == Lst!Below(n, i) \cap Lst!Live(h)
  <2>2. Closed(h, S)
    BY <1>1, <1>4, <1>10 DEF Closed, Sound
  <2>3. c \in S /\ S \in SUBSET Lst!Live(h)
    BY <2>1
  <2> HIDE DEF S
  <2>4. Lst!Below(h, c) \subseteq S
    BY <2>2, <2>3, BelowLeast
  <2> QED BY <2>4 DEF S
<1>12. \A j \in Lst!Live(n) : \E k \in Q : j \in Lst!Below(n, k)
  <2>1. ASSUME NEW j \in Lst!Live(h)
        PROVE  \E k \in Q : j \in Lst!Below(n, k)
    <3>1. PICK k \in T : j \in Lst!Below(h, k)
      BY DEF Forest
    <3>2. CASE k \in C
      BY <1>11, <3>1, <3>2
    <3>3. CASE k \notin C
      BY <1>1, <1>6, <3>1, <3>3
    <3> QED BY <3>2, <3>3
  <2>2. i \in Q
    OBVIOUS
  <2> HIDE DEF Q
  <2> QED BY <1>3, <1>10, <2>1, <2>2
<1>13. Forest(n, Q)
  <2> HIDE DEF Q
  <2> QED BY <1>2, <1>5, <1>7, <1>8, <1>9, <1>12 DEF Forest
<1> QED BY <1>3, <1>4, <1>6, <1>13


\* The conditions to a depth, each from those one level down.
LEMMA AcceptsInTurn ==
    ASSUME NEW h
    PROVE  \E f : /\ f[0] = [j \in Ids |-> {}] /\ \A i : f[MaxHeaders][i] = Lst!Accepts(h, i)
                  /\ \A d \in 1 .. MaxHeaders : f[d] = Lst!Asked(f[d - 1], h)
<1> DEFINE none == [j \in Ids |-> {}]
           Is(k, g) == g = [d \in 0 .. k |-> IF d = 0 THEN none ELSE Lst!Asked(g[d - 1], h)]
           P == {k \in Nat : \E g : Is(k, g)}
<1>0. ASSUME NEW i
      PROVE  Lst!Accepts(h, i) = (CHOOSE g : Is(MaxHeaders, g))[MaxHeaders][i]
  BY DEF Lst!Accepts, Ids
<1>1. 0 \in P
  <2>1. Is(0, [d \in 0 .. 0 |-> none])
    OBVIOUS
  <2> QED BY <2>1
<1>2. ASSUME NEW k \in Nat, k \in P
      PROVE  k + 1 \in P
  <2> HIDE DEF none
  <2>1. PICK g : Is(k, g)
    BY <1>2
  <2> DEFINE n == [d \in 0 .. k + 1 |-> IF d = k + 1 THEN Lst!Asked(g[k], h) ELSE g[d]]
  <2>2. \A d \in 0 .. k + 1 : n[d] = IF d = 0 THEN none ELSE Lst!Asked(n[d - 1], h)
    <3> SUFFICES ASSUME NEW d \in 0 .. k + 1
                 PROVE  n[d] = IF d = 0 THEN none ELSE Lst!Asked(n[d - 1], h)
      OBVIOUS
    <3>1. CASE d = k + 1
      BY <3>1
    <3>2. CASE d # k + 1 /\ d # 0
      <4>1. d \in 0 .. k /\ d - 1 \in 0 .. k /\ d - 1 # k + 1
        BY <3>2
      <4>2. n[d] = g[d] /\ n[d - 1] = g[d - 1]
        BY <4>1
      <4>3. g[d] = Lst!Asked(g[d - 1], h)
        BY <2>1, <3>2, <4>1
      <4> QED BY <3>2, <4>2, <4>3
    <3>3. CASE d = 0
      BY <2>1, <3>3
    <3> QED BY <3>1, <3>2, <3>3
  <2>3. Is(k + 1, n)
    BY <2>2
  <2> HIDE DEF n
  <2> QED BY <2>3
<1>3. MaxHeaders \in P
  <2> HIDE DEF P
  <2> QED BY <1>1, <1>2, SetInduction, ListsAssumption
<1> DEFINE f == CHOOSE g : Is(MaxHeaders, g)
<1>4. Is(MaxHeaders, f)
  BY <1>3
<1>5. \A i : f[MaxHeaders][i] = Lst!Accepts(h, i)
  BY <1>0
<1> HIDE DEF f
<1> HIDE DEF none
<1>6. f[0] = none
  BY <1>4, ListsAssumption
<1>7. \A d \in 1 .. MaxHeaders : f[d] = Lst!Asked(f[d - 1], h)
  BY <1>4, ListsAssumption
<1> QED BY <1>5, <1>6, <1>7 DEF none

\* Headers of the same kind, with the same conditions below them, accept the same.
LEMMA AcceptsAlike ==
    ASSUME NEW h, NEW n, NEW Q \in SUBSET (Ids \X Ids),
           \A q \in Q : LET v == h[q[1]]
                            w == n[q[2]]
                        IN  /\ v.kind = w.kind /\ v.set = w.set
                            /\ v.kind \in Lst!Ops => <<v.l, w.l>> \in Q /\ <<v.r, w.r>> \in Q,
           NEW i, NEW k, <<i, k>> \in Q
    PROVE  Lst!Accepts(h, i) = Lst!Accepts(n, k)
<1>1. PICK f : /\ f[0] = [j \in Ids |-> {}] /\ \A j : f[MaxHeaders][j] = Lst!Accepts(h, j)
               /\ \A d \in 1 .. MaxHeaders : f[d] = Lst!Asked(f[d - 1], h)
  BY AcceptsInTurn
<1>2. PICK g : /\ g[0] = [j \in Ids |-> {}] /\ \A j : g[MaxHeaders][j] = Lst!Accepts(n, j)
               /\ \A d \in 1 .. MaxHeaders : g[d] = Lst!Asked(g[d - 1], n)
  BY AcceptsInTurn
<1> DEFINE P == {d \in Nat : d <= MaxHeaders => \A q \in Q : f[d][q[1]] = g[d][q[2]]}
<1>3. 0 \in P
  <2>1. \A q \in Q : q[1] \in Ids /\ q[2] \in Ids
    OBVIOUS
  <2>2. f[0] = [j \in Ids |-> {}] /\ g[0] = [j \in Ids |-> {}]
    BY <1>1, <1>2
  <2>3. \A q \in Q : f[0][q[1]] = {} /\ g[0][q[2]] = {}
    BY <2>1, <2>2
  <2> QED BY <2>3
<1>4. ASSUME NEW d \in Nat, d \in P
      PROVE  d + 1 \in P
  <2> SUFFICES ASSUME d + 1 <= MaxHeaders, NEW q \in Q
               PROVE  f[d + 1][q[1]] = g[d + 1][q[2]]
    OBVIOUS
  <2>1. d + 1 \in 1 .. MaxHeaders /\ (d + 1) - 1 = d /\ d <= MaxHeaders
    BY ListsAssumption
  <2>2. f[d + 1] = Lst!Asked(f[d], h) /\ g[d + 1] = Lst!Asked(g[d], n)
    BY <1>1, <1>2, <2>1
  <2> DEFINE v == h[q[1]]
             w == n[q[2]]
             F == f[d]
             G == g[d]
  <2>3. q[1] \in Ids /\ q[2] \in Ids
    OBVIOUS
  <2>4. /\ v.kind = w.kind /\ v.set = w.set
        /\ v.kind \in Lst!Ops => <<v.l, w.l>> \in Q /\ <<v.r, w.r>> \in Q
    OBVIOUS
  <2>5. v.kind \in Lst!Ops => F[v.l] = G[w.l] /\ F[v.r] = G[w.r]
    <3>1. \A x, y : <<x, y>> \in Q => F[x] = G[y]
      BY <1>4, <2>1
    <3> HIDE DEF F, G, v, w
    <3> QED BY <2>4, <3>1
  <2>6. Lst!Asked(F, h)[q[1]] = CASE v.kind = "freed" -> {}
                                   [] v.kind = "leaf" -> v.set
                                   [] v.kind = "union" -> F[v.l] \cup F[v.r]
                                   [] v.kind = "isect" -> F[v.l] \cap F[v.r]
                                   [] v.kind = "diff" -> F[v.l] \ F[v.r]
    BY <2>3 DEF Lst!Asked, Ids
  <2>7. Lst!Asked(G, n)[q[2]] = CASE w.kind = "freed" -> {}
                                   [] w.kind = "leaf" -> w.set
                                   [] w.kind = "union" -> G[w.l] \cup G[w.r]
                                   [] w.kind = "isect" -> G[w.l] \cap G[w.r]
                                   [] w.kind = "diff" -> G[w.l] \ G[w.r]
    BY <2>3 DEF Lst!Asked, Ids
  <2> HIDE DEF F, G, v, w
  <2>8. Lst!Asked(F, h)[q[1]] = Lst!Asked(G, n)[q[2]]
    BY <2>4, <2>5, <2>6, <2>7 DEF Lst!Ops
  <2> QED BY <2>2, <2>8 DEF F, G
<1> HIDE DEF P
<1>5. MaxHeaders \in P
  BY <1>3, <1>4, SetInduction, ListsAssumption
<1>6. \A q \in Q : f[MaxHeaders][q[1]] = g[MaxHeaders][q[2]]
  BY <1>5, ListsAssumption DEF P
<1>7. f[MaxHeaders][i] = g[MaxHeaders][k]
  <2> DEFINE q == <<i, k>>
  <2>1. q \in Q /\ q[1] = i /\ q[2] = k
    OBVIOUS
  <2> QED BY <1>6, <2>1
<1> QED BY <1>1, <1>2, <1>7

\* What a list accepts is up to the headers below it.
LEMMA AcceptsSame ==
    ASSUME NEW h, Sound(h), NEW n, NEW i \in Lst!Live(h), \A j \in Lst!Below(h, i) : Alike(n[j], h[j])
    PROVE  Lst!Accepts(n, i) = Lst!Accepts(h, i)
<1> DEFINE B == Lst!Below(h, i)
           Q == {q \in Ids \X Ids : q[1] \in B /\ q[2] = q[1]}
<1>1. i \in B /\ B \subseteq Lst!Live(h) /\ Closed(h, B)
  BY BelowHas
<1>2. B \subseteq Ids
  BY <1>1 DEF Lst!Live, Ids
<1>3. \A j \in B : h[j].kind \in Lst!Ops => h[j].l \in B /\ h[j].r \in B
  BY <1>1 DEF Closed, Lst!Components
<1>4. \A j \in B : /\ h[j].kind = n[j].kind /\ h[j].set = n[j].set
                   /\ h[j].l = n[j].l /\ h[j].r = n[j].r
  BY DEF Alike
<1> HIDE DEF B
<1>5. Q \in SUBSET (Ids \X Ids)
  OBVIOUS
<1>6. \A j \in B : <<j, j>> \in Q
  BY <1>2
<1>7. \A q \in Q : LET v == h[q[1]]
                       w == n[q[2]]
                   IN  /\ v.kind = w.kind /\ v.set = w.set
                       /\ v.kind \in Lst!Ops => <<v.l, w.l>> \in Q /\ <<v.r, w.r>> \in Q
  <2>1. ASSUME NEW q \in Q
        PROVE  q[1] \in B /\ q[2] = q[1]
    OBVIOUS
  <2> HIDE DEF Q
  <2> QED BY <1>3, <1>4, <1>6, <2>1
<1>8. <<i, i>> \in Q
  BY <1>1, <1>6
<1> HIDE DEF Q
<1>9. Lst!Accepts(h, i) = Lst!Accepts(n, i)
  BY <1>5, <1>7, <1>8, AcceptsAlike
<1> QED BY <1>9

LEMMA ChainIs ==
    ASSUME NEW s \in Chains
    PROVE  /\ s \in Arrays(Objs) /\ Len(s) \in Nat /\ DOMAIN s = 1 .. Len(s) /\ Elems(s) \subseteq Objs
           /\ \A m \in 1 .. Len(s) : s[m] \in Objs /\ s[m] \in Int
<1>1. /\ s \in Seq(Objs) /\ Len(s) \in Nat /\ DOMAIN s = 1 .. Len(s) /\ Elems(s) \subseteq Objs
      /\ \A m \in 1 .. Len(s) : s[m] \in Objs /\ s[m] \in Int
  BY SeqIs, ListsAssumption DEF Chains
<1>2. ASSUME NEW m \in DOMAIN s, NEW n \in DOMAIN s, s[m] = s[n]
      PROVE  m = n
  <2>1. ~(m < n) /\ ~(n < m)
    BY <1>1, <1>2 DEF Chains, Down
  <2> QED BY <1>1, <2>1
<1> QED BY <1>1, <1>2 DEF Arrays, OnceEach

LEMMA ShortChain ==
    ASSUME NEW s \in Chains, NEW n \in Seq(Objs), NEW k \in 1 .. Len(s), Shorter(s, n, k)
    PROVE  n \in Chains /\ Elems(n) = Elems(s) \ {s[k]}
<1>1. s \in Arrays(Objs) /\ Len(s) \in Nat /\ DOMAIN s = 1 .. Len(s)
  BY ChainIs
<1>2. DOMAIN n = 1 .. Len(s) - 1
  BY <1>1, SeqIs DEF Shorter
<1> DEFINE at(j) == IF j < k THEN j ELSE j + 1
<1>3. \A j \in DOMAIN n : at(j) \in DOMAIN s /\ n[j] = s[at(j)]
  BY <1>1, <1>2 DEF Shorter
<1>4. ASSUME NEW i \in DOMAIN n, NEW j \in DOMAIN n, i < j
      PROVE  n[i] > n[j]
  <2>1. at(i) < at(j)
    BY <1>1, <1>2, <1>4
  <2> HIDE DEF at
  <2> QED BY <1>3, <2>1 DEF Chains, Down
<1>5. n \in Chains
  BY <1>4 DEF Chains, Down
<1>6. Elems(n) = Elems(s) \ {s[k]}
  BY <1>1, ShorterIs
<1> QED BY <1>5, <1>6

\* mpr_list_remove_item.
LEMMA RemovedIs ==
    ASSUME NEW s \in Chains, NEW o, NEW r, r = Lst!Without(s, o)
    PROVE  r \in Chains /\ Elems(r) = Elems(s) \ {o}
<1>1. Len(s) \in Nat /\ DOMAIN s = 1 .. Len(s) /\ s \in Seq(Objs)
  BY ChainIs DEF Chains
<1>2. Lst!Range(s) = Elems(s)
  BY DEF Lst!Range, Elems
<1>3. CASE o \notin Elems(s)
  <2>1. r = s
    BY <1>2, <1>3 DEF Lst!Without
  <2> QED BY <1>3, <2>1
<1>4. CASE o \in Elems(s)
  <2> DEFINE k == CHOOSE x \in DOMAIN s : s[x] = o
  <2>1. k \in DOMAIN s /\ s[k] = o
    BY <1>4 DEF Elems
  <2>2. r = Nam!Without(s, k)
    BY <1>2, <1>4 DEF Lst!Without, Nam!Without
  <2> HIDE DEF k
  <2>3. k \in 1 .. Len(s)
    BY <1>1, <2>1
  <2>4. r \in Seq(Objs) /\ Shorter(s, r, k)
    BY <1>1, <2>2, <2>3, CutOutIs
  <2> QED BY <2>1, <2>3, <2>4, ShortChain
<1> QED BY <1>3, <1>4

\* mpr_list_add_item.
LEMMA FrontChain ==
    ASSUME NEW s \in Chains, NEW o \in Objs, \A x \in Elems(s) : o > x, NEW r, r = <<o>> \o s
    PROVE  r \in Chains /\ Elems(r) = Elems(s) \cup {o}
<1>1. s \in Seq(Objs) /\ Len(s) \in Nat /\ DOMAIN s = 1 .. Len(s)
  BY ChainIs DEF Chains
<1>2. /\ r \in Seq(Objs) /\ Len(r) = Len(s) + 1 /\ r[1] = o
      /\ \A k \in 1 .. Len(s) : r[k + 1] = s[k]
  BY <1>1, ConsIs
<1>3. DOMAIN r = 1 .. Len(s) + 1
  BY <1>2, SeqIs
<1>4. \A k \in DOMAIN r : k = 1 \/ (k - 1 \in DOMAIN s /\ r[k] = s[k - 1])
  <2>1. ASSUME NEW k \in DOMAIN r, k # 1
        PROVE  k - 1 \in 1 .. Len(s) /\ (k - 1) + 1 = k
    BY <1>1, <1>3, <2>1
  <2> QED BY <1>1, <1>2, <2>1
<1>5. \A k \in DOMAIN s : s[k] \in Elems(s)
  BY DEF Elems
<1>6. ASSUME NEW m \in DOMAIN r, NEW n \in DOMAIN r, m < n
      PROVE  r[m] > r[n]
  <2>1. n - 1 \in DOMAIN s /\ r[n] = s[n - 1]
    BY <1>1, <1>3, <1>4, <1>6
  <2>2. CASE m = 1
    BY <1>2, <1>5, <2>1, <2>2
  <2>3. CASE m # 1
    <3>1. m - 1 \in DOMAIN s /\ r[m] = s[m - 1] /\ m - 1 < n - 1
      BY <1>3, <1>4, <1>6, <2>3
    <3> QED BY <2>1, <3>1 DEF Chains, Down
  <2> QED BY <2>2, <2>3
<1>7. Elems(r) = Elems(s) \cup {o}
  <2>1. ASSUME NEW k \in DOMAIN r
        PROVE  r[k] \in Elems(s) \cup {o}
    BY <1>2, <1>4, <1>5
  <2>2. ASSUME NEW k \in DOMAIN s
        PROVE  s[k] \in Elems(r)
    <3>1. k + 1 \in DOMAIN r /\ r[k + 1] = s[k]
      BY <1>1, <1>2, <1>3
    <3> QED BY <3>1 DEF Elems
  <2>3. o \in Elems(r)
    <3>1. 1 \in DOMAIN r
      BY <1>1, <1>3
    <3> QED BY <1>2, <3>1 DEF Elems
  <2> QED BY <2>1, <2>2, <2>3 DEF Elems
<1> QED BY <1>2, <1>6, <1>7 DEF Chains, Down

LEMMA BackChain ==
    ASSUME NEW s \in Chains, NEW o \in Objs, \A x \in Elems(s) : x > o, NEW r, r = Append(s, o)
    PROVE  r \in Chains /\ Elems(r) = Elems(s) \cup {o}
<1>1. s \in Seq(Objs) /\ Len(s) \in Nat /\ DOMAIN s = 1 .. Len(s)
  BY ChainIs DEF Chains
<1>2. r \in Seq(Objs) /\ Len(r) = Len(s) + 1 /\ r[Len(s) + 1] = o /\ \A k \in 1 .. Len(s) : r[k] = s[k]
  BY <1>1, AppendIs DEF Longer
<1>3. DOMAIN r = 1 .. Len(s) + 1
  BY <1>2, SeqIs
<1>4. \A k \in DOMAIN r : k = Len(s) + 1 \/ (k \in DOMAIN s /\ r[k] = s[k])
  BY <1>1, <1>2, <1>3
<1>5. \A k \in DOMAIN s : s[k] \in Elems(s)
  BY DEF Elems
<1>6. ASSUME NEW m \in DOMAIN r, NEW n \in DOMAIN r, m < n
      PROVE  r[m] > r[n]
  <2>1. m \in DOMAIN s /\ r[m] = s[m]
    BY <1>1, <1>3, <1>4, <1>6
  <2>2. CASE n = Len(s) + 1
    BY <1>2, <1>5, <2>1, <2>2
  <2>3. CASE n # Len(s) + 1
    BY <1>4, <1>6, <2>1, <2>3 DEF Chains, Down
  <2> QED BY <2>2, <2>3
<1>7. Elems(r) = Elems(s) \cup {o}
  <2>1. ASSUME NEW k \in DOMAIN r
        PROVE  r[k] \in Elems(s) \cup {o}
    BY <1>2, <1>4, <1>5
  <2>2. ASSUME NEW k \in DOMAIN s
        PROVE  s[k] \in Elems(r)
    <3>1. k \in DOMAIN r /\ r[k] = s[k]
      BY <1>1, <1>2, <1>3
    <3> QED BY <3>1 DEF Elems
  <2>3. o \in Elems(r)
    <3>1. Len(s) + 1 \in DOMAIN r
      BY <1>1, <1>3
    <3> QED BY <1>2, <3>1 DEF Elems
  <2> QED BY <2>1, <2>2, <2>3 DEF Elems
<1> QED BY <1>2, <1>6, <1>7 DEF Chains, Down

\* Where an object is, and what is behind it.
LEMMA PosIs ==
    ASSUME v1 \in Chains, NEW o \in Elems(v1)
    PROVE  /\ Lst!Pos(o) \in 1 .. Len(v1) /\ v1[Lst!Pos(o)] = o /\ o \in Int
           /\ \A m \in 1 .. Len(v1) : m >= Lst!Pos(o) + 1 <=> v1[m] < o
<1>1. Len(v1) \in Nat /\ DOMAIN v1 = 1 .. Len(v1) /\ \A m \in 1 .. Len(v1) : v1[m] \in Int
  BY ChainIs
<1>2. Lst!Pos(o) \in DOMAIN v1 /\ v1[Lst!Pos(o)] = o
  BY DEF Lst!Pos, Elems
<1> DEFINE p == Lst!Pos(o)
<1>3. p \in 1 .. Len(v1) /\ v1[p] = o
  BY <1>1, <1>2
<1> HIDE DEF p
<1>4. ASSUME NEW m \in 1 .. Len(v1)
      PROVE  m >= p + 1 <=> v1[m] < o
  <2>1. CASE m = p
    BY <1>1, <1>3, <2>1
  <2>2. CASE m < p
    <3>1. v1[m] > v1[p]
      BY <1>1, <1>3, <2>2 DEF Chains, Down
    <3> QED BY <1>1, <1>3, <2>2, <3>1
  <2>3. CASE m > p
    <3>1. v1[p] > v1[m]
      BY <1>1, <1>3, <2>3 DEF Chains, Down
    <3> QED BY <1>1, <1>3, <2>3, <3>1
  <2> QED BY <1>1, <1>3, <2>1, <2>2, <2>3
<1> QED BY <1>1, <1>3, <1>4 DEF p

LEMMA BeforeIs ==
    ASSUME NEW s \in Chains, NEW m \in 1 .. Len(s), NEW n \in 1 .. Len(s), s[m] > s[n]
    PROVE  m < n
<1>1. DOMAIN s = 1 .. Len(s) /\ Len(s) \in Nat /\ s[m] \in Int /\ s[n] \in Int
  BY ChainIs
<1>2. m # n /\ ~(n < m)
  BY <1>1 DEF Chains, Down
<1> QED BY <1>1, <1>2

\* A walk through c has found what it should down to the object it stands at, and below
\* that it should find what its condition accepts.
Walk(c, h, i) ==
    /\ h[i].at \in Elems(c) /\ h[i].due \subseteq Elems(c)
    /\ \A o \in Objs : o \in Elems(h[i].seen) <=> o \in h[i].due /\ o >= h[i].at
    /\ \A o \in Elems(c) : o < h[i].at => (o \in h[i].due <=> o \in Lst!Accepts(h, i))

ListInv ==
    /\ v1 \in Chains
    /\ v4 \subseteq Objs /\ \A x \in v4, y \in Elems(v1) : x > y
    /\ Forest(v2, v3 \cup v5) /\ v3 \cap v5 = {}
    /\ \A i \in v3 : Walk(v1, v2, i)
    /\ \A i \in v5 : v2[i].at = 0

LEMMA WalkSame ==
    ASSUME NEW c, NEW h, Sound(h), NEW i \in Lst!Live(h), Walk(c, h, i),
           NEW n, \A j \in Lst!Below(h, i) : n[j] = h[j]
    PROVE  Walk(c, n, i)
<1>1. n[i] = h[i]
  BY BelowHas
<1>2. Lst!Accepts(n, i) = Lst!Accepts(h, i)
  BY AcceptsSame DEF Alike
<1> QED BY <1>1, <1>2 DEF Walk

\* A list that goes on finds something, or is freed; one cannot start on nothing.
Outcome(h, i, T, n) ==
    /\ \A k \in T \ {i} : \A j \in Lst!Below(h, k) : n[j] = h[j]
    /\ \/ n[i] = Lst!Freed /\ Forest(n, T \ {i})
       \/ n[i] \in Headers /\ Forest(n, T) /\ Walk(v1, n, i)
       \/ n[i] \in Headers /\ Forest(n, T) /\ n[i].at = 0 /\ v1 = <<>>

\* Headers that belong to other lists than those that change.
LEMMA OthersSame ==
    ASSUME NEW h, NEW T, Forest(h, T), NEW I \in SUBSET T, NEW n, \A j \in Ids \ I : n[j] = h[j],
           NEW k \in T \ I, NEW j \in Lst!Below(h, k)
    PROVE  n[j] = h[j]
<1>1. Lst!Below(h, k) \subseteq Lst!Live(h) /\ Lst!Live(h) \subseteq Ids
  BY BelowHas DEF Forest, Lst!Live, Ids
<1>2. ASSUME NEW i \in I
      PROVE  i \in Lst!Below(h, i) /\ Lst!Below(h, i) \cap Lst!Below(h, k) = {}
  <2>1. i \in T /\ i # k
    BY <1>2
  <2> QED BY <2>1, BelowApart, BelowHas DEF Forest
<1> QED BY <1>1, <1>2

LEMMA OneSame ==
    ASSUME NEW h, NEW T, Forest(h, T), NEW i \in T, NEW n, \A j \in Ids \ {i} : n[j] = h[j]
    PROVE  \A k \in T \ {i} : \A j \in Lst!Below(h, k) : n[j] = h[j]
<1> DEFINE I == {i}
<1>1. I \in SUBSET T /\ \A j \in Ids \ I : n[j] = h[j]
  OBVIOUS
<1> HIDE DEF I
<1>2. ASSUME NEW k \in T \ I, NEW j \in Lst!Below(h, k)
      PROVE  n[j] = h[j]
  BY <1>1, OthersSame
<1> QED BY <1>2 DEF I

\* mpr_list_query_continuation.
LEMMA ContinueIs ==
    ASSUME v1 \in Chains, NEW h, NEW T, Forest(h, T), NEW i \in T, NEW p \in Nat \ {0},
           NEW rest, rest = {v1[q] : q \in p .. Len(v1)},
           h[i].due \subseteq Elems(v1), h[i].seen \in Chains,
           Elems(h[i].seen) = h[i].due \ rest, \A x \in Elems(h[i].seen), y \in rest : x > y,
           \A o \in rest : o \in h[i].due <=> o \in Lst!Accepts(h, i),
           NEW n, n = Lst!Continue(h, i, p)
    PROVE  Outcome(h, i, T, n)
<1> DEFINE hits == {q \in p .. Len(v1) : v1[q] \in Lst!Accepts(h, i)}
           q == CHOOSE q \in hits : \A r \in hits : q <= r
           w == h[i]
           o == v1[q]
<1>1. n = IF hits = {} THEN Lst!FreeAll(h, i)
          ELSE [h EXCEPT ![i].at = o, ![i].seen = Append(@, o)]
  BY DEF Lst!Continue
<1>2. CASE hits = {}
  <2>1. n = Lst!FreeAll(h, i)
    BY <1>1, <1>2
  <2>2. /\ Forest(n, T \ {i}) /\ n[i] = Lst!Freed
        /\ \A k \in T \ {i} : \A j \in Lst!Below(h, k) : n[j] = h[j]
    BY <2>1, FreeKeeps
  <2> QED BY <2>2 DEF Outcome
<1>3. CASE hits # {}
  <2>1. n = [h EXCEPT ![i].at = o, ![i].seen = Append(@, o)]
    BY <1>1, <1>3
  <2>2. /\ Len(v1) \in Nat /\ DOMAIN v1 = 1 .. Len(v1) /\ Elems(v1) \subseteq Objs
        /\ \A m \in 1 .. Len(v1) : v1[m] \in Objs /\ v1[m] \in Int
    BY ChainIs
  <2>3. q \in hits /\ \A r \in hits : q <= r
    <3>1. hits \in SUBSET Nat
      OBVIOUS
    <3> HIDE DEF hits
    <3> QED BY <1>3, <3>1, Least
  <2> HIDE DEF q
  <2>4. q \in 1 .. Len(v1) /\ q >= p /\ o \in Lst!Accepts(h, i) /\ o \in rest /\ o \in Elems(v1)
    BY <2>2, <2>3 DEF Elems
  <2>5. ASSUME NEW y \in rest, y > o
        PROVE  y \notin w.due
    <3>1. PICK m \in p .. Len(v1) : y = v1[m]
      OBVIOUS
    <3>2. m < q
      <4>1. m \in 1 .. Len(v1) /\ v1[m] > v1[q]
        BY <2>2, <2>5, <3>1
      <4> QED BY <2>4, <4>1, BeforeIs
    <3>3. m \notin hits
      BY <2>3, <3>2
    <3> QED BY <3>1, <3>3
  <2>6. ASSUME NEW y \in Elems(v1), y < o
        PROVE  y \in rest
    <3>1. PICK m \in 1 .. Len(v1) : y = v1[m]
      BY <2>2 DEF Elems
    <3>2. q < m
      <4>1. v1[q] > v1[m]
        BY <2>2, <2>4, <2>6, <3>1
      <4> QED BY <2>4, <3>1, <4>1, BeforeIs
    <3> QED BY <2>4, <3>1, <3>2
  <2> HIDE DEF o, hits
  <2>7. h \in Heaps /\ Sound(h) /\ i \in Ids /\ i \in Lst!Live(h) /\ w \in Headers
    BY LiveIs DEF Forest, Lst!Live, Ids
  <2>8. o \in Objs /\ o \in Int
    BY <2>2, <2>4, ListsAssumption
  <2>9. Append(w.seen, o) \in Chains /\ Elems(Append(w.seen, o)) = Elems(w.seen) \cup {o}
    BY <2>4, <2>8, BackChain
  <2>10. /\ n[i] = [w EXCEPT !.at = o, !.seen = Append(@, o)]
         /\ \A j \in Ids \ {i} : n[j] = h[j]
         /\ DOMAIN n = Ids
    BY <2>1, <2>7 DEF Heaps
  <2>11. /\ n[i].at = o /\ n[i].seen = Append(w.seen, o) /\ n[i].due = w.due
         /\ Alike(n[i], w) /\ n[i] \in Headers
    BY <2>7, <2>8, <2>9, <2>10 DEF Headers, Alike
  <2>12. n \in Heaps
    <3>1. n = [j \in Ids |-> n[j]]
      BY <2>1, <2>7 DEF Heaps
    <3>2. \A j \in Ids : n[j] \in Headers \cup {Lst!Freed}
      BY <2>7, <2>10, <2>11 DEF Heaps
    <3> QED BY <3>1, <3>2 DEF Heaps
  <2>13. \A j \in Ids : Alike(n[j], h[j])
    BY <2>10, <2>11 DEF Alike
  <2>14. Forest(n, T)
    BY <2>12, <2>13, SameKeeps
  <2>15. Lst!Accepts(n, i) = Lst!Accepts(h, i)
    <3>1. Lst!Below(h, i) \subseteq Ids
      BY <2>7, BelowHas DEF Lst!Live, Ids
    <3> QED BY <2>7, <2>13, <3>1, AcceptsSame
  <2>16. ASSUME NEW x \in Objs
         PROVE  x \in Elems(n[i].seen) <=> x \in n[i].due /\ x >= n[i].at
    <3>1. x \in Int /\ o \in w.due
      BY <2>4, ListsAssumption
    <3>2. x \in Elems(n[i].seen) <=> (x \in w.due /\ x \notin rest) \/ x = o
      BY <2>9, <2>11
    <3>3. x \in w.due /\ x \notin rest => x > o
      BY <2>4
    <3>4. x \in w.due /\ x \in rest => ~(x > o)
      BY <2>5
    <3> QED BY <2>8, <2>11, <3>1, <3>2, <3>3, <3>4
  <2>17. \A y \in Elems(v1) : y < n[i].at => (y \in n[i].due <=> y \in Lst!Accepts(n, i))
    BY <2>6, <2>11, <2>15
  <2>18. Walk(v1, n, i)
    BY <2>4, <2>11, <2>16, <2>17 DEF Walk
  <2>19. \A k \in T \ {i} : \A j \in Lst!Below(h, k) : n[j] = h[j]
    BY <2>10, OneSame
  <2> QED BY <2>11, <2>14, <2>18, <2>19 DEF Outcome
<1> QED BY <1>2, <1>3

\* mpr_list_start.
LEMMA StartIs ==
    ASSUME v1 \in Chains, NEW h, NEW T, Forest(h, T), NEW i \in T, NEW n, n = Lst!Start(h, i)
    PROVE  Outcome(h, i, T, n)
<1> DEFINE m == [h EXCEPT ![i].at = 0, ![i].seen = <<>>, ![i].due = Lst!Accepts(h, i) \cap Lst!Present]
<1>1. n = IF v1 = <<>> THEN m ELSE Lst!Continue(m, i, 1)
  BY DEF Lst!Start, Lst!None
<1>2. h \in Heaps /\ Sound(h) /\ i \in Ids /\ i \in Lst!Live(h) /\ h[i] \in Headers
  BY LiveIs DEF Forest, Lst!Live, Ids
<1>3. Lst!Present = Elems(v1) /\ Elems(v1) \subseteq Objs
  BY ChainIs DEF Lst!Present, Lst!Range, Elems
<1>4. /\ m[i] = [h[i] EXCEPT !.at = 0, !.seen = <<>>, !.due = Lst!Accepts(h, i) \cap Elems(v1)]
      /\ \A j \in Ids \ {i} : m[j] = h[j]
      /\ m = [j \in Ids |-> m[j]]
  BY <1>2, <1>3 DEF Heaps
<1> HIDE DEF m
<1>5. /\ m[i].at = 0 /\ m[i].seen = <<>> /\ m[i].due = Lst!Accepts(h, i) \cap Elems(v1)
      /\ Alike(m[i], h[i]) /\ m[i] \in Headers
  <2> DEFINE D == Lst!Accepts(h, i) \cap Elems(v1)
  <2>1. D \in SUBSET Objs /\ <<>> \in Chains
    BY <1>3 DEF Chains, Down
  <2>2. m[i] = [h[i] EXCEPT !.at = 0, !.seen = <<>>, !.due = D]
    BY <1>4
  <2> HIDE DEF D
  <2>3. /\ m[i].at = 0 /\ m[i].seen = <<>> /\ m[i].due = D /\ m[i] \in Headers
        /\ Alike(m[i], h[i])
    BY <1>2, <2>1, <2>2 DEF Headers, Alike
  <2> QED BY <2>3 DEF D
<1>6. m \in Heaps
  <2>1. \A j \in Ids : m[j] \in Headers \cup {Lst!Freed}
    BY <1>2, <1>4, <1>5 DEF Heaps
  <2> QED BY <1>4, <2>1 DEF Heaps
<1>7. \A j \in Ids : Alike(m[j], h[j])
  BY <1>4, <1>5 DEF Alike
<1>8. Forest(m, T) /\ \A k \in Lst!Live(h) : Lst!Below(m, k) = Lst!Below(h, k)
  BY <1>6, <1>7, SameKeeps
<1>9. \A k \in T \ {i} : \A j \in Lst!Below(h, k) : m[j] = h[j]
  BY <1>4, OneSame
<1>11. CASE v1 = <<>>
  BY <1>1, <1>5, <1>8, <1>9, <1>11 DEF Outcome
<1>10. CASE v1 # <<>>
  <2>1. n = Lst!Continue(m, i, 1)
    BY <1>1, <1>10
  <2>2. Lst!Accepts(m, i) = Lst!Accepts(h, i)
    <3>1. Lst!Below(h, i) \subseteq Ids
      BY <1>2, BelowHas DEF Lst!Live, Ids
    <3> QED BY <1>2, <1>7, <3>1, AcceptsSame
  <2>3. Elems(v1) = {v1[q] : q \in 1 .. Len(v1)}
    BY ChainIs DEF Elems
  <2>4. m[i].seen \in Chains /\ Elems(m[i].seen) = {}
    BY <1>5 DEF Headers, Elems
  <2>5. Outcome(m, i, T, n)
    <3>1. /\ m[i].due \subseteq Elems(v1) /\ Elems(m[i].seen) = m[i].due \ Elems(v1)
          /\ \A x \in Elems(m[i].seen), y \in Elems(v1) : x > y
          /\ \A o \in Elems(v1) : o \in m[i].due <=> o \in Lst!Accepts(m, i)
          /\ 1 \in Nat \ {0}
      BY <1>5, <2>2, <2>4
    <3> QED BY <1>8, <2>1, <2>3, <2>4, <3>1, ContinueIs
  <2>6. ASSUME NEW k \in T \ {i}, NEW j \in Lst!Below(h, k)
        PROVE  n[j] = h[j]
    <3>1. Lst!Below(m, k) = Lst!Below(h, k)
      BY <1>8 DEF Forest
    <3>2. n[j] = m[j]
      BY <2>5, <3>1 DEF Outcome
    <3>3. m[j] = h[j]
      BY <1>9
    <3> QED BY <3>2, <3>3
  <2> QED BY <2>5, <2>6 DEF Outcome
<1> QED BY <1>10, <1>11

LEMMA OutcomeKeeps ==
    ASSUME NEW h, NEW T, Forest(h, T), NEW i \in T, NEW n, Outcome(h, i, T, n), NEW k \in T \ {i}
    PROVE  n[k] = h[k] /\ (Walk(v1, h, k) => Walk(v1, n, k))
<1>1. Sound(h) /\ k \in Lst!Live(h) /\ \A j \in Lst!Below(h, k) : n[j] = h[j]
  BY DEF Forest, Outcome
<1>2. k \in Lst!Below(h, k)
  BY <1>1, BelowHas
<1> QED BY <1>1, <1>2, WalkSame

\* A walk goes on behind the object that it stands at.
LEMMA GoOnIs ==
    ASSUME v1 \in Chains, NEW h, NEW T, Forest(h, T), NEW i \in T, Walk(v1, h, i),
           NEW n, n = Lst!Continue(h, i, Lst!Behind(h, i))
    PROVE  Outcome(h, i, T, n)
<1> DEFINE o == h[i].at
           p == Lst!Pos(o) + 1
           rest == {v1[q] : q \in p .. Len(v1)}
<1>1. o \in Elems(v1)
  BY DEF Walk
<1>2. /\ Lst!Pos(o) \in 1 .. Len(v1) /\ o \in Int
      /\ \A m \in 1 .. Len(v1) : m >= Lst!Pos(o) + 1 <=> v1[m] < o
  BY <1>1, PosIs
<1>3. /\ Len(v1) \in Nat /\ DOMAIN v1 = 1 .. Len(v1) /\ Elems(v1) \subseteq Objs
      /\ \A m \in 1 .. Len(v1) : v1[m] \in Objs /\ v1[m] \in Int
  BY ChainIs
<1>4. p \in Nat \ {0} /\ n = Lst!Continue(h, i, p)
  BY <1>2, <1>3 DEF Lst!Behind
<1>5. \A y : y \in rest <=> y \in Elems(v1) /\ y < o
  <2>1. ASSUME NEW q \in p .. Len(v1)
        PROVE  v1[q] \in Elems(v1) /\ v1[q] < o
    BY <1>2, <1>3, <2>1 DEF Elems
  <2>2. ASSUME NEW m \in 1 .. Len(v1), v1[m] < o
        PROVE  v1[m] \in rest
    BY <1>2, <1>3, <2>2
  <2> QED BY <1>3, <2>1, <2>2 DEF Elems
<1> HIDE DEF rest
<1>6. h[i].seen \in Chains /\ Elems(h[i].seen) \subseteq Objs
  <2>1. h[i] \in Headers
    BY LiveIs DEF Forest, Lst!Live, Ids
  <2>2. h[i].seen \in Chains
    BY <2>1 DEF Headers
  <2> QED BY <2>2, ChainIs
<1>7. h[i].due \subseteq Elems(v1) /\ \A y \in Objs : y \in Int
  BY ListsAssumption DEF Walk
<1>8. Elems(h[i].seen) = h[i].due \ rest
  BY <1>2, <1>3, <1>5, <1>6, <1>7 DEF Walk
<1>9. \A x \in Elems(h[i].seen), y \in rest : x > y
  BY <1>2, <1>3, <1>5, <1>6, <1>7 DEF Walk
<1>10. \A y \in rest : y \in h[i].due <=> y \in Lst!Accepts(h, i)
  BY <1>5 DEF Walk
<1>11. rest = {v1[q] : q \in p .. Len(v1)}
  BY DEF rest
<1> HIDE DEF p
<1> QED BY <1>4, <1>6, <1>7, <1>8, <1>9, <1>10, <1>11, ContinueIs

\* A header that is not on the heap yet.
LEMMA FreeIs ==
    ASSUME NEW h, Ids \ Lst!Live(h) # {}
    PROVE  Lst!Free(h) \in Ids \ Lst!Live(h)
<1> DEFINE F == Ids \ Lst!Live(h)
<1>1. F \in SUBSET Nat
  BY ListsAssumption DEF Ids, Lst!Ids
<1>2. Lst!Free(h) = CHOOSE i \in F : \A j \in F : i <= j
  BY DEF Lst!Free, Ids
<1> HIDE DEF F
<1>3. F # {}
  BY DEF F
<1>4. Lst!Free(h) \in F
  BY <1>1, <1>2, <1>3, Least
<1> QED BY <1>4 DEF F

AtLeast(S, k) == IsFiniteSet(S) /\ Cardinality(S) >= k

LEMMA SomeLeft ==
    ASSUME NEW S, NEW k \in Nat \ {0}, AtLeast(S, k), NEW a
    PROVE  S # {} /\ AtLeast(S \ {a}, k - 1)
<1>1. IsFiniteSet(S) /\ Cardinality(S) \in Nat /\ Cardinality(S) >= k
  BY FS_CardinalityType DEF AtLeast
<1>2. S # {}
  BY <1>1, FS_EmptySet
<1>3. IsFiniteSet(S \ {a}) /\ Cardinality(S \ {a}) = IF a \in S THEN Cardinality(S) - 1 ELSE Cardinality(S)
  BY <1>1, FS_RemoveElement
<1>4. Cardinality(S \ {a}) >= k - 1
  BY <1>1, <1>3
<1> QED BY <1>2, <1>3, <1>4 DEF AtLeast

LEMMA RoomIs ==
    ASSUME NEW k \in Nat, Lst!Room(k)
    PROVE  AtLeast(Ids \ Lst!Live(v2), k)
<1>1. IsFiniteSet(Ids \ Lst!Live(v2))
  <2>1. IsFiniteSet(Ids)
    BY ListsAssumption, FS_Interval DEF Ids, Lst!Ids
  <2> QED BY <2>1, FS_Subset
<1>2. Cardinality(Ids \ Lst!Live(v2)) >= k
  <2>1. Lst!Cardinality(Ids \ Lst!Live(v2)) >= k
    BY DEF Lst!Room, Ids
  <2> QED BY <2>1, LstSizes
<1> QED BY <1>1, <1>2 DEF AtLeast

\* What the program holds after a step in which the lists others stay as they are.
LEMMA HoldsKeeps ==
    ASSUME ListInv, NEW others \in SUBSET v3, NEW i, i \notin others \cup v5, NEW n,
           \A k \in others : Walk(v1, n, k), \A k \in v5 : n[k].at = 0,
           \/ n[i] = Lst!Freed /\ Forest(n, others \cup v5)
           \/ /\ n[i] \in Headers /\ Forest(n, others \cup v5 \cup {i})
              /\ Walk(v1, n, i) \/ n[i].at = 0,
           Lst!Holds(n, i, others), v1' = v1, v4' = v4
    PROVE  ListInv'
<1>1. v1 \in Chains /\ v4 \subseteq Objs /\ (\A x \in v4, y \in Elems(v1) : x > y) /\ v3 \cap v5 = {}
  BY DEF ListInv
<1>2. /\ v2' = n
      /\ v3' = IF n[i].kind = "freed" \/ n[i].at = 0 THEN others ELSE others \cup {i}
      /\ v5' = IF n[i].kind # "freed" /\ n[i].at = 0 THEN v5 \cup {i} ELSE v5
  BY DEF Lst!Holds, Lst!None
<1>3. CASE n[i] = Lst!Freed /\ Forest(n, others \cup v5)
  <2>1. n[i].kind = "freed"
    BY <1>3 DEF Lst!Freed
  <2>2. v3' = others /\ v5' = v5
    BY <1>2, <2>1
  <2> QED BY <1>1, <1>2, <1>3, <2>2 DEF ListInv
<1>4. CASE n[i] \in Headers /\ Forest(n, others \cup v5 \cup {i}) /\ n[i].at = 0
  <2>1. n[i].kind # "freed"
    BY <1>4 DEF Headers, Kinds
  <2>2. v3' = others /\ v5' = v5 \cup {i}
    BY <1>2, <1>4, <2>1
  <2>3. others \cup (v5 \cup {i}) = others \cup v5 \cup {i}
    OBVIOUS
  <2> QED BY <1>1, <1>2, <1>4, <2>2, <2>3 DEF ListInv
<1>5. CASE n[i] \in Headers /\ Forest(n, others \cup v5 \cup {i}) /\ Walk(v1, n, i)
  <2>1. n[i].kind # "freed"
    BY <1>5 DEF Headers, Kinds
  <2>2. n[i].at # 0
    BY <1>1, <1>5, ChainIs, ListsAssumption DEF Walk
  <2>3. v3' = others \cup {i} /\ v5' = v5
    BY <1>2, <2>1, <2>2
  <2>4. (others \cup {i}) \cup v5 = others \cup v5 \cup {i}
    OBVIOUS
  <2> QED BY <1>1, <1>2, <1>5, <2>3, <2>4 DEF ListInv
<1> QED BY <1>3, <1>4, <1>5

\* So if one list starts or goes on.
LEMMA MovedKeeps ==
    ASSUME ListInv, NEW others \in SUBSET v3, NEW i, i \notin others \cup v5,
           NEW h, Forest(h, others \cup v5 \cup {i}),
           \A k \in others : Walk(v1, h, k), \A k \in v5 : h[k].at = 0,
           NEW n, Outcome(h, i, others \cup v5 \cup {i}, n), Lst!Holds(n, i, others), v1' = v1, v4' = v4
    PROVE  ListInv'
<1> DEFINE T == others \cup v5 \cup {i}
<1>1. i \in T /\ T \ {i} = others \cup v5
  OBVIOUS
<1>2. Forest(h, T) /\ Outcome(h, i, T, n)
  OBVIOUS
<1> HIDE DEF T
<1>3. ASSUME NEW k \in others \cup v5
      PROVE  n[k] = h[k] /\ (Walk(v1, h, k) => Walk(v1, n, k))
  BY <1>1, <1>2, <1>3, OutcomeKeeps
<1>4. (\A k \in others : Walk(v1, n, k)) /\ \A k \in v5 : n[k].at = 0
  BY <1>3
<1>5. \/ n[i] = Lst!Freed /\ Forest(n, others \cup v5)
      \/ /\ n[i] \in Headers /\ Forest(n, others \cup v5 \cup {i})
         /\ Walk(v1, n, i) \/ n[i].at = 0
  BY <1>1, <1>2 DEF Outcome, T
<1> QED BY <1>4, <1>5, HoldsKeeps

LEMMA GetNextKeeps ==
    ASSUME ListInv, NEW i, Lst!GetNext(i)
    PROVE  ListInv'
<1> DEFINE others == v3 \ {i}
           n == Lst!Continue(v2, i, Lst!Behind(v2, i))
<1>1. i \in v3 /\ Lst!Holds(n, i, others) /\ v1' = v1 /\ v4' = v4
  BY DEF Lst!GetNext
<1>2. /\ v1 \in Chains /\ Forest(v2, v3 \cup v5) /\ v3 \cap v5 = {} /\ Walk(v1, v2, i)
      /\ (\A k \in v3 : Walk(v1, v2, k)) /\ \A k \in v5 : v2[k].at = 0
  BY <1>1 DEF ListInv
<1>3. Outcome(v2, i, v3 \cup v5, n)
  BY <1>1, <1>2, GoOnIs
<1>4. v3 \cup v5 = others \cup v5 \cup {i} /\ i \notin others \cup v5
  BY <1>1, <1>2
<1> HIDE DEF n
<1> QED BY <1>1, <1>2, <1>3, <1>4, MovedKeeps

\* One more header without components.
LEMMA LeafIs ==
    ASSUME NEW h, NEW T, Forest(h, T), NEW i \in Ids \ Lst!Live(h),
           NEW n \in Heaps, n[i] \in Headers, \A j \in Ids \ {i} : n[j] = h[j], n[i].kind = "leaf"
    PROVE  /\ Forest(n, T \cup {i}) /\ Lst!Live(n) = Lst!Live(h) \cup {i}
           /\ \A k \in Lst!Live(h) : /\ n[k] = h[k]
                                     /\ \A j \in Lst!Below(h, k) : n[j] = h[j]
<1> DEFINE C == Lst!Components(n, i)
<1>1. C = {}
  BY DEF Lst!Components, Lst!Ops
<1>2. C \subseteq T
  BY <1>1
<1> HIDE DEF C
<1>3. /\ Forest(n, (T \ C) \cup {i}) /\ Lst!Live(n) = Lst!Live(h) \cup {i}
      /\ \A k \in Lst!Live(h) : n[k] = h[k]
  BY <1>2, AddedKeeps DEF C
<1>4. (T \ C) \cup {i} = T \cup {i}
  BY <1>1
<1>5. \A k \in Lst!Live(h) : Lst!Below(h, k) \subseteq Lst!Live(h)
  BY BelowHas DEF Forest
<1> QED BY <1>3, <1>4, <1>5

LEMMA HeaderIs ==
    ASSUME NEW kind \in Kinds, NEW set \in SUBSET Objs, NEW l \in Ids \cup {0}, NEW r \in Ids \cup {0}
    PROVE  /\ Lst!Header(kind, set, l, r) \in Headers
           /\ Lst!Header(kind, set, l, r).kind = kind
           /\ Lst!Header(kind, set, l, r).l = l /\ Lst!Header(kind, set, l, r).r = r
<1>1. <<>> \in Chains
  BY DEF Chains, Down
<1> QED BY <1>1 DEF Lst!Header, Headers, Lst!None

LEMMA NewQueryKeeps ==
    ASSUME ListInv, NEW set \in Conditions, Lst!NewQuery(set)
    PROVE  ListInv'
<1> DEFINE i == Lst!Free(v2)
           w == Lst!Header("leaf", set, 0, 0)
           h == [v2 EXCEPT ![i] = w]
           n == Lst!Start(h, i)
<1>1. Lst!Room(1) /\ Lst!Holds(n, i, v3) /\ v1' = v1 /\ v4' = v4
  BY DEF Lst!NewQuery, Lst!None
<1>2. /\ v1 \in Chains /\ Forest(v2, v3 \cup v5) /\ v3 \cap v5 = {}
      /\ (\A k \in v3 : Walk(v1, v2, k)) /\ \A k \in v5 : v2[k].at = 0
  BY DEF ListInv
<1>3. i \in Ids \ Lst!Live(v2)
  <2>1. Ids \ Lst!Live(v2) # {}
    BY <1>1, RoomIs, SomeLeft
  <2> QED BY <2>1, FreeIs
<1>4. w \in Headers /\ w.kind = "leaf"
  BY HeaderIs, ListsAssumption DEF Kinds
<1> HIDE DEF i, w
<1>10. h \in Heaps /\ h[i] = w /\ \A j \in Ids \ {i} : h[j] = v2[j]
  BY <1>2, <1>3, <1>4 DEF Forest, Heaps
<1> HIDE DEF h
<1>5. /\ Forest(h, v3 \cup v5 \cup {i})
      /\ \A k \in Lst!Live(v2) : h[k] = v2[k] /\ \A j \in Lst!Below(v2, k) : h[j] = v2[j]
  BY <1>2, <1>3, <1>4, <1>10, LeafIs
<1>6. v3 \cup v5 \subseteq Lst!Live(v2) /\ Sound(v2)
  BY <1>2 DEF Forest
<1>7. (\A k \in v3 : Walk(v1, h, k)) /\ \A k \in v5 : h[k].at = 0
  BY <1>2, <1>5, <1>6, WalkSame
<1>8. Outcome(h, i, v3 \cup v5 \cup {i}, n)
  BY <1>2, <1>5, StartIs
<1>9. i \notin v3 \cup v5
  BY <1>3, <1>6
<1> HIDE DEF n
<1> QED BY <1>1, <1>5, <1>7, <1>8, <1>9, MovedKeeps

LEMMA FreeListKeeps ==
    ASSUME ListInv, NEW i, Lst!FreeList(i)
    PROVE  ListInv'
<1> DEFINE n == Lst!FreeAll(v2, i)
<1>1. i \in v3 /\ v2' = n /\ v3' = v3 \ {i} /\ v1' = v1 /\ v4' = v4 /\ v5' = v5
  BY DEF Lst!FreeList
<1> HIDE DEF n
<1>2. /\ v1 \in Chains /\ Forest(v2, v3 \cup v5) /\ v3 \cap v5 = {}
      /\ (\A k \in v3 : Walk(v1, v2, k)) /\ \A k \in v5 : v2[k].at = 0
      /\ v4 \subseteq Objs /\ \A x \in v4, y \in Elems(v1) : x > y
  BY DEF ListInv
<1>3. (v3 \cup v5) \ {i} = (v3 \ {i}) \cup v5 /\ i \in v3 \cup v5
  BY <1>1, <1>2
<1>4. /\ Forest(n, (v3 \ {i}) \cup v5)
      /\ \A k \in (v3 \ {i}) \cup v5 : \A j \in Lst!Below(v2, k) : n[j] = v2[j]
  <2> DEFINE T == v3 \cup v5
  <2>1. Forest(v2, T) /\ i \in T
    BY <1>2, <1>3
  <2> HIDE DEF T
  <2>2. /\ Forest(n, T \ {i})
        /\ \A k \in T \ {i} : \A j \in Lst!Below(v2, k) : n[j] = v2[j]
    BY <2>1, FreeKeeps DEF n
  <2>3. T \ {i} = (v3 \ {i}) \cup v5
    BY <1>3 DEF T
  <2> QED BY <2>2, <2>3
<1>5. Sound(v2) /\ v3 \cup v5 \subseteq Lst!Live(v2)
  BY <1>2 DEF Forest
<1>6. \A k \in v3 \ {i} : Walk(v1, n, k)
  BY <1>2, <1>4, <1>5, WalkSame
<1>7. \A k \in v5 : n[k].at = 0
  BY <1>2, <1>4, <1>5, BelowHas
<1>8. (v3 \ {i}) \cap v5 = {}
  BY <1>2
<1> QED BY <1>1, <1>2, <1>4, <1>6, <1>7, <1>8 DEF ListInv

\* A list that becomes a component is as it was but for its walk.
LEMMA ComponentIs ==
    ASSUME NEW w \in Headers
    PROVE  Lst!Component(w) \in Headers /\ Alike(Lst!Component(w), w)
<1>1. <<>> \in Chains
  BY DEF Chains, Down
<1> QED BY <1>1 DEF Lst!Component, Headers, Alike, Lst!None

\* One more header over lists of the program's.
LEMMA JoinedIs ==
    ASSUME NEW h, NEW T, Forest(h, T), NEW i \in Ids \ Lst!Live(h), NEW l \in T, NEW r \in T,
           NEW n \in Heaps, n[i] \in Headers, \A j \in Ids \ {i} : n[j] = h[j],
           n[i].kind \in Lst!Ops, n[i].l = l, n[i].r = r
    PROVE  /\ Forest(n, (T \ {l, r}) \cup {i})
           /\ \A k \in Lst!Live(h) : /\ n[k] = h[k]
                                     /\ \A j \in Lst!Below(h, k) : n[j] = h[j]
<1> DEFINE C == Lst!Components(n, i)
<1>1. C = {l, r}
  BY DEF Lst!Components
<1>2. C \subseteq T
  BY <1>1
<1> HIDE DEF C
<1>3. /\ Forest(n, (T \ C) \cup {i})
      /\ \A k \in Lst!Live(h) : n[k] = h[k]
  BY <1>2, AddedKeeps DEF C
<1>4. \A k \in Lst!Live(h) : Lst!Below(h, k) \subseteq Lst!Live(h)
  BY BelowHas DEF Forest
<1> QED BY <1>1, <1>3, <1>4

LEMMA CombineKeeps ==
    ASSUME ListInv, NEW op \in Lst!Ops, NEW l, NEW r, Lst!Combine(op, l, r)
    PROVE  ListInv'
<1> DEFINE i == Lst!Free(v2)
           w == Lst!Header(op, {}, l, r)
           h == [v2 EXCEPT ![i] = w, ![l] = Lst!Component(@), ![r] = Lst!Component(@)]
           m == [v2 EXCEPT ![l] = Lst!Component(@), ![r] = Lst!Component(@)]
           n == Lst!Start(h, i)
           T == v3 \cup v5
           others == v3 \ {l, r}
<1>1. /\ l \in v3 /\ r \in v3 /\ l # r /\ Lst!Room(1) /\ Lst!Holds(n, i, others)
      /\ v1' = v1 /\ v4' = v4
  BY DEF Lst!Combine
<1>2. /\ v1 \in Chains /\ Forest(v2, T) /\ v3 \cap v5 = {}
      /\ (\A k \in v3 : Walk(v1, v2, k)) /\ \A k \in v5 : v2[k].at = 0
  BY DEF ListInv
<1>3. i \in Ids \ Lst!Live(v2)
  <2>1. Ids \ Lst!Live(v2) # {}
    BY <1>1, RoomIs, SomeLeft
  <2> QED BY <2>1, FreeIs
<1>4. /\ v2 \in Heaps /\ T \subseteq Lst!Live(v2) /\ Lst!Live(v2) \subseteq Ids /\ Sound(v2)
      /\ l \in Ids /\ r \in Ids /\ v2[l] \in Headers /\ v2[r] \in Headers
      /\ i # l /\ i # r /\ i \notin others \cup v5
  BY <1>1, <1>2, <1>3, LiveIs DEF Forest, Lst!Live, Ids
<1>5. w \in Headers /\ w.kind = op /\ w.l = l /\ w.r = r
  BY <1>4, HeaderIs DEF Kinds, Lst!Ops
<1>6. /\ Lst!Component(v2[l]) \in Headers /\ Alike(Lst!Component(v2[l]), v2[l])
      /\ Lst!Component(v2[r]) \in Headers /\ Alike(Lst!Component(v2[r]), v2[r])
  BY <1>4, ComponentIs
<1> HIDE DEF i, w
<1>7. /\ m \in Heaps /\ m[l] = Lst!Component(v2[l]) /\ m[r] = Lst!Component(v2[r])
      /\ \A j \in Ids \ {l, r} : m[j] = v2[j]
  BY <1>1, <1>4, <1>6 DEF Heaps
<1>8. h \in Heaps /\ h[i] = w /\ \A j \in Ids \ {i} : h[j] = m[j]
  BY <1>1, <1>3, <1>4, <1>5, <1>6 DEF Heaps
<1> HIDE DEF h, m
<1>9. \A j \in Ids : Alike(m[j], v2[j])
  BY <1>6, <1>7 DEF Alike
<1>10. /\ Forest(m, T) /\ Lst!Live(m) = Lst!Live(v2)
       /\ \A k \in Lst!Live(v2) : Lst!Below(m, k) = Lst!Below(v2, k)
  BY <1>2, <1>7, <1>9, SameKeeps
<1>11. ASSUME NEW k \in T \ {l, r}, NEW j \in Lst!Below(v2, k)
       PROVE  m[j] = v2[j]
  <2> DEFINE I == {l, r}
  <2>1. I \in SUBSET T /\ k \in T \ I /\ \A x \in Ids \ I : m[x] = v2[x]
    BY <1>1, <1>7, <1>11
  <2> HIDE DEF I
  <2> QED BY <1>2, <1>11, <2>1, OthersSame
<1>12. /\ Forest(h, (T \ {l, r}) \cup {i})
       /\ \A k \in Lst!Live(m) : /\ h[k] = m[k]
                                 /\ \A j \in Lst!Below(m, k) : h[j] = m[j]
  <2>1. l \in T /\ r \in T /\ h[i].kind \in Lst!Ops /\ h[i].l = l /\ h[i].r = r
    BY <1>1, <1>5, <1>8
  <2> HIDE DEF T
  <2> QED BY <1>3, <1>5, <1>8, <1>10, <2>1, JoinedIs
<1>13. ASSUME NEW k \in others \cup v5
       PROVE  k \in Lst!Live(v2) /\ h[k] = v2[k] /\ \A j \in Lst!Below(v2, k) : h[j] = v2[j]
  <2>1. k \in T \ {l, r} /\ k \in Lst!Live(v2)
    BY <1>1, <1>2, <1>4
  <2>2. \A j \in Lst!Below(v2, k) : h[j] = v2[j]
    BY <1>10, <1>11, <1>12, <2>1
  <2>3. k \in Lst!Below(v2, k)
    BY <1>4, <2>1, BelowHas
  <2> QED BY <2>1, <2>2, <2>3
<1>14. (\A k \in others : Walk(v1, h, k)) /\ \A k \in v5 : h[k].at = 0
  BY <1>2, <1>4, <1>13, WalkSame
<1>15. (T \ {l, r}) \cup {i} = others \cup v5 \cup {i}
  BY <1>1, <1>2
<1>16. Outcome(h, i, others \cup v5 \cup {i}, n)
  BY <1>2, <1>12, <1>15, StartIs
<1> HIDE DEF n
<1> QED BY <1>1, <1>4, <1>12, <1>14, <1>15, <1>16, MovedKeeps

LEMMA FilterKeeps ==
    ASSUME ListInv, NEW l, NEW set \in Conditions, Lst!Filter(l, set)
    PROVE  ListInv'
<1> DEFINE r == Lst!Free(v2)
           u == Lst!Header("leaf", set, 0, 0)
           g == [v2 EXCEPT ![r] = u]
           i == Lst!Free(g)
           w == Lst!Header("isect", {}, l, r)
           h == [g EXCEPT ![i] = w, ![l] = Lst!Component(@)]
           m == [v2 EXCEPT ![l] = Lst!Component(@)]
           a == [m EXCEPT ![r] = u]
           n == Lst!Start(h, i)
           T == v3 \cup v5
           others == v3 \ {l}
<1>1. /\ l \in v3 /\ Lst!Room(2) /\ Lst!Holds(n, i, others) /\ v1' = v1 /\ v4' = v4
  BY DEF Lst!Filter, Lst!None
<1>2. /\ v1 \in Chains /\ Forest(v2, T) /\ v3 \cap v5 = {}
      /\ (\A k \in v3 : Walk(v1, v2, k)) /\ \A k \in v5 : v2[k].at = 0
  BY DEF ListInv
<1>3. Ids \ Lst!Live(v2) # {} /\ (Ids \ Lst!Live(v2)) \ {r} # {}
  <2> DEFINE S == Ids \ Lst!Live(v2)
  <2>1. AtLeast(S, 2)
    BY <1>1, RoomIs
  <2> HIDE DEF S
  <2>2. S # {} /\ AtLeast(S \ {r}, 2 - 1)
    BY <2>1, SomeLeft
  <2>3. S \ {r} # {}
    BY <2>2, SomeLeft
  <2> QED BY <2>2, <2>3 DEF S
<1>4. r \in Ids \ Lst!Live(v2)
  BY <1>3, FreeIs
<1>5. u \in Headers /\ u.kind = "leaf"
  BY HeaderIs, ListsAssumption DEF Kinds
<1>6. /\ v2 \in Heaps /\ T \subseteq Lst!Live(v2) /\ Lst!Live(v2) \subseteq Ids /\ Sound(v2)
      /\ l \in Ids /\ v2[l] \in Headers /\ l \in Lst!Live(v2) /\ r # l /\ r \notin T
  BY <1>1, <1>2, <1>4, LiveIs DEF Forest, Lst!Live, Ids
<1> HIDE DEF r, u
<1>7. g \in Heaps /\ g[r] = u /\ \A j \in Ids \ {r} : g[j] = v2[j]
  BY <1>4, <1>5, <1>6 DEF Heaps
<1>8. Lst!Live(g) = Lst!Live(v2) \cup {r}
  <2> HIDE DEF g
  <2> QED BY <1>2, <1>4, <1>5, <1>7, LeafIs
<1>9. i \in Ids \ Lst!Live(g) /\ i # l /\ i # r /\ i \notin T
  <2> HIDE DEF g
  <2>1. i \in Ids \ Lst!Live(g)
    BY <1>3, <1>8, FreeIs
  <2> QED BY <1>6, <1>8, <2>1
<1> HIDE DEF i
<1>10. Lst!Component(v2[l]) \in Headers /\ Alike(Lst!Component(v2[l]), v2[l])
  BY <1>6, ComponentIs
<1>11. w \in Headers /\ w.kind = "isect" /\ w.l = l /\ w.r = r
  BY <1>4, <1>6, HeaderIs DEF Kinds
<1> HIDE DEF w
<1>12. m \in Heaps /\ m[l] = Lst!Component(v2[l]) /\ \A j \in Ids \ {l} : m[j] = v2[j]
  BY <1>6, <1>10 DEF Heaps
<1>13. a \in Heaps /\ a[r] = u /\ \A j \in Ids \ {r} : a[j] = m[j]
  <2> HIDE DEF m
  <2> QED BY <1>4, <1>5, <1>12 DEF Heaps
<1>14. h \in Heaps /\ h[i] = w /\ \A j \in Ids \ {i} : h[j] = a[j]
  <2>1. h[i] = w /\ DOMAIN h = Ids /\ DOMAIN g = Ids /\ h[l] = Lst!Component(g[l])
        /\ \A j \in Ids \ {i, l} : h[j] = g[j]
    BY <1>6, <1>7, <1>9 DEF Heaps
  <2>2. h = [j \in Ids |-> h[j]]
    BY <1>7 DEF Heaps
  <2> HIDE DEF h, a, m, g
  <2>3. ASSUME NEW j \in Ids \ {i}
        PROVE  h[j] = a[j]
    BY <1>6, <1>7, <1>12, <1>13, <2>1
  <2>4. \A j \in Ids : h[j] \in Headers \cup {Lst!Freed}
    BY <1>11, <1>13, <2>1, <2>3 DEF Heaps
  <2>5. h \in Heaps
    BY <2>2, <2>4 DEF Heaps
  <2> QED BY <2>1, <2>3, <2>5
<1> HIDE DEF h, a, m, g
<1>15. \A j \in Ids : Alike(m[j], v2[j])
  BY <1>10, <1>12 DEF Alike
<1>16. /\ Forest(m, T) /\ Lst!Live(m) = Lst!Live(v2)
       /\ \A k \in Lst!Live(v2) : Lst!Below(m, k) = Lst!Below(v2, k)
  BY <1>2, <1>12, <1>15, SameKeeps
<1>17. \A k \in T \ {l} : \A j \in Lst!Below(v2, k) : m[j] = v2[j]
  BY <1>1, <1>2, <1>12, OneSame
<1> HIDE DEF T
<1>18. /\ Forest(a, T \cup {r}) /\ Lst!Live(a) = Lst!Live(m) \cup {r}
       /\ \A k \in Lst!Live(m) : /\ a[k] = m[k]
                                 /\ \A j \in Lst!Below(m, k) : a[j] = m[j]
  <2>1. r \in Ids \ Lst!Live(m) /\ a[r] \in Headers /\ a[r].kind = "leaf"
    BY <1>4, <1>5, <1>13, <1>16
  <2> QED BY <1>13, <1>16, <2>1, LeafIs
<1>19. i \in Ids \ Lst!Live(a)
  BY <1>8, <1>9, <1>16, <1>18
<1>20. /\ Forest(h, ((T \cup {r}) \ {l, r}) \cup {i})
       /\ \A k \in Lst!Live(a) : h[k] = a[k]
  <2> DEFINE Q == T \cup {r}
  <2>1. l \in Q /\ r \in Q /\ h[i].kind \in Lst!Ops /\ h[i].l = l /\ h[i].r = r /\ h[i] \in Headers
    BY <1>1, <1>11, <1>14 DEF Lst!Ops, T
  <2>2. Forest(a, Q)
    BY <1>18
  <2> HIDE DEF Q
  <2>3. /\ Forest(h, (Q \ {l, r}) \cup {i})
        /\ \A k \in Lst!Live(a) : h[k] = a[k]
    BY <1>14, <1>19, <2>1, <2>2, JoinedIs
  <2> QED BY <2>3 DEF Q
<1>21. ASSUME NEW k \in others \cup v5
       PROVE  k \in Lst!Live(v2) /\ h[k] = v2[k] /\ \A j \in Lst!Below(v2, k) : h[j] = v2[j]
  <2>1. k \in T \ {l} /\ k \in Lst!Live(v2)
    BY <1>1, <1>2, <1>6 DEF T
  <2>2. k \in Lst!Below(v2, k) /\ Lst!Below(v2, k) \subseteq Lst!Live(v2)
    BY <1>6, <2>1, BelowHas
  <2>3. \A j \in Lst!Below(v2, k) : h[j] = a[j] /\ a[j] = m[j] /\ m[j] = v2[j]
    BY <1>16, <1>17, <1>18, <1>20, <2>1, <2>2
  <2> QED BY <2>1, <2>2, <2>3
<1>22. (\A k \in others : Walk(v1, h, k)) /\ \A k \in v5 : h[k].at = 0
  BY <1>2, <1>6, <1>21, WalkSame
<1>23. ((T \cup {r}) \ {l, r}) \cup {i} = others \cup v5 \cup {i} /\ i \notin others \cup v5
  BY <1>1, <1>2, <1>6, <1>9 DEF T
<1>24. Outcome(h, i, others \cup v5 \cup {i}, n)
  BY <1>2, <1>20, <1>23, StartIs
<1> HIDE DEF n
<1> QED BY <1>1, <1>20, <1>22, <1>23, <1>24, MovedKeeps

LEMMA GetIdxKeeps ==
    ASSUME ListInv, NEW i, NEW n \in 0 .. 1, Lst!GetIdx(i, n)
    PROVE  ListInv'
<1> DEFINE T == v3 \cup v5
           first == Lst!Start(v2, i)
           next == Lst!Continue(first, i, Lst!Behind(first, i))
           found == IF n = 0 \/ first[i].kind = "freed" THEN first ELSE next
<1>1. /\ i \in v3 /\ found[i].kind # "freed"
      /\ v2' = found /\ v1' = v1 /\ v3' = v3 /\ v4' = v4 /\ v5' = v5
  BY DEF Lst!GetIdx
<1>2. /\ v1 \in Chains /\ Forest(v2, T) /\ v3 \cap v5 = {} /\ i \in T
      /\ (\A k \in v3 : Walk(v1, v2, k)) /\ \A k \in v5 : v2[k].at = 0
      /\ v4 \subseteq Objs /\ \A x \in v4, y \in Elems(v1) : x > y
  BY <1>1 DEF ListInv
<1> HIDE DEF T
<1>3. v1 # <<>>
  <2>1. Elems(v1) # {}
    BY <1>1, <1>2 DEF Walk
  <2> QED BY <2>1 DEF Elems
<1>4. Outcome(v2, i, T, first)
  BY <1>2, StartIs
<1> HIDE DEF first
<1>5. Lst!Freed.kind = "freed" /\ \A w \in Headers : w.kind # "freed"
  BY DEF Lst!Freed, Headers, Kinds
<1>6. CASE found = first
  <2>1. Forest(first, T) /\ Walk(v1, first, i)
    BY <1>1, <1>3, <1>4, <1>5, <1>6 DEF Outcome
  <2>2. \A k \in T \ {i} : first[k] = v2[k] /\ (Walk(v1, v2, k) => Walk(v1, first, k))
    BY <1>2, <1>4, OutcomeKeeps
  <2>3. (\A k \in v3 : Walk(v1, first, k)) /\ \A k \in v5 : first[k].at = 0
    BY <1>1, <1>2, <2>1, <2>2 DEF T
  <2> QED BY <1>1, <1>2, <1>6, <2>1, <2>3 DEF ListInv, T
<1>7. CASE found = next /\ first[i].kind # "freed"
  <2>1. Forest(first, T) /\ Walk(v1, first, i)
    BY <1>3, <1>4, <1>5, <1>7 DEF Outcome
  <2>2. Outcome(first, i, T, next)
    BY <1>2, <2>1, GoOnIs
  <2> HIDE DEF next
  <2>3. Forest(next, T) /\ Walk(v1, next, i)
    BY <1>1, <1>3, <1>5, <1>7, <2>2 DEF Outcome
  <2>4. \A k \in T \ {i} : first[k] = v2[k] /\ (Walk(v1, v2, k) => Walk(v1, first, k))
    BY <1>2, <1>4, OutcomeKeeps
  <2>5. \A k \in T \ {i} : next[k] = first[k] /\ (Walk(v1, first, k) => Walk(v1, next, k))
    BY <1>2, <2>1, <2>2, OutcomeKeeps
  <2>6. (\A k \in v3 : Walk(v1, next, k)) /\ \A k \in v5 : next[k].at = 0
    BY <1>1, <1>2, <2>3, <2>4, <2>5 DEF T
  <2> QED BY <1>1, <1>2, <1>7, <2>3, <2>6 DEF ListInv, T
<1> QED BY <1>6, <1>7

\* A copy of a list without components accepts what it accepts.
LEMMA GetCpyLeaf ==
    ASSUME ListInv, NEW i, Lst!GetCpy(i), v2[i].kind = "leaf"
    PROVE  ListInv'
<1> DEFINE c == Lst!Free(v2)
           w == v2[i]
           h == [v2 EXCEPT ![c] = v2[i]]
           T == v3 \cup v5
<1>1. i \in v3 /\ Lst!Room(1) /\ Lst!Holds(h, c, v3) /\ v1' = v1 /\ v4' = v4
  BY DEF Lst!GetCpy, Lst!Copy
<1>2. /\ v1 \in Chains /\ Forest(v2, T) /\ v3 \cap v5 = {} /\ Walk(v1, v2, i)
      /\ (\A k \in v3 : Walk(v1, v2, k)) /\ \A k \in v5 : v2[k].at = 0
  BY <1>1 DEF ListInv
<1>3. c \in Ids \ Lst!Live(v2)
  <2>1. AtLeast(Ids \ Lst!Live(v2), 1)
    BY <1>1, RoomIs
  <2>2. Ids \ Lst!Live(v2) # {}
    BY <2>1, SomeLeft
  <2> QED BY <2>2, FreeIs
<1>4. /\ v2 \in Heaps /\ T \subseteq Lst!Live(v2) /\ Lst!Live(v2) \subseteq Ids /\ Sound(v2)
      /\ i \in Ids /\ w \in Headers /\ c \notin T
  BY <1>1, <1>2, <1>3, LiveIs DEF Forest, Lst!Live, Ids
<1> HIDE DEF c
<1>5. h \in Heaps /\ h[c] = w /\ \A j \in Ids \ {c} : h[j] = v2[j]
  BY <1>3, <1>4 DEF Heaps
<1> HIDE DEF h, T
<1>6. /\ Forest(h, T \cup {c})
      /\ \A k \in Lst!Live(v2) : /\ h[k] = v2[k]
                                 /\ \A j \in Lst!Below(v2, k) : h[j] = v2[j]
  <2>1. h[c] \in Headers /\ h[c].kind = "leaf"
    BY <1>4, <1>5
  <2> QED BY <1>2, <1>3, <1>5, <2>1, LeafIs
<1>7. (\A k \in v3 : Walk(v1, h, k)) /\ \A k \in v5 : h[k].at = 0
  BY <1>2, <1>4, <1>6, WalkSame DEF T
<1>8. Lst!Accepts(v2, i) = Lst!Accepts(h, c)
  <2> DEFINE Q == {<<i, c>>}
  <2>1. Q \in SUBSET (Ids \X Ids) /\ <<i, c>> \in Q
    BY <1>3, <1>4
  <2>2. \A q \in Q : LET v == v2[q[1]]
                         u == h[q[2]]
                     IN  /\ v.kind = u.kind /\ v.set = u.set
                         /\ v.kind \in Lst!Ops => <<v.l, u.l>> \in Q /\ <<v.r, u.r>> \in Q
    BY <1>5 DEF Lst!Ops
  <2> HIDE DEF Q
  <2> QED BY <2>1, <2>2, AcceptsAlike
<1>9. Walk(v1, h, c)
  BY <1>2, <1>5, <1>8 DEF Walk
<1>10. T \cup {c} = v3 \cup v5 \cup {c} /\ v3 \in SUBSET v3 /\ c \notin v3 \cup v5 /\ h[c] \in Headers
  BY <1>4, <1>5 DEF T
<1> QED BY <1>1, <1>6, <1>7, <1>9, <1>10, HoldsKeeps

LEMMA LiveMore ==
    ASSUME NEW h \in Heaps, NEW n \in Heaps, NEW I \in SUBSET Ids, \A j \in I : n[j] \in Headers,
           \A j \in Ids \ I : n[j] = h[j]
    PROVE  Lst!Live(n) = Lst!Live(h) \cup I
<1>1. ASSUME NEW j \in Ids
      PROVE  j \in Lst!Live(n) <=> j \in Lst!Live(h) \cup I
  BY LiveIs
<1>2. Lst!Live(h) \subseteq Ids /\ Lst!Live(n) \subseteq Ids
  BY DEF Lst!Live, Ids
<1> QED BY <1>1, <1>2

\* A copy of a list with components has components of its own.
LEMMA GetCpyJoined ==
    ASSUME ListInv, NEW i, Lst!GetCpy(i), v2[i].kind # "leaf"
    PROVE  ListInv'
<1> DEFINE c == Lst!Free(v2)
           w == v2[i]
           wl == v2[w.l]
           wr == v2[w.r]
           one == [v2 EXCEPT ![c] = w]
           l == Lst!Free(one)
           two == [one EXCEPT ![l] = wl, ![c].l = l]
           r == Lst!Free(two)
           h == [two EXCEPT ![r] = wr, ![c].r = r]
           a == [v2 EXCEPT ![l] = wl]
           b == [a EXCEPT ![r] = wr]
           T == v3 \cup v5
           free == Ids \ Lst!Live(v2)
<1>1. /\ i \in v3 /\ Lst!Room(3) /\ Lst!Holds(h, c, v3) /\ v1' = v1 /\ v4' = v4
      /\ Lst!Flat(v2, i)
  BY DEF Lst!GetCpy, Lst!Copy
<1>2. /\ v1 \in Chains /\ Forest(v2, T) /\ v3 \cap v5 = {} /\ Walk(v1, v2, i)
      /\ (\A k \in v3 : Walk(v1, v2, k)) /\ \A k \in v5 : v2[k].at = 0
  BY <1>1 DEF ListInv
<1>3. free # {} /\ free \ {c} # {} /\ (free \ {c}) \ {l} # {}
  <2> HIDE DEF free, c, l
  <2>1. AtLeast(free, 3)
    BY <1>1, RoomIs DEF free
  <2>2. free # {} /\ AtLeast(free \ {c}, 3 - 1) /\ 3 - 1 = 2
    BY <2>1, SomeLeft
  <2>3. free \ {c} # {} /\ AtLeast((free \ {c}) \ {l}, 2 - 1) /\ 2 - 1 = 1
    BY <2>2, SomeLeft
  <2>4. (free \ {c}) \ {l} # {}
    BY <2>3, SomeLeft
  <2> QED BY <2>2, <2>3, <2>4
<1>4. c \in free
  BY <1>3, FreeIs
<1>5. /\ v2 \in Heaps /\ T \subseteq Lst!Live(v2) /\ Lst!Live(v2) \subseteq Ids /\ Sound(v2)
      /\ i \in Ids /\ w \in Headers /\ i \in Lst!Live(v2)
  BY <1>1, <1>2, LiveIs DEF Forest, Lst!Live, Ids
<1>6. w.kind \in Lst!Ops
  BY <1>5 DEF Headers, Kinds, Lst!Ops
<1>7. /\ w.l \in Lst!Live(v2) /\ w.r \in Lst!Live(v2)
      /\ wl.kind = "leaf" /\ wr.kind = "leaf"
  BY <1>1, <1>5, <1>6 DEF Sound, Lst!Flat, Lst!Components
<1>8. wl \in Headers /\ wr \in Headers
  BY <1>5, <1>7, LiveIs
<1> HIDE DEF c, w, wl, wr, T
<1>9. one \in Heaps /\ one[c] = w /\ \A j \in Ids \ {c} : one[j] = v2[j]
  BY <1>4, <1>5 DEF Heaps
<1> HIDE DEF one
<1>10. Lst!Live(one) = Lst!Live(v2) \cup {c}
  <2> DEFINE I == {c}
  <2>1. I \in SUBSET Ids /\ (\A j \in I : one[j] \in Headers) /\ \A j \in Ids \ I : one[j] = v2[j]
    BY <1>4, <1>5, <1>9
  <2> HIDE DEF I
  <2>2. Lst!Live(one) = Lst!Live(v2) \cup I
    BY <1>5, <1>9, <2>1, LiveMore
  <2> QED BY <2>2 DEF I
<1>11. l \in free \ {c}
  <2>1. Ids \ Lst!Live(one) = free \ {c}
    BY <1>10
  <2> QED BY <1>3, <2>1, FreeIs
<1> HIDE DEF l
<1>12. /\ two[l] = wl /\ two[c] = [w EXCEPT !.l = l] /\ (\A j \in Ids \ {c, l} : two[j] = v2[j])
       /\ two = [j \in Ids |-> two[j]]
  BY <1>4, <1>9, <1>11 DEF Heaps
<1> HIDE DEF two
<1>13. two[c] \in Headers /\ two[c].l = l /\ two[c].kind = w.kind
  BY <1>5, <1>11, <1>12 DEF Headers
<1>14. two \in Heaps
  <2>1. \A j \in Ids : two[j] \in Headers \cup {Lst!Freed}
    BY <1>5, <1>8, <1>12, <1>13 DEF Heaps
  <2> QED BY <1>12, <2>1 DEF Heaps
<1>15. Lst!Live(two) = Lst!Live(v2) \cup {c, l}
  <2> DEFINE I == {c, l}
  <2>1. I \in SUBSET Ids /\ (\A j \in I : two[j] \in Headers) /\ \A j \in Ids \ I : two[j] = v2[j]
    BY <1>4, <1>8, <1>11, <1>12, <1>13
  <2> HIDE DEF I
  <2>2. Lst!Live(two) = Lst!Live(v2) \cup I
    BY <1>5, <1>14, <2>1, LiveMore
  <2> QED BY <2>2 DEF I
<1>16. r \in (free \ {c}) \ {l}
  <2>1. Ids \ Lst!Live(two) = (free \ {c}) \ {l}
    BY <1>15
  <2> QED BY <1>3, <2>1, FreeIs
<1> HIDE DEF r
<1>17. /\ h[r] = wr /\ h[c] = [two[c] EXCEPT !.r = r] /\ (\A j \in Ids \ {c, r} : h[j] = two[j])
       /\ h = [j \in Ids |-> h[j]]
  BY <1>4, <1>14, <1>16 DEF Heaps
<1> HIDE DEF h
<1>18. h[c] = [w EXCEPT !.l = l, !.r = r]
  BY <1>5, <1>12, <1>17 DEF Headers
<1>19. /\ h[c] \in Headers /\ h[c].kind = w.kind /\ h[c].set = w.set /\ h[c].l = l /\ h[c].r = r
       /\ h[c].at = w.at /\ h[c].seen = w.seen /\ h[c].due = w.due
  BY <1>5, <1>11, <1>16, <1>18 DEF Headers
<1>20. h[l] = wl /\ h[r] = wr /\ \A j \in Ids \ {c, l, r} : h[j] = v2[j]
  BY <1>11, <1>12, <1>16, <1>17
<1>21. h \in Heaps
  <2>1. \A j \in Ids : h[j] \in Headers \cup {Lst!Freed}
    BY <1>5, <1>8, <1>19, <1>20 DEF Heaps
  <2> QED BY <1>17, <2>1 DEF Heaps
<1>22. a \in Heaps /\ a[l] = wl /\ \A j \in Ids \ {l} : a[j] = v2[j]
  BY <1>5, <1>8, <1>11 DEF Heaps
<1>23. b \in Heaps /\ b[r] = wr /\ \A j \in Ids \ {r} : b[j] = a[j]
  <2> HIDE DEF a
  <2> QED BY <1>8, <1>16, <1>22 DEF Heaps
<1> HIDE DEF a, b
<1>24. /\ Forest(a, T \cup {l}) /\ Lst!Live(a) = Lst!Live(v2) \cup {l}
       /\ \A k \in Lst!Live(v2) : /\ a[k] = v2[k]
                                  /\ \A j \in Lst!Below(v2, k) : a[j] = v2[j]
  <2>1. l \in Ids \ Lst!Live(v2) /\ a[l] \in Headers /\ a[l].kind = "leaf"
    BY <1>7, <1>8, <1>11, <1>22
  <2> QED BY <1>2, <1>22, <2>1, LeafIs
<1>25. Forest(b, (T \cup {l}) \cup {r}) /\ Lst!Live(b) = Lst!Live(a) \cup {r}
  <2> DEFINE Q == T \cup {l}
  <2>1. r \in Ids \ Lst!Live(a) /\ b[r] \in Headers /\ b[r].kind = "leaf" /\ Forest(a, Q)
    BY <1>7, <1>8, <1>16, <1>23, <1>24
  <2> HIDE DEF Q
  <2>2. Forest(b, Q \cup {r}) /\ Lst!Live(b) = Lst!Live(a) \cup {r}
    BY <1>23, <2>1, LeafIs
  <2> QED BY <2>2 DEF Q
<1>26. Forest(h, T \cup {c})
  <2> DEFINE Q == (T \cup {l}) \cup {r}
  <2>1. Forest(b, Q) /\ l \in Q /\ r \in Q
    BY <1>25
  <2>2. c \in Ids \ Lst!Live(b)
    BY <1>4, <1>11, <1>16, <1>24, <1>25
  <2>3. \A j \in Ids \ {c} : h[j] = b[j]
    BY <1>11, <1>16, <1>20, <1>22, <1>23
  <2>4. (Q \ {l, r}) \cup {c} = T \cup {c}
    BY <1>5, <1>11, <1>16
  <2> HIDE DEF Q
  <2>5. Forest(h, (Q \ {l, r}) \cup {c})
    BY <1>6, <1>19, <1>21, <2>1, <2>2, <2>3, JoinedIs
  <2> QED BY <2>4, <2>5
<1>27. ASSUME NEW k \in T
       PROVE  k \in Lst!Live(v2) /\ h[k] = v2[k] /\ \A j \in Lst!Below(v2, k) : h[j] = v2[j]
  <2>1. k \in Lst!Live(v2) /\ Lst!Below(v2, k) \subseteq Lst!Live(v2)
    BY <1>5, BelowHas
  <2>2. \A j \in Lst!Live(v2) : h[j] = v2[j]
    BY <1>4, <1>5, <1>11, <1>16, <1>20
  <2> QED BY <2>1, <2>2
<1>28. (\A k \in v3 : Walk(v1, h, k)) /\ \A k \in v5 : h[k].at = 0
  BY <1>2, <1>5, <1>27, WalkSame DEF T
<1>29. Lst!Accepts(v2, i) = Lst!Accepts(h, c)
  <2> DEFINE Q == {<<i, c>>, <<w.l, l>>, <<w.r, r>>}
  <2>1. Q \in SUBSET (Ids \X Ids) /\ <<i, c>> \in Q
    BY <1>4, <1>5, <1>7, <1>11, <1>16
  <2>2. \A q \in Q : LET v == v2[q[1]]
                         u == h[q[2]]
                     IN  /\ v.kind = u.kind /\ v.set = u.set
                         /\ v.kind \in Lst!Ops => <<v.l, u.l>> \in Q /\ <<v.r, u.r>> \in Q
    BY <1>7, <1>19, <1>20 DEF Lst!Ops, w, wl, wr
  <2> HIDE DEF Q
  <2> QED BY <2>1, <2>2, AcceptsAlike
<1>30. Walk(v1, h, c)
  BY <1>2, <1>19, <1>29 DEF Walk, w
<1>31. T \cup {c} = v3 \cup v5 \cup {c} /\ v3 \in SUBSET v3 /\ c \notin v3 \cup v5
  BY <1>4, <1>5 DEF T
<1> QED BY <1>1, <1>19, <1>26, <1>28, <1>30, <1>31, HoldsKeeps

LEMMA AddItemKeeps ==
    ASSUME ListInv, NEW o \in Objs, Lst!AddItem(o)
    PROVE  ListInv'
<1>1. /\ o \in v4 /\ (\A x \in v4 : o <= x) /\ v4' = v4 \ {o} /\ v1' = <<o>> \o v1
      /\ v2' = v2 /\ v3' = v3 /\ v5' = v5
  BY DEF Lst!AddItem
<1>2. /\ v1 \in Chains /\ v4 \subseteq Objs /\ (\A x \in v4, y \in Elems(v1) : x > y)
      /\ Forest(v2, v3 \cup v5) /\ v3 \cap v5 = {} /\ (\A i \in v3 : Walk(v1, v2, i))
      /\ \A i \in v5 : v2[i].at = 0
  BY DEF ListInv
<1>3. v1' \in Chains /\ Elems(v1') = Elems(v1) \cup {o}
  BY <1>1, <1>2, FrontChain
<1>4. /\ (\A x \in Objs : x \in Int) /\ Elems(v1) \subseteq Objs
  BY <1>2, ChainIs, ListsAssumption
<1>5. \A x \in v4', y \in Elems(v1') : x > y
  BY <1>1, <1>2, <1>3, <1>4
<1>6. ASSUME NEW i \in v3
      PROVE  Walk(v1', v2, i)
  <2>1. Walk(v1, v2, i)
    BY <1>2
  <2>2. v2[i].at \in Elems(v1) /\ ~(o < v2[i].at)
    BY <1>1, <1>2, <1>4, <2>1 DEF Walk
  <2> QED BY <1>3, <2>1, <2>2 DEF Walk
<1> QED BY <1>1, <1>2, <1>3, <1>5, <1>6 DEF ListInv

LEMMA RemoveItemKeeps ==
    ASSUME ListInv, NEW o \in Objs, Lst!RemoveItem(o)
    PROVE  ListInv'
<1>1. /\ (\A i \in v3 : v2[i].at # o) /\ v1' = Lst!Without(v1, o)
      /\ v2' = [i \in Ids |-> IF v2[i].kind = "freed" THEN Lst!Freed
                              ELSE [v2[i] EXCEPT !.due = @ \ {o}, !.seen = Lst!Without(@, o)]]
      /\ v3' = v3 /\ v4' = v4 /\ v5' = v5
  BY DEF Lst!RemoveItem, Ids
<1>2. /\ v1 \in Chains /\ v4 \subseteq Objs /\ (\A x \in v4, y \in Elems(v1) : x > y)
      /\ Forest(v2, v3 \cup v5) /\ v3 \cap v5 = {} /\ (\A i \in v3 : Walk(v1, v2, i))
      /\ \A i \in v5 : v2[i].at = 0
  BY DEF ListInv
<1>3. v1' \in Chains /\ Elems(v1') = Elems(v1) \ {o}
  BY <1>1, <1>2, RemovedIs
<1>4. v2 \in Heaps /\ Sound(v2) /\ v3 \cup v5 \subseteq Lst!Live(v2) /\ Lst!Live(v2) \subseteq Ids
  BY <1>2 DEF Forest, Lst!Live, Ids
<1> DEFINE n == v2'
<1>5. ASSUME NEW i \in Lst!Live(v2)
      PROVE  /\ n[i] \in Headers /\ Alike(n[i], v2[i]) /\ n[i].at = v2[i].at /\ n[i].due = v2[i].due \ {o}
             /\ Elems(n[i].seen) = Elems(v2[i].seen) \ {o}
  <2>1. v2[i] \in Headers /\ v2[i].kind # "freed" /\ i \in Ids
    BY <1>4, LiveIs
  <2> DEFINE s == Lst!Without(v2[i].seen, o)
  <2>2. n[i] = [v2[i] EXCEPT !.due = v2[i].due \ {o}, !.seen = s]
    BY <1>1, <2>1
  <2>3. s \in Chains /\ Elems(s) = Elems(v2[i].seen) \ {o}
    BY <2>1, RemovedIs DEF Headers
  <2> HIDE DEF s, n
  <2> QED BY <2>1, <2>2, <2>3 DEF Headers, Alike
<1>6. \A i \in Ids : i \notin Lst!Live(v2) => n[i] = Lst!Freed /\ v2[i] = Lst!Freed
  BY <1>1, <1>4, LiveIs DEF Lst!Freed
<1>7. n \in Heaps
  <2>1. n = [i \in Ids |-> n[i]]
    BY <1>1
  <2>2. \A i \in Ids : n[i] \in Headers \cup {Lst!Freed}
    BY <1>5, <1>6
  <2> HIDE DEF n
  <2> QED BY <2>1, <2>2 DEF Heaps
<1>8. \A i \in Ids : Alike(n[i], v2[i])
  BY <1>5, <1>6 DEF Alike
<1> HIDE DEF n
<1>9. Forest(n, v3 \cup v5)
  BY <1>2, <1>7, <1>8, SameKeeps
<1>10. ASSUME NEW i \in v3
       PROVE  Walk(v1', n, i)
  <2>1. Walk(v1, v2, i) /\ v2[i].at # o /\ i \in Lst!Live(v2)
    BY <1>1, <1>2, <1>4
  <2>2. Lst!Accepts(n, i) = Lst!Accepts(v2, i)
    <3>1. Lst!Below(v2, i) \subseteq Ids
      BY <1>4, <2>1, BelowHas
    <3> QED BY <1>4, <1>8, <2>1, <3>1, AcceptsSame
  <2>3. /\ n[i].at = v2[i].at /\ n[i].due = v2[i].due \ {o}
        /\ Elems(n[i].seen) = Elems(v2[i].seen) \ {o}
    BY <1>5, <2>1
  <2> QED BY <1>3, <2>1, <2>2, <2>3 DEF Walk
<1>11. \A i \in v5 : n[i].at = 0
  BY <1>2, <1>4, <1>5
<1>12. \A x \in v4', y \in Elems(v1') : x > y
  BY <1>1, <1>2, <1>3
<1>13. v2' = n
  BY DEF n
<1> QED BY <1>1, <1>2, <1>3, <1>9, <1>10, <1>11, <1>12, <1>13 DEF ListInv

LEMMA ListInit ==
    ASSUME Lst!Init
    PROVE  ListInv
<1>1. v1 = <<>> /\ v4 = Objs /\ v2 = [i \in Ids |-> Lst!Freed] /\ v3 = {} /\ v5 = {}
  BY DEF Lst!Init, Ids
<1>2. v1 \in Chains /\ Elems(v1) = {}
  BY <1>1 DEF Chains, Down, Elems
<1>3. v2 \in Heaps /\ Lst!Live(v2) = {}
  BY <1>1 DEF Heaps, Lst!Live, Ids, Lst!Freed
<1>4. Forest(v2, v3 \cup v5)
  BY <1>1, <1>3 DEF Forest, Sound
<1> QED BY <1>1, <1>2, <1>4 DEF ListInv

LEMMA ListStep ==
    ASSUME ListInv, Lst!Next
    PROVE  ListInv'
<1>1. ASSUME NEW o \in Objs, Lst!AddItem(o) \/ Lst!RemoveItem(o)
      PROVE  ListInv'
  BY <1>1, AddItemKeeps, RemoveItemKeeps
<1>2. ASSUME NEW set \in Conditions, Lst!NewQuery(set)
      PROVE  ListInv'
  BY <1>2, NewQueryKeeps
<1>3. ASSUME NEW i \in v3, Lst!GetNext(i) \/ Lst!FreeList(i)
      PROVE  ListInv'
  BY <1>3, GetNextKeeps, FreeListKeeps
<1>4. ASSUME NEW i \in v3, Lst!GetCpy(i)
      PROVE  ListInv'
  BY <1>4, GetCpyLeaf, GetCpyJoined
<1>5. ASSUME NEW i \in v3, NEW n \in 0 .. 1, Lst!GetIdx(i, n)
      PROVE  ListInv'
  BY <1>5, GetIdxKeeps
<1>6. ASSUME NEW i \in v3, NEW op \in Lst!Ops, NEW r \in v3, Lst!Combine(op, i, r)
      PROVE  ListInv'
  BY <1>6, CombineKeeps
<1>7. ASSUME NEW i \in v3, NEW set \in Conditions, Lst!Filter(i, set)
      PROVE  ListInv'
  BY <1>7, FilterKeeps
<1> QED BY <1>1, <1>2, <1>3, <1>4, <1>5, <1>6, <1>7 DEF Lst!Next

LEMMA ListRight ==
    ASSUME ListInv
    PROVE  Lst!OwnedOnce /\ Lst!FindsAll
<1>1. /\ v1 \in Chains /\ Forest(v2, v3 \cup v5) /\ v3 \cap v5 = {}
      /\ (\A i \in v3 : Walk(v1, v2, i)) /\ \A i \in v5 : v2[i].at = 0
  BY DEF ListInv
<1>2. Lst!OwnedOnce
  <2> DEFINE T == v3 \cup v5
  <2>1. Forest(v2, T) /\ Sound(v2) /\ T \subseteq Lst!Live(v2)
    BY <1>1 DEF Forest
  <2>2. \A k \in T : Lst!Below(v2, k) \subseteq Lst!Live(v2)
    BY <2>1, BelowHas
  <2>3. Lst!Live(v2) = UNION {Lst!Below(v2, k) : k \in T}
    BY <2>1, <2>2 DEF Forest
  <2>4. ASSUME NEW i \in T, NEW k \in T, i < k
        PROVE  Lst!Below(v2, i) \cap Lst!Below(v2, k) = {}
    <3>1. i # k
      <4>1. i \in Int
        BY <2>1, ListsAssumption DEF Lst!Live, Lst!Ids
      <4> QED BY <2>4, <4>1
    <3> QED BY <2>1, <3>1, BelowApart
  <2>5. Lst!Roots = T
    BY DEF Lst!Roots
  <2> HIDE DEF T
  <2> QED BY <1>1, <2>1, <2>3, <2>4, <2>5 DEF Lst!OwnedOnce, Lst!None
<1>3. ASSUME NEW i \in v3
      PROVE  LET w == v2[i]
             IN  /\ w.at \in Lst!Present
                 /\ Lst!InOrder(w.seen)
                 /\ Lst!Range(w.seen) = {o \in Lst!Present : o \in w.due /\ Lst!Pos(o) <= Lst!Pos(w.at)}
  <2> DEFINE w == v2[i]
  <2>1. Walk(v1, v2, i) /\ w \in Headers
    BY <1>1, LiveIs DEF Forest, Lst!Live, Ids
  <2>2. w.seen \in Chains
    BY <2>1 DEF Headers
  <2>3. /\ Lst!Present = Elems(v1) /\ Lst!Range(w.seen) = Elems(w.seen) /\ Elems(v1) \subseteq Objs
        /\ Elems(w.seen) \subseteq Objs
    BY <1>1, <2>2, ChainIs DEF Lst!Present, Lst!Range, Elems
  <2>4. w.at \in Elems(v1) /\ w.due \subseteq Elems(v1)
    BY <2>1 DEF Walk
  <2> HIDE DEF w
  <2>5. \A o \in Elems(v1) : Lst!Pos(o) \in 1 .. Len(v1) /\ v1[Lst!Pos(o)] = o /\ o \in Int
    BY <1>1, PosIs
  <2>6. Len(v1) \in Nat
    BY <1>1, ChainIs
  <2>7. ASSUME NEW x \in Elems(v1), NEW y \in Elems(v1)
        PROVE  Lst!Pos(x) < Lst!Pos(y) <=> x > y
    <3>1. Lst!Pos(y) >= Lst!Pos(x) + 1 <=> v1[Lst!Pos(y)] < x
      BY <1>1, <2>5, PosIs
    <3> QED BY <2>5, <2>6, <3>1
  <2>8. Elems(w.seen) \subseteq Elems(v1)
    BY <2>1, <2>3, <2>4 DEF Walk, w
  <2>9. Lst!InOrder(w.seen)
    <3>1. ASSUME NEW m \in DOMAIN w.seen, NEW n \in DOMAIN w.seen, m < n
          PROVE  Lst!Pos(w.seen[m]) < Lst!Pos(w.seen[n])
      <4>1. w.seen[m] > w.seen[n] /\ w.seen[m] \in Elems(v1) /\ w.seen[n] \in Elems(v1)
        BY <2>2, <2>8, <3>1 DEF Chains, Down, Elems
      <4> QED BY <2>7, <4>1
    <3> QED BY <3>1 DEF Lst!InOrder
  <2>10. ASSUME NEW o \in Objs
         PROVE  o \in Elems(w.seen) <=> o \in Elems(v1) /\ o \in w.due /\ Lst!Pos(o) <= Lst!Pos(w.at)
    <3>1. o \in Elems(w.seen) <=> o \in w.due /\ o >= w.at
      BY <2>1 DEF Walk, w
    <3>2. ASSUME o \in Elems(v1)
          PROVE  o >= w.at <=> Lst!Pos(o) <= Lst!Pos(w.at)
      <4>1. Lst!Pos(w.at) < Lst!Pos(o) <=> w.at > o
        BY <2>4, <2>7, <3>2
      <4>2. /\ Lst!Pos(o) \in 1 .. Len(v1) /\ Lst!Pos(w.at) \in 1 .. Len(v1)
            /\ o \in Int /\ w.at \in Int
        BY <2>4, <2>5, <3>2
      <4> QED BY <2>6, <4>1, <4>2
    <3> QED BY <2>4, <3>1, <3>2
  <2> QED BY <2>3, <2>4, <2>9, <2>10 DEF w
<1> QED BY <1>2, <1>3 DEF Lst!FindsAll

-----------------------------------------------------------------------------
(* The parts side by side.                                                 *)

PartsInv ==
    /\ which \in {"buffer", "table", "clocks", "time", "records", "names", "mapnames", "list"}
    /\ which = "buffer" => BufferInv
    /\ which = "table" => TableInv
    /\ which = "clocks" => ClocksInv
    /\ which = "time" => TimeInv
    /\ which = "records" => RecordsInv
    /\ which = "names" => NamesInv
    /\ which = "mapnames" => MapNamesInv
    /\ which = "list" => ListInv

LEMMA PartsInit ==
    ASSUME Init
    PROVE  PartsInv
  BY BufferInit, TableInit, ClocksInit, TimeInit, RecordsInit, NamesInit, MapNamesInit, ListInit
     DEF Init, PartsInv

\* A step that changes nothing keeps the invariant of the part.
LEMMA StutterKeeps ==
    ASSUME PartsInv, UNCHANGED vars
    PROVE  PartsInv'
<1>1. /\ which' = which /\ v1' = v1 /\ v2' = v2 /\ v3' = v3 /\ v4' = v4 /\ v5' = v5
      /\ v6' = v6 /\ v7' = v7
  BY DEF vars
<1>2. BufferInv => BufferInv'
  BY <1>1 DEF BufferInv
<1>3. TableInv => TableInv'
  BY <1>1 DEF TableInv
<1>4. ClocksInv => ClocksInv'
  BY <1>1 DEF ClocksInv
<1>5. TimeInv => TimeInv'
  BY <1>1 DEF TimeInv
<1>6. RecordsInv => RecordsInv'
  BY <1>1 DEF RecordsInv, R, Rec!Recs
<1>7. NamesInv => NamesInv'
  BY <1>1 DEF NamesInv
<1>8. MapNamesInv => MapNamesInv'
  BY <1>1 DEF MapNamesInv
<1>9. ListInv => ListInv'
  BY <1>1 DEF ListInv
<1> QED BY <1>1, <1>2, <1>3, <1>4, <1>5, <1>6, <1>7, <1>8, <1>9 DEF PartsInv

LEMMA PartsStep ==
    ASSUME PartsInv, [Next]_vars
    PROVE  PartsInv'
<1>1. CASE UNCHANGED vars
  BY <1>1, StutterKeeps
<1>2. CASE Next
  <2>1. which' = which
    BY <1>2 DEF Next
  <2>2. CASE which = "buffer"
    BY <1>2, <2>1, <2>2, BufferStep DEF Next, PartsInv
  <2>3. CASE which = "table"
    BY <1>2, <2>1, <2>3, TableStep DEF Next, PartsInv
  <2>4. CASE which = "clocks"
    BY <1>2, <2>1, <2>4, ClocksStep DEF Next, PartsInv
  <2>5. CASE which = "time"
    BY <1>2, <2>1, <2>5, TimeStep DEF Next, PartsInv
  <2>6. CASE which = "records"
    BY <1>2, <2>1, <2>6, RecordsStep DEF Next, PartsInv
  <2>7. CASE which = "names"
    BY <1>2, <2>1, <2>7, NamesStep DEF Next, PartsInv
  <2>8. CASE which = "mapnames"
    BY <1>2, <2>1, <2>8, MapNamesStep DEF Next, PartsInv
  <2>9. CASE which = "list"
    BY <1>2, <2>1, <2>9, ListStep DEF Next, PartsInv
  <2> QED BY <2>2, <2>3, <2>4, <2>5, <2>6, <2>7, <2>8, <2>9 DEF PartsInv
<1> QED BY <1>1, <1>2

(* Each part keeps its invariant: the rings of a buffer follow what was    *)
(* set, the tables and the messages under way say what was told, a ping    *)
(* carries what its round has taken so far, the records of the graph and   *)
(* of the router fit together, an announcement names the devices that are  *)
(* in scope, a record of a map has its sources or one device's part, and   *)
(* the headers of queries are a forest, in which each walk has found what  *)
(* it should have found so far.                                            *)
THEOREM PartsInvariant == Spec => []PartsInv
<1>1. Init => PartsInv
  BY PartsInit
<1>2. PartsInv /\ [Next]_vars => PartsInv'
  BY PartsStep
<1> QED BY <1>1, <1>2, PTL DEF Spec

(* value.c: whatever instances are reset and removed and samples taken     *)
(* back, a reference k steps back finds the k-th latest sample of its      *)
(* instance that was written since the memory has its size, and further    *)
(* back an older sample of the same instance, in no order, or zero.        *)
THEOREM HistoryIsRight == Spec => []StorageRight
<1>1. PartsInv => StorageRight
  BY BufferRight DEF PartsInv, StorageRight
<1> QED BY <1>1, PartsInvariant, PTL

(* table.c and object.c: a table stays sorted and is the dictionary of     *)
(* what was set and removed, by its owner and by an editor; and the copy   *)
(* that a subscriber keeps is what was announced last, once it has heard.  *)
(* map.c and device.c: so is it with the scopes of a map at its other end, *)
(* whatever entries the removals take with them; and of the links that a   *)
(* device no longer has, each announcement removes every other one.        *)
THEOREM CopiesAreRight == Spec => []CopiesRight
<1>1. PartsInv => CopiesRight
  BY TableRight, NamesRight DEF PartsInv, CopiesRight
<1> QED BY <1>1, PartsInvariant, PTL

(* time.c, and the pings of network.c: sums and shifts of time stamps are  *)
(* those of the numbers they stand for, modulo the range of these, and a   *)
(* difference is at most a second too small; the sign of a comparison is   *)
(* right for times whose words differ by half of their range at most, and  *)
(* wrong for all others, in the same second too.  A round of pings takes   *)
(* what its two pings took, and the offset of a clock is off by what one   *)
(* way may take longer than the other at most.                             *)
THEOREM TimeIsRight == Spec => []ClocksRight
<1>1. PartsInv => ClocksRight
  BY TimeRight, SyncRight DEF PartsInv, ClocksRight
<1> QED BY <1>1, PartsInvariant, PTL

(* graph.c, link.c, router.c: the graph has the records that its records   *)
(* point to, the slots of the router are those of its maps, and a link     *)
(* counts at least one map as long as a ready map goes over it.            *)
(* network.c: a map that the destination told a graph of has one record    *)
(* there, with its sources, whatever their devices told; and no two maps   *)
(* at a destination have the same sources.                                 *)
THEOREM RecordsAreRight == Spec => []GraphRight
<1>1. PartsInv => GraphRight
  BY RecordsRight, MapNamesRight DEF PartsInv, GraphRight
<1> QED BY <1>1, PartsInvariant, PTL

(* list.c: while others add and remove objects, a walk finds each object   *)
(* that its condition accepts and that is still there, once and in order;  *)
(* and each header belongs to exactly one list, of the program's or one    *)
(* that started on nothing, so that none is freed twice or used after it   *)
(* was freed.                                                              *)
THEOREM ListsAreRight == Spec => []ListsRight
<1>1. PartsInv => ListsRight
  BY ListRight DEF PartsInv, ListsRight
<1> QED BY <1>1, PartsInvariant, PTL
=============================================================================
