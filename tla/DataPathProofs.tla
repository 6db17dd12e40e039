--------------------------- MODULE DataPathProofs ---------------------------
(***************************************************************************)
(* Theorems about DataPath, for any scopes, any applications and any       *)
(* number of instances, values and bundles on their way: a value belongs   *)
(* to the instance that has it, and what bundles hold is in order, in      *)
(* scope and will be sent.                                                 *)
(***************************************************************************)
EXTENDS DataPath, FiniteSetTheorems, SequenceTheorems, TLAPS

\* The last map is processed at its destination, and where one is, the application
\* releases what its sender has released, and does not set the signal itself.
Orderly ==
    /\ setup.loc[2] = "dst"
    /\ \A k \in Maps : setup.loc[k] = "dst" => k + 1 \in setup.prompt \ setup.sets

Gid == Sigs \X Nat
Val == Gid \X Nat
Entry == [gid : Gid \cup {<<>>}, st : {"free", "held", "ended", "kept"}]
Msg == {m \in [gid : Gid, val : {Release} \cup Val] : m.val # Release => m.val[1] = m.gid}
Net == [entry : [Sigs -> Seq(Entry)], val : [Sigs -> {NoVal, Zero} \cup Val],
        updated : [Sigs -> BOOLEAN], sending : [Sigs -> BOOLEAN],
        receiving : [Sigs -> BOOLEAN], stale : [Sigs -> BOOLEAN],
        slot : [Maps -> {Zero} \cup Val], pending : [Maps -> BOOLEAN],
        muted : [Maps -> BOOLEAN], bundle : [Lines -> Seq(Msg)], gids : Nat, sets : Nat]

\* A value of the instance g.
Of(v, g) == v \in Val /\ v[1] = g

\* The signal whose instance the value in the slot of map k belongs to.
Side(k) == IF setup.loc[k] = "src" THEN k ELSE k + 1

Single(n) == \A s \in Sigs : \A i, j \in Holding(n, s) : i = j
Used(n) ==
    /\ \A s \in Sigs : \A i \in Entries(n, s) : n.entry[s][i].st # "free" => n.entry[s][i].gid \in Gid
    /\ \A i \in Entries(n, 1) :
           n.entry[1][i].st # "free" => n.entry[1][i].gid[1] = 1 /\ n.entry[1][i].gid[2] <= n.gids
\* The maps of K are left out.
Owned(n, K) ==
    /\ \A s \in Sigs : \A i \in Holding(n, s) :
           n.val[s] # NoVal => Of(n.val[s], n.entry[s][i].gid)
    /\ \A k \in Maps \ K : n.pending[k] =>
           \A i \in Holding(n, Side(k)) : Of(n.slot[k], n.entry[Side(k)][i].gid)
Scoped(n) ==
    /\ \A l \in Lines : \A i \in DOMAIN n.bundle[l] : InScope(l[1], n.bundle[l][i].gid)
    /\ n.pending[1] /\ setup.loc[1] = "src" => 1 \in setup.scope[1]
Flagged(n) ==
    /\ \A l \in Lines : n.bundle[l] # <<>> => n.sending[From(l)]
    /\ \A k \in Maps : n.muted[k] => k \in setup.mutes
    /\ \A k \in Maps \ setup.mutes : setup.loc[k] = "src" /\ n.pending[k] => n.sending[k]

\* What a line carries, c: the instances that are released in it, and their order.
Ended(c) == {g \in Gid : \E i \in DOMAIN c : \E p \in DOMAIN c[i] : c[i][p] = [gid |-> g, val |-> Release]}
InOrder(c) ==
    \A i, j \in DOMAIN c : \A p \in DOMAIN c[i], q \in DOMAIN c[j] :
        (i < j \/ (i = j /\ p < q)) /\ c[i][p].val = Release => c[j][q].gid # c[i][p].gid
Line(w, n) == Append(w, n.bundle[Down(1)])
Begun(c, n) == \A i \in DOMAIN c : \A p \in DOMAIN c[i] : c[i][p].gid[2] <= n.gids
Ordered(w, n) ==
    /\ InOrder(Line(w, n)) /\ Begun(Line(w, n), n)
    /\ \A i \in Holding(n, 1) : n.entry[1][i].gid \notin Ended(Line(w, n))

Sound(w, n) ==
    n \in Net /\ w \in Seq(Seq(Msg)) /\ Scoped(n) /\ Flagged(n) /\ Ordered(w, n)
Nearly(w, n, K) == Sound(w, n) /\ Single(n) /\ Used(n) /\ Owned(n, K)
Right(w, n) == Nearly(w, n, {})

\* The bundles on their way, W.
Wired(W) == /\ W \in [Lines -> Seq(Seq(Msg))]
            /\ \A l \in Lines : \A i \in DOMAIN W[l] :
                   \A p \in DOMAIN W[l][i] : InScope(l[1], W[l][i][p].gid)

\* The inductive invariant.
IInv == setup \in Setups /\ Orderly /\ Wired(wire) /\ Right(wire[Down(1)], net)

------------------------------------------------------------------------------
\* Records, values and lines.

LEMMA ValuesDiffer ==
    /\ NoVal # Zero
    /\ \A v \in Val : v # NoVal /\ v # Zero /\ v # Release /\ v[1] \in Gid
<1>1. ASSUME NEW v \in Val
      PROVE  v # NoVal /\ v # Zero /\ v # Release /\ v[1] \in Gid
  <2>1. PICK g \in Gid, k \in Nat : v = <<g, k>>
    BY DEF Val
  <2>2. Len(v) = 2
    BY <2>1
  <2>3. Len(NoVal) = 1 /\ Len(Zero) = 1 /\ Len(Release) = 1
    BY DEF NoVal, Zero, Release
  <2> QED BY <2>1, <2>2, <2>3
<1>2. NoVal # Zero
  BY DEF NoVal, Zero
<1> QED BY <1>1, <1>2

LEMMA Shaped ==
    ASSUME NEW n \in Net
    PROVE  n = [entry |-> n.entry, val |-> n.val, updated |-> n.updated, sending |-> n.sending,
                receiving |-> n.receiving, stale |-> n.stale, slot |-> n.slot,
                pending |-> n.pending, muted |-> n.muted, bundle |-> n.bundle,
                gids |-> n.gids, sets |-> n.sets]
BY DEF Net

LEMMA SomeLines ==
    /\ Lines = {Down(1), Up(1), Down(2), Up(2)}
    /\ \A k \in Maps : Down(k) \in Lines /\ Up(k) \in Lines /\ Down(k)[1] = k /\ Up(k)[1] = k
    /\ \A k \in Maps : From(Down(k)) = k /\ From(Up(k)) = k + 1 /\ To(Down(k)) = k + 1 /\ To(Up(k)) = k
    /\ \A l \in Lines : (From(l) = 1 <=> l = Down(1)) /\ From(l) \in Sigs /\ To(l) \in Sigs /\ l[1] \in Maps
<1>1. Maps = {1, 2} /\ Sigs = {1, 2, 3}
  BY DEF Maps, Sigs
<1>2. Lines = {Down(1), Up(1), Down(2), Up(2)}
  BY <1>1 DEF Lines, Down, Up
<1>3. "up" # "down"
  OBVIOUS
<1> QED BY <1>1, <1>2, <1>3 DEF Down, Up, From, To

LEMMA Holders ==
    ASSUME NEW n \in Net, NEW s \in Sigs
    PROVE  /\ n.entry[s] \in Seq(Entry) /\ Entries(n, s) = 1 .. Len(n.entry[s])
           /\ Holding(n, s) \subseteq Entries(n, s)
           /\ Holding(n, s) # {} => Holder(n, s) \in Holding(n, s)
           /\ Single(n) => \A i \in Holding(n, s) : i = Holder(n, s) /\ GidOf(n, s) = n.entry[s][i].gid
           /\ Used(n) => \A i \in Holding(n, s) : n.entry[s][i].gid \in Gid
           /\ \A i \in Entries(n, s) : n.entry[s][i] \in Entry
<1>1. n.entry[s] \in Seq(Entry)
  BY DEF Net
<1>2. Entries(n, s) = 1 .. Len(n.entry[s]) /\ \A i \in Entries(n, s) : n.entry[s][i] \in Entry
  BY <1>1 DEF Entries
<1>3. Holding(n, s) \subseteq Entries(n, s)
  BY DEF Holding
<1>4. Holding(n, s) # {} => Holder(n, s) \in Holding(n, s)
  BY DEF Holder
<1>5. Single(n) => \A i \in Holding(n, s) : i = Holder(n, s) /\ GidOf(n, s) = n.entry[s][i].gid
  BY <1>4 DEF Single, GidOf
<1>6. Used(n) => \A i \in Holding(n, s) : n.entry[s][i].gid \in Gid
  BY <1>3 DEF Used, Holding
<1> QED BY <1>1, <1>2, <1>3, <1>4, <1>5, <1>6

------------------------------------------------------------------------------
\* What the functions on the devices do.

\* Device s sends: it may write one message per line, and reset a slot.
Sent(n, r, s, m) ==
    /\ r.sending = [n.sending EXCEPT ![s] = TRUE]
    /\ \A l \in Lines : \/ r.bundle[l] = n.bundle[l]
                        \/ /\ From(l) = s /\ InScope(l[1], m.gid)
                           /\ r.bundle[l] = Append(n.bundle[l], m)
Kept(n, r) ==
    /\ r.pending = n.pending /\ r.muted = n.muted /\ r.gids = n.gids /\ r.sets = n.sets

LEMMA Adds ==
    ASSUME NEW n \in Net, NEW l \in Lines, NEW g, NEW v, [gid |-> g, val |-> v] \in Msg,
           NEW r, r = Add(n, l, g, v)
    PROVE  /\ r = [n EXCEPT !.bundle = r.bundle] /\ r \in Net
           /\ r.bundle = [n.bundle EXCEPT ![l] = Append(@, [gid |-> g, val |-> v])]
<1>1. r = [n EXCEPT !.bundle = [n.bundle EXCEPT ![l] = Append(@, [gid |-> g, val |-> v])]]
  BY DEF Add, Net
<1>2. [n.bundle EXCEPT ![l] = Append(@, [gid |-> g, val |-> v])] \in [Lines -> Seq(Msg)]
  BY DEF Net
<1>3. r.bundle = [n.bundle EXCEPT ![l] = Append(@, [gid |-> g, val |-> v])]
  BY <1>1, Shaped
<1>4. r = [n EXCEPT !.bundle = r.bundle]
  BY <1>1, <1>3
<1>5. r \in Net
  BY <1>2, <1>3, <1>4 DEF Net
<1> QED BY <1>3, <1>4, <1>5

LEMMA ReleaseSent ==
    ASSUME setup \in Setups, NEW n \in Net, NEW s \in Sigs, GidOf(n, s) \in Gid,
           NEW r, r = ProcessRelease(n, s)
    PROVE  /\ r \in Net /\ Kept(n, r)
           /\ r.entry = n.entry /\ r.val = n.val /\ r.updated = n.updated
           /\ Sent(n, r, s, [gid |-> GidOf(n, s), val |-> Release])
           /\ \A k \in Maps : r.slot[k] = n.slot[k] \/ Side(k) = s
<1> DEFINE g == GidOf(n, s)
           m == [gid |-> g, val |-> Release]
           quiet == n.entry[s][Holder(n, s)].st = "ended"
           a == [n EXCEPT !.slot[s - 1] = IF setup.loc[s - 1] = "dst" THEN Zero ELSE @]
           in == IF s = 1 THEN n ELSE IF quiet \/ ~InScope(s - 1, g) THEN a ELSE Add(a, Up(s - 1), g, Release)
           b == [in EXCEPT !.slot[s] = IF setup.loc[s] = "src" THEN Zero ELSE @]
           out == IF s = 3 THEN in ELSE IF InScope(s, g) THEN Add(b, Down(s), g, Release) ELSE b
<1>1. r = [out EXCEPT !.sending[s] = TRUE]
  BY DEF ProcessRelease
<1>2. m \in Msg
  BY DEF Msg
<1>3. s # 1 => /\ a \in Net /\ s - 1 \in Maps /\ a = [n EXCEPT !.slot = a.slot]
               /\ \A k \in Maps : a.slot[k] = n.slot[k] \/ Side(k) = s
  <2> SUFFICES ASSUME s # 1
               PROVE  /\ a \in Net /\ s - 1 \in Maps /\ a = [n EXCEPT !.slot = a.slot]
                      /\ \A k \in Maps : a.slot[k] = n.slot[k] \/ Side(k) = s
    OBVIOUS
  <2> DEFINE z == IF setup.loc[s - 1] = "dst" THEN Zero ELSE n.slot[s - 1]
             t == [n.slot EXCEPT ![s - 1] = z]
  <2>1. s - 1 \in Maps
    BY DEF Sigs, Maps
  <2>2. t \in [Maps -> {Zero} \cup Val]
    BY <2>1 DEF Net
  <2>3. a = [n EXCEPT !.slot = t]
    BY DEF Net
  <2>4. a.slot = t
    BY <2>3, Shaped
  <2>5. setup.loc[s - 1] = "dst" => Side(s - 1) = s
    BY <2>1 DEF Side, Sigs
  <2>6. \A k \in Maps : t[k] = n.slot[k] \/ Side(k) = s
    BY <2>1, <2>5 DEF Net
  <2> HIDE DEF t, a
  <2>7. a \in Net
    BY <2>2, <2>3 DEF Net
  <2> QED BY <2>1, <2>3, <2>4, <2>6, <2>7
<1> HIDE DEF a
<1>4. /\ in \in Net /\ in = [n EXCEPT !.slot = in.slot, !.bundle = in.bundle]
      /\ \A k \in Maps : in.slot[k] = n.slot[k] \/ Side(k) = s
      /\ \A l \in Lines : \/ in.bundle[l] = n.bundle[l]
                          \/ /\ l # Down(s) /\ From(l) = s /\ InScope(l[1], g)
                             /\ in.bundle[l] = Append(n.bundle[l], m)
  <2>1. CASE s = 1 
    BY <2>1, Shaped
  <2>2. CASE s # 1 /\ (quiet \/ ~InScope(s - 1, g))
    <3>1. in = a
      BY <2>2
    <3>2. a.bundle = n.bundle
      BY <1>3, <2>2, Shaped
    <3> QED BY <1>3, <2>2, <3>1, <3>2, Shaped
  <2>3. CASE s # 1 /\ ~ quiet /\ InScope(s - 1, g)
    <3>1. in = Add(a, Up(s - 1), g, Release) /\ Up(s - 1) \in Lines
      BY <1>3, <2>3, SomeLines
    <3>2. /\ in = [a EXCEPT !.bundle = in.bundle] /\ in \in Net
          /\ in.bundle = [a.bundle EXCEPT ![Up(s - 1)] = Append(@, m)]
      BY <1>2, <1>3, <2>3, <3>1, Adds
    <3>3. a.bundle = n.bundle /\ in.slot = a.slot
      BY <1>3, <2>3, <3>2, Shaped
    <3>4. Up(s - 1)[1] = s - 1 /\ From(Up(s - 1)) = s
      BY <1>3, <2>3, SomeLines DEF Sigs
    <3>5. Up(s - 1) # Down(s)
      BY <1>3, <2>3 DEF Up, Down
    <3>6. n.bundle \in [Lines -> Seq(Msg)]
      BY DEF Net
    <3> HIDE DEF in
    <3>7. \A l \in Lines : in.bundle[l] = IF l = Up(s - 1) THEN Append(n.bundle[l], m) ELSE n.bundle[l]
      BY <3>2, <3>3, <3>6
    <3>8. in = [n EXCEPT !.slot = in.slot, !.bundle = in.bundle]
      BY <1>3, <2>3, <3>2, <3>3, Shaped
    <3> QED BY <1>3, <2>3, <3>2, <3>3, <3>4, <3>5, <3>7, <3>8
  <2> QED BY <2>1, <2>2, <2>3
<1> HIDE DEF in
<1>5. s # 3 => /\ b \in Net /\ s \in Maps /\ b = [in EXCEPT !.slot = b.slot]
               /\ \A k \in Maps : b.slot[k] = in.slot[k] \/ Side(k) = s
  <2> SUFFICES ASSUME s # 3
               PROVE  /\ b \in Net /\ s \in Maps /\ b = [in EXCEPT !.slot = b.slot]
                      /\ \A k \in Maps : b.slot[k] = in.slot[k] \/ Side(k) = s
    OBVIOUS
  <2> DEFINE z == IF setup.loc[s] = "src" THEN Zero ELSE in.slot[s]
             t == [in.slot EXCEPT ![s] = z]
  <2>1. s \in Maps
    BY DEF Sigs, Maps
  <2>2. t \in [Maps -> {Zero} \cup Val]
    BY <1>4, <2>1 DEF Net
  <2>3. b = [in EXCEPT !.slot = t]
    BY <1>4 DEF Net
  <2>4. b.slot = t
    BY <1>4, <2>3, Shaped
  <2>5. setup.loc[s] = "src" => Side(s) = s
    BY <2>1 DEF Side, Sigs
  <2>6. \A k \in Maps : t[k] = in.slot[k] \/ Side(k) = s
    BY <1>4, <2>1, <2>5 DEF Net
  <2> HIDE DEF t, b
  <2>7. b \in Net
    BY <1>4, <2>2, <2>3 DEF Net
  <2> QED BY <2>1, <2>3, <2>4, <2>6, <2>7
<1> HIDE DEF b
<1>6. /\ out \in Net /\ out = [n EXCEPT !.slot = out.slot, !.bundle = out.bundle]
      /\ \A k \in Maps : out.slot[k] = n.slot[k] \/ Side(k) = s
      /\ \A l \in Lines : \/ out.bundle[l] = n.bundle[l]
                          \/ /\ From(l) = s /\ InScope(l[1], g)
                             /\ out.bundle[l] = Append(n.bundle[l], m)
  <2>1. CASE s = 3
    BY <1>4, <2>1
  <2>2. CASE s # 3 /\ ~ InScope(s, g)
    <3>1. out = b
      BY <2>2
    <3>2. b.bundle = in.bundle
      BY <1>4, <1>5, <2>2, Shaped
    <3>3. out = [n EXCEPT !.slot = out.slot, !.bundle = out.bundle]
      BY <1>4, <1>5, <2>2, <3>1, <3>2, Shaped
    <3> QED BY <1>4, <1>5, <2>2, <3>1, <3>2, <3>3
  <2>3. CASE s # 3 /\ InScope(s, g)
    <3>1. out = Add(b, Down(s), g, Release) /\ Down(s) \in Lines
      BY <1>5, <2>3, SomeLines
    <3>2. /\ out = [b EXCEPT !.bundle = out.bundle] /\ out \in Net
          /\ out.bundle = [b.bundle EXCEPT ![Down(s)] = Append(@, m)]
      BY <1>2, <1>5, <2>3, <3>1, Adds
    <3> HIDE DEF out
    <3>3. b.bundle = in.bundle /\ out.slot = b.slot
      BY <1>4, <1>5, <2>3, <3>2, Shaped
    <3>4. Down(s)[1] = s /\ From(Down(s)) = s
      BY <1>5, <2>3, SomeLines
    <3>5. in.bundle \in [Lines -> Seq(Msg)]
      BY <1>4 DEF Net
    <3>6. \A l \in Lines : out.bundle[l] = IF l = Down(s) THEN Append(in.bundle[l], m) ELSE in.bundle[l]
      BY <3>2, <3>3, <3>5
    <3>7. out = [n EXCEPT !.slot = out.slot, !.bundle = out.bundle]
      BY <1>4, <1>5, <2>3, <3>2, <3>3, Shaped
    <3> QED BY <1>4, <1>5, <2>3, <3>2, <3>3, <3>4, <3>6, <3>7
  <2> QED BY <2>1, <2>2, <2>3
<1> HIDE DEF out
<1>7. r \in Net /\ r.slot = out.slot /\ r.bundle = out.bundle /\ r.sending = [n.sending EXCEPT ![s] = TRUE]
  <2>1. r = [out EXCEPT !.sending = [n.sending EXCEPT ![s] = TRUE]]
    BY <1>1, <1>6, Shaped
  <2>2. [n.sending EXCEPT ![s] = TRUE] \in [Sigs -> BOOLEAN]
    BY DEF Net
  <2> QED BY <1>6, <2>1, <2>2 DEF Net
<1>8. Kept(n, r) /\ r.entry = n.entry /\ r.val = n.val /\ r.updated = n.updated
  BY <1>1, <1>6, Shaped DEF Kept
<1> QED BY <1>6, <1>7, <1>8 DEF Sent

\* The line c is the line a with the message m behind it.
Longer(a, c, m) ==
    /\ InOrder(c)
    /\ Ended(c) \subseteq Ended(a) \cup {m.gid}
    /\ m.val # Release => Ended(c) \subseteq Ended(a)
    /\ \A i \in DOMAIN c : \A p \in DOMAIN c[i] :
           c[i][p] = m \/ (\E q \in DOMAIN a[i] : i \in DOMAIN a /\ c[i][p] = a[i][q])

LEMMA LineGrows ==
    ASSUME NEW w \in Seq(Seq(Msg)), NEW b \in Seq(Msg), NEW m \in Msg,
           NEW a, a = Append(w, b), NEW c, c = Append(w, Append(b, m)),
           InOrder(a), m.gid \notin Ended(a)
    PROVE  Longer(a, c, m)
<1> DEFINE N == Len(w) + 1
<1>1. /\ DOMAIN a = 1 .. N /\ DOMAIN c = 1 .. N /\ N \in Nat
      /\ a[N] = b /\ c[N] = Append(b, m) /\ \A i \in 1 .. N : i # N => a[i] = w[i] /\ c[i] = a[i]
      /\ \A i \in 1 .. N : a[i] \in Seq(Msg) /\ c[i] \in Seq(Msg)
  BY AppendProperties
<1>2. /\ DOMAIN c[N] = 1 .. Len(b) + 1 /\ DOMAIN a[N] = 1 .. Len(b) /\ Len(b) \in Nat
      /\ c[N][Len(b) + 1] = m /\ \A p \in 1 .. Len(b) : c[N][p] = a[N][p]
  BY <1>1, AppendProperties
<1> HIDE DEF N
<1>3. \A i \in DOMAIN c : \A p \in DOMAIN c[i] :
          \/ i = N /\ p = Len(b) + 1 /\ c[i][p] = m
          \/ i \in DOMAIN a /\ p \in DOMAIN a[i] /\ c[i][p] = a[i][p] /\ ~ (i = N /\ p = Len(b) + 1)
  BY <1>1, <1>2
<1>4. Ended(c) \subseteq Ended(a) \cup {m.gid} /\ (m.val # Release => Ended(c) \subseteq Ended(a))
  BY <1>3 DEF Ended
<1>5. InOrder(c)
  <2> SUFFICES ASSUME NEW i \in DOMAIN c, NEW j \in DOMAIN c, NEW p \in DOMAIN c[i], NEW q \in DOMAIN c[j],
                      i < j \/ (i = j /\ p < q), c[i][p].val = Release
               PROVE  c[j][q].gid # c[i][p].gid
    BY DEF InOrder
  <2>1. i \in DOMAIN a /\ p \in DOMAIN a[i] /\ c[i][p] = a[i][p] /\ ~ (i = N /\ p = Len(b) + 1)
    <3>1. ASSUME i = N, p = Len(b) + 1
          PROVE  FALSE
      <4>1. j \in 1 .. N /\ i = j /\ p < q
        BY <1>1, <3>1
      <4>2. q \in 1 .. Len(b) + 1
        BY <1>2, <3>1, <4>1
      <4> QED BY <1>2, <3>1, <4>1, <4>2
    <3> QED BY <1>3, <3>1
  <2>2. CASE j = N /\ q = Len(b) + 1
    <3>1. a[i][p] \in Msg
      BY <1>1, <2>1
    <3>2. a[i][p] = [gid |-> a[i][p].gid, val |-> Release] /\ a[i][p].gid \in Gid
      BY <2>1, <3>1 DEF Msg
    <3>3. a[i][p].gid \in Ended(a)
      BY <2>1, <3>2 DEF Ended
    <3>4. c[j][q] = m
      BY <1>2, <2>2
    <3> QED BY <2>1, <3>3, <3>4
  <2>3. CASE ~ (j = N /\ q = Len(b) + 1)
    <3>1. j \in DOMAIN a /\ q \in DOMAIN a[j] /\ c[j][q] = a[j][q]
      BY <1>3, <2>3
    <3> QED BY <2>1, <3>1 DEF InOrder
  <2> QED BY <2>2, <2>3
<1> QED BY <1>3, <1>4, <1>5 DEF Longer

\* What a signal sends about the instance it holds is in order.
LEMMA SentInOrder ==
    ASSUME NEW w \in Seq(Seq(Msg)), NEW n \in Net, NEW r \in Net, NEW s \in Sigs, NEW m \in Msg,
           Ordered(w, n), Sent(n, r, s, m), r.gids \in Nat, r.gids >= n.gids,
           s = 1 => m.gid[2] <= r.gids /\ m.gid \notin Ended(Line(w, n))
    PROVE  /\ InOrder(Line(w, r)) /\ Begun(Line(w, r), r)
           /\ s # 1 \/ m.val # Release => Ended(Line(w, r)) \subseteq Ended(Line(w, n))
<1> DEFINE b == n.bundle[Down(1)]
<1>1. Down(1) \in Lines /\ From(Down(1)) = 1
  BY SomeLines DEF Maps
<1>2. b \in Seq(Msg)
  BY <1>1 DEF Net
<1>0. \A i \in DOMAIN Line(w, n) : \A p \in DOMAIN Line(w, n)[i] : Line(w, n)[i][p].gid[2] \in Nat
  <2>1. Line(w, n) \in Seq(Seq(Msg))
    BY <1>2 DEF Line
  <2>2. \A x \in Msg : x.gid[2] \in Nat
    BY DEF Msg, Gid
  <2> HIDE DEF b
  <2>3. \A i \in DOMAIN Line(w, n) : Line(w, n)[i] \in Seq(Msg)
    BY <2>1
  <2> QED BY <2>2, <2>3
<1>3. n.gids \in Nat
  BY DEF Net
<1>4. CASE r.bundle[Down(1)] = b
  <2>1. Line(w, r) = Line(w, n)
    BY <1>4 DEF Line
  <2> QED BY <1>0, <1>3, <2>1 DEF Ordered, Begun
<1>5. CASE r.bundle[Down(1)] # b
  <2>1. s = 1 /\ r.bundle[Down(1)] = Append(b, m)
    BY <1>1, <1>5 DEF Sent
  <2>2. Line(w, r) = Append(w, Append(b, m)) /\ Line(w, n) = Append(w, b)
    BY <2>1 DEF Line
  <2> DEFINE a == Line(w, n)
             c == Line(w, r)
  <2> HIDE DEF a, b, c
  <2>3. /\ InOrder(Line(w, r)) /\ (m.val # Release => Ended(Line(w, r)) \subseteq Ended(Line(w, n)))
        /\ \A i \in DOMAIN Line(w, r) : \A p \in DOMAIN Line(w, r)[i] :
              Line(w, r)[i][p] = m \/ \E q \in DOMAIN Line(w, n)[i] :
                  i \in DOMAIN Line(w, n) /\ Line(w, r)[i][p] = Line(w, n)[i][q]
    <3>1. InOrder(a) /\ m.gid \notin Ended(a) /\ a = Append(w, b) /\ c = Append(w, Append(b, m))
      BY <2>1, <2>2 DEF Ordered, a, c
    <3>2. Longer(a, c, m)
      BY <1>2, <3>1, LineGrows
    <3> QED BY <3>2 DEF a, c, Longer
  <2>4. Begun(Line(w, r), r)
    <3> SUFFICES ASSUME NEW i \in DOMAIN Line(w, r), NEW p \in DOMAIN Line(w, r)[i]
                 PROVE  Line(w, r)[i][p].gid[2] <= r.gids
      BY DEF Begun
    <3>1. CASE Line(w, r)[i][p] = m
      BY <2>1, <3>1
    <3>2. ASSUME NEW q \in DOMAIN Line(w, n)[i], i \in DOMAIN Line(w, n), Line(w, r)[i][p] = Line(w, n)[i][q]
          PROVE  Line(w, r)[i][p].gid[2] <= r.gids
      <4>1. Line(w, n)[i][q].gid[2] <= n.gids
        BY <3>2 DEF Ordered, Begun
      <4> QED BY <1>0, <1>3, <3>2, <4>1
    <3> QED BY <2>3, <3>1, <3>2
  <2> QED BY <2>1, <2>3, <2>4
<1> QED BY <1>4, <1>5

\* Signal s has given up its instance.
Freed(n, r, s) ==
    /\ r \in Net /\ Kept(n, r) /\ GidOf(n, s) \in Gid
    /\ Sent(n, r, s, [gid |-> GidOf(n, s), val |-> Release])
    /\ \A k \in Maps : r.slot[k] = n.slot[k] \/ Side(k) = s
    /\ r.val = [n.val EXCEPT ![s] = NoVal] /\ Holding(r, s) = {}
    /\ \A t \in Sigs : Entries(r, t) = Entries(n, t) /\ (t # s => r.entry[t] = n.entry[t])
    /\ \A i \in Entries(r, s) : \/ r.entry[s][i] = n.entry[s][i]
                                \/ r.entry[s][i].st = "free"
                                \/ /\ n.entry[s][i].st # "free"
                                   /\ r.entry[s][i] = [n.entry[s][i] EXCEPT !.st = "kept"]

LEMMA Released ==
    ASSUME setup \in Setups, NEW n \in Net, NEW s \in Sigs, Holding(n, s) # {},
           Single(n), Used(n), NEW r, r = ReleaseInst(n, s)
    PROVE  Freed(n, r, s)
<1> DEFINE h == Holder(n, s)
           e == n.entry[s][h]
           a == ProcessRelease(n, s)
           x == IF e.st = "ended" \/ e.gid[1] = s THEN Free ELSE [e EXCEPT !.st = "kept"]
           E == [n.entry EXCEPT ![s] = [@ EXCEPT ![h] = x]]
           m == [gid |-> GidOf(n, s), val |-> Release]
<1>1. /\ h \in Holding(n, s) /\ h \in Entries(n, s) /\ GidOf(n, s) = e.gid /\ e.gid \in Gid
      /\ n.entry[s] \in Seq(Entry) /\ Entries(n, s) = 1 .. Len(n.entry[s]) /\ e \in Entry
  BY Holders
<1>2. GidOf(n, s) \in Gid
  BY <1>1
<1>3. /\ a \in Net /\ Kept(n, a) /\ a.entry = n.entry /\ a.val = n.val /\ a.updated = n.updated
      /\ Sent(n, a, s, m) /\ \A k \in Maps : a.slot[k] = n.slot[k] \/ Side(k) = s
  BY <1>2, ReleaseSent
<1>4. r = [a EXCEPT !.updated = [n.updated EXCEPT ![s] = TRUE], !.entry = E, !.val = [n.val EXCEPT ![s] = NoVal]]
  <2>1. r = [a EXCEPT !.updated[s] = TRUE, !.entry[s][h] =
                  IF e.st = "ended" \/ e.gid[1] = s THEN Free ELSE [@ EXCEPT !.st = "kept"],
                      !.val[s] = NoVal]
    BY DEF ReleaseInst
  <2> HIDE DEF a
  <2> QED BY <1>3, <2>1, Shaped
<1> HIDE DEF a
<1>5. x \in Entry /\ (x.st = "free" \/ (x = [e EXCEPT !.st = "kept"] /\ x.st = "kept" /\ e.st # "free"))
  BY <1>1 DEF Free, Entry, Holding
<1> HIDE DEF x
<1>6. /\ n.entry \in [Sigs -> Seq(Entry)] /\ n.updated \in [Sigs -> BOOLEAN] /\ n.val \in [Sigs -> {NoVal, Zero} \cup Val]
  BY DEF Net
<1>7. /\ E \in [Sigs -> Seq(Entry)] /\ \A t \in Sigs : DOMAIN E[t] = DOMAIN n.entry[t]
      /\ \A t \in Sigs : t # s => E[t] = n.entry[t]
      /\ \A i \in Entries(n, s) : E[s][i] = IF i = h THEN x ELSE n.entry[s][i]
  <2>1. [n.entry[s] EXCEPT ![h] = x] \in Seq(Entry)
    BY <1>1, <1>5
  <2>2. E = [n.entry EXCEPT ![s] = [n.entry[s] EXCEPT ![h] = x]]
    BY <1>6
  <2> HIDE DEF E
  <2>3. E \in [Sigs -> Seq(Entry)] /\ E[s] = [n.entry[s] EXCEPT ![h] = x] /\ \A t \in Sigs : t # s => E[t] = n.entry[t]
    BY <1>6, <2>1, <2>2
  <2>4. DOMAIN E[s] = DOMAIN n.entry[s]
    BY <2>3
  <2>5. \A i \in Entries(n, s) : E[s][i] = IF i = h THEN x ELSE n.entry[s][i]
    BY <1>1, <2>3 DEF Entries
  <2> QED BY <2>3, <2>4, <2>5
<1> HIDE DEF E
<1>8. /\ r \in Net /\ r.entry = E /\ r.val = [n.val EXCEPT ![s] = NoVal]
      /\ r.slot = a.slot /\ r.bundle = a.bundle /\ r.sending = a.sending
      /\ r.pending = a.pending /\ r.muted = a.muted /\ r.gids = a.gids /\ r.sets = a.sets
  <2>1. /\ r.entry = E /\ r.val = [n.val EXCEPT ![s] = NoVal]
        /\ r.slot = a.slot /\ r.bundle = a.bundle /\ r.sending = a.sending
        /\ r.pending = a.pending /\ r.muted = a.muted /\ r.gids = a.gids /\ r.sets = a.sets
    BY <1>3, <1>4, Shaped
  <2>2. [n.updated EXCEPT ![s] = TRUE] \in [Sigs -> BOOLEAN]
    BY <1>6
  <2>3. [n.val EXCEPT ![s] = NoVal] \in [Sigs -> {NoVal, Zero} \cup Val]
    BY <1>6
  <2>4. r \in Net
    BY <1>3, <1>4, <1>7, <2>2, <2>3 DEF Net
  <2> QED BY <2>1, <2>4
<1>9. /\ \A t \in Sigs : Entries(r, t) = Entries(n, t) /\ (t # s => r.entry[t] = n.entry[t])
      /\ \A i \in Entries(r, s) : r.entry[s][i] = IF i = h THEN x ELSE n.entry[s][i]
  BY <1>7, <1>8 DEF Entries
<1>10. Holding(r, s) = {}
  <2> SUFFICES ASSUME NEW i \in Holding(r, s)
               PROVE  FALSE
    OBVIOUS
  <2>1. i \in Entries(n, s) /\ r.entry[s][i].st \in {"held", "ended"}
    BY <1>9 DEF Holding
  <2>2. i # h
    BY <1>5, <1>9, <2>1
  <2>3. i \in Holding(n, s)
    BY <1>9, <2>1, <2>2 DEF Holding
  <2> QED BY <1>1, <2>2, <2>3 DEF Single
<1>11. Kept(n, r) /\ Sent(n, r, s, m) /\ \A k \in Maps : r.slot[k] = n.slot[k] \/ Side(k) = s
  BY <1>3, <1>8 DEF Kept, Sent
<1>12. \A i \in Entries(r, s) : \/ r.entry[s][i] = n.entry[s][i]
                                \/ r.entry[s][i].st = "free"
                                \/ /\ n.entry[s][i].st # "free"
                                   /\ r.entry[s][i] = [n.entry[s][i] EXCEPT !.st = "kept"]
  BY <1>5, <1>9
<1> QED BY <1>2, <1>8, <1>9, <1>10, <1>11, <1>12 DEF Freed

------------------------------------------------------------------------------
\* What a step of one device keeps.

Quiet(n, r) == r.sending = n.sending /\ r.bundle = n.bundle

LEMMA SoundKept ==
    ASSUME setup \in Setups, NEW w, NEW n, Sound(w, n), NEW s \in Sigs, NEW m \in Msg,
           NEW r \in Net, Sent(n, r, s, m) \/ Quiet(n, r), r.muted = n.muted, r.gids >= n.gids,
           \A k \in Maps : setup.loc[k] = "src" /\ r.pending[k] =>
               n.pending[k] \/ (k = s /\ k \in setup.scope[k] /\ r.sending[k]),
           s = 1 /\ ~ Quiet(n, r) => m.gid[2] <= r.gids /\ m.gid \notin Ended(Line(w, n)),
           \A i \in Holding(r, 1) : \/ r.entry[1][i].gid \notin Ended(Line(w, r))
                                    \/ /\ s # 1 \/ m.val # Release \/ Quiet(n, r)
                                       /\ r.entry[1][i].gid \notin Ended(Line(w, n))
    PROVE  Sound(w, r)
<1>1. /\ n \in Net /\ w \in Seq(Seq(Msg)) /\ Scoped(n) /\ Flagged(n) /\ Ordered(w, n)
      /\ n.gids \in Nat /\ r.gids \in Nat
      /\ n.sending \in [Sigs -> BOOLEAN] /\ n.bundle \in [Lines -> Seq(Msg)]
  BY DEF Right, Nearly, Sound, Net
<1>2. Maps = {1, 2} /\ Maps \subseteq Sigs
  BY DEF Maps, Sigs
<1>3. \A l \in Lines : \/ r.bundle[l] = n.bundle[l]
                       \/ /\ From(l) = s /\ InScope(l[1], m.gid) /\ r.sending[s]
                          /\ r.bundle[l] = Append(n.bundle[l], m)
  BY <1>1 DEF Sent, Quiet
<1>4. \A t \in Sigs : n.sending[t] => r.sending[t]
  BY <1>1 DEF Sent, Quiet
<1>5. Scoped(r)
  <2>1. \A l \in Lines : \A i \in DOMAIN r.bundle[l] : InScope(l[1], r.bundle[l][i].gid)
    <3> SUFFICES ASSUME NEW l \in Lines, NEW i \in DOMAIN r.bundle[l]
                 PROVE  InScope(l[1], r.bundle[l][i].gid)
      OBVIOUS
    <3>1. CASE r.bundle[l] = n.bundle[l]
      BY <1>1, <3>1 DEF Scoped
    <3>2. CASE InScope(l[1], m.gid) /\ r.bundle[l] = Append(n.bundle[l], m)
      <4>1. n.bundle[l] \in Seq(Msg)
        BY <1>1
      <4>2. r.bundle[l][i] = m \/ (i \in DOMAIN n.bundle[l] /\ r.bundle[l][i] = n.bundle[l][i])
        BY <3>2, <4>1, AppendProperties
      <4> QED BY <1>1, <3>2, <4>2 DEF Scoped
    <3> QED BY <1>3, <3>1, <3>2
  <2>2. r.pending[1] /\ setup.loc[1] = "src" => 1 \in setup.scope[1]
    <3>1. n.pending[1] /\ setup.loc[1] = "src" => 1 \in setup.scope[1]
      BY <1>1 DEF Scoped
    <3>2. 1 \in Maps
      BY <1>2
    <3>3. setup.loc[1] = "src" /\ r.pending[1] =>
              n.pending[1] \/ (1 = s /\ 1 \in setup.scope[1] /\ r.sending[1])
      BY <3>2
    <3> QED BY <3>1, <3>3
  <2> QED BY <2>1, <2>2 DEF Scoped
<1>6. Flagged(r)
  <2>1. \A l \in Lines : r.bundle[l] # <<>> => r.sending[From(l)]
    <3> SUFFICES ASSUME NEW l \in Lines, r.bundle[l] # <<>>
                 PROVE  r.sending[From(l)]
      OBVIOUS
    <3>1. CASE r.bundle[l] = n.bundle[l]
      <4>1. n.sending[From(l)]
        BY <1>1, <3>1 DEF Flagged
      <4>2. From(l) \in Sigs
        BY SomeLines
      <4> QED BY <1>4, <4>1, <4>2
    <3>2. CASE From(l) = s /\ r.sending[s]
      BY <3>2
    <3> QED BY <1>3, <3>1, <3>2
  <2>2. \A k \in Maps : r.muted[k] => k \in setup.mutes
    BY <1>1 DEF Flagged
  <2>3. \A k \in Maps \ setup.mutes : setup.loc[k] = "src" /\ r.pending[k] => r.sending[k]
    BY <1>1, <1>2, <1>4 DEF Flagged
  <2> QED BY <2>1, <2>2, <2>3 DEF Flagged
<1>7. /\ InOrder(Line(w, r)) /\ Begun(Line(w, r), r)
      /\ s # 1 \/ m.val # Release \/ Quiet(n, r) => Ended(Line(w, r)) \subseteq Ended(Line(w, n))
  <2>1. CASE Quiet(n, r)
    <3>1. Line(w, r) = Line(w, n)
      BY <2>1 DEF Quiet, Line
    <3>2. \A i \in DOMAIN Line(w, n) : \A p \in DOMAIN Line(w, n)[i] : Line(w, n)[i][p].gid[2] \in Nat
      <4>1. n.bundle[Down(1)] \in Seq(Msg)
        BY <1>1, <1>2, SomeLines
      <4>2. Line(w, n) \in Seq(Seq(Msg))
        BY <1>1, <4>1 DEF Line
      <4>3. \A x \in Msg : x.gid[2] \in Nat
        BY DEF Msg, Gid
      <4>4. \A i \in DOMAIN Line(w, n) : Line(w, n)[i] \in Seq(Msg)
        BY <4>2
      <4> QED BY <4>3, <4>4
    <3> QED BY <1>1, <3>1, <3>2 DEF Ordered, Begun
  <2>2. CASE ~ Quiet(n, r)
    <3>1. Sent(n, r, s, m)
      BY <2>2
    <3> QED BY <1>1, <2>2, <3>1, SentInOrder
  <2> QED BY <2>1, <2>2
<1>8. Ordered(w, r)
  BY <1>7 DEF Ordered
<1> QED BY <1>1, <1>5, <1>6, <1>8 DEF Right, Nearly, Sound

LEMMA Keeps ==
    ASSUME setup \in Setups, NEW w, NEW n, Sound(w, n), NEW s \in Sigs, NEW m \in Msg,
           NEW r \in Net, Sent(n, r, s, m) \/ Quiet(n, r), r.muted = n.muted, r.gids >= n.gids,
           Single(r), Used(r), Owned(r, {}),
           \A k \in Maps : setup.loc[k] = "src" /\ r.pending[k] =>
               n.pending[k] \/ (k = s /\ k \in setup.scope[k] /\ r.sending[k]),
           s = 1 /\ ~ Quiet(n, r) => m.gid[2] <= r.gids /\ m.gid \notin Ended(Line(w, n)),
           \A i \in Holding(r, 1) : \/ r.entry[1][i].gid \notin Ended(Line(w, r))
                                    \/ /\ s # 1 \/ m.val # Release \/ Quiet(n, r)
                                       /\ r.entry[1][i].gid \notin Ended(Line(w, n))
    PROVE  Right(w, r)
<1>1. Sound(w, r)
  BY SoundKept
<1> QED BY <1>1 DEF Right, Nearly

LEMMA RightIs == \A w, n : Right(w, n) => Nearly(w, n, {}) /\ Sound(w, n)
BY DEF Right, Nearly

LEMMA ReleaseKeeps ==
    ASSUME setup \in Setups, NEW w, NEW n, Right(w, n), NEW s \in Sigs, Holding(n, s) # {},
           NEW r, r = ReleaseInst(n, s)
    PROVE  Right(w, r) /\ Holding(r, s) = {}
<1>1. /\ n \in Net /\ w \in Seq(Seq(Msg)) /\ Single(n) /\ Used(n) /\ Owned(n, {}) /\ Ordered(w, n) /\ n.gids \in Nat
      /\ n.val \in [Sigs -> {NoVal, Zero} \cup Val] /\ n.sending \in [Sigs -> BOOLEAN]
  BY DEF Right, Nearly, Sound, Net
<1> DEFINE m == [gid |-> GidOf(n, s), val |-> Release]
<1>2. /\ r \in Net /\ Kept(n, r) /\ GidOf(n, s) \in Gid /\ Sent(n, r, s, m)
      /\ \A k \in Maps : r.slot[k] = n.slot[k] \/ Side(k) = s
      /\ r.val = [n.val EXCEPT ![s] = NoVal] /\ Holding(r, s) = {}
      /\ \A t \in Sigs : Entries(r, t) = Entries(n, t) /\ (t # s => r.entry[t] = n.entry[t])
      /\ \A i \in Entries(r, s) : \/ r.entry[s][i] = n.entry[s][i]
                                  \/ r.entry[s][i].st = "free"
                                  \/ /\ n.entry[s][i].st # "free"
                                     /\ r.entry[s][i] = [n.entry[s][i] EXCEPT !.st = "kept"]
  <2>1. Freed(n, r, s)
    BY <1>1, Released
  <2> QED BY <2>1 DEF Freed
<1>3. m \in Msg /\ m.gid = GidOf(n, s)
  BY <1>2 DEF Msg
<1> HIDE DEF m
<1>4. \A t \in Sigs : t # s => Holding(r, t) = Holding(n, t) /\ r.val[t] = n.val[t]
  BY <1>1, <1>2 DEF Holding
<1>5. Single(r)
  BY <1>1, <1>2, <1>4 DEF Single
<1>6. \A t \in Sigs : \A i \in Entries(r, t) :
          r.entry[t][i].st # "free" => n.entry[t][i].st # "free" /\ r.entry[t][i].gid = n.entry[t][i].gid
  <2> SUFFICES ASSUME NEW t \in Sigs, NEW i \in Entries(r, t), r.entry[t][i].st # "free"
               PROVE  n.entry[t][i].st # "free" /\ r.entry[t][i].gid = n.entry[t][i].gid
    OBVIOUS
  <2>1. CASE t # s
    BY <1>2, <2>1
  <2>2. CASE t = s
    <3>1. n.entry[s][i] \in Entry
      BY <1>1, <1>2, <2>2, Holders
    <3>2. r.entry[s][i] = n.entry[s][i] \/
          (n.entry[s][i].st # "free" /\ r.entry[s][i] = [n.entry[s][i] EXCEPT !.st = "kept"])
      BY <1>2, <2>2
    <3> QED BY <2>2, <3>1, <3>2 DEF Entry
  <2> QED BY <2>1, <2>2
<1>7. Used(r)
  <2>1. 1 \in Sigs /\ r.gids = n.gids
    BY <1>2 DEF Sigs, Kept
  <2>2. \A t \in Sigs : Entries(r, t) = Entries(n, t)
    BY <1>2
  <2>3. Used(n)
    BY <1>1
  <2> QED BY <1>6, <2>1, <2>2, <2>3 DEF Used
<1>8. Owned(r, {})
  <2>1. \A k \in Maps : Side(k) \in Sigs
    BY DEF Side, Sigs, Maps
  <2>2. \A t \in Sigs : \A i \in Holding(r, t) : t # s /\ r.entry[t][i] = n.entry[t][i]
    BY <1>2
  <2>3. r.pending = n.pending
    BY <1>2 DEF Kept
  <2> QED BY <1>1, <1>2, <1>4, <2>1, <2>2, <2>3 DEF Owned
<1>9. s = 1 => m.gid[2] <= r.gids /\ m.gid \notin Ended(Line(w, n))
  <2> SUFFICES ASSUME s = 1
               PROVE  m.gid[2] <= r.gids /\ m.gid \notin Ended(Line(w, n))
    OBVIOUS
  <2>1. PICK i \in Holding(n, 1) : GidOf(n, 1) = n.entry[1][i].gid
    BY <1>1, Holders
  <2>2. i \in Entries(n, 1) /\ n.entry[1][i].st # "free"
    BY DEF Holding
  <2> QED BY <1>1, <1>2, <1>3, <2>1, <2>2 DEF Used, Ordered, Kept
<1>10. \A i \in Holding(r, 1) : s # 1 /\ r.entry[1][i].gid \notin Ended(Line(w, n))
  <2>1. 1 \in Sigs
    BY DEF Sigs
  <2> QED BY <1>1, <1>2, <1>4, <2>1 DEF Ordered
<1>11. r.muted = n.muted /\ r.pending = n.pending /\ r.gids >= n.gids
  BY <1>1, <1>2 DEF Kept
<1>12. Right(w, r)
  BY <1>2, <1>3, <1>5, <1>7, <1>8, <1>9, <1>10, <1>11, Keeps, RightIs
<1> QED BY <1>2, <1>12

------------------------------------------------------------------------------
\* A value is passed on.

\* Device s evaluates its map later, with the value v in the slot.
Waits(n, r, s, v) ==
    /\ r.slot = [n.slot EXCEPT ![s] = v] /\ r.pending = [n.pending EXCEPT ![s] = TRUE]
Passed(n, r, s, v) ==
    /\ r \in Net /\ Sent(n, r, s, [gid |-> GidOf(n, s), val |-> v])
    /\ r.entry = n.entry /\ r.val = n.val /\ r.updated = n.updated
    /\ r.muted = n.muted /\ r.gids = n.gids /\ r.sets = n.sets
    /\ IF s \in Maps /\ setup.loc[s] # "dst" /\ InScope(s, GidOf(n, s))
       THEN Waits(n, r, s, v) ELSE r.slot = n.slot /\ r.pending = n.pending

LEMMA ValuePassed ==
    ASSUME setup \in Setups, NEW n \in Net, NEW s \in Sigs, GidOf(n, s) \in Gid,
           NEW v, Of(v, GidOf(n, s)), NEW r, r = ProcessValue(n, s, v)
    PROVE  Passed(n, r, s, v)
<1> DEFINE g == GidOf(n, s)
           msg == [gid |-> g, val |-> v]
           S == [n.sending EXCEPT ![s] = TRUE]
           a == [n EXCEPT !.sending = S]
<1>1. /\ a \in Net /\ S \in [Sigs -> BOOLEAN] /\ a.sending = S /\ a.bundle = n.bundle /\ a.slot = n.slot
      /\ a.pending = n.pending /\ a.entry = n.entry /\ a.val = n.val /\ a.updated = n.updated
      /\ a.muted = n.muted /\ a.gids = n.gids /\ a.sets = n.sets
      /\ a = [n EXCEPT !.sending[s] = TRUE]
  <2>1. S \in [Sigs -> BOOLEAN]
    BY DEF Net
  <2>2. a = [n EXCEPT !.sending[s] = TRUE]
    BY DEF Net
  <2> HIDE DEF S
  <2>3. a \in Net
    BY <2>1 DEF Net
  <2> QED BY <2>1, <2>2, <2>3, Shaped
<1>2. msg \in Msg
  BY ValuesDiffer DEF Msg, Of
<1>3. Maps = {1, 2} /\ Sigs = {1, 2, 3}
  BY DEF Maps, Sigs
<1> HIDE DEF a, S, g
<1>4. CASE s = 3 \/ ~ InScope(s, g)
  <2>1. r = a
    BY <1>1, <1>4 DEF ProcessValue, g
  <2> QED BY <1>1, <1>3, <1>4, <2>1 DEF Passed, Sent, S, g
<1>5. CASE s # 3 /\ InScope(s, g) /\ setup.loc[s] = "dst"
  <2>1. r = Add(a, Down(s), g, v) /\ s \in Maps
    BY <1>1, <1>3, <1>5 DEF ProcessValue, g
  <2>2. Down(s) \in Lines /\ From(Down(s)) = s /\ Down(s)[1] = s
    BY <2>1, SomeLines
  <2>3. /\ r = [a EXCEPT !.bundle = r.bundle] /\ r \in Net
        /\ r.bundle = [a.bundle EXCEPT ![Down(s)] = Append(@, msg)]
    <3> DEFINE l == Down(s)
    <3>1. l \in Lines /\ r = Add(a, l, g, v) /\ a \in Net
      BY <1>1, <2>1, <2>2
    <3> HIDE DEF l
    <3>2. /\ r = [a EXCEPT !.bundle = r.bundle] /\ r \in Net
          /\ r.bundle = [a.bundle EXCEPT ![l] = Append(@, msg)]
      BY <1>2, <3>1, Adds
    <3> QED BY <3>2 DEF l
  <2>4. /\ r.sending = S /\ r.slot = n.slot /\ r.pending = n.pending /\ r.entry = n.entry /\ r.val = n.val
        /\ r.updated = n.updated /\ r.muted = n.muted /\ r.gids = n.gids /\ r.sets = n.sets
    BY <1>1, <2>3, Shaped
  <2>5. \A l \in Lines : r.bundle[l] = IF l = Down(s) THEN Append(n.bundle[l], msg) ELSE n.bundle[l]
    <3>1. n.bundle \in [Lines -> Seq(Msg)]
      BY DEF Net
    <3> QED BY <1>1, <2>2, <2>3, <3>1
  <2>6. Sent(n, r, s, msg)
    BY <1>5, <2>2, <2>4, <2>5 DEF Sent, S
  <2> QED BY <1>5, <2>3, <2>4, <2>6 DEF Passed, g
<1>6. CASE s # 3 /\ InScope(s, g) /\ setup.loc[s] # "dst"
  <2>1. r = [a EXCEPT !.slot[s] = v, !.pending[s] = TRUE] /\ s \in Maps
    BY <1>1, <1>3, <1>6 DEF ProcessValue, g
  <2>2. r = [a EXCEPT !.slot = [n.slot EXCEPT ![s] = v], !.pending = [n.pending EXCEPT ![s] = TRUE]]
    BY <1>1, <2>1, Shaped
  <2>3. Waits(n, r, s, v)
    BY <1>1, <2>2, Shaped DEF Waits
  <2>4. /\ r.sending = S /\ r.bundle = n.bundle /\ r.entry = n.entry /\ r.val = n.val
        /\ r.updated = n.updated /\ r.muted = n.muted /\ r.gids = n.gids /\ r.sets = n.sets
    BY <1>1, <2>2, Shaped
  <2>5. r \in Net
    <3>1. [n.slot EXCEPT ![s] = v] \in [Maps -> {Zero} \cup Val]
      BY <2>1 DEF Net, Of
    <3>2. [n.pending EXCEPT ![s] = TRUE] \in [Maps -> BOOLEAN]
      BY <2>1 DEF Net
    <3> QED BY <1>1, <2>2, <3>1, <3>2 DEF Net
  <2>6. Sent(n, r, s, msg)
    BY <2>4 DEF Sent, S
  <2> QED BY <1>6, <2>1, <2>3, <2>4, <2>5, <2>6 DEF Passed, g
<1> QED BY <1>4, <1>5, <1>6

\* A signal that holds the instance of the value passes it on.
LEMMA PassKeeps ==
    ASSUME setup \in Setups, Orderly, NEW w, NEW n, NEW K, Nearly(w, n, K), NEW s \in Sigs,
           \A k \in K : n.pending[k] => k = s /\ setup.loc[k] = "src" /\ InScope(k, GidOf(n, s)),
           Holding(n, s) # {}, NEW v, Of(v, GidOf(n, s)), NEW r, r = ProcessValue(n, s, v)
    PROVE  Right(w, r)
<1> DEFINE m == [gid |-> GidOf(n, s), val |-> v]
<1>1. /\ n \in Net /\ w \in Seq(Seq(Msg)) /\ Single(n) /\ Used(n) /\ Owned(n, K) /\ Ordered(w, n) /\ n.gids \in Nat
      /\ n.slot \in [Maps -> {Zero} \cup Val] /\ n.pending \in [Maps -> BOOLEAN] /\ n.sending \in [Sigs -> BOOLEAN]
  BY DEF Right, Nearly, Sound, Net
<1>0. Sound(w, n)
  BY DEF Nearly
<1>2. PICK h \in Holding(n, s) : GidOf(n, s) = n.entry[s][h].gid /\ GidOf(n, s) \in Gid
  BY <1>1, Holders
<1>3. m \in Msg /\ m.gid = GidOf(n, s) /\ m.val = v /\ v # Release
  BY <1>2, ValuesDiffer DEF Msg, Of
<1> HIDE DEF m
<1>4. Passed(n, r, s, v)
  BY <1>1, <1>2, ValuePassed
<1>5. /\ r \in Net /\ Sent(n, r, s, m) /\ r.entry = n.entry /\ r.val = n.val /\ r.muted = n.muted /\ r.gids = n.gids
  BY <1>4 DEF Passed, m
<1>6. /\ \A t \in Sigs : Holding(r, t) = Holding(n, t) /\ Entries(r, t) = Entries(n, t)
  BY <1>5 DEF Holding, Entries
<1>7. Single(r)
  BY <1>1, <1>6 DEF Single
<1>8. Used(r)
  <2>1. 1 \in Sigs
    BY DEF Sigs
  <2> QED BY <1>1, <1>5, <1>6, <2>1 DEF Used
<1>9. /\ \A k \in Maps : Side(k) \in Sigs /\ (setup.loc[k] # "dst" => Side(k) = k)
  BY SetupsAssumption DEF Side, Sigs, Maps
<1>10. \A k \in Maps : r.pending[k] => \/ r.slot[k] = n.slot[k] /\ n.pending[k] /\ k \notin K
                                       \/ /\ k = s /\ r.slot[k] = v /\ Side(k) = s /\ r.sending[k]
                                          /\ setup.loc[k] # "dst" /\ InScope(k, GidOf(n, s))
  <2>1. CASE s \in Maps /\ setup.loc[s] # "dst" /\ InScope(s, GidOf(n, s))
    <3>1. Waits(n, r, s, v) /\ r.sending[s]
      BY <1>1, <1>4, <1>5, <2>1 DEF Passed, Sent
    <3> QED BY <1>1, <1>9, <2>1, <3>1 DEF Waits
  <2>2. CASE ~ (s \in Maps /\ setup.loc[s] # "dst" /\ InScope(s, GidOf(n, s)))
    BY <1>4, <2>2 DEF Passed
  <2> QED BY <2>1, <2>2
<1>11. Owned(r, {})
  <2>1. \A t \in Sigs : \A i \in Holding(r, t) : r.val[t] # NoVal => Of(r.val[t], r.entry[t][i].gid)
    BY <1>1, <1>5, <1>6 DEF Owned
  <2>2. \A k \in Maps : r.pending[k] =>
           \A i \in Holding(r, Side(k)) : Of(r.slot[k], r.entry[Side(k)][i].gid)
    <3> SUFFICES ASSUME NEW k \in Maps, r.pending[k], NEW i \in Holding(r, Side(k))
                 PROVE  Of(r.slot[k], r.entry[Side(k)][i].gid)
      OBVIOUS
    <3>1. CASE r.slot[k] = n.slot[k] /\ n.pending[k] /\ k \notin K
      BY <1>1, <1>5, <1>6, <1>9, <3>1 DEF Owned
    <3>2. CASE k = s /\ r.slot[k] = v /\ Side(k) = s
      <4>1. i = h
        BY <1>1, <1>2, <1>6, <1>9, <3>2 DEF Single
      <4> QED BY <1>2, <1>5, <3>2, <4>1
    <3> QED BY <1>10, <3>1, <3>2
  <2> QED BY <2>1, <2>2 DEF Owned
<1>12. s = 1 => m.gid[2] <= r.gids /\ m.gid \notin Ended(Line(w, n)) /\ m.gid[1] = 1
  <2> SUFFICES ASSUME s = 1
               PROVE  m.gid[2] <= r.gids /\ m.gid \notin Ended(Line(w, n)) /\ m.gid[1] = 1
    OBVIOUS
  <2>1. h \in Entries(n, 1) /\ n.entry[1][h].st # "free" /\ h \in Holding(n, 1)
    BY DEF Holding
  <2>2. /\ \A i \in Entries(n, 1) : n.entry[1][i].st # "free" =>
               n.entry[1][i].gid[1] = 1 /\ n.entry[1][i].gid[2] <= n.gids
    BY <1>1 DEF Used
  <2> QED BY <1>1, <1>2, <1>3, <1>5, <2>1, <2>2 DEF Ordered
<1>13. \A i \in Holding(r, 1) : m.val # Release /\ r.entry[1][i].gid \notin Ended(Line(w, n))
  <2>1. 1 \in Sigs
    BY DEF Sigs
  <2> QED BY <1>1, <1>3, <1>5, <1>6, <2>1 DEF Ordered
<1>14. \A k \in Maps : setup.loc[k] = "src" /\ r.pending[k] =>
           n.pending[k] \/ (k = s /\ k \in setup.scope[k] /\ r.sending[k])
  <2> SUFFICES ASSUME NEW k \in Maps, setup.loc[k] = "src", r.pending[k], ~ n.pending[k]
               PROVE  k = s /\ k \in setup.scope[k] /\ r.sending[k]
    OBVIOUS
  <2>1. k = s /\ r.sending[k] /\ InScope(k, GidOf(n, s))
    BY <1>10
  <2>2. k = 1
    BY DEF Orderly, Maps
  <2> QED BY <1>3, <1>12, <2>1, <2>2 DEF InScope
<1> QED BY <1>0, <1>1, <1>3, <1>5, <1>7, <1>8, <1>11, <1>12, <1>13, <1>14, Keeps

------------------------------------------------------------------------------
\* A poll, or a new time: the marked map is evaluated and the bundles are sent.

Evaluated(n, r, k, v) ==
    /\ r \in Net /\ r.entry = n.entry /\ r.val = n.val /\ r.slot = n.slot
    /\ r.muted = n.muted /\ r.gids = n.gids /\ r.sets = n.sets /\ r.sending = n.sending
    /\ r.pending = [n.pending EXCEPT ![k] = FALSE]
    /\ IF Holding(n, k) = {} THEN r.bundle = n.bundle
       ELSE r.bundle = [n.bundle EXCEPT ![Down(k)] = Append(@, [gid |-> GidOf(n, k), val |-> v])]

LEMMA MapSent ==
    ASSUME NEW n \in Net, NEW k \in Maps, NEW r, r = MapSend(n, k), r # n,
           Holding(n, k) # {} => [gid |-> GidOf(n, k), val |-> n.slot[k]] \in Msg
    PROVE  n.pending[k] /\ setup.loc[k] = "src" /\ ~ n.muted[k] /\ Evaluated(n, r, k, n.slot[k])
<1> DEFINE m == IF Holding(n, k) = {} THEN n ELSE Add(n, Down(k), GidOf(n, k), n.slot[k])
           msg == [gid |-> GidOf(n, k), val |-> n.slot[k]]
           P == [n.pending EXCEPT ![k] = FALSE]
<1>1. n.pending[k] /\ setup.loc[k] = "src" /\ ~ n.muted[k] /\ r = [m EXCEPT !.pending[k] = FALSE]
  BY DEF MapSend
<1>2. /\ m \in Net /\ m = [n EXCEPT !.bundle = m.bundle]
      /\ IF Holding(n, k) = {} THEN m.bundle = n.bundle
         ELSE m.bundle = [n.bundle EXCEPT ![Down(k)] = Append(@, msg)]
  <2>1. CASE Holding(n, k) = {}
    BY <2>1, Shaped
  <2>2. CASE Holding(n, k) # {}
    <3> DEFINE l == Down(k)
               g == GidOf(n, k)
               v == n.slot[k]
    <3>1. l \in Lines /\ m = Add(n, l, g, v) /\ [gid |-> g, val |-> v] \in Msg
      BY <2>2, SomeLines
    <3> HIDE DEF l, g, v, m
    <3>2. /\ m = [n EXCEPT !.bundle = m.bundle] /\ m \in Net
          /\ m.bundle = [n.bundle EXCEPT ![l] = Append(@, [gid |-> g, val |-> v])]
      BY <3>1, Adds
    <3> QED BY <2>2, <3>2 DEF l, g, v
  <2> QED BY <2>1, <2>2
<1> HIDE DEF m
<1>3. P \in [Maps -> BOOLEAN]
  BY DEF Net
<1>4. r = [m EXCEPT !.pending = P]
  BY <1>1, <1>2, Shaped
<1> HIDE DEF P
<1>5. r \in Net
  BY <1>2, <1>3, <1>4 DEF Net
<1>6. /\ r.entry = n.entry /\ r.val = n.val /\ r.slot = n.slot
      /\ r.muted = n.muted /\ r.gids = n.gids /\ r.sets = n.sets /\ r.sending = n.sending
      /\ r.pending = P /\ r.bundle = m.bundle
  BY <1>2, <1>4, Shaped
<1> QED BY <1>1, <1>2, <1>5, <1>6 DEF Evaluated, P

LEMMA SendKeeps ==
    ASSUME setup \in Setups, Orderly, NEW w, NEW n, Right(w, n), NEW k \in Maps, n.sending[k],
           NEW r, r = MapSend(n, k)
    PROVE  /\ Right(w, r) /\ r.sending = n.sending /\ r.entry = n.entry /\ r.gids = n.gids
           /\ r.muted = n.muted /\ \A j \in Maps : r.pending[j] => n.pending[j]
           /\ setup.loc[k] = "src" /\ ~ n.muted[k] => ~ r.pending[k]
<1>1. /\ n \in Net /\ w \in Seq(Seq(Msg)) /\ Single(n) /\ Used(n) /\ Owned(n, {}) /\ Scoped(n) /\ Ordered(w, n)
      /\ n.gids \in Nat /\ n.pending \in [Maps -> BOOLEAN] /\ n.sending \in [Sigs -> BOOLEAN]
      /\ n.bundle \in [Lines -> Seq(Msg)]
  BY DEF Right, Nearly, Sound, Net
<1>2. CASE r = n
  <2>1. setup.loc[k] = "src" /\ ~ n.muted[k] => ~ r.pending[k]
    <3> SUFFICES ASSUME setup.loc[k] = "src", ~ n.muted[k], n.pending[k]
                 PROVE  FALSE
      BY <1>2
    <3> DEFINE m == IF Holding(n, k) = {} THEN n ELSE Add(n, Down(k), GidOf(n, k), n.slot[k])
    <3>1. r = [m EXCEPT !.pending[k] = FALSE]
      BY DEF MapSend
    <3>2. m \in {n, [n EXCEPT !.bundle[Down(k)] = Append(@, [gid |-> GidOf(n, k), val |-> n.slot[k]])]}
      BY DEF Add
    <3> HIDE DEF m
    <3>3. m.pending = n.pending
      BY <1>1, <3>2, Shaped
    <3>4. DOMAIN m = DOMAIN n /\ "pending" \in DOMAIN n
      BY <1>1, <3>2, Shaped
    <3>5. r.pending[k] = FALSE
      BY <1>1, <3>1, <3>3, <3>4
    <3> QED BY <1>2, <3>5
  <2> QED BY <1>2, <2>1
<1>3. CASE r # n
  <2> DEFINE g == GidOf(n, k)
             v == n.slot[k]
             m == IF Holding(n, k) = {} THEN [gid |-> <<1, 0>>, val |-> Release] ELSE [gid |-> g, val |-> v]
  <2>1. n.pending[k] /\ setup.loc[k] = "src" /\ k = 1
    BY <1>3 DEF MapSend, Orderly, Maps
  <2>2. k \in Sigs /\ Side(k) = k
    BY <2>1 DEF Side, Sigs
  <2>3. Holding(n, k) # {} => /\ Of(v, g) /\ g \in Gid /\ g[1] = 1 /\ g[2] <= n.gids
                              /\ g \notin Ended(Line(w, n)) /\ InScope(k, g)
    <3> SUFFICES ASSUME Holding(n, k) # {}
                 PROVE  /\ Of(v, g) /\ g \in Gid /\ g[1] = 1 /\ g[2] <= n.gids
                        /\ g \notin Ended(Line(w, n)) /\ InScope(k, g)
      OBVIOUS
    <3>1. PICK h \in Holding(n, k) : g = n.entry[k][h].gid /\ g \in Gid
      BY <1>1, <2>2, Holders
    <3>2. Of(v, g)
      BY <1>1, <2>1, <2>2, <3>1 DEF Owned
    <3>3. h \in Entries(n, k) /\ n.entry[k][h].st # "free"
      BY DEF Holding
    <3>4. g[1] = 1 /\ g[2] <= n.gids
      BY <1>1, <2>1, <3>1, <3>3 DEF Used
    <3>5. g \notin Ended(Line(w, n))
      BY <1>1, <2>1, <3>1 DEF Ordered
    <3>6. InScope(k, g)
      BY <1>1, <2>1, <3>4 DEF Scoped, InScope
    <3> QED BY <3>1, <3>2, <3>4, <3>5, <3>6
  <2>4. m \in Msg /\ (Holding(n, k) # {} => m = [gid |-> g, val |-> v] /\ m.gid = g /\ m.val # Release)
    <3>1. Release \in {Release} \cup Val /\ <<1, 0>> \in Gid
      BY DEF Gid, Sigs
    <3> QED BY <2>3, <3>1, ValuesDiffer DEF Msg, Of
  <2>5. Evaluated(n, r, k, v) /\ ~ n.muted[k]
    BY <1>1, <1>3, <2>4, MapSent
  <2>6. /\ r \in Net /\ r.entry = n.entry /\ r.val = n.val /\ r.slot = n.slot
        /\ r.muted = n.muted /\ r.gids = n.gids /\ r.sending = n.sending
        /\ r.pending = [n.pending EXCEPT ![k] = FALSE]
    BY <2>5 DEF Evaluated
  <2>7. Sent(n, r, k, m) \/ Quiet(n, r)
    <3>1. CASE Holding(n, k) = {}
      BY <2>5, <2>6, <3>1 DEF Evaluated, Quiet
    <3>2. CASE Holding(n, k) # {}
      <4>1. r.bundle = [n.bundle EXCEPT ![Down(k)] = Append(@, m)]
        BY <2>4, <2>5, <3>2 DEF Evaluated
      <4>2. From(Down(k)) = k /\ Down(k)[1] = k
        BY SomeLines
      <4> HIDE DEF m
      <4>3. \A l \in Lines : r.bundle[l] = IF l = Down(k) THEN Append(n.bundle[l], m) ELSE n.bundle[l]
        BY <1>1, <4>1
      <4>4. r.sending = [n.sending EXCEPT ![k] = TRUE]
        BY <1>1, <2>6
      <4> QED BY <2>3, <2>4, <3>2, <4>2, <4>3, <4>4 DEF Sent
    <3> QED BY <3>1, <3>2
  <2>8. Quiet(n, r) \/ Holding(n, k) # {}
    BY <2>5, <2>6 DEF Evaluated, Quiet
  <2> HIDE DEF m, g, v
  <2>9. \A t \in Sigs : Holding(r, t) = Holding(n, t) /\ Entries(r, t) = Entries(n, t)
    BY <2>6 DEF Holding, Entries
  <2>10. 1 \in Sigs /\ \A j \in Maps : Side(j) \in Sigs
    BY DEF Sigs, Side, Maps
  <2>11. Single(r) /\ Used(r)
    BY <1>1, <2>6, <2>9, <2>10 DEF Single, Used
  <2>12. \A j \in Maps : r.pending[j] => n.pending[j]
    BY <1>1, <2>6
  <2>13. Owned(r, {})
    BY <1>1, <2>6, <2>9, <2>10, <2>12 DEF Owned
  <2>14. k = 1 /\ ~ Quiet(n, r) => m.gid[2] <= r.gids /\ m.gid \notin Ended(Line(w, n))
    BY <2>3, <2>4, <2>6, <2>8
  <2>15. \A i \in Holding(r, 1) : /\ m.val # Release \/ Quiet(n, r)
                                  /\ r.entry[1][i].gid \notin Ended(Line(w, n))
    BY <1>1, <2>4, <2>6, <2>8, <2>9, <2>10 DEF Ordered
  <2>16. r.gids >= n.gids
    BY <1>1, <2>6
  <2>17. Right(w, r)
    <3>1. \A j \in Maps : setup.loc[j] = "src" /\ r.pending[j] =>
              n.pending[j] \/ (j = k /\ j \in setup.scope[j] /\ r.sending[j])
      BY <2>12
    <3>2. \A i \in Holding(r, 1) : \/ r.entry[1][i].gid \notin Ended(Line(w, r))
                                   \/ /\ k # 1 \/ m.val # Release \/ Quiet(n, r)
                                      /\ r.entry[1][i].gid \notin Ended(Line(w, n))
      BY <2>15
    <3>3. m \in Msg /\ r \in Net /\ r.muted = n.muted
      BY <2>4, <2>6
    <3> QED BY <2>2, <2>7, <2>11, <2>13, <2>14, <2>16, <3>1, <3>2, <3>3, Keeps, RightIs
  <2>18. ~ r.pending[k]
    BY <1>1, <2>6
  <2> QED BY <2>6, <2>12, <2>17, <2>18
<1> QED BY <1>2, <1>3

\* The line c is the line a with an empty bundle behind it.
Emptied(a, c) ==
    /\ a \in Seq(Seq(Msg)) /\ InOrder(c) /\ Ended(c) \subseteq Ended(a)
    /\ \A i \in DOMAIN c : \A p \in DOMAIN c[i] :
           i \in DOMAIN a /\ p \in DOMAIN a[i] /\ c[i][p] = a[i][p]

LEMMA LineSent ==
    ASSUME NEW w \in Seq(Seq(Msg)), NEW b \in Seq(Msg), NEW a, a = Append(w, b),
           NEW c, c = Append(a, <<>>), InOrder(a)
    PROVE  Emptied(a, c)
<1> DEFINE N == Len(a)
<1>1. a \in Seq(Seq(Msg)) /\ <<>> \in Seq(Msg)
  OBVIOUS
<1>2. /\ DOMAIN a = 1 .. N /\ DOMAIN c = 1 .. N + 1 /\ N \in Nat
      /\ c[N + 1] = <<>> /\ \A i \in 1 .. N : c[i] = a[i]
  BY <1>1, AppendProperties
<1> HIDE DEF N
<1>3. \A i \in DOMAIN c : \A p \in DOMAIN c[i] :
          i \in DOMAIN a /\ p \in DOMAIN a[i] /\ c[i][p] = a[i][p]
  <2> SUFFICES ASSUME NEW i \in DOMAIN c, NEW p \in DOMAIN c[i]
               PROVE  i \in DOMAIN a /\ p \in DOMAIN a[i] /\ c[i][p] = a[i][p]
    OBVIOUS
  <2>1. i # N + 1
    BY <1>2
  <2> QED BY <1>2, <2>1
<1>4. InOrder(c)
  BY <1>3 DEF InOrder
<1>5. Ended(c) \subseteq Ended(a)
  BY <1>3 DEF Ended
<1> QED BY <1>1, <1>3, <1>4, <1>5 DEF Emptied

\* The bundles on their way, those that are sent behind them.
Joined(W, sent) == [l \in Lines |-> IF l \in DOMAIN sent THEN Append(W[l], sent[l]) ELSE W[l]]

LEMMA FlushKeeps ==
    ASSUME setup \in Setups, Orderly, NEW W, Wired(W), NEW n, Right(W[Down(1)], n), NEW s \in Sigs,
           NEW f, f = Flushed(n, s),
           NEW V, V = Joined(W, f.sent)
    PROVE  Wired(V) /\ Right(V[Down(1)], f.net) /\ f.net.entry = n.entry /\ f.net.gids = n.gids
<1> DEFINE m == IF s \in Maps THEN MapSend(n, s) ELSE n
           mine == {l \in Lines : From(l) = s /\ m.bundle[l] # <<>>}
           w == W[Down(1)]
<1>0. Down(1) \in Lines /\ From(Down(1)) = 1 /\ Maps = {1, 2} /\ Maps \subseteq Sigs
  BY SomeLines DEF Maps, Sigs
<1>1. CASE ~ n.sending[s]
  <2>1. f.net = n /\ f.sent = [l \in {} |-> <<>>]
    BY <1>1 DEF Flushed
  <2>2. V = W
    BY <2>1 DEF Wired, Joined
  <2> QED BY <2>1, <2>2
<1>2. CASE n.sending[s]
  <2> DEFINE r == f.net
             B == [l \in Lines |-> IF l \in mine THEN <<>> ELSE m.bundle[l]]
             S == [m.sending EXCEPT ![s] = FALSE]
  <2>1. /\ f.net = [m EXCEPT !.sending[s] = FALSE, !.bundle = [l \in Lines |-> IF l \in mine THEN <<>> ELSE @[l]]]
        /\ f.sent = [l \in mine |-> m.bundle[l]]
    BY <1>2 DEF Flushed
  <2>2. /\ Right(w, m) /\ m.sending = n.sending /\ m.entry = n.entry /\ m.gids = n.gids
        /\ s \in Maps /\ setup.loc[s] = "src" /\ ~ m.muted[s] => ~ m.pending[s]
    <3>1. CASE s \in Maps
      BY <1>2, <3>1, SendKeeps
    <3>2. CASE s \notin Maps
      BY <3>2
    <3> QED BY <3>1, <3>2
  <2>3. /\ m \in Net /\ w \in Seq(Seq(Msg)) /\ Single(m) /\ Used(m) /\ Owned(m, {}) /\ Scoped(m) /\ Flagged(m)
        /\ Ordered(w, m) /\ m.bundle \in [Lines -> Seq(Msg)] /\ m.sending \in [Sigs -> BOOLEAN]
    BY <2>2 DEF Right, Nearly, Sound, Net
  <2> HIDE DEF m
  <2>4. r = [m EXCEPT !.sending = S, !.bundle = B]
    BY <2>1, <2>3, Shaped
  <2>5. B \in [Lines -> Seq(Msg)] /\ S \in [Sigs -> BOOLEAN]
    BY <2>3
  <2>6. \A l \in Lines : B[l] = m.bundle[l] \/ (B[l] = <<>> /\ l \in mine)
    OBVIOUS
  <2>7. \A t \in Sigs : S[t] = (m.sending[t] /\ t # s)
    BY <2>3
  <2>8. \A l \in Lines : From(l) = s => B[l] = <<>>
    OBVIOUS
  <2>9. V \in [Lines -> Seq(Seq(Msg))] /\ \A l \in Lines : V[l] = IF l \in mine THEN Append(W[l], m.bundle[l]) ELSE W[l]
    <3>1. W \in [Lines -> Seq(Seq(Msg))]
      BY DEF Wired
    <3>2. /\ V = [l \in Lines |-> V[l]]
          /\ \A l \in Lines : V[l] = IF l \in mine THEN Append(W[l], m.bundle[l]) ELSE W[l]
      BY <2>1 DEF Joined
    <3>3. \A l \in Lines : Append(W[l], m.bundle[l]) \in Seq(Seq(Msg))
      BY <2>3, <3>1
    <3> QED BY <3>1, <3>2, <3>3
  <2>10. \A l \in mine : l \in Lines /\ From(l) = s
    OBVIOUS
  <2>11. Down(1) \in mine \/ B[Down(1)] = m.bundle[Down(1)]
    BY <1>0, <2>6
  <2> HIDE DEF mine, S, B, r
  <2>12. r \in Net
    BY <2>3, <2>4, <2>5 DEF Net
  <2>13. /\ r.entry = m.entry /\ r.val = m.val /\ r.slot = m.slot /\ r.pending = m.pending
         /\ r.muted = m.muted /\ r.gids = m.gids /\ r.bundle = B /\ r.sending = S
    BY <2>3, <2>4, Shaped
  <2>14. \A t \in Sigs : Holding(r, t) = Holding(m, t) /\ Entries(r, t) = Entries(m, t)
    BY <2>13 DEF Holding, Entries
  <2>15. 1 \in Sigs /\ \A j \in Maps : Side(j) \in Sigs
    BY DEF Sigs, Side, Maps
  <2>16. Single(r) /\ Used(r)
    BY <2>3, <2>13, <2>14, <2>15 DEF Single, Used
  <2>17. Owned(r, {})
    BY <2>3, <2>13, <2>14, <2>15 DEF Owned
  <2>18. Scoped(r)
    <3>1. \A l \in Lines : \A i \in DOMAIN r.bundle[l] : InScope(l[1], r.bundle[l][i].gid)
      <4> SUFFICES ASSUME NEW l \in Lines, NEW i \in DOMAIN r.bundle[l]
                   PROVE  InScope(l[1], r.bundle[l][i].gid)
        OBVIOUS
      <4>1. r.bundle[l] = m.bundle[l]
        BY <2>6, <2>13
      <4> QED BY <2>3, <4>1 DEF Scoped
    <3> QED BY <2>3, <2>13, <3>1 DEF Scoped
  <2>19. Flagged(r)
    <3>1. \A l \in Lines : r.bundle[l] # <<>> => r.sending[From(l)]
      <4> SUFFICES ASSUME NEW l \in Lines, r.bundle[l] # <<>>
                   PROVE  r.sending[From(l)]
        OBVIOUS
      <4>1. From(l) # s /\ B[l] = m.bundle[l]
        BY <2>6, <2>8, <2>13
      <4>2. From(l) \in Sigs /\ m.sending[From(l)]
        BY <2>3, <2>13, <4>1, SomeLines DEF Flagged
      <4> QED BY <2>7, <2>13, <4>1, <4>2
    <3>2. \A k \in Maps : r.muted[k] => k \in setup.mutes
      BY <2>3, <2>13 DEF Flagged
    <3>3. \A k \in Maps \ setup.mutes : setup.loc[k] = "src" /\ r.pending[k] => r.sending[k]
      <4> SUFFICES ASSUME NEW k \in Maps, k \notin setup.mutes, setup.loc[k] = "src", r.pending[k]
                   PROVE  r.sending[k]
        OBVIOUS
      <4>1. m.sending[k] /\ k \in Sigs
        BY <1>0, <2>3, <2>13 DEF Flagged
      <4>2. k # s
        BY <2>2, <2>3, <2>13 DEF Flagged
      <4> QED BY <2>7, <2>13, <4>1, <4>2
    <3> QED BY <3>1, <3>2, <3>3 DEF Flagged
  <2>20. Ordered(V[Down(1)], r) /\ V[Down(1)] \in Seq(Seq(Msg))
    <3>1. CASE Down(1) \in mine
      <4> DEFINE b == m.bundle[Down(1)]
                 a == Append(w, b)
                 c == Append(a, <<>>)
      <4>1. a = Line(w, m) /\ V[Down(1)] = a /\ c = Line(V[Down(1)], r) /\ b \in Seq(Msg)
        <5>1. V[Down(1)] = a /\ b \in Seq(Msg)
          BY <1>0, <2>3, <2>9, <3>1
        <5>2. B[Down(1)] = <<>>
          BY <2>8, <2>10, <3>1
        <5> QED BY <2>13, <5>1, <5>2 DEF Line
      <4>2. InOrder(a)
        BY <2>3, <4>1 DEF Ordered
      <4>3. a = Append(w, b) /\ c = Append(a, <<>>)
        OBVIOUS
      <4> HIDE DEF a, b, c
      <4>4. /\ a \in Seq(Seq(Msg)) /\ InOrder(c) /\ Ended(c) \subseteq Ended(a)
            /\ \A i \in DOMAIN c : \A p \in DOMAIN c[i] :
                   i \in DOMAIN a /\ p \in DOMAIN a[i] /\ c[i][p] = a[i][p]
        <5>1. w \in Seq(Seq(Msg)) /\ b \in Seq(Msg) /\ a = Append(w, b)
          BY <2>3, <4>1, <4>3
        <5> HIDE DEF w
        <5>2. Emptied(a, c)
          BY <4>2, <4>3, <5>1, LineSent
        <5> QED BY <5>2 DEF Emptied
      <4>5. Begun(c, r)
        BY <2>3, <2>13, <4>1, <4>4 DEF Ordered, Begun
      <4> QED BY <2>3, <2>13, <2>14, <2>15, <4>1, <4>4, <4>5 DEF Ordered
    <3>2. CASE Down(1) \notin mine
      <4>1. V[Down(1)] = w /\ B[Down(1)] = m.bundle[Down(1)]
        BY <1>0, <2>9, <2>11, <3>2
      <4>2. Line(V[Down(1)], r) = Line(w, m)
        BY <2>13, <4>1 DEF Line
      <4> QED BY <2>3, <2>13, <2>14, <2>15, <4>1, <4>2 DEF Ordered, Begun
    <3> QED BY <3>1, <3>2
  <2>21. Wired(V)
    <3> SUFFICES ASSUME NEW l \in Lines, NEW i \in DOMAIN V[l], NEW p \in DOMAIN V[l][i]
                 PROVE  InScope(l[1], V[l][i][p].gid)
      BY <2>9 DEF Wired
    <3>1. W[l] \in Seq(Seq(Msg))
      BY DEF Wired
    <3>2. \/ i \in DOMAIN W[l] /\ V[l][i] = W[l][i]
          \/ V[l][i] = m.bundle[l]
      <4>1. CASE l \in mine
        <5> DEFINE u == W[l]
                   x == m.bundle[l]
                   y == V[l]
        <5>1. u \in Seq(Seq(Msg)) /\ x \in Seq(Msg) /\ y = Append(u, x) /\ i \in DOMAIN y
          BY <2>3, <2>9, <3>1, <4>1
        <5> HIDE DEF u, x, y
        <5>2. (i \in DOMAIN u /\ y[i] = u[i]) \/ y[i] = x
          BY <5>1, AppendProperties
        <5> QED BY <5>2 DEF u, x, y
      <4>2. CASE l \notin mine
        BY <2>9, <4>2
      <4> QED BY <4>1, <4>2
    <3> QED BY <2>3, <3>2 DEF Wired, Scoped
  <2>22. Right(V[Down(1)], r)
    BY <2>12, <2>16, <2>17, <2>18, <2>19, <2>20 DEF Right, Nearly, Sound
  <2> QED BY <2>2, <2>13, <2>21, <2>22 DEF r
<1> QED BY <1>1, <1>2

\* Induction over the natural numbers, for a set: if n were missing, the numbers up to n
\* that are missing would map to their predecessors, one to one, and none of them to n.
LEMMA SetInduction ==
    ASSUME NEW P, 0 \in P, \A n \in Nat : n \in P => n + 1 \in P
    PROVE  \A n \in Nat : n \in P
<1> SUFFICES ASSUME NEW n \in Nat, n \notin P
             PROVE  FALSE
  OBVIOUS
<1> DEFINE B == {m \in 0 .. n : m \notin P}
           f == [m \in B |-> m - 1]
<1>1. IsFiniteSet(B)
  <2>1. IsFiniteSet(0 .. n)
    BY FS_Interval
  <2> QED BY <2>1, FS_Subset
<1>2. \A m \in B : m - 1 \in B
  <2> SUFFICES ASSUME NEW m \in B
               PROVE  m - 1 \in B
    OBVIOUS
  <2>1. m # 0 /\ m - 1 \in Nat
    OBVIOUS
  <2>2. m - 1 \in P => m \in P
    BY <2>1
  <2> QED BY <2>1, <2>2
<1>3. f \in Injection(B, B)
  BY <1>2 DEF Injection, IsInjective
<1> HIDE DEF f
<1>4. f \in Surjection(B, B)
  BY <1>1, <1>3, FS_Injection
<1>5. PICK m \in B : f[m] = n
  BY <1>4 DEF Surjection
<1> QED BY <1>5 DEF f

\* A set of numbers has a least element.
LEMMA Least ==
    ASSUME NEW S \in SUBSET Nat, S # {}
    PROVE  \E i \in S : \A j \in S : i <= j
<1> DEFINE P == {n \in Nat : \A i \in 0 .. n : i \notin S}
<1> SUFFICES ASSUME ~ \E i \in S : \A j \in S : i <= j
             PROVE  FALSE
  OBVIOUS
<1>1. 0 \in P
  <2> SUFFICES ASSUME 0 \in S
               PROVE  FALSE
    OBVIOUS
  <2>1. \A j \in S : 0 <= j
    OBVIOUS
  <2> QED BY <2>1
<1>2. ASSUME NEW n \in Nat, n \in P
      PROVE  n + 1 \in P
  <2> SUFFICES ASSUME n + 1 \in S
               PROVE  FALSE
    BY <1>2
  <2>1. \A j \in S : j \notin 0 .. n
    BY <1>2
  <2>2. \A j \in S : n + 1 <= j
    BY <2>1
  <2> QED BY <2>2
<1> HIDE DEF P
<1>3. \A n \in Nat : n \in P
  BY <1>1, <1>2, SetInduction
<1>4. PICK n \in S : n \in Nat
  OBVIOUS
<1> QED BY <1>3, <1>4 DEF P

------------------------------------------------------------------------------
\* An instance begins, and values are set.

\* Signal s, which held none, holds the instance g now.
Begins(n, r, s, g) ==
    /\ r \in Net /\ r.val = [n.val EXCEPT ![s] = NoVal]
    /\ \A t \in Sigs : t # s => r.entry[t] = n.entry[t]
    /\ \E h : /\ Holding(r, s) = {h} /\ r.entry[s][h] = [gid |-> g, st |-> "held"]
              /\ \A i \in Entries(r, s) : i = h \/ (i \in Entries(n, s) /\ r.entry[s][i] = n.entry[s][i])
    /\ r.updated = n.updated /\ r.sending = n.sending /\ r.slot = n.slot /\ r.pending = n.pending
    /\ r.muted = n.muted /\ r.bundle = n.bundle /\ r.gids = n.gids /\ r.sets = n.sets
    /\ r.receiving = n.receiving /\ r.stale = n.stale

LEMMA Activated ==
    ASSUME NEW n \in Net, NEW s \in Sigs, Holding(n, s) = {}, NEW g \in Gid,
           NEW r, r = Activate(n, s, g)
    PROVE  Begins(n, r, s, g)
<1> DEFINE E == n.entry[s]
           free == {i \in Entries(n, s) : E[i].st = "free"}
           e == [gid |-> g, st |-> "held"]
           F == IF free = {} THEN Append(E, e)
                ELSE [E EXCEPT ![CHOOSE i \in free : \A j \in free : i <= j] = e]
           h == IF free = {} THEN Len(E) + 1 ELSE CHOOSE i \in free : \A j \in free : i <= j
<1>1. E \in Seq(Entry) /\ Entries(n, s) = 1 .. Len(E) /\ Len(E) \in Nat /\ e \in Entry
  <2>1. e \in Entry
    BY DEF Entry
  <2> QED BY <2>1, Holders
<1>2. \A i \in Entries(n, s) : E[i].st \notin {"held", "ended"}
  BY DEF Holding
<1>3. /\ F \in Seq(Entry) /\ F[h] = e /\ h \in DOMAIN F
      /\ \A i \in DOMAIN F : i = h \/ (i \in Entries(n, s) /\ F[i] = E[i])
  <2>1. CASE free = {}
    <3>1. F = Append(E, e) /\ h = Len(E) + 1
      BY <2>1
    <3> HIDE DEF F, h, e, E
    <3> QED BY <1>1, <3>1, AppendProperties
  <2>2. CASE free # {}
    <3>1. h \in free
      <4>1. free \in SUBSET Nat
        BY <1>1
      <4>2. \E i \in free : \A j \in free : i <= j
        BY <2>2, <4>1, Least
      <4> QED BY <2>2, <4>2
    <3>2. F = [E EXCEPT ![h] = e] /\ h \in Entries(n, s)
      BY <2>2, <3>1
    <3> HIDE DEF F, h, e, E
    <3> QED BY <1>1, <3>2
  <2> QED BY <2>1, <2>2
<1> HIDE DEF h
<1>4. r = [n EXCEPT !.entry = [n.entry EXCEPT ![s] = F], !.val = [n.val EXCEPT ![s] = NoVal]]
  BY Shaped DEF Activate
<1> HIDE DEF F
<1>5. /\ [n.entry EXCEPT ![s] = F] \in [Sigs -> Seq(Entry)]
      /\ [n.val EXCEPT ![s] = NoVal] \in [Sigs -> {NoVal, Zero} \cup Val]
  BY <1>3 DEF Net
<1>6. r \in Net
  BY <1>4, <1>5 DEF Net
<1>7. /\ r.entry = [n.entry EXCEPT ![s] = F] /\ r.val = [n.val EXCEPT ![s] = NoVal]
      /\ r.updated = n.updated /\ r.sending = n.sending /\ r.slot = n.slot /\ r.pending = n.pending
      /\ r.muted = n.muted /\ r.bundle = n.bundle /\ r.gids = n.gids /\ r.sets = n.sets
      /\ r.receiving = n.receiving /\ r.stale = n.stale
  BY <1>4, Shaped
<1>8. n.entry \in [Sigs -> Seq(Entry)]
  BY DEF Net
<1>9. r.entry[s] = F /\ \A t \in Sigs : t # s => r.entry[t] = n.entry[t]
  BY <1>7, <1>8
<1>10. Entries(r, s) = DOMAIN F
  BY <1>9 DEF Entries
<1>11. Holding(r, s) = {h}
  BY <1>2, <1>3, <1>9, <1>10 DEF Holding
<1> QED BY <1>3, <1>6, <1>7, <1>9, <1>10, <1>11 DEF Begins

LEMMA BeginKeeps ==
    ASSUME setup \in Setups, NEW w, NEW n, Right(w, n), NEW s \in Sigs, NEW g \in Gid,
           NEW a, Begins(n, a, s, g), NEW r \in Net, r.entry = a.entry,
           r.slot = n.slot, r.pending = n.pending, r.muted = n.muted, Quiet(n, r), r.gids >= n.gids,
           \A t \in Sigs : t # s => r.val[t] = n.val[t], r.val[s] = NoVal \/ Of(r.val[s], g),
           s = 1 => g[1] = 1 /\ n.gids < g[2] /\ g[2] <= r.gids
    PROVE  Nearly(w, r, {k \in Maps : Side(k) = s}) /\ Holding(r, s) # {} /\ GidOf(r, s) = g
<1>1. /\ n \in Net /\ w \in Seq(Seq(Msg)) /\ Single(n) /\ Used(n) /\ Owned(n, {}) /\ Ordered(w, n)
      /\ n.gids \in Nat /\ r.gids \in Nat /\ n.bundle \in [Lines -> Seq(Msg)] /\ Sound(w, n)
  BY DEF Right, Nearly, Sound, Net
<1>2. PICK h : /\ Holding(r, s) = {h} /\ r.entry[s][h] = [gid |-> g, st |-> "held"]
               /\ \A i \in Entries(r, s) : i = h \/ (i \in Entries(n, s) /\ r.entry[s][i] = n.entry[s][i])
  BY DEF Begins, Holding, Entries
<1>3. \A t \in Sigs : t # s => r.entry[t] = n.entry[t] /\ Holding(r, t) = Holding(n, t) /\ Entries(r, t) = Entries(n, t)
  BY DEF Begins, Holding, Entries
<1>4. Single(r)
  BY <1>1, <1>2, <1>3 DEF Single
<1>5. Used(r)
  <2>1. 1 \in Sigs /\ Used(n)
    BY <1>1 DEF Sigs
  <2>2. ASSUME NEW t \in Sigs, NEW i \in Entries(r, t), r.entry[t][i].st # "free"
        PROVE  \/ t = s /\ r.entry[t][i].gid = g
               \/ i \in Entries(n, t) /\ r.entry[t][i] = n.entry[t][i]
    BY <1>2, <1>3, <2>2
  <2>3. \A i \in Entries(n, 1) : n.entry[1][i].st # "free" => n.entry[1][i].gid \in Gid /\ n.entry[1][i].gid[2] \in Nat
    BY <2>1 DEF Used, Gid
  <2>4. ASSUME NEW t \in Sigs, NEW i \in Entries(r, t), r.entry[t][i].st # "free"
        PROVE  r.entry[t][i].gid \in Gid
    BY <2>1, <2>2, <2>4 DEF Used
  <2>5. ASSUME NEW i \in Entries(r, 1), r.entry[1][i].st # "free"
        PROVE  r.entry[1][i].gid[1] = 1 /\ r.entry[1][i].gid[2] <= r.gids
    <3>1. CASE s = 1 /\ r.entry[1][i].gid = g
      BY <3>1
    <3>2. CASE i \in Entries(n, 1) /\ r.entry[1][i] = n.entry[1][i]
      BY <1>1, <2>1, <2>3, <2>5, <3>2 DEF Used
    <3> QED BY <2>1, <2>2, <2>5, <3>1, <3>2
  <2> QED BY <2>4, <2>5 DEF Used
<1>6. Owned(r, {k \in Maps : Side(k) = s})
  <2>1. \A t \in Sigs : \A i \in Holding(r, t) : r.val[t] # NoVal => Of(r.val[t], r.entry[t][i].gid)
    <3> SUFFICES ASSUME NEW t \in Sigs, NEW i \in Holding(r, t), r.val[t] # NoVal
                 PROVE  Of(r.val[t], r.entry[t][i].gid)
      OBVIOUS
    <3>1. CASE t = s
      BY <1>2, <3>1
    <3>2. CASE t # s
      BY <1>1, <1>3, <3>2 DEF Owned
    <3> QED BY <3>1, <3>2
  <2>2. ASSUME NEW k \in Maps \ {j \in Maps : Side(j) = s}, r.pending[k], NEW i \in Holding(r, Side(k))
        PROVE  Of(r.slot[k], r.entry[Side(k)][i].gid)
    <3>1. Side(k) \in Sigs /\ Side(k) # s
      BY DEF Side, Maps, Sigs
    <3> QED BY <1>1, <1>3, <2>2, <3>1 DEF Owned
  <2> QED BY <2>1, <2>2 DEF Owned
<1>7. s = 1 => g \notin Ended(Line(w, n))
  <2> SUFFICES ASSUME s = 1, g \in Ended(Line(w, n))
               PROVE  FALSE
    OBVIOUS
  <2>1. PICK i \in DOMAIN Line(w, n) : \E p \in DOMAIN Line(w, n)[i] : Line(w, n)[i][p].gid = g
    BY DEF Ended
  <2>2. g[2] <= n.gids
    BY <1>1, <2>1 DEF Ordered, Begun
  <2>3. g[2] \in Nat
    BY DEF Gid
  <2> QED BY <1>1, <2>2, <2>3
<1>8. \A i \in Holding(r, 1) : r.entry[1][i].gid \notin Ended(Line(w, n))
  <2>1. 1 \in Sigs
    BY DEF Sigs
  <2>2. CASE s = 1
    BY <1>2, <1>7, <2>2
  <2>3. CASE s # 1
    BY <1>1, <1>3, <2>1, <2>3 DEF Ordered
  <2> QED BY <2>2, <2>3
<1>9. Sound(w, r)
  <2> DEFINE m == [gid |-> g, val |-> Release]
  <2>1. m \in Msg
    BY DEF Msg
  <2> HIDE DEF m
  <2>2. \A k \in Maps : setup.loc[k] = "src" /\ r.pending[k] =>
            n.pending[k] \/ (k = s /\ k \in setup.scope[k] /\ r.sending[k])
    OBVIOUS
  <2>3. \A i \in Holding(r, 1) : \/ r.entry[1][i].gid \notin Ended(Line(w, r))
                                 \/ /\ s # 1 \/ m.val # Release \/ Quiet(n, r)
                                    /\ r.entry[1][i].gid \notin Ended(Line(w, n))
    BY <1>8
  <2>4. s = 1 /\ ~ Quiet(n, r) => m.gid[2] <= r.gids /\ m.gid \notin Ended(Line(w, n))
    OBVIOUS
  <2> QED BY <1>1, <2>1, <2>2, <2>3, <2>4, SoundKept
<1>10. Holding(r, s) # {} /\ GidOf(r, s) = g
  <2>1. Holder(r, s) = h
    BY <1>2 DEF Holder
  <2> QED BY <1>2, <2>1 DEF GidOf
<1> QED BY <1>4, <1>5, <1>6, <1>9, <1>10 DEF Nearly

\* A value of the instance that signal s holds.
LEMMA ValueKeeps ==
    ASSUME setup \in Setups, NEW w, NEW n, NEW K, Nearly(w, n, K), NEW s \in Sigs,
           Holding(n, s) # {}, NEW v, Of(v, GidOf(n, s)), NEW r \in Net,
           r.entry = n.entry, r.slot = n.slot, r.pending = n.pending, r.muted = n.muted,
           Quiet(n, r), r.gids = n.gids, r.val = [n.val EXCEPT ![s] = v]
    PROVE  Nearly(w, r, K) /\ Holding(r, s) # {} /\ GidOf(r, s) = GidOf(n, s)
<1>1. /\ n \in Net /\ Single(n) /\ Used(n) /\ Owned(n, K) /\ Sound(w, n)
      /\ n.val \in [Sigs -> {NoVal, Zero} \cup Val]
  BY DEF Nearly, Sound, Net
<1>2. \A t \in Sigs : Holding(r, t) = Holding(n, t) /\ Entries(r, t) = Entries(n, t)
  BY DEF Holding, Entries
<1>3. 1 \in Sigs /\ \A k \in Maps : Side(k) \in Sigs
  BY DEF Sigs, Side, Maps
<1>4. Single(r) /\ Used(r)
  BY <1>1, <1>2, <1>3 DEF Single, Used
<1>5. Owned(r, K)
  <2>1. \A t \in Sigs : \A i \in Holding(r, t) : r.val[t] # NoVal => Of(r.val[t], r.entry[t][i].gid)
    <3> SUFFICES ASSUME NEW t \in Sigs, NEW i \in Holding(r, t), r.val[t] # NoVal
                 PROVE  Of(r.val[t], r.entry[t][i].gid)
      OBVIOUS
    <3>1. CASE t = s
      <4>1. GidOf(n, s) = n.entry[s][i].gid
        BY <1>1, <1>2, <3>1, Holders
      <4> QED BY <1>1, <3>1, <4>1
    <3>2. CASE t # s
      BY <1>1, <1>2, <3>2 DEF Owned
    <3> QED BY <3>1, <3>2
  <2> QED BY <1>1, <1>2, <1>3, <2>1 DEF Owned
<1>6. Sound(w, r)
  <2>1. Scoped(r) /\ Flagged(r)
    BY <1>1 DEF Sound, Scoped, Flagged, Quiet
  <2>2. Line(w, r) = Line(w, n)
    BY DEF Line, Quiet
  <2>3. Ordered(w, r)
    BY <1>1, <1>2, <1>3, <2>2 DEF Sound, Ordered, Begun
  <2> QED BY <1>1, <2>1, <2>3 DEF Sound
<1>7. Holding(r, s) # {} /\ GidOf(r, s) = GidOf(n, s)
  BY <1>2 DEF GidOf, Holder
<1> QED BY <1>4, <1>5, <1>6, <1>7 DEF Nearly

\* mpr_sig_set_value, behind the flush of a new time.
LEMMA SetKeeps ==
    ASSUME setup \in Setups, Orderly, NEW w, NEW n, Right(w, n), NEW s \in setup.sets,
           NEW r, r = Set(n, s)
    PROVE  Right(w, r)
<1> DEFINE new == Holding(n, s) = {}
           g == IF new THEN <<s, n.gids + 1>> ELSE GidOf(n, s)
           a == Activate(n, s, g)
           b == [a EXCEPT !.gids = @ + 1]
           held == IF new THEN b ELSE n
           v == <<g, n.sets + 1>>
           m == [held EXCEPT !.val[s] = v, !.updated[s] = TRUE, !.sets = @ + 1]
           K == IF new THEN {k \in Maps : Side(k) = s} ELSE {}
<1>1. s \in Sigs /\ s \in {1, 2}
  BY SetupsAssumption DEF Sigs
<1>2. n \in Net /\ n.gids \in Nat /\ n.sets \in Nat /\ Single(n) /\ Used(n)
  BY DEF Right, Nearly, Sound, Net
<1>3. r = ProcessValue(m, s, v)
  BY DEF Set
<1>4. /\ Nearly(w, held, K) /\ Holding(held, s) # {} /\ GidOf(held, s) = g /\ held.sets = n.sets /\ g \in Gid
  <2>1. CASE new
    <3>1. g \in Gid /\ g[1] = s /\ g[2] = n.gids + 1
      BY <1>1, <1>2, <2>1 DEF Gid
    <3> DEFINE h == g
    <3>2. a = Activate(n, s, h) /\ h = g
      BY <2>1
    <3> HIDE DEF g, a, h
    <3>3. Begins(n, a, s, g)
      BY <1>1, <1>2, <2>1, <3>1, <3>2, Activated
    <3>4. a \in Net /\ a.gids = n.gids /\ a.sets = n.sets
      BY <3>3 DEF Begins
    <3>5. b = [a EXCEPT !.gids = n.gids + 1]
      BY <3>4, Shaped
    <3>6. /\ b.entry = a.entry /\ b.val = a.val /\ b.updated = a.updated /\ b.sending = a.sending
          /\ b.slot = a.slot /\ b.pending = a.pending
          /\ b.muted = a.muted /\ b.bundle = a.bundle /\ b.gids = n.gids + 1 /\ b.sets = a.sets
      BY <3>4, <3>5, Shaped
    <3>7. b \in Net
      <4> HIDE DEF b
      <4>1. n.gids + 1 \in Nat
        BY <1>2
      <4> QED BY <3>4, <3>5, <4>1 DEF Net
    <3>8. /\ b.slot = n.slot /\ b.pending = n.pending /\ b.muted = n.muted /\ Quiet(n, b) /\ b.gids >= n.gids
          /\ \A t \in Sigs : t # s => b.val[t] = n.val[t]
          /\ b.val[s] = NoVal \/ Of(b.val[s], g)
          /\ s = 1 => g[1] = 1 /\ n.gids < g[2] /\ g[2] <= b.gids
      <4>1. b.val = [n.val EXCEPT ![s] = NoVal] /\ n.val \in [Sigs -> {NoVal, Zero} \cup Val]
        BY <1>2, <3>3, <3>6 DEF Begins, Net
      <4> HIDE DEF b
      <4>2. b.val[s] = NoVal /\ \A t \in Sigs : t # s => b.val[t] = n.val[t]
        BY <1>1, <4>1
      <4> QED BY <1>2, <3>1, <3>3, <3>6, <4>2 DEF Begins, Quiet
    <3> HIDE DEF b
    <3>9. Nearly(w, b, {k \in Maps : Side(k) = s}) /\ Holding(b, s) # {} /\ GidOf(b, s) = g
      BY <1>1, <2>1, <3>1, <3>3, <3>6, <3>7, <3>8, BeginKeeps
    <3> QED BY <2>1, <3>1, <3>4, <3>6, <3>9
  <2>2. CASE ~ new
    <3>1. g \in Gid
      BY <1>1, <1>2, <2>2, Holders
    <3> QED BY <2>2, <3>1 DEF Right
  <2> QED BY <2>1, <2>2
<1>5. held \in Net
  BY <1>4 DEF Nearly, Sound
<1>6. Of(v, g) /\ Of(v, GidOf(held, s))
  BY <1>2, <1>4 DEF Of, Val
<1>7. K = {} \/ K = {k \in Maps : Side(k) = s}
  OBVIOUS
<1> HIDE DEF g, v, held, K
<1>8. m = [held EXCEPT !.val = [held.val EXCEPT ![s] = v], !.updated = [held.updated EXCEPT ![s] = TRUE],
                       !.sets = held.sets + 1]
  BY <1>5, Shaped
<1>9. /\ [held.val EXCEPT ![s] = v] \in [Sigs -> {NoVal, Zero} \cup Val]
      /\ [held.updated EXCEPT ![s] = TRUE] \in [Sigs -> BOOLEAN] /\ held.sets + 1 \in Nat
  <2>1. /\ held.val \in [Sigs -> {NoVal, Zero} \cup Val] /\ held.updated \in [Sigs -> BOOLEAN]
        /\ held.sets \in Nat
    BY <1>5 DEF Net
  <2>2. v \in {NoVal, Zero} \cup Val
    BY <1>6 DEF Of
  <2>3. [held.val EXCEPT ![s] = v] \in [Sigs -> {NoVal, Zero} \cup Val]
    BY <2>1, <2>2
  <2>4. [held.updated EXCEPT ![s] = TRUE] \in [Sigs -> BOOLEAN]
    BY <2>1
  <2> QED BY <2>1, <2>3, <2>4
<1>10. /\ m.entry = held.entry /\ m.slot = held.slot /\ m.pending = held.pending /\ m.muted = held.muted
       /\ m.sending = held.sending /\ m.bundle = held.bundle /\ m.gids = held.gids
       /\ m.val = [held.val EXCEPT ![s] = v]
  BY <1>5, <1>8, Shaped
<1>11. m \in Net
  BY <1>5, <1>8, <1>9 DEF Net
<1> HIDE DEF m
<1>12. Quiet(held, m)
  BY <1>10 DEF Quiet
<1>13. Nearly(w, m, K) /\ Holding(m, s) # {} /\ GidOf(m, s) = GidOf(held, s)
  BY <1>1, <1>4, <1>6, <1>10, <1>11, <1>12, ValueKeeps
<1>14. \A k \in K : m.pending[k] => k = s /\ setup.loc[k] = "src" /\ InScope(k, GidOf(m, s))
  <2> SUFFICES ASSUME NEW k \in Maps, Side(k) = s, m.pending[k]
               PROVE  k = s /\ setup.loc[k] = "src" /\ InScope(k, GidOf(m, s))
    BY <1>7
  <2>1. setup.loc[k] = "src" /\ k = s
    BY SetupsAssumption DEF Orderly, Side
  <2>2. k = 1 /\ 1 \in Sigs
    BY <2>1 DEF Orderly, Maps, Sigs
  <2>3. 1 \in setup.scope[1]
    BY <1>13, <2>1, <2>2 DEF Nearly, Sound, Scoped
  <2>4. PICK i \in Holding(m, 1) : GidOf(m, 1) = m.entry[1][i].gid
    BY <1>11, <1>13, <2>1, <2>2, Holders DEF Nearly
  <2>5. i \in Entries(m, 1) /\ m.entry[1][i].st # "free"
    BY DEF Holding
  <2>6. GidOf(m, 1)[1] = 1
    BY <1>13, <2>4, <2>5 DEF Nearly, Used
  <2> QED BY <2>1, <2>2, <2>3, <2>6 DEF InScope
<1> QED BY <1>1, <1>3, <1>6, <1>4, <1>13, <1>14, PassKeeps
------------------------------------------------------------------------------
\* A message arrives.

Same(n, r) == r.entry = n.entry /\ r.muted = n.muted /\ r.gids = n.gids /\ Quiet(n, r)

LEMMA DataKeeps ==
    ASSUME NEW w, NEW n, NEW K, Nearly(w, n, K), NEW r \in Net, Same(n, r),
           \A k \in Maps : setup.loc[k] = "src" /\ r.pending[k] => n.pending[k],
           NEW J, Owned(r, J)
    PROVE  Nearly(w, r, J)
<1>1. /\ n \in Net /\ w \in Seq(Seq(Msg)) /\ Single(n) /\ Used(n) /\ Scoped(n) /\ Flagged(n) /\ Ordered(w, n)
  BY DEF Nearly, Sound
<1>2. /\ r.entry = n.entry /\ r.muted = n.muted /\ r.gids = n.gids /\ r.sending = n.sending /\ r.bundle = n.bundle
  BY DEF Same, Quiet
<1>3. \A t \in Sigs : Holding(r, t) = Holding(n, t) /\ Entries(r, t) = Entries(n, t)
  BY <1>2 DEF Holding, Entries
<1>4. 1 \in Sigs /\ 1 \in Maps
  BY DEF Sigs, Maps
<1>5. Single(r) /\ Used(r)
  BY <1>1, <1>2, <1>3, <1>4 DEF Single, Used
<1>6. Scoped(r)
  BY <1>1, <1>2, <1>4 DEF Scoped
<1>7. Flagged(r)
  BY <1>1, <1>2 DEF Flagged
<1>8. Ordered(w, r)
  <2>1. Line(w, r) = Line(w, n)
    BY <1>2 DEF Line
  <2> QED BY <1>1, <1>2, <1>3, <1>4, <2>1 DEF Ordered, Begun
<1> QED BY <1>1, <1>5, <1>6, <1>7, <1>8 DEF Nearly, Sound

\* The slot of a map that is processed at its destination.
LEMMA InputKeeps ==
    ASSUME setup \in Setups, NEW w, NEW n, NEW k \in Maps, setup.loc[k] = "dst",
           NEW K, K \subseteq {k}, Nearly(w, n, K), NEW r \in Net, Same(n, r), r.val = n.val,
           \A j \in Maps : j # k => r.slot[j] = n.slot[j] /\ (r.pending[j] => n.pending[j]),
           \A i \in Holding(n, k + 1) : Of(r.slot[k], n.entry[k + 1][i].gid)
    PROVE  Right(w, r)
<1>1. r.entry = n.entry
  BY DEF Same
<1>2. \A t \in Sigs : Holding(r, t) = Holding(n, t)
  BY <1>1 DEF Holding, Entries
<1>3. Side(k) = k + 1 /\ \A j \in Maps : Side(j) \in Sigs
  BY DEF Side, Sigs, Maps
<1>4. Owned(r, {})
  <2>1. Owned(n, K)
    BY DEF Nearly
  <2>2. \A t \in Sigs : \A i \in Holding(r, t) : r.val[t] # NoVal => Of(r.val[t], r.entry[t][i].gid)
    BY <1>1, <1>2, <2>1 DEF Owned
  <2>3. ASSUME NEW j \in Maps, r.pending[j], NEW i \in Holding(r, Side(j))
        PROVE  Of(r.slot[j], r.entry[Side(j)][i].gid)
    <3>1. CASE j = k
      BY <1>1, <1>2, <1>3, <2>3, <3>1
    <3>2. CASE j # k
      <4>1. j \in Maps \ K /\ n.pending[j] /\ r.slot[j] = n.slot[j]
        BY <2>3, <3>2
      <4>2. i \in Holding(n, Side(j))
        BY <1>2, <1>3, <2>3
      <4> QED BY <1>1, <2>1, <4>1, <4>2 DEF Owned
    <3> QED BY <3>1, <3>2
  <2> QED BY <2>2, <2>3 DEF Owned
<1>5. \A j \in Maps : setup.loc[j] = "src" /\ r.pending[j] => n.pending[j]
  OBVIOUS
<1>6. Nearly(w, r, {})
  BY <1>4, <1>5, DataKeeps
<1> QED BY <1>6 DEF Right

\* A slot is set, and its map will be evaluated.
Mark(n, s, k, v) == [n EXCEPT !.slot[k] = v, !.pending[k] = TRUE, !.receiving[s] = TRUE]
Marked(n, r, k, v) ==
    /\ r \in Net /\ Same(n, r) /\ r.val = n.val /\ r.slot[k] = v
    /\ \A j \in Maps : j # k => r.slot[j] = n.slot[j] /\ r.pending[j] = n.pending[j]

LEMMA Marks ==
    ASSUME NEW n \in Net, NEW s \in Sigs, NEW k \in Maps, NEW v \in Val, NEW r, r = Mark(n, s, k, v)
    PROVE  Marked(n, r, k, v)
<1> DEFINE L == [n.slot EXCEPT ![k] = v]
           P == [n.pending EXCEPT ![k] = TRUE]
           R == [n.receiving EXCEPT ![s] = TRUE]
<1>1. r = [n EXCEPT !.slot = L, !.pending = P, !.receiving = R]
  BY Shaped DEF Mark
<1>2. L \in [Maps -> {Zero} \cup Val] /\ P \in [Maps -> BOOLEAN] /\ R \in [Sigs -> BOOLEAN]
  BY DEF Net
<1>3. L[k] = v /\ \A j \in Maps : j # k => L[j] = n.slot[j] /\ P[j] = n.pending[j]
  BY DEF Net
<1> HIDE DEF L, P, R
<1>4. r \in Net
  BY <1>1, <1>2 DEF Net
<1>5. /\ r.entry = n.entry /\ r.muted = n.muted /\ r.gids = n.gids /\ r.sending = n.sending
      /\ r.bundle = n.bundle /\ r.val = n.val /\ r.slot = L /\ r.pending = P
  BY <1>1, Shaped
<1> QED BY <1>3, <1>4, <1>5 DEF Same, Quiet, Marked

\* The value of the instance that signal s holds arrives.
LEMMA OnValueKeeps ==
    ASSUME setup \in Setups, Orderly, NEW w, NEW n, NEW s \in Sigs, s > 1,
           NEW K, K \subseteq {k \in Maps : Side(k) = s}, Nearly(w, n, K), Holding(n, s) # {},
           NEW v, Of(v, GidOf(n, s)), NEW r, r = OnValue(n, s, v)
    PROVE  Right(w, r)
<1> DEFINE k == s - 1
<1>1. k \in Maps /\ k + 1 = s /\ n \in Net /\ v \in Val
  BY DEF Maps, Sigs, Nearly, Sound, Of
<1>2. \A j \in Maps : Side(j) = s => j = k /\ setup.loc[k] = "dst"
  <2> SUFFICES ASSUME NEW j \in Maps, Side(j) = s
               PROVE  j = k /\ setup.loc[k] = "dst"
    OBVIOUS
  <2>1. CASE setup.loc[j] = "src"
    BY <2>1 DEF Side, Orderly, Maps, Sigs
  <2>2. CASE setup.loc[j] # "src"
    <3>1. j + 1 = s /\ j = k
      BY <1>1, <2>2 DEF Side, Maps
    <3>2. setup.loc[j] \in {"src", "dst"}
      BY SetupsAssumption
    <3> QED BY <2>2, <3>1, <3>2
  <2> QED BY <2>1, <2>2
<1> HIDE DEF k
<1>3. CASE setup.loc[k] = "dst"
  <2>1. r = Mark(n, s, k, v)
    BY <1>3 DEF OnValue, k, Mark
  <2>2. /\ r \in Net /\ Same(n, r) /\ r.val = n.val /\ r.slot[k] = v
        /\ \A j \in Maps : j # k => r.slot[j] = n.slot[j] /\ r.pending[j] = n.pending[j]
    <3>1. Marked(n, r, k, v)
      BY <1>1, <2>1, Marks
    <3> QED BY <3>1 DEF Marked
  <2>3. \A i \in Holding(n, k + 1) : Of(r.slot[k], n.entry[k + 1][i].gid)
    BY <1>1, <2>2, Holders DEF Nearly
  <2>4. K \subseteq {k}
    BY <1>2
  <2>5. \A j \in Maps : j # k => r.slot[j] = n.slot[j] /\ (r.pending[j] => n.pending[j])
    BY <2>2
  <2> QED BY <1>1, <1>3, <2>2, <2>3, <2>4, <2>5, InputKeeps
<1>4. CASE setup.loc[k] # "dst"
  <2> DEFINE a == [n EXCEPT !.val[s] = v]
  <2>1. K = {}
    BY <1>2, <1>4
  <2>2. /\ a \in Net /\ a.entry = n.entry /\ a.slot = n.slot /\ a.pending = n.pending /\ a.muted = n.muted
        /\ Quiet(n, a) /\ a.gids = n.gids /\ a.val = [n.val EXCEPT ![s] = v]
    <3> DEFINE F == [n.val EXCEPT ![s] = v]
    <3>1. a = [n EXCEPT !.val = F]
      BY <1>1, Shaped
    <3>2. F \in [Sigs -> {NoVal, Zero} \cup Val]
      BY <1>1 DEF Net
    <3> HIDE DEF F, a
    <3>3. a \in Net
      BY <1>1, <3>1, <3>2 DEF Net
    <3>4. /\ a.entry = n.entry /\ a.slot = n.slot /\ a.pending = n.pending /\ a.muted = n.muted
          /\ a.sending = n.sending /\ a.bundle = n.bundle /\ a.gids = n.gids /\ a.val = F
      BY <1>1, <3>1, Shaped
    <3> QED BY <3>3, <3>4 DEF Quiet, F
  <2>3. r = IF n.updated[s] THEN a ELSE ProcessValue(a, s, v)
    BY <1>4 DEF OnValue, k
  <2> HIDE DEF a
  <2>4. Nearly(w, a, K) /\ Holding(a, s) # {} /\ GidOf(a, s) = GidOf(n, s)
    BY <2>2, ValueKeeps
  <2>5. CASE n.updated[s]
    BY <2>1, <2>3, <2>4, <2>5 DEF Right
  <2>6. CASE ~ n.updated[s]
    <3>1. r = ProcessValue(a, s, v) /\ Of(v, GidOf(a, s))
      BY <2>3, <2>4, <2>6
    <3>2. \A j \in K : a.pending[j] => j = s /\ setup.loc[j] = "src" /\ InScope(j, GidOf(a, s))
      BY <2>1
    <3> QED BY <2>4, <3>1, <3>2, PassKeeps
  <2> QED BY <2>5, <2>6
<1> QED BY <1>3, <1>4
\* The entry i of signal s becomes x.
Changed(n, s, i, x) == [n EXCEPT !.entry[s][i] = x]
HoldingStates == {"held", "ended"}

LEMMA ChangeKeeps ==
    ASSUME NEW w, NEW n, Right(w, n), NEW s \in Sigs, NEW i \in Entries(n, s), NEW x \in Entry,
           x.st \in HoldingStates <=> n.entry[s][i].st \in HoldingStates,
           x.st = "free" \/ (x.gid = n.entry[s][i].gid /\ n.entry[s][i].st # "free"),
           NEW r, r = Changed(n, s, i, x)
    PROVE  Right(w, r) /\ Holding(r, s) = Holding(n, s) /\ r.slot = n.slot
<1> DEFINE e == n.entry[s]
           F == [e EXCEPT ![i] = x]
           E == [n.entry EXCEPT ![s] = F]
<1>1. /\ n \in Net /\ w \in Seq(Seq(Msg)) /\ Single(n) /\ Used(n) /\ Owned(n, {}) /\ Scoped(n) /\ Flagged(n)
      /\ Ordered(w, n)
  BY DEF Right, Nearly, Sound
<1>2. e \in Seq(Entry) /\ Entries(n, s) = DOMAIN e /\ n.entry \in [Sigs -> Seq(Entry)]
  BY <1>1 DEF Net, Entries
<1>3. r = [n EXCEPT !.entry = E]
  BY <1>1, Shaped DEF Changed
<1>4. F \in Seq(Entry) /\ DOMAIN F = DOMAIN e /\ \A j \in DOMAIN e : F[j] = IF j = i THEN x ELSE e[j]
  BY <1>2
<1> HIDE DEF F
<1>5. E \in [Sigs -> Seq(Entry)] /\ E[s] = F /\ \A t \in Sigs : t # s => E[t] = n.entry[t]
  BY <1>2, <1>4
<1> HIDE DEF E
<1>6. r \in Net
  BY <1>1, <1>3, <1>5 DEF Net
<1>7. /\ r.entry = E /\ r.muted = n.muted /\ r.gids = n.gids /\ r.sending = n.sending
      /\ r.bundle = n.bundle /\ r.val = n.val /\ r.slot = n.slot /\ r.pending = n.pending
  BY <1>1, <1>3, Shaped
<1>8. \A t \in Sigs : /\ Entries(r, t) = Entries(n, t)
                      /\ \A j \in Entries(r, t) : r.entry[t][j] = n.entry[t][j] \/ (t = s /\ j = i /\ r.entry[t][j] = x)
  BY <1>2, <1>4, <1>5, <1>7 DEF Entries
<1>9. \A t \in Sigs : Holding(r, t) = Holding(n, t)
  BY <1>8 DEF Holding, HoldingStates
<1>10. \A t \in Sigs : \A j \in Entries(r, t) : r.entry[t][j].st # "free" =>
           n.entry[t][j].st # "free" /\ r.entry[t][j].gid = n.entry[t][j].gid
  BY <1>8
<1>11. \A t \in Sigs : \A j \in Holding(r, t) : j \in Holding(n, t) /\ r.entry[t][j].gid = n.entry[t][j].gid
  BY <1>9, <1>10 DEF Holding
<1>12. 1 \in Sigs /\ 1 \in Maps /\ \A k \in Maps : Side(k) \in Sigs
  BY DEF Sigs, Maps, Side
<1>13. Single(r) /\ Used(r)
  <2>1. Single(r)
    BY <1>1, <1>9 DEF Single
  <2>2. Used(r)
    BY <1>1, <1>7, <1>8, <1>10, <1>12 DEF Used
  <2> QED BY <2>1, <2>2
<1>14. Owned(r, {})
  BY <1>1, <1>7, <1>11, <1>12 DEF Owned
<1>15. Scoped(r) /\ Flagged(r)
  BY <1>1, <1>7, <1>12 DEF Scoped, Flagged
<1>16. Ordered(w, r)
  <2>1. Line(w, r) = Line(w, n)
    BY <1>7 DEF Line
  <2> QED BY <1>1, <1>7, <1>11, <1>12, <2>1 DEF Ordered, Begun
<1> QED BY <1>1, <1>6, <1>7, <1>9, <1>12, <1>13, <1>14, <1>15, <1>16 DEF Right, Nearly, Sound

\* The release of the instance that signal s holds arrives.
LEMMA OnReleaseKeeps ==
    ASSUME setup \in Setups, Orderly, NEW w, NEW n, Right(w, n), NEW s \in Sigs,
           NEW i \in Holding(n, s), NEW r, r = OnRelease(n, s, i)
    PROVE  Right(w, r)
<1> DEFINE e == n.entry[s][i]
           x == [e EXCEPT !.st = "ended"]
           a == [n EXCEPT !.entry[s][i].st = "ended"]
           done == IF s \in setup.prompt THEN ReleaseInst(a, s) ELSE a
           k == s - 1
<1>1. n \in Net
  BY DEF Right, Nearly, Sound
<1>2. e \in Entry /\ i \in Entries(n, s) /\ e.st \in {"held", "ended"}
  BY <1>1, Holders DEF Holding
<1>3. x \in Entry /\ x.st = "ended" /\ x.gid = e.gid
  BY <1>2 DEF Entry
<1>4. a = Changed(n, s, i, x)
  BY <1>1, Shaped DEF Changed
<1>5. r = IF s > 1 /\ setup.loc[k] = "dst" THEN [done EXCEPT !.slot[k] = Zero] ELSE done
  BY DEF OnRelease
<1> HIDE DEF a, x, e
<1>6. Right(w, a) /\ Holding(a, s) = Holding(n, s)
  BY <1>2, <1>3, <1>4, ChangeKeeps DEF e, HoldingStates
<1>7. Right(w, done) /\ (s \in setup.prompt => Holding(done, s) = {})
  BY <1>6, ReleaseKeeps
<1> HIDE DEF done
<1>8. CASE s > 1 /\ setup.loc[k] = "dst"
  <2>1. k \in Maps /\ k + 1 = s /\ s \in setup.prompt
    BY <1>8 DEF Orderly, Maps, Sigs
  <2> DEFINE L == [done.slot EXCEPT ![k] = Zero]
  <2>2. done \in Net
    BY <1>7 DEF Right, Nearly, Sound
  <2>3. r = [done EXCEPT !.slot = L]
    BY <1>5, <1>8, <2>2, Shaped
  <2>4. L \in [Maps -> {Zero} \cup Val] /\ \A j \in Maps : j # k => L[j] = done.slot[j]
    BY <2>1, <2>2 DEF Net
  <2> HIDE DEF L, k
  <2>5. r \in Net
    BY <2>2, <2>3, <2>4 DEF Net
  <2>6. /\ r.entry = done.entry /\ r.muted = done.muted /\ r.gids = done.gids /\ r.sending = done.sending
        /\ r.bundle = done.bundle /\ r.val = done.val /\ r.slot = L /\ r.pending = done.pending
    BY <2>2, <2>3, Shaped
  <2>7. Same(done, r)
    BY <2>6 DEF Same, Quiet
  <2>8. \A j \in Maps : j # k => r.slot[j] = done.slot[j] /\ (r.pending[j] => done.pending[j])
    BY <2>4, <2>6
  <2>9. \A j \in Holding(done, k + 1) : Of(r.slot[k], done.entry[k + 1][j].gid)
    BY <1>7, <2>1
  <2>10. Nearly(w, done, {}) /\ {} \subseteq {k}
    BY <1>7 DEF Right
  <2> QED BY <1>8, <2>1, <2>5, <2>6, <2>7, <2>8, <2>9, <2>10, InputKeeps
<1>9. CASE ~ (s > 1 /\ setup.loc[k] = "dst")
  BY <1>5, <1>7, <1>9
<1> QED BY <1>8, <1>9

\* mpr_dev_handler.
LEMMA HandlerKeeps ==
    ASSUME setup \in Setups, Orderly, NEW w, NEW n, Right(w, n), NEW s \in Sigs, NEW m \in Msg,
           NEW r, r = Handler(n, s, m)
    PROVE  Right(w, r)
<1> DEFINE found == EntriesOf(n, s, m.gid)
           i == CHOOSE j \in found : \A k \in found : j <= k
           st == IF found = {} THEN "none" ELSE n.entry[s][i].st
           bound == Len(n.entry[s]) < MaxEntries \/ \E j \in Entries(n, s) : n.entry[s][j].st = "free"
<1>1. n \in Net /\ Single(n)
  BY DEF Right, Nearly, Sound
<1>2. m.gid \in Gid /\ (m.val # Release => Of(m.val, m.gid))
  BY DEF Msg, Of
<1>3. found # {} => /\ i \in Entries(n, s) /\ n.entry[s][i].gid = m.gid /\ n.entry[s][i].st # "free"
                    /\ n.entry[s][i] \in Entry
  <2> SUFFICES ASSUME found # {}
               PROVE  /\ i \in Entries(n, s) /\ n.entry[s][i].gid = m.gid /\ n.entry[s][i].st # "free"
                      /\ n.entry[s][i] \in Entry
    OBVIOUS
  <2>1. found \in SUBSET Nat /\ found \subseteq Entries(n, s)
    BY <1>1, Holders DEF EntriesOf
  <2>2. \E j \in found : \A k \in found : j <= k
    BY <2>1, Least
  <2>3. i \in found
    BY <2>2
  <2> HIDE DEF i
  <2>4. i \in Entries(n, s) /\ n.entry[s][i].gid = m.gid /\ n.entry[s][i].st # "free"
    BY <2>3 DEF EntriesOf
  <2> QED BY <1>1, <2>4, Holders
<1>4. \/ /\ m.val # Release /\ s > 1 /\ Holding(n, s) = {}
         /\ r = OnValue(Activate(n, s, m.gid), s, m.val)
      \/ found # {} /\ st = "kept" /\ r = [n EXCEPT !.entry[s][i] = Free]
      \/ found # {} /\ st = "held" /\ r = OnRelease(n, s, i)
      \/ found # {} /\ st = "held" /\ m.val # Release /\ s > 1 /\ r = OnValue(n, s, m.val)
      \/ r = n
  <2> HIDE DEF i, found, bound
  <2>1. r = CASE st = "none" /\ m.val # Release /\ s > 1 /\ Holding(n, s) = {} /\ bound ->
                     OnValue(Activate(n, s, m.gid), s, m.val)
              [] st = "kept" /\ m.val = Release -> [n EXCEPT !.entry[s][i] = Free]
              [] st = "held" /\ m.val = Release -> OnRelease(n, s, i)
              [] st = "held" /\ m.val # Release /\ s > 1 -> OnValue(n, s, m.val)
              [] OTHER -> n
    BY DEF Handler, i, found, bound
  <2>2. st = "kept" \/ st = "held" => found # {}
    OBVIOUS
  <2> HIDE DEF st
  <2> QED BY <2>1, <2>2
<1>5. found # {} => st = n.entry[s][i].st
  OBVIOUS
<1> HIDE DEF i, found, st, bound
<1>6. ASSUME m.val # Release, s > 1, Holding(n, s) = {}, r = OnValue(Activate(n, s, m.gid), s, m.val)
      PROVE  Right(w, r)
  <2> DEFINE a == Activate(n, s, m.gid)
             g == m.gid
             v == m.val
             K == {k \in Maps : Side(k) = s}
  <2>1. a = Activate(n, s, g) /\ g \in Gid /\ r = OnValue(a, s, v) /\ Of(v, g)
    BY <1>2, <1>6
  <2> HIDE DEF a, g, v
  <2>2. Begins(n, a, s, g)
    BY <1>1, <1>6, <2>1, Activated
  <2>3. /\ a \in Net /\ a.slot = n.slot /\ a.pending = n.pending /\ a.muted = n.muted
        /\ a.gids >= n.gids /\ a.val = [n.val EXCEPT ![s] = NoVal] /\ Quiet(n, a)
    BY <1>1, <2>2 DEF Begins, Quiet, Net
  <2>4. n.val \in [Sigs -> {NoVal, Zero} \cup Val]
    BY <1>1 DEF Net
  <2>5. a.val[s] = NoVal /\ \A t \in Sigs : t # s => a.val[t] = n.val[t]
    BY <2>3, <2>4
  <2>6. Nearly(w, a, K) /\ Holding(a, s) # {} /\ GidOf(a, s) = g
    <3>1. PICK c : c = a
      OBVIOUS
    <3>2. /\ c \in Net /\ c.entry = a.entry /\ c.slot = n.slot /\ c.pending = n.pending /\ c.muted = n.muted
          /\ c.gids >= n.gids /\ Quiet(n, c)
          /\ \A t \in Sigs : t # s => c.val[t] = n.val[t]
          /\ c.val[s] = NoVal \/ Of(c.val[s], g)
          /\ s = 1 => g[1] = 1 /\ n.gids < g[2] /\ g[2] <= c.gids
      <4>1. s # 1
        BY <1>6 DEF Sigs
      <4>2. c.val[s] = NoVal /\ \A t \in Sigs : t # s => c.val[t] = n.val[t]
        BY <2>5, <3>1
      <4>3. Quiet(n, c)
        BY <2>3, <3>1
      <4>4. /\ c \in Net /\ c.entry = a.entry /\ c.slot = n.slot /\ c.pending = n.pending /\ c.muted = n.muted
            /\ c.gids >= n.gids
        BY <2>3, <3>1
      <4> QED BY <4>1, <4>2, <4>3, <4>4
    <3>3. g \in Gid /\ s \in Sigs
      BY <2>1
    <3> HIDE DEF K
    <3>4. Nearly(w, c, {k \in Maps : Side(k) = s}) /\ Holding(c, s) # {} /\ GidOf(c, s) = g
      BY <2>2, <3>2, <3>3, BeginKeeps
    <3> QED BY <3>1, <3>4 DEF K
  <2> HIDE DEF K
  <2>7. K \subseteq {k \in Maps : Side(k) = s}
    BY DEF K
  <2> QED BY <1>6, <2>1, <2>6, <2>7, OnValueKeeps
<1>7. ASSUME found # {}, st = "kept", r = [n EXCEPT !.entry[s][i] = Free]
      PROVE  Right(w, r)
  <2>1. r = Changed(n, s, i, Free)
    BY <1>7 DEF Changed
  <2>2. Free \in Entry /\ Free.st = "free" /\ Free.st \notin HoldingStates /\ n.entry[s][i].st \notin HoldingStates
    BY <1>5, <1>7 DEF Free, Entry, HoldingStates
  <2>3. i \in Entries(n, s)
    BY <1>3, <1>7
  <2> DEFINE x == Free
  <2>4. r = Changed(n, s, i, x) /\ x \in Entry /\ x.st = "free" /\ (x.st \in HoldingStates <=> n.entry[s][i].st \in HoldingStates)
    BY <2>1, <2>2
  <2> HIDE DEF x
  <2> QED BY <2>3, <2>4, ChangeKeeps
<1>8. ASSUME found # {}, st = "held"
      PROVE  i \in Holding(n, s) /\ GidOf(n, s) = m.gid
  <2>1. i \in Holding(n, s)
    BY <1>3, <1>5, <1>8 DEF Holding
  <2> QED BY <1>1, <1>3, <1>8, <2>1, Holders
<1>9. ASSUME found # {}, st = "held", r = OnRelease(n, s, i)
      PROVE  Right(w, r)
  BY <1>8, <1>9, OnReleaseKeeps
<1>10. ASSUME found # {}, st = "held", m.val # Release, s > 1, r = OnValue(n, s, m.val)
       PROVE  Right(w, r)
  <2> DEFINE v == m.val
             K == {}
  <2>1. r = OnValue(n, s, v) /\ Of(v, GidOf(n, s)) /\ Holding(n, s) # {}
    BY <1>2, <1>8, <1>10
  <2>2. Nearly(w, n, K) /\ K \subseteq {k \in Maps : Side(k) = s}
    BY DEF Right
  <2> HIDE DEF v, K
  <2> QED BY <1>10, <2>1, <2>2, OnValueKeeps
<1> QED BY <1>4, <1>6, <1>7, <1>9, <1>10
\* HandleAll: a function that is defined by recursion exists.
LEMMA HandledInTurn ==
    ASSUME NEW z, NEW s, NEW b, Len(b) \in Nat
    PROVE  \E f : /\ f[0] = z /\ f[Len(b)] = HandleAll(z, s, b)
                  /\ \A i \in 1 .. Len(b) : f[i] = Handler(f[i - 1], s, b[i])
<1> DEFINE Is(k, g) == g = [i \in 0 .. k |-> IF i = 0 THEN z ELSE Handler(g[i - 1], s, b[i])]
           P == {k \in Nat : \E g : Is(k, g)}
<1>1. 0 \in P
  <2>1. Is(0, [i \in 0 .. 0 |-> z])
    OBVIOUS
  <2> QED BY <2>1
<1>2. ASSUME NEW k \in Nat, k \in P
      PROVE  k + 1 \in P
  <2>1. PICK g : Is(k, g)
    BY <1>2
  <2> DEFINE h == [i \in 0 .. k + 1 |-> IF i = k + 1 THEN Handler(g[k], s, b[i]) ELSE g[i]]
  <2>2. \A i \in 0 .. k + 1 : h[i] = IF i = 0 THEN z ELSE Handler(h[i - 1], s, b[i])
    <3> SUFFICES ASSUME NEW i \in 0 .. k + 1
                 PROVE  h[i] = IF i = 0 THEN z ELSE Handler(h[i - 1], s, b[i])
      OBVIOUS
    <3>1. CASE i = k + 1
      BY <3>1
    <3>2. CASE i # k + 1 /\ i # 0
      <4>1. i \in 0 .. k /\ i - 1 \in 0 .. k /\ i - 1 # k + 1
        BY <3>2
      <4>2. h[i] = g[i] /\ h[i - 1] = g[i - 1]
        BY <4>1
      <4>3. g[i] = Handler(g[i - 1], s, b[i])
        BY <2>1, <3>2, <4>1
      <4> QED BY <3>2, <4>2, <4>3
    <3>3. CASE i = 0
      BY <2>1, <3>3
    <3> QED BY <3>1, <3>2, <3>3
  <2>3. Is(k + 1, h)
    BY <2>2
  <2> HIDE DEF h
  <2> QED BY <2>3
<1>3. Len(b) \in P
  <2> HIDE DEF P
  <2> QED BY <1>1, <1>2, SetInduction
<1> DEFINE f == CHOOSE g : Is(Len(b), g)
<1>4. Is(Len(b), f)
  BY <1>3
<1>5. HandleAll(z, s, b) = f[Len(b)]
  BY DEF HandleAll
<1> HIDE DEF f
<1>6. f[0] = z /\ \A i \in 1 .. Len(b) : f[i] = Handler(f[i - 1], s, b[i])
  BY <1>4
<1> QED BY <1>5, <1>6

LEMMA AllHandled ==
    ASSUME setup \in Setups, Orderly, NEW w, NEW n, Right(w, n), NEW s \in Sigs, NEW b \in Seq(Msg)
    PROVE  Right(w, HandleAll(n, s, b))
<1>1. PICK f : /\ f[0] = n /\ f[Len(b)] = HandleAll(n, s, b)
               /\ \A i \in 1 .. Len(b) : f[i] = Handler(f[i - 1], s, b[i])
  BY HandledInTurn
<1> DEFINE P == {i \in Nat : i <= Len(b) => Right(w, f[i])}
<1>2. 0 \in P
  BY <1>1
<1>3. ASSUME NEW i \in Nat, i \in P
      PROVE  i + 1 \in P
  <2> SUFFICES ASSUME i + 1 <= Len(b)
               PROVE  Right(w, f[i + 1])
    OBVIOUS
  <2>1. i + 1 \in 1 .. Len(b) /\ i <= Len(b) /\ (i + 1) - 1 = i /\ b[i + 1] \in Msg
    OBVIOUS
  <2>2. f[i + 1] = Handler(f[i], s, b[i + 1])
    BY <1>1, <2>1
  <2>3. Right(w, f[i])
    BY <1>3, <2>1
  <2> DEFINE n1 == f[i]
             m == b[i + 1]
             r == f[i + 1]
  <2>4. Right(w, n1) /\ m \in Msg /\ r = Handler(n1, s, m)
    BY <2>1, <2>2, <2>3
  <2> HIDE DEF n1, m, r
  <2>5. Right(w, r)
    BY <2>4, HandlerKeeps
  <2> QED BY <2>5 DEF r
<1> HIDE DEF P
<1>4. \A i \in Nat : i \in P
  BY <1>2, <1>3, SetInduction
<1>5. Len(b) \in Nat
  OBVIOUS
<1> QED BY <1>1, <1>4, <1>5 DEF P

\* The first bundle on a line is taken off it.
LEMMA TailKeeps ==
    ASSUME NEW w, NEW n, Right(w, n), w # <<>>
    PROVE  Right(Tail(w), n)
<1> DEFINE b == n.bundle[Down(1)]
           u == Tail(w)
           a == Append(w, b)
           c == Append(u, b)
<1>1. /\ n \in Net /\ w \in Seq(Seq(Msg)) /\ Single(n) /\ Used(n) /\ Owned(n, {}) /\ Scoped(n) /\ Flagged(n)
      /\ Ordered(w, n)
  BY DEF Right, Nearly, Sound
<1>2. b \in Seq(Msg)
  BY <1>1, SomeLines DEF Net, Maps
<1>3. a = Line(w, n) /\ c = Line(u, n)
  BY DEF Line
<1>4. u \in Seq(Seq(Msg)) /\ Len(u) = Len(w) - 1 /\ Len(w) \in Nat /\ \A i \in 1 .. Len(u) : u[i] = w[i + 1]
  BY <1>1
<1> HIDE DEF b, u
<1>5. /\ Len(a) = Len(w) + 1 /\ Len(c) = Len(u) + 1 /\ DOMAIN a = 1 .. Len(a) /\ DOMAIN c = 1 .. Len(c)
      /\ a[Len(w) + 1] = b /\ c[Len(u) + 1] = b
      /\ (\A i \in 1 .. Len(w) : a[i] = w[i]) /\ (\A i \in 1 .. Len(u) : c[i] = u[i])
  BY <1>1, <1>2, <1>4, AppendProperties
<1> HIDE DEF a, c
<1>6. \A i \in DOMAIN c : i \in Nat /\ i + 1 \in DOMAIN a /\ c[i] = a[i + 1]
  <2> SUFFICES ASSUME NEW i \in DOMAIN c
               PROVE  i \in Nat /\ i + 1 \in DOMAIN a /\ c[i] = a[i + 1]
    OBVIOUS
  <2>1. i \in 1 .. Len(w) /\ Len(u) + 1 = Len(w) /\ i \in Nat /\ i + 1 \in 1 .. Len(w) + 1
    BY <1>4, <1>5
  <2>2. CASE i = Len(w)
    BY <1>5, <2>1, <2>2
  <2>3. CASE i # Len(w)
    <3>1. i \in 1 .. Len(u) /\ i + 1 \in 1 .. Len(w)
      BY <1>4, <2>1, <2>3
    <3> QED BY <1>4, <1>5, <2>1, <3>1
  <2> QED BY <2>2, <2>3
<1>7. InOrder(c)
  <2> SUFFICES ASSUME NEW i \in DOMAIN c, NEW j \in DOMAIN c, NEW p \in DOMAIN c[i], NEW q \in DOMAIN c[j],
                      i < j \/ (i = j /\ p < q), c[i][p].val = Release
               PROVE  c[j][q].gid # c[i][p].gid
    BY DEF InOrder
  <2>1. /\ i + 1 \in DOMAIN a /\ j + 1 \in DOMAIN a /\ c[i] = a[i + 1] /\ c[j] = a[j + 1]
        /\ i + 1 < j + 1 \/ (i + 1 = j + 1 /\ p < q)
    BY <1>6
  <2>2. InOrder(a)
    BY <1>1, <1>3 DEF Ordered
  <2> QED BY <2>1, <2>2 DEF InOrder
<1>8. Ended(c) \subseteq Ended(a)
  BY <1>6 DEF Ended
<1>9. Begun(c, n)
  <2>1. Begun(a, n)
    BY <1>1, <1>3 DEF Ordered
  <2> QED BY <1>6, <2>1 DEF Begun
<1>10. Ordered(u, n)
  BY <1>1, <1>3, <1>7, <1>8, <1>9 DEF Ordered
<1> QED BY <1>1, <1>4, <1>10 DEF Right, Nearly, Sound, u
------------------------------------------------------------------------------
\* A poll evaluates the maps that lead to the device.

Unmark(n, k) == [n EXCEPT !.pending[k] = FALSE]
Unmarked(n, r, k) ==
    /\ r \in Net /\ Same(n, r) /\ r.val = n.val /\ r.slot = n.slot /\ r.updated = n.updated
    /\ \A j \in Maps : r.pending[j] <=> n.pending[j] /\ j # k

LEMMA Unmarks ==
    ASSUME NEW n \in Net, NEW k \in Maps, NEW r, r = Unmark(n, k)
    PROVE  Unmarked(n, r, k)
<1> DEFINE P == [n.pending EXCEPT ![k] = FALSE]
<1>1. r = [n EXCEPT !.pending = P]
  BY Shaped DEF Unmark
<1>2. P \in [Maps -> BOOLEAN] /\ \A j \in Maps : P[j] <=> n.pending[j] /\ j # k
  BY DEF Net
<1> HIDE DEF P
<1>3. r \in Net
  BY <1>1, <1>2 DEF Net
<1>4. /\ r.entry = n.entry /\ r.muted = n.muted /\ r.gids = n.gids /\ r.sending = n.sending
      /\ r.bundle = n.bundle /\ r.val = n.val /\ r.slot = n.slot /\ r.pending = P /\ r.updated = n.updated
  BY <1>1, Shaped
<1> QED BY <1>2, <1>3, <1>4 DEF Same, Quiet, Unmarked

LEMMA UnmarkKeeps ==
    ASSUME setup \in Setups, NEW w, NEW n, Right(w, n), NEW k \in Maps, NEW r, r = Unmark(n, k)
    PROVE  Right(w, r) /\ Unmarked(n, r, k)
<1>1. n \in Net /\ Nearly(w, n, {}) /\ Owned(n, {})
  BY DEF Right, Nearly, Sound
<1>2. Unmarked(n, r, k)
  BY <1>1, Unmarks
<1>3. /\ r \in Net /\ Same(n, r) /\ r.val = n.val /\ r.slot = n.slot /\ r.entry = n.entry
      /\ \A j \in Maps : r.pending[j] => n.pending[j]
  BY <1>2 DEF Unmarked, Same
<1>4. \A t \in Sigs : Holding(r, t) = Holding(n, t)
  BY <1>3 DEF Holding, Entries
<1>5. \A j \in Maps : Side(j) \in Sigs
  BY DEF Side, Maps, Sigs
<1>6. Owned(r, {})
  BY <1>1, <1>3, <1>4, <1>5 DEF Owned
<1>7. \A j \in Maps : setup.loc[j] = "src" /\ r.pending[j] => n.pending[j]
  BY <1>3
<1>8. Nearly(w, r, {})
  BY <1>1, <1>3, <1>6, <1>7, DataKeeps
<1> QED BY <1>2, <1>8 DEF Right

\* Signal s gets the value v, and is marked as updated or not.
Valued(n, r, s, v) ==
    /\ r \in Net /\ r.entry = n.entry /\ r.slot = n.slot /\ r.pending = n.pending /\ r.muted = n.muted
    /\ Quiet(n, r) /\ r.gids = n.gids /\ r.val = [n.val EXCEPT ![s] = v]

LEMMA ValueSet ==
    ASSUME NEW n \in Net, NEW s \in Sigs, NEW v \in Val, NEW U \in [Sigs -> BOOLEAN],
           NEW F, F = [n.val EXCEPT ![s] = v], NEW r, r = [n EXCEPT !.val = F, !.updated = U]
    PROVE  Valued(n, r, s, v)
<1>1. F \in [Sigs -> {NoVal, Zero} \cup Val]
  BY DEF Net
<1>2. r \in Net
  BY <1>1 DEF Net
<1>3. /\ r.entry = n.entry /\ r.slot = n.slot /\ r.pending = n.pending /\ r.muted = n.muted
      /\ r.sending = n.sending /\ r.bundle = n.bundle /\ r.gids = n.gids /\ r.val = F
  BY Shaped
<1> QED BY <1>2, <1>3 DEF Valued, Quiet

LEMMA ReceiveKeeps ==
    ASSUME setup \in Setups, Orderly, NEW w, NEW n, Right(w, n), NEW k \in Maps,
           n.pending[k], setup.loc[k] = "dst", NEW r, r = MapReceive(n, k)
    PROVE  Right(w, r)
<1> DEFINE s == k + 1
           v == n.slot[k]
           a == Unmark(n, k)
           set == [n EXCEPT !.val[s] = v, !.pending[k] = FALSE]
           pass == [set EXCEPT !.updated[s] = TRUE]
<1>1. n \in Net /\ s \in Sigs /\ Single(n) /\ Used(n) /\ Owned(n, {}) /\ Side(k) = s /\ n.updated \in [Sigs -> BOOLEAN]
  BY DEF Right, Nearly, Sound, Maps, Sigs, Side, Net
<1>2. Right(w, a) /\ Unmarked(n, a, k)
  BY UnmarkKeeps
<1>3. CASE Holding(n, s) = {}
  <2>1. r = a
    BY <1>3 DEF MapReceive, Unmark
  <2> QED BY <1>2, <2>1
<1>4. CASE Holding(n, s) # {}
  <2>1. r = IF n.updated[s] THEN set ELSE ProcessValue(pass, s, v)
    BY <1>4 DEF MapReceive
  <2>2. Of(v, GidOf(n, s)) /\ v \in Val
    <3>1. PICK i \in Holding(n, s) : GidOf(n, s) = n.entry[s][i].gid
      BY <1>1, <1>4, Holders
    <3>2. Of(v, GidOf(n, s))
      BY <1>1, <3>1 DEF Owned
    <3> QED BY <3>2 DEF Of
  <2>3. /\ a \in Net /\ a.entry = n.entry /\ a.val = n.val /\ a.updated = n.updated /\ a = [n EXCEPT !.pending = a.pending]
        /\ a.pending = [n.pending EXCEPT ![k] = FALSE]
    <3>1. a = [n EXCEPT !.pending = [n.pending EXCEPT ![k] = FALSE]]
      BY <1>1, Shaped DEF Unmark
    <3>2. a.pending = [n.pending EXCEPT ![k] = FALSE]
      BY <1>1, <3>1, Shaped
    <3> HIDE DEF a
    <3> QED BY <1>2, <3>1, <3>2 DEF Unmarked, Same
  <2>4. Holding(a, s) # {} /\ GidOf(a, s) = GidOf(n, s)
    BY <1>4, <2>3 DEF Holding, Entries, GidOf, Holder
  <2> DEFINE F == [n.val EXCEPT ![s] = v]
             U == [n.updated EXCEPT ![s] = TRUE]
             P == a.pending
  <2>5. /\ set = [n EXCEPT !.val = F, !.pending = P]
        /\ pass = [n EXCEPT !.val = F, !.pending = P, !.updated = U]
    BY <1>1, <2>3, Shaped
  <2>6. U \in [Sigs -> BOOLEAN]
    BY <1>1
  <2> HIDE DEF s, v, set, pass, a
  <2>7. set = [a EXCEPT !.val = F, !.updated = a.updated] /\ pass = [a EXCEPT !.val = F, !.updated = U]
    <3> HIDE DEF F, U
    <3> QED BY <1>1, <2>3, <2>5, Shaped
  <2>8. ASSUME NEW u, Valued(a, u, s, v)
        PROVE  Right(w, u) /\ Holding(u, s) # {} /\ GidOf(u, s) = GidOf(a, s)
    <3>1. Nearly(w, a, {}) /\ Of(v, GidOf(a, s))
      BY <1>2, <2>2, <2>4 DEF Right
    <3>2. Nearly(w, u, {}) /\ Holding(u, s) # {} /\ GidOf(u, s) = GidOf(a, s)
      BY <1>1, <2>4, <2>8, <3>1, ValueKeeps DEF Valued
    <3> QED BY <3>2 DEF Right
  <2>9. Valued(a, set, s, v) /\ Valued(a, pass, s, v)
    <3>1. F = [a.val EXCEPT ![s] = v] /\ a.updated \in [Sigs -> BOOLEAN]
      BY <1>1, <2>3
    <3> HIDE DEF F, U
    <3> QED BY <1>1, <2>2, <2>3, <2>6, <2>7, <3>1, ValueSet
  <2>10. CASE n.updated[s]
    BY <2>1, <2>8, <2>9, <2>10
  <2>11. CASE ~ n.updated[s]
    <3>1. r = ProcessValue(pass, s, v)
      BY <2>1, <2>11
    <3>2. Nearly(w, pass, {}) /\ Holding(pass, s) # {} /\ Of(v, GidOf(pass, s))
      BY <2>2, <2>4, <2>8, <2>9 DEF Right
    <3>3. \A j \in {} : pass.pending[j] => j = s /\ setup.loc[j] = "src" /\ InScope(j, GidOf(pass, s))
      OBVIOUS
    <3> QED BY <1>1, <3>1, <3>2, <3>3, PassKeeps
  <2> QED BY <2>10, <2>11
<1> QED BY <1>3, <1>4

LEMMA VisitKeeps ==
    ASSUME setup \in Setups, Orderly, NEW w, NEW n, Right(w, n), NEW s \in Sigs, NEW k \in Maps,
           NEW r, r = Visit(n, s, k)
    PROVE  Right(w, r)
<1>1. \/ r = n
      \/ n.pending[k] /\ setup.loc[k] = "dst" /\ r = MapReceive(n, k)
      \/ r = Unmark(n, k)
  BY DEF Visit, Unmark
<1> QED BY <1>1, ReceiveKeeps, UnmarkKeeps
------------------------------------------------------------------------------
\* The invariant is inductive.

LEMMA FlagsKeep ==
    ASSUME NEW w, NEW n, Right(w, n), NEW s \in Sigs, NEW r,
           \/ r = [n EXCEPT !.stale[s] = TRUE]
           \/ r = [n EXCEPT !.stale[s] = FALSE]
           \/ r = [n EXCEPT !.receiving[s] = FALSE]
    PROVE  Right(w, r)
<1>1. n \in Net /\ Nearly(w, n, {}) /\ Owned(n, {})
  BY DEF Right, Nearly, Sound
<1>2. PICK S \in [Sigs -> BOOLEAN], R \in [Sigs -> BOOLEAN] : r = [n EXCEPT !.receiving = R, !.stale = S]
  <2>1. n.stale \in [Sigs -> BOOLEAN] /\ n.receiving \in [Sigs -> BOOLEAN]
    BY <1>1 DEF Net
  <2>2. CASE r = [n EXCEPT !.stale[s] = TRUE]
    <3> DEFINE T == [n.stale EXCEPT ![s] = TRUE]
    <3>1. T \in [Sigs -> BOOLEAN]
      BY <2>1
    <3>2. r = [n EXCEPT !.receiving = n.receiving, !.stale = T]
      BY <1>1, <2>2, Shaped
    <3> HIDE DEF T
    <3> QED BY <2>1, <3>1, <3>2
  <2>3. CASE r = [n EXCEPT !.stale[s] = FALSE]
    <3> DEFINE T == [n.stale EXCEPT ![s] = FALSE]
    <3>1. T \in [Sigs -> BOOLEAN]
      BY <2>1
    <3>2. r = [n EXCEPT !.receiving = n.receiving, !.stale = T]
      BY <1>1, <2>3, Shaped
    <3> HIDE DEF T
    <3> QED BY <2>1, <3>1, <3>2
  <2>4. CASE r = [n EXCEPT !.receiving[s] = FALSE]
    <3> DEFINE T == [n.receiving EXCEPT ![s] = FALSE]
    <3>1. T \in [Sigs -> BOOLEAN]
      BY <2>1
    <3>2. r = [n EXCEPT !.receiving = T, !.stale = n.stale]
      BY <1>1, <2>4, Shaped
    <3> HIDE DEF T
    <3> QED BY <2>1, <3>1, <3>2
  <2> QED BY <2>2, <2>3, <2>4
<1>3. r \in Net
  BY <1>1, <1>2 DEF Net
<1>4. /\ r.entry = n.entry /\ r.muted = n.muted /\ r.gids = n.gids /\ r.sending = n.sending
      /\ r.bundle = n.bundle /\ r.val = n.val /\ r.slot = n.slot /\ r.pending = n.pending
  BY <1>1, <1>2, Shaped
<1>5. Same(n, r)
  BY <1>4 DEF Same, Quiet
<1>6. \A t \in Sigs : Holding(r, t) = Holding(n, t)
  BY <1>4 DEF Holding, Entries
<1>7. \A j \in Maps : Side(j) \in Sigs
  BY DEF Side, Maps, Sigs
<1>8. Owned(r, {})
  BY <1>1, <1>4, <1>6, <1>7 DEF Owned
<1>9. \A j \in Maps : setup.loc[j] = "src" /\ r.pending[j] => n.pending[j]
  BY <1>4
<1>10. Nearly(w, r, {})
  BY <1>1, <1>3, <1>5, <1>8, <1>9, DataKeeps
<1> QED BY <1>10 DEF Right

LEMMA MuteKeeps ==
    ASSUME NEW w, NEW n, Right(w, n), NEW k \in Maps, k \in setup.mutes,
           NEW r, r = [n EXCEPT !.muted[k] = ~@]
    PROVE  Right(w, r)
<1> DEFINE M == [n.muted EXCEPT ![k] = ~@]
<1>1. /\ n \in Net /\ w \in Seq(Seq(Msg)) /\ Single(n) /\ Used(n) /\ Owned(n, {}) /\ Scoped(n) /\ Flagged(n)
      /\ Ordered(w, n)
  BY DEF Right, Nearly, Sound
<1>2. n.muted \in [Maps -> BOOLEAN]
  BY <1>1 DEF Net
<1>3. M \in [Maps -> BOOLEAN] /\ \A j \in Maps : j # k => M[j] = n.muted[j]
  BY <1>2
<1>4. r = [n EXCEPT !.muted = M]
  BY <1>1, Shaped
<1> HIDE DEF M
<1>5. r \in Net
  BY <1>1, <1>3, <1>4 DEF Net
<1>6. /\ r.entry = n.entry /\ r.muted = M /\ r.gids = n.gids /\ r.sending = n.sending
      /\ r.bundle = n.bundle /\ r.val = n.val /\ r.slot = n.slot /\ r.pending = n.pending
  BY <1>1, <1>4, Shaped
<1>7. \A t \in Sigs : Holding(r, t) = Holding(n, t) /\ Entries(r, t) = Entries(n, t)
  BY <1>6 DEF Holding, Entries
<1>8. 1 \in Sigs /\ \A j \in Maps : Side(j) \in Sigs
  BY DEF Side, Maps, Sigs
<1>9. Single(r) /\ Used(r)
  <2>1. Single(r)
    BY <1>1, <1>7 DEF Single
  <2>2. Used(r)
    <3>1. r.entry = n.entry /\ r.gids = n.gids /\ Used(n)
      BY <1>1, <1>6
    <3>2. \A t \in Sigs : Entries(r, t) = Entries(n, t)
      BY <1>7
    <3> QED BY <1>8, <3>1, <3>2 DEF Used
  <2> QED BY <2>1, <2>2
<1>10. Owned(r, {})
  BY <1>1, <1>6, <1>7, <1>8 DEF Owned
<1>11. Scoped(r)
  BY <1>1, <1>6 DEF Scoped
<1>12. Flagged(r)
  <2>1. \A j \in Maps : r.muted[j] => j \in setup.mutes
    BY <1>1, <1>3, <1>6 DEF Flagged
  <2> QED BY <1>1, <1>6, <2>1 DEF Flagged
<1>13. Ordered(w, r)
  <2>1. Line(w, r) = Line(w, n)
    BY <1>6 DEF Line
  <2> QED BY <1>1, <1>6, <1>7, <1>8, <2>1 DEF Ordered, Begun
<1> QED BY <1>1, <1>5, <1>9, <1>10, <1>11, <1>12, <1>13 DEF Right, Nearly, Sound

LEMMA Initially ==
    ASSUME Init, Orderly
    PROVE  IInv
<1> DEFINE w == <<>>
<1>1. setup \in Setups /\ wire = [l \in Lines |-> <<>>] /\ Down(1) \in Lines
  BY SomeLines DEF Init, Maps
<1>2. Wired(wire)
  BY <1>1 DEF Wired
<1>3. /\ net.entry = [s \in Sigs |-> <<Free>>] /\ net.val = [s \in Sigs |-> NoVal]
      /\ net.pending = [k \in Maps |-> FALSE] /\ net.muted = [k \in Maps |-> FALSE]
      /\ net.bundle = [l \in Lines |-> <<>>] /\ net.gids = 0
  BY DEF Init
<1>4. net \in Net
  <2>1. Free \in Entry
    BY DEF Free, Entry
  <2>2. <<Free>> \in Seq(Entry)
    BY <2>1
  <2> QED BY <2>2 DEF Net, Init
<1>5. \A s \in Sigs : Entries(net, s) = {1} /\ net.entry[s][1].st = "free" /\ Holding(net, s) = {}
  <2> SUFFICES ASSUME NEW s \in Sigs
               PROVE  Entries(net, s) = {1} /\ net.entry[s][1].st = "free" /\ Holding(net, s) = {}
    OBVIOUS
  <2>1. net.entry[s] = <<Free>>
    BY <1>3
  <2>2. Entries(net, s) = {1}
    BY <2>1 DEF Entries
  <2>3. net.entry[s][1].st = "free"
    BY <2>1 DEF Free
  <2> QED BY <2>2, <2>3 DEF Holding
<1>6. 1 \in Sigs /\ 1 \in Maps /\ \A k \in Maps : Side(k) \in Sigs
  BY DEF Sigs, Maps, Side
<1>7. Single(net) /\ Used(net) /\ Owned(net, {})
  BY <1>3, <1>5, <1>6 DEF Single, Used, Owned
<1>8. Scoped(net) /\ Flagged(net)
  BY <1>3, <1>6 DEF Scoped, Flagged
<1>9. wire[Down(1)] = <<>> /\ net.bundle[Down(1)] = <<>>
  BY <1>1, <1>3
<1>10. Ordered(<<>>, net)
  <2> DEFINE c == Line(<<>>, net)
  <2>1. c = << <<>> >>
    BY <1>9 DEF Line
  <2>2. \A i \in DOMAIN c : DOMAIN c[i] = {}
    BY <2>1
  <2> HIDE DEF c
  <2>3. InOrder(c) /\ Begun(c, net)
    BY <2>2 DEF InOrder, Begun
  <2> QED BY <1>5, <1>6, <2>3 DEF Ordered, c
<1>11. <<>> \in Seq(Seq(Msg))
  OBVIOUS
<1>12. Right(wire[Down(1)], net)
  BY <1>4, <1>7, <1>8, <1>9, <1>10, <1>11 DEF Right, Nearly, Sound
<1> QED BY <1>1, <1>2, <1>12 DEF IInv

\* A step keeps the setup, and leads to the bundles W and the devices n.
LEMMA Primed ==
    ASSUME setup \in Setups, Orderly, setup' = setup, Wired(wire'), Right(wire'[Down(1)], net')
    PROVE  IInv'
BY DEF IInv, Orderly, Wired, Right, Nearly, Sound, Scoped, Flagged, Owned, Side, InScope
LEMMA SetValueKeeps ==
    ASSUME IInv, NEW s \in Sigs, SetValue(s)
    PROVE  IInv'
<1> DEFINE f == IF net.stale[s] THEN Flushed(net, s) ELSE [net |-> net, sent |-> [l \in {} |-> <<>>]]
           n == f.net
           a == [n EXCEPT !.stale[s] = FALSE]
           w == wire'[Down(1)]
           r == net'
<1>1. setup \in Setups /\ Orderly /\ Wired(wire) /\ Right(wire[Down(1)], net)
  BY DEF IInv
<1>2. /\ s \in setup.sets /\ setup' = setup /\ r = Set(a, s)
      /\ wire' = [l \in Lines |-> IF l \in DOMAIN f.sent THEN Append(wire[l], f.sent[l]) ELSE wire[l]]
  BY DEF SetValue, WithFlush
<1>3. Wired(wire') /\ Right(w, n)
  <2>1. CASE net.stale[s]
    <3> DEFINE W == wire
               V == wire'
               m == net
    <3>1. f = Flushed(m, s) /\ Wired(W) /\ Right(W[Down(1)], m)
      BY <1>1, <2>1
    <3>2. V = Joined(W, f.sent)
      BY <1>2 DEF Joined
    <3> HIDE DEF W, V, m, f
    <3>3. Wired(V) /\ Right(V[Down(1)], f.net)
      BY <1>1, <3>1, <3>2, FlushKeeps
    <3> QED BY <3>3 DEF V
  <2>2. CASE ~ net.stale[s]
    <3>1. f.net = net /\ DOMAIN f.sent = {}
      BY <2>2
    <3> HIDE DEF f
    <3>2. wire' = wire
      BY <1>1, <1>2, <3>1 DEF Wired
    <3> QED BY <1>1, <3>1, <3>2
  <2> QED BY <2>1, <2>2
<1> HIDE DEF n, a, w, r
<1>4. Right(w, a)
  BY <1>3, FlagsKeep DEF a
<1>5. Right(w, r)
  BY <1>1, <1>2, <1>4, SetKeeps
<1> QED BY <1>1, <1>2, <1>3, <1>5, Primed DEF w, r

\* A poll, and a new time.
LEMMA FlushStepKeeps ==
    ASSUME IInv, NEW s \in Sigs, NEW f, f = Flushed(net, s), WithFlush(s, f), setup' = setup,
           net' = [f.net EXCEPT !.stale[s] = FALSE] \/ net' = [f.net EXCEPT !.stale[s] = TRUE]
    PROVE  IInv'
<1> DEFINE W == wire
           V == wire'
           m == net
           w == V[Down(1)]
           n == f.net
           r == net'
<1>1. setup \in Setups /\ Orderly /\ Wired(W) /\ Right(W[Down(1)], m) /\ f = Flushed(m, s)
  BY DEF IInv
<1>2. V = Joined(W, f.sent)
  BY DEF WithFlush, Joined
<1> HIDE DEF W, V, m
<1>3. Wired(V) /\ Right(V[Down(1)], f.net)
  BY <1>1, <1>2, FlushKeeps
<1>4. r = [n EXCEPT !.stale[s] = FALSE] \/ r = [n EXCEPT !.stale[s] = TRUE]
  OBVIOUS
<1>5. Right(w, n)
  BY <1>3
<1> HIDE DEF w, n, r
<1>6. Right(w, r)
  BY <1>4, <1>5, FlagsKeep
<1> QED BY <1>1, <1>3, <1>6, Primed DEF w, r, V

LEMMA PollInKeeps ==
    ASSUME IInv, NEW s \in Sigs, PollIn(s)
    PROVE  IInv'
<1> DEFINE w == wire[Down(1)]
           c == net
           n == [c EXCEPT !.receiving[s] = FALSE]
           mine == {s - 1, s} \cap Maps
           r == net'
<1>1. setup \in Setups /\ Orderly /\ Wired(wire) /\ Right(w, c)
  BY DEF IInv
<1>2. PICK first \in mine :
          r = IF mine \ {first} = {} THEN Visit(n, s, first)
              ELSE Visit(Visit(n, s, first), s, CHOOSE k \in mine \ {first} : TRUE)
  BY DEF PollIn
<1>3. setup' = setup /\ wire' = wire
  BY DEF PollIn
<1> HIDE DEF w, c, r
<1>4. Right(w, n)
  <2> DEFINE z == n
  <2>1. z = [c EXCEPT !.receiving[s] = FALSE]
    OBVIOUS
  <2> HIDE DEF z, n
  <2>2. Right(w, z)
    BY <1>1, <2>1, FlagsKeep
  <2> QED BY <2>2 DEF z
<1> HIDE DEF n
<1> DEFINE m == Visit(n, s, first)
<1>5. Right(w, m)
  BY <1>1, <1>4, VisitKeeps
<1>6. CASE mine \ {first} = {}
  BY <1>1, <1>2, <1>3, <1>5, <1>6, Primed DEF w, r
<1>7. CASE mine \ {first} # {}
  <2> DEFINE k == CHOOSE k \in mine \ {first} : TRUE
  <2>1. k \in Maps /\ r = Visit(m, s, k)
    BY <1>2, <1>7
  <2> HIDE DEF k, m
  <2>2. Right(w, r)
    BY <1>1, <1>5, <2>1, VisitKeeps
  <2> QED BY <1>1, <1>3, <2>2, Primed DEF w, r
<1> QED BY <1>6, <1>7

LEMMA RecvKeeps ==
    ASSUME IInv, NEW l \in Lines, Recv(l)
    PROVE  IInv'
<1> DEFINE w == wire[Down(1)]
           n == net
           b == Head(wire[l])
           s == To(l)
           r == net'
<1>1. setup \in Setups /\ Orderly /\ Wired(wire) /\ Right(w, n)
  BY DEF IInv
<1>2. wire[l] # <<>> /\ r = HandleAll(n, s, b) /\ wire' = [wire EXCEPT ![l] = Tail(@)] /\ setup' = setup
  BY DEF Recv
<1>3. wire \in [Lines -> Seq(Seq(Msg))] /\ wire[l] \in Seq(Seq(Msg)) /\ Down(1) \in Lines
  BY <1>1, SomeLines DEF Wired, Maps
<1>4. b \in Seq(Msg) /\ s \in Sigs
  BY <1>2, <1>3, SomeLines
<1> HIDE DEF w, n, b, s, r
<1>5. Right(w, r)
  BY <1>1, <1>2, <1>4, AllHandled
<1>6. Right(wire'[Down(1)], r)
  <2>1. CASE l = Down(1)
    <3>1. wire'[Down(1)] = Tail(w) /\ w # <<>>
      BY <1>2, <1>3, <2>1 DEF w
    <3> QED BY <1>5, <3>1, TailKeeps
  <2>2. CASE l # Down(1)
    <3>1. wire'[Down(1)] = w
      BY <1>2, <1>3, <2>2 DEF w
    <3> QED BY <1>5, <3>1
  <2> QED BY <2>1, <2>2
<1>7. Wired(wire')
  <2> DEFINE u == Tail(wire[l])
  <2>1. u \in Seq(Seq(Msg)) /\ \A i \in DOMAIN u : i + 1 \in DOMAIN wire[l] /\ u[i] = wire[l][i + 1]
    BY <1>2, <1>3
  <2>2. wire'[l] = u /\ \A k \in Lines : k # l => wire'[k] = wire[k]
    BY <1>2, <1>3
  <2>3. wire' \in [Lines -> Seq(Seq(Msg))]
    BY <1>2, <1>3, <2>1
  <2> HIDE DEF u
  <2>4. ASSUME NEW k \in Lines, NEW i \in DOMAIN wire'[k], NEW p \in DOMAIN wire'[k][i]
        PROVE  InScope(k[1], wire'[k][i][p].gid)
    <3>1. CASE k = l
      <4>1. i + 1 \in DOMAIN wire[l] /\ wire'[k][i] = wire[l][i + 1]
        BY <2>1, <2>2, <2>4, <3>1
      <4> QED BY <1>1, <2>4, <3>1, <4>1 DEF Wired
    <3>2. CASE k # l
      <4>1. wire'[k] = wire[k]
        BY <2>2, <3>2
      <4> QED BY <1>1, <2>4, <4>1 DEF Wired
    <3> QED BY <3>1, <3>2
  <2> QED BY <2>3, <2>4 DEF Wired
<1> QED BY <1>1, <1>2, <1>6, <1>7, Primed DEF r

LEMMA Stepwise == IInv /\ [Next]_vars => IInv'
<1> SUFFICES ASSUME IInv, [Next]_vars
             PROVE  IInv'
  OBVIOUS
<1>1. setup \in Setups /\ Orderly /\ Wired(wire) /\ Right(wire[Down(1)], net)
  BY DEF IInv
<1>2. CASE UNCHANGED vars
  <2>1. setup' = setup /\ Wired(wire') /\ Right(wire'[Down(1)], net')
    BY <1>1, <1>2 DEF vars
  <2> QED BY <1>1, <2>1, Primed
<1>3. ASSUME NEW s \in Sigs, SetValue(s)
      PROVE  IInv'
  BY <1>3, SetValueKeeps
<1>4. ASSUME NEW s \in Sigs, ReleaseValue(s)
      PROVE  IInv'
  <2> DEFINE w == wire[Down(1)]
             n == net
             r == net'
  <2>1. Holding(n, s) # {} /\ r = ReleaseInst(n, s) /\ setup' = setup /\ wire' = wire /\ Right(w, n)
    BY <1>1, <1>4 DEF ReleaseValue
  <2> HIDE DEF w, n, r
  <2>2. Right(w, r)
    BY <1>1, <2>1, ReleaseKeeps
  <2> QED BY <1>1, <2>1, <2>2, Primed DEF w, r
<1>5. ASSUME NEW s \in Sigs, PollOut(s)
      PROVE  IInv'
  BY <1>5, FlushStepKeeps DEF PollOut
<1>6. ASSUME NEW s \in Sigs, PollIn(s)
      PROVE  IInv'
  BY <1>6, PollInKeeps
<1>7. ASSUME NEW s \in Sigs, UpdateMaps(s)
      PROVE  IInv'
  BY <1>7, FlushStepKeeps DEF UpdateMaps
<1>8. ASSUME NEW l \in Lines, Recv(l)
      PROVE  IInv'
  BY <1>8, RecvKeeps
<1>9. ASSUME NEW k \in Maps, Mute(k)
      PROVE  IInv'
  <2> DEFINE w == wire[Down(1)]
             n == net
             r == net'
  <2>1. k \in setup.mutes /\ r = [n EXCEPT !.muted[k] = ~@] /\ setup' = setup /\ wire' = wire /\ Right(w, n)
    BY <1>1, <1>9 DEF Mute
  <2> HIDE DEF w, n, r
  <2>2. Right(w, r)
    BY <2>1, MuteKeeps
  <2> QED BY <1>1, <2>1, <2>2, Primed DEF w, r
<1> QED BY <1>2, <1>3, <1>4, <1>5, <1>6, <1>7, <1>8, <1>9 DEF Next
------------------------------------------------------------------------------
\* What the invariant says.

LEMMA ValuesRight == IInv => SameInstance
<1> SUFFICES ASSUME IInv, NEW s \in Sigs
             PROVE  /\ Cardinality(Holding(net, s)) <= 1
                    /\ Holding(net, s) # {} /\ net.val[s] # NoVal =>
                         net.val[s] # Zero /\ net.val[s][1] = GidOf(net, s)
  BY DEF SameInstance
<1>1. net \in Net /\ Single(net) /\ Used(net) /\ Owned(net, {})
  BY DEF IInv, Right, Nearly, Sound
<1>2. CASE Holding(net, s) = {}
  BY <1>2, FS_EmptySet
<1>3. CASE Holding(net, s) # {}
  <2>1. PICK i \in Holding(net, s) : GidOf(net, s) = net.entry[s][i].gid
    BY <1>1, <1>3, Holders
  <2>2. Holding(net, s) = {i}
    BY <1>1, <2>1 DEF Single
  <2>3. Cardinality(Holding(net, s)) = 1
    BY <2>2, FS_Singleton
  <2>4. net.val[s] # NoVal => Of(net.val[s], GidOf(net, s))
    BY <1>1, <2>1 DEF Owned
  <2> QED BY <2>3, <2>4, ValuesDiffer DEF Of
<1> QED BY <1>2, <1>3

LEMMA LinesRight == IInv => BundlesRight
<1> SUFFICES ASSUME IInv
             PROVE  BundlesRight
  OBVIOUS
<1>1. Flagged(net) /\ Ordered(wire[Down(1)], net)
  BY DEF IInv, Right, Nearly, Sound
<1>2. NothingAfterRelease
  <2>1. InOrder(Parts(Down(1)))
    BY <1>1 DEF Ordered, Line, Parts
  <2> QED BY <2>1 DEF NothingAfterRelease, InOrder
<1>3. PendingIsFlagged
  <2> SUFFICES ASSUME NEW s \in Sigs,
                      \/ \E l \in Lines : From(l) = s /\ net.bundle[l] # <<>>
                      \/ s \in Maps \ setup.mutes /\ setup.loc[s] = "src" /\ net.pending[s]
               PROVE  net.sending[s]
    BY DEF PendingIsFlagged
  <2> QED BY <1>1 DEF Flagged
<1> QED BY <1>2, <1>3 DEF BundlesRight

\* Where the maps are processed in order, a device never takes the value of an instance
\* for a value of the next one in its place, or the zero of a slot that was reset for a
\* value: whatever is sent, evaluated and released, by however many instances.
THEOREM ValuesOfTheirInstance == Spec /\ Orderly => []SameInstance
<1>1. Init /\ Orderly => IInv
  BY Initially
<1>2. IInv /\ [Next]_vars => IInv'
  BY Stepwise
<1>3. IInv => SameInstance
  BY ValuesRight
<1> QED BY <1>1, <1>2, <1>3, PTL DEF Spec

\* Where the maps are processed in order, no value follows the release of its instance
\* on the line of map 1, although mpr_rtr_process_sig writes the release at once
\* and the poll writes the update that was pending (mpr_map_send), and a bundle or an
\* update that waits is flagged for the next poll (dev->sending).
THEOREM BundlesInOrder == Spec /\ Orderly => []BundlesRight
<1>1. Init /\ Orderly => IInv
  BY Initially
<1>2. IInv /\ [Next]_vars => IInv'
  BY Stepwise
<1>3. IInv => BundlesRight
  BY LinesRight
<1> QED BY <1>1, <1>2, <1>3, PTL DEF Spec

=============================================================================
