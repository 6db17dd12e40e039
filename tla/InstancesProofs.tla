--------------------------- MODULE InstancesProofs ---------------------------
(***************************************************************************)
(* Theorems about Instances, for any signals and any number of instances,  *)
(* id maps and senders: the counters of the id maps are exact, an instance *)
(* has one owner, and what the application released does not come back.    *)
(* First what the operators of Instances do to the id maps and the signals *)
(* of a device: its inductive invariant in named parts, the memory of the  *)
(* id maps, the counting of references, a claim and the instances' order;  *)
(* then that each function on the device keeps it.                         *)
(***************************************************************************)
EXTENDS Instances, FiniteSetTheorems, SequenceTheorems, TLAPS

\* Nothing is freed while the device is in use, and only signals without instances are
\* updated without a global id.
Regular ==
    /\ setup.remove = "never"
    /\ setup.direct \subseteq setup.plain

Entry == [map : Int, inst : Int, rl : BOOLEAN, rr : BOOLEAN, by : {"app", "net"}]
Id == Nat \cup {DefaultId}
IdMap == [lid : Id, gid : Nat, lref : Nat, gref : Nat]
Inst == [id : Id, active : BOOLEAN]
Places(s) == 1 .. Cardinality(InstIds(s))

Shaped(d) ==
    d = [inst |-> d.inst, order |-> d.order, entry |-> d.entry, map |-> d.map,
         active |-> d.active, reserve |-> d.reserve, count |-> d.count]

\* The memory of the id maps: each is in one list at most, and once.
Distinct(a) == \A i, j \in DOMAIN a : a[i] = a[j] => i = j
Tables(d) ==
    /\ d.map \in Seq(IdMap) /\ d.count \in Nat
    /\ d.active \in Seq(DOMAIN d.map) /\ d.reserve \in Seq(DOMAIN d.map)
    /\ Distinct(d.active) /\ Distinct(d.reserve)
    /\ InUse(d) \cap Range(d.reserve) = {}

Signals(d) ==
    /\ d.inst = [s \in Sigs |-> d.inst[s]]
    /\ \A s \in Sigs : d.inst[s] \in [Places(s) -> Inst]
    /\ d.entry \in [Sigs -> Seq(Entry)]

\* The device hands out new global ids, and has one id map for each.
Named(d) ==
    /\ \A m, n \in InUse(d) : d.map[m].gid = d.map[n].gid => m = n
    /\ \A m \in InUse(d) : d.map[m].gid <= MaxGid => d.map[m].gid <= d.count

Counted(d) ==
    \A m \in InUse(d) :
        /\ Uses(d, m) # {} /\ IsFiniteSet(Uses(d, m))
        /\ d.map[m].lref = Cardinality(Holding(d, m))
        /\ d.map[m].gref = Cardinality(Awaiting(d, m))

\* What an entry of signal s refers to.
Kept(d, s, x) ==
    /\ x.map \in InUse(d) \cup {None}
    /\ x.inst \in Places(s) \cup {None}
    /\ x.inst # None => x.map # None
    /\ x.rl <=> x.map # None /\ x.inst = None
    /\ x.rl => s \in setup.inputs /\ ~ Plain(s) /\ x.by = "net" /\ ~ x.rr
    /\ x.map # None /\ x.by = "net" =>
           s \in setup.inputs /\ d.map[x.map].gid \in setup.senders[s]
    /\ x.map # None /\ x.by = "app" => s \in setup.outputs \cup setup.direct

\* A global id has one entry of an input; a plain signal has one entry.
Alone(d, s) ==
    IF Plain(s) THEN Len(d.entry[s]) = 1
    ELSE s \in setup.inputs =>
             \A i, j \in Entries(d, s) :
                 d.entry[s][i].map # None /\ d.entry[s][j].map # None
                 /\ GidAt(d, s, i) = GidAt(d, s, j) => i = j

\* An active instance has one entry.
Owned(d, s) ==
    /\ \A k \in Places(s) : d.inst[s][k].active <=> \E i \in Entries(d, s) : d.entry[s][i].inst = k
    /\ \A i, j \in Entries(d, s) :
           d.entry[s][i].inst = d.entry[s][j].inst => d.entry[s][i].inst = None \/ i = j

\* The ids of the instances differ, and those of an output are the local ids.
Labelled(d, s) ==
    /\ \A j, k \in Places(s) : d.inst[s][j].id = d.inst[s][k].id => j = k
    /\ s \in setup.outputs /\ ~ Plain(s) =>
           \A n \in InstIds(s) : \E k \in Places(s) : d.inst[s][k].id = n
    /\ s \in setup.outputs => \A i \in Entries(d, s) :
           d.entry[s][i].inst # None =>
               d.map[d.entry[s][i].map].lid =
                   IF Plain(s) THEN DefaultId ELSE d.inst[s][d.entry[s][i].inst].id

SigRight(d, s) ==
    /\ \A i \in Entries(d, s) : Kept(d, s, d.entry[s][i])
    /\ Alone(d, s) /\ Owned(d, s) /\ Labelled(d, s)

Right(d) ==
    /\ Shaped(d) /\ Tables(d) /\ Signals(d) /\ Named(d) /\ Counted(d)
    /\ \A s \in Sigs : SigRight(d, s)

\* What the application has released waits for its sender.
Over(d, E) ==
    \A e \in E : /\ e \in Sigs \X Nat
                 /\ \E i \in Entries(d, e[1]) : /\ d.entry[e[1]][i].rl
                                                /\ GidAt(d, e[1], i) = e[2]

IInv == setup \in Setups /\ Regular /\ Right(dev) /\ Over(dev, ended)

\* All this ends when a reference is lent, see Lends.
UntilLent == setup \in Setups /\ Regular /\ (lent \/ IInv)

------------------------------------------------------------------------------
\* The least of a set, and sequences.

LEMMA LeastElement ==
    ASSUME NEW S \in SUBSET Nat, S # {}
    PROVE  \E m \in S : \A k \in S : m <= k
<1>1. \E m \in S : \A k \in S : ~ (<<k, m>> \in OpToRel(<, Nat))
  BY NatLessThanWellFounded, WFMin
<1>2. PICK m \in S : \A k \in S : ~ (<<k, m>> \in OpToRel(<, Nat))
  BY <1>1
<1>3. ASSUME NEW k \in S PROVE m <= k
  <2>1. <<k, m>> \in OpToRel(<, Nat) <=> k < m
    BY DEF OpToRel
  <2>2. ~ (k < m)
    BY <1>2, <2>1
  <2> QED BY <2>2
<1> QED BY <1>3

LEMMA LeastIs ==
    ASSUME NEW S \in SUBSET Nat, S # {}
    PROVE  Least(S) \in S /\ \A j \in S : Least(S) <= j
BY LeastElement DEF Least

LEMMA FirstIs ==
    ASSUME NEW S \in SUBSET Nat
    PROVE  /\ S = {} => First(S) = None
           /\ S # {} => First(S) \in S
           /\ First(S) \in S \cup {None}
           /\ First(S) = None <=> S = {}
<1>1. CASE S = {}
  BY <1>1 DEF First
<1>2. CASE S # {}
  <2>1. First(S) \in S
    BY <1>2, LeastIs DEF First
  <2>2. First(S) # None
    BY <2>1 DEF None
  <2> QED BY <1>2, <2>1, <2>2
<1> QED BY <1>1, <1>2

\* Lists whose elements differ: one is taken out, or put in front.

\* b is a, which has n elements, without the one at p.
TakesOut(a, n, p, b) ==
    /\ DOMAIN a = 1 .. n /\ DOMAIN b = 1 .. n - 1
    /\ \A i \in 1 .. n - 1 : b[i] = IF i < p THEN a[i] ELSE a[i + 1]

LEMMA TakenOut ==
    ASSUME NEW a, NEW n \in Nat, NEW p \in 1 .. n, NEW b, TakesOut(a, n, p, b), Distinct(a)
    PROVE  Distinct(b) /\ Range(b) = Range(a) \ {a[p]}
<1> DEFINE at(i) == IF i < p THEN i ELSE i + 1
<1>1. ASSUME NEW i \in 1 .. n - 1
      PROVE  at(i) \in 1 .. n /\ at(i) # p /\ b[i] = a[at(i)]
  BY DEF TakesOut
<1>2. \A i, j \in 1 .. n - 1 : at(i) = at(j) => i = j
  OBVIOUS
<1>3. ASSUME NEW i \in 1 .. n, i # p PROVE \E j \in 1 .. n - 1 : at(j) = i
  <2>1. CASE i < p
    <3>1. i \in 1 .. n - 1 /\ at(i) = i
      BY <2>1
    <3> QED BY <3>1
  <2>2. CASE p < i
    <3>1. i - 1 \in 1 .. n - 1 /\ at(i - 1) = i
      BY <2>2
    <3> QED BY <3>1
  <2> QED BY <1>3, <2>1, <2>2
<1> HIDE DEF at
<1>4. Distinct(b)
  BY <1>1, <1>2 DEF Distinct, TakesOut
<1>5. \A y \in Range(b) : y \in Range(a) \ {a[p]}
  BY <1>1 DEF Distinct, TakesOut, Range
<1>6. ASSUME NEW y \in Range(a), y # a[p] PROVE y \in Range(b)
  <2>1. PICK i \in 1 .. n : y = a[i]
    BY DEF Range, TakesOut
  <2>2. PICK j \in 1 .. n - 1 : at(j) = i
    BY <1>3, <1>6, <2>1
  <2> QED BY <1>1, <2>1, <2>2 DEF Range, TakesOut
<1> QED BY <1>4, <1>5, <1>6

LEMMA Without ==
    ASSUME NEW S, NEW a \in Seq(S), NEW p \in 1 .. Len(a), Distinct(a)
    PROVE  LET b == SubSeq(a, 1, p - 1) \o SubSeq(a, p + 1, Len(a))
           IN  b \in Seq(S) /\ Distinct(b) /\ Range(b) = Range(a) \ {a[p]}
<1> DEFINE f == SubSeq(a, 1, p - 1)
           g == SubSeq(a, p + 1, Len(a))
           b == f \o g
<1>1. /\ Len(a) \in Nat /\ p \in Nat /\ p <= Len(a)
      /\ a \in [1 .. Len(a) -> S] /\ DOMAIN a = 1 .. Len(a)
  BY LenProperties
<1>2. f \in Seq(S) /\ Len(f) = p - 1 /\ \A i \in 1 .. p - 1 : f[i] = a[i]
  BY <1>1, SubSeqProperties
<1>3. g \in Seq(S) /\ Len(g) = Len(a) - p /\ \A i \in 1 .. Len(a) - p : g[i] = a[p + i]
  <2>1. p + 1 \in Int /\ Len(a) \in Int /\ \A i \in p + 1 .. Len(a) : a[i] \in S
    BY <1>1
  <2>2. /\ g \in Seq(S) /\ Len(g) = IF p + 1 <= Len(a) THEN Len(a) - (p + 1) + 1 ELSE 0
        /\ \A i \in 1 .. Len(a) - (p + 1) + 1 : g[i] = a[p + 1 + i - 1]
    BY <2>1, SubSeqProperties
  <2>3. \A n \in Nat, q \in Nat : q <= n => n - (q + 1) + 1 = n - q /\ (~ (q + 1 <= n) => n - q = 0)
    OBVIOUS
  <2>4. \A i \in 1 .. Len(a) - p : p + 1 + i - 1 = p + i
    BY <1>1
  <2>5. Len(a) - (p + 1) + 1 = Len(a) - p /\ (~ (p + 1 <= Len(a)) => Len(a) - p = 0)
    BY <1>1, <2>3
  <2> QED BY <2>2, <2>4, <2>5
<1> HIDE DEF f, g
<1>4. /\ b \in Seq(S) /\ Len(b) = Len(a) - 1
      /\ \A i \in 1 .. Len(a) - 1 : b[i] = IF i <= p - 1 THEN f[i] ELSE g[i - (p - 1)]
  <2>1. Len(f) + Len(g) = Len(a) - 1
    BY <1>1, <1>2, <1>3
  <2>2. /\ b \in Seq(S) /\ Len(b) = Len(f) + Len(g)
        /\ \A i \in 1 .. Len(f) + Len(g) : b[i] = IF i <= Len(f) THEN f[i] ELSE g[i - Len(f)]
    BY <1>2, <1>3, ConcatProperties
  <2> QED BY <1>2, <2>1, <2>2
<1>5. DOMAIN b = 1 .. Len(a) - 1
  BY <1>4, LenProperties
<1> HIDE DEF b
<1>6. ASSUME NEW i \in 1 .. Len(a) - 1 PROVE b[i] = IF i < p THEN a[i] ELSE a[i + 1]
  <2>1. CASE i < p
    <3>1. i <= p - 1 /\ i \in 1 .. p - 1
      BY <1>1, <2>1
    <3> QED BY <1>2, <1>4, <2>1, <3>1
  <2>2. CASE ~ (i < p)
    <3>1. ~ (i <= p - 1) /\ i - (p - 1) \in 1 .. Len(a) - p /\ p + (i - (p - 1)) = i + 1
      BY <1>1, <2>2
    <3> QED BY <1>3, <1>4, <2>2, <3>1
  <2> QED BY <2>1, <2>2
<1>7. Distinct(b) /\ Range(b) = Range(a) \ {a[p]}
  <2>1. TakesOut(a, Len(a), p, b)
    BY <1>1, <1>5, <1>6 DEF TakesOut
  <2> QED BY <1>1, <2>1, TakenOut
<1>8. b \in Seq(S) /\ Distinct(b) /\ Range(b) = Range(a) \ {a[p]}
  BY <1>4, <1>7
<1> QED BY <1>8 DEF b, f, g

LEMMA PutInFront ==
    ASSUME NEW S, NEW a \in Seq(S), NEW m \in S, Distinct(a), m \notin Range(a)
    PROVE  LET b == <<m>> \o a
           IN  b \in Seq(S) /\ b[1] = m /\ Distinct(b) /\ Range(b) = Range(a) \cup {m}
<1> DEFINE b == <<m>> \o a
<1>1. <<m>> \in Seq(S) /\ Len(<<m>>) = 1 /\ <<m>>[1] = m
  OBVIOUS
<1>2. Len(a) \in Nat /\ DOMAIN a = 1 .. Len(a)
  BY LenProperties
<1>3. /\ b \in Seq(S) /\ Len(b) = Len(a) + 1
      /\ \A i \in 1 .. Len(a) + 1 : b[i] = IF i <= 1 THEN <<m>>[i] ELSE a[i - 1]
  <2>1. 1 + Len(a) = Len(a) + 1
    BY <1>2
  <2>2. /\ b \in Seq(S) /\ Len(b) = 1 + Len(a)
        /\ \A i \in 1 .. 1 + Len(a) : b[i] = IF i <= 1 THEN <<m>>[i] ELSE a[i - 1]
    BY <1>1, <1>2, ConcatProperties
  <2> QED BY <2>1, <2>2
<1>4. DOMAIN b = 1 .. Len(a) + 1
  BY <1>3, LenProperties
<1> HIDE DEF b
<1>5. b[1] = m /\ \A i \in 1 .. Len(a) : i + 1 \in DOMAIN b /\ b[i + 1] = a[i]
  <2>1. \A i \in 1 .. Len(a) : i + 1 \in 1 .. Len(a) + 1 /\ ~ (i + 1 <= 1) /\ i + 1 - 1 = i
    BY <1>2
  <2>2. 1 \in 1 .. Len(a) + 1
    BY <1>2
  <2> QED BY <1>1, <1>3, <1>4, <2>1, <2>2
<1>6. \A i \in DOMAIN b : i = 1 \/ (i - 1 \in DOMAIN a /\ b[i] = a[i - 1])
  BY <1>2, <1>3, <1>4
<1>7. Distinct(b)
  <2> SUFFICES ASSUME NEW i \in DOMAIN b, NEW j \in DOMAIN b, b[i] = b[j] PROVE i = j
    BY DEF Distinct
  <2>1. i \in Nat /\ j \in Nat
    BY <1>2, <1>4
  <2>2. \A x \in DOMAIN a : a[x] # m
    BY DEF Range
  <2>3. i - 1 = j - 1 => i = j
    BY <2>1
  <2> QED BY <1>5, <1>6, <2>2, <2>3 DEF Distinct
<1>8. Range(b) \subseteq Range(a) \cup {m}
  BY <1>5, <1>6 DEF Range
<1>9. 1 \in DOMAIN b
  BY <1>2, <1>4
<1>10. Range(a) \cup {m} \subseteq Range(b)
  BY <1>2, <1>5, <1>9 DEF Range
<1>11. b \in Seq(S) /\ b[1] = m /\ Distinct(b) /\ Range(b) = Range(a) \cup {m}
  BY <1>3, <1>5, <1>7, <1>8, <1>10
<1> QED BY <1>11 DEF b

LEMMA Tailed ==
    ASSUME NEW S, NEW a \in Seq(S), a # <<>>, Distinct(a)
    PROVE  /\ Tail(a) \in Seq(S) /\ Distinct(Tail(a))
           /\ a[1] \in S /\ a[1] \in Range(a) /\ Range(Tail(a)) = Range(a) \ {a[1]}
<1> DEFINE b == Tail(a)
<1>1. /\ Len(a) \in Nat /\ Len(a) # 0 /\ a \in [1 .. Len(a) -> S] /\ DOMAIN a = 1 .. Len(a)
  BY LenProperties, EmptySeq
<1>2. b \in Seq(S) /\ Len(b) = Len(a) - 1 /\ \A i \in 1 .. Len(b) : b[i] = a[i + 1]
  BY <1>1, HeadTailProperties
<1>3. DOMAIN b = 1 .. Len(a) - 1
  BY <1>2, LenProperties
<1> HIDE DEF b
<1>4. 1 \in 1 .. Len(a) /\ \A i \in 1 .. Len(a) - 1 : b[i] = IF i < 1 THEN a[i] ELSE a[i + 1]
  BY <1>1, <1>2
<1>5. Distinct(b) /\ Range(b) = Range(a) \ {a[1]}
  <2>1. TakesOut(a, Len(a), 1, b)
    BY <1>1, <1>3, <1>4 DEF TakesOut
  <2> QED BY <1>1, <1>4, <2>1, TakenOut
<1>6. /\ b \in Seq(S) /\ Distinct(b) /\ a[1] \in S /\ a[1] \in Range(a)
      /\ Range(b) = Range(a) \ {a[1]}
  BY <1>1, <1>2, <1>4, <1>5 DEF Range
<1> QED BY <1>6 DEF b

------------------------------------------------------------------------------
\* The memory of the id maps.

LEMMA Memory ==
    ASSUME NEW d, Tables(d)
    PROVE  /\ InUse(d) = Range(d.active)
           /\ \A p \in DOMAIN d.active : d.active[p] \in InUse(d)
           /\ DOMAIN d.active = 1 .. Len(d.active) /\ Len(d.active) \in Nat
           /\ DOMAIN d.map = 1 .. Len(d.map) /\ Len(d.map) \in Nat
           /\ InUse(d) \subseteq DOMAIN d.map /\ Range(d.reserve) \subseteq DOMAIN d.map
           /\ \A m \in DOMAIN d.map : m \in Nat /\ m # None /\ d.map[m] \in IdMap
<1>1. d.map \in Seq(IdMap) /\ d.active \in Seq(DOMAIN d.map) /\ d.reserve \in Seq(DOMAIN d.map)
  BY DEF Tables
<1>2. /\ Len(d.map) \in Nat /\ DOMAIN d.map = 1 .. Len(d.map)
      /\ \A m \in DOMAIN d.map : d.map[m] \in IdMap
  BY <1>1, LenProperties
<1>3. /\ Len(d.active) \in Nat /\ DOMAIN d.active = 1 .. Len(d.active)
      /\ \A p \in DOMAIN d.active : d.active[p] \in DOMAIN d.map
  BY <1>1, LenProperties
<1>4. \A p \in DOMAIN d.reserve : d.reserve[p] \in DOMAIN d.map
  BY <1>1, LenProperties
<1>5. \A m \in 1 .. Len(d.map) : m \in Nat /\ m # None
  BY <1>2 DEF None
<1> QED BY <1>2, <1>3, <1>4, <1>5 DEF InUse, Range

LEMMA NewestIs ==
    ASSUME NEW d, Tables(d), NEW P \in SUBSET DOMAIN d.active
    PROVE  \/ P = {} /\ Newest(d, P) = None
           \/ \E p \in P : Newest(d, P) = d.active[p]
<1>1. P \in SUBSET Nat
  BY Memory
<1> QED BY <1>1, LeastIs DEF Newest

LEMMA ByGIDIs ==
    ASSUME NEW d, Tables(d), NEW g
    PROVE  \/ ByGID(d, g) \in InUse(d) /\ ByGID(d, g) # None /\ d.map[ByGID(d, g)].gid = g
           \/ ByGID(d, g) = None /\ \A m \in InUse(d) : d.map[m].gid # g
<1> DEFINE P == {p \in DOMAIN d.active : d.map[d.active[p]].gid = g}
<1>1. ByGID(d, g) = Newest(d, P)
  BY DEF ByGID
<1>2. \A m \in InUse(d) : \E p \in DOMAIN d.active : m = d.active[p]
  BY DEF InUse
<1>3. CASE P = {} /\ Newest(d, P) = None
  BY <1>1, <1>2, <1>3
<1>4. CASE \E p \in P : Newest(d, P) = d.active[p]
  BY <1>1, <1>4, Memory
<1> QED BY <1>3, <1>4, NewestIs

LEMMA ByLIDIs ==
    ASSUME NEW d, Tables(d), NEW id
    PROVE  \/ ByLID(d, id) \in InUse(d) /\ ByLID(d, id) # None /\ d.map[ByLID(d, id)].lid = id
           \/ ByLID(d, id) = None
<1> DEFINE P == {p \in DOMAIN d.active : d.map[d.active[p]].lid = id}
<1>1. ByLID(d, id) = Newest(d, P)
  BY DEF ByLID
<1>2. CASE P = {} /\ Newest(d, P) = None
  BY <1>1, <1>2
<1>3. CASE \E p \in P : Newest(d, P) = d.active[p]
  BY <1>1, <1>3, Memory
<1> QED BY <1>2, <1>3, NewestIs

\* mpr_dev_add_idmap: an id map that nobody refers to becomes the first one.
LEMMA Added ==
    ASSUME NEW d, Shaped(d), Tables(d), NEW id \in Id, NEW g \in Nat \cup {None},
           NEW c \in Nat, NEW e, e = AddIdMap(d, id, g, c)
    PROVE  /\ Shaped(e) /\ Tables(e)
           /\ e.inst = d.inst /\ e.entry = d.entry
           /\ e.active[1] \in InUse(e) \ InUse(d) /\ InUse(e) = InUse(d) \cup {e.active[1]}
           /\ \A x \in InUse(d) : e.map[x] = d.map[x]
           /\ e.map[e.active[1]] = [lid |-> id, gid |-> IF g = None THEN d.count + 1 ELSE g,
                                    lref |-> 1, gref |-> c]
           /\ e.count = IF g = None THEN d.count + 1 ELSE d.count
<1> DEFINE m == IF d.reserve = <<>> THEN Len(d.map) + 1 ELSE d.reserve[1]
           r == [lid |-> id, gid |-> IF g = None THEN d.count + 1 ELSE g, lref |-> 1, gref |-> c]
           t == IF m > Len(d.map) THEN Append(d.map, r) ELSE [d.map EXCEPT ![m] = r]
<1>1. /\ e.inst = d.inst /\ e.entry = d.entry /\ Shaped(e)
      /\ e.map = t /\ e.active = <<m>> \o d.active
      /\ e.reserve = IF d.reserve = <<>> THEN d.reserve ELSE Tail(d.reserve)
      /\ e.count = IF g = None THEN d.count + 1 ELSE d.count
  BY DEF AddIdMap, Shaped
<1>2. d.count \in Nat /\ r \in IdMap
  BY DEF Tables, IdMap, None
<1>3. /\ d.map \in Seq(IdMap) /\ d.active \in Seq(DOMAIN d.map) /\ d.reserve \in Seq(DOMAIN d.map)
      /\ Distinct(d.active) /\ Distinct(d.reserve) /\ InUse(d) \cap Range(d.reserve) = {}
  BY DEF Tables
<1>4. Len(d.map) \in Nat /\ DOMAIN d.map = 1 .. Len(d.map) /\ InUse(d) = Range(d.active)
  BY Memory
<1>5. /\ t \in Seq(IdMap) /\ m \in DOMAIN t /\ t[m] = r /\ DOMAIN d.map \subseteq DOMAIN t
      /\ \A x \in InUse(d) : x # m /\ t[x] = d.map[x]
      /\ e.reserve \in Seq(DOMAIN d.map) /\ Distinct(e.reserve)
      /\ m \notin Range(e.reserve) /\ Range(e.reserve) \subseteq Range(d.reserve)
  <2>1. CASE d.reserve = <<>>
    <3>1. m = Len(d.map) + 1 /\ m > Len(d.map) /\ m \notin DOMAIN d.map
      BY <1>4, <2>1
    <3>2. t = Append(d.map, r)
      BY <3>1
    <3>3. /\ t \in Seq(IdMap) /\ Len(t) = Len(d.map) + 1 /\ t[Len(d.map) + 1] = r
          /\ \A i \in 1 .. Len(d.map) : t[i] = d.map[i]
      BY <1>2, <1>3, <3>2, AppendProperties
    <3>4. DOMAIN t = 1 .. Len(d.map) + 1
      BY <3>3, LenProperties
    <3>5. InUse(d) \subseteq DOMAIN d.map /\ Range(d.reserve) \subseteq DOMAIN d.map
      BY Memory
    <3>6. m \in DOMAIN t /\ t[m] = r /\ DOMAIN d.map \subseteq DOMAIN t
      BY <1>4, <2>1, <3>3, <3>4
    <3>7. e.reserve = d.reserve
      BY <1>1, <2>1
    <3> HIDE DEF m, t
    <3>8. \A x \in InUse(d) : x # m /\ t[x] = d.map[x]
      BY <1>4, <3>1, <3>3, <3>5
    <3> QED BY <1>3, <3>1, <3>3, <3>5, <3>6, <3>7, <3>8
  <2>2. CASE d.reserve # <<>>
    <3>1. /\ Tail(d.reserve) \in Seq(DOMAIN d.map) /\ Distinct(Tail(d.reserve))
          /\ d.reserve[1] \in DOMAIN d.map /\ d.reserve[1] \in Range(d.reserve)
          /\ Range(Tail(d.reserve)) = Range(d.reserve) \ {d.reserve[1]}
      BY <1>3, <2>2, Tailed
    <3>2. m = d.reserve[1] /\ m \in DOMAIN d.map /\ ~ (m > Len(d.map))
      BY <1>4, <2>2, <3>1
    <3>3. t = [d.map EXCEPT ![m] = r]
      BY <3>2
    <3>4. t \in Seq(IdMap) /\ DOMAIN t = DOMAIN d.map
      BY <1>2, <1>3, <1>4, <3>2, <3>3, ExceptSeq
    <3>5. \A x \in DOMAIN d.map : t[x] = IF x = m THEN r ELSE d.map[x]
      BY <3>3
    <3>6. e.reserve = Tail(d.reserve)
      BY <1>1, <2>2
    <3>7. InUse(d) \subseteq DOMAIN d.map
      BY Memory
    <3> HIDE DEF m, t
    <3>8. \A x \in InUse(d) : x # m /\ t[x] = d.map[x]
      BY <1>3, <3>1, <3>2, <3>5, <3>7
    <3> QED BY <3>1, <3>2, <3>4, <3>5, <3>6, <3>8
  <2> QED BY <2>1, <2>2
<1> HIDE DEF m, t, r
<1>6. m \notin Range(d.active)
  BY <1>4, <1>5
<1>7. d.active \in Seq(DOMAIN t) /\ e.reserve \in Seq(DOMAIN t)
  BY <1>3, <1>5, SeqMonotonic
<1>8. /\ e.active \in Seq(DOMAIN t) /\ e.active[1] = m /\ Distinct(e.active)
      /\ Range(e.active) = Range(d.active) \cup {m}
  BY <1>1, <1>3, <1>5, <1>6, <1>7, PutInFront
<1>9. InUse(e) = InUse(d) \cup {m}
  BY <1>4, <1>8 DEF InUse, Range
<1>10. Tables(e)
  <2>1. e.count \in Nat /\ e.map = t
    BY <1>1, <1>2
  <2>2. InUse(e) \cap Range(e.reserve) = {}
    BY <1>3, <1>5, <1>9
  <2> QED BY <1>5, <1>7, <1>8, <2>1, <2>2 DEF Tables
<1> QED BY <1>1, <1>5, <1>8, <1>9, <1>10 DEF r

\* mpr_dev_remove_idmap: the id map changes lists.
LEMMA Removed ==
    ASSUME NEW d, Shaped(d), Tables(d), NEW m \in InUse(d), NEW e, e = RemoveIdMap(d, m)
    PROVE  /\ Shaped(e) /\ Tables(e)
           /\ e.inst = d.inst /\ e.entry = d.entry /\ e.map = d.map /\ e.count = d.count
           /\ InUse(e) = InUse(d) \ {m}
<1> DEFINE Q == {q \in DOMAIN d.active : d.active[q] = m}
           p == First(Q)
           b == SubSeq(d.active, 1, p - 1) \o SubSeq(d.active, p + 1, Len(d.active))
<1>1. /\ d.map \in Seq(IdMap) /\ d.active \in Seq(DOMAIN d.map) /\ d.reserve \in Seq(DOMAIN d.map)
      /\ Distinct(d.active) /\ Distinct(d.reserve) /\ InUse(d) \cap Range(d.reserve) = {}
      /\ d.count \in Nat
  BY DEF Tables
<1>2. /\ InUse(d) = Range(d.active) /\ DOMAIN d.active = 1 .. Len(d.active) /\ Len(d.active) \in Nat
      /\ InUse(d) \subseteq DOMAIN d.map
  BY Memory
<1>3. p \in Q /\ p # None
  <2>1. Q \in SUBSET Nat /\ Q # {}
    BY <1>2 DEF InUse
  <2> QED BY <2>1, FirstIs
<1>4. p \in 1 .. Len(d.active) /\ d.active[p] = m
  BY <1>2, <1>3
<1>5. /\ Shaped(e) /\ e.inst = d.inst /\ e.entry = d.entry /\ e.map = d.map /\ e.count = d.count
      /\ e.active = b /\ e.reserve = <<m>> \o d.reserve
  BY <1>3 DEF RemoveIdMap, Shaped
<1> HIDE DEF p, Q
<1>6. b \in Seq(DOMAIN d.map) /\ Distinct(b) /\ Range(b) = Range(d.active) \ {m}
  BY <1>1, <1>4, Without
<1>7. /\ e.reserve \in Seq(DOMAIN d.map) /\ Distinct(e.reserve)
      /\ Range(e.reserve) = Range(d.reserve) \cup {m}
  <2>1. m \in DOMAIN d.map /\ m \notin Range(d.reserve)
    BY <1>1, <1>2
  <2> DEFINE S == DOMAIN d.map
             a == d.reserve
  <2>2. a \in Seq(S) /\ Distinct(a) /\ m \in S /\ m \notin Range(a)
    BY <1>1, <2>1
  <2> HIDE DEF S, a
  <2>3. LET c == <<m>> \o a
        IN  c \in Seq(S) /\ c[1] = m /\ Distinct(c) /\ Range(c) = Range(a) \cup {m}
    BY <2>2, PutInFront
  <2> QED BY <1>5, <2>3 DEF S, a
<1>8. InUse(e) = Range(b)
  BY <1>5 DEF InUse, Range
<1> HIDE DEF b
<1>9. Tables(e)
  BY <1>1, <1>2, <1>5, <1>6, <1>7, <1>8 DEF Tables
<1> QED BY <1>2, <1>5, <1>6, <1>8, <1>9

\* The counters of one id map change.
LEMMA Recounted ==
    ASSUME NEW d, Shaped(d), Tables(d), NEW m \in DOMAIN d.map, NEW r \in IdMap,
           NEW e, e = [d EXCEPT !.map[m] = r]
    PROVE  /\ Shaped(e) /\ Tables(e)
           /\ e.inst = d.inst /\ e.entry = d.entry /\ e.count = d.count
           /\ DOMAIN e.map = DOMAIN d.map
           /\ \A x \in DOMAIN d.map : e.map[x] = IF x = m THEN r ELSE d.map[x]
           /\ e.active = d.active /\ InUse(e) = InUse(d)
<1>1. /\ Shaped(e) /\ e.inst = d.inst /\ e.entry = d.entry /\ e.count = d.count
      /\ e.active = d.active /\ e.reserve = d.reserve /\ e.map = [d.map EXCEPT ![m] = r]
  BY DEF Shaped
<1>2. d.map \in Seq(IdMap)
  BY DEF Tables
<1>3. m \in 1 .. Len(d.map)
  BY Memory
<1>4. e.map \in Seq(IdMap) /\ DOMAIN e.map = DOMAIN d.map
  BY <1>1, <1>2, <1>3, ExceptSeq
<1>5. \A x \in DOMAIN d.map : e.map[x] = IF x = m THEN r ELSE d.map[x]
  BY <1>1
<1>6. InUse(e) = InUse(d)
  BY <1>1 DEF InUse
<1>7. Tables(e)
  BY <1>1, <1>4, <1>6 DEF Tables
<1> QED BY <1>1, <1>4, <1>5, <1>6, <1>7

\* Id map m of d has the counters l and g in e, and is in use unless both are zero.
Lowered(d, e, m, l, g) ==
    /\ Shaped(e) /\ Tables(e)
    /\ e.inst = d.inst /\ e.entry = d.entry /\ e.count = d.count
    /\ \A x \in InUse(d) \ {m} : e.map[x] = d.map[x]
    /\ e.map[m] = [lid |-> d.map[m].lid, gid |-> d.map[m].gid, lref |-> l, gref |-> g]
    /\ InUse(e) = IF l = 0 /\ g = 0 THEN InUse(d) \ {m} ELSE InUse(d)

LEMMA Decref ==
    ASSUME NEW d, Shaped(d), Tables(d), NEW m \in InUse(d)
    PROVE  /\ Lowered(d, LIDDecref(d, m), m, Less(d.map[m].lref), d.map[m].gref)
           /\ Lowered(d, GIDDecref(d, m), m, d.map[m].lref, Less(d.map[m].gref))
<1>1. m \in DOMAIN d.map /\ d.map[m] \in IdMap /\ InUse(d) \subseteq DOMAIN d.map
  BY Memory
<1>2. \A n \in Nat : Less(n) \in Nat
  BY DEF Less
<1>3. ASSUME NEW l \in Nat, NEW g \in Nat,
             NEW r, r = [lid |-> d.map[m].lid, gid |-> d.map[m].gid, lref |-> l, gref |-> g],
             NEW e, e = [d EXCEPT !.map[m] = r],
             NEW f, f = IF Unused(e, m) THEN RemoveIdMap(e, m) ELSE e
      PROVE  Lowered(d, f, m, l, g)
  <2>1. r \in IdMap
    BY <1>1, <1>3 DEF IdMap
  <2>2. /\ Shaped(e) /\ Tables(e) /\ e.inst = d.inst /\ e.entry = d.entry /\ e.count = d.count
        /\ \A x \in DOMAIN d.map : e.map[x] = IF x = m THEN r ELSE d.map[x]
        /\ InUse(e) = InUse(d)
    BY <1>1, <1>3, <2>1, Recounted
  <2>3. Unused(e, m) <=> l = 0 /\ g = 0
    BY <1>1, <1>3, <2>2 DEF Unused
  <2>4. CASE l = 0 /\ g = 0
    <3>1. f = RemoveIdMap(e, m)
      BY <1>3, <2>3, <2>4
    <3>2. /\ Shaped(f) /\ Tables(f) /\ f.inst = e.inst /\ f.entry = e.entry /\ f.map = e.map
          /\ f.count = e.count /\ InUse(f) = InUse(e) \ {m}
      BY <2>2, <3>1, Removed
    <3> QED BY <1>1, <1>3, <2>2, <2>4, <3>2 DEF Lowered
  <2>5. CASE ~ (l = 0 /\ g = 0)
    <3>1. f = e
      BY <1>3, <2>3, <2>5
    <3> QED BY <1>1, <1>3, <2>2, <2>5, <3>1 DEF Lowered
  <2> QED BY <2>4, <2>5
<1>4. Lowered(d, LIDDecref(d, m), m, Less(d.map[m].lref), d.map[m].gref)
  <2> DEFINE l == Less(d.map[m].lref)
             g == d.map[m].gref
             r == [lid |-> d.map[m].lid, gid |-> d.map[m].gid, lref |-> l, gref |-> g]
             e == [d EXCEPT !.map[m] = r]
  <2>1. l \in Nat /\ g \in Nat
    BY <1>1, <1>2 DEF IdMap
  <2>2. [d.map[m] EXCEPT !.lref = Less(d.map[m].lref)] = r
    BY <1>1 DEF IdMap
  <2>3. [d EXCEPT !.map[m].lref = Less(@)] = e
    BY <2>2
  <2>4. LIDDecref(d, m) = IF Unused(e, m) THEN RemoveIdMap(e, m) ELSE e
    BY <2>3 DEF LIDDecref
  <2> HIDE DEF l, g, e
  <2>5. e = [d EXCEPT !.map[m] = r]
    BY DEF e
  <2>6. Lowered(d, LIDDecref(d, m), m, l, g)
    BY <1>3, <2>1, <2>4, <2>5
  <2> QED BY <2>6 DEF l, g
<1>5. Lowered(d, GIDDecref(d, m), m, d.map[m].lref, Less(d.map[m].gref))
  <2> DEFINE l == d.map[m].lref
             g == Less(d.map[m].gref)
             r == [lid |-> d.map[m].lid, gid |-> d.map[m].gid, lref |-> l, gref |-> g]
             e == [d EXCEPT !.map[m] = r]
  <2>1. l \in Nat /\ g \in Nat
    BY <1>1, <1>2 DEF IdMap
  <2>2. [d.map[m] EXCEPT !.gref = Less(d.map[m].gref)] = r
    BY <1>1 DEF IdMap
  <2>3. [d EXCEPT !.map[m].gref = Less(@)] = e
    BY <2>2
  <2>4. GIDDecref(d, m) = IF Unused(e, m) THEN RemoveIdMap(e, m) ELSE e
    BY <2>3 DEF GIDDecref
  <2> HIDE DEF l, g, e
  <2>5. e = [d EXCEPT !.map[m] = r]
    BY DEF e
  <2>6. Lowered(d, GIDDecref(d, m), m, l, g)
    BY <1>3, <2>1, <2>4, <2>5
  <2> QED BY <2>6 DEF l, g
<1> QED BY <1>4, <1>5

------------------------------------------------------------------------------
\* The entries that refer to an id map, and how many there are.

LEMMA Counting ==
    ASSUME NEW A, IsFiniteSet(A), NEW B, NEW c, B \ {c} = A \ {c}
    PROVE  /\ IsFiniteSet(B) /\ Cardinality(A) \in Nat /\ Cardinality(B) \in Nat
           /\ c \in A /\ c \notin B => Cardinality(A) = Cardinality(B) + 1
           /\ c \notin A /\ c \in B => Cardinality(B) = Cardinality(A) + 1
           /\ (c \in A <=> c \in B) => B = A
           /\ A # {} => Cardinality(A) # 0
           /\ Cardinality(B) = 0 => B = {}
<1>1. Cardinality(A) \in Nat /\ (Cardinality(A) = 0 <=> A = {})
  BY FS_CardinalityType, FS_EmptySet
<1>2. IsFiniteSet(A \ {c}) /\ Cardinality(A \ {c}) = IF c \in A THEN Cardinality(A) - 1 ELSE Cardinality(A)
  BY FS_RemoveElement
<1>3. CASE c \in B
  <2>1. B = (A \ {c}) \cup {c}
    BY <1>3
  <2>2. IsFiniteSet(B) /\ Cardinality(B) = Cardinality(A \ {c}) + 1
    BY <1>2, <2>1, FS_AddElement
  <2>3. Cardinality(A \ {c}) \in Nat
    BY <1>2, FS_CardinalityType
  <2> QED BY <1>1, <1>2, <1>3, <2>1, <2>2, <2>3
<1>4. CASE c \notin B
  <2>1. B = A \ {c}
    BY <1>4
  <2>2. Cardinality(B) \in Nat /\ (Cardinality(B) = 0 <=> B = {})
    BY <1>2, <2>1, FS_CardinalityType, FS_EmptySet
  <2> QED BY <1>1, <1>2, <1>4, <2>1, <2>2
<1> QED BY <1>3, <1>4

LEMMA Cells ==
    ASSUME NEW d, NEW m, NEW u
    PROVE  /\ u \in Uses(d, m) <=> \E s \in Sigs : \E i \in Entries(d, s) :
                                       u = <<s, i>> /\ d.entry[s][i].map = m
           /\ u \in Holding(d, m) <=> \E s \in Sigs : \E i \in Entries(d, s) :
                  u = <<s, i>> /\ d.entry[s][i].map = m /\ d.entry[s][i].inst # None
           /\ u \in Awaiting(d, m) <=> \E s \in Sigs : \E i \in Entries(d, s) :
                  /\ u = <<s, i>> /\ d.entry[s][i].map = m
                  /\ d.entry[s][i].by = "net" /\ ~ d.entry[s][i].rr
<1>1. u \in Uses(d, m) <=> \E s \in Sigs : \E i \in Entries(d, s) :
                               u = <<s, i>> /\ d.entry[s][i].map = m
  <2>1. u \in UNION {{s} \X Entries(d, s) : s \in Sigs}
        <=> \E s \in Sigs : \E i \in Entries(d, s) : u = <<s, i>>
    OBVIOUS
  <2>2. \A s, i : u = <<s, i>> => u[1] = s /\ u[2] = i
    OBVIOUS
  <2> QED BY <2>1, <2>2 DEF Uses
<1>2. \A s, i : u = <<s, i>> => u[1] = s /\ u[2] = i
  OBVIOUS
<1> QED BY <1>1, <1>2 DEF Holding, Awaiting

\* Entry i of signal s is the only one that may differ.
OnlyAt(d, e, s, i) ==
    /\ \A t \in Sigs : t # s => e.entry[t] = d.entry[t]
    /\ Entries(e, s) = Entries(d, s) \cup {i}
    /\ \A j \in Entries(d, s) : j # i => e.entry[s][j] = d.entry[s][j]

LEMMA OneCell ==
    ASSUME NEW d, NEW e, NEW s \in Sigs, NEW i, OnlyAt(d, e, s, i), NEW m
    PROVE  /\ Uses(e, m) \ {<<s, i>>} = Uses(d, m) \ {<<s, i>>}
           /\ Holding(e, m) \ {<<s, i>>} = Holding(d, m) \ {<<s, i>>}
           /\ Awaiting(e, m) \ {<<s, i>>} = Awaiting(d, m) \ {<<s, i>>}
<1>1. \A t \in Sigs : \A j : <<t, j>> # <<s, i>> =>
          /\ j \in Entries(e, t) <=> j \in Entries(d, t)
          /\ j \in Entries(d, t) => e.entry[t][j] = d.entry[t][j]
  <2> SUFFICES ASSUME NEW t \in Sigs, NEW j, <<t, j>> # <<s, i>>
               PROVE  /\ j \in Entries(e, t) <=> j \in Entries(d, t)
                      /\ j \in Entries(d, t) => e.entry[t][j] = d.entry[t][j]
    OBVIOUS
  <2>1. CASE t = s
    <3>1. j # i
      BY <2>1
    <3> QED BY <2>1, <3>1 DEF OnlyAt
  <2>2. CASE t # s
    BY <2>2 DEF OnlyAt, Entries
  <2> QED BY <2>1, <2>2
<1> DEFINE At(f, u) == \E t \in Sigs : \E j \in Entries(f, t) : u = <<t, j>> /\ f.entry[t][j].map = m
           Hd(f, u) == \E t \in Sigs : \E j \in Entries(f, t) :
                           u = <<t, j>> /\ f.entry[t][j].map = m /\ f.entry[t][j].inst # None
           Aw(f, u) == \E t \in Sigs : \E j \in Entries(f, t) :
                           /\ u = <<t, j>> /\ f.entry[t][j].map = m
                           /\ f.entry[t][j].by = "net" /\ ~ f.entry[t][j].rr
<1>2. ASSUME NEW u, u # <<s, i>>
      PROVE  /\ At(e, u) <=> At(d, u)
             /\ Hd(e, u) <=> Hd(d, u)
             /\ Aw(e, u) <=> Aw(d, u)
  BY <1>1, <1>2 
<1>3. \A u : /\ u \in Uses(e, m) <=> At(e, u)
             /\ u \in Uses(d, m) <=> At(d, u)
             /\ u \in Holding(e, m) <=> Hd(e, u)
             /\ u \in Holding(d, m) <=> Hd(d, u)
             /\ u \in Awaiting(e, m) <=> Aw(e, u)
             /\ u \in Awaiting(d, m) <=> Aw(d, u)
  BY Cells
<1> HIDE DEF At, Hd, Aw
<1> QED BY <1>2, <1>3

LEMMA SameEntries ==
    ASSUME NEW d, NEW e, e.entry = d.entry, NEW m
    PROVE  Uses(e, m) = Uses(d, m) /\ Holding(e, m) = Holding(d, m) /\ Awaiting(e, m) = Awaiting(d, m)
<1>1. \A s : Entries(e, s) = Entries(d, s)
  BY DEF Entries
<1>2. \A u : /\ u \in Uses(e, m) <=> u \in Uses(d, m)
             /\ u \in Holding(e, m) <=> u \in Holding(d, m)
             /\ u \in Awaiting(e, m) <=> u \in Awaiting(d, m)
  BY <1>1, Cells
<1> QED BY <1>2

LEMMA TheCell ==
    ASSUME NEW d, NEW s \in Sigs, NEW i \in Entries(d, s), NEW m
    PROVE  /\ <<s, i>> \in Uses(d, m) <=> d.entry[s][i].map = m
           /\ <<s, i>> \in Holding(d, m) <=> d.entry[s][i].map = m /\ d.entry[s][i].inst # None
           /\ <<s, i>> \in Awaiting(d, m) <=>
                  /\ d.entry[s][i].map = m
                  /\ d.entry[s][i].by = "net" /\ ~ d.entry[s][i].rr
<1>1. \A t, j : <<t, j>> = <<s, i>> => t = s /\ j = i
  OBVIOUS
<1> QED BY <1>1, Cells

LEMMA NoCell ==
    ASSUME NEW d, NEW s, NEW i, i \notin Entries(d, s), NEW m
    PROVE  /\ <<s, i>> \notin Uses(d, m) /\ <<s, i>> \notin Holding(d, m)
           /\ <<s, i>> \notin Awaiting(d, m)
<1>1. \A t, j : <<s, i>> = <<t, j>> => t = s /\ j = i
  OBVIOUS
<1> QED BY <1>1, Cells

LEMMA Parts ==
    ASSUME NEW d, NEW m, IsFiniteSet(Uses(d, m))
    PROVE  /\ IsFiniteSet(Holding(d, m)) /\ IsFiniteSet(Awaiting(d, m))
           /\ Holding(d, m) \subseteq Uses(d, m) /\ Awaiting(d, m) \subseteq Uses(d, m)
<1>1. Holding(d, m) \subseteq Uses(d, m) /\ Awaiting(d, m) \subseteq Uses(d, m)
  BY DEF Holding, Awaiting
<1> QED BY <1>1, FS_Subset

------------------------------------------------------------------------------
\* What one step leaves alone.

\* Entries that were released and wait for the sender.
Stays(d, e) ==
    \A s \in Sigs : \A i \in Entries(d, s) :
        d.entry[s][i].rl => /\ i \in Entries(e, s) /\ e.entry[s][i] = d.entry[s][i]
                            /\ GidAt(e, s, i) = GidAt(d, s, i)

\* The id maps that signal s uses.
Same(d, e, m) == m \in InUse(e) /\ e.map[m].lid = d.map[m].lid /\ e.map[m].gid = d.map[m].gid

LEMMA OtherSig ==
    ASSUME NEW d, NEW e, NEW s \in Sigs, SigRight(d, s),
           e.entry[s] = d.entry[s], e.inst[s] = d.inst[s],
           \A i \in Entries(d, s) :
               d.entry[s][i].map # None => Same(d, e, d.entry[s][i].map)
    PROVE  SigRight(e, s)
<1>1. Entries(e, s) = Entries(d, s)
  BY DEF Entries
<1>2. ASSUME NEW i \in Entries(d, s) PROVE Kept(e, s, e.entry[s][i])
  BY <1>2 DEF SigRight, Kept, Same
<1>3. ASSUME NEW i \in Entries(d, s), d.entry[s][i].map # None
      PROVE  GidAt(e, s, i) = GidAt(d, s, i)
  BY <1>3 DEF GidAt, Same
<1>4. Alone(e, s)
  BY <1>1, <1>3 DEF SigRight, Alone
<1>5. Owned(e, s)
  BY <1>1 DEF SigRight, Owned
<1>6. Labelled(e, s)
  <2>1. ASSUME NEW i \in Entries(d, s), d.entry[s][i].inst # None
        PROVE  e.map[e.entry[s][i].map].lid = d.map[d.entry[s][i].map].lid
    BY <2>1 DEF SigRight, Kept, Same
  <2> QED BY <1>1, <2>1 DEF SigRight, Labelled
<1> QED BY <1>1, <1>2, <1>4, <1>5, <1>6 DEF SigRight

LEMMA NotUsed ==
    ASSUME NEW d, Right(d), NEW m, m \notin InUse(d), m # None
    PROVE  /\ Uses(d, m) = {} /\ Holding(d, m) = {} /\ Awaiting(d, m) = {}
<1>1. \A s \in Sigs : \A i \in Entries(d, s) : d.entry[s][i].map \in InUse(d) \cup {None}
  BY DEF Right, SigRight, Kept
<1> QED BY <1>1, Cells

LEMMA Used ==
    ASSUME NEW d, Right(d), NEW m \in InUse(d)
    PROVE  /\ Uses(d, m) # {} /\ IsFiniteSet(Uses(d, m))
           /\ IsFiniteSet(Holding(d, m)) /\ IsFiniteSet(Awaiting(d, m))
           /\ d.map[m].lref = Cardinality(Holding(d, m))
           /\ d.map[m].gref = Cardinality(Awaiting(d, m))
           /\ Uses(d, m) = Holding(d, m) \cup Awaiting(d, m)
<1>1. /\ Uses(d, m) # {} /\ IsFiniteSet(Uses(d, m))
      /\ d.map[m].lref = Cardinality(Holding(d, m))
      /\ d.map[m].gref = Cardinality(Awaiting(d, m))
  BY DEF Right, Counted
<1>2. m # None
  BY Memory DEF Right
<1>3. \A s \in Sigs : \A i \in Entries(d, s) :
          d.entry[s][i].map = m /\ d.entry[s][i].inst = None =>
              d.entry[s][i].by = "net" /\ ~ d.entry[s][i].rr
  BY <1>2 DEF Right, SigRight, Kept
<1>4. Uses(d, m) \subseteq Holding(d, m) \cup Awaiting(d, m)
  BY <1>3, Cells
<1> QED BY <1>1, <1>4, Parts

------------------------------------------------------------------------------
\* An instance is claimed: what _init_inst, _add_idmap and the counting do.

One(by) == IF by = "net" THEN 1 ELSE 0

\* _init_inst, _add_idmap: entry i ties instance k to id map m.
EntryPut(d, e, s, k, i, m, by) ==
    /\ e.inst = [d.inst EXCEPT ![s][k].active = TRUE]
    /\ OnlyAt(d, e, s, i) /\ e.entry \in [Sigs -> Seq(Entry)]
    /\ Plain(s) => Len(e.entry[s]) = 1
    /\ i \in Entries(d, s) => d.entry[s][i].map = None
    /\ e.entry[s][i] = [map |-> m, inst |-> k, rl |-> FALSE, rr |-> FALSE, by |-> by]

Claimed(d, e, s, k, i, m, by) ==
    /\ Shaped(e) /\ Tables(e) /\ e.count >= d.count
    /\ k \in Places(s) /\ ~ d.inst[s][k].active /\ by \in {"app", "net"}
    /\ EntryPut(d, e, s, k, i, m, by)
    /\ InUse(e) = InUse(d) \cup {m}
    /\ \A x \in InUse(d) \ {m} : e.map[x] = d.map[x]
    /\ IF m \in InUse(d)
       THEN e.map[m] = [lid |-> d.map[m].lid, gid |-> d.map[m].gid,
                        lref |-> d.map[m].lref + 1, gref |-> d.map[m].gref + One(by)]
       ELSE /\ e.map[m].lref = 1 /\ e.map[m].gref = One(by)
            /\ \A x \in InUse(d) : d.map[x].gid # e.map[m].gid
            /\ e.map[m].gid <= MaxGid => e.map[m].gid <= e.count

\* What is asked of the id map that is claimed for signal s.
Fitting(d, e, s, k, m, by) ==
    /\ by = "net" => s \in setup.inputs /\ e.map[m].gid \in setup.senders[s]
    /\ by = "app" => s \in setup.outputs \cup setup.direct
    /\ s \in setup.inputs /\ ~ Plain(s) =>
           \A j \in Entries(d, s) : d.entry[s][j].map # None => GidAt(d, s, j) # e.map[m].gid
    /\ s \in setup.outputs =>
           e.map[m].lid = IF Plain(s) THEN DefaultId ELSE d.inst[s][k].id

LEMMA ClaimCounts ==
    ASSUME NEW d, Right(d), NEW e, NEW s \in Sigs, NEW k, NEW i, NEW m, NEW by,
           Claimed(d, e, s, k, i, m, by)
    PROVE  Counted(e)
<1>1. /\ OnlyAt(d, e, s, i) /\ InUse(e) = InUse(d) \cup {m} /\ i \in Entries(e, s)
      /\ k # None /\ by \in {"app", "net"}
      /\ e.entry[s][i] = [map |-> m, inst |-> k, rl |-> FALSE, rr |-> FALSE, by |-> by]
  BY DEF Claimed, EntryPut, OnlyAt, Places, None
<1>2. m # None /\ \A x \in InUse(e) : x # None
  BY <1>1, Memory DEF Claimed, EntryPut
<1>3. \A x \in InUse(e) : <<s, i>> \notin Uses(d, x) /\ <<s, i>> \notin Holding(d, x)
                          /\ <<s, i>> \notin Awaiting(d, x)
  BY <1>2, NoCell, TheCell DEF Claimed, EntryPut
<1>4. \A x : /\ <<s, i>> \in Uses(e, x) <=> x = m
             /\ <<s, i>> \in Holding(e, x) <=> x = m
             /\ <<s, i>> \in Awaiting(e, x) <=> x = m /\ by = "net"
  BY <1>1, TheCell
<1>5. ASSUME NEW x \in InUse(e), x # m
      PROVE  /\ Uses(e, x) # {} /\ IsFiniteSet(Uses(e, x))
             /\ e.map[x].lref = Cardinality(Holding(e, x))
             /\ e.map[x].gref = Cardinality(Awaiting(e, x))
  <2>1. x \in InUse(d) /\ e.map[x] = d.map[x]
    BY <1>1, <1>5 DEF Claimed, EntryPut
  <2>2. Uses(e, x) = Uses(d, x) /\ Holding(e, x) = Holding(d, x) /\ Awaiting(e, x) = Awaiting(d, x)
    <3>1. /\ Uses(e, x) \ {<<s, i>>} = Uses(d, x) \ {<<s, i>>}
          /\ Holding(e, x) \ {<<s, i>>} = Holding(d, x) \ {<<s, i>>}
          /\ Awaiting(e, x) \ {<<s, i>>} = Awaiting(d, x) \ {<<s, i>>}
      BY <1>1, OneCell
    <3> QED BY <1>3, <1>4, <1>5, <3>1
  <2> QED BY <2>1, <2>2, Used
<1>6. /\ Uses(e, m) # {} /\ IsFiniteSet(Uses(e, m))
      /\ e.map[m].lref = Cardinality(Holding(e, m))
      /\ e.map[m].gref = Cardinality(Awaiting(e, m))
  <2>1. /\ IsFiniteSet(Uses(d, m)) /\ IsFiniteSet(Holding(d, m)) /\ IsFiniteSet(Awaiting(d, m))
        /\ e.map[m].lref = Cardinality(Holding(d, m)) + 1
        /\ e.map[m].gref = Cardinality(Awaiting(d, m)) + One(by)
    <3>1. CASE m \in InUse(d)
      BY <3>1, Used DEF Claimed, EntryPut
    <3>2. CASE m \notin InUse(d)
      <4>1. One(by) \in Nat
        BY DEF One
      <4>2. Uses(d, m) = {} /\ Holding(d, m) = {} /\ Awaiting(d, m) = {}
        BY <1>2, <3>2, NotUsed
      <4>3. e.map[m].lref = 1 /\ e.map[m].gref = One(by)
        BY <3>2 DEF Claimed, EntryPut
      <4> QED BY <4>1, <4>2, <4>3, FS_EmptySet
    <3> QED BY <3>1, <3>2
  <2>2. <<s, i>> \in Uses(e, m) /\ m \in InUse(e)
    BY <1>1, <1>4
  <2>3. IsFiniteSet(Uses(e, m))
    <3> DEFINE c == <<s, i>>
    <3>1. Uses(e, m) \ {c} = Uses(d, m) \ {c}
      BY <1>1, OneCell
    <3>2. IsFiniteSet(Uses(d, m))
      BY <2>1
    <3> HIDE DEF c
    <3> QED BY <3>1, <3>2, Counting
  <2>4. Cardinality(Holding(e, m)) = Cardinality(Holding(d, m)) + 1
    <3>1. <<s, i>> \in Holding(e, m) /\ <<s, i>> \notin Holding(d, m)
      BY <1>3, <1>4, <2>2
    <3>2. Holding(e, m) \ {<<s, i>>} = Holding(d, m) \ {<<s, i>>}
      BY <1>1, OneCell
    <3> QED BY <2>1, <3>1, <3>2, Counting
  <2>5. Cardinality(Awaiting(e, m)) = Cardinality(Awaiting(d, m)) + One(by)
    <3>1. Awaiting(e, m) \ {<<s, i>>} = Awaiting(d, m) \ {<<s, i>>}
      BY <1>1, OneCell
    <3>2. CASE by = "net"
      <4>1. <<s, i>> \in Awaiting(e, m) /\ <<s, i>> \notin Awaiting(d, m)
        BY <1>3, <1>4, <2>2, <3>2
      <4> QED BY <2>1, <3>1, <3>2, <4>1, Counting DEF One
    <3>3. CASE by # "net"
      <4>1. <<s, i>> \notin Awaiting(e, m) /\ <<s, i>> \notin Awaiting(d, m)
        BY <1>3, <1>4, <2>2, <3>3
      <4>2. Awaiting(e, m) = Awaiting(d, m) /\ Cardinality(Awaiting(d, m)) \in Nat
        BY <2>1, <3>1, <4>1, FS_CardinalityType
      <4> QED BY <3>3, <4>2 DEF One
    <3> QED BY <3>2, <3>3
  <2> QED BY <2>1, <2>2, <2>3, <2>4, <2>5
<1> QED BY <1>5, <1>6 DEF Counted

LEMMA ClaimSig ==
    ASSUME NEW d, Right(d), NEW e, NEW s \in Sigs, NEW k, NEW i, NEW m, NEW by,
           Claimed(d, e, s, k, i, m, by), Fitting(d, e, s, k, m, by)
    PROVE  SigRight(e, s) /\ Signals(e)
<1> DEFINE x == [map |-> m, inst |-> k, rl |-> FALSE, rr |-> FALSE, by |-> by]
<1>1. /\ OnlyAt(d, e, s, i) /\ InUse(e) = InUse(d) \cup {m}
      /\ k \in Places(s) /\ k # None /\ by \in {"app", "net"} /\ ~ d.inst[s][k].active
      /\ e.entry[s][i] = x /\ Entries(e, s) = Entries(d, s) \cup {i}
      /\ \A j \in Entries(d, s) : j # i => e.entry[s][j] = d.entry[s][j]
      /\ i \in Entries(d, s) => d.entry[s][i].map = None
  BY DEF Claimed, EntryPut, OnlyAt, Places, None
<1>2. x.map = m /\ x.inst = k /\ x.rl = FALSE /\ x.rr = FALSE /\ x.by = by
  OBVIOUS
<1> HIDE DEF x
<1>3. m # None /\ m \in InUse(e)
  BY <1>1, Memory DEF Claimed, EntryPut
<1>4. \A y \in InUse(d) : e.map[y].lid = d.map[y].lid /\ e.map[y].gid = d.map[y].gid
  BY DEF Claimed, EntryPut
<1>5. /\ d.inst = [t \in Sigs |-> d.inst[t]] /\ \A t \in Sigs : d.inst[t] \in [Places(t) -> Inst]
      /\ e.inst = [d.inst EXCEPT ![s][k].active = TRUE]
  BY DEF Right, Signals, Claimed, EntryPut
<1>6. /\ e.inst = [t \in Sigs |-> e.inst[t]] /\ \A t \in Sigs : e.inst[t] \in [Places(t) -> Inst]
      /\ \A j \in Places(s) : /\ e.inst[s][j].id = d.inst[s][j].id
                              /\ e.inst[s][j].active <=> j = k \/ d.inst[s][j].active
  <2> DEFINE r == [d.inst[s][k] EXCEPT !.active = TRUE]
  <2>1. d.inst[s] \in [Places(s) -> Inst] /\ d.inst[s][k] \in Inst
    BY <1>1, <1>5
  <2>2. r \in Inst /\ r.id = d.inst[s][k].id /\ r.active = TRUE
    BY <2>1 DEF Inst
  <2> HIDE DEF r
  <2>3. e.inst = [d.inst EXCEPT ![s] = [d.inst[s] EXCEPT ![k] = r]]
    BY <1>5 DEF r
  <2>4. [d.inst[s] EXCEPT ![k] = r] \in [Places(s) -> Inst]
    BY <1>1, <2>1, <2>2
  <2>5. /\ e.inst = [t \in Sigs |-> e.inst[t]] /\ e.inst[s] = [d.inst[s] EXCEPT ![k] = r]
        /\ \A t \in Sigs : t # s => e.inst[t] = d.inst[t]
    BY <1>5, <2>3
  <2>6. \A t \in Sigs : e.inst[t] \in [Places(t) -> Inst]
    BY <1>5, <2>4, <2>5
  <2>7. ASSUME NEW j \in Places(s)
        PROVE  /\ e.inst[s][j].id = d.inst[s][j].id
               /\ e.inst[s][j].active <=> j = k \/ d.inst[s][j].active
    <3>1. e.inst[s][j] = IF j = k THEN r ELSE d.inst[s][j]
      BY <2>1, <2>5
    <3> QED BY <2>2, <3>1
  <2> QED BY <2>5, <2>6, <2>7
<1>7. ASSUME NEW j \in Entries(d, s), j # i
      PROVE  /\ e.entry[s][j] = d.entry[s][j] /\ Kept(d, s, d.entry[s][j])
             /\ d.entry[s][j].map # None => GidAt(e, s, j) = GidAt(d, s, j)
  <2>1. e.entry[s][j] = d.entry[s][j] /\ Kept(d, s, d.entry[s][j])
    BY <1>1, <1>7 DEF Right, SigRight
  <2> QED BY <1>4, <2>1 DEF GidAt, Kept
<1>8. ASSUME NEW j \in Entries(e, s) PROVE Kept(e, s, e.entry[s][j])
  <2>1. CASE j = i
    BY <1>1, <1>2, <1>3, <2>1 DEF Kept, Fitting
  <2>2. CASE j # i
    <3>1. j \in Entries(d, s)
      BY <1>1, <2>2
    <3> DEFINE y == d.entry[s][j]
    <3>2. e.entry[s][j] = y /\ Kept(d, s, y)
      BY <1>7, <2>2, <3>1
    <3>3. y.map \in InUse(e) \cup {None} /\ (y.map # None => e.map[y.map].gid = d.map[y.map].gid)
      BY <1>1, <1>4, <3>2 DEF Kept
    <3> HIDE DEF y
    <3>4. Kept(e, s, y)
      BY <3>2, <3>3 DEF Kept
    <3> QED BY <3>2, <3>4
  <2> QED BY <2>1, <2>2
<1>9. Alone(e, s)
  <2>1. CASE Plain(s)
    BY <2>1 DEF Alone, Claimed, EntryPut
  <2>2. CASE ~ Plain(s) /\ s \in setup.inputs
    <3>1. GidAt(e, s, i) = e.map[m].gid
      BY <1>1, <1>2 DEF GidAt
    <3>2. \A j \in Entries(d, s) : d.entry[s][j].map # None => GidAt(d, s, j) # e.map[m].gid
      BY <2>2 DEF Fitting
    <3>3. \A j, l \in Entries(d, s) : 
              d.entry[s][j].map # None /\ d.entry[s][l].map # None
              /\ GidAt(d, s, j) = GidAt(d, s, l) => j = l
      BY <2>2 DEF Right, SigRight, Alone
    <3>4. ASSUME NEW j \in Entries(e, s), NEW l \in Entries(e, s), j # l,
                 e.entry[s][j].map # None, e.entry[s][l].map # None
          PROVE  GidAt(e, s, j) # GidAt(e, s, l)
      <4>1. CASE j = i
        <5>1. l \in Entries(d, s) /\ l # i
          BY <1>1, <3>4, <4>1
        <5> QED BY <1>7, <3>1, <3>2, <3>4, <4>1, <5>1
      <4>2. CASE l = i
        <5>1. j \in Entries(d, s) /\ j # i
          BY <1>1, <3>4, <4>2
        <5> QED BY <1>7, <3>1, <3>2, <3>4, <4>2, <5>1
      <4>3. CASE j # i /\ l # i
        <5>1. j \in Entries(d, s) /\ l \in Entries(d, s)
          BY <1>1, <4>3
        <5> QED BY <1>7, <3>3, <3>4, <4>3, <5>1
      <4> QED BY <4>1, <4>2, <4>3
    <3> QED BY <2>2, <3>4 DEF Alone
  <2>3. CASE ~ Plain(s) /\ s \notin setup.inputs
    BY <2>3 DEF Alone
  <2> QED BY <2>1, <2>2, <2>3
<1>10. Owned(e, s)
  <2>1. i \in Entries(d, s) => d.entry[s][i].inst = None
    BY <1>1 DEF Right, SigRight, Kept
  <2>2. /\ \A j \in Places(s) : d.inst[s][j].active <=> \E l \in Entries(d, s) : d.entry[s][l].inst = j
        /\ \A j, l \in Entries(d, s) :
               d.entry[s][j].inst = d.entry[s][l].inst => d.entry[s][j].inst = None \/ j = l
    BY DEF Right, SigRight, Owned
  <2>3. \A j \in Entries(d, s) : d.entry[s][j].inst # k
    BY <1>1, <2>2
  <2>4. ASSUME NEW j \in Places(s)
        PROVE  e.inst[s][j].active <=> \E l \in Entries(e, s) : e.entry[s][l].inst = j
    <3>1. j # None
      BY DEF Places, None
    <3>2. (\E l \in Entries(e, s) : e.entry[s][l].inst = j)
          <=> (j = k \/ \E l \in Entries(d, s) : d.entry[s][l].inst = j)
      BY <1>1, <1>2, <2>1, <3>1
    <3> QED BY <1>6, <2>2, <3>2
  <2>5. \A j, l \in Entries(e, s) :
            e.entry[s][j].inst = e.entry[s][l].inst => e.entry[s][j].inst = None \/ j = l
    BY <1>1, <1>2, <2>2, <2>3
  <2> QED BY <2>4, <2>5 DEF Owned
<1>11. Labelled(e, s)
  <2>1. /\ \A j, l \in Places(s) : d.inst[s][j].id = d.inst[s][l].id => j = l
        /\ s \in setup.outputs /\ ~ Plain(s) =>
               \A n \in InstIds(s) : \E l \in Places(s) : d.inst[s][l].id = n
        /\ s \in setup.outputs => \A j \in Entries(d, s) :
               d.entry[s][j].inst # None =>
                   d.map[d.entry[s][j].map].lid =
                       IF Plain(s) THEN DefaultId ELSE d.inst[s][d.entry[s][j].inst].id
    BY DEF Right, SigRight, Labelled
  <2>2. ASSUME s \in setup.outputs, NEW j \in Entries(e, s), e.entry[s][j].inst # None
        PROVE  e.map[e.entry[s][j].map].lid =
                   IF Plain(s) THEN DefaultId ELSE e.inst[s][e.entry[s][j].inst].id
    <3>1. CASE j = i
      BY <1>1, <1>2, <1>6, <2>2, <3>1 DEF Fitting
    <3>2. CASE j # i
      <4>1. j \in Entries(d, s)
        BY <1>1, <3>2
      <4>2. /\ e.entry[s][j] = d.entry[s][j] /\ d.entry[s][j].inst \in Places(s)
            /\ d.entry[s][j].map \in InUse(d)
        BY <1>7, <2>2, <3>2, <4>1 DEF Kept
      <4>3. e.map[d.entry[s][j].map].lid = d.map[d.entry[s][j].map].lid
        BY <1>4, <4>2
      <4>4. e.inst[s][d.entry[s][j].inst].id = d.inst[s][d.entry[s][j].inst].id
        BY <1>6, <4>2
      <4> QED BY <2>1, <2>2, <4>1, <4>2, <4>3, <4>4
    <3> QED BY <3>1, <3>2
  <2> QED BY <1>6, <2>1, <2>2 DEF Labelled
<1>12. Signals(e)
  BY <1>6 DEF Signals, Claimed, EntryPut
<1> QED BY <1>8, <1>9, <1>10, <1>11, <1>12 DEF SigRight

LEMMA ClaimKeeps ==
    ASSUME NEW d, Right(d), NEW e, NEW s \in Sigs, NEW k, NEW i, NEW m, NEW by,
           Claimed(d, e, s, k, i, m, by), Fitting(d, e, s, k, m, by)
    PROVE  Right(e) /\ Stays(d, e)
<1>1. Shaped(e) /\ Tables(e) /\ InUse(e) = InUse(d) \cup {m} /\ e.count >= d.count
  BY DEF Claimed, EntryPut
<1>2. \A y \in InUse(d) : Same(d, e, y)
  BY DEF Same, Claimed, EntryPut
<1>3. Counted(e)
  BY ClaimCounts
<1>4. SigRight(e, s) /\ Signals(e)
  BY ClaimSig
<1>5. ASSUME NEW t \in Sigs, t # s PROVE SigRight(e, t)
  <2>1. e.entry[t] = d.entry[t] /\ e.inst[t] = d.inst[t]
    BY <1>5 DEF Claimed, EntryPut, OnlyAt, Right, Signals
  <2>2. SigRight(d, t)
    BY DEF Right
  <2>3. \A j \in Entries(d, t) : d.entry[t][j].map # None => Same(d, e, d.entry[t][j].map)
    BY <1>2, <2>2 DEF SigRight, Kept
  <2> QED BY <2>1, <2>2, <2>3, OtherSig
<1>6. Named(e)
  <2>1. /\ \A x, y \in InUse(d) : d.map[x].gid = d.map[y].gid => x = y
        /\ \A x \in InUse(d) : d.map[x].gid <= MaxGid => d.map[x].gid <= d.count
    BY DEF Right, Named
  <2>2. \A x \in InUse(d) : d.map[x].gid \in Nat /\ d.count \in Nat /\ e.count \in Nat
    BY Memory DEF Right, IdMap, Claimed, EntryPut, Tables
  <2>3. \A x \in InUse(d) : e.map[x].gid <= MaxGid => e.map[x].gid <= e.count
    BY <1>1, <1>2, <2>1, <2>2 DEF Same
  <2>4. m \notin InUse(d) => /\ \A x \in InUse(d) : d.map[x].gid # e.map[m].gid
                             /\ e.map[m].gid <= MaxGid => e.map[m].gid <= e.count
    BY DEF Claimed, EntryPut
  <2>5. \A x, y \in InUse(e) : e.map[x].gid = e.map[y].gid => x = y
    BY <1>1, <1>2, <2>1, <2>4 DEF Same
  <2> QED BY <1>1, <2>3, <2>4, <2>5 DEF Named
<1>7. Stays(d, e)
  <2> SUFFICES ASSUME NEW t \in Sigs, NEW j \in Entries(d, t), d.entry[t][j].rl
               PROVE  /\ j \in Entries(e, t) /\ e.entry[t][j] = d.entry[t][j]
                      /\ GidAt(e, t, j) = GidAt(d, t, j)
    BY DEF Stays
  <2>1. d.entry[t][j].map \in InUse(d) /\ d.entry[t][j].map # None
    BY DEF Right, SigRight, Kept
  <2>2. j \in Entries(e, t) /\ e.entry[t][j] = d.entry[t][j]
    BY <2>1 DEF Claimed, EntryPut, OnlyAt, Entries
  <2> QED BY <1>2, <2>1, <2>2 DEF Same, GidAt
<1> QED BY <1>1, <1>3, <1>4, <1>5, <1>6, <1>7 DEF Right

------------------------------------------------------------------------------
\* The ranks of the instances of a signal are 0 .. n - 1, in the order of their ids.

Placed(d, s) ==
    /\ d.inst[s] \in [Places(s) -> Inst]
    /\ \A j, k \in Places(s) : d.inst[s][j].id = d.inst[s][k].id => j = k

LEMMA PlaceCount ==
    ASSUME NEW s
    PROVE  LET n == Cardinality(InstIds(s))
           IN  /\ n \in Nat /\ IsFiniteSet(Places(s)) /\ Cardinality(Places(s)) = n
               /\ n # 0 => IsFiniteSet(0 .. n - 1) /\ Cardinality(0 .. n - 1) = n
               /\ Plain(s) => Places(s) = {1}
<1> DEFINE n == Cardinality(InstIds(s))
<1>1. IsFiniteSet(InstIds(s)) /\ (Plain(s) => n = 1)
  <2>1. CASE Plain(s)
    BY <2>1, FS_Singleton DEF InstIds
  <2>2. CASE ~ Plain(s)
    <3>1. NumInst - 1 \in Int
      BY BoundsAssumption
    <3> QED BY <2>2, <3>1, FS_Interval DEF InstIds
  <2> QED BY <2>1, <2>2
<1>2. n \in Nat
  BY <1>1, FS_CardinalityType
<1>3. Places(s) = 1 .. n
  BY DEF Places
<1> HIDE DEF n
<1>4. IsFiniteSet(1 .. n) /\ Cardinality(1 .. n) = n
  <2>1. /\ IsFiniteSet(1 .. n) /\ Cardinality(1 .. n) = IF 1 > n THEN 0 ELSE n - 1 + 1
    BY <1>2, FS_Interval
  <2> QED BY <1>2, <2>1
<1>5. n # 0 => IsFiniteSet(0 .. n - 1) /\ Cardinality(0 .. n - 1) = n
  <2>1. n - 1 \in Int
    BY <1>2
  <2>2. IsFiniteSet(0 .. n - 1) /\ Cardinality(0 .. n - 1) = IF 0 > n - 1 THEN 0 ELSE n - 1 - 0 + 1
    BY <2>1, FS_Interval
  <2> QED BY <1>2, <2>2
<1>6. Plain(s) => Places(s) = {1}
  BY <1>1, <1>3
<1>7. /\ n \in Nat /\ IsFiniteSet(Places(s)) /\ Cardinality(Places(s)) = n
      /\ n # 0 => IsFiniteSet(0 .. n - 1) /\ Cardinality(0 .. n - 1) = n
      /\ Plain(s) => Places(s) = {1}
  BY <1>2, <1>3, <1>4, <1>5, <1>6
<1> QED BY <1>7 DEF n

LEMMA Ranks ==
    ASSUME NEW d, NEW s, Placed(d, s)
    PROVE  /\ \A k \in Places(s) : Rank(d, s, k) \in 0 .. Cardinality(InstIds(s)) - 1
           /\ \A j, k \in Places(s) : Rank(d, s, j) = Rank(d, s, k) => j = k
           /\ \A r \in 0 .. Cardinality(InstIds(s)) - 1 : \E k \in Places(s) : Rank(d, s, k) = r
<1> DEFINE n == Cardinality(InstIds(s))
           P == Places(s)
           id(k) == d.inst[s][k].id
           B(k) == {j \in P : id(j) < id(k)}
           f == [k \in P |-> Rank(d, s, k)]
<1>1. n \in Nat /\ IsFiniteSet(P) /\ Cardinality(P) = n
      /\ (n # 0 => IsFiniteSet(0 .. n - 1) /\ Cardinality(0 .. n - 1) = n)
  BY PlaceCount
<1>2. \A k \in P : id(k) \in Int
  BY DEF Placed, Inst, Id, DefaultId
<1>3. \A k \in P : Rank(d, s, k) = Cardinality(B(k))
  BY DEF Rank, Insts, Placed
<1>4. \A j, k \in P : id(j) = id(k) => j = k
  BY DEF Placed
<1> HIDE DEF n, P, id
<1>5. ASSUME NEW k \in P
      PROVE  IsFiniteSet(B(k)) /\ Cardinality(B(k)) \in 0 .. n - 1 /\ n # 0
  <2>1. B(k) \subseteq P /\ k \notin B(k)
    BY <1>2
  <2>2. IsFiniteSet(B(k)) /\ Cardinality(B(k)) <= n /\ (n = Cardinality(B(k)) => P = B(k))
    BY <1>1, <2>1, FS_Subset
  <2>3. Cardinality(B(k)) # n
    BY <2>1, <2>2
  <2>4. Cardinality(B(k)) \in Nat
    BY <2>2, FS_CardinalityType
  <2> QED BY <1>1, <2>2, <2>3, <2>4
<1>6. ASSUME NEW j \in P, NEW k \in P, id(j) < id(k)
      PROVE  Cardinality(B(j)) # Cardinality(B(k))
  <2>1. B(j) \subseteq B(k) /\ j \in B(k) /\ j \notin B(j)
    BY <1>2, <1>6
  <2>2. Cardinality(B(k)) = Cardinality(B(j)) => B(k) = B(j)
    BY <1>5, <2>1, FS_Subset
  <2> QED BY <2>1, <2>2
<1>7. ASSUME NEW j \in P, NEW k \in P, Cardinality(B(j)) = Cardinality(B(k))
      PROVE  j = k
  <2>1. ~ (id(j) < id(k)) /\ ~ (id(k) < id(j))
    BY <1>6, <1>7
  <2> QED BY <1>2, <1>4, <2>1
<1> HIDE DEF B
<1>8. ASSUME NEW r \in 0 .. n - 1 PROVE \E k \in P : Rank(d, s, k) = r
  <2>1. n # 0
    BY <1>1
  <2>2. f \in [P -> 0 .. n - 1]
    BY <1>3, <1>5
  <2>3. f \in Injection(P, 0 .. n - 1)
    BY <1>3, <1>7, <2>2 DEF Injection, IsInjective
  <2>4. f \in Surjection(P, 0 .. n - 1)
    BY <1>1, <2>1, <2>3, FS_Injection
  <2>5. \E k \in P : f[k] = r
    BY <2>4 DEF Surjection
  <2> QED BY <2>5
<1> QED BY <1>3, <1>5, <1>7, <1>8 DEF n, P

------------------------------------------------------------------------------
\* _reserved_inst and _init_inst, _add_idmap.

\* All that is used of a device but its instances is the same in e.
SameTables(d, e) ==
    /\ Shaped(e) /\ e.map = d.map /\ e.active = d.active /\ e.reserve = d.reserve
    /\ e.count = d.count

LEMMA TablesKept ==
    ASSUME NEW d, Tables(d), NEW e, SameTables(d, e)
    PROVE  Tables(e) /\ InUse(e) = InUse(d)
BY DEF Tables, SameTables, InUse

LEMMA LowestIdle ==
    ASSUME NEW d, NEW s, Placed(d, s), Idle(d, s) # {}
    PROVE  \E k \in Idle(d, s) : \A j \in Idle(d, s) : Rank(d, s, k) <= Rank(d, s, j)
<1> DEFINE R == {Rank(d, s, k) : k \in Idle(d, s)}
<1>1. Idle(d, s) \subseteq Places(s)
  BY DEF Idle, Insts, Placed
<1>2. \A k \in Idle(d, s) : Rank(d, s, k) \in Nat
  BY <1>1, Ranks
<1>3. R \in SUBSET Nat /\ R # {}
  BY <1>2
<1>4. PICK r \in R : \A q \in R : r <= q
  BY <1>3, LeastElement
<1>5. PICK k \in Idle(d, s) : r = Rank(d, s, k)
  BY <1>4
<1> QED BY <1>4, <1>5

\* An instance that is not renamed is the one that was found idle.
LEMMA ReservedFirst ==
    ASSUME NEW d, NEW s, Placed(d, s), NEW r, r = ReservedInst(d, s, None)
    PROVE  \/ Idle(d, s) = {} /\ r.inst = None /\ r.dev = d
           \/ r.inst \in Idle(d, s) /\ r.inst \in Places(s) /\ r.dev = d
<1> DEFINE k == CHOOSE j \in Idle(d, s) : \A i \in Idle(d, s) : Rank(d, s, j) <= Rank(d, s, i)
<1>1. CASE Idle(d, s) = {}
  BY <1>1 DEF ReservedInst
<1>2. CASE Idle(d, s) # {}
  <2>1. k \in Idle(d, s)
    BY <1>2, LowestIdle
  <2> HIDE DEF k
  <2>2. k \in Places(s)
    BY <2>1 DEF Idle, Insts, Placed
  <2>3. AtRank(d, s, Rank(d, s, k)) = k
    BY <2>2, Ranks DEF AtRank, Insts, Placed
  <2>4. r.dev = d /\ r.inst = AtRank(d, s, Rank(d, s, k))
    BY <1>2 DEF ReservedInst, k
  <2> QED BY <2>1, <2>2, <2>3, <2>4
<1> QED BY <1>1, <1>2

\* Signal s has an instance renamed, which was idle.
Renamed(d, e, s) ==
    /\ SameTables(d, e) /\ e.entry = d.entry
    /\ \E k \in Idle(d, s), id \in Id :
           /\ FindInstById(d, s, id) = {}
           /\ e.inst = [d.inst EXCEPT ![s][k].id = id]

LEMMA RenamedKeeps ==
    ASSUME NEW d, Right(d), NEW e, NEW s \in Sigs, Renamed(d, e, s), s \in setup.outputs => Plain(s)
    PROVE  /\ Right(e) /\ Stays(d, e) /\ InUse(e) = InUse(d)
           /\ \A j \in Places(s) : e.inst[s][j].active = d.inst[s][j].active
<1>1. PICK k \in Idle(d, s), id \in Id :
           /\ FindInstById(d, s, id) = {}
           /\ e.inst = [d.inst EXCEPT ![s][k].id = id]
  BY DEF Renamed
<1>2. /\ Shaped(e) /\ e.map = d.map /\ e.active = d.active /\ e.reserve = d.reserve
      /\ e.count = d.count /\ e.entry = d.entry /\ Tables(e) /\ InUse(e) = InUse(d)
  BY TablesKept DEF Renamed, SameTables, Right
<1>3. /\ d.inst = [t \in Sigs |-> d.inst[t]] /\ \A t \in Sigs : d.inst[t] \in [Places(t) -> Inst]
      /\ d.entry \in [Sigs -> Seq(Entry)]
  BY DEF Right, Signals
<1>4. k \in Places(s) /\ \A j \in Places(s) : d.inst[s][j].id # id
  BY <1>1, <1>3 DEF Idle, Insts, FindInstById
<1>5. /\ Signals(e) /\ \A t \in Sigs : t # s => e.inst[t] = d.inst[t]
      /\ \A j \in Places(s) : /\ e.inst[s][j].active = d.inst[s][j].active
                              /\ e.inst[s][j].id = IF j = k THEN id ELSE d.inst[s][j].id
  <2> DEFINE r == [d.inst[s][k] EXCEPT !.id = id]
  <2>1. d.inst[s] \in [Places(s) -> Inst] /\ d.inst[s][k] \in Inst
    BY <1>3, <1>4
  <2>2. r \in Inst /\ r.id = id /\ r.active = d.inst[s][k].active
    BY <2>1 DEF Inst
  <2> HIDE DEF r
  <2>3. e.inst = [d.inst EXCEPT ![s] = [d.inst[s] EXCEPT ![k] = r]]
    BY <1>1 DEF r
  <2>4. [d.inst[s] EXCEPT ![k] = r] \in [Places(s) -> Inst]
    BY <1>4, <2>1, <2>2
  <2>5. /\ e.inst = [t \in Sigs |-> e.inst[t]] /\ e.inst[s] = [d.inst[s] EXCEPT ![k] = r]
        /\ \A t \in Sigs : t # s => e.inst[t] = d.inst[t]
    BY <1>3, <2>3
  <2>6. \A t \in Sigs : e.inst[t] \in [Places(t) -> Inst]
    BY <1>3, <2>4, <2>5
  <2>7. ASSUME NEW j \in Places(s)
        PROVE  /\ e.inst[s][j].active = d.inst[s][j].active
               /\ e.inst[s][j].id = IF j = k THEN id ELSE d.inst[s][j].id
    <3>1. e.inst[s][j] = IF j = k THEN r ELSE d.inst[s][j]
      BY <2>1, <2>5
    <3> QED BY <2>2, <3>1
  <2> QED BY <1>2, <1>3, <2>5, <2>6, <2>7 DEF Signals
<1>6. \A t \in Sigs : Entries(e, t) = Entries(d, t) /\ \A i \in Entries(d, t) : GidAt(e, t, i) = GidAt(d, t, i)
  BY <1>2 DEF Entries, GidAt
<1>7. Counted(e) /\ Named(e)
  <2>1. \A m : Uses(e, m) = Uses(d, m) /\ Holding(e, m) = Holding(d, m) /\ Awaiting(e, m) = Awaiting(d, m)
    BY <1>2, SameEntries
  <2>2. Counted(d) /\ Named(d)
    BY DEF Right
  <2>3. Counted(e)
    BY <1>2, <2>1, <2>2 DEF Counted
  <2> QED BY <1>2, <2>2, <2>3 DEF Named
<1>8. SigRight(e, s)
  <2>1. SigRight(d, s)
    BY DEF Right
  <2>2. \A i \in Entries(e, s) : Kept(e, s, e.entry[s][i])
    BY <1>2, <1>6, <2>1 DEF SigRight, Kept
  <2>3. Alone(e, s)
    BY <1>2, <1>6, <2>1 DEF SigRight, Alone
  <2>4. Owned(e, s)
    BY <1>2, <1>5, <1>6, <2>1 DEF SigRight, Owned
  <2>5. Labelled(e, s)
    <3>1. \A i, j \in Places(s) : e.inst[s][i].id = e.inst[s][j].id => i = j
      BY <1>4, <1>5, <2>1 DEF SigRight, Labelled
    <3> QED BY <1>2, <1>6, <2>1, <3>1 DEF SigRight, Labelled
  <2> QED BY <2>2, <2>3, <2>4, <2>5 DEF SigRight
<1>9. ASSUME NEW t \in Sigs, t # s PROVE SigRight(e, t)
  <2>1. SigRight(d, t)
    BY DEF Right
  <2>2. \A i \in Entries(d, t) : d.entry[t][i].map # None => Same(d, e, d.entry[t][i].map)
    BY <1>2, <2>1 DEF SigRight, Kept, Same
  <2>3. e.entry[t] = d.entry[t] /\ e.inst[t] = d.inst[t]
    BY <1>2, <1>5, <1>9
  <2> QED BY <2>1, <2>2, <2>3, OtherSig
<1>10. Stays(d, e)
  BY <1>2, <1>6 DEF Stays
<1> QED BY <1>2, <1>5, <1>7, <1>8, <1>9, <1>10 DEF Right

LEMMA RightPlaced ==
    ASSUME NEW d, Right(d), NEW s \in Sigs
    PROVE  Placed(d, s) /\ Insts(d, s) = Places(s) /\ d.inst[s] \in [Places(s) -> Inst]
BY DEF Right, Signals, SigRight, Labelled, Placed, Insts

LEMMA ReservedNamed ==
    ASSUME NEW d, Right(d), NEW s \in Sigs, s \in setup.outputs => Plain(s),
           NEW id \in Id, FindInstById(d, s, id) = {}, NEW r, r = ReservedInst(d, s, id)
    PROVE  \/ Idle(d, s) = {} /\ r.inst = None /\ r.dev = d
           \/ Idle(d, s) # {} /\ Renamed(d, r.dev, s) /\ r.inst \in Places(s)
<1> DEFINE k == CHOOSE j \in Idle(d, s) : \A i \in Idle(d, s) : Rank(d, s, j) <= Rank(d, s, i)
           e == [d EXCEPT !.inst[s][k].id = id]
<1>0. id # None
  BY DEF Id, DefaultId, None
<1>1. CASE Idle(d, s) = {}
  BY <1>1 DEF ReservedInst
<1>2. CASE Idle(d, s) # {}
  <2>1. k \in Idle(d, s)
    BY <1>2, LowestIdle, RightPlaced
  <2>2. r.dev = e /\ r.inst = AtRank(e, s, Rank(d, s, k))
    BY <1>0, <1>2 DEF ReservedInst
  <2> HIDE DEF k
  <2>3. /\ Shaped(e) /\ e.map = d.map /\ e.active = d.active /\ e.reserve = d.reserve
        /\ e.count = d.count /\ e.entry = d.entry /\ e.inst = [d.inst EXCEPT ![s][k].id = id]
    BY DEF Right, Shaped
  <2>4. Renamed(d, e, s)
    BY <2>1, <2>3 DEF Renamed, SameTables
  <2> HIDE DEF e
  <2>5. k \in Places(s)
    BY <2>1, RightPlaced DEF Idle
  <2>6. Right(e)
    BY <2>4, RenamedKeeps
  <2>7. Rank(d, s, k) \in 0 .. Cardinality(InstIds(s)) - 1
    BY <2>5, Ranks, RightPlaced
  <2>8. \E l \in Insts(e, s) : Rank(e, s, l) = Rank(d, s, k)
    BY <2>6, <2>7, Ranks, RightPlaced
  <2>9. AtRank(e, s, Rank(d, s, k)) \in Places(s)
    BY <2>6, <2>8, RightPlaced DEF AtRank
  <2> QED BY <1>2, <2>2, <2>4, <2>9
<1> QED BY <1>0, <1>1, <1>2

\* _init_inst, _add_idmap.
LEMMA EntryAdded ==
    ASSUME NEW d, Shaped(d), Signals(d), NEW s \in Sigs,
           Plain(s) => Len(d.entry[s]) = 1 /\ d.entry[s][1].map = None,
           NEW k \in Int, NEW m \in Int, NEW by \in {"app", "net"}, NEW e, e = AddEntry(d, s, k, m, by)
    PROVE  SameTables(d, e) /\ \E i : EntryPut(d, e, s, k, i, m, by)
<1> DEFINE free == {i \in Entries(d, s) : d.entry[s][i].map = None}
           x == [map |-> m, inst |-> k, rl |-> FALSE, rr |-> FALSE, by |-> by]
           a == d.entry[s]
           z == IF free = {} THEN Append(a, x) ELSE [a EXCEPT ![Least(free)] = x]
           o == Append(SelectSeq(d.order[s], LAMBDA y : y # k), k)
           i == IF free = {} THEN Len(a) + 1 ELSE Least(free)
<1>1. e = [d EXCEPT !.inst[s][k].active = TRUE, !.order[s] = o, !.entry[s] = z]
  BY DEF AddEntry
<1> HIDE DEF o
<1>2. /\ Shaped(e) /\ e.map = d.map /\ e.active = d.active /\ e.reserve = d.reserve /\ e.count = d.count
      /\ e.inst = [d.inst EXCEPT ![s][k].active = TRUE] /\ e.entry = [d.entry EXCEPT ![s] = z]
  BY <1>1 DEF Shaped
<1>3. x \in Entry /\ d.entry \in [Sigs -> Seq(Entry)] /\ a \in Seq(Entry)
  BY DEF Signals, Entry
<1> HIDE DEF x
<1>4. Len(a) \in Nat /\ DOMAIN a = 1 .. Len(a) /\ Entries(d, s) = 1 .. Len(a)
  BY <1>3, LenProperties DEF Entries
<1>5. /\ z \in Seq(Entry) /\ DOMAIN z = DOMAIN a \cup {i} /\ z[i] = x
      /\ \A j \in DOMAIN a : j # i => z[j] = a[j]
      /\ i \in DOMAIN a => a[i].map = None
      /\ free # {} => Len(z) = Len(a)
  <2>1. CASE free = {}
    <3>1. z = Append(a, x) /\ i = Len(a) + 1
      BY <2>1
    <3> HIDE DEF a, i, z
    <3>2. /\ z \in Seq(Entry) /\ Len(z) = Len(a) + 1 /\ z[Len(a) + 1] = x
          /\ \A j \in 1 .. Len(a) : z[j] = a[j]
      BY <1>3, <3>1, AppendProperties
    <3>3. DOMAIN z = 1 .. Len(a) + 1
      BY <3>2, LenProperties
    <3>4. DOMAIN z = DOMAIN a \cup {i}
      BY <1>4, <3>1, <3>3
    <3>5. i \notin DOMAIN a
      BY <1>4, <3>1
    <3>6. z[i] = x /\ \A j \in DOMAIN a : z[j] = a[j]
      BY <1>4, <3>1, <3>2
    <3> HIDE DEF free
    <3> QED BY <2>1, <3>2, <3>4, <3>5, <3>6
  <2>2. CASE free # {}
    <3>1. free \in SUBSET Nat
      BY <1>4
    <3>2. Least(free) \in free
      BY <2>2, <3>1, LeastIs
    <3>3. z = [a EXCEPT ![i] = x] /\ i = Least(free)
      BY <2>2
    <3>4. i \in 1 .. Len(a) /\ a[i].map = None
      BY <1>4, <3>2, <3>3
    <3> HIDE DEF a, i, z, free
    <3>5. /\ z \in Seq(Entry) /\ Len(z) = Len(a) /\ DOMAIN z = 1 .. Len(a)
      BY <1>3, <3>3, <3>4, ExceptSeq, LenProperties
    <3>6. \A j \in 1 .. Len(a) : z[j] = IF j = i THEN x ELSE a[j]
      BY <1>4, <3>3
    <3> QED BY <1>4, <3>4, <3>5, <3>6
  <2> QED BY <2>1, <2>2
<1>6. Plain(s) => Len(z) = 1
  <2>1. ASSUME Plain(s) PROVE free # {}
    <3>1. Len(d.entry[s]) = 1 /\ d.entry[s][1].map = None
      BY <2>1
    <3>2. 1 \in Entries(d, s)
      BY <1>4, <3>1
    <3>3. 1 \in free
      BY <3>1, <3>2
    <3> QED BY <3>3
  <2> QED BY <1>5, <2>1
<1> HIDE DEF i, z
<1>7. /\ e.entry \in [Sigs -> Seq(Entry)] /\ e.entry[s] = z
      /\ \A t \in Sigs : t # s => e.entry[t] = d.entry[t]
  BY <1>2, <1>3, <1>5
<1>8. EntryPut(d, e, s, k, i, m, by)
  BY <1>2, <1>5, <1>6, <1>7 DEF EntryPut, OnlyAt, Entries, x
<1> QED BY <1>2, <1>8 DEF SameTables

LEMMA PlainFree ==
    ASSUME NEW d, Right(d), NEW s \in Sigs, Plain(s), NEW k \in Places(s), ~ d.inst[s][k].active
    PROVE  Len(d.entry[s]) = 1 /\ d.entry[s][1].map = None
<1>1. Places(s) = {1} /\ k = 1
  BY PlaceCount
<1>2. Len(d.entry[s]) = 1 /\ d.entry[s] \in Seq(Entry)
  BY DEF Right, SigRight, Alone, Signals
<1>3. 1 \in Entries(d, s)
  BY <1>2, LenProperties DEF Entries
<1>4. d.entry[s][1].inst = None
  BY <1>1, <1>3 DEF Right, SigRight, Owned, Kept
<1>5. d.entry[s][1].map = None
  BY <1>3, <1>4 DEF Right, SigRight, Kept
<1> QED BY <1>2, <1>5

LEMMA PutSame ==
    ASSUME NEW c, NEW d, NEW e, NEW f, c.inst = d.inst, c.entry = d.entry,
           e.inst = f.inst, e.entry = f.entry,
           NEW s \in Sigs, NEW k, NEW i, NEW m, NEW by, EntryPut(c, e, s, k, i, m, by)
    PROVE  EntryPut(d, f, s, k, i, m, by)
BY DEF EntryPut, OnlyAt, Entries

\* Both counters of an id map, or the first, are raised.
Raised(d, m, by) == IF by = "app" THEN LIDIncref(d, m) ELSE GIDIncref(LIDIncref(d, m), m)

More(d, e, m, g) ==
    /\ Shaped(e) /\ Tables(e) /\ InUse(e) = InUse(d)
    /\ e.inst = d.inst /\ e.entry = d.entry /\ e.count = d.count
    /\ e.map[m] = [lid |-> d.map[m].lid, gid |-> d.map[m].gid,
                   lref |-> d.map[m].lref + 1, gref |-> d.map[m].gref + g]
    /\ \A x \in DOMAIN d.map : x # m => e.map[x] = d.map[x]

LEMMA Incref ==
    ASSUME NEW d, Shaped(d), Tables(d), NEW m \in DOMAIN d.map, NEW by \in {"app", "net"}
    PROVE  More(d, Raised(d, m, by), m, One(by))
<1> DEFINE e == Raised(d, m, by)
           x == d.map[m]
           r == [x EXCEPT !.lref = x.lref + 1]
           a == [d EXCEPT !.map[m] = r]
           q == [r EXCEPT !.gref = r.gref + 1]
           b == [a EXCEPT !.map[m] = q]
<1>1. x \in IdMap
  BY Memory
<1>2. /\ r = [lid |-> x.lid, gid |-> x.gid, lref |-> x.lref + 1, gref |-> x.gref] /\ r \in IdMap
  BY <1>1 DEF IdMap
<1>3. LIDIncref(d, m) = a
  BY DEF LIDIncref
<1> HIDE DEF x, r
<1>4. q = [lid |-> x.lid, gid |-> x.gid, lref |-> x.lref + 1, gref |-> x.gref + 1] /\ q \in IdMap
  BY <1>1, <1>2 DEF IdMap
<1> SUFFICES More(d, e, m, One(by))
  OBVIOUS
<1> HIDE DEF q, a, e
<1>5. a = [d EXCEPT !.map[m] = r]
  BY DEF a
<1>6. /\ Shaped(a) /\ Tables(a) /\ a.inst = d.inst /\ a.entry = d.entry /\ a.count = d.count
      /\ InUse(a) = InUse(d) /\ DOMAIN a.map = DOMAIN d.map
      /\ \A y \in DOMAIN d.map : a.map[y] = IF y = m THEN r ELSE d.map[y]
  BY <1>2, <1>5, Recounted
<1>7. CASE by = "app"
  <2>1. e = a /\ e.map[m] = r
    BY <1>3, <1>6, <1>7 DEF Raised, e
  <2>2. e.map[m] = [lid |-> x.lid, gid |-> x.gid, lref |-> x.lref + 1, gref |-> x.gref + One(by)]
    BY <1>1, <1>2, <1>7, <2>1 DEF One, IdMap
  <2> QED BY <1>6, <2>1, <2>2 DEF More, x
<1>8. CASE by = "net"
  <2>1. e = GIDIncref(a, m)
    BY <1>3, <1>8 DEF Raised, e
  <2>2. e = [a EXCEPT !.map[m] = q]
    BY <1>6, <2>1 DEF GIDIncref, q
  <2>3. /\ Shaped(e) /\ Tables(e) /\ e.inst = a.inst /\ e.entry = a.entry /\ e.count = a.count
        /\ InUse(e) = InUse(a)
        /\ \A y \in DOMAIN a.map : e.map[y] = IF y = m THEN q ELSE a.map[y]
    BY <1>4, <1>6, <2>2, Recounted
  <2> QED BY <1>4, <1>6, <1>8, <2>3 DEF One, More, x
<1> QED BY <1>7, <1>8

\* An instance that has an id map already is claimed, by the application or by a message.
LEMMA ClaimedShared ==
    ASSUME NEW d, Right(d), NEW s \in Sigs, NEW k \in Places(s), ~ d.inst[s][k].active,
           NEW m \in InUse(d), NEW by \in {"app", "net"}, NEW e,
           \/ by = "app" /\ e = AddEntry(LIDIncref(d, m), s, k, m, "app")
           \/ by = "net" /\ e = GIDIncref(LIDIncref(AddEntry(d, s, k, m, "net"), m), m)
    PROVE  /\ \E i : Claimed(d, e, s, k, i, m, by)
           /\ e.map[m].lid = d.map[m].lid /\ e.map[m].gid = d.map[m].gid
<1> DEFINE r == [lid |-> d.map[m].lid, gid |-> d.map[m].gid,
                 lref |-> d.map[m].lref + 1, gref |-> d.map[m].gref + One(by)]
<1>1. m \in DOMAIN d.map /\ d.map[m] \in IdMap /\ m \in Int /\ InUse(d) \subseteq DOMAIN d.map
  BY Memory DEF Right
<1>2. r \in IdMap /\ r.lid = d.map[m].lid /\ r.gid = d.map[m].gid
  BY <1>1 DEF IdMap, One
<1>3. Shaped(d) /\ Tables(d) /\ Signals(d) /\ d.count \in Nat /\ k \in Int
  BY DEF Right, Tables, Places
<1>4. Plain(s) => Len(d.entry[s]) = 1 /\ d.entry[s][1].map = None
  BY PlainFree
<1>5. /\ Shaped(e) /\ Tables(e) /\ e.count = d.count /\ InUse(e) = InUse(d)
      /\ \A x \in DOMAIN d.map : e.map[x] = IF x = m THEN r ELSE d.map[x]
      /\ \E i : EntryPut(d, e, s, k, i, m, by)
  <2>1. CASE by = "app" /\ e = AddEntry(LIDIncref(d, m), s, k, m, "app")
    <3> DEFINE a == LIDIncref(d, m)
    <3>2. e = AddEntry(a, s, k, m, by)
      BY <2>1
    <3>0. a = Raised(d, m, by)
      BY <2>1 DEF Raised
    <3> HIDE DEF a, r
    <3>1. /\ Shaped(a) /\ Tables(a) /\ InUse(a) = InUse(d)
          /\ a.inst = d.inst /\ a.entry = d.entry /\ a.count = d.count
          /\ a.map[m] = r /\ \A x \in DOMAIN d.map : x # m => a.map[x] = d.map[x]
      BY <1>1, <1>3, <3>0, Incref DEF r, More
    <3>3. Signals(a)
      BY <1>3, <3>1 DEF Signals
    <3>4. Plain(s) => Len(a.entry[s]) = 1 /\ a.entry[s][1].map = None
      BY <1>4, <3>1
    <3>5. SameTables(a, e) /\ \E i : EntryPut(a, e, s, k, i, m, by)
      BY <1>1, <1>3, <3>1, <3>2, <3>3, <3>4, EntryAdded
    <3>6. \E i : EntryPut(d, e, s, k, i, m, by)
      BY <3>1, <3>5, PutSame
    <3> QED BY <3>1, <3>5, <3>6, TablesKept DEF SameTables
  <2>2. CASE by = "net" /\ e = GIDIncref(LIDIncref(AddEntry(d, s, k, m, "net"), m), m)
    <3> DEFINE a == AddEntry(d, s, k, m, by)
    <3>1. SameTables(d, a) /\ \E i : EntryPut(d, a, s, k, i, m, by)
      BY <1>1, <1>3, <1>4, EntryAdded
    <3>2. e = GIDIncref(LIDIncref(a, m), m)
      BY <2>2
    <3> HIDE DEF a, r
    <3>3. Shaped(a) /\ Tables(a) /\ InUse(a) = InUse(d) /\ a.map = d.map /\ a.count = d.count
      BY <1>3, <3>1, TablesKept DEF SameTables
    <3>4. /\ Shaped(e) /\ Tables(e) /\ InUse(e) = InUse(a)
          /\ e.inst = a.inst /\ e.entry = a.entry /\ e.count = a.count
          /\ e.map[m] = r /\ \A x \in DOMAIN a.map : x # m => e.map[x] = a.map[x]
      <4>1. e = Raised(a, m, by)
        BY <2>2, <3>2 DEF Raised
      <4>2. m \in DOMAIN a.map
        BY <1>1, <3>3
      <4>3. More(a, e, m, One(by))
        BY <3>3, <4>1, <4>2, Incref
      <4> QED BY <3>3, <4>3 DEF r, More
    <3>5. \E i : EntryPut(d, e, s, k, i, m, by)
      BY <3>1, <3>4, PutSame
    <3> QED BY <3>3, <3>4, <3>5
  <2> QED BY <2>1, <2>2
<1>6. PICK i : EntryPut(d, e, s, k, i, m, by)
  BY <1>5
<1>7. e.count >= d.count /\ InUse(e) = InUse(d) \cup {m} /\ e.map[m] = r
      /\ \A x \in InUse(d) \ {m} : e.map[x] = d.map[x]
  BY <1>1, <1>3, <1>5
<1>8. Claimed(d, e, s, k, i, m, by)
  BY <1>5, <1>6, <1>7 DEF Claimed
<1> QED BY <1>2, <1>7, <1>8

\* An instance gets an id map of its own.
LEMMA ClaimedNew ==
    ASSUME NEW d, Right(d), NEW s \in Sigs, NEW k \in Places(s), ~ d.inst[s][k].active,
           NEW id \in Id, NEW g \in Nat \cup {None}, NEW by \in {"app", "net"},
           NEW a, a = AddIdMap(d, id, g, One(by)), NEW e, e = AddEntry(a, s, k, a.active[1], by),
           g = None => e.count <= MaxGid,
           g # None => g > MaxGid /\ \A x \in InUse(d) : d.map[x].gid # g
    PROVE  \E i, m : /\ Claimed(d, e, s, k, i, m, by) /\ m \notin InUse(d)
                     /\ e.map[m].lid = id /\ (g # None => e.map[m].gid = g)
<1> DEFINE m == a.active[1]
<1>1. Shaped(d) /\ Tables(d) /\ Signals(d) /\ Named(d) /\ d.count \in Nat /\ k \in Int
  BY DEF Right, Tables, Places
<1>2. One(by) \in Nat
  BY DEF One
<1>3. /\ Shaped(a) /\ Tables(a) /\ a.inst = d.inst /\ a.entry = d.entry
      /\ m \in InUse(a) \ InUse(d) /\ InUse(a) = InUse(d) \cup {m}
      /\ \A x \in InUse(d) : a.map[x] = d.map[x]
      /\ a.map[m] = [lid |-> id, gid |-> IF g = None THEN d.count + 1 ELSE g,
                     lref |-> 1, gref |-> One(by)]
      /\ a.count = IF g = None THEN d.count + 1 ELSE d.count
  BY <1>1, <1>2, Added
<1>4. e = AddEntry(a, s, k, m, by)
  OBVIOUS
<1> HIDE DEF m
<1>5. Signals(a) /\ m \in Int
  BY <1>1, <1>3, Memory DEF Signals
<1>6. Plain(s) => Len(a.entry[s]) = 1 /\ a.entry[s][1].map = None
  BY <1>3, PlainFree
<1>7. SameTables(a, e) /\ \E i : EntryPut(a, e, s, k, i, m, by)
  BY <1>1, <1>3, <1>4, <1>5, <1>6, EntryAdded
<1>8. PICK i : EntryPut(d, e, s, k, i, m, by)
  BY <1>3, <1>7, PutSame
<1>9. /\ Shaped(e) /\ Tables(e) /\ InUse(e) = InUse(d) \cup {m} /\ e.map = a.map /\ e.count = a.count
  BY <1>3, <1>7, TablesKept DEF SameTables
<1>10. \A x \in InUse(d) : d.map[x].gid # e.map[m].gid /\ (e.map[m].gid <= MaxGid => e.map[m].gid <= e.count)
  <2>1. CASE g = None
    <3>1. e.map[m].gid = d.count + 1 /\ e.count = d.count + 1 /\ d.count + 1 <= MaxGid
      BY <1>3, <1>9, <2>1
    <3>2. \A x \in InUse(d) : d.map[x].gid <= MaxGid => d.map[x].gid <= d.count
      BY <1>1 DEF Named
    <3>3. \A x \in InUse(d) : d.map[x].gid \in Nat
      BY <1>1, Memory DEF IdMap
    <3> QED BY <1>1, <3>1, <3>2, <3>3
  <2>2. CASE g # None
    <3>1. MaxGid \in Nat /\ g \in Nat
      BY <2>2, BoundsAssumption
    <3> QED BY <1>3, <1>9, <2>2, <3>1
  <2> QED BY <2>1, <2>2
<1>11. e.map[m].gid <= MaxGid => e.map[m].gid <= e.count
  <2>1. CASE g = None
    BY <1>1, <1>3, <1>9, <2>1
  <2>2. CASE g # None
    BY <1>3, <1>9, <2>2, BoundsAssumption
  <2> QED BY <2>1, <2>2
<1>12. /\ m \notin InUse(d) /\ e.count >= d.count /\ e.map[m].lref = 1 /\ e.map[m].gref = One(by)
       /\ \A x \in InUse(d) \ {m} : e.map[x] = d.map[x]
  BY <1>1, <1>3, <1>9
<1>13. Claimed(d, e, s, k, i, m, by)
  BY <1>8, <1>9, <1>10, <1>11, <1>12 DEF Claimed
<1>14. e.map[m].lid = id /\ (g # None => e.map[m].gid = g)
  BY <1>3, <1>9
<1> QED BY <1>12, <1>13, <1>14



------------------------------------------------------------------------------
\* mpr_sig_get_idmap_with_LID.

\* The signals of a device that is used as Regular says.
LEMMA Use ==
    ASSUME setup \in Setups, Regular
    PROVE  /\ setup.inputs \cap setup.outputs = {}
           /\ setup.direct \subseteq setup.inputs /\ setup.direct \subseteq setup.plain
           /\ setup.upstream \subseteq setup.outputs
           /\ setup.remove = "never"
           /\ \A s \in setup.inputs : \A g \in setup.senders[s] : g \in Nat /\ g > MaxGid
<1>1. /\ setup.inputs \cap setup.outputs = {}
      /\ setup.senders \in [setup.inputs -> SUBSET {g \in Nat : g > MaxGid}]
      /\ setup.direct \subseteq setup.inputs /\ setup.upstream \subseteq setup.outputs
  BY SetupsAssumption
<1> QED BY <1>1 DEF Regular

LEMMA SomeEntries ==
    ASSUME NEW d, Right(d), NEW s \in Sigs
    PROVE  /\ Entries(d, s) \in SUBSET Nat /\ None \notin Entries(d, s)
           /\ \A i \in Entries(d, s) : d.entry[s][i] \in Entry
           /\ d.entry[s] \in Seq(Entry)
<1>1. d.entry[s] \in Seq(Entry)
  BY DEF Right, Signals
<1>2. Entries(d, s) = 1 .. Len(d.entry[s]) /\ Len(d.entry[s]) \in Nat
  BY <1>1, LenProperties DEF Entries
<1>3. \A i \in Entries(d, s) : d.entry[s][i] \in Entry
  BY <1>1, <1>2
<1> QED BY <1>1, <1>2, <1>3 DEF None

LEMMA EntryOfLIDIs ==
    ASSUME NEW d, Right(d), NEW s \in Sigs, NEW id, NEW i, i = EntryOfLID(d, s, id)
    PROVE  \/ /\ i \in Entries(d, s) /\ i # None
              /\ d.entry[s][i].inst # None /\ d.map[d.entry[s][i].map].lid = id
           \/ /\ i = None
              /\ \A j \in Entries(d, s) :
                     d.entry[s][j].inst # None => d.map[d.entry[s][j].map].lid # id
<1> DEFINE S == {j \in Entries(d, s) : d.entry[s][j].inst # None /\ d.map[d.entry[s][j].map].lid = id}
<1>1. S \in SUBSET Nat /\ i = First(S)
  BY SomeEntries DEF EntryOfLID
<1>2. CASE S = {}
  BY <1>1, <1>2, FirstIs
<1>3. CASE S # {}
  <2>1. First(S) \in S /\ First(S) # None
    BY <1>1, <1>3, FirstIs
  <2> QED BY <1>1, <2>1
<1> QED BY <1>2, <1>3

LEMMA EntryOfGIDIs ==
    ASSUME NEW d, Right(d), NEW s \in Sigs, NEW g, NEW i, i = EntryOfGID(d, s, g)
    PROVE  \/ /\ i \in Entries(d, s) /\ i # None
              /\ d.entry[s][i].map # None /\ GidAt(d, s, i) = g
           \/ /\ i = None
              /\ \A j \in Entries(d, s) : d.entry[s][j].map # None => GidAt(d, s, j) # g
<1> DEFINE S == {j \in Entries(d, s) : d.entry[s][j].map # None /\ d.map[d.entry[s][j].map].gid = g}
<1>1. S \in SUBSET Nat /\ i = First(S)
  BY SomeEntries DEF EntryOfGID
<1>2. CASE S = {}
  BY <1>1, <1>2, FirstIs DEF GidAt
<1>3. CASE S # {}
  <2>1. First(S) \in S /\ First(S) # None
    BY <1>1, <1>3, FirstIs
  <2> QED BY <1>1, <2>1 DEF GidAt
<1> QED BY <1>2, <1>3

LEMMA StaysOn ==
    ASSUME NEW c, NEW d, NEW e, Stays(c, d), Stays(d, e)
    PROVE  Stays(c, e)
<1> SUFFICES ASSUME NEW s \in Sigs, NEW i \in Entries(c, s), c.entry[s][i].rl
             PROVE  /\ i \in Entries(e, s) /\ e.entry[s][i] = c.entry[s][i]
                    /\ GidAt(e, s, i) = GidAt(c, s, i)
  BY DEF Stays
<1>1. /\ i \in Entries(d, s) /\ d.entry[s][i] = c.entry[s][i]
      /\ GidAt(d, s, i) = GidAt(c, s, i)
  BY DEF Stays
<1> QED BY <1>1 DEF Stays

\* An instance whose local id no entry holds is idle.
LEMMA IdleByLID ==
    ASSUME NEW d, Right(d), NEW s \in setup.outputs, NEW k \in Places(s), NEW id,
           id = IF Plain(s) THEN DefaultId ELSE d.inst[s][k].id,
           EntryOfLID(d, s, id) = None
    PROVE  ~ d.inst[s][k].active
<1>1. s \in Sigs
  BY DEF Sigs
<1>2. \A j \in Entries(d, s) : d.entry[s][j].inst # None => d.map[d.entry[s][j].map].lid # id
  BY <1>1, EntryOfLIDIs
<1>3. k # None
  BY DEF Places, None
<1>4. \A j \in Entries(d, s) : d.entry[s][j].inst # k
  BY <1>1, <1>2, <1>3 DEF Right, SigRight, Labelled
<1> QED BY <1>1, <1>4 DEF Right, SigRight, Owned

\* mpr_sig_get_idmap_with_LID finds the instance that is asked for, or can rename one.
LEMMA ClaimReady ==
    ASSUME setup \in Setups, Regular, NEW d, Right(d), NEW s \in setup.outputs \cup setup.direct,
           NEW id \in Id, IF Plain(s) THEN id = DefaultId ELSE id \in InstIds(s),
           EntryOfLID(d, s, id) = None,
           s \in setup.direct => \A k \in Places(s) : ~ d.inst[s][k].active
    PROVE  /\ \A j \in Places(s) : Plain(s) \/ d.inst[s][j].id = id => ~ d.inst[s][j].active
           /\ ~ Plain(s) => FindInstById(d, s, id) # {}
           /\ Plain(s) => 1 \in Places(s) /\ 1 \in Idle(d, s)
           /\ CanClaimLID(d, s, id)
<1>1. /\ s \in Sigs /\ (~ Plain(s) => s \in setup.outputs)
      /\ s \in setup.outputs \/ s \in setup.direct
  BY Use DEF Sigs, Plain
<1>2. Insts(d, s) = Places(s)
  BY <1>1, RightPlaced
<1>3. \A j \in Places(s) : Plain(s) \/ d.inst[s][j].id = id => ~ d.inst[s][j].active
  BY <1>1, IdleByLID
<1>4. ~ Plain(s) => FindInstById(d, s, id) # {}
  BY <1>1, <1>2 DEF FindInstById, Right, SigRight, Labelled
<1>5. Plain(s) => 1 \in Places(s) /\ 1 \in Idle(d, s)
  BY <1>2, <1>3, PlaceCount DEF Idle
<1> QED BY <1>3, <1>4, <1>5 DEF CanClaimLID

LEMMA ClaimLIDKeeps ==
    ASSUME setup \in Setups, Regular, NEW d, Right(d), NEW s \in setup.outputs \cup setup.direct,
           NEW id \in Id, IF Plain(s) THEN id = DefaultId ELSE id \in InstIds(s),
           EntryOfLID(d, s, id) = None,
           s \in setup.direct => \A k \in Places(s) : ~ d.inst[s][k].active,
           NEW e, e = ClaimLID(d, s, id, ByLID(d, id)), e.count <= MaxGid
    PROVE  Right(e) /\ Stays(d, e)
<1>1. /\ s \in Sigs /\ (~ Plain(s) => s \in setup.outputs) /\ (s \in setup.inputs => Plain(s))
      /\ s \in setup.outputs \/ s \in setup.direct
  BY Use DEF Sigs, Plain
<1> DEFINE found == FindInstById(d, s, id)
           m == ByLID(d, id)
           q == CHOOSE j \in found : TRUE
           r == IF found # {} THEN [dev |-> d, inst |-> q] ELSE ReservedInst(d, s, id)
           k == r.inst
           b == r.dev
<1>2. (m \in InUse(d) /\ m # None /\ d.map[m].lid = id) \/ m = None
  BY ByLIDIs DEF Right
<1>3. Placed(d, s) /\ Insts(d, s) = Places(s) /\ d.inst[s] \in [Places(s) -> Inst]
  BY <1>1, RightPlaced
<1>4. /\ \A j \in Places(s) : Plain(s) \/ d.inst[s][j].id = id => ~ d.inst[s][j].active
      /\ Plain(s) => 1 \in Places(s) /\ 1 \in Idle(d, s)
      /\ ~ Plain(s) => found # {}
  BY ClaimReady
<1>7. /\ Right(b) /\ Stays(d, b) /\ InUse(b) = InUse(d) /\ b.map = d.map
      /\ k \in Places(s) /\ ~ b.inst[s][k].active
      /\ ~ Plain(s) => b.inst[s][k].id = id
  <2>1. CASE found # {}
    <3>1. b = d /\ k = q /\ q \in found
      BY <2>1
    <3>2. k \in Places(s) /\ d.inst[s][k].id = id
      BY <1>3, <3>1 DEF FindInstById
    <3>3. Stays(d, d)
      BY DEF Stays
    <3> QED BY <1>4, <3>1, <3>2, <3>3
  <2>2. CASE found = {}
    <3>1. Plain(s) /\ r = ReservedInst(d, s, id) /\ Idle(d, s) # {}
      BY <1>4, <2>2
    <3>2. Renamed(d, b, s) /\ k \in Places(s)
      BY <1>1, <2>2, <3>1, ReservedNamed
    <3>3. /\ Right(b) /\ Stays(d, b) /\ InUse(b) = InUse(d)
          /\ b.inst[s][k].active = d.inst[s][k].active
      BY <1>1, <3>1, <3>2, RenamedKeeps
    <3> QED BY <1>4, <3>1, <3>2, <3>3 DEF Renamed, SameTables
  <2> QED BY <2>1, <2>2
<1>8. e = IF k = None THEN d
          ELSE IF m = None
          THEN AddEntry(AddIdMap(b, id, None, 0), s, k, AddIdMap(b, id, None, 0).active[1], "app")
          ELSE AddEntry(LIDIncref(b, m), s, k, m, "app")
  BY DEF ClaimLID
<1> HIDE DEF r, k, b, m, found
<1>10. k # None
  BY <1>7 DEF Places, None
<1>11. \E i, n : Claimed(b, e, s, k, i, n, "app") /\ e.map[n].lid = id
  <2>1. CASE m = None
    <3> DEFINE a == AddIdMap(b, id, None, 0)
    <3> DEFINE by == "app"
               g == None
    <3>1. e = AddEntry(a, s, k, a.active[1], by) /\ One(by) = 0
      BY <1>8, <1>10, <2>1 DEF One
    <3>2. a = AddIdMap(b, id, g, One(by)) /\ g = None /\ g \in Nat \cup {None}
          /\ by \in {"app", "net"}
      BY <3>1
    <3> HIDE DEF a, by, g
    <3>3. \E i, n : /\ Claimed(b, e, s, k, i, n, by) /\ n \notin InUse(b)
                    /\ e.map[n].lid = id /\ (g # None => e.map[n].gid = g)
      BY <1>1, <1>7, <3>1, <3>2, ClaimedNew
    <3> QED BY <3>3 DEF by
  <2>2. CASE m # None
    <3>1. e = AddEntry(LIDIncref(b, m), s, k, m, "app") /\ m \in InUse(b)
      BY <1>2, <1>7, <1>8, <1>10, <2>2
    <3> QED BY <1>1, <1>2, <1>7, <2>2, <3>1, ClaimedShared
  <2> QED BY <2>1, <2>2
<1>12. PICK i, n : Claimed(b, e, s, k, i, n, "app") /\ e.map[n].lid = id
  BY <1>11
<1>13. Fitting(b, e, s, k, n, "app")
  BY <1>1, <1>7, <1>12 DEF Fitting
<1>14. Right(e) /\ Stays(b, e)
  BY <1>1, <1>7, <1>12, <1>13, ClaimKeeps
<1> QED BY <1>7, <1>14, StaysOn

LEMMA ActivateLIDKeeps ==
    ASSUME setup \in Setups, Regular, NEW d, Right(d), NEW s \in setup.outputs \cup setup.direct,
           NEW id \in Id, IF Plain(s) THEN id = DefaultId ELSE id \in InstIds(s),
           s \in setup.direct => \A k \in Places(s) : ~ d.inst[s][k].active,
           NEW v, NEW e, e = ActivateLID(d, s, id, v), e.count <= MaxGid
    PROVE  Right(e) /\ Stays(d, e)
<1>1. CASE EntryOfLID(d, s, id) # None
  <2>1. e = d
    BY <1>1 DEF ActivateLID
  <2> QED BY <2>1 DEF Stays
<1>2. CASE EntryOfLID(d, s, id) = None
  <2>1. CanClaimLID(d, s, id)
    BY <1>2, ClaimReady
  <2>2. e = ClaimLID(d, s, id, ByLID(d, id))
    BY <1>2, <2>1 DEF ActivateLID
  <2> QED BY <1>2, <2>2, ClaimLIDKeeps
<1> QED BY <1>1, <1>2

LEMMA OverStays ==
    ASSUME NEW d, NEW e, NEW E, Over(d, E), Stays(d, e)
    PROVE  Over(e, E)
BY DEF Over, Stays

------------------------------------------------------------------------------
\* An entry gives up its instance, its wait for the sender, or both.

Waits(x) == x.by = "net" /\ ~ x.rr

Replaced(d, f, s, i, y) == f.entry = [d.entry EXCEPT ![s][i] = y]

LetGo(d, f, s, i, y, l, g) ==
    /\ Shaped(f) /\ Tables(f) /\ f.count = d.count /\ Replaced(d, f, s, i, y)
    /\ f.inst = IF d.entry[s][i].inst # None /\ y.inst = None
                THEN [d.inst EXCEPT ![s][d.entry[s][i].inst].active = FALSE] ELSE d.inst
    /\ \A n \in InUse(d) \ {d.entry[s][i].map} : f.map[n] = d.map[n]
    /\ f.map[d.entry[s][i].map].lref = l /\ f.map[d.entry[s][i].map].gref = g
    /\ f.map[d.entry[s][i].map].lid = d.map[d.entry[s][i].map].lid
    /\ f.map[d.entry[s][i].map].gid = d.map[d.entry[s][i].map].gid
    /\ InUse(f) = IF l = 0 /\ g = 0 THEN InUse(d) \ {d.entry[s][i].map} ELSE InUse(d)

\* What y, which takes the place of x, keeps of it, and what is left of the counters.
Less2(d, s, x, y, l, g) ==
    /\ x.map # None /\ y \in Entry /\ y.map \in {x.map, None} /\ y.inst \in {x.inst, None}
    /\ y.inst # None => y.map # None
    /\ y.rl <=> y.map # None /\ y.inst = None
    /\ y.rl => s \in setup.inputs /\ ~ Plain(s) /\ Waits(y)
    /\ y.map # None => y.by = x.by
    /\ l = IF x.inst # None /\ y.inst = None THEN d.map[x.map].lref - 1 ELSE d.map[x.map].lref
    /\ g = IF Waits(x) /\ ~ (Waits(y) /\ y.map # None) THEN d.map[x.map].gref - 1 ELSE d.map[x.map].gref
    /\ Waits(y) /\ y.map # None => Waits(x)

LEMMA GoneAt ==
    ASSUME NEW d, Right(d), NEW s \in Sigs, NEW i \in Entries(d, s), NEW y \in Entry,
           NEW f, Replaced(d, f, s, i, y)
    PROVE  /\ OnlyAt(d, f, s, i) /\ f.entry[s][i] = y /\ f.entry \in [Sigs -> Seq(Entry)]
           /\ Entries(f, s) = Entries(d, s) /\ Len(f.entry[s]) = Len(d.entry[s])
<1> DEFINE a == d.entry[s]
           b == [a EXCEPT ![i] = y]
<1>1. d.entry \in [Sigs -> Seq(Entry)] /\ a \in Seq(Entry)
  BY DEF Right, Signals
<1>2. f.entry = [d.entry EXCEPT ![s] = b]
  BY DEF Replaced
<1>3. DOMAIN a = 1 .. Len(a) /\ Len(a) \in Nat /\ i \in DOMAIN a
  BY <1>1, LenProperties DEF Entries
<1>4. b \in Seq(Entry) /\ Len(b) = Len(a) /\ DOMAIN b = DOMAIN a
  BY <1>1, <1>3, ExceptSeq
<1>5. \A j \in DOMAIN a : b[j] = IF j = i THEN y ELSE a[j]
  OBVIOUS
<1> HIDE DEF b
<1>6. f.entry \in [Sigs -> Seq(Entry)] /\ f.entry[s] = b /\ \A t \in Sigs : t # s => f.entry[t] = d.entry[t]
  BY <1>1, <1>2, <1>4
<1> QED BY <1>3, <1>4, <1>5, <1>6 DEF OnlyAt, Entries

LEMMA GoneCounts ==
    ASSUME NEW d, Right(d), NEW s \in Sigs, NEW i \in Entries(d, s), NEW y, NEW l, NEW g,
           NEW f, LetGo(d, f, s, i, y, l, g), Less2(d, s, d.entry[s][i], y, l, g)
    PROVE  /\ Counted(f)
           /\ \A t \in Sigs : \A j \in Entries(f, t) :
                  f.entry[t][j].map # None => Same(d, f, f.entry[t][j].map)
<1> DEFINE x == d.entry[s][i]
           m == x.map
           c == <<s, i>>
<1>1. OnlyAt(d, f, s, i) /\ f.entry[s][i] = y /\ i \in Entries(f, s)
  <2>1. y \in Entry /\ Replaced(d, f, s, i, y)
    BY DEF LetGo, Less2
  <2> QED BY <2>1, GoneAt
<1>2. m \in InUse(d) /\ m # None
  BY DEF Right, SigRight, Kept, Less2
<1>3. \A n \in InUse(d) : n # None
  BY Memory DEF Right
<1>4. \A n : /\ Uses(f, n) \ {c} = Uses(d, n) \ {c}
             /\ Holding(f, n) \ {c} = Holding(d, n) \ {c}
             /\ Awaiting(f, n) \ {c} = Awaiting(d, n) \ {c}
  BY <1>1, OneCell
<1>5. \A n : /\ c \in Uses(f, n) <=> y.map = n
             /\ c \in Holding(f, n) <=> y.map = n /\ y.inst # None
             /\ c \in Awaiting(f, n) <=> y.map = n /\ Waits(y)
             /\ c \in Uses(d, n) <=> m = n
             /\ c \in Holding(d, n) <=> m = n /\ x.inst # None
             /\ c \in Awaiting(d, n) <=> m = n /\ Waits(x)
  BY <1>1, TheCell DEF Waits
<1>6. /\ y.map \in {m, None} /\ y.inst \in {x.inst, None}
      /\ y.map = m => y.inst # None \/ Waits(y)
      /\ y.inst # None => y.map = m
      /\ l = IF x.inst # None /\ y.inst = None THEN d.map[m].lref - 1 ELSE d.map[m].lref
      /\ g = IF Waits(x) /\ ~ (Waits(y) /\ y.map = m) THEN d.map[m].gref - 1 ELSE d.map[m].gref
      /\ Waits(y) /\ y.map = m => Waits(x)
  BY <1>2 DEF Less2
<1>7. /\ \A n \in InUse(d) \ {m} : f.map[n] = d.map[n]
      /\ f.map[m].lref = l /\ f.map[m].gref = g
      /\ f.map[m].lid = d.map[m].lid /\ f.map[m].gid = d.map[m].gid
      /\ InUse(f) = IF l = 0 /\ g = 0 THEN InUse(d) \ {m} ELSE InUse(d)
  BY DEF LetGo
<1>8. /\ IsFiniteSet(Uses(d, m)) /\ IsFiniteSet(Holding(d, m)) /\ IsFiniteSet(Awaiting(d, m))
      /\ d.map[m].lref = Cardinality(Holding(d, m)) /\ d.map[m].gref = Cardinality(Awaiting(d, m))
      /\ Uses(d, m) = Holding(d, m) \cup Awaiting(d, m)
  BY <1>2, Used
<1> HIDE DEF x, m, c
<1>9. IsFiniteSet(Uses(f, m))
  BY <1>4, <1>8, Counting
<1>10. Cardinality(Holding(f, m)) = l /\ (l = 0 => Holding(f, m) = {})
  <2>1. Cardinality(Holding(f, m)) = l
    <3>1. CASE x.inst # None /\ y.inst = None
      BY <1>4, <1>5, <1>6, <1>8, <3>1, Counting
    <3>2. CASE ~ (x.inst # None /\ y.inst = None)
      <4>1. c \in Holding(d, m) <=> c \in Holding(f, m)
        BY <1>5, <1>6, <3>2
      <4> QED BY <1>4, <1>6, <1>8, <3>2, <4>1, Counting
    <3> QED BY <3>1, <3>2
  <2> QED BY <1>4, <1>8, <2>1, Counting
<1>11. Cardinality(Awaiting(f, m)) = g /\ (g = 0 => Awaiting(f, m) = {})
  <2>1. Cardinality(Awaiting(f, m)) = g
    <3>1. CASE Waits(x) /\ ~ (Waits(y) /\ y.map = m)
      BY <1>4, <1>5, <1>6, <1>8, <3>1, Counting
    <3>2. CASE ~ (Waits(x) /\ ~ (Waits(y) /\ y.map = m))
      <4>1. c \in Awaiting(d, m) <=> c \in Awaiting(f, m)
        BY <1>5, <1>6, <3>2
      <4> QED BY <1>4, <1>6, <1>8, <3>2, <4>1, Counting
    <3> QED BY <3>1, <3>2
  <2> QED BY <1>4, <1>8, <2>1, Counting
<1>12. Uses(f, m) = Holding(f, m) \cup Awaiting(f, m)
  <2>1. Holding(f, m) \subseteq Uses(f, m) /\ Awaiting(f, m) \subseteq Uses(f, m)
    BY DEF Holding, Awaiting
  <2>2. \A u \in Uses(f, m) : u # c => u \in Holding(f, m) \cup Awaiting(f, m)
    BY <1>4, <1>8
  <2>3. c \in Uses(f, m) => c \in Holding(f, m) \cup Awaiting(f, m)
    BY <1>5, <1>6
  <2> QED BY <2>1, <2>2, <2>3
<1>13. Uses(f, m) # {} <=> m \in InUse(f)
  <2>1. ~ (l = 0 /\ g = 0) => Uses(f, m) # {}
    BY <1>10, <1>11, <1>12, FS_EmptySet
  <2> QED BY <1>2, <1>7, <1>10, <1>11, <1>12, <2>1
<1>14. ASSUME NEW n \in InUse(d), n # m
       PROVE  /\ Uses(f, n) = Uses(d, n) /\ Holding(f, n) = Holding(d, n)
              /\ Awaiting(f, n) = Awaiting(d, n) /\ n \in InUse(f) /\ f.map[n] = d.map[n]
  <2>1. c \notin Uses(f, n) /\ c \notin Holding(f, n) /\ c \notin Awaiting(f, n)
        /\ c \notin Uses(d, n) /\ c \notin Holding(d, n) /\ c \notin Awaiting(d, n)
    BY <1>3, <1>5, <1>6, <1>14
  <2>2. n \in InUse(f) /\ f.map[n] = d.map[n]
    BY <1>7, <1>14
  <2> QED BY <1>4, <2>1, <2>2
<1>15. Counted(f)
  <2>1. ASSUME NEW n \in InUse(f)
        PROVE  /\ Uses(f, n) # {} /\ IsFiniteSet(Uses(f, n))
               /\ f.map[n].lref = Cardinality(Holding(f, n))
               /\ f.map[n].gref = Cardinality(Awaiting(f, n))
    <3>1. CASE n = m
      BY <1>7, <1>9, <1>10, <1>11, <1>13, <3>1
    <3>2. CASE n # m
      <4>1. n \in InUse(d)
        BY <1>7
      <4> QED BY <1>14, <3>2, <4>1, Used
    <3> QED BY <3>1, <3>2
  <2> QED BY <2>1 DEF Counted
<1>16. ASSUME NEW t \in Sigs, NEW j \in Entries(f, t), f.entry[t][j].map # None
       PROVE  Same(d, f, f.entry[t][j].map)
  <2> DEFINE n == f.entry[t][j].map
  <2>1. <<t, j>> \in Uses(f, n)
    BY Cells
  <2>2. CASE n = m
    <3>1. m \in InUse(f)
      BY <1>13, <2>1, <2>2
    <3> QED BY <1>7, <2>2, <3>1 DEF Same
  <2>3. CASE n # m
    <3>1. <<t, j>> \in Uses(d, n)
      BY <1>4, <1>5, <1>6, <1>16, <2>1, <2>3
    <3>2. n \in InUse(d)
      BY <1>16, <3>1, NotUsed
    <3>3. n \in InUse(f) /\ f.map[n] = d.map[n]
      BY <1>14, <2>3, <3>2
    <3> QED BY <3>3 DEF Same
  <2> QED BY <2>2, <2>3
<1> QED BY <1>15, <1>16

LEMMA GoneInst ==
    ASSUME NEW d, Right(d), NEW s \in Sigs, NEW i \in Entries(d, s), NEW y, NEW l, NEW g,
           NEW f, LetGo(d, f, s, i, y, l, g), Less2(d, s, d.entry[s][i], y, l, g)
    PROVE  /\ Signals(f) /\ \A t \in Sigs : t # s => f.inst[t] = d.inst[t]
           /\ \A j \in Places(s) :
                  /\ f.inst[s][j].id = d.inst[s][j].id
                  /\ f.inst[s][j].active <=> /\ d.inst[s][j].active
                                             /\ ~ (j = d.entry[s][i].inst /\ y.inst = None)
<1> DEFINE x == d.entry[s][i]
<1>1. /\ d.inst = [t \in Sigs |-> d.inst[t]] /\ \A t \in Sigs : d.inst[t] \in [Places(t) -> Inst]
  BY DEF Right, Signals
<1>2. f.entry \in [Sigs -> Seq(Entry)]
  <2>1. y \in Entry /\ Replaced(d, f, s, i, y)
    BY DEF LetGo, Less2
  <2> QED BY <2>1, GoneAt
<1>3. x.inst \in Places(s) \cup {None}
  BY DEF Right, SigRight, Kept
<1>4. f.inst = IF x.inst # None /\ y.inst = None THEN [d.inst EXCEPT ![s][x.inst].active = FALSE] ELSE d.inst
  BY DEF LetGo
<1> HIDE DEF x
<1>5. CASE x.inst # None /\ y.inst = None
  <2> DEFINE k == x.inst
             r == [d.inst[s][k] EXCEPT !.active = FALSE]
  <2>1. d.inst[s] \in [Places(s) -> Inst] /\ k \in Places(s) /\ d.inst[s][k] \in Inst
    BY <1>1, <1>3, <1>5
  <2>2. r \in Inst /\ r.id = d.inst[s][k].id /\ r.active = FALSE
    BY <2>1 DEF Inst
  <2> HIDE DEF r
  <2>3. f.inst = [d.inst EXCEPT ![s] = [d.inst[s] EXCEPT ![k] = r]]
    BY <1>4, <1>5 DEF r
  <2> HIDE DEF k
  <2>4. [d.inst[s] EXCEPT ![k] = r] \in [Places(s) -> Inst]
    BY <2>1, <2>2
  <2>5. /\ f.inst = [t \in Sigs |-> f.inst[t]] /\ f.inst[s] = [d.inst[s] EXCEPT ![k] = r]
        /\ \A t \in Sigs : t # s => f.inst[t] = d.inst[t]
    BY <1>1, <2>3
  <2>6. \A t \in Sigs : f.inst[t] \in [Places(t) -> Inst]
    BY <1>1, <2>4, <2>5
  <2>7. ASSUME NEW j \in Places(s)
        PROVE  /\ f.inst[s][j].id = d.inst[s][j].id
               /\ f.inst[s][j].active <=> d.inst[s][j].active /\ ~ (j = k /\ y.inst = None)
    <3>1. f.inst[s][j] = IF j = k THEN r ELSE d.inst[s][j]
      BY <2>1, <2>5
    <3> QED BY <1>5, <2>2, <3>1
  <2> QED BY <1>2, <2>5, <2>6, <2>7 DEF Signals, k, x
<1>6. CASE ~ (x.inst # None /\ y.inst = None)
  <2>1. f.inst = d.inst
    BY <1>4, <1>6
  <2>2. \A j \in Places(s) : j # None
    BY DEF Places, None
  <2> QED BY <1>1, <1>2, <1>6, <2>1, <2>2 DEF Signals, x
<1> QED BY <1>5, <1>6

LEMMA GoneKeeps ==
    ASSUME NEW d, Right(d), NEW s \in Sigs, NEW i \in Entries(d, s), NEW y, NEW l, NEW g,
           NEW f, LetGo(d, f, s, i, y, l, g), Less2(d, s, d.entry[s][i], y, l, g)
    PROVE  /\ Right(f) /\ OnlyAt(d, f, s, i) /\ f.entry[s][i] = y
           /\ \A t \in Sigs : \A j \in Entries(d, t) :
                  d.entry[t][j].rl /\ ~ (t = s /\ j = i) =>
                      /\ j \in Entries(f, t) /\ f.entry[t][j] = d.entry[t][j]
                      /\ GidAt(f, t, j) = GidAt(d, t, j)
<1> DEFINE x == d.entry[s][i]
<1>1. y \in Entry /\ Replaced(d, f, s, i, y)
  BY DEF LetGo, Less2
<1>2. /\ OnlyAt(d, f, s, i) /\ f.entry[s][i] = y
      /\ Entries(f, s) = Entries(d, s) /\ Len(f.entry[s]) = Len(d.entry[s])
  BY <1>1, GoneAt
<1>3. /\ \A t \in Sigs : t # s => f.entry[t] = d.entry[t]
      /\ \A j \in Entries(d, s) : j # i => f.entry[s][j] = d.entry[s][j]
  BY <1>2 DEF OnlyAt
<1>4. /\ Counted(f)
      /\ \A t \in Sigs : \A j \in Entries(f, t) :
             f.entry[t][j].map # None => Same(d, f, f.entry[t][j].map)
  BY GoneCounts
<1>5. /\ Signals(f) /\ \A t \in Sigs : t # s => f.inst[t] = d.inst[t]
      /\ \A j \in Places(s) : /\ f.inst[s][j].id = d.inst[s][j].id
                              /\ f.inst[s][j].active <=> d.inst[s][j].active /\ ~ (j = x.inst /\ y.inst = None)
  BY GoneInst
<1>6. /\ y.map \in {x.map, None} /\ y.inst \in {x.inst, None}
      /\ y.inst # None => y.map # None
      /\ y.rl <=> y.map # None /\ y.inst = None
      /\ y.rl => s \in setup.inputs /\ ~ Plain(s) /\ y.by = "net" /\ ~ y.rr
      /\ y.map # None => y.by = x.by
  BY DEF Less2, Waits
<1>7. SigRight(d, s) /\ \A j \in Entries(d, s) : Kept(d, s, d.entry[s][j])
  BY DEF Right, SigRight
<1>8. Kept(d, s, x)
  BY <1>7
<1> HIDE DEF x
<1>9. ASSUME NEW j \in Entries(f, s)
      PROVE  /\ Kept(f, s, f.entry[s][j])
             /\ f.entry[s][j].map # None => /\ f.entry[s][j].map = d.entry[s][j].map
                                            /\ GidAt(f, s, j) = GidAt(d, s, j)
                                            /\ f.map[f.entry[s][j].map].lid = d.map[d.entry[s][j].map].lid
  <2>1. j \in Entries(d, s) /\ (f.entry[s][j].map # None => Same(d, f, f.entry[s][j].map))
    BY <1>2, <1>4
  <2>2. CASE j = i
    <3>1. f.entry[s][j] = y /\ d.entry[s][j] = x
      BY <1>2, <2>2 DEF x
    <3> QED BY <1>6, <1>8, <2>1, <3>1 DEF Kept, Same, GidAt
  <2>3. CASE j # i
    <3>1. f.entry[s][j] = d.entry[s][j] /\ Kept(d, s, d.entry[s][j])
      BY <1>3, <1>7, <2>1, <2>3
    <3> QED BY <2>1, <3>1 DEF Kept, Same, GidAt
  <2> QED BY <2>2, <2>3
<1>10. Alone(f, s)
  BY <1>2, <1>7, <1>9 DEF SigRight, Alone
<1>11. Owned(f, s)
  <2>1. /\ \A k \in Places(s) : d.inst[s][k].active <=> \E j \in Entries(d, s) : d.entry[s][j].inst = k
        /\ \A j, k \in Entries(d, s) :
               d.entry[s][j].inst = d.entry[s][k].inst => d.entry[s][j].inst = None \/ j = k
    BY <1>7 DEF SigRight, Owned
  <2>2. ASSUME NEW k \in Places(s)
        PROVE  f.inst[s][k].active <=> \E j \in Entries(f, s) : f.entry[s][j].inst = k
    <3>1. k # None
      BY DEF Places, None
    <3>2. CASE k = x.inst
      <4>1. d.inst[s][k].active
        BY <2>1, <3>2 DEF x
      <4>2. \A j \in Entries(d, s) : j # i => d.entry[s][j].inst # k
        BY <2>1, <3>1, <3>2 DEF x
      <4>3. (\E j \in Entries(f, s) : f.entry[s][j].inst = k) <=> y.inst = k
        BY <1>2, <1>3, <4>2
      <4> QED BY <1>5, <1>6, <3>1, <3>2, <4>1, <4>3
    <3>3. CASE k # x.inst
      <4>1. (\E j \in Entries(f, s) : f.entry[s][j].inst = k)
            <=> \E j \in Entries(d, s) : d.entry[s][j].inst = k
        BY <1>2, <1>3, <1>6, <3>1, <3>3 DEF x
      <4> QED BY <1>5, <2>1, <3>3, <4>1
    <3> QED BY <3>2, <3>3
  <2>3. \A j, k \in Entries(f, s) :
            f.entry[s][j].inst = f.entry[s][k].inst => f.entry[s][j].inst = None \/ j = k
    <3>1. \A j \in Entries(f, s) : f.entry[s][j].inst # None => f.entry[s][j].inst = d.entry[s][j].inst
      BY <1>2, <1>3, <1>6 DEF x
    <3> QED BY <1>2, <2>1, <3>1
  <2> QED BY <2>2, <2>3 DEF Owned
<1>12. Labelled(f, s)
  <2>1. /\ \A j, k \in Places(s) : d.inst[s][j].id = d.inst[s][k].id => j = k
        /\ s \in setup.outputs /\ ~ Plain(s) =>
               \A n \in InstIds(s) : \E k \in Places(s) : d.inst[s][k].id = n
        /\ s \in setup.outputs => \A j \in Entries(d, s) :
               d.entry[s][j].inst # None =>
                   d.map[d.entry[s][j].map].lid =
                       IF Plain(s) THEN DefaultId ELSE d.inst[s][d.entry[s][j].inst].id
    BY <1>7 DEF SigRight, Labelled
  <2>2. ASSUME s \in setup.outputs, NEW j \in Entries(f, s), f.entry[s][j].inst # None
        PROVE  f.map[f.entry[s][j].map].lid =
                   IF Plain(s) THEN DefaultId ELSE f.inst[s][f.entry[s][j].inst].id
    <3>1. f.entry[s][j].inst = d.entry[s][j].inst /\ j \in Entries(d, s)
      BY <1>2, <1>3, <1>6, <2>2 DEF x
    <3>2. f.entry[s][j].map # None /\ d.entry[s][j].inst \in Places(s)
      BY <1>7, <1>9, <2>2, <3>1 DEF Kept
    <3> QED BY <1>5, <1>9, <2>1, <2>2, <3>1, <3>2
  <2> QED BY <1>5, <2>1, <2>2 DEF Labelled
<1>13. SigRight(f, s)
  BY <1>9, <1>10, <1>11, <1>12 DEF SigRight
<1>14. ASSUME NEW t \in Sigs, t # s PROVE SigRight(f, t)
  <2>1. f.entry[t] = d.entry[t] /\ f.inst[t] = d.inst[t] /\ SigRight(d, t)
    BY <1>3, <1>5, <1>14 DEF Right
  <2>2. \A j \in Entries(d, t) : d.entry[t][j].map # None => Same(d, f, d.entry[t][j].map)
    BY <1>4, <2>1 DEF Entries
  <2> QED BY <2>1, <2>2, OtherSig
<1>15. Shaped(f) /\ Tables(f) /\ f.count = d.count
       /\ \A n \in InUse(f) : n \in InUse(d) /\ f.map[n].gid = d.map[n].gid
  BY DEF LetGo
<1>16. Named(f)
  <2>1. /\ \A m, n \in InUse(d) : d.map[m].gid = d.map[n].gid => m = n
        /\ \A m \in InUse(d) : d.map[m].gid <= MaxGid => d.map[m].gid <= d.count
    BY DEF Right, Named
  <2> QED BY <1>15, <2>1 DEF Named
<1>17. ASSUME NEW t \in Sigs, NEW j \in Entries(d, t), d.entry[t][j].rl, ~ (t = s /\ j = i)
       PROVE  /\ j \in Entries(f, t) /\ f.entry[t][j] = d.entry[t][j]
              /\ GidAt(f, t, j) = GidAt(d, t, j)
  <2>1. d.entry[t][j].map # None
    BY <1>17 DEF Right, SigRight, Kept
  <2>2. j \in Entries(f, t) /\ f.entry[t][j] = d.entry[t][j]
    <3>1. CASE t = s
      BY <1>2, <1>3, <1>17, <3>1
    <3>2. CASE t # s
      BY <1>3, <3>2 DEF Entries
    <3> QED BY <3>1, <3>2
  <2>3. Same(d, f, d.entry[t][j].map)
    BY <1>4, <2>1, <2>2
  <2> QED BY <2>2, <2>3 DEF Same, GidAt
<1> QED BY <1>2, <1>4, <1>5, <1>13, <1>14, <1>15, <1>16, <1>17 DEF Right

------------------------------------------------------------------------------
\* mpr_sig_release_inst_internal.

\* The entry that is left: free, or waiting for the sender.
Left(x, free) == IF free THEN [x EXCEPT !.inst = None, !.map = None] ELSE [x EXCEPT !.inst = None, !.rl = TRUE]

LEMMA LeftIs ==
    ASSUME NEW x \in Entry, NEW free \in BOOLEAN
    PROVE  LET w == Left(x, free)
           IN  /\ w \in Entry /\ w.inst = None /\ w.rr = x.rr /\ w.by = x.by
               /\ free => w.map = None /\ w.rl = x.rl
               /\ ~ free => w.map = x.map /\ w.rl = TRUE
<1> DEFINE w == Left(x, free)
<1>0. /\ x = [map |-> x.map, inst |-> x.inst, rl |-> x.rl, rr |-> x.rr, by |-> x.by]
      /\ x.map \in Int /\ x.inst \in Int /\ x.rl \in BOOLEAN /\ x.rr \in BOOLEAN /\ x.by \in {"app", "net"}
  BY DEF Entry
<1>1. CASE free
  <2>1. w = [x EXCEPT !.inst = None, !.map = None]
    BY <1>1 DEF Left
  <2>2. w \in Entry /\ w.map = None /\ w.inst = None /\ w.rl = x.rl /\ w.rr = x.rr /\ w.by = x.by
    <3> HIDE DEF w
    <3>1. w = [map |-> None, inst |-> None, rl |-> x.rl, rr |-> x.rr, by |-> x.by]
      BY <1>0, <2>1
    <3> QED BY <1>0, <3>1 DEF Entry, None
  <2> QED BY <1>1, <2>2
<1>2. CASE ~ free
  <2>1. w = [x EXCEPT !.inst = None, !.rl = TRUE]
    BY <1>2 DEF Left
  <2>2. w \in Entry /\ w.map = x.map /\ w.inst = None /\ w.rl = TRUE /\ w.rr = x.rr /\ w.by = x.by
    <3> HIDE DEF w
    <3>1. w = [map |-> x.map, inst |-> None, rl |-> TRUE, rr |-> x.rr, by |-> x.by]
      BY <1>0, <2>1
    <3> QED BY <1>0, <3>1 DEF Entry, None
  <2> QED BY <1>2, <2>2
<1> QED BY <1>1, <1>2

\* What the steps of the signal read afterwards.
Eased(d, f, s) ==
    /\ Entries(d, s) \subseteq Entries(f, s)
    /\ \A n \in InUse(f) : n \in InUse(d) /\ f.map[n].gid = d.map[n].gid
    /\ \A n \in InUse(d) :
           (\A j \in Entries(d, s) : d.entry[s][j].map # n) => n \in InUse(f) /\ f.map[n] = d.map[n]
    /\ \A j \in Entries(f, s) :
           f.entry[s][j].map # None => /\ j \in Entries(d, s) /\ d.entry[s][j].map # None
                                       /\ GidAt(f, s, j) = GidAt(d, s, j)

LEMMA ReleaseEntryKeeps ==
    ASSUME setup \in Setups, Regular, NEW d, Right(d), NEW s \in Sigs, ~ Plain(s),
           NEW i \in Entries(d, s), NEW f, f = ReleaseEntry(d, s, i)
    PROVE  /\ Right(f) /\ Stays(d, f) /\ Eased(d, f, s)
           /\ f.entry[s][i].rl => GidAt(f, s, i) = GidAt(d, s, i) /\ i \in Entries(f, s)
<1> DEFINE x == d.entry[s][i]
           m == x.map
           e == LIDDecref(d, m)
           free == Unused(e, m) \/ s \in setup.outputs \/ x.rr
           w == Left(x, free)
           o == SelectSeq(e.order[s], LAMBDA k : k # x.inst)
           l == d.map[m].lref - 1
           g == d.map[m].gref
<1>1. x \in Entry /\ Kept(d, s, x) /\ d.entry \in [Sigs -> Seq(Entry)] /\ i \in DOMAIN d.entry[s]
  BY SomeEntries DEF Right, SigRight, Signals, Entries
<1>2. CASE x.inst = None
  <2>1. f = d
    BY <1>2 DEF ReleaseEntry
  <2> QED BY <2>1 DEF Stays, Eased
<1>3. CASE x.inst # None
  <2>1. m \in InUse(d) /\ m # None /\ ~ x.rl
    BY <1>1, <1>3 DEF Kept
  <2>2. Lowered(d, e, m, Less(d.map[m].lref), d.map[m].gref)
    BY <2>1, Decref DEF Right
  <2>3. d.map[m].lref \in Nat /\ d.map[m].lref # 0 /\ d.map[m].gref \in Nat
    <3>1. <<s, i>> \in Holding(d, m)
      BY <1>3, TheCell
    <3>2. d.map[m].lref = Cardinality(Holding(d, m)) /\ IsFiniteSet(Holding(d, m))
      BY <2>1, Used
    <3>3. d.map[m] \in IdMap
      BY <2>1, Memory DEF Right
    <3> QED BY <3>1, <3>2, <3>3, FS_EmptySet DEF IdMap
  <2>4. Lowered(d, e, m, l, g)
    BY <2>2, <2>3 DEF Less
  <2>5. Unused(e, m) <=> l = 0 /\ g = 0
    <3>1. e.map[m].lref = l /\ e.map[m].gref = g
      <4> HIDE DEF e, m, l, g
      <4> QED BY <2>4 DEF Lowered
    <3> QED BY <3>1 DEF Unused
  <2>6. f = [e EXCEPT !.inst[s][x.inst].active = FALSE, !.order[s] = o, !.entry[s][i] = w]
    BY <1>3 DEF ReleaseEntry, Left
  <2>7. x.rr \in BOOLEAN /\ x.by \in {"app", "net"}
    BY <1>1 DEF Entry
  <2>8. /\ w \in Entry /\ w.inst = None /\ w.rr = x.rr /\ w.by = x.by
        /\ free => w.map = None /\ w.rl = x.rl
        /\ ~ free => w.map = m /\ w.rl = TRUE
    <3>1. free \in BOOLEAN /\ x \in Entry
      BY <1>1, <2>7 DEF Unused
    <3> HIDE DEF x, free
    <3> QED BY <3>1, LeftIs
  <2> HIDE DEF o, w
  <2>9. Shaped(e) /\ e.entry = d.entry /\ e.inst = d.inst
    BY <2>4 DEF Lowered
  <2>10. f.inst = [d.inst EXCEPT ![s][x.inst].active = FALSE] /\ f.entry = [d.entry EXCEPT ![s][i] = w]
    <3> DEFINE k == x.inst
    <3>1. f = [e EXCEPT !.inst[s][k].active = FALSE, !.order[s] = o, !.entry[s][i] = w]
      BY <2>6
    <3> HIDE DEF k, e
    <3>2. f.inst = [e.inst EXCEPT ![s][k].active = FALSE] /\ f.entry = [e.entry EXCEPT ![s][i] = w]
      BY <2>9, <3>1 DEF Shaped
    <3> QED BY <2>9, <3>2 DEF k
  <2> HIDE DEF e, m, x
  <2>11. Shaped(f) /\ f.map = e.map /\ f.active = e.active /\ f.reserve = e.reserve /\ f.count = e.count
    BY <2>6, <2>9 DEF Shaped
  <2>13. Tables(f) /\ InUse(f) = InUse(e)
    <3>1. Tables(e) /\ SameTables(e, f)
      BY <2>4, <2>11 DEF Lowered, SameTables
    <3> QED BY <3>1, TablesKept
  <2>14. Replaced(d, f, s, i, w)
    BY <2>10 DEF Replaced
  <2>15. LetGo(d, f, s, i, w, l, g)
    <3>1. /\ \A n \in InUse(d) \ {m} : f.map[n] = d.map[n]
          /\ f.map[m].lref = l /\ f.map[m].gref = g
          /\ f.map[m].lid = d.map[m].lid /\ f.map[m].gid = d.map[m].gid
          /\ InUse(f) = IF l = 0 /\ g = 0 THEN InUse(d) \ {m} ELSE InUse(d)
          /\ f.count = d.count
      <4> HIDE DEF l, g
      <4> QED BY <2>4, <2>11, <2>13 DEF Lowered
    <3> HIDE DEF l, g
    <3> QED BY <1>3, <2>8, <2>10, <2>11, <2>13, <2>14, <3>1 DEF LetGo, x, m
  <2>16. x.by = "app" => s \in setup.outputs
    BY <1>1, <2>1, Use DEF Kept, Plain, x, m
  <2>17. s \in setup.outputs => x.by # "net"
    BY <1>1, <2>1, Use DEF Kept, x, m
  <2>18. Waits(x) => g # 0
    <3>1. ASSUME Waits(x) PROVE g # 0
      <4>1. <<s, i>> \in Awaiting(d, m)
        BY <3>1, TheCell DEF Waits, x, m
      <4>2. d.map[m].gref = Cardinality(Awaiting(d, m)) /\ IsFiniteSet(Awaiting(d, m))
        BY <2>1, Used
      <4> QED BY <4>1, <4>2, FS_EmptySet
    <3> QED BY <3>1
  <2>19. Less2(d, s, x, w, l, g)
    <3>2. Waits(x) => w.map # None
      BY <2>1, <2>5, <2>7, <2>8, <2>17, <2>18 DEF Waits
    <3>3. w.map # None => Waits(x) /\ Waits(w) /\ s \in setup.inputs
      BY <2>7, <2>8, <2>16 DEF Waits, Sigs
    <3> QED BY <1>3, <2>1, <2>8, <3>2, <3>3 DEF Less2, m
  <2>20. /\ Right(f) /\ OnlyAt(d, f, s, i) /\ f.entry[s][i] = w
         /\ \A t \in Sigs : \A j \in Entries(d, t) :
                d.entry[t][j].rl /\ ~ (t = s /\ j = i) =>
                    /\ j \in Entries(f, t) /\ f.entry[t][j] = d.entry[t][j]
                    /\ GidAt(f, t, j) = GidAt(d, t, j)
    BY <2>15, <2>19, GoneKeeps DEF x
  <2>21. Stays(d, f)
    BY <2>1, <2>20 DEF Stays, x
  <2>22. \A n \in InUse(d) : n # m => n \in InUse(f) /\ f.map[n] = d.map[n]
    BY <2>15 DEF LetGo, m, x
  <2>23. f.map[m].gid = d.map[m].gid
    BY <2>15 DEF LetGo, m, x
  <2>24. ASSUME NEW j \in Entries(f, s), f.entry[s][j].map # None
         PROVE  /\ j \in Entries(d, s) /\ d.entry[s][j].map # None
                /\ GidAt(f, s, j) = GidAt(d, s, j)
    <3>1. j \in Entries(d, s) /\ f.entry[s][j].map = d.entry[s][j].map
      BY <2>8, <2>20, <2>24 DEF OnlyAt, m, x
    <3>2. d.entry[s][j].map \in InUse(d)
      BY <2>24, <3>1 DEF Right, SigRight, Kept
    <3> QED BY <2>22, <2>23, <2>24, <3>1, <3>2 DEF GidAt
  <2>26. i \in Entries(f, s) /\ Entries(d, s) \subseteq Entries(f, s)
    BY <2>20 DEF OnlyAt
  <2>25. Eased(d, f, s)
    <3>1. \A n \in InUse(f) : n \in InUse(d) /\ f.map[n].gid = d.map[n].gid
      BY <2>15, <2>22, <2>23 DEF LetGo, m, x
    <3> QED BY <2>22, <2>24, <2>26, <3>1 DEF Eased, m, x
  <2>27. f.entry[s][i].rl => f.entry[s][i].map # None
    BY <2>1, <2>8, <2>20 
  <2> QED BY <2>20, <2>21, <2>24, <2>25, <2>26, <2>27
<1> QED BY <1>2, <1>3

LEMMA ReleaseInstKeeps ==
    ASSUME setup \in Setups, Regular, NEW d, Right(d), NEW s \in Sigs, NEW id,
           NEW f, f = ReleaseInst(d, s, id)
    PROVE  Right(f) /\ Stays(d, f) /\ Eased(d, f, s)
<1> DEFINE i == EntryOfLID(d, s, id)
<1>1. CASE Plain(s) \/ i = None \/ d.entry[s][i].rl
  <2>1. f = d
    BY <1>1 DEF ReleaseInst
  <2> QED BY <2>1 DEF Stays, Eased
<1>2. CASE ~ (Plain(s) \/ i = None \/ d.entry[s][i].rl)
  <2>1. f = ReleaseEntry(d, s, i)
    BY <1>2 DEF ReleaseInst
  <2>2. i \in Entries(d, s)
    BY <1>2, EntryOfLIDIs
  <2> HIDE DEF i
  <2> QED BY <1>2, <2>1, <2>2, ReleaseEntryKeeps
<1> QED BY <1>1, <1>2

------------------------------------------------------------------------------
\* mpr_sig_get_idmap_with_GID.

\* No entry of s starts to wait for its sender.
NoneWaits(d, e, s) ==
    /\ Entries(d, s) \subseteq Entries(e, s)
    /\ \A j \in Entries(e, s) :
           e.entry[s][j].rl => /\ j \in Entries(d, s) /\ d.entry[s][j].rl
                               /\ GidAt(e, s, j) = GidAt(d, s, j)

LEMMA ClaimWaits ==
    ASSUME NEW d, Right(d), NEW e, NEW s \in Sigs, NEW k, NEW i, NEW m, NEW by,
           Claimed(d, e, s, k, i, m, by)
    PROVE  NoneWaits(d, e, s) /\ i \in Entries(e, s) /\ e.entry[s][i].map = m
<1>1. /\ Entries(e, s) = Entries(d, s) \cup {i} /\ e.entry[s][i].rl = FALSE /\ e.entry[s][i].map = m
      /\ \A j \in Entries(d, s) : j # i => e.entry[s][j] = d.entry[s][j]
  BY DEF Claimed, EntryPut, OnlyAt
<1>2. \A x \in InUse(d) : e.map[x].gid = d.map[x].gid
  BY DEF Claimed
<1>3. ASSUME NEW j \in Entries(e, s), e.entry[s][j].rl
      PROVE  /\ j \in Entries(d, s) /\ d.entry[s][j].rl
             /\ GidAt(e, s, j) = GidAt(d, s, j)
  <2>1. j # i /\ j \in Entries(d, s) /\ e.entry[s][j] = d.entry[s][j]
    BY <1>1, <1>3
  <2>2. d.entry[s][j].map \in InUse(d)
    BY <1>3, <2>1 DEF Right, SigRight, Kept
  <2> QED BY <1>2, <1>3, <2>1, <2>2 DEF GidAt
<1> QED BY <1>1, <1>3 DEF NoneWaits

\* What is asked of signal s before the remote instance g becomes active.
Unknown(d, s, g) ==
    /\ s \in setup.inputs /\ g \in setup.senders[s]
    /\ \A j \in Entries(d, s) : d.entry[s][j].map # None => GidAt(d, s, j) # g

LEMMA ClaimNewKeeps ==
    ASSUME setup \in Setups, Regular, NEW d, Right(d), NEW s, NEW g, Unknown(d, s, g),
           \A m \in InUse(d) : d.map[m].gid # g,
           NEW e, e = ClaimNew(d, s, g)
    PROVE  /\ Right(e) /\ Stays(d, e) /\ NoneWaits(d, e, s)
           /\ e = d \/ EntryOfGID(e, s, g) # None
<1> DEFINE r == ReservedInst(d, s, None)
           k == r.inst
           a == AddIdMap(d, d.inst[s][k].id, g, 1)
<1>1. /\ s \in Sigs /\ s \in setup.inputs /\ s \notin setup.outputs
      /\ g \in Nat /\ g > MaxGid /\ g \in setup.senders[s]
  BY Use DEF Sigs, Unknown
<1>2. Placed(d, s) /\ Insts(d, s) = Places(s) /\ d.inst[s] \in [Places(s) -> Inst]
  BY <1>1, RightPlaced
<1>3. \/ k = None /\ r.dev = d
      \/ k \in Idle(d, s) /\ k \in Places(s) /\ r.dev = d
  BY <1>2, ReservedFirst
<1>4. e = IF k = None THEN r.dev ELSE AddEntry(a, s, k, a.active[1], "net")
  BY <1>3 DEF ClaimNew
<1> HIDE DEF r, k
<1>5. CASE k = None
  <2>1. e = d
    BY <1>3, <1>4, <1>5
  <2> QED BY <2>1 DEF Stays, NoneWaits
<1>6. CASE k # None
  <2>1. k \in Places(s) /\ ~ d.inst[s][k].active /\ d.inst[s][k].id \in Id
    BY <1>2, <1>3, <1>6 DEF Idle, Inst
  <2>2. e = AddEntry(a, s, k, a.active[1], "net")
    BY <1>4, <1>6
  <2> DEFINE by == "net"
             id == d.inst[s][k].id
  <2>3. One(by) = 1 /\ g # None /\ by \in {"app", "net"}
    BY <1>1 DEF One, None
  <2>4. a = AddIdMap(d, id, g, One(by)) /\ e = AddEntry(a, s, k, a.active[1], by) /\ id \in Id
    BY <2>1, <2>2, <2>3
  <2> HIDE DEF a, by, id
  <2>5. \E i, m : /\ Claimed(d, e, s, k, i, m, by) /\ m \notin InUse(d)
                  /\ e.map[m].lid = id /\ (g # None => e.map[m].gid = g)
    BY <1>1, <2>1, <2>3, <2>4, ClaimedNew
  <2>6. PICK i, m : Claimed(d, e, s, k, i, m, "net") /\ e.map[m].gid = g
    BY <2>3, <2>5 DEF by
  <2>7. Fitting(d, e, s, k, m, "net")
    BY <1>1, <2>6 DEF Fitting, Unknown
  <2>8. Right(e) /\ Stays(d, e)
    BY <1>1, <2>6, <2>7, ClaimKeeps
  <2>9. NoneWaits(d, e, s) /\ i \in Entries(e, s) /\ e.entry[s][i].map = m
    BY <1>1, <2>6, ClaimWaits
  <2>10. m # None
    <3>1. m \in InUse(e)
      BY <2>6 DEF Claimed
    <3> QED BY <2>8, <3>1, Memory DEF Right
  <2>11. GidAt(e, s, i) = g
    BY <2>6, <2>9 DEF GidAt
  <2> QED BY <1>1, <2>8, <2>9, <2>10, <2>11, EntryOfGIDIs
<1> QED BY <1>5, <1>6

LEMMA ClaimKnownKeeps ==
    ASSUME setup \in Setups, Regular, NEW d, Right(d), NEW s, NEW g, Unknown(d, s, g),
           NEW m \in InUse(d), d.map[m].gid = g, NEW again \in BOOLEAN,
           NEW e, e = ClaimKnown(d, s, m, again)
    PROVE  /\ Right(e) /\ Stays(d, e) /\ NoneWaits(d, e, s)
           /\ \/ EntryOfGID(e, s, g) # None
              \/ e.map = d.map /\ e.entry = d.entry /\ InUse(e) = InUse(d)
<1> DEFINE found == FindInstById(d, s, d.map[m].lid)
           q == CHOOSE j \in found : TRUE
           r == IF found # {} THEN [dev |-> d, inst |-> q]
                ELSE IF again THEN [dev |-> d, inst |-> None] ELSE ReservedInst(d, s, d.map[m].lid)
           k == r.inst
           b == r.dev
<1>1. /\ s \in Sigs /\ s \in setup.inputs /\ s \notin setup.outputs /\ g \in setup.senders[s]
  BY Use DEF Sigs, Unknown
<1>2. Placed(d, s) /\ Insts(d, s) = Places(s) /\ d.inst[s] \in [Places(s) -> Inst]
  BY <1>1, RightPlaced
<1>3. d.map[m].lid \in Id
  BY Memory DEF Right, IdMap
<1>4. /\ Right(b) /\ Stays(d, b) /\ InUse(b) = InUse(d) /\ b.map = d.map /\ b.entry = d.entry
      /\ k \in Places(s) \cup {None}
  <2>1. CASE found # {}
    <3>1. b = d /\ k = q /\ q \in found
      BY <2>1
    <3>2. k \in Places(s)
      BY <1>2, <3>1 DEF FindInstById
    <3> QED BY <3>1, <3>2 DEF Stays
  <2>2. CASE found = {} /\ again
    <3>1. b = d /\ k = None
      BY <2>2
    <3> QED BY <3>1 DEF Stays
  <2>3. CASE found = {} /\ ~ again
    <3>1. r = ReservedInst(d, s, d.map[m].lid)
      BY <2>3
    <3>2. (k = None /\ b = d) \/ (Renamed(d, b, s) /\ k \in Places(s))
      <4> DEFINE id == d.map[m].lid
      <4>1. FindInstById(d, s, id) = {} /\ r = ReservedInst(d, s, id) /\ id \in Id
        BY <1>3, <2>3, <3>1
      <4> HIDE DEF id, r
      <4>2. \/ Idle(d, s) = {} /\ r.inst = None /\ r.dev = d
            \/ Idle(d, s) # {} /\ Renamed(d, r.dev, s) /\ r.inst \in Places(s)
        BY <1>1, <4>1, ReservedNamed
      <4> QED BY <4>2
    <3>3. CASE k = None /\ b = d
      BY <3>3 DEF Stays
    <3>4. CASE Renamed(d, b, s) /\ k \in Places(s)
      <4>1. Right(b) /\ Stays(d, b) /\ InUse(b) = InUse(d)
        BY <1>1, <3>4, RenamedKeeps
      <4> QED BY <3>4, <4>1 DEF Renamed, SameTables
    <3> QED BY <3>2, <3>3, <3>4
  <2> QED BY <2>1, <2>2, <2>3
<1>5. e = IF k = None THEN d
          ELSE IF b.inst[s][k].active THEN b
          ELSE GIDIncref(LIDIncref(AddEntry(b, s, k, m, "net"), m), m)
  BY DEF ClaimKnown
<1> HIDE DEF r, k, b, found
<1>6. NoneWaits(d, b, s)
  BY <1>4 DEF NoneWaits, Entries, GidAt
<1>7. CASE k = None
  <2>1. e = d
    BY <1>5, <1>7
  <2> QED BY <2>1 DEF Stays, NoneWaits
<1>8. CASE k # None /\ b.inst[s][k].active
  <2>1. e = b
    BY <1>5, <1>8
  <2> QED BY <1>4, <1>6, <2>1
<1>9. CASE k # None /\ ~ b.inst[s][k].active
  <2>1. e = GIDIncref(LIDIncref(AddEntry(b, s, k, m, "net"), m), m) /\ k \in Places(s) /\ m \in InUse(b)
    BY <1>4, <1>5, <1>9
  <2>2. /\ \E i : Claimed(b, e, s, k, i, m, "net")
        /\ e.map[m].gid = b.map[m].gid
    BY <1>1, <1>4, <1>9, <2>1, ClaimedShared
  <2>3. PICK i : Claimed(b, e, s, k, i, m, "net")
    BY <2>2
  <2>4. e.map[m].gid = g
    BY <1>4, <2>2
  <2>5. Fitting(b, e, s, k, m, "net")
    <3>1. \A j \in Entries(b, s) : b.entry[s][j].map # None => GidAt(b, s, j) # g
      BY <1>4 DEF Unknown, Entries, GidAt
    <3> QED BY <1>1, <2>4, <3>1 DEF Fitting
  <2>6. Right(e) /\ Stays(b, e)
    BY <1>1, <1>4, <2>3, <2>5, ClaimKeeps
  <2>7. NoneWaits(b, e, s) /\ i \in Entries(e, s) /\ e.entry[s][i].map = m
    BY <1>1, <1>4, <2>3, ClaimWaits
  <2>8. NoneWaits(d, e, s)
    BY <1>6, <2>7 DEF NoneWaits
  <2>9. m # None /\ GidAt(e, s, i) = g
    BY <2>4, <2>7, Memory DEF GidAt, Right
  <2>10. EntryOfGID(e, s, g) # None
    BY <1>1, <2>6, <2>7, <2>9, EntryOfGIDIs
  <2> QED BY <1>4, <2>6, <2>8, <2>10, StaysOn
<1> QED BY <1>7, <1>8, <1>9

\* Whatever waits for its sender afterwards had the same global id before.
Calm(d, e, s) ==
    /\ Entries(d, s) \subseteq Entries(e, s)
    /\ \A j \in Entries(e, s) :
           e.entry[s][j].rl => /\ j \in Entries(d, s) /\ d.entry[s][j].map # None
                               /\ GidAt(e, s, j) = GidAt(d, s, j)

LEMMA CalmClaim ==
    ASSUME NEW d, Right(d), NEW s \in Sigs, NEW e, NoneWaits(d, e, s)
    PROVE  Calm(d, e, s)
<1>1. \A j \in Entries(d, s) : d.entry[s][j].rl => d.entry[s][j].map # None
  BY DEF Right, SigRight, Kept
<1> QED BY <1>1 DEF Calm, NoneWaits

\* What is left to do when the first attempt gave signal s no entry of g.
Retried(d, s, g, m, e) ==
    e = IF m = None THEN ClaimNew(d, s, g) ELSE ClaimKnown(d, s, m, TRUE)

LEMMA RetryKeeps ==
    ASSUME setup \in Setups, Regular, NEW d, Right(d), NEW s, NEW g, Unknown(d, s, g),
           NEW m, \/ m = None /\ \A n \in InUse(d) : d.map[n].gid # g
                  \/ m # None /\ m \in InUse(d) /\ d.map[m].gid = g,
           NEW v, NEW f, f = IF v = None THEN d ELSE ReleaseInst(d, s, v),
           NEW e, Retried(f, s, g, m, e)
    PROVE  Right(e) /\ Stays(d, e) /\ Calm(d, e, s)
<1>1. s \in Sigs /\ s \in setup.inputs /\ g \in setup.senders[s]
  BY DEF Sigs, Unknown
<1>2. Right(f) /\ Stays(d, f) /\ Eased(d, f, s)
  <2>1. CASE v = None
    <3>1. f = d
      BY <2>1
    <3> QED BY <3>1 DEF Stays, Eased
  <2>2. CASE v # None
    <3>1. f = ReleaseInst(d, s, v)
      BY <2>2
    <3> QED BY <1>1, <3>1, ReleaseInstKeeps
  <2> QED BY <2>1, <2>2
<1>3. Unknown(f, s, g)
  BY <1>2 DEF Unknown, Eased
<1>4. Right(e) /\ Stays(f, e) /\ NoneWaits(f, e, s)
  <2>1. CASE m = None
    <3>1. \A n \in InUse(f) : f.map[n].gid # g
      BY <1>2, <2>1 DEF Eased
    <3>2. e = ClaimNew(f, s, g)
      BY <2>1 DEF Retried
    <3> QED BY <1>2, <1>3, <3>1, <3>2, ClaimNewKeeps
  <2>2. CASE m # None
    <3>1. m \in InUse(d) /\ d.map[m].gid = g
      BY <2>2
    <3>2. \A j \in Entries(d, s) : d.entry[s][j].map # m
      BY <2>2, <3>1 DEF Unknown, GidAt
    <3>3. m \in InUse(f) /\ f.map[m].gid = g
      BY <1>2, <3>1, <3>2 DEF Eased
    <3>4. e = ClaimKnown(f, s, m, TRUE)
      BY <2>2 DEF Retried
    <3> DEFINE again == TRUE
    <3>5. again \in BOOLEAN /\ e = ClaimKnown(f, s, m, again)
      BY <3>4
    <3> HIDE DEF again
    <3> QED BY <1>2, <1>3, <3>3, <3>5, ClaimKnownKeeps
  <2> QED BY <2>1, <2>2
<1>5. ASSUME NEW j \in Entries(e, s), e.entry[s][j].rl
      PROVE  /\ j \in Entries(d, s) /\ d.entry[s][j].map # None
             /\ GidAt(e, s, j) = GidAt(d, s, j)
  <2>1. j \in Entries(f, s) /\ f.entry[s][j].rl /\ GidAt(e, s, j) = GidAt(f, s, j)
    BY <1>4, <1>5 DEF NoneWaits
  <2>2. f.entry[s][j].map # None
    BY <1>1, <1>2, <2>1 DEF Right, SigRight, Kept
  <2> QED BY <1>2, <2>1, <2>2 DEF Eased
<1>6. Calm(d, e, s)
  BY <1>2, <1>4, <1>5 DEF Calm, Eased, NoneWaits
<1> QED BY <1>2, <1>4, <1>6, StaysOn

LEMMA ActivateGIDKeeps ==
    ASSUME setup \in Setups, Regular, NEW d, Right(d), NEW s \in setup.inputs, NEW g \in setup.senders[s],
           NEW v, NEW e, e = ActivateGID(d, s, g, v)
    PROVE  Right(e) /\ Stays(d, e) /\ Calm(d, e, s)
<1> DEFINE m == ByGID(d, g)
           try == IF m = None THEN ClaimNew(d, s, g) ELSE ClaimKnown(d, s, m, FALSE)
           after == IF v = None THEN try ELSE ReleaseInst(try, s, v)
           retry == IF m = None THEN ClaimNew(after, s, g) ELSE ClaimKnown(after, s, m, TRUE)
<1>1. s \in Sigs
  BY DEF Sigs
<1>2. CASE e = d
  <2>1. Stays(d, d) /\ NoneWaits(d, d, s)
    BY DEF Stays, NoneWaits
  <2> QED BY <1>1, <1>2, <2>1, CalmClaim
<1>3. CASE EntryOfGID(d, s, g) = None
  <2>1. Unknown(d, s, g)
    BY <1>1, <1>3, EntryOfGIDIs DEF Unknown
  <2>2. \/ m = None /\ \A n \in InUse(d) : d.map[n].gid # g
        \/ m # None /\ m \in InUse(d) /\ d.map[m].gid = g
    BY ByGIDIs DEF Right
  <2> HIDE DEF m
  <2>3. /\ Right(try) /\ Stays(d, try) /\ NoneWaits(d, try, s)
        /\ \/ EntryOfGID(try, s, g) # None
           \/ try.map = d.map /\ try.entry = d.entry /\ InUse(try) = InUse(d)
    <3>1. CASE m = None
      <4>1. try = ClaimNew(d, s, g) /\ \A n \in InUse(d) : d.map[n].gid # g
        BY <2>2, <3>1
      <4> HIDE DEF try
      <4>2. /\ Right(try) /\ Stays(d, try) /\ NoneWaits(d, try, s)
            /\ try = d \/ EntryOfGID(try, s, g) # None
        BY <2>1, <4>1, ClaimNewKeeps
      <4> QED BY <4>2
    <3>2. CASE m # None
      <4> DEFINE again == FALSE
      <4>1. try = ClaimKnown(d, s, m, again) /\ m \in InUse(d) /\ d.map[m].gid = g /\ again \in BOOLEAN
        BY <2>2, <3>2
      <4> HIDE DEF try, again
      <4> QED BY <2>1, <4>1, ClaimKnownKeeps
    <3> QED BY <3>1, <3>2
  <2> HIDE DEF try
  <2>4. Calm(d, try, s)
    BY <1>1, <2>3, CalmClaim
  <2>5. CASE e = try
    BY <2>3, <2>4, <2>5
  <2>6. CASE EntryOfGID(try, s, g) = None /\ e = retry
    <3>1. try.map = d.map /\ try.entry = d.entry /\ InUse(try) = InUse(d)
      BY <2>3, <2>6
    <3>2. Unknown(try, s, g)
      BY <2>1, <3>1 DEF Unknown, Entries, GidAt
    <3>3. \/ m = None /\ \A n \in InUse(try) : try.map[n].gid # g
          \/ m # None /\ m \in InUse(try) /\ try.map[m].gid = g
      BY <2>2, <3>1
    <3>4. Retried(after, s, g, m, e)
      BY <2>6 DEF Retried
    <3>5. after = IF v = None THEN try ELSE ReleaseInst(try, s, v)
      OBVIOUS
    <3> HIDE DEF after
    <3>6. Right(e) /\ Stays(try, e) /\ Calm(try, e, s)
      BY <2>3, <3>2, <3>3, <3>4, <3>5, RetryKeeps
    <3>7. Calm(d, e, s)
      BY <3>1, <3>6 DEF Calm, Entries, GidAt
    <3> QED BY <2>3, <3>6, <3>7, StaysOn
  <2>7. e = try \/ (EntryOfGID(try, s, g) = None /\ e = retry)
    BY <1>3 DEF ActivateGID, try, m
  <2> QED BY <2>5, <2>6, <2>7
<1>4. e = d \/ EntryOfGID(d, s, g) = None
  BY DEF ActivateGID
<1> QED BY <1>2, <1>3, <1>4

------------------------------------------------------------------------------
\* mpr_dev_handler with a global id and no value.

\* What becomes of entry i.
Heard(d, s, i) ==
    LET x == d.entry[s][i]
        marked == GIDDecref([d EXCEPT !.entry[s][i].rr = TRUE], x.map)
    IN  IF x.rl THEN [GIDDecref(d, x.map) EXCEPT !.entry[s][i] = FreeEntry]
        ELSE IF Plain(s)
        THEN [LIDDecref(marked, x.map) EXCEPT !.entry[s][i] = FreeEntry,
                                              !.inst[s][x.inst].active = FALSE, !.order[s] = <<>>]
        ELSE marked

\* An entry that waits has its reference, another one gives none up.
LEMMA CountAtRelease ==
    ASSUME setup \in Setups, Regular, NEW d, Right(d), NEW s \in Sigs, NEW i \in Entries(d, s),
           d.entry[s][i].map # None, ~ Lends(d, s, i)
    PROVE  LET m == d.entry[s][i].map
           IN  /\ m \in InUse(d) /\ d.map[m].lref \in Nat /\ d.map[m].gref \in Nat
               /\ d.entry[s][i].inst # None => d.map[m].lref # 0
               /\ Waits(d.entry[s][i]) => d.map[m].gref # 0
               /\ d.entry[s][i].by = "app" => d.map[m].gref = 0
<1> DEFINE x == d.entry[s][i]
           m == x.map
<1>1. m \in InUse(d) /\ Kept(d, s, x)
  BY DEF Right, SigRight, Kept
<1>2. d.map[m] \in IdMap /\ d.map[m].lref \in Nat /\ d.map[m].gref \in Nat
  BY <1>1, Memory DEF Right, IdMap
<1>3. /\ d.map[m].lref = Cardinality(Holding(d, m)) /\ IsFiniteSet(Holding(d, m))
      /\ d.map[m].gref = Cardinality(Awaiting(d, m)) /\ IsFiniteSet(Awaiting(d, m))
  BY <1>1, Used
<1>4. x.inst # None => d.map[m].lref # 0
  <2>1. x.inst # None => <<s, i>> \in Holding(d, m)
    BY TheCell
  <2> QED BY <1>3, <2>1, FS_EmptySet
<1>5. Waits(x) => d.map[m].gref # 0
  <2>1. Waits(x) => <<s, i>> \in Awaiting(d, m)
    BY TheCell DEF Waits
  <2> QED BY <1>3, <2>1, FS_EmptySet
<1>6. x.by = "app" => d.map[m].gref = 0
  BY <1>2 DEF Lends
<1> QED BY <1>1, <1>2, <1>4, <1>5, <1>6

LEMMA HeardKeeps ==
    ASSUME setup \in Setups, Regular, NEW d, Right(d), NEW s \in Sigs, NEW i \in Entries(d, s),
           d.entry[s][i].map # None, ~ d.entry[s][i].rr, ~ Lends(d, s, i),
           NEW f, f = Heard(d, s, i)
    PROVE  /\ Right(f)
           /\ \A t \in Sigs : \A j \in Entries(d, t) :
                  d.entry[t][j].rl /\ ~ (t = s /\ j = i) =>
                      /\ j \in Entries(f, t) /\ f.entry[t][j] = d.entry[t][j]
                      /\ GidAt(f, t, j) = GidAt(d, t, j)
<1> DEFINE x == d.entry[s][i]
           m == x.map
           lr == d.map[m].lref
           gr == d.map[m].gref
           marked == GIDDecref([d EXCEPT !.entry[s][i].rr = TRUE], m)
<1>1. x \in Entry /\ Kept(d, s, x)
  BY SomeEntries DEF Right, SigRight
<1>2. /\ m \in InUse(d) /\ lr \in Nat /\ gr \in Nat
      /\ x.inst # None => lr # 0
      /\ Waits(x) => gr # 0
      /\ x.by = "app" => gr = 0
  BY CountAtRelease
<1>3. /\ Less(gr) = IF Waits(x) THEN gr - 1 ELSE gr
      /\ x.inst # None => Less(lr) = lr - 1
  <2>1. x.by \in {"app", "net"}
    BY <1>1 DEF Entry
  <2> QED BY <1>2, <2>1 DEF Less, Waits
<1>4. /\ FreeEntry \in Entry /\ FreeEntry.map = None /\ FreeEntry.inst = None /\ FreeEntry.rl = FALSE
  BY DEF FreeEntry, Entry, None
<1>5. \E y, l, n : LetGo(d, f, s, i, y, l, n) /\ Less2(d, s, x, y, l, n)
  <2>1. CASE x.rl
    <3> DEFINE e == GIDDecref(d, m)
    <3>1. Lowered(d, e, m, lr, Less(gr))
      BY <1>2, Decref DEF Right
    <3>2. x.inst = None /\ Waits(x)
      BY <1>1, <2>1 DEF Kept, Waits
    <3>3. f = [e EXCEPT !.entry[s][i] = FreeEntry]
      BY <2>1 DEF Heard
    <3> HIDE DEF e, x, m
    <3>4. Shaped(e) /\ e.entry = d.entry /\ e.inst = d.inst
      BY <3>1 DEF Lowered
    <3>5. /\ Shaped(f) /\ f.inst = d.inst /\ f.entry = [d.entry EXCEPT ![s][i] = FreeEntry]
          /\ f.map = e.map /\ f.active = e.active /\ f.reserve = e.reserve /\ f.count = e.count
      BY <3>3, <3>4 DEF Shaped
    <3>6. Tables(f) /\ InUse(f) = InUse(e)
      <4>1. Tables(e) /\ SameTables(e, f)
        BY <3>1, <3>5 DEF Lowered, SameTables
      <4> QED BY <4>1, TablesKept
    <3>7. LetGo(d, f, s, i, FreeEntry, lr, Less(gr))
      <4>1. /\ \A n \in InUse(d) \ {m} : f.map[n] = d.map[n]
            /\ f.map[m].lref = lr /\ f.map[m].gref = Less(gr)
            /\ f.map[m].lid = d.map[m].lid /\ f.map[m].gid = d.map[m].gid
            /\ InUse(f) = IF lr = 0 /\ Less(gr) = 0 THEN InUse(d) \ {m} ELSE InUse(d)
            /\ f.count = d.count
        <5> HIDE DEF lr, gr
        <5> QED BY <3>1, <3>5, <3>6 DEF Lowered
      <4> HIDE DEF lr, gr
      <4> QED BY <3>2, <3>5, <3>6, <4>1 DEF LetGo, Replaced, x, m
    <3>8. Less2(d, s, x, FreeEntry, lr, Less(gr))
      BY <1>2, <1>3, <1>4, <3>2 DEF Less2, x, m
    <3> QED BY <3>7, <3>8
  <2>2. CASE ~ x.rl
    <3> DEFINE y == [x EXCEPT !.rr = TRUE]
               a == [d EXCEPT !.entry[s][i].rr = TRUE]
    <3>1. x.inst # None
      BY <1>1, <2>2 DEF Kept
    <3>2. y \in Entry /\ y.map = m /\ y.inst = x.inst /\ y.rl = x.rl /\ y.by = x.by /\ y.rr = TRUE
      BY <1>1 DEF Entry
    <3>3. d.entry \in [Sigs -> Seq(Entry)] /\ i \in DOMAIN d.entry[s] /\ Shaped(d) /\ Tables(d)
      BY DEF Right, Signals, Entries
    <3> HIDE DEF y
    <3>4. /\ Shaped(a) /\ a.inst = d.inst /\ a.entry = [d.entry EXCEPT ![s][i] = y]
          /\ a.map = d.map /\ a.active = d.active /\ a.reserve = d.reserve /\ a.count = d.count
      <4> DEFINE w == [d.entry EXCEPT ![s][i] = y]
      <4>1. a = [d EXCEPT !.entry = w]
        BY DEF y
      <4> HIDE DEF a, w
      <4>2. /\ Shaped(a) /\ a.inst = d.inst /\ a.entry = w
            /\ a.map = d.map /\ a.active = d.active /\ a.reserve = d.reserve /\ a.count = d.count
        BY <3>3, <4>1 DEF Shaped
      <4> QED BY <4>2 DEF w
    <3> HIDE DEF a
    <3>5. Tables(a) /\ InUse(a) = InUse(d)
      <4>1. SameTables(d, a)
        BY <3>4 DEF SameTables
      <4> QED BY <3>3, <4>1, TablesKept
    <3>6. Lowered(a, marked, m, lr, Less(gr)) /\ m \in InUse(marked)
      <4>1. marked = GIDDecref(a, m)
        BY DEF a
      <4> HIDE DEF marked
      <4>2. Lowered(a, marked, m, lr, Less(gr))
        BY <1>2, <3>4, <3>5, <4>1, Decref
      <4> QED BY <1>2, <3>1, <3>5, <4>2 DEF Lowered
    <3>7. Less(gr) \in Nat
      BY <1>2 DEF Less
    <3> HIDE DEF marked, x, m
    <3>8. /\ marked.inst = d.inst /\ marked.entry = [d.entry EXCEPT ![s][i] = y]
          /\ marked.map[m].lref = lr /\ marked.map[m].gref = Less(gr)
          /\ marked.map[m].lid = d.map[m].lid /\ marked.map[m].gid = d.map[m].gid
          /\ marked.count = d.count
      <4> HIDE DEF lr
      <4> QED BY <3>4, <3>6 DEF Lowered
    <3>9. CASE ~ Plain(s)
      <4>1. f = marked
        BY <2>2, <3>9 DEF Heard, marked, x, m
      <4>2. LetGo(d, f, s, i, y, lr, Less(gr))
        <5> HIDE DEF lr, gr
        <5> QED BY <3>2, <3>4, <3>5, <3>6, <3>8, <4>1 DEF LetGo, Lowered, Replaced, x, m
      <4>3. Less2(d, s, x, y, lr, Less(gr))
        BY <1>2, <1>3, <2>2, <3>1, <3>2 DEF Less2, Waits, x, m
      <4> QED BY <4>2, <4>3
    <3>10. CASE Plain(s)
      <4> DEFINE e == LIDDecref(marked, m)
                 o == <<>>
      <4>1. Lowered(marked, e, m, Less(lr), Less(gr))
        <5>1. Shaped(marked) /\ Tables(marked)
          BY <3>6 DEF Lowered
        <5> HIDE DEF e
        <5> QED BY <3>6, <3>8, <5>1, Decref DEF e
      <4>2. f = [e EXCEPT !.entry[s][i] = FreeEntry, !.inst[s][x.inst].active = FALSE, !.order[s] = o]
        BY <2>2, <3>10 DEF Heard, marked, x, m
      <4> DEFINE k == x.inst
      <4> HIDE DEF e, o, k
      <4>3. Shaped(e) /\ e.entry = [d.entry EXCEPT ![s][i] = y] /\ e.inst = d.inst
        BY <3>8, <4>1 DEF Lowered
      <4>4. /\ Shaped(f) /\ f.inst = [d.inst EXCEPT ![s][k].active = FALSE]
            /\ f.entry = [e.entry EXCEPT ![s][i] = FreeEntry]
            /\ f.map = e.map /\ f.active = e.active /\ f.reserve = e.reserve /\ f.count = e.count
        BY <4>2, <4>3 DEF Shaped, k
      <4>5. f.entry = [d.entry EXCEPT ![s][i] = FreeEntry]
        <5> DEFINE b == d.entry[s]
                   w == FreeEntry
        <5>1. e.entry = [d.entry EXCEPT ![s] = [b EXCEPT ![i] = y]] /\ f.entry = [e.entry EXCEPT ![s][i] = w]
          BY <4>3, <4>4
        <5>2. b \in Seq(Entry) /\ i \in DOMAIN b
          BY <3>3
        <5> HIDE DEF w, b
        <5>3. [[b EXCEPT ![i] = y] EXCEPT ![i] = w] = [b EXCEPT ![i] = w]
          BY <5>2
        <5>4. e.entry[s] = [b EXCEPT ![i] = y]
          BY <3>3, <5>1
        <5>5. f.entry = [e.entry EXCEPT ![s] = [b EXCEPT ![i] = w]]
          BY <5>1, <5>3, <5>4
        <5>6. f.entry = [d.entry EXCEPT ![s] = [b EXCEPT ![i] = w]]
          BY <3>3, <5>1, <5>5
        <5> QED BY <5>6 DEF b, w
      <4>6. Tables(f) /\ InUse(f) = InUse(e)
        <5>1. Tables(e) /\ SameTables(e, f)
          BY <4>1, <4>4 DEF Lowered, SameTables
        <5> QED BY <5>1, TablesKept
      <4>7. /\ \A n \in InUse(d) \ {m} : f.map[n] = d.map[n]
            /\ f.map[m].lref = Less(lr) /\ f.map[m].gref = Less(gr)
            /\ f.map[m].lid = d.map[m].lid /\ f.map[m].gid = d.map[m].gid
            /\ InUse(f) = IF Less(lr) = 0 /\ Less(gr) = 0 THEN InUse(d) \ {m} ELSE InUse(d)
            /\ f.count = d.count
        <5>1. lr # 0
          BY <1>2, <3>1
        <5> HIDE DEF lr, gr
        <5>2. InUse(marked) = InUse(d) /\ \A n \in InUse(d) \ {m} : marked.map[n] = d.map[n]
          BY <3>4, <3>5, <3>6, <5>1 DEF Lowered
        <5> QED BY <3>8, <4>1, <4>4, <4>6, <5>2 DEF Lowered
      <4>8. LetGo(d, f, s, i, FreeEntry, Less(lr), Less(gr))
        <5> HIDE DEF lr, gr
        <5> QED BY <1>4, <3>1, <4>4, <4>5, <4>6, <4>7 DEF LetGo, Replaced, x, m, k
      <4>9. Less2(d, s, x, FreeEntry, Less(lr), Less(gr))
        BY <1>2, <1>3, <1>4, <3>1 DEF Less2, x, m
      <4> QED BY <4>8, <4>9
    <3> QED BY <3>9, <3>10
  <2> QED BY <2>1, <2>2
<1>6. PICK y, l, n : LetGo(d, f, s, i, y, l, n) /\ Less2(d, s, x, y, l, n)
  BY <1>5
<1> QED BY <1>6, GoneKeeps

------------------------------------------------------------------------------
\* Every step leaves the signals of the device as they are.

LEMMA SameSignals ==
    ASSUME setup' = setup
    PROVE  /\ Sigs' = Sigs
           /\ \A s : Plain(s)' <=> Plain(s)
           /\ \A s : InstIds(s)' = InstIds(s)
           /\ \A s : Places(s)' = Places(s)
BY DEF Sigs, Plain, InstIds, Places

LEMMA SameDevice ==
    ASSUME setup' = setup, NEW d, d = dev'
    PROVE  /\ InUse(dev)' = InUse(d)
           /\ \A s : Entries(dev, s)' = Entries(d, s)
           /\ \A s, i : GidAt(dev, s, i)' = GidAt(d, s, i)
           /\ \A m : Uses(dev, m)' = Uses(d, m)
           /\ \A m : Holding(dev, m)' = Holding(d, m)
           /\ \A m : Awaiting(dev, m)' = Awaiting(d, m)
<1>1. InUse(dev)' = InUse(d)
  BY DEF InUse
<1>2. \A s : Entries(dev, s)' = Entries(d, s)
  BY DEF Entries
<1>3. \A s, i : GidAt(dev, s, i)' = GidAt(d, s, i)
  BY DEF GidAt
<1>4. \A m : Uses(dev, m)' = Uses(d, m)
  BY <1>2, SameSignals DEF Uses
<1>5. \A m : Holding(dev, m)' = Holding(d, m)
  BY <1>4 DEF Holding
<1>6. \A m : Awaiting(dev, m)' = Awaiting(d, m)
  BY <1>4 DEF Awaiting
<1> QED BY <1>1, <1>2, <1>3, <1>4, <1>5, <1>6

LEMMA RightAfter ==
    ASSUME setup' = setup, NEW d, d = dev', Right(d)
    PROVE  Right(dev)'
<1>1. Shaped(dev)'
  BY DEF Right, Shaped
<1>2. Tables(dev)'
  BY SameDevice DEF Right, Tables, Distinct
<1>3. Signals(dev)'
  BY SameSignals DEF Right, Signals
<1>4. Named(dev)'
  BY SameDevice DEF Right, Named
<1>5. Counted(dev)'
  BY SameDevice DEF Right, Counted
<1>6. ASSUME NEW s, s \in Sigs
      PROVE  SigRight(dev, s)'
  <2>1. ASSUME NEW i, i \in Entries(d, s)
        PROVE  Kept(dev, s, dev.entry[s][i])'
    BY SameSignals, SameDevice, <1>6, <2>1 DEF Right, SigRight, Kept
  <2>2. Alone(dev, s)'
    BY SameSignals, SameDevice, <1>6 DEF Right, SigRight, Alone
  <2>3. Owned(dev, s)'
    BY SameSignals, SameDevice, <1>6 DEF Right, SigRight, Owned
  <2>4. Labelled(dev, s)'
    BY SameSignals, SameDevice, <1>6 DEF Right, SigRight, Labelled
  <2> QED BY SameDevice, <2>1, <2>2, <2>3, <2>4 DEF SigRight
<1> QED BY SameSignals, <1>1, <1>2, <1>3, <1>4, <1>5, <1>6 DEF Right

LEMMA OverAfter ==
    ASSUME setup' = setup, NEW d, d = dev', Over(d, ended')
    PROVE  Over(dev, ended)'
BY SameSignals, SameDevice DEF Over

------------------------------------------------------------------------------
\* The actions.

LEMMA CalmRelease ==
    ASSUME NEW d, NEW s \in Sigs, NEW f, Right(f), Eased(d, f, s)
    PROVE  Calm(d, f, s)
<1>1. \A j \in Entries(f, s) : f.entry[s][j].rl => f.entry[s][j].map # None
  BY DEF Right, SigRight, Kept
<1> QED BY <1>1 DEF Calm, Eased

\* The entry that the application releases is one more that waits for its sender.
LEMMA OverAdds ==
    ASSUME NEW d, Right(d), NEW s \in Sigs, NEW e, Stays(d, e), Calm(d, e, s),
           NEW j \in Entries(d, s) \cup {None}, NEW E, Over(d, E), NEW F,
           F = IF j # None /\ e.entry[s][j].rl THEN E \cup {<<s, GidAt(d, s, j)>>} ELSE E
    PROVE  Over(e, F)
<1>1. Over(e, E)
  BY OverStays
<1>2. CASE j # None /\ e.entry[s][j].rl
  <2>1. /\ j \in Entries(d, s) /\ j \in Entries(e, s) /\ d.entry[s][j].map # None
        /\ GidAt(e, s, j) = GidAt(d, s, j)
    BY <1>2 DEF Calm
  <2>2. d.entry[s][j].map \in InUse(d)
    BY <2>1 DEF Right, SigRight, Kept
  <2>3. GidAt(d, s, j) \in Nat
    BY <2>2, Memory DEF Right, IdMap, GidAt
  <2> DEFINE c == <<s, GidAt(d, s, j)>>
  <2>4. c \in Sigs \X Nat /\ c[1] = s /\ c[2] = GidAt(d, s, j) /\ F = E \cup {c}
    BY <1>2, <2>3
  <2> HIDE DEF c
  <2> QED BY <1>1, <1>2, <2>1, <2>4 DEF Over
<1>3. CASE ~ (j # None /\ e.entry[s][j].rl)
  BY <1>1, <1>3
<1> QED BY <1>2, <1>3

LEMMA InstCount ==
    ASSUME NEW s, ~ Plain(s)
    PROVE  InstIds(s) = 0 .. NumInst - 1 /\ NumInst \in Nat /\ Cardinality(InstIds(s)) = NumInst
<1>1. NumInst \in Nat /\ InstIds(s) = 0 .. NumInst - 1
  BY BoundsAssumption DEF InstIds
<1>2. \A a, b \in Int : Cardinality(a .. b) = IF a > b THEN 0 ELSE b - a + 1
  BY FS_Interval
<1>3. Cardinality(0 .. NumInst - 1) = NumInst
  BY <1>1, <1>2
<1> QED BY <1>1, <1>3

LEMMA InitKeeps == Init /\ Regular => IInv
<1> SUFFICES ASSUME Init, Regular PROVE IInv
  OBVIOUS
<1>1. /\ setup \in Setups /\ ended = {}
      /\ dev = [inst |-> [s \in Sigs |-> NewSig(s)],
                order |-> [s \in Sigs |-> <<>>],
                entry |-> [s \in Sigs |-> <<FreeEntry>>],
                map |-> <<>>, active |-> <<>>, reserve |-> <<>>, count |-> 0]
  BY DEF Init
<1>2. Shaped(dev)
  BY <1>1 DEF Shaped
<1>3. dev.map = <<>> /\ dev.active = <<>> /\ dev.reserve = <<>> /\ dev.count = 0
  BY <1>1
<1>4. InUse(dev) = {} /\ Range(dev.reserve) = {}
  BY <1>3 DEF InUse, Range
<1>5. Tables(dev)
  BY <1>3, <1>4 DEF Tables, Distinct
<1>6. Named(dev) /\ Counted(dev)
  BY <1>4 DEF Named, Counted
<1>7. dev.inst = [s \in Sigs |-> NewSig(s)] /\ dev.entry = [s \in Sigs |-> <<FreeEntry>>]
  BY <1>1
<1>8. /\ FreeEntry \in Entry /\ FreeEntry.map = None /\ FreeEntry.inst = None
      /\ FreeEntry.rl = FALSE
  BY DEF FreeEntry, Entry, None
<1>9. ASSUME NEW s \in Sigs
      PROVE  /\ dev.inst[s] \in [Places(s) -> Inst]
             /\ \A k \in Places(s) : dev.inst[s][k].id = k - 1 /\ ~ dev.inst[s][k].active
  <2>1. dev.inst[s] = [k \in Places(s) |-> [id |-> k - 1, active |-> FALSE]]
    BY <1>7 DEF NewSig, Places
  <2>2. \A k \in Places(s) : k - 1 \in Id
    BY DEF Places, Id
  <2> QED BY <2>1, <2>2 DEF Inst
<1>10. ASSUME NEW s \in Sigs
       PROVE  /\ dev.entry[s] \in Seq(Entry) /\ Len(dev.entry[s]) = 1 /\ Entries(dev, s) = {1}
              /\ dev.entry[s][1] = FreeEntry
  <2> DEFINE x == FreeEntry
  <2>1. dev.entry[s] = <<x>> /\ x \in Entry
    BY <1>7, <1>8
  <2> HIDE DEF x
  <2>2. dev.entry[s] \in Seq(Entry) /\ Len(dev.entry[s]) = 1 /\ dev.entry[s][1] = x /\ DOMAIN dev.entry[s] = 1 .. 1
    BY <2>1
  <2> QED BY <2>2 DEF x, Entries
<1>11. Signals(dev)
  BY <1>7, <1>8, <1>9, <1>10 DEF Signals
<1>12. ASSUME NEW s \in Sigs PROVE SigRight(dev, s)
  <2>1. Kept(dev, s, FreeEntry)
    BY <1>8 DEF Kept
  <2>2. Alone(dev, s)
    BY <1>10, <1>12 DEF Alone
  <2>3. \A k \in Places(s) : k # None
    BY DEF Places, None
  <2>4. Owned(dev, s)
    BY <1>8, <1>9, <1>10, <1>12, <2>3 DEF Owned
  <2>5. \A j, k \in Places(s) : dev.inst[s][j].id = dev.inst[s][k].id => j = k
    BY <1>9, <1>12 DEF Places
  <2>6. ~ Plain(s) => \A n \in InstIds(s) : \E k \in Places(s) : dev.inst[s][k].id = n
    <3>1. \A k \in Places(s) : dev.inst[s][k].id = k - 1
      BY <1>9, <1>12
    <3>2. ASSUME ~ Plain(s), NEW n \in InstIds(s) PROVE \E k \in Places(s) : dev.inst[s][k].id = n
      <4> DEFINE k == n + 1
      <4>1. k \in Places(s) /\ k - 1 = n
        BY <3>2, InstCount DEF Places
      <4> HIDE DEF k
      <4> QED BY <3>1, <4>1
    <3> QED BY <3>2
  <2>7. Labelled(dev, s)
    BY <1>8, <1>10, <1>12, <2>5, <2>6 DEF Labelled
  <2> QED BY <1>10, <1>12, <2>1, <2>2, <2>4, <2>7 DEF SigRight
<1>13. Over(dev, ended)
  BY <1>1 DEF Over
<1> QED BY <1>1, <1>2, <1>5, <1>6, <1>11, <1>12, <1>13 DEF IInv, Right

LEMMA SetValueKeeps ==
    ASSUME IInv, NEW s \in Sigs, NEW id \in 0 .. NumInst - 1, SetValue(s, id)
    PROVE  \E d : d = dev' /\ Right(d) /\ Over(d, ended')
<1> DEFINE n == IF Plain(s) THEN DefaultId ELSE id
<1>1. PICK v \in Victims(dev, s) : dev' = ActivateLID(dev, s, n, v)
  BY DEF SetValue
<1>2. dev'.count <= MaxGid /\ s \in setup.outputs /\ ended' = ended
  BY DEF SetValue, Bounded
<1>3. PICK d : d = dev'
  OBVIOUS
<1>4. /\ setup \in Setups /\ Regular /\ Right(dev) /\ Over(dev, ended) /\ s \notin setup.direct
  BY <1>2, Use DEF IInv
<1>5. n \in Id /\ IF Plain(s) THEN n = DefaultId ELSE n \in InstIds(s)
  BY DEF Id, InstIds, Plain
<1> HIDE DEF n
<1>6. s \in setup.outputs \cup setup.direct /\ d = ActivateLID(dev, s, n, v) /\ d.count <= MaxGid
  BY <1>1, <1>2, <1>3
<1>7. Right(d) /\ Stays(dev, d)
  BY <1>4, <1>5, <1>6, ActivateLIDKeeps
<1> QED BY <1>2, <1>3, <1>4, <1>7, OverStays

LEMMA PlainUpdateKeeps ==
    ASSUME IInv, NEW s \in setup.direct, PlainUpdate(s)
    PROVE  \E d : d = dev' /\ Right(d) /\ Over(d, ended')
<1>1. setup \in Setups /\ Regular /\ Right(dev) /\ Over(dev, ended) /\ s \in Sigs /\ Plain(s)
  BY Use DEF IInv, Sigs, Plain
<1>2. /\ dev' = ActivateLID(dev, s, DefaultId, None) /\ dev'.count <= MaxGid /\ ended' = ended
      /\ dev.entry[s][1].inst = None
  BY <1>1 DEF PlainUpdate, Bounded
<1>3. PICK d : d = dev'
  OBVIOUS
<1>4. ASSUME NEW k \in Places(s) PROVE ~ dev.inst[s][k].active
  <2>1. Entries(dev, s) = {1}
    <3>1. Len(dev.entry[s]) = 1 /\ DOMAIN dev.entry[s] = 1 .. 1
      BY <1>1, SomeEntries, LenProperties DEF Right, SigRight, Alone
    <3> QED BY <3>1 DEF Entries
  <2>2. k # None
    BY DEF Places, None
  <2> QED BY <1>1, <1>2, <2>1, <2>2 DEF Right, SigRight, Owned
<1> DEFINE n == DefaultId
           v == None
<1>5. n \in Id /\ (IF Plain(s) THEN n = DefaultId ELSE n \in InstIds(s))
  BY <1>1 DEF Id
<1>6. s \in setup.outputs \cup setup.direct /\ d = ActivateLID(dev, s, n, v) /\ d.count <= MaxGid
  BY <1>2, <1>3
<1> HIDE DEF n, v
<1>7. Right(d) /\ Stays(dev, d)
  BY <1>1, <1>4, <1>5, <1>6, ActivateLIDKeeps
<1> QED BY <1>1, <1>2, <1>3, <1>7, OverStays

LEMMA ReleaseKeeps ==
    ASSUME IInv, NEW s \in Sigs, NEW id, Release(s, id)
    PROVE  \E d : d = dev' /\ Right(d) /\ Over(d, ended')
<1> DEFINE i == EntryOfLID(dev, s, id)
<1>1. /\ dev' = ReleaseInst(dev, s, id)
      /\ ended' = IF i # None /\ dev'.entry[s][i].rl
                  THEN ended \cup {<<s, GidAt(dev, s, i)>>} ELSE ended
  BY DEF Release
<1>2. PICK d : d = dev'
  OBVIOUS
<1>3. PICK F : F = ended'
  OBVIOUS
<1>4. setup \in Setups /\ Regular /\ Right(dev) /\ Over(dev, ended)
  BY DEF IInv
<1>5. i \in Entries(dev, s) \cup {None}
  BY <1>4, EntryOfLIDIs
<1> HIDE DEF i
<1>6. /\ d = ReleaseInst(dev, s, id)
      /\ F = IF i # None /\ d.entry[s][i].rl THEN ended \cup {<<s, GidAt(dev, s, i)>>} ELSE ended
  BY <1>1, <1>2, <1>3
<1>7. Right(d) /\ Stays(dev, d) /\ Eased(dev, d, s)
  BY <1>4, <1>6, ReleaseInstKeeps
<1>8. Over(d, F)
  BY <1>4, <1>5, <1>6, <1>7, CalmRelease, OverAdds
<1> QED BY <1>2, <1>3, <1>7, <1>8

LEMMA RemoteUpdateKeeps ==
    ASSUME IInv, NEW s \in setup.inputs, NEW g \in setup.senders[s], RemoteUpdate(s, g)
    PROVE  \E d : d = dev' /\ Right(d) /\ Over(d, ended')
<1>1. PICK v \in Victims(dev, s) :
        LET j == IF v = None THEN None ELSE EntryOfLID(dev, s, v)
        IN  /\ dev' = ActivateGID(dev, s, g, v)
            /\ ended' = IF j # None /\ dev'.entry[s][j].rl
                        THEN ended \cup {<<s, GidAt(dev, s, j)>>} ELSE ended
  BY DEF RemoteUpdate
<1> DEFINE j == IF v = None THEN None ELSE EntryOfLID(dev, s, v)
<1>2. PICK d : d = dev'
  OBVIOUS
<1>3. PICK F : F = ended'
  OBVIOUS
<1>4. setup \in Setups /\ Regular /\ Right(dev) /\ Over(dev, ended) /\ s \in Sigs
  BY DEF IInv, Sigs
<1>5. j \in Entries(dev, s) \cup {None}
  BY <1>4, EntryOfLIDIs
<1>6. /\ d = ActivateGID(dev, s, g, v)
      /\ F = IF j # None /\ d.entry[s][j].rl THEN ended \cup {<<s, GidAt(dev, s, j)>>} ELSE ended
  BY <1>1, <1>2, <1>3
<1> HIDE DEF j
<1>7. Right(d) /\ Stays(dev, d) /\ Calm(dev, d, s)
  BY <1>4, <1>6, ActivateGIDKeeps
<1>8. Over(d, F)
  BY <1>4, <1>5, <1>6, <1>7, OverAdds
<1> QED BY <1>2, <1>3, <1>7, <1>8

LEMMA RemoteReleaseKeeps ==
    ASSUME IInv, NEW s \in Sigs, NEW g, RemoteRelease(s, g), ~ lent'
    PROVE  \E d : d = dev' /\ Right(d) /\ Over(d, ended')
<1> DEFINE i == EntryOfGID(dev, s, g)
<1>1. /\ i # None /\ ~ dev.entry[s][i].rr /\ dev' = Heard(dev, s, i)
      /\ ended' = ended \ {<<s, g>>} /\ ~ Lends(dev, s, i)
  BY DEF RemoteRelease, Heard
<1>2. PICK d : d = dev'
  OBVIOUS
<1>3. PICK F : F = ended'
  OBVIOUS
<1>4. setup \in Setups /\ Regular /\ Right(dev) /\ Over(dev, ended)
  BY DEF IInv
<1>5. i \in Entries(dev, s) /\ dev.entry[s][i].map # None /\ GidAt(dev, s, i) = g
  BY <1>1, <1>4, EntryOfGIDIs
<1> HIDE DEF i
<1>6. d = Heard(dev, s, i) /\ F = ended \ {<<s, g>>}
  BY <1>1, <1>2, <1>3
<1>7. /\ Right(d)
      /\ \A t \in Sigs : \A j \in Entries(dev, t) :
             dev.entry[t][j].rl /\ ~ (t = s /\ j = i) =>
                 /\ j \in Entries(d, t) /\ d.entry[t][j] = dev.entry[t][j]
                 /\ GidAt(d, t, j) = GidAt(dev, t, j)
  BY <1>1, <1>4, <1>5, <1>6, HeardKeeps
<1>8. Over(d, F)
  <2> SUFFICES ASSUME NEW e \in F
               PROVE  /\ e \in Sigs \X Nat
                      /\ \E j \in Entries(d, e[1]) : d.entry[e[1]][j].rl /\ GidAt(d, e[1], j) = e[2]
    BY DEF Over
  <2>1. e \in ended /\ e # <<s, g>>
    BY <1>6
  <2>2. /\ e \in Sigs \X Nat
        /\ \E j \in Entries(dev, e[1]) : dev.entry[e[1]][j].rl /\ GidAt(dev, e[1], j) = e[2]
    BY <1>4, <2>1 DEF Over
  <2>3. PICK j \in Entries(dev, e[1]) : dev.entry[e[1]][j].rl /\ GidAt(dev, e[1], j) = e[2]
    BY <2>2
  <2>4. e[1] \in Sigs /\ e = <<e[1], e[2]>>
    BY <2>2
  <2>5. ~ (e[1] = s /\ j = i)
    BY <1>5, <2>1, <2>3, <2>4
  <2> QED BY <1>7, <2>2, <2>3, <2>4, <2>5
<1> QED BY <1>2, <1>3, <1>7, <1>8

------------------------------------------------------------------------------
\* The invariant and what it says.

LEMMA Step == IInv /\ [Next]_vars /\ ~ lent' => IInv'
<1> SUFFICES ASSUME IInv, [Next]_vars, ~ lent' PROVE IInv'
  OBVIOUS
<1>1. setup \in Setups /\ Regular /\ Right(dev) /\ Over(dev, ended)
  BY DEF IInv
<1>2. ASSUME setup' = setup, \E d : d = dev' /\ Right(d) /\ Over(d, ended')
      PROVE  IInv'
  <2>1. PICK d : d = dev' /\ Right(d) /\ Over(d, ended')
    BY <1>2
  <2>2. Right(dev)' /\ Over(dev, ended)'
    BY <1>2, <2>1, RightAfter, OverAfter
  <2>3. Regular'
    BY <1>1, <1>2 DEF Regular
  <2> QED BY <1>1, <1>2, <2>2, <2>3 DEF IInv
<1>3. ASSUME NEW s \in Sigs, NEW id \in 0 .. NumInst - 1, SetValue(s, id) PROVE IInv'
  BY <1>2, <1>3, SetValueKeeps DEF SetValue
<1>4. ASSUME NEW s \in Sigs, NEW id \in 0 .. NumInst - 1, Release(s, id) PROVE IInv'
  BY <1>2, <1>4, ReleaseKeeps DEF Release
<1>5. ASSUME NEW s \in Sigs, NEW id \in 0 .. NumInst - 1, RemoveInst(s, id) PROVE IInv'
  BY <1>1, <1>5 DEF RemoveInst, Regular
<1>6. ASSUME NEW s \in Sigs, ReserveInst(s) PROVE IInv'
  <2>1. ~ Plain(s) /\ Cardinality(Insts(dev, s)) < NumInst
    BY <1>6 DEF ReserveInst
  <2>2. Insts(dev, s) = Places(s) /\ Cardinality(Places(s)) = Cardinality(InstIds(s))
    BY <1>1, RightPlaced, PlaceCount
  <2> QED BY <2>1, <2>2, InstCount
<1>7. ASSUME NEW s \in Sigs, FreeSig(s) PROVE IInv'
  BY <1>1, <1>7 DEF FreeSig, Regular
<1>8. ASSUME NEW s \in setup.inputs, NEW g \in setup.senders[s], RemoteUpdate(s, g) PROVE IInv'
  BY <1>2, <1>8, RemoteUpdateKeeps DEF RemoteUpdate
<1>9. ASSUME NEW s \in Sigs, NEW g, RemoteRelease(s, g) PROVE IInv'
  BY <1>2, <1>9, RemoteReleaseKeeps DEF RemoteRelease
<1>10. ASSUME NEW s \in setup.direct, PlainUpdate(s) PROVE IInv'
  BY <1>2, <1>10, PlainUpdateKeeps DEF PlainUpdate
<1>11. CASE UNCHANGED vars
  BY <1>1, <1>2, <1>11 DEF vars
<1>12. setup.inputs \subseteq Sigs /\ setup.upstream \subseteq Sigs
  BY <1>1, Use DEF Sigs
<1>13. CASE Next
  BY <1>3, <1>4, <1>5, <1>6, <1>7, <1>8, <1>9, <1>10, <1>12, <1>13 DEF Next
<1> QED BY <1>11, <1>13

\* What is lent stays lent.
LEMMA LentStays == [Next]_vars => setup' = setup /\ (lent => lent')
<1> SUFFICES ASSUME [Next]_vars PROVE setup' = setup /\ (lent => lent')
  OBVIOUS
<1>1. CASE UNCHANGED vars
  BY <1>1 DEF vars
<1>2. ASSUME NEW s, NEW id, SetValue(s, id) \/ Release(s, id) \/ RemoveInst(s, id)
      PROVE  setup' = setup /\ (lent => lent')
  <2>1. CASE SetValue(s, id) \/ Release(s, id)
    BY <2>1 DEF SetValue, Release
  <2>2. CASE RemoveInst(s, id)
    <3>1. UNCHANGED <<setup, ended, lent>>
      BY <2>2, Zenon DEF RemoveInst
    <3> QED BY <3>1
  <2> QED BY <1>2, <2>1, <2>2
<1>3. ASSUME NEW s, ReserveInst(s) \/ FreeSig(s) \/ PlainUpdate(s)
      PROVE  setup' = setup /\ (lent => lent')
  BY <1>3 DEF ReserveInst, FreeSig, PlainUpdate
<1>4. ASSUME NEW s, NEW g, RemoteUpdate(s, g)
      PROVE  setup' = setup /\ (lent => lent')
  BY <1>4 DEF RemoteUpdate
<1>5. ASSUME NEW s, NEW g, RemoteRelease(s, g)
      PROVE  setup' = setup /\ (lent => lent')
  BY <1>5 DEF RemoteRelease
<1> QED BY <1>1, <1>2, <1>3, <1>4, <1>5 DEF Next

LEMMA Invariant == Spec /\ Regular => []UntilLent
<1>1. Init /\ Regular => UntilLent
  BY InitKeeps DEF UntilLent, IInv
<1>2. UntilLent /\ [Next]_vars => UntilLent'
  <2> SUFFICES ASSUME UntilLent, [Next]_vars PROVE UntilLent'
    OBVIOUS
  <2>1. setup' = setup /\ (lent => lent')
    BY LentStays
  <2>2. ~ lent' => IInv'
    BY <2>1, Step DEF UntilLent
  <2> QED BY <2>1, <2>2 DEF UntilLent, Regular
<1> QED BY <1>1, <1>2, PTL DEF Spec

LEMMA CountsRight == IInv => RefsExact
<1> SUFFICES ASSUME IInv, NEW m \in DOMAIN dev.map
             PROVE  IF m \in InUse(dev)
                    THEN /\ dev.map[m].lref = Cardinality(Holding(dev, m))
                         /\ dev.map[m].gref = Cardinality(Awaiting(dev, m))
                         /\ Uses(dev, m) # {}
                    ELSE Uses(dev, m) = {}
  BY DEF RefsExact
<1>1. Right(dev) /\ m # None
  BY Memory DEF IInv, Right
<1>2. CASE m \in InUse(dev)
  BY <1>1, <1>2, Used
<1>3. CASE m \notin InUse(dev)
  BY <1>1, <1>3, NotUsed
<1> QED BY <1>2, <1>3

LEMMA OwnersRight == IInv => OneOwner
<1> SUFFICES ASSUME IInv PROVE OneOwner
  OBVIOUS
<1>1. Right(dev)
  BY DEF IInv
<1>2. ASSUME NEW s \in Sigs, NEW k \in Insts(dev, s)
      PROVE  Cardinality({i \in Entries(dev, s) : dev.entry[s][i].inst = k})
             = (IF dev.inst[s][k].active THEN 1 ELSE 0)
  <2> DEFINE S == {i \in Entries(dev, s) : dev.entry[s][i].inst = k}
  <2>1. k \in Places(s) /\ k # None
    <3>1. k \in Places(s)
      BY <1>1, RightPlaced
    <3> QED BY <3>1 DEF Places, None
  <2>2. Owned(dev, s) /\ dev.inst[s][k].active \in BOOLEAN
    BY <1>1, <2>1 DEF Right, SigRight, Signals, Inst
  <2>3. CASE dev.inst[s][k].active
    <3>1. PICK i \in Entries(dev, s) : dev.entry[s][i].inst = k
      BY <2>1, <2>2, <2>3 DEF Owned
    <3>2. S = {i}
      BY <2>1, <2>2, <3>1 DEF Owned
    <3> QED BY <2>3, <3>2, FS_Singleton
  <2>4. CASE ~ dev.inst[s][k].active
    <3>1. S = {}
      BY <2>1, <2>2, <2>4 DEF Owned
    <3> QED BY <2>4, <3>1, FS_EmptySet
  <2> QED BY <2>3, <2>4
<1>3. ASSUME NEW s \in Sigs, NEW i \in Entries(dev, s)
      PROVE  dev.entry[s][i].inst \in {None} \cup Insts(dev, s)
  <2>1. dev.entry[s][i].inst \in Places(s) \cup {None}
    BY <1>1 DEF Right, SigRight, Kept
  <2> QED BY <1>1, <2>1, RightPlaced
<1>4. ASSUME NEW p \in DOMAIN dev.active, NEW q \in DOMAIN dev.active,
             dev.map[dev.active[p]].gid = dev.map[dev.active[q]].gid
      PROVE  p = q
  <2>1. dev.active[p] \in InUse(dev) /\ dev.active[q] \in InUse(dev)
    BY DEF InUse
  <2> QED BY <1>1, <1>4, <2>1 DEF Right, Named, Tables, Distinct
<1> QED BY <1>2, <1>3, <1>4 DEF OneOwner

LEMMA ReleasedRight == IInv => ReleasedStays
<1> SUFFICES ASSUME IInv, NEW e \in ended, NEW i \in Entries(dev, e[1]), dev.entry[e[1]][i].inst # None
             PROVE  GidAt(dev, e[1], i) # e[2]
  BY DEF ReleasedStays
<1>1. Right(dev) /\ Over(dev, ended)
  BY DEF IInv
<1>2. PICK s \in Sigs, g \in Nat : e = <<s, g>>
  BY <1>1 DEF Over
<1>3. PICK j \in Entries(dev, s) : dev.entry[s][j].rl /\ GidAt(dev, s, j) = g
  BY <1>1, <1>2 DEF Over
<1>4. /\ dev.entry[s][j].map # None /\ dev.entry[s][j].inst = None
      /\ s \in setup.inputs /\ ~ Plain(s)
  BY <1>1, <1>3 DEF Right, SigRight, Kept
<1>5. i \in Entries(dev, s) /\ dev.entry[s][i].map # None /\ i # j
  BY <1>1, <1>2, <1>4 DEF Right, SigRight, Kept
<1>6. GidAt(dev, s, i) # GidAt(dev, s, j)
  BY <1>1, <1>3, <1>4, <1>5 DEF Right, SigRight, Alone
<1> QED BY <1>2, <1>3, <1>6

\* RefsExact (mpr_dev_LID_decref, mpr_dev_GID_decref): while nothing is freed and no
\* reference was lent, an id map is in use exactly as long as an entry refers to it, and
\* both its counters are exact, with any number of signals, instances, id maps and
\* senders, whose messages may name any id.
THEOREM ExactReferences == Spec /\ Regular => []RefsExact
<1>1. UntilLent => RefsExact
  BY CountsRight DEF UntilLent, RefsExact
<1> QED BY <1>1, Invariant, PTL

\* OneOwner (_find_inst_by_id, _reserved_inst, mpr_dev_get_idmap_by_GID): until a
\* reference is lent, an active instance has one entry, an idle one none, and a global
\* id has one id map at all signals of the device.
THEOREM SingleOwner == Spec /\ Regular => [](lent \/ OneOwner)
<1>1. UntilLent => lent \/ OneOwner
  BY OwnersRight DEF UntilLent
<1> QED BY <1>1, Invariant, PTL

\* ReleasedStays (RELEASED_LOCALLY): until a reference is lent, what the application has
\* released does not become active again before its sender has released it too, though
\* instances are stolen and released at either end under any id meanwhile.
THEOREM ReleasedForGood == Spec /\ Regular => []ReleasedStays
<1>1. UntilLent => ReleasedStays
  BY ReleasedRight DEF UntilLent, ReleasedStays
<1> QED BY <1>1, Invariant, PTL

=============================================================================
