------------------------- MODULE MapHandshakeProofs -------------------------
(***************************************************************************)
(* Proofs about MapHandshake, for any expressions and any number of        *)
(* requests, losses and restarts: its types, that a map is ready or active *)
(* only while its device knows where to send its values, and that both     *)
(* ends agree at rest.                                                     *)
(***************************************************************************)
EXTENDS MapHandshake, SequenceTheorems, TLAPS

Links == {"none", "new", "known", "stale"}

\* What a record says of its link is true of link l.
Fits(m, l) == ("link" \in m.known \/ Working(m)) => Reaches(l)

Sound == \A p \in Side : Fits(map[p], link[p])

\* What a handler gives.
Result(r) ==
    /\ r.map \in Map /\ r.link \in Links /\ r.meta \in BOOLEAN /\ r.nextId \in Nat
    /\ r.out \in Seq(Msg)
    /\ Fits(r.map, r.link)

------------------------------------------------------------------------------
\* Records and messages.

LEMMA Sides ==
    ASSUME NEW p \in Side
    PROVE  Other(p) \in Side /\ Other(p) # p /\ Side = {p, Other(p)}
BY DEF Side, Other

LEMMA RecordFields ==
    ASSUME NEW m \in Map
    PROVE  /\ m.stage \in Stage /\ m.count \in 1 .. 2 /\ m.known \in SUBSET {"meta", "link"}
           /\ m.id \in Nat /\ m.expr \in Expr \cup {NoExpr}
BY DEF Map

LEMMA NoMapType == NoMap \in Map /\ NoMap.known = {} /\ ~ Working(NoMap)
<1>1. 2 \in 1 .. 2 /\ 0 \in Nat
  OBVIOUS
<1> QED BY <1>1 DEF NoMap, Map, Stage, Working

\* mpr_map_set_from_msg touches neither the status nor the slots.
LEMMA SetType ==
    ASSUME NEW m \in Map, NEW msg, msg.id \in Nat, msg.expr \in Expr \cup {NoExpr}
    PROVE  Set(m, msg) \in Map /\ Set(m, msg).known = m.known /\ Set(m, msg).stage = m.stage
BY DEF Set, Map

\* _check_status makes a map ready only over a link that is known.
LEMMA CheckedType ==
    ASSUME NEW p, NEW m \in Map, NEW l \in Links, NEW known \in BOOLEAN, Fits(m, l)
    PROVE  Checked(p, m, l, known) \in Map /\ Fits(Checked(p, m, l, known), l)
<1> DEFINE k == m.known \cup (IF known THEN {"meta"} ELSE {})
                        \cup (IF Reaches(l) THEN {"link"} ELSE {})
           e == IF p = "src" /\ m.expr = NoExpr THEN Default ELSE m.expr
           a == [m EXCEPT !.known = k]
           b == [m EXCEPT !.known = k, !.stage = "ready", !.expr = e]
<1>1. k \in SUBSET {"meta", "link"}
  BY RecordFields
<1>2. "link" \in k => Reaches(l)
  BY DEF Fits
<1>3. e \in Expr \cup {NoExpr}
  BY RecordFields, ExprAssumption
<1>4. a \in Map /\ a.known = k /\ a.stage = m.stage
  BY <1>1 DEF Map
<1>5. b \in Map /\ b.known = k
  BY <1>1, <1>3 DEF Map, Stage
<1>6. Checked(p, m, l, known) =
        IF m.stage # "staged" THEN m ELSE IF k # {"meta", "link"} THEN a ELSE b
  BY DEF Checked
<1> HIDE DEF k, e, a, b
<1>7. CASE m.stage # "staged"
  BY <1>6, <1>7
<1>8. CASE m.stage = "staged" /\ k # {"meta", "link"}
  BY <1>2, <1>4, <1>6, <1>8 DEF Fits, Working
<1>9. CASE m.stage = "staged" /\ k = {"meta", "link"}
  BY <1>2, <1>5, <1>6, <1>9 DEF Fits
<1> QED BY <1>7, <1>8, <1>9

LEMMA OverType ==
    ASSUME NEW m \in Map, NEW l, NEW cmd \in {"map", "mapTo", "mapped", "unmap", "mod"}
    PROVE  Over(l, cmd, m) \in Seq(Msg)
<1>1. Message(cmd, m) \in Msg
  BY DEF Message, Msg, Map
<1> QED BY <1>1 DEF Over

------------------------------------------------------------------------------
\* The handlers.

LEMMA State ==
    ASSUME TypeOK, Sound, NEW p \in Side
    PROVE  /\ map[p] \in Map /\ link[p] \in Links /\ meta[p] \in BOOLEAN /\ nextId \in Nat
           /\ Fits(map[p], link[p]) /\ Fits(map[p], Linked(p))
           /\ Linked(p) \in Links /\ NextAfter(p) \in Nat
<1>1. /\ map[p] \in Map /\ link[p] \in Links /\ meta[p] \in BOOLEAN /\ nextId \in Nat
      /\ Fits(map[p], link[p])
  BY DEF TypeOK, Sound, Links
<1>2. Linked(p) \in Links /\ (Reaches(link[p]) => Linked(p) = link[p])
  BY <1>1 DEF Linked, Links, Reaches
<1>3. NextAfter(p) \in Nat
  BY <1>1 DEF NextAfter
<1> QED BY <1>1, <1>2, <1>3 DEF Fits

LEMMA AfterResult ==
    ASSUME NEW m \in Map, NEW l \in Links, NEW k \in BOOLEAN, NEW n \in Nat,
           NEW out \in Seq(Msg), Fits(m, l)
    PROVE  Result(After(m, l, k, n, out))
BY DEF Result, After

LEMMA IgnoredResult ==
    ASSUME TypeOK, Sound, NEW p \in Side
    PROVE  Result(Ignored(p))
<1>1. <<>> \in Seq(Msg)
  OBVIOUS
<1> QED BY <1>1, State, AfterResult DEF Ignored

LEMMA EnteredType ==
    ASSUME TypeOK, Sound, NEW p \in Side, NEW msg \in Msg
    PROVE  Entered(p, msg) \in Map /\ Fits(Entered(p, msg), Linked(p))
<1> DEFINE i == IF p = "dst" THEN nextId ELSE msg.id
           e == [NoMap EXCEPT !.stage = "staged", !.id = i]
<1>1. i \in Nat
  BY State DEF Msg
<1>2. e \in Map /\ e.known = {} /\ e.stage = "staged"
  BY <1>1, NoMapType DEF Map, Stage
<1>3. Entered(p, msg) = IF Known(p) THEN map[p] ELSE e
  BY DEF Entered
<1> HIDE DEF e
<1>4. CASE Known(p)
  BY <1>3, <1>4, State
<1>5. CASE ~ Known(p)
  BY <1>2, <1>3, <1>5 DEF Fits, Working
<1> QED BY <1>4, <1>5

LEMMA MsgParts ==
    ASSUME NEW msg \in Msg
    PROVE  /\ msg.id \in Nat /\ msg.expr \in Expr \cup {NoExpr}
           /\ [msg EXCEPT !.id = 0].id = 0 /\ [msg EXCEPT !.id = 0].expr = msg.expr
           /\ msg.cmd \in {"map", "mapTo", "mapped", "unmap", "mod"}
BY DEF Msg

LEMMA SetFits ==
    ASSUME NEW m \in Map, NEW l, NEW msg \in Msg, Fits(m, l)
    PROVE  Set(m, msg) \in Map /\ Fits(Set(m, msg), l) /\ Set(m, msg).stage = m.stage
BY SetType, MsgParts DEF Fits, Working

LEMMA OnModResult ==
    ASSUME TypeOK, Sound, NEW p \in Side, NEW msg \in Msg
    PROVE  Result(OnMod(p, msg))
<1> DEFINE n == [msg EXCEPT !.id = 0]
           m == Set(map[p], n)
<1>0. n.id \in Nat /\ n.expr \in Expr \cup {NoExpr}
  BY MsgParts
<1> HIDE DEF n
<1>1. m \in Map /\ Fits(m, link[p])
  BY <1>0, State, SetType DEF Fits, Working
<1>2. OnMod(p, msg) \in {After(m, link[p], meta[p], nextId, Over(link[p], "mapped", m)),
                         Ignored(p)}
  BY DEF OnMod, n
<1> HIDE DEF m
<1>3. Result(After(m, link[p], meta[p], nextId, Over(link[p], "mapped", m)))
  BY <1>1, State, OverType, AfterResult
<1> QED BY <1>2, <1>3, IgnoredResult

LEMMA OnMapResult ==
    ASSUME TypeOK, Sound, NEW p \in Side, NEW msg \in Msg
    PROVE  Result(OnMap(p, msg))
<1> DEFINE s == Set(Entered(p, msg), msg)
           m == Checked(p, s, Linked(p), meta[p])
<1>1. s \in Map /\ Fits(s, Linked(p))
  BY EnteredType, SetFits
<1> HIDE DEF s
<1>2. m \in Map /\ Fits(m, Linked(p))
  BY <1>1, State, CheckedType
<1>3. OnMap(p, msg) \in {After(m, Linked(p), meta[p], NextAfter(p), Over(Linked(p), "mapTo", m)),
                         Ignored(p), OnMod(p, msg)}
  BY DEF OnMap, s
<1> HIDE DEF m
<1>4. Result(After(m, Linked(p), meta[p], NextAfter(p), Over(Linked(p), "mapTo", m)))
  BY <1>2, State, OverType, AfterResult
<1> QED BY <1>3, <1>4, IgnoredResult, OnModResult

LEMMA OnMapToResult ==
    ASSUME TypeOK, Sound, NEW p \in Side, NEW msg \in Msg
    PROVE  Result(OnMapTo(p, msg))
<1> DEFINE e == Entered(p, msg)
           c == Checked(p, Set(e, msg), Linked(p), TRUE)
           m == IF e.stage = "active" THEN e ELSE c
           out == IF Working(m) THEN Over(link[p], "mapped", m) ELSE <<>>
           k == meta[p] \/ e.stage # "active"
<1>1. e \in Map /\ Fits(e, Linked(p))
  BY EnteredType
<1> HIDE DEF e
<1>2. c \in Map /\ Fits(c, Linked(p))
  BY <1>1, State, SetFits, CheckedType
<1> HIDE DEF c
<1>3. m \in Map /\ Fits(m, Linked(p))
  BY <1>1, <1>2
<1>4. k \in BOOLEAN
  OBVIOUS
<1>5. OnMapTo(p, msg) \in {After(m, Linked(p), k, NextAfter(p), out), Ignored(p)}
  BY DEF OnMapTo, e, c
<1> HIDE DEF m, k
<1>6. out \in Seq(Msg)
  BY <1>3, State, OverType
<1> HIDE DEF out
<1>7. Result(After(m, Linked(p), k, NextAfter(p), out))
  BY <1>3, <1>4, <1>6, State, AfterResult
<1> QED BY <1>5, <1>7, IgnoredResult

LEMMA OnMappedResult ==
    ASSUME TypeOK, Sound, NEW p \in Side, NEW msg \in Msg
    PROVE  Result(OnMapped(p, msg))
<1> DEFINE m == Checked(p, Set(map[p], msg), link[p], TRUE)
           a == [m EXCEPT !.stage = "active"]
<1>1. m \in Map /\ Fits(m, link[p])
  BY State, SetFits, CheckedType
<1>2. OnMapped(p, msg) \in {Ignored(p), After(m, link[p], TRUE, nextId, <<>>)}
      \/ /\ m.stage = "ready"
         /\ OnMapped(p, msg) = After(a, link[p], TRUE, nextId, Over(link[p], "mapped", a))
  BY DEF OnMapped
<1> HIDE DEF m
<1>3. <<>> \in Seq(Msg)
  OBVIOUS
<1>4. Result(After(m, link[p], TRUE, nextId, <<>>))
  BY <1>1, <1>3, State, AfterResult
<1>5. ASSUME m.stage = "ready"
      PROVE  Result(After(a, link[p], TRUE, nextId, Over(link[p], "mapped", a)))
  <2>1. a \in Map
    BY <1>1 DEF Map, Stage
  <2>2. Reaches(link[p])
    BY <1>1, <1>5 DEF Fits, Working
  <2>3. Fits(a, link[p])
    BY <2>2 DEF Fits
  <2> HIDE DEF a
  <2> QED BY <2>1, <2>3, State, OverType, AfterResult
<1> QED BY <1>2, <1>4, <1>5, IgnoredResult

LEMMA OnUnmapResult ==
    ASSUME TypeOK, Sound, NEW p \in Side, NEW msg \in Msg
    PROVE  Result(OnUnmap(p, msg))
<1>1. OnUnmap(p, msg) \in {Ignored(p),
        After(NoMap, link[p], meta[p], nextId, Over(link[p], "unmap", map[p]))}
  BY DEF OnUnmap
<1>2. NoMap \in Map /\ Fits(NoMap, link[p])
  BY NoMapType DEF Fits
<1>3. Result(After(NoMap, link[p], meta[p], nextId, Over(link[p], "unmap", map[p])))
  BY <1>2, State, OverType, AfterResult
<1> QED BY <1>1, <1>3, IgnoredResult

LEMMA HandledResult ==
    ASSUME TypeOK, Sound, NEW p \in Side, NEW msg \in Msg
    PROVE  Result(Handled(p, msg))
<1>1. Handled(p, msg) \in {OnMap(p, msg), OnMapTo(p, msg), OnMapped(p, msg),
                           OnUnmap(p, msg), OnMod(p, msg)}
  BY MsgParts DEF Handled
<1> QED
  BY <1>1, OnMapResult, OnMapToResult, OnMappedResult, OnUnmapResult, OnModResult

------------------------------------------------------------------------------
\* The steps.

Keeps == TypeOK' /\ Sound'

\* A handler's result becomes the state of p.
LEMMA BecomeKeeps ==
    ASSUME TypeOK, Sound, NEW p \in Side, NEW r, Result(r), Become(p, r)
    PROVE  /\ map' \in [Side -> Map] /\ link' \in [Side -> Links] /\ meta' \in [Side -> BOOLEAN]
           /\ nextId' \in Nat /\ Sound'
<1>1. /\ map \in [Side -> Map] /\ link \in [Side -> Links] /\ meta \in [Side -> BOOLEAN]
  BY DEF TypeOK, Links
<1>2. /\ map' = [map EXCEPT ![p] = r.map] /\ link' = [link EXCEPT ![p] = r.link]
      /\ meta' = [meta EXCEPT ![p] = r.meta] /\ nextId' = r.nextId
  BY DEF Become
<1>3. /\ r.map \in Map /\ r.link \in Links /\ r.meta \in BOOLEAN /\ r.nextId \in Nat
      /\ Fits(r.map, r.link)
  BY DEF Result
<1>4. /\ map' \in [Side -> Map] /\ link' \in [Side -> Links] /\ meta' \in [Side -> BOOLEAN]
      /\ nextId' \in Nat
  BY <1>1, <1>2, <1>3
<1>5. ASSUME NEW q \in Side
      PROVE  Fits(map'[q], link'[q])
  <2>1. CASE q = p
    BY <1>1, <1>2, <1>3, <2>1
  <2>2. CASE q # p
    BY <1>1, <1>2, <2>2 DEF Sound
  <2> QED BY <2>1, <2>2
<1>6. Sound'
  BY <1>5 DEF Sound, Fits
<1> QED BY <1>4, <1>6

LEMMA QueueFacts ==
    ASSUME NEW q \in [Side -> Seq(Msg)], NEW p \in Side, q[p] # <<>>
    PROVE  /\ Head(q[p]) \in Msg /\ Tail(q[p]) \in Seq(Msg)
           /\ [q EXCEPT ![p] = Tail(@)] \in [Side -> Seq(Msg)]
<1>1. q[p] \in Seq(Msg)
  OBVIOUS
<1>2. Head(q[p]) \in Msg /\ Tail(q[p]) \in Seq(Msg)
  BY <1>1
<1> QED BY <1>2

LEMMA Grown ==
    ASSUME NEW q \in [Side -> Seq(Msg)], NEW p \in Side, NEW out \in Seq(Msg)
    PROVE  [q EXCEPT ![p] = @ \o out] \in [Side -> Seq(Msg)]
<1>1. q[p] \o out \in Seq(Msg)
  OBVIOUS
<1> QED BY <1>1

LEMMA ReceiveKeeps ==
    ASSUME TypeOK, Sound, NEW p \in Side, Receive(p)
    PROVE  Keeps
<1> DEFINE r == Handled(p, Head(mesh[p]))
           q == [mesh EXCEPT ![p] = Tail(@)]
<1>1. mesh \in [Side -> Seq(Msg)]
  BY DEF TypeOK
<1>2. /\ mesh[p] # <<>> /\ Become(p, r) /\ UNCHANGED <<sig, bus, env>>
      /\ mesh' = [mesh EXCEPT ![p] = Tail(@), ![Other(p)] = @ \o r.out]
  BY DEF Receive
<1>3. Head(mesh[p]) \in Msg /\ q \in [Side -> Seq(Msg)]
  BY <1>1, <1>2, QueueFacts
<1>4. Result(r)
  BY <1>3, HandledResult
<1>5. mesh' = [q EXCEPT ![Other(p)] = @ \o r.out]
  BY <1>1, <1>2, Sides
<1> HIDE DEF r, q
<1>6. mesh' \in [Side -> Seq(Msg)]
  BY <1>3, <1>4, <1>5, Sides, Grown DEF Result
<1>7. /\ map' \in [Side -> Map] /\ link' \in [Side -> Links] /\ meta' \in [Side -> BOOLEAN]
      /\ nextId' \in Nat /\ Sound'
  BY <1>2, <1>4, BecomeKeeps
<1> QED BY <1>2, <1>6, <1>7 DEF Keeps, TypeOK, Links, env

LEMMA ReceiveBusKeeps ==
    ASSUME TypeOK, Sound, NEW p \in Side, ReceiveBus(p)
    PROVE  Keeps
<1> DEFINE r == Handled(p, Head(bus[p]))
<1>1. mesh \in [Side -> Seq(Msg)] /\ bus \in [Side -> Seq(Msg)]
  BY DEF TypeOK
<1>2. /\ bus[p] # <<>> /\ Become(p, r) /\ UNCHANGED <<sig, env>>
      /\ mesh' = [mesh EXCEPT ![Other(p)] = @ \o r.out]
      /\ bus' = [bus EXCEPT ![p] = Tail(@)]
  BY DEF ReceiveBus
<1>3. Head(bus[p]) \in Msg /\ bus' \in [Side -> Seq(Msg)]
  BY <1>1, <1>2, QueueFacts
<1>4. Result(r)
  BY <1>3, HandledResult
<1> HIDE DEF r
<1>5. mesh' \in [Side -> Seq(Msg)]
  BY <1>1, <1>2, <1>4, Sides, Grown DEF Result
<1>6. /\ map' \in [Side -> Map] /\ link' \in [Side -> Links] /\ meta' \in [Side -> BOOLEAN]
      /\ nextId' \in Nat /\ Sound'
  BY <1>2, <1>4, BecomeKeeps
<1> QED BY <1>2, <1>3, <1>5, <1>6 DEF Keeps, TypeOK, Links, env

\* A record that is replaced by one that needs no link, or by itself.
LEMMA MapKeeps ==
    ASSUME TypeOK, Sound, NEW p \in Side, NEW m \in Map, NEW l \in Links, Fits(m, l),
           NEW k, k = [link EXCEPT ![p] = l],
           map' = [map EXCEPT ![p] = m],
           \A q \in Side : Reaches(k[q]) => Reaches(link'[q]),
           link' \in [Side -> Links]
    PROVE  map' \in [Side -> Map] /\ Sound'
<1>1. map \in [Side -> Map] /\ link \in [Side -> Links]
  BY DEF TypeOK, Links
<1>2. map' \in [Side -> Map]
  BY <1>1
<1>3. ASSUME NEW q \in Side
      PROVE  Fits(map'[q], link'[q])
  <2>1. Fits(map'[q], k[q])
    <3>1. CASE q = p
      BY <1>1, <3>1
    <3>2. CASE q # p
      BY <1>1, <3>2 DEF Sound
    <3> QED BY <3>1, <3>2
  <2> QED BY <2>1 DEF Fits
<1>4. Sound'
  BY <1>3 DEF Sound, Fits
<1> QED BY <1>2, <1>4

LEMMA LinkUpKeeps ==
    ASSUME TypeOK, Sound, NEW p \in Side, LinkUp(p)
    PROVE  Keeps
<1> DEFINE out == IF Known(p) THEN <<Message("mapTo", map[p])>> ELSE <<>>
<1>1. /\ map \in [Side -> Map] /\ link \in [Side -> Links] /\ mesh \in [Side -> Seq(Msg)]
  BY DEF TypeOK, Links
<1>2. /\ link' = [link EXCEPT ![p] = "known"]
      /\ mesh' = [mesh EXCEPT ![Other(p)] = @ \o out]
      /\ UNCHANGED <<map, meta, sig, bus, nextId, env>>
  BY DEF LinkUp
<1>3. out \in Seq(Msg)
  <2>1. map[p].id \in Nat /\ map[p].expr \in Expr \cup {NoExpr}
    BY <1>1, RecordFields
  <2>2. Message("mapTo", map[p]) \in Msg
    BY <2>1 DEF Message, Msg
  <2> QED BY <2>2
<1> HIDE DEF out
<1>4. mesh' \in [Side -> Seq(Msg)]
  BY <1>1, <1>2, <1>3, Sides, Grown
<1>5. link' \in [Side -> Links]
  BY <1>1, <1>2 DEF Links
<1>6. \A q \in Side : Reaches(link[q]) => Reaches(link'[q])
  BY <1>1, <1>2 DEF Reaches
<1>7. Sound'
  BY <1>2, <1>6 DEF Sound, Fits
<1> QED BY <1>2, <1>4, <1>5, <1>7 DEF Keeps, TypeOK, Links, env

LEMMA CleanupKeeps ==
    ASSUME TypeOK, Sound, NEW p \in Side, Cleanup(p)
    PROVE  Keeps
<1> DEFINE m == IF map[p].count = 1 THEN NoMap ELSE [map[p] EXCEPT !.count = 1]
<1>1. /\ map' = [map EXCEPT ![p] = m] /\ Idle(map[p])
      /\ UNCHANGED <<link, meta, sig, mesh, bus, nextId, env>>
  BY DEF Cleanup
<1>2. map[p] \in Map /\ link[p] \in Links /\ link \in [Side -> Links]
  BY DEF TypeOK, Links
<1>3. 1 \in 1 .. 2
  OBVIOUS
<1>4. [map[p] EXCEPT !.count = 1] \in Map
  BY <1>2, <1>3 DEF Map
<1>5. m \in Map /\ Fits(m, link[p])
  BY <1>1, <1>2, <1>4, NoMapType DEF Idle, Fits, Working, Map
<1> HIDE DEF m
<1>6. map' \in [Side -> Map] /\ Sound'
  BY <1>1, <1>2, <1>5, MapKeeps
<1> QED BY <1>1, <1>6 DEF Keeps, TypeOK, env

LEMMA LinkTimeoutKeeps ==
    ASSUME TypeOK, Sound, NEW p \in Side, LinkTimeout(p)
    PROVE  Keeps
<1>1. /\ link' = [link EXCEPT ![p] = "none"] /\ map' = [map EXCEPT ![p] = NoMap]
      /\ UNCHANGED <<meta, sig, mesh, bus, nextId, env>>
  BY DEF LinkTimeout
<1>2. link \in [Side -> Links] /\ "none" \in Links
  BY DEF TypeOK, Links
<1>3. link' \in [Side -> Links]
  BY <1>1, <1>2
<1>4. Fits(NoMap, "none")
  BY NoMapType DEF Fits
<1>5. map' \in [Side -> Map] /\ Sound'
  BY <1>1, <1>2, <1>3, <1>4, NoMapType, MapKeeps
<1> QED BY <1>1, <1>3, <1>5 DEF Keeps, TypeOK, Links, env

\* What an administrator, an application or the network does.

LEMMA RequestType ==
    ASSUME NEW cmd \in {"map", "mapTo", "mapped", "unmap", "mod"}, NEW id \in Nat,
           NEW e \in Expr \cup {NoExpr}
    PROVE  Request(cmd, id, e) \in Msg
BY DEF Request, Msg

LEMMA MulticastType ==
    ASSUME bus \in [Side -> Seq(Msg)], NEW msg \in Msg, Multicast(msg)
    PROVE  bus' \in [Side -> Seq(Msg)]
<1>1. \A p \in Side : Append(bus[p], msg) \in Seq(Msg)
  OBVIOUS
<1> QED BY <1>1 DEF Multicast

\* The bounds of the counters.
LEMMA Counts ==
    /\ \A n \in 0 .. MaxCalls : n < MaxCalls => n + 1 \in 0 .. MaxCalls
    /\ \A n \in 0 .. MaxLost : n < MaxLost => n + 1 \in 0 .. MaxLost
    /\ \A n \in 0 .. MaxRestart : n < MaxRestart => n + 1 \in 0 .. MaxRestart
BY BoundAssumption

LEMMA CallType ==
    ASSUME TypeOK, Call
    PROVE  calls' \in 0 .. MaxCalls
BY Counts DEF TypeOK, Call

LEMMA AskKeeps ==
    ASSUME TypeOK, Sound, NEW msg \in Msg, Call, Multicast(msg),
           UNCHANGED <<map, link, meta, sig, mesh, nextId, lost, restarts>>
    PROVE  Keeps
<1>1. bus' \in [Side -> Seq(Msg)]
  BY MulticastType DEF TypeOK
<1>2. calls' \in 0 .. MaxCalls
  BY CallType
<1>3. Sound'
  BY DEF Sound, Fits
<1> QED BY <1>1, <1>2, <1>3 DEF Keeps, TypeOK

LEMMA FreeSigKeeps ==
    ASSUME TypeOK, Sound, NEW p \in Side, FreeSig(p)
    PROVE  Keeps
<1>1. /\ Call /\ sig' = [sig EXCEPT ![p] = FALSE] /\ map' = [map EXCEPT ![p] = NoMap]
      /\ Multicast(Request("unmap", map[p].id, NoExpr)) \/ bus' = bus
      /\ UNCHANGED <<link, meta, mesh, nextId, lost, restarts>>
  BY DEF FreeSig
<1>2. /\ map[p] \in Map /\ link[p] \in Links /\ link \in [Side -> Links]
      /\ bus \in [Side -> Seq(Msg)]
  BY DEF TypeOK, Links
<1>3. Request("unmap", map[p].id, NoExpr) \in Msg
  BY <1>2, RecordFields, RequestType
<1>4. bus' \in [Side -> Seq(Msg)]
  BY <1>1, <1>2, <1>3, MulticastType
<1>5. Fits(NoMap, link[p])
  BY NoMapType DEF Fits
<1>6. map' \in [Side -> Map] /\ Sound'
  BY <1>1, <1>2, <1>5, NoMapType, MapKeeps
<1>7. calls' \in 0 .. MaxCalls
  BY <1>1, CallType
<1> QED BY <1>1, <1>4, <1>6, <1>7 DEF Keeps, TypeOK

LEMMA RequestsKeep ==
    ASSUME TypeOK, Sound, Requests
    PROVE  Keeps
<1>1. ASSUME NEW e \in Expr \cup {NoExpr}, AskMap(e)
      PROVE  Keeps
  BY <1>1, RequestType, AskKeeps DEF AskMap
<1>2. ASSUME NEW p \in Side, NEW e \in Expr, AskMod(p, e)
      PROVE  Keeps
  <2>1. map[p].id \in Nat
    BY RecordFields DEF TypeOK
  <2>2. Request("mod", map[p].id, e) \in Msg
    BY <2>1, RequestType
  <2> QED BY <1>2, <2>2, AskKeeps DEF AskMod
<1>3. ASSUME NEW id \in {0} \cup {map[p].id : p \in Side}, AskUnmap(id)
      PROVE  Keeps
  <2>1. id \in Nat
    BY RecordFields DEF TypeOK
  <2>2. Request("unmap", id, NoExpr) \in Msg
    BY <2>1, RequestType
  <2> QED BY <1>3, <2>2, AskKeeps DEF AskUnmap
<1> QED BY <1>1, <1>2, <1>3, FreeSigKeeps DEF Requests

LEMMA FaultsKeep ==
    ASSUME TypeOK, Sound, NEW p \in Side, LoseMesh(p) \/ LoseBus(p) \/ NewSig(p)
    PROVE  Keeps
<1>1. Sound'
  BY DEF LoseMesh, LoseBus, NewSig, Sound, Fits
<1>2. CASE LoseMesh(p)
  <2>1. /\ mesh' \in [Side -> Seq(Msg)]
        /\ UNCHANGED <<map, link, meta, sig, bus, nextId, calls, restarts>>
    BY <1>2, QueueFacts DEF LoseMesh, TypeOK
  <2>2. lost' \in 0 .. MaxLost
    BY <1>2, Counts DEF LoseMesh, TypeOK
  <2> QED BY <1>1, <2>1, <2>2 DEF Keeps, TypeOK
<1>3. CASE LoseBus(p)
  <2>1. /\ bus' \in [Side -> Seq(Msg)]
        /\ UNCHANGED <<map, link, meta, sig, mesh, nextId, calls, restarts>>
    BY <1>3, QueueFacts DEF LoseBus, TypeOK
  <2>2. lost' \in 0 .. MaxLost
    BY <1>3, Counts DEF LoseBus, TypeOK
  <2> QED BY <1>1, <2>1, <2>2 DEF Keeps, TypeOK
<1>4. CASE NewSig(p)
  <2>1. /\ sig' \in [Side -> BOOLEAN]
        /\ UNCHANGED <<map, link, meta, mesh, bus, nextId, calls, lost, restarts>>
    BY <1>4 DEF NewSig, TypeOK, env
  <2> QED BY <1>1, <2>1 DEF Keeps, TypeOK
<1> QED BY <1>2, <1>3, <1>4

\* After a restart the peer still has an address, though a useless one.
LEMMA RestartKeeps ==
    ASSUME TypeOK, Sound, NEW p \in Side, Restart(p)
    PROVE  Keeps
<1> DEFINE k == [link EXCEPT ![p] = "none"]
           l == IF link[Other(p)] = "known" THEN "stale" ELSE link[Other(p)]
<1>1. /\ restarts < MaxRestart /\ restarts' = restarts + 1
      /\ map' = [map EXCEPT ![p] = NoMap]
      /\ link' = [link EXCEPT ![p] = "none", ![Other(p)] = IF @ = "known" THEN "stale" ELSE @]
      /\ meta' = [meta EXCEPT ![p] = FALSE] /\ sig' = [sig EXCEPT ![p] = TRUE]
      /\ mesh' = [mesh EXCEPT ![p] = <<>>] /\ bus' = [bus EXCEPT ![p] = <<>>]
      /\ UNCHANGED <<nextId, calls, lost>>
  BY DEF Restart
<1>2. link \in [Side -> Links] /\ "none" \in Links
  BY DEF TypeOK, Links
<1>3. link' = [k EXCEPT ![Other(p)] = l]
  BY <1>1, <1>2, Sides
<1>4. k \in [Side -> Links] /\ l \in Links
  BY <1>2, Sides DEF Links
<1>5. (k[Other(p)] = link[Other(p)]) /\ (Reaches(link[Other(p)]) => Reaches(l))
  BY <1>2, Sides DEF Reaches
<1>6. link' \in [Side -> Links]
  BY <1>3, <1>4
<1> HIDE DEF l, k
<1>7. \A q \in Side : Reaches(k[q]) => Reaches(link'[q])
  BY <1>3, <1>4, <1>5
<1>8. Fits(NoMap, "none")
  BY NoMapType DEF Fits
<1>9. map' \in [Side -> Map] /\ Sound'
  BY <1>1, <1>2, <1>6, <1>7, <1>8, NoMapType, MapKeeps DEF k
<1>10. /\ meta' \in [Side -> BOOLEAN] /\ sig' \in [Side -> BOOLEAN]
       /\ mesh' \in [Side -> Seq(Msg)] /\ bus' \in [Side -> Seq(Msg)]
  BY <1>1 DEF TypeOK
<1>11. restarts' \in 0 .. MaxRestart
  BY <1>1, Counts DEF TypeOK
<1> QED BY <1>1, <1>6, <1>9, <1>10, <1>11 DEF Keeps, TypeOK, Links

LEMMA InitSound == Init => TypeOK /\ Sound
<1> SUFFICES ASSUME Init PROVE TypeOK /\ Sound
  OBVIOUS
<1>1. /\ map = [p \in Side |-> NoMap] /\ meta \in [Side -> BOOLEAN]
      /\ link = [p \in Side |-> IF LinkBusy THEN "known" ELSE "none"]
      /\ sig = [p \in Side |-> TRUE] /\ mesh = [p \in Side |-> <<>>]
      /\ bus = [p \in Side |-> <<>>] /\ nextId = 1 /\ calls = 0 /\ lost = 0 /\ restarts = 0
  BY DEF Init
<1>2. 0 \in 0 .. MaxCalls /\ 0 \in 0 .. MaxLost /\ 0 \in 0 .. MaxRestart
  BY BoundAssumption
<1>3. <<>> \in Seq(Msg)
  OBVIOUS
<1>4. mesh \in [Side -> Seq(Msg)] /\ bus \in [Side -> Seq(Msg)]
  BY <1>1, <1>3
<1>5. TypeOK
  BY <1>1, <1>2, <1>4, NoMapType DEF TypeOK
<1>6. Sound
  BY <1>1, NoMapType DEF Sound, Fits
<1> QED BY <1>5, <1>6

LEMMA NextKeeps == TypeOK /\ Sound /\ [Next]_vars => TypeOK' /\ Sound'
<1> SUFFICES ASSUME TypeOK, Sound, [Next]_vars PROVE Keeps
  BY DEF Keeps
<1>1. CASE Requests
  BY <1>1, RequestsKeep
<1>2. CASE Network
  BY <1>2, ReceiveKeeps, ReceiveBusKeeps, LinkUpKeeps DEF Network
<1>3. CASE Housekeeping
  BY <1>3, CleanupKeeps, LinkTimeoutKeeps DEF Housekeeping
<1>4. CASE Faults
  BY <1>4, FaultsKeep, RestartKeeps DEF Faults
<1>5. CASE \E p \in Side : NewSig(p)
  BY <1>5, FaultsKeep
<1>6. CASE UNCHANGED vars
  BY <1>6 DEF vars, Keeps, TypeOK, Sound, Fits
<1> QED BY <1>1, <1>2, <1>3, <1>4, <1>5, <1>6 DEF Next

------------------------------------------------------------------------------
\* The state of the handshake keeps its types, whatever is asked, lost or
\* restarted: in particular the count-down of a staged map never passes
\* MPR_STATUS_EXPIRED (mpr_graph_cleanup).
THEOREM TypeCorrect == Spec => []TypeOK
<1>1. Spec => [](TypeOK /\ Sound)
  BY InitSound, NextKeeps, PTL DEF Spec
<1> QED BY <1>1, PTL

\* A map that is ready or active has a link with an address to send its values to
\* (handler_mapped and handler_map_to use it unasked), even when maps, signals,
\* links and devices come and go in between.
THEOREM WorkingMapsReach == Spec => []LinkUsable
<1>1. Sound => LinkUsable
  BY DEF Sound, Fits, LinkUsable
<1>2. Spec => [](TypeOK /\ Sound)
  BY InitSound, NextKeeps, PTL DEF Spec
<1> QED BY <1>1, <1>2, PTL

------------------------------------------------------------------------------
\* Both ends agree at rest.  What the handshake relies on while it is under way:
\* an end that is active over a link that works has said /mapped after every /mapTo
\* that its peer has not read yet; and when both ends work and one of them is only
\* ready, there is a message under way that will bring it a /mapped.

Has(s, c) == \E i \in DOMAIN s : s[i].cmd = c
Followed(s) ==
    \A i \in DOMAIN s : s[i].cmd = "mapTo" => \E j \in DOMAIN s : i < j /\ s[j].cmd = "mapped"

Based == \A p \in Side : Known(p) => link[p] # "none" /\ sig[p]

BusKinds == \A p \in Side : ~ Has(bus[p], "mapTo") /\ ~ Has(bus[p], "mapped")

Announced(p) == map[p].stage = "active" /\ link[p] = "known" => Followed(mesh[Other(p)])

Hopeful(p) ==
    /\ map[p].stage = "ready" /\ Working(map[Other(p)])
    /\ link[p] = "known" /\ link[Other(p)] = "known"
    => \/ Has(mesh[p], "mapped")
       \/ Has(mesh[Other(p)], "mapTo")
       \/ /\ map[Other(p)].stage = "ready"
          /\ Has(mesh[Other(p)], "mapped") \/ Has(mesh[p], "mapTo")

Hand == Based /\ BusKinds /\ (lost = 0 => \A p \in Side : Announced(p) /\ Hopeful(p))

\* Sequences of messages.

LEMMA HasGrown ==
    ASSUME NEW s \in Seq(Msg), NEW t \in Seq(Msg), NEW c
    PROVE  Has(s \o t, c) <=> Has(s, c) \/ Has(t, c)
<1>1. ASSUME NEW i \in DOMAIN s
      PROVE  i \in DOMAIN (s \o t) /\ (s \o t)[i] = s[i]
  OBVIOUS
<1>2. ASSUME NEW i \in DOMAIN t
      PROVE  Len(s) + i \in DOMAIN (s \o t) /\ (s \o t)[Len(s) + i] = t[i]
  OBVIOUS
<1>3. ASSUME NEW i \in DOMAIN (s \o t)
      PROVE  \/ i \in DOMAIN s
             \/ i - Len(s) \in DOMAIN t /\ (s \o t)[i] = t[i - Len(s)]
  OBVIOUS
<1>4. Has(s, c) => Has(s \o t, c)
  BY <1>1 DEF Has
<1>5. Has(t, c) => Has(s \o t, c)
  BY <1>2 DEF Has
<1>6. Has(s \o t, c) => Has(s, c) \/ Has(t, c)
  BY <1>1, <1>3 DEF Has
<1> QED BY <1>4, <1>5, <1>6

LEMMA HasTail ==
    ASSUME NEW s \in Seq(Msg), s # <<>>, NEW c
    PROVE  /\ Has(Tail(s), c) => Has(s, c)
           /\ Has(s, c) /\ Head(s).cmd # c => Has(Tail(s), c)
<1>1. ASSUME NEW i \in DOMAIN Tail(s)
      PROVE  i + 1 \in DOMAIN s /\ s[i + 1] = Tail(s)[i]
  OBVIOUS
<1>2. ASSUME NEW i \in DOMAIN s, i # 1
      PROVE  i - 1 \in DOMAIN Tail(s) /\ Tail(s)[i - 1] = s[i]
  BY <1>2
<1>3. Head(s) = s[1]
  OBVIOUS
<1>4. Has(Tail(s), c) => Has(s, c)
  BY <1>1 DEF Has
<1>5. Has(s, c) /\ Head(s).cmd # c => Has(Tail(s), c)
  BY <1>2, <1>3 DEF Has
<1> QED BY <1>4, <1>5

LEMMA FollowedGrown ==
    ASSUME NEW s \in Seq(Msg), NEW t \in Seq(Msg), ~ Has(t, "mapTo"),
           Followed(s) \/ Has(t, "mapped")
    PROVE  Followed(s \o t)
<1>1. ASSUME NEW i \in DOMAIN s
      PROVE  i \in DOMAIN (s \o t) /\ (s \o t)[i] = s[i]
  OBVIOUS
<1>2. ASSUME NEW i \in DOMAIN t
      PROVE  /\ Len(s) + i \in DOMAIN (s \o t) /\ (s \o t)[Len(s) + i] = t[i]
             /\ \A j \in DOMAIN s : j < Len(s) + i
  OBVIOUS
<1>3. ASSUME NEW i \in DOMAIN (s \o t)
      PROVE  \/ i \in DOMAIN s
             \/ i - Len(s) \in DOMAIN t /\ (s \o t)[i] = t[i - Len(s)]
  OBVIOUS
<1>4. SUFFICES ASSUME NEW i \in DOMAIN (s \o t), (s \o t)[i].cmd = "mapTo"
               PROVE  \E j \in DOMAIN (s \o t) : i < j /\ (s \o t)[j].cmd = "mapped"
  BY DEF Followed
<1>5. i \in DOMAIN s /\ s[i].cmd = "mapTo"
  BY <1>1, <1>3, <1>4 DEF Has
<1>6. CASE Followed(s)
  <2>1. PICK j \in DOMAIN s : i < j /\ s[j].cmd = "mapped"
    BY <1>5, <1>6 DEF Followed
  <2> QED BY <1>1, <2>1
<1>7. CASE Has(t, "mapped")
  <2>1. PICK j \in DOMAIN t : t[j].cmd = "mapped"
    BY <1>7 DEF Has
  <2> QED BY <1>2, <1>5, <2>1
<1> QED BY <1>6, <1>7

LEMMA FollowedTail ==
    ASSUME NEW s \in Seq(Msg), s # <<>>, Followed(s)
    PROVE  Followed(Tail(s)) /\ (Head(s).cmd = "mapTo" => Has(Tail(s), "mapped"))
<1>1. ASSUME NEW i \in DOMAIN Tail(s)
      PROVE  i + 1 \in DOMAIN s /\ s[i + 1] = Tail(s)[i]
  OBVIOUS
<1>2. ASSUME NEW i \in DOMAIN s, i # 1
      PROVE  i - 1 \in DOMAIN Tail(s) /\ Tail(s)[i - 1] = s[i]
  BY <1>2
<1>3. Head(s) = s[1] /\ 1 \in DOMAIN s /\ DOMAIN s \subseteq Nat \ {0}
  OBVIOUS
<1>4. ASSUME NEW i \in DOMAIN Tail(s), Tail(s)[i].cmd = "mapTo"
      PROVE  \E j \in DOMAIN Tail(s) : i < j /\ Tail(s)[j].cmd = "mapped"
  <2>1. PICK j \in DOMAIN s : i + 1 < j /\ s[j].cmd = "mapped"
    BY <1>1, <1>4 DEF Followed
  <2>2. i \in Nat /\ j \in Nat
    BY <1>3
  <2>3. j # 1 /\ i < j - 1
    BY <2>1, <2>2
  <2> QED BY <1>2, <2>1, <2>3
<1>5. ASSUME Head(s).cmd = "mapTo"
      PROVE  Has(Tail(s), "mapped")
  <2>1. PICK j \in DOMAIN s : 1 < j /\ s[j].cmd = "mapped"
    BY <1>3, <1>5 DEF Followed
  <2>2. j # 1
    BY <1>3, <2>1
  <2> QED BY <1>2, <2>1, <2>2 DEF Has
<1> QED BY <1>4, <1>5 DEF Followed

\* What a handler's result r says of the handshake when p had the message msg.
Effect(p, msg, r) ==
    /\ r.map.stage # "none" => r.link # "none" /\ sig[p]
    /\ r.link = "known" <=> link[p] = "known"
    /\ r.map.stage = "active" => ~ Has(r.out, "mapTo")
    /\ r.map.stage = "active" /\ map[p].stage # "active" /\ link[p] = "known"
         => Has(r.out, "mapped")
    /\ r.map.stage = "ready" => msg.cmd # "mapped" /\ map[p].stage # "active"
    /\ r.map.stage = "ready" /\ map[p].stage # "ready" /\ link[p] = "known"
         => Has(r.out, "mapTo") \/ (msg.cmd = "mapTo" /\ Has(r.out, "mapped"))
    /\ Working(r.map) /\ msg.cmd = "mapTo" /\ link[p] = "known" => Has(r.out, "mapped")

LEMMA OverHas ==
    ASSUME NEW l, NEW cmd, NEW m
    PROVE  /\ l = "known" => Has(Over(l, cmd, m), cmd)
           /\ \A c : Has(Over(l, cmd, m), c) => c = cmd
<1> DEFINE s == <<Message(cmd, m)>>
<1>1. DOMAIN s = {1} /\ s[1].cmd = cmd /\ DOMAIN <<>> = {}
  BY DEF Message
<1>2. Has(s, cmd) /\ \A c : Has(s, c) => c = cmd
  <2> HIDE DEF s
  <2> QED BY <1>1 DEF Has
<1>3. \A c : ~ Has(<<>>, c)
  BY <1>1 DEF Has
<1>4. Over(l, cmd, m) = IF l = "known" THEN s ELSE <<>>
  BY DEF Over
<1> QED BY <1>2, <1>3, <1>4

LEMMA NothingHas == \A c : ~ Has(<<>>, c)
<1>1. DOMAIN <<>> = {}
  OBVIOUS
<1> QED BY <1>1 DEF Has

LEMMA AfterParts ==
    ASSUME NEW m, NEW l, NEW k, NEW n, NEW out
    PROVE  /\ After(m, l, k, n, out).map = m /\ After(m, l, k, n, out).link = l
           /\ After(m, l, k, n, out).out = out
BY DEF After

LEMMA IgnoredEffect ==
    ASSUME TypeOK, Sound, Based, NEW p \in Side, NEW msg \in Msg,
           msg.cmd \in {"mapTo", "mapped"} => ~ Known(p)
    PROVE  Effect(p, msg, Ignored(p))
<1>1. /\ Ignored(p).map = map[p] /\ Ignored(p).link = link[p] /\ Ignored(p).out = <<>>
  BY AfterParts DEF Ignored
<1>2. Known(p) => link[p] # "none" /\ sig[p]
  BY DEF Based
<1> QED BY <1>1, <1>2, NothingHas DEF Effect, Known, Working

\* _check_status never makes a map active or undoes that it is.
LEMMA CheckedStage ==
    ASSUME NEW p, NEW m \in Map, NEW l, NEW known
    PROVE  /\ Checked(p, m, l, known).stage = "active" <=> m.stage = "active"
           /\ m.stage = "ready" => Checked(p, m, l, known).stage = "ready"
           /\ Checked(p, m, l, known).stage \in {m.stage, "ready"}
<1> DEFINE k == m.known \cup (IF known THEN {"meta"} ELSE {})
                        \cup (IF Reaches(l) THEN {"link"} ELSE {})
           e == IF p = "src" /\ m.expr = NoExpr THEN Default ELSE m.expr
           a == [m EXCEPT !.known = k]
           b == [m EXCEPT !.known = k, !.stage = "ready", !.expr = e]
<1>1. Checked(p, m, l, known) =
        IF m.stage # "staged" THEN m ELSE IF k # {"meta", "link"} THEN a ELSE b
  BY DEF Checked
<1>2. a.stage = m.stage /\ b.stage = "ready"
  BY DEF Map
<1> HIDE DEF k, e, a, b
<1> QED BY <1>1, <1>2

LEMMA OnModEffect ==
    ASSUME TypeOK, Sound, Based, NEW p \in Side, NEW msg \in Msg,
           msg.cmd \notin {"mapTo", "mapped"}
    PROVE  Effect(p, msg, OnMod(p, msg))
<1> DEFINE n == [msg EXCEPT !.id = 0]
           m == Set(map[p], n)
           out == Over(link[p], "mapped", m)
           r == After(m, link[p], meta[p], nextId, out)
<1>0. n.id \in Nat /\ n.expr \in Expr \cup {NoExpr}
  BY MsgParts
<1> HIDE DEF n
<1>1. m.stage = map[p].stage
  BY <1>0, State, SetType
<1>2. \/ OnMod(p, msg) = Ignored(p)
      \/ map[p].stage = "active" /\ OnMod(p, msg) = r
  BY DEF OnMod, n
<1> HIDE DEF m
<1>3. (link[p] = "known" => Has(out, "mapped")) /\ ~ Has(out, "mapTo")
  BY OverHas
<1> HIDE DEF out
<1>4. r.map = m /\ r.link = link[p] /\ r.out = out
  BY AfterParts
<1> HIDE DEF r
<1>5. Known(p) => link[p] # "none" /\ sig[p]
  BY DEF Based
<1>6. ASSUME map[p].stage = "active"
      PROVE  Effect(p, msg, r)
  BY <1>1, <1>3, <1>4, <1>5, <1>6 DEF Effect, Known, Working
<1> QED BY <1>2, <1>6, IgnoredEffect

LEMMA LinkedParts ==
    ASSUME NEW p
    PROVE  Linked(p) # "none" /\ (Linked(p) = "known" <=> link[p] = "known")
BY DEF Linked

\* The stage of a record that was found or is new.
LEMMA EnteredStage ==
    ASSUME NEW p, NEW msg
    PROVE  Entered(p, msg).stage = IF Known(p) THEN map[p].stage ELSE "staged"
<1> DEFINE e == [NoMap EXCEPT !.stage = "staged", !.id = IF p = "dst" THEN nextId ELSE msg.id]
<1>1. e.stage = "staged"
  BY DEF NoMap
<1>2. Entered(p, msg) = IF Known(p) THEN map[p] ELSE e
  BY DEF Entered
<1> HIDE DEF e
<1> QED BY <1>1, <1>2

LEMMA OnMapEffect ==
    ASSUME TypeOK, Sound, Based, NEW p \in Side, NEW msg \in Msg,
           msg.cmd \notin {"mapTo", "mapped"}
    PROVE  Effect(p, msg, OnMap(p, msg))
<1> DEFINE e == Entered(p, msg)
           s == Set(e, msg)
           m == Checked(p, s, Linked(p), meta[p])
           out == Over(Linked(p), "mapTo", m)
           r == After(m, Linked(p), meta[p], NextAfter(p), out)
<1>1. e \in Map /\ Fits(e, Linked(p)) /\ e.stage = IF Known(p) THEN map[p].stage ELSE "staged"
  BY EnteredType, EnteredStage
<1>2. \/ OnMap(p, msg) \in {Ignored(p), OnMod(p, msg)}
      \/ sig[p] /\ map[p].stage # "active" /\ OnMap(p, msg) = r
  BY DEF OnMap
<1> HIDE DEF e
<1>3. s \in Map /\ s.stage = e.stage
  BY <1>1, SetFits
<1> HIDE DEF s
<1>4. m.stage = "active" <=> s.stage = "active"
  BY <1>3, CheckedStage
<1> HIDE DEF m
<1>5. Linked(p) # "none" /\ (Linked(p) = "known" <=> link[p] = "known")
  BY LinkedParts
<1>6. Linked(p) = "known" => Has(out, "mapTo")
  BY OverHas
<1> HIDE DEF out
<1>7. r.map = m /\ r.link = Linked(p) /\ r.out = out
  BY AfterParts
<1> HIDE DEF r
<1>8. ASSUME sig[p], map[p].stage # "active"
      PROVE  Effect(p, msg, r)
  <2>1. m.stage # "active"
    BY <1>1, <1>3, <1>4, <1>8
  <2> QED BY <2>1, <1>5, <1>6, <1>7, <1>8 DEF Effect, Working
<1> QED BY <1>2, <1>8, IgnoredEffect, OnModEffect

LEMMA OnMapToEffect ==
    ASSUME TypeOK, Sound, Based, NEW p \in Side, NEW msg \in Msg, msg.cmd = "mapTo"
    PROVE  Effect(p, msg, OnMapTo(p, msg))
<1> DEFINE e == Entered(p, msg)
           s == Set(e, msg)
           c == Checked(p, s, Linked(p), TRUE)
           m == IF e.stage = "active" THEN e ELSE c
           out == IF Working(m) THEN Over(link[p], "mapped", m) ELSE <<>>
           r == After(m, Linked(p), meta[p] \/ e.stage # "active", NextAfter(p), out)
<1>1. e \in Map /\ Fits(e, Linked(p)) /\ e.stage = IF Known(p) THEN map[p].stage ELSE "staged"
  BY EnteredType, EnteredStage
<1>2. (~ sig[p] /\ OnMapTo(p, msg) = Ignored(p)) \/ (sig[p] /\ OnMapTo(p, msg) = r)
  BY DEF OnMapTo
<1> HIDE DEF e
<1>3. s \in Map /\ s.stage = e.stage
  BY <1>1, SetFits
<1> HIDE DEF s
<1>4. c.stage = "active" <=> s.stage = "active"
  BY <1>3, CheckedStage
<1> HIDE DEF c
<1>5. m.stage = "active" <=> e.stage = "active"
  BY <1>3, <1>4
<1>6. Known(p) \/ map[p].stage # "active"
  BY DEF Known
<1>7. m.stage = "active" <=> map[p].stage = "active"
  BY <1>1, <1>5, <1>6
<1> HIDE DEF m
<1>8. Linked(p) # "none" /\ (Linked(p) = "known" <=> link[p] = "known")
  BY LinkedParts
<1>9. (link[p] = "known" /\ Working(m) => Has(out, "mapped")) /\ ~ Has(out, "mapTo")
  BY OverHas, NothingHas
<1> HIDE DEF out
<1>10. r.map = m /\ r.link = Linked(p) /\ r.out = out
  BY AfterParts
<1> HIDE DEF r
<1>11. ASSUME sig[p]
       PROVE  Effect(p, msg, r)
  BY <1>7, <1>8, <1>9, <1>10, <1>11 DEF Effect, Working
<1>12. ~ sig[p] => ~ Known(p)
  BY DEF Based
<1> QED BY <1>2, <1>11, <1>12, IgnoredEffect

LEMMA OnMappedEffect ==
    ASSUME TypeOK, Sound, Based, NEW p \in Side, NEW msg \in Msg, msg.cmd = "mapped"
    PROVE  Effect(p, msg, OnMapped(p, msg))
<1> DEFINE s == Set(map[p], msg)
           m == Checked(p, s, link[p], TRUE)
           a == [m EXCEPT !.stage = "active"]
           out == Over(link[p], "mapped", a)
           r == After(a, link[p], TRUE, nextId, out)
           w == After(m, link[p], TRUE, nextId, <<>>)
<1>1. s \in Map /\ Fits(s, link[p]) /\ s.stage = map[p].stage
  BY State, SetFits
<1>2. \/ ~ Known(p) /\ OnMapped(p, msg) = Ignored(p)
      \/ Known(p) /\ m.stage = "ready" /\ OnMapped(p, msg) = r
      \/ Known(p) /\ m.stage # "ready" /\ OnMapped(p, msg) = w
  BY DEF OnMapped
<1> HIDE DEF s
<1>3. m \in Map /\ (m.stage = "active" <=> s.stage = "active")
  BY <1>1, State, CheckedType, CheckedStage
<1> HIDE DEF m
<1>4. a.stage = "active"
  BY <1>3 DEF Map
<1> HIDE DEF a
<1>5. (link[p] = "known" => Has(out, "mapped")) /\ ~ Has(out, "mapTo")
  BY OverHas
<1> HIDE DEF out
<1>6. /\ r.map = a /\ r.link = link[p] /\ r.out = out
      /\ w.map = m /\ w.link = link[p] /\ w.out = <<>>
  BY DEF After
<1> HIDE DEF r, w
<1>7. Known(p) => link[p] # "none" /\ sig[p]
  BY DEF Based
<1>8. ASSUME Known(p)
      PROVE  Effect(p, msg, r)
  BY <1>4, <1>5, <1>6, <1>7, <1>8 DEF Effect, Working
<1>9. ASSUME Known(p), m.stage # "ready"
      PROVE  Effect(p, msg, w)
  BY <1>1, <1>3, <1>6, <1>7, <1>9, NothingHas DEF Effect, Working
<1> QED BY <1>2, <1>8, <1>9, IgnoredEffect

LEMMA OnUnmapEffect ==
    ASSUME TypeOK, Sound, Based, NEW p \in Side, NEW msg \in Msg,
           msg.cmd \notin {"mapTo", "mapped"}
    PROVE  Effect(p, msg, OnUnmap(p, msg))
<1> DEFINE out == Over(link[p], "unmap", map[p])
           r == After(NoMap, link[p], meta[p], nextId, out)
<1>1. OnUnmap(p, msg) \in {r, Ignored(p)}
  BY DEF OnUnmap
<1> HIDE DEF out
<1>2. r.map.stage = "none" /\ r.link = link[p]
  BY AfterParts DEF NoMap
<1> HIDE DEF r
<1>3. Effect(p, msg, r)
  BY <1>2 DEF Effect, Working
<1> QED BY <1>1, <1>3, IgnoredEffect

LEMMA HandledEffect ==
    ASSUME TypeOK, Sound, Based, NEW p \in Side, NEW msg \in Msg
    PROVE  Effect(p, msg, Handled(p, msg))
<1>1. CASE msg.cmd = "map"
  BY <1>1, OnMapEffect DEF Handled
<1>2. CASE msg.cmd = "mapTo"
  BY <1>2, OnMapToEffect DEF Handled
<1>3. CASE msg.cmd = "mapped"
  BY <1>3, OnMappedEffect DEF Handled
<1>4. CASE msg.cmd = "unmap"
  BY <1>4, OnUnmapEffect DEF Handled
<1>5. CASE msg.cmd = "mod"
  BY <1>5, OnModEffect DEF Handled
<1> QED BY <1>1, <1>2, <1>3, <1>4, <1>5, MsgParts

\* Reading msg turns the queue s into t: its head from a peer, nothing from the bus.
Reads(s, msg, t) ==
    /\ Followed(s) => Followed(t) /\ (msg.cmd = "mapTo" => Has(t, "mapped"))
    /\ \A c \in {"mapTo", "mapped"} : Has(s, c) /\ msg.cmd # c => Has(t, c)

\* The handler of p keeps what was said of both ends.
LEMMA HandKept ==
    ASSUME TypeOK, NEW p \in Side, NEW q, q = Other(p), NEW msg, NEW r, Effect(p, msg, r),
           Announced(p), Announced(q), Hopeful(p), Hopeful(q),
           NEW t \in Seq(Msg), Reads(mesh[p], msg, t), r.out \in Seq(Msg),
           map'[p] = r.map, map'[q] = map[q], link'[p] = r.link, link'[q] = link[q],
           mesh'[p] = t, mesh'[q] = mesh[q] \o r.out
    PROVE  \A x \in Side : Announced(x)' /\ Hopeful(x)'
<1>1. q \in Side /\ Other(q) = p /\ Side = {p, q} /\ mesh[q] \in Seq(Msg)
  BY Sides DEF TypeOK, Side, Other
<1>2. \A c : Has(mesh[q] \o r.out, c) <=> Has(mesh[q], c) \/ Has(r.out, c)
  BY <1>1, HasGrown
<1> DEFINE u == mesh[q] \o r.out
<1>3. /\ \A c : Has(u, c) <=> Has(mesh[q], c) \/ Has(r.out, c)
      /\ ~ Has(r.out, "mapTo") /\ (Followed(mesh[q]) \/ Has(r.out, "mapped")) => Followed(u)
  BY <1>1, <1>2, FollowedGrown
<1>4. mesh'[q] = u
  OBVIOUS
<1> HIDE DEF u
\* p has said /mapped, now or before.
<1>5. r.map.stage = "active" /\ r.link = "known" => Followed(u)
  BY <1>3 DEF Effect, Announced
<1>6. map[q].stage = "active" /\ link[q] = "known" => Followed(t)
  BY <1>1 DEF Reads, Announced
\* p is ready: what it waited for is still under way, or it has just asked for it.
<1>7. ASSUME r.map.stage = "ready", Working(map[q]), r.link = "known", link[q] = "known"
      PROVE  \/ Has(t, "mapped") \/ Has(u, "mapTo")
             \/ map[q].stage = "ready" /\ (Has(u, "mapped") \/ Has(t, "mapTo"))
  <2>1. link[p] = "known" /\ msg.cmd # "mapped" /\ Working(r.map)
    BY <1>7 DEF Effect, Working
  <2>2. CASE map[p].stage = "ready"
    <3>1. \/ Has(mesh[p], "mapped") \/ Has(mesh[q], "mapTo")
          \/ map[q].stage = "ready" /\ (Has(mesh[q], "mapped") \/ Has(mesh[p], "mapTo"))
      BY <1>7, <2>1, <2>2 DEF Hopeful
    <3>2. Has(mesh[p], "mapTo") => Has(t, "mapTo") \/ Has(u, "mapped")
      BY <1>3, <2>1 DEF Reads, Effect
    <3>3. Has(mesh[p], "mapped") => Has(t, "mapped")
      BY <2>1 DEF Reads
    <3> QED BY <1>3, <3>1, <3>2, <3>3
  <2>3. CASE map[p].stage # "ready"
    <3>1. Has(r.out, "mapTo") \/ (msg.cmd = "mapTo" /\ Has(r.out, "mapped"))
      BY <1>7, <2>1, <2>3 DEF Effect
    <3>2. map[q].stage = "active" /\ msg.cmd = "mapTo" => Has(t, "mapped")
      BY <1>1, <1>7 DEF Reads, Announced
    <3> QED BY <1>3, <1>7, <3>1, <3>2 DEF Working
  <2> QED BY <2>2, <2>3
\* q is ready and p works.
<1>8. ASSUME map[q].stage = "ready", Working(r.map), r.link = "known", link[q] = "known"
      PROVE  \/ Has(u, "mapped") \/ Has(t, "mapTo")
             \/ r.map.stage = "ready" /\ (Has(t, "mapped") \/ Has(u, "mapTo"))
  <2>1. link[p] = "known"
    BY <1>8 DEF Effect
  <2>2. CASE Working(map[p])
    <3>1. \/ Has(mesh[q], "mapped") \/ Has(mesh[p], "mapTo")
          \/ map[p].stage = "ready" /\ (Has(mesh[p], "mapped") \/ Has(mesh[q], "mapTo"))
      BY <1>1, <1>8, <2>1, <2>2 DEF Hopeful
    <3>2. Has(mesh[p], "mapTo") => Has(t, "mapTo") \/ Has(u, "mapped")
      BY <1>3, <1>8, <2>1 DEF Reads, Effect
    <3>3. CASE r.map.stage = "ready"
      <4>1. Has(mesh[p], "mapped") => Has(t, "mapped")
        BY <3>3 DEF Reads, Effect
      <4> QED BY <1>3, <3>1, <3>2, <3>3, <4>1
    <3>4. CASE r.map.stage = "active"
      <4>1. map[p].stage = "ready" => Has(u, "mapped")
        BY <1>3, <2>1, <3>4 DEF Effect
      <4> QED BY <1>3, <3>1, <3>2, <4>1
    <3> QED BY <1>8, <3>3, <3>4 DEF Working
  <2>3. CASE ~ Working(map[p])
    <3>1. r.map.stage = "ready" => Has(r.out, "mapTo") \/ Has(r.out, "mapped")
      BY <2>1, <2>3 DEF Effect, Working
    <3>2. r.map.stage = "active" => Has(r.out, "mapped")
      BY <2>1, <2>3 DEF Effect, Working
    <3> QED BY <1>3, <1>8, <3>1, <3>2 DEF Working
  <2> QED BY <2>2, <2>3
<1>9. Announced(p)' /\ Hopeful(p)'
  BY <1>4, <1>5, <1>7 DEF Announced, Hopeful
<1>10. Announced(q)' /\ Hopeful(q)'
  BY <1>1, <1>4, <1>6, <1>8 DEF Announced, Hopeful
<1> QED BY <1>1, <1>9, <1>10

\* The record of p and its link are those of the result; the peer's stay.
LEMMA BecomeParts ==
    ASSUME TypeOK, NEW p \in Side, NEW r, Become(p, r)
    PROVE  /\ map'[p] = r.map /\ link'[p] = r.link
           /\ map'[Other(p)] = map[Other(p)] /\ link'[Other(p)] = link[Other(p)]
BY Sides DEF Become, TypeOK

LEMMA BasedKept ==
    ASSUME TypeOK, Based, NEW p \in Side, NEW msg, NEW r, Effect(p, msg, r), Become(p, r), sig' = sig
    PROVE  Based'
<1>1. /\ map'[p] = r.map /\ link'[p] = r.link
      /\ map'[Other(p)] = map[Other(p)] /\ link'[Other(p)] = link[Other(p)]
  BY BecomeParts
<1>2. r.map.stage # "none" => r.link # "none" /\ sig[p]
  BY DEF Effect
<1>3. \A q \in Side : map'[q].stage # "none" => link'[q] # "none" /\ sig'[q]
  BY <1>1, <1>2, Sides DEF Based, Known
<1> QED BY <1>3 DEF Based, Known

LEMMA ReceiveHand ==
    ASSUME TypeOK, Sound, Hand, NEW p \in Side, Receive(p)
    PROVE  Hand'
<1> DEFINE q == Other(p)
           msg == Head(mesh[p])
           r == Handled(p, msg)
           t == Tail(mesh[p])
<1>1. mesh \in [Side -> Seq(Msg)] /\ q \in Side /\ q # p
  BY Sides DEF TypeOK
<1>2. /\ mesh[p] # <<>> /\ Become(p, r) /\ UNCHANGED <<sig, bus, env>>
      /\ mesh' = [mesh EXCEPT ![p] = t, ![q] = @ \o r.out]
  BY DEF Receive
<1>3. msg \in Msg /\ t \in Seq(Msg)
  BY <1>1, <1>2, QueueFacts
<1>4. Result(r) /\ Effect(p, msg, r)
  BY <1>3, HandledResult, HandledEffect DEF Hand
<1>5. Reads(mesh[p], msg, t)
  BY <1>1, <1>2, HasTail, FollowedTail DEF Reads
<1>6. mesh'[p] = t /\ mesh'[q] = mesh[q] \o r.out
  BY <1>1, <1>2
<1> HIDE DEF r, msg, t
<1>7. /\ map'[p] = r.map /\ link'[p] = r.link /\ map'[q] = map[q] /\ link'[q] = link[q]
  BY <1>2, BecomeParts
<1>8. Based'
  BY <1>2, <1>4, BasedKept DEF Hand
<1>9. BusKinds'
  BY <1>2 DEF Hand, BusKinds
<1>10. ASSUME lost = 0
       PROVE  \A x \in Side : Announced(x)' /\ Hopeful(x)'
  <2>1. Announced(p) /\ Announced(q) /\ Hopeful(p) /\ Hopeful(q)
    BY <1>1, <1>10 DEF Hand
  <2>2. r.out \in Seq(Msg)
    BY <1>4 DEF Result
  <2> QED BY <1>3, <1>4, <1>5, <1>6, <1>7, <2>1, <2>2, HandKept
<1> QED BY <1>2, <1>8, <1>9, <1>10 DEF Hand, env

LEMMA ReceiveBusHand ==
    ASSUME TypeOK, Sound, Hand, NEW p \in Side, ReceiveBus(p)
    PROVE  Hand'
<1> DEFINE q == Other(p)
           msg == Head(bus[p])
           r == Handled(p, msg)
           t == mesh[p]
<1>1. mesh \in [Side -> Seq(Msg)] /\ bus \in [Side -> Seq(Msg)] /\ q \in Side /\ q # p
  BY Sides DEF TypeOK
<1>2. /\ bus[p] # <<>> /\ Become(p, r) /\ UNCHANGED <<sig, env>>
      /\ mesh' = [mesh EXCEPT ![q] = @ \o r.out]
      /\ bus' = [bus EXCEPT ![p] = Tail(@)]
  BY DEF ReceiveBus
<1>3. msg \in Msg /\ t \in Seq(Msg)
  BY <1>1, <1>2, QueueFacts
<1>4. Result(r) /\ Effect(p, msg, r)
  BY <1>3, HandledResult, HandledEffect DEF Hand
<1>5. Reads(mesh[p], msg, t)
  <2>1. Has(bus[p], msg.cmd)
    <3>1. bus[p] \in Seq(Msg) /\ bus[p] # <<>>
      BY <1>1, <1>2
    <3>2. 1 \in DOMAIN bus[p] /\ bus[p][1] = Head(bus[p])
      BY <3>1
    <3> QED BY <3>2 DEF Has
  <2>2. msg.cmd \notin {"mapTo", "mapped"}
    BY <2>1 DEF Hand, BusKinds
  <2> QED BY <2>2 DEF Reads
<1>6. mesh'[p] = t /\ mesh'[q] = mesh[q] \o r.out
  BY <1>1, <1>2
<1>7. BusKinds'
  <2>1. bus'[p] = Tail(bus[p]) /\ bus'[q] = bus[q] /\ Side = {p, q}
    BY <1>1, <1>2, Sides
  <2>2. \A c : Has(Tail(bus[p]), c) => Has(bus[p], c)
    BY <1>1, <1>2, HasTail
  <2>3. \A x \in Side : ~ Has(bus'[x], "mapTo") /\ ~ Has(bus'[x], "mapped")
    BY <2>1, <2>2 DEF Hand, BusKinds
  <2> QED BY <2>3 DEF BusKinds, Has
<1> HIDE DEF r, msg, t
<1>8. /\ map'[p] = r.map /\ link'[p] = r.link /\ map'[q] = map[q] /\ link'[q] = link[q]
  BY <1>2, BecomeParts
<1>9. Based'
  BY <1>2, <1>4, BasedKept DEF Hand
<1>10. ASSUME lost = 0
       PROVE  \A x \in Side : Announced(x)' /\ Hopeful(x)'
  <2>1. Announced(p) /\ Announced(q) /\ Hopeful(p) /\ Hopeful(q)
    BY <1>1, <1>10 DEF Hand
  <2>2. r.out \in Seq(Msg)
    BY <1>4 DEF Result
  <2> QED BY <1>3, <1>4, <1>5, <1>6, <1>8, <2>1, <2>2, HandKept
<1> QED BY <1>2, <1>7, <1>9, <1>10 DEF Hand, env

\* An end whose link was only asked for had nothing that works.
LEMMA LinkUpHand ==
    ASSUME TypeOK, Sound, Hand, NEW p \in Side, LinkUp(p)
    PROVE  Hand'
<1> DEFINE q == Other(p)
           out == IF Known(p) THEN <<Message("mapTo", map[p])>> ELSE <<>>
<1>1. mesh \in [Side -> Seq(Msg)] /\ link \in [Side -> Links] /\ q \in Side /\ q # p /\ Side = {p, q}
  BY Sides DEF TypeOK, Links
<1>2. /\ link[p] = "new" /\ link' = [link EXCEPT ![p] = "known"]
      /\ mesh' = [mesh EXCEPT ![q] = @ \o out]
      /\ UNCHANGED <<map, sig, bus, lost>>
  BY DEF LinkUp, env
<1> HIDE DEF out
<1>3. ~ Working(map[p])
  BY <1>2 DEF Sound, Fits, Reaches
<1>4. link'[q] = link[q] /\ mesh'[p] = mesh[p] /\ link'[p] = "known"
  BY <1>1, <1>2
<1>5. Based'
  BY <1>1, <1>2, <1>4 DEF Hand, Based, Known
<1>6. BusKinds'
  BY <1>2 DEF Hand, BusKinds
<1>7. ASSUME lost = 0
      PROVE  \A x \in Side : Announced(x)' /\ Hopeful(x)'
  <2>1. Other(q) = p
    BY Sides DEF Side, Other
  <2>2. Announced(p)' /\ Hopeful(p)'
    BY <1>2, <1>3 DEF Announced, Hopeful, Working
  <2>3. Announced(q)'
    BY <1>1, <1>2, <1>4, <1>7, <2>1 DEF Hand, Announced
  <2>4. Hopeful(q)'
    BY <1>2, <1>3, <2>1 DEF Hopeful
  <2> QED BY <1>1, <2>2, <2>3, <2>4
<1> QED BY <1>2, <1>5, <1>6, <1>7 DEF Hand

\* A step after which p works no more, or works no more than before, and that reads
\* and sends nothing.
LEMMA RetiredHand ==
    ASSUME TypeOK, Hand, NEW p \in Side,
           NEW m, ~ Working(m), map' = [map EXCEPT ![p] = m],
           \A x \in Side : link'[x] = "known" => link[x] = "known" /\ mesh'[Other(x)] = mesh[Other(x)],
           lost' = lost, Based', BusKinds'
    PROVE  Hand'
<1>1. p \in Side /\ Other(p) \in Side /\ Other(p) # p /\ Side = {p, Other(p)} /\ Other(Other(p)) = p
  BY Sides DEF Side, Other
<1>2. map'[p] = m /\ map'[Other(p)] = map[Other(p)]
  BY <1>1 DEF TypeOK
<1>3. ASSUME lost = 0
      PROVE  \A x \in Side : Announced(x)' /\ Hopeful(x)'
  <2>1. Announced(p)' /\ Hopeful(p)'
    BY <1>2 DEF Announced, Hopeful, Working
  <2>2. Announced(Other(p))
    BY <1>1, <1>3 DEF Hand
  <2>3. link'[Other(p)] = "known" => link[Other(p)] = "known" /\ mesh'[p] = mesh[p]
    BY <1>1
  <2>4. Announced(Other(p))'
    BY <1>1, <1>2, <2>2, <2>3 DEF Announced
  <2>5. Hopeful(Other(p))'
    BY <1>1, <1>2 DEF Hopeful, Working
  <2> QED BY <1>1, <2>1, <2>4, <2>5
<1> QED BY <1>3 DEF Hand

LEMMA HousekeepingHand ==
    ASSUME TypeOK, Sound, Hand, NEW p \in Side, Cleanup(p) \/ LinkTimeout(p)
    PROVE  Hand'
<1>1. map[p] \in Map /\ map \in [Side -> Map] /\ link \in [Side -> Links]
  BY DEF TypeOK, Links
<1>2. BusKinds'
  BY DEF Hand, BusKinds, Cleanup, LinkTimeout
<1>3. CASE Cleanup(p)
  <2> DEFINE m == IF map[p].count = 1 THEN NoMap ELSE [map[p] EXCEPT !.count = 1]
  <2>1. /\ Idle(map[p]) /\ map' = [map EXCEPT ![p] = m] /\ UNCHANGED <<link, sig, mesh, lost>>
    BY <1>3 DEF Cleanup, env
  <2>2. m.stage \in {"none", "staged"} /\ (m.stage # "none" => Known(p))
    BY <1>1, <2>1 DEF Idle, NoMap, Map, Known
  <2> HIDE DEF m
  <2>3. ~ Working(m)
    BY <2>2 DEF Working
  <2>4. \A x \in Side : map'[x].stage # "none" => map[x].stage # "none"
    BY <1>1, <2>1, <2>2 DEF Known
  <2>5. Based'
    BY <2>1, <2>4 DEF Hand, Based, Known
  <2> QED BY <1>2, <2>1, <2>3, <2>5, RetiredHand
<1>4. CASE LinkTimeout(p)
  <2>1. /\ map' = [map EXCEPT ![p] = NoMap] /\ link' = [link EXCEPT ![p] = "none"]
        /\ UNCHANGED <<sig, mesh, lost>>
    BY <1>4 DEF LinkTimeout, env
  <2>2. \A x \in Side : map'[x].stage # "none" => map[x].stage # "none" /\ link'[x] = link[x]
    BY <1>1, <2>1 DEF NoMap
  <2>3. Based'
    BY <2>1, <2>2 DEF Hand, Based, Known
  <2>4. \A x \in Side : link'[x] = "known" => link[x] = "known"
    BY <1>1, <2>1
  <2> QED BY <1>2, <2>1, <2>3, <2>4, NoMapType, RetiredHand
<1> QED BY <1>3, <1>4

\* An administrator and the applications send no part of the handshake.
LEMMA MulticastKinds ==
    ASSUME TypeOK, BusKinds, NEW msg \in Msg, msg.cmd \notin {"mapTo", "mapped"}, Multicast(msg)
    PROVE  BusKinds'
<1>1. ASSUME NEW p \in Side
      PROVE  \A c \in {"mapTo", "mapped"} : ~ Has(bus'[p], c)
  <2>1. bus[p] \in Seq(Msg) /\ bus'[p] = bus[p] \o <<msg>> /\ <<msg>> \in Seq(Msg)
    BY AppendIsConcat DEF TypeOK, Multicast
  <2>2. \A c : Has(<<msg>>, c) => c = msg.cmd
    BY DEF Has
  <2>3. \A c : Has(bus'[p], c) => Has(bus[p], c) \/ c = msg.cmd
    BY <2>1, <2>2, HasGrown
  <2> QED BY <2>3 DEF BusKinds
<1> QED BY <1>1 DEF BusKinds, Has

LEMMA AskHand ==
    ASSUME TypeOK, Hand, NEW msg \in Msg, msg.cmd \notin {"mapTo", "mapped"}, Multicast(msg),
           UNCHANGED <<map, link, meta, sig, mesh, nextId, lost, restarts>>
    PROVE  Hand'
<1>1. BusKinds'
  BY MulticastKinds DEF Hand
<1>2. Based'
  BY DEF Hand, Based, Known
<1>3. lost = 0 => \A p \in Side : Announced(p)' /\ Hopeful(p)'
  BY DEF Hand, Announced, Hopeful
<1> QED BY <1>1, <1>2, <1>3 DEF Hand

LEMMA FreeSigHand ==
    ASSUME TypeOK, Hand, NEW p \in Side, FreeSig(p)
    PROVE  Hand'
<1>1. /\ sig' = [sig EXCEPT ![p] = FALSE] /\ map' = [map EXCEPT ![p] = NoMap]
      /\ Multicast(Request("unmap", map[p].id, NoExpr)) \/ bus' = bus
      /\ UNCHANGED <<link, mesh, lost>>
  BY DEF FreeSig
<1>2. map[p] \in Map /\ map \in [Side -> Map] /\ sig \in [Side -> BOOLEAN]
  BY DEF TypeOK
<1>3. Request("unmap", map[p].id, NoExpr) \in Msg /\ Request("unmap", map[p].id, NoExpr).cmd = "unmap"
  BY <1>2, RecordFields, RequestType DEF Request
<1>4. BusKinds'
  <2>1. CASE Multicast(Request("unmap", map[p].id, NoExpr))
    BY <1>3, <2>1, MulticastKinds DEF Hand
  <2>2. CASE bus' = bus
    BY <2>2 DEF Hand, BusKinds
  <2> QED BY <1>1, <2>1, <2>2
<1>5. \A x \in Side : map'[x].stage # "none" => map[x].stage # "none" /\ sig'[x] = sig[x]
  BY <1>1, <1>2 DEF NoMap
<1>6. Based'
  BY <1>1, <1>5 DEF Hand, Based, Known
<1> QED BY <1>1, <1>4, <1>6, NoMapType, RetiredHand

LEMMA RequestsHand ==
    ASSUME TypeOK, Hand, Requests
    PROVE  Hand'
<1>0. \A cmd, id, e : Request(cmd, id, e).cmd = cmd
  BY DEF Request
<1>1. ASSUME NEW e \in Expr \cup {NoExpr}, AskMap(e)
      PROVE  Hand'
  <2>1. Request("map", 0, e) \in Msg
    BY RequestType
  <2> QED BY <1>0, <1>1, <2>1, AskHand DEF AskMap
<1>2. ASSUME NEW p \in Side, NEW e \in Expr, AskMod(p, e)
      PROVE  Hand'
  <2>1. map[p].id \in Nat
    BY RecordFields DEF TypeOK
  <2>2. Request("mod", map[p].id, e) \in Msg
    BY <2>1, RequestType
  <2> QED BY <1>0, <1>2, <2>2, AskHand DEF AskMod
<1>3. ASSUME NEW id \in {0} \cup {map[p].id : p \in Side}, AskUnmap(id)
      PROVE  Hand'
  <2>1. id \in Nat
    BY RecordFields DEF TypeOK
  <2>2. Request("unmap", id, NoExpr) \in Msg
    BY <2>1, RequestType
  <2> QED BY <1>0, <1>3, <2>2, AskHand DEF AskUnmap
<1> QED BY <1>1, <1>2, <1>3, FreeSigHand DEF Requests

LEMMA NewSigHand ==
    ASSUME TypeOK, Hand, NEW p \in Side, NewSig(p)
    PROVE  Hand'
<1>1. /\ ~ sig[p] /\ sig' = [sig EXCEPT ![p] = TRUE]
      /\ UNCHANGED <<map, link, mesh, bus, lost>>
  BY DEF NewSig, env
<1>2. \A x \in Side : sig[x] => sig'[x]
  BY <1>1 DEF TypeOK
<1>3. Based'
  BY <1>1, <1>2 DEF Hand, Based, Known
<1>4. BusKinds'
  BY <1>1 DEF Hand, BusKinds
<1>5. lost = 0 => \A x \in Side : Announced(x)' /\ Hopeful(x)'
  BY <1>1 DEF Hand, Announced, Hopeful
<1> QED BY <1>1, <1>3, <1>4, <1>5 DEF Hand

\* Once a message is lost nothing is promised.
LEMMA LoseHand ==
    ASSUME TypeOK, Hand, NEW p \in Side, LoseMesh(p) \/ LoseBus(p)
    PROVE  Hand'
<1>1. UNCHANGED <<map, link, sig>> /\ lost' = lost + 1 /\ lost \in Nat
  BY BoundAssumption DEF LoseMesh, LoseBus, TypeOK
<1>2. Based'
  BY <1>1 DEF Hand, Based, Known
<1>3. BusKinds'
  <2>1. CASE LoseMesh(p)
    BY <2>1 DEF LoseMesh, Hand, BusKinds
  <2>2. CASE LoseBus(p)
    <3>1. bus[p] # <<>> /\ bus' = [bus EXCEPT ![p] = Tail(@)] /\ bus \in [Side -> Seq(Msg)]
      BY <2>2 DEF LoseBus, TypeOK
    <3>2. \A c : Has(Tail(bus[p]), c) => Has(bus[p], c)
      BY <3>1, HasTail
    <3>3. \A x \in Side : bus'[x] = IF x = p THEN Tail(bus[p]) ELSE bus[x]
      BY <3>1
    <3>4. \A x \in Side : ~ Has(bus'[x], "mapTo") /\ ~ Has(bus'[x], "mapped")
      BY <3>2, <3>3 DEF Hand, BusKinds
    <3> QED BY <3>4 DEF BusKinds, Has
  <2> QED BY <2>1, <2>2
<1>4. lost' # 0
  BY <1>1
<1> QED BY <1>2, <1>3, <1>4 DEF Hand

\* After a restart no link between the two works.
LEMMA RestartHand ==
    ASSUME TypeOK, Hand, NEW p \in Side, Restart(p)
    PROVE  Hand'
<1> DEFINE q == Other(p)
<1>1. q \in Side /\ q # p /\ Side = {p, q}
  BY Sides
<1>2. /\ map' = [map EXCEPT ![p] = NoMap]
      /\ link' = [link EXCEPT ![p] = "none", ![q] = IF @ = "known" THEN "stale" ELSE @]
      /\ sig' = [sig EXCEPT ![p] = TRUE] /\ bus' = [bus EXCEPT ![p] = <<>>] /\ lost' = lost
  BY DEF Restart
<1>3. /\ map \in [Side -> Map] /\ link \in [Side -> Links] /\ sig \in [Side -> BOOLEAN]
      /\ bus \in [Side -> Seq(Msg)]
  BY DEF TypeOK, Links
<1>4. /\ map'[p] = NoMap /\ map'[q] = map[q] /\ sig'[q] = sig[q] /\ link'[p] = "none"
      /\ link'[q] # "known" /\ (link'[q] = "none" <=> link[q] = "none")
      /\ bus'[p] = <<>> /\ bus'[q] = bus[q]
  BY <1>1, <1>2, <1>3
<1>5. \A x \in Side : map'[x].stage # "none" => link'[x] # "none" /\ sig'[x]
  BY <1>1, <1>4 DEF Hand, Based, Known, NoMap
<1>6. Based'
  BY <1>5 DEF Based, Known
<1>7. \A x \in Side : ~ Has(bus'[x], "mapTo") /\ ~ Has(bus'[x], "mapped")
  BY <1>1, <1>4, NothingHas DEF Hand, BusKinds
<1>8. BusKinds'
  BY <1>7 DEF BusKinds, Has
<1>9. \A x \in Side : link'[x] # "known"
  BY <1>1, <1>4
<1>10. \A x \in Side : Announced(x)' /\ Hopeful(x)'
  BY <1>9 DEF Announced, Hopeful
<1> QED BY <1>6, <1>8, <1>10 DEF Hand

LEMMA InitHand == Init => Hand
<1> SUFFICES ASSUME Init PROVE Hand
  OBVIOUS
<1>1. /\ map = [p \in Side |-> NoMap] /\ bus = [p \in Side |-> <<>>]
  BY DEF Init
<1>2. \A p \in Side : map[p].stage = "none" /\ bus[p] = <<>>
  BY <1>1 DEF NoMap
<1>3. Based /\ \A p \in Side : Announced(p) /\ Hopeful(p)
  BY <1>2 DEF Based, Known, Announced, Hopeful
<1>4. BusKinds
  BY <1>2, NothingHas DEF BusKinds
<1> QED BY <1>3, <1>4 DEF Hand

LEMMA NextHand == TypeOK /\ Sound /\ Hand /\ [Next]_vars => Hand'
<1> SUFFICES ASSUME TypeOK, Sound, Hand, [Next]_vars PROVE Hand'
  OBVIOUS
<1>1. CASE Requests
  BY <1>1, RequestsHand
<1>2. CASE Network
  BY <1>2, ReceiveHand, ReceiveBusHand, LinkUpHand DEF Network
<1>3. CASE Housekeeping
  BY <1>3, HousekeepingHand DEF Housekeeping
<1>4. CASE Faults
  BY <1>4, LoseHand, RestartHand DEF Faults
<1>5. CASE \E p \in Side : NewSig(p)
  BY <1>5, NewSigHand
<1>6. CASE UNCHANGED vars
  <2>1. UNCHANGED <<map, link, sig, mesh, bus, lost>>
    BY <1>6 DEF vars, env
  <2> QED BY <2>1 DEF Hand, Based, BusKinds, Known, Announced, Hopeful
<1> QED BY <1>1, <1>2, <1>3, <1>4, <1>5, <1>6 DEF Next

\* At rest a link that is there is one over which the peer has a map that works.
LEMMA RestTogether ==
    ASSUME ~ LinkBusy, TypeOK, Hand
    PROVE  Together
<1> SUFFICES ASSUME Quiet, lost = 0
             PROVE  /\ map["src"].stage = map["dst"].stage
                    /\ map["src"].stage \in {"none", "active"}
  BY DEF Together
<1>1. ASSUME NEW p \in Side, Known(p)
      PROVE  link[Other(p)] = "known" /\ Working(map[Other(p)])
  BY <1>1 DEF Hand, Based, Quiet, Silent, Pings
<1>2. ASSUME NEW p \in Side, Known(p)
      PROVE  map[p].stage = "active" /\ map[Other(p)].stage = "active"
  <2>1. Other(p) \in Side /\ Other(Other(p)) = p
    BY DEF Side, Other
  <2>2. link[Other(p)] = "known" /\ Working(map[Other(p)]) /\ Known(Other(p))
    BY <1>1, <1>2 DEF Working, Known
  <2>3. link[p] = "known" /\ Working(map[p])
    BY <1>1, <2>1, <2>2
  <2>4. \A x \in Side : mesh[x] = <<>>
    BY DEF Quiet, Still
  <2>5. Hopeful(p) /\ Hopeful(Other(p))
    BY <2>1 DEF Hand
  <2> QED BY <2>1, <2>2, <2>3, <2>4, <2>5, NothingHas DEF Hopeful, Working
<1>3. Other("src") = "dst" /\ Other("dst") = "src" /\ Side = {"src", "dst"}
  BY DEF Other, Side
<1> QED BY <1>2, <1>3 DEF Known

------------------------------------------------------------------------------
\* The handshake leads both ends to the same answer: when nothing is under way and no
\* link is about to be removed, both have the map active or neither has it, whatever
\* was asked of them in which order and whoever restarted, as long as no message was
\* lost.  If other maps keep the link alive this is not so: a record that waits for
\* its peer stays (mpr_graph_cleanup looks only at records that know nothing).
THEOREM BothEndsAgree == ASSUME ~ LinkBusy PROVE Spec => []Together
<1>1. TypeOK /\ Sound /\ Hand => Together
  BY RestTogether
<1>2. Init => TypeOK /\ Sound /\ Hand
  BY InitSound, InitHand
<1>3. TypeOK /\ Sound /\ Hand /\ [Next]_vars => (TypeOK /\ Sound /\ Hand)'
  BY NextKeeps, NextHand
<1> QED BY <1>1, <1>2, <1>3, PTL DEF Spec

=============================================================================
