-------------------------- MODULE SubscribersProofs --------------------------
(***************************************************************************)
(* Every subscriber was sent the present state of the objects it asked     *)
(* for, or it waits in the bundle; after its lease it is sent nothing      *)
(* more.  The handlers are compositions of a few operations on the bundle, *)
(* so the proof goes through these operations, one subscriber and one kind *)
(* of information at a time.                                               *)
(***************************************************************************)
EXTENDS Subscribers, TLAPS

\* Subscriber q was sent the present state of kind k if it wants it, or it waits.
UpFor(n, q, k) ==
    n.subscribers[q].here /\ k \in n.subscribers[q].flags
    => k \in n.subscribers[q].known \/ Waiting(n, k)

------------------------------------------------------------------------------
\* The types of entries and of the results of the operations.

LEMMA EntryTypes ==
    ASSUME NEW e \in Entry \cup {None}, NEW K \in SUBSET Kind
    PROVE  /\ e.flags \in SUBSET Kind /\ e.known \in SUBSET Kind
           /\ e.lease \in Nat \cup {-1} /\ e.here \in BOOLEAN
           /\ e.here => [e EXCEPT !.known = @ \cup K] \in Entry
           /\ [e EXCEPT !.known = @ \ K] \in Entry \cup {None}
           /\ e.here <=> e \in Entry
  <1>1. CASE e = None
    <2>1. [e EXCEPT !.known = @ \ K] = None
      BY <1>1 DEF None
    <2> QED BY <1>1, <2>1 DEF None, Entry
  <1>2. CASE e \in Entry
    BY <1>2 DEF Entry
  <1> QED BY <1>1, <1>2

LEMMA SendType == ASSUME NEW n \in Net PROVE Send(n) \in Net
  <1>1. CASE ~ n.open
    BY <1>1 DEF Send
  <1>2. CASE n.open
    <2>1. Arrived(n) \in [Peer -> Entry \cup {None}]
      <3>1. CASE n.dst.to = "subscribers"
        <4>1. n.dst.type \in SUBSET Kind
          BY <3>1 DEF Net, Destination
        <4>2. \A p \in Peer : Deliver(n.subscribers[p], n.dst.type, n.kinds) \in Entry \cup {None}
          <5> TAKE p \in Peer
          <5>1. n.subscribers[p] \in Entry \cup {None} /\ n.kinds \in SUBSET Kind
            BY DEF Net
          <5> QED BY <5>1, EntryTypes DEF Deliver
        <4> QED BY <3>1, <4>2 DEF Arrived
      <3>2. CASE n.dst.to = "peer"
        <4>1. \A p \in Peer : Answer(n.subscribers[p], n.kinds) \in Entry \cup {None}
          <5> TAKE p \in Peer
          <5>1. n.subscribers[p] \in Entry \cup {None} /\ n.kinds \in SUBSET Kind
            BY DEF Net
          <5> QED BY <5>1, EntryTypes DEF Answer
        <4> QED BY <3>2, <4>1 DEF Arrived, Net
      <3>3. CASE n.dst.to \notin {"subscribers", "peer"}
        BY <3>3 DEF Arrived, Net
      <3> QED BY <3>1, <3>2, <3>3
    <2> QED BY <1>2, <2>1 DEF Send, Net
  <1> QED BY <1>1, <1>2 DEF Net

LEMMA UseType ==
    ASSUME NEW n \in Net, NEW d \in Destination
    PROVE  Use(n, d) \in Net /\ Use(n, d).open /\ Use(n, d).dst = d
  BY SendType DEF Use, Net

LEMMA AddType ==
    ASSUME NEW n \in Net, NEW K \in SUBSET Kind, NEW full \in BOOLEAN
    PROVE  /\ Add(n, K, full) \in Net
           /\ Add(n, K, full).open /\ Add(n, K, full).dst = n.dst
           /\ K \subseteq Add(n, K, full).kinds
  <1> DEFINE m == IF full THEN Send(n) ELSE n
  <1>1. m \in Net /\ m.dst = n.dst
    BY SendType DEF Send
  <1> HIDE DEF m
  <1>2. [m EXCEPT !.open = TRUE, !.kinds = @ \cup K] \in Net
    BY <1>1 DEF Net
  <1> QED BY <1>1, <1>2 DEF Add, Net, m

LEMMA ChangeType == ASSUME NEW n \in Net, NEW K \in SUBSET Kind PROVE Change(n, K) \in Net
  <1>1. \A p \in Peer : [n.subscribers[p] EXCEPT !.known = @ \ K] \in Entry \cup {None}
    BY EntryTypes DEF Net
  <1> QED BY <1>1 DEF Change, Net

LEMMA Destinations ==
    /\ Bus \in Destination /\ Link \in Destination
    /\ \A p \in Peer : Mesh(p) \in Destination
    /\ \A t \in SUBSET Kind : Subs(t) \in Destination
  BY DEF Destination, Bus, Link, Mesh, Subs

LEMMA AnnounceType ==
    ASSUME NEW n \in Net, NEW t \in SUBSET Kind, NEW K \in SUBSET Kind, NEW full \in BOOLEAN
    PROVE  Announce(n, t, K, full) \in Net
  BY UseType, AddType, Destinations DEF Announce

------------------------------------------------------------------------------
\* The operations keep what a subscriber has been promised.

LEMMA SendUp ==
    ASSUME NEW n \in Net, NEW q \in Peer, NEW k \in Kind, UpFor(n, q, k)
    PROVE  UpFor(Send(n), q, k)
  <1>1. CASE ~ n.open
    BY <1>1 DEF Send
  <1>2. CASE n.open
    <2> DEFINE e == n.subscribers[q]  f == Arrived(n)[q]
    <2>1. e \in Entry \cup {None} /\ n.kinds \in SUBSET Kind
      BY DEF Net
    <2>2. SUFFICES ASSUME f.here, k \in f.flags PROVE k \in f.known
      BY <1>2 DEF UpFor, Send
    <2>3. CASE n.dst.to = "subscribers"
      <3>1. f = Deliver(e, n.dst.type, n.kinds)
        BY <2>3 DEF Arrived
      <3>2. e.here /\ f.flags = e.flags /\ e.known \subseteq f.known
            /\ (e.flags \cap n.dst.type # {} => n.kinds \subseteq f.known)
        <4>1. e.here /\ ~ Lapsed(e) /\ e \in Entry
          BY <2>1, <2>2, <3>1, EntryTypes DEF Deliver, None
        <4>2. f = IF e.flags \cap n.dst.type # {} THEN [e EXCEPT !.known = @ \cup n.kinds] ELSE e
          BY <3>1, <4>1 DEF Deliver
        <4> QED BY <4>1, <4>2 DEF Entry
      <3>3. CASE k \in e.known
        BY <3>2, <3>3
      <3>4. CASE Waiting(n, k)
        BY <2>2, <3>2, <3>4 DEF Waiting
      <3> QED BY <2>2, <3>2, <3>3, <3>4 DEF UpFor
    <2>4. CASE n.dst.to # "subscribers"
      <3>1. f = e \/ f = Answer(e, n.kinds)
        BY <2>4 DEF Arrived, Net
      <3>2. f = e \/ (e.here /\ f = [e EXCEPT !.known = @ \cup n.kinds])
        BY <3>1 DEF Answer
      <3>3. e \in Entry
        BY <2>1, <2>2, <3>2, EntryTypes
      <3>4. e.here /\ f.flags = e.flags /\ e.known \subseteq f.known
        BY <3>2, <3>3 DEF Entry
      <3> QED BY <2>2, <2>4, <3>4 DEF UpFor, Waiting
    <2> QED BY <2>3, <2>4
  <1> QED BY <1>1, <1>2 DEF Net

LEMMA UseUp ==
    ASSUME NEW n \in Net, NEW d \in Destination, NEW q \in Peer, NEW k \in Kind, UpFor(n, q, k)
    PROVE  UpFor(Use(n, d), q, k)
  <1> DEFINE m == IF n.open /\ n.dst # d THEN Send(n) ELSE n
  <1>1. m \in Net /\ UpFor(m, q, k) /\ (m.open => m.dst = d)
    BY SendUp, SendType DEF Send
  <1> HIDE DEF m
  <1>2. UpFor([m EXCEPT !.open = TRUE, !.dst = d], q, k)
    BY <1>1 DEF UpFor, Waiting, Net
  <1> QED BY <1>2 DEF Use, m

LEMMA AddUp ==
    ASSUME NEW n \in Net, NEW K \in SUBSET Kind, NEW full \in BOOLEAN,
           NEW q \in Peer, NEW k \in Kind, UpFor(n, q, k)
    PROVE  UpFor(Add(n, K, full), q, k)
  <1> DEFINE m == IF full THEN Send(n) ELSE n
  <1>1. m \in Net /\ UpFor(m, q, k)
    BY SendUp, SendType
  <1> HIDE DEF m
  <1>2. UpFor([m EXCEPT !.open = TRUE, !.kinds = @ \cup K], q, k)
    BY <1>1 DEF UpFor, Waiting, Net
  <1> QED BY <1>2 DEF Add, m

LEMMA ChangeUp ==
    ASSUME NEW n \in Net, NEW K \in SUBSET Kind, NEW q \in Peer, NEW k \in Kind \ K,
           UpFor(n, q, k)
    PROVE  UpFor(Change(n, K), q, k)
  <1> DEFINE e == n.subscribers[q]  f == [e EXCEPT !.known = @ \ K]
  <1>1. e \in Entry \cup {None}
    BY DEF Net
  <1>2. f.here = e.here /\ f.flags = e.flags /\ f.known = e.known \ K
    BY <1>1 DEF Entry, None
  <1>3. /\ Change(n, K).subscribers[q] = f
        /\ Change(n, K).kinds = n.kinds \ K
        /\ Change(n, K).open = n.open /\ Change(n, K).dst = n.dst
    <2> HIDE DEF f
    <2> DEFINE s == [p \in Peer |-> [n.subscribers[p] EXCEPT !.known = @ \ K]]
    <2>1. s[q] = f
      BY DEF f
    <2> HIDE DEF s
    <2>2. [n EXCEPT !.subscribers = s, !.kinds = @ \ K].subscribers = s
      BY DEF Net
    <2> QED BY <2>1, <2>2 DEF Change, Net, s
  <1> QED BY <1>2, <1>3 DEF UpFor, Waiting

LEMMA AnnounceUp ==
    ASSUME NEW n \in Net, NEW t \in SUBSET Kind, NEW K \in SUBSET Kind, NEW full \in BOOLEAN,
           NEW q \in Peer, NEW k \in Kind,
           UpFor(n, q, k) \/ (k \in K /\ k \in t)
    PROVE  UpFor(Announce(n, t, K, full), q, k)
  <1> DEFINE u == Use(n, Subs(t))
  <1>1. u \in Net /\ u.open /\ u.dst = Subs(t)
    BY UseType, Destinations
  <1>2. CASE UpFor(n, q, k)
    <2>1. UpFor(u, q, k)
      BY <1>2, UseUp, Destinations
    <2> QED BY <1>1, <2>1, AddUp DEF Announce
  <1>3. CASE k \in K /\ k \in t
    <2> DEFINE a == Add(u, K, full)
    <2>1. a.open /\ a.dst = Subs(t) /\ K \subseteq a.kinds
      BY <1>1, AddType
    <2> HIDE DEF a
    <2>2. Waiting(a, k)
      BY <1>3, <2>1 DEF Waiting, Subs
    <2> QED BY <2>2 DEF Announce, UpFor, a
  <1> QED BY <1>2, <1>3

\* What a peer is told directly it knows, and nobody else loses anything.
LEMMA TellUp ==
    ASSUME NEW n \in Net, NEW p \in Peer, NEW K \in SUBSET Kind, NEW full \in BOOLEAN
    PROVE  /\ Tell(n, p, K, full) \in Net
           /\ \A k \in K : UpFor(Tell(n, p, K, full), p, k)
           /\ \A q \in Peer, k \in Kind : UpFor(n, q, k) => UpFor(Tell(n, p, K, full), q, k)
  <1> DEFINE u == Use(n, Mesh(p))  a == Add(u, K, full)
  <1>1. u \in Net /\ u.open /\ u.dst = Mesh(p)
    BY UseType, Destinations
  <1>2. a \in Net /\ a.open /\ a.dst = Mesh(p) /\ K \subseteq a.kinds
    BY <1>1, AddType
  <1>3. \A q \in Peer, k \in Kind : UpFor(n, q, k) => UpFor(a, q, k)
    BY <1>1, UseUp, AddUp, Destinations
  <1> HIDE DEF a
  <1>4. Send(a) \in Net /\ \A q \in Peer, k \in Kind : UpFor(a, q, k) => UpFor(Send(a), q, k)
    BY <1>2, SendType, SendUp
  <1>5. \A k \in K : UpFor(Send(a), p, k)
    <2>1. Send(a).subscribers[p] = Answer(a.subscribers[p], a.kinds)
      BY <1>2 DEF Send, Arrived, Mesh
    <2>2. a.subscribers[p] \in Entry \cup {None}
      BY <1>2 DEF Net
    <2>3. Send(a).subscribers[p].here => K \subseteq Send(a).subscribers[p].known
      BY <1>2, <2>1, <2>2 DEF Answer, Entry, None
    <2> QED BY <2>3 DEF UpFor
  <1> QED BY <1>3, <1>4, <1>5 DEF Tell, a

------------------------------------------------------------------------------
\* The same for everybody and a set S of kinds at once.

Up(n, S) == \A q \in Peer, k \in S : UpFor(n, q, k)

Objects == SigKind \cup MapKind

\* The kinds that are always up to date: local maps are not announced as they should.
Promised == IF "local" \in Maps THEN SigKind ELSE Objects

LEMMA PromisedKinds ==
    /\ Promised \in SUBSET Kind /\ SigKind \subseteq Promised /\ Promised \subseteq Objects
    /\ "dev" \notin Promised
    /\ "local" \in Maps => Promised = SigKind
  BY DEF Promised, Objects, Kind, SigKind, MapKind

LEMMA KeepsUp ==
    ASSUME NEW n \in Net, NEW S \in SUBSET Kind, Up(n, S)
    PROVE  /\ Send(n) \in Net /\ Up(Send(n), S)
           /\ \A d \in Destination, K \in SUBSET Kind, full \in BOOLEAN :
                Add(Use(n, d), K, full) \in Net /\ Up(Add(Use(n, d), K, full), S)
           /\ \A K \in SUBSET Kind : Change(n, K) \in Net /\ Up(Change(n, K), S \ K)
  <1>1. Send(n) \in Net /\ Up(Send(n), S)
    BY SendType, SendUp DEF Up
  <1>2. ASSUME NEW d \in Destination, NEW K \in SUBSET Kind, NEW full \in BOOLEAN
        PROVE  Add(Use(n, d), K, full) \in Net /\ Up(Add(Use(n, d), K, full), S)
    <2>1. Use(n, d) \in Net /\ Up(Use(n, d), S)
      BY UseType, UseUp DEF Up
    <2> QED BY <2>1, AddType, AddUp DEF Up
  <1>3. ASSUME NEW K \in SUBSET Kind
        PROVE  Change(n, K) \in Net /\ Up(Change(n, K), S \ K)
    BY ChangeType, ChangeUp DEF Up
  <1> QED BY <1>1, <1>2, <1>3

\* An announcement adds what it carries under its own type.
LEMMA AnnounceKeeps ==
    ASSUME NEW n \in Net, NEW S \in SUBSET Kind, Up(n, S),
           NEW t \in SUBSET Kind, NEW K \in SUBSET Kind, NEW full \in BOOLEAN
    PROVE  Announce(n, t, K, full) \in Net /\ Up(Announce(n, t, K, full), S \cup (K \cap t))
  <1>1. \A q \in Peer, k \in S \cup (K \cap t) : UpFor(Announce(n, t, K, full), q, k)
    <2> TAKE q \in Peer, k \in S \cup (K \cap t)
    <2>1. k \in Kind /\ (UpFor(n, q, k) \/ (k \in K /\ k \in t))
      BY DEF Up
    <2> QED BY <2>1, AnnounceUp
  <1> QED BY <1>1, AnnounceType DEF Up

LEMMA InformKeeps ==
    ASSUME NEW n \in Net, NEW S \in SUBSET Kind, Up(n, S), NEW full \in BOOLEAN
    PROVE  InformDevice(n, full) \in Net /\ Up(InformDevice(n, full), S)
  <1> DEFINE a == Announce(n, {"dev"}, {}, full)
  <1>1. a \in Net /\ Up(a, S)
    BY AnnounceKeeps DEF Kind, Up
  <1> HIDE DEF a
  <1>2. Send(a) \in Net /\ Up(Send(a), S)
    BY <1>1, KeepsUp
  <1> QED BY <1>2 DEF InformDevice, a

LEMMA NobodyWaits ==
    ASSUME NEW n \in Net, NEW S \in SUBSET Kind, ~ Subscribed(n)
    PROVE  Up(n, S)
  BY DEF Up, UpFor, Subscribed

\* A change that is announced under its own kind if there is anybody to tell.
LEMMA ChangeAnnounced ==
    ASSUME NEW n \in Net, NEW S \in SUBSET Kind, Up(n, S), NEW K \in SUBSET Kind,
           NEW full \in BOOLEAN
    PROVE  LET c == Change(n, K) IN
           /\ c \in Net /\ (~ Subscribed(c) => Up(c, S))
           /\ Announce(c, K, K, full) \in Net /\ Up(Announce(c, K, K, full), S)
  <1> DEFINE c == Change(n, K)  a == Announce(c, K, K, full)
  <1>1. c \in Net /\ Up(c, S \ K)
    BY KeepsUp
  <1> HIDE DEF c
  <1>2. a \in Net /\ Up(a, (S \ K) \cup (K \cap K))
    BY <1>1, AnnounceKeeps
  <1>3. ~ Subscribed(c) => Up(c, S)
    BY <1>1, NobodyWaits
  <1>4. Up(a, S)
    <2> HIDE DEF a
    <2> QED BY <1>2 DEF Up
  <1> QED BY <1>1, <1>2, <1>3, <1>4 DEF c

------------------------------------------------------------------------------
\* What becomes of a map: it, its signals and the device are announced.

LEMMA MapEventUp ==
    ASSUME net \in Net, Up(net, Promised), NEW m \in Maps, NEW full \in BOOLEAN,
           NEW y \in {MapKinds(m), MapType(m)}
    PROVE  MapEvent(m, y, full) \in Net /\ Up(MapEvent(m, y, full), Promised)
  <1> DEFINE E == EndKinds(m)  M == MapKinds(m)  t == {"dev"} \cup E \cup M
             c == Change(net, t)  l == IF m = "local" THEN c ELSE Add(Use(c, Link), {}, full)
             i == InformDevice(l, full)  s == Announce(i, SigKind, E, full)
             a == Announce(s, y, M, full)
  <1>0. /\ E \in SUBSET SigKind /\ M \in SUBSET MapKind /\ Promised \in SUBSET Kind
        /\ SigKind \in SUBSET Kind /\ M \in SUBSET Kind /\ E \in SUBSET Kind
        /\ t \in SUBSET Kind /\ y \in SUBSET Kind
        /\ Promised \cap M \subseteq M \cap y
    BY ConstantsAssumption, PromisedKinds DEF EndKinds, MapKinds, MapType, SigKind, MapKind, Kind
  <1> HIDE DEF E, M, t
  <1>1. c \in Net /\ Up(c, Promised \ t)
    BY <1>0, KeepsUp
  <1> HIDE DEF c
  <1>2. l \in Net /\ Up(l, Promised \ t)
    <2>1. {} \in SUBSET Kind /\ Promised \ t \in SUBSET Kind
      BY <1>0
    <2> QED BY <1>1, <2>1, KeepsUp, Destinations
  <1> HIDE DEF l
  <1>3. i \in Net /\ Up(i, Promised \ t)
    BY <1>0, <1>2, InformKeeps
  <1> HIDE DEF i
  <1>4. s \in Net /\ Up(s, (Promised \ t) \cup (E \cap SigKind))
    BY <1>0, <1>3, AnnounceKeeps
  <1> HIDE DEF s
  <1>5. a \in Net /\ Up(a, ((Promised \ t) \cup (E \cap SigKind)) \cup (M \cap y))
    <2>1. (Promised \ t) \cup (E \cap SigKind) \in SUBSET Kind
      BY <1>0
    <2> QED BY <1>0, <1>4, <2>1, AnnounceKeeps
  <1> HIDE DEF a
  <1>6. Promised \subseteq ((Promised \ t) \cup (E \cap SigKind)) \cup (M \cap y)
    BY <1>0, PromisedKinds DEF t
  <1>7. Up(a, Promised)
    BY <1>5, <1>6 DEF Up
  <1>8. ~ Subscribed(l) => Up(l, Promised)
    BY <1>0, <1>2, NobodyWaits
  <1>9. MapEvent(m, y, full) = IF Subscribed(l) THEN a ELSE l
    BY DEF MapEvent, a, s, i, l, c, t, E, M
  <1> QED BY <1>2, <1>5, <1>7, <1>8, <1>9

LEMMA MapModifiedUp ==
    ASSUME TypeOK, Up(net, Promised), NEW m \in Maps, MapModified(m)
    PROVE  net' \in Net /\ Up(net', Promised)
  <1> DEFINE M == MapKinds(m)  y == MapType(m)  c == Change(net, M)
  <1>0. /\ M \in SUBSET MapKind /\ M \in SUBSET Kind /\ Promised \in SUBSET Kind
        /\ y \in SUBSET Kind /\ Promised \cap M \subseteq M \cap y /\ net \in Net
    BY ConstantsAssumption, PromisedKinds DEF MapKinds, MapType, MapKind, Kind, SigKind, TypeOK
  <1> PICK full \in BOOLEAN :
         net' = LET l == IF m = "local" THEN c ELSE Add(Use(c, Link), {}, full) IN
                IF Subscribed(l) THEN Announce(l, y, M, full) ELSE l
    BY DEF MapModified
  <1> HIDE DEF M, y
  <1>1. c \in Net /\ Up(c, Promised \ M)
    BY <1>0, KeepsUp
  <1> HIDE DEF c
  <1> DEFINE l == IF m = "local" THEN c ELSE Add(Use(c, Link), {}, full)  a == Announce(l, y, M, full)
  <1>2. l \in Net /\ Up(l, Promised \ M)
    <2>1. {} \in SUBSET Kind /\ Promised \ M \in SUBSET Kind
      BY <1>0
    <2> QED BY <1>1, <2>1, KeepsUp, Destinations
  <1>3. net' = IF Subscribed(l) THEN a ELSE l
    OBVIOUS
  <1> HIDE DEF l
  <1>4. a \in Net /\ Up(a, (Promised \ M) \cup (M \cap y))
    BY <1>0, <1>2, AnnounceKeeps
  <1> HIDE DEF a
  <1>5. Up(a, Promised)
    BY <1>0, <1>4 DEF Up
  <1>6. ~ Subscribed(l) => Up(l, Promised)
    BY <1>0, <1>2, NobodyWaits
  <1> QED BY <1>2, <1>3, <1>4, <1>5, <1>6

------------------------------------------------------------------------------
\* Requests: what a peer asks for anew it is told at once.

LEMMA SubscribeUp ==
    ASSUME TypeOK, NEW S \in SUBSET Kind, Up(net, S),
           NEW p \in Peer, NEW F \in FlagSets, NEW t \in Leases, Subscribe(p, F, t)
    PROVE  net' \in Net /\ Up(net', S)
  <1> DEFINE e == net.subscribers[p]  K == Asked(e, F)  g == EntryAfter(e, F, t)
             n == [net EXCEPT !.subscribers[p] = g]
  <1>0. /\ net \in Net /\ e \in Entry \cup {None} /\ F \in SUBSET Kind /\ t \in Nat
        /\ K \in SUBSET Kind /\ K = F \ e.flags
    BY ConstantsAssumption DEF TypeOK, Net, Asked
  <1>1. g \in Entry \cup {None}
    BY <1>0, EntryTypes DEF EntryAfter, Entry
  <1> HIDE DEF g
  <1>2. /\ n \in Net /\ n.subscribers[p] = g
        /\ n.open = net.open /\ n.dst = net.dst /\ n.kinds = net.kinds
        /\ \A q \in Peer \ {p} : n.subscribers[q] = net.subscribers[q]
    <2> DEFINE s == [net.subscribers EXCEPT ![p] = g]
    <2>1. s \in [Peer -> Entry \cup {None}] /\ s[p] = g
          /\ \A q \in Peer \ {p} : s[q] = net.subscribers[q]
      BY <1>0, <1>1 DEF Net
    <2> HIDE DEF s
    <2>2. [net EXCEPT !.subscribers = s] \in Net /\ [net EXCEPT !.subscribers = s].subscribers = s
      BY <1>0, <2>1 DEF Net
    <2>3. n = [net EXCEPT !.subscribers = s]
      BY DEF s
    <2>4. n.open = net.open /\ n.dst = net.dst /\ n.kinds = net.kinds
      BY <1>0, <2>3 DEF Net
    <2> QED BY <2>1, <2>2, <2>3, <2>4
  <1>3. g = None \/ (g.flags = F /\ g.known = e.known)
    BY DEF EntryAfter, g
  <1> HIDE DEF n
  <1>4. \A q \in Peer, k \in S : UpFor(n, q, k) \/ (q = p /\ k \in K)
    <2> TAKE q \in Peer, k \in S
    <2>1. Waiting(net, k) <=> Waiting(n, k)
      BY <1>2 DEF Waiting
    <2>2. UpFor(net, q, k)
      BY DEF Up
    <2>3. CASE q # p
      BY <1>2, <2>1, <2>2, <2>3 DEF UpFor
    <2>4. CASE q = p /\ g = None
      BY <1>2, <2>4 DEF UpFor, None
    <2>5. CASE q = p /\ g.flags = F /\ g.known = e.known /\ k \notin K
      <3>1. k \in F => e.here /\ k \in e.flags
        <4> HIDE DEF e, K
        <4>1. k \in F => k \in e.flags
          BY <1>0, <2>5
        <4>2. e.here \/ e = None
          BY <1>0, EntryTypes
        <4>3. None.flags = {}
          BY DEF None
        <4> QED BY <4>1, <4>2, <4>3
      <3> QED BY <1>2, <2>1, <2>2, <2>5, <3>1 DEF UpFor
    <2> QED BY <1>3, <2>3, <2>4, <2>5
  <1>5. CASE K = {}
    BY <1>2, <1>4, <1>5 DEF Subscribe, Up, n, g
  <1>6. CASE K # {}
    <2> PICK full \in BOOLEAN :
           net' = LET d == Tell(n, p, {"dev"}, full)
                      s == IF K \cap SigKind = {} THEN d ELSE Tell(d, p, K \cap SigKind, full)
                  IN  IF K \cap MapKind = {} THEN s ELSE Tell(s, p, K \cap MapKind, full)
      BY <1>6 DEF Subscribe, n, g
    <2> DEFINE d == Tell(n, p, {"dev"}, full)
               s == IF K \cap SigKind = {} THEN d ELSE Tell(d, p, K \cap SigKind, full)
               r == IF K \cap MapKind = {} THEN s ELSE Tell(s, p, K \cap MapKind, full)
    <2>0. net' = r
      OBVIOUS
    <2>1. /\ d \in Net /\ \A q \in Peer, k \in Kind : UpFor(n, q, k) => UpFor(d, q, k)
          /\ UpFor(d, p, "dev")
      BY <1>2, TellUp DEF Kind
    <2> HIDE DEF d
    <2>2. /\ s \in Net /\ \A q \in Peer, k \in Kind : UpFor(d, q, k) => UpFor(s, q, k)
          /\ \A k \in K \cap SigKind : UpFor(s, p, k)
      <3>1. K \cap SigKind \in SUBSET Kind
        BY <1>0
      <3> QED BY <2>1, <3>1, TellUp
    <2> HIDE DEF s
    <2>3. /\ r \in Net /\ \A q \in Peer, k \in Kind : UpFor(s, q, k) => UpFor(r, q, k)
          /\ \A k \in K \cap MapKind : UpFor(r, p, k)
      <3>1. K \cap MapKind \in SUBSET Kind
        BY <1>0
      <3> QED BY <2>2, <3>1, TellUp
    <2> HIDE DEF r
    <2>4. \A q \in Peer, k \in S : UpFor(r, q, k)
      BY <1>4, <2>1, <2>2, <2>3 DEF Kind
    <2> QED BY <2>0, <2>3, <2>4 DEF Up
  <1> QED BY <1>5, <1>6

------------------------------------------------------------------------------
\* The invariant: types, and the promise for signals and maps.

IInv == TypeOK /\ Up(net, Promised)

LEMMA InitIInv == ASSUME Init PROVE IInv
  <1>1. TypeOK
    <2> DEFINE s == [p \in Peer |-> None]
    <2>1. s \in [Peer -> Entry \cup {None}]
      OBVIOUS
    <2> HIDE DEF s
    <2>2. [subscribers |-> s, open |-> FALSE, dst |-> Bus, kinds |-> {}] \in Net
      BY <2>1, Destinations DEF Net
    <2>3. net \in Net
      BY <2>2 DEF Init, s
    <2>4. subPing \in 0 .. SubPeriod
      BY ConstantsAssumption DEF Init
    <2> QED BY <2>3, <2>4 DEF Init, TypeOK
  <1>2. Up(net, Promised)
    BY DEF Init, Up, UpFor, None
  <1> QED BY <1>1, <1>2 DEF IInv

LEMMA PollStep ==
    ASSUME TypeOK, NEW S \in SUBSET Kind, Up(net, S), NEW busDue \in BOOLEAN, NEW full \in BOOLEAN
    PROVE  NetPoll(net, busDue, full) \in Net /\ Up(NetPoll(net, busDue, full), S)
  <1> DEFINE s == Send(net)
             a == Announce(s, {"dev"}, {}, full)
             told == IF subPing = 0 /\ Subscribed(s) THEN a ELSE s
             b == Add(Use(told, Bus), {}, full)
  <1>1. s \in Net /\ Up(s, S)
    BY KeepsUp DEF TypeOK
  <1> HIDE DEF s
  <1>2. a \in Net /\ Up(a, S)
    BY <1>1, AnnounceKeeps DEF Kind, Up
  <1> HIDE DEF a
  <1>3. told \in Net /\ Up(told, S)
    BY <1>1, <1>2
  <1> HIDE DEF told
  <1>4. b \in Net /\ Up(b, S)
    <2>1. {} \in SUBSET Kind
      OBVIOUS
    <2> QED BY <1>3, <2>1, KeepsUp, Destinations
  <1> HIDE DEF b
  <1>5. NetPoll(net, busDue, full) = IF busDue THEN b ELSE told
    BY DEF NetPoll, b, told, a, s
  <1> QED BY <1>3, <1>4, <1>5

\* Time passes: leases shrink, nothing else changes.
LEMMA TickUp ==
    ASSUME TypeOK, NEW S \in SUBSET Kind, Up(net, S), Tick
    PROVE  net' \in Net /\ Up(net', S)
  <1> DEFINE f(p) == IF net.subscribers[p].lease < 0 THEN net.subscribers[p]
                     ELSE [net.subscribers[p] EXCEPT !.lease = @ - 1]
             s == [p \in Peer |-> f(p)]
  <1>1. ASSUME NEW p \in Peer
        PROVE  /\ f(p) \in Entry \cup {None}
               /\ f(p).here = net.subscribers[p].here /\ f(p).flags = net.subscribers[p].flags
               /\ f(p).known = net.subscribers[p].known
    <2> DEFINE e == net.subscribers[p]
    <2>1. e \in Entry \cup {None}
      BY DEF TypeOK, Net
    <2> HIDE DEF e
    <2>2. CASE e.lease < 0
      BY <2>1, <2>2 DEF e
    <2>3. CASE ~ (e.lease < 0)
      <3>1. e \in Entry
        BY <2>1, <2>3 DEF None
      <3>2. e.lease - 1 \in Nat \cup {-1}
        BY <2>3, <3>1 DEF Entry
      <3>3. [e EXCEPT !.lease = @ - 1] \in Entry
        BY <3>1, <3>2 DEF Entry
      <3>4. /\ [e EXCEPT !.lease = @ - 1].here = e.here
            /\ [e EXCEPT !.lease = @ - 1].flags = e.flags
            /\ [e EXCEPT !.lease = @ - 1].known = e.known
        BY <3>1 DEF Entry
      <3> QED BY <2>3, <3>3, <3>4 DEF e
    <2> QED BY <2>2, <2>3
  <1>2. net' = [net EXCEPT !.subscribers = s]
    BY DEF Tick
  <1>3. s \in [Peer -> Entry \cup {None}]
    BY <1>1
  <1>4. /\ net' \in Net /\ net'.subscribers = s
        /\ net'.open = net.open /\ net'.dst = net.dst /\ net'.kinds = net.kinds
    <2> HIDE DEF s
    <2> QED BY <1>2, <1>3 DEF TypeOK, Net
  <1>5. \A k \in S : Waiting(net, k) <=> Waiting(net', k)
    BY <1>4 DEF Waiting
  <1>6. \A q \in Peer, k \in S : UpFor(net', q, k)
    <2> TAKE q \in Peer, k \in S
    <2>1. net'.subscribers[q] = f(q)
      BY <1>4
    <2> HIDE DEF f
    <2> QED BY <1>1, <1>5, <2>1 DEF Up, UpFor
  <1> QED BY <1>4, <1>6 DEF Up

\* What a step does to the network, with the rest of the types.
LEMMA NextIInv ==
    ASSUME IInv, [Next]_vars
    PROVE  IInv'
  <1> USE DEF IInv
  <1>0. net \in Net /\ Promised \in SUBSET Kind
    BY PromisedKinds DEF TypeOK
  <1>s. SUFFICES net' \in Net /\ Up(net', Promised)
    <2>1. dirty' \in BOOLEAN /\ polling' \in BOOLEAN
      <3> USE DEF TypeOK
      <3>1. CASE BeginPoll \/ PollAgain \/ EndPoll \/ Tick
        BY <3>1 DEF BeginPoll, PollAgain, EndPoll, Tick
      <3>2. CASE Handlers
        <4>1. MapDirty \in BOOLEAN
          BY DEF MapDirty
        <4>2. ASSUME DevModified PROVE dirty' \in BOOLEAN
          BY <4>2 DEF DevModified
        <4>3. polling' = polling /\ (dirty' \in {dirty, FALSE, MapDirty} \/ DevModified)
          BY <3>2 DEF Handlers, Subscribe, DevModified, SigModified, MapActivated, Unmapped,
                      MapModified
        <4> QED BY <4>1, <4>2, <4>3
      <3>3. CASE Calls \/ OtherMsg(Bus) \/ OtherMsg(Link) \/ UNCHANGED vars
        BY <3>3, ConstantsAssumption DEF Calls, SigChanged, SetProp, PushDev, OtherMsg, vars
      <3> QED BY <3>1, <3>2, <3>3 DEF Next
    <2>2. subPing' \in 0 .. SubPeriod
      <3>1. CASE subPing' = subPing
        BY <3>1 DEF TypeOK
      <3>2. CASE subPing' = IF subPing = 0 THEN SubPeriod ELSE subPing
        BY <3>2, ConstantsAssumption DEF TypeOK
      <3>3. CASE subPing' = IF subPing = 0 THEN 0 ELSE subPing - 1
        BY <3>3, ConstantsAssumption DEF TypeOK
      <3> QED BY <3>1, <3>2, <3>3 DEF Next, BeginPoll, PollAgain, EndPoll, Tick, Handlers, Calls,
              Subscribe, DevModified, SigModified, MapActivated, Unmapped, MapModified,
              SigChanged, SetProp, PushDev, OtherMsg, vars
    <2> QED BY <2>1, <2>2 DEF TypeOK, Up, UpFor, Waiting
  <1>1. CASE BeginPoll \/ PollAgain
    BY <1>0, <1>1, PollStep DEF BeginPoll, PollAgain
  <1>2. CASE EndPoll
    <2>1. \A full \in BOOLEAN : LET a == Announce(net, {"dev"}, {"dev"}, full) IN
                                a \in Net /\ Up(a, Promised)
      BY <1>0, AnnounceKeeps DEF Kind, Up
    <2> QED BY <1>0, <1>2, <2>1 DEF EndPoll
  <1>3. ASSUME NEW p \in Peer, NEW F \in FlagSets, NEW t \in Leases, Subscribe(p, F, t)
        PROVE  net' \in Net /\ Up(net', Promised)
    BY <1>0, <1>3, SubscribeUp
  <1>4. CASE DevModified
    <2> DEFINE c == Change(net, {"dev"})
    <2>1. c \in Net /\ Up(c, Promised)
      <3>1. c \in Net /\ Up(c, Promised \ {"dev"})
        BY <1>0, KeepsUp DEF Kind
      <3> HIDE DEF c
      <3> QED BY <3>1, PromisedKinds DEF Up
    <2> HIDE DEF c
    <2>2. \A full \in BOOLEAN : InformDevice(c, full) \in Net /\ Up(InformDevice(c, full), Promised)
      BY <1>0, <2>1, InformKeeps
    <2> QED BY <1>0, <1>4, <2>1, <2>2 DEF DevModified, c
  <1>5. ASSUME NEW k \in SigKind, SigModified(k) \/ SigChanged(k)
        PROVE  net' \in Net /\ Up(net', Promised)
    <2> {k} \in SUBSET Kind
      BY DEF Kind
    <2> DEFINE c == Change(net, {k})
    <2>1. c \in Net /\ (~ Subscribed(c) => Up(c, Promised))
      BY <1>0, ChangeAnnounced
    <2>2. \A full \in BOOLEAN : LET a == Announce(c, {k}, {k}, full) IN
                                a \in Net /\ Up(a, Promised)
      BY <1>0, ChangeAnnounced
    <2> HIDE DEF c
    <2>3. \E full \in BOOLEAN : (net' = c /\ ~ Subscribed(c)) \/ net' = Announce(c, {k}, {k}, full)
      BY <1>5 DEF SigModified, SigChanged, c
    <2> QED BY <2>1, <2>2, <2>3
  <1>6. ASSUME NEW m \in Maps, MapActivated(m) \/ Unmapped(m) \/ MapModified(m)
        PROVE  net' \in Net /\ Up(net', Promised)
    <2>1. CASE MapModified(m)
      BY <2>1, MapModifiedUp
    <2>2. CASE MapActivated(m) \/ Unmapped(m)
      <3>1. \E full \in BOOLEAN, y \in {MapKinds(m), MapType(m)} : net' = MapEvent(m, y, full)
        BY <2>2 DEF MapActivated, Unmapped
      <3> QED BY <1>0, <3>1, MapEventUp
    <2> QED BY <1>6, <2>1, <2>2
  <1>7. ASSUME NEW u \in SetResults, SetProp(u)
        PROVE  net' \in Net /\ Up(net', Promised)
    <2>1. LET c == Change(net, {"dev"}) IN c \in Net /\ Up(c, Promised \ {"dev"})
      BY <1>0, KeepsUp DEF Kind
    <2>2. \A n \in Net : Up(n, Promised \ {"dev"}) => Up(n, Promised)
      BY PromisedKinds DEF Up
    <2> QED BY <1>0, <1>7, <2>1, <2>2 DEF SetProp
  <1>8. CASE PushDev
    <2>1. \A full \in BOOLEAN : LET a == Announce(net, {"dev"}, {"dev"}, full) IN
                                a \in Net /\ Up(a, Promised)
      BY <1>0, AnnounceKeeps DEF Kind, Up
    <2> QED BY <1>8, <2>1 DEF PushDev
  <1>9. CASE OtherMsg(Bus) \/ OtherMsg(Link)
    <2>1. {} \in SUBSET Kind
      OBVIOUS
    <2> QED BY <1>0, <1>9, <2>1, KeepsUp, Destinations DEF OtherMsg
  <1>10. CASE Tick
    BY <1>0, <1>10, TickUp
  <1>11. CASE UNCHANGED vars
    BY <1>0, <1>11 DEF vars
  <1> QED BY <1>1, <1>2, <1>3, <1>4, <1>5, <1>6, <1>7, <1>8, <1>9, <1>10, <1>11
          DEF Next, Handlers, Calls

LEMMA Invariant == Spec => []IInv
  BY InitIInv, NextIInv, PTL DEF Spec

\* The subscribers, the bundle and its destination always keep their types, whatever
\* maps come and go (mpr_net_send, mpr_dev_manage_subscriber).
THEOREM TypeCorrect == Spec => []TypeOK
  BY Invariant, PTL DEF IInv

\* Without local maps, every subscriber was sent the present state of the signals
\* and maps it asked for, or it waits in the bundle (mpr_dev_manage_subscriber,
\* mpr_net_send and the handlers that announce changes): any number of subscribers.
THEOREM ObjectsInformed == "local" \notin Maps /\ Spec => []ObjectsUpToDate
  <1>1. ASSUME "local" \notin Maps PROVE IInv => ObjectsUpToDate
    BY <1>1 DEF IInv, Up, UpFor, ObjectsUpToDate, UpToDate, Objects, Promised
  <1>2. CASE "local" \notin Maps
    BY <1>1, <1>2, Invariant, PTL
  <1>3. CASE "local" \in Maps
    BY <1>3
  <1> QED BY <1>2, <1>3

\* With local maps too, this holds of signals (handler_sig_mod, mpr_sig_new,
\* handler_map and handler_unmap announce them under both kinds).
THEOREM SignalsInformed == Spec => [](\A k \in SigKind : UpToDate(net, k))
  <1>1. IInv => \A k \in SigKind : UpToDate(net, k)
    BY PromisedKinds DEF IInv, Up, UpFor, UpToDate
  <1> QED BY <1>1, Invariant, PTL

------------------------------------------------------------------------------
\* What is sent after a lease.  The bundle is looked through for leases when it goes
\* to the subscribers, but not when it goes to a peer alone: such a bundle is sent by
\* the handler that began it, so none is open between two steps.

\* The entry f that e has become, by messages and changes: none, or of the same lease
\* and, if that is over, told nothing more.
Later(e, f) == f.here => e.here /\ f.lease = e.lease /\ (e.lease < 0 => f.known \subseteq e.known)

NotFor(n, q) == n.open => n.dst # Mesh(q)

\* From n to m nothing was sent to q after its lease.
Ends(n, m, q) == NotFor(n, q) => NotFor(m, q) /\ Later(n.subscribers[q], m.subscribers[q])

LEMMA EndsTrans ==
    ASSUME NEW n, NEW m, NEW r, NEW q, Ends(n, m, q), Ends(m, r, q)
    PROVE  Ends(n, r, q)
  BY DEF Ends, Later

LEMMA MeshApart ==
    /\ \A q \in Peer, t \in SUBSET Kind : Subs(t) # Mesh(q)
    /\ \A q \in Peer : Bus # Mesh(q) /\ Link # Mesh(q)
    /\ \A p, q \in Peer : p # q => Mesh(p) # Mesh(q)
  <1>1. \A q \in Peer : Mesh(q).to = "peer" /\ Mesh(q).peer = q
    BY DEF Mesh
  <1>2. Bus.to = "bus" /\ Link.to = "link" /\ \A t \in SUBSET Kind : Subs(t).to = "subscribers"
    BY DEF Bus, Link, Subs
  <1>3. ASSUME NEW p \in Peer, NEW q \in Peer, Mesh(p) = Mesh(q)
        PROVE  p = q
    BY <1>1, <1>3
  <1>4. ASSUME NEW d, NEW q \in Peer, d = Mesh(q)
        PROVE  d.to = "peer"
    BY <1>1, <1>4
  <1> QED BY <1>2, <1>3, <1>4

LEMMA SendEnds ==
    ASSUME NEW n \in Net, NEW q \in Peer
    PROVE  /\ Ends(n, Send(n), q)
           /\ Send(n).subscribers[q].here =>
                n.subscribers[q].here /\ Send(n).subscribers[q].lease = n.subscribers[q].lease
  <1> DEFINE e == n.subscribers[q]  f == Arrived(n)[q]
  <1>0. e \in Entry \cup {None} /\ n.dst \in Destination
    BY DEF Net
  <1>1. CASE ~ n.open
    BY <1>1 DEF Send, Ends, Later
  <1>2. CASE n.open
    <2>1. Send(n).subscribers[q] = f /\ ~ Send(n).open
      BY <1>2 DEF Send
    <2>2. CASE n.dst.to = "subscribers"
      <3>1. f = Deliver(e, n.dst.type, n.kinds)
        BY <2>2 DEF Arrived
      <3>2. ASSUME f.here
            PROVE  e.here /\ ~ (e.lease < 0) /\ f.lease = e.lease
        <4>1. e.here /\ ~ Lapsed(e)
          BY <3>1, <3>2 DEF Deliver, None
        <4>2. e \in Entry
          BY <1>0, <4>1, EntryTypes
        <4>3. f = e \/ f = [e EXCEPT !.known = @ \cup n.kinds]
          BY <3>1, <4>1 DEF Deliver
        <4>4. [e EXCEPT !.known = @ \cup n.kinds].lease = e.lease
          BY <4>2 DEF Entry
        <4> QED BY <4>1, <4>3, <4>4 DEF Lapsed
      <3> HIDE DEF f
      <3> QED BY <2>1, <3>2 DEF Ends, Later, NotFor
    <2>3. CASE n.dst.to = "peer" /\ n.dst.peer = q
      <3>1. n.dst = Mesh(q)
        BY <1>0, <2>3 DEF Destination, Mesh
      <3>2. f = Answer(e, n.kinds)
        BY <2>3 DEF Arrived
      <3>3. f.here => e.here /\ f.lease = e.lease
        BY <1>0, <3>2, EntryTypes DEF Answer, Entry
      <3> HIDE DEF f
      <3> QED BY <1>2, <2>1, <3>1, <3>3 DEF Ends, NotFor
    <2>4. CASE n.dst.to # "subscribers" /\ ~ (n.dst.to = "peer" /\ n.dst.peer = q)
      <3>1. f = e
        BY <2>4 DEF Arrived, Net
      <3> HIDE DEF f
      <3> QED BY <2>1, <3>1 DEF Ends, Later, NotFor
    <2> QED BY <2>2, <2>3, <2>4
  <1> QED BY <1>1, <1>2

LEMMA UseEnds ==
    ASSUME NEW n \in Net, NEW d \in Destination, NEW q \in Peer, d # Mesh(q)
    PROVE  Ends(n, Use(n, d), q)
  <1> DEFINE m == IF n.open /\ n.dst # d THEN Send(n) ELSE n
  <1>1. m \in Net /\ Ends(n, m, q)
    BY SendType, SendEnds DEF Ends, Later
  <1> HIDE DEF m
  <1>2. Ends(m, [m EXCEPT !.open = TRUE, !.dst = d], q)
    BY <1>1 DEF Ends, Later, NotFor, Net
  <1> QED BY <1>1, <1>2, EndsTrans DEF Use, m

LEMMA AddEnds ==
    ASSUME NEW n \in Net, NEW K \in SUBSET Kind, NEW full \in BOOLEAN, NEW q \in Peer,
           n.dst # Mesh(q)
    PROVE  Ends(n, Add(n, K, full), q)
  <1> DEFINE m == IF full THEN Send(n) ELSE n
  <1>1. m \in Net /\ Ends(n, m, q) /\ m.dst = n.dst
    BY SendType, SendEnds DEF Ends, Later, Send
  <1> HIDE DEF m
  <1>2. Ends(m, [m EXCEPT !.open = TRUE, !.kinds = @ \cup K], q)
    BY <1>1 DEF Ends, Later, NotFor, Net
  <1> QED BY <1>1, <1>2, EndsTrans DEF Add, m

\* A message with another destination.
LEMMA PutEnds ==
    ASSUME NEW n \in Net, NEW d \in Destination, NEW K \in SUBSET Kind, NEW full \in BOOLEAN,
           NEW q \in Peer, d # Mesh(q)
    PROVE  Add(Use(n, d), K, full) \in Net /\ Ends(n, Add(Use(n, d), K, full), q)
  <1> DEFINE u == Use(n, d)
  <1>1. u \in Net /\ u.dst = d /\ Ends(n, u, q)
    BY UseType, UseEnds
  <1> HIDE DEF u
  <1>2. Add(u, K, full) \in Net /\ Ends(u, Add(u, K, full), q)
    BY <1>1, AddType, AddEnds
  <1> QED BY <1>1, <1>2, EndsTrans DEF u

LEMMA AnnounceEnds ==
    ASSUME NEW n \in Net, NEW t \in SUBSET Kind, NEW K \in SUBSET Kind, NEW full \in BOOLEAN,
           NEW q \in Peer
    PROVE  Announce(n, t, K, full) \in Net /\ Ends(n, Announce(n, t, K, full), q)
  BY PutEnds, Destinations, MeshApart DEF Announce

LEMMA ChangeEnds ==
    ASSUME NEW n \in Net, NEW K \in SUBSET Kind, NEW q \in Peer
    PROVE  Change(n, K) \in Net /\ Ends(n, Change(n, K), q)
  <1> DEFINE e == n.subscribers[q]  f == [e EXCEPT !.known = @ \ K]
             s == [p \in Peer |-> [n.subscribers[p] EXCEPT !.known = @ \ K]]
  <1>1. e \in Entry \cup {None}
    BY DEF Net
  <1>2. f.here = e.here /\ f.lease = e.lease /\ f.known = e.known \ K
    BY <1>1 DEF Entry, None
  <1>3. s[q] = f
    OBVIOUS
  <1> HIDE DEF s, f
  <1>4. /\ Change(n, K).subscribers = s
        /\ Change(n, K).open = n.open /\ Change(n, K).dst = n.dst
    BY DEF Change, Net, s
  <1> QED BY <1>2, <1>3, <1>4, ChangeType DEF Ends, Later, NotFor

LEMMA InformEnds ==
    ASSUME NEW n \in Net, NEW full \in BOOLEAN, NEW q \in Peer
    PROVE  InformDevice(n, full) \in Net /\ Ends(n, InformDevice(n, full), q)
  <1> DEFINE a == Announce(n, {"dev"}, {}, full)
  <1>1. a \in Net /\ Ends(n, a, q)
    BY AnnounceEnds DEF Kind
  <1> HIDE DEF a
  <1>2. Send(a) \in Net /\ Ends(a, Send(a), q)
    BY <1>1, SendType, SendEnds
  <1> QED BY <1>1, <1>2, EndsTrans DEF InformDevice, a

\* A change that is announced, and its announcement alone.
LEMMA MessageEnds ==
    ASSUME NEW n \in Net, NEW C \in SUBSET Kind, NEW m \in {"in", "out", "local"},
           NEW full \in BOOLEAN, NEW q \in Peer,
           NEW l, l = IF m = "local" THEN Change(n, C) ELSE Add(Use(Change(n, C), Link), {}, full)
    PROVE  l \in Net /\ Ends(n, l, q)
  <1> DEFINE c == Change(n, C)
  <1>1. c \in Net /\ Ends(n, c, q)
    BY ChangeEnds
  <1> HIDE DEF c
  <1>2. {} \in SUBSET Kind
    OBVIOUS
  <1>3. Add(Use(c, Link), {}, full) \in Net /\ Ends(c, Add(Use(c, Link), {}, full), q)
    BY <1>1, <1>2, PutEnds, Destinations, MeshApart
  <1> QED BY <1>1, <1>3, EndsTrans DEF c

LEMMA MapEventEnds ==
    ASSUME NEW n \in Net, NEW m \in Maps, NEW full \in BOOLEAN, NEW q \in Peer,
           NEW y \in {MapKinds(m), MapType(m)}, n = net
    PROVE  MapEvent(m, y, full) \in Net /\ Ends(n, MapEvent(m, y, full), q)
  <1> DEFINE E == EndKinds(m)  M == MapKinds(m)  t == {"dev"} \cup E \cup M
             l == IF m = "local" THEN Change(n, t) ELSE Add(Use(Change(n, t), Link), {}, full)
             i == InformDevice(l, full)  s == Announce(i, SigKind, E, full)
             a == Announce(s, y, M, full)
  <1>0. /\ SigKind \in SUBSET Kind /\ M \in SUBSET Kind /\ E \in SUBSET Kind
        /\ t \in SUBSET Kind /\ y \in SUBSET Kind /\ m \in {"in", "out", "local"}
    BY ConstantsAssumption DEF EndKinds, MapKinds, MapType, SigKind, MapKind, Kind
  <1>1. MapEvent(m, y, full) = IF Subscribed(l) THEN a ELSE l
    BY DEF MapEvent
  <1> HIDE DEF E, M, t
  <1>2. l \in Net /\ Ends(n, l, q)
    BY <1>0, MessageEnds
  <1> HIDE DEF l
  <1>3. i \in Net /\ Ends(l, i, q)
    BY <1>2, InformEnds
  <1> HIDE DEF i
  <1>4. s \in Net /\ Ends(i, s, q)
    BY <1>0, <1>3, AnnounceEnds
  <1> HIDE DEF s
  <1>5. a \in Net /\ Ends(s, a, q)
    BY <1>0, <1>4, AnnounceEnds
  <1> HIDE DEF a
  <1>6. Ends(n, s, q)
    BY <1>2, <1>3, <1>4, EndsTrans
  <1> QED BY <1>1, <1>2, <1>5, <1>6, EndsTrans

\* What one peer is told, others are not; and nothing stays open.
LEMMA TellEnds ==
    ASSUME NEW n \in Net, NEW p \in Peer, NEW K \in SUBSET Kind, NEW full \in BOOLEAN
    PROVE  /\ Tell(n, p, K, full) \in Net /\ ~ Tell(n, p, K, full).open
           /\ \A q \in Peer \ {p} : Ends(n, Tell(n, p, K, full), q)
           /\ Tell(n, p, K, full).subscribers[p].here =>
                /\ n.subscribers[p].here
                /\ Tell(n, p, K, full).subscribers[p].lease = n.subscribers[p].lease
  <1> DEFINE w == IF n.open /\ n.dst # Mesh(p) THEN Send(n) ELSE n
             u == Use(n, Mesh(p))
             v == IF full THEN Send(u) ELSE u
             a == Add(u, K, full)
             r == Send(a)
  <1>0. Tell(n, p, K, full) = r
    BY DEF Tell
  <1>1. w \in Net /\ u \in Net /\ u = [w EXCEPT !.open = TRUE, !.dst = Mesh(p)]
    BY SendType, UseType, Destinations DEF Use
  <1>2. v \in Net /\ a \in Net /\ a = [v EXCEPT !.open = TRUE, !.kinds = @ \cup K]
    BY <1>1, SendType, AddType DEF Add
  <1>3. r \in Net /\ ~ r.open
    BY <1>2, SendType DEF Send
  <1>4. \A q \in Peer \ {p} : Ends(n, r, q)
    <2> TAKE q \in Peer \ {p}
    <2>1. a \in Net /\ Ends(n, a, q)
      BY PutEnds, Destinations, MeshApart
    <2> HIDE DEF a
    <2>2. Ends(a, Send(a), q)
      BY <2>1, SendEnds
    <2> QED BY <2>1, <2>2, EndsTrans
  <1> DEFINE Of(x) == x.subscribers[p]
  <1>5. Of(w).here => Of(n).here /\ Of(w).lease = Of(n).lease
    BY SendEnds
  <1>6. Of(u) = Of(w)
    BY <1>1 DEF Net
  <1>7. Of(v).here => Of(u).here /\ Of(v).lease = Of(u).lease
    BY <1>1, SendEnds
  <1>8. Of(a) = Of(v)
    BY <1>2 DEF Net
  <1>9. Of(r).here => Of(a).here /\ Of(r).lease = Of(a).lease
    BY <1>2, SendEnds
  <1> HIDE DEF w, u, v, a, r
  <1>10. Of(r).here => Of(n).here /\ Of(r).lease = Of(n).lease
    BY <1>5, <1>6, <1>7, <1>8, <1>9
  <1> QED BY <1>0, <1>3, <1>4, <1>10

\* What the property says of a step, for subscriber q.
Silence(q) ==
    /\ net.subscribers[q].here /\ net.subscribers[q].lease < 0
    /\ net'.subscribers[q].here /\ net'.subscribers[q].lease < 0
    => net'.subscribers[q].known \subseteq net.subscribers[q].known

Apart(n) == \A q \in Peer : NotFor(n, q)

LEMMA EndsSilence ==
    ASSUME Apart(net), \A q \in Peer : Ends(net, net', q)
    PROVE  Apart(net') /\ \A q \in Peer : Silence(q)
  BY DEF Apart, Ends, Later, Silence

LEMMA SubscribeEnds ==
    ASSUME TypeOK, Apart(net),
           NEW p \in Peer, NEW F \in FlagSets, NEW t \in Leases, Subscribe(p, F, t)
    PROVE  Apart(net') /\ \A q \in Peer : Silence(q)
  <1> DEFINE e == net.subscribers[p]  K == Asked(e, F)  g == EntryAfter(e, F, t)
             n == [net EXCEPT !.subscribers[p] = g]
  <1>0. /\ net \in Net /\ e \in Entry \cup {None} /\ F \in SUBSET Kind /\ t \in Nat
        /\ K \in SUBSET Kind
    BY ConstantsAssumption DEF TypeOK, Net, Asked
  <1>1. g \in Entry \cup {None} /\ (g.here => g.lease \in Nat)
    <2> HIDE DEF e
    <2>1. CASE F = {} \/ t = 0
      BY <2>1 DEF EntryAfter, None
    <2>2. CASE F # {} /\ t # 0
      <3>1. g = [flags |-> F, lease |-> t, known |-> e.known, here |-> TRUE]
        BY <2>2 DEF EntryAfter
      <3>2. e.known \in SUBSET Kind
        BY <1>0, EntryTypes
      <3> QED BY <1>0, <3>1, <3>2 DEF Entry
    <2> QED BY <2>1, <2>2
  <1> HIDE DEF g
  <1>2. /\ n \in Net /\ n.subscribers[p] = g /\ n.open = net.open /\ n.dst = net.dst
        /\ \A q \in Peer \ {p} : n.subscribers[q] = net.subscribers[q]
    <2> DEFINE s == [net.subscribers EXCEPT ![p] = g]
    <2>1. s \in [Peer -> Entry \cup {None}] /\ s[p] = g
          /\ \A q \in Peer \ {p} : s[q] = net.subscribers[q]
      BY <1>0, <1>1 DEF Net
    <2> HIDE DEF s
    <2>2. [net EXCEPT !.subscribers = s] \in Net /\ [net EXCEPT !.subscribers = s].subscribers = s
      BY <1>0, <2>1 DEF Net
    <2>3. n = [net EXCEPT !.subscribers = s]
      BY DEF s
    <2>4. n.open = net.open /\ n.dst = net.dst
      BY <1>0, <2>3 DEF Net
    <2> QED BY <2>1, <2>2, <2>3, <2>4
  <1>s. SUFFICES /\ \A q \in Peer \ {p} : Ends(n, net', q)
                 /\ ~ net'.open \/ net' = n
                 /\ net'.subscribers[p].here => g.here /\ net'.subscribers[p].lease = g.lease
    <2> HIDE DEF n
    <2>1. \A q \in Peer \ {p} : Silence(q) /\ NotFor(net', q)
      BY <1>2, <1>s DEF Ends, Later, Silence, NotFor, Apart
    <2>2. Silence(p)
      BY <1>0, <1>1, <1>s DEF Silence
    <2>3. NotFor(net', p)
      BY <1>2, <1>s DEF NotFor, Apart
    <2> QED BY <2>1, <2>2, <2>3 DEF Apart
  <1> HIDE DEF n
  <1>3. CASE K = {}
    <2>1. net' = n
      BY <1>3 DEF Subscribe, n, g
    <2> QED BY <1>2, <2>1 DEF Ends, Later
  <1>4. CASE K # {}
    <2> PICK full \in BOOLEAN :
           net' = LET d == Tell(n, p, {"dev"}, full)
                      s == IF K \cap SigKind = {} THEN d ELSE Tell(d, p, K \cap SigKind, full)
                  IN  IF K \cap MapKind = {} THEN s ELSE Tell(s, p, K \cap MapKind, full)
      BY <1>4 DEF Subscribe, n, g
    <2> DEFINE d == Tell(n, p, {"dev"}, full)
               s == IF K \cap SigKind = {} THEN d ELSE Tell(d, p, K \cap SigKind, full)
               r == IF K \cap MapKind = {} THEN s ELSE Tell(s, p, K \cap MapKind, full)
               Of(x) == x.subscribers[p]
    <2>0. net' = r /\ {"dev"} \in SUBSET Kind /\ K \cap SigKind \in SUBSET Kind /\ K \cap MapKind \in SUBSET Kind
      BY <1>0 DEF Kind
    <2>1. /\ d \in Net /\ ~ d.open /\ \A q \in Peer \ {p} : Ends(n, d, q)
          /\ Of(d).here => Of(n).here /\ Of(d).lease = Of(n).lease
      BY <1>2, <2>0, TellEnds
    <2> HIDE DEF d
    <2> DEFINE y == Tell(d, p, K \cap SigKind, full)
    <2>y. /\ y \in Net /\ ~ y.open /\ \A q \in Peer \ {p} : Ends(d, y, q)
          /\ Of(y).here => Of(d).here /\ Of(y).lease = Of(d).lease
      BY <2>0, <2>1, TellEnds
    <2> HIDE DEF y
    <2>2. /\ s \in Net /\ ~ s.open /\ \A q \in Peer \ {p} : Ends(d, s, q)
          /\ Of(s).here => Of(d).here /\ Of(s).lease = Of(d).lease
      BY <2>1, <2>y DEF Ends, Later, y
    <2> HIDE DEF s
    <2> DEFINE z == Tell(s, p, K \cap MapKind, full)
    <2>z. /\ z \in Net /\ ~ z.open /\ \A q \in Peer \ {p} : Ends(s, z, q)
          /\ Of(z).here => Of(s).here /\ Of(z).lease = Of(s).lease
      BY <2>0, <2>2, TellEnds
    <2> HIDE DEF z
    <2>3. /\ r \in Net /\ ~ r.open /\ \A q \in Peer \ {p} : Ends(s, r, q)
          /\ Of(r).here => Of(s).here /\ Of(r).lease = Of(s).lease
      BY <2>2, <2>z DEF Ends, Later, z
    <2> HIDE DEF r
    <2>4. \A q \in Peer \ {p} : Ends(n, r, q)
      BY <2>1, <2>2, <2>3, EndsTrans
    <2> QED BY <1>2, <2>0, <2>1, <2>2, <2>3, <2>4
  <1> QED BY <1>3, <1>4

LEMMA PollEnds ==
    ASSUME TypeOK, NEW busDue \in BOOLEAN, NEW full \in BOOLEAN, NEW q \in Peer
    PROVE  Ends(net, NetPoll(net, busDue, full), q)
  <1> DEFINE s == Send(net)
             a == Announce(s, {"dev"}, {}, full)
             told == IF subPing = 0 /\ Subscribed(s) THEN a ELSE s
             b == Add(Use(told, Bus), {}, full)
  <1>0. net \in Net /\ {"dev"} \in SUBSET Kind /\ {} \in SUBSET Kind
    BY DEF TypeOK, Kind
  <1>1. s \in Net /\ Ends(net, s, q)
    BY <1>0, SendType, SendEnds
  <1> HIDE DEF s
  <1>2. a \in Net /\ Ends(s, a, q)
    BY <1>0, <1>1, AnnounceEnds
  <1> HIDE DEF a
  <1>3. told \in Net /\ Ends(net, told, q)
    BY <1>1, <1>2, EndsTrans
  <1> HIDE DEF told
  <1>4. b \in Net /\ Ends(told, b, q)
    BY <1>0, <1>3, PutEnds, Destinations, MeshApart
  <1> HIDE DEF b
  <1>5. NetPoll(net, busDue, full) = IF busDue THEN b ELSE told
    BY DEF NetPoll, b, told, a, s
  <1> QED BY <1>3, <1>4, <1>5, EndsTrans

LEMMA TickEnds ==
    ASSUME TypeOK, Apart(net), Tick
    PROVE  Apart(net') /\ \A q \in Peer : Silence(q)
  <1> DEFINE f(p) == IF net.subscribers[p].lease < 0 THEN net.subscribers[p]
                     ELSE [net.subscribers[p] EXCEPT !.lease = @ - 1]
             s == [p \in Peer |-> f(p)]
  <1>1. net \in Net /\ net' = [net EXCEPT !.subscribers = s]
    BY DEF Tick, TypeOK
  <1>2. \A q \in Peer : s[q] = f(q)
    OBVIOUS
  <1>3. net'.open = net.open /\ net'.dst = net.dst /\ net'.subscribers = s
    <2> HIDE DEF s
    <2> QED BY <1>1 DEF Net
  <1>4. \A q \in Peer : net.subscribers[q].lease < 0 => net'.subscribers[q] = net.subscribers[q]
    BY <1>2, <1>3
  <1> HIDE DEF s, f
  <1> QED BY <1>3, <1>4 DEF Apart, NotFor, Silence

LEMMA NextEnds ==
    ASSUME TypeOK, Apart(net), [Next]_vars
    PROVE  Apart(net') /\ \A q \in Peer : Silence(q)
  <1>0. net \in Net /\ {"dev"} \in SUBSET Kind /\ {} \in SUBSET Kind
    BY DEF TypeOK, Kind
  <1>1. ASSUME NEW p \in Peer, NEW F \in FlagSets, NEW t \in Leases, Subscribe(p, F, t)
        PROVE  Apart(net') /\ \A q \in Peer : Silence(q)
    BY <1>1, SubscribeEnds
  <1>2. CASE Tick
    BY <1>2, TickEnds
  <1>3. SUFFICES ASSUME \A p \in Peer, F \in FlagSets, t \in Leases : ~ Subscribe(p, F, t),
                        ~ Tick, NEW q \in Peer
                 PROVE  Ends(net, net', q)
    BY <1>1, <1>2, EndsSilence
  <1>4. CASE net' = net
    BY <1>4 DEF Ends, Later
  <1>5. CASE BeginPoll \/ PollAgain
    BY <1>5, PollEnds DEF BeginPoll, PollAgain
  <1>6. CASE EndPoll \/ PushDev
    BY <1>0, <1>4, <1>6, AnnounceEnds DEF EndPoll, PushDev
  <1>7. CASE DevModified
    <2> DEFINE c == Change(net, {"dev"})
    <2>1. c \in Net /\ Ends(net, c, q)
      BY <1>0, ChangeEnds
    <2> HIDE DEF c
    <2>2. \A full \in BOOLEAN : Ends(c, InformDevice(c, full), q)
      BY <2>1, InformEnds
    <2>3. \A full \in BOOLEAN : Ends(net, InformDevice(c, full), q)
      BY <2>1, <2>2, EndsTrans
    <2> QED BY <1>4, <1>7, <2>1, <2>3 DEF DevModified, c
  <1>8. ASSUME NEW k \in SigKind, SigModified(k) \/ SigChanged(k)
        PROVE  Ends(net, net', q)
    <2> DEFINE c == Change(net, {k})
    <2>0. {k} \in SUBSET Kind
      BY DEF Kind
    <2>1. c \in Net /\ Ends(net, c, q)
      BY <1>0, <2>0, ChangeEnds
    <2> HIDE DEF c
    <2>2. \A full \in BOOLEAN : Ends(c, Announce(c, {k}, {k}, full), q)
      BY <2>0, <2>1, AnnounceEnds
    <2>3. \E full \in BOOLEAN : net' = c \/ net' = Announce(c, {k}, {k}, full)
      BY <1>8 DEF SigModified, SigChanged, c
    <2> QED BY <2>1, <2>2, <2>3, EndsTrans
  <1>9. ASSUME NEW m \in Maps, MapActivated(m) \/ Unmapped(m)
        PROVE  Ends(net, net', q)
    <2>1. \E full \in BOOLEAN, y \in {MapKinds(m), MapType(m)} : net' = MapEvent(m, y, full)
      BY <1>9 DEF MapActivated, Unmapped
    <2> QED BY <1>0, <2>1, MapEventEnds
  <1>10. ASSUME NEW m \in Maps, MapModified(m)
         PROVE  Ends(net, net', q)
    <2> DEFINE M == MapKinds(m)  y == MapType(m)
    <2>0. M \in SUBSET Kind /\ y \in SUBSET Kind /\ m \in {"in", "out", "local"}
      BY ConstantsAssumption DEF MapKinds, MapType, MapKind, Kind
    <2> PICK full \in BOOLEAN :
           net' = LET l == IF m = "local" THEN Change(net, M) ELSE Add(Use(Change(net, M), Link), {}, full) IN
                  IF Subscribed(l) THEN Announce(l, y, M, full) ELSE l
      BY <1>10 DEF MapModified
    <2> HIDE DEF M, y
    <2> DEFINE l == IF m = "local" THEN Change(net, M) ELSE Add(Use(Change(net, M), Link), {}, full)
    <2>1. net' = IF Subscribed(l) THEN Announce(l, y, M, full) ELSE l
      OBVIOUS
    <2>2. l \in Net /\ Ends(net, l, q)
      BY <1>0, <2>0, MessageEnds
    <2> HIDE DEF l
    <2>3. Ends(l, Announce(l, y, M, full), q)
      BY <2>0, <2>2, AnnounceEnds
    <2> QED BY <2>1, <2>2, <2>3, EndsTrans
  <1>11. ASSUME NEW u \in SetResults, SetProp(u)
         PROVE  Ends(net, net', q)
    BY <1>0, <1>4, <1>11, ChangeEnds DEF SetProp
  <1>12. CASE OtherMsg(Bus) \/ OtherMsg(Link)
    BY <1>0, <1>12, PutEnds, Destinations, MeshApart DEF OtherMsg
  <1>13. CASE UNCHANGED vars
    BY <1>4, <1>13 DEF vars
  <1> QED BY <1>3, <1>5, <1>6, <1>7, <1>8, <1>9, <1>10, <1>11, <1>12, <1>13 DEF Next, Handlers, Calls

\* After its lease a subscriber that does not renew is sent nothing more, whatever is
\* announced, asked for by others and sent elsewhere meanwhile (mpr_net_send looks at
\* the lease before it sends): for any number of subscribers.
THEOREM LeaseEnds == Spec => NothingAfterLease
  <1>1. Init => Apart(net)
    BY DEF Init, Apart, NotFor
  <1>2. TypeOK /\ Apart(net) /\ [Next]_vars => Apart(net)'
    BY NextEnds DEF Apart, NotFor, Mesh
  <1>3. TypeOK /\ Apart(net) /\ [Next]_vars
        => [\A p \in Peer :
              /\ net.subscribers[p].here /\ net.subscribers[p].lease < 0
              /\ net'.subscribers[p].here /\ net'.subscribers[p].lease < 0
              => net'.subscribers[p].known \subseteq net.subscribers[p].known]_vars
    BY NextEnds DEF Silence
  <1> QED BY <1>1, <1>2, <1>3, TypeCorrect, PTL DEF Spec, NothingAfterLease

=============================================================================
