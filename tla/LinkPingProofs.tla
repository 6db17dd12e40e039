---------------------------- MODULE LinkPingProofs ----------------------------
(***************************************************************************)
(* Proofs about LinkPing: its types, and that a link that both peers use   *)
(* is not removed when the periods, the delay and the losses fit into the  *)
(* time-out.  The second needs a budget: the ticks that are left before a  *)
(* peer could remove its link cover those the next ping may take.          *)
(***************************************************************************)
EXTENDS LinkPing, TLAPS

\* A peer that ended may start again.
Startable == \A p \in Peer : ~ alive[p] => life[p] < MaxLife

LEMMA Peers ==
    ASSUME NEW p \in Peer
    PROVE  /\ Other(p) \in Peer /\ Other(p) # p /\ Other(Other(p)) = p
           /\ Peer = {p, Other(p)}
<1>1. PICK x \in Peer, y \in Peer : x # y /\ Peer = {x, y}
  BY LinkAssumption
<1>2. \A r \in Peer : \E q \in Peer : q # r
  BY <1>1
<1>3. \A r \in Peer : Other(r) \in Peer /\ Other(r) # r
  BY <1>2 DEF Other
<1> QED BY <1>1, <1>3

LEMMA Numbers ==
    /\ Timeout \in Nat /\ Grace \in Nat /\ SetupTime \in Nat /\ MaxDelay \in Nat
    /\ MaxLost \in Nat /\ MaxLife \in Nat
    /\ ShortestWait \in Nat /\ ShortestWait > 0 /\ LongestWait \in Nat
BY LinkAssumption

------------------------------------------------------------------------------
\* A link of a record type is what its fields say.

LEMMA LinkTypes ==
    /\ ~ NoLink.here /\ ~ NoLink.maps
    /\ NewLink \in Link /\ ~ NewLink.maps /\ NewLink.here /\ NewLink.addr = -1
    /\ \A l \in Link : /\ l.here /\ l.addr \in -1 .. MaxLife /\ l.maps \in BOOLEAN
                       /\ l.heard \in BOOLEAN /\ l.age \in -Grace .. Timeout + 1
<1>1. ~ NoLink.here /\ ~ NoLink.maps
  BY DEF NoLink
<1>2. ~ NewLink.maps /\ NewLink.here /\ NewLink.addr = -1
  BY DEF NewLink
<1>3. -Grace \in -Grace .. Timeout + 1 /\ -1 \in -1 .. MaxLife
  BY Numbers
<1>4. NewLink \in Link
  BY <1>3 DEF NewLink, Link
<1>5. ASSUME NEW l \in Link
      PROVE  /\ l.addr \in -1 .. MaxLife /\ l.maps \in BOOLEAN
             /\ l.heard \in BOOLEAN /\ l.age \in -Grace .. Timeout + 1
             /\ l.here \in {TRUE}
  BY DEF Link
<1> QED BY <1>1, <1>2, <1>4, <1>5

LEMMA LinkUpdates ==
    ASSUME NEW l \in Link
    PROVE  /\ \A a \in -1 .. MaxLife : [l EXCEPT !.addr = a] \in Link
           /\ \A m \in BOOLEAN : [l EXCEPT !.maps = m] \in Link
           /\ [l EXCEPT !.heard = TRUE, !.age = 0] \in Link
           /\ ~ Silent(l) => [l EXCEPT !.age = @ + 1] \in Link
           /\ Warned(l) \in Link
<1>0. 0 \in -Grace .. Timeout + 1
  BY Numbers
<1>1. \A a \in -1 .. MaxLife : [l EXCEPT !.addr = a] \in Link
  BY DEF Link
<1>2. \A m \in BOOLEAN : [l EXCEPT !.maps = m] \in Link
  BY DEF Link
<1>3. \A h \in BOOLEAN : [l EXCEPT !.heard = h, !.age = 0] \in Link
  BY <1>0 DEF Link
<1>4. ASSUME ~ Silent(l) PROVE [l EXCEPT !.age = @ + 1] \in Link
  <2>1. l.age + 1 \in -Grace .. Timeout + 1
    BY <1>4, LinkTypes, Numbers DEF Silent
  <2> QED BY <2>1 DEF Link
<1>5. Warned(l) \in Link
  BY <1>3 DEF Warned
<1> QED BY <1>1, <1>2, <1>3, <1>4, <1>5

LEMMA SentTypes ==
    ASSUME TypeOK, NEW q \in Peer, NEW l, Sent(q, l)
    PROVE  /\ wire' \in [Peer -> SUBSET (0 .. MaxDelay)]
           /\ lost' \in [Peer -> 0 .. MaxLost]
<1>1. Other(q) \in Peer
  BY Peers
<1> QED BY <1>1, Numbers DEF TypeOK, Sent

\* The types, with what makes them inductive.
LEMMA TypesKept == Spec => [](TypeOK /\ Startable)
<1>1. Init => TypeOK /\ Startable
  BY LinkTypes, Numbers DEF Init, TypeOK, Startable
<1>2. TypeOK /\ Startable /\ [Next]_vars => TypeOK' /\ Startable'
  <2> SUFFICES ASSUME TypeOK, Startable, [Next]_vars PROVE TypeOK' /\ Startable'
    OBVIOUS
  <2> USE Numbers
  <2>1. ASSUME NEW p \in Peer, Create(p) PROVE TypeOK' /\ Startable'
    BY <2>1, LinkTypes DEF Create, TypeOK, Startable
  <2>2. ASSUME NEW p \in Peer, Connect(p) PROVE TypeOK' /\ Startable'
    <3>1. link[p] \in Link /\ life[Other(p)] \in -1 .. MaxLife
      BY <2>2, Peers, LinkTypes DEF Connect, TypeOK, Startable
    <3>2. [link[p] EXCEPT !.addr = life[Other(p)]] \in Link
      BY <3>1, LinkUpdates
    <3> QED BY <2>2, <3>2 DEF Connect, TypeOK, Startable
  <2>3. ASSUME NEW p \in Peer, MapReady(p) PROVE TypeOK' /\ Startable'
    <3>1. link[p] \in Link
      BY <2>3, LinkTypes DEF MapReady, Reaches, TypeOK
    <3>2. [link[p] EXCEPT !.maps = TRUE] \in Link
      BY <3>1, LinkUpdates
    <3> QED BY <2>3, <3>2 DEF MapReady, TypeOK, Startable
  <2>4. ASSUME NEW p \in Peer, MapsGone(p) PROVE TypeOK' /\ Startable'
    <3>1. link[p] \in Link
      BY <2>4, LinkTypes DEF MapsGone, TypeOK, Startable
    <3>2. [link[p] EXCEPT !.maps = FALSE] \in Link
      BY <3>1, LinkUpdates
    <3> QED BY <2>4, <3>2 DEF MapsGone, TypeOK, Startable
  <2>5. ASSUME NEW p \in Peer, Housekeep(p) PROVE TypeOK' /\ Startable'
    <3> DEFINE l == IF link[p].here THEN Warned(link[p]) ELSE NoLink
    <3>1. l \in Link \cup {NoLink}
      BY LinkTypes, LinkUpdates DEF TypeOK
    <3>2. wait' \in [Peer -> 0 .. LongestWait] /\ alive' = alive /\ life' = life
      BY <2>5 DEF Housekeep, Waits, TypeOK
    <3>3. CASE link[p].here /\ Removed(link[p])
      BY <2>5, <3>2, <3>3 DEF Housekeep, TypeOK, Startable
    <3>4. CASE ~ (link[p].here /\ Removed(link[p]))
      <4>1. /\ link' = [link EXCEPT ![p] = l]
            /\ IF Pings(l) THEN Sent(p, l) ELSE UNCHANGED <<wire, lost>>
        BY <2>5, <3>4 DEF Housekeep
      <4> HIDE DEF l
      <4>2. link' \in [Peer -> Link \cup {NoLink}]
        BY <4>1, <3>1 DEF TypeOK
      <4>3. wire' \in [Peer -> SUBSET (0 .. MaxDelay)] /\ lost' \in [Peer -> 0 .. MaxLost]
        BY <4>1, SentTypes DEF TypeOK
      <4> QED BY <4>2, <4>3, <3>2 DEF TypeOK, Startable
    <3> QED BY <3>3, <3>4
  <2>6. ASSUME NEW p \in Peer, RecvPing(p) PROVE TypeOK' /\ Startable'
    <3>1. link' \in [Peer -> Link \cup {NoLink}]
      <4>1. CASE link[p].here
        <5>1. link[p] \in Link
          BY <4>1, LinkTypes DEF TypeOK
        <5>2. [link[p] EXCEPT !.heard = TRUE, !.age = 0] \in Link
          BY <5>1, LinkUpdates
        <5>3. link' = [link EXCEPT ![p] = [link[p] EXCEPT !.heard = TRUE, !.age = 0]]
          BY <2>6, <4>1 DEF RecvPing
        <5> QED BY <5>2, <5>3 DEF TypeOK
      <4>2. CASE ~ link[p].here
        BY <2>6, <4>2 DEF RecvPing, TypeOK
      <4> QED BY <4>1, <4>2
    <3>2. wire' \in [Peer -> SUBSET (0 .. MaxDelay)]
      BY <2>6 DEF RecvPing, TypeOK
    <3> QED BY <2>6, <3>1, <3>2 DEF RecvPing, TypeOK, Startable
  <2>7. ASSUME NEW p \in Peer, Crash(p) PROVE TypeOK' /\ Startable'
    BY <2>7 DEF Crash, Ended, TypeOK, Startable
  <2>8. ASSUME NEW p \in Peer, Leave(p) PROVE TypeOK' /\ Startable'
    BY <2>8 DEF Leave, Ended, TypeOK, Startable
  <2>9. ASSUME NEW p \in Peer, Restart(p) PROVE TypeOK' /\ Startable'
    <3>0. ~ alive[p]
      BY <2>9 DEF Restart
    <3> QED BY <2>9, <3>0 DEF Restart, TypeOK, Startable
  <2>10. ASSUME Tick PROVE TypeOK' /\ Startable'
    <3>1. link' \in [Peer -> Link \cup {NoLink}]
      <4>1. \A p \in Peer :
              (IF link[p].here /\ ~ Silent(link[p])
               THEN [link[p] EXCEPT !.age = @ + 1] ELSE link[p]) \in Link \cup {NoLink}
        BY LinkTypes, LinkUpdates DEF TypeOK
      <4> QED BY <2>10, <4>1 DEF Tick, TypeOK
    <3>2. wait' \in [Peer -> 0 .. LongestWait] /\ wire' \in [Peer -> SUBSET (0 .. MaxDelay)]
      BY <2>10 DEF Tick, TypeOK
    <3> QED BY <2>10, <3>1, <3>2 DEF Tick, TypeOK, Startable
  <2>11. CASE UNCHANGED vars
    BY <2>11 DEF TypeOK, Startable, vars
  <2> QED BY <2>1, <2>2, <2>3, <2>4, <2>5, <2>6, <2>7, <2>8, <2>9, <2>10, <2>11 DEF Next
<1> QED BY <1>1, <1>2, PTL DEF Spec

\* TypeOK holds in every state of a link, for any timing.
THEOREM TypeCorrect == Spec => []TypeOK
<1>1. TypeOK /\ Startable => TypeOK
  OBVIOUS
<1> QED BY <1>1, TypesKept, PTL

------------------------------------------------------------------------------
\* A link that both peers use stays.

\* The longest a ping takes, with the losses, fits into both warnings.
Longest == (MaxLost + 1) * LongestWait + MaxDelay
InTime == /\ Longest < 2 * (Timeout + 1) - SetupTime
          /\ Longest < Timeout + 1 + Grace - SetupTime

Both(p) == InUse(p) /\ Reaches(p) /\ InUse(Other(p)) /\ Reaches(Other(p))

\* The ticks before the housekeeping could remove link l.
Budget(l) == (IF l.heard THEN Timeout + 1 ELSE 0) + Timeout + 1 - l.age

\* The ticks before a ping for p that is not lost must have arrived.
Due(p) == wait[Other(p)] + (MaxLost - lost[p]) * LongestWait + MaxDelay

Covered(p) == \/ \E a \in wire[p] : Budget(link[p]) > MaxDelay - a
              \/ Budget(link[p]) > Due(p)

Current == \A p \in Peer : /\ ~ alive[p] => ~ link[p].here
                           /\ link[p].maps => link[p].addr # -1

IInv == Current /\ \A p \in Peer : Both(p) => Covered(p)

\* What UsedLinkKept says of a step.
Kept == \A p \in Peer :
          InUse(p) /\ Reaches(p) /\ InUse(Other(p)) /\ Reaches(Other(p))
          => \/ InUse(p)'
             \/ ~ alive'[p] \/ ~ alive'[Other(p)] \/ MapsGone(p)

LEMMA Losses ==
    ASSUME NEW k \in 0 .. MaxLost
    PROVE  /\ (MaxLost - k) * LongestWait \in Nat
           /\ (MaxLost - k) * LongestWait + LongestWait <= (MaxLost + 1) * LongestWait
           /\ k < MaxLost => (MaxLost - (k + 1)) * LongestWait + LongestWait
                              = (MaxLost - k) * LongestWait
<1>1. \A i, j, w \in Nat : i * w \in Nat /\ (i <= j => i * w <= j * w) /\ (i + 1) * w = i * w + w
  BY Z3
<1>2. MaxLost - k \in Nat /\ MaxLost - k <= MaxLost /\ MaxLost \in Nat /\ LongestWait \in Nat
  BY Numbers
<1>3. (MaxLost - k) * LongestWait \in Nat /\ (MaxLost - k) * LongestWait <= MaxLost * LongestWait
      /\ (MaxLost + 1) * LongestWait = MaxLost * LongestWait + LongestWait
  BY <1>1, <1>2
<1>4. ASSUME k < MaxLost PROVE (MaxLost - (k + 1)) * LongestWait + LongestWait
                               = (MaxLost - k) * LongestWait
  <2>1. MaxLost - (k + 1) \in Nat /\ MaxLost - k = (MaxLost - (k + 1)) + 1
    BY <1>4, Numbers
  <2> QED BY <2>1, <1>1, <1>2
<1>5. MaxLost * LongestWait \in Nat
  BY <1>1, <1>2
<1> QED BY <1>3, <1>4, <1>5, <1>2

LEMMA DueBound ==
    ASSUME TypeOK, NEW p \in Peer
    PROVE  Due(p) \in Nat /\ Due(p) <= Longest /\ Longest \in Nat
<1>1. wait[Other(p)] \in 0 .. LongestWait /\ lost[p] \in 0 .. MaxLost
  BY Peers DEF TypeOK
<1>2. /\ (MaxLost - lost[p]) * LongestWait \in Nat
      /\ (MaxLost - lost[p]) * LongestWait + LongestWait <= (MaxLost + 1) * LongestWait
      /\ (MaxLost + 1) * LongestWait \in Int
  <2>1. \A i, j \in Int : i * j \in Int
    OBVIOUS
  <2> QED BY <1>1, <2>1, Losses, Numbers
<1> QED BY <1>1, <1>2, Numbers DEF Due, Longest

\* Both sides of a link in use have ready maps.
LEMMA BothUse ==
    ASSUME NEW r \in Peer, NEW p \in Peer
    PROVE  Both(r) => link[p].here /\ link[p].maps /\ Both(p) /\ alive[p]
                      /\ link[p].addr = life[Other(p)]
BY Peers DEF Both, InUse, Reaches

\* While both ends are in use, nothing is removed.
LEMMA NotRemoved ==
    ASSUME TypeOK, IInv, NEW p \in Peer, Both(p)
    PROVE  ~ Removed(link[p])
<1>1. link[p] \in Link /\ wire[p] \subseteq 0 .. MaxDelay
  BY BothUse, LinkTypes DEF TypeOK
<1>2. Budget(link[p]) > 0
  BY <1>1, DueBound, LinkTypes, Numbers DEF IInv, Covered, Budget
<1>3. link[p].age \in Int
  BY <1>1, LinkTypes, Numbers
<1> QED BY <1>2, <1>3, Numbers DEF Budget, Removed, Silent

\* A warning takes nothing from the budget and keeps the rest of the link.
LEMMA WarnedKeeps ==
    ASSUME NEW l \in Link
    PROVE  /\ Removed(l) \/ Budget(Warned(l)) = Budget(l)
           /\ Warned(l).maps = l.maps /\ Warned(l).addr = l.addr /\ Warned(l).here = l.here
<1>1. l.age \in -Grace .. Timeout + 1 /\ l.heard \in BOOLEAN
  BY LinkTypes
<1>2. CASE Silent(l)
  <2>1. l.age = Timeout + 1
    BY <1>1, <1>2, Numbers DEF Silent
  <2> DEFINE m == [l EXCEPT !.heard = FALSE, !.age = 0]
  <2>2. Warned(l) = m
    BY <1>2 DEF Warned
  <2>3. m.heard = FALSE /\ m.age = 0 /\ m.maps = l.maps /\ m.addr = l.addr /\ m.here = l.here
    BY DEF Link
  <2> HIDE DEF m
  <2>4. Budget(m) = Timeout + 1
    BY <2>3, Numbers DEF Budget
  <2>5. Removed(l) \/ Budget(l) = Timeout + 1
    BY <1>2, <2>1, Numbers DEF Budget, Removed
  <2> QED BY <2>2, <2>3, <2>4, <2>5
<1>3. CASE ~ Silent(l)
  BY <1>3 DEF Warned
<1> QED BY <1>2, <1>3

\* A step that leaves what Covered(r) reads keeps it.
LEMMA SameCovered ==
    ASSUME NEW r \in Peer, Covered(r), UNCHANGED <<link[r], wire[r], wait[Other(r)], lost[r]>>
    PROVE  Covered(r)'
<1>1. Budget(link[r])' = Budget(link[r]) /\ Due(r)' = Due(r)
  BY DEF Budget, Due
<1> QED BY <1>1 DEF Covered

LEMMA MapReadyCovers ==
    ASSUME TypeOK, ~ LateMaps, InTime, NEW p \in Peer, MapReady(p), NEW r \in Peer
    PROVE  Covered(r)'
<1>1. Prompt(link[r]) /\ link[r] \in Link
  BY Peers, LinkTypes DEF MapReady, Reaches, TypeOK
<1>2. link'[r].heard = link[r].heard /\ link'[r].age = link[r].age
  <2>1. CASE r = p
    <3>1. link'[r] = [link[r] EXCEPT !.maps = TRUE]
      BY <2>1 DEF MapReady, TypeOK
    <3> QED BY <3>1, <1>1 DEF Link
  <2>2. CASE r # p
    BY <2>2 DEF MapReady, TypeOK
  <2> QED BY <2>1, <2>2
<1>3. Budget(link[r]) > Longest
  BY <1>1, LinkTypes, DueBound, Numbers DEF Budget, Prompt, InTime
<1>4. Budget(link[r])' = Budget(link[r]) /\ Due(r)' = Due(r)
  BY <1>2 DEF Budget, Due, MapReady
<1>5. Budget(link[r]) \in Int
  BY <1>1, LinkTypes, Numbers DEF Budget
<1> QED BY <1>3, <1>4, <1>5, DueBound DEF Covered

LEMMA RecvPingCovers ==
    ASSUME TypeOK, InTime, NEW p \in Peer, RecvPing(p), NEW r \in Peer, Both(r), Covered(r)
    PROVE  Covered(r)'
<1>1. CASE r = p
  <2> DEFINE l == [link[p] EXCEPT !.heard = TRUE, !.age = 0]
  <2>1. link[p] \in Link /\ link[p].here
    BY BothUse, LinkTypes DEF TypeOK
  <2>2. link'[p] = l
    BY <2>1 DEF RecvPing, TypeOK
  <2>3. l.heard = TRUE /\ l.age = 0
    BY <2>1 DEF Link
  <2> HIDE DEF l
  <2>4. Budget(link[p])' = 2 * (Timeout + 1)
    BY <2>2, <2>3, Numbers DEF Budget
  <2>5. Due(p)' = Due(p)
    BY DEF Due, RecvPing
  <2> QED BY <1>1, <2>4, <2>5, DueBound, Numbers DEF Covered, InTime
<1>2. CASE r # p
  <2>1. link'[r] = link[r] /\ wire'[r] = wire[r] /\ wait' = wait /\ lost' = lost
    BY <1>2 DEF RecvPing, TypeOK
  <2> QED BY <2>1, SameCovered
<1> QED BY <1>1, <1>2

LEMMA HousekeepSteps ==
    ASSUME TypeOK, IInv, NEW p \in Peer, Housekeep(p), Both(p)
    PROVE  /\ link' = [link EXCEPT ![p] = Warned(link[p])]
           /\ Sent(p, Warned(link[p]))
           /\ Warned(link[p]).addr = life[Other(p)]
<1>1. link[p] \in Link /\ link[p].here /\ link[p].maps /\ link[p].addr = life[Other(p)]
  BY BothUse, LinkTypes DEF TypeOK
<1>2. ~ Removed(link[p])
  BY NotRemoved
<1>3. Pings(Warned(link[p]))
  BY <1>1, WarnedKeeps DEF Pings, IInv, Current
<1> QED BY <1>1, <1>2, <1>3, WarnedKeeps DEF Housekeep

LEMMA HousekeepCovers ==
    ASSUME TypeOK, IInv, NEW p \in Peer, Housekeep(p), NEW r \in Peer, Both(r), Covered(r)
    PROVE  Covered(r)'
<1>0. Both(p) /\ link[p] \in Link
  BY BothUse, LinkTypes DEF TypeOK
<1> DEFINE q == Other(p)
           l == Warned(link[p])
<1>1. /\ link' = [link EXCEPT ![p] = l] /\ Sent(p, l) /\ l.addr = life[q]
      /\ q \in Peer /\ q # p /\ Other(q) = p /\ alive[q]
  BY <1>0, HousekeepSteps, Peers, BothUse
<1>2. wait[p] = 0 /\ wait'[p] \in 0 .. LongestWait /\ wait'[q] = wait[q]
  BY <1>1, Numbers DEF Housekeep, TypeOK, Waits
<1>3. CASE r = p
  <2>1. Budget(l) = Budget(link[p])
    BY <1>0, WarnedKeeps, NotRemoved
  <2>2. link'[p] = l
    BY <1>1 DEF TypeOK
  <2> HIDE DEF l
  <2>3. Budget(link[p])' = Budget(link[p])
    BY <2>1, <2>2 DEF Budget
  <2>4. wire'[p] = wire[p] /\ lost'[p] = lost[p]
    BY <1>1 DEF Sent, TypeOK
  <2>5. Due(p)' = Due(p)
    BY <1>2, <2>4 DEF Due
  <2> QED BY <1>3, <2>3, <2>4, <2>5 DEF Covered
<1>4. CASE r = q
  <2> HIDE DEF l, q
  <2>1. link'[q] = link[q]
    BY <1>1 DEF TypeOK
  <2>2. Budget(link[q])' = Budget(link[q])
    BY <2>1 DEF Budget
  <2>3. wire[q] \subseteq wire'[q]
    BY <1>1 DEF Sent, TypeOK, q
  <2>4. CASE \E a \in wire[q] : Budget(link[q]) > MaxDelay - a
    BY <1>4, <2>2, <2>3, <2>4 DEF Covered
  <2>5. CASE Budget(link[q]) > Due(q)
    <3>1. lost[q] \in 0 .. MaxLost /\ Budget(link[q]) \in Int
      <4>1. link[q] \in Link
        BY <1>1, <1>4, BothUse, LinkTypes DEF TypeOK
      <4> QED BY <4>1, <1>1, LinkTypes, Numbers DEF TypeOK, Budget
    <3>2. Due(q) = (MaxLost - lost[q]) * LongestWait + MaxDelay
      BY <1>1, <1>2, <3>1, Losses, Numbers DEF Due
    <3>3. CASE wire'[q] = wire[q] \cup {0}
      <4>1. Budget(link[q]) > MaxDelay - 0
        BY <2>5, <3>1, <3>2, Losses, Numbers
      <4> QED BY <1>4, <2>2, <3>3, <4>1 DEF Covered
    <3>4. CASE lost[q] < MaxLost /\ lost'[q] = lost[q] + 1
      <4>1. Due(q)' = wait'[p] + (MaxLost - (lost[q] + 1)) * LongestWait + MaxDelay
        BY <1>1, <3>4 DEF Due
      <4>2. lost[q] + 1 \in 0 .. MaxLost
        BY <3>1, <3>4, Numbers
      <4>3. (MaxLost - (lost[q] + 1)) * LongestWait + LongestWait
            = (MaxLost - lost[q]) * LongestWait
        BY <3>1, <3>4, Losses
      <4>4. (MaxLost - (lost[q] + 1)) * LongestWait \in Nat
        BY <4>2, Losses
      <4>5. Due(q)' <= Due(q)
        BY <1>2, <3>2, <4>1, <4>3, <4>4, Numbers
      <4>6. Due(q) \in Int /\ Due(q)' \in Int
        BY <1>2, <3>2, <4>1, <4>3, <4>4, Numbers
      <4> QED BY <1>4, <2>2, <2>5, <3>1, <4>5, <4>6 DEF Covered
    <3> QED BY <1>1, <3>3, <3>4 DEF Sent, q, TypeOK
  <2> QED BY <1>4, <2>4, <2>5 DEF Covered
<1> QED BY <1>3, <1>4, Peers

LEMMA TickCovers ==
    ASSUME TypeOK, Tick, NEW r \in Peer, Both(r), Covered(r)
    PROVE  Covered(r)'
<1>1. link[r] \in Link /\ alive[Other(r)] /\ Other(r) \in Peer
  BY Peers, BothUse, LinkTypes DEF TypeOK
<1>2. Budget(link[r])' >= Budget(link[r]) - 1 /\ Budget(link[r])' \in Int /\ Budget(link[r]) \in Int
  <2>1. CASE ~ Silent(link[r])
    <3> DEFINE l == [link[r] EXCEPT !.age = @ + 1]
    <3>1. link'[r] = l
      BY <1>1, <2>1, LinkTypes DEF Tick
    <3>2. l.age = link[r].age + 1 /\ l.heard = link[r].heard
      BY <1>1 DEF Link
    <3> HIDE DEF l
    <3> QED BY <1>1, <3>1, <3>2, LinkTypes, Numbers DEF Budget
  <2>2. CASE Silent(link[r])
    <3>1. link'[r] = link[r]
      BY <2>2 DEF Tick
    <3> QED BY <1>1, <3>1, LinkTypes, Numbers DEF Budget
  <2> QED BY <2>1, <2>2
<1>3. CASE \E a \in wire[r] : Budget(link[r]) > MaxDelay - a
  <2>1. PICK a \in wire[r] : Budget(link[r]) > MaxDelay - a
    BY <1>3
  <2>2. a \in Nat /\ a + 1 \in wire'[r]
    BY DEF Tick, TypeOK
  <2>3. Budget(link[r])' > MaxDelay - (a + 1)
    BY <1>2, <2>1, <2>2, Numbers
  <2> QED BY <2>2, <2>3 DEF Covered
<1>4. CASE Budget(link[r]) > Due(r)
  <2>1. wait[Other(r)] \in Nat /\ wait'[Other(r)] = wait[Other(r)] - 1 /\ lost' = lost
    BY <1>1 DEF Tick, TypeOK
  <2>2. (MaxLost - lost[r]) * LongestWait \in Int
    BY Losses, Numbers DEF TypeOK
  <2>3. Due(r)' = Due(r) - 1 /\ Due(r) \in Int
    BY <2>1, <2>2, Numbers DEF Due
  <2> QED BY <1>2, <1>4, <2>3 DEF Covered
<1> QED BY <1>3, <1>4 DEF Covered

\* A step after which p has no ready maps, or no link, leaves no pair in use.
LEMMA NoPair ==
    ASSUME NEW p \in Peer, ~ InUse(p)', NEW r \in Peer
    PROVE  ~ Both(r)'
BY Peers DEF Both

LEMMA CurrentKept ==
    ASSUME TypeOK, Current, [Next]_vars
    PROVE  Current'
<1>1. ASSUME NEW p \in Peer, Create(p) PROVE Current'
  BY <1>1, LinkTypes DEF Create, Current, TypeOK
<1>2. ASSUME NEW p \in Peer, Connect(p) PROVE Current'
  <2>1. link[p] \in Link /\ life[Other(p)] # -1
    BY <1>2, Peers, LinkTypes, Numbers DEF Connect, TypeOK
  <2> DEFINE l == [link[p] EXCEPT !.addr = life[Other(p)]]
  <2>2. l.here = link[p].here /\ l.addr # -1
    BY <2>1 DEF Link
  <2>3. link' = [link EXCEPT ![p] = l] /\ alive' = alive
    BY <1>2 DEF Connect
  <2> HIDE DEF l
  <2> QED BY <2>2, <2>3 DEF Current, TypeOK
<1>3. ASSUME NEW p \in Peer, MapReady(p) PROVE Current'
  <2>1. link[p] \in Link /\ link[p].addr # -1
    BY <1>3, Peers, LinkTypes, Numbers DEF MapReady, Reaches, TypeOK
  <2> DEFINE l == [link[p] EXCEPT !.maps = TRUE]
  <2>2. l.here = link[p].here /\ l.addr # -1
    BY <2>1 DEF Link
  <2>3. link' = [link EXCEPT ![p] = l] /\ alive' = alive
    BY <1>3 DEF MapReady
  <2> HIDE DEF l
  <2> QED BY <2>2, <2>3 DEF Current, TypeOK
<1>4. ASSUME NEW p \in Peer, MapsGone(p) PROVE Current'
  <2>1. link[p] \in Link
    BY <1>4, LinkTypes DEF MapsGone, TypeOK
  <2> DEFINE l == [link[p] EXCEPT !.maps = FALSE]
  <2>2. l.here = link[p].here /\ l.maps = FALSE
    BY <2>1 DEF Link
  <2>3. link' = [link EXCEPT ![p] = l] /\ alive' = alive
    BY <1>4 DEF MapsGone
  <2> HIDE DEF l
  <2> QED BY <2>2, <2>3 DEF Current, TypeOK
<1>5. ASSUME NEW p \in Peer, Housekeep(p) PROVE Current'
  <2>1. CASE link[p].here /\ ~ Removed(link[p])
    <3>1. link[p] \in Link
      BY <2>1, LinkTypes DEF TypeOK
    <3>2. link' = [link EXCEPT ![p] = Warned(link[p])] /\ alive' = alive
      BY <1>5, <2>1 DEF Housekeep
    <3> QED BY <3>1, <3>2, WarnedKeeps DEF Current, TypeOK
  <2>2. CASE ~ (link[p].here /\ ~ Removed(link[p]))
    <3>1. link' = [link EXCEPT ![p] = NoLink] /\ alive' = alive
      BY <1>5, <2>2, LinkTypes DEF Housekeep, TypeOK
    <3> QED BY <3>1, LinkTypes DEF Current, TypeOK
  <2> QED BY <2>1, <2>2
<1>6. ASSUME NEW p \in Peer, RecvPing(p) PROVE Current'
  <2>1. CASE link[p].here
    <3> DEFINE l == [link[p] EXCEPT !.heard = TRUE, !.age = 0]
    <3>1. link[p] \in Link
      BY <2>1, LinkTypes DEF TypeOK
    <3>2. l.here = link[p].here /\ l.maps = link[p].maps /\ l.addr = link[p].addr
      BY <3>1 DEF Link
    <3>3. link' = [link EXCEPT ![p] = l] /\ alive' = alive
      BY <1>6, <2>1 DEF RecvPing
    <3> HIDE DEF l
    <3> QED BY <3>2, <3>3 DEF Current, TypeOK
  <2>2. CASE ~ link[p].here
    BY <1>6, <2>2 DEF RecvPing, Current
  <2> QED BY <2>1, <2>2
<1>7. ASSUME NEW p \in Peer, Crash(p) PROVE Current'
  BY <1>7, LinkTypes DEF Crash, Ended, Current, TypeOK
<1>8. ASSUME NEW p \in Peer, Leave(p) PROVE Current'
  BY <1>8, LinkTypes DEF Leave, Ended, Current, TypeOK
<1>9. ASSUME NEW p \in Peer, Restart(p) PROVE Current'
  BY <1>9 DEF Restart, Current, TypeOK
<1>10. ASSUME Tick PROVE Current'
  <2>1. ASSUME NEW r \in Peer
        PROVE  /\ link'[r].here = link[r].here /\ link'[r].maps = link[r].maps
               /\ link'[r].addr = link[r].addr
    <3>1. CASE link[r].here /\ ~ Silent(link[r])
      <4>1. link[r] \in Link
        BY <3>1, LinkTypes DEF TypeOK
      <4>2. link'[r] = [link[r] EXCEPT !.age = @ + 1]
        BY <1>10, <3>1 DEF Tick
      <4> QED BY <4>1, <4>2 DEF Link
    <3>2. CASE ~ (link[r].here /\ ~ Silent(link[r]))
      BY <1>10, <3>2 DEF Tick
    <3> QED BY <3>1, <3>2
  <2> QED BY <1>10, <2>1 DEF Tick, Current
<1>11. CASE UNCHANGED vars
  BY <1>11 DEF vars, Current
<1> QED BY <1>1, <1>2, <1>3, <1>4, <1>5, <1>6, <1>7, <1>8, <1>9, <1>10, <1>11 DEF Next

\* A step that leaves the maps, addresses and lives alone leaves the pairs alone.
LEMMA SamePairs ==
    ASSUME alive' = alive, life' = life, NEW r \in Peer,
           \A p \in Peer : /\ link'[p].here = link[p].here /\ link'[p].maps = link[p].maps
                          /\ link'[p].addr = link[p].addr
    PROVE  Both(r)' <=> Both(r)
BY Peers DEF Both, InUse, Reaches

LEMMA CoveredKept ==
    ASSUME TypeOK, ~ LateMaps, InTime, IInv, [Next]_vars, NEW r \in Peer, Both(r)'
    PROVE  Covered(r)'
<1> USE DEF InUse
<1>1. ASSUME NEW p \in Peer, Create(p) PROVE FALSE
  BY <1>1, NoPair, LinkTypes DEF Create, TypeOK
<1>2. ASSUME NEW p \in Peer, Connect(p) PROVE FALSE
  <2>1. link[p] \in Link /\ ~ link[p].maps
    BY <1>2, LinkTypes DEF Connect, IInv, Current, TypeOK
  <2>2. link'[p] = [link[p] EXCEPT !.addr = life[Other(p)]]
    BY <1>2 DEF Connect, TypeOK
  <2> QED BY <2>1, <2>2, NoPair DEF Link
<1>3. ASSUME NEW p \in Peer, MapReady(p) PROVE Covered(r)'
  BY <1>3, MapReadyCovers
<1>4. ASSUME NEW p \in Peer, MapsGone(p) PROVE FALSE
  <2>1. link[p] \in Link
    BY <1>4, LinkTypes DEF MapsGone, TypeOK
  <2>2. link'[p] = [link[p] EXCEPT !.maps = FALSE]
    BY <1>4 DEF MapsGone, TypeOK
  <2> QED BY <2>1, <2>2, NoPair DEF Link
<1>5. ASSUME NEW p \in Peer, Housekeep(p) PROVE Covered(r)'
  <2>1. CASE link[p].here /\ ~ Removed(link[p])
    <3>1. link[p] \in Link
      BY <2>1, LinkTypes DEF TypeOK
    <3>2. link' = [link EXCEPT ![p] = Warned(link[p])] /\ alive' = alive /\ life' = life
      BY <1>5, <2>1 DEF Housekeep
    <3>3. Both(r)
      BY <3>1, <3>2, WarnedKeeps, SamePairs DEF TypeOK
    <3> QED BY <1>5, <3>3, HousekeepCovers DEF IInv
  <2>2. CASE ~ (link[p].here /\ ~ Removed(link[p]))
    <3>1. link'[p] = NoLink
      BY <1>5, <2>2, LinkTypes DEF Housekeep, TypeOK
    <3> QED BY <3>1, LinkTypes, NoPair
  <2> QED BY <2>1, <2>2
<1>6. ASSUME NEW p \in Peer, RecvPing(p) PROVE Covered(r)'
  <2>1. CASE link[p].here
    <3> DEFINE l == [link[p] EXCEPT !.heard = TRUE, !.age = 0]
    <3>1. link[p] \in Link
      BY <2>1, LinkTypes DEF TypeOK
    <3>2. l.here = link[p].here /\ l.maps = link[p].maps /\ l.addr = link[p].addr
      BY <3>1 DEF Link
    <3>3. link' = [link EXCEPT ![p] = l] /\ alive' = alive /\ life' = life
      BY <1>6, <2>1 DEF RecvPing
    <3> HIDE DEF l
    <3>4. Both(r)
      BY <3>2, <3>3, SamePairs DEF TypeOK
    <3> QED BY <1>6, <3>4, RecvPingCovers DEF IInv
  <2>2. CASE ~ link[p].here
    <3>1. link' = link
      BY <1>6, <2>2 DEF RecvPing
    <3> QED BY <2>2, <3>1, NoPair
  <2> QED BY <2>1, <2>2
<1>7. ASSUME NEW p \in Peer, Crash(p) PROVE FALSE
  BY <1>7, NoPair, LinkTypes DEF Crash, Ended, TypeOK
<1>8. ASSUME NEW p \in Peer, Leave(p) PROVE FALSE
  BY <1>8, NoPair, LinkTypes DEF Leave, Ended, TypeOK
<1>9. ASSUME NEW p \in Peer, Restart(p) PROVE FALSE
  BY <1>9, NoPair DEF Restart, IInv, Current
<1>10. ASSUME Tick PROVE Covered(r)'
  <2>1. \A p \in Peer : /\ link'[p].here = link[p].here /\ link'[p].maps = link[p].maps
                        /\ link'[p].addr = link[p].addr
    <3> SUFFICES ASSUME NEW p \in Peer
                 PROVE  /\ link'[p].here = link[p].here /\ link'[p].maps = link[p].maps
                        /\ link'[p].addr = link[p].addr
      OBVIOUS
    <3>1. CASE link[p].here /\ ~ Silent(link[p])
      <4>1. link[p] \in Link
        BY <3>1, LinkTypes DEF TypeOK
      <4>2. link'[p] = [link[p] EXCEPT !.age = @ + 1]
        BY <1>10, <3>1 DEF Tick
      <4> QED BY <4>1, <4>2 DEF Link
    <3>2. CASE ~ (link[p].here /\ ~ Silent(link[p]))
      BY <1>10, <3>2 DEF Tick
    <3> QED BY <3>1, <3>2
  <2>2. Both(r)
    BY <1>10, <2>1, SamePairs DEF Tick
  <2> QED BY <1>10, <2>2, TickCovers DEF IInv
<1>11. CASE UNCHANGED vars
  <2>1. Both(r)
    BY <1>11, SamePairs DEF vars
  <2> QED BY <1>11, <2>1, SameCovered DEF vars, IInv
<1> QED BY <1>1, <1>2, <1>3, <1>4, <1>5, <1>6, <1>7, <1>8, <1>9, <1>10, <1>11 DEF Next

\* No step but its own unmapping or an end of a process takes a used link away.
LEMMA StepKeeps ==
    ASSUME TypeOK, IInv, [Next]_vars
    PROVE  [Kept]_vars
<1> SUFFICES ASSUME Next, NEW p \in Peer, Both(p), ~ MapsGone(p), alive'[p], alive'[Other(p)]
             PROVE  InUse(p)'
  BY DEF Kept, Both
<1> USE DEF InUse
<1>0. link[p] \in Link /\ link[p].here /\ link[p].maps /\ link[p].addr # -1
      /\ alive[p] /\ alive[Other(p)]
  BY BothUse, LinkTypes DEF TypeOK, IInv, Current, Both, Reaches
<1>1. ASSUME link'[p] = link[p] PROVE InUse(p)'
  BY <1>0, <1>1
<1>2. ASSUME NEW q \in Peer, Create(q) PROVE link'[p] = link[p]
  BY <1>0, <1>2 DEF Create, TypeOK
<1>3. ASSUME NEW q \in Peer, Connect(q) PROVE link'[p] = link[p]
  BY <1>0, <1>3 DEF Connect, TypeOK
<1>4. ASSUME NEW q \in Peer, MapReady(q) PROVE link'[p] = link[p]
  BY <1>0, <1>4 DEF MapReady, TypeOK
<1>5. ASSUME NEW q \in Peer, MapsGone(q) PROVE link'[p] = link[p]
  <2>1. q # p
    BY <1>5
  <2> QED BY <1>5, <2>1 DEF MapsGone, TypeOK
<1>6. ASSUME NEW q \in Peer, Housekeep(q) PROVE InUse(p)'
  <2>1. CASE q = p
    <3>1. link'[p] = Warned(link[p])
      BY <1>6, <2>1, HousekeepSteps DEF TypeOK
    <3> QED BY <1>0, <3>1, WarnedKeeps
  <2>2. CASE q # p
    <3>1. link'[p] = link[p]
      BY <1>6, <2>2 DEF Housekeep, TypeOK
    <3> QED BY <3>1, <1>1
  <2> QED BY <2>1, <2>2
<1>7. ASSUME NEW q \in Peer, RecvPing(q) PROVE InUse(p)'
  <2>1. CASE q = p
    <3>1. link'[p] = [link[p] EXCEPT !.heard = TRUE, !.age = 0]
      BY <1>0, <1>7, <2>1 DEF RecvPing, TypeOK
    <3> QED BY <1>0, <3>1 DEF Link
  <2>2. CASE q # p
    <3>1. link'[p] = link[p]
      BY <1>7, <2>2 DEF RecvPing, TypeOK
    <3> QED BY <3>1, <1>1
  <2> QED BY <2>1, <2>2
<1>8. ASSUME NEW q \in Peer, Crash(q) \/ Leave(q) PROVE FALSE
  BY <1>8, Peers DEF Crash, Leave, Ended, TypeOK
<1>9. ASSUME NEW q \in Peer, Restart(q) PROVE link'[p] = link[p]
  BY <1>9 DEF Restart
<1>10. ASSUME Tick PROVE InUse(p)'
  <2>1. CASE ~ Silent(link[p])
    <3>1. link'[p] = [link[p] EXCEPT !.age = @ + 1]
      BY <1>0, <1>10, <2>1 DEF Tick
    <3> QED BY <1>0, <3>1 DEF Link
  <2>2. CASE Silent(link[p])
    <3>1. link'[p] = link[p]
      BY <1>10, <2>2 DEF Tick
    <3> QED BY <3>1, <1>1
  <2> QED BY <2>1, <2>2
<1> QED BY <1>1, <1>2, <1>3, <1>4, <1>5, <1>6, <1>7, <1>8, <1>9, <1>10 DEF Next

\* When the longest wait for a ping fits into the time-outs and maps get ready over
\* fresh links only, a link that both peers use is never removed.
THEOREM UsedLinkStays ==
    ASSUME ~ LateMaps, InTime
    PROVE  Spec => UsedLinkKept
<1>1. Init => IInv
  <2>1. Init => \A r \in Peer : ~ Both(r)
    BY LinkTypes DEF Init, Both, InUse
  <2>2. Init => Current
    BY LinkTypes DEF Init, Current
  <2> QED BY <2>1, <2>2 DEF IInv
<1>2. TypeOK /\ IInv /\ [Next]_vars => IInv'
  BY CurrentKept, CoveredKept DEF IInv
<1>3. TypeOK /\ IInv /\ [Next]_vars => [Kept]_vars
  BY StepKeeps
<1>4. UsedLinkKept <=> [][Kept]_vars
  BY PTL DEF UsedLinkKept, Kept
<1> QED BY <1>1, <1>2, <1>3, <1>4, TypeCorrect, PTL DEF Spec

=============================================================================
