--------------------------- MODULE DiscoveryProofs ---------------------------
(***************************************************************************)
(* Proofs about Discovery: its types, that subscriptions refer to records, *)
(* that a lease never ends while its subscription lasts, and that a device *)
(* which runs is not taken for gone.  The last two hold while no message   *)
(* is lost, for every choice of the times that leaves a margin.            *)
(***************************************************************************)
EXTENDS Discovery, TLAPS

LEMMA Numbers ==
    /\ Lease \in Nat /\ Margin \in Nat /\ Margin < Lease /\ Expiry \in Nat
    /\ LongestWait \in Nat /\ MaxLost \in Nat /\ MaxLife \in Nat /\ MaxCalls \in Nat
    /\ MaxQueue \in Nat
    /\ ShortestWait \in Nat \ {0} /\ SubWait \in Nat \ {0}
BY DiscoveryAssumption

LEMMA Kinds == FlagSets \subseteq SUBSET Kind /\ {} \notin FlagSets
BY DiscoveryAssumption

Msg == Ask \cup {Who}

LEMMA Requests ==
    ASSUME NEW F \in SUBSET Kind, NEW t \in {0, Lease}
    PROVE  /\ Wire(F) \in SUBSET Kind
           /\ Request(F, t) \in Msg
           /\ Request(F, t).flags = Wire(F) /\ Request(F, t).lease = t
<1>1. Wire(F) \in SUBSET Kind
  BY DEF Wire
<1> QED BY <1>1 DEF Request, Ask, Msg

LEMMA Entries ==
    /\ None \in Entry /\ None.flags = {}
    /\ \A F \in SUBSET Kind : /\ Renewed(F) \in Entry /\ Renewed(F).flags = F
                              /\ Renewed(F).left = Lease - Margin
    /\ \A e \in Entry : e.flags \in SUBSET Kind /\ e.left \in -1 .. Lease
    /\ \A e \in Entry, F \in SUBSET Kind : [e EXCEPT !.flags = F] \in Entry
    /\ \A e \in Entry : e.left >= 0 => [e EXCEPT !.left = @ - 1] \in Entry
<1>1. None \in Entry /\ None.flags = {}
  BY Numbers DEF None, Entry
<1>2. \A F \in SUBSET Kind : /\ Renewed(F) \in Entry /\ Renewed(F).flags = F
                             /\ Renewed(F).left = Lease - Margin
  <2>1. Lease - Margin \in -1 .. Lease
    BY Numbers
  <2> QED BY <2>1 DEF Renewed, Entry
<1>3. \A e \in Entry : e.flags \in SUBSET Kind /\ e.left \in -1 .. Lease
  BY DEF Entry
<1>4. \A e \in Entry, F \in SUBSET Kind : [e EXCEPT !.flags = F] \in Entry
  BY DEF Entry
<1>5. ASSUME NEW e \in Entry, e.left >= 0 PROVE [e EXCEPT !.left = @ - 1] \in Entry
  <2>1. e.left - 1 \in -1 .. Lease
    BY <1>5, Numbers DEF Entry
  <2> QED BY <2>1 DEF Entry
<1> QED BY <1>1, <1>2, <1>3, <1>4, <1>5

LEMMA After ==
    ASSUME NEW m \in Ask
    PROVE  /\ EntryAfter(m) \in Entry
           /\ m.flags \in SUBSET Kind /\ m.lease \in {0, Lease}
<1>1. m.flags \in SUBSET Kind /\ m.lease \in {0, Lease} /\ m.lease \in -1 .. Lease
  BY Numbers DEF Ask
<1> QED BY <1>1, Entries DEF EntryAfter, Entry

\* Who is not a request.
LEMMA WhoElse == Who \notin Ask
BY Numbers DEF Who, Ask

LEMMA Posted ==
    ASSUME toDev \in Seq(Msg), NEW s \in Seq(Msg), Post(s)
    PROVE  toDev' = toDev \o s /\ toDev' \in Seq(Msg)
BY DEF Post

\* What the calls and handlers of the graph do to its subscription and the messages.
LEMMA SubscribeToTypes ==
    ASSUME TypeOK, NEW F \in SUBSET Kind, SubscribeTo(F)
    PROVE  sub' \in Entry /\ toDev' \in Seq(Msg)
<1>1. CASE sub.flags = F
  BY <1>1 DEF SubscribeTo, TypeOK, Msg
<1>2. CASE sub.flags # F
  <2>1. sub' = Renewed(F) /\ Post(<<Request(F, Lease)>>)
    BY <1>2 DEF SubscribeTo
  <2>2. <<Request(F, Lease)>> \in Seq(Msg)
    BY Requests
  <2> QED BY <2>1, <2>2, Posted, Entries DEF TypeOK, Msg
<1> QED BY <1>1, <1>2

LEMMA UnsubscribeTypes ==
    ASSUME TypeOK, Unsubscribe
    PROVE  sub' \in Entry /\ toDev' \in Seq(Msg)
<1>1. <<Request({}, 0)>> \in Seq(Msg)
  BY Requests
<1> QED BY <1>1, Posted, Entries DEF Unsubscribe, TypeOK, Msg

LEMMA AutosubKind ==
    ASSUME TypeOK
    PROVE  autosub \in SUBSET Kind /\ sub.flags \in SUBSET Kind /\ {} \in SUBSET Kind
BY Kinds, Entries DEF TypeOK

LEMMA GraphRecvTypes ==
    ASSUME TypeOK, NEW k \in toGraph, GraphRecv(k)
    PROVE  /\ sub' \in Entry /\ toDev' \in Seq(Msg) /\ rec' \in -1 .. Expiry + 1
           /\ autosub' = autosub
<1> USE AutosubKind
<1>0. UNCHANGED <<sub, toDev>> => sub' \in Entry /\ toDev' \in Seq(Msg)
  BY DEF TypeOK, Msg
<1>1. CASE Hear
  <2>1. rec' \in -1 .. Expiry + 1
    BY <1>1, Numbers DEF Hear, Synced, TypeOK
  <2>2. ASSUME Post(<<Request({"dev"}, 0)>>) PROVE toDev' \in Seq(Msg)
    <3>1. <<Request({"dev"}, 0)>> \in Seq(Msg)
      BY Requests DEF Kind
    <3> QED BY <2>2, <3>1, Posted DEF TypeOK, Msg
  <2>3. sub' \in Entry /\ toDev' \in Seq(Msg)
    BY <1>0, <1>1, <2>2, SubscribeToTypes DEF Hear, TypeOK
  <2> QED BY <2>1, <2>3 DEF GraphRecv
<1>2. CASE Learn
  BY <1>0, <1>2, SubscribeToTypes, Numbers DEF Learn, TypeOK, GraphRecv
<1>3. CASE LearnSignal
  BY <1>0, <1>3, Numbers DEF LearnSignal, TypeOK, GraphRecv
<1>4. CASE LogoutHeard
  <2>1. CASE Known
    <3>1. <<Request({}, 0)>> \in Seq(Msg) /\ <<Request({}, 0), Request({}, 0)>> \in Seq(Msg)
      BY Requests
    <3>2. /\ rec' = -1 /\ sub' = None
          /\ Post(<<Request({}, 0)>>) \/ Post(<<Request({}, 0), Request({}, 0)>>)
      BY <1>4, <2>1 DEF LogoutHeard, Forget
    <3>3. toDev' \in Seq(Msg)
      BY <3>1, <3>2, Posted DEF TypeOK, Msg
    <3>4. -1 \in -1 .. Expiry + 1 /\ sub' \in Entry
      BY <3>2, Entries, Numbers
    <3> QED BY <3>2, <3>3, <3>4 DEF GraphRecv
  <2>2. CASE ~ Known
    BY <1>0, <1>4, <2>2, Numbers DEF LogoutHeard, TypeOK, GraphRecv
  <2> QED BY <2>1, <2>2
<1> QED BY <1>1, <1>2, <1>3, <1>4 DEF GraphRecv

------------------------------------------------------------------------------
\* A subscription is renewed before a lease of its own would end.
SubTimed == Subscribed => sub.left >= 0

IInv == TypeOK /\ SubscriptionHasRecord /\ SubTimed

LEMMA SubscribeToKeeps ==
    ASSUME TypeOK, SubTimed, NEW F \in SUBSET Kind, SubscribeTo(F), rec' >= 0
    PROVE  SubscriptionHasRecord' /\ SubTimed'
BY Entries, Numbers DEF SubscribeTo, SubscriptionHasRecord, SubTimed, Subscribed, Known

LEMMA UnsubscribeKeeps ==
    ASSUME Unsubscribe
    PROVE  SubscriptionHasRecord' /\ SubTimed'
BY Entries DEF Unsubscribe, SubscriptionHasRecord, SubTimed, Subscribed

LEMMA DeviceStep ==
    ASSUME IInv, UNCHANGED graph, TypeOK'
    PROVE  IInv'
BY DEF IInv, graph, SubscriptionHasRecord, SubTimed, Subscribed, Known

LEMMA Waits == ShortestWait .. LongestWait \subseteq 0 .. LongestWait
BY Numbers

LEMMA Counting ==
    /\ \A n \in -1 .. Expiry + 1 : n <= Expiry => n + 1 \in -1 .. Expiry + 1
    /\ \A n \in -1 .. Expiry + 1 : n >= 0 => n + 1 >= 0
    /\ \A n \in Nat : \A i \in 0 .. n : Less(i) \in 0 .. n
    /\ LongestWait \in Nat /\ SubWait \in Nat
BY Numbers DEF Less

LEMMA IInvKept ==
    ASSUME IInv, [Next]_vars
    PROVE  IInv'
<1> USE Numbers DEF IInv
<1>0. /\ toDev \in Seq(Msg) /\ entry \in Entry /\ sub \in Entry
      /\ toGraph \subseteq {"sync", "device", "signal", "logout"}
      /\ met \in BOOLEAN /\ autosub \in FlagSets \cup {{}}
  BY DEF TypeOK, Msg
<1>20. /\ up \in -1 .. Expiry + 1 /\ starts \in 0 .. MaxLife /\ rec \in -1 .. Expiry + 1
      /\ busWait \in 0 .. LongestWait /\ subWait \in 0 .. SubWait
      /\ lost \in 0 .. MaxLost /\ calls \in 0 .. MaxCalls
  BY DEF TypeOK
<1>1. CASE Start
  <2>1. /\ up' \in -1 .. Expiry + 1 /\ starts' \in 0 .. MaxLife /\ met' \in BOOLEAN
        /\ busWait' \in 0 .. LongestWait /\ subWait' \in 0 .. SubWait
    <3>1. /\ up' = 0 /\ starts < MaxLife /\ starts' = starts + 1 /\ met' = FALSE
          /\ busWait' \in ShortestWait .. LongestWait /\ subWait' = SubWait
      BY <1>1 DEF Start
    <3>2. busWait' \in 0 .. LongestWait
      BY <3>1, Waits
    <3>3. 0 \in -1 .. Expiry + 1 /\ SubWait \in 0 .. SubWait
      OBVIOUS
    <3>4. starts' \in 0 .. MaxLife
      BY <1>20, <3>1
    <3> QED BY <3>1, <3>2, <3>3, <3>4
  <2>2. toGraph' \subseteq {"sync", "device", "signal", "logout"}
    BY <1>0, <1>1 DEF Start
  <2>3. TypeOK'
    BY <1>1, <2>1, <2>2 DEF Start, TypeOK, graph
  <2> QED BY <1>1, <2>3, DeviceStep DEF Start
<1>2. CASE Crash \/ Leave
  <2>1. Stopped /\ toGraph' \subseteq {"sync", "device", "signal", "logout"}
    BY <1>0, <1>2 DEF Crash, Leave
  <2>2. up' \in -1 .. Expiry + 1 /\ entry' \in Entry /\ toDev' \in Seq(Msg)
    BY <2>1, Entries DEF Stopped
  <2>3. TypeOK'
    BY <2>1, <2>2 DEF Stopped, TypeOK, graph, Msg
  <2> QED BY <2>1, <2>3, DeviceStep DEF Stopped
<1>3. CASE BusSync
  <2>1. TypeOK'
    BY <1>3 DEF BusSync, TypeOK, device, graph
  <2> QED BY <1>3, <2>1, DeviceStep DEF BusSync, graph
<1>4. CASE SubSync
  <2>1. entry' \in Entry /\ toGraph' \subseteq {"sync", "device", "signal", "logout"}
    BY <1>4, Entries DEF SubSync, TypeOK
  <2>2. TypeOK'
    BY <1>4, <2>1 DEF SubSync, TypeOK, graph
  <2> QED BY <1>4, <2>2, DeviceStep DEF SubSync, graph
<1>5. CASE DevRecv
  <2>1. Head(toDev) \in Msg /\ toDev' \in Seq(Msg)
    BY <1>0, <1>5 DEF DevRecv
  <2>2. entry' \in Entry /\ met' \in BOOLEAN
    <3>1. CASE Head(toDev) = Who
      BY <1>5, <3>1 DEF DevRecv, TypeOK
    <3>2. CASE Head(toDev) # Who
      <4>1. Head(toDev) \in Ask
        BY <2>1, <3>2 DEF Msg
      <4>2. entry' = EntryAfter(Head(toDev)) /\ met' = (met \/ Head(toDev).lease > 0)
        BY <1>5, <3>2 DEF DevRecv
      <4> QED BY <4>1, <4>2, After DEF TypeOK
    <3> QED BY <3>1, <3>2
  <2>3. busWait' \in 0 .. LongestWait /\ toGraph' \subseteq {"sync", "device", "signal", "logout"}
    <3>1. \A F : Answer(F) \subseteq {"device", "signal"}
      BY DEF Answer
    <3>2. CASE Head(toDev) = Who
      <4>1. busWait' \in ShortestWait .. LongestWait /\ toGraph' = toGraph \cup {"sync"}
        BY <1>5, <3>2 DEF DevRecv
      <4> QED BY <1>0, <4>1, Waits
    <3>3. CASE Head(toDev) # Who
      BY <1>0, <1>5, <1>20, <3>1, <3>3 DEF DevRecv
    <3> QED BY <3>2, <3>3
  <2>4. TypeOK'
    BY <1>5, <2>1, <2>2, <2>3 DEF DevRecv, TypeOK, graph, Msg
  <2> QED BY <1>5, <2>4, DeviceStep DEF DevRecv, graph
<1>6. CASE DevMisses
  <2>1. TypeOK'
    BY <1>6 DEF DevMisses, TypeOK, device, graph
  <2> QED BY <1>6, <2>1, DeviceStep DEF DevMisses, graph
<1>7. ASSUME NEW k \in Kind, Announce(k) PROVE IInv'
  <2>1. TypeOK'
    BY <1>7 DEF Announce, Call, TypeOK, device, graph
  <2> QED BY <1>7, <2>1, DeviceStep DEF Announce, graph
<1>8. ASSUME NEW F \in FlagSets, Autosubscribe(F) PROVE IInv'
  <2>0. F \in SUBSET Kind
    BY Kinds
  <2> DEFINE wider == Subscribed /\ ~ F \subseteq sub.flags
             s == IF wider THEN <<Request(F, Lease), Who>> ELSE <<Who>>
             u == IF ~ Subscribed THEN sub
                  ELSE IF wider THEN Renewed(F) ELSE [sub EXCEPT !.flags = F]
  <2>1. s \in Seq(Msg)
    <3>1. Request(F, Lease) \in Msg /\ Who \in Msg
      BY <2>0, Requests DEF Msg
    <3> QED BY <3>1
  <2>2. u \in Entry /\ (u = sub \/ Subscribed \/ u.flags = {}) /\ (u.flags # {} => u.left >= 0)
    <3> DEFINE v == [sub EXCEPT !.flags = F]
    <3>1. v \in Entry /\ v.flags = F /\ v.left = sub.left
      BY <1>0, <2>0 DEF Entry
    <3>2. Renewed(F) \in Entry /\ Renewed(F).flags = F /\ Renewed(F).left >= 0
      BY <2>0, Entries
    <3>3. u = sub \/ (u = Renewed(F) /\ Subscribed) \/ (u = v /\ Subscribed)
      OBVIOUS
    <3> HIDE DEF u, v, wider
    <3> QED BY <1>0, <3>1, <3>2, <3>3 DEF SubTimed, Subscribed
  <2>3. (sub' = u /\ Post(s)) \/ UNCHANGED <<sub, toDev>>
    BY <1>8 DEF Autosubscribe
  <2> HIDE DEF s, u, wider
  <2>4. sub' \in Entry /\ toDev' \in Seq(Msg)
    BY <1>0, <2>1, <2>2, <2>3, Posted DEF TypeOK
  <2>5. SubscriptionHasRecord' /\ SubTimed'
    BY <1>8, <2>2, <2>3 DEF Autosubscribe, SubscriptionHasRecord, SubTimed, Subscribed, Known
  <2>6. autosub' \in FlagSets \cup {{}} /\ calls' \in 0 .. MaxCalls
    BY <1>8, <1>20 DEF Autosubscribe, Call
  <2> QED BY <1>8, <2>4, <2>5, <2>6 DEF Autosubscribe, TypeOK, device, Msg
<1>9. CASE EndAutosubscribe
  <2>1. sub' \in Entry /\ toDev' \in Seq(Msg)
    BY <1>0, <1>9, UnsubscribeTypes DEF EndAutosubscribe
  <2>2. SubscriptionHasRecord' /\ SubTimed'
    BY <1>9, UnsubscribeKeeps DEF EndAutosubscribe, SubscriptionHasRecord, SubTimed, Subscribed, Known
  <2> QED BY <1>9, <2>1, <2>2 DEF EndAutosubscribe, Call, TypeOK, device, Msg
<1>10. ASSUME NEW F \in FlagSets, SubscribeOne(F) PROVE IInv'
  <2>1. F \in SUBSET Kind /\ rec' >= 0
    BY <1>10, Kinds DEF SubscribeOne, Known
  <2>2. sub' \in Entry /\ toDev' \in Seq(Msg)
    BY <1>10, <2>1, SubscribeToTypes DEF SubscribeOne
  <2>3. SubscriptionHasRecord' /\ SubTimed'
    BY <1>10, <2>1, SubscribeToKeeps DEF SubscribeOne
  <2> QED BY <1>10, <2>2, <2>3 DEF SubscribeOne, Call, TypeOK, device, Msg
<1>11. CASE UnsubscribeOne
  BY <1>11, UnsubscribeTypes, UnsubscribeKeeps DEF UnsubscribeOne, Call, TypeOK, device, Msg
<1>12. CASE CreateLink
  <2>1. <<Request({"dev"}, 0)>> \in Seq(Msg)
    BY Requests DEF Kind
  <2>2. toDev' \in Seq(Msg)
    BY <1>0, <1>12, <2>1, Posted DEF CreateLink
  <2>3. rec' \in 0 .. Expiry + 1
    BY <1>12 DEF CreateLink, Known, TypeOK
  <2>4. SubscriptionHasRecord' /\ SubTimed'
    BY <1>12, <2>3 DEF CreateLink, SubscriptionHasRecord, SubTimed, Subscribed, Known
  <2> QED BY <1>12, <2>2, <2>3, <2>4 DEF CreateLink, Call, TypeOK, device, Msg
<1>13. ASSUME NEW k \in toGraph, GraphRecv(k) PROVE IInv'
  <2>1. sub' \in Entry /\ toDev' \in Seq(Msg) /\ rec' \in -1 .. Expiry + 1 /\ autosub' = autosub
    BY <1>13, GraphRecvTypes
  <2>2. SubscriptionHasRecord' /\ SubTimed'
    <3>0. autosub \in SUBSET Kind
      BY AutosubKind
    <3>1. CASE Hear
      <4>1. CASE Known /\ ~ Subscribed /\ autosub # {}
        <5>1. rec' = 0 /\ SubscribeTo(autosub)
          BY <3>1, <4>1 DEF Hear, Synced
        <5> QED BY <3>0, <5>1, SubscribeToKeeps
      <4>2. CASE ~ (Known /\ ~ Subscribed /\ autosub # {})
        <5>1. sub' = sub /\ (rec' = rec \/ rec' = 0)
          BY <3>1, <4>2 DEF Hear, Synced
        <5> QED BY <5>1 DEF SubscriptionHasRecord, SubTimed, Subscribed, Known
      <4> QED BY <4>1, <4>2
    <3>2. CASE Learn
      <4>1. CASE ~ Subscribed /\ autosub # {}
        <5>1. rec' = 0 /\ SubscribeTo(autosub)
          BY <3>2, <4>1 DEF Learn
        <5> QED BY <3>0, <5>1, SubscribeToKeeps
      <4>2. CASE ~ (~ Subscribed /\ autosub # {})
        <5>1. sub' = sub /\ (rec' = rec \/ rec' = 0)
          BY <3>2, <4>2 DEF Learn
        <5> QED BY <5>1 DEF SubscriptionHasRecord, SubTimed, Subscribed, Known
      <4> QED BY <4>1, <4>2
    <3>3. CASE LearnSignal
      BY <3>3 DEF LearnSignal, SubscriptionHasRecord, SubTimed, Subscribed, Known
    <3>4. CASE LogoutHeard
      BY <3>4, Entries
      DEF LogoutHeard, Forget, SubscriptionHasRecord, SubTimed, Subscribed, Known
    <3> QED BY <1>13, <3>1, <3>2, <3>3, <3>4 DEF GraphRecv
  <2> QED BY <1>13, <2>1, <2>2 DEF GraphRecv, TypeOK, device, Msg
<1>14. CASE Poll
  <2> DEFINE due == Subscribed /\ sub.left = 0
             again == IF due THEN <<Renewal(sub.flags)>> ELSE <<>>
  <2>0. Renewal(sub.flags) \in Msg /\ Request({}, 0) \in Msg /\ sub.flags \in SUBSET Kind
    BY Requests, AutosubKind DEF Renewal
  <2>1. again \in Seq(Msg) /\ Append(again, Request({}, 0)) \in Seq(Msg)
    BY <2>0
  <2>2. \/ rec' = -1 /\ sub' = None /\ Post(Append(again, Request({}, 0)))
        \/ sub' = Renewed(sub.flags) /\ Post(again) /\ due /\ rec' = rec
    BY <1>14 DEF Poll
  <2> HIDE DEF again, due
  <2>3. toDev' \in Seq(Msg)
    BY <1>0, <2>1, <2>2, Posted
  <2>4. sub' \in Entry /\ rec' \in -1 .. Expiry + 1
    BY <1>20, <2>0, <2>2, Entries
  <2>5. SubscriptionHasRecord' /\ SubTimed'
    BY <2>0, <2>2, Entries DEF SubscriptionHasRecord, SubTimed, Subscribed, Known, due
  <2> QED BY <1>14, <2>3, <2>4, <2>5 DEF Poll, TypeOK, device, Msg
<1>15. CASE Lose
  <2>1. toDev' \in Seq(Msg) /\ toGraph' \subseteq toGraph
    <3>1. toDev # <<>> => Tail(toDev) \in Seq(Msg)
      BY <1>0
    <3> QED BY <1>0, <1>15, <3>1 DEF Lose
  <2>2. TypeOK'
    BY <1>15, <2>1 DEF Lose, TypeOK, device, graph, Msg
  <2> QED BY <1>15, <2>2, DeviceStep DEF Lose, graph
<1>16. CASE Tick
  <2>1. entry' \in Entry
    BY <1>16, Entries DEF Tick, TypeOK
  <2>2. sub' \in Entry /\ sub'.flags = sub.flags /\ (Subscribed => sub'.left >= 0)
    <3>1. CASE Subscribed
      <4>1. sub.left \in Int /\ sub.left > 0
        BY <1>0, <1>16, <3>1, Entries DEF Tick, SubTimed
      <4> DEFINE u == [sub EXCEPT !.left = @ - 1]
      <4>2. sub' = u
        BY <1>16, <3>1 DEF Tick
      <4>3. u \in Entry /\ u.flags = sub.flags /\ u.left = sub.left - 1
        BY <1>0, <4>1, Entries DEF Entry
      <4> HIDE DEF u
      <4> QED BY <4>1, <4>2, <4>3
    <3>2. CASE ~ Subscribed
      BY <1>16, <3>2 DEF Tick, TypeOK
    <3> QED BY <3>1, <3>2
  <2>3. rec' \in -1 .. Expiry + 1 /\ (Known => rec' >= 0)
    <3>1. rec' = IF Known /\ rec <= Expiry THEN rec + 1 ELSE rec
      BY <1>16 DEF Tick
    <3> QED BY <1>20, <3>1, Counting DEF Known
  <2>4. up' \in -1 .. Expiry + 1
    <3>1. up' = IF Alive /\ up <= Expiry THEN up + 1 ELSE up
      BY <1>16 DEF Tick
    <3> QED BY <1>20, <3>1, Counting
  <2>5. busWait' \in 0 .. LongestWait /\ subWait' \in 0 .. SubWait
    <3>1. busWait' = Less(busWait) /\ subWait' = Less(subWait)
      BY <1>16 DEF Tick
    <3> QED BY <1>20, <3>1, Counting
  <2>6. SubscriptionHasRecord' /\ SubTimed'
    BY <2>2, <2>3 DEF SubscriptionHasRecord, SubTimed, Subscribed, Known
  <2> QED BY <1>16, <2>1, <2>2, <2>3, <2>4, <2>5, <2>6 DEF Tick, TypeOK
<1>17. CASE UNCHANGED vars
  BY <1>17, DeviceStep DEF vars, device, graph, TypeOK
<1> QED BY <1>1, <1>2, <1>3, <1>4, <1>5, <1>6, <1>7, <1>8, <1>9, <1>10, <1>11, <1>12, <1>13, <1>14, <1>15, <1>16, <1>17 DEF Next

LEMMA IInvAtStart ==
    ASSUME Init
    PROVE  IInv
<1>1. /\ up \in -1 .. Expiry + 1 /\ rec \in -1 .. Expiry + 1 /\ starts \in 0 .. MaxLife
      /\ busWait \in 0 .. LongestWait /\ subWait \in 0 .. SubWait
      /\ lost \in 0 .. MaxLost /\ calls \in 0 .. MaxCalls
  BY Numbers DEF Init
<1>2. entry \in Entry /\ sub \in Entry /\ ~ Subscribed
  BY Entries DEF Init, Subscribed
<1>3. /\ toDev \in Seq(Ask \cup {Who}) /\ toGraph \subseteq {"sync", "device", "signal", "logout"}
      /\ met \in BOOLEAN /\ autosub \in FlagSets \cup {{}}
  <2>1. /\ toDev = <<>> /\ toGraph = {} /\ met = FALSE /\ autosub \in FlagSets \cup {{}}
    BY DEF Init
  <2>2. toDev \in Seq(Ask \cup {Who})
    BY <2>1
  <2> QED BY <2>1, <2>2
<1>4. TypeOK
  BY <1>1, <1>2, <1>3 DEF TypeOK
<1> QED BY <1>2, <1>4 DEF IInv, SubscriptionHasRecord, SubTimed

LEMMA IInvHolds == Spec => []IInv
BY IInvAtStart, IInvKept, PTL DEF Spec

\* TypeOK holds for any times, losses and calls.
THEOREM TypeCorrect == Spec => []TypeOK
<1>1. IInv => TypeOK
  BY DEF IInv
<1> QED BY <1>1, IInvHolds, PTL

\* No subscription refers to a record that was freed, whatever the order in which the
\* device logs out, falls silent and comes back.
THEOREM SubscriptionsReferToRecords == Spec => []SubscriptionHasRecord
<1>1. IInv => SubscriptionHasRecord
  BY DEF IInv
<1> QED BY <1>1, IInvHolds, PTL

------------------------------------------------------------------------------
\* While nothing got lost, the next message of a device that runs is on its way or comes
\* before the record is too old.
Heard ==
    lost = 0 /\ Alive /\ Known =>
        /\ "sync" \in toGraph \/ rec + busWait <= LongestWait
        /\ up > 0 => rec <= LongestWait

LEMMA Counters ==
    ASSUME TypeOK
    PROVE  /\ lost \in Nat /\ up \in Int /\ rec \in Int /\ busWait \in Nat
           /\ rec >= -1 /\ up >= -1 /\ LongestWait \in Nat /\ Expiry \in Nat
BY Numbers DEF TypeOK

LEMMA HeardKept ==
    ASSUME TypeOK, Heard, [Next]_vars
    PROVE  Heard'
<1>0. /\ lost \in Nat /\ up \in Int /\ rec \in Int /\ busWait \in Nat
      /\ rec >= -1 /\ up >= -1 /\ LongestWait \in Nat
  BY Counters
<1>1. CASE Start
  BY <1>1 DEF Start, Heard, graph, Alive
<1>2. CASE Crash \/ Leave
  BY <1>2 DEF Crash, Leave, Stopped, Alive, Heard
<1>3. CASE BusSync
  BY <1>3 DEF BusSync, Heard, graph, Alive, Known
<1>4. CASE DevRecv
  <2>1. /\ toGraph \subseteq toGraph' /\ (busWait' = busWait \/ "sync" \in toGraph')
        /\ UNCHANGED <<up, rec, lost>>
    BY <1>4 DEF DevRecv, graph
  <2> QED BY <2>1 DEF Heard, Alive, Known
<1>5. CASE SubSync \/ DevMisses \/ (\E k \in Kind : Announce(k))
  <2>1. toGraph \subseteq toGraph' /\ UNCHANGED <<up, busWait, rec, lost>>
    BY <1>5 DEF SubSync, DevMisses, Announce, graph, device
  <2> QED BY <2>1 DEF Heard, Alive, Known
<1>6. CASE (\E F \in FlagSets : Autosubscribe(F) \/ SubscribeOne(F)) \/ EndAutosubscribe
           \/ UnsubscribeOne \/ UNCHANGED vars
  <2>1. UNCHANGED <<up, busWait, rec, lost, toGraph>>
    BY <1>6 DEF Autosubscribe, SubscribeOne, EndAutosubscribe, UnsubscribeOne, vars, device, graph
  <2> QED BY <2>1 DEF Heard, Alive, Known
<1>7. CASE CreateLink \/ Poll
  <2>1. UNCHANGED <<up, busWait, lost, toGraph>> /\ (rec' = rec \/ rec' = -1 \/ (~ Known /\ rec' = 0))
    BY <1>7 DEF CreateLink, Poll, device
  <2>2. busWait <= LongestWait
    BY DEF TypeOK
  <2> QED BY <1>0, <2>1, <2>2 DEF Heard, Alive, Known
<1>8. ASSUME NEW k \in toGraph, GraphRecv(k) PROVE Heard'
  <2>0. busWait <= LongestWait
    BY DEF TypeOK
  <2>1. UNCHANGED <<up, busWait, lost>> /\ toGraph' = toGraph \ {k}
    BY <1>8 DEF GraphRecv, device
  <2>2. CASE k = "sync"
    <3>1. rec' = 0 \/ (~ Known /\ rec' = rec)
      BY <1>8, <2>2 DEF GraphRecv, Hear, Synced
    <3> QED BY <1>0, <2>0, <2>1, <3>1 DEF Heard, Alive, Known
  <2>3. CASE k # "sync"
    <3>1. rec' = rec \/ rec' = -1 \/ rec' = 0
      BY <1>8, <2>3 DEF GraphRecv, Learn, LearnSignal, LogoutHeard, Forget
    <3> QED BY <1>0, <2>0, <2>1, <2>3, <3>1 DEF Heard, Alive, Known
  <2> QED BY <2>2, <2>3
<1>9. CASE Lose
  BY <1>0, <1>9 DEF Lose, Heard
<1>10. CASE Tick
  <2>1. /\ toGraph = {} /\ lost' = lost /\ (Alive => busWait > 0)
        /\ busWait' = Less(busWait)
        /\ up' = (IF Alive /\ up <= Expiry THEN up + 1 ELSE up)
        /\ rec' = (IF Known /\ rec <= Expiry THEN rec + 1 ELSE rec)
    BY <1>10 DEF Tick
  <2>2. ASSUME lost' = 0, Alive', Known' PROVE rec' + busWait' <= LongestWait /\ rec' <= LongestWait
    <3>1. Alive /\ Known
      BY <1>0, <2>1, <2>2, Numbers DEF Alive, Known
    <3>2. rec + busWait <= LongestWait /\ busWait > 0
      BY <2>1, <2>2, <3>1 DEF Heard
    <3>3. busWait' = busWait - 1
      BY <1>0, <2>1, <3>2 DEF Less
    <3>4. rec' = rec \/ rec' = rec + 1
      BY <2>1
    <3>5. rec' + busWait' <= rec + busWait /\ rec' <= rec' + busWait' /\ rec' + busWait' \in Int
      BY <1>0, <3>2, <3>3, <3>4
    <3>6. rec + busWait \in Int /\ rec' \in Int
      BY <1>0, <3>4
    <3> QED BY <1>0, <3>2, <3>5, <3>6
  <2> QED BY <2>2 DEF Heard
<1> QED BY <1>1, <1>2, <1>3, <1>4, <1>5, <1>6, <1>7, <1>8, <1>9, <1>10 DEF Next

\* If the time a record lasts is not shorter than the longest wait between two /sync
\* messages on the bus, a device that runs is dropped only when it was said to log out,
\* unless a message got lost: 10 s against 8 s in the code.
THEOREM NotTakenForGone ==
    ASSUME LongestWait <= Expiry
    PROVE  Spec => KeptWhileAlive
<1>1. Init => TypeOK /\ Heard
  <2>1. Init => TypeOK
    BY IInvAtStart DEF IInv
  <2>2. Init => up = -1
    BY DEF Init
  <2>3. up = -1 => Heard
    BY DEF Heard, Alive
  <2> QED BY <2>1, <2>2, <2>3
<1>2. TypeOK /\ Heard /\ [Next]_vars => Heard'
  BY HeardKept
<1>3. ASSUME TypeOK, Heard, [Next]_vars
      PROVE  [up > 0 /\ lost = 0 /\ Known => rec' # -1 \/ "logout" \in toGraph]_vars
  <2> SUFFICES ASSUME up > 0, lost = 0, Known, rec' = -1, "logout" \notin toGraph,
                      ~ UNCHANGED vars
               PROVE  FALSE
    OBVIOUS
  <2>0. rec \in Int /\ up \in Int /\ LongestWait \in Int /\ Expiry \in Int
    BY <1>3, Counters
  <2>1. rec' # rec /\ rec >= 0
    BY DEF Known
  <2>2. CASE Poll
    <3>1. rec > Expiry
      BY <2>1, <2>2 DEF Poll, Silent
    <3>2. rec <= LongestWait
      <4>1. up >= 0
        BY <2>0
      <4> QED BY <1>3, <4>1 DEF Heard, Alive
    <3> QED BY <2>0, <3>1, <3>2
  <2>3. ASSUME NEW k \in toGraph, GraphRecv(k) PROVE FALSE
    BY <2>1, <2>3 DEF GraphRecv, Hear, Synced, Learn, LearnSignal, LogoutHeard
  <2>4. CASE Tick
    <3>1. rec' = (IF Known /\ rec <= Expiry THEN rec + 1 ELSE rec)
      BY <2>4 DEF Tick
    <3> QED BY <2>0, <2>1, <3>1
  <2>5. CASE CreateLink
    BY <2>1, <2>5 DEF CreateLink
  <2>6. CASE Start \/ Crash \/ Leave \/ BusSync \/ SubSync \/ DevRecv \/ DevMisses
    BY <2>1, <2>6 DEF Start, Crash, Leave, Stopped, BusSync, SubSync, DevRecv, DevMisses, graph
  <2>7. CASE (\E j \in Kind : Announce(j)) \/ EndAutosubscribe \/ UnsubscribeOne \/ Lose
             \/ (\E F \in FlagSets : Autosubscribe(F) \/ SubscribeOne(F))
    BY <2>1, <2>7
    DEF Announce, EndAutosubscribe, UnsubscribeOne, Lose, Autosubscribe, SubscribeOne, graph
  <2> QED BY <1>3, <2>2, <2>3, <2>4, <2>5, <2>6, <2>7 DEF Next
<1>4. Spec => []TypeOK
  BY TypeCorrect
<1>5. Spec => []Heard
  BY <1>1, <1>2, <1>4, PTL DEF Spec
<1> QED BY <1>3, <1>4, <1>5, PTL DEF Spec, KeptWhileAlive

------------------------------------------------------------------------------
\* Request m asks for what a subscription with flags F stands for.
Covers(m, F) == m # Who /\ m.lease = Lease /\ Wire(F) \subseteq m.flags

\* Request i of queue q asks for it (i = 0: none needs to), and none after it ends it.
From(i, q, F) ==
    /\ i \in 0 .. Len(q)
    /\ \A j \in 1 .. Len(q) : j > i => q[j] = Who \/ Covers(q[j], F)
    /\ i > 0 => Covers(q[i], F)

\* The device has what was asked for, for as long as the graph thinks.
HeldAsLong == Alive /\ met => Held /\ entry.left >= sub.left

AskedFor ==
    /\ sub.flags \in FlagSets \cup {{}}
    /\ lost = 0 /\ Subscribed =>
           \E i \in Nat : From(i, toDev, sub.flags) /\ (i = 0 => HeldAsLong)

LEMMA WireGrows ==
    ASSUME NEW F \in SUBSET Kind, NEW G \in SUBSET Kind, F \subseteq G
    PROVE  Wire(F) \subseteq Wire(G)
BY DEF Wire

LEMMA RequestCovers ==
    ASSUME NEW F \in SUBSET Kind
    PROVE  Covers(Request(F, Lease), F)
<1>1. Request(F, Lease).flags = Wire(F) /\ Request(F, Lease).lease = Lease
  BY DEF Request
<1>2. Who.lease = -1 /\ Lease # -1
  BY Numbers DEF Who
<1> QED BY <1>1, <1>2 DEF Covers

LEMMA AppendRequest ==
    ASSUME NEW q \in Seq(Msg), NEW F, NEW m \in Msg, Covers(m, F)
    PROVE  /\ From(Len(q) + 1, q \o <<m>>, F)
           /\ From(Len(q) + 1, q \o <<m, Who>>, F)
<1>1. Len(q) \in Nat
  OBVIOUS
<1>2. /\ Len(q \o <<m>>) = Len(q) + 1
      /\ (q \o <<m>>)[Len(q) + 1] = m
  OBVIOUS
<1>3. Who \in Msg
  BY DEF Msg
<1>4. /\ Len(q \o <<m, Who>>) = Len(q) + 2
      /\ (q \o <<m, Who>>)[Len(q) + 1] = m
      /\ (q \o <<m, Who>>)[Len(q) + 2] = Who
  BY <1>3
<1>5. From(Len(q) + 1, q \o <<m>>, F)
  BY <1>1, <1>2 DEF From
<1>6. \A j \in 1 .. Len(q) + 2 : j > Len(q) + 1 => j = Len(q) + 2
  BY <1>1
<1> QED BY <1>1, <1>4, <1>5, <1>6 DEF From

LEMMA Weaken ==
    ASSUME NEW q \in Seq(Msg), NEW i, NEW F, NEW G, From(i, q, F), Wire(G) \subseteq Wire(F)
    PROVE  /\ From(i, q, G)
           /\ From(i, q \o <<>>, G)
           /\ From(i, q \o <<Who>>, G)
<1>1. From(i, q, G)
  BY DEF From, Covers
<1>2. q \o <<>> = q
  OBVIOUS
<1>3. Who \in Msg
  BY DEF Msg
<1> DEFINE r == q \o <<Who>>
<1>4. Len(r) = Len(q) + 1 /\ r[Len(q) + 1] = Who /\ \A j \in 1 .. Len(q) : r[j] = q[j]
  BY <1>3
<1>5. Len(q) \in Nat
  OBVIOUS
<1>6. \A j \in 1 .. Len(q) + 1 : j = Len(q) + 1 \/ j \in 1 .. Len(q)
  BY <1>5
<1>7. i \in 0 .. Len(q) + 1 /\ (i > 0 => i \in 1 .. Len(q))
  BY <1>1, <1>5 DEF From
<1> HIDE DEF r
<1>8. From(i, r, G)
  BY <1>1, <1>4, <1>6, <1>7 DEF From
<1> QED BY <1>1, <1>2, <1>8 DEF r

LEMMA Received ==
    ASSUME NEW q \in Seq(Msg), q # <<>>, NEW i, NEW F, From(i, q, F)
    PROVE  /\ i > 1 => From(i - 1, Tail(q), F)
           /\ i <= 1 => From(0, Tail(q), F)
           /\ i = 0 => Head(q) = Who \/ Covers(Head(q), F)
           /\ i = 1 => Covers(Head(q), F)
<1> DEFINE r == Tail(q)
<1>1. /\ Len(q) \in Nat /\ Len(q) >= 1 /\ Len(r) = Len(q) - 1 /\ Head(q) = q[1]
      /\ \A j \in 1 .. Len(r) : r[j] = q[j + 1]
  OBVIOUS
<1>2. i \in 0 .. Len(q)
  BY DEF From
<1> HIDE DEF r
<1>3. \A j \in 1 .. Len(r) : j + 1 \in 1 .. Len(q)
  BY <1>1
<1>4. ASSUME i > 1 PROVE From(i - 1, r, F)
  <2>1. i - 1 \in 1 .. Len(r) /\ (i - 1) + 1 = i
    BY <1>1, <1>2, <1>4
  <2>2. ASSUME NEW j \in 1 .. Len(r), j > i - 1 PROVE r[j] = Who \/ Covers(r[j], F)
    <3>1. j + 1 > i
      BY <1>1, <1>2, <2>2
    <3> QED BY <1>1, <1>3, <3>1 DEF From
  <2>3. Covers(r[i - 1], F)
    BY <1>1, <1>4, <2>1 DEF From
  <2> QED BY <2>1, <2>2, <2>3, <1>1 DEF From
<1>5. ASSUME i <= 1 PROVE From(0, r, F)
  <2>1. ASSUME NEW j \in 1 .. Len(r) PROVE r[j] = Who \/ Covers(r[j], F)
    <3>1. j + 1 > i
      BY <1>1, <1>2, <1>5
    <3> QED BY <1>1, <1>3, <3>1 DEF From
  <2> QED BY <2>1, <1>1 DEF From
<1>6. 1 \in 1 .. Len(q)
  BY <1>1
<1>7. i = 0 => Head(q) = Who \/ Covers(Head(q), F)
  BY <1>1, <1>6 DEF From
<1>8. i = 1 => Covers(Head(q), F)
  BY <1>1, <1>6 DEF From
<1> QED BY <1>4, <1>5, <1>7, <1>8 DEF r

\* What the program may do to its subscription.
Ended == ~ Subscribed'

AskedAgain ==
    \E F \in FlagSets : /\ sub' = Renewed(F)
                        /\ \/ toDev' = toDev \o <<Request(F, Lease)>>
                           \/ toDev' = toDev \o <<Request(F, Lease), Who>>

Narrowed ==
    /\ Subscribed
    /\ sub'.flags \in FlagSets \cup {{}} /\ sub'.flags \subseteq sub.flags /\ sub'.left = sub.left
    /\ toDev' = toDev \/ toDev' = toDev \o <<>> \/ toDev' = toDev \o <<Who>>

LEMMA GraphStep ==
    ASSUME TypeOK, AskedFor, UNCHANGED <<up, met, entry, lost>>, Ended \/ AskedAgain \/ Narrowed
    PROVE  AskedFor'
<1>0. toDev \in Seq(Msg) /\ sub.flags \in SUBSET Kind /\ FlagSets \subseteq SUBSET Kind
  BY Kinds, Entries DEF TypeOK, Msg
<1>1. CASE Ended
  BY <1>1 DEF Ended, AskedFor, Subscribed
<1>2. ASSUME NEW F \in FlagSets, sub' = Renewed(F),
             \/ toDev' = toDev \o <<Request(F, Lease)>>
             \/ toDev' = toDev \o <<Request(F, Lease), Who>>
      PROVE  AskedFor'
  <2>1. Request(F, Lease) \in Msg /\ Covers(Request(F, Lease), F)
    BY <1>0, Requests, RequestCovers
  <2>2. From(Len(toDev) + 1, toDev', F)
    BY <1>0, <1>2, <2>1, AppendRequest
  <2>3. Len(toDev) + 1 \in Nat /\ Len(toDev) + 1 # 0
    BY <1>0
  <2>4. sub'.flags = F
    BY <1>0, <1>2, Entries
  <2> QED BY <2>2, <2>3, <2>4 DEF AskedFor
<1>3. CASE Narrowed
  <2>1. Subscribed /\ sub'.flags \in FlagSets \cup {{}} /\ sub'.flags \subseteq sub.flags
        /\ sub'.left = sub.left
    BY <1>3 DEF Narrowed
  <2>2. Wire(sub'.flags) \subseteq Wire(sub.flags)
    <3>1. sub'.flags \in SUBSET Kind
      BY <1>0, <2>1
    <3> QED BY <1>0, <2>1, <3>1, WireGrows
  <2>3. ASSUME lost' = 0
        PROVE  \E i \in Nat : From(i, toDev', sub'.flags) /\ (i = 0 => HeldAsLong')
    <3>1. PICK i \in Nat : From(i, toDev, sub.flags) /\ (i = 0 => HeldAsLong)
      BY <2>1, <2>3 DEF AskedFor
    <3>2. From(i, toDev', sub'.flags)
      <4>1. /\ From(i, toDev, sub'.flags)
            /\ From(i, toDev \o <<>>, sub'.flags)
            /\ From(i, toDev \o <<Who>>, sub'.flags)
        BY <1>0, <2>2, <3>1, Weaken
      <4> QED BY <1>3, <4>1 DEF Narrowed
    <3>3. HeldAsLong => HeldAsLong'
      BY <2>1, <2>2 DEF HeldAsLong, Held, Live, Alive
    <3> QED BY <3>1, <3>2, <3>3
  <2> QED BY <2>1, <2>3 DEF AskedFor
<1> QED BY <1>1, <1>2, <1>3 DEF AskedAgain

LEMMA SubscribeToStep ==
    ASSUME TypeOK, AskedFor, NEW F \in FlagSets, SubscribeTo(F)
    PROVE  Ended \/ AskedAgain \/ Narrowed
BY Kinds DEF SubscribeTo, Post, Ended, AskedAgain, Narrowed, AskedFor, Subscribed

LEMMA UnsubscribeStep ==
    ASSUME Unsubscribe
    PROVE  Ended
BY Entries DEF Unsubscribe, Ended, Subscribed

\* Steps in which the messages of the graph and its subscription stay the same.
LEMMA OtherStep ==
    ASSUME AskedFor, UNCHANGED <<sub, toDev>>, lost' = 0 => lost = 0, Subscribed /\ HeldAsLong => HeldAsLong'
    PROVE  AskedFor'
BY DEF AskedFor, Subscribed

LEMMA DevRecvStep ==
    ASSUME TypeOK, AskedFor, DevRecv, \A F \in FlagSets : Wire(F) # {}
    PROVE  AskedFor'
<1> DEFINE q == toDev
           F == sub.flags
<1>0. q \in Seq(Msg) /\ F \in SUBSET Kind /\ sub.left \in -1 .. Lease
  BY Entries DEF TypeOK, Msg
<1>1. q # <<>> /\ toDev' = Tail(q) /\ UNCHANGED <<up, sub, lost>>
  BY DEF DevRecv, graph
<1>2. ASSUME lost = 0, Subscribed
      PROVE  \E i \in Nat : From(i, Tail(q), F) /\ (i = 0 => HeldAsLong')
  <2>1. PICK i \in Nat : From(i, q, F) /\ (i = 0 => HeldAsLong)
    BY <1>2 DEF AskedFor
  <2> HIDE DEF q, F
  <2>2. CASE i > 1
    <3>1. From(i - 1, Tail(q), F) /\ i - 1 \in Nat /\ i - 1 # 0
      BY <1>0, <1>1, <2>1, <2>2, Received
    <3> QED BY <3>1
  <2>3. CASE i <= 1
    <3>1. /\ From(0, Tail(q), F)
          /\ Covers(Head(q), F) \/ (i = 0 /\ Head(q) = Who)
      BY <1>0, <1>1, <2>1, <2>3, Received
    <3>2. CASE Covers(Head(q), F)
      <4>1. entry' = EntryAfter(Head(q))
        BY <3>2 DEF DevRecv, Covers, q
      <4>2. F # {} /\ Wire(F) # {}
        BY <1>2 DEF AskedFor, Subscribed, F
      <4>3. Head(q).flags # {} /\ Head(q).lease = Lease /\ Lease # 0 /\ Wire(F) \subseteq Head(q).flags
        BY <3>2, <4>2, Numbers DEF Covers
      <4>4. entry'.flags = Head(q).flags /\ entry'.left = Lease
        BY <4>1, <4>3 DEF EntryAfter
      <4>5. Lease >= 0 /\ Lease >= sub.left
        BY <1>0, Numbers
      <4>6. HeldAsLong'
        BY <1>1, <4>3, <4>4, <4>5 DEF HeldAsLong, Held, Live, F
      <4> QED BY <3>1, <4>6
    <3>3. CASE i = 0 /\ Head(q) = Who
      <4>1. UNCHANGED <<entry, met>>
        BY <3>3 DEF DevRecv, q
      <4>2. HeldAsLong'
        BY <1>1, <2>1, <3>3, <4>1 DEF HeldAsLong, Held, Live, Alive
      <4> QED BY <3>1, <4>2
    <3> QED BY <3>1, <3>2, <3>3
  <2> QED BY <2>1, <2>2, <2>3
<1> QED BY <1>1, <1>2 DEF AskedFor, Subscribed

LEMMA AskedForKept ==
    ASSUME IInv, AskedFor, [Next]_vars, ~ LinkToSubscribed, \A F \in FlagSets : Wire(F) # {}
    PROVE  AskedFor'
<1>0. /\ TypeOK /\ SubscriptionHasRecord /\ SubTimed /\ sub.flags \in FlagSets \cup {{}}
      /\ sub.left \in -1 .. Lease /\ entry.left \in -1 .. Lease
  BY Entries DEF IInv, AskedFor, TypeOK
<1>1. CASE Start \/ DevMisses \/ Crash \/ Leave
  <2>1. CASE Start
    BY <2>1, OtherStep DEF Start, graph, HeldAsLong
  <2>2. CASE Crash \/ Leave \/ DevMisses
    <3>1. ~ Alive' /\ UNCHANGED <<sub, lost>> /\ toDev' = <<>>
      BY <2>2 DEF Crash, Leave, Stopped, DevMisses, graph, device, Alive
    <3>2. From(0, toDev', sub.flags) /\ HeldAsLong'
      BY <3>1 DEF From, HeldAsLong
    <3> QED BY <1>0, <3>1, <3>2 DEF AskedFor
  <2> QED BY <1>1, <2>1, <2>2
<1>2. CASE BusSync \/ (\E k \in Kind : Announce(k)) \/ UNCHANGED vars
  BY <1>2, OtherStep
  DEF BusSync, Announce, vars, device, graph, HeldAsLong, Held, Live, Alive
<1>3. CASE SubSync
  BY <1>3, OtherStep DEF SubSync, graph, HeldAsLong, Held, Live, Alive
<1>4. CASE DevRecv
  BY <1>0, <1>4, DevRecvStep
<1>5. ASSUME NEW F \in FlagSets, Autosubscribe(F) PROVE AskedFor'
  <2>0. UNCHANGED <<up, met, entry, lost>>
    BY <1>5 DEF Autosubscribe, device
  <2>1. CASE ~ Subscribed
    BY <1>5, <2>1 DEF Autosubscribe, AskedFor, Subscribed
  <2>2. CASE Subscribed /\ UNCHANGED <<sub, toDev>>
    <3>1. Narrowed
      BY <1>0, <2>2 DEF Narrowed
    <3> QED BY <1>0, <2>0, <3>1, GraphStep
  <2>3. CASE Subscribed /\ ~ UNCHANGED <<sub, toDev>> /\ ~ F \subseteq sub.flags
    <3>1. sub' = Renewed(F) /\ Post(<<Request(F, Lease), Who>>)
      BY <1>5, <2>3 DEF Autosubscribe
    <3>2. AskedAgain
      BY <3>1 DEF AskedAgain, Post
    <3> QED BY <1>0, <2>0, <3>2, GraphStep
  <2>4. CASE Subscribed /\ ~ UNCHANGED <<sub, toDev>> /\ F \subseteq sub.flags
    <3>1. sub' = [sub EXCEPT !.flags = F] /\ Post(<<Who>>)
      BY <1>5, <2>4 DEF Autosubscribe
    <3>2. sub'.flags = F /\ sub'.left = sub.left
      BY <1>0, <3>1 DEF TypeOK, Entry
    <3>3. Narrowed
      BY <2>4, <3>1, <3>2 DEF Narrowed, Post
    <3> QED BY <1>0, <2>0, <3>3, GraphStep
  <2> QED BY <2>1, <2>2, <2>3, <2>4
<1>6. CASE EndAutosubscribe \/ UnsubscribeOne \/ CreateLink
  <2>1. UNCHANGED <<up, met, entry, lost>>
    BY <1>6 DEF EndAutosubscribe, UnsubscribeOne, CreateLink, device
  <2>2. Ended
    BY <1>6, UnsubscribeStep DEF EndAutosubscribe, UnsubscribeOne, CreateLink, Ended, Subscribed
  <2> QED BY <1>0, <2>1, <2>2, GraphStep
<1>7. ASSUME NEW F \in FlagSets, SubscribeOne(F) PROVE AskedFor'
  <2>1. UNCHANGED <<up, met, entry, lost>> /\ SubscribeTo(F)
    BY <1>7 DEF SubscribeOne, device
  <2> QED BY <1>0, <2>1, SubscribeToStep, GraphStep
<1>8. ASSUME NEW k \in toGraph, GraphRecv(k) PROVE AskedFor'
  <2>1. UNCHANGED <<up, met, entry, lost>>
    BY <1>8 DEF GraphRecv, device
  <2>2. \/ autosub \in FlagSets /\ SubscribeTo(autosub)
        \/ UNCHANGED <<sub, toDev>>
        \/ ~ Known /\ UNCHANGED sub
        \/ sub' = None
    BY <1>0, <1>8 DEF GraphRecv, Hear, Learn, LearnSignal, LogoutHeard, Forget, TypeOK
  <2>3. CASE autosub \in FlagSets /\ SubscribeTo(autosub)
    <3>1. Ended \/ AskedAgain \/ Narrowed
      BY <1>0, <2>3, SubscribeToStep
    <3> QED BY <1>0, <2>1, <3>1, GraphStep
  <2>4. CASE UNCHANGED <<sub, toDev>>
    BY <2>1, <2>4, OtherStep DEF HeldAsLong, Held, Live, Alive
  <2>5. CASE ~ Known /\ UNCHANGED sub
    <3>1. Ended
      BY <1>0, <2>5 DEF Ended, SubscriptionHasRecord, Subscribed
    <3> QED BY <1>0, <2>1, <3>1, GraphStep
  <2>6. CASE sub' = None
    <3>1. Ended
      BY <2>6, Entries DEF Ended, Subscribed
    <3> QED BY <1>0, <2>1, <3>1, GraphStep
  <2> QED BY <2>2, <2>3, <2>4, <2>5, <2>6
<1>9. CASE Poll
  <2>1. UNCHANGED <<up, met, entry, lost>>
    BY <1>9 DEF Poll, device
  <2>2. CASE Silent
    <3>1. Ended
      BY <1>9, <2>2, Entries DEF Poll, Ended, Subscribed
    <3> QED BY <1>0, <2>1, <3>1, GraphStep
  <2>3. CASE ~ Silent
    <3>1. /\ Subscribed /\ sub' = Renewed(sub.flags)
          /\ Post(<<Request(sub.flags, Lease)>>)
      BY <1>9, <2>3 DEF Poll, Renewal
    <3>2. sub.flags \in FlagSets
      BY <1>0, <3>1 DEF Subscribed
    <3>3. AskedAgain
      BY <3>1, <3>2 DEF AskedAgain, Post
    <3> QED BY <1>0, <2>1, <3>3, GraphStep
  <2> QED BY <2>2, <2>3
<1>10. CASE Lose
  <2>1. lost' # 0 /\ UNCHANGED sub
    BY <1>10, Counters, <1>0 DEF Lose, graph
  <2> QED BY <1>0, <2>1 DEF AskedFor
<1>11. CASE Tick
  <2>1. /\ toDev' = toDev /\ toDev = <<>> /\ lost' = lost /\ met' = met
        /\ ~ (Subscribed /\ sub.left = 0)
        /\ up' = (IF Alive /\ up <= Expiry THEN up + 1 ELSE up)
        /\ entry' = (IF entry.left >= 0 THEN [entry EXCEPT !.left = @ - 1] ELSE entry)
        /\ sub' = (IF Subscribed THEN [sub EXCEPT !.left = @ - 1] ELSE sub)
    BY <1>11 DEF Tick
  <2>2. sub'.flags = sub.flags /\ (Subscribed => sub'.left = sub.left - 1)
    BY <1>0, <2>1 DEF TypeOK, Entry
  <2>3. entry'.flags = entry.flags /\ (entry.left >= 0 => entry'.left = entry.left - 1)
    BY <1>0, <2>1 DEF TypeOK, Entry
  <2>4. Alive' => Alive
    BY <1>0, <2>1, Counters DEF Alive
  <2>5. ASSUME lost = 0, Subscribed PROVE From(0, toDev, sub.flags) /\ HeldAsLong'
    <3>1. PICK i \in Nat : From(i, toDev, sub.flags) /\ (i = 0 => HeldAsLong)
      BY <2>5 DEF AskedFor
    <3>2. i = 0
      BY <2>1, <3>1 DEF From
    <3>3. ASSUME Alive, met PROVE Held' /\ entry'.left >= sub'.left
      <4>1. Held /\ entry.left >= sub.left
        BY <3>1, <3>2, <3>3 DEF HeldAsLong
      <4>2. sub.left > 0
        BY <1>0, <2>1, <2>5 DEF SubTimed
      <4>3. entry.left > 0
        BY <1>0, <4>1, <4>2
      <4>4. entry'.left = entry.left - 1 /\ sub'.left = sub.left - 1
        BY <1>0, <2>2, <2>3, <2>5, <4>3
      <4>5. entry'.left >= 0 /\ entry'.left >= sub'.left
        BY <1>0, <4>1, <4>3, <4>4
      <4> QED BY <2>2, <2>3, <4>1, <4>5 DEF Held, Live
    <3> QED BY <2>1, <2>4, <3>1, <3>2, <3>3 DEF HeldAsLong
  <2> QED BY <1>0, <2>1, <2>2, <2>5 DEF AskedFor, Subscribed
<1> QED BY <1>1, <1>2, <1>3, <1>4, <1>5, <1>6, <1>7, <1>8, <1>9, <1>10, <1>11 DEF Next

\* In a program that creates no links, and whose flags say something to the receiver, the
\* lease of a subscription never ends at the device before the program ends it, for every
\* lease that is renewed by some margin, unless a message got lost.
THEOREM LeaseNeverEnds ==
    ASSUME ~ LinkToSubscribed, \A F \in FlagSets : Wire(F) # {}
    PROVE  Spec => []SubscriptionHeld
<1>1. Init => AskedFor
  BY Entries DEF Init, AskedFor, Subscribed
<1>2. IInv /\ AskedFor /\ [Next]_vars => AskedFor'
  BY AskedForKept
<1>3. IInv /\ AskedFor => SubscriptionHeld
  <2> SUFFICES ASSUME AskedFor, Alive, met, lost = 0, Subscribed, toDev = <<>>
               PROVE  Held
    BY DEF SubscriptionHeld
  <2>1. PICK i \in Nat : From(i, toDev, sub.flags) /\ (i = 0 => HeldAsLong)
    BY DEF AskedFor
  <2>2. i = 0
    BY <2>1 DEF From
  <2> QED BY <2>1, <2>2 DEF HeldAsLong
<1> QED BY <1>1, <1>2, <1>3, IInvHolds, PTL DEF Spec

=============================================================================
