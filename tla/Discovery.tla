------------------------------ MODULE Discovery ------------------------------
(***************************************************************************)
(* How a graph finds a device, subscribes to it and notices that it went.  *)
(* The device announces itself with /sync; a graph that subscribes to      *)
(* everything asks who it is, keeps a record of it, and subscribes for a   *)
(* lease that it renews in time.  A record is dropped, and its             *)
(* subscription cancelled, when the device logs out or stays silent.       *)
(*                                                                         *)
(* Times are in ticks.  Messages arrive or are lost within a tick; those   *)
(* of the graph keep their order, those of the device need not.            *)
(***************************************************************************)
EXTENDS Integers, Sequences

CONSTANTS
    FlagSets,           \* the kinds of information a program may subscribe to
    Lease,              \* AUTOSUB_INTERVAL
    Margin,             \* how long before its end a lease is renewed
    Expiry,             \* TIMEOUT_SEC
    ShortestWait, LongestWait,    \* between two /sync messages on the bus
    SubWait,            \* between two /sync messages to subscribers
    LinkToSubscribed,   \* TRUE: the program also creates links to a device it subscribes to
    MaxLost,            \* bound: messages that get lost
    MaxLife,            \* bound: how often the device starts again
    MaxQueue,           \* bound: messages of the graph under way
    MaxCalls            \* bound: calls and changes of the applications in a tick

Kind == {"dev", "sig_in", "sig_out", "map_in", "map_out"}

ASSUME DiscoveryAssumption ==
    /\ FlagSets \subseteq (SUBSET Kind) \ {{}}
    /\ {Lease, Margin, Expiry, LongestWait, MaxLost, MaxLife, MaxQueue, MaxCalls} \subseteq Nat
    /\ {ShortestWait, SubWait} \subseteq Nat \ {0}
    /\ Margin < Lease
    /\ LinkToSubscribed \in BOOLEAN

VARIABLES
    \* The device.
    up,        \* ticks since it was registered, -1: it does not run
    starts,    \* how often it was started
    entry,     \* the graph's entry in dev->subscribers
    met,       \* history: the present process got a subscription of the graph
    busWait, subWait,    \* ticks before net->next_bus_ping and net->next_sub_ping
    \* The graph.
    autosub,   \* g->autosub
    rec,       \* its record of the device: ticks since dev->synced, -1: no record
    sub,       \* its subscription to the device
    \* Messages.
    toDev,     \* "/<name>/subscribe" and /who messages of the graph
    toGraph,   \* messages of the device
    lost,
    calls

device == <<up, starts, entry, met, busWait, subWait>>
graph == <<autosub, rec, sub>>
vars == <<device, graph, toDev, toGraph, lost, calls>>

None == [flags |-> {}, left |-> -1]

\* An entry and the ticks before its lease ends (-1: it ended), or a subscription and
\* the ticks before it is renewed.  None has no flags.
Entry == [flags : SUBSET Kind, left : -1 .. Lease]

\* A subscription for a lease, or a request without one.
Ask == [flags : SUBSET Kind, lease : {0, Lease}]
Who == [flags |-> {}, lease |-> -1]

TypeOK ==
    /\ up \in -1 .. Expiry + 1 /\ starts \in 0 .. MaxLife
    /\ entry \in Entry /\ met \in BOOLEAN
    /\ busWait \in 0 .. LongestWait /\ subWait \in 0 .. SubWait
    /\ autosub \in FlagSets \cup {{}}
    /\ rec \in -1 .. Expiry + 1
    /\ sub \in Entry
    /\ toDev \in Seq(Ask \cup {Who})
    /\ toGraph \subseteq {"sync", "device", "signal", "logout"}
    /\ lost \in 0 .. MaxLost /\ calls \in 0 .. MaxCalls

Alive == up >= 0
Known == rec >= 0
Subscribed == sub.flags # {}

------------------------------------------------------------------------------
\* Messages of the graph.

\* What the receiver makes of the words of a request: handler_subscribe expects others
\* than send_subscribe_msg writes for one of the two kinds of maps.
Wire(F) == IF {"map_in", "map_out"} \subseteq F THEN F ELSE F \ {"map_in", "map_out"}

\* send_subscribe_msg.
Request(F, t) == [flags |-> Wire(F), lease |-> t]

\* An application does something.
Call == calls < MaxCalls /\ calls' = calls + 1

Post(s) == /\ Len(toDev) + Len(s) <= MaxQueue
           /\ toDev' = toDev \o s

\* Seeded bug: the margin is added, so a lease is over before it is renewed.
RenewLate(F) == [flags |-> F, left |-> Lease + Margin]

Renewed(F) == [flags |-> F, left |-> Lease - Margin]

\* Seeded bug: the lease of a renewal is missing.
RenewalShort(F) == Request(F, 0)

Renewal(F) == Request(F, Lease)

\* Seeded bug: other flags are noted but not asked for.
SubscribeToOnce(F) ==
    IF Subscribed THEN sub' = [sub EXCEPT !.flags = F] /\ UNCHANGED toDev
    ELSE sub' = Renewed(F) /\ Post(<<Request(F, Lease)>>)

\* mpr_graph_subscribe(g, d, F, -1): nothing is sent if the flags are the same.
SubscribeTo(F) ==
    IF sub.flags = F THEN UNCHANGED <<sub, toDev>>
    ELSE sub' = Renewed(F) /\ Post(<<Request(F, Lease)>>)

\* mpr_graph_subscribe(g, d, 0, 0).
Unsubscribe == sub' = None /\ Post(<<Request({}, 0)>>)

------------------------------------------------------------------------------
Init ==
    /\ up = -1 /\ starts = 0 /\ entry = None /\ met = FALSE
    /\ busWait = 0 /\ subWait = 0
    /\ autosub \in FlagSets \cup {{}}
    /\ rec = -1 /\ sub = None
    /\ toDev = <<>> /\ toGraph = {} /\ lost = 0 /\ calls = 0

\* The device.

\* mpr_dev_on_registered and the forced /sync after it.
Start ==
    /\ ~ Alive /\ starts < MaxLife
    /\ up' = 0 /\ starts' = starts + 1 /\ met' = FALSE
    /\ busWait' \in ShortestWait .. LongestWait /\ subWait' = SubWait
    /\ toGraph' = toGraph \cup {"sync"}
    /\ UNCHANGED <<entry, graph, toDev, lost, calls>>

Stopped ==
    /\ Alive
    /\ up' = -1 /\ entry' = None /\ toDev' = <<>>
    /\ UNCHANGED <<starts, met, busWait, subWait, graph, lost, calls>>

Crash == Stopped /\ UNCHANGED toGraph

\* mpr_dev_free.
Leave == Stopped /\ toGraph' = toGraph \cup {"logout"}

\* mpr_net_maybe_send_ping: /sync on the bus.
BusSync ==
    /\ Alive /\ busWait = 0
    /\ busWait' \in ShortestWait .. LongestWait
    /\ toGraph' = toGraph \cup {"sync"}
    /\ UNCHANGED <<up, starts, entry, met, subWait, graph, toDev, lost, calls>>

Live(e) == e.flags # {} /\ e.left >= 0

\* The same to subscribers of devices; this is when entries that ended are dropped.
SubSync ==
    /\ Alive /\ subWait = 0
    /\ subWait' = SubWait
    /\ entry' = IF Live(entry) THEN entry ELSE None
    /\ toGraph' = IF Live(entry) /\ "dev" \in entry.flags THEN toGraph \cup {"sync"} ELSE toGraph
    /\ UNCHANGED <<up, starts, met, busWait, graph, toDev, lost, calls>>

\* A property or a signal changed and is announced.
Announce(k) ==
    /\ Alive /\ Live(entry) /\ k \in entry.flags
    /\ toGraph' = toGraph \cup {IF k = "dev" THEN "device" ELSE "signal"}
    /\ UNCHANGED <<device, graph, toDev, lost>>
    /\ Call

\* mpr_dev_manage_subscriber: the entry after request m, and what it has to tell.
EntryAfter(m) == IF m.flags = {} \/ m.lease = 0 THEN None
                 ELSE [flags |-> m.flags, left |-> m.lease]

Answer(F) == (IF F = {} THEN {} ELSE {"device"})
             \cup (IF F \cap {"sig_in", "sig_out"} = {} THEN {} ELSE {"signal"})

\* handler_subscribe and handler_who.
DevRecv ==
    /\ Alive /\ toDev # <<>>
    /\ toDev' = Tail(toDev)
    /\ LET m == Head(toDev) IN
       IF m = Who
       THEN /\ busWait' \in ShortestWait .. LongestWait
            /\ toGraph' = toGraph \cup {"sync"}
            /\ UNCHANGED <<entry, met>>
       ELSE /\ entry' = EntryAfter(m)
            /\ met' = (met \/ m.lease > 0)
            /\ toGraph' = toGraph \cup Answer(m.flags \ entry.flags)
            /\ UNCHANGED busWait
    /\ UNCHANGED <<up, starts, subWait, graph, lost, calls>>

\* Nobody reads the requests.
DevMisses ==
    /\ ~ Alive /\ toDev # <<>>
    /\ toDev' = <<>>
    /\ UNCHANGED <<device, graph, toGraph, lost, calls>>

------------------------------------------------------------------------------
\* The program with the graph.

\* mpr_graph_subscribe(g, NULL, F, -1): _autosubscribe.  The first time, a subscription
\* there is takes the flags over and is asked for again if one of them is new.
Autosubscribe(F) ==
    /\ F \in FlagSets /\ F # autosub
    /\ autosub' = F
    /\ LET wider == Subscribed /\ ~ F \subseteq sub.flags IN
       \/ /\ autosub = {}
          /\ sub' = IF ~ Subscribed THEN sub
                    ELSE IF wider THEN Renewed(F) ELSE [sub EXCEPT !.flags = F]
          /\ Post(IF wider THEN <<Request(F, Lease), Who>> ELSE <<Who>>)
       \/ /\ autosub # {}
          /\ UNCHANGED <<sub, toDev>>
    /\ UNCHANGED <<device, rec, toGraph, lost>>
    /\ Call

\* mpr_graph_unsubscribe(g, NULL): it only ends what _autosubscribe began.
EndAutosubscribe ==
    /\ autosub # {}
    /\ autosub' = {}
    /\ IF Subscribed THEN Unsubscribe ELSE UNCHANGED <<sub, toDev>>
    /\ UNCHANGED <<device, rec, toGraph, lost>>
    /\ Call

\* mpr_graph_subscribe for the device alone.
SubscribeOne(F) ==
    /\ Known /\ F \in FlagSets
    /\ SubscribeTo(F)
    /\ UNCHANGED <<device, autosub, rec, toGraph, lost>>
    /\ Call

UnsubscribeOne ==
    /\ Known
    /\ Unsubscribe
    /\ UNCHANGED <<device, autosub, rec, toGraph, lost>>
    /\ Call

\* mpr_link_init, for a map with a signal of the device: its request has no lease.
CreateLink ==
    /\ LinkToSubscribed \/ ~ Subscribed
    /\ rec' = IF Known THEN rec ELSE 0
    /\ Post(<<Request({"dev"}, 0)>>)
    /\ UNCHANGED <<device, autosub, sub, toGraph, lost>>
    /\ Call

\* Seeded bug: a /sync of a known device is not recorded.
SyncIgnored(r) == r

Synced(r) == 0

\* handler_sync.
Hear ==
    \/ /\ Known
       /\ rec' = Synced(rec)
       /\ IF ~ Subscribed /\ autosub # {} THEN SubscribeTo(autosub)
          ELSE UNCHANGED <<sub, toDev>>
    \/ /\ ~ Known /\ autosub # {}
       /\ Post(<<Request({"dev"}, 0)>>)
       /\ UNCHANGED <<rec, sub>>
    \/ /\ ~ Known /\ autosub = {}
       /\ UNCHANGED <<rec, sub, toDev>>

\* handler_dev.
Learn ==
    /\ rec' = IF autosub # {} \/ Subscribed THEN 0 ELSE rec
    /\ IF ~ Subscribed /\ autosub # {} THEN SubscribeTo(autosub) ELSE UNCHANGED <<sub, toDev>>

\* handler_sig, mpr_graph_add_sig: an unknown device is added.
LearnSignal ==
    /\ rec' = IF Known THEN rec ELSE 0
    /\ UNCHANGED <<sub, toDev>>

\* Seeded bug: the subscription outlives the record.
ForgetKeepsSub == rec' = -1 /\ UNCHANGED <<sub, toDev>>

\* mpr_graph_unsubscribe, then mpr_graph_remove_dev: its event makes _on_dev_autosub
\* unsubscribe once more.
Forget ==
    /\ rec' = -1 /\ sub' = None
    /\ Post(IF autosub = {} THEN <<Request({}, 0)>> ELSE <<Request({}, 0), Request({}, 0)>>)

\* handler_logout.
LogoutHeard == IF Known THEN Forget ELSE UNCHANGED <<rec, sub, toDev>>

GraphRecv(k) ==
    /\ k \in toGraph
    /\ toGraph' = toGraph \ {k}
    /\ \/ k = "sync" /\ Hear
       \/ k = "device" /\ Learn
       \/ k = "signal" /\ LearnSignal
       \/ k = "logout" /\ LogoutHeard
    /\ UNCHANGED <<device, autosub, lost, calls>>

\* Seeded bug: a device with a subscription is never dropped.
SilentUnsubscribed == rec > Expiry /\ ~ Subscribed

Silent == rec > Expiry

\* mpr_graph_poll: renew_subscriptions, then _check_dev_status.
Poll ==
    LET due == Subscribed /\ sub.left = 0
        again == IF due THEN <<Renewal(sub.flags)>> ELSE <<>>
    IN
    /\ due \/ Silent
    /\ IF Silent THEN rec' = -1 /\ sub' = None /\ Post(Append(again, Request({}, 0)))
       ELSE sub' = Renewed(sub.flags) /\ Post(again) /\ UNCHANGED rec
    /\ UNCHANGED <<device, autosub, toGraph, lost, calls>>

------------------------------------------------------------------------------
Lose ==
    /\ lost < MaxLost
    /\ lost' = lost + 1
    /\ \/ toDev # <<>> /\ toDev' = Tail(toDev) /\ UNCHANGED toGraph
       \/ \E k \in toGraph : toGraph' = toGraph \ {k} /\ UNCHANGED toDev
    /\ UNCHANGED <<device, graph, calls>>

Less(n) == IF n = 0 THEN 0 ELSE n - 1

Tick ==
    /\ toDev = <<>> /\ toGraph = {}
    /\ Alive => busWait > 0 /\ subWait > 0
    /\ ~ Silent /\ ~ (Subscribed /\ sub.left = 0)
    /\ up' = IF Alive /\ up <= Expiry THEN up + 1 ELSE up
    /\ busWait' = Less(busWait) /\ subWait' = Less(subWait)
    /\ entry' = IF entry.left >= 0 THEN [entry EXCEPT !.left = @ - 1] ELSE entry
    /\ rec' = IF Known /\ rec <= Expiry THEN rec + 1 ELSE rec
    /\ sub' = IF Subscribed THEN [sub EXCEPT !.left = @ - 1] ELSE sub
    /\ calls' = 0
    /\ UNCHANGED <<starts, met, autosub, toDev, toGraph, lost>>

Next ==
    \/ Start \/ Crash \/ Leave \/ BusSync \/ SubSync \/ DevRecv \/ DevMisses
    \/ \E k \in Kind : Announce(k)
    \/ \E F \in FlagSets : Autosubscribe(F) \/ SubscribeOne(F)
    \/ EndAutosubscribe \/ UnsubscribeOne \/ CreateLink
    \/ \E k \in toGraph : GraphRecv(k)
    \/ Poll \/ Lose \/ Tick

Spec == Init /\ [][Next]_vars

\* Both programs keep polling, and time passes.
FairSpec ==
    /\ Spec
    /\ WF_vars(BusSync) /\ WF_vars(SubSync) /\ WF_vars(DevRecv) /\ WF_vars(DevMisses)
    /\ WF_vars(\E k \in toGraph : GraphRecv(k)) /\ WF_vars(Poll) /\ WF_vars(Tick)

------------------------------------------------------------------------------
\* A subscription refers to the record of its device, and has no entry to look for once
\* the record is freed (handler_logout and _check_dev_status unsubscribe first).
SubscriptionHasRecord == Subscribed => Known

\* The device has a live entry with what was asked for.
Held == Live(entry) /\ Wire(sub.flags) \subseteq entry.flags

\* As long as nothing got lost, the lease of a subscription never ends at the device: it is
\* renewed in time and no other message takes it away (renew_subscriptions).
SubscriptionHeld ==
    Alive /\ met /\ lost = 0 /\ Subscribed /\ toDev = <<>> => Held

\* As long as nothing got lost, a device that runs is not dropped for being silent.
KeptWhileAlive ==
    [][up > 0 /\ lost = 0 /\ Known => rec' # -1 \/ "logout" \in toGraph]_vars

\* Whatever got lost, and whatever the applications called before, a graph that subscribes
\* to everything is subscribed to a device that stays.
Heals ==
    <>[](Alive /\ autosub # {} /\ calls = 0)
    => <>[](Subscribed /\ (toDev = <<>> => Held))

\* A device that is gone is forgotten.
GoneForgotten == ~ Alive /\ Known ~> Alive \/ ~ Known

=============================================================================
