----------------------------- MODULE Subscribers -----------------------------
(***************************************************************************)
(* What a device tells its subscribers, and the bundle in which it waits.  *)
(* Peers subscribe to kinds of information for the length of a lease; the  *)
(* device brings a new subscriber up to date and from then on announces    *)
(* its changes.  All messages of the process share one pending bundle that *)
(* is sent when the destination changes, when it is full or when the       *)
(* network is polled.                                                      *)
(*                                                                         *)
(* A message is known by the kind of information it carries.  A message is *)
(* written when it is added to the bundle, so a later change makes it old: *)
(* the bundle is represented by the kinds it carries in their present      *)
(* state.  How many messages fit is a matter of bytes: any number may.     *)
(***************************************************************************)
EXTENDS Integers, FiniteSets

CONSTANTS
    Peer,        \* addresses of subscribers
    FlagSets,    \* the kinds a /subscribe message may ask for
    Leases,      \* the leases it may ask for, 0 among them
    SubPeriod,   \* ticks between two /sync messages to subscribers
    Maps,        \* the maps that come and go: "in", "out" or "local" ones
    RemoteMods,  \* TRUE: others modify properties of the device
    SetResults   \* what setting a property returns: TRUE for a new value

SigKind == {"sig_in", "sig_out"}
MapKind == {"map_in", "map_out"}
Kind    == {"dev"} \cup SigKind \cup MapKind

ASSUME ConstantsAssumption ==
    /\ FlagSets \subseteq SUBSET Kind
    /\ Leases \subseteq Nat
    /\ SubPeriod \in Nat
    /\ Maps \subseteq {"in", "out", "local"}
    /\ RemoteMods \in BOOLEAN
    /\ SetResults \subseteq BOOLEAN

VARIABLES
    net,       \* the subscribers and the pending bundle, see Net
    dirty,     \* dev->obj.props.synced->dirty: a property changed
    polling,   \* TRUE while mpr_dev_poll reads the sockets
    subPing    \* ticks before the next /sync to subscribers is due

vars == <<net, dirty, polling, subPing>>

None == [flags |-> {}, lease |-> -1, known |-> {}, here |-> FALSE]

\* A subscriber, the ticks its lease still lasts (-1: it is over) and the kinds
\* whose present state was sent to it.
Entry == [flags : SUBSET Kind, lease : Nat \cup {-1}, known : SUBSET Kind,
          here : {TRUE}]

Bus == [to |-> "bus"]
Link == [to |-> "link"]
Mesh(p) == [to |-> "peer", peer |-> p]
Subs(t) == [to |-> "subscribers", type |-> t]

Destination == [to : {"bus", "link"}] \cup [to : {"peer"}, peer : Peer]
               \cup [to : {"subscribers"}, type : SUBSET Kind]

\* dev->subscribers, and net->bundle with net->addr and net->msg_type.
Net == [subscribers : [Peer -> Entry \cup {None}], open : BOOLEAN,
        dst : Destination, kinds : SUBSET Kind]

TypeOK ==
    /\ net \in Net
    /\ dirty \in BOOLEAN
    /\ polling \in BOOLEAN
    /\ subPing \in 0 .. SubPeriod

------------------------------------------------------------------------------
\* The bundle.

Subscribed(n) == \E p \in Peer : n.subscribers[p].here

\* lease_exp < now, or no flags: the entry is dropped by mpr_net_send.
Lapsed(e) == e.lease < 0 \/ e.flags = {}

\* Seeded bug: the bundle goes to a subscriber before its lease is looked at.
DeliverLate(e, t, K) ==
    IF ~ e.here \/ e.flags = {} THEN None
    ELSE IF e.flags \cap t # {} THEN [e EXCEPT !.known = @ \cup K] ELSE e

\* Seeded bug: an entry whose lease is over is passed over, not removed.
DeliverKeeps(e, t, K) ==
    IF ~ e.here \/ Lapsed(e) \/ e.flags \cap t = {} THEN e ELSE [e EXCEPT !.known = @ \cup K]

\* The entry of a subscriber after a bundle of type t was sent.
Deliver(e, t, K) ==
    IF ~ e.here \/ Lapsed(e) THEN None
    ELSE IF e.flags \cap t # {} THEN [e EXCEPT !.known = @ \cup K] ELSE e

\* Seeded bug: who asks once is remembered like a subscriber.
AnswerAlways(e, K) == [e EXCEPT !.known = @ \cup K]

\* The entry of a peer that was sent a bundle of its own.
Answer(e, K) == IF e.here THEN [e EXCEPT !.known = @ \cup K] ELSE e

Arrived(n) ==
    CASE n.dst.to = "subscribers" ->
           [p \in Peer |-> Deliver(n.subscribers[p], n.dst.type, n.kinds)]
      [] n.dst.to = "peer" ->
           [p \in Peer |-> IF p = n.dst.peer THEN Answer(n.subscribers[p], n.kinds)
                           ELSE n.subscribers[p]]
      [] OTHER -> n.subscribers

\* mpr_net_send.
Send(n) ==
    IF n.open THEN [subscribers |-> Arrived(n), open |-> FALSE, dst |-> n.dst, kinds |-> {}]
    ELSE n

\* Seeded bug: a bundle for the subscribers takes in whatever comes next.
UseKeepsBundle(n, d) ==
    LET m == IF n.open /\ n.dst # d /\ n.dst.to # "subscribers" THEN Send(n) ELSE n IN
    [m EXCEPT !.open = TRUE, !.dst = d]

\* mpr_net_use_bus, mpr_net_use_mesh and mpr_net_use_subscribers: the bundle is
\* sent first if it has another destination or type.
Use(n, d) ==
    LET m == IF n.open /\ n.dst # d THEN Send(n) ELSE n IN
    [m EXCEPT !.open = TRUE, !.dst = d]

\* mpr_net_add_msg, with room for the message or without.
Add(n, K, full) ==
    LET m == IF full THEN Send(n) ELSE n IN
    [m EXCEPT !.open = TRUE, !.kinds = @ \cup K]

\* The information of kinds K is no longer what was sent or waits to be sent.
Change(n, K) ==
    [n EXCEPT !.subscribers = [p \in Peer |-> [n.subscribers[p] EXCEPT !.known = @ \ K]],
              !.kinds = @ \ K]

\* One announcement to the subscribers.
Announce(n, t, K, full) == Add(Use(n, Subs(t)), K, full)

------------------------------------------------------------------------------
Init ==
    /\ net = [subscribers |-> [p \in Peer |-> None], open |-> FALSE, dst |-> Bus, kinds |-> {}]
    /\ dirty \in BOOLEAN
    /\ polling = FALSE
    /\ subPing = 0

\* mpr_dev_poll begins: the network is polled, which may also happen again while
\* it waits for messages.  busDue: a /sync goes out on the bus as well.
NetPoll(n, busDue, full) ==
    LET sent == Send(n)
        told == IF subPing = 0 /\ Subscribed(sent) THEN Announce(sent, {"dev"}, {}, full) ELSE sent
    IN  IF busDue THEN Add(Use(told, Bus), {}, full) ELSE told

BeginPoll ==
    /\ ~ polling
    /\ polling' = TRUE
    /\ \E busDue, full \in BOOLEAN : net' = NetPoll(net, busDue, full)
    /\ subPing' = IF subPing = 0 THEN SubPeriod ELSE subPing
    /\ UNCHANGED dirty

PollAgain ==
    /\ polling
    /\ \E busDue, full \in BOOLEAN : net' = NetPoll(net, busDue, full)
    /\ subPing' = IF subPing = 0 THEN SubPeriod ELSE subPing
    /\ UNCHANGED <<dirty, polling>>

\* It ends: changed properties are announced.
EndPoll ==
    /\ polling
    /\ polling' = FALSE
    /\ IF dirty /\ Subscribed(net)
       THEN /\ \E full \in BOOLEAN : net' = Announce(net, {"dev"}, {"dev"}, full)
            /\ dirty' = FALSE
       ELSE UNCHANGED <<net, dirty>>
    /\ UNCHANGED subPing

------------------------------------------------------------------------------
\* Messages from peers, handled while the device is polled.

\* The entry of a peer after its request, and the kinds it has to be told.
EntryAfter(e, F, t) ==
    IF F = {} \/ t = 0 THEN None
    ELSE [flags |-> F, lease |-> t, known |-> e.known, here |-> TRUE]

\* Seeded bug: the kinds of the present subscription are told again, not the others.
AskedOld(e, F) == IF e.here THEN F \cap e.flags ELSE F

Asked(e, F) == F \ e.flags

\* The state of one class of objects, sent to a peer at once.
Tell(n, p, K, full) == Send(Add(Use(n, Mesh(p)), K, full))

\* handler_subscribe, mpr_dev_manage_subscriber.
Subscribe(p, F, t) ==
    LET e == net.subscribers[p]
        K == Asked(e, F)
        n == [net EXCEPT !.subscribers[p] = EntryAfter(e, F, t)]
    IN
    /\ polling
    /\ IF K = {}
       THEN /\ net' = n
            /\ UNCHANGED dirty
       ELSE /\ \E full \in BOOLEAN :
                 LET d == Tell(n, p, {"dev"}, full)
                     s == IF K \cap SigKind = {} THEN d ELSE Tell(d, p, K \cap SigKind, full)
                 IN  net' = IF K \cap MapKind = {} THEN s ELSE Tell(s, p, K \cap MapKind, full)
            /\ dirty' = FALSE
    /\ UNCHANGED <<polling, subPing>>

\* inform_device_subscribers: it passes MPR_DEV, which as a message is
\* "/%s/modify" and not "/device"; such a message is sent at once and leaves
\* no property marked.
InformDevice(n, full) == Send(Announce(n, {"dev"}, {}, full))

\* handler_dev_mod.  The mark is what the last property of the message left.
DevModified ==
    /\ polling /\ RemoteMods
    /\ \/ LET n == Change(net, {"dev"}) IN
            /\ \E full \in BOOLEAN :
                 net' = IF Subscribed(n) THEN InformDevice(n, full) ELSE n
            /\ dirty' \in IF Subscribed(n) THEN {FALSE} ELSE BOOLEAN
       \/ net' = net /\ dirty' = FALSE
    /\ UNCHANGED <<polling, subPing>>

\* handler_sig_mod.
SigModified(k) ==
    /\ polling
    /\ \E full \in BOOLEAN :
         net' = LET n == Change(net, {k}) IN
                IF Subscribed(n) THEN Announce(n, {k}, {k}, full) ELSE n
    /\ UNCHANGED <<dirty, polling, subPing>>

\* Kinds of information a map of each sort is part of.
MapKinds(m) == CASE m = "in" -> {"map_in"} [] m = "out" -> {"map_out"} [] OTHER -> MapKind
EndKinds(m) == CASE m = "in" -> {"sig_in"} [] m = "out" -> {"sig_out"} [] OTHER -> SigKind

\* The type under which an existing map is announced: what matters is where its
\* destination is.
MapType(m) == IF m = "out" THEN {"map_out"} ELSE {"map_in"}

\* The end of handler_map and handler_mapped for a map that gets active, and of
\* handler_unmap.  Messages to the peers of the map come first (not with local maps).
MapEvent(m, t, full) ==
    LET c == Change(net, {"dev"} \cup EndKinds(m) \cup MapKinds(m))
        n == IF m = "local" THEN c ELSE Add(Use(c, Link), {}, full)
        i == InformDevice(n, full)
        s == Announce(i, SigKind, EndKinds(m), full)
    IN  IF Subscribed(n) THEN Announce(s, t, MapKinds(m), full) ELSE n

\* Whether the announcement took place: it leaves no property marked.
MapDirty == dirty /\ ~ Subscribed(net)

MapActivated(m) ==
    /\ polling /\ m \in Maps
    /\ \E full \in BOOLEAN : net' = MapEvent(m, MapKinds(m), full)
    /\ dirty' = MapDirty
    /\ UNCHANGED <<polling, subPing>>

Unmapped(m) ==
    /\ polling /\ m \in Maps
    /\ \E full \in BOOLEAN : net' = MapEvent(m, MapType(m), full)
    /\ dirty' = MapDirty
    /\ UNCHANGED <<polling, subPing>>

\* handler_map_mod.
MapModified(m) ==
    /\ polling /\ m \in Maps
    /\ \E full \in BOOLEAN :
         net' = LET c == Change(net, MapKinds(m))
                    n == IF m = "local" THEN c ELSE Add(Use(c, Link), {}, full)
                IN  IF Subscribed(n) THEN Announce(n, MapType(m), MapKinds(m), full) ELSE n
    /\ UNCHANGED <<dirty, polling, subPing>>

------------------------------------------------------------------------------
\* The application, between two polls.

\* mpr_sig_new, mpr_sig_free, and mpr_obj_push of a signal of the device.
SigChanged(k) ==
    /\ ~ polling
    /\ \E full \in BOOLEAN : net' = Announce(Change(net, {k}), {k}, {k}, full)
    /\ UNCHANGED <<dirty, polling, subPing>>

\* mpr_obj_set_prop of the device: the mark is what the last call returned.
SetProp(updated) ==
    /\ ~ polling /\ updated \in SetResults
    /\ net' = IF updated THEN Change(net, {"dev"}) ELSE net
    /\ dirty' = updated
    /\ UNCHANGED <<polling, subPing>>

\* mpr_obj_push of the device.
PushDev ==
    /\ ~ polling
    /\ \E full \in BOOLEAN : net' = Announce(net, {"dev"}, {"dev"}, full)
    /\ dirty' = FALSE
    /\ UNCHANGED <<polling, subPing>>

\* The process sends something else: to the bus, or over one of its links.
OtherMsg(d) ==
    /\ \E full \in BOOLEAN : net' = Add(Use(net, d), {}, full)
    /\ UNCHANGED <<dirty, polling, subPing>>

Tick ==
    /\ net' = [net EXCEPT !.subscribers = [p \in Peer |->
                   IF net.subscribers[p].lease < 0 THEN net.subscribers[p]
                   ELSE [net.subscribers[p] EXCEPT !.lease = @ - 1]]]
    /\ subPing' = IF subPing = 0 THEN 0 ELSE subPing - 1
    /\ UNCHANGED <<dirty, polling>>

Handlers ==
    \/ \E p \in Peer : \E F \in FlagSets : \E t \in Leases : Subscribe(p, F, t)
    \/ DevModified
    \/ \E k \in SigKind : SigModified(k)
    \/ \E m \in Maps : MapActivated(m) \/ Unmapped(m) \/ MapModified(m)

Calls ==
    \/ \E k \in SigKind : SigChanged(k)
    \/ \E u \in SetResults : SetProp(u)
    \/ PushDev

Next == BeginPoll \/ PollAgain \/ EndPoll \/ Handlers \/ Calls
        \/ OtherMsg(Bus) \/ OtherMsg(Link) \/ Tick

Spec == Init /\ [][Next]_vars

\* The application keeps polling and the clock runs.
FairSpec == Spec /\ WF_vars(BeginPoll) /\ WF_vars(EndPoll) /\ WF_vars(Tick)

------------------------------------------------------------------------------
\* The present state of kind k waits for everybody who wants it.
Waiting(n, k) ==
    n.open /\ n.dst.to = "subscribers" /\ k \in n.dst.type /\ k \in n.kinds

\* A subscriber was sent what it asked for, or it waits in the bundle.
UpToDate(n, k) ==
    \A p \in Peer :
        n.subscribers[p].here /\ k \in n.subscribers[p].flags
        => k \in n.subscribers[p].known \/ Waiting(n, k)

\* Subscribers have the present state of the signals and maps they asked for,
\* however subscriptions change (mpr_dev_manage_subscriber, mpr_net_send).
ObjectsUpToDate == \A k \in SigKind \cup MapKind : UpToDate(net, k)

\* They have the present properties of the device, or the next poll announces them.
\* Not so: the mark is one for all subscribers, and mpr_dev_send_state clears it when
\* one newcomer was told, or a map announced the device without its properties; a
\* later set of an equal value clears it too.
DeviceUpToDate == UpToDate(net, "dev") \/ dirty

\* After its lease a subscriber that does not renew is sent nothing more
\* (mpr_net_send).
NothingAfterLease ==
    [][\A p \in Peer :
         /\ net.subscribers[p].here /\ net.subscribers[p].lease < 0
         /\ net'.subscribers[p].here /\ net'.subscribers[p].lease < 0
         => net'.subscribers[p].known \subseteq net.subscribers[p].known]_vars

\* A lease that ends is noticed: the subscriber is dropped or has renewed.
LapsedDropped ==
    \A p \in Peer :
        net.subscribers[p].here /\ net.subscribers[p].lease < 0
        ~> ~ net.subscribers[p].here \/ net.subscribers[p].lease >= 0

=============================================================================
