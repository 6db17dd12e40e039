------------------------------- MODULE LinkPing -------------------------------
(***************************************************************************)
(* Links between two peers and the pings that keep them.  Every bus period *)
(* a peer pings the others it shares maps with; a link over which nothing  *)
(* was heard for Timeout seconds is first marked and, when it stays silent *)
(* for as long again, removed with its maps.  A link without maps sends no *)
(* pings, so it is meant to fade away on both sides.                       *)
(*                                                                         *)
(* Times are in ticks.  The numbers of the pings are reduced to whether    *)
(* one was received since the last warning: they wrap after 2^31 pings.    *)
(***************************************************************************)
EXTENDS Integers

CONSTANTS
    Peer,        \* the two peers
    Timeout,     \* TIMEOUT_SEC
    Grace,       \* what mpr_link_init adds to the time of the first warning
    ShortestWait, LongestWait,    \* a bus period lasts 5 + rand() % 4 seconds
    SetupTime,   \* assumption: the age of a link whose maps get ready, unless LateMaps
    LateMaps,    \* TRUE: maps get ready over older links too
    MaxDelay,    \* bound: ticks a ping is under way
    MaxLost,     \* assumption: pings to one peer that get lost in a row
    MaxLife      \* bound: how often a peer starts again

ASSUME LinkAssumption ==
    /\ \E x, y \in Peer : x # y /\ Peer = {x, y}
    /\ {Timeout, Grace, SetupTime, MaxDelay, MaxLost, MaxLife} \subseteq Nat
    /\ ShortestWait \in Nat \ {0} /\ LongestWait \in Nat
    /\ LateMaps \in BOOLEAN

VARIABLES
    alive,   \* the process runs and its device is registered
    life,    \* how often it was started; each start has its own UDP ports
    link,    \* graph->links: the link to the other peer
    wait,    \* ticks before net->next_bus_ping
    wire,    \* pings on their way to the present ports of a peer, by age
    lost     \* pings to a peer that were lost in a row

vars == <<alive, life, link, wait, wire, lost>>

NoLink == [addr |-> -1, maps |-> FALSE, heard |-> FALSE, age |-> 0, here |-> FALSE]

\* The life of the peer its addresses belong to (-1: not known yet), num_maps > 0,
\* rcvd.msg_id > 0, and the time since rcvd.time, which may lie ahead.
Link == [addr : -1 .. MaxLife, maps : BOOLEAN, heard : BOOLEAN,
         age : -Grace .. Timeout + 1, here : {TRUE}]

Waits == ShortestWait .. LongestWait

TypeOK ==
    /\ alive \in [Peer -> BOOLEAN]
    /\ life \in [Peer -> 0 .. MaxLife]
    /\ link \in [Peer -> Link \cup {NoLink}]
    /\ wait \in [Peer -> 0 .. LongestWait]
    /\ wire \in [Peer -> SUBSET (0 .. MaxDelay)]
    /\ lost \in [Peer -> 0 .. MaxLost]

Other(p) == CHOOSE q \in Peer : q # p

NewLink == [addr |-> -1, maps |-> FALSE, heard |-> FALSE, age |-> -Grace, here |-> TRUE]

\* Seeded bug: the time-out is one too long.
SilentLate(l) == l.age > Timeout + 1

Silent(l) == l.age > Timeout

\* What p knows of the addresses of the other peer is right.
Reaches(p) == link[p].here /\ link[p].addr = life[Other(p)] /\ alive[Other(p)]

------------------------------------------------------------------------------
Init ==
    /\ alive = [p \in Peer |-> TRUE]
    /\ life = [p \in Peer |-> 0]
    /\ link = [p \in Peer |-> NoLink]
    /\ wait \in [Peer -> 0 .. LongestWait]
    /\ wire = [p \in Peer |-> {}]
    /\ lost = [p \in Peer |-> 0]

\* mpr_link_init, when a map with a signal of the other peer is requested.
Create(p) ==
    /\ alive[p] /\ ~ link[p].here
    /\ link' = [link EXCEPT ![p] = NewLink]
    /\ UNCHANGED <<alive, life, wait, wire, lost>>

\* mpr_link_connect: the other peer answered with its properties.
Connect(p) ==
    /\ alive[p] /\ alive[Other(p)]
    /\ link[p].here /\ link[p].addr = -1
    /\ link' = [link EXCEPT ![p].addr = life[Other(p)]]
    /\ UNCHANGED <<alive, life, wait, wire, lost>>

\* The link is new, or the other peer was heard just now.
Prompt(l) == l.age <= SetupTime - (IF l.heard THEN 0 ELSE Grace)

\* _check_status: a map is ready.  For this the two sides have to reach each other.
MapReady(p) ==
    /\ alive[p] /\ Reaches(p) /\ Reaches(Other(p))
    /\ ~ link[p].maps
    /\ LateMaps \/ (Prompt(link[p]) /\ Prompt(link[Other(p)]))
    /\ link' = [link EXCEPT ![p].maps = TRUE]
    /\ UNCHANGED <<alive, life, wait, wire, lost>>

\* mpr_rtr_remove_map, mpr_link_remove_map: the last map goes, the link stays.
MapsGone(p) ==
    /\ alive[p] /\ link[p].here /\ link[p].maps
    /\ link' = [link EXCEPT ![p].maps = FALSE]
    /\ UNCHANGED <<alive, life, wait, wire, lost>>

\* A ping for p is sent: it arrives, is lost, or had an address of an earlier life.
Sent(q, l) ==
    LET p == Other(q) IN
    \/ /\ alive[p] /\ l.addr = life[p]
       /\ wire' = [wire EXCEPT ![p] = @ \cup {0}]
       /\ lost' = [lost EXCEPT ![p] = 0]
    \/ /\ alive[p] /\ l.addr = life[p] /\ lost[p] < MaxLost
       /\ lost' = [lost EXCEPT ![p] = @ + 1]
       /\ UNCHANGED wire
    \/ /\ ~ alive[p] \/ l.addr # life[p]
       /\ UNCHANGED <<wire, lost>>

\* Seeded bug: a silent link is removed without a warning.
RemovedUnwarned(l) == Silent(l)

\* Whether the housekeeping removes link l.
Removed(l) == Silent(l) /\ ~ l.heard

\* Seeded bug: empty links are pinged too.
PingsEmpty(l) == l.here /\ l.addr # -1

Pings(l) == l.here /\ l.maps /\ l.addr # -1

\* The warning: the link gets as much time again.
Warned(l) == IF Silent(l) THEN [l EXCEPT !.heard = FALSE, !.age = 0] ELSE l

\* mpr_net_maybe_send_ping, once a bus period.
Housekeep(p) ==
    /\ alive[p] /\ wait[p] = 0
    /\ \E w \in Waits : wait' = [wait EXCEPT ![p] = w]
    /\ IF link[p].here /\ Removed(link[p])
       THEN /\ link' = [link EXCEPT ![p] = NoLink]
            /\ UNCHANGED <<wire, lost>>
       ELSE LET l == IF link[p].here THEN Warned(link[p]) ELSE NoLink IN
            /\ link' = [link EXCEPT ![p] = l]
            /\ IF Pings(l) THEN Sent(p, l) ELSE UNCHANGED <<wire, lost>>
    /\ UNCHANGED <<alive, life>>

\* handler_ping.
RecvPing(p) ==
    \E a \in wire[p] :
        /\ wire' = [wire EXCEPT ![p] = @ \ {a}]
        /\ link' = IF link[p].here THEN [link EXCEPT ![p].heard = TRUE, ![p].age = 0] ELSE link
        /\ UNCHANGED <<alive, life, wait, lost>>

------------------------------------------------------------------------------
\* Starts and ends of the processes.

Ended(p) ==
    /\ alive' = [alive EXCEPT ![p] = FALSE]
    /\ wire' = [wire EXCEPT ![p] = {}]
    /\ UNCHANGED <<life, wait, lost>>

Crash(p) ==
    /\ alive[p] /\ life[p] < MaxLife
    /\ Ended(p)
    /\ link' = [link EXCEPT ![p] = NoLink]

\* mpr_dev_free, and handler_logout at the other peer, which may miss it.
Leave(p) ==
    /\ alive[p] /\ life[p] < MaxLife
    /\ Ended(p)
    /\ link' = [link EXCEPT ![p] = NoLink, ![Other(p)] = NoLink]

\* It comes back under its name and gets the same id, but other ports.  The other
\* peer keeps the addresses of its link (handler_dev: "links already set").
Restart(p) ==
    /\ ~ alive[p]
    /\ alive' = [alive EXCEPT ![p] = TRUE]
    /\ life' = [life EXCEPT ![p] = @ + 1]
    /\ wait' = [wait EXCEPT ![p] = 0]
    /\ UNCHANGED <<link, wire, lost>>

\* A second.  The application polls at least once in it.
Tick ==
    /\ \A p \in Peer : alive[p] => wait[p] > 0
    /\ \A p \in Peer : \A a \in wire[p] : a < MaxDelay
    /\ wait' = [p \in Peer |-> IF wait[p] = 0 THEN 0 ELSE wait[p] - 1]
    /\ wire' = [p \in Peer |-> {a + 1 : a \in wire[p]}]
    /\ link' = [p \in Peer |-> IF link[p].here /\ ~ Silent(link[p])
                               THEN [link[p] EXCEPT !.age = @ + 1] ELSE link[p]]
    /\ UNCHANGED <<alive, life, lost>>

Next ==
    \/ \E p \in Peer : \/ Create(p) \/ Connect(p) \/ MapReady(p) \/ MapsGone(p)
                       \/ Housekeep(p) \/ RecvPing(p)
                       \/ Crash(p) \/ Leave(p) \/ Restart(p)
    \/ Tick

Spec == Init /\ [][Next]_vars

\* Applications keep polling, and time passes.
FairSpec ==
    Spec /\ WF_vars(Tick)
         /\ \A p \in Peer : WF_vars(Housekeep(p)) /\ WF_vars(RecvPing(p))

------------------------------------------------------------------------------
InUse(p) == link[p].here /\ link[p].maps

\* Two peers that reach each other and both have ready maps over their link keep it,
\* although some pings get lost (the two-stage timeout of mpr_net_maybe_send_ping).
UsedLinkKept ==
    [][\A p \in Peer :
         InUse(p) /\ Reaches(p) /\ InUse(Other(p)) /\ Reaches(Other(p))
         => \/ InUse(p)'
            \/ ~ alive'[p] \/ ~ alive'[Other(p)] \/ MapsGone(p)]_vars

\* Maps whose other end is gone do not stay: the link of the survivor goes, or the
\* peers get in touch again.
HalfOpenEnds ==
    \A p \in Peer : InUse(p) /\ ~ InUse(Other(p)) ~> ~ InUse(p) \/ InUse(Other(p))

\* The addresses of an earlier life of the peer are forgotten in the end.
StaleForgotten ==
    \A p \in Peer :
        link[p].here /\ link[p].addr \notin {-1, life[Other(p)]}
        ~> ~ link[p].here \/ link[p].addr = life[Other(p)]

=============================================================================
