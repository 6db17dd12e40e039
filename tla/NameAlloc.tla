------------------------------ MODULE NameAlloc ------------------------------
(***************************************************************************)
(* Allocation of device names.  A device asks for the name "prefix.val" by *)
(* probing for it on the multicast bus; devices that hold or want the same *)
(* name answer, and the ordinal val moves on until nobody objects for two  *)
(* seconds.  Then the ordinal is locked and the name is announced.         *)
(*                                                                         *)
(* A Net is one process with its sockets (mpr_net); it manages the devices *)
(* devs[n], of which only the first one reads the allocation messages.     *)
(* Time advances in ticks and clocks are kept as ages (now - stamp) that   *)
(* saturate at the largest delay the code compares them with.  Name hashes *)
(* (crc32) are taken to be free of collisions.                             *)
(***************************************************************************)
EXTENDS Integers, Sequences, FiniteSets, TLC

CONSTANTS
    Net,            \* processes, one mpr_net each
    Dev,            \* local devices
    NetOf,          \* the process that creates each device
    Prefix,         \* name prefixes chosen by the applications
    PrefixOf,       \* prefix of each device
    Shifted,        \* Shifted[p]: p without its first character, NoPrefix if nobody uses that
    NoPrefix,
    RandomId,       \* values of net->random_id
    Block,          \* length of the hints array (8 in the code)
    CollisionWait,  \* 0.5 s: quiet time before leaving a contested ordinal
    LockWait,       \* 2 s: quiet time before an ordinal is locked
    ReprobeWait,    \* 5 s: time before an unheard probe is repeated
    HintHold,       \* 2 s: how long a suggested ordinal stays reserved
    MaxDelay,       \* ticks a message may wait before it is handled
    Reliable,       \* FALSE: datagrams may be lost or arrive more than once
    DistinctIds,    \* TRUE: rand() never gives two processes the same id
    CanLeave,       \* TRUE: processes may free their device or crash
    CanReinit,      \* TRUE: applications may change the network interface
    MaxOrd,         \* bound on the ordinals that are explored
    MaxQueued       \* bound: processes start and end while sockets hold at most this many

ASSUME ConstantsAssumption ==
    /\ NetOf \in [Dev -> Net]
    /\ PrefixOf \in [Dev -> Prefix]
    /\ NoPrefix \notin Prefix
    /\ Shifted \in [Prefix -> Prefix \cup {NoPrefix}]
    /\ \A p \in Prefix : Shifted[p] # p
    /\ RandomId \subseteq Nat \ {0}
    /\ {Block, CollisionWait, LockWait, ReprobeWait, HintHold, MaxOrd}
          \subseteq Nat \ {0}
    /\ {MaxDelay, MaxQueued} \subseteq Nat
    /\ CollisionWait <= ReprobeWait /\ LockWait <= ReprobeWait
    /\ {Reliable, DistinctIds, CanLeave, CanReinit} \subseteq BOOLEAN

VARIABLES
    devs,        \* net->devs
    random_id,   \* net->random_id
    alloc,       \* dev->ordinal_allocator
    registered,  \* dev->registered
    name,        \* ordinal in the cached string dev->name, NoName while it is null
    inbox        \* datagrams in the sockets of each process

vars == <<devs, random_id, alloc, registered, name, inbox>>

NoName == -1
Free   == -2           \* hints[i] = 0: never suggested, or given back
Taken  == -1           \* hints[i] = -1: seen registered by somebody
Slot   == 0 .. Block - 1
Hint   == {Free, Taken} \cup (0 .. HintHold + 1)   \* otherwise the age of the stamp

Allocator == [val : 0 .. MaxOrd, age : 0 .. ReprobeWait, collided : BOOLEAN,
              hints : [Slot -> Hint], locked : BOOLEAN, online : BOOLEAN]

DevName == [prefix : Prefix, ord : 0 .. MaxOrd]
\* temp_id is -1 and hint 0 in a plain announcement of a registered name.
Id == RandomId \cup {0}
Message == [type : {"probe"}, name : DevName, temp_id : Id]
           \cup [type : {"registered"}, name : DevName, temp_id : Id \cup {-1},
                 hint : 0 .. MaxOrd]
           \cup [type : {"logout"}, name : DevName]

Datagram == [msg : Message, age : 0 .. MaxDelay]

TypeOK ==
    /\ devs \in [Net -> Seq(Dev)]
    /\ random_id \in [Net -> Id]
    /\ alloc \in [Dev -> Allocator]
    /\ registered \in [Dev -> BOOLEAN]
    /\ name \in [Dev -> 0 .. MaxOrd \cup {NoName}]
    /\ inbox \in [Net -> SUBSET Datagram]

------------------------------------------------------------------------------
NoHints == [i \in Slot |-> Free]

NewAllocator == [val |-> 1, age |-> 0, collided |-> FALSE, hints |-> NoHints,
                 locked |-> FALSE, online |-> FALSE]

\* The string "prefix.ordinal" a device probes for; obj.id is its hash.
NameOf(d, o) == [prefix |-> PrefixOf[d], ord |-> o]

Added(d) == \E i \in DOMAIN devs[NetOf[d]] : devs[NetOf[d]][i] = d

\* devs[0], the only device whose allocator the message handlers look at.
Leader(n) == devs[n][1]

ProbeMsg(d, o, r) == [type |-> "probe", name |-> NameOf(d, o), temp_id |-> r]
RegisteredMsg(d, o, r, h) ==
    [type |-> "registered", name |-> NameOf(d, o), temp_id |-> r, hint |-> h]
LogoutMsg(d) == [type |-> "logout", name |-> NameOf(d, name[d])]

\* A multicast reaches every process that has a device, the sender's included.
Sent(box, m) ==
    [n \in Net |-> IF devs'[n] = <<>> THEN box[n]
                   ELSE box[n] \cup {[msg |-> m, age |-> 0]}]

\* The datagram is read; on an unreliable network a copy of it may come again.
Read(n, p) ==
    {[inbox EXCEPT ![n] = @ \ {p}]} \cup (IF Reliable THEN {} ELSE {inbox})

\* Seeded bugs: the count, or its time stamp, survives into the next probe.
ProbingKeepsCount(a, o) == [a EXCEPT !.val = o, !.age = 0, !.hints = NoHints]
ProbingKeepsTime(a, o) == [a EXCEPT !.val = o, !.collided = FALSE, !.hints = NoHints]

\* The allocator after mpr_net_probe_dev_name: a fresh count and no hints.
Probing(a, o) == [a EXCEPT !.val = o, !.age = 0, !.collided = FALSE, !.hints = NoHints]

\* Seeded bug: the collision is not counted.
CollisionUncounted(a) == [a EXCEPT !.age = 0]

Collision(a) == [a EXCEPT !.collided = TRUE, !.age = 0]

\* First slot of the hints array in S, or Block.
FirstSlot(S) == IF S = {} THEN Block ELSE CHOOSE i \in S : \A j \in S : i <= j

\* Slot suggested to the loser of a probe, and the reservation made for it.
SuggestedSlot(a) == FirstSlot({i \in Slot : a.hints[i] = Free \/ a.hints[i] > HintHold})

Reserve(a, i) == IF i = Block THEN a ELSE [a EXCEPT !.hints[i] = 0]

\* Seeded bug: the free slot is taken for the ordinal itself.
NextOrdinalAssigned(a) == FirstSlot({i \in Slot : a.hints[i] = Free})

\* Next ordinal of a device that met a collision: it skips what it suggested.
NextOrdinal(a) == a.val + FirstSlot({i \in Slot : a.hints[i] = Free}) + 1

\* Seeded bug: the array is written without testing the index.
SetHintUnchecked(a, o, h) ==
    [a EXCEPT !.hints = [i \in Slot \cup {o - a.val - 1} |->
                            IF i = o - a.val - 1 THEN h ELSE @[i]]]

\* The hint of an ordinal in the block above val, if it has one.
SetHint(a, o, h) ==
    IF o - a.val - 1 \in Slot THEN [a EXCEPT !.hints[o - a.val - 1] = h] ELSE a

------------------------------------------------------------------------------
Init ==
    /\ devs = [n \in Net |-> <<>>]
    /\ random_id = [n \in Net |-> 0]
    /\ alloc = [d \in Dev |-> NewAllocator]
    /\ registered = [d \in Dev |-> FALSE]
    /\ name = [d \in Dev |-> NoName]
    /\ inbox = [n \in Net |-> {}]

QueuesShort == \A n \in Net : Cardinality(inbox[n]) <= MaxQueued

\* rand(), and the assumption made about it.
NewRandomId(n) ==
    {r \in RandomId : DistinctIds =>
        \A k \in Net \ {n} : devs[k] # <<>> => random_id[k] # r}

\* mpr_dev_new and mpr_net_add_dev: a new device probes for ordinal 1.
AddDev(d) ==
    LET n == NetOf[d] IN
    /\ ~ Added(d) /\ QueuesShort
    /\ devs' = [devs EXCEPT ![n] = Append(@, d)]
    /\ alloc' = [alloc EXCEPT ![d] = NewAllocator]
    /\ \E r \in NewRandomId(n) :
         /\ random_id' = [random_id EXCEPT ![n] = r]
         /\ inbox' = Sent(inbox, ProbeMsg(d, 1, r))
    /\ UNCHANGED <<registered, name>>

\* mpr_net_init on a running network (mpr_graph_set_interface and _set_address):
\* the sockets are opened anew and each device is added again, at ordinal 0.
\* Only processes with one device are taken here.
Reinit(n) ==
    /\ CanReinit /\ QueuesShort
    /\ Len(devs[n]) = 1
    /\ LET d == Leader(n) IN
         /\ alloc' = [alloc EXCEPT ![d] = Probing(@, 0)]
         /\ registered' = [registered EXCEPT ![d] = FALSE]
         /\ \E r \in NewRandomId(n) :
              /\ random_id' = [random_id EXCEPT ![n] = r]
              /\ UNCHANGED devs
              /\ inbox' = Sent([inbox EXCEPT ![n] = {}], ProbeMsg(d, 0, r))
    /\ UNCHANGED name

------------------------------------------------------------------------------
\* mpr_net_poll, for one device that is not registered yet.

\* The allocator of d starts over at ordinal o and the name is probed for.
ProbeName(d, o) ==
    /\ o <= MaxOrd
    /\ UNCHANGED <<devs, random_id, registered, name>>
    /\ alloc' = [alloc EXCEPT ![d] = Probing(@, o)]
    /\ inbox' = Sent(inbox, ProbeMsg(d, o, random_id[NetOf[d]]))

\* The own probe was not heard: the bus is not usable yet.
Reprobe(d) ==
    /\ ~ alloc[d].locked /\ ~ alloc[d].online
    /\ alloc[d].age >= ReprobeWait
    /\ ProbeName(d, alloc[d].val)

\* Somebody else holds or wants the ordinal.
MoveOn(d) ==
    /\ ~ alloc[d].locked /\ alloc[d].online
    /\ alloc[d].collided /\ alloc[d].age >= CollisionWait
    /\ ProbeName(d, NextOrdinal(alloc[d]))

\* Seeded bugs: the name is built anew each time, or before the search is over.
RegisterUncached(d) ==
    /\ registered' = [registered EXCEPT ![d] = TRUE]
    /\ name' = [name EXCEPT ![d] = alloc[d].val]
    /\ UNCHANGED <<devs, random_id>>
    /\ inbox' = Sent(inbox, RegisteredMsg(d, name'[d], -1, 0))
RegisterEarlyName(d) ==
    /\ registered' = [registered EXCEPT ![d] = TRUE]
    /\ name' = [name EXCEPT ![d] = IF @ = NoName THEN NewAllocator.val ELSE @]
    /\ UNCHANGED <<devs, random_id>>
    /\ inbox' = Sent(inbox, RegisteredMsg(d, name'[d], -1, 0))

\* mpr_dev_on_registered and the announcement of mpr_dev_get_name.
Register(d) ==
    /\ registered' = [registered EXCEPT ![d] = TRUE]
    /\ name' = [name EXCEPT ![d] = IF @ = NoName THEN alloc[d].val ELSE @]
    /\ UNCHANGED <<devs, random_id>>
    /\ inbox' = Sent(inbox, RegisteredMsg(d, name'[d], -1, 0))

\* Nobody objected.
Lock(d) ==
    /\ ~ alloc[d].locked /\ alloc[d].online
    /\ ~ alloc[d].collided /\ alloc[d].age >= LockWait
    /\ alloc' = [alloc EXCEPT ![d].locked = TRUE]
    /\ Register(d)

\* Reinit leaves the lock of an allocated ordinal in place.
Reregister(d) ==
    /\ alloc[d].locked
    /\ UNCHANGED alloc
    /\ Register(d)

Poll(d) ==
    /\ Added(d)
    /\ ~ registered[d]
    /\ Reprobe(d) \/ MoveOn(d) \/ Lock(d) \/ Reregister(d)

------------------------------------------------------------------------------
\* handler_name_probe.
RecvProbe(n, p) ==
    LET d == Leader(n)  a == alloc[d]  m == p.msg  i == SuggestedSlot(a) IN
    /\ m.type = "probe"
    /\ UNCHANGED <<devs, random_id, registered, name>>
    /\ \E box \in Read(n, p) :
         \/ /\ m.name # NameOf(d, a.val)
            /\ UNCHANGED alloc /\ inbox' = box
         \/ /\ m.name = NameOf(d, a.val)
            /\ a.locked \/ m.temp_id > random_id[n]
            /\ a.val + i + 1 <= MaxOrd
            /\ alloc' = [alloc EXCEPT ![d] = Reserve(a, i)]
            /\ inbox' = Sent(box, RegisteredMsg(d, m.name.ord, m.temp_id, a.val + i + 1))
         \/ /\ m.name = NameOf(d, a.val)
            /\ ~ a.locked /\ m.temp_id = random_id[n]
            /\ alloc' = [alloc EXCEPT ![d].online = TRUE]
            /\ inbox' = box
         \/ /\ m.name = NameOf(d, a.val)
            /\ ~ a.locked /\ m.temp_id < random_id[n]
            /\ alloc' = [alloc EXCEPT ![d] = Collision(a)]
            /\ inbox' = box

\* handler_name.
RecvRegistered(n, p) ==
    LET d == Leader(n)  a == alloc[d]  m == p.msg IN
    /\ m.type = "registered"
    /\ UNCHANGED <<devs, random_id, registered, name>>
    /\ \E box \in Read(n, p) :
         \/ /\ a.locked /\ m.name.prefix = PrefixOf[d]
            /\ LET b == SetHint(a, m.name.ord, Taken) IN
               alloc' = [alloc EXCEPT ![d] = IF m.hint = 0 THEN b ELSE SetHint(b, m.hint, 0)]
            /\ inbox' = box
         \/ /\ ~ a.locked /\ m.name = NameOf(d, a.val)
            /\ m.temp_id < random_id[n]
            /\ alloc' = [alloc EXCEPT ![d] = Collision(a)]
            /\ inbox' = box
         \/ /\ ~ a.locked /\ m.name = NameOf(d, a.val)
            /\ m.temp_id = random_id[n] /\ m.hint > 0 /\ m.hint # a.val
            /\ alloc' = [alloc EXCEPT ![d] = Probing(a, m.hint)]
            /\ inbox' = Sent(box, ProbeMsg(d, m.hint, random_id[n]))
         \/ /\ \/ a.locked /\ m.name.prefix # PrefixOf[d]
               \/ ~ a.locked /\ m.name # NameOf(d, a.val)
               \/ ~ a.locked /\ m.temp_id > random_id[n]
               \/ ~ a.locked /\ m.temp_id = random_id[n] /\ m.hint \in {0, a.val}
            /\ UNCHANGED alloc /\ inbox' = box

\* The comparison handler_logout makes: the first character of the sender's
\* prefix is skipped, as if the name still started with a slash.
LogoutMatches(d, nm) == Shifted[nm.prefix] = PrefixOf[d]

\* handler_logout, the part that concerns ordinals (it is only installed once
\* the device has been registered).
RecvLogout(n, p) ==
    LET d == Leader(n)  a == alloc[d]  m == p.msg IN
    /\ m.type = "logout"
    /\ UNCHANGED <<devs, random_id, registered, name>>
    /\ inbox' \in Read(n, p)
    /\ alloc' = [alloc EXCEPT ![d] = IF a.locked /\ LogoutMatches(d, m.name)
                                     THEN SetHint(a, m.name.ord, Free) ELSE a]

Recv(n) ==
    /\ devs[n] # <<>>
    /\ \E p \in inbox[n] : RecvProbe(n, p) \/ RecvRegistered(n, p) \/ RecvLogout(n, p)

------------------------------------------------------------------------------
\* The process ends: its only device and its sockets are gone.
Gone(n) ==
    /\ devs' = [devs EXCEPT ![n] = <<>>]
    /\ alloc' = [alloc EXCEPT ![Leader(n)] = NewAllocator]
    /\ registered' = [registered EXCEPT ![Leader(n)] = FALSE]
    /\ name' = [name EXCEPT ![Leader(n)] = NoName]
    /\ random_id' = [random_id EXCEPT ![n] = 0]

\* mpr_dev_free: a registered device tells the network that it is leaving.
Leave(n) ==
    /\ CanLeave /\ QueuesShort
    /\ Len(devs[n]) = 1
    /\ Gone(n)
    /\ LET box == [inbox EXCEPT ![n] = {}] IN
       inbox' = IF registered[Leader(n)] THEN Sent(box, LogoutMsg(Leader(n))) ELSE box

Crash(n) ==
    /\ CanLeave /\ QueuesShort
    /\ Len(devs[n]) = 1
    /\ Gone(n)
    /\ inbox' = [inbox EXCEPT ![n] = {}]

------------------------------------------------------------------------------
\* The network and time.

Lose(n) ==
    /\ ~ Reliable
    /\ \E p \in inbox[n] : inbox' = [inbox EXCEPT ![n] = @ \ {p}]
    /\ UNCHANGED <<devs, random_id, alloc, registered, name>>

Older(a, bound) == IF a < bound THEN a + 1 ELSE a

AgedHint(h) == IF h \in {Free, Taken} THEN h ELSE Older(h, HintHold + 1)

\* The longest delay count_time is still going to be compared with.
AgeBound(a) == IF a.locked THEN 0 ELSE IF a.online THEN LockWait ELSE ReprobeWait

Aged(a) == [a EXCEPT !.age = Older(@, AgeBound(a)),
                     !.hints = [i \in Slot |-> AgedHint(@[i])]]

\* No datagram waits longer than MaxDelay: by then it has been read or lost.
Tick ==
    /\ \A n \in Net : \A p \in inbox[n] : p.age < MaxDelay
    /\ alloc' = [d \in Dev |-> IF Added(d) THEN Aged(alloc[d]) ELSE alloc[d]]
    /\ inbox' = [n \in Net |-> {[p EXCEPT !.age = Older(@, MaxDelay)] : p \in inbox[n]}]
    /\ UNCHANGED <<devs, random_id, registered, name>>

Next ==
    \/ \E d \in Dev : AddDev(d) \/ Poll(d)
    \/ \E n \in Net : Recv(n) \/ Lose(n) \/ Reinit(n) \/ Leave(n) \/ Crash(n)
    \/ Tick

Spec == Init /\ [][Next]_vars

\* Applications keep polling, sockets are read until they are empty and the
\* clock never stops.
Fairness ==
    /\ \A d \in Dev : WF_vars(Poll(d))
    /\ \A n \in Net : WF_vars(Recv(n))
    /\ WF_vars(Tick)

FairSpec == Spec /\ Fairness

------------------------------------------------------------------------------
Locked(d) == alloc[d].locked

\* No two devices of the network end up with the same name, although each one
\* decides alone, from a lack of objections (check_collisions).
UniqueNames ==
    \A d, e \in Dev :
        /\ d # e /\ Locked(d) /\ Locked(e)
        => NameOf(d, alloc[d].val) # NameOf(e, alloc[e].val)

\* "Once the ordinal is locked it won't change" (mpr_net_poll): it is kept until
\* the device goes away.
LockedOrdinalKept ==
    [][\A d \in Dev : Locked(d) /\ Added(d)' =>
          Locked(d)' /\ alloc'[d].val = alloc[d].val]_vars

\* The name a device gives its peers, cached by mpr_dev_get_name, is the one
\* whose hash is its id, as long as nobody changes the network interface.
NameMatchesId ==
    \A d \in Dev : registered[d] => name[d] = alloc[d].val

\* Peers store links and maps under the name of a device, so once given it
\* survives a change of the network interface (mpr_dev_get_name).
NameKept ==
    [][\A d \in Dev : name[d] # NoName /\ Added(d)' => name'[d] = name[d]]_vars

\* The search for an ordinal only goes up, so it cannot return to a contested
\* one, whoever suggests the next value.
SearchGoesUp ==
    [][\A d \in Dev : Added(d) /\ Added(d)' => alloc'[d].val >= alloc[d].val]_vars

\* A device that was created gets its name, unless its process ends first.
EventuallyRegistered ==
    \A d \in Dev : Added(d) ~> registered[d] \/ ~ Added(d)

\* Devices lock names the way claims are made in a central registry.
NoDevName == [prefix |-> NoPrefix, ord |-> 0]
Held == [d \in Dev |-> IF Locked(d) THEN NameOf(d, alloc[d].val) ELSE NoDevName]
Registry == INSTANCE NameRegistry WITH Name <- DevName, NoName <- NoDevName, holds <- Held

ImplementsRegistry == Registry!Spec

=============================================================================
