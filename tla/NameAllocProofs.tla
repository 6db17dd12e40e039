-------------------------- MODULE NameAllocProofs --------------------------
(***************************************************************************)
(* Theorems about NameAlloc for every network, every set of devices and    *)
(* every choice of the time-outs, on reliable and on lossy networks alike. *)
(***************************************************************************)
EXTENDS NameAlloc, WellFoundedInduction, TLAPS

\* A suggestion always lies above the ordinal it was asked for, so following it
\* moves the search up (handler_name_probe).
HintsAhead ==
    \A n \in Net : \A p \in inbox[n] :
        p.msg.type = "registered" /\ p.msg.hint > 0 => p.msg.hint > p.msg.name.ord

\* A registered device has built its name.
RegisteredNamed == \A d \in Dev : registered[d] => name[d] # NoName

IInv == TypeOK /\ HintsAhead /\ RegisteredNamed

\* A process only manages devices it has created.
Placed == \A n \in Net : \A i \in DOMAIN devs[n] : NetOf[devs[n][i]] = n

\* A device is registered only with a locked ordinal, and while the network
\* interface stays the same its name is the one it locked.
NameInv ==
    \A d \in Dev :
        /\ registered[d] => name[d] = alloc[d].val /\ Locked(d)
        /\ name[d] # NoName => registered[d]
        /\ ~ Added(d) => ~ Locked(d)

------------------------------------------------------------------------------
(***************************************************************************)
(* Lemmas about the operators of the allocator.                            *)
(***************************************************************************)

\* The bounds are naturals.
LEMMA Bounds ==
    /\ Block \in Nat /\ Block > 0 /\ MaxOrd \in Nat /\ MaxOrd > 0 /\ MaxDelay \in Nat
    /\ HintHold \in Nat /\ ReprobeWait \in Nat /\ LockWait \in Nat /\ LockWait <= ReprobeWait
  BY ConstantsAssumption

\* Every set of naturals that is not empty has a least element.
LEMMA LeastNatural ==
    ASSUME NEW S \in SUBSET Nat, S # {}
    PROVE  \E m \in S : \A k \in S : m <= k
<1>1. \E m \in S : \A k \in S : ~ (<<k, m>> \in OpToRel(<, Nat))
  BY NatLessThanWellFounded, WFMin
<1>2. PICK m \in S : \A k \in S : ~ (<<k, m>> \in OpToRel(<, Nat))
  BY <1>1
<1>3. ASSUME NEW k \in S PROVE m <= k
  <2>1. <<k, m>> \in OpToRel(<, Nat) <=> k < m
    BY DEF OpToRel
  <2>2. k \in Nat /\ m \in Nat
    OBVIOUS
  <2>3. ~ (k < m)
    BY <1>2, <2>1
  <2>. QED
    BY <2>2, <2>3
<1>. QED
  BY <1>3

\* The first free slot is an index of the hints array or its length.
LEMMA FirstSlotType ==
    ASSUME NEW S \in SUBSET Slot
    PROVE  FirstSlot(S) \in 0 .. Block /\ (FirstSlot(S) # Block => FirstSlot(S) \in S)
<1>1. Block \in Nat \ {0}
  BY ConstantsAssumption
<1>2. CASE S = {}
  BY <1>1, <1>2 DEF FirstSlot
<1>3. CASE S # {}
  <2>1. PICK i \in S : TRUE
    BY <1>3
  <2>2. S \in SUBSET Nat
    BY <1>1 DEF Slot
  <2>3. \E m \in S : \A k \in S : m <= k
    BY LeastNatural, <1>3, <2>2
  <2>4. FirstSlot(S) \in S
    BY <1>3, <2>3 DEF FirstSlot
  <2>5. FirstSlot(S) \in Slot
    BY <2>4
  <2>. QED
    BY <1>1, <2>4, <2>5 DEF Slot
<1>. QED
  BY <1>2, <1>3

\* The operators on allocators return allocators.
LEMMA AllocatorOps ==
    ASSUME NEW a \in Allocator
    PROVE  /\ Collision(a) \in Allocator
           /\ \A o \in 0 .. MaxOrd : Probing(a, o) \in Allocator
           /\ Reserve(a, SuggestedSlot(a)) \in Allocator
           /\ \A o \in 0 .. MaxOrd : \A h \in Hint : SetHint(a, o, h) \in Allocator
           /\ Aged(a) \in Allocator
<1>. USE Bounds
<1>1. Free \in Hint /\ Taken \in Hint /\ 0 \in Hint
  BY DEF Hint
<1>2. ASSUME NEW b \in Allocator
      PROVE  /\ [b EXCEPT !.age = 0] \in Allocator
             /\ \A t \in 0 .. ReprobeWait : [b EXCEPT !.age = t] \in Allocator
             /\ \A t \in BOOLEAN : [b EXCEPT !.collided = t] \in Allocator
             /\ \A o \in 0 .. MaxOrd : [b EXCEPT !.val = o] \in Allocator
             /\ \A h \in [Slot -> Hint] : [b EXCEPT !.hints = h] \in Allocator
  BY DEF Allocator
<1>3. Collision(a) \in Allocator
  <2>. DEFINE b == [a EXCEPT !.collided = TRUE]
  <2>1. b \in Allocator
    BY <1>2
  <2>2. Collision(a) = [b EXCEPT !.age = 0]
    BY DEF Collision
  <2>. HIDE DEF b
  <2>. QED
    BY <1>2, <2>1, <2>2
<1>4. ASSUME NEW o \in 0 .. MaxOrd PROVE Probing(a, o) \in Allocator
  <2>. DEFINE b == [a EXCEPT !.val = o]
              c == [b EXCEPT !.age = 0]
              e == [c EXCEPT !.collided = FALSE]
  <2>1. Probing(a, o) = [e EXCEPT !.hints = NoHints]
    BY DEF Probing
  <2>2. b \in Allocator
    BY <1>2
  <2>. HIDE DEF b
  <2>3. c \in Allocator
    BY <1>2, <2>2
  <2>. HIDE DEF c
  <2>4. e \in Allocator
    BY <1>2, <2>3
  <2>. HIDE DEF e
  <2>5. NoHints \in [Slot -> Hint]
    BY <1>1 DEF NoHints
  <2>. QED
    BY <1>2, <2>1, <2>4, <2>5
<1>5. Reserve(a, SuggestedSlot(a)) \in Allocator
  <2>. DEFINE i == SuggestedSlot(a)
  <2>1. i = Block \/ i \in Slot
    BY FirstSlotType DEF SuggestedSlot
  <2>. HIDE DEF i
  <2>. QED
    BY <1>1, <2>1 DEF Reserve, Allocator
<1>6. ASSUME NEW o \in 0 .. MaxOrd, NEW h \in Hint PROVE SetHint(a, o, h) \in Allocator
  BY DEF SetHint, Allocator
<1>7. Aged(a) \in Allocator
  <2>1. \A h \in Hint : AgedHint(h) \in Hint
    BY DEF AgedHint, Older, Hint, Free, Taken
  <2>2. [i \in Slot |-> AgedHint(a.hints[i])] \in [Slot -> Hint]
    BY <2>1 DEF Allocator
  <2>3. Older(a.age, AgeBound(a)) \in 0 .. ReprobeWait
    BY DEF Older, AgeBound, Allocator
  <2>. DEFINE b == [a EXCEPT !.age = Older(@, AgeBound(a))]
  <2>4. b \in Allocator
    BY <1>2, <2>3
  <2>5. Aged(a) = [b EXCEPT !.hints = [i \in Slot |-> AgedHint(a.hints[i])]]
    BY DEF Aged
  <2>. HIDE DEF b
  <2>. QED
    BY <1>2, <2>2, <2>4, <2>5
<1>. QED
  BY <1>3, <1>4, <1>5, <1>6, <1>7

Inboxes == [Net -> SUBSET Datagram]

\* Every message the code builds is a Message.
LEMMA MessageTypes ==
    ASSUME NEW d \in Dev, NEW o \in 0 .. MaxOrd, NEW r \in Id, NEW h \in 0 .. MaxOrd,
           NEW q \in Id \cup {-1}
    PROVE  /\ ProbeMsg(d, o, r) \in Message
           /\ RegisteredMsg(d, o, q, h) \in Message
           /\ name[d] \in 0 .. MaxOrd => LogoutMsg(d) \in Message
<1>1. \A x \in 0 .. MaxOrd : NameOf(d, x) \in DevName
  BY ConstantsAssumption DEF NameOf, DevName
<1>. QED
  BY <1>1 DEF ProbeMsg, RegisteredMsg, LogoutMsg, Message

\* Sending adds one new datagram at most to each socket.
LEMMA SentType ==
    ASSUME NEW box \in Inboxes, NEW m \in Message
    PROVE  /\ Sent(box, m) \in Inboxes
           /\ \A n \in Net : Sent(box, m)[n] \subseteq box[n] \cup {[msg |-> m, age |-> 0]}
<1>1. [msg |-> m, age |-> 0] \in Datagram
  BY Bounds DEF Datagram
<1>. QED
  BY <1>1 DEF Sent, Inboxes

\* Reading takes datagrams away or leaves them.
LEMMA ReadType ==
    ASSUME inbox \in Inboxes, NEW n \in Net, NEW p, NEW box \in Read(n, p)
    PROVE  /\ box \in Inboxes
           /\ \A k \in Net : box[k] \subseteq inbox[k]
<1>1. box = inbox \/ box = [inbox EXCEPT ![n] = @ \ {p}]
  BY DEF Read
<1>. QED
  BY <1>1 DEF Inboxes

------------------------------------------------------------------------------
\* A suggestion for message m of prober r is above the ordinal it refers to.
Ahead(m) == m.type = "registered" /\ m.hint > 0 => m.hint > m.name.ord

\* A step that sends m keeps the sockets well-formed.
LEMMA SendStep ==
    ASSUME IInv, NEW box \in Inboxes, NEW m \in Message, Ahead(m),
           \A k \in Net : box[k] \subseteq inbox[k],
           inbox' = Sent(box, m)
    PROVE  inbox' \in Inboxes /\ HintsAhead'
<1>1. \A n \in Net : inbox'[n] \subseteq box[n] \cup {[msg |-> m, age |-> 0]}
  BY SentType
<1>2. \A n \in Net : \A p \in inbox'[n] : Ahead(p.msg)
  BY <1>1 DEF IInv, HintsAhead, Ahead
<1>. QED
  BY <1>2, SentType DEF HintsAhead, Ahead

\* So does a step that only takes datagrams away.
LEMMA QuietStep ==
    ASSUME IInv, inbox' \in Inboxes, \A k \in Net : inbox'[k] \subseteq inbox[k]
    PROVE  HintsAhead'
  BY DEF IInv, HintsAhead

------------------------------------------------------------------------------
LEMMA InitInv == Init => IInv
<1>. SUFFICES ASSUME Init PROVE IInv
  OBVIOUS
<1>1. NewAllocator \in Allocator
  BY Bounds DEF NewAllocator, NoHints, Allocator, Hint
<1>. QED
  BY <1>1 DEF Init, IInv, TypeOK, HintsAhead, RegisteredNamed, Id

\* The first device of a process that has one.
LEMMA LeaderType ==
    ASSUME TypeOK, NEW n \in Net, devs[n] # <<>>
    PROVE  Leader(n) \in Dev
  BY DEF TypeOK, Leader

LEMMA AddDevInv == ASSUME IInv, NEW d \in Dev, AddDev(d) PROVE IInv'
<1>. USE DEF IInv
<1>1. NewAllocator \in Allocator
  BY Bounds DEF NewAllocator, NoHints, Allocator, Hint
<1>2. PICK r \in RandomId : /\ random_id' = [random_id EXCEPT ![NetOf[d]] = r]
                            /\ inbox' = Sent(inbox, ProbeMsg(d, 1, r))
  BY DEF AddDev, NewRandomId
<1>3. ProbeMsg(d, 1, r) \in Message /\ Ahead(ProbeMsg(d, 1, r))
  <2>1. r \in Id /\ 1 \in 0 .. MaxOrd /\ 0 \in 0 .. MaxOrd
    BY Bounds DEF Id
  <2>. QED
    BY <2>1, MessageTypes DEF ProbeMsg, Ahead
<1>4. inbox \in Inboxes
  BY DEF TypeOK, Inboxes
<1>5. inbox' \in Inboxes /\ HintsAhead'
  BY <1>2, <1>3, <1>4, SendStep
<1>6. devs' \in [Net -> Seq(Dev)]
  <2>1. \A q \in Seq(Dev) : Append(q, d) \in Seq(Dev)
    OBVIOUS
  <2>2. NetOf[d] \in Net /\ devs' = [devs EXCEPT ![NetOf[d]] = Append(@, d)]
    BY ConstantsAssumption DEF AddDev
  <2>. QED
    BY <2>1, <2>2 DEF TypeOK
<1>7. alloc' \in [Dev -> Allocator] /\ random_id' \in [Net -> Id]
  BY <1>1, <1>2 DEF AddDev, TypeOK, Id
<1>. QED
  BY <1>5, <1>6, <1>7 DEF AddDev, TypeOK, RegisteredNamed, Inboxes

LEMMA ReinitInv == ASSUME IInv, NEW n \in Net, Reinit(n) PROVE IInv'
<1>. USE DEF IInv
<1>. DEFINE d == Leader(n)
           box == [inbox EXCEPT ![n] = {}]
<1>1. d \in Dev
  <2>1. devs[n] # <<>>
    BY DEF Reinit
  <2>. QED
    BY <2>1, LeaderType
<1>2. PICK r \in RandomId : /\ random_id' = [random_id EXCEPT ![n] = r]
                            /\ inbox' = Sent(box, ProbeMsg(d, 0, r))
  BY DEF Reinit, NewRandomId
<1>3. /\ alloc' = [alloc EXCEPT ![d] = Probing(@, 0)]
      /\ registered' = [registered EXCEPT ![d] = FALSE]
      /\ name' = name /\ devs' = devs
  BY <1>2 DEF Reinit
<1>4. ProbeMsg(d, 0, r) \in Message /\ Ahead(ProbeMsg(d, 0, r))
  <2>1. r \in Id /\ 0 \in 0 .. MaxOrd
    BY Bounds DEF Id
  <2>. QED
    BY <1>1, <2>1, MessageTypes DEF ProbeMsg, Ahead
<1>5. box \in Inboxes /\ \A k \in Net : box[k] \subseteq inbox[k]
  BY DEF TypeOK, Inboxes
<1>6. inbox' \in Inboxes /\ HintsAhead'
  <2>. HIDE DEF box, d
  <2>. QED
    BY <1>2, <1>4, <1>5, SendStep
<1>7. Probing(alloc[d], 0) \in Allocator
  <2>1. alloc[d] \in Allocator /\ 0 \in 0 .. MaxOrd
    BY <1>1, Bounds DEF TypeOK
  <2>. QED
    BY <2>1, AllocatorOps
<1>. HIDE DEF box, d
<1>. QED
  BY <1>1, <1>2, <1>3, <1>6, <1>7 DEF TypeOK, RegisteredNamed, Inboxes, Id

LEMMA PollInv == ASSUME IInv, NEW d \in Dev, Poll(d) PROVE IInv'
<1>. USE DEF IInv
<1>1. inbox \in Inboxes /\ NetOf[d] \in Net /\ random_id[NetOf[d]] \in Id
      /\ alloc[d] \in Allocator /\ alloc[d].val \in 0 .. MaxOrd
  BY ConstantsAssumption DEF TypeOK, Inboxes, Allocator
<1>2. ASSUME NEW o \in Nat, ProbeName(d, o) PROVE IInv'
  <2>. DEFINE m == ProbeMsg(d, o, random_id[NetOf[d]])
  <2>1. o \in 0 .. MaxOrd /\ 0 \in 0 .. MaxOrd
    BY <1>2, Bounds DEF ProbeName
  <2>2. m \in Message /\ Ahead(m)
    BY <1>1, <2>1, MessageTypes DEF ProbeMsg, Ahead
  <2>3. inbox' \in Inboxes /\ HintsAhead'
    BY <1>1, <1>2, <2>2, SendStep DEF ProbeName
  <2>4. Probing(alloc[d], o) \in Allocator
    BY <1>1, <2>1, AllocatorOps
  <2>. QED
    BY <1>2, <2>3, <2>4 DEF ProbeName, TypeOK, RegisteredNamed, Inboxes
<1>3. ASSUME Register(d), alloc' \in [Dev -> Allocator] PROVE IInv'
  <2>1. name'[d] \in 0 .. MaxOrd /\ name' \in [Dev -> 0 .. MaxOrd \cup {NoName}]
        /\ \A e \in Dev : registered'[e] => name'[e] # NoName
    BY <1>1, <1>3, Bounds DEF Register, TypeOK, NoName, RegisteredNamed
  <2>2. RegisteredMsg(d, name'[d], -1, 0) \in Message /\ Ahead(RegisteredMsg(d, name'[d], -1, 0))
    <3>1. 0 \in 0 .. MaxOrd /\ 0 \in Id /\ -1 \in Id \cup {-1}
      BY Bounds DEF Id
    <3>2. \A o \in 0 .. MaxOrd : /\ RegisteredMsg(d, o, -1, 0) \in Message
                                 /\ Ahead(RegisteredMsg(d, o, -1, 0))
      BY <3>1, MessageTypes DEF RegisteredMsg, Ahead
    <3>. QED
      BY <2>1, <3>2
  <2>3. inbox' \in Inboxes /\ HintsAhead'
    BY <1>1, <1>3, <2>2, SendStep DEF Register
  <2>. QED
    BY <1>3, <2>1, <2>3 DEF Register, TypeOK, RegisteredNamed, Inboxes
<1>4. CASE Reprobe(d)
  BY <1>1, <1>2, <1>4 DEF Reprobe
<1>5. CASE MoveOn(d)
  <2>1. NextOrdinal(alloc[d]) \in Nat
    <3>. DEFINE S == {i \in Slot : alloc[d].hints[i] = Free}
    <3>1. FirstSlot(S) \in 0 .. Block
      BY FirstSlotType
    <3>. HIDE DEF S
    <3>2. alloc[d].val + FirstSlot(S) + 1 \in Nat
      BY <1>1, <3>1, Bounds
    <3>. QED
      BY <3>2 DEF NextOrdinal, S
  <2>. QED
    BY <1>2, <1>5, <2>1 DEF MoveOn
<1>6. CASE Lock(d)
  <2>1. [alloc[d] EXCEPT !.locked = TRUE] \in Allocator
    BY <1>1 DEF Allocator
  <2>. QED
    BY <1>3, <1>6, <2>1 DEF Lock, TypeOK
<1>7. CASE Reregister(d)
  BY <1>3, <1>7 DEF Reregister, TypeOK
<1>. QED
  BY <1>4, <1>5, <1>6, <1>7 DEF Poll

\* The handlers of the allocation messages.
LEMMA RecvInv == ASSUME IInv, NEW n \in Net, Recv(n) PROVE IInv'
<1>. USE DEF IInv
<1>. DEFINE d == Leader(n)
           a == alloc[d]
<1>1. PICK p \in inbox[n] : RecvProbe(n, p) \/ RecvRegistered(n, p) \/ RecvLogout(n, p)
  BY DEF Recv
<1>2. d \in Dev /\ a \in Allocator
  BY LeaderType DEF Recv, TypeOK
<1>3. inbox \in Inboxes /\ random_id[n] \in Id /\ p \in Datagram /\ p.msg \in Message
  BY DEF TypeOK, Inboxes, Datagram
<1>4. a.val \in 0 .. MaxOrd
  BY <1>2 DEF Allocator
<1>. HIDE DEF d, a
<1>5. UNCHANGED <<devs, random_id, registered, name>>
  BY <1>1 DEF RecvProbe, RecvRegistered, RecvLogout
<1>6. ASSUME NEW b \in Allocator, alloc' = [alloc EXCEPT ![d] = b],
             inbox' \in Inboxes, HintsAhead'
      PROVE  IInv'
  BY <1>2, <1>5, <1>6 DEF TypeOK, RegisteredNamed, Inboxes
<1>7. ASSUME UNCHANGED alloc, inbox' \in Inboxes, HintsAhead'
      PROVE  IInv'
  BY <1>2, <1>5, <1>7 DEF TypeOK, RegisteredNamed, Inboxes
<1>8. \A box \in Read(n, p) : inbox' = box => inbox' \in Inboxes /\ HintsAhead'
  BY <1>3, ReadType, QuietStep
<1>9. CASE RecvProbe(n, p)
  <2>. DEFINE i == SuggestedSlot(a)
  <2>1. PICK box \in Read(n, p) :
         \/ UNCHANGED alloc /\ inbox' = box
         \/ /\ a.val + i + 1 <= MaxOrd
            /\ p.msg.name = NameOf(d, a.val)
            /\ alloc' = [alloc EXCEPT ![d] = Reserve(a, i)]
            /\ inbox' = Sent(box, RegisteredMsg(d, p.msg.name.ord, p.msg.temp_id, a.val + i + 1))
         \/ alloc' = [alloc EXCEPT ![d].online = TRUE] /\ inbox' = box
         \/ alloc' = [alloc EXCEPT ![d] = Collision(a)] /\ inbox' = box
    BY <1>9 DEF RecvProbe, d, a
  <2>2. CASE UNCHANGED alloc /\ inbox' = box
    BY <1>7, <1>8, <2>2
  <2>3. ASSUME /\ a.val + i + 1 <= MaxOrd
               /\ p.msg.name = NameOf(d, a.val)
               /\ alloc' = [alloc EXCEPT ![d] = Reserve(a, i)]
               /\ inbox' = Sent(box, RegisteredMsg(d, p.msg.name.ord, p.msg.temp_id, a.val + i + 1))
        PROVE  IInv'
    <3>. DEFINE m == RegisteredMsg(d, a.val, p.msg.temp_id, a.val + i + 1)
    <3>1. i \in 0 .. Block
      BY FirstSlotType DEF SuggestedSlot
    <3>2. Reserve(a, i) \in Allocator
      BY <1>2, AllocatorOps
    <3>. HIDE DEF i
    <3>3. a.val + i + 1 \in 0 .. MaxOrd /\ a.val + i + 1 > a.val
      BY <1>4, <2>3, <3>1, Bounds
    <3>4. p.msg.name.ord = a.val
      BY <2>3 DEF NameOf
    <3>5. p.msg.temp_id \in Id \cup {-1}
      BY <1>3, <1>9 DEF RecvProbe, Message
    <3>6. m \in Message
      <4>. DEFINE q == p.msg.temp_id
                 h == a.val + i + 1
      <4>1. q \in Id \cup {-1} /\ h \in 0 .. MaxOrd
        BY <3>3, <3>5
      <4>2. 0 \in Id
        BY DEF Id
      <4>. HIDE DEF q, h
      <4>3. RegisteredMsg(d, a.val, q, h) \in Message
        BY <1>2, <1>4, <4>1, <4>2, MessageTypes
      <4>. QED
        BY <4>3 DEF q, h
    <3>7. Ahead(m)
      BY <3>3 DEF Ahead, RegisteredMsg, NameOf
    <3>8. inbox' \in Inboxes /\ HintsAhead'
      BY <1>3, <2>3, <3>4, <3>6, <3>7, ReadType, SendStep
    <3>. QED
      BY <1>6, <2>3, <3>2, <3>8
  <2>4. CASE alloc' = [alloc EXCEPT ![d].online = TRUE] /\ inbox' = box
    <3>1. [a EXCEPT !.online = TRUE] \in Allocator
      BY <1>2 DEF Allocator
    <3>2. alloc' = [alloc EXCEPT ![d] = [a EXCEPT !.online = TRUE]]
      BY <2>4 DEF a
    <3>. QED
      BY <1>6, <1>8, <2>4, <3>1, <3>2
  <2>5. CASE alloc' = [alloc EXCEPT ![d] = Collision(a)] /\ inbox' = box
    BY <1>2, <1>6, <1>8, <2>5, AllocatorOps
  <2>. QED
    BY <2>1, <2>2, <2>3, <2>4, <2>5
<1>10. CASE RecvRegistered(n, p)
  <2>. DEFINE b == SetHint(a, p.msg.name.ord, Taken)
             c == IF p.msg.hint = 0 THEN b ELSE SetHint(b, p.msg.hint, 0)
  <2>1. PICK box \in Read(n, p) :
         \/ UNCHANGED alloc /\ inbox' = box
         \/ alloc' = [alloc EXCEPT ![d] = c] /\ inbox' = box
         \/ alloc' = [alloc EXCEPT ![d] = Collision(a)] /\ inbox' = box
         \/ /\ alloc' = [alloc EXCEPT ![d] = Probing(a, p.msg.hint)]
            /\ inbox' = Sent(box, ProbeMsg(d, p.msg.hint, random_id[n]))
    BY <1>10 DEF RecvRegistered, d, a
  <2>2. p.msg.hint \in 0 .. MaxOrd /\ p.msg.name.ord \in 0 .. MaxOrd
    BY <1>3, <1>10 DEF RecvRegistered, Message, DevName
  <2>3. c \in Allocator
    <3>1. Taken \in Hint /\ 0 \in Hint
      BY Bounds DEF Hint
    <3>2. b \in Allocator
      BY <1>2, <2>2, <3>1, AllocatorOps
    <3>. HIDE DEF b
    <3>. QED
      BY <2>2, <3>1, <3>2, AllocatorOps
  <2>4. CASE UNCHANGED alloc /\ inbox' = box
    BY <1>7, <1>8, <2>4
  <2>5. CASE alloc' = [alloc EXCEPT ![d] = c] /\ inbox' = box
    BY <1>6, <1>8, <2>3, <2>5
  <2>6. CASE alloc' = [alloc EXCEPT ![d] = Collision(a)] /\ inbox' = box
    BY <1>2, <1>6, <1>8, <2>6, AllocatorOps
  <2>7. ASSUME /\ alloc' = [alloc EXCEPT ![d] = Probing(a, p.msg.hint)]
               /\ inbox' = Sent(box, ProbeMsg(d, p.msg.hint, random_id[n]))
        PROVE  IInv'
    <3>1. ProbeMsg(d, p.msg.hint, random_id[n]) \in Message
      BY <1>2, <1>3, <2>2, MessageTypes
    <3>2. Ahead(ProbeMsg(d, p.msg.hint, random_id[n]))
      BY DEF Ahead, ProbeMsg
    <3>3. inbox' \in Inboxes /\ HintsAhead'
      BY <1>3, <2>7, <3>1, <3>2, ReadType, SendStep
    <3>4. Probing(a, p.msg.hint) \in Allocator
      BY <1>2, <2>2, AllocatorOps
    <3>. QED
      BY <1>6, <2>7, <3>3, <3>4
  <2>. HIDE DEF c
  <2>. QED
    BY <2>1, <2>4, <2>5, <2>6, <2>7
<1>11. CASE RecvLogout(n, p)
  <2>. DEFINE b == IF a.locked /\ LogoutMatches(d, p.msg.name)
                   THEN SetHint(a, p.msg.name.ord, Free) ELSE a
  <2>1. p.msg.name.ord \in 0 .. MaxOrd /\ Free \in Hint
    BY <1>3, <1>11 DEF RecvLogout, Message, DevName, Hint
  <2>2. b \in Allocator
    BY <1>2, <2>1, AllocatorOps
  <2>3. alloc' = [alloc EXCEPT ![d] = b] /\ inbox' \in Read(n, p)
    BY <1>11 DEF RecvLogout, d, a
  <2>. HIDE DEF b
  <2>. QED
    BY <1>6, <1>8, <2>2, <2>3
<1>. QED
  BY <1>1, <1>9, <1>10, <1>11

\* The end of a process.
LEMMA GoneInv ==
    ASSUME IInv, NEW n \in Net, Len(devs[n]) = 1, Gone(n), inbox' \in Inboxes, HintsAhead'
    PROVE  IInv'
<1>1. Leader(n) \in Dev
  BY LeaderType DEF IInv
<1>2. NewAllocator \in Allocator /\ <<>> \in Seq(Dev)
  BY Bounds DEF NewAllocator, NoHints, Allocator, Hint
<1>. QED
  BY <1>1, <1>2 DEF IInv, Gone, TypeOK, RegisteredNamed, Inboxes, Id

LEMMA LeaveInv == ASSUME IInv, NEW n \in Net, Leave(n) \/ Crash(n) PROVE IInv'
<1>. DEFINE box == [inbox EXCEPT ![n] = {}]
<1>1. box \in Inboxes /\ \A k \in Net : box[k] \subseteq inbox[k]
  BY DEF IInv, TypeOK, Inboxes
<1>2. /\ Len(devs[n]) = 1 /\ Gone(n)
      /\ \/ inbox' = box
         \/ registered[Leader(n)] /\ inbox' = Sent(box, LogoutMsg(Leader(n)))
  BY DEF Leave, Crash
<1>. HIDE DEF box
<1>3. CASE inbox' = box
  <2>1. inbox' \in Inboxes /\ HintsAhead'
    BY <1>1, <1>3, QuietStep
  <2>. QED
    BY <1>2, <2>1, GoneInv
<1>4. CASE registered[Leader(n)] /\ inbox' = Sent(box, LogoutMsg(Leader(n)))
  <2>. DEFINE d == Leader(n)
  <2>1. d \in Dev
    BY <1>2, LeaderType DEF IInv
  <2>2. name[d] \in 0 .. MaxOrd
    BY <1>4, <2>1 DEF IInv, TypeOK, RegisteredNamed
  <2>3. 0 \in 0 .. MaxOrd /\ 0 \in Id
    BY Bounds DEF Id
  <2>. HIDE DEF d
  <2>4. LogoutMsg(d) \in Message /\ Ahead(LogoutMsg(d))
    BY <2>1, <2>2, <2>3, MessageTypes DEF Ahead, LogoutMsg
  <2>5. inbox' \in Inboxes /\ HintsAhead'
    BY <1>1, <1>4, <2>4, SendStep DEF d
  <2>. QED
    BY <1>2, <2>5, GoneInv
<1>. QED
  BY <1>2, <1>3, <1>4

LEMMA LoseInv == ASSUME IInv, NEW n \in Net, Lose(n) PROVE IInv'
<1>1. inbox' \in Inboxes /\ \A k \in Net : inbox'[k] \subseteq inbox[k]
  BY DEF Lose, IInv, TypeOK, Inboxes
<1>. QED
  BY <1>1, QuietStep DEF Lose, IInv, TypeOK, RegisteredNamed, Inboxes

LEMMA TickInv == ASSUME IInv, Tick PROVE IInv'
<1>1. alloc' \in [Dev -> Allocator]
  BY AllocatorOps DEF IInv, TypeOK, Tick
<1>2. ASSUME NEW n \in Net, NEW q \in inbox'[n]
      PROVE  q \in Datagram /\ Ahead(q.msg)
  <2>1. PICK p \in inbox[n] : q = [p EXCEPT !.age = Older(@, MaxDelay)]
    BY <1>2 DEF Tick
  <2>2. p \in Datagram /\ Ahead(p.msg)
    BY <2>1 DEF IInv, TypeOK, HintsAhead, Ahead
  <2>3. q.msg = p.msg /\ q \in Datagram
    BY <2>1, <2>2, Bounds DEF Datagram, Older
  <2>. QED
    BY <2>2, <2>3
<1>3. inbox' \in [Net -> SUBSET Datagram]
  <2>1. inbox' = [n \in Net |-> inbox'[n]]
    BY DEF Tick
  <2>. QED
    BY <1>2, <2>1
<1>. QED
  BY <1>1, <1>2, <1>3 DEF Tick, IInv, TypeOK, HintsAhead, RegisteredNamed, Ahead

LEMMA StepInv == IInv /\ [Next]_vars => IInv'
<1>. SUFFICES ASSUME IInv, [Next]_vars PROVE IInv'
  OBVIOUS
<1>1. ASSUME NEW d \in Dev, AddDev(d) PROVE IInv'
  BY <1>1, AddDevInv
<1>2. ASSUME NEW d \in Dev, Poll(d) PROVE IInv'
  BY <1>2, PollInv
<1>3. ASSUME NEW n \in Net, Recv(n) PROVE IInv'
  BY <1>3, RecvInv
<1>4. ASSUME NEW n \in Net, Lose(n) PROVE IInv'
  BY <1>4, LoseInv
<1>5. ASSUME NEW n \in Net, Reinit(n) PROVE IInv'
  BY <1>5, ReinitInv
<1>6. ASSUME NEW n \in Net, Leave(n) \/ Crash(n) PROVE IInv'
  BY <1>6, LeaveInv
<1>7. CASE Tick
  BY <1>7, TickInv
<1>8. CASE UNCHANGED vars
  BY <1>8 DEF vars, IInv, TypeOK, HintsAhead, RegisteredNamed
<1>. QED
  BY <1>1, <1>2, <1>3, <1>4, <1>5, <1>6, <1>7, <1>8 DEF Next

\* The inductive invariant holds on every network.
LEMMA Invariance == Spec => []IInv
  BY InitInv, StepInv, PTL DEF Spec

\* Every variable keeps its type, whatever arrives and whoever leaves; the
\* ordinals the handlers compute stay natural numbers.
THEOREM TypeCorrect == Spec => []TypeOK
  BY Invariance, PTL DEF IInv

------------------------------------------------------------------------------
(***************************************************************************)
(* Action properties.                                                      *)
(***************************************************************************)

LEMMA PlacedStep == IInv /\ Placed /\ [Next]_vars => Placed'
<1>. SUFFICES ASSUME IInv, Placed, [Next]_vars PROVE Placed'
  OBVIOUS
<1>1. ASSUME NEW d \in Dev, AddDev(d) PROVE Placed'
  <2>1. NetOf[d] \in Net /\ devs' = [devs EXCEPT ![NetOf[d]] = Append(@, d)]
    BY <1>1, ConstantsAssumption DEF AddDev
  <2>2. ASSUME NEW n \in Net, NEW i \in DOMAIN devs'[n] PROVE NetOf[devs'[n][i]] = n
    <3>1. devs[n] \in Seq(Dev)
      BY DEF IInv, TypeOK
    <3>2. CASE n # NetOf[d]
      BY <2>1, <2>2, <3>2 DEF IInv, TypeOK, Placed
    <3>3. CASE n = NetOf[d]
      <4>1. devs'[n] = Append(devs[n], d)
        BY <2>1, <3>3 DEF IInv, TypeOK
      <4>2. CASE i = Len(devs[n]) + 1
        BY <3>1, <3>3, <4>1, <4>2
      <4>3. CASE i # Len(devs[n]) + 1
        <5>1. i \in DOMAIN devs[n] /\ devs'[n][i] = devs[n][i]
          BY <2>2, <3>1, <4>1, <4>3
        <5>. QED
          BY <5>1 DEF Placed
      <4>. QED
        BY <4>2, <4>3
    <3>. QED
      BY <3>2, <3>3
  <2>. QED
    BY <2>2 DEF Placed
<1>2. ASSUME NEW n \in Net, Leave(n) \/ Crash(n) PROVE Placed'
  <2>1. devs' = [devs EXCEPT ![n] = <<>>]
    BY <1>2 DEF Leave, Crash, Gone
  <2>2. ASSUME NEW k \in Net, NEW i \in DOMAIN devs'[k] PROVE NetOf[devs'[k][i]] = k
    <3>1. devs'[k] = <<>> \/ devs'[k] = devs[k]
      BY <2>1 DEF IInv, TypeOK
    <3>. QED
      BY <2>2, <3>1 DEF Placed
  <2>. QED
    BY <2>2 DEF Placed
<1>3. CASE UNCHANGED devs
  BY <1>3 DEF Placed
<1>4. ASSUME NEW d \in Dev, Poll(d) PROVE UNCHANGED devs
  BY <1>4 DEF Poll, Reprobe, MoveOn, Lock, Reregister, ProbeName, Register
<1>5. ASSUME NEW n \in Net, Recv(n) PROVE UNCHANGED devs
  BY <1>5 DEF Recv, RecvProbe, RecvRegistered, RecvLogout
<1>6. ASSUME NEW n \in Net, Lose(n) \/ Reinit(n) PROVE UNCHANGED devs
  BY <1>6 DEF Lose, Reinit
<1>7. Tick \/ UNCHANGED vars => UNCHANGED devs
  BY DEF Tick, vars
<1>. QED
  BY <1>1, <1>2, <1>3, <1>4, <1>5, <1>6, <1>7 DEF Next

\* Handling a message never changes a locked ordinal nor the lock, and moves
\* an unlocked one up.
LEMMA RecvEffect ==
    ASSUME IInv, NEW n \in Net, Recv(n), NEW e \in Dev
    PROVE  /\ Locked(e)' = Locked(e)
           /\ alloc'[e].val >= alloc[e].val
           /\ Locked(e) => alloc'[e].val = alloc[e].val
<1>. DEFINE d == Leader(n)
           a == alloc[d]
           Moved(b) == /\ b.locked = a.locked
                       /\ b.val >= a.val
                       /\ a.locked => b.val = a.val
<1>1. PICK p \in inbox[n] : RecvProbe(n, p) \/ RecvRegistered(n, p) \/ RecvLogout(n, p)
  BY DEF Recv
<1>2. d \in Dev /\ a \in Allocator /\ alloc \in [Dev -> Allocator]
  BY LeaderType DEF Recv, IInv, TypeOK
<1>3. a.val \in 0 .. MaxOrd /\ alloc[e].val \in 0 .. MaxOrd
  BY <1>2 DEF Allocator
<1>4. ASSUME NEW b, alloc' = [alloc EXCEPT ![d] = b], Moved(b)
      PROVE  /\ Locked(e)' = Locked(e)
             /\ alloc'[e].val >= alloc[e].val
             /\ Locked(e) => alloc'[e].val = alloc[e].val
  BY <1>2, <1>3, <1>4 DEF Locked
<1>5. UNCHANGED alloc => alloc' = [alloc EXCEPT ![d] = a] /\ Moved(a)
  BY <1>2, <1>3
<1>6. /\ Moved(Collision(a)) /\ Moved([a EXCEPT !.online = TRUE])
      /\ \A i : Moved(Reserve(a, i))
  BY <1>2, <1>3 DEF Collision, Reserve, Allocator
<1>7. \A o, h : SetHint(a, o, h).val = a.val /\ SetHint(a, o, h).locked = a.locked
  BY <1>2 DEF SetHint, Allocator
<1>8. CASE RecvProbe(n, p)
  <2>1. \/ UNCHANGED alloc
        \/ alloc' = [alloc EXCEPT ![d] = Reserve(a, SuggestedSlot(a))]
        \/ alloc' = [alloc EXCEPT ![d].online = TRUE]
        \/ alloc' = [alloc EXCEPT ![d] = Collision(a)]
    BY <1>8 DEF RecvProbe
  <2>. HIDE DEF Moved, d
  <2>. QED
    BY <1>4, <1>5, <1>6, <2>1
<1>9. CASE RecvLogout(n, p)
  <2>. DEFINE b == IF a.locked /\ LogoutMatches(d, p.msg.name)
                   THEN SetHint(a, p.msg.name.ord, Free) ELSE a
  <2>1. alloc' = [alloc EXCEPT ![d] = b]
    BY <1>9 DEF RecvLogout
  <2>2. Moved(b)
    BY <1>3, <1>7
  <2>. HIDE DEF Moved, d, b
  <2>. QED
    BY <1>4, <2>1, <2>2
<1>10. CASE RecvRegistered(n, p)
  <2>. DEFINE b == SetHint(a, p.msg.name.ord, Taken)
             c == IF p.msg.hint = 0 THEN b ELSE SetHint(b, p.msg.hint, 0)
             q == Probing(a, p.msg.hint)
  <2>1. \/ UNCHANGED alloc
        \/ alloc' = [alloc EXCEPT ![d] = c]
        \/ alloc' = [alloc EXCEPT ![d] = Collision(a)]
        \/ /\ alloc' = [alloc EXCEPT ![d] = q]
           /\ ~ a.locked /\ p.msg.name = NameOf(d, a.val) /\ p.msg.hint > 0
    BY <1>10 DEF RecvRegistered
  <2>2. p.msg \in Message /\ p.msg.type = "registered"
    BY <1>10 DEF RecvRegistered, IInv, TypeOK, Datagram
  <2>3. p.msg.hint \in 0 .. MaxOrd /\ p.msg.name.ord \in 0 .. MaxOrd
    BY <2>2 DEF Message, DevName
  <2>4. Moved(c)
    <3>1. b \in Allocator
      <4>1. Taken \in Hint
        BY DEF Hint
      <4>. QED
        BY <1>2, <2>3, <4>1, AllocatorOps
    <3>2. b.val = a.val /\ b.locked = a.locked
      BY <1>7
    <3>3. \A o, h : SetHint(b, o, h).val = b.val /\ SetHint(b, o, h).locked = b.locked
      <4>. HIDE DEF b
      <4>. QED
        BY <3>1 DEF SetHint, Allocator
    <3>. HIDE DEF b
    <3>. QED
      BY <1>3, <3>2, <3>3
  <2>5. ASSUME ~ a.locked, p.msg.name = NameOf(d, a.val), p.msg.hint > 0 PROVE Moved(q)
    <3>1. p.msg.hint > a.val
      BY <2>2, <2>5 DEF IInv, HintsAhead, NameOf
    <3>2. q.val = p.msg.hint /\ q.locked = a.locked
      BY <1>2 DEF Probing, Allocator
    <3>. QED
      BY <1>3, <2>3, <2>5, <3>1, <3>2
  <2>. HIDE DEF Moved, d, c, q
  <2>. QED
    BY <1>4, <1>5, <1>6, <2>1, <2>4, <2>5
<1>. QED
  BY <1>1, <1>8, <1>9, <1>10

\* What a step does to a device that stays.
LEMMA StepEffect ==
    ASSUME IInv, Placed, ~ CanReinit, [Next]_vars, NEW d \in Dev, Added(d), Added(d)'
    PROVE  /\ alloc'[d].val >= alloc[d].val
           /\ Locked(d) => Locked(d)' /\ alloc'[d].val = alloc[d].val
<1>. DEFINE Kept == /\ alloc'[d].val >= alloc[d].val
                    /\ Locked(d) => Locked(d)' /\ alloc'[d].val = alloc[d].val
<1>1. alloc \in [Dev -> Allocator] /\ alloc[d] \in Allocator /\ alloc[d].val \in 0 .. MaxOrd
  BY DEF IInv, TypeOK, Allocator
<1>2. alloc'[d] = alloc[d] => Kept
  BY <1>1 DEF Locked
<1>3. ASSUME NEW e \in Dev, AddDev(e) PROVE Kept
  <2>1. d # e
    BY <1>3 DEF AddDev
  <2>2. alloc'[d] = alloc[d]
    BY <1>1, <1>3, <2>1 DEF AddDev
  <2>. QED
    BY <1>2, <2>2
<1>4. ASSUME NEW e \in Dev, Poll(e) PROVE Kept
  <2>1. CASE d # e
    <3>1. alloc'[d] = alloc[d]
      BY <1>1, <1>4, <2>1 DEF Poll, Reprobe, MoveOn, Lock, Reregister, ProbeName
    <3>. QED
      BY <1>2, <3>1
  <2>2. CASE d = e
    <3>1. CASE Reprobe(d)
      BY <1>1, <3>1 DEF Reprobe, ProbeName, Probing, Locked, Allocator
    <3>2. CASE MoveOn(d)
      <4>1. NextOrdinal(alloc[d]) > alloc[d].val
        <5>. DEFINE S == {i \in Slot : alloc[d].hints[i] = Free}
        <5>1. FirstSlot(S) \in 0 .. Block
          BY FirstSlotType
        <5>. HIDE DEF S
        <5>2. alloc[d].val + FirstSlot(S) + 1 > alloc[d].val
          BY <1>1, <5>1, Bounds
        <5>. QED
          BY <5>2 DEF NextOrdinal, S
      <4>2. ~ Locked(d) /\ alloc'[d].val = NextOrdinal(alloc[d])
        BY <1>1, <3>2 DEF MoveOn, ProbeName, Probing, Locked, Allocator
      <4>3. NextOrdinal(alloc[d]) <= MaxOrd
        BY <3>2 DEF MoveOn, ProbeName
      <4>4. alloc'[d].val \in 0 .. MaxOrd
        BY StepInv DEF IInv, TypeOK, Allocator
      <4>. QED
        BY <1>1, <4>1, <4>2, <4>4
    <3>3. CASE Lock(d)
      BY <1>1, <3>3 DEF Lock, Locked, Allocator
    <3>4. CASE Reregister(d)
      BY <1>2, <3>4 DEF Reregister
    <3>. QED
      BY <1>4, <2>2, <3>1, <3>2, <3>3, <3>4 DEF Poll
  <2>. QED
    BY <2>1, <2>2
<1>5. ASSUME NEW n \in Net, Recv(n) PROVE Kept
  BY <1>5, RecvEffect
<1>6. ASSUME NEW n \in Net, Leave(n) \/ Crash(n) PROVE Kept
  <2>1. devs' = [devs EXCEPT ![n] = <<>>]
        /\ alloc' = [alloc EXCEPT ![Leader(n)] = NewAllocator] /\ Len(devs[n]) = 1
    BY <1>6 DEF Leave, Crash, Gone
  <2>2. d # Leader(n)
    <3>1. NetOf[Leader(n)] = n
      BY <2>1 DEF Placed, Leader, IInv, TypeOK
    <3>2. d = Leader(n) => ~ Added(d)'
      BY <2>1, <3>1 DEF Added, IInv, TypeOK
    <3>. QED
      BY <3>2
  <2>3. alloc'[d] = alloc[d]
    BY <1>1, <2>1, <2>2
  <2>. QED
    BY <1>2, <2>3
<1>7. CASE Tick
  <2>1. alloc'[d] = Aged(alloc[d])
    BY <1>7 DEF Tick
  <2>2. Aged(alloc[d]).val = alloc[d].val /\ Aged(alloc[d]).locked = alloc[d].locked
    BY <1>1 DEF Aged, Allocator
  <2>. QED
    BY <1>1, <2>1, <2>2 DEF Locked
<1>8. ASSUME NEW n \in Net, Lose(n) PROVE Kept
  BY <1>2, <1>8 DEF Lose
<1>9. ASSUME UNCHANGED vars PROVE Kept
  <2>1. alloc'[d] = alloc[d]
    BY <1>9 DEF vars
  <2>. QED
    BY <1>2, <2>1
<1>10. \A n \in Net : ~ Reinit(n)
  BY DEF Reinit
<1>. QED
  BY <1>3, <1>4, <1>5, <1>6, <1>7, <1>8, <1>9, <1>10 DEF Next

LEMMA PlacedInvariance == Spec => []Placed
<1>1. Init => Placed
  BY DEF Init, Placed
<1>. QED
  BY <1>1, PlacedStep, Invariance, PTL DEF Spec

\* Whoever suggests the next ordinal, the search for a name only goes up, on
\* lossy networks as well, while nobody changes the network interface.
THEOREM SearchUp == ASSUME ~ CanReinit PROVE Spec => SearchGoesUp
<1>1. IInv /\ Placed /\ [Next]_vars =>
        [\A d \in Dev : Added(d) /\ Added(d)' => alloc'[d].val >= alloc[d].val]_vars
  BY StepEffect
<1>. QED
  BY <1>1, Invariance, PlacedInvariance, PTL DEF Spec, SearchGoesUp

\* NameInv is inductive together with IInv.
LEMMA NameStep == ASSUME ~ CanReinit PROVE IInv /\ Placed /\ NameInv /\ [Next]_vars => NameInv'
<1>. SUFFICES ASSUME IInv, Placed, NameInv, [Next]_vars, NEW d \in Dev
              PROVE  /\ registered'[d] => name'[d] = alloc'[d].val /\ Locked(d)'
                     /\ name'[d] # NoName => registered'[d]
                     /\ ~ Added(d)' => ~ Locked(d)'
  BY DEF NameInv
<1>. DEFINE Good == /\ registered'[d] => name'[d] = alloc'[d].val /\ Locked(d)'
                    /\ name'[d] # NoName => registered'[d]
                    /\ ~ Added(d)' => ~ Locked(d)'
<1>1. alloc \in [Dev -> Allocator] /\ alloc[d] \in Allocator
      /\ registered \in [Dev -> BOOLEAN] /\ DOMAIN name = Dev
  BY DEF IInv, TypeOK
<1>2. /\ registered[d] => name[d] = alloc[d].val /\ Locked(d)
      /\ name[d] # NoName => registered[d]
      /\ ~ Added(d) => ~ Locked(d)
  BY DEF NameInv
<1>3. ASSUME registered'[d] = registered[d], name'[d] = name[d],
             Locked(d)' = Locked(d), Locked(d) => alloc'[d].val = alloc[d].val,
             Added(d) => Added(d)'
      PROVE  Good
  BY <1>2, <1>3
<1>4. ASSUME NEW e \in Dev, AddDev(e) PROVE Good
  <2>1. registered' = registered /\ name' = name /\ alloc' = [alloc EXCEPT ![e] = NewAllocator]
        /\ devs' = [devs EXCEPT ![NetOf[e]] = Append(@, e)] /\ ~ Added(e)
    BY <1>4 DEF AddDev
  <2>2. CASE d = e
    BY <1>1, <1>2, <2>1, <2>2 DEF NewAllocator, Locked
  <2>3. CASE d # e
    <3>1. Added(d) => Added(d)'
      <4>. SUFFICES ASSUME Added(d) PROVE Added(d)'
        OBVIOUS
      <4>1. PICK i \in DOMAIN devs[NetOf[d]] : devs[NetOf[d]][i] = d
        BY DEF Added
      <4>2. NetOf[d] \in Net /\ devs \in [Net -> Seq(Dev)]
        BY ConstantsAssumption DEF IInv, TypeOK
      <4>3. i \in DOMAIN devs'[NetOf[d]] /\ devs'[NetOf[d]][i] = d
        BY <2>1, <4>1, <4>2
      <4>. QED
        BY <4>3 DEF Added
    <3>2. alloc'[d] = alloc[d]
      BY <1>1, <2>1, <2>3
    <3>. QED
      BY <1>3, <2>1, <3>1, <3>2 DEF Locked
  <2>. QED
    BY <2>2, <2>3
<1>5. ASSUME NEW e \in Dev, Poll(e) PROVE Good
  <2>1. devs' = devs /\ Added(e) /\ ~ registered[e]
    BY <1>5 DEF Poll, Reprobe, MoveOn, Lock, Reregister, ProbeName, Register
  <2>2. Added(d)' <=> Added(d)
    BY <2>1 DEF Added
  <2>3. CASE d # e
    <3>1. alloc'[d] = alloc[d] /\ registered'[d] = registered[d] /\ name'[d] = name[d]
      BY <1>1, <1>5, <2>3 DEF Poll, Reprobe, MoveOn, Lock, Reregister, ProbeName, Register
    <3>. QED
      BY <1>3, <2>2, <3>1 DEF Locked
  <2>4. CASE d = e
    <3>1. name[d] = NoName
      BY <1>2, <2>1, <2>4
    <3>2. CASE Reprobe(d) \/ MoveOn(d)
      BY <1>1, <2>1, <2>2, <2>4, <3>1, <3>2 DEF Reprobe, MoveOn, ProbeName
    <3>3. CASE Lock(d) \/ Reregister(d)
      <4>1. alloc'[d].locked /\ alloc'[d].val = alloc[d].val
        BY <1>1, <3>3 DEF Lock, Reregister, Allocator
      <4>2. registered'[d] /\ name'[d] = alloc[d].val
        BY <1>1, <3>1, <3>3 DEF Lock, Reregister, Register
      <4>. QED
        BY <2>1, <2>2, <2>4, <4>1, <4>2 DEF Locked
    <3>. QED
      BY <1>5, <2>4, <3>2, <3>3 DEF Poll
  <2>. QED
    BY <2>3, <2>4
<1>6. ASSUME NEW n \in Net, Recv(n) PROVE Good
  <2>1. UNCHANGED <<devs, registered, name>>
    BY <1>6 DEF Recv, RecvProbe, RecvRegistered, RecvLogout
  <2>. QED
    BY <1>3, <1>6, <2>1, RecvEffect DEF Added
<1>7. ASSUME NEW n \in Net, Leave(n) \/ Crash(n) PROVE Good
  <2>1. /\ devs' = [devs EXCEPT ![n] = <<>>] /\ Len(devs[n]) = 1
        /\ alloc' = [alloc EXCEPT ![Leader(n)] = NewAllocator]
        /\ registered' = [registered EXCEPT ![Leader(n)] = FALSE]
        /\ name' = [name EXCEPT ![Leader(n)] = NoName]
    BY <1>7 DEF Leave, Crash, Gone
  <2>2. CASE d = Leader(n)
    BY <1>1, <2>1, <2>2 DEF NewAllocator, Locked
  <2>3. CASE d # Leader(n)
    <3>1. Added(d) => Added(d)'
      <4>. SUFFICES ASSUME Added(d) PROVE Added(d)'
        OBVIOUS
      <4>1. PICK i \in DOMAIN devs[NetOf[d]] : devs[NetOf[d]][i] = d
        BY DEF Added
      <4>2. NetOf[d] \in Net /\ devs \in [Net -> Seq(Dev)]
        BY ConstantsAssumption DEF IInv, TypeOK
      <4>3. NetOf[d] # n
        <5>. SUFFICES ASSUME NetOf[d] = n PROVE FALSE
          OBVIOUS
        <5>1. i = 1
          BY <2>1, <4>1, <4>2
        <5>. QED
          BY <2>3, <4>1, <5>1 DEF Leader
      <4>4. devs'[NetOf[d]] = devs[NetOf[d]]
        BY <2>1, <4>2, <4>3
      <4>. QED
        BY <4>1, <4>4 DEF Added
    <3>2. alloc'[d] = alloc[d] /\ registered'[d] = registered[d] /\ name'[d] = name[d]
      BY <1>1, <2>1, <2>3
    <3>. QED
      BY <1>3, <3>1, <3>2 DEF Locked
  <2>. QED
    BY <2>2, <2>3
<1>8. CASE Tick
  <2>1. alloc'[d] = Aged(alloc[d]) \/ alloc'[d] = alloc[d]
    BY <1>8 DEF Tick
  <2>2. Aged(alloc[d]).val = alloc[d].val /\ Aged(alloc[d]).locked = alloc[d].locked
    BY <1>1 DEF Aged, Allocator
  <2>3. Locked(d)' = Locked(d) /\ alloc'[d].val = alloc[d].val
    BY <2>1, <2>2 DEF Locked
  <2>4. UNCHANGED <<devs, registered, name>>
    BY <1>8 DEF Tick
  <2>5. Added(d)' <=> Added(d)
    BY <2>4 DEF Added
  <2>. QED
    BY <1>3, <2>3, <2>4, <2>5
<1>9. ASSUME UNCHANGED <<devs, alloc, registered, name>> PROVE Good
  <2>1. Locked(d)' = Locked(d) /\ (Added(d)' <=> Added(d))
    BY <1>9 DEF Locked, Added
  <2>. QED
    BY <1>3, <1>9, <2>1
<1>10. ASSUME NEW n \in Net, Lose(n) PROVE Good
  BY <1>9, <1>10 DEF Lose
<1>11. ASSUME UNCHANGED vars PROVE Good
  BY <1>9, <1>11 DEF vars
<1>12. \A n \in Net : ~ Reinit(n)
  BY DEF Reinit
<1>. QED
  BY <1>4, <1>5, <1>6, <1>7, <1>8, <1>10, <1>11, <1>12 DEF Next

\* While nobody changes the network interface, NameInv always holds.
LEMMA NameInvariance == ASSUME ~ CanReinit PROVE Spec => []NameInv
<1>1. Init => NameInv
  BY DEF Init, NameInv, NewAllocator, Locked
<1>. QED
  BY <1>1, NameStep, Invariance, PlacedInvariance, PTL DEF Spec

\* The name under which peers know a registered device is the one it locked,
\* whose hash is its id.
THEOREM NameMatches == ASSUME ~ CanReinit PROVE Spec => []NameMatchesId
<1>1. NameInv => NameMatchesId
  BY DEF NameInv, NameMatchesId
<1>. QED
  BY <1>1, NameInvariance, PTL

\* "Once the ordinal is locked it won't change" (mpr_net_poll), for as long as
\* the network interface stays the same.
THEOREM LockedKept == ASSUME ~ CanReinit PROVE Spec => LockedOrdinalKept
<1>1. IInv /\ Placed /\ NameInv /\ [Next]_vars =>
        [\A d \in Dev : Locked(d) /\ Added(d)' =>
            Locked(d)' /\ alloc'[d].val = alloc[d].val]_vars
  <2>1. NameInv => \A d \in Dev : Locked(d) => Added(d)
    BY DEF NameInv
  <2>. QED
    BY <2>1, StepEffect
<1>. QED
  BY <1>1, Invariance, PlacedInvariance, NameInvariance, PTL DEF Spec, LockedOrdinalKept

\* A device keeps the name its peers know for as long as it exists, through
\* changes of the network interface as well.
THEOREM NameStays == Spec => NameKept
<1>1. ASSUME IInv, Placed, Next, NEW d \in Dev, name[d] # NoName, Added(d)'
      PROVE  name'[d] = name[d]
  <2>1. DOMAIN name = Dev
    BY <1>1 DEF IInv, TypeOK
  <2>2. ASSUME NEW e \in Dev, Poll(e) PROVE name'[d] = name[d]
    BY <1>1, <2>1, <2>2 DEF Poll, Reprobe, MoveOn, Lock, Reregister, ProbeName, Register
  <2>3. ASSUME NEW n \in Net, Leave(n) \/ Crash(n) PROVE name'[d] = name[d]
    <3>1. /\ devs' = [devs EXCEPT ![n] = <<>>] /\ Len(devs[n]) = 1
          /\ name' = [name EXCEPT ![Leader(n)] = NoName]
      BY <2>3 DEF Leave, Crash, Gone
    <3>2. NetOf[Leader(n)] = n
      BY <1>1, <3>1 DEF Placed, Leader, IInv, TypeOK
    <3>3. d = Leader(n) => ~ Added(d)'
      BY <1>1, <3>1, <3>2 DEF Added, IInv, TypeOK
    <3>. QED
      BY <1>1, <2>1, <3>1, <3>3
  <2>4. ASSUME NEW n \in Net, Recv(n) PROVE UNCHANGED name
    BY <2>4 DEF Recv, RecvProbe, RecvRegistered, RecvLogout
  <2>5. ASSUME NEW n \in Net, Lose(n) \/ Reinit(n) PROVE UNCHANGED name
    BY <2>5 DEF Lose, Reinit
  <2>6. \A e \in Dev : AddDev(e) => UNCHANGED name
    BY DEF AddDev
  <2>7. Tick => UNCHANGED name
    BY DEF Tick
  <2>. QED
    BY <1>1, <2>2, <2>3, <2>4, <2>5, <2>6, <2>7 DEF Next
<1>2. IInv /\ Placed /\ [Next]_vars =>
        [\A d \in Dev : name[d] # NoName /\ Added(d)' => name'[d] = name[d]]_vars
  BY <1>1
<1>. QED
  BY <1>2, Invariance, PlacedInvariance, PTL DEF Spec, NameKept

------------------------------------------------------------------------------
(***************************************************************************)
(* Unique names.                                                           *)
(***************************************************************************)

\* One device for each process, datagrams that arrive, and a quiet time before
\* an ordinal is locked that is longer than a probe and its answer may take.
Timely ==
    /\ Reliable /\ DistinctIds /\ ~ CanReinit
    /\ \A d, e \in Dev : NetOf[d] = NetOf[e] => d = e
    /\ 2 * MaxDelay < LockWait

Value(d) == alloc[d].val
Age(d) == alloc[d].age
IdOf(d) == random_id[NetOf[d]]

\* No two processes on the network have drawn the same number.
IdsDiffer ==
    \A m, n \in Net : m # n /\ devs[m] # <<>> /\ devs[n] # <<>> => random_id[m] # random_id[n]

\* The last probe of x has not been read by the process of y.
Probe(x) == ProbeMsg(x, Value(x), IdOf(x))
ProbeUnderWay(x, y) == \E p \in inbox[NetOf[y]] : p.msg = Probe(x) /\ Age(x) <= p.age

\* Somebody has told x to go on, and x has not read it yet.
Answers(m, x, o, r) ==
    m.type = "registered" /\ m.name = NameOf(x, o) /\ m.temp_id = r /\ m.hint > o
AnswerUnderWay(x) ==
    \E p \in inbox[NetOf[x]] :
        Answers(p.msg, x, Value(x), IdOf(x)) /\ Age(x) <= MaxDelay + p.age

\* x is not going to lock its ordinal while y is after the same one: it has met
\* a collision, or is about to, or is about to be told.
Loses(x, y) ==
    /\ ~ Locked(x)
    /\ alloc[x].collided \/ ProbeUnderWay(x, y) \/ AnswerUnderWay(x)

\* Of two devices after the same name, one loses.
Rivals(x, y) == x # y /\ Added(x) /\ Added(y) /\ NameOf(x, Value(x)) = NameOf(y, Value(y))
Contest == \A x, y \in Dev : Rivals(x, y) => Loses(x, y) \/ Loses(y, x)

\* What a device is known by among its rivals.
LEMMA RivalNames ==
    ASSUME NEW x \in Dev, NEW y \in Dev
    PROVE  Rivals(x, y) <=> /\ x # y /\ Added(x) /\ Added(y)
                            /\ PrefixOf[x] = PrefixOf[y] /\ Value(x) = Value(y)
  BY DEF Rivals, NameOf

\* A device that is there is the leader of its process, which reads its socket.
LEMMA OnlyLeaders ==
    ASSUME IInv, Placed, Timely, NEW x \in Dev, Added(x)
    PROVE  Leader(NetOf[x]) = x /\ devs[NetOf[x]] # <<>>
<1>1. devs[NetOf[x]] \in Seq(Dev) /\ NetOf[x] \in Net
  BY ConstantsAssumption DEF IInv, TypeOK
<1>2. 1 \in DOMAIN devs[NetOf[x]]
  BY <1>1 DEF Added
<1>3. NetOf[devs[NetOf[x]][1]] = NetOf[x] /\ devs[NetOf[x]][1] \in Dev
  BY <1>1, <1>2 DEF Placed
<1>. QED
  BY <1>1, <1>2, <1>3 DEF Timely, Leader

\* A multicast is in the socket of every process that has a device, next to what
\* was there before.
LEMMA SentReaches ==
    ASSUME NEW box \in Inboxes, NEW m, inbox' = Sent(box, m), NEW n \in Net, devs'[n] # <<>>
    PROVE  box[n] \subseteq inbox'[n] /\ [msg |-> m, age |-> 0] \in inbox'[n]
  BY DEF Sent, Inboxes

\* A device that starts over loses to every rival, until its probe was read.
LEMMA ProberLoses ==
    ASSUME IInv', NEW x \in Dev, NEW y \in Dev, Added(y)', NEW box \in Inboxes,
           inbox' = Sent(box, ProbeMsg(x, Value(x)', IdOf(x)')),
           Age(x)' = 0, ~ Locked(x)'
    PROVE  Loses(x, y)'
<1>. DEFINE p == [msg |-> ProbeMsg(x, Value(x)', IdOf(x)'), age |-> 0]
<1>1. NetOf[y] \in Net /\ devs'[NetOf[y]] # <<>>
  BY ConstantsAssumption DEF Added
<1>2. p \in inbox'[NetOf[y]]
  BY <1>1, SentReaches
<1>3. ProbeUnderWay(x, y)'
  BY <1>2 DEF ProbeUnderWay, Probe
<1>. QED
  BY <1>3 DEF Loses

\* A loser remains one if its allocator is as it was, or met one more collision,
\* and the datagrams that count are still in the sockets.
LEMMA LoserStays ==
    ASSUME IInv, IInv', NEW x \in Dev, NEW y \in Dev, Loses(x, y),
           ~ Locked(x)', Value(x)' = Value(x), IdOf(x)' = IdOf(x),
           alloc[x].collided => alloc'[x].collided, Age(x)' <= Age(x),
           \A p \in inbox[NetOf[y]] :
               p.msg = Probe(x) /\ Age(x) <= p.age => p \in inbox'[NetOf[y]],
           \A p \in inbox[NetOf[x]] : Answers(p.msg, x, Value(x), IdOf(x)) => p \in inbox'[NetOf[x]]
    PROVE  Loses(x, y)'
<1>1. NetOf[x] \in Net /\ NetOf[y] \in Net
  BY ConstantsAssumption
<1>2. Age(x) \in Nat /\ Age(x)' \in Nat
  BY Bounds DEF IInv, TypeOK, Age, Allocator
<1>3. \A k \in Net : \A p \in inbox[k] : p.age \in Nat
  BY Bounds DEF IInv, TypeOK, Datagram
<1>4. MaxDelay \in Nat
  BY Bounds
<1>5. Probe(x)' = Probe(x)
  BY DEF Probe
<1>6. ASSUME ProbeUnderWay(x, y) PROVE ProbeUnderWay(x, y)'
  <2>1. PICK p \in inbox[NetOf[y]] : p.msg = Probe(x) /\ Age(x) <= p.age
    BY <1>6 DEF ProbeUnderWay
  <2>2. p \in inbox'[NetOf[y]] /\ p.msg = Probe(x)' /\ Age(x)' <= p.age
    BY <1>1, <1>2, <1>3, <1>5, <2>1
  <2>. QED
    BY <2>2 DEF ProbeUnderWay
<1>7. ASSUME AnswerUnderWay(x) PROVE AnswerUnderWay(x)'
  <2>1. PICK p \in inbox[NetOf[x]] : Answers(p.msg, x, Value(x), IdOf(x)) /\ Age(x) <= MaxDelay + p.age
    BY <1>7 DEF AnswerUnderWay
  <2>2. /\ p \in inbox'[NetOf[x]] /\ Answers(p.msg, x, Value(x)', IdOf(x)')
          /\ Age(x)' <= MaxDelay + p.age
    BY <1>1, <1>2, <1>3, <1>4, <2>1
  <2>. QED
    BY <2>2 DEF AnswerUnderWay
<1>. QED
  BY <1>6, <1>7 DEF Loses

\* In particular if only other devices are concerned.
LEMMA OthersStay ==
    ASSUME IInv, IInv', NEW x \in Dev, NEW y \in Dev, Loses(x, y),
           alloc'[x] = alloc[x], IdOf(x)' = IdOf(x),
           inbox[NetOf[x]] \subseteq inbox'[NetOf[x]],
           inbox[NetOf[y]] \subseteq inbox'[NetOf[y]]
    PROVE  Loses(x, y)'
<1>1. ~ Locked(x)' /\ Value(x)' = Value(x) /\ Age(x)' = Age(x) /\ Age(x) \in Nat
  BY Bounds DEF Loses, Locked, Value, Age, IInv, TypeOK, Allocator
<1>2. Age(x)' <= Age(x)
  BY <1>1
<1>. QED
  BY <1>1, <1>2, LoserStays

\* A step in which d starts over keeps the contest decided.
LEMMA ContestProbe ==
    ASSUME IInv, IInv', Timely, Contest, NEW d \in Dev, NEW box \in Inboxes,
           \A k \in Net \ {NetOf[d]} : box[k] = inbox[k],
           inbox' = Sent(box, ProbeMsg(d, Value(d)', IdOf(d)')),
           Age(d)' = 0, ~ Locked(d)',
           \A x \in Dev \ {d} : /\ alloc'[x] = alloc[x]
                                /\ IdOf(x)' = IdOf(x)
                                /\ Added(x)' => Added(x)
    PROVE  Contest'
<1>. SUFFICES ASSUME NEW x \in Dev, NEW y \in Dev, Rivals(x, y)'
              PROVE  Loses(x, y)' \/ Loses(y, x)'
  BY DEF Contest
<1>1. x # y /\ Added(x)' /\ Added(y)' /\ PrefixOf[x] = PrefixOf[y] /\ Value(x)' = Value(y)'
  BY DEF Rivals, NameOf
<1>2. CASE x = d
  BY <1>1, <1>2, ProberLoses
<1>3. CASE y = d
  BY <1>1, <1>3, ProberLoses
<1>4. CASE x # d /\ y # d
  <2>1. Value(x)' = Value(x) /\ Value(y)' = Value(y)
    BY <1>4 DEF Value
  <2>2. Rivals(x, y)
    BY <1>1, <1>4, <2>1, RivalNames
  <2>3. \A z \in {x, y} : inbox[NetOf[z]] \subseteq inbox'[NetOf[z]]
    <3>1. SUFFICES ASSUME NEW z \in {x, y} PROVE inbox[NetOf[z]] \subseteq inbox'[NetOf[z]]
      OBVIOUS
    <3>2. NetOf[z] \in Net /\ NetOf[z] # NetOf[d] /\ devs'[NetOf[z]] # <<>>
      BY <1>1, <1>4, ConstantsAssumption DEF Timely, Added
    <3>. QED
      BY <3>2, SentReaches
  <2>4. Loses(x, y) => Loses(x, y)'
    BY <1>4, <2>3, OthersStay
  <2>5. Loses(y, x) => Loses(y, x)'
    BY <1>4, <2>3, OthersStay
  <2>. QED
    BY <2>2, <2>4, <2>5 DEF Contest
<1>. QED
  BY <1>2, <1>3, <1>4

\* A step that changes no claim keeps it decided if losers remain losers, or
\* make their rivals lose.
LEMMA ContestKept ==
    ASSUME Contest,
           \A x \in Dev : Added(x)' => Added(x) /\ Value(x)' = Value(x),
           \A x, y \in Dev : Rivals(x, y) /\ Added(x)' /\ Added(y)' /\ Loses(x, y)
                                => Loses(x, y)' \/ Loses(y, x)'
    PROVE  Contest'
<1>. SUFFICES ASSUME NEW x \in Dev, NEW y \in Dev, Rivals(x, y)'
              PROVE  Loses(x, y)' \/ Loses(y, x)'
  BY DEF Contest
<1>1. x # y /\ Added(x)' /\ Added(y)' /\ PrefixOf[x] = PrefixOf[y] /\ Value(x)' = Value(y)'
  BY DEF Rivals, NameOf
<1>2. Rivals(x, y) /\ Rivals(y, x)
  BY <1>1, RivalNames
<1>. QED
  BY <1>1, <1>2 DEF Contest

LEMMA ContestAddDev ==
    ASSUME IInv, IInv', Timely, Contest, NEW d \in Dev, AddDev(d)
    PROVE  Contest'
<1>. DEFINE n == NetOf[d]
<1>1. n \in Net /\ \A x \in Dev : NetOf[x] \in Net /\ (NetOf[x] = n => x = d)
  BY ConstantsAssumption DEF Timely
<1>2. PICK r \in NewRandomId(n) : /\ random_id' = [random_id EXCEPT ![n] = r]
                                  /\ inbox' = Sent(inbox, ProbeMsg(d, 1, r))
  BY DEF AddDev
<1>3. alloc' = [alloc EXCEPT ![d] = NewAllocator] /\ devs' = [devs EXCEPT ![n] = Append(@, d)]
  BY DEF AddDev
<1>4. IdOf(d)' = r /\ Value(d)' = 1 /\ Age(d)' = 0 /\ ~ Locked(d)'
  BY <1>1, <1>2, <1>3 DEF IInv, TypeOK, IdOf, Value, Age, Locked, NewAllocator
<1>5. ASSUME NEW x \in Dev \ {d}
      PROVE  alloc'[x] = alloc[x] /\ IdOf(x)' = IdOf(x) /\ (Added(x)' => Added(x))
  <2>1. NetOf[x] \in Net /\ NetOf[x] # n
    BY <1>1
  <2>2. devs'[NetOf[x]] = devs[NetOf[x]]
    BY <1>3, <2>1 DEF IInv, TypeOK
  <2>. QED
    BY <1>2, <1>3, <2>1, <2>2 DEF IInv, TypeOK, IdOf, Added
<1>6. inbox \in Inboxes
  BY DEF IInv, TypeOK, Inboxes
<1>. HIDE DEF n
<1>. QED
  BY <1>2, <1>4, <1>5, <1>6, ContestProbe

LEMMA ContestPoll ==
    ASSUME IInv, IInv', Placed, Timely, Contest, NEW d \in Dev, Poll(d)
    PROVE  Contest'
<1>. DEFINE n == NetOf[d]
<1>1. \A x \in Dev : Added(x)' <=> Added(x)
  BY DEF Poll, Reprobe, MoveOn, Lock, Reregister, ProbeName, Register, Added
<1>2. \A x \in Dev : IdOf(x)' = IdOf(x)
  BY DEF Poll, Reprobe, MoveOn, Lock, Reregister, ProbeName, Register, IdOf
<1>3. inbox \in Inboxes /\ alloc \in [Dev -> Allocator]
  BY DEF IInv, TypeOK, Inboxes
<1>4. ASSUME NEW o, ~ Locked(d), ProbeName(d, o) PROVE Contest'
  <2>1. /\ alloc' = [alloc EXCEPT ![d] = Probing(@, o)]
        /\ inbox' = Sent(inbox, ProbeMsg(d, o, IdOf(d)))
    BY <1>4 DEF ProbeName, IdOf
  <2>2. Value(d)' = o /\ Age(d)' = 0 /\ ~ Locked(d)'
    BY <1>3, <1>4, <2>1 DEF Probing, Value, Age, Locked, Allocator
  <2>3. inbox' = Sent(inbox, ProbeMsg(d, Value(d)', IdOf(d)'))
    BY <1>2, <2>1, <2>2
  <2>4. \A x \in Dev \ {d} : alloc'[x] = alloc[x]
    BY <1>3, <2>1
  <2>. QED
    BY <1>1, <1>2, <1>3, <2>2, <2>3, <2>4, ContestProbe
<1>5. ASSUME Register(d), \A x \in Dev : Value(x)' = Value(x),
             \A x, y \in Dev : Loses(x, y) => alloc'[x] = alloc[x]
      PROVE  Contest'
  <2>1. \A x \in Dev : Added(x) => inbox[NetOf[x]] \subseteq inbox'[NetOf[x]]
    <3>1. inbox' = Sent(inbox, RegisteredMsg(d, name'[d], -1, 0)) /\ devs' = devs
      BY <1>5 DEF Register
    <3>2. \A x \in Dev : Added(x) => NetOf[x] \in Net /\ devs'[NetOf[x]] # <<>>
      BY <3>1, ConstantsAssumption DEF Added
    <3>. QED
      BY <1>3, <3>1, <3>2, SentReaches
  <2>2. ASSUME NEW x \in Dev, NEW y \in Dev, Rivals(x, y), Loses(x, y)
        PROVE  Loses(x, y)'
    <3>1. Added(x) /\ Added(y)
      BY <2>2 DEF Rivals
    <3>. QED
      BY <1>2, <1>5, <2>1, <2>2, <3>1, OthersStay
  <2>. QED
    BY <1>1, <1>5, <2>2, ContestKept
<1>6. CASE Reprobe(d)
  BY <1>4, <1>6 DEF Reprobe, Locked
<1>7. CASE MoveOn(d)
  BY <1>4, <1>7 DEF MoveOn, Locked
<1>8. CASE Reregister(d)
  BY <1>5, <1>8 DEF Reregister, Value
<1>9. CASE Lock(d)
  <2>1. alloc' = [alloc EXCEPT ![d].locked = TRUE] /\ ~ alloc[d].collided /\ alloc[d].age >= LockWait
    BY <1>9 DEF Lock
  <2>2. \A x \in Dev : Value(x)' = Value(x)
    BY <1>3, <2>1 DEF Value, Allocator
  <2>3. \A y \in Dev : ~ Loses(d, y)
    <3>1. SUFFICES ASSUME NEW y \in Dev, Loses(d, y) PROVE FALSE
      OBVIOUS
    <3>2. ProbeUnderWay(d, y) \/ AnswerUnderWay(d)
      BY <2>1, <3>1 DEF Loses
    <3>3. \A k \in Net : \A p \in inbox[k] : p.age \in 0 .. MaxDelay
      BY DEF IInv, TypeOK, Datagram
    <3>4. NetOf[d] \in Net /\ NetOf[y] \in Net
      BY ConstantsAssumption
    <3>5. Age(d) \in Nat /\ Age(d) <= MaxDelay + MaxDelay
      <4>1. Age(d) \in Nat
        BY <1>3, Bounds DEF Age, Allocator
      <4>. QED
        BY <3>2, <3>3, <3>4, <4>1, Bounds DEF ProbeUnderWay, AnswerUnderWay
    <3>. QED
      BY <2>1, <3>5, Bounds DEF Timely, Age
  <2>4. \A x, y \in Dev : Loses(x, y) => alloc'[x] = alloc[x]
    BY <1>3, <2>1, <2>3
  <2>. QED
    BY <1>5, <1>9, <2>2, <2>4 DEF Lock
<1>. QED
  BY <1>6, <1>7, <1>8, <1>9 DEF Poll

\* What is taken from one socket and sent to all: the others still have theirs.
LEMMA ReadKeeps ==
    ASSUME IInv, Timely, NEW n \in Net, NEW p, NEW box \in Read(n, p)
    PROVE  /\ box \in Inboxes
           /\ \A k \in Net \ {n} : box[k] = inbox[k]
           /\ \A q \in inbox[n] : q # p => q \in box[n]
<1>1. box = [inbox EXCEPT ![n] = @ \ {p}]
  BY DEF Read, Timely
<1>. QED
  BY <1>1 DEF IInv, TypeOK, Inboxes

\* Reading p of the socket of process n, and sending no probe: a loser that does
\* not wait for p remains one.
LEMMA RecvStay ==
    ASSUME IInv, IInv', Placed, Timely, NEW n \in Net, devs' = devs, random_id' = random_id,
           NEW p, NEW box \in Read(n, p), inbox' = box \/ (\E m : inbox' = Sent(box, m)),
           NEW x \in Dev, NEW y \in Dev, Added(x), Added(y), Loses(x, y),
           ~ Locked(x)', Value(x)' = Value(x),
           alloc[x].collided => alloc'[x].collided, Age(x)' <= Age(x),
           ~ (NetOf[y] = n /\ p.msg = Probe(x) /\ Age(x) <= p.age),
           ~ (NetOf[x] = n /\ Answers(p.msg, x, Value(x), IdOf(x)))
    PROVE  Loses(x, y)'
<1>1. /\ box \in Inboxes /\ \A k \in Net \ {n} : box[k] = inbox[k]
      /\ \A q \in inbox[n] : q # p => q \in box[n]
  BY ReadKeeps
<1>2. ASSUME NEW z \in Dev, Added(z)
      PROVE  \A q \in inbox[NetOf[z]] : (NetOf[z] = n => q # p) => q \in inbox'[NetOf[z]]
  <2>1. NetOf[z] \in Net /\ devs'[NetOf[z]] # <<>>
    BY <1>2, ConstantsAssumption DEF Added
  <2>2. box[NetOf[z]] \subseteq inbox'[NetOf[z]]
    BY <1>1, <2>1, SentReaches
  <2>. QED
    BY <1>1, <2>1, <2>2
<1>3. IdOf(x)' = IdOf(x)
  BY DEF IdOf
<1>4. \A q \in inbox[NetOf[y]] :
         q.msg = Probe(x) /\ Age(x) <= q.age => q \in inbox'[NetOf[y]]
  BY <1>2
<1>5. \A q \in inbox[NetOf[x]] : Answers(q.msg, x, Value(x), IdOf(x)) => q \in inbox'[NetOf[x]]
  BY <1>2
<1>. QED
  BY <1>3, <1>4, <1>5, LoserStays

LEMMA ContestRecvProbe ==
    ASSUME IInv, IInv', Placed, Timely, IdsDiffer, Contest, NEW n \in Net, devs[n] # <<>>,
           NEW p \in inbox[n], RecvProbe(n, p)
    PROVE  Contest'
<1>. DEFINE d == Leader(n)
           a == alloc[d]
           m == p.msg
           i == SuggestedSlot(a)
<1>1. d \in Dev /\ a \in Allocator /\ alloc \in [Dev -> Allocator]
  BY LeaderType DEF IInv, TypeOK
<1>2. m.type = "probe" /\ devs' = devs /\ random_id' = random_id
  BY DEF RecvProbe
<1>3. PICK box \in Read(n, p) :
         \/ /\ m.name # NameOf(d, a.val)
            /\ UNCHANGED alloc /\ inbox' = box
         \/ /\ m.name = NameOf(d, a.val)
            /\ a.locked \/ m.temp_id > random_id[n]
            /\ alloc' = [alloc EXCEPT ![d] = Reserve(a, i)]
            /\ inbox' = Sent(box, RegisteredMsg(d, m.name.ord, m.temp_id, a.val + i + 1))
         \/ /\ m.name = NameOf(d, a.val)
            /\ ~ a.locked /\ m.temp_id = random_id[n]
            /\ alloc' = [alloc EXCEPT ![d].online = TRUE]
            /\ inbox' = box
         \/ /\ m.name = NameOf(d, a.val)
            /\ ~ a.locked /\ m.temp_id < random_id[n]
            /\ alloc' = [alloc EXCEPT ![d] = Collision(a)]
            /\ inbox' = box
  BY DEF RecvProbe
<1>4. inbox' = box \/ (\E q : inbox' = Sent(box, q))
  BY <1>3
<1>5. \A x \in Dev : /\ alloc[x].val \in Nat /\ alloc[x].age \in Nat
                     /\ alloc[x].locked \in BOOLEAN
  BY <1>1, Bounds DEF Allocator
<1>6. ASSUME NEW x \in Dev
      PROVE  /\ Value(x)' = Value(x) /\ Age(x)' <= Age(x) /\ Locked(x)' = Locked(x)
             /\ alloc[x].collided => alloc'[x].collided
  <2>. DEFINE Fine(b) == /\ b.val = alloc[x].val /\ b.age <= alloc[x].age
                         /\ b.locked = alloc[x].locked
                         /\ alloc[x].collided => b.collided
  <2>1. alloc[x] \in Allocator /\ Fine(alloc[x])
    BY <1>1, <1>5
  <2>2. x = d => Fine(Reserve(a, i)) /\ Fine(Collision(a)) /\ Fine([a EXCEPT !.online = TRUE])
    BY <1>5, <2>1 DEF Reserve, Collision, Allocator
  <2>3. Fine(alloc'[x])
    <3>. HIDE DEF Fine, d, i
    <3>. QED
      BY <1>1, <1>3, <2>1, <2>2
  <2>. QED
    BY <2>3 DEF Value, Age, Locked
<1>7. \A x \in Dev : Added(x)' <=> Added(x)
  BY <1>2 DEF Added
<1>8. ASSUME NEW x \in Dev, NEW y \in Dev, Rivals(x, y), Loses(x, y)
      PROVE  Loses(x, y)' \/ Loses(y, x)'
  <2>1. /\ x # y /\ Added(x) /\ Added(y) /\ NameOf(x, Value(x)) = NameOf(y, Value(y))
        /\ PrefixOf[x] = PrefixOf[y] /\ Value(x) = Value(y)
    BY <1>8 DEF Rivals, NameOf
  <2>2. ~ Locked(x) /\ ~ Locked(x)'
    BY <1>6, <1>8 DEF Loses
  <2>3. ~ Answers(m, x, Value(x), IdOf(x))
    BY <1>2 DEF Answers
  <2>4. CASE ~ (NetOf[y] = n /\ m = Probe(x) /\ Age(x) <= p.age)
    <3>. HIDE DEF d, a, i
    <3>. QED
      BY <1>2, <1>4, <1>6, <1>8, <2>1, <2>2, <2>3, <2>4, RecvStay
  <2>5. CASE NetOf[y] = n /\ m = Probe(x) /\ Age(x) <= p.age
    <3>1. y = d
      BY <2>1, <2>5, OnlyLeaders
    <3>2. m.name = NameOf(d, a.val) /\ m.temp_id = IdOf(x) /\ m.name.ord = Value(x)
      BY <2>1, <2>5, <3>1 DEF Probe, ProbeMsg, NameOf, Value
    <3>3. NetOf[x] \in Net /\ NetOf[x] # n /\ devs[NetOf[x]] # <<>>
      BY <2>1, <2>5, ConstantsAssumption DEF Timely, Added
    <3>4. m.temp_id # random_id[n]
      BY <3>2, <3>3 DEF IdsDiffer, IdOf
    <3>5. CASE inbox' = Sent(box, RegisteredMsg(d, m.name.ord, m.temp_id, a.val + i + 1))
      <4>. DEFINE q == [msg |-> RegisteredMsg(d, m.name.ord, m.temp_id, a.val + i + 1), age |-> 0]
      <4>1. box \in Inboxes
        BY ReadKeeps
      <4>2. q \in inbox'[NetOf[x]]
        BY <1>2, <3>3, <3>5, <4>1, SentReaches
      <4>3. i \in Nat
        <5>. DEFINE S == {j \in Slot : a.hints[j] = Free \/ a.hints[j] > HintHold}
        <5>1. FirstSlot(S) \in 0 .. Block
          BY FirstSlotType
        <5>. HIDE DEF S
        <5>2. FirstSlot(S) \in Nat
          BY <5>1, Bounds
        <5>. QED
          BY <5>2 DEF SuggestedSlot, S
      <4>4. a.val + i + 1 > Value(x) /\ Value(x)' = Value(x) /\ IdOf(x)' = IdOf(x)
        <5>1. Value(x) = a.val /\ a.val \in Nat
          BY <1>1, <1>5, <2>1, <3>1 DEF Value
        <5>. HIDE DEF a, i
        <5>2. a.val + i + 1 > Value(x)
          BY <4>3, <5>1
        <5>. QED
          BY <1>2, <1>6, <5>2 DEF IdOf
      <4>5. Answers(q.msg, x, Value(x)', IdOf(x)')
        BY <2>1, <3>1, <3>2, <4>4 DEF Answers, RegisteredMsg, NameOf
      <4>6. Age(x)' <= MaxDelay + 0
        <5>1. p.age \in 0 .. MaxDelay
          BY DEF IInv, TypeOK, Datagram
        <5>2. Age(x) \in Nat /\ Age(x)' \in Nat /\ Age(x)' <= Age(x)
          BY <1>6, Bounds DEF IInv, TypeOK, Allocator, Age
        <5>. QED
          BY <2>5, <5>1, <5>2, Bounds
      <4>. QED
        BY <1>6, <2>2, <4>2, <4>5, <4>6 DEF Loses, AnswerUnderWay
    <3>6. CASE alloc' = [alloc EXCEPT ![d] = Collision(a)] /\ ~ a.locked
      <4>1. alloc'[y].collided
        BY <1>1, <3>1, <3>6 DEF Collision, Allocator
      <4>2. ~ Locked(y)'
        BY <1>6, <3>1, <3>6 DEF Locked
      <4>. QED
        BY <4>1, <4>2 DEF Loses
    <3>. QED
      BY <1>3, <3>2, <3>4, <3>5, <3>6
  <2>. QED
    BY <2>4, <2>5
<1>. QED
  BY <1>6, <1>7, <1>8, ContestKept

LEMMA ContestRecvRegistered ==
    ASSUME IInv, IInv', Placed, Timely, Contest, NEW n \in Net, devs[n] # <<>>,
           NEW p \in inbox[n], RecvRegistered(n, p)
    PROVE  Contest'
<1>0. PICK d \in Dev : d = Leader(n) /\ NetOf[d] = n
  BY LeaderType DEF IInv, TypeOK, Placed, Leader
<1>. DEFINE a == alloc[d]
           m == p.msg
           b == SetHint(a, m.name.ord, Taken)
           c == IF m.hint = 0 THEN b ELSE SetHint(b, m.hint, 0)
<1>1. d \in Dev /\ a \in Allocator /\ alloc \in [Dev -> Allocator] /\ NetOf[d] = n
  BY <1>0 DEF IInv, TypeOK
<1>2. m.type = "registered" /\ devs' = devs /\ random_id' = random_id
  BY DEF RecvRegistered
<1>3. PICK box \in Read(n, p) :
         \/ /\ a.locked
            /\ alloc' = [alloc EXCEPT ![d] = c] /\ inbox' = box
         \/ /\ ~ a.locked
            /\ m.temp_id < random_id[n]
            /\ alloc' = [alloc EXCEPT ![d] = Collision(a)] /\ inbox' = box
         \/ /\ ~ a.locked
            /\ alloc' = [alloc EXCEPT ![d] = Probing(a, m.hint)]
            /\ inbox' = Sent(box, ProbeMsg(d, m.hint, random_id[n]))
         \/ /\ a.locked \/ m.name # NameOf(d, a.val) \/ m.temp_id > random_id[n]
                        \/ m.hint \in {0, a.val}
            /\ UNCHANGED alloc /\ inbox' = box
  BY <1>0 DEF RecvRegistered
<1>4. \A x \in Dev : (Added(x)' <=> Added(x)) /\ IdOf(x)' = IdOf(x)
  BY <1>2 DEF Added, IdOf
<1>5. \A x \in Dev : /\ alloc[x].val \in Nat /\ alloc[x].age \in Nat
                     /\ alloc[x].locked \in BOOLEAN
  BY <1>1, Bounds DEF Allocator
<1>6. CASE /\ ~ a.locked
           /\ alloc' = [alloc EXCEPT ![d] = Probing(a, m.hint)]
           /\ inbox' = Sent(box, ProbeMsg(d, m.hint, random_id[n]))
  <2>1. Value(d)' = m.hint /\ Age(d)' = 0 /\ ~ Locked(d)'
    BY <1>1, <1>6 DEF Probing, Value, Age, Locked, Allocator
  <2>2. inbox' = Sent(box, ProbeMsg(d, Value(d)', IdOf(d)'))
    BY <1>1, <1>4, <1>6, <2>1 DEF IdOf
  <2>3. \A x \in Dev \ {d} : alloc'[x] = alloc[x]
    BY <1>1, <1>6
  <2>4. box \in Inboxes /\ \A k \in Net \ {NetOf[d]} : box[k] = inbox[k]
    BY <1>1, ReadKeeps
  <2>. QED
    BY <1>1, <1>4, <2>1, <2>2, <2>3, <2>4, ContestProbe
<1>7. ASSUME inbox' = box, Age(d)' <= Age(d), Value(d)' = Value(d), Locked(d)' = Locked(d),
             a.collided => alloc'[d].collided,
             \A x \in Dev \ {d} : alloc'[x] = alloc[x],
             \/ Locked(d) \/ alloc'[d].collided
             \/ m.name # NameOf(d, a.val) \/ m.temp_id > random_id[n] \/ m.hint \in {0, a.val}
      PROVE  Contest'
  <2>1. ASSUME NEW x \in Dev
        PROVE  /\ Value(x)' = Value(x) /\ Age(x)' <= Age(x) /\ Locked(x)' = Locked(x)
               /\ alloc[x].collided => alloc'[x].collided
    <3>1. CASE x = d
      BY <1>7, <3>1
    <3>2. CASE x # d
      BY <1>5, <1>7, <3>2 DEF Value, Age, Locked
    <3>. QED
      BY <3>1, <3>2
  <2>2. ASSUME NEW x \in Dev, NEW y \in Dev, Rivals(x, y), Loses(x, y)
        PROVE  Loses(x, y)'
    <3>1. Added(x) /\ Added(y) /\ ~ Locked(x) /\ ~ Locked(x)'
      BY <2>1, <2>2 DEF Rivals, Loses
    <3>2. m # Probe(x)
      BY <1>2 DEF Probe, ProbeMsg
    <3>3. CASE alloc'[x].collided
      BY <3>1, <3>3 DEF Loses
    <3>4. CASE ~ alloc'[x].collided
      <4>1. ASSUME NetOf[x] = n, Answers(m, x, Value(x), IdOf(x)) PROVE FALSE
        <5>1. x = d
          BY <1>0, <3>1, <4>1, OnlyLeaders
        <5>2. /\ m.name = NameOf(d, a.val) /\ m.temp_id = random_id[n] /\ m.hint > a.val
              /\ ~ Locked(d)
          BY <3>1, <4>1, <5>1 DEF Answers, Value, IdOf
        <5>3. random_id[n] \in Nat /\ a.val \in Nat
          <6>1. \A q \in RandomId : q \in Nat
            BY ConstantsAssumption
          <6>2. random_id[n] \in RandomId \/ random_id[n] = 0
            BY DEF IInv, TypeOK, Id
          <6>3. random_id[n] \in Nat
            BY <6>1, <6>2
          <6>4. alloc[d].val \in Nat
            BY <1>5
          <6>. QED
            BY <6>3, <6>4
        <5>. QED
          BY <1>7, <3>4, <5>1, <5>2, <5>3
      <4>. QED
        BY <1>2, <1>7, <2>1, <2>2, <3>1, <3>2, <4>1, RecvStay
    <3>. QED
      BY <3>3, <3>4
  <2>. QED
    BY <1>4, <2>1, <2>2, ContestKept
<1>8. CASE a.locked /\ alloc' = [alloc EXCEPT ![d] = c] /\ inbox' = box
  <2>1. p.msg \in Message
    BY DEF IInv, TypeOK, Datagram
  <2>2. m.name.ord \in 0 .. MaxOrd
    BY <1>2, <2>1 DEF Message, DevName
  <2>3. \A e \in Allocator : \A o, h : /\ SetHint(e, o, h).val = e.val
                                       /\ SetHint(e, o, h).age = e.age
                                       /\ SetHint(e, o, h).locked = e.locked
                                       /\ SetHint(e, o, h).collided = e.collided
    BY DEF SetHint, Allocator
  <2>4. b \in Allocator
    <3>1. Taken \in Hint
      BY DEF Hint
    <3>. QED
      BY <1>1, <2>2, <3>1, AllocatorOps
  <2>5. c.val = a.val /\ c.age = a.age /\ c.locked = a.locked /\ c.collided = a.collided
    <3>1. b.val = a.val /\ b.age = a.age /\ b.locked = a.locked /\ b.collided = a.collided
      BY <1>1, <2>3
    <3>. HIDE DEF b, a
    <3>. QED
      BY <2>3, <2>4, <3>1
  <2>6. alloc'[d] = c /\ \A x \in Dev \ {d} : alloc'[x] = alloc[x]
    BY <1>1, <1>8
  <2>. HIDE DEF c
  <2>7. alloc'[d].age <= a.age /\ alloc'[d].val = a.val /\ alloc'[d].locked = a.locked
    BY <1>5, <2>5, <2>6
  <2>8. Age(d)' <= Age(d) /\ Value(d)' = Value(d) /\ Locked(d)' = Locked(d) /\ Locked(d)
    BY <1>8, <2>7 DEF Age, Value, Locked
  <2>. QED
    BY <1>7, <1>8, <2>5, <2>6, <2>8
<1>9. CASE ~ a.locked /\ alloc' = [alloc EXCEPT ![d] = Collision(a)] /\ inbox' = box
  <2>1. alloc'[d] = Collision(a) /\ \A x \in Dev \ {d} : alloc'[x] = alloc[x]
    BY <1>1, <1>9
  <2>2. /\ Collision(a).val = a.val /\ Collision(a).age = 0 /\ Collision(a).locked = a.locked
        /\ Collision(a).collided
    BY <1>1 DEF Collision, Allocator
  <2>3. Age(d)' <= Age(d) /\ Value(d)' = Value(d) /\ Locked(d)' = Locked(d)
    BY <1>1, <1>5, <2>1, <2>2 DEF Age, Value, Locked
  <2>. QED
    BY <1>7, <1>9, <2>1, <2>2, <2>3
<1>10. CASE /\ a.locked \/ m.name # NameOf(d, a.val) \/ m.temp_id > random_id[n]
                        \/ m.hint \in {0, a.val}
            /\ UNCHANGED alloc /\ inbox' = box
  <2>1. Age(d)' <= Age(d) /\ Value(d)' = Value(d) /\ Locked(d)' = Locked(d)
    BY <1>1, <1>5, <1>10 DEF Age, Value, Locked
  <2>. QED
    BY <1>7, <1>10, <2>1 DEF Locked
<1>. QED
  BY <1>3, <1>6, <1>8, <1>9, <1>10

LEMMA ContestRecv ==
    ASSUME IInv, IInv', Placed, Timely, IdsDiffer, Contest, NEW n \in Net, Recv(n)
    PROVE  Contest'
<1>1. PICK p \in inbox[n] : RecvProbe(n, p) \/ RecvRegistered(n, p) \/ RecvLogout(n, p)
  BY DEF Recv
<1>2. devs[n] # <<>>
  BY DEF Recv
<1>3. CASE RecvLogout(n, p)
  <2>1. PICK d \in Dev : d = Leader(n)
    BY <1>2, LeaderType DEF IInv, TypeOK
  <2>. DEFINE a == alloc[d]
             b == IF a.locked /\ LogoutMatches(d, p.msg.name)
                  THEN SetHint(a, p.msg.name.ord, Free) ELSE a
  <2>2. /\ p.msg.type = "logout" /\ devs' = devs /\ random_id' = random_id
        /\ inbox' \in Read(n, p) /\ alloc' = [alloc EXCEPT ![d] = b]
    BY <1>3, <2>1 DEF RecvLogout
  <2>3. a \in Allocator /\ alloc \in [Dev -> Allocator]
    BY DEF IInv, TypeOK
  <2>4. /\ b.val = a.val /\ b.age = a.age /\ b.locked = a.locked /\ b.collided = a.collided
    BY <2>3 DEF SetHint, Allocator
  <2>5. ASSUME NEW x \in Dev
        PROVE  /\ Value(x)' = Value(x) /\ Age(x)' <= Age(x) /\ Locked(x)' = Locked(x)
               /\ alloc[x].collided => alloc'[x].collided
    <3>1. alloc[x].age \in Nat
      BY <2>3, Bounds DEF Allocator
    <3>2. CASE x = d
      <4>1. alloc'[x] = b
        BY <2>2, <2>3, <3>2
      <4>. HIDE DEF b
      <4>. QED
        BY <2>4, <3>1, <3>2, <4>1 DEF Value, Age, Locked
    <3>3. CASE x # d
      <4>1. alloc'[x] = alloc[x]
        BY <2>2, <2>3, <3>3
      <4>. QED
        BY <3>1, <4>1 DEF Value, Age, Locked
    <3>. QED
      BY <3>2, <3>3
  <2>6. ASSUME NEW x \in Dev, NEW y \in Dev, Rivals(x, y), Loses(x, y)
        PROVE  Loses(x, y)'
    <3>1. Added(x) /\ Added(y) /\ ~ Locked(x)'
      BY <2>5, <2>6 DEF Rivals, Loses
    <3>2. p.msg # Probe(x) /\ ~ Answers(p.msg, x, Value(x), IdOf(x))
      BY <2>2 DEF Probe, ProbeMsg, Answers
    <3>. QED
      BY <2>2, <2>5, <2>6, <3>1, <3>2, RecvStay
  <2>7. \A x \in Dev : Added(x)' <=> Added(x)
    BY <2>2 DEF Added
  <2>. QED
    BY <2>5, <2>6, <2>7, ContestKept
<1>. QED
  BY <1>1, <1>2, <1>3, ContestRecvProbe, ContestRecvRegistered

LEMMA ContestLeave ==
    ASSUME IInv, IInv', Placed, Timely, Contest, NEW n \in Net, Leave(n) \/ Crash(n)
    PROVE  Contest'
<1>1. PICK d \in Dev : d = Leader(n) /\ NetOf[d] = n
  <2>1. Len(devs[n]) = 1
    BY DEF Leave, Crash
  <2>. QED
    BY <2>1 DEF IInv, TypeOK, Placed, Leader
<1>2. /\ devs' = [devs EXCEPT ![n] = <<>>]
      /\ alloc' = [alloc EXCEPT ![d] = NewAllocator]
      /\ random_id' = [random_id EXCEPT ![n] = 0]
  BY <1>1 DEF Leave, Crash, Gone
<1>3. ASSUME NEW x \in Dev, Added(x)'
      PROVE  /\ NetOf[x] \in Net /\ NetOf[x] # n /\ Added(x) /\ alloc'[x] = alloc[x]
             /\ IdOf(x)' = IdOf(x) /\ inbox[NetOf[x]] \subseteq inbox'[NetOf[x]]
  <2>1. NetOf[x] \in Net /\ NetOf[x] # n
    <3>1. devs'[n] = <<>>
      BY <1>2 DEF IInv, TypeOK
    <3>2. devs'[NetOf[x]] # <<>>
      BY <1>3 DEF Added
    <3>. QED
      BY <3>1, <3>2, ConstantsAssumption
  <2>2. devs'[NetOf[x]] = devs[NetOf[x]] /\ devs'[NetOf[x]] # <<>>
    BY <1>2, <1>3, <2>1 DEF IInv, TypeOK, Added
  <2>3. inbox[NetOf[x]] \subseteq inbox'[NetOf[x]]
    <3>. DEFINE box == [inbox EXCEPT ![n] = {}]
    <3>1. inbox' = box \/ \E m : inbox' = Sent(box, m)
      BY DEF Leave, Crash
    <3>2. box \in Inboxes /\ box[NetOf[x]] = inbox[NetOf[x]]
      BY <2>1 DEF IInv, TypeOK, Inboxes
    <3>. HIDE DEF box
    <3>. QED
      BY <2>1, <2>2, <3>1, <3>2, SentReaches
  <2>. QED
    BY <1>1, <1>2, <1>3, <2>1, <2>2, <2>3 DEF IInv, TypeOK, Added, IdOf
<1>4. ASSUME NEW x \in Dev, NEW y \in Dev, Added(x)', Added(y)', Loses(x, y)
      PROVE  Loses(x, y)'
  BY <1>3, <1>4, OthersStay
<1>. QED
  BY <1>3, <1>4, ContestKept DEF Value

LEMMA ContestTick ==
    ASSUME IInv, IInv', Contest, Tick
    PROVE  Contest'
<1>1. /\ devs' = devs /\ random_id' = random_id
      /\ \A k \in Net : \A p \in inbox[k] : p.age < MaxDelay
      /\ inbox' = [k \in Net |-> {[p EXCEPT !.age = Older(@, MaxDelay)] : p \in inbox[k]}]
      /\ alloc' = [d \in Dev |-> IF Added(d) THEN Aged(alloc[d]) ELSE alloc[d]]
  BY DEF Tick
<1>2. ASSUME NEW x \in Dev
      PROVE  /\ Value(x)' = Value(x) /\ Locked(x)' = Locked(x) /\ Age(x)' <= Age(x) + 1
             /\ alloc'[x].collided = alloc[x].collided
             /\ Age(x) \in Nat /\ Age(x)' \in Nat
             /\ (Added(x)' <=> Added(x)) /\ IdOf(x)' = IdOf(x)
  <2>1. alloc[x] \in Allocator /\ alloc[x].age \in Nat
    BY Bounds DEF IInv, TypeOK, Allocator
  <2>2. alloc'[x].age \in Nat
    BY Bounds DEF IInv, TypeOK, Allocator
  <2>3. /\ Aged(alloc[x]).val = alloc[x].val /\ Aged(alloc[x]).locked = alloc[x].locked
        /\ Aged(alloc[x]).collided = alloc[x].collided
        /\ Aged(alloc[x]).age = Older(alloc[x].age, AgeBound(alloc[x]))
    BY <2>1 DEF Aged, Allocator
  <2>4. Older(alloc[x].age, AgeBound(alloc[x])) <= alloc[x].age + 1
    BY <2>1 DEF Older
  <2>5. alloc'[x] = Aged(alloc[x]) \/ alloc'[x] = alloc[x]
    BY <1>1
  <2>6. Added(x)' <=> Added(x)
    BY <1>1 DEF Added
  <2>. QED
    BY <1>1, <2>1, <2>2, <2>3, <2>4, <2>5, <2>6 DEF Value, Age, Locked, IdOf
<1>3. ASSUME NEW k \in Net, NEW p \in inbox[k]
      PROVE  \E q \in inbox'[k] : q.msg = p.msg /\ q.age = p.age + 1 /\ p.age \in Nat
  <2>1. p \in Datagram /\ p.age \in Nat /\ p.age < MaxDelay
    BY <1>1, Bounds DEF IInv, TypeOK, Datagram
  <2>2. [p EXCEPT !.age = Older(@, MaxDelay)] \in inbox'[k]
    BY <1>1
  <2>. QED
    BY <2>1, <2>2 DEF Datagram, Older
<1>4. ASSUME NEW x \in Dev, NEW y \in Dev, Loses(x, y)
      PROVE  Loses(x, y)'
  <2>1. NetOf[x] \in Net /\ NetOf[y] \in Net /\ MaxDelay \in Nat
    BY ConstantsAssumption, Bounds
  <2>2. Probe(x)' = Probe(x)
    BY <1>2 DEF Probe
  <2>3. ASSUME ProbeUnderWay(x, y) PROVE ProbeUnderWay(x, y)'
    <3>1. PICK p \in inbox[NetOf[y]] : p.msg = Probe(x) /\ Age(x) <= p.age
      BY <2>3 DEF ProbeUnderWay
    <3>2. PICK q \in inbox'[NetOf[y]] : q.msg = p.msg /\ q.age = p.age + 1 /\ p.age \in Nat
      BY <1>3, <2>1
    <3>3. q.msg = Probe(x)' /\ Age(x)' <= q.age
      BY <1>2, <2>2, <3>1, <3>2
    <3>. QED
      BY <3>3 DEF ProbeUnderWay
  <2>4. ASSUME AnswerUnderWay(x) PROVE AnswerUnderWay(x)'
    <3>1. PICK p \in inbox[NetOf[x]] :
              Answers(p.msg, x, Value(x), IdOf(x)) /\ Age(x) <= MaxDelay + p.age
      BY <2>4 DEF AnswerUnderWay
    <3>2. PICK q \in inbox'[NetOf[x]] : q.msg = p.msg /\ q.age = p.age + 1 /\ p.age \in Nat
      BY <1>3, <2>1
    <3>3. Answers(q.msg, x, Value(x)', IdOf(x)') /\ Age(x)' <= MaxDelay + q.age
      BY <1>2, <2>1, <3>1, <3>2
    <3>. QED
      BY <3>3 DEF AnswerUnderWay
  <2>. QED
    BY <1>2, <1>4, <2>3, <2>4 DEF Loses
<1>. QED
  BY <1>2, <1>4, ContestKept

\* The numbers stay different: a new one differs from those in use.
LEMMA IdsStep == ASSUME Timely PROVE IInv /\ IdsDiffer /\ [Next]_vars => IdsDiffer'
<1>. SUFFICES ASSUME IInv, IdsDiffer, [Next]_vars PROVE IdsDiffer'
  OBVIOUS
<1>1. ASSUME NEW d \in Dev, AddDev(d) PROVE IdsDiffer'
  <2>. DEFINE n == NetOf[d]
  <2>1. PICK r \in NewRandomId(n) : random_id' = [random_id EXCEPT ![n] = r]
    BY <1>1 DEF AddDev
  <2>2. \A k \in Net \ {n} : devs[k] # <<>> => random_id[k] # r
    BY DEF NewRandomId, Timely
  <2>3. \A k \in Net \ {n} : devs'[k] = devs[k] /\ random_id'[k] = random_id[k]
    BY <1>1, <2>1 DEF AddDev, IInv, TypeOK
  <2>4. n \in Net => random_id'[n] = r
    BY <2>1 DEF IInv, TypeOK
  <2>. HIDE DEF n
  <2>. QED
    BY <2>2, <2>3, <2>4 DEF IdsDiffer
<1>2. ASSUME NEW n \in Net, Leave(n) \/ Crash(n) PROVE IdsDiffer'
  <2>1. devs' = [devs EXCEPT ![n] = <<>>] /\ random_id' = [random_id EXCEPT ![n] = 0]
    BY <1>2 DEF Leave, Crash, Gone
  <2>. QED
    BY <2>1 DEF IInv, TypeOK, IdsDiffer
<1>3. ASSUME UNCHANGED <<devs, random_id>> PROVE IdsDiffer'
  BY <1>3 DEF IdsDiffer
<1>4. ASSUME NEW d \in Dev, Poll(d) PROVE UNCHANGED <<devs, random_id>>
  BY <1>4 DEF Poll, Reprobe, MoveOn, Lock, Reregister, ProbeName, Register
<1>5. ASSUME NEW n \in Net, Recv(n) \/ Lose(n) PROVE UNCHANGED <<devs, random_id>>
  BY <1>5 DEF Recv, RecvProbe, RecvRegistered, RecvLogout, Lose
<1>6. Tick \/ UNCHANGED vars => UNCHANGED <<devs, random_id>>
  BY DEF Tick, vars
<1>7. \A n \in Net : ~ Reinit(n)
  BY DEF Reinit, Timely
<1>. QED
  BY <1>1, <1>2, <1>3, <1>4, <1>5, <1>6, <1>7 DEF Next

LEMMA ContestStep ==
    ASSUME Timely
    PROVE  IInv /\ Placed /\ IdsDiffer /\ Contest /\ [Next]_vars => Contest'
<1>. SUFFICES ASSUME IInv, Placed, IdsDiffer, Contest, [Next]_vars PROVE Contest'
  OBVIOUS
<1>1. IInv'
  BY StepInv
<1>2. ASSUME NEW d \in Dev, AddDev(d) PROVE Contest'
  BY <1>1, <1>2, ContestAddDev
<1>3. ASSUME NEW d \in Dev, Poll(d) PROVE Contest'
  BY <1>1, <1>3, ContestPoll
<1>4. ASSUME NEW n \in Net, Recv(n) PROVE Contest'
  BY <1>1, <1>4, ContestRecv
<1>5. ASSUME NEW n \in Net, Leave(n) \/ Crash(n) PROVE Contest'
  BY <1>1, <1>5, ContestLeave
<1>6. CASE Tick
  BY <1>1, <1>6, ContestTick
<1>7. CASE UNCHANGED vars
  <2>1. \A x \in Dev : /\ Value(x)' = Value(x) /\ IdOf(x)' = IdOf(x) /\ alloc'[x] = alloc[x]
                       /\ (Added(x)' <=> Added(x))
    BY <1>7 DEF vars, Value, IdOf, Added
  <2>2. \A x, y \in Dev : Loses(x, y) => Loses(x, y)'
    BY <1>1, <1>7, <2>1, OthersStay DEF vars
  <2>. QED
    BY <2>1, <2>2, ContestKept
<1>8. \A n \in Net : ~ Reinit(n) /\ ~ Lose(n)
  BY DEF Reinit, Lose, Timely
<1>. QED
  BY <1>2, <1>3, <1>4, <1>5, <1>6, <1>7, <1>8 DEF Next

LEMMA ContestInvariance == ASSUME Timely PROVE Spec => [](Contest /\ IdsDiffer)
<1>1. Init => Contest /\ IdsDiffer
  <2>1. Init => \A x \in Dev : ~ Added(x)
    BY ConstantsAssumption DEF Init, Added
  <2>. QED
    BY <2>1 DEF Init, Contest, Rivals, IdsDiffer
<1>. QED
  BY <1>1, ContestStep, IdsStep, Invariance, PlacedInvariance, PTL DEF Spec

\* No two devices lock the same name, on any number of processes that come, go
\* and crash, if what is sent arrives before half the quiet time is over
\* (check_collisions, handler_name_probe, handler_name).
THEOREM NamesUnique == ASSUME Timely PROVE Spec => []UniqueNames
<1>1. Contest /\ NameInv => UniqueNames
  <2>. SUFFICES ASSUME Contest, NameInv, NEW d \in Dev, NEW e \in Dev,
                       d # e, Locked(d), Locked(e),
                       NameOf(d, alloc[d].val) = NameOf(e, alloc[e].val)
                PROVE  FALSE
    BY DEF UniqueNames
  <2>1. Rivals(d, e)
    BY DEF NameInv, Rivals, Value
  <2>. QED
    BY <2>1 DEF Contest, Loses
<1>2. ~ CanReinit
  BY DEF Timely
<1>. QED
  BY <1>1, <1>2, ContestInvariance, NameInvariance, PTL

------------------------------------------------------------------------------
(***************************************************************************)
(* The registry that the devices implement together.                       *)
(***************************************************************************)

\* A name that is held is a name.
LEMMA HeldNames ==
    ASSUME IInv, NEW d \in Dev
    PROVE  /\ NameOf(d, alloc[d].val) \in DevName
           /\ Held[d] # NoDevName <=> Locked(d)
           /\ Locked(d) => Held[d] = NameOf(d, alloc[d].val)
<1>1. alloc[d].val \in 0 .. MaxOrd
  BY DEF IInv, TypeOK, Allocator
<1>2. NameOf(d, alloc[d].val) \in DevName
  BY <1>1, ConstantsAssumption DEF NameOf, DevName
<1>3. NoPrefix \notin Prefix
  BY ConstantsAssumption
<1>4. NameOf(d, alloc[d].val) # NoDevName
  BY <1>2, <1>3 DEF DevName, NoDevName, NameOf
<1>. QED
  BY <1>2, <1>4 DEF Held

\* Steps that leave the locks alone do not concern the registry.
LEMMA HeldKept ==
    ASSUME \A d \in Dev : (Locked(d)' <=> Locked(d)) /\ (Locked(d) => alloc'[d].val = alloc[d].val)
    PROVE  Held' = Held
  BY DEF Held, NameOf

\* The registry sees a claim when a device locks its ordinal, and a release when
\* one goes away.
LEMMA RegistryStep ==
    ASSUME IInv, IInv', Placed, NameInv, UniqueNames', ~ CanReinit, [Next]_vars
    PROVE  [Registry!Next]_Held
<1>1. alloc \in [Dev -> Allocator]
  BY DEF IInv, TypeOK
<1>2. ASSUME NEW d \in Dev, Lock(d) PROVE Registry!Next
  <2>1. ~ Locked(d) /\ alloc' = [alloc EXCEPT ![d].locked = TRUE]
    BY <1>2 DEF Lock, Locked
  <2>2. Locked(d)' /\ alloc'[d].val = alloc[d].val
    BY <1>1, <2>1 DEF Locked, Allocator
  <2>3. \A e \in Dev \ {d} : alloc'[e] = alloc[e]
    BY <1>1, <2>1
  <2>. DEFINE nm == NameOf(d, alloc[d].val)
  <2>4. nm \in DevName /\ Held[d] = NoDevName /\ nm # NoDevName
    <3>1. nm \in DevName /\ Held[d] = NoDevName
      BY <2>1, HeldNames
    <3>2. NoPrefix \notin Prefix
      BY ConstantsAssumption
    <3>3. NoDevName \notin DevName
      BY <3>2 DEF NoDevName, DevName
    <3>. QED
      BY <3>1, <3>3
  <2>5. ASSUME NEW e \in Dev PROVE Held[e] # nm
    <3>1. CASE Locked(e)
      <4>1. e # d /\ Held[e] = NameOf(e, alloc[e].val)
        BY <2>1, <3>1, HeldNames
      <4>2. Locked(e)' /\ alloc'[e].val = alloc[e].val
        BY <2>3, <3>1, <4>1 DEF Locked
      <4>. QED
        BY <2>2, <4>1, <4>2 DEF UniqueNames
    <3>2. CASE ~ Locked(e)
      BY <2>4, <3>2, HeldNames
    <3>. QED
      BY <3>1, <3>2
  <2>6. Held' = [Held EXCEPT ![d] = nm]
    <3>1. \A e \in Dev \ {d} : Locked(e)' = Locked(e) /\ alloc'[e].val = alloc[e].val
      BY <2>3 DEF Locked
    <3>. QED
      BY <2>2, <3>1 DEF Held, NameOf
  <2>7. Registry!Claim(d, nm)
    BY <2>4, <2>5, <2>6 DEF Registry!Claim
  <2>. QED
    BY <2>4, <2>7 DEF Registry!Next
<1>3. ASSUME NEW d \in Dev, Poll(d) PROVE Registry!Next \/ Held' = Held
  <2>1. CASE Lock(d)
    BY <1>2, <2>1
  <2>2. CASE Reregister(d)
    BY <2>2, HeldKept DEF Reregister, Locked
  <2>3. ASSUME NEW o, ~ Locked(d), ProbeName(d, o) PROVE Held' = Held
    <3>1. alloc' = [alloc EXCEPT ![d] = Probing(@, o)]
      BY <2>3 DEF ProbeName
    <3>2. Locked(d)' = Locked(d)
      BY <1>1, <3>1 DEF Locked, Probing, Allocator
    <3>3. \A e \in Dev \ {d} : Locked(e)' = Locked(e) /\ alloc'[e].val = alloc[e].val
      BY <1>1, <3>1 DEF Locked
    <3>. QED
      BY <2>3, <3>2, <3>3, HeldKept
  <2>. QED
    BY <1>3, <2>1, <2>2, <2>3 DEF Poll, Reprobe, MoveOn, Locked
<1>4. ASSUME NEW n \in Net, Leave(n) \/ Crash(n) PROVE Registry!Next \/ Held' = Held
  <2>1. PICK d \in Dev : d = Leader(n)
    <3>1. Len(devs[n]) = 1
      BY <1>4 DEF Leave, Crash
    <3>2. devs[n] # <<>>
      BY <3>1
    <3>. QED
      BY <3>2, LeaderType DEF IInv
  <2>2. alloc' = [alloc EXCEPT ![d] = NewAllocator]
    BY <1>4, <2>1 DEF Leave, Crash, Gone
  <2>3. ~ Locked(d)'
    BY <1>1, <2>2 DEF Locked, NewAllocator
  <2>4. \A e \in Dev \ {d} : Locked(e)' = Locked(e) /\ alloc'[e].val = alloc[e].val
    BY <1>1, <2>2 DEF Locked
  <2>5. CASE Locked(d)
    <3>1. Held[d] # NoDevName
      BY <2>5, HeldNames
    <3>2. Held' = [Held EXCEPT ![d] = NoDevName]
      BY <2>3, <2>4 DEF Held, NameOf
    <3>. QED
      BY <3>1, <3>2 DEF Registry!Next, Registry!Release
  <2>6. CASE ~ Locked(d)
    BY <2>3, <2>4, <2>6, HeldKept
  <2>. QED
    BY <2>5, <2>6
<1>5. ASSUME NEW d \in Dev, AddDev(d) PROVE Held' = Held
  <2>1. ~ Locked(d) /\ alloc' = [alloc EXCEPT ![d] = NewAllocator]
    BY <1>5 DEF AddDev, NameInv
  <2>2. ~ Locked(d)'
    BY <1>1, <2>1 DEF Locked, NewAllocator
  <2>3. \A e \in Dev \ {d} : Locked(e)' = Locked(e) /\ alloc'[e].val = alloc[e].val
    BY <1>1, <2>1 DEF Locked
  <2>. QED
    BY <2>1, <2>2, <2>3, HeldKept
<1>6. ASSUME NEW n \in Net, Recv(n) PROVE Held' = Held
  BY <1>6, RecvEffect, HeldKept
<1>7. CASE Tick
  <2>1. ASSUME NEW d \in Dev
        PROVE  Locked(d)' = Locked(d) /\ alloc'[d].val = alloc[d].val
    <3>1. alloc'[d] = Aged(alloc[d]) \/ alloc'[d] = alloc[d]
      BY <1>7 DEF Tick
    <3>2. Aged(alloc[d]).val = alloc[d].val /\ Aged(alloc[d]).locked = alloc[d].locked
      BY <1>1 DEF Aged, Allocator
    <3>. QED
      BY <3>1, <3>2 DEF Locked
  <2>. QED
    BY <2>1, HeldKept
<1>8. ASSUME UNCHANGED alloc PROVE Held' = Held
  BY <1>8, HeldKept DEF Locked
<1>9. ASSUME NEW n \in Net, Lose(n) PROVE UNCHANGED alloc
  BY <1>9 DEF Lose
<1>10. UNCHANGED vars => UNCHANGED alloc
  BY DEF vars
<1>11. \A n \in Net : ~ Reinit(n)
  BY DEF Reinit
<1>. QED
  BY <1>3, <1>4, <1>5, <1>6, <1>7, <1>8, <1>9, <1>10, <1>11 DEF Next

\* Without a server the devices allocate names as if they claimed them one at a
\* time in one place: every step of the network is a claim of a free name, a
\* release, or nothing to the registry.
THEOREM RegistryImplemented == ASSUME Timely PROVE Spec => ImplementsRegistry
<1>1. Init => Registry!Init
  BY DEF Init, NewAllocator, Registry!Init, Held, Locked
<1>2. IInv /\ IInv' /\ Placed /\ NameInv /\ UniqueNames' /\ [Next]_vars => [Registry!Next]_Held
  BY RegistryStep DEF Timely
<1>3. ~ CanReinit
  BY DEF Timely
<1>. QED
  BY <1>1, <1>2, <1>3, Invariance, PlacedInvariance, NameInvariance, NamesUnique, PTL
     DEF Spec, ImplementsRegistry, Registry!Spec

==============================================================================
