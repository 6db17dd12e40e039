---------------------------- MODULE NameRegistry ----------------------------
(***************************************************************************)
(* What the allocation of device names promises: as if the devices of the  *)
(* whole network claimed their names, one at a time, in one place.         *)
(***************************************************************************)
CONSTANTS Dev, Name, NoName

VARIABLE holds      \* the name each device holds, or NoName

Init == holds = [d \in Dev |-> NoName]

\* A device gets a name nobody holds, and keeps it ...
Claim(d, nm) ==
    /\ holds[d] = NoName
    /\ \A e \in Dev : holds[e] # nm
    /\ holds' = [holds EXCEPT ![d] = nm]

\* ... until it goes away.
Release(d) ==
    /\ holds[d] # NoName
    /\ holds' = [holds EXCEPT ![d] = NoName]

Next == \E d \in Dev : Release(d) \/ \E nm \in Name : Claim(d, nm)

Spec == Init /\ [][Next]_holds

=============================================================================
