---------------------------- MODULE MCNameAlloc ----------------------------
(***************************************************************************)
(* Small networks for NameAlloc.  A tick is half a second.                 *)
(***************************************************************************)
EXTENDS NameAlloc

CONSTANTS n1, n2, d1, d2, pa

OneDevPerNet == (d1 :> n1) @@ (d2 :> n2)
OneDev == d1 :> n1

SamePrefix == [d \in Dev |-> pa]
NoShift == [p \in Prefix |-> NoPrefix]

\* Processes are interchangeable, each together with its device.
Swaps ==
    {[x \in Net \cup Dev |-> IF x \in Net THEN f[x]
                            ELSE CHOOSE d \in Dev : NetOf[d] = f[NetOf[x]]]
       : f \in Permutations(Net)}

=============================================================================
