---------------------------- MODULE PackageOwner ----------------------------
(***************************************************************************)
(* What the claims on packages promise (Sera-Build-Spec, SE-I04, quoted by *)
(* services/custody-service/worker/package-claim-do.ts): one custody file  *)
(* at most ever acts on a package, and the first that does keeps it.       *)
(***************************************************************************)
CONSTANTS Orders, Packages, None

VARIABLE carrier    \* the order whose file began custody of each package

Init == carrier = [p \in Packages |-> None]

Carry(o, p) ==
    /\ carrier[p] = None
    /\ carrier' = [carrier EXCEPT ![p] = o]

Next == \E o \in Orders, p \in Packages : Carry(o, p)

Spec == Init /\ [][Next]_carrier
=============================================================================
