---------------------------- MODULE CustodyChain ----------------------------
(***************************************************************************)
(* What the custody file of an order promises to the rest of the system    *)
(* (Sera-Build-Spec SE-I04, SE-I05, section 6.5): the package has exactly  *)
(* one custodian at any time, it leaves the seller at most once, into the  *)
(* hands of one rider, and it then ends either with the customer, with     *)
(* money becoming eligible for settlement, or back with the seller.        *)
(***************************************************************************)
CONSTANTS Riders

VARIABLES
    holder,     \* who holds the package
    outcome     \* "open", then "delivered" or "returned" for good

vars == <<holder, outcome>>

Init == holder = "none" /\ outcome = "open"

\* The seller becomes the first custodian when custody is first asked for.
Establish ==
    /\ holder = "none"
    /\ holder' = "seller"
    /\ UNCHANGED outcome

\* The hand-over to a rider; it may be the establishing step as well.
HandOver(r) ==
    /\ holder \in {"none", "seller"}
    /\ outcome = "open"
    /\ holder' = r
    /\ UNCHANGED outcome

Deliver ==
    /\ holder \in Riders
    /\ outcome = "open"
    /\ holder' = "customer"
    /\ outcome' = "delivered"

GiveBack ==
    /\ holder \in Riders
    /\ outcome = "open"
    /\ holder' = "seller"
    /\ outcome' = "returned"

Next == Establish \/ (\E r \in Riders : HandOver(r)) \/ Deliver \/ GiveBack

Spec == Init /\ [][Next]_vars
=============================================================================
