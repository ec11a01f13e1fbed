---------------------------- MODULE CustodyFile ----------------------------
(***************************************************************************)
(* The few facts of a custody file its outboxes and its readers look at:   *)
(* where the package is, how far the way home is, and whether the refusal  *)
(* ladder ever decided a second passage.  CustodySpine implements this     *)
(* machine (CustodySpine!ImplementsFile) and CustodyWires runs on it.      *)
(***************************************************************************)
VARIABLES
    phase,       \* where the package is, and whether the order ended
    retour,      \* returnFlow.state
    rescheduled  \* the ladder reached `reschedule` once

fileVars == <<phase, retour, rescheduled>>

Phases  == {"at_seller", "refused", "on_road", "delivered", "home"}
Retours == {"none", "opened", "closed"}

FileInit == phase = "at_seller" /\ retour = "none" /\ rescheduled = FALSE

\* A non-conform verification ends the order at the seller's counter.
RefusePickup ==
    /\ phase = "at_seller"
    /\ phase' = "refused"
    /\ UNCHANGED <<retour, rescheduled>>

BeginRoad ==
    /\ phase = "at_seller"
    /\ phase' = "on_road"
    /\ UNCHANGED <<retour, rescheduled>>

\* The retry window of a non-escalating refusal expired.  The spine looks at
\* the delivery only: the package may already be back at the seller's.
Reschedule ==
    /\ phase \in {"on_road", "home"}
    /\ ~rescheduled
    /\ rescheduled' = TRUE
    /\ UNCHANGED <<phase, retour>>

\* Opened by the rider's act; opening again is accepted.
OpenRetour ==
    /\ phase = "on_road"
    /\ retour' = "opened"
    /\ UNCHANGED <<phase, rescheduled>>

HandBack ==
    /\ phase = "on_road"
    /\ retour = "opened"
    /\ phase' = "home" /\ retour' = "closed"
    /\ UNCHANGED rescheduled

Deliver ==
    /\ phase = "on_road"
    /\ retour = "none"
    /\ phase' = "delivered"
    /\ UNCHANGED <<retour, rescheduled>>

FileNext == RefusePickup \/ BeginRoad \/ Reschedule \/ OpenRetour \/ HandBack
            \/ Deliver

FileSpec == FileInit /\ [][FileNext]_fileVars
=============================================================================
