---------------------------- MODULE PackageClaim ----------------------------
(***************************************************************************)
(* One custody file per package.  Each order has a custody object          *)
(* (services/custody-service/worker/custody-do.ts) and each package a claim *)
(* object (worker/package-claim-do.ts), two addresses with two storages:   *)
(* to open its file an order must win the claim on its package, by a call  *)
(* that may be slow, lost, answered to nobody, or sent again; to take      *)
(* custody it must still hold it.  A file opened before claims existed     *)
(* holds none until it is opened again.                                    *)
(***************************************************************************)
EXTENDS Naturals, FiniteSets

CONSTANTS
    Orders, Packages, Riders, None,
    Legacy,         \* [Orders -> Packages or None], the files opened before claims existed
    Wish,           \* [Orders -> Packages], the package each order's producer keeps asking for
    MaxFaults       \* calls that fail and objects that restart

ASSUME LegacyAssumption == Legacy \in [Orders -> Packages \cup {None}]
ASSUME NoneAssumption == None \notin Orders \cup Packages \cup Riders \cup {"won", "taken"}
ASSUME WishAssumption == Wish \in [Orders -> Packages]
ASSUME BoundsAssumption == MaxFaults \in Nat

VARIABLES
    claim,      \* each claim object's row: the order it names, or None
    file,       \* each custody object's rows: chain, marker, the log's two acts
    hops,       \* the opens waiting inside their object for the claim's answer
    calls,      \* the claim requests on their way
    faults

claimVars == <<claim, file, hops, calls, faults>>

\* The rows of a custody object: the package its chain names, the package its
\* claim marker names, the rider of the first accepted verification and the
\* rider custody began with.
Rows == [pkg : Packages, marker : Packages \cup {None},
         verified : Riders \cup {None}, begun : Riders \cup {None}]
ASSUME NoneIsNoFile == None \notin Rows

Opened(p, marker) == [pkg |-> p, marker |-> marker, verified |-> None, begun |-> None]

IsOpen(o) == file[o] # None

\* The marker must agree with the chain it sits beside, or it is no claim.
ClaimHeld(o) == IsOpen(o) /\ file[o].marker = file[o].pkg

\* An open runs inside blockConcurrencyWhile: while it waits for the claim's
\* answer, no other request enters the object.
Free(o) == \A h \in hops : h.order # o

ClaimInit ==
    /\ claim = [p \in Packages |-> None]
    /\ file = [o \in Orders |-> IF Legacy[o] = None THEN None ELSE Opened(Legacy[o], None)]
    /\ hops = {} /\ calls = {}
    /\ faults = 0

(***************************************************************************)
(* POST /order/open.                                                       *)
(***************************************************************************)
\* Mutant: a file already open answers at once, healed or not.
MustClaimUnopened(o, p) == ~IsOpen(o)

\* Whether the open has a claim to ask for: a file not open yet, or one open
\* on the same ids whose claim is not held.  Other ids are refused, and a file
\* that holds its claim answers at once.
MustClaim(o, p) == IF IsOpen(o) THEN p = file[o].pkg /\ ~ClaimHeld(o) ELSE TRUE

Open(o, p) ==
    /\ Free(o)
    /\ IF MustClaim(o, p)
       THEN /\ hops' = hops \cup {[order |-> o, pkg |-> p, answer |-> None]}
            /\ calls' = calls \cup {[order |-> o, pkg |-> p]}
       ELSE UNCHANGED <<hops, calls>>
    /\ UNCHANGED <<claim, file, faults>>

\* Mutant: the row read before the body was parsed decides; everyone saw none.
WinsStale(held, o) == TRUE

\* The claim object, body parsed, inside its own block: read, decide, write.
\* The first order wins, the same order again is absorbed, any other is refused.
Wins(held, o) == held \in {None, o}

Claim(c) ==
    /\ c \in calls
    /\ calls' = calls \ {c}
    /\ claim' = [claim EXCEPT ![c.pkg] = IF Wins(@, c.order) THEN c.order ELSE @]
    /\ hops' = {IF [order |-> h.order, pkg |-> h.pkg] = c
                THEN [h EXCEPT !.answer = IF Wins(claim[c.pkg], c.order) THEN "won" ELSE "taken"]
                ELSE h : h \in hops}
    /\ UNCHANGED <<file, faults>>

\* Won: chain, head and marker land in one write; on a file already open (the
\* heal) the marker alone.  Refused: the holder is passed through, nothing is
\* written.
Written(rows, p) == IF rows = None THEN Opened(p, p) ELSE [rows EXCEPT !.marker = p]

OpenEnds(h) ==
    /\ h \in hops /\ h.answer # None
    /\ hops' = hops \ {h}
    /\ file' = [file EXCEPT ![h.order] = IF h.answer = "won" THEN Written(@, h.pkg) ELSE @]
    /\ UNCHANGED <<claim, calls, faults>>

\* The call fails: 503, nothing written here.  The claim object may have
\* decided, or decide later, or never hear of it.
HopFails(h) ==
    /\ h \in hops
    /\ faults < MaxFaults /\ faults' = faults + 1
    /\ hops' = hops \ {h}
    /\ calls' \in {calls, calls \ {[order |-> h.order, pkg |-> h.pkg]}}
    /\ UNCHANGED <<claim, file>>

\* A custody object restarts, its open with it: what it wakes up with is its
\* rows, and they land together or not at all.
ObjectRestart(o) ==
    /\ ~Free(o)
    /\ faults < MaxFaults /\ faults' = faults + 1
    /\ hops' = {h \in hops : h.order # o}
    /\ UNCHANGED <<claim, file, calls>>

(***************************************************************************)
(* The acts.                                                               *)
(***************************************************************************)
\* The first accepted verification of the pickup; the spine refuses a second.
Verify(o, r) ==
    /\ Free(o) /\ IsOpen(o)
    /\ file[o].verified = None
    /\ file' = [file EXCEPT ![o].verified = r]
    /\ UNCHANGED <<claim, hops, calls, faults>>

\* Mutant: an open file and a verification are enough.
MayBeginUnclaimed(o, r) == file[o].verified = r

\* POST /custody/begin: no claim, no custody; and only the rider who verified.
MayBegin(o, r) == ClaimHeld(o) /\ file[o].verified = r

Begin(o, r) ==
    /\ Free(o) /\ IsOpen(o)
    /\ MayBegin(o, r)
    /\ file[o].begun = None
    /\ file' = [file EXCEPT ![o].begun = r]
    /\ UNCHANGED <<claim, hops, calls, faults>>

ClaimNext ==
    \/ \E o \in Orders, p \in Packages : Open(o, p)
    \/ \E c \in calls : Claim(c)
    \/ \E h \in hops : OpenEnds(h) \/ HopFails(h)
    \/ \E o \in Orders : ObjectRestart(o)
    \/ \E o \in Orders, r \in Riders : Verify(o, r) \/ Begin(o, r)

ClaimSpec == ClaimInit /\ [][ClaimNext]_claimVars

\* Requests reach the claim object, an answered open ends, and the producer
\* delivers at least once: it asks again while its order has no claim.
ClaimFairSpec ==
    /\ ClaimSpec
    /\ \A o \in Orders :
          /\ SF_claimVars(Open(o, Wish[o]))
          /\ \A p \in Packages : WF_claimVars(Claim([order |-> o, pkg |-> p]))
          /\ WF_claimVars(\E h \in hops : h.order = o /\ OpenEnds(h))

(***************************************************************************)
(* Properties.                                                             *)
(***************************************************************************)
ClaimTypeOK ==
    /\ claim \in [Packages -> Orders \cup {None}]
    /\ file \in [Orders -> Rows \cup {None}]
    /\ hops \subseteq [order : Orders, pkg : Packages, answer : {None, "won", "taken"}]
    /\ calls \subseteq [order : Orders, pkg : Packages]
    /\ faults \in 0 .. MaxFaults

\* SE-I04 across files: two orders never both take custody of one package,
\* whatever raced, failed or restarted, and whichever file is older than the
\* claims (custody-do.ts winPackageClaim, claimHeldRefusal).
OneFileActs ==
    \A o, q \in Orders :
        (o # q /\ IsOpen(o) /\ IsOpen(q) /\ file[o].begun # None /\ file[q].begun # None)
            => file[o].pkg # file[q].pkg

\* A file that counts itself the holder is the order the claim object names:
\* the two rows live in two objects and never disagree.
HeldIsClaimed == \A o \in Orders : ClaimHeld(o) => claim[file[o].pkg] = o

\* No package is left claimed by an order that carries another one: nothing
\* releases a claim, so its goods could never be taken (the race the block in
\* /order/open was written for).
ClaimedIsCarried ==
    \A p \in Packages : claim[p] # None /\ IsOpen(claim[p]) /\ Free(claim[p]) => file[claim[p]].pkg = p

\* A claim is never a lock-out: an order asked for again and again ends up
\* holding the package it names, unless another order holds it or the file was
\* opened on another package; an old file heals the same way.
AskedAgainHolds ==
    \A o \in Orders :
        <>(\/ ClaimHeld(o)
           \/ claim[Wish[o]] \notin {o, None}
           \/ IsOpen(o) /\ file[o].pkg # Wish[o])

\* The files implement the abstract owner: the first file to begin custody of a
\* package, and no other.
Carriers(p) == {o \in Orders : IsOpen(o) /\ file[o].pkg = p /\ file[o].begun # None}
CarrierOf == [p \in Packages |->
    IF Carriers(p) = {} THEN None ELSE CHOOSE o \in Carriers(p) : TRUE]
Owner == INSTANCE PackageOwner WITH carrier <- CarrierOf
OneOwner == Owner!Spec
=============================================================================
