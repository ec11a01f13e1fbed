---------------------------- MODULE CustodySpine ----------------------------
(***************************************************************************)
(* The custody file of ONE order: the aggregate that decides who holds the *)
(* package, which single-use secrets are spent, what the door said, what   *)
(* the refusal ladder decided and which terminal events were emitted.      *)
(*                                                                         *)
(* Source: services/custody-service/src/custody-spine.ts and the modules   *)
(* it calls, driven exactly as CustodyDO.apply (worker/custody-do.ts)      *)
(* drives it.  The Durable Object runs one command at a time, so a command *)
(* is one action.  A command the spine refuses without touching its state  *)
(* is a stutter; the refusals that DO change state (the first              *)
(* custody/begin, the alerts of a door signal) are part of their action.   *)
(***************************************************************************)
EXTENDS Naturals, FiniteSets

CONSTANTS
    Riders,         \* courier identities that reach the custody doors
    Supplier,       \* supplierId of the chain; may also present itself as a rider
    Modes,          \* payment modes an order of this model is opened with
    ColisFlags,     \* values of the chain's `colis` flag
    Codes,          \* [SecretKinds -> set of digests callers arm or present]
    References,     \* collection references Shop+ may declare for the door leg
    MaxReferences,  \* MAX_DOOR_REFERENCES
    SignalIds,      \* command_ids of the provider's door-leg signals
    Times,          \* instants `at` a command can carry
    RetryWindow,    \* REFUSAL_LADDER_POLICY_V1.retryWindowMin, in model ticks
    MaxReopens      \* bound on repeated return openings and liability claims

FullPrepay == "FULL_PREPAY"
AtDoor     == "DELIVERY_FEE_PREPAID_PRODUCT_AT_DOOR"

None == "none"

SecretKinds == {"pickup_verification_code", "custody_seal", "buyer_drop_code",
                "return_seal", "seller_return_acceptance",
                "rider_return_confirmation"}

\* The kinds /secrets/arm accepts: the return seal is only ever armed by openReturn.
ArmableKinds == SecretKinds \ {"return_seal"}

Digests == UNION {Codes[k] : k \in SecretKinds}

EscalatingReasons    == {"insufficient_balance", "change_of_mind",
                         "repeated_abuse", "fraud"}
NonEscalatingReasons == {"honest_absence", "unusable_location",
                         "provider_failure"}
Reasons == EscalatingReasons \cup NonEscalatingReasons

\* faultByReason: every reason is the buyer's fault but the provider's outage.
FaultOf(reason) == IF reason = "provider_failure" THEN "payment_provider"
                                                  ELSE "buyer"

EventNames == {"verification_recorded", "claim_opened", "refused",
               "transferred_to_courier", "transferred_to_customer", "validated",
               "return_requested", "returned_to_supplier", "liability_claim"}

ASSUME RidersAssumption ==
    Riders \cap {None, "seller", "customer"} = {}
ASSUME ModesAssumption  == Modes \subseteq {FullPrepay, AtDoor}
ASSUME ColisAssumption  == ColisFlags \subseteq BOOLEAN
ASSUME CodesAssumption  ==
    /\ DOMAIN Codes = SecretKinds
    /\ None \notin UNION {Codes[k] : k \in SecretKinds}
ASSUME TimesAssumption  == Times \subseteq Nat /\ RetryWindow \in Nat
ASSUME BoundsAssumption == MaxReferences \in Nat /\ MaxReopens \in Nat

VARIABLES
    chain,        \* [mode, colis]: fixed when the order is opened
    secrets,      \* SecretRegistry.records: the digest armed and whether it is spent
    custodian,    \* CustodyLedger.custodianByPackage
    verifier,     \* the rider of the accepted verify_pickup row (verificationAccepted)
    pickupRefused,\* pickupRefusal # null
    withCourier,  \* custodyWithCourier
    seal,         \* registeredSealId
    evidence,     \* evidenceSubmitted # null
    decided,      \* decision.result = 'validated'
    delivered,    \* eligibilityEmittedForOrder
    accepted,     \* doorInspection # null (only an accepted session is kept)
    rejection,    \* validRejection.faultClass
    doorPaid,     \* doorPaymentConfirmed
    doorRefs,     \* doorReferences
    paidSignals,  \* doorSignalCommandIds
    alerted,      \* alertedSignalCommandIds
    settledAlerted, \* settledAlertedSignalCommandIds
    ladder,       \* ladderOutcome
    finalChange,  \* changementAvisFinal
    feeRetained,  \* feeRetainedForOrder
    feeWaived,    \* dispatcherReturnFeeWaived
    returnFlow,   \* returnFlow.state
    emitted       \* how many times each platform event was emitted

pickupVars  == <<verifier, pickupRefused>>
transitVars == <<withCourier, seal>>
proofVars   == <<evidence, decided, delivered>>
doorVars    == <<accepted, rejection>>
payVars     == <<doorPaid, doorRefs, paidSignals, alerted, settledAlerted>>
ladderVars  == <<ladder, finalChange, feeRetained, feeWaived>>
vars == <<chain, secrets, custodian, pickupVars, transitVars, proofVars,
          doorVars, payVars, ladderVars, returnFlow, emitted>>

-----------------------------------------------------------------------------
(* State.                                                                  *)

NoSecret == [digest |-> None, spent |-> FALSE]
SecretRecords == [digest : Digests \cup {None}, spent : BOOLEAN]

Families == {"retry", "reschedule", "return"}
NoLadder == [family |-> None, reason |-> None, attempt |-> 0, expiresAt |-> 0]
Outcomes == [family : Families, reason : Reasons, attempt : Nat \ {0}, expiresAt : Nat]

TypeOK ==
    /\ chain \in [mode : Modes, colis : ColisFlags]
    /\ secrets \in [SecretKinds -> SecretRecords]
    /\ custodian \in Riders \cup {None, "seller", "customer"}
    /\ verifier \in Riders \cup {None}
    /\ seal \in Digests \cup {None}
    /\ pickupRefused \in BOOLEAN /\ withCourier \in BOOLEAN
    /\ evidence \in BOOLEAN /\ decided \in BOOLEAN /\ delivered \in BOOLEAN
    /\ accepted \in BOOLEAN /\ doorPaid \in BOOLEAN /\ finalChange \in BOOLEAN
    /\ feeRetained \in BOOLEAN /\ feeWaived \in BOOLEAN
    /\ rejection \in {None, "seller", "sera"}
    /\ doorRefs \subseteq References
    /\ paidSignals \subseteq SignalIds
    /\ alerted \subseteq SignalIds
    /\ settledAlerted \subseteq SignalIds
    /\ ladder \in Outcomes \cup {NoLadder}
    /\ returnFlow \in {None, "opened", "closed"}
    /\ emitted \in [EventNames -> Nat]

Init ==
    /\ chain \in [mode : Modes, colis : ColisFlags]
    /\ secrets = [k \in SecretKinds |-> NoSecret]
    /\ custodian = None
    /\ verifier = None /\ pickupRefused = FALSE
    /\ withCourier = FALSE /\ seal = None
    /\ evidence = FALSE /\ decided = FALSE /\ delivered = FALSE
    /\ accepted = FALSE /\ rejection = None
    /\ doorPaid = FALSE /\ doorRefs = {}
    /\ paidSignals = {} /\ alerted = {} /\ settledAlerted = {}
    /\ ladder = NoLadder /\ finalChange = FALSE
    /\ feeRetained = FALSE /\ feeWaived = FALSE
    /\ returnFlow = None
    /\ emitted = [n \in EventNames |-> 0]

Emit(names) ==
    emitted' = [n \in EventNames |-> IF n \in names THEN emitted[n] + 1
                                                    ELSE emitted[n]]

-----------------------------------------------------------------------------
(* The single-use secrets.                                                 *)

\* Mutant: register() writes over a consumed secret.
RegistrableAgain(kind) == kind \in SecretKinds

Registrable(kind) == ~secrets[kind].spent

Consumable(kind, digest) ==
    /\ secrets[kind].digest = digest
    /\ ~secrets[kind].spent

Registered(kind, digest) ==
    [secrets EXCEPT ![kind] = [digest |-> digest, spent |-> FALSE]]

Spent(kinds) ==
    [k \in SecretKinds |-> IF k \in kinds
                           THEN [digest |-> secrets[k].digest, spent |-> TRUE]
                           ELSE secrets[k]]

\* POST /secrets/arm.  Arming over an unspent secret supersedes it.
ArmSecret(kind, digest) ==
    /\ Registrable(kind)
    /\ secrets' = Registered(kind, digest)
    /\ UNCHANGED <<chain, custodian, pickupVars, transitVars, proofVars,
                   doorVars, payVars, ladderVars, returnFlow, emitted>>

-----------------------------------------------------------------------------
(* Pickup: the rider verifies, then the seal starts courier custody.       *)

\* POST /verification.  An input the policy finds invalid, or a wrong or
\* spent code, leaves the spine alone; a refused conformity check is final.
VerifyPickup(rider, digest, conform) ==
    /\ ~pickupRefused
    /\ Consumable("pickup_verification_code", digest)
    /\ secrets' = Spent({"pickup_verification_code"})
    /\ IF conform
       THEN /\ verifier' = rider
            /\ Emit({"verification_recorded"})
            /\ UNCHANGED pickupRefused
       ELSE /\ pickupRefused' = TRUE
            /\ Emit({"verification_recorded", "claim_opened", "refused"})
            /\ UNCHANGED verifier
    /\ UNCHANGED <<chain, custodian, transitVars, proofVars, doorVars, payVars,
                   ladderVars, returnFlow>>

\* CustodyDO.apply establishes the seller as first custodian before any
\* beginCustody, the refused ones included.
Established == IF custodian = None THEN "seller" ELSE custodian

\* Mutant: a seal is taken whether or not it was consumed before.
SealFitsAgain(digest) == digest \in Digests

\* The seal presented is the one armed, or nothing was armed and the
\* presentation itself binds it (secret_unknown -> register, consume).
SealFits(digest) ==
    \/ Consumable("custody_seal", digest)
    \/ secrets["custody_seal"] = NoSecret

\* Mutant: the actor separation is forgotten.
BeginAllowedToAll(rider, digest) == verifier # None /\ SealFits(digest)

BeginAllowed(rider, digest) ==
    /\ verifier # None
    /\ rider # Supplier
    /\ SealFits(digest)

\* The seal is consumed before the ledger is asked; the ledger moves the
\* package only from the seller (custodian_conflict otherwise).
TakeCustody(rider, digest) ==
    LET moves == Established = "seller"
    IN  /\ secrets' = [secrets EXCEPT !["custody_seal"] =
                          [digest |-> digest, spent |-> TRUE]]
        /\ custodian' = IF moves THEN rider ELSE Established
        /\ withCourier' = (moves \/ withCourier)
        /\ seal' = IF moves THEN digest ELSE seal
        /\ Emit(IF moves THEN {"transferred_to_courier"} ELSE {})

\* POST /custody/begin.  The object itself refuses a rider other than the
\* one who verified, before the spine is asked.
BeginCustody(rider, digest) ==
    /\ verifier # None => verifier = rider
    /\ \/ /\ BeginAllowed(rider, digest)
          /\ TakeCustody(rider, digest)
       \/ /\ ~BeginAllowed(rider, digest)
          /\ custodian' = Established
          /\ UNCHANGED <<secrets, transitVars, emitted>>
    /\ UNCHANGED <<chain, pickupVars, proofVars, doorVars, payVars, ladderVars,
                   returnFlow>>

-----------------------------------------------------------------------------
(* Evidence, decision and drop.                                            *)

\* POST /delivery/evidence: one bundle, bound to the seal of the pickup.
\* The object then commits decide_validation on its own (autoDecide...); a
\* crash between the two commits leaves the evidence undecided.
SubmitEvidence(digest) ==
    /\ withCourier
    /\ ~evidence
    /\ seal # None /\ digest = seal
    /\ evidence' = TRUE
    /\ \E crashed \in BOOLEAN : decided' = (decided \/ ~crashed)
    /\ UNCHANGED <<chain, secrets, custodian, pickupVars, transitVars,
                   delivered, doorVars, payVars, ladderVars, returnFlow, emitted>>

\* POST /delivery/decide, or the retry of the evidence command.
DecideValidation ==
    /\ evidence
    /\ decided' = TRUE
    /\ UNCHANGED <<chain, secrets, custodian, pickupVars, transitVars, evidence,
                   delivered, doorVars, payVars, ladderVars, returnFlow, emitted>>

\* Mutant: an open return is not looked at.
GoingHomeRejected == rejection # None

GoingHome == rejection # None \/ returnFlow # None

\* Mutant: the accepted inspection alone unlocks the drop.
DoorLegInspected == chain.mode = AtDoor => accepted

\* SE-I11: on Option B the inspection and the payment come before custody.
DoorLegSettled == chain.mode = AtDoor => accepted /\ doorPaid

\* POST /delivery/drop.
ConfirmDrop(digest) ==
    /\ ~delivered
    /\ decided
    /\ withCourier
    /\ ~GoingHome /\ ~finalChange
    /\ DoorLegSettled
    /\ Consumable("buyer_drop_code", digest)
    /\ secrets' = Spent({"buyer_drop_code"})
    /\ custodian' = "customer"
    /\ delivered' = TRUE
    /\ withCourier' = FALSE
    /\ Emit({"transferred_to_customer", "validated"})
    /\ UNCHANGED <<chain, pickupVars, seal, evidence, decided, doorVars, payVars,
                   ladderVars, returnFlow>>

-----------------------------------------------------------------------------
(* At the door: one inspection, the refusal ladder, the payment signal.    *)

\* openRetryWindow: attempt 1, expiring one window after `at`.
RetryOutcome(reason, at) ==
    [family |-> "retry", reason |-> reason, attempt |-> 1,
     expiresAt |-> at + RetryWindow]

\* changeOfMindAtPackageDoor: final at once, no window.
FinalChangeOutcome ==
    [family |-> "return", reason |-> "change_of_mind", attempt |-> 1,
     expiresAt |-> 0]

\* What /door/inspection may say: the buyer keeps the article, refuses it for
\* a valid reason with the custody seal intact or broken, changes her mind, or
\* changes it for good (`definitive`).
InspectionResults == {"accepted", "valid_seal_intact", "valid_seal_broken",
                      "buyer_risk", "buyer_risk_definitive"}

\* Mutant: a recorded rejection does not close the door.
DoorOpenRejected == ~delivered /\ withCourier /\ returnFlow = None

DoorOpen == ~delivered /\ withCourier /\ rejection = None /\ returnFlow = None

\* Mutant: only a window still running forbids another.
NoWindowRunning == ladder.family # "retry"

\* ONE retry window, ever: nothing the ladder decided may be reopened.
NoWindowYet == ladder = NoLadder

\* POST /door/inspection.  A change of mind with a window already open is
\* recorded in the ledger but leaves the ladder as it was.
RecordDoorInspection(result, at) ==
    /\ DoorOpen
    /\ ~accepted
    /\ ~finalChange
    /\ \/ /\ result = "accepted"
          /\ accepted' = TRUE
          /\ UNCHANGED <<rejection, ladder, finalChange, emitted>>
       \/ /\ result \in {"valid_seal_intact", "valid_seal_broken"}
          /\ rejection' = IF result = "valid_seal_intact" THEN "seller" ELSE "sera"
          /\ Emit({"claim_opened"})
          /\ UNCHANGED <<accepted, ladder, finalChange>>
       \/ /\ result = "buyer_risk"
          /\ ladder' = IF NoWindowYet THEN RetryOutcome("change_of_mind", at)
                                    ELSE ladder
          /\ UNCHANGED <<accepted, rejection, finalChange, emitted>>
       \/ /\ result = "buyer_risk_definitive"
          /\ chain.colis
          /\ NoWindowYet
          /\ ladder' = FinalChangeOutcome
          /\ finalChange' = TRUE
          /\ UNCHANGED <<accepted, rejection, emitted>>
    /\ UNCHANGED <<chain, secrets, custodian, pickupVars, transitVars, proofVars,
                   payVars, feeRetained, feeWaived, returnFlow>>

\* POST /door/refusal: the first refusal opens the one retry window.
RecordDoorRefusal(reason, at) ==
    /\ DoorOpen
    /\ NoWindowYet
    /\ ladder' = RetryOutcome(reason, at)
    /\ UNCHANGED <<chain, secrets, custodian, pickupVars, transitVars, proofVars,
                   doorVars, payVars, finalChange, feeRetained, feeWaived,
                   returnFlow, emitted>>

\* POST /door/expire.  Neither a recorded rejection nor an open return is
\* looked at: only a delivered order stops the window from escalating.
EscalateExpiredWindow(now) ==
    /\ ~delivered
    /\ ladder.family = "retry" /\ ladder.attempt = 1
    /\ now >= ladder.expiresAt
    /\ ladder' = [ladder EXCEPT
                     !.family = IF ladder.reason \in EscalatingReasons
                                THEN "return" ELSE "reschedule",
                     !.attempt = 2, !.expiresAt = 0]
    /\ UNCHANGED <<chain, secrets, custodian, pickupVars, transitVars, proofVars,
                   doorVars, payVars, finalChange, feeRetained, feeWaived,
                   returnFlow, emitted>>

\* POST /return/apply: the dispatcher turns a reschedule into a return.
ApplyDispatcherReturn ==
    /\ DoorOpen
    /\ ladder.family = "reschedule"
    /\ ladder' = [ladder EXCEPT !.family = "return", !.attempt = @ + 1]
    /\ feeWaived' = TRUE
    /\ UNCHANGED <<chain, secrets, custodian, pickupVars, transitVars, proofVars,
                   doorVars, payVars, finalChange, feeRetained, returnFlow, emitted>>

\* POST /door-reference.
ArmDoorReference(reference) ==
    /\ chain.mode = AtDoor
    /\ Cardinality(doorRefs) < MaxReferences
    /\ doorRefs' = doorRefs \cup {reference}
    /\ UNCHANGED <<chain, secrets, custodian, pickupVars, transitVars, proofVars,
                   doorVars, doorPaid, paidSignals, alerted, settledAlerted,
                   ladderVars, returnFlow, emitted>>

\* A signal names the order itself, one of its references, or another order.
Targets == {"order", "other_order"} \cup References

ForThisOrder(target) == target = "order" \/ target \in doorRefs

Awaiting(target) ==
    /\ chain.mode = AtDoor
    /\ ForThisOrder(target)
    /\ accepted
    /\ ~GoingHome
    /\ ~doorPaid
    /\ ~delivered

\* The order was refused home: the sender is told by name and may stop.
Settled(target) == chain.mode = AtDoor /\ ForThisOrder(target) /\ GoingHome

\* POST /door-signal.  `genuine` says the actor is the registered producer.
ConsumeDoorPaidSignal(id, target, genuine) ==
    /\ \/ /\ ~genuine
          /\ alerted' = alerted \cup {id}
          /\ UNCHANGED <<doorPaid, paidSignals, settledAlerted>>
       \/ /\ genuine /\ id \notin paidSignals /\ Awaiting(target)
          /\ paidSignals' = paidSignals \cup {id}
          /\ doorPaid' = TRUE
          /\ UNCHANGED <<alerted, settledAlerted>>
       \/ /\ genuine /\ id \notin paidSignals /\ ~Awaiting(target)
          /\ IF Settled(target)
             THEN settledAlerted' = settledAlerted \cup {id} /\ UNCHANGED alerted
             ELSE alerted' = alerted \cup {id} /\ UNCHANGED settledAlerted
          /\ UNCHANGED <<doorPaid, paidSignals>>
    /\ UNCHANGED <<chain, secrets, custodian, pickupVars, transitVars, proofVars,
                   doorVars, doorRefs, ladderVars, returnFlow, emitted>>

-----------------------------------------------------------------------------
(* The way home.                                                           *)

BuyerFaultReturn ==
    /\ ladder.family = "return"
    /\ FaultOf(ladder.reason) = "buyer"

\* Mutant: the fee is retained on any fault the dispatcher did not waive.
RetainsFeeOnAnyFault == ~feeWaived

RetainsFee == rejection = None /\ ~feeWaived

\* POST /return/open: a valid rejection goes home free of charge, an escalated
\* buyer-fault refusal with the fee retained unless the dispatcher waived it.
\* Opening twice is not refused: the return seal is never consumed.
OpenReturn(digest) ==
    /\ withCourier
    /\ rejection # None \/ BuyerFaultReturn
    /\ Registrable("return_seal")
    /\ emitted["return_requested"] < MaxReopens
    /\ secrets' = Registered("return_seal", digest)
    /\ returnFlow' = "opened"
    /\ feeRetained' = (feeRetained \/ RetainsFee)
    /\ Emit({"refused", "return_requested"})
    /\ UNCHANGED <<chain, custodian, pickupVars, transitVars, proofVars, doorVars,
                   payVars, ladder, finalChange, feeWaived>>

\* POST /return/handover: both keys are checked before either is consumed.
CompleteReturnHandover(sellerKey, riderKey) ==
    /\ returnFlow = "opened"
    /\ withCourier
    /\ Consumable("seller_return_acceptance", sellerKey)
    /\ Consumable("rider_return_confirmation", riderKey)
    /\ secrets' = Spent({"seller_return_acceptance", "rider_return_confirmation"})
    /\ custodian' = "seller"
    /\ withCourier' = FALSE
    /\ returnFlow' = "closed"
    /\ Emit({"returned_to_supplier"})
    /\ UNCHANGED <<chain, pickupVars, seal, proofVars, doorVars, payVars, ladderVars>>

\* POST /return/claim: a record, from the opening of the return onwards.
FileCustodyLiabilityClaim ==
    /\ returnFlow # None
    /\ emitted["liability_claim"] < MaxReopens
    /\ Emit({"liability_claim"})
    /\ UNCHANGED <<chain, secrets, custodian, pickupVars, transitVars, proofVars,
                   doorVars, payVars, ladderVars, returnFlow>>

-----------------------------------------------------------------------------

Next ==
    \/ \E kind \in ArmableKinds : \E d \in Codes[kind] : ArmSecret(kind, d)
    \/ \E r \in Riders, d \in Codes["pickup_verification_code"], c \in BOOLEAN :
           VerifyPickup(r, d, c)
    \/ \E r \in Riders, d \in Codes["custody_seal"] : BeginCustody(r, d)
    \/ \E d \in Codes["custody_seal"] : SubmitEvidence(d)
    \/ DecideValidation
    \/ \E d \in Codes["buyer_drop_code"] : ConfirmDrop(d)
    \/ \E result \in InspectionResults, at \in Times :
           RecordDoorInspection(result, at)
    \/ \E reason \in Reasons, at \in Times : RecordDoorRefusal(reason, at)
    \/ \E at \in Times : EscalateExpiredWindow(at)
    \/ ApplyDispatcherReturn
    \/ \E ref \in References : ArmDoorReference(ref)
    \/ \E id \in SignalIds, t \in Targets, g \in BOOLEAN :
           ConsumeDoorPaidSignal(id, t, g)
    \/ \E d \in Codes["return_seal"] : OpenReturn(d)
    \/ \E sk \in Codes["seller_return_acceptance"],
          rk \in Codes["rider_return_confirmation"] :
           CompleteReturnHandover(sk, rk)
    \/ FileCustodyLiabilityClaim

Spec == Init /\ [][Next]_vars

-----------------------------------------------------------------------------
(* Properties.                                                             *)

\* The courier flag the guards read agrees with the ledger, which is the only
\* custody truth (SE-I04): a stale flag once let the refusal ladder and the
\* two-key return run on a delivered order (confirmDropAndEmitEligibility).
FlagMatchesLedger == withCourier <=> custodian \in Riders

\* SE-I05, verify then seal then custody: a courier holding the package is the
\* very rider whose verification was accepted, is not the supplier, and both
\* the pickup code and the seal registered for this package are spent.
CustodyIsEarned ==
    withCourier =>
        /\ custodian = verifier
        /\ custodian # Supplier
        /\ ~pickupRefused
        /\ secrets["pickup_verification_code"].spent
        /\ secrets["custody_seal"] = [digest |-> seal, spent |-> TRUE]

\* SE-I11, payment before hand-off: an order delivered on Option B had its
\* inspection accepted and its door leg confirmed; in any mode the evidence was
\* decided and no rejection stands against the delivered package, whatever
\* command arrived after the drop.
PaymentBeforeHandoff ==
    delivered =>
        /\ evidence /\ decided
        /\ chain.mode = AtDoor => accepted /\ doorPaid
        /\ rejection = None /\ ~finalChange
        /\ returnFlow = None

\* The two terminal claims on the money exclude each other: an order never
\* becomes eligible for settlement and refused, in either order, and it becomes
\* eligible once, exactly when the customer holds the package.
OneMoneyOutcome ==
    /\ emitted["validated"] <= 1
    /\ emitted["validated"] = 1 <=> custodian = "customer"
    /\ emitted["validated"] > 0 => emitted["refused"] = 0

\* A retained delivery fee is always a buyer's fault the dispatcher did not
\* waive; never on the road of a package refused for a valid reason.
FeeOnlyOnBuyerFault ==
    feeRetained =>
        /\ ladder.family = "return"
        /\ FaultOf(ladder.reason) = "buyer"
        /\ rejection = None
        /\ ~feeWaived
        /\ returnFlow # None

\* SE6.2, two keys or none: the package is back with the seller exactly when
\* both return keys are spent, and a spent key means the return was opened and
\* sealed.
TwoKeyReturn ==
    /\ secrets["seller_return_acceptance"].spent <=> returnFlow = "closed"
    /\ secrets["rider_return_confirmation"].spent <=> returnFlow = "closed"
    /\ returnFlow = "closed" => custodian = "seller"
    /\ returnFlow # None => secrets["return_seal"].digest # None
    /\ returnFlow # None => rejection # None \/ BuyerFaultReturn

\* At most one protection claim per order: a conformity refusal at pickup and a
\* valid rejection at the door can never both open one.
OneProtectionClaim ==
    /\ emitted["claim_opened"] <= 1
    /\ emitted["claim_opened"] = 1 <=> pickupRefused \/ rejection # None

\* Two provider signals with different command ids never both pay the door leg,
\* whatever references they name and however often they are sent again.
OneDoorPayment ==
    /\ doorPaid <=> paidSignals # {}
    /\ \A a, b \in paidSignals : a = b
    /\ doorPaid => accepted /\ rejection = None /\ chain.mode = AtDoor

\* A spent secret stays spent with the digest it was spent under: re-arming
\* never revives it.
SecretsAreSingleUse ==
    [][\A k \in SecretKinds : secrets[k].spent => secrets'[k] = secrets[k]]_secrets

\* ONE retry window, ever (section 6.4): the ladder only climbs, never changes
\* the reason or fault it was opened with, and never slides its expiry.
LadderOnlyClimbs ==
    [][/\ ladder # NoLadder =>
            /\ ladder'.reason = ladder.reason
            /\ ladder'.attempt = ladder.attempt + 1
            /\ ladder'.family # "retry"
            /\ ladder.family # "return"
       /\ ladder'.family = "reschedule" => ladder.family = "retry"]_ladder

\* The custody file implements the custody chain.
Outcome == IF delivered THEN "delivered"
           ELSE IF returnFlow = "closed" THEN "returned" ELSE "open"

Chain == INSTANCE CustodyChain WITH holder <- custodian, outcome <- Outcome

ImplementsChain == Chain!Spec

\* The custody file implements the reduced file its outboxes run on.
Phase == IF delivered THEN "delivered"
         ELSE IF returnFlow = "closed" THEN "home"
         ELSE IF withCourier THEN "on_road"
         ELSE IF pickupRefused THEN "refused" ELSE "at_seller"

Rescheduled == ladder.family = "reschedule" \/ feeWaived

File == INSTANCE CustodyFile WITH phase <- Phase, retour <- returnFlow,
                                  rescheduled <- Rescheduled

ImplementsFile == File!FileSpec

\* The facts that hold together, one per part of the file; TypeOK and the
\* invariants above follow from their conjunction, which every step preserves.
Begun == secrets["custody_seal"].spent

\* Nothing of the road has happened before the seal is consumed.
Untouched ==
    /\ seal = None /\ ~withCourier /\ custodian \in {None, "seller"}
    /\ ~evidence /\ ~decided /\ ~delivered
    /\ ~accepted /\ rejection = None /\ ~doorPaid /\ paidSignals = {}
    /\ ladder = NoLadder /\ ~finalChange /\ ~feeRetained /\ ~feeWaived
    /\ returnFlow = None

OnTheRoad == withCourier /\ ~delivered /\ returnFlow # "closed" /\ custodian = verifier
HandedOut == ~withCourier /\ delivered /\ returnFlow = None /\ custodian = "customer"
BackHome  == ~withCourier /\ ~delivered /\ returnFlow = "closed" /\ custodian = "seller"

PhaseInv ==
    /\ ~Begun => Untouched
    /\ Begun => /\ verifier \in Riders \ {Supplier}
                /\ secrets["custody_seal"].digest = seal
                /\ OnTheRoad \/ HandedOut \/ BackHome

PickupInv ==
    /\ verifier # None \/ pickupRefused => secrets["pickup_verification_code"].spent
    /\ verifier # None => ~pickupRefused

DropInv ==
    /\ decided => evidence
    /\ delivered => decided /\ DoorLegSettled /\ rejection = None /\ ~finalChange

LadderInv ==
    /\ ladder.family = "retry" => ladder.attempt = 1
    /\ ladder.family = "reschedule" => ladder.attempt = 2
    /\ ladder.family = "return" => ladder.attempt \in 1..3
    /\ feeWaived => ladder.family = "return"

EventsInv ==
    /\ emitted["validated"] = (IF delivered THEN 1 ELSE 0)
    /\ emitted["refused"] > 0 => pickupRefused \/ returnFlow # None

SpineInv ==
    /\ TypeOK /\ PhaseInv /\ PickupInv /\ DropInv /\ LadderInv /\ EventsInv
    /\ FeeOnlyOnBuyerFault /\ TwoKeyReturn /\ OneProtectionClaim /\ OneDoorPayment

\* custody-do.ts, commit: "a `reschedule` outcome means the rider keeps the
\* package and the founder must fix the next passage": a second passage is never
\* decided, nor left standing, for a package that is back with the seller.
RescheduleKeepsPackage == ladder.family = "reschedule" => withCourier \/ delivered

\* custody-spine.ts, openReturn: "A valid rejection and a ladder outcome cannot
\* coexist (recordDoorInspection refuses once either is recorded)".
NoRejectionOnALadder == ~(rejection # None /\ ladder # NoLadder)

\* custody-spine.ts, applyDispatcherReturn: the dispatcher turns a reschedule
\* into a return, which "still opens ONLY by the rider's own act with the
\* return seal": once the return is applied that act is accepted.
AppliedReturnCanOpen ==
    feeWaived /\ withCourier => rejection # None \/ BuyerFaultReturn
=============================================================================
