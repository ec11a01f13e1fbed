------------------------ MODULE CustodySpineProofs ------------------------
(***************************************************************************)
(* Proofs about the custody file of one order, for every set of riders,    *)
(* digests, references and signals: type correctness, the inductive        *)
(* invariant SpineInv and the safety properties that follow from it.       *)
(***************************************************************************)
EXTENDS CustodySpine, TLAPS

-----------------------------------------------------------------------------
(* What the helpers of the model preserve.                                 *)

\* A digest of one kind is a digest.
LEMMA CodeIsDigest ==
    ASSUME NEW kind \in SecretKinds, NEW d \in Codes[kind]
    PROVE  d \in Digests
BY DEF Digests

\* Registering a digest (secret-registry.ts register) keeps the registry typed.
LEMMA RegisteredType ==
    ASSUME secrets \in [SecretKinds -> SecretRecords],
           NEW kind \in SecretKinds, NEW d \in Digests, NEW b \in BOOLEAN
    PROVE  [secrets EXCEPT ![kind] = [digest |-> d, spent |-> b]]
               \in [SecretKinds -> SecretRecords]
BY DEF SecretRecords

\* Consuming secrets (secret-registry.ts consume) keeps the registry typed.
LEMMA SpentType ==
    ASSUME secrets \in [SecretKinds -> SecretRecords], NEW kinds
    PROVE  Spent(kinds) \in [SecretKinds -> SecretRecords]
<1>1. ASSUME NEW k \in SecretKinds
      PROVE  [digest |-> secrets[k].digest, spent |-> TRUE] \in SecretRecords
  BY DEF SecretRecords
<1>2. ASSUME NEW k \in SecretKinds
      PROVE  (IF k \in kinds THEN [digest |-> secrets[k].digest, spent |-> TRUE]
                             ELSE secrets[k]) \in SecretRecords
  BY <1>1
<1>3. QED
  BY <1>2 DEF Spent

\* Emitting counts.
LEMMA EmitType ==
    ASSUME emitted \in [EventNames -> Nat], NEW names, Emit(names)
    PROVE  emitted' \in [EventNames -> Nat]
BY DEF Emit

\* The outcomes the ladder writes are outcomes.
LEMMA RetryOutcomeType ==
    ASSUME NEW reason \in Reasons, NEW at \in Times
    PROVE  RetryOutcome(reason, at) \in Outcomes
BY TimesAssumption DEF RetryOutcome, Outcomes, Families

\* The final change of mind is an outcome.
LEMMA FinalChangeOutcomeType == FinalChangeOutcome \in Outcomes
BY DEF FinalChangeOutcome, Outcomes, Families, Reasons, EscalatingReasons

-----------------------------------------------------------------------------
(* Type correctness.                                                       *)

\* The opened file is typed.
LEMMA InitTyped == Init => TypeOK
<1> SUFFICES ASSUME Init PROVE TypeOK
  OBVIOUS
<1> USE DEF Init
<1>1. NoSecret \in SecretRecords
  BY DEF NoSecret, SecretRecords
<1>2. secrets \in [SecretKinds -> SecretRecords]
  BY <1>1
<1>3. emitted \in [EventNames -> Nat]
  OBVIOUS
<1>4. ladder \in Outcomes \cup {NoLadder}
  OBVIOUS
<1>5. QED
  BY <1>2, <1>3, <1>4 DEF TypeOK

\* Every command keeps the file typed.
LEMMA StepTyped == TypeOK /\ [Next]_vars => TypeOK'
<1> SUFFICES ASSUME TypeOK, [Next]_vars PROVE TypeOK'
  OBVIOUS
<1> USE DEF TypeOK, pickupVars, transitVars, proofVars, doorVars, payVars, ladderVars
<1>1. ASSUME NEW kind \in ArmableKinds, NEW d \in Codes[kind], ArmSecret(kind, d)
      PROVE  TypeOK'
  <2>1. kind \in SecretKinds /\ d \in Digests
    BY CodeIsDigest DEF ArmableKinds
  <2>2. secrets' \in [SecretKinds -> SecretRecords]
    BY <1>1, <2>1, RegisteredType DEF ArmSecret, Registered
  <2>3. QED
    BY <1>1, <2>2 DEF ArmSecret
<1>2. ASSUME NEW r \in Riders, NEW d \in Codes["pickup_verification_code"],
             NEW c \in BOOLEAN, VerifyPickup(r, d, c)
      PROVE  TypeOK'
  <2>1. secrets' \in [SecretKinds -> SecretRecords]
    BY <1>2, SpentType DEF VerifyPickup
  <2>2. emitted' \in [EventNames -> Nat]
    BY <1>2, EmitType DEF VerifyPickup
  <2>3. verifier' \in Riders \cup {None} /\ pickupRefused' \in BOOLEAN
    BY <1>2 DEF VerifyPickup
  <2>4. UNCHANGED <<chain, custodian, transitVars, proofVars, doorVars, payVars,
                    ladderVars, returnFlow>>
    BY <1>2 DEF VerifyPickup
  <2>5. QED
    BY <2>1, <2>2, <2>3, <2>4
<1>3. ASSUME NEW r \in Riders, NEW d \in Codes["custody_seal"], BeginCustody(r, d)
      PROVE  TypeOK'
  <2>1. "custody_seal" \in SecretKinds
    BY DEF SecretKinds
  <2>2. d \in Digests
    BY <2>1, CodeIsDigest
  <2>3. Established \in Riders \cup {None, "seller", "customer"}
    BY DEF Established
  <2>4. ASSUME TakeCustody(r, d), UNCHANGED <<chain, pickupVars, proofVars,
                   doorVars, payVars, ladderVars, returnFlow>>
        PROVE  TypeOK'
    <3>1. secrets' \in [SecretKinds -> SecretRecords]
      BY <2>1, <2>2, <2>4, RegisteredType DEF TakeCustody
    <3>2. emitted' \in [EventNames -> Nat]
      BY <2>4, EmitType DEF TakeCustody
    <3>3. custodian' \in Riders \cup {None, "seller", "customer"}
      BY <2>3, <2>4 DEF TakeCustody
    <3>4. seal' \in Digests \cup {None} /\ withCourier' \in BOOLEAN
      BY <2>2, <2>4 DEF TakeCustody
    <3>5. QED
      BY <2>4, <3>1, <3>2, <3>3, <3>4
  <2>5. QED
    BY <1>3, <2>3, <2>4 DEF BeginCustody
<1>4. ASSUME NEW d \in Codes["custody_seal"], SubmitEvidence(d)
      PROVE  TypeOK'
  BY <1>4 DEF SubmitEvidence
<1>5. CASE DecideValidation
  BY <1>5 DEF DecideValidation
<1>6. ASSUME NEW d \in Codes["buyer_drop_code"], ConfirmDrop(d)
      PROVE  TypeOK'
  <2>1. secrets' \in [SecretKinds -> SecretRecords]
    BY <1>6, SpentType DEF ConfirmDrop
  <2>2. emitted' \in [EventNames -> Nat]
    BY <1>6, EmitType DEF ConfirmDrop
  <2>3. /\ custodian' \in Riders \cup {None, "seller", "customer"}
        /\ delivered' \in BOOLEAN /\ withCourier' \in BOOLEAN
    BY <1>6 DEF ConfirmDrop
  <2>4. UNCHANGED <<chain, pickupVars, seal, evidence, decided, doorVars, payVars,
                    ladderVars, returnFlow>>
    BY <1>6 DEF ConfirmDrop
  <2>5. QED
    BY <2>1, <2>2, <2>3, <2>4
<1>7. ASSUME NEW result \in InspectionResults, NEW at \in Times,
             RecordDoorInspection(result, at)
      PROVE  TypeOK'
  <2>1. emitted' \in [EventNames -> Nat]
    BY <1>7, EmitType DEF RecordDoorInspection
  <2>2. "change_of_mind" \in Reasons
    BY DEF Reasons, EscalatingReasons
  <2>3. ladder' \in Outcomes \cup {NoLadder}
    BY <1>7, <2>2, RetryOutcomeType, FinalChangeOutcomeType DEF RecordDoorInspection
  <2>4. rejection' \in {None, "seller", "sera"}
    BY <1>7 DEF RecordDoorInspection
  <2>5. accepted' \in BOOLEAN /\ finalChange' \in BOOLEAN
    BY <1>7 DEF RecordDoorInspection
  <2>6. UNCHANGED <<chain, secrets, custodian, pickupVars, transitVars, proofVars,
                    payVars, feeRetained, feeWaived, returnFlow>>
    BY <1>7 DEF RecordDoorInspection
  <2>7. QED
    BY <2>1, <2>3, <2>4, <2>5, <2>6
<1>8. ASSUME NEW reason \in Reasons, NEW at \in Times, RecordDoorRefusal(reason, at)
      PROVE  TypeOK'
  BY <1>8, RetryOutcomeType DEF RecordDoorRefusal
<1>9. ASSUME NEW now \in Times, EscalateExpiredWindow(now)
      PROVE  TypeOK'
  <2>1. ladder \in Outcomes
    BY <1>9 DEF EscalateExpiredWindow, NoLadder, None
  <2>2. ladder' \in Outcomes
    <3>1. ladder' = [family |-> IF ladder.reason \in EscalatingReasons
                                 THEN "return" ELSE "reschedule",
                     reason |-> ladder.reason, attempt |-> 2, expiresAt |-> 0]
      BY <1>9, <2>1 DEF EscalateExpiredWindow, Outcomes
    <3>2. QED
      BY <2>1, <3>1 DEF Outcomes, Families
  <2>3. QED
    BY <1>9, <2>2 DEF EscalateExpiredWindow
<1>10. CASE ApplyDispatcherReturn
  <2>1. ladder \in Outcomes
    BY <1>10 DEF ApplyDispatcherReturn, NoLadder, None
  <2>2. ladder' \in Outcomes
    <3>1. ladder' = [family |-> "return", reason |-> ladder.reason,
                     attempt |-> ladder.attempt + 1,
                     expiresAt |-> ladder.expiresAt]
      BY <1>10, <2>1 DEF ApplyDispatcherReturn, Outcomes
    <3>2. QED
      BY <2>1, <3>1 DEF Outcomes, Families
  <2>3. QED
    BY <1>10, <2>2 DEF ApplyDispatcherReturn
<1>11. ASSUME NEW ref \in References, ArmDoorReference(ref)
       PROVE  TypeOK'
  BY <1>11 DEF ArmDoorReference
<1>12. ASSUME NEW id \in SignalIds, NEW t \in Targets, NEW g \in BOOLEAN,
              ConsumeDoorPaidSignal(id, t, g)
       PROVE  TypeOK'
  <2>1. /\ doorPaid' \in BOOLEAN
        /\ paidSignals' \subseteq SignalIds
        /\ alerted' \subseteq SignalIds
        /\ settledAlerted' \subseteq SignalIds
    BY <1>12 DEF ConsumeDoorPaidSignal
  <2>2. UNCHANGED <<chain, secrets, custodian, pickupVars, transitVars, proofVars,
                    doorVars, doorRefs, ladderVars, returnFlow, emitted>>
    BY <1>12 DEF ConsumeDoorPaidSignal
  <2>3. QED
    BY <2>1, <2>2
<1>13. ASSUME NEW d \in Codes["return_seal"], OpenReturn(d)
       PROVE  TypeOK'
  <2>1. "return_seal" \in SecretKinds
    BY DEF SecretKinds
  <2>2. d \in Digests
    BY <2>1, CodeIsDigest
  <2>3. secrets' \in [SecretKinds -> SecretRecords]
    BY <1>13, <2>1, <2>2, RegisteredType DEF OpenReturn, Registered
  <2>4. emitted' \in [EventNames -> Nat]
    BY <1>13, EmitType DEF OpenReturn
  <2>5. QED
    BY <1>13, <2>3, <2>4 DEF OpenReturn
<1>14. ASSUME NEW sk \in Codes["seller_return_acceptance"],
              NEW rk \in Codes["rider_return_confirmation"],
              CompleteReturnHandover(sk, rk)
       PROVE  TypeOK'
  <2>1. secrets' \in [SecretKinds -> SecretRecords]
    BY <1>14, SpentType DEF CompleteReturnHandover
  <2>2. emitted' \in [EventNames -> Nat]
    BY <1>14, EmitType DEF CompleteReturnHandover
  <2>3. /\ custodian' \in Riders \cup {None, "seller", "customer"}
        /\ withCourier' \in BOOLEAN
        /\ returnFlow' \in {None, "opened", "closed"}
    BY <1>14 DEF CompleteReturnHandover
  <2>4. UNCHANGED <<chain, pickupVars, seal, proofVars, doorVars, payVars, ladderVars>>
    BY <1>14 DEF CompleteReturnHandover
  <2>5. QED
    BY <2>1, <2>2, <2>3, <2>4
<1>15. CASE FileCustodyLiabilityClaim
  BY <1>15, EmitType DEF FileCustodyLiabilityClaim
<1>16. CASE UNCHANGED vars
  BY <1>16 DEF vars
<1>17. QED
  BY <1>1, <1>2, <1>3, <1>4, <1>5, <1>6, <1>7, <1>8, <1>9, <1>10, <1>11,
     <1>12, <1>13, <1>14, <1>15, <1>16 DEF Next

\* The type invariant of the custody file, for every value of the constants.
THEOREM TypeCorrect == Spec => []TypeOK
BY InitTyped, StepTyped, PTL DEF Spec

-----------------------------------------------------------------------------
(* What the commands that write secrets or emit leave behind.              *)

\* The names of the secrets.
LEMMA Kinds ==
    /\ "pickup_verification_code" \in SecretKinds /\ "custody_seal" \in SecretKinds
    /\ "buyer_drop_code" \in SecretKinds /\ "return_seal" \in SecretKinds
    /\ "seller_return_acceptance" \in SecretKinds
    /\ "rider_return_confirmation" \in SecretKinds
    /\ ArmableKinds \subseteq SecretKinds /\ "return_seal" \notin ArmableKinds
BY DEF SecretKinds, ArmableKinds

\* What arming a secret changes.
LEMMA RegisteredEffect ==
    ASSUME TypeOK, NEW kind \in SecretKinds, NEW d, secrets' = Registered(kind, d),
           NEW k \in SecretKinds
    PROVE  /\ k = kind => secrets'[k] = [digest |-> d, spent |-> FALSE]
           /\ k # kind => secrets'[k] = secrets[k]
BY DEF Registered, TypeOK

\* The one write of a secret that both registers and spends: the custody seal.
LEMMA SealEffect ==
    ASSUME TypeOK, NEW d,
           secrets' = [secrets EXCEPT !["custody_seal"] = [digest |-> d, spent |-> TRUE]],
           NEW k \in SecretKinds
    PROVE  /\ k = "custody_seal" => secrets'[k] = [digest |-> d, spent |-> TRUE]
           /\ k # "custody_seal" => secrets'[k] = secrets[k]
BY DEF TypeOK

\* What an emission changes.
LEMMA EmitEffect ==
    ASSUME TypeOK, NEW names, Emit(names), NEW n \in EventNames
    PROVE  /\ n \in names => emitted'[n] = emitted[n] + 1
           /\ n \notin names => emitted'[n] = emitted[n]
BY DEF Emit

\* The guard that makes pickup happen once: a spent seal fits no presentation,
\* so the object only answers the refusal and establishes nobody anew.
LEMMA NeverBegunTwice ==
    ASSUME TypeOK, PhaseInv, Begun, NEW r, NEW d, BeginCustody(r, d)
    PROVE  UNCHANGED <<secrets, custodian, withCourier, seal, emitted, chain,
                       pickupVars, proofVars, doorVars, payVars, ladderVars,
                       returnFlow>>
<1>1. secrets["custody_seal"] # NoSecret
  BY DEF Begun, NoSecret
<1>2. ~SealFits(d)
  BY <1>1 DEF SealFits, Consumable, Begun
<1>3. ~BeginAllowed(r, d)
  BY <1>2 DEF BeginAllowed
<1>4. custodian # None
  BY RidersAssumption DEF PhaseInv, OnTheRoad, HandedOut, BackHome, None
<1>5. QED
  BY <1>3, <1>4 DEF BeginCustody, Established, transitVars

\* The events the invariants count.
LEMMA Events ==
    /\ "validated" \in EventNames /\ "refused" \in EventNames
    /\ "claim_opened" \in EventNames
BY DEF EventNames

\* A ladder that is open has a family, a reason and an attempt.
LEMMA LadderTyped == TypeOK => \/ ladder = NoLadder
                               \/ /\ ladder.family \in Families
                                  /\ ladder.reason \in Reasons
                                  /\ ladder.attempt \in Nat \ {0}
BY DEF TypeOK, Outcomes

\* Evidence precedes the decision, and everything the drop asks for still holds
\* after it: no later command withdraws the inspection or the payment.
LEMMA DropInvStep == SpineInv /\ [Next]_vars => DropInv'
<1> SUFFICES ASSUME SpineInv, [Next]_vars PROVE DropInv'
  OBVIOUS
<1>1. CASE UNCHANGED <<proofVars, chain, accepted, doorPaid, rejection, finalChange>>
  BY <1>1 DEF SpineInv, DropInv, DoorLegSettled, proofVars
<1>2. ASSUME NEW d \in Codes["custody_seal"], SubmitEvidence(d)
      PROVE  DropInv'
  BY <1>2
     DEF SpineInv, DropInv, SubmitEvidence, DoorLegSettled, PhaseInv,
         OnTheRoad, HandedOut, BackHome, doorVars, payVars, ladderVars
<1>3. CASE DecideValidation
  BY <1>3
     DEF SpineInv, DropInv, DecideValidation, DoorLegSettled, doorVars,
         payVars, ladderVars
<1>4. ASSUME NEW d \in Codes["buyer_drop_code"], ConfirmDrop(d)
      PROVE  DropInv'
  BY <1>4
     DEF SpineInv, DropInv, ConfirmDrop, DoorLegSettled, GoingHome, doorVars,
         payVars, ladderVars
<1>5. ASSUME NEW result \in InspectionResults, NEW at \in Times,
             RecordDoorInspection(result, at)
      PROVE  DropInv'
  BY <1>5
     DEF SpineInv, DropInv, RecordDoorInspection, DoorOpen, DoorLegSettled,
         proofVars, payVars
<1>6. ASSUME NEW id \in SignalIds, NEW t \in Targets, NEW g \in BOOLEAN,
             ConsumeDoorPaidSignal(id, t, g)
      PROVE  DropInv'
  BY <1>6
     DEF SpineInv, DropInv, ConsumeDoorPaidSignal, DoorLegSettled, proofVars,
         doorVars, ladderVars
<1>7. QED
  BY <1>1, <1>2, <1>3, <1>4, <1>5, <1>6 DEF Next, vars, pickupVars,
     transitVars, proofVars, doorVars, payVars, ladderVars, ArmSecret,
     VerifyPickup, BeginCustody, RecordDoorRefusal, EscalateExpiredWindow,
     ApplyDispatcherReturn, ArmDoorReference, OpenReturn,
     CompleteReturnHandover, FileCustodyLiabilityClaim

\* One door payment: the door inspection and the provider signals keep it.
LEMMA OneDoorPaymentStep == SpineInv /\ [Next]_vars => OneDoorPayment'
<1> SUFFICES ASSUME SpineInv, [Next]_vars PROVE OneDoorPayment'
  OBVIOUS
<1>1. CASE UNCHANGED <<doorPaid, paidSignals, accepted, rejection, chain>>
  BY <1>1 DEF SpineInv, OneDoorPayment
<1>2. ASSUME NEW result \in InspectionResults, NEW at \in Times,
             RecordDoorInspection(result, at)
      PROVE  OneDoorPayment'
  BY <1>2 DEF SpineInv, OneDoorPayment, RecordDoorInspection, DoorOpen, payVars
<1>3. ASSUME NEW id \in SignalIds, NEW t \in Targets, NEW g \in BOOLEAN,
             ConsumeDoorPaidSignal(id, t, g)
      PROVE  OneDoorPayment'
  BY <1>3
     DEF SpineInv, OneDoorPayment, ConsumeDoorPaidSignal, Awaiting, GoingHome,
         doorVars
<1>4. QED
  BY <1>1, <1>2, <1>3 DEF Next, vars, pickupVars, transitVars, proofVars,
     doorVars, payVars, ladderVars, ArmSecret, VerifyPickup, BeginCustody,
     SubmitEvidence, DecideValidation, ConfirmDrop, RecordDoorRefusal,
     EscalateExpiredWindow, ApplyDispatcherReturn, ArmDoorReference,
     OpenReturn, CompleteReturnHandover, FileCustodyLiabilityClaim

\* The attempt number tells how far the ladder climbed, and a waiver its return.
LEMMA LadderInvStep == SpineInv /\ [Next]_vars => LadderInv'
<1> SUFFICES ASSUME SpineInv, [Next]_vars PROVE LadderInv'
  OBVIOUS
<1>1. CASE UNCHANGED <<ladder, feeWaived>>
  BY <1>1 DEF SpineInv, LadderInv
<1>2. ASSUME NEW result \in InspectionResults, NEW at \in Times,
             RecordDoorInspection(result, at)
      PROVE  LadderInv'
  BY <1>2, LadderTyped
     DEF SpineInv, LadderInv, RecordDoorInspection, NoWindowYet, RetryOutcome,
         FinalChangeOutcome, NoLadder, None
<1>3. ASSUME NEW reason \in Reasons, NEW at \in Times, RecordDoorRefusal(reason, at)
      PROVE  LadderInv'
  BY <1>3
     DEF SpineInv, LadderInv, RecordDoorRefusal, NoWindowYet, RetryOutcome,
         NoLadder, None
<1>4. ASSUME NEW at \in Times, EscalateExpiredWindow(at)
      PROVE  LadderInv'
  BY <1>4
     DEF SpineInv, LadderInv, EscalateExpiredWindow, TypeOK, NoLadder,
         Outcomes, None
<1>5. CASE ApplyDispatcherReturn
  BY <1>5
     DEF SpineInv, LadderInv, ApplyDispatcherReturn, TypeOK, NoLadder,
         Outcomes, None
<1>6. QED
  BY <1>1, <1>2, <1>3, <1>4, <1>5 DEF Next, vars, pickupVars, transitVars,
     proofVars, doorVars, payVars, ladderVars, ArmSecret, VerifyPickup,
     BeginCustody, SubmitEvidence, DecideValidation, ConfirmDrop,
     ArmDoorReference, ConsumeDoorPaidSignal, OpenReturn,
     CompleteReturnHandover, FileCustodyLiabilityClaim

\* A verified or refused package has its pickup code spent, and never both.
LEMMA PickupInvStep == SpineInv /\ [Next]_vars => PickupInv'
<1> SUFFICES ASSUME SpineInv, [Next]_vars PROVE PickupInv'
  OBVIOUS
<1>1. CASE UNCHANGED <<pickupVars, secrets>>
  BY <1>1 DEF SpineInv, PickupInv, pickupVars
<1>2. ASSUME NEW kind \in ArmableKinds, NEW d \in Codes[kind], ArmSecret(kind, d)
      PROVE  PickupInv'
  BY <1>2, Kinds, RegisteredEffect
     DEF SpineInv, PickupInv, ArmSecret, Registrable, pickupVars
<1>3. ASSUME NEW r \in Riders, NEW d \in Codes["pickup_verification_code"],
             NEW c \in BOOLEAN, VerifyPickup(r, d, c)
      PROVE  PickupInv'
  <2>1. secrets'["pickup_verification_code"].spent
    BY <1>3, Kinds DEF VerifyPickup, Spent
  <2>2. ~pickupRefused /\ verifier = None
    BY <1>3 DEF VerifyPickup, Consumable, SpineInv, PickupInv
  <2>3. (verifier' = None) \/ (~pickupRefused')
    BY <1>3, <2>2 DEF VerifyPickup
  <2>4. QED
    BY <2>1, <2>3 DEF PickupInv
<1>4. ASSUME NEW r \in Riders, NEW d \in Codes["custody_seal"], BeginCustody(r, d)
      PROVE  PickupInv'
  BY <1>4, Kinds, SealEffect
     DEF SpineInv, PickupInv, BeginCustody, TakeCustody, pickupVars
<1>5. ASSUME NEW d \in Codes["buyer_drop_code"], ConfirmDrop(d)
      PROVE  PickupInv'
  <2>1. secrets'["pickup_verification_code"] = secrets["pickup_verification_code"]
    BY <1>5, Kinds DEF ConfirmDrop, Spent
  <2>2. QED
    BY <1>5, <2>1 DEF SpineInv, PickupInv, ConfirmDrop, pickupVars
<1>6. ASSUME NEW d \in Codes["return_seal"], OpenReturn(d)
      PROVE  PickupInv'
  BY <1>6, Kinds, RegisteredEffect DEF SpineInv, PickupInv, OpenReturn, pickupVars
<1>7. ASSUME NEW sk \in Codes["seller_return_acceptance"],
             NEW rk \in Codes["rider_return_confirmation"],
             CompleteReturnHandover(sk, rk)
      PROVE  PickupInv'
  <2>1. secrets'["pickup_verification_code"] = secrets["pickup_verification_code"]
    BY <1>7, Kinds DEF CompleteReturnHandover, Spent
  <2>2. QED
    BY <1>7, <2>1 DEF SpineInv, PickupInv, CompleteReturnHandover, pickupVars
<1>8. QED
  BY <1>1, <1>2, <1>3, <1>4, <1>5, <1>6, <1>7 DEF Next, vars, pickupVars,
     transitVars, proofVars, doorVars, payVars, ladderVars, SubmitEvidence,
     DecideValidation, RecordDoorInspection, RecordDoorRefusal,
     EscalateExpiredWindow, ApplyDispatcherReturn, ArmDoorReference,
     ConsumeDoorPaidSignal, FileCustodyLiabilityClaim

\* The claim counter moves only where a refusal at pickup or a valid rejection
\* is recorded, and the two exclude each other.
LEMMA OneProtectionClaimStep == SpineInv /\ [Next]_vars => OneProtectionClaim'
<1> SUFFICES ASSUME SpineInv, [Next]_vars PROVE OneProtectionClaim'
  OBVIOUS
<1>1. CASE UNCHANGED <<emitted, pickupRefused, rejection>>
  BY <1>1 DEF SpineInv, OneProtectionClaim
<1>2. ASSUME NEW r \in Riders, NEW d \in Codes["pickup_verification_code"],
             NEW c \in BOOLEAN, VerifyPickup(r, d, c)
      PROVE  OneProtectionClaim'
  <2>1. ~Begun /\ ~pickupRefused /\ rejection = None
    <3>1. ~secrets["pickup_verification_code"].spent /\ ~pickupRefused
      BY <1>2 DEF VerifyPickup, Consumable
    <3>2. verifier = None
      BY <3>1 DEF SpineInv, PickupInv
    <3>3. QED
      BY <3>1, <3>2, RidersAssumption DEF SpineInv, PhaseInv, Untouched
  <2>2. emitted["claim_opened"] = 0
    BY <2>1, Events DEF SpineInv, OneProtectionClaim, TypeOK
  <2>3. UNCHANGED rejection
    BY <1>2 DEF VerifyPickup, doorVars
  <2>4. CASE c
    BY <1>2, <2>1, <2>2, <2>3, <2>4, EmitEffect, Events
       DEF SpineInv, OneProtectionClaim, VerifyPickup
  <2>5. CASE ~c
    BY <1>2, <2>1, <2>2, <2>3, <2>5, EmitEffect, Events
       DEF SpineInv, OneProtectionClaim, VerifyPickup
  <2>6. QED
    BY <2>4, <2>5
<1>3. ASSUME NEW r \in Riders, NEW d \in Codes["custody_seal"], BeginCustody(r, d)
      PROVE  OneProtectionClaim'
  BY <1>3, EmitEffect, Events
     DEF SpineInv, OneProtectionClaim, BeginCustody, TakeCustody, pickupVars,
         doorVars
<1>4. ASSUME NEW d \in Codes["buyer_drop_code"], ConfirmDrop(d)
      PROVE  OneProtectionClaim'
  BY <1>4, EmitEffect, Events
     DEF SpineInv, OneProtectionClaim, ConfirmDrop, pickupVars, doorVars
<1>5. ASSUME NEW result \in InspectionResults, NEW at \in Times,
             RecordDoorInspection(result, at)
      PROVE  OneProtectionClaim'
  <2>1. CASE UNCHANGED <<emitted, rejection>>
    BY <1>5, <2>1 DEF SpineInv, OneProtectionClaim, RecordDoorInspection, pickupVars
  <2>2. CASE rejection' \in {"seller", "sera"} /\ Emit({"claim_opened"})
    <3>1. Begun /\ rejection = None
      BY <1>5 DEF RecordDoorInspection, DoorOpen, SpineInv, PhaseInv, Untouched
    <3>2. ~pickupRefused /\ UNCHANGED pickupRefused
      BY <1>5, <3>1, RidersAssumption
         DEF SpineInv, PhaseInv, PickupInv, RecordDoorInspection, pickupVars
    <3>3. emitted["claim_opened"] = 0
      BY <3>1, <3>2, Events DEF SpineInv, OneProtectionClaim, TypeOK
    <3>4. emitted'["claim_opened"] = 1
      BY <2>2, <3>3, EmitEffect, Events DEF SpineInv
    <3>5. QED
      BY <2>2, <3>4 DEF OneProtectionClaim, None
  <2>3. QED
    BY <1>5, <2>1, <2>2 DEF RecordDoorInspection
<1>6. ASSUME NEW d \in Codes["return_seal"], OpenReturn(d)
      PROVE  OneProtectionClaim'
  BY <1>6, EmitEffect, Events
     DEF SpineInv, OneProtectionClaim, OpenReturn, pickupVars, doorVars
<1>7. ASSUME NEW sk \in Codes["seller_return_acceptance"],
             NEW rk \in Codes["rider_return_confirmation"],
             CompleteReturnHandover(sk, rk)
      PROVE  OneProtectionClaim'
  BY <1>7, EmitEffect, Events
     DEF SpineInv, OneProtectionClaim, CompleteReturnHandover, pickupVars,
         doorVars
<1>8. CASE FileCustodyLiabilityClaim
  BY <1>8, EmitEffect, Events
     DEF SpineInv, OneProtectionClaim, FileCustodyLiabilityClaim, pickupVars,
         doorVars
<1>9. QED
  BY <1>1, <1>2, <1>3, <1>4, <1>5, <1>6, <1>7, <1>8 DEF Next, vars,
     pickupVars, transitVars, proofVars, doorVars, payVars, ladderVars,
     ArmSecret, SubmitEvidence, DecideValidation, RecordDoorRefusal,
     EscalateExpiredWindow, ApplyDispatcherReturn, ArmDoorReference,
     ConsumeDoorPaidSignal

\* The terminal events count what the file says happened.
LEMMA EventsInvStep == SpineInv /\ [Next]_vars => EventsInv'
<1> SUFFICES ASSUME SpineInv, [Next]_vars PROVE EventsInv'
  OBVIOUS
<1>1. CASE UNCHANGED <<emitted, delivered, pickupRefused, returnFlow>>
  BY <1>1 DEF SpineInv, EventsInv
<1>2. ASSUME NEW r \in Riders, NEW d \in Codes["pickup_verification_code"],
             NEW c \in BOOLEAN, VerifyPickup(r, d, c)
      PROVE  EventsInv'
  BY <1>2, EmitEffect, Events
     DEF SpineInv, EventsInv, VerifyPickup, proofVars, PhaseInv, PickupInv,
         Untouched, Consumable
<1>3. ASSUME NEW r \in Riders, NEW d \in Codes["custody_seal"], BeginCustody(r, d)
      PROVE  EventsInv'
  BY <1>3, EmitEffect, Events
     DEF SpineInv, EventsInv, BeginCustody, TakeCustody, pickupVars, proofVars
<1>4. ASSUME NEW d \in Codes["custody_seal"], SubmitEvidence(d)
      PROVE  EventsInv'
  BY <1>4 DEF SpineInv, EventsInv, SubmitEvidence, pickupVars
<1>5. CASE DecideValidation
  BY <1>5 DEF SpineInv, EventsInv, DecideValidation, pickupVars
<1>6. ASSUME NEW d \in Codes["buyer_drop_code"], ConfirmDrop(d)
      PROVE  EventsInv'
  BY <1>6, EmitEffect, Events DEF SpineInv, EventsInv, ConfirmDrop, pickupVars
<1>7. ASSUME NEW result \in InspectionResults, NEW at \in Times,
             RecordDoorInspection(result, at)
      PROVE  EventsInv'
  BY <1>7, EmitEffect, Events
     DEF SpineInv, EventsInv, RecordDoorInspection, pickupVars, proofVars
<1>8. ASSUME NEW d \in Codes["return_seal"], OpenReturn(d)
      PROVE  EventsInv'
  BY <1>8, EmitEffect, Events
     DEF SpineInv, EventsInv, OpenReturn, pickupVars, proofVars, None
<1>9. ASSUME NEW sk \in Codes["seller_return_acceptance"],
             NEW rk \in Codes["rider_return_confirmation"],
             CompleteReturnHandover(sk, rk)
      PROVE  EventsInv'
  BY <1>9, EmitEffect, Events
     DEF SpineInv, EventsInv, CompleteReturnHandover, pickupVars, proofVars,
         None
<1>10. CASE FileCustodyLiabilityClaim
  BY <1>10, EmitEffect, Events
     DEF SpineInv, EventsInv, FileCustodyLiabilityClaim, pickupVars, proofVars
<1>11. QED
  BY <1>1, <1>2, <1>3, <1>4, <1>5, <1>6, <1>7, <1>8, <1>9, <1>10 DEF Next,
     vars, pickupVars, transitVars, proofVars, doorVars, payVars, ladderVars,
     ArmSecret, RecordDoorRefusal, EscalateExpiredWindow,
     ApplyDispatcherReturn, ArmDoorReference, ConsumeDoorPaidSignal

\* The fee is retained only by a return opened on a buyer-fault ladder, and the
\* door is closed to anything that would change the fault afterwards.
LEMMA FeeOnlyOnBuyerFaultStep == SpineInv /\ [Next]_vars => FeeOnlyOnBuyerFault'
<1> SUFFICES ASSUME SpineInv, [Next]_vars PROVE FeeOnlyOnBuyerFault'
  OBVIOUS
<1>1. CASE UNCHANGED <<feeRetained, ladder, rejection, feeWaived, returnFlow>>
  BY <1>1 DEF SpineInv, FeeOnlyOnBuyerFault
<1>2. ASSUME NEW result \in InspectionResults, NEW at \in Times,
             RecordDoorInspection(result, at)
      PROVE  FeeOnlyOnBuyerFault'
  BY <1>2 DEF SpineInv, FeeOnlyOnBuyerFault, RecordDoorInspection, DoorOpen
<1>3. ASSUME NEW reason \in Reasons, NEW at \in Times, RecordDoorRefusal(reason, at)
      PROVE  FeeOnlyOnBuyerFault'
  BY <1>3 DEF SpineInv, FeeOnlyOnBuyerFault, RecordDoorRefusal, DoorOpen
<1>4. ASSUME NEW at \in Times, EscalateExpiredWindow(at)
      PROVE  FeeOnlyOnBuyerFault'
  BY <1>4 DEF SpineInv, FeeOnlyOnBuyerFault, EscalateExpiredWindow
<1>5. CASE ApplyDispatcherReturn
  BY <1>5 DEF SpineInv, FeeOnlyOnBuyerFault, ApplyDispatcherReturn, DoorOpen
<1>6. ASSUME NEW d \in Codes["return_seal"], OpenReturn(d)
      PROVE  FeeOnlyOnBuyerFault'
  BY <1>6
     DEF SpineInv, FeeOnlyOnBuyerFault, OpenReturn, RetainsFee,
         BuyerFaultReturn, doorVars, None
<1>7. ASSUME NEW sk \in Codes["seller_return_acceptance"],
             NEW rk \in Codes["rider_return_confirmation"],
             CompleteReturnHandover(sk, rk)
      PROVE  FeeOnlyOnBuyerFault'
  BY <1>7
     DEF SpineInv, FeeOnlyOnBuyerFault, CompleteReturnHandover, doorVars,
         ladderVars, None
<1>8. QED
  BY <1>1, <1>2, <1>3, <1>4, <1>5, <1>6, <1>7 DEF Next, vars, pickupVars,
     transitVars, proofVars, doorVars, payVars, ladderVars, ArmSecret,
     VerifyPickup, BeginCustody, SubmitEvidence, DecideValidation,
     ConfirmDrop, ArmDoorReference, ConsumeDoorPaidSignal,
     FileCustodyLiabilityClaim

\* Both return keys are spent by the one handover, and no second custody follows.
LEMMA TwoKeyReturnStep == SpineInv /\ [Next]_vars => TwoKeyReturn'
<1> SUFFICES ASSUME SpineInv, [Next]_vars PROVE TwoKeyReturn'
  OBVIOUS
<1>1. CASE UNCHANGED <<secrets, returnFlow, custodian, rejection, ladder>>
  BY <1>1 DEF SpineInv, TwoKeyReturn, BuyerFaultReturn
<1>2. ASSUME NEW kind \in ArmableKinds, NEW d \in Codes[kind], ArmSecret(kind, d)
      PROVE  TwoKeyReturn'
  BY <1>2, Kinds
     DEF SpineInv, TypeOK, Registered, TwoKeyReturn, BuyerFaultReturn,
         ArmSecret, Registrable, doorVars, ladderVars
<1>3. ASSUME NEW r \in Riders, NEW d \in Codes["pickup_verification_code"],
             NEW c \in BOOLEAN, VerifyPickup(r, d, c)
      PROVE  TwoKeyReturn'
  <2>1. /\ secrets'["seller_return_acceptance"] = secrets["seller_return_acceptance"]
        /\ secrets'["rider_return_confirmation"] = secrets["rider_return_confirmation"]
        /\ secrets'["return_seal"] = secrets["return_seal"]
    BY <1>3, Kinds DEF VerifyPickup, Spent
  <2>2. QED
    BY <1>3, <2>1
       DEF SpineInv, TwoKeyReturn, BuyerFaultReturn, VerifyPickup, doorVars,
           ladderVars
<1>4. ASSUME NEW r \in Riders, NEW d \in Codes["custody_seal"], BeginCustody(r, d)
      PROVE  TwoKeyReturn'
  <2>1. CASE Begun
    <3>1. UNCHANGED <<secrets, custodian, returnFlow, rejection, ladder>>
      BY <1>4, <2>1, NeverBegunTwice DEF SpineInv, doorVars, ladderVars
    <3>2. QED
      BY <3>1 DEF SpineInv, TwoKeyReturn, BuyerFaultReturn
  <2>2. CASE ~Begun
    <3>1. /\ secrets'["seller_return_acceptance"] = secrets["seller_return_acceptance"]
          /\ secrets'["rider_return_confirmation"] = secrets["rider_return_confirmation"]
      BY <1>4, Kinds, SealEffect DEF SpineInv, BeginCustody, TakeCustody
    <3>2. returnFlow = None /\ UNCHANGED returnFlow
      BY <1>4, <2>2 DEF SpineInv, PhaseInv, Untouched, BeginCustody
    <3>3. QED
      BY <3>1, <3>2 DEF SpineInv, TwoKeyReturn, None
  <2>3. QED
    BY <2>1, <2>2
<1>5. ASSUME NEW d \in Codes["buyer_drop_code"], ConfirmDrop(d)
      PROVE  TwoKeyReturn'
  <2>1. /\ secrets'["seller_return_acceptance"] = secrets["seller_return_acceptance"]
        /\ secrets'["rider_return_confirmation"] = secrets["rider_return_confirmation"]
        /\ secrets'["return_seal"] = secrets["return_seal"]
    BY <1>5, Kinds DEF ConfirmDrop, Spent
  <2>2. QED
    BY <1>5, <2>1
       DEF SpineInv, TwoKeyReturn, BuyerFaultReturn, ConfirmDrop, GoingHome,
           doorVars, ladderVars, None
<1>6. ASSUME NEW result \in InspectionResults, NEW at \in Times,
             RecordDoorInspection(result, at)
      PROVE  TwoKeyReturn'
  BY <1>6 DEF SpineInv, TwoKeyReturn, BuyerFaultReturn, RecordDoorInspection, DoorOpen
<1>7. ASSUME NEW reason \in Reasons, NEW at \in Times, RecordDoorRefusal(reason, at)
      PROVE  TwoKeyReturn'
  BY <1>7
     DEF SpineInv, TwoKeyReturn, BuyerFaultReturn, RecordDoorRefusal,
         DoorOpen, NoWindowYet, doorVars, NoLadder, None
<1>8. ASSUME NEW at \in Times, EscalateExpiredWindow(at)
      PROVE  TwoKeyReturn'
  BY <1>8 DEF SpineInv, TwoKeyReturn, BuyerFaultReturn, EscalateExpiredWindow, doorVars
<1>9. CASE ApplyDispatcherReturn
  BY <1>9
     DEF SpineInv, TwoKeyReturn, BuyerFaultReturn, ApplyDispatcherReturn,
         DoorOpen, doorVars
<1>10. ASSUME NEW d \in Codes["return_seal"], OpenReturn(d)
       PROVE  TwoKeyReturn'
  <2>1. /\ secrets'["seller_return_acceptance"] = secrets["seller_return_acceptance"]
        /\ secrets'["rider_return_confirmation"] = secrets["rider_return_confirmation"]
        /\ secrets'["return_seal"].digest = d
    BY <1>10, Kinds DEF SpineInv, TypeOK, OpenReturn, Registered
  <2>2. d # None
    BY Kinds, CodesAssumption
  <2>3. returnFlow # "closed"
    BY <1>10 DEF OpenReturn, SpineInv, PhaseInv, Untouched, OnTheRoad, HandedOut,
                 BackHome, None
  <2>4. /\ returnFlow' = "opened" /\ UNCHANGED <<rejection, ladder>>
        /\ rejection # None \/ BuyerFaultReturn
    BY <1>10 DEF OpenReturn, doorVars
  <2>5. QED
    BY <2>1, <2>2, <2>3, <2>4 DEF SpineInv, TwoKeyReturn, BuyerFaultReturn, None
<1>11. ASSUME NEW sk \in Codes["seller_return_acceptance"],
              NEW rk \in Codes["rider_return_confirmation"],
              CompleteReturnHandover(sk, rk)
       PROVE  TwoKeyReturn'
  <2>1. /\ secrets'["seller_return_acceptance"].spent
        /\ secrets'["rider_return_confirmation"].spent
        /\ secrets'["return_seal"] = secrets["return_seal"]
    BY <1>11, Kinds DEF CompleteReturnHandover, Spent
  <2>2. QED
    BY <1>11, <2>1
       DEF SpineInv, TwoKeyReturn, BuyerFaultReturn, CompleteReturnHandover,
           doorVars, ladderVars, None
<1>12. QED
  BY <1>1, <1>2, <1>3, <1>4, <1>5, <1>6, <1>7, <1>8, <1>9, <1>10, <1>11 DEF
     Next, vars, pickupVars, transitVars, proofVars, doorVars, payVars,
     ladderVars, SubmitEvidence, DecideValidation, ArmDoorReference,
     ConsumeDoorPaidSignal, FileCustodyLiabilityClaim

\* Once the seal is spent, the phase only reads who holds the package and
\* whether the order ended.
LEMMA PhaseFrame ==
    ASSUME PhaseInv, Begun,
           UNCHANGED <<secrets, seal, withCourier, custodian, delivered, returnFlow,
                       verifier>>
    PROVE  PhaseInv'
BY DEF PhaseInv, Begun, OnTheRoad, HandedOut, BackHome

\* Writing any other secret keeps the phase.
LEMMA PhaseKept ==
    ASSUME PhaseInv, secrets'["custody_seal"] = secrets["custody_seal"],
           UNCHANGED <<custodian, pickupVars, transitVars, proofVars, doorVars,
                       payVars, ladderVars, returnFlow>>
    PROVE  PhaseInv'
BY DEF PhaseInv, Begun, Untouched, OnTheRoad, HandedOut, BackHome, pickupVars,
       transitVars, proofVars, doorVars, payVars, ladderVars

\* Verify, then seal, then custody, then one end: before the seal is spent
\* nothing of the road has happened, after it the package is on the road, handed
\* out or back home.
LEMMA PhaseInvStep == SpineInv /\ [Next]_vars => PhaseInv'
<1> SUFFICES ASSUME SpineInv, [Next]_vars PROVE PhaseInv'
  OBVIOUS
<1>1. CASE UNCHANGED <<secrets, custodian, pickupVars, transitVars, proofVars, doorVars,
                  doorPaid, paidSignals, ladderVars, returnFlow>>
  BY <1>1 DEF SpineInv, PhaseInv, Begun, Untouched, OnTheRoad, HandedOut, BackHome,
              pickupVars, transitVars, proofVars, doorVars, ladderVars
<1>2. ASSUME NEW kind \in ArmableKinds, NEW d \in Codes[kind], ArmSecret(kind, d)
      PROVE  PhaseInv'
  <2>1. secrets'["custody_seal"] = (IF kind = "custody_seal"
                                    THEN [digest |-> d, spent |-> FALSE]
                                    ELSE secrets["custody_seal"])
    BY <1>2, Kinds DEF SpineInv, TypeOK, ArmSecret, Registered
  <2>2. UNCHANGED <<custodian, pickupVars, transitVars, proofVars, doorVars,
                    payVars, ladderVars, returnFlow>>
    BY <1>2 DEF ArmSecret
  <2>3. CASE kind = "custody_seal"
    <3>1. ~Begun /\ ~Begun'
      BY <1>2, <2>1, <2>3 DEF ArmSecret, Registrable, Begun
    <3>2. QED
      BY <2>2, <3>1 DEF SpineInv, PhaseInv, Untouched, transitVars, proofVars,
                       doorVars, payVars, ladderVars
  <2>4. CASE kind # "custody_seal"
    BY <2>1, <2>2, <2>4, PhaseKept DEF SpineInv
  <2>5. QED
    BY <2>3, <2>4
<1>3. ASSUME NEW r \in Riders, NEW d \in Codes["pickup_verification_code"],
             NEW c \in BOOLEAN, VerifyPickup(r, d, c)
      PROVE  PhaseInv'
  <2>1. verifier = None
    BY <1>3 DEF VerifyPickup, Consumable, SpineInv, PickupInv
  <2>2. ~Begun
    BY <2>1, RidersAssumption DEF SpineInv, PhaseInv
  <2>3. secrets'["custody_seal"] = secrets["custody_seal"]
    BY <1>3, Kinds DEF VerifyPickup, Spent
  <2>4. UNCHANGED <<custodian, transitVars, proofVars, doorVars, payVars,
                    ladderVars, returnFlow>>
    BY <1>3 DEF VerifyPickup
  <2>5. QED
    BY <2>2, <2>3, <2>4 DEF SpineInv, PhaseInv, Begun, Untouched, transitVars,
                            proofVars, doorVars, payVars, ladderVars
<1>4. ASSUME NEW r \in Riders, NEW d \in Codes["custody_seal"], BeginCustody(r, d)
      PROVE  PhaseInv'
  <2>1. CASE Begun
    <3>1. UNCHANGED <<secrets, seal, withCourier, custodian, delivered,
                      returnFlow, verifier>>
      BY <1>4, <2>1, NeverBegunTwice DEF SpineInv, pickupVars, proofVars
    <3>2. QED
      BY <2>1, <3>1, PhaseFrame DEF SpineInv
  <2>2. CASE ~Begun
    <3>1. Untouched /\ Established = "seller"
      BY <2>2 DEF SpineInv, PhaseInv, Untouched, Established
    <3>2. UNCHANGED <<verifier, proofVars, doorVars, payVars, ladderVars, returnFlow>>
      BY <1>4 DEF BeginCustody, pickupVars
    <3>3. CASE BeginAllowed(r, d) /\ TakeCustody(r, d)
      <4>1. secrets'["custody_seal"] = [digest |-> d, spent |-> TRUE]
        BY <3>3, Kinds DEF TakeCustody, SpineInv, TypeOK
      <4>2. custodian' = r /\ withCourier' = TRUE /\ seal' = d
        BY <3>1, <3>3 DEF TakeCustody
      <4>3. verifier = r /\ r \in Riders \ {Supplier}
        BY <1>4, <3>3 DEF BeginCustody, BeginAllowed
      <4>4. ~delivered' /\ returnFlow' = None
        BY <3>1, <3>2 DEF Untouched, proofVars
      <4>5. QED
        BY <3>2, <4>1, <4>2, <4>3, <4>4 DEF PhaseInv, Begun, OnTheRoad, None
    <3>4. CASE custodian' = Established /\ UNCHANGED <<secrets, transitVars>>
      BY <2>2, <3>1, <3>2, <3>4
         DEF PhaseInv, Begun, Untouched, transitVars, proofVars, doorVars,
             payVars, ladderVars
    <3>5. QED
      BY <1>4, <3>3, <3>4 DEF BeginCustody
  <2>3. QED
    BY <2>1, <2>2
<1>5. ASSUME NEW d \in Codes["custody_seal"], SubmitEvidence(d)
      PROVE  PhaseInv'
  <2>1. Begun /\ UNCHANGED <<secrets, seal, withCourier, custodian, delivered,
                             returnFlow, verifier>>
    BY <1>5
       DEF SubmitEvidence, SpineInv, PhaseInv, Untouched, pickupVars,
           transitVars, proofVars
  <2>2. QED
    BY <2>1, PhaseFrame DEF SpineInv
<1>6. CASE DecideValidation
  <2>1. Begun /\ UNCHANGED <<secrets, seal, withCourier, custodian, delivered,
                             returnFlow, verifier>>
    BY <1>6
       DEF DecideValidation, SpineInv, PhaseInv, Untouched, pickupVars,
           transitVars, proofVars
  <2>2. QED
    BY <2>1, PhaseFrame DEF SpineInv
<1>7. ASSUME NEW d \in Codes["buyer_drop_code"], ConfirmDrop(d)
      PROVE  PhaseInv'
  <2>1. Begun
    BY <1>7 DEF ConfirmDrop, SpineInv, PhaseInv, Untouched
  <2>2. secrets'["custody_seal"] = secrets["custody_seal"]
    BY <1>7, Kinds DEF ConfirmDrop, Spent
  <2>3. /\ custodian' = "customer" /\ delivered' = TRUE /\ withCourier' = FALSE
        /\ returnFlow' = None /\ UNCHANGED <<verifier, seal>>
    BY <1>7 DEF ConfirmDrop, GoingHome, pickupVars
  <2>4. QED
    BY <2>1, <2>2, <2>3 DEF SpineInv, PhaseInv, Begun, HandedOut
<1>8. ASSUME NEW result \in InspectionResults, NEW at \in Times,
             RecordDoorInspection(result, at)
      PROVE  PhaseInv'
  <2>1. Begun /\ UNCHANGED <<secrets, seal, withCourier, custodian, delivered,
                             returnFlow, verifier>>
    BY <1>8
       DEF RecordDoorInspection, DoorOpen, SpineInv, PhaseInv, Untouched,
           pickupVars, transitVars, proofVars
  <2>2. QED
    BY <2>1, PhaseFrame DEF SpineInv
<1>9. ASSUME NEW reason \in Reasons, NEW at \in Times, RecordDoorRefusal(reason, at)
      PROVE  PhaseInv'
  <2>1. Begun /\ UNCHANGED <<secrets, seal, withCourier, custodian, delivered,
                             returnFlow, verifier>>
    BY <1>9
       DEF RecordDoorRefusal, DoorOpen, SpineInv, PhaseInv, Untouched,
           pickupVars, transitVars, proofVars
  <2>2. QED
    BY <2>1, PhaseFrame DEF SpineInv
<1>10. ASSUME NEW at \in Times, EscalateExpiredWindow(at)
       PROVE  PhaseInv'
  <2>1. Begun /\ UNCHANGED <<secrets, seal, withCourier, custodian, delivered,
                             returnFlow, verifier>>
    BY <1>10
       DEF EscalateExpiredWindow, NoLadder, None, SpineInv, PhaseInv,
           Untouched, pickupVars, transitVars, proofVars
  <2>2. QED
    BY <2>1, PhaseFrame DEF SpineInv
<1>11. CASE ApplyDispatcherReturn
  <2>1. Begun /\ UNCHANGED <<secrets, seal, withCourier, custodian, delivered,
                             returnFlow, verifier>>
    BY <1>11
       DEF ApplyDispatcherReturn, DoorOpen, SpineInv, PhaseInv, Untouched,
           pickupVars, transitVars, proofVars
  <2>2. QED
    BY <2>1, PhaseFrame DEF SpineInv
<1>12. ASSUME NEW id \in SignalIds, NEW t \in Targets, NEW g \in BOOLEAN,
              ConsumeDoorPaidSignal(id, t, g)
       PROVE  PhaseInv'
  <2>1. CASE Begun
    <3>1. UNCHANGED <<secrets, seal, withCourier, custodian, delivered, returnFlow,
                      verifier>>
      BY <1>12 DEF ConsumeDoorPaidSignal, pickupVars, transitVars, proofVars
    <3>2. QED
      BY <2>1, <3>1, PhaseFrame DEF SpineInv
  <2>2. CASE ~Begun
    <3>1. Untouched
      BY <2>2 DEF SpineInv, PhaseInv
    <3>2. UNCHANGED <<secrets, custodian, transitVars, proofVars, doorVars, ladderVars,
                      returnFlow, doorPaid, paidSignals>>
      BY <1>12, <3>1 DEF ConsumeDoorPaidSignal, Awaiting, Untouched
    <3>3. QED
      BY <2>2, <3>1, <3>2 DEF PhaseInv, Begun, Untouched, transitVars, proofVars,
                              doorVars, ladderVars
  <2>3. QED
    BY <2>1, <2>2
<1>13. ASSUME NEW d \in Codes["return_seal"], OpenReturn(d)
       PROVE  PhaseInv'
  <2>1. Begun
    BY <1>13 DEF OpenReturn, SpineInv, PhaseInv, Untouched
  <2>2. secrets'["custody_seal"] = secrets["custody_seal"]
    BY <1>13, Kinds DEF SpineInv, TypeOK, OpenReturn, Registered
  <2>3. /\ returnFlow' = "opened" /\ withCourier
        /\ UNCHANGED <<verifier, seal, custodian, withCourier, delivered>>
    BY <1>13 DEF OpenReturn, pickupVars, transitVars, proofVars
  <2>4. QED
    BY <2>1, <2>2, <2>3 DEF SpineInv, PhaseInv, Begun, OnTheRoad, HandedOut, BackHome
<1>14. ASSUME NEW sk \in Codes["seller_return_acceptance"],
              NEW rk \in Codes["rider_return_confirmation"],
              CompleteReturnHandover(sk, rk)
       PROVE  PhaseInv'
  <2>1. Begun /\ ~delivered
    BY <1>14 DEF CompleteReturnHandover, SpineInv, PhaseInv, Untouched, OnTheRoad,
             HandedOut, BackHome
  <2>2. secrets'["custody_seal"] = secrets["custody_seal"]
    BY <1>14, Kinds DEF CompleteReturnHandover, Spent
  <2>3. /\ custodian' = "seller" /\ withCourier' = FALSE /\ returnFlow' = "closed"
        /\ UNCHANGED <<verifier, seal, delivered>>
    BY <1>14 DEF CompleteReturnHandover, pickupVars, proofVars
  <2>4. QED
    BY <2>1, <2>2, <2>3 DEF SpineInv, PhaseInv, Begun, BackHome
<1>15. QED
  BY <1>1, <1>2, <1>3, <1>4, <1>5, <1>6, <1>7, <1>8, <1>9, <1>10, <1>11,
     <1>12, <1>13, <1>14 DEF Next, vars, pickupVars, transitVars, proofVars,
     doorVars, payVars, ladderVars, ArmDoorReference,
     FileCustodyLiabilityClaim

-----------------------------------------------------------------------------
(* The inductive invariant.                                                *)

\* The opened file satisfies every part of the invariant.
LEMMA InitSpineInv == Init => SpineInv
<1> SUFFICES ASSUME Init PROVE SpineInv
  OBVIOUS
<1>1. TypeOK
  BY InitTyped
<1>2. \A k \in SecretKinds : ~secrets[k].spent
  BY DEF Init, NoSecret
<1>3. \A n \in EventNames : emitted[n] = 0
  BY DEF Init
<1>4. PhaseInv /\ PickupInv
  BY <1>2, Kinds DEF Init, PhaseInv, PickupInv, Begun, Untouched
<1>5. DropInv /\ LadderInv
  BY DEF Init, DropInv, LadderInv, NoLadder, None
<1>6. EventsInv
  BY <1>3, Events DEF Init, EventsInv
<1>7. FeeOnlyOnBuyerFault
  BY DEF Init, FeeOnlyOnBuyerFault
<1>8. TwoKeyReturn
  BY <1>2, Kinds DEF Init, TwoKeyReturn, None
<1>9. OneProtectionClaim
  BY <1>3, Events DEF Init, OneProtectionClaim
<1>10. OneDoorPayment
  BY DEF Init, OneDoorPayment
<1>11. QED
  BY <1>1, <1>4, <1>5, <1>6, <1>7, <1>8, <1>9, <1>10 DEF SpineInv

\* Every command keeps every part.
LEMMA StepSpineInv == SpineInv /\ [Next]_vars => SpineInv'
<1>1. SpineInv /\ [Next]_vars => TypeOK'
  BY StepTyped DEF SpineInv
<1>2. QED
  BY <1>1, PhaseInvStep, PickupInvStep, DropInvStep, LadderInvStep, EventsInvStep,
     FeeOnlyOnBuyerFaultStep, TwoKeyReturnStep, OneProtectionClaimStep,
     OneDoorPaymentStep DEF SpineInv

\* Every command of the custody file preserves the conjunction of its parts.
THEOREM SpineInvariant == Spec => []SpineInv
BY InitSpineInv, StepSpineInv, PTL DEF Spec

-----------------------------------------------------------------------------
(* The safety properties.                                                  *)

\* The flag every guard reads never parts from the ledger.
THEOREM FlagAgrees == Spec => []FlagMatchesLedger
<1>1. SpineInv => FlagMatchesLedger
  <2> SUFFICES ASSUME SpineInv PROVE FlagMatchesLedger
    OBVIOUS
  <2>1. CASE Begun
    BY <2>1, RidersAssumption DEF SpineInv, PhaseInv, OnTheRoad, HandedOut,
                                  BackHome, FlagMatchesLedger
  <2>2. CASE ~Begun
    BY <2>2, RidersAssumption DEF SpineInv, PhaseInv, Untouched, FlagMatchesLedger
  <2>3. QED
    BY <2>1, <2>2
<1>2. QED
  BY <1>1, SpineInvariant, PTL

\* No courier holds a package he did not verify and seal himself.
THEOREM CustodyEarned == Spec => []CustodyIsEarned
<1>1. SpineInv => CustodyIsEarned
  <2> SUFFICES ASSUME SpineInv, withCourier PROVE CustodyIsEarned
    BY DEF CustodyIsEarned
  <2>1. Begun
    BY DEF SpineInv, PhaseInv, Untouched
  <2>2. /\ custodian = verifier /\ verifier \in Riders \ {Supplier}
        /\ secrets["custody_seal"].digest = seal
    BY <2>1 DEF SpineInv, PhaseInv, OnTheRoad, HandedOut, BackHome
  <2>3. secrets["custody_seal"] = [digest |-> seal, spent |-> TRUE]
    BY <2>1, <2>2, Kinds DEF SpineInv, TypeOK, SecretRecords, Begun
  <2>4. verifier # None
    BY <2>2, RidersAssumption
  <2>5. ~pickupRefused /\ secrets["pickup_verification_code"].spent
    BY <2>4 DEF SpineInv, PickupInv
  <2>6. QED
    BY <2>2, <2>3, <2>5 DEF CustodyIsEarned
<1>2. QED
  BY <1>1, SpineInvariant, PTL

\* On Option B nothing is handed over before the inspection and the payment,
\* and nothing recorded later takes them back.
THEOREM PaidBeforeHandoff == Spec => []PaymentBeforeHandoff
<1>1. SpineInv => PaymentBeforeHandoff
  <2> SUFFICES ASSUME SpineInv, delivered PROVE PaymentBeforeHandoff
    BY DEF PaymentBeforeHandoff
  <2>1. returnFlow = None
    BY DEF SpineInv, PhaseInv, Untouched, OnTheRoad, HandedOut, BackHome
  <2>2. QED
    BY <2>1 DEF SpineInv, DropInv, DoorLegSettled, PaymentBeforeHandoff
<1>2. QED
  BY <1>1, SpineInvariant, PTL

\* Settlement eligibility and refusal never both leave the custody file.
THEOREM MoneyEndsOnce == Spec => []OneMoneyOutcome
<1>1. SpineInv => OneMoneyOutcome
  <2> SUFFICES ASSUME SpineInv PROVE OneMoneyOutcome
    OBVIOUS
  <2>1. delivered <=> custodian = "customer"
    BY RidersAssumption DEF SpineInv, PhaseInv, Untouched, OnTheRoad, HandedOut,
                            BackHome, None
  <2>2. emitted["refused"] \in Nat
    BY Events DEF SpineInv, TypeOK
  <2>3. delivered => ~pickupRefused /\ returnFlow = None
    <3> SUFFICES ASSUME delivered PROVE ~pickupRefused /\ returnFlow = None
      OBVIOUS
    <3>1. Begun
      BY DEF SpineInv, PhaseInv, Untouched
    <3>2. verifier # None
      BY <3>1, RidersAssumption DEF SpineInv, PhaseInv
    <3>3. QED
      BY <3>1, <3>2 DEF SpineInv, PhaseInv, PickupInv, OnTheRoad, HandedOut, BackHome
  <2>4. QED
    BY <2>1, <2>2, <2>3 DEF SpineInv, EventsInv, OneMoneyOutcome
<1>2. QED
  BY <1>1, SpineInvariant, PTL

\* The delivery fee is only ever kept on the buyer's own fault.
THEOREM FeeIsTheBuyers == Spec => []FeeOnlyOnBuyerFault
<1>1. SpineInv => FeeOnlyOnBuyerFault
  BY DEF SpineInv
<1>2. QED
  BY <1>1, SpineInvariant, PTL

\* A package goes back to the seller on both keys or not at all.
THEOREM TwoKeysOrNone == Spec => []TwoKeyReturn
<1>1. SpineInv => TwoKeyReturn
  BY DEF SpineInv
<1>2. QED
  BY <1>1, SpineInvariant, PTL

\* One protection claim per order, at the pickup or at the door.
THEOREM ClaimedOnce == Spec => []OneProtectionClaim
<1>1. SpineInv => OneProtectionClaim
  BY DEF SpineInv
<1>2. QED
  BY <1>1, SpineInvariant, PTL

\* One provider signal pays the door leg, and never on a refused package.
THEOREM DoorPaidOnce == Spec => []OneDoorPayment
<1>1. SpineInv => OneDoorPayment
  BY DEF SpineInv
<1>2. QED
  BY <1>1, SpineInvariant, PTL

-----------------------------------------------------------------------------
(* What a step may never do.                                               *)

\* No command revives a spent secret.
LEMMA StepSpends ==
    ASSUME SpineInv, Next, NEW k \in SecretKinds, secrets[k].spent
    PROVE  secrets'[k] = secrets[k]
<1> USE DEF SpineInv, TypeOK
<1>1. ASSUME NEW kind \in ArmableKinds, NEW d \in Codes[kind], ArmSecret(kind, d)
      PROVE  secrets'[k] = secrets[k]
  BY <1>1 DEF ArmSecret, Registrable, Registered
<1>2. ASSUME NEW d \in Codes["return_seal"], OpenReturn(d)
      PROVE  secrets'[k] = secrets[k]
  BY <1>2 DEF OpenReturn, Registrable, Registered
<1>3. ASSUME NEW kinds, secrets' = Spent(kinds),
             \A kind \in kinds : ~secrets[kind].spent
      PROVE  secrets'[k] = secrets[k]
  BY <1>3 DEF Spent
<1>4. ASSUME NEW r \in Riders, NEW d \in Codes["custody_seal"], BeginCustody(r, d)
      PROVE  secrets'[k] = secrets[k]
  <2>1. CASE Begun
    BY <1>4, <2>1, NeverBegunTwice
  <2>2. CASE ~Begun
    BY <1>4, <2>2 DEF BeginCustody, TakeCustody, Begun
  <2>3. QED
    BY <2>1, <2>2
<1>5. ASSUME NEW r \in Riders, NEW d \in Codes["pickup_verification_code"],
             NEW c \in BOOLEAN, VerifyPickup(r, d, c)
      PROVE  secrets'[k] = secrets[k]
  BY <1>3, <1>5 DEF VerifyPickup, Consumable
<1>6. ASSUME NEW d \in Codes["buyer_drop_code"], ConfirmDrop(d)
      PROVE  secrets'[k] = secrets[k]
  BY <1>3, <1>6 DEF ConfirmDrop, Consumable
<1>7. ASSUME NEW sk \in Codes["seller_return_acceptance"],
             NEW rk \in Codes["rider_return_confirmation"],
             CompleteReturnHandover(sk, rk)
      PROVE  secrets'[k] = secrets[k]
  BY <1>3, <1>7 DEF CompleteReturnHandover, Consumable
<1>8. CASE UNCHANGED secrets
  BY <1>8
<1>9. QED
  BY <1>1, <1>2, <1>4, <1>5, <1>6, <1>7, <1>8
     DEF Next, SubmitEvidence, DecideValidation, RecordDoorInspection,
         RecordDoorRefusal, EscalateExpiredWindow, ApplyDispatcherReturn,
         ArmDoorReference, ConsumeDoorPaidSignal, FileCustodyLiabilityClaim

\* Single use, whatever is armed or presented again.
THEOREM SingleUse == Spec => SecretsAreSingleUse
<1>1. SpineInv /\ [Next]_vars =>
        [\A k \in SecretKinds : secrets[k].spent => secrets'[k] = secrets[k]]_secrets
  BY StepSpends DEF vars
<1>2. QED
  BY <1>1, SpineInvariant, PTL DEF Spec, SecretsAreSingleUse

\* One window, one climb: the refusal ladder never reopens nor changes reason.
LEMMA StepClimbs ==
    ASSUME SpineInv, Next, ladder' # ladder
    PROVE  /\ ladder # NoLadder =>
                /\ ladder'.reason = ladder.reason
                /\ ladder'.attempt = ladder.attempt + 1
                /\ ladder'.family # "retry"
                /\ ladder.family # "return"
           /\ ladder'.family = "reschedule" => ladder.family = "retry"
<1> DEFINE Goal == /\ ladder # NoLadder =>
                        /\ ladder'.reason = ladder.reason
                        /\ ladder'.attempt = ladder.attempt + 1
                        /\ ladder'.family # "retry"
                        /\ ladder.family # "return"
                   /\ ladder'.family = "reschedule" => ladder.family = "retry"
<1> SUFFICES Goal
  OBVIOUS
<1>1. ASSUME NEW result \in InspectionResults, NEW at \in Times,
             RecordDoorInspection(result, at)
      PROVE  Goal
  BY <1>1 DEF RecordDoorInspection, NoWindowYet, RetryOutcome, FinalChangeOutcome
<1>2. ASSUME NEW reason \in Reasons, NEW at \in Times, RecordDoorRefusal(reason, at)
      PROVE  Goal
  BY <1>2 DEF RecordDoorRefusal, NoWindowYet, RetryOutcome
<1>3. ASSUME NEW at \in Times, EscalateExpiredWindow(at)
      PROVE  Goal
  <2>1. ladder \in Outcomes
    BY <1>3 DEF EscalateExpiredWindow, SpineInv, TypeOK, NoLadder, None
  <2>2. ladder' = [family |-> IF ladder.reason \in EscalatingReasons
                               THEN "return" ELSE "reschedule",
                   reason |-> ladder.reason, attempt |-> 2, expiresAt |-> 0]
    BY <1>3, <2>1 DEF EscalateExpiredWindow, Outcomes
  <2>3. ladder.family = "retry" /\ ladder.attempt = 1
    BY <1>3 DEF EscalateExpiredWindow
  <2>4. QED
    BY <2>2, <2>3
<1>4. CASE ApplyDispatcherReturn
  <2>1. ladder \in Outcomes
    BY <1>4 DEF ApplyDispatcherReturn, SpineInv, TypeOK, NoLadder, None
  <2>2. ladder' = [family |-> "return", reason |-> ladder.reason,
                   attempt |-> ladder.attempt + 1, expiresAt |-> ladder.expiresAt]
    BY <1>4, <2>1 DEF ApplyDispatcherReturn, Outcomes
  <2>3. ladder.family = "reschedule"
    BY <1>4 DEF ApplyDispatcherReturn
  <2>4. QED
    BY <2>2, <2>3
<1>5. QED
  BY <1>1, <1>2, <1>3, <1>4
     DEF Next, ladderVars, ArmSecret, VerifyPickup, BeginCustody, SubmitEvidence,
         DecideValidation, ConfirmDrop, ArmDoorReference, ConsumeDoorPaidSignal,
         OpenReturn, CompleteReturnHandover, FileCustodyLiabilityClaim

\* The refusal ladder opens once and only climbs, on every behaviour.
THEOREM OneWindowEver == Spec => LadderOnlyClimbs
<1>1. SpineInv /\ [Next]_vars =>
        [/\ ladder # NoLadder =>
              /\ ladder'.reason = ladder.reason
              /\ ladder'.attempt = ladder.attempt + 1
              /\ ladder'.family # "retry"
              /\ ladder.family # "return"
         /\ ladder'.family = "reschedule" => ladder.family = "retry"]_ladder
  BY StepClimbs DEF vars, ladderVars
<1>2. QED
  BY <1>1, SpineInvariant, PTL DEF Spec, LadderOnlyClimbs

-----------------------------------------------------------------------------
(* The custody file implements the custody chain.                          *)

\* The opened file maps to the open chain.
LEMMA ChainInit == Init => Chain!Init
BY DEF Init, Chain!Init, Outcome, None

\* Every command maps to a step of the chain or to a stutter.
LEMMA ChainStep == SpineInv /\ [Next]_vars => [Chain!Next]_(Chain!vars)
<1> SUFFICES ASSUME SpineInv, [Next]_vars PROVE [Chain!Next]_(Chain!vars)
  OBVIOUS
<1> USE DEF Chain!vars, Outcome
<1>1. CASE UNCHANGED <<custodian, delivered, returnFlow>>
  BY <1>1
<1>2. ASSUME NEW r \in Riders, NEW d \in Codes["custody_seal"], BeginCustody(r, d)
      PROVE  [Chain!Next]_(Chain!vars)
  <2>1. UNCHANGED <<delivered, returnFlow>>
    BY <1>2 DEF BeginCustody, proofVars
  <2>2. CASE Begun
    BY <1>2, <2>1, <2>2, NeverBegunTwice DEF SpineInv
  <2>3. CASE ~Begun
    <3>1. custodian \in {"none", "seller"} /\ Outcome = "open"
      BY <2>3 DEF SpineInv, PhaseInv, Untouched, None
    <3>2. custodian' = r \/ custodian' = "seller"
      BY <1>2, <3>1 DEF BeginCustody, TakeCustody, Established, None
    <3>3. CASE custodian' = r
      BY <2>1, <3>1, <3>3 DEF Chain!Next, Chain!HandOver
    <3>4. CASE custodian' = "seller"
      BY <2>1, <3>1, <3>4 DEF Chain!Next, Chain!Establish
    <3>5. QED
      BY <3>2, <3>3, <3>4
  <2>4. QED
    BY <2>2, <2>3
<1>3. ASSUME NEW d \in Codes["buyer_drop_code"], ConfirmDrop(d)
      PROVE  [Chain!Next]_(Chain!vars)
  <2>1. custodian \in Riders /\ returnFlow = None /\ ~delivered
    BY <1>3 DEF ConfirmDrop, GoingHome, SpineInv, PhaseInv, Untouched, OnTheRoad,
                HandedOut, BackHome
  <2>2. custodian' = "customer" /\ delivered'
    BY <1>3 DEF ConfirmDrop
  <2>3. QED
    BY <2>1, <2>2 DEF Chain!Next, Chain!Deliver, None
<1>4. ASSUME NEW d \in Codes["return_seal"], OpenReturn(d)
      PROVE  [Chain!Next]_(Chain!vars)
  <2>1. returnFlow # "closed"
    BY <1>4 DEF OpenReturn, SpineInv, PhaseInv, Untouched, OnTheRoad, HandedOut,
                BackHome, None
  <2>2. returnFlow' = "opened" /\ UNCHANGED <<custodian, delivered>>
    BY <1>4 DEF OpenReturn, proofVars
  <2>3. QED
    BY <2>1, <2>2
<1>5. ASSUME NEW sk \in Codes["seller_return_acceptance"],
             NEW rk \in Codes["rider_return_confirmation"],
             CompleteReturnHandover(sk, rk)
      PROVE  [Chain!Next]_(Chain!vars)
  <2>1. custodian \in Riders /\ returnFlow = "opened" /\ ~delivered
    BY <1>5 DEF CompleteReturnHandover, SpineInv, PhaseInv, Untouched, OnTheRoad,
                HandedOut, BackHome
  <2>2. custodian' = "seller" /\ returnFlow' = "closed" /\ UNCHANGED delivered
    BY <1>5 DEF CompleteReturnHandover, proofVars
  <2>3. QED
    BY <2>1, <2>2 DEF Chain!Next, Chain!GiveBack
<1>6. QED
  BY <1>1, <1>2, <1>3, <1>4, <1>5
     DEF Next, vars, pickupVars, transitVars, proofVars, ArmSecret, VerifyPickup,
         SubmitEvidence, DecideValidation, RecordDoorInspection, RecordDoorRefusal,
         EscalateExpiredWindow, ApplyDispatcherReturn, ArmDoorReference,
         ConsumeDoorPaidSignal, FileCustodyLiabilityClaim

\* Whatever the commands, the package leaves the seller once, into one rider's
\* hands, and ends with the customer or back with the seller.
THEOREM SpineImplementsChain == Spec => ImplementsChain
BY ChainInit, ChainStep, SpineInvariant, PTL DEF Spec, ImplementsChain, Chain!Spec

-----------------------------------------------------------------------------
(* The custody file implements the reduced file its outboxes run on.       *)

\* Where the mapped phase stands, read off the phase the spine is in.
LEMMA PhaseRead ==
    ASSUME SpineInv
    PROVE  /\ ~Begun => Phase = (IF pickupRefused THEN "refused" ELSE "at_seller")
           /\ ~Begun => ~Rescheduled /\ returnFlow = "none"
           /\ Begun /\ withCourier => Phase = "on_road"
           /\ Begun /\ ~withCourier => Phase \in {"delivered", "home"}
           /\ withCourier => Begun
           /\ feeWaived => ladder.family = "return"
BY DEF SpineInv, PhaseInv, Untouched, OnTheRoad, HandedOut, BackHome, LadderInv, Phase,
       Rescheduled, NoLadder, None

\* The opened file maps to the reduced file at the seller's.
LEMMA FileInitMaps == Init => File!FileInit
BY DEF Init, File!FileInit, Phase, Rescheduled, NoLadder, None

\* A refusal of the door, a change of mind or a final one is no second passage.
LEMMA LadderOpens ==
    ASSUME SpineInv, ladder = NoLadder, feeWaived' = feeWaived,
           ladder' = NoLadder \/ ladder'.family \in {"retry", "return"}
    PROVE  ~Rescheduled /\ ~Rescheduled'
BY PhaseRead DEF Rescheduled, NoLadder, None

\* Every command maps to a step of the reduced file or to a stutter.
LEMMA FileStep == SpineInv /\ [Next]_vars => [File!FileNext]_(File!fileVars)
<1> SUFFICES ASSUME SpineInv, [Next]_vars PROVE [File!FileNext]_(File!fileVars)
  OBVIOUS
<1> USE DEF File!fileVars
<1>1. CASE UNCHANGED <<delivered, returnFlow, withCourier, pickupRefused, ladder, feeWaived>>
  BY <1>1 DEF Phase, Rescheduled
<1>2. ASSUME NEW r \in Riders, NEW d \in Codes["pickup_verification_code"],
             NEW c \in BOOLEAN, VerifyPickup(r, d, c)
      PROVE  [File!FileNext]_(File!fileVars)
  <2>1. UNCHANGED <<delivered, returnFlow, withCourier, ladder, feeWaived>> /\ ~pickupRefused
    BY <1>2 DEF VerifyPickup, transitVars, proofVars, ladderVars
  <2>2. verifier = None
    BY <1>2 DEF VerifyPickup, Consumable, SpineInv, PickupInv
  <2>3. ~Begun
    BY <2>2, RidersAssumption DEF SpineInv, PhaseInv
  <2>4. ~delivered /\ ~withCourier /\ returnFlow = "none"
    BY <2>3 DEF SpineInv, PhaseInv, Untouched, None
  <2>5. Phase = "at_seller" /\ Rescheduled' = Rescheduled
    BY <2>1, <2>3, PhaseRead DEF Rescheduled
  <2>6. CASE pickupRefused'
    <3>1. Phase' = "refused"
      BY <2>1, <2>4, <2>6 DEF Phase
    <3>2. QED
      BY <2>1, <2>5, <3>1 DEF File!FileNext, File!RefusePickup
  <2>7. CASE ~pickupRefused'
    BY <2>1, <2>7 DEF Phase, Rescheduled
  <2>8. QED
    BY <2>6, <2>7
<1>3. ASSUME NEW r \in Riders, NEW d \in Codes["custody_seal"], BeginCustody(r, d)
      PROVE  [File!FileNext]_(File!fileVars)
  <2>1. UNCHANGED <<delivered, returnFlow, pickupRefused, ladder, feeWaived>>
    BY <1>3 DEF BeginCustody, pickupVars, proofVars, ladderVars
  <2>2. CASE withCourier' = withCourier
    BY <2>1, <2>2 DEF Phase, Rescheduled
  <2>3. CASE withCourier' # withCourier
    <3>1. ~Begun
      BY <1>3, <2>3, NeverBegunTwice DEF SpineInv
    <3>2. verifier # None /\ withCourier'
      BY <1>3, <2>3, <3>1 DEF BeginCustody, BeginAllowed, TakeCustody, transitVars,
                              SpineInv, PhaseInv, Untouched, Established
    <3>3. ~pickupRefused
      BY <3>2 DEF SpineInv, PickupInv
    <3>4. Phase = "at_seller" /\ Rescheduled' = Rescheduled
      BY <2>1, <3>1, <3>3, PhaseRead DEF Rescheduled
    <3>5. ~delivered' /\ returnFlow' = "none"
      BY <2>1, <3>1 DEF SpineInv, PhaseInv, Untouched, None
    <3>6. Phase' = "on_road"
      BY <3>2, <3>5 DEF Phase
    <3>7. QED
      BY <2>1, <3>4, <3>6 DEF File!FileNext, File!BeginRoad
  <2>4. QED
    BY <2>2, <2>3
<1>4. ASSUME NEW d \in Codes["buyer_drop_code"], ConfirmDrop(d)
      PROVE  [File!FileNext]_(File!fileVars)
  <2>1. withCourier /\ returnFlow = "none" /\ delivered'
        /\ UNCHANGED <<returnFlow, ladder, feeWaived>>
    BY <1>4 DEF ConfirmDrop, GoingHome, ladderVars, None
  <2>2. Phase = "on_road" /\ Phase' = "delivered" /\ Rescheduled' = Rescheduled
    BY <2>1, PhaseRead DEF Phase, Rescheduled
  <2>3. QED
    BY <2>1, <2>2 DEF File!FileNext, File!Deliver
<1>5. ASSUME NEW res, NEW at, RecordDoorInspection(res, at) \/ RecordDoorRefusal(res, at)
      PROVE  [File!FileNext]_(File!fileVars)
  <2>1. UNCHANGED <<delivered, returnFlow, withCourier, pickupRefused, feeWaived>>
    BY <1>5 DEF RecordDoorInspection, RecordDoorRefusal, transitVars, proofVars, pickupVars,
                ladderVars
  <2>2. CASE ladder' = ladder
    BY <2>1, <2>2 DEF Phase, Rescheduled
  <2>3. CASE ladder' # ladder
    <3>1. ladder = NoLadder /\ ladder'.family \in {"retry", "return"}
      BY <1>5, <2>3 DEF RecordDoorInspection, RecordDoorRefusal, NoWindowYet, RetryOutcome,
                        FinalChangeOutcome
    <3>2. ~Rescheduled /\ ~Rescheduled'
      BY <2>1, <3>1, LadderOpens
    <3>3. QED
      BY <2>1, <3>2 DEF Phase, Rescheduled
  <2>4. QED
    BY <2>2, <2>3
<1>6. ASSUME NEW now, EscalateExpiredWindow(now) PROVE [File!FileNext]_(File!fileVars)
  <2>1. UNCHANGED <<delivered, returnFlow, withCourier, pickupRefused, feeWaived>>
        /\ ~delivered /\ ladder.family = "retry"
    BY <1>6 DEF EscalateExpiredWindow, transitVars, proofVars, pickupVars
  <2>2. Begun /\ Phase \in {"on_road", "home"}
    BY <2>1, PhaseRead DEF SpineInv, PhaseInv, Untouched, NoLadder, None, Phase
  <2>3. ~Rescheduled /\ Phase' = Phase
    BY <2>1, PhaseRead DEF Rescheduled, Phase
  <2>4. CASE Rescheduled'
    BY <2>1, <2>2, <2>3, <2>4 DEF File!FileNext, File!Reschedule, Rescheduled
  <2>5. CASE ~Rescheduled'
    BY <2>1, <2>3, <2>5 DEF Rescheduled
  <2>6. QED
    BY <2>4, <2>5
<1>7. CASE ApplyDispatcherReturn
  <2>1. UNCHANGED <<delivered, returnFlow, withCourier, pickupRefused>>
        /\ ladder.family = "reschedule" /\ feeWaived' = TRUE
    BY <1>7 DEF ApplyDispatcherReturn, transitVars, proofVars, pickupVars
  <2>2. QED
    BY <2>1 DEF Phase, Rescheduled
<1>8. ASSUME NEW d \in Codes["return_seal"], OpenReturn(d)
      PROVE  [File!FileNext]_(File!fileVars)
  <2>1. withCourier /\ returnFlow' = "opened" /\ UNCHANGED <<delivered, withCourier, ladder,
                                                              feeWaived>>
    BY <1>8 DEF OpenReturn, transitVars, proofVars
  <2>2. Phase = "on_road" /\ ~delivered
    BY <2>1, PhaseRead DEF SpineInv, PhaseInv, OnTheRoad, HandedOut, BackHome
  <2>3. Phase' = "on_road" /\ Rescheduled' = Rescheduled
    BY <2>1, <2>2 DEF Phase, Rescheduled
  <2>4. QED
    BY <2>1, <2>2, <2>3 DEF File!FileNext, File!OpenRetour
<1>9. ASSUME NEW sk \in Codes["seller_return_acceptance"],
             NEW rk \in Codes["rider_return_confirmation"],
             CompleteReturnHandover(sk, rk)
      PROVE  [File!FileNext]_(File!fileVars)
  <2>1. withCourier /\ returnFlow = "opened" /\ returnFlow' = "closed"
        /\ UNCHANGED <<delivered, ladder, feeWaived>>
    BY <1>9 DEF CompleteReturnHandover, proofVars, ladderVars
  <2>2. Phase = "on_road" /\ ~delivered
    BY <2>1, PhaseRead DEF SpineInv, PhaseInv, OnTheRoad, HandedOut, BackHome
  <2>3. Phase' = "home" /\ Rescheduled' = Rescheduled
    BY <2>1, <2>2 DEF Phase, Rescheduled
  <2>4. QED
    BY <2>1, <2>2, <2>3 DEF File!FileNext, File!HandBack
<1>10. QED
  BY <1>1, <1>2, <1>3, <1>4, <1>5, <1>6, <1>7, <1>8, <1>9
     DEF Next, vars, pickupVars, transitVars, proofVars, ladderVars, ArmSecret,
         SubmitEvidence, DecideValidation, ArmDoorReference, ConsumeDoorPaidSignal,
         FileCustodyLiabilityClaim

\* What the outboxes look at behaves as the reduced file: the package leaves the
\* seller once and ends once, a return is opened before it closes, and a second
\* passage is decided at most once, whatever else the spine remembers.
THEOREM SpineImplementsFile == Spec => ImplementsFile
BY FileInitMaps, FileStep, SpineInvariant, PTL DEF Spec, ImplementsFile, File!FileSpec
=============================================================================
