-------------------------- MODULE ClaimHouseProofs --------------------------
(***************************************************************************)
(* The theorems of two components that share nothing: the claims on        *)
(* packages (PackageClaim) and the rider's house (House).  They stand      *)
(* side by side, each about its own specification.                         *)
(***************************************************************************)
EXTENDS PackageClaim, House, TLAPS

(***************************************************************************)
(* One custody file per package, proved for any number of orders, packages *)
(* and riders, any set of old files and any number of failed calls.        *)
(*                                                                         *)
(* The claim object and the custody object share no storage: what ties     *)
(* them is that a claim is never given twice and that an answer in flight  *)
(* is about the file it will be written to.  The first is in WonIsClaimed, *)
(* the second in AnswerFits and OneHop, which the block around the open    *)
(* gives; BegunHeld carries the claim over to the custody it allowed.      *)
(***************************************************************************)

\* An answer « won », wherever it still travels, is what the claim object says.
WonIsClaimed == \A h \in hops : h.answer = "won" => claim[h.pkg] = h.order

\* An open on its way is about the package of the file it would heal.
AnswerFits == \A h \in hops : IsOpen(h.order) => file[h.order].pkg = h.pkg

\* One open at a time in each object.
OneHop == \A h, g \in hops : h.order = g.order => h = g

\* Custody began under a claim, and the claim is still held.
BegunHeld == \A o \in Orders : IsOpen(o) /\ file[o].begun # None => ClaimHeld(o)

ClaimInv ==
    /\ ClaimTypeOK
    /\ HeldIsClaimed
    /\ WonIsClaimed
    /\ AnswerFits
    /\ OneHop
    /\ BegunHeld

Hop == [order : Orders, pkg : Packages, answer : {None, "won", "taken"}]

-----------------------------------------------------------------------------
(* The initial states and the actions, one by one.                         *)

LEMMA InitHolds == ClaimInit => ClaimInv
<1> SUFFICES ASSUME ClaimInit PROVE ClaimInv
  OBVIOUS
<1> USE LegacyAssumption, NoneAssumption, BoundsAssumption DEF ClaimInit
<1>1. \A o \in Orders : IsOpen(o) =>
        /\ file[o] = Opened(Legacy[o], None)
        /\ Legacy[o] \in Packages
  BY DEF IsOpen
<1>2. \A o \in Orders : file[o] \in Rows \cup {None}
  BY DEF Opened, Rows
<1>3. ClaimTypeOK
  BY <1>2 DEF ClaimTypeOK
<1>4. \A o \in Orders : ~ClaimHeld(o) /\ (IsOpen(o) => file[o].begun = None)
  BY <1>1 DEF ClaimHeld, Opened
<1>5. QED
  BY <1>3, <1>4 DEF ClaimInv, HeldIsClaimed, WonIsClaimed, AnswerFits, OneHop, BegunHeld

\* An open asks for the claim of the file it stands in, and no other open does.
LEMMA OpenHolds ==
  ASSUME ClaimInv, NEW o \in Orders, NEW p \in Packages, Open(o, p)
  PROVE  ClaimInv'
<1> USE NoneAssumption DEF ClaimInv, Open
<1>1. CASE UNCHANGED hops
  <2>1. calls' \subseteq [order : Orders, pkg : Packages]
    BY DEF ClaimTypeOK
  <2>2. QED
    BY <1>1, <2>1 DEF ClaimTypeOK, HeldIsClaimed, WonIsClaimed, AnswerFits, OneHop, BegunHeld,
                           IsOpen, ClaimHeld
<1>2. CASE MustClaim(o, p)
  <2> DEFINE asked == [order |-> o, pkg |-> p, answer |-> None]
  <2>1. hops' = hops \cup {asked} /\ UNCHANGED <<claim, file, faults>>
    BY <1>2
  <2>2. calls' = calls \cup {[order |-> o, pkg |-> p]}
    BY <1>2
  <2>3. asked \in Hop /\ asked.answer # "won" /\ asked.order = o /\ asked.pkg = p
    BY DEF Hop
  <2>4. ClaimTypeOK'
    BY <2>1, <2>2, <2>3 DEF ClaimTypeOK, Hop
  <2>5. AnswerFits'
    BY <1>2, <2>1, <2>3 DEF AnswerFits, MustClaim, IsOpen
  <2>6. OneHop'
    BY <2>1, <2>3 DEF OneHop, Free
  <2>7. WonIsClaimed'
    BY <2>1, <2>3 DEF WonIsClaimed
  <2>8. QED
    BY <2>1, <2>4, <2>5, <2>6, <2>7 DEF HeldIsClaimed, BegunHeld, IsOpen, ClaimHeld
<1>3. QED
  BY <1>1, <1>2

\* The claim object never takes a package from the order it names.
LEMMA ClaimStays ==
  ASSUME ClaimTypeOK, NEW c \in calls, Claim(c), NEW p \in Packages, claim[p] # None
  PROVE  claim'[p] = claim[p]
BY DEF ClaimTypeOK, Claim, Wins

LEMMA ClaimHolds ==
  ASSUME ClaimInv, NEW c \in calls, Claim(c)
  PROVE  ClaimInv'
<1> USE DEF ClaimInv
<1> DEFINE won == Wins(claim[c.pkg], c.order)
           heard(h) == IF [order |-> h.order, pkg |-> h.pkg] = c
                       THEN [h EXCEPT !.answer = IF won THEN "won" ELSE "taken"] ELSE h
<1>1. c.order \in Orders /\ c.pkg \in Packages
  BY DEF ClaimTypeOK
<1>2. /\ hops' = {heard(h) : h \in hops}
      /\ claim' = [claim EXCEPT ![c.pkg] = IF won THEN c.order ELSE @]
      /\ calls' \subseteq calls
      /\ UNCHANGED <<file, faults>>
  BY DEF Claim
<1>3. \A h \in hops : /\ heard(h) \in Hop
                      /\ heard(h).order = h.order
                      /\ heard(h).pkg = h.pkg
  BY DEF ClaimTypeOK, Hop
<1>4. ClaimTypeOK'
  BY <1>1, <1>2, <1>3 DEF ClaimTypeOK, Hop
<1>5. HeldIsClaimed'
  <2> SUFFICES ASSUME NEW o \in Orders, ClaimHeld(o)' PROVE claim'[file'[o].pkg] = o
    BY DEF HeldIsClaimed
  <2>1. ClaimHeld(o) /\ file'[o] = file[o]
    BY <1>2 DEF ClaimHeld, IsOpen
  <2>2. file[o].pkg \in Packages /\ claim[file[o].pkg] = o /\ o # None
    BY <2>1, NoneAssumption DEF ClaimTypeOK, HeldIsClaimed, ClaimHeld, IsOpen, Rows
  <2>3. QED
    BY <2>1, <2>2, ClaimStays
<1>6. WonIsClaimed'
  <2> SUFFICES ASSUME NEW h \in hops, heard(h).answer = "won"
               PROVE claim'[heard(h).pkg] = heard(h).order
    BY <1>2 DEF WonIsClaimed
  <2>1. h.order \in Orders /\ h.pkg \in Packages /\ h \in Hop
    BY DEF ClaimTypeOK, Hop
  <2>2. CASE [order |-> h.order, pkg |-> h.pkg] = c
    <3>1. c.order = h.order /\ c.pkg = h.pkg
      BY <2>2
    <3>2. won
      BY <2>1, <2>2 DEF Hop
    <3>3. claim'[c.pkg] = c.order
      BY <1>1, <1>2, <3>2 DEF ClaimTypeOK
    <3>4. QED
      BY <1>3, <3>1, <3>3
  <2>3. CASE [order |-> h.order, pkg |-> h.pkg] # c
    <3>1. heard(h) = h
      BY <2>3
    <3>2. claim[h.pkg] = h.order /\ h.order # None
      BY <2>1, <3>1, NoneAssumption DEF WonIsClaimed
    <3>3. QED
      BY <2>1, <3>1, <3>2, ClaimStays
  <2>4. QED
    BY <2>2, <2>3
<1> HIDE DEF heard
<1>7. AnswerFits'
  <2> SUFFICES ASSUME NEW g \in hops', file'[g.order] # None PROVE file'[g.order].pkg = g.pkg
    BY DEF AnswerFits, IsOpen
  <2>1. PICK h \in hops : g = heard(h)
    BY <1>2
  <2>2. g.order = h.order /\ g.pkg = h.pkg
    BY <1>3, <2>1
  <2>3. file' = file
    BY <1>2
  <2>4. QED
    BY <2>2, <2>3 DEF AnswerFits, IsOpen
<1>8. OneHop'
  <2>1. \A h, g \in hops : heard(h).order = heard(g).order => heard(h) = heard(g)
    BY <1>3 DEF OneHop
  <2>2. QED
    BY <1>2, <2>1 DEF OneHop
<1>9. BegunHeld'
  BY <1>2 DEF BegunHeld, IsOpen, ClaimHeld
<1>10. QED
  BY <1>4, <1>5, <1>6, <1>7, <1>8, <1>9

\* What an open writes: the whole file, or the marker of the file it heals.
LEMMA WrittenRows ==
  ASSUME ClaimInv, NEW h \in hops, NEW o \in Orders, OpenEnds(h),
         file'[o] # file[o]
  PROVE  /\ o = h.order /\ h.answer = "won"
         /\ file'[o] \in Rows /\ file'[o].pkg = h.pkg /\ file'[o].marker = h.pkg
         /\ IF IsOpen(o) THEN file'[o].pkg = file[o].pkg /\ file'[o].begun = file[o].begun
                         ELSE file'[o].begun = None
<1> USE DEF ClaimInv
<1>1. h.order \in Orders /\ h.pkg \in Packages
  BY DEF ClaimTypeOK
<1>2. o = h.order /\ h.answer = "won" /\ file'[o] = Written(file[o], h.pkg)
  BY <1>1 DEF OpenEnds, ClaimTypeOK
<1>3. CASE IsOpen(o)
  <2>1. file[o] \in Rows /\ file[o].pkg = h.pkg
    BY <1>2, <1>3 DEF ClaimTypeOK, IsOpen, AnswerFits
  <2>2. file'[o] = [file[o] EXCEPT !.marker = h.pkg]
    BY <1>2, <1>3 DEF Written, IsOpen
  <2>3. QED
    BY <1>1, <1>2, <1>3, <2>1, <2>2 DEF Rows
<1>4. CASE ~IsOpen(o)
  BY <1>1, <1>2, <1>4 DEF Written, IsOpen, Opened, Rows
<1>5. QED
  BY <1>3, <1>4

LEMMA OpenEndsHolds ==
  ASSUME ClaimInv, NEW h \in hops, OpenEnds(h)
  PROVE  ClaimInv'
<1> USE DEF ClaimInv
<1>1. hops' = hops \ {h} /\ UNCHANGED <<claim, calls, faults>>
  BY DEF OpenEnds
<1>2. h.order \in Orders /\ h.pkg \in Packages
  BY DEF ClaimTypeOK
<1>3. ClaimTypeOK'
  <2>1. \A o \in Orders : file'[o] \in Rows \cup {None}
    BY WrittenRows DEF ClaimTypeOK
  <2>2. DOMAIN file' = Orders /\ file' = [o \in Orders |-> file'[o]]
    BY DEF ClaimTypeOK, OpenEnds
  <2>3. QED
    BY <1>1, <2>1, <2>2 DEF ClaimTypeOK
<1>4. HeldIsClaimed'
  <2> SUFFICES ASSUME NEW o \in Orders, ClaimHeld(o)' PROVE claim'[file'[o].pkg] = o
    BY DEF HeldIsClaimed
  <2>1. CASE file'[o] = file[o]
    BY <1>1, <2>1 DEF HeldIsClaimed, ClaimHeld, IsOpen
  <2>2. CASE file'[o] # file[o]
    BY <1>1, <2>2, WrittenRows DEF WonIsClaimed
  <2>3. QED
    BY <2>1, <2>2
<1>5. WonIsClaimed' /\ OneHop'
  BY <1>1 DEF WonIsClaimed, OneHop
<1>6. AnswerFits'
  <2> SUFFICES ASSUME NEW g \in hops', IsOpen(g.order)' PROVE file'[g.order].pkg = g.pkg
    BY DEF AnswerFits
  <2>1. g \in hops /\ g # h /\ g.order \in Orders
    BY <1>1 DEF ClaimTypeOK
  <2>2. g.order # h.order
    BY <2>1 DEF OneHop
  <2>3. file'[g.order] = file[g.order]
    BY <2>1, <2>2, WrittenRows
  <2>4. QED
    BY <2>1, <2>3 DEF AnswerFits, IsOpen
<1>7. BegunHeld'
  <2> SUFFICES ASSUME NEW o \in Orders, IsOpen(o)', file'[o].begun # None PROVE ClaimHeld(o)'
    BY DEF BegunHeld
  <2>1. CASE file'[o] = file[o]
    BY <2>1 DEF BegunHeld, ClaimHeld, IsOpen
  <2>2. CASE file'[o] # file[o]
    BY <2>2, WrittenRows DEF ClaimHeld, IsOpen
  <2>3. QED
    BY <2>1, <2>2
<1>8. QED
  BY <1>3, <1>4, <1>5, <1>6, <1>7

\* A call that fails and an object that restarts only lose opens.
LEMMA FaultHolds ==
  ASSUME ClaimInv,
         \/ \E h \in hops : HopFails(h)
         \/ \E o \in Orders : ObjectRestart(o)
  PROVE  ClaimInv'
<1>1. hops' \subseteq hops /\ calls' \subseteq calls /\ UNCHANGED <<claim, file>>
  BY DEF HopFails, ObjectRestart
<1>2. faults' \in 0 .. MaxFaults
  BY BoundsAssumption DEF HopFails, ObjectRestart, ClaimInv, ClaimTypeOK
<1>3. QED
  BY <1>1, <1>2 DEF ClaimInv, ClaimTypeOK, HeldIsClaimed, WonIsClaimed, AnswerFits, OneHop,
                    BegunHeld, IsOpen, ClaimHeld

\* The acts leave the package and the marker of a file as they were.
LEMMA ActHolds ==
  ASSUME ClaimInv, NEW o \in Orders, NEW r \in Riders, Verify(o, r) \/ Begin(o, r)
  PROVE  ClaimInv'
<1> USE NoneAssumption DEF ClaimInv
<1>1. file[o] \in Rows /\ Free(o) /\ UNCHANGED <<claim, hops, calls, faults>>
  BY DEF Verify, Begin, ClaimTypeOK, IsOpen
<1>2. /\ file' = [file EXCEPT ![o] = file'[o]]
      /\ file'[o] \in Rows /\ file'[o].pkg = file[o].pkg /\ file'[o].marker = file[o].marker
  BY <1>1 DEF Verify, Begin, ClaimTypeOK, Rows
<1>3. file'[o].begun = file[o].begun \/ ClaimHeld(o)
  BY <1>1 DEF Verify, Begin, MayBegin, ClaimTypeOK, Rows
<1>4. IsOpen(o)
  BY DEF Verify, Begin
<1>5. \A q \in Orders : q # o => file'[q] = file[q]
  BY <1>2 DEF ClaimTypeOK
<1>6. ClaimTypeOK'
  BY <1>1, <1>2 DEF ClaimTypeOK
<1>7. HeldIsClaimed'
  BY <1>1, <1>2, <1>4, <1>5 DEF HeldIsClaimed, ClaimHeld, IsOpen
<1>8. WonIsClaimed' /\ OneHop'
  BY <1>1 DEF WonIsClaimed, OneHop
<1>9. AnswerFits'
  BY <1>1, <1>5 DEF AnswerFits, ClaimTypeOK, IsOpen, Free
<1>10. BegunHeld'
  <2> SUFFICES ASSUME NEW q \in Orders, IsOpen(q)', file'[q].begun # None PROVE ClaimHeld(q)'
    BY DEF BegunHeld
  <2>1. CASE q # o
    BY <1>5, <2>1 DEF BegunHeld, ClaimHeld, IsOpen
  <2>2. CASE q = o
    <3>1. ClaimHeld(o)
      BY <1>3, <1>4, <2>2 DEF BegunHeld
    <3>2. QED
      BY <1>2, <2>2, <3>1 DEF ClaimHeld, IsOpen
  <2>3. QED
    BY <2>1, <2>2
<1>11. QED
  BY <1>6, <1>7, <1>8, <1>9, <1>10

LEMMA StepHolds == ClaimInv /\ [ClaimNext]_claimVars => ClaimInv'
<1> SUFFICES ASSUME ClaimInv, [ClaimNext]_claimVars PROVE ClaimInv'
  OBVIOUS
<1>1. CASE UNCHANGED claimVars
  BY <1>1 DEF claimVars, ClaimInv, ClaimTypeOK, HeldIsClaimed, WonIsClaimed, AnswerFits, OneHop,
              BegunHeld, IsOpen, ClaimHeld
<1>2. CASE ClaimNext
  BY <1>2, OpenHolds, ClaimHolds, OpenEndsHolds, FaultHolds, ActHolds DEF ClaimNext
<1>3. QED
  BY <1>1, <1>2

\* The invariant of the claims holds in every reachable state.
THEOREM ClaimInvariant == ClaimSpec => []ClaimInv
BY InitHolds, StepHolds, PTL DEF ClaimSpec

\* Every row of both objects keeps its type: a file is never half written.
THEOREM ClaimTypes == ClaimSpec => []ClaimTypeOK
<1>1. ClaimInv => ClaimTypeOK
  BY DEF ClaimInv
<1>2. QED
  BY <1>1, ClaimInvariant, PTL

\* A file that counts itself the holder is the order the claim object names:
\* the marker of one object and the row of the other never disagree, whatever
\* was lost between the two (custody-do.ts winPackageClaim, package-claim-do.ts).
THEOREM HolderIsNamed == ClaimSpec => []HeldIsClaimed
<1>1. ClaimInv => HeldIsClaimed
  BY DEF ClaimInv
<1>2. QED
  BY <1>1, ClaimInvariant, PTL

\* Two files that both began custody of the same package are the same file.
LEMMA NeverTwo ==
  ASSUME ClaimInv, NEW p \in Packages, NEW o \in Carriers(p), NEW q \in Carriers(p)
  PROVE  o = q
BY DEF Carriers, ClaimInv, BegunHeld, HeldIsClaimed

\* No two orders ever take custody of one package (SE-I04 across files).
THEOREM OneFileOnly == ClaimSpec => []OneFileActs
<1>1. ClaimInv => OneFileActs
  BY DEF ClaimInv, BegunHeld, HeldIsClaimed, OneFileActs
<1>2. QED
  BY <1>1, ClaimInvariant, PTL

-----------------------------------------------------------------------------
(* The files implement the abstract owner.                                 *)

\* Only the begin of custody changes who carries what.
LEMMA CarriersStay ==
  ASSUME ClaimInv, [ClaimNext]_claimVars, NEW p \in Packages,
         \A o \in Orders, r \in Riders : ~Begin(o, r)
  PROVE  Carriers(p)' = Carriers(p)
<1> SUFFICES ASSUME NEW o \in Orders
             PROVE  /\ IsOpen(o) /\ file[o].begun # None
                          => IsOpen(o)' /\ file'[o].pkg = file[o].pkg /\ file'[o].begun = file[o].begun
                    /\ IsOpen(o)' /\ file'[o].begun # None
                          => IsOpen(o) /\ file'[o].pkg = file[o].pkg /\ file'[o].begun = file[o].begun
  BY DEF Carriers
<1>1. CASE file'[o] = file[o]
  BY <1>1 DEF IsOpen
<1>2. CASE file'[o] # file[o]
  <2>1. CASE \E h \in hops : OpenEnds(h)
    <3>1. PICK h \in hops : OpenEnds(h)
      BY <2>1
    <3>2. CASE IsOpen(o)
      <4>1. file[o] \in Rows /\ file[o].marker # h.pkg
        BY <1>2, <3>1, <3>2, WrittenRows
           DEF ClaimInv, ClaimTypeOK, IsOpen, OpenEnds, Written, Rows
      <4>2. file[o].begun = None
        BY <1>2, <3>1, <3>2, <4>1, WrittenRows DEF ClaimInv, BegunHeld, ClaimHeld
      <4>3. QED
        BY <1>2, <3>1, <3>2, <4>2, WrittenRows
    <3>3. CASE ~IsOpen(o)
      BY <1>2, <3>1, <3>3, WrittenRows
    <3>4. QED
      BY <3>2, <3>3
  <2>2. CASE \E q \in Orders, r \in Riders : Verify(q, r)
    <3>1. PICK q \in Orders, r \in Riders : Verify(q, r)
      BY <2>2
    <3>2. q = o /\ file[o] \in Rows /\ file[o] # None
      BY <1>2, <3>1 DEF Verify, ClaimInv, ClaimTypeOK, IsOpen
    <3>3. /\ file'[o] \in Rows /\ file'[o].pkg = file[o].pkg /\ file'[o].begun = file[o].begun
          /\ file'[o].marker = file[o].marker
      BY <3>1, <3>2 DEF Verify, ClaimInv, ClaimTypeOK, Rows
    <3>4. QED
      BY <3>2, <3>3, NoneIsNoFile DEF IsOpen
  <2>3. QED
    BY <1>2, <2>1, <2>2 DEF ClaimNext, claimVars, Open, Claim, HopFails, ObjectRestart
<1>3. QED
  BY <1>1, <1>2

Chosen(S) == IF S = {} THEN None ELSE CHOOSE o \in S : TRUE

LEMMA CarrierIsChosen ==
  /\ CarrierOf = [p \in Packages |-> Chosen(Carriers(p))]
  /\ CarrierOf' = [p \in Packages |-> Chosen(Carriers(p)')]
BY Zenon DEF CarrierOf, Chosen

LEMMA OwnerInit == ClaimInit => Owner!Init
<1> SUFFICES ASSUME ClaimInit PROVE CarrierOf = [p \in Packages |-> None]
  BY DEF Owner!Init
<1>1. \A o \in Orders : IsOpen(o) => file[o].begun = None
  BY DEF ClaimInit, IsOpen, Opened
<1>2. \A p \in Packages : Carriers(p) = {}
  BY <1>1 DEF Carriers
<1>3. QED
  BY <1>2 DEF CarrierOf

\* Custody that begins gives its package its first carrier; nothing else
\* changes a carrier.
LEMMA OwnerStep == ClaimInv /\ ClaimInv' /\ [ClaimNext]_claimVars => [Owner!Next]_CarrierOf
<1> SUFFICES ASSUME ClaimInv, ClaimInv', [ClaimNext]_claimVars PROVE [Owner!Next]_CarrierOf
  OBVIOUS
<1>1. CASE \A o \in Orders, r \in Riders : ~Begin(o, r)
  <2>1. \A p \in Packages : Carriers(p)' = Carriers(p)
    BY <1>1, CarriersStay
  <2>2. CarrierOf' = CarrierOf
    BY <2>1, CarrierIsChosen
  <2>3. QED
    BY <2>2
<1>2. ASSUME NEW o \in Orders, NEW r \in Riders, Begin(o, r)
      PROVE  [Owner!Next]_CarrierOf
  <2>1. PICK p \in Packages :
           /\ file[o] \in Rows /\ file[o] # None /\ file[o].pkg = p
           /\ ClaimHeld(o) /\ file[o].begun = None
    BY <1>2 DEF Begin, MayBegin, ClaimInv, ClaimTypeOK, IsOpen, Rows
  <2>2. /\ file' = [file EXCEPT ![o] = file'[o]]
        /\ file'[o] \in Rows /\ file'[o].pkg = p /\ file'[o].begun = r
    BY <1>2, <2>1 DEF Begin, ClaimInv, ClaimTypeOK, Rows
  <2>3. r # None /\ file'[o] # None
    BY <2>2, NoneAssumption, NoneIsNoFile
  <2>4. \A q \in Orders : q # o => file'[q] = file[q]
    BY <2>2 DEF ClaimInv, ClaimTypeOK
  <2>5. o \in Carriers(p)'
    BY <2>2, <2>3 DEF Carriers, IsOpen
  <2>6. Carriers(p) = {}
    BY <2>1 DEF Carriers, ClaimInv, BegunHeld, HeldIsClaimed, ClaimHeld
  <2>7. Carriers(p)' = {o}
    <3>1. ASSUME NEW q \in Carriers(p)', q # o PROVE q \in Carriers(p)
      BY <2>4, <3>1 DEF Carriers, IsOpen
    <3>2. QED
      BY <2>5, <2>6, <3>1
  <2>8. ASSUME NEW x \in Packages, x # p PROVE Carriers(x)' = Carriers(x)
    BY <2>1, <2>2, <2>4, <2>8 DEF Carriers, IsOpen
  <2>9. CarrierOf[p] = None /\ CarrierOf = [x \in Packages |-> CarrierOf[x]]
    BY <2>1, <2>6 DEF CarrierOf
  <2>10. \A x \in Packages : CarrierOf'[x] = IF x = p THEN o ELSE CarrierOf[x]
    <3>1. Chosen({o}) = o
      BY DEF Chosen
    <3>2. QED
      BY <2>7, <2>8, <3>1, CarrierIsChosen
  <2>11. CarrierOf' = [CarrierOf EXCEPT ![p] = o]
    BY <2>9, <2>10, CarrierIsChosen
  <2>12. QED
    BY <2>1, <2>9, <2>11 DEF Owner!Next, Owner!Carry
<1>3. QED
  BY <1>1, <1>2

\* The custody files and the claim objects together implement the abstract
\* owner: the first file to begin custody of a package, and no other, ever.
THEOREM FilesImplementOwner == ClaimSpec => OneOwner
BY OwnerInit, OwnerStep, ClaimInvariant, PTL DEF ClaimSpec, OneOwner, Owner!Spec

-----------------------------------------------------------------------------
(***************************************************************************)
(* The house of a rider, proved for any orders, settings and bounds.       *)
(*                                                                         *)
(* An authorisation ends one shift because its command is used up on the   *)
(* way: minted past every other (LogPast), in no row and no ended shift    *)
(* while its card is on the desk (CardUnused), and put away as it is taken *)
(* where the desk hears so.  A shift ends on no guess because what the     *)
(* rider holds is always accounted for (Accounted): by the facts, by a     *)
(* course he is doing, or by the question of the sweep that took his       *)
(* course away; and so is it in what a restart reads back                  *)
(* (AccountedOnDisk).  The end of a shift then asks for all he holds       *)
(* (AskedAll), and no answer on its way denies what he holds               *)
(* (ReadingsTrue).                                                         *)
(***************************************************************************)

\* A row that stands has a command, and only commands minted are used.
RowIsFresh  == row.ack <= desk.ack /\ (row.ack = 0 => row = NoRow)
\* A card on the desk has its command.
CardMinted  == desk.card # "closed" => desk.ack > 0
\* An authorisation on its way is the card's.
SentWaits   == Busy("authorise") => desk.card = "sent"

HouseTyped  == TypeOK /\ RowIsFresh /\ CardMinted /\ SentWaits

\* A world's bounds are naturals.
LEMMA WorldTyped ==
  ASSUME NEW w \in Worlds
  PROVE  /\ w.shifts \in Nat /\ w.cards \in Nat /\ w.outages \in Nat /\ w.restarts \in Nat
         /\ \A c \in DOMAIN w.carries : w.carries[c] \subseteq Order
<1>1. UNION {w.carries[c] : c \in DOMAIN w.carries} \subseteq Order
  BY WorldsAssumption
<1>2. {w.shifts, w.cards, w.outages, w.restarts} \subseteq Nat
  BY WorldsAssumption
<1>. QED BY <1>1, <1>2

\* The house holds its types at the start.
LEMMA InitTyped == Init => HouseTyped
<1> SUFFICES ASSUME Init PROVE HouseTyped
  OBVIOUS
<1> USE DEF Init
<1>1. world \in Worlds
  OBVIOUS
<1>2. /\ world.shifts \in Nat /\ world.cards \in Nat /\ world.outages \in Nat
      /\ world.restarts \in Nat
  BY <1>1, WorldTyped
<1>3. /\ custody \in [Order -> {"supplier", "rider", "elsewhere"}]
      /\ course \in [Course -> {"waiting", "closed", "gone"} \cup Given]
      /\ facts \in [Order -> {"unread", "rider", "away"}]
      /\ kept \in [Order -> {"unread", "rider", "away"}]
  BY DEF Course, Given
<1>4. roster \in Rider
  <2>1. world.ready \in BOOLEAN
    BY <1>1, WorldsAssumption
  <2>. QED BY <2>1 DEF Rider
<1>5. requests \in [Request -> [Order -> Reading]]
  BY DEF Idle, Reading
<1>6. /\ row \in [ack : 0..world.cards, packages : SUBSET Order]
      /\ desk \in [ack : 0..world.cards, card : {"closed", "open", "sent"}]
  <2>1. 0 \in 0..world.cards
    BY <1>2
  <2>. QED BY <2>1 DEF NoRow
<1>7. log \in Seq([ack : 1..world.cards, packages : SUBSET Order])
  OBVIOUS
<1>8. session \in [shift : {"off", "on"}, course : SUBSET Course]
  OBVIOUS
<1>9. starts \in 0..world.shifts /\ outages \in 0..world.outages /\ restarts \in 0..world.restarts
  BY <1>2
<1>10. RowIsFresh /\ CardMinted /\ SentWaits
  BY DEF RowIsFresh, CardMinted, SentWaits, Busy, NoRow, Request
<1>. QED BY <1>1, <1>3, <1>4, <1>5, <1>6, <1>7, <1>8, <1>9, <1>10 DEF HouseTyped, TypeOK

\* What a phone and a store may hold after any step of the house.
TypedRest ==
    /\ session' \in [shift : {"off", "on"}, course : SUBSET Course]
    /\ outages' \in 0..world.outages

\* The house's bounds.
LEMMA Bounds ==
  ASSUME TypeOK
  PROVE  /\ world.shifts \in Nat /\ world.cards \in Nat /\ world.outages \in Nat
         /\ world.restarts \in Nat
         /\ \A c \in Course : world.carries[c] \subseteq Order
BY WorldTyped DEF TypeOK, Course

\* What reaches the phone is typed, and an answer lost is an outage spent.
LEMMA ToldTyped ==
  ASSUME TypeOK, NEW view \in [shift : {"off", "on"}, course : SUBSET Course], Told(view)
  PROVE  TypedRest
<1>1. session \in [shift : {"off", "on"}, course : SUBSET Course] /\ outages \in 0..world.outages
  BY DEF TypeOK
<1>2. world.outages \in Nat
  BY Bounds
<1>3. outages' \in 0..world.outages
  BY <1>1, <1>2 DEF Told
<1>. QED BY <1>1, <1>3 DEF Told, TypedRest

\* A pruned row is the row or none.
LEMMA PruneTyped ==
  ASSUME HouseTyped, Prune
  PROVE  /\ row' \in {row, NoRow}
         /\ row' \in [ack : 0..world.cards, packages : SUBSET Order]
<1>1. row' \in {row, NoRow}
  BY DEF Prune
<1>2. 0 \in 0..world.cards
  BY Bounds DEF HouseTyped
<1>. QED BY <1>1, <1>2 DEF HouseTyped, TypeOK, NoRow

\* A request is asked, heard or put away: it stays a reading of each order.
LEMMA AskTyped ==
  ASSUME TypeOK, NEW r \in Request, NEW os, Ask(r, os)
  PROVE  requests' \in [Request -> [Order -> Reading]]
<1>1. [o \in Order |-> IF o \in os THEN "asked" ELSE "none"] \in [Order -> Reading]
  BY DEF Reading
<1>. QED BY <1>1 DEF TypeOK, Ask

LEMMA SetTyped ==
  ASSUME TypeOK, NEW r \in Request, NEW o \in Order, NEW reading \in Reading, Set(r, o, reading)
  PROVE  requests' \in [Request -> [Order -> Reading]]
BY DEF TypeOK, Set

LEMMA DoneTyped ==
  ASSUME TypeOK, NEW r \in Request, Done(r)
  PROVE  requests' \in [Request -> [Order -> Reading]]
<1>1. Idle \in [Order -> Reading]
  BY DEF Idle, Reading
<1>. QED BY <1>1 DEF TypeOK, Done

\* A request put away leaves the others as they were.
LEMMA DoneBusy ==
  ASSUME TypeOK, NEW r \in Request, Done(r)
  PROVE  /\ requests'[r] = Idle
         /\ \A q \in Request : q # r => requests'[q] = requests[q]
BY DEF TypeOK, Done

\* A request asked leaves the others as they were.
LEMMA AskBusy ==
  ASSUME TypeOK, NEW r \in Request, NEW os, Ask(r, os)
  PROVE  /\ requests'[r] = [o \in Order |-> IF o \in os THEN "asked" ELSE "none"]
         /\ \A q \in Request : q # r => requests'[q] = requests[q]
BY DEF TypeOK, Ask

\* A reading set where one stood leaves every request busy or idle as it was.
LEMMA SetBusy ==
  ASSUME TypeOK, NEW r \in Request, NEW o \in Order, NEW reading \in Reading,
         Set(r, o, reading), requests[r][o] # "none", reading # "none"
  PROVE  /\ \A q \in Request : Busy(q) = Busy(q)'
         /\ requests'[r][o] = reading
         /\ \A q \in Request, p \in Order :
               q # r \/ p # o => requests'[q][p] = requests[q][p]
<1>1. requests' = [requests EXCEPT ![r][o] = reading]
  BY DEF Set
<1>2. requests \in [Request -> [Order -> Reading]]
  BY DEF TypeOK
<1>3. requests'[r][o] = reading
  BY <1>1, <1>2
<1>4. \A q \in Request, p \in Order : q # r \/ p # o => requests'[q][p] = requests[q][p]
  BY <1>1, <1>2
<1>5. \A q \in Request : q # r => requests'[q] = requests[q]
  BY <1>1, <1>2
<1>6. Busy(r) /\ Busy(r)'
  BY <1>3 DEF Busy, Idle
<1>7. \A q \in Request : Busy(q) = Busy(q)'
  <2> SUFFICES ASSUME NEW q \in Request PROVE Busy(q) = Busy(q)'
    OBVIOUS
  <2>1. CASE q = r
    BY <2>1, <1>6 DEF Busy
  <2>2. CASE q # r
    BY <2>2, <1>5 DEF Busy
  <2>. QED BY <2>1, <2>2
<1>. QED BY <1>3, <1>4, <1>7

-----------------------------------------------------------------------------
(* Every action keeps the types.                                           *)

\* The readings' steps: asked, heard, silent.
LEMMA ReadingTyped ==
  ASSUME HouseTyped, NEW r \in Request, NEW o \in Order,
         Answer(r, o) \/ Silence(r, o) \/ readCustodian(r, o)
  PROVE  HouseTyped'
<1> USE DEF HouseTyped
<1>1. PICK reading \in Reading \ {"none", "asked"} : Set(r, o, reading) /\ requests[r][o] # "none"
  BY DEF Answer, Silence, readCustodian, Reading
<1>2. requests' \in [Request -> [Order -> Reading]]
  BY <1>1, SetTyped
<1>3. \A q \in Request : Busy(q) = Busy(q)'
  BY <1>1, SetBusy
<1>4. facts' \in [Order -> {"unread", "rider", "away"}]
  BY DEF TypeOK, Answer, Silence, readCustodian
<1>5. outages' \in 0..world.outages
  <2>1. outages \in 0..world.outages /\ world.outages \in Nat
    BY Bounds DEF TypeOK
  <2>. QED BY <2>1 DEF Answer, Silence, readCustodian, limits
<1>6. UNCHANGED <<world, custody, course, kept, houseVars, session, desk, starts, restarts>>
  BY DEF Answer, Silence, readCustodian, limits
<1>7. TypeOK'
  BY <1>2, <1>4, <1>5, <1>6 DEF TypeOK, houseVars, Course
<1>8. RowIsFresh' /\ CardMinted' /\ SentWaits'
  BY <1>3, <1>6 DEF RowIsFresh, CardMinted, SentWaits, houseVars, Request
<1>. QED BY <1>7, <1>8

\* The rider's session is read.
LEMMA MoiTyped ==
  ASSUME HouseTyped, BeginMoi \/ FinishMoi
  PROVE  HouseTyped'
<1> USE DEF HouseTyped
<1>1. riderView \in [shift : {"off", "on"}, course : SUBSET Course]
  BY DEF riderView, TypeOK
<1>2. course' \in [Course -> {"waiting", "closed", "gone"} \cup Given]
  <2>1. CASE FinishMoi
    BY <2>1 DEF FinishMoi, TypeOK
  <2>2. CASE BeginMoi
    <3>1. PICK due \in SUBSET {c \in Course : course[c] = "assigned"} :
            course' = [c \in Course |-> IF c \in due THEN "waiting" ELSE course[c]]
      BY <2>2 DEF BeginMoi
    <3>2. \A c \in Course : course[c] \in {"waiting", "closed", "gone"} \cup Given
      BY DEF TypeOK
    <3>. QED BY <3>1, <3>2
  <2>. QED BY <2>1, <2>2
<1>3. /\ UNCHANGED <<world, custody, facts, roster, shift, clock, log, desk, starts, restarts>>
      /\ kept' \in {kept, facts}
  BY DEF BeginMoi, FinishMoi
<1>4. \/ Prune /\ Told(riderView) /\ (UNCHANGED requests \/ Done("moi"))
      \/ (\E os : Ask("moi", os)) /\ UNCHANGED <<row, session, outages>>
  BY DEF BeginMoi, FinishMoi
<1>5. TypedRest
  BY <1>1, <1>4, ToldTyped DEF TypedRest, TypeOK
<1>6. /\ row' \in {row, NoRow}
      /\ row' \in [ack : 0..world.cards, packages : SUBSET Order]
  BY <1>4, PruneTyped DEF TypeOK
<1>7. /\ requests' \in [Request -> [Order -> Reading]]
      /\ requests'["authorise"] = requests["authorise"]
  <2>1. "moi" \in Request /\ "authorise" \in Request
    BY DEF Request
  <2>2. CASE UNCHANGED requests
    BY <2>2 DEF TypeOK
  <2>3. CASE Done("moi")
    BY <2>1, <2>3, DoneTyped, DoneBusy
  <2>4. CASE \E os : Ask("moi", os)
    BY <2>1, <2>4, AskTyped, AskBusy
  <2>. QED BY <1>4, <2>2, <2>3, <2>4
<1>8. TypeOK'
  BY <1>2, <1>3, <1>5, <1>6, <1>7 DEF TypeOK, TypedRest, Course
<1>9. RowIsFresh' /\ CardMinted' /\ SentWaits'
  <2>1. desk.ack \in Nat
    BY Bounds DEF TypeOK
  <2>. QED BY <2>1, <1>3, <1>6, <1>7 DEF RowIsFresh, CardMinted, SentWaits, NoRow, Busy
<1>. QED BY <1>8, <1>9

\* A tap on the end of the shift: custody is asked, the shift ends, or it stays.
LEMMA EndOutcome ==
  ASSUME NEW r \in {"end", "again"}, BeginEnd(r) \/ FinishEnd(r)
  PROVE  /\ UNCHANGED <<world, custody, course, facts, roster, desk, starts, restarts>>
         /\ kept' \in {kept, facts}
         /\ \/ Ask(r, manifestCourses) /\ UNCHANGED <<shift, clock, row, log, session, outages>>
            \/ /\ UNCHANGED requests \/ Done(r)
               /\ \/ endShift /\ Told([session EXCEPT !.shift = "off"])
                  \/ UNCHANGED <<shift, clock, row, log, session, outages>>
BY DEF BeginEnd, FinishEnd, ShiftEnd, houseVars, limits

\* What covers has a command, and packages.
LEMMA CoverTyped ==
  ASSUME HouseTyped, finDeServiceCouvre
  PROVE  row \in [ack : 1..world.cards, packages : SUBSET Order]
<1>1. row.ack # 0
  BY DEF HouseTyped, RowIsFresh, finDeServiceCouvre
<1>2. row.ack \in 1..world.cards
  BY <1>1, Bounds DEF HouseTyped, TypeOK
<1>. QED BY <1>2 DEF HouseTyped, TypeOK

LEMMA EndTyped ==
  ASSUME HouseTyped, NEW r \in {"end", "again"}, BeginEnd(r) \/ FinishEnd(r)
  PROVE  HouseTyped'
<1> USE DEF HouseTyped
<1>1. /\ UNCHANGED <<world, custody, course, facts, roster, desk, starts, restarts>>
      /\ kept' \in {kept, facts}
      /\ \/ Ask(r, manifestCourses) /\ UNCHANGED <<shift, clock, row, log, session, outages>>
         \/ /\ UNCHANGED requests \/ Done(r)
            /\ \/ endShift /\ Told([session EXCEPT !.shift = "off"])
               \/ UNCHANGED <<shift, clock, row, log, session, outages>>
  BY EndOutcome
<1>2. /\ requests' \in [Request -> [Order -> Reading]]
      /\ requests'["authorise"] = requests["authorise"]
  <2>1. r \in Request /\ "authorise" \in Request /\ r # "authorise"
    BY DEF Request
  <2>2. CASE UNCHANGED requests
    BY <2>2 DEF TypeOK
  <2>3. CASE Done(r)
    BY <2>1, <2>3, DoneTyped, DoneBusy
  <2>4. CASE Ask(r, manifestCourses)
    BY <2>1, <2>4, AskTyped, AskBusy
  <2>. QED BY <1>1, <2>2, <2>3, <2>4
<1>3. TypedRest
  <2>1. [session EXCEPT !.shift = "off"] \in [shift : {"off", "on"}, course : SUBSET Course]
    BY DEF TypeOK
  <2>. QED BY <1>1, <2>1, ToldTyped DEF TypedRest, TypeOK
<1>4. /\ shift' \in {"off", "on"} /\ clock' \in {"closed", "open"}
      /\ row' \in {row, NoRow}
  BY <1>1 DEF endShift, TypeOK
<1>5. row' \in [ack : 0..world.cards, packages : SUBSET Order]
  <2>1. 0 \in 0..world.cards
    BY Bounds
  <2>. QED BY <2>1, <1>4 DEF TypeOK, NoRow
<1>6. log' \in Seq([ack : 1..world.cards, packages : SUBSET Order])
  <2>1. log' = log \/ (finDeServiceCouvre /\ log' = Append(log, row))
    BY <1>1 DEF endShift
  <2>2. log \in Seq([ack : 1..world.cards, packages : SUBSET Order])
    BY DEF TypeOK
  <2>3. CASE finDeServiceCouvre /\ log' = Append(log, row)
    BY <2>2, <2>3, CoverTyped
  <2>. QED BY <2>1, <2>2, <2>3
<1>7. TypeOK'
  BY <1>1, <1>2, <1>3, <1>4, <1>5, <1>6 DEF TypeOK, TypedRest, Course
<1>8. RowIsFresh' /\ CardMinted' /\ SentWaits'
  <2>1. desk.ack \in Nat
    BY Bounds DEF TypeOK
  <2>. QED BY <2>1, <1>1, <1>2, <1>4 DEF RowIsFresh, CardMinted, SentWaits, NoRow, Busy
<1>. QED BY <1>7, <1>8

LEMMA StartTyped ==
  ASSUME HouseTyped, StartShift
  PROVE  HouseTyped'
<1> USE DEF HouseTyped
<1>1. /\ UNCHANGED <<world, custody, course, facts, roster, row, log, desk, requests, restarts>>
      /\ shift' = "on" /\ clock' = "open" /\ starts' = starts + 1 /\ kept' = facts
      /\ starts < world.shifts
      /\ Told([session EXCEPT !.shift = "on"])
  BY DEF StartShift, startShift
<1>2. TypedRest
  <2>1. [session EXCEPT !.shift = "on"] \in [shift : {"off", "on"}, course : SUBSET Course]
    BY DEF TypeOK
  <2>. QED BY <1>1, <2>1, ToldTyped
<1>3. starts' \in 0..world.shifts
  BY <1>1, Bounds DEF TypeOK
<1>4. TypeOK'
  BY <1>1, <1>2, <1>3 DEF TypeOK, TypedRest, Course
<1>. QED BY <1>1, <1>4 DEF RowIsFresh, CardMinted, SentWaits, Busy

\* The desk's card.
LEMMA CardTyped ==
  ASSUME HouseTyped, OpenCard \/ PutCardAway
  PROVE  HouseTyped'
<1> USE DEF HouseTyped
<1>1. UNCHANGED <<world, custody, course, facts, kept, houseVars, session, requests, limits>>
  BY DEF OpenCard, PutCardAway
<1>2. desk.ack \in 0..world.cards /\ world.cards \in Nat
      /\ desk = [ack |-> desk.ack, card |-> desk.card] /\ row.ack \in Nat
  BY Bounds DEF TypeOK
<1>3. \/ desk.card = "closed" /\ desk.ack < world.cards
         /\ desk' = [ack |-> desk.ack + 1, card |-> "open"]
      \/ desk.card = "open" /\ desk' = [ack |-> desk.ack, card |-> "closed"]
  BY <1>2 DEF OpenCard, PutCardAway
<1>4. /\ desk' \in [ack : 0..world.cards, card : {"closed", "open", "sent"}]
      /\ desk'.ack \in Nat /\ desk'.ack >= desk.ack
      /\ desk'.card # "closed" => desk'.ack > 0
  <2>1. desk'.ack \in 0..world.cards /\ desk'.ack >= desk.ack
    BY <1>2, <1>3
  <2>. QED BY <2>1, <1>2, <1>3
<1>5. TypeOK'
  BY <1>1, <1>4 DEF TypeOK, houseVars, limits, Course
<1>6. RowIsFresh' /\ CardMinted'
  BY <1>1, <1>2, <1>4 DEF RowIsFresh, CardMinted, houseVars
<1>7. SentWaits'
  BY <1>1, <1>3 DEF SentWaits, Busy
<1>. QED BY <1>5, <1>6, <1>7

\* The authorisation is asked for.
LEMMA BeginAuthoriseTyped ==
  ASSUME HouseTyped, BeginAuthorise
  PROVE  HouseTyped'
<1> USE DEF HouseTyped
<1>1. /\ UNCHANGED <<world, custody, course, facts, kept, houseVars, session, limits>>
      /\ desk.card = "open" /\ ~Busy("authorise")
  BY DEF BeginAuthorise, CanAsk
<1>2. \/ desk' = [desk EXCEPT !.card = "closed"] /\ UNCHANGED requests
      \/ Ask("authorise", manifestCourses) /\ desk' = [desk EXCEPT !.card = "sent"]
  BY DEF BeginAuthorise
<1>3. /\ desk'.ack = desk.ack
      /\ desk' \in [ack : 0..world.cards, card : {"closed", "open", "sent"}]
      /\ desk'.card \in {"closed", "sent"}
  BY <1>2 DEF TypeOK
<1>4. requests' \in [Request -> [Order -> Reading]]
  BY <1>2, AskTyped DEF TypeOK, Request
<1>5. TypeOK'
  BY <1>1, <1>3, <1>4 DEF TypeOK, houseVars, limits, Course
<1>6. RowIsFresh' /\ CardMinted'
  BY <1>1, <1>3 DEF RowIsFresh, CardMinted, houseVars
<1>7. SentWaits'
  <2>1. CASE UNCHANGED requests
    BY <2>1, <1>1 DEF SentWaits, Busy
  <2>2. CASE desk' = [desk EXCEPT !.card = "sent"]
    BY <2>2 DEF SentWaits, TypeOK
  <2>. QED BY <1>2, <2>1, <2>2
<1>. QED BY <1>5, <1>6, <1>7

LEMMA FinishAuthoriseTyped ==
  ASSUME HouseTyped, FinishAuthorise
  PROVE  HouseTyped'
<1> USE DEF HouseTyped
<1>1. /\ UNCHANGED <<world, custody, course, facts, roster, shift, clock, log, session, limits>>
      /\ kept' = facts /\ Done("authorise") /\ desk.card = "sent"
  BY DEF FinishAuthorise, Ready, SentWaits
<1>2. /\ row' = row \/ row' = [ack |-> desk.ack, packages |-> Held]
      /\ \E s \in {"closed", "open"} : desk' = [desk EXCEPT !.card = s]
  BY DEF FinishAuthorise
<1>3. /\ desk'.ack = desk.ack
      /\ desk' \in [ack : 0..world.cards, card : {"closed", "open", "sent"}]
  BY <1>2 DEF TypeOK
<1>4. desk.ack \in Nat /\ desk.ack > 0
  BY <1>1, Bounds DEF CardMinted, TypeOK
<1>5. Held \subseteq Order
  <2>1. \A c \in Course : world.carries[c] \subseteq Order
    BY Bounds
  <2>. QED BY <2>1 DEF Held, manifestCourses, manifestOf
<1>6. row' \in [ack : 0..world.cards, packages : SUBSET Order]
  BY <1>2, <1>5 DEF TypeOK
<1>7. requests' \in [Request -> [Order -> Reading]] /\ requests'["authorise"] = Idle
  BY <1>1, DoneTyped, DoneBusy DEF Request
<1>8. TypeOK'
  BY <1>1, <1>3, <1>6, <1>7 DEF TypeOK, limits, Course
<1>9. RowIsFresh' /\ CardMinted' /\ SentWaits'
  BY <1>2, <1>3, <1>4, <1>7 DEF RowIsFresh, CardMinted, SentWaits, Busy
<1>. QED BY <1>8, <1>9

\* What leaves the permission alone leaves its invariants alone.
LEMMA PermissionKept ==
  ASSUME RowIsFresh, CardMinted, SentWaits, UNCHANGED <<row, desk>>,
         Busy("authorise")' => Busy("authorise")
  PROVE  RowIsFresh' /\ CardMinted' /\ SentWaits'
BY DEF RowIsFresh, CardMinted, SentWaits

\* The courses, and their sweep.
LEMMA CourseTyped ==
  ASSUME HouseTyped, NEW c \in Course, Assign(c) \/ AnswerCourse(c) \/ CourseDone(c) \/ Sweep(c)
  PROVE  HouseTyped'
<1> USE DEF HouseTyped
<1>1. /\ UNCHANGED <<world, custody, facts, houseVars, session, desk, limits>>
      /\ kept' \in {kept, facts}
      /\ \E s \in {"waiting", "closed", "gone"} \cup Given : course' = [course EXCEPT ![c] = s]
      /\ UNCHANGED requests \/ Ask("sweep", world.carries[c])
  BY DEF Assign, AnswerCourse, CourseDone, Sweep, Given
<1>2. course' \in [Course -> {"waiting", "closed", "gone"} \cup Given]
  BY <1>1 DEF TypeOK
<1>3. /\ requests' \in [Request -> [Order -> Reading]]
      /\ requests'["authorise"] = requests["authorise"]
  <2>1. "sweep" \in Request /\ "authorise" \in Request
    BY DEF Request
  <2>2. CASE UNCHANGED requests
    BY <2>2 DEF TypeOK
  <2>3. CASE Ask("sweep", world.carries[c])
    BY <2>1, <2>3, AskTyped, AskBusy
  <2>. QED BY <1>1, <2>2, <2>3
<1>4. TypeOK'
  BY <1>1, <1>2, <1>3 DEF TypeOK, houseVars, limits, Course
<1>. QED BY <1>1, <1>3, <1>4, PermissionKept DEF houseVars, Busy

LEMMA FinishSweepTyped ==
  ASSUME HouseTyped, FinishSweep
  PROVE  HouseTyped'
<1> USE DEF HouseTyped
<1>1. /\ UNCHANGED <<world, custody, course, facts, houseVars, session, desk, limits>>
      /\ kept' = facts /\ Done("sweep")
  BY DEF FinishSweep
<1>2. /\ requests' \in [Request -> [Order -> Reading]]
      /\ requests'["authorise"] = requests["authorise"]
  BY <1>1, DoneTyped, DoneBusy DEF Request
<1>3. TypeOK'
  BY <1>1, <1>2 DEF TypeOK, houseVars, limits, Course
<1>. QED BY <1>1, <1>2, <1>3, PermissionKept DEF houseVars, Busy

\* The founder's acts, and the rider's reading of the privacy notice.
FounderActs == Register \/ Certify \/ MintCode \/ RevokeCode \/ RemoveRider \/ AckPrivacy

LEMMA FounderOutcome ==
  ASSUME FounderActs
  PROVE  /\ UNCHANGED <<world, custody, course, facts, row, log, session, desk, requests, limits>>
         /\ kept' = facts /\ UNCHANGED clock
         /\ shift' = shift \/ (shift' = "off" /\ ~roster'.in)
<1>1. CASE RemoveRider
  BY <1>1 DEF RemoveRider, Founder
<1>2. CASE AckPrivacy
  BY <1>2 DEF AckPrivacy
<1>. QED BY <1>1, <1>2 DEF FounderActs, Register, Certify, MintCode, RevokeCode, Founder

LEMMA FounderTyped ==
  ASSUME HouseTyped, FounderActs
  PROVE  HouseTyped'
<1> USE DEF HouseTyped
<1>1. /\ UNCHANGED <<world, custody, course, facts, row, log, session, desk, requests, limits>>
      /\ kept' = facts /\ UNCHANGED clock /\ shift' \in {shift, "off"}
  BY FounderOutcome
<1>2. roster' \in Rider
  <2>1. roster \in Rider
    BY DEF TypeOK
  <2>2. CASE Certify
    <3>1. roster' = [roster EXCEPT !.certified = ~roster.certified]
      BY <2>2 DEF Certify
    <3>2. \E b \in BOOLEAN : roster' = [roster EXCEPT !.certified = b]
      <4>1. (~roster.certified) \in BOOLEAN
        BY Zenon
      <4>. QED BY <3>1, <4>1, Zenon
    <3>. QED BY <2>1, <3>2 DEF Rider
  <2>3. CASE Register \/ MintCode \/ RevokeCode \/ AckPrivacy
    BY <2>1, <2>3 DEF Register, MintCode, RevokeCode, AckPrivacy, Rider
  <2>4. CASE RemoveRider
    BY <2>4 DEF RemoveRider, Rider
  <2>. QED BY <2>2, <2>3, <2>4 DEF FounderActs
<1>3. TypeOK'
  BY <1>1, <1>2 DEF TypeOK, limits, Course
<1>. QED BY <1>1, <1>3, PermissionKept DEF Busy

\* A package on the road, and a restart of the object.
LEMMA RoadTyped ==
  ASSUME HouseTyped, NEW o \in Order, Seal(o) \/ Leave(o)
  PROVE  HouseTyped'
<1> USE DEF HouseTyped
<1>1. /\ UNCHANGED <<world, course, facts, kept, houseVars, session, desk, requests, limits>>
      /\ \E place \in {"rider", "elsewhere"} : custody' = [custody EXCEPT ![o] = place]
  BY DEF Seal, Leave
<1>2. TypeOK'
  BY <1>1 DEF TypeOK, houseVars, limits, Course
<1>. QED BY <1>1, <1>2, PermissionKept DEF houseVars, Busy

LEMMA RestartTyped ==
  ASSUME HouseTyped, Restart
  PROVE  HouseTyped'
<1> USE DEF HouseTyped
<1>1. /\ UNCHANGED <<world, custody, course, kept, houseVars, starts, session, outages>>
      /\ restarts > 0 /\ restarts' = restarts - 1 /\ facts' = kept
      /\ requests' = [r \in Request |-> Idle]
      /\ desk' = [desk EXCEPT !.card = IF @ = "sent" THEN "open" ELSE @]
  BY DEF Restart
<1>2. restarts' \in 0..world.restarts
  BY <1>1, Bounds DEF TypeOK
<1>3. requests' \in [Request -> [Order -> Reading]] /\ ~Busy("authorise")'
  BY <1>1 DEF Idle, Reading, Busy, Request
<1>4. /\ desk' \in [ack : 0..world.cards, card : {"closed", "open", "sent"}]
      /\ desk'.ack = desk.ack /\ (desk'.card # "closed" => desk.card # "closed")
  BY <1>1 DEF TypeOK
<1>5. TypeOK'
  BY <1>1, <1>2, <1>3, <1>4 DEF TypeOK, houseVars, Course
<1>6. RowIsFresh' /\ CardMinted' /\ SentWaits'
  BY <1>1, <1>3, <1>4 DEF RowIsFresh, CardMinted, SentWaits, houseVars
<1>. QED BY <1>5, <1>6

LEMMA StutterTyped ==
  ASSUME HouseTyped, UNCHANGED vars
  PROVE  HouseTyped'
<1>1. TypeOK'
  BY DEF HouseTyped, TypeOK, vars, houseVars, limits, Course
<1>. QED BY <1>1, PermissionKept DEF HouseTyped, vars, houseVars, Busy

\* One step of the house, by what is done in it.
LEMMA StepCases ==
  ASSUME Next
  PROVE  \/ \E r \in Request, o \in Order : Answer(r, o) \/ Silence(r, o) \/ readCustodian(r, o)
         \/ BeginMoi \/ FinishMoi
         \/ \E r \in {"end", "again"} : BeginEnd(r) \/ FinishEnd(r)
         \/ StartShift
         \/ OpenCard \/ PutCardAway
         \/ BeginAuthorise
         \/ FinishAuthorise
         \/ \E c \in Course : Assign(c) \/ AnswerCourse(c) \/ CourseDone(c) \/ Sweep(c)
         \/ FinishSweep
         \/ FounderActs
         \/ \E o \in Order : Seal(o) \/ Leave(o)
         \/ Restart
BY DEF Next, FounderActs

LEMMA StepTyped == HouseTyped /\ [Next]_vars => HouseTyped'
<1> SUFFICES ASSUME HouseTyped, Next PROVE HouseTyped'
  BY StutterTyped
<1>. QED BY StepCases, ReadingTyped, MoiTyped, EndTyped, StartTyped, CardTyped,
            BeginAuthoriseTyped, FinishAuthoriseTyped, CourseTyped, FinishSweepTyped,
            FounderTyped, RoadTyped, RestartTyped

\* The house's state is always of its types, in every setting.
THEOREM HouseIsTyped == Spec => []TypeOK
<1>1. HouseTyped => TypeOK
  BY DEF HouseTyped
<1>. QED BY <1>1, InitTyped, StepTyped, PTL DEF Spec

-----------------------------------------------------------------------------
(* An authorisation ends one shift.                                        *)

\* No shift ended under a command not minted yet, nor under the row's.
LogPast == \A i \in DOMAIN log : log[i].ack <= desk.ack /\ log[i].ack # row.ack
\* The command of a card on the desk stands in no row and ended no shift.
CardUnused ==
    desk.card # "closed" =>
        row.ack # desk.ack /\ \A i \in DOMAIN log : log[i].ack # desk.ack

Permits == ~world.lossy /\ AuthorisedOnce /\ LogPast /\ CardUnused

\* What stands in a sequence is of its kind.
LEMMA EntryTyped ==
  ASSUME NEW S, NEW s \in Seq(S)
  PROVE  \A i \in DOMAIN s : s[i] \in S
OBVIOUS

LEMMA LogTyped ==
  ASSUME TypeOK
  PROVE  /\ \A i \in DOMAIN log : log[i].ack \in Nat /\ log[i].ack > 0
         /\ row.ack \in Nat /\ desk.ack \in Nat
<1>1. world.cards \in Nat
  BY Bounds
<1>2. log \in Seq([ack : 1..world.cards, packages : SUBSET Order])
  BY DEF TypeOK
<1>3. \A i \in DOMAIN log : log[i] \in [ack : 1..world.cards, packages : SUBSET Order]
  BY <1>2, EntryTyped
<1>4. \A i \in DOMAIN log : log[i].ack \in 1..world.cards
  BY <1>3
<1>. QED BY <1>1, <1>4 DEF TypeOK

LEMMA InitPermits == Init /\ ~world.lossy => Permits
BY DEF Init, Permits, AuthorisedOnce, LogPast, CardUnused

\* The desk and the log stand; the row stands or is dropped.
LEMMA PermitsCalm ==
  ASSUME HouseTyped, Permits, UNCHANGED <<world, desk, log>>, row' \in {row, NoRow}
  PROVE  Permits'
<1>1. /\ \A i \in DOMAIN log : log[i].ack \in Nat /\ log[i].ack > 0
      /\ row.ack \in Nat /\ desk.ack \in Nat
  BY LogTyped DEF HouseTyped
<1>2. NoRow.ack = 0
  BY DEF NoRow
<1>. QED BY <1>1, <1>2 DEF Permits, AuthorisedOnce, LogPast, CardUnused, HouseTyped, CardMinted

\* A shift that ends uses its authorisation up.
LEMMA PermitsEnd ==
  ASSUME HouseTyped, Permits, UNCHANGED <<world, desk>>, endShift
  PROVE  Permits'
<1> DEFINE Entry == [ack : 1..world.cards, packages : SUBSET Order]
<1>1. /\ \A i \in DOMAIN log : log[i].ack \in Nat /\ log[i].ack > 0
      /\ row.ack \in Nat /\ desk.ack \in Nat
  BY LogTyped DEF HouseTyped
<1>2. row' = NoRow /\ NoRow.ack = 0
  BY DEF endShift, NoRow
<1>3. CASE Held = {}
  <2>1. log' = log
    BY <1>3 DEF endShift
  <2>. QED BY <1>2, <2>1, PermitsCalm
<1>4. CASE Held # {}
  <2>1. finDeServiceCouvre /\ log' = Append(log, row)
    BY <1>4 DEF endShift
  <2>2. row \in Entry
    BY <2>1, CoverTyped
  <2>3. log \in Seq(Entry)
    BY DEF HouseTyped, TypeOK
  <2>4. /\ Len(log) \in Nat /\ DOMAIN log = 1..Len(log)
        /\ DOMAIN log' = 1..(Len(log) + 1)
        /\ \A i \in 1..Len(log) : log'[i] = log[i]
        /\ log'[Len(log) + 1] = row
    BY <2>1, <2>2, <2>3
  <2>5. \A i \in DOMAIN log' : i \in DOMAIN log \/ (i = Len(log) + 1 /\ log'[i] = row)
    BY <2>4
  <2>6. row.ack > 0
    <3>1. row.ack # 0
      BY <2>1 DEF HouseTyped, RowIsFresh, finDeServiceCouvre
    <3>. QED BY <1>1, <3>1
  <2>7. AuthorisedOnce'
    BY <2>4, <2>5 DEF Permits, AuthorisedOnce, LogPast
  <2>8. \A i \in DOMAIN log' : log'[i].ack <= desk.ack /\ log'[i].ack > 0
    BY <1>1, <2>4, <2>5, <2>6 DEF Permits, LogPast, HouseTyped, RowIsFresh
  <2>9. LogPast'
    BY <1>1, <1>2, <2>4, <2>5, <2>6, <2>8 DEF LogPast
  <2>10. CardUnused'
    BY <1>1, <1>2, <2>4, <2>5 DEF Permits, CardUnused, HouseTyped, CardMinted
  <2>. QED BY <2>7, <2>9, <2>10 DEF Permits
<1>. QED BY <1>3, <1>4

\* The card: a new command is past every other.
LEMMA PermitsCard ==
  ASSUME HouseTyped, Permits, OpenCard \/ PutCardAway \/ BeginAuthorise
  PROVE  Permits'
<1>1. /\ \A i \in DOMAIN log : log[i].ack \in Nat /\ log[i].ack > 0
      /\ row.ack \in Nat /\ desk.ack \in Nat
  BY LogTyped DEF HouseTyped
<1>2. UNCHANGED <<world, log, row>>
  BY DEF OpenCard, PutCardAway, BeginAuthorise, houseVars
<1>3. \/ OpenCard /\ desk' = [ack |-> desk.ack + 1, card |-> "open"]
      \/ desk.card = "open" /\ \E s \in {"closed", "sent"} : desk' = [desk EXCEPT !.card = s]
  BY DEF OpenCard, PutCardAway, BeginAuthorise
<1>4. CASE desk' = [ack |-> desk.ack + 1, card |-> "open"]
  BY <1>1, <1>2, <1>4 DEF Permits, AuthorisedOnce, LogPast, CardUnused, HouseTyped, RowIsFresh
<1>5. CASE desk.card = "open" /\ \E s \in {"closed", "sent"} : desk' = [desk EXCEPT !.card = s]
  <2>1. desk'.ack = desk.ack
    BY <1>5 DEF HouseTyped, TypeOK
  <2>. QED BY <1>2, <1>5, <2>1 DEF Permits, AuthorisedOnce, LogPast, CardUnused
<1>. QED BY <1>3, <1>4, <1>5

\* An authorisation taken and heard puts its card away; one refused is the card's still.
LEMMA PermitsAuthorised ==
  ASSUME HouseTyped, Permits, FinishAuthorise
  PROVE  Permits'
<1>1. /\ \A i \in DOMAIN log : log[i].ack \in Nat /\ log[i].ack > 0
      /\ row.ack \in Nat /\ desk.ack \in Nat
  BY LogTyped DEF HouseTyped
<1>2. UNCHANGED <<world, log>> /\ desk.card = "sent"
  BY DEF FinishAuthorise, Ready, HouseTyped, SentWaits
<1>3. \/ row' = row /\ desk' = [desk EXCEPT !.card = "open"]
      \/ row' = [ack |-> desk.ack, packages |-> Held] /\ desk' = [desk EXCEPT !.card = "closed"]
  <2>1. {TRUE} \cup (IF world.lossy THEN {FALSE} ELSE {}) = {TRUE}
    BY DEF Permits
  <2>2. \E heard \in {TRUE} :
          LET taken == AllKnown("authorise") /\ Held # {} IN
          /\ row' = IF taken THEN [ack |-> desk.ack, packages |-> Held] ELSE row
          /\ desk' = [desk EXCEPT !.card = IF taken /\ heard THEN "closed" ELSE "open"]
    BY <2>1 DEF FinishAuthorise
  <2>. QED BY <2>2
<1>4. desk'.ack = desk.ack /\ desk'.card \in {"open", "closed"}
  BY <1>3 DEF HouseTyped, TypeOK
<1>5. CASE row' = row
  BY <1>2, <1>4, <1>5 DEF Permits, AuthorisedOnce, LogPast, CardUnused
<1>6. CASE row' = [ack |-> desk.ack, packages |-> Held] /\ desk' = [desk EXCEPT !.card = "closed"]
  <2>1. row'.ack = desk.ack /\ desk'.card = "closed"
    BY <1>6 DEF HouseTyped, TypeOK
  <2>. QED BY <1>2, <1>4, <2>1 DEF Permits, AuthorisedOnce, LogPast, CardUnused
<1>. QED BY <1>3, <1>5, <1>6

LEMMA PermitsRestart ==
  ASSUME HouseTyped, Permits, Restart
  PROVE  Permits'
<1>1. UNCHANGED <<world, log, row>>
  BY DEF Restart, houseVars
<1>2. desk'.ack = desk.ack /\ (desk'.card # "closed" => desk.card # "closed")
  BY DEF Restart, HouseTyped, TypeOK
<1>. QED BY <1>1, <1>2 DEF Permits, AuthorisedOnce, LogPast, CardUnused

LEMMA StepPermits == HouseTyped /\ Permits /\ [Next]_vars => Permits'
<1> SUFFICES ASSUME HouseTyped, Permits, [Next]_vars PROVE Permits'
  OBVIOUS
<1>1. CASE UNCHANGED vars
  BY <1>1, PermitsCalm DEF vars, houseVars
<1>2. ASSUME NEW r \in Request, NEW o \in Order,
             Answer(r, o) \/ Silence(r, o) \/ readCustodian(r, o)
      PROVE  Permits'
  BY <1>2, PermitsCalm DEF Answer, Silence, readCustodian, houseVars
<1>3. CASE BeginMoi \/ FinishMoi
  BY <1>3, PermitsCalm DEF BeginMoi, FinishMoi, Prune
<1>4. ASSUME NEW r \in {"end", "again"}, BeginEnd(r) \/ FinishEnd(r)
      PROVE  Permits'
  <2>1. UNCHANGED <<world, desk>> /\ (endShift \/ UNCHANGED <<row, log>>)
    BY <1>4, EndOutcome
  <2>. QED BY <2>1, PermitsEnd, PermitsCalm
<1>5. CASE StartShift
  BY <1>5, PermitsCalm DEF StartShift
<1>6. CASE FounderActs
  BY <1>6, FounderOutcome, PermitsCalm
<1>7. ASSUME NEW c \in Course, Assign(c) \/ AnswerCourse(c) \/ CourseDone(c) \/ Sweep(c)
      PROVE  Permits'
  BY <1>7, PermitsCalm DEF Assign, AnswerCourse, CourseDone, Sweep, houseVars
<1>8. CASE FinishSweep
  BY <1>8, PermitsCalm DEF FinishSweep, houseVars
<1>9. ASSUME NEW o \in Order, Seal(o) \/ Leave(o)
      PROVE  Permits'
  BY <1>9, PermitsCalm DEF Seal, Leave, houseVars
<1>. QED BY <1>1, <1>2, <1>3, <1>4, <1>5, <1>6, <1>7, <1>8, <1>9, StepCases, PermitsCard,
            PermitsAuthorised, PermitsRestart

\* Wherever the desk hears what it sent was taken, no two shifts end under one
\* authorisation (it retries with the same command otherwise, and may give a
\* second one to a shift already ended).
THEOREM OneShiftEach == Spec /\ ~world.lossy => []AuthorisedOnce
<1>1. HouseTyped /\ Permits => AuthorisedOnce
  BY DEF Permits
<1>. QED BY <1>1, InitTyped, StepTyped, InitPermits, StepPermits, PTL DEF Spec

-----------------------------------------------------------------------------
(* A shift does not end on a guess.                                        *)

\* Packages are sealed while no request waits, and a sweep runs alone and is
\* answered: what the runs that look for a package left behind take away.
OrderlyHouse == world.seals = "at_rest" /\ world.sweeps \in {"none", "orderly"}

OnTheBook(o) == \E c \in Course : course[c] = "active" /\ o \in world.carries[c]

\* An answer read or on its way is true of a package with the rider: it may say
\* he holds what he has left since, never that he left what he holds.
ReadingsTrue ==
    \A r \in Request, o \in Order : custody[o] = "rider" =>
        requests[r][o] # "away" /\ (requests[r][o] = "known" => facts[o] = "rider")

\* Every sweep's question is answered.
SweepsHeard ==
    /\ world.sweeps = "none" => ~Busy("sweep")
    /\ \A o \in Order : requests["sweep"][o] # "unknown"

\* A package with the rider is one the facts place with him, one of a course he
\* is doing, or one the sweep that took its course away is asking for.
Accounted ==
    \A o \in Order : custody[o] = "rider" =>
        facts[o] = "rider" \/ OnTheBook(o) \/ requests["sweep"][o] \in {"asked", "rider"}

\* The same of the facts as stored, a sweep being stored at its end.
AccountedOnDisk ==
    \A o \in Order : custody[o] = "rider" =>
        kept[o] = "rider" \/ OnTheBook(o) \/ requests["sweep"][o] \in {"asked", "rider", "known"}

\* The end of a shift asks for every package the rider holds.
AskedAll ==
    \A r \in {"end", "again"}, o \in Order :
        Busy(r) /\ requests[r][o] = "none" => custody[o] # "rider"

Knowing == OrderlyHouse /\ ReadingsTrue /\ SweepsHeard /\ Accounted /\ AccountedOnDisk /\ AskedAll

LEMMA InitKnowing == Init /\ OrderlyHouse => Knowing
BY DEF Init, Knowing, ReadingsTrue, SweepsHeard, Accounted, AccountedOnDisk, AskedAll, Idle,
       Busy, Request

\* The courses the rider is doing stay his.
StillHis == \A c \in Course : course[c] = "active" => course'[c] = "active"

LEMMA BookKept ==
  ASSUME UNCHANGED world, StillHis, NEW o \in Order, OnTheBook(o)
  PROVE  OnTheBook(o)'
BY DEF StillHis, OnTheBook, Course

\* Nothing new is learnt or asked; the facts may be stored, a request put away.
LEMMA KnowingCalm ==
  ASSUME HouseTyped, Knowing, UNCHANGED <<world, custody, facts>>, StillHis,
         kept' \in {kept, facts},
         requests'["sweep"] = requests["sweep"],
         \A r \in Request : requests'[r] = requests[r] \/ requests'[r] = Idle
  PROVE  Knowing'
<1>1. \A r \in Request, o \in Order :
        requests'[r][o] = requests[r][o] \/ (requests'[r] = Idle /\ requests'[r][o] = "none")
  BY DEF Idle
<1>2. OrderlyHouse' /\ ReadingsTrue'
  BY <1>1 DEF Knowing, OrderlyHouse, ReadingsTrue
<1>3. SweepsHeard'
  BY DEF Knowing, SweepsHeard, Busy
<1>4. Accounted'
  BY BookKept DEF Knowing, Accounted
<1>5. AccountedOnDisk'
  BY BookKept DEF Knowing, Accounted, AccountedOnDisk
<1>6. AskedAll'
  BY <1>1 DEF Knowing, AskedAll, Busy, Request
<1>. QED BY <1>2, <1>3, <1>4, <1>5, <1>6 DEF Knowing

\* The manifest is what is held, and the courses he is doing.
LEMMA ManifestHolds ==
  ASSUME Knowing, ~Busy("sweep")
  PROVE  \A o \in Order : custody[o] = "rider" => o \in manifestCourses
<1> SUFFICES ASSUME NEW o \in Order, custody[o] = "rider" PROVE o \in manifestCourses
  OBVIOUS
<1>1. requests["sweep"][o] = "none"
  BY DEF Busy, Idle
<1>2. facts[o] = "rider" \/ OnTheBook(o)
  BY <1>1 DEF Knowing, Accounted
<1>. QED BY <1>2 DEF manifestCourses, manifestOf, OnTheBook, Given

\* What the facts place with him is held: a fact alone lists its package.
LEMMA HeldIs == \A o \in Order : facts[o] = "rider" => o \in Held
<1>1. \A o \in Order : facts[o] = "rider" => o \in manifestCourses
  BY DEF manifestCourses, manifestOf
<1>. QED BY <1>1 DEF Held

\* Questions are put to custody, for an end of shift about all he holds.
LEMMA KnowingAsk ==
  ASSUME HouseTyped, Knowing, UNCHANGED <<world, custody, facts, kept>>, StillHis,
         NEW r \in Request \ {"sweep"}, NEW os, Ask(r, os),
         r \in {"end", "again"} => os = manifestCourses /\ ~Busy("sweep")
  PROVE  Knowing'
<1>1. /\ requests'[r] = [o \in Order |-> IF o \in os THEN "asked" ELSE "none"]
      /\ \A q \in Request : q # r => requests'[q] = requests[q]
  BY AskBusy DEF HouseTyped
<1>2. requests'["sweep"] = requests["sweep"]
  BY <1>1 DEF Request
<1>3. \A o \in Order : requests'[r][o] \in {"asked", "none"}
  BY <1>1
<1>4. OrderlyHouse' /\ ReadingsTrue'
  <2>1. \A q \in Request, o \in Order :
          requests'[q][o] = requests[q][o] \/ requests'[q][o] \in {"asked", "none"}
    BY <1>1, <1>3
  <2>. QED BY <2>1 DEF Knowing, OrderlyHouse, ReadingsTrue
<1>5. SweepsHeard'
  BY <1>2 DEF Knowing, SweepsHeard, Busy
<1>6. Accounted' /\ AccountedOnDisk'
  BY <1>2, BookKept DEF Knowing, Accounted, AccountedOnDisk
<1>7. AskedAll'
  <2> SUFFICES ASSUME NEW q \in {"end", "again"}, NEW o \in Order,
                      Busy(q)', requests'[q][o] = "none"
               PROVE  custody'[o] # "rider"
    BY DEF AskedAll
  <2>1. CASE q # r
    BY <2>1, <1>1 DEF Knowing, AskedAll, Busy, Request
  <2>2. CASE q = r
    <3>1. o \notin manifestCourses /\ ~Busy("sweep")
      BY <1>1, <2>2
    <3>. QED BY <3>1, ManifestHolds
  <2>. QED BY <2>1, <2>2
<1>. QED BY <1>4, <1>5, <1>6, <1>7 DEF Knowing

\* Custody answers, keeps silent, or is heard.
LEMMA KnowingReading ==
  ASSUME HouseTyped, Knowing, NEW r \in Request, NEW o \in Order,
         Answer(r, o) \/ Silence(r, o) \/ readCustodian(r, o)
  PROVE  Knowing'
<1> USE DEF HouseTyped
<1>1. /\ UNCHANGED <<world, custody, course, kept>>
      /\ \/ /\ requests[r][o] = "asked" /\ UNCHANGED facts
            /\ Set(r, o, IF custody[o] = "rider" THEN "rider" ELSE "away")
         \/ /\ requests[r][o] = "asked" /\ UNCHANGED facts
            /\ (r = "sweep" => world.sweeps # "orderly") /\ Set(r, o, "unknown")
         \/ /\ requests[r][o] \in {"rider", "away"}
            /\ facts' = [facts EXCEPT ![o] = requests[r][o]] /\ Set(r, o, "known")
  BY DEF Answer, Silence, readCustodian
<1>2. PICK reading \in Reading \ {"none"} : Set(r, o, reading) /\ requests[r][o] # "none"
  BY <1>1 DEF Reading
<1>3. /\ \A q \in Request : Busy(q) = Busy(q)'
      /\ requests'[r][o] = reading
      /\ \A q \in Request, p \in Order : q # r \/ p # o => requests'[q][p] = requests[q][p]
  BY <1>2, SetBusy
<1>4. \/ /\ requests[r][o] = "asked" /\ UNCHANGED facts
         /\ reading = IF custody[o] = "rider" THEN "rider" ELSE "away"
      \/ /\ requests[r][o] = "asked" /\ UNCHANGED facts
         /\ r # "sweep" /\ reading = "unknown"
      \/ /\ requests[r][o] \in {"rider", "away"} /\ reading = "known"
         /\ facts' = [facts EXCEPT ![o] = requests[r][o]]
  <2>1. Busy(r)
    BY <1>2 DEF Busy, Idle
  <2>2. r = "sweep" => world.sweeps = "orderly"
    BY <2>1 DEF Knowing, OrderlyHouse, SweepsHeard
  <2>3. \A other \in Reading : Set(r, o, other) => requests'[r][o] = other
    BY DEF Set, TypeOK
  <2>4. {"rider", "away", "known", "unknown"} \subseteq Reading
    BY DEF Reading
  <2>. QED BY <1>1, <1>3, <2>2, <2>3, <2>4
<1>5. \A p \in Order : OnTheBook(p) => OnTheBook(p)'
  BY <1>1 DEF OnTheBook, Course
<1>6. \A p \in Order : p # o => facts'[p] = facts[p]
  BY <1>4 DEF TypeOK
<1>7. custody[o] = "rider" => \/ facts'[o] = facts[o] /\ reading \in {"rider", "unknown"}
                              \/ facts'[o] = "rider" /\ reading = "known"
  BY <1>4 DEF TypeOK, Knowing, ReadingsTrue
<1>8. OrderlyHouse'
  BY <1>1 DEF Knowing, OrderlyHouse
<1>9. ReadingsTrue'
  BY <1>1, <1>3, <1>6, <1>7 DEF Knowing, ReadingsTrue
<1>10. SweepsHeard'
  <2>1. "sweep" \in Request
    BY DEF Request
  <2>2. requests'["sweep"][o] # "unknown"
    BY <1>3, <1>4, <2>1 DEF Knowing, SweepsHeard
  <2>. QED BY <1>1, <1>3, <2>1, <2>2 DEF Knowing, SweepsHeard
<1>11. \A p \in Order : \/ requests'["sweep"][p] = requests["sweep"][p]
                        \/ r = "sweep" /\ p = o /\ requests'["sweep"][p] = reading
  BY <1>3 DEF Request
<1>12. Accounted'
  <2> SUFFICES ASSUME NEW p \in Order, custody'[p] = "rider"
               PROVE  facts'[p] = "rider" \/ OnTheBook(p)' \/ requests'["sweep"][p] \in {"asked", "rider"}
    BY DEF Accounted
  <2>1. facts[p] = "rider" \/ OnTheBook(p) \/ requests["sweep"][p] \in {"asked", "rider"}
    BY <1>1 DEF Knowing, Accounted
  <2>2. CASE p # o
    BY <1>5, <1>6, <1>11, <2>1, <2>2
  <2>3. CASE p = o
    <3>1. reading = "unknown" => r # "sweep"
      BY <1>4
    <3>. QED BY <1>1, <1>5, <1>7, <1>11, <2>1, <2>3, <3>1
  <2>. QED BY <2>2, <2>3
<1>13. AccountedOnDisk'
  <2> SUFFICES ASSUME NEW p \in Order, custody'[p] = "rider"
               PROVE  \/ kept'[p] = "rider" \/ OnTheBook(p)'
                      \/ requests'["sweep"][p] \in {"asked", "rider", "known"}
    BY DEF AccountedOnDisk
  <2>1. kept[p] = "rider" \/ OnTheBook(p) \/ requests["sweep"][p] \in {"asked", "rider", "known"}
    BY <1>1 DEF Knowing, AccountedOnDisk
  <2>2. r = "sweep" /\ p = o => reading \in {"rider", "known"}
    BY <1>1, <1>4, <1>7
  <2>. QED BY <1>1, <1>5, <1>11, <2>1, <2>2
<1>14. AskedAll'
  BY <1>1, <1>3 DEF Knowing, AskedAll, Request
<1>. QED BY <1>8, <1>9, <1>10, <1>12, <1>13, <1>14 DEF Knowing

\* A sweep asks about the very packages its course takes away with it.
LEMMA KnowingSweep ==
  ASSUME HouseTyped, Knowing, NEW c \in Course, Sweep(c)
  PROVE  Knowing'
<1> USE DEF HouseTyped
<1>1. /\ UNCHANGED <<world, custody, facts, kept>> /\ Ask("sweep", world.carries[c])
      /\ \A r \in Request : ~Busy(r)
      /\ world.sweeps # "none"
      /\ \E s \in {"closed", "gone"} : course' = [course EXCEPT ![c] = s]
  BY DEF Sweep, Knowing, OrderlyHouse, AtRest
<1>2. /\ requests'["sweep"] = [o \in Order |-> IF o \in world.carries[c] THEN "asked" ELSE "none"]
      /\ \A q \in Request : q # "sweep" => requests'[q] = requests[q]
  BY <1>1, AskBusy DEF Request
<1>3. \A r \in Request, o \in Order : requests[r][o] = "none"
  BY <1>1 DEF Busy, Idle
<1>4. \A r \in Request, o \in Order : requests'[r][o] \in {"asked", "none"}
  BY <1>2, <1>3
<1>5. \A o \in Order : OnTheBook(o) => OnTheBook(o)' \/ o \in world.carries[c]
  BY <1>1 DEF OnTheBook, Course, TypeOK
<1>6. OrderlyHouse' /\ ReadingsTrue'
  BY <1>1, <1>4 DEF Knowing, OrderlyHouse, ReadingsTrue
<1>7. SweepsHeard'
  BY <1>1, <1>4 DEF SweepsHeard, Request
<1>8. Accounted' /\ AccountedOnDisk'
  <2>1. \A o \in Order : o \in world.carries[c] => requests'["sweep"][o] = "asked"
    BY <1>2
  <2>2. \A o \in Order : requests["sweep"][o] = "none"
    BY <1>3 DEF Request
  <2>. QED BY <1>1, <1>5, <2>1, <2>2 DEF Knowing, Accounted, AccountedOnDisk
<1>9. AskedAll'
  BY <1>1, <1>2 DEF AskedAll, Busy, Request
<1>. QED BY <1>6, <1>7, <1>8, <1>9 DEF Knowing

\* What a sweep heard is in the facts when it ends, and stored.
LEMMA KnowingSwept ==
  ASSUME HouseTyped, Knowing, FinishSweep
  PROVE  Knowing'
<1>1. /\ UNCHANGED <<world, custody, course, facts>> /\ kept' = facts
      /\ Done("sweep") /\ Ready("sweep")
  BY DEF FinishSweep
<1>2. /\ requests'["sweep"] = Idle
      /\ \A q \in Request : q # "sweep" => requests'[q] = requests[q]
  BY <1>1, DoneBusy DEF HouseTyped, Request
<1>3. \A r \in Request, o \in Order : requests'[r][o] = requests[r][o] \/ requests'[r][o] = "none"
  BY <1>2 DEF Idle
<1>4. \A o \in Order : OnTheBook(o) => OnTheBook(o)'
  BY <1>1 DEF OnTheBook, Course
<1>5. OrderlyHouse' /\ ReadingsTrue'
  BY <1>1, <1>3 DEF Knowing, OrderlyHouse, ReadingsTrue
<1>6. SweepsHeard'
  BY <1>2 DEF SweepsHeard, Busy, Idle
<1>7. Accounted' /\ AccountedOnDisk'
  <2>1. \A o \in Order : requests["sweep"][o] \notin {"asked", "rider"}
    BY <1>1 DEF Ready
  <2>. QED BY <1>1, <1>4, <2>1 DEF Knowing, Accounted, AccountedOnDisk
<1>8. AskedAll'
  BY <1>1, <1>2 DEF Knowing, AskedAll, Busy, Request
<1>. QED BY <1>5, <1>6, <1>7, <1>8 DEF Knowing

\* A course is done once all its packages are elsewhere.
LEMMA KnowingDone ==
  ASSUME HouseTyped, Knowing, NEW c \in Course, CourseDone(c)
  PROVE  Knowing'
<1>1. /\ UNCHANGED <<world, custody, facts, requests>> /\ kept' = facts
      /\ \A o \in world.carries[c] : custody[o] = "elsewhere"
      /\ course' = [course EXCEPT ![c] = "closed"]
  BY DEF CourseDone
<1>2. \A o \in Order : OnTheBook(o) /\ custody[o] = "rider" => OnTheBook(o)'
  BY <1>1 DEF OnTheBook, Course, HouseTyped, TypeOK
<1>3. OrderlyHouse' /\ ReadingsTrue' /\ SweepsHeard' /\ AskedAll'
  BY <1>1 DEF Knowing, OrderlyHouse, ReadingsTrue, SweepsHeard, AskedAll, Busy
<1>4. Accounted' /\ AccountedOnDisk'
  BY <1>1, <1>2 DEF Knowing, Accounted, AccountedOnDisk
<1>. QED BY <1>3, <1>4 DEF Knowing

\* A package is sealed on a course he is doing, no request waiting.
LEMMA KnowingSeal ==
  ASSUME HouseTyped, Knowing, NEW o \in Order, Seal(o)
  PROVE  Knowing'
<1>1. /\ UNCHANGED <<world, course, facts, kept, requests>> /\ AtRest /\ OnTheBook(o)
      /\ custody' = [custody EXCEPT ![o] = "rider"]
  BY DEF Seal, Knowing, OrderlyHouse, OnTheBook
<1>2. /\ \A r \in Request : ~Busy(r)
      /\ \A r \in Request, p \in Order : requests[r][p] = "none"
  BY <1>1 DEF AtRest, Busy, Idle
<1>3. \A p \in Order : OnTheBook(p) => OnTheBook(p)'
  BY <1>1 DEF OnTheBook, Course
<1>4. \A p \in Order : custody'[p] = "rider" => p = o \/ custody[p] = "rider"
  BY <1>1 DEF HouseTyped, TypeOK
<1>5. OrderlyHouse' /\ ReadingsTrue' /\ SweepsHeard' /\ AskedAll'
  BY <1>1, <1>2 DEF Knowing, OrderlyHouse, ReadingsTrue, SweepsHeard, AskedAll, Busy, Request
<1>6. Accounted' /\ AccountedOnDisk'
  BY <1>1, <1>3, <1>4 DEF Knowing, Accounted, AccountedOnDisk
<1>. QED BY <1>5, <1>6 DEF Knowing

LEMMA KnowingLeave ==
  ASSUME HouseTyped, Knowing, NEW o \in Order, Leave(o)
  PROVE  Knowing'
<1>1. /\ UNCHANGED <<world, course, facts, kept, requests>>
      /\ custody' = [custody EXCEPT ![o] = "elsewhere"]
  BY DEF Leave
<1>2. \A p \in Order : custody'[p] = "rider" => custody[p] = "rider"
  BY <1>1 DEF HouseTyped, TypeOK
<1>3. \A p \in Order : OnTheBook(p) => OnTheBook(p)'
  BY <1>1 DEF OnTheBook, Course
<1>. QED BY <1>1, <1>2, <1>3 DEF Knowing, OrderlyHouse, ReadingsTrue, SweepsHeard, Accounted,
            AccountedOnDisk, AskedAll, Busy

\* A restart between a sweep and the next: the stored facts account for all.
LEMMA KnowingRestart ==
  ASSUME HouseTyped, Knowing, Restart
  PROVE  Knowing'
<1>1. /\ UNCHANGED <<world, custody, course, kept>> /\ facts' = kept
      /\ ~Busy("sweep")
      /\ requests' = [r \in Request |-> Idle]
  BY DEF Restart, Turn, Knowing, OrderlyHouse
<1>2. \A o \in Order : requests["sweep"][o] = "none"
  BY <1>1 DEF Busy, Idle
<1>3. \A r \in Request : requests'[r] = Idle /\ \A o \in Order : requests'[r][o] = "none"
  BY <1>1 DEF Idle
<1>4. \A p \in Order : OnTheBook(p) => OnTheBook(p)'
  BY <1>1 DEF OnTheBook, Course
<1>5. OrderlyHouse' /\ ReadingsTrue' /\ SweepsHeard' /\ AskedAll'
  BY <1>1, <1>3 DEF Knowing, OrderlyHouse, ReadingsTrue, SweepsHeard, AskedAll, Busy, Request
<1>6. Accounted' /\ AccountedOnDisk'
  BY <1>1, <1>2, <1>4 DEF Knowing, Accounted, AccountedOnDisk
<1>. QED BY <1>5, <1>6 DEF Knowing

\* The steps that give nothing to know: no answer, no new question.
LEMMA CalmSteps ==
  ASSUME HouseTyped, Knowing,
         \/ FinishMoi \/ StartShift \/ OpenCard \/ PutCardAway \/ FinishAuthorise \/ FounderActs
         \/ \E c \in Course : Assign(c) \/ AnswerCourse(c)
         \/ UNCHANGED vars
  PROVE  Knowing'
<1> USE DEF HouseTyped
<1>1. UNCHANGED <<world, custody, facts>> /\ kept' \in {kept, facts}
  BY FounderOutcome DEF FinishMoi, StartShift, OpenCard, PutCardAway, FinishAuthorise, Assign,
     AnswerCourse, vars
<1>2. UNCHANGED requests \/ Done("moi") \/ Done("authorise")
  BY FounderOutcome DEF FinishMoi, StartShift, OpenCard, PutCardAway, FinishAuthorise, Assign,
     AnswerCourse, vars
<1>3. StillHis
  <2>1. CASE UNCHANGED course
    BY <2>1 DEF StillHis
  <2>2. ASSUME NEW c \in Course, Assign(c) \/ AnswerCourse(c) PROVE StillHis
    <3>1. course[c] # "active" /\ \E s : course' = [course EXCEPT ![c] = s]
      BY <2>2 DEF Assign, AnswerCourse
    <3>. QED BY <3>1 DEF StillHis, TypeOK
  <2>3. UNCHANGED course \/ \E c \in Course : Assign(c) \/ AnswerCourse(c)
    BY FounderOutcome DEF FinishMoi, StartShift, OpenCard, PutCardAway, FinishAuthorise, vars
  <2>. QED BY <2>1, <2>2, <2>3
<1>4. /\ requests'["sweep"] = requests["sweep"]
      /\ \A r \in Request : requests'[r] = requests[r] \/ requests'[r] = Idle
  <2>1. {"moi", "authorise", "sweep"} \subseteq Request
    BY DEF Request
  <2>2. CASE UNCHANGED requests
    BY <2>2
  <2>3. CASE Done("moi")
    BY <2>1, <2>3, DoneBusy
  <2>4. CASE Done("authorise")
    BY <2>1, <2>4, DoneBusy
  <2>. QED BY <1>2, <2>2, <2>3, <2>4
<1>. QED BY <1>1, <1>3, <1>4, KnowingCalm

\* The rider's session is read: courses may expire, those he is doing do not.
LEMMA KnowingMoi ==
  ASSUME HouseTyped, Knowing, BeginMoi
  PROVE  Knowing'
<1> USE DEF HouseTyped
<1>1. UNCHANGED <<world, custody, facts>> /\ kept' \in {kept, facts}
  BY DEF BeginMoi
<1>2. StillHis
  <2>1. PICK due \in SUBSET {c \in Course : course[c] = "assigned"} :
            course' = [c \in Course |-> IF c \in due THEN "waiting" ELSE course[c]]
    BY DEF BeginMoi
  <2>. QED BY <2>1 DEF StillHis
<1>3. UNCHANGED requests \/ (UNCHANGED kept /\ \E os : Ask("moi", os))
  BY DEF BeginMoi
<1>4. CASE UNCHANGED requests
  BY <1>1, <1>2, <1>4, KnowingCalm
<1>5. CASE UNCHANGED kept /\ \E os : Ask("moi", os)
  <2>1. "moi" \in Request \ {"sweep"} /\ "moi" \notin {"end", "again"}
    BY DEF Request
  <2>. QED BY <1>1, <1>2, <1>5, <2>1, KnowingAsk
<1>. QED BY <1>3, <1>4, <1>5

LEMMA KnowingAuthorise ==
  ASSUME HouseTyped, Knowing, BeginAuthorise
  PROVE  Knowing'
<1>1. UNCHANGED <<world, custody, course, facts, kept>>
  BY DEF BeginAuthorise
<1>2. StillHis
  BY <1>1 DEF StillHis
<1>3. UNCHANGED requests \/ Ask("authorise", manifestCourses)
  BY DEF BeginAuthorise
<1>4. CASE UNCHANGED requests
  BY <1>1, <1>2, <1>4, KnowingCalm
<1>5. CASE Ask("authorise", manifestCourses)
  <2>1. "authorise" \in Request \ {"sweep"} /\ "authorise" \notin {"end", "again"}
    BY DEF Request
  <2>. QED BY <1>1, <1>2, <1>5, <2>1, KnowingAsk
<1>. QED BY <1>3, <1>4, <1>5

LEMMA KnowingEnd ==
  ASSUME HouseTyped, Knowing, NEW r \in {"end", "again"}, BeginEnd(r) \/ FinishEnd(r)
  PROVE  Knowing'
<1>1. UNCHANGED <<world, custody, course, facts>> /\ kept' \in {kept, facts}
  BY EndOutcome
<1>2. StillHis
  BY <1>1 DEF StillHis
<1>3. \/ UNCHANGED requests \/ Done(r)
      \/ Ask(r, manifestCourses) /\ UNCHANGED kept /\ ~Busy("sweep")
  BY DEF BeginEnd, FinishEnd, CanAsk, Turn, Knowing, OrderlyHouse
<1>4. r \in Request \ {"sweep"}
  BY DEF Request
<1>5. CASE UNCHANGED requests
  BY <1>1, <1>2, <1>5, KnowingCalm
<1>6. CASE Done(r)
  <2>1. /\ requests'["sweep"] = requests["sweep"]
        /\ \A q \in Request : requests'[q] = requests[q] \/ requests'[q] = Idle
    BY <1>4, <1>6, DoneBusy DEF HouseTyped, Request
  <2>. QED BY <1>1, <1>2, <2>1, KnowingCalm
<1>7. CASE Ask(r, manifestCourses) /\ UNCHANGED kept /\ ~Busy("sweep")
  BY <1>1, <1>2, <1>4, <1>7, KnowingAsk
<1>. QED BY <1>3, <1>5, <1>6, <1>7

LEMMA StepKnowing == HouseTyped /\ Knowing /\ [Next]_vars => Knowing'
<1> SUFFICES ASSUME HouseTyped, Knowing, [Next]_vars PROVE Knowing'
  OBVIOUS
<1>1. ASSUME Next PROVE Knowing'
  BY <1>1, StepCases, CalmSteps, KnowingReading, KnowingMoi, KnowingEnd, KnowingAuthorise,
     KnowingDone, KnowingSweep, KnowingSwept, KnowingSeal, KnowingLeave, KnowingRestart
<1>. QED BY <1>1, CalmSteps

\* The end of a shift, as it reads what was answered: nothing the rider holds
\* is out of the facts.
LEMMA EndKnows ==
  ASSUME HouseTyped, Knowing, NEW r \in {"end", "again"}, BeginEnd(r) \/ FinishEnd(r),
         shift = "on", shift' = "off"
  PROVE  \A o \in Order : custody[o] = "rider" => facts[o] = "rider"
<1> SUFFICES ASSUME NEW o \in Order, custody[o] = "rider" PROVE facts[o] = "rider"
  OBVIOUS
<1>1. CASE BeginEnd(r)
  <2>1. manifestCourses = {} /\ ~Busy("sweep")
    BY <1>1 DEF BeginEnd, CanAsk, Turn, Knowing, OrderlyHouse, houseVars
  <2>. QED BY <2>1, ManifestHolds
<1>2. CASE FinishEnd(r)
  <2>1. Busy(r) /\ requests[r][o] \in {"none", "known", "unknown"} /\ AllKnown(r)
    BY <1>2 DEF FinishEnd, Ready, ShiftEnd
  <2>2. requests[r][o] = "known"
    BY <2>1 DEF AllKnown, Knowing, AskedAll
  <2>. QED BY <2>2 DEF Knowing, ReadingsTrue, Request
<1>. QED BY <1>1, <1>2

\* A shift that ends on a package held ends under an authorisation that names it.
LEMMA EndNames ==
  ASSUME HouseTyped, endShift, NEW o \in Order, facts[o] = "rider"
  PROVE  Len(log') = Len(log) + 1 /\ o \in log'[Len(log')].packages
<1>1. o \in Held
  BY HeldIs
<1>2. finDeServiceCouvre /\ log' = Append(log, row)
  BY <1>1 DEF endShift
<1>3. row \in [ack : 1..world.cards, packages : SUBSET Order]
  BY <1>2, CoverTyped
<1>4. log \in Seq([ack : 1..world.cards, packages : SUBSET Order])
  BY DEF HouseTyped, TypeOK
<1>5. Len(log') = Len(log) + 1 /\ log'[Len(log')] = row
  BY <1>2, <1>3, <1>4
<1>6. o \in row.packages
  BY <1>1, <1>2 DEF finDeServiceCouvre
<1>. QED BY <1>5, <1>6

\* Where packages are sealed at rest and sweeps are answered, a shift of a
\* rider still on the roster ends on nothing he holds but what its
\* authorisation names: after any taps, courses, lost answers and restarts.
THEOREM EndsOnNoGuess == Spec /\ OrderlyHouse => NothingLeftBehind
<1> DEFINE Step == (shift = "on" /\ shift' = "off" /\ roster'.in) =>
                       \A o \in Order : custody[o] = "rider" =>
                           Len(log') = Len(log) + 1 /\ o \in log'[Len(log')].packages
<1>1. HouseTyped /\ Knowing /\ [Next]_vars => [Step]_vars
  <2> SUFFICES ASSUME HouseTyped, Knowing, Next, shift = "on", shift' = "off", roster'.in,
                      NEW o \in Order, custody[o] = "rider"
               PROVE  Len(log') = Len(log) + 1 /\ o \in log'[Len(log')].packages
    OBVIOUS
  <2>1. \E r \in {"end", "again"} : BeginEnd(r) \/ FinishEnd(r)
    <3>1. ~FounderActs
      BY FounderOutcome
    <3>. QED BY <3>1, StepCases DEF Answer, Silence, readCustodian, BeginMoi, FinishMoi, StartShift,
                 startShift, OpenCard, PutCardAway, BeginAuthorise, FinishAuthorise, Assign,
                 AnswerCourse, CourseDone, Sweep, FinishSweep, Seal, Leave, Restart, houseVars
  <2>2. PICK r \in {"end", "again"} : BeginEnd(r) \/ FinishEnd(r)
    BY <2>1
  <2>3. facts[o] = "rider"
    BY <2>2, EndKnows
  <2>4. endShift
    BY <2>2, EndOutcome
  <2>. QED BY <2>3, <2>4, EndNames
<1>2. Spec /\ OrderlyHouse => [][Step]_vars
  BY <1>1, InitTyped, StepTyped, InitKnowing, StepKnowing, PTL DEF Spec
<1>. QED BY <1>2 DEF NothingLeftBehind
=============================================================================
