------------------------------ MODULE RiderRoad ------------------------------
(***************************************************************************)
(* The rider's phone at work on one order: eleven acts sent to custody     *)
(* under command ids of the phone's own, from screens computed out of the  *)
(* answers heard, of a stage remembered on the disk and of what the        *)
(* session says of the course.                                             *)
(*                                                                         *)
(* Source: apps/rider-app/App.tsx, src/net/act-model.ts, act-memory.ts,    *)
(* custody-acts.ts, and the doors of custody-service/worker/custody-do.ts  *)
(* that answer them.  A request may be lost, or its answer, or arrive      *)
(* after the phone has given it up; the app may be killed.  A bag's doors  *)
(* are left out: the order travels alone.                                  *)
(***************************************************************************)
EXTENDS Naturals, FiniteSets

CONSTANTS
    Worlds,   \* the settings explored: [mode, checks, codes, reasons, verdicts,
              \* founder, faults, kills, rough, courses]
    MaxIds    \* bound on the live command ids of one act and content

ASSUME MaxIdsAssumption == MaxIds \in Nat \ {0}
ASSUME WorldsAssumption == \A w \in Worlds :
    /\ w.mode \in {"prepaid", "door"} /\ w.verdicts \subseteq {"accept", "reject"}
    /\ w.faults \in Nat /\ w.kills \in Nat /\ w.courses \in Nat \ {0}

VARIABLES
    world,      \* the setting of this behaviour, chosen once
    course,     \* the order at hand: the first, the second
    file,       \* custody's record of it
    log,        \* the answers custody remembers, by command id
    net,        \* the requests on their way
    awaits,     \* the requests whose answer the phone still waits for
    phase,      \* each act's phase: idle, working, or the answer shown
    held,       \* attempts: the command id of each act and content, 0 when none
    remembered, \* the stage in memory
    disk,       \* custody-act-memory.v1
    ui,         \* reessaiEnCours, clientRevenu
    house,      \* what logistics tells the session: passage, return, keys
    faults, kills

phoneVars == <<awaits, phase, held, remembered, disk, ui>>
vars == <<world, course, file, log, net, phoneVars, house, faults, kills>>

Act == {"verify", "seal", "depart", "arrive", "evidence", "inspect", "drop",
        "refusal", "expire", "open", "handover"}
Content(act) == CASE act = "verify"  -> {"conform", "gap"}
                  [] act = "inspect" -> {"accept", "reject"}
                  [] act = "drop"    -> {"right", "wrong"}
                  [] act = "refusal" -> {"final", "absent"}
                  [] OTHER           -> {"as_it_is"}
Key == UNION {{act} \X Content(act) : act \in Act}
Id  == Key \X (1..MaxIds)
ActOf(id) == id[1][1]

\* What an answer says, as the phone tells answers apart.  « open » is
\* ladder_already_open, « already » the refusals the phone counts as held,
\* « wait » the refusals whose hint is to try again.
Recorded   == {"ok", "already", "rejected", "return", "reschedule"}
NotYet     == {"wait"}
Refused    == {"no", "open", "unfit"} \cup NotYet
\* No network, no session, no answer: they read the same.
Unanswered == {"unreachable"}
Said  == Recorded \cup Refused
Shown == Said \cup Unanswered

Stages == {"none", "verification_accepted", "custody_taken", "departed", "arrived",
           "valid_rejection", "refused_final", "reschedule", "return_open"}

\* STAGE_RUNG
Rung(s) == CASE s = "none"                  -> 0
             [] s = "verification_accepted" -> 1
             [] s = "custody_taken"         -> 2
             [] s = "departed"              -> 3
             [] s = "arrived"               -> 4
             [] s = "return_open"           -> 6
             [] OTHER                       -> 5

NewFile == [pickup |-> "none", holder |-> "supplier", departed |-> FALSE,
            arrived |-> FALSE, evidence |-> FALSE, decided |-> FALSE,
            inspected |-> FALSE, rejected |-> FALSE, ladder |-> "none",
            escalates |-> FALSE, late |-> FALSE, paid |-> FALSE, ret |-> "none",
            armed |-> FALSE]
NewHouse == [passage |-> 1, decided |-> FALSE, code |-> FALSE, vendor |-> FALSE]
Calm == [act \in Act |-> "idle"]
AtRest == [trying |-> FALSE, back |-> FALSE]

Init ==
    /\ world \in Worlds
    /\ course = 1 /\ file = NewFile /\ house = NewHouse
    /\ log = {} /\ net = {} /\ awaits = {}
    /\ phase = Calm /\ held = [k \in Key |-> 0]
    /\ remembered = "none" /\ disk = [course |-> 0, stage |-> "none"] /\ ui = AtRest
    /\ faults = 0 /\ kills = 0

-----------------------------------------------------------------------------
(* Custody's doors.  Each returns the record after the command and what it *)
(* answers.                                                                *)

Says(f, a) == [file |-> f, answer |-> a]

Verification(f, checks) ==
    IF f.pickup = "refused" THEN Says(f, "unfit")
    ELSE IF f.pickup = "accepted" THEN Says(f, "no")       \* pickup_code_refused: spent
    ELSE IF checks = "conform" THEN Says([f EXCEPT !.pickup = "accepted"], "ok")
    ELSE Says([f EXCEPT !.pickup = "refused"], "unfit")

BeginCustody(f) ==
    IF f.pickup = "accepted" /\ f.holder = "supplier"
    THEN Says([f EXCEPT !.holder = "courier"], "ok") ELSE Says(f, "no")

\* /transit/depart and /arrive keep no command id: their record answers « deja ».
Depart(f) ==
    IF f.departed THEN Says(f, "ok")
    ELSE IF f.holder = "courier" THEN Says([f EXCEPT !.departed = TRUE], "ok")
    ELSE Says(f, "no")

Arrive(f) ==
    IF f.arrived THEN Says(f, "ok")
    ELSE IF f.holder = "courier" /\ f.departed
    THEN Says([f EXCEPT !.arrived = TRUE], "ok") ELSE Says(f, "no")

Evidence(f) ==
    IF f.holder # "courier" THEN Says(f, "no")
    ELSE IF f.evidence THEN Says(f, "already")
    ELSE Says([f EXCEPT !.evidence = TRUE], "ok")

\* autoDecideAfterEvidence, run after an accepted bundle and after its replay.
AutoDecide(f) == [f EXCEPT !.decided = @ \/ f.evidence]

InReturn(f) == f.rejected \/ f.ret # "none"

ConfirmDrop(f, code) ==
    IF f.holder = "buyer" THEN Says(f, "ok")         \* deja_livree
    ELSE IF ~f.decided THEN Says(f, "wait")
    ELSE IF f.holder # "courier" THEN Says(f, "no")
    ELSE IF InReturn(f) THEN Says(f, "no")
    ELSE IF world.mode = "door" /\ ~(f.inspected /\ f.paid) THEN Says(f, "wait")
    ELSE IF code = "wrong" THEN Says(f, "no")
    ELSE Says([f EXCEPT !.holder = "buyer"], "ok")

DoorInspection(f, verdict) ==
    IF f.holder # "courier" THEN Says(f, "no")
    ELSE IF f.inspected \/ f.rejected THEN Says(f, "already")
    ELSE IF f.ret # "none" THEN Says(f, "no")
    ELSE IF verdict = "accept" THEN Says([f EXCEPT !.inspected = TRUE], "ok")
    ELSE Says([f EXCEPT !.rejected = TRUE], "rejected")

DoorRefusal(f, reason) ==
    IF f.holder # "courier" \/ InReturn(f) THEN Says(f, "no")
    ELSE IF f.ladder # "none" THEN Says(f, "open")
    ELSE Says([f EXCEPT !.ladder = "retry", !.escalates = (reason = "final")], "ok")

DoorExpire(f) ==
    IF f.holder = "buyer" \/ f.ladder # "retry" THEN Says(f, "no")
    ELSE IF ~f.late THEN Says(f, "wait")
    ELSE IF f.escalates THEN Says([f EXCEPT !.ladder = "return"], "return")
    ELSE Says([f EXCEPT !.ladder = "reschedule"], "reschedule")

OpenReturn(f) ==
    IF (f.rejected \/ f.ladder = "return") /\ f.holder = "courier"
    THEN Says([f EXCEPT !.ret = "opened"], "ok") ELSE Says(f, "no")

Handover(f) ==
    IF f.ret # "opened" THEN Says(f, "no")
    ELSE IF ~f.armed THEN Says(f, "wait")
    ELSE Says([f EXCEPT !.ret = "closed", !.holder = "home"], "ok")

Custody(f, k) ==
    CASE k[1] = "verify"   -> Verification(f, k[2])
      [] k[1] = "seal"     -> BeginCustody(f)
      [] k[1] = "depart"   -> Depart(f)
      [] k[1] = "arrive"   -> Arrive(f)
      [] k[1] = "evidence" -> Evidence(f)
      [] k[1] = "inspect"  -> DoorInspection(f, k[2])
      [] k[1] = "drop"     -> ConfirmDrop(f, k[2])
      [] k[1] = "refusal"  -> DoorRefusal(f, k[2])
      [] k[1] = "expire"   -> DoorExpire(f)
      [] k[1] = "open"     -> OpenReturn(f)
      [] k[1] = "handover" -> Handover(f)

Logged(id) == ActOf(id) \notin {"depart", "arrive"}

\* A command id is answered once; its redelivery gets the same answer.
Answer(id) ==
    IF \E r \in log : r.id = id
    THEN Says(file, (CHOOSE r \in log : r.id = id).answer)
    ELSE Custody(file, id[1])

\* The log is looked up by ids that may still come in: the others' rows are dead.
Kept(rows, h, n) == {r \in rows : r.id \in n \/ h[r.id[1]] = r.id[2]}

-----------------------------------------------------------------------------
(* The phone: what it shows.                                               *)

Answered(act) == phase[act] \in Shown
AtLeast(s) == Rung(remembered) >= Rung(s)

\* sealScreenIsDue, packageIsHeld, roadDeparted, roadArrived: an answer speaks,
\* and the memory only where none was heard.
ShownOr(act, s) == IF Answered(act) THEN phase[act] = "ok" ELSE AtLeast(s)
SealDue  == ShownOr("verify", "verification_accepted")
Holds    == ShownOr("seal", "custody_taken")
Departed == ShownOr("depart", "departed")
Arrived  == ShownOr("arrive", "arrived")

EvidenceIsHeld   == phase["evidence"] \in {"ok", "already"}
InspectionIsHeld == phase["inspect"] \in {"ok", "already"}
WindowIsOpen     == phase["refusal"] \in {"ok", "open"}
ReturnRoadOpen   == phase["open"] = "ok" \/ house.code \/ remembered = "return_open"
RefusedForGood   == \/ phase["expire"] = "return" \/ remembered = "refused_final"
                    \/ phase["inspect"] = "rejected" \/ remembered = "valid_rejection"
                    \/ house.decided
RescheduleDue    == /\ house.passage < 2
                    /\ phase["expire"] = "reschedule" \/ remembered = "reschedule"
LadderSpent      == \/ house.passage >= 2 \/ remembered = "reschedule"
                    \/ phase["expire"] \in {"return", "reschedule"}

Screen ==
    IF ~Holds /\ ~SealDue THEN "verify"
    ELSE IF ~Holds THEN "seal"
    ELSE IF phase["drop"] = "ok" THEN "delivered"
    ELSE IF ~Departed THEN "depart"
    ELSE IF ~Arrived THEN "arrive"
    ELSE IF phase["handover"] = "ok" THEN "returned"
    ELSE IF ReturnRoadOpen THEN "handover"
    ELSE IF RefusedForGood THEN "open"
    ELSE IF RescheduleDue /\ ~ui.back THEN "reschedule"
    ELSE IF WindowIsOpen /\ ~ui.trying /\ house.passage < 2 THEN "window"
    ELSE IF ~EvidenceIsHeld THEN "evidence"
    ELSE IF world.mode = "door" /\ ~InspectionIsHeld THEN "inspect"
    ELSE "code"

\* PorteSoucis, under the door's screens: refuse, expire the window, reject.
Troubles(act, content) ==
    /\ Screen \in {"inspect", "code"}
    /\ CASE act = "refusal" -> ~LadderSpent /\ ~WindowIsOpen /\ content \in world.reasons
         [] act = "expire"  -> ~LadderSpent /\ WindowIsOpen
         [] act = "inspect" -> /\ content = "reject" /\ content \in world.verdicts
                               /\ Screen = "inspect" /\ (LadderSpent \/ ~WindowIsOpen)
         [] OTHER -> FALSE

\* The acts a screen offers, and the two it sends by itself: the seal when the
\* goods are accepted, the evidence on arrival.
Offered(act, content) ==
    \/ act = "verify"   /\ Screen = "verify" /\ content \in world.checks
    \/ act = "seal"     /\ Screen = "seal" /\ phase["seal"] \in {"idle", "unreachable"}
    \/ act = "depart"   /\ Screen = "depart"
    \/ act = "arrive"   /\ Screen = "arrive"
    \/ act = "evidence" /\ \/ Arrived /\ phase["evidence"] = "idle"
                           \/ Screen = "evidence" /\ phase["evidence"] = "unreachable"
    \/ act = "inspect"  /\ Screen = "inspect" /\ content = "accept"
                           /\ content \in world.verdicts
    \/ act = "drop"     /\ Screen = "code" /\ content \in world.codes
    \/ act = "expire"   /\ Screen = "window"
    \/ act = "open"     /\ Screen = "open"
    \/ act = "handover" /\ Screen = "handover" /\ house.code /\ house.vendor
    \/ Troubles(act, content)

-----------------------------------------------------------------------------
(* The phone: what it keeps.                                               *)

\* Mutant: an act sent counts as done, answered or not.
StageOptimistic(p) ==
    IF p["open"] = "ok" THEN "return_open"
    ELSE IF p["expire"] = "return" THEN "refused_final"
    ELSE IF p["expire"] = "reschedule" THEN "reschedule"
    ELSE IF p["inspect"] = "rejected" THEN "valid_rejection"
    ELSE IF p["arrive"] \in {"ok", "unreachable"} THEN "arrived"
    ELSE IF p["depart"] = "ok" THEN "departed"
    ELSE IF p["seal"] = "ok" THEN "custody_taken"
    ELSE IF p["verify"] = "ok" THEN "verification_accepted"
    ELSE "none"

\* The stage the phases speak for, the furthest first; none is no stage.
Stage(p) ==
    IF p["open"] = "ok" THEN "return_open"
    ELSE IF p["expire"] = "return" THEN "refused_final"
    ELSE IF p["expire"] = "reschedule" THEN "reschedule"
    ELSE IF p["inspect"] = "rejected" THEN "valid_rejection"
    ELSE IF p["arrive"] = "ok" THEN "arrived"
    ELSE IF p["depart"] = "ok" THEN "departed"
    ELSE IF p["seal"] = "ok" THEN "custody_taken"
    ELSE IF p["verify"] = "ok" THEN "verification_accepted"
    ELSE "none"

\* The effect that follows every change of a phase.
Remember(p) == remembered' = IF Stage(p) = "none" THEN remembered ELSE Stage(p)

Shows(act, a) == /\ phase' = [phase EXCEPT ![act] = a] /\ Remember(phase')

\* Mutant: an id that was told to wait is kept.
ForgetsNever(act) == FALSE

\* oublierTentative: a refusal that says « not yet » is remembered by custody
\* under its id, so the next try takes another one.
Forgets(act) == act \in {"drop", "expire", "handover"} /\ phase[act] \in NotYet

FreshId(k) == {n \in 1..MaxIds : n # held[k] /\ <<k, n>> \notin net}

\* Mutant: every gesture mints its id.
AttemptMinted(k) == FreshId(k)

\* attemptFor: the same act with the same content keeps its id until an answer
\* says otherwise.
AttemptFor(k) ==
    IF held[k] # 0 /\ ~Forgets(k[1]) THEN {held[k]}
    ELSE {n \in FreshId(k) : \A m \in FreshId(k) : n <= m}

Tap(act, content) ==
    LET k == <<act, content>>
    IN /\ Offered(act, content)
       /\ phase[act] = "working" => content = "reject"
       /\ \E n \in AttemptFor(k) :
            /\ held' = [held EXCEPT ![k] = n]
            /\ net' = net \cup {<<k, n>>}
            /\ awaits' = awaits \cup {<<k, n>>}
       /\ log' = Kept(log, held', net')
       /\ Shows(act, "working")
       /\ UNCHANGED <<world, course, file, disk, ui, house, faults, kills>>

\* The phone's half of an answer, or of its timeout.
Hears(id, a) ==
    IF id \in awaits THEN Shows(ActOf(id), a) /\ awaits' = awaits \ {id}
    ELSE UNCHANGED <<phase, remembered, awaits>>

Fault == faults < world.faults /\ faults' = faults + 1

\* A request reaches custody; the phone hears the answer, unless it is lost.
Handle(id, arrives) ==
    /\ id \in net
    /\ net' = net \ {id}
    /\ LET r == Answer(id)
       IN /\ file' = IF ActOf(id) = "evidence" /\ r.answer = "ok"
                     THEN AutoDecide(r.file) ELSE r.file
          /\ log' = Kept(IF Logged(id) THEN log \cup {[id |-> id, answer |-> r.answer]}
                                       ELSE log, held, net')
          /\ IF arrives THEN Hears(id, r.answer) /\ UNCHANGED faults
                        ELSE id \in awaits /\ Hears(id, "unreachable") /\ Fault
    /\ UNCHANGED <<world, course, held, disk, ui, house, kills>>

\* A restart of custody between the evidence and its automatic decision.
CrashAfterEvidence(id) ==
    /\ id \in net /\ ActOf(id) = "evidence"
    /\ Answer(id).answer = "ok" /\ ~file.evidence
    /\ Fault
    /\ net' = net \ {id}
    /\ file' = Answer(id).file
    /\ log' = Kept(log \cup {[id |-> id, answer |-> "ok"]}, held, net')
    /\ Hears(id, "unreachable")
    /\ UNCHANGED <<world, course, held, disk, ui, house, kills>>

\* fetchWithin: after its deadline the phone gives up; the request is lost, or
\* still on its way.
TimeOut(id, lost) ==
    /\ id \in awaits /\ id \in net
    /\ Fault
    /\ net' = IF lost THEN net \ {id} ELSE net
    /\ log' = Kept(log, held, net')
    /\ Hears(id, "unreachable")
    /\ UNCHANGED <<world, course, file, held, disk, ui, house, kills>>

\* rememberAct lands.
Land ==
    /\ Stage(phase) # "none"
    /\ disk # [course |-> course, stage |-> remembered]
    /\ disk' = [course |-> course, stage |-> remembered]
    /\ UNCHANGED <<world, course, file, log, net, awaits, phase, held, remembered, ui, house,
                   faults, kills>>

\* In a gentle world the app is killed at rest: nothing on its way, nothing
\* unheard, the memory written.
AtPeace ==
    /\ net = {} /\ awaits = {}
    /\ \A act \in Act : phase[act] # "unreachable"
    /\ remembered # "none" => disk = [course |-> course, stage |-> remembered]

\* The app is killed and opened again: loadActMemory answers for this order only.
Kill ==
    /\ kills < world.kills /\ kills' = kills + 1
    /\ world.rough \/ AtPeace
    /\ phase' = Calm /\ awaits' = {} /\ ui' = AtRest
    /\ held' = [k \in Key |-> 0]
    /\ log' = Kept(log, held', net)
    /\ remembered' = IF disk.course = course THEN disk.stage ELSE "none"
    /\ UNCHANGED <<world, course, file, net, disk, house, faults>>

-----------------------------------------------------------------------------
(* The rider's other gestures, the buyer, the founder, the supplier.       *)

\* « Réessayer », « le client est là », « le client n'est pas là ».
Gestures ==
    /\ ui' \in CASE Screen = "window"     -> {[ui EXCEPT !.trying = TRUE]}
                 [] Screen = "reschedule" -> {[trying |-> TRUE, back |-> TRUE]}
                 [] Screen \in {"inspect", "code"} /\ LadderSpent /\ ui.back -> {AtRest}
                 [] OTHER -> {}
    /\ UNCHANGED <<world, course, file, log, net, awaits, phase, held, remembered, disk, house,
                   faults, kills>>

Ledger(f) == /\ file' = f
             /\ UNCHANGED <<world, course, log, net, phoneVars, house, faults, kills>>

Elapse == file.ladder = "retry" /\ ~file.late /\ Ledger([file EXCEPT !.late = TRUE])
Pay    == /\ file.inspected /\ ~InReturn(file) /\ ~file.paid
          /\ Ledger([file EXCEPT !.paid = TRUE])
\* The supplier's key and the rider's, armed once logistics hears of the return.
Arm    == file.ret = "opened" /\ ~file.armed /\ Ledger([file EXCEPT !.armed = TRUE])

Session(h) == /\ house' = h
              /\ UNCHANGED <<world, course, file, log, net, phoneVars, faults, kills>>

\* The founder fixes the second passage of a rescheduled course.
FixPassage ==
    /\ file.ladder = "reschedule" /\ ~InReturn(file) /\ house.passage = 1
    /\ Session([house EXCEPT !.passage = 2])
HearReturn == file.ret = "opened" /\ ~house.code /\ Session([house EXCEPT !.code = TRUE])
VendorSays == house.code /\ ~house.vendor /\ Session([house EXCEPT !.vendor = TRUE])

\* « Renvoyer »: applyDispatcherReturn, then the session says so.
DecideReturn ==
    /\ world.founder
    /\ file.ladder = "reschedule" /\ file.holder = "courier" /\ ~InReturn(file)
    /\ file' = [file EXCEPT !.ladder = "return"]
    /\ house' = [house EXCEPT !.decided = TRUE]
    /\ UNCHANGED <<world, course, log, net, phoneVars, faults, kills>>

Over(f) == f.pickup = "refused" \/ f.holder \in {"buyer", "home"}

\* The session names the next order.  In one commit, the phases are reset for
\* the next render, the inspection's excepted, the memory of the new order is
\* asked for, and the stage of the phases as they were is written under it.
NextCourse ==
    /\ course < world.courses /\ course' = course + 1
    /\ Over(file) /\ net = {} /\ awaits = {}
    /\ file' = NewFile /\ house' = NewHouse /\ ui' = AtRest
    /\ log' = {} /\ held' = [k \in Key |-> 0]
    /\ phase' = [Calm EXCEPT !["inspect"] = phase["inspect"]]
    /\ disk' = IF Stage(phase) = "none" THEN disk
               ELSE [course |-> course', stage |-> Stage(phase)]
    /\ remembered' \in {"none", Stage(phase)}
    /\ UNCHANGED <<world, net, awaits, faults, kills>>

Requests == \E id \in net : Handle(id, TRUE)
Losses   == \/ \E id \in net : Handle(id, FALSE) \/ CrashAfterEvidence(id)
            \/ \E id \in awaits, lost \in BOOLEAN : TimeOut(id, lost)
Taps     == \E k \in Key : Tap(k[1], k[2])

Next == \/ Taps \/ Requests \/ Losses \/ Land \/ Kill \/ Gestures
        \/ Elapse \/ Pay \/ Arm \/ FixPassage \/ HearReturn \/ VendorSays \/ DecideReturn

Spec == Init /\ [][Next]_vars

\* The same phone given a second order.
SpecOfTwo == Init /\ [][Next \/ NextCourse]_vars

\* The rider does what the screen is for: conforming goods are accepted, and the
\* buyer who is there gives a verdict on the package, and the right code.
Forward == \E k \in Key : /\ k[1] # "refusal" /\ k[2] \notin {"gap", "wrong"}
                          /\ k[2] = "reject" => "accept" \notin world.verdicts
                          /\ Tap(k[1], k[2])

FairSpec ==
    /\ Spec
    /\ SF_vars(Forward) /\ WF_vars(Requests) /\ WF_vars(Land)
    /\ WF_vars(Elapse) /\ WF_vars(Pay) /\ WF_vars(Arm)
    /\ WF_vars(FixPassage) /\ WF_vars(HearReturn) /\ WF_vars(VendorSays)

-----------------------------------------------------------------------------
(* What the phone and custody promise each other.                          *)

File == [pickup : {"none", "accepted", "refused"},
         holder : {"supplier", "courier", "buyer", "home"},
         departed : BOOLEAN, arrived : BOOLEAN, evidence : BOOLEAN, decided : BOOLEAN,
         inspected : BOOLEAN, rejected : BOOLEAN,
         ladder : {"none", "retry", "reschedule", "return"},
         escalates : BOOLEAN, late : BOOLEAN, paid : BOOLEAN,
         ret : {"none", "opened", "closed"}, armed : BOOLEAN]

TypeOK ==
    /\ world \in Worlds /\ course \in 1..world.courses /\ file \in File
    /\ net \subseteq Id /\ awaits \subseteq Id
    /\ log \subseteq [id : Id, answer : Said]
    /\ phase \in [Act -> {"idle", "working"} \cup Shown]
    /\ held \in [Key -> 0..MaxIds]
    /\ remembered \in Stages
    /\ disk \in [course : 0..world.courses, stage : Stages]
    /\ ui \in [trying : BOOLEAN, back : BOOLEAN]
    /\ house \in [passage : 1..2, decided : BOOLEAN, code : BOOLEAN, vendor : BOOLEAN]
    /\ faults \in 0..world.faults /\ kills \in 0..world.kills

\* What each remembered stage says of custody's record.
True(s) ==
    CASE s = "none"                  -> TRUE
      [] s = "verification_accepted" -> file.pickup = "accepted"
      [] s = "custody_taken"         -> file.holder # "supplier"
      [] s = "departed"              -> file.departed
      [] s = "arrived"               -> file.arrived
      [] s = "valid_rejection"       -> file.rejected
      [] s = "refused_final"         -> file.ladder = "return"
      [] s = "reschedule"            -> file.ladder \in {"reschedule", "return"}
      [] s = "return_open"           -> file.ret # "none"

\* The phone is never ahead of custody: whatever was lost, repeated or killed,
\* the stage it shows the rider of this order, and the one it would find on its
\* disk, are stages custody recorded (act-memory.ts: a rider is never shown a
\* seal screen for goods they never verified).
PhoneNeverAhead ==
    /\ True(remembered)
    /\ disk.course = course => True(disk.stage)

\* What each act, with its content, leaves in custody's record once accepted.
Done(k, f) ==
    CASE k = <<"verify", "conform">> -> f.pickup = "accepted"
      [] k = <<"verify", "gap">>     -> f.pickup = "refused"
      [] k[1] = "seal"               -> f.holder # "supplier"
      [] k[1] = "depart"             -> f.departed
      [] k[1] = "arrive"             -> f.arrived
      [] k[1] = "evidence"           -> f.evidence
      [] k = <<"inspect", "accept">> -> f.inspected
      [] k = <<"inspect", "reject">> -> f.rejected
      [] k = <<"drop", "right">>     -> f.holder = "buyer"
      [] k[1] = "expire"             -> f.ladder \in {"return", "reschedule"}
      [] k[1] = "open"               -> f.ret # "none"
      [] k[1] = "handover"           -> f.ret = "closed"
      [] OTHER                       -> FALSE

\* While the app lives, a rider is never told « no » for an act custody took:
\* the answer may be lost, the act sent again and again, the evidence decided
\* late, and still the redelivery is answered as the first was.
NeverToldNoForADoneAct ==
    [][world.kills = 0 =>
         \A id \in awaits \ awaits' :
             phase'[ActOf(id)] = "no" => ~Done(id[1], file')]_vars

\* The road ends: goods accepted reach the buyer or go home again, through
\* timeouts, lost answers, custody's restart, refusals at the door, second
\* passages and an app killed at rest.  The rough worlds are excepted: an app
\* killed over an unheard answer may strand the order.
RoadEnds == <>(Over(file) \/ world.rough)
=============================================================================
