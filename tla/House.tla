-------------------------------- MODULE House --------------------------------
(***************************************************************************)
(* The logistics object's house around one rider: his row in the registry, *)
(* his shift, the courses given to him, what custody was last heard to say *)
(* of their packages, and the authorisation to end a shift while carrying. *)
(*                                                                         *)
(* Source: logistics-service/worker/logistics-do.ts (the registry, shift,  *)
(* exception and session routes), src/rider-registry.ts, route-manifest.ts *)
(* and the shift rows of src/flotte.ts; the phone's shift buttons; the     *)
(* console's authorisation card (manifeste.ts).  Custody is asked over a   *)
(* fetch, during which the object serves other requests; every request     *)
(* runs alone between its fetches.                                         *)
(***************************************************************************)
EXTENDS Naturals, Sequences, FiniteSets

CONSTANTS
    Order,     \* the orders, each with its package
    Worlds     \* the settings explored: [carries, ready, requests, seals, sweeps,
               \* founder, lossy, shifts, cards, outages, restarts], the last
               \* four bounding how often each may happen

ASSUME WorldsAssumption == \A w \in Worlds :
    /\ UNION {w.carries[c] : c \in DOMAIN w.carries} \subseteq Order
    /\ w.seals \in {"at_rest", "any"} /\ w.sweeps \in {"none", "orderly", "unheard", "any"}
    /\ w.ready \in BOOLEAN /\ {w.shifts, w.cards, w.outages, w.restarts} \subseteq Nat

VARIABLES
    world,    \* the setting of this behaviour, chosen once
    custody,  \* custody's own record: where each package is
    course,   \* the status of each course of the book
    facts,    \* custodyFacts: custody's answers as last heard
    kept,     \* custodyFacts as last stored
    roster,   \* the rider's row: registered, certified, privacy notice, live code
    shift,    \* his shift in the registry
    clock,    \* whether the fleet ledger has a shift of his open
    row,      \* finDeService: the pending authorisation, by command id and packages
    log,      \* custodyExceptions: the authorisations shifts ended under
    session,  \* what the phone was last told: his shift, the courses he accepted
    desk,     \* the console's card: its command id, closed, open or sent
    requests, \* the requests waiting on custody
    starts, outages, restarts

houseVars == <<roster, shift, clock, row, log>>
limits == <<starts, outages, restarts>>
vars == <<world, custody, course, facts, kept, houseVars, session, desk, requests, limits>>

Request == {"moi", "end", "again", "authorise", "sweep"}
\* One order's reading in a request: not asked, asked, the answer on its way
\* back, heard, or given up.
Reading == {"none", "asked", "rider", "away", "known", "unknown"}
Idle    == [o \in Order |-> "none"]
Course  == DOMAIN world.carries
Given   == {"assigned", "active"} \* ACTIVE_ASSIGNMENT_STATUSES
NoRow   == [ack |-> 0, packages |-> {}]
\* The registry's row of the rider, the code that opens his session with it.
Rider   == [in : BOOLEAN, certified : BOOLEAN, privacy : BOOLEAN, code : BOOLEAN]

TypeOK ==
    /\ world \in Worlds
    /\ custody \in [Order -> {"supplier", "rider", "elsewhere"}]
    /\ course \in [Course -> {"waiting", "closed", "gone"} \cup Given]
    /\ facts \in [Order -> {"unread", "rider", "away"}]
    /\ kept \in [Order -> {"unread", "rider", "away"}]
    /\ roster \in Rider
    /\ shift \in {"off", "on"} /\ clock \in {"closed", "open"}
    /\ row \in [ack : 0..world.cards, packages : SUBSET Order]
    /\ log \in Seq([ack : 1..world.cards, packages : SUBSET Order])
    /\ session \in [shift : {"off", "on"}, course : SUBSET Course]
    /\ desk \in [ack : 0..world.cards, card : {"closed", "open", "sent"}]
    /\ requests \in [Request -> [Order -> Reading]]
    /\ starts \in 0..world.shifts /\ outages \in 0..world.outages
    /\ restarts \in 0..world.restarts

Init ==
    /\ world \in Worlds
    /\ custody = [o \in Order |-> "supplier"]
    /\ course = [c \in DOMAIN world.carries |-> "waiting"]
    /\ facts = [o \in Order |-> "unread"] /\ kept = facts
    /\ roster = [in |-> world.ready, certified |-> world.ready,
                 privacy |-> world.ready, code |-> world.ready]
    /\ shift = "off" /\ clock = "closed" /\ row = NoRow /\ log = <<>>
    /\ session = [shift |-> "off", course |-> {}]
    /\ desk = [ack |-> 0, card |-> "closed"]
    /\ requests = [r \in Request |-> Idle]
    /\ starts = 0 /\ outages = world.outages /\ restarts = world.restarts

-----------------------------------------------------------------------------
(* The manifest.                                                           *)

\* Mutant: only the live courses are read.
manifestLive(book) == UNION {world.carries[c] : c \in {d \in Course : book[d] \in Given}}

\* The courses read for the rider: the live ones, those of the book with a
\* package custody placed with him, and such packages with no course left.
manifestOf(book) ==
    LET Mine   == {o \in Order : facts[o] = "rider"}
        Listed == {c \in Course : book[c] \in Given \/
                       (book[c] = "closed" /\ world.carries[c] \cap Mine # {})}
    IN Mine \cup UNION {world.carries[c] : c \in Listed}
manifestCourses == manifestOf(course)

\* custodyInventory: the packages custody's last word places with the rider.
Held == {o \in manifestCourses : facts[o] = "rider"}

\* The authorisation covers every package held, and something is held.
finDeServiceCouvre == Held # {} /\ row # NoRow /\ Held \subseteq row.packages

-----------------------------------------------------------------------------
(* Asking custody.                                                         *)

Busy(r) == requests[r] # Idle
AtRest  == \A r \in Request : ~Busy(r)
\* Where sweeps are orderly nothing else runs meanwhile, and custody answers;
\* where they are unheard it may not.
Turn    == world.sweeps # "any" => ~Busy("sweep")
CanAsk(r) == r \in world.requests /\ ~Busy(r) /\ Turn

Ask(r, os) ==
    requests' = [requests EXCEPT ![r] = [o \in Order |-> IF o \in os THEN "asked" ELSE "none"]]
Ready(r) == Busy(r) /\ \A o \in Order : requests[r][o] \in {"none", "known", "unknown"}
AllKnown(r) == \A o \in Order : requests[r][o] # "unknown"
Set(r, o, reading) == requests' = [requests EXCEPT ![r][o] = reading]
Done(r) == requests' = [requests EXCEPT ![r] = Idle]

\* GET /custodian, answered.  A sweep asks for one order at a time.
Answer(r, o) ==
    /\ requests[r][o] = "asked"
    /\ r = "sweep" => \A p \in Order : requests[r][p] \notin {"rider", "away"}
    /\ Set(r, o, IF custody[o] = "rider" THEN "rider" ELSE "away")
    /\ UNCHANGED <<world, custody, course, facts, kept, houseVars, session, desk, limits>>

\* No answer, or none that can be read: nothing is learnt.
Silence(r, o) ==
    /\ requests[r][o] = "asked" /\ outages > 0
    /\ r = "sweep" => world.sweeps # "orderly"
    /\ outages' = outages - 1 /\ Set(r, o, "unknown")
    /\ UNCHANGED <<world, custody, course, facts, kept, houseVars, session, desk, starts,
                   restarts>>

\* Mutant: an answer that does not name a courier is not written down.
HeardCourier(r, o) ==
    /\ requests[r][o] \in {"rider", "away"}
    /\ facts' = [facts EXCEPT ![o] = IF requests[r][o] = "rider" THEN "rider" ELSE @]
    /\ Set(r, o, "known")
    /\ UNCHANGED <<world, custody, course, kept, houseVars, session, desk, limits>>

\* The answer reaches the object and replaces the fact.
readCustodian(r, o) ==
    /\ requests[r][o] \in {"rider", "away"}
    /\ facts' = [facts EXCEPT ![o] = requests[r][o]]
    /\ Set(r, o, "known")
    /\ UNCHANGED <<world, custody, course, kept, houseVars, session, desk, limits>>

-----------------------------------------------------------------------------
(* The rider's session and shift.                                          *)

\* GET /rider/moi: the expired courses go back to the queue, custody is asked,
\* and an authorisation that no longer covers what is held is dropped.
Prune == row' = IF finDeServiceCouvre THEN row ELSE NoRow
\* What the phone is told: his shift, and the courses it shows him as his.
riderView == [shift |-> shift, course |-> {c \in Course : course[c] = "active"}]
\* An answer reaches the phone, or is lost; the session is read again later.
Told(view) ==
    \/ session' = view /\ UNCHANGED outages
    \/ "moi" \in world.requests /\ outages > 0 /\ outages' = outages - 1 /\ UNCHANGED session
BeginMoi ==
    /\ CanAsk("moi") /\ roster.code
    /\ \E due \in SUBSET {c \in Course : course[c] = "assigned"} :
           LET book == [c \in Course |-> IF c \in due THEN "waiting" ELSE course[c]] IN
           /\ course' = book
           /\ IF manifestOf(book) = {}
              THEN Prune /\ UNCHANGED requests /\ kept' = facts /\ Told(riderView)
              ELSE Ask("moi", manifestOf(book)) /\ UNCHANGED <<row, kept, session, outages>>
    /\ UNCHANGED <<world, custody, facts, roster, shift, clock, log, desk, starts, restarts>>
FinishMoi ==
    /\ Ready("moi") /\ Done("moi") /\ Prune /\ kept' = facts /\ Told(riderView)
    /\ UNCHANGED <<world, custody, course, facts, roster, shift, clock, log, desk, starts,
                   restarts>>

\* RiderRegistry.startShift.
startShift ==
    /\ roster.in /\ roster.certified /\ roster.privacy
    /\ shift = "off" /\ shift' = "on"

\* The phone's two buttons, each offered on the shift it was last told of.
StartShift ==
    /\ session.shift = "off" /\ roster.code
    /\ startShift /\ starts < world.shifts
    /\ clock' = "open" /\ starts' = starts + 1 /\ kept' = facts
    /\ Told([session EXCEPT !.shift = "on"])
    /\ UNCHANGED <<world, custody, course, facts, roster, row, log, desk, requests, restarts>>

\* Mutant: the authorisation is left behind.
EndKeepsRow ==
    /\ shift = "on" /\ (Held = {} \/ finDeServiceCouvre)
    /\ shift' = "off" /\ clock' = "closed"
    /\ log' = IF Held = {} THEN log ELSE Append(log, row)
    /\ UNCHANGED row

\* RiderRegistry.endShift with what the manifest holds: refused on a package
\* no authorisation covers; else logged under it, and the authorisation used.
endShift ==
    /\ shift = "on" /\ (Held = {} \/ finDeServiceCouvre)
    /\ shift' = "off" /\ clock' = "closed" /\ row' = NoRow
    /\ log' = IF Held = {} THEN log ELSE Append(log, row)

\* POST /rider/shift/end, past the reading.
ShiftEnd(allKnown) ==
    /\ kept' = facts
    /\ \/ allKnown /\ endShift /\ Told([session EXCEPT !.shift = "off"])
       \/ /\ ~allKnown \/ ~(shift = "on" /\ (Held = {} \/ finDeServiceCouvre))
          /\ UNCHANGED <<shift, clock, row, log, session, outages>>
    /\ UNCHANGED <<world, custody, course, facts, roster, desk, starts, restarts>>

BeginEnd(r) ==
    /\ CanAsk(r) /\ roster.code /\ session.shift = "on"
    /\ r = "again" => Busy("end")
    /\ IF manifestCourses = {} THEN ShiftEnd(TRUE) /\ UNCHANGED requests
       ELSE /\ Ask(r, manifestCourses)
            /\ UNCHANGED <<world, custody, course, facts, kept, houseVars, session, desk,
                            limits>>
FinishEnd(r) == Ready(r) /\ Done(r) /\ ShiftEnd(AllKnown(r))

-----------------------------------------------------------------------------
(* The desk.                                                               *)

\* The console's card: its command id is minted when it opens and reused on a
\* retry, until the desk hears that it was taken or puts it away.
OpenCard ==
    /\ desk.card = "closed" /\ desk.ack < world.cards /\ Held # {} /\ ~finDeServiceCouvre
    /\ "authorise" \in world.requests
    /\ desk' = [ack |-> desk.ack + 1, card |-> "open"]
    /\ UNCHANGED <<world, custody, course, facts, kept, houseVars, session, requests,
                   limits>>
PutCardAway ==
    /\ desk.card = "open" /\ desk' = [desk EXCEPT !.card = "closed"]
    /\ UNCHANGED <<world, custody, course, facts, kept, houseVars, session, requests,
                   limits>>

\* POST /ops/shift/exception.
BeginAuthorise ==
    /\ desk.card = "open" /\ CanAsk("authorise") /\ roster.in
    /\ IF row.ack = desk.ack THEN desk' = [desk EXCEPT !.card = "closed"] /\ UNCHANGED requests
       ELSE /\ manifestCourses # {} /\ Ask("authorise", manifestCourses)
            /\ desk' = [desk EXCEPT !.card = "sent"]
    /\ UNCHANGED <<world, custody, course, facts, kept, houseVars, session, limits>>
FinishAuthorise ==
    /\ Ready("authorise") /\ Done("authorise") /\ kept' = facts
    /\ \E heard \in {TRUE} \cup (IF world.lossy THEN {FALSE} ELSE {}) :
           LET taken == AllKnown("authorise") /\ Held # {} IN
           /\ row' = IF taken THEN [ack |-> desk.ack, packages |-> Held] ELSE row
           /\ desk' = [desk EXCEPT !.card = IF taken /\ heard THEN "closed" ELSE "open"]
    /\ UNCHANGED <<world, custody, course, facts, roster, shift, clock, log, session,
                   limits>>

\* The courses: given to a certified rider on shift who has none, accepted,
\* declined, done once custody says every package is elsewhere.
Assign(c) ==
    /\ course[c] = "waiting" /\ roster.in /\ roster.certified /\ shift = "on"
    /\ \A d \in Course : course[d] \notin Given
    /\ course' = [course EXCEPT ![c] = "assigned"] /\ kept' = facts
    /\ UNCHANGED <<world, custody, facts, houseVars, session, desk, requests, limits>>
AnswerCourse(c) ==
    /\ course[c] = "assigned" /\ roster.code
    /\ \E s \in {"active", "waiting"} : course' = [course EXCEPT ![c] = s]
    /\ kept' = facts
    /\ UNCHANGED <<world, custody, facts, houseVars, session, desk, requests, limits>>
CourseDone(c) ==
    /\ course[c] = "active" /\ \A o \in world.carries[c] : custody[o] = "elsewhere"
    /\ course' = [course EXCEPT ![c] = "closed"] /\ kept' = facts
    /\ UNCHANGED <<world, custody, facts, houseVars, session, desk, requests, limits>>

\* Take-back closes a live course, the purge forgets any; then, and only then,
\* custody is asked where the packages are.
Sweep(c) ==
    /\ world.sweeps # "none" /\ ~Busy("sweep")
    /\ world.sweeps # "any" => AtRest
    /\ \/ course[c] \in Given /\ course' = [course EXCEPT ![c] = "closed"]
       \/ course[c] # "gone" /\ course' = [course EXCEPT ![c] = "gone"]
    /\ Ask("sweep", world.carries[c])
    /\ UNCHANGED <<world, custody, facts, kept, houseVars, session, desk, limits>>
FinishSweep ==
    /\ Ready("sweep") /\ Done("sweep") /\ kept' = facts
    /\ UNCHANGED <<world, custody, course, facts, houseVars, session, desk, limits>>

-----------------------------------------------------------------------------
(* The registry and the rider's code.                                      *)

Founder(act) == act \in world.founder /\ kept' = facts /\ UNCHANGED <<world, custody,
    course, facts, row, log, session, desk, requests, limits>>
Register ==
    /\ Founder("register") /\ ~roster.in
    /\ roster' = [roster EXCEPT !.in = TRUE] /\ UNCHANGED <<shift, clock>>
Certify ==
    /\ Founder("certify") /\ roster.in
    /\ roster' = [roster EXCEPT !.certified = ~@] /\ UNCHANGED <<shift, clock>>
MintCode ==
    /\ Founder("code") /\ roster.in /\ ~roster.code
    /\ roster' = [roster EXCEPT !.code = TRUE] /\ UNCHANGED <<shift, clock>>
RevokeCode ==
    /\ Founder("code") /\ roster.code
    /\ roster' = [roster EXCEPT !.code = FALSE] /\ UNCHANGED <<shift, clock>>
\* Refused while the book gives him a course; the founder vouches that he
\* holds nothing.  His shift goes with his row; the fleet's row of it stays.
RemoveRider ==
    /\ Founder("remove") /\ roster.in /\ \A c \in Course : course[c] \notin Given
    /\ \A o \in Order : custody[o] # "rider"
    /\ roster' = [in |-> FALSE, certified |-> FALSE, privacy |-> FALSE, code |-> FALSE]
    /\ shift' = "off" /\ UNCHANGED clock
AckPrivacy ==
    /\ roster.code /\ roster.in /\ ~roster.privacy
    /\ roster' = [roster EXCEPT !.privacy = TRUE] /\ kept' = facts
    /\ UNCHANGED <<world, custody, course, facts, shift, clock, row, log, session, desk,
                   requests, limits>>

-----------------------------------------------------------------------------
(* Custody on the road, and a restart of the object.                       *)

\* A package sealed into the rider's hands, on the course his phone shows him;
\* custody does not ask the book.
Seal(o) ==
    /\ custody[o] = "supplier"
    /\ \E c \in Course : o \in world.carries[c] /\
           IF world.seals = "at_rest" THEN AtRest /\ course[c] = "active"
           ELSE c \in session.course
    /\ custody' = [custody EXCEPT ![o] = "rider"]
    /\ UNCHANGED <<world, course, facts, kept, houseVars, session, desk, requests, limits>>
\* Dropped, or handed back.
Leave(o) ==
    /\ custody[o] = "rider" /\ custody' = [custody EXCEPT ![o] = "elsewhere"]
    /\ UNCHANGED <<world, course, facts, kept, houseVars, session, desk, requests, limits>>

\* The object restarts: the requests are gone, and the facts not yet stored.
Restart ==
    /\ restarts > 0 /\ ~AtRest /\ Turn
    /\ restarts' = restarts - 1 /\ facts' = kept
    /\ requests' = [r \in Request |-> Idle]
    /\ desk' = [desk EXCEPT !.card = IF @ = "sent" THEN "open" ELSE @]
    /\ UNCHANGED <<world, custody, course, kept, houseVars, starts, session, outages>>

Next ==
    \/ \E r \in Request, o \in Order : Answer(r, o) \/ Silence(r, o) \/ readCustodian(r, o)
    \/ BeginMoi \/ FinishMoi \/ StartShift
    \/ \E r \in {"end", "again"} : BeginEnd(r) \/ FinishEnd(r)
    \/ OpenCard \/ PutCardAway \/ BeginAuthorise \/ FinishAuthorise
    \/ \E c \in Course : Assign(c) \/ AnswerCourse(c) \/ CourseDone(c) \/ Sweep(c)
    \/ FinishSweep
    \/ Register \/ Certify \/ MintCode \/ RevokeCode \/ RemoveRider \/ AckPrivacy
    \/ \E o \in Order : Seal(o) \/ Leave(o)
    \/ Restart

Spec == Init /\ [][Next]_vars

\* Custody answers in the end, an answered request is finished, the
\* phone polls its session, and the rider taps until his shift is over; the desk
\* and the founder owe nothing.
FairSpec ==
    /\ Spec
    /\ \A r \in Request : \A o \in Order : WF_vars(Answer(r, o)) /\ WF_vars(readCustodian(r, o))
    /\ WF_vars(BeginMoi) /\ WF_vars(FinishMoi) /\ WF_vars(FinishAuthorise) /\ WF_vars(FinishSweep)
    /\ WF_vars(FinishEnd("end")) /\ WF_vars(FinishEnd("again")) /\ WF_vars(BeginEnd("end"))

-----------------------------------------------------------------------------
(* What the house promises.                                                *)

Carrying == \E o \in Order : custody[o] = "rider"

\* A shift does not end on a guess about a package: when it ends, the rider
\* still on the roster, every package custody places with him is one the
\* authorisation it ended under names (logistics-do.ts, the end of shift).
NothingLeftBehind ==
    [][(shift = "on" /\ shift' = "off" /\ roster'.in) =>
        \A o \in Order : custody[o] = "rider" =>
            Len(log') = Len(log) + 1 /\ o \in log'[Len(log')].packages]_vars

\* An authorisation ends one shift: no standing permission is left by the end
\* it authorised, and none comes back under the same command.
AuthorisedOnce == \A i, j \in DOMAIN log : log[i].ack = log[j].ack => i = j

\* A rider with nothing in hand who keeps asking is let go: no old answer of
\* custody, outage or restart keeps him on shift for ever.
FreeRiderEnds ==
    (shift = "on" /\ roster.code /\ ~Carrying) ~> (shift = "off" \/ ~roster.code \/ Carrying)

\* The fleet's clock runs exactly while the rider is on shift: not so once an
\* on-shift rider is removed, whose row stays open and is taken up again by
\* his next shift (flotte.ts, openShift and closeShift).
ClockAgrees == clock = "open" <=> shift = "on"
=============================================================================
