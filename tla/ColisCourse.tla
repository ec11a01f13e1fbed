----------------------------- MODULE ColisCourse -----------------------------
(***************************************************************************)
(* One bag of several articles on one course: composed under its first     *)
(* travelling article, carried by one rider, settled article by article on *)
(* custody's word, sent home by one decision relayed to every ledger.      *)
(*                                                                         *)
(* Source: services/logistics-service/src/colis.ts, ready-queue.ts and the *)
(* doors of worker/logistics-do.ts.  Two of them wait on custody between   *)
(* their steps, and other requests come in meanwhile: the retirement of an *)
(* order and the relay of a return decision.  Custody keeps one ledger per *)
(* article and repeats each closing word until it is answered.             *)
(***************************************************************************)
EXTENDS Naturals, FiniteSets, SequencesExt

CONSTANTS
    Bag,       \* the package: its orders, first to last
    Task, CourseId,
    Cmd,       \* command ids of the console's « renvoyer »
    Worlds,    \* the settings explored: [doors, tasks, courses, cmds], the
               \* requests that come in and the ids in play
    None

Order == ToSet(Bag)

ASSUME BagAssumption == Bag \in Seq(Order) /\ IsInjective(Bag) /\ Bag # <<>>
ASSUME WorldsAssumption == \A w \in Worlds :
    w.tasks \subseteq Task /\ w.courses \subseteq CourseId /\ w.cmds \subseteq Cmd

VARIABLES
    world,    \* the setting of this behaviour, chosen once
    fund,     \* per article: what funding and readiness say, as its gate reads it
    named,    \* colisDe: articles whose membership is stored
    retired,  \* retires
    task,     \* the queue
    course,   \* the book, with each course's frozen articles
    reglement,\* colisCourses[a].reglement
    log,      \* flotte.courses: the endings counted
    opened,   \* retours[a].orderIds
    resched,  \* the open reschedule of each first article
    decided,  \* retourDecide
    retiring, \* the retirement waiting for custody's answer
    relay,    \* the return decision waiting for custody's answer
    file,     \* custody: one ledger per article
    wires     \* custody's words not yet answered

board == <<fund, named, retired, task, course, reglement, log, opened, resched,
           decided>>
vars  == <<world, board, retiring, relay, file, wires>>

Ending  == {"livree", "retournee"}
Live    == {"offered", "acknowledged"}
Funding == {"absent", "waiting", "cleared", "cancelled"}
Closed  == {"closed_rescheduled", "closed_taken_back"}

TaskRow   == [head : Order, status : {"queued", "assigned"} \cup Closed]
CourseRow == [head : Order, orders : SUBSET Order, task : Task, again : BOOLEAN,
              status : Live \cup {"delivered", "returned", "ended", "gone"}]
Swept     == [order : Order, courses : SUBSET CourseId, funded : BOOLEAN]
Retiring  == [left : Seq(Order), on : Swept \cup {None}, asked : Order,
              alone : BOOLEAN, some : BOOLEAN]
Relay     == [course : CourseId, cmd : Cmd, head : Order, left : SUBSET Order]
Ledger    == [place : {"supplier", "rider", "buyer", "home"},
              ladder : {"none", "reschedule", "return"}, back : BOOLEAN,
              heard : [Cmd -> {"no_word", "applied", "refused"}]]

ASSUME NoneAssumption ==
    /\ \A v \in SUBSET Order : v # None
    /\ None \notin Order /\ None \notin Ending /\ None \notin Task
    /\ None \notin TaskRow /\ None \notin CourseRow
    /\ None \notin Swept /\ None \notin Retiring /\ None \notin Relay

TypeOK ==
    /\ world \in Worlds
    /\ fund \in [Order -> Funding] /\ named \subseteq Order /\ retired \subseteq Order
    /\ task \in [Task -> TaskRow \cup {None}]
    /\ course \in [CourseId -> CourseRow \cup {None}]
    /\ reglement \in [CourseId -> [Order -> Ending \cup {None}]]
    /\ log \subseteq Order \X Ending
    /\ opened \in [CourseId -> SUBSET Order]
    /\ resched \in [Order -> Task \cup {None}]
    /\ decided \subseteq CourseId
    /\ retiring \in Retiring \cup {None} /\ relay \in Relay \cup {None}
    /\ file \in [Order -> Ledger]
    /\ wires \subseteq (Ending \cup {"retour", "reprogrammation"}) \X Order

Init ==
    /\ world \in Worlds
    /\ fund = [o \in Order |-> "absent"] /\ named = {} /\ retired = {}
    /\ task = [t \in Task |-> None] /\ course = [a \in CourseId |-> None]
    /\ reglement = [a \in CourseId |-> [o \in Order |-> None]]
    /\ log = {}
    /\ opened = [a \in CourseId |-> {}] /\ decided = {}
    /\ resched = [o \in Order |-> None]
    /\ retiring = None /\ relay = None /\ wires = {}
    /\ file = [o \in Order |-> [place |-> "supplier", ladder |-> "none", back |-> FALSE,
                                heard |-> [c \in Cmd |-> "no_word"]]]

-----------------------------------------------------------------------------
(* The bag.                                                                *)

Cancelled(o) == o \in retired \/ fund[o] = "cancelled"

\* The first article of a voyage, in the order of the bag.
First(v) == Bag[CHOOSE i \in DOMAIN Bag :
                    Bag[i] \in v /\ \A j \in 1..(i - 1) : Bag[j] \notin v]

\* Mutant: an article nobody funded yet is left behind.
VoyageursHasty(o) ==
    IF o \notin named THEN {o} ELSE {m \in named : ~Cancelled(m)}

\* An article's travelling package-mates, or None while one has no word yet.
Voyageurs(o) ==
    IF o \notin named THEN {o}
    ELSE IF \E m \in Order : m \notin named \/ (fund[m] = "absent" /\ m \notin retired)
         THEN None
         ELSE {m \in Order : ~Cancelled(m)}

\* admissionGate: every travelling article cleared, filed under the first.
Admitted(o) ==
    LET v == Voyageurs(o)
    IN /\ v # None /\ v # {}
       /\ First(v) = o
       /\ \A m \in v : fund[m] = "cleared"

LiveCourses   == {a \in CourseId : course[a] # None /\ course[a].status \in Live}
ArticlesOf(a) == course[a].orders
HeadOf(a)     == course[a].head
\* courseDe
CoursesOf(o)  == {a \in LiveCourses : o \in ArticlesOf(a)}
\* colisCourses: a course of one article has no entry.
IsColis(a)    == course[a] # None /\ ArticlesOf(a) # {HeadOf(a)}

\* Requests come in, and the relay goes on, while no retirement runs or while
\* it waits for custody.
GateOpen == retiring # None => retiring.on # None
Comes(door) == GateOpen /\ door \in world.doors

Facts(o) ==
    /\ Comes("facts")
    /\ \E s \in Funding \ {"absent"} :
         /\ s # fund[o]
         /\ s = "cancelled" => "cancel" \in world.doors
         /\ fund' = [fund EXCEPT ![o] = s]
    /\ named' = named \cup {o}
    /\ UNCHANGED <<world, retired, task, course, reglement, log, opened, resched, decided,
                   retiring, relay, file, wires>>

-----------------------------------------------------------------------------
(* The founder's doors.                                                    *)

\* Where a task asked for under any article is filed.
FiledUnder(o) == IF Voyageurs(o) = {} THEN {o} ELSE Voyageurs(o)

\* /ops/task: one open task for the whole voyage, and the admission's gate.
Accepted(o) ==
    LET v == FiledUnder(o)
    IN /\ v # None
       /\ \A q \in Task : task[q] # None /\ task[q].status \notin Closed =>
              task[q].head \notin v
       /\ Admitted(First(v))

\* Ids are minted: one never used, which one is immaterial.
Minted(ids, given) ==
    LET free == {i \in ids : given[i] = None}
    IN IF free = {} THEN {} ELSE {CHOOSE i \in free : TRUE}

ComposeTask(o, t) ==
    /\ Comes("compose")
    /\ t \in Minted(world.tasks, task) /\ Accepted(o)
    /\ task' = [task EXCEPT ![t] = [head |-> First(FiledUnder(o)), status |-> "queued"]]
    /\ UNCHANGED <<world, fund, named, retired, course, reglement, log, opened, resched,
                   decided, retiring, relay, file, wires>>

\* What /ops/a-preparer leaves out: every article of a task's voyage.
WithTask == UNION {LET h == task[t].head
                   IN {h} \cup (IF Voyageurs(h) = None THEN {} ELSE Voyageurs(h)) :
                   t \in {q \in Task : task[q] # None
                                       /\ task[q].status # "closed_taken_back"}}

\* GET /ops/a-preparer: one line per bag, under its first article.
APreparer ==
    {o \in Order \ WithTask : /\ fund[o] = "cleared"
                              /\ Voyageurs(o) # None /\ Voyageurs(o) # {}
                              /\ First(Voyageurs(o)) = o
                              /\ \A m \in Voyageurs(o) : fund[m] = "cleared"}

\* The articles a course freezes.
Frozen(h) == LET v == Voyageurs(h)
             IN IF v # None /\ v # {} /\ First(v) = h THEN v ELSE {h}

\* /ops/assign: the course carries the voyage as it stands.
Assign(t, a) ==
    /\ GateOpen
    /\ a \in Minted(world.courses, course)
    /\ task[t] # None /\ task[t].status = "queued"
    /\ Admitted(task[t].head)
    /\ course' = [course EXCEPT ![a] =
           [head |-> task[t].head, orders |-> Frozen(task[t].head), task |-> t,
            status |-> "offered", again |-> FALSE]]
    /\ task' = [task EXCEPT ![t].status = "assigned"]
    /\ reglement' = [reglement EXCEPT ![a] = [o \in Order |-> None]]
    /\ UNCHANGED <<world, fund, named, retired, log, opened, resched, decided, retiring,
                   relay, file, wires>>

Acknowledge(a) ==
    /\ GateOpen
    /\ a \in LiveCourses
    /\ course' = [course EXCEPT ![a].status = "acknowledged"]
    /\ UNCHANGED <<world, fund, named, retired, task, reglement, log, opened, resched,
                   decided, retiring, relay, file, wires>>

\* The rider declines, or his lease expires.
Requeue(a) ==
    /\ Comes("requeue")
    /\ a \in LiveCourses /\ course[a].status = "offered"
    /\ course' = [course EXCEPT ![a].status = "ended"]
    /\ task' = [task EXCEPT ![course[a].task].status = "queued"]
    /\ UNCHANGED <<world, fund, named, retired, reglement, log, opened, resched, decided,
                   retiring, relay, file, wires>>

\* /ops/assignment/take-back, asserting that custody has not begun.
TakeBack(a) ==
    /\ Comes("take-back")
    /\ a \in LiveCourses
    /\ \A o \in ArticlesOf(a) : file[o].place = "supplier"
    /\ course' = [course EXCEPT ![a].status = "ended"]
    /\ task' = [task EXCEPT ![course[a].task].status = "closed_taken_back"]
    /\ resched' = [resched EXCEPT ![HeadOf(a)] = None]
    /\ UNCHANGED <<world, fund, named, retired, reglement, log, opened, decided, retiring,
                   relay, file, wires>>

\* /ops/reprogrammer: the second passage of an acknowledged course, under a
\* new task; the gate is asked again.
Reprogram(a, t) ==
    /\ Comes("reprogram")
    /\ a \in LiveCourses /\ course[a].status = "acknowledged"
    /\ resched[HeadOf(a)] = course[a].task /\ task[course[a].task] # None
    /\ t \in Minted(world.tasks, task) /\ Admitted(HeadOf(a))
    /\ task' = [task EXCEPT ![course[a].task].status = "closed_rescheduled",
                            ![t] = [head |-> HeadOf(a), status |-> "assigned"]]
    /\ course' = [course EXCEPT ![a].task = t, ![a].again = TRUE]
    /\ resched' = [resched EXCEPT ![HeadOf(a)] = None]
    /\ UNCHANGED <<world, fund, named, retired, reglement, log, opened, decided, retiring,
                   relay, file, wires>>

-----------------------------------------------------------------------------
(* /ops/order/retirer.                                                     *)

\* An article of a bag a rider carries is refused.
RetireArticle(o) ==
    /\ Comes("retire") /\ retiring = None
    /\ o \in named
    /\ \A a \in CoursesOf(o) : ~IsColis(a)
    /\ retiring' = [left |-> <<o>>, on |-> None, asked |-> o, alone |-> TRUE, some |-> FALSE]
    /\ UNCHANGED <<world, board, relay, file, wires>>

\* The whole bag, from any of its articles.
RetireBag(o) ==
    /\ Comes("retire-bag") /\ retiring = None
    /\ o \in named
    /\ retiring' = [left |-> Bag, on |-> None, asked |-> o, alone |-> FALSE, some |-> FALSE]
    /\ UNCHANGED <<world, board, relay, file, wires>>

\* The book's records of an article; a forgotten one is "gone".
Records(o) == {a \in CourseId : course[a] # None /\ course[a].status # "gone"
                                /\ HeadOf(a) = o}
Known(o) == \/ fund[o] # "absent"
            \/ \E t \in Task : task[t] # None /\ task[t].head = o
            \/ Records(o) # {}

\* The books forget the article's rows, then custody is asked who holds it.
RetireSweeps ==
    /\ retiring # None /\ retiring.on = None /\ retiring.left # <<>>
    /\ LET o == Head(retiring.left)
           mine == Records(o)
       IN /\ retiring' = [retiring EXCEPT !.left = Tail(@),
                 !.on = IF Known(o) THEN [order |-> o, courses |-> mine,
                                          funded |-> fund[o] # "absent"] ELSE None,
                 !.some = @ \/ Known(o)]
          /\ task' = [t \in Task |-> IF task[t] # None /\ task[t].head = o
                                      THEN None ELSE task[t]]
          /\ course' = [a \in CourseId |-> IF a \in mine
                           THEN [course[a] EXCEPT !.status = "gone"] ELSE course[a]]
          /\ resched' = [resched EXCEPT ![o] = None]
    /\ UNCHANGED <<world, fund, named, retired, reglement, log, opened, decided, relay, file,
                   wires>>

\* Custody has answered, or not: the article's facts go.
RetireForgets ==
    /\ retiring # None /\ retiring.on # None
    /\ fund' = IF retiring.on.funded THEN [fund EXCEPT ![retiring.on.order] = "absent"]
                                     ELSE fund
    /\ course' = [a \in CourseId |-> IF a \in retiring.on.courses
                     THEN [course[a] EXCEPT !.orders = {retiring.on.order}]
                     ELSE course[a]]
    /\ retiring' = [retiring EXCEPT !.on = None]
    /\ UNCHANGED <<world, named, retired, task, reglement, log, opened, resched, decided,
                   relay, file, wires>>

\* One article alone is marked as travelling no more; a whole bag is forgotten.
RetireEnds ==
    /\ retiring # None /\ retiring.on = None /\ retiring.left = <<>>
    /\ named' = named \ IF retiring.alone THEN {} ELSE Order
    /\ retired' = IF retiring.alone
                  THEN retired \cup (IF retiring.some THEN {retiring.asked} ELSE {})
                  ELSE retired \ Order
    /\ retiring' = None
    /\ UNCHANGED <<world, fund, task, course, reglement, log, opened, resched, decided,
                   relay, file, wires>>

-----------------------------------------------------------------------------
(* Custody: one ledger per article, and its words.                         *)

Says(k, o) == wires' = wires \cup {<<k, o>>}
AtWork == UNCHANGED <<world, board, retiring, relay>>

Pickup(a, o) ==
    /\ a \in CoursesOf(o) /\ course[a].status = "acknowledged"
    /\ file[o].place = "supplier"
    /\ file' = [file EXCEPT ![o].place = "rider"]
    /\ UNCHANGED wires /\ AtWork

Drop(o) ==
    /\ file[o].place = "rider" /\ ~file[o].back
    /\ file' = [file EXCEPT ![o].place = "buyer"]
    /\ Says("livree", o) /\ AtWork

\* Nobody at the door.
Absent(o) ==
    /\ "absent" \in world.doors
    /\ file[o].place = "rider" /\ ~file[o].back /\ file[o].ladder = "none"
    /\ file' = [file EXCEPT ![o].ladder = "reschedule"]
    /\ Says("reprogrammation", o) /\ AtWork

\* The rider turns back: a valid refusal at the door, or the decision his phone
\* has read.
OpenReturn(o) ==
    /\ file[o].place = "rider" /\ ~file[o].back
    /\ \/ "refusal" \in world.doors
       \/ file[o].ladder = "return" /\ CoursesOf(o) \cap decided # {}
    /\ file' = [file EXCEPT ![o].back = TRUE]
    /\ Says("retour", o) /\ AtWork

\* Two keys at the supplier's, which the board arms for an opened return.
HandOver(o) ==
    /\ file[o].place = "rider" /\ file[o].back
    /\ \E a \in CourseId : o \in opened[a]
    /\ file' = [file EXCEPT ![o].place = "home"]
    /\ Says("retournee", o) /\ AtWork

-----------------------------------------------------------------------------
(* Custody's words, heard.  The answer may be lost, and the word said again. *)

Answered(k, o) == wires' \in {wires, wires \ {<<k, o>>}}

\* The colisCourses entries of an article.
Entries(o) == {a \in CourseId : IsColis(a) /\ o \in ArticlesOf(a)}
\* Mutant: any of them.
EntryFirst(o) == Entries(o)

\* The one its ending is read against: a live one first.
EntryFor(o) == IF Entries(o) \cap LiveCourses # {} THEN Entries(o) \cap LiveCourses
               ELSE Entries(o)

\* Mutant: the bag is settled with its first article.
ReglesFirst(a) == reglement'[a][HeadOf(a)] # None

\* colisRegle
Regles(a) == \A o \in ArticlesOf(a) : reglement'[a][o] # None

Ended(a) == IF \E o \in ArticlesOf(a) : reglement'[a][o] = "retournee"
            THEN "returned" ELSE "delivered"

\* A course of the book under the same first article already ended so: the
\* closing is answered as a duplicate.
Already(o, status) == \E a \in CourseId : /\ course[a] # None /\ HeadOf(a) = o
                                          /\ course[a].status = status

CloseIf(a, closes, status) ==
    IF closes /\ ~Already(HeadOf(a), status)
    THEN /\ course' = [course EXCEPT ![a].status = status]
         /\ resched' = [resched EXCEPT ![HeadOf(a)] = None]
    ELSE UNCHANGED <<course, resched>>

\* logCourse: once per article and ending.
Counted(o, k) == log' = log \cup {<<o, k>>}

\* Mutant: the fleet book is written once, when the bag is settled.
ReglerColisAtTheEnd(o, k, a) ==
    IF reglement[a][o] # None \/ a \notin LiveCourses
    THEN UNCHANGED <<reglement, log, course, resched>>
    ELSE /\ reglement' = [reglement EXCEPT ![a][o] = k]
         /\ IF Regles(a) THEN Counted(o, k) ELSE UNCHANGED log
         /\ CloseIf(a, Regles(a), Ended(a))

\* reglerColis, for an article some bag of the book has carried.
ReglerColis(o, k, a) ==
    IF reglement[a][o] # None \/ a \notin LiveCourses
    THEN UNCHANGED <<reglement, log, course, resched>>
    ELSE /\ reglement' = [reglement EXCEPT ![a][o] = k]
         /\ Counted(o, k)
         /\ CloseIf(a, Regles(a), Ended(a))

EndedBy(k) == IF k = "livree" THEN "delivered" ELSE "returned"

\* ... and for one never carried but alone: the book's own course, if any, and
\* nothing for a duplicate.
ReglerSeul(o, k) ==
    /\ UNCHANGED reglement
    /\ LET mine == {a \in LiveCourses : HeadOf(a) = o}
       IN IF mine = {} \/ Already(o, EndedBy(k)) THEN UNCHANGED <<log, course, resched>>
          ELSE \E a \in mine : Counted(o, k) /\ CloseIf(a, TRUE, EndedBy(k))

\* /produce/course-livree and /produce/course-retournee
CourseEnds(o, k) ==
    /\ GateOpen
    /\ <<k, o>> \in wires
    /\ IF Entries(o) = {} THEN ReglerSeul(o, k)
       ELSE \E a \in EntryFor(o) : ReglerColis(o, k, a)
    /\ Answered(k, o)
    /\ UNCHANGED <<world, fund, named, retired, task, opened, decided, retiring, relay, file>>

\* /produce/retour-ouvert
RetourOuvert(o) ==
    /\ GateOpen
    /\ <<"retour", o>> \in wires
    /\ \/ /\ CoursesOf(o) = {} /\ UNCHANGED <<opened, resched>>
       \/ \E a \in CoursesOf(o) : /\ opened' = [opened EXCEPT ![a] = @ \cup {o}]
                                  /\ resched' = [resched EXCEPT ![o] = None]
    /\ Answered("retour", o)
    /\ UNCHANGED <<world, fund, named, retired, task, course, reglement, log, decided,
                   retiring, relay, file>>

\* /produce/reprogrammation: the bag follows its first article's word, which
\* names the task of the first passage.
Reprogrammation(o) ==
    /\ GateOpen
    /\ <<"reprogrammation", o>> \in wires
    /\ LET mine == {a \in CoursesOf(o) : HeadOf(a) = o /\ ~course[a].again}
       IN IF mine = {} \/ resched[o] # None THEN UNCHANGED resched
          ELSE \E a \in mine : resched' = [resched EXCEPT ![o] = course[a].task]
    /\ Answered("reprogrammation", o)
    /\ UNCHANGED <<world, fund, named, retired, task, course, reglement, log, opened, decided,
                   retiring, relay, file>>

-----------------------------------------------------------------------------
(* /ops/retour/decider: relayed to every ledger, the first article's last. *)

DecideBegins(a, c) ==
    /\ Comes("decide") /\ relay = None
    /\ a \in LiveCourses /\ course[a].status = "acknowledged"
    /\ a \notin decided /\ opened[a] = {}
    /\ course[a].again \/ resched[HeadOf(a)] # None
    /\ relay' = [course |-> a, cmd |-> c, head |-> HeadOf(a),
                 left |-> ArticlesOf(a)]
    /\ UNCHANGED <<world, board, retiring, file, wires>>

\* custody's /return/apply: answered from memory under a command id seen before.
Verdict(f, c) ==
    IF f.heard[c] # "no_word" THEN f.heard[c]
    ELSE IF f.place = "rider" /\ ~f.back /\ f.ladder = "reschedule"
         THEN "applied" ELSE "refused"

ReturnApplied(f, c) ==
    [f EXCEPT !.heard[c] = Verdict(f, c),
              !.ladder = IF f.heard[c] = "no_word" /\ Verdict(f, c) = "applied"
                         THEN "return" ELSE @]

\* One ledger after the other, the first article's last.  A refusal, or no
\* answer, ends the relay; the ledger may have applied it.
RelaySends ==
    /\ GateOpen
    /\ relay # None
    /\ \E o \in relay.left :
          /\ o = relay.head => relay.left = {o}
          /\ file' = [file EXCEPT ![o] = ReturnApplied(@, relay.cmd)]
          /\ \/ /\ Verdict(file[o], relay.cmd) = "applied"
                /\ relay' = [relay EXCEPT !.left = @ \ {o}]
             \/ /\ Verdict(file[o], relay.cmd) = "refused" \/ "silence" \in world.doors
                /\ relay' = None
    /\ UNCHANGED <<world, board, retiring, wires>>

\* Mutant: the decision is remembered once the first ledger accepts.
DecideEndsEarly ==
    /\ GateOpen
    /\ relay # None /\ \E o \in Order : file[o].heard[relay.cmd] = "applied"
    /\ decided' = decided \cup {relay.course}
    /\ resched' = [resched EXCEPT ![relay.head] = None]
    /\ relay' = None
    /\ UNCHANGED <<world, fund, named, retired, task, course, reglement, log, opened,
                   retiring, file, wires>>

\* Every ledger accepted.
DecideEnds ==
    /\ GateOpen
    /\ relay # None /\ relay.left = {}
    /\ decided' = decided \cup {relay.course}
    /\ resched' = [resched EXCEPT ![relay.head] = None]
    /\ relay' = None
    /\ UNCHANGED <<world, fund, named, retired, task, course, reglement, log, opened,
                   retiring, file, wires>>

Founder ==
    \/ \E o \in Order, t \in Task : ComposeTask(o, t)
    \/ \E t \in Task, a \in CourseId : Assign(t, a)
    \/ \E a \in CourseId : \/ TakeBack(a)
                           \/ \E t \in Task : Reprogram(a, t)
                           \/ \E c \in world.cmds : DecideBegins(a, c)
    \/ \E o \in Order : RetireArticle(o) \/ RetireBag(o)
Phone == \E a \in CourseId : Acknowledge(a) \/ Requeue(a)
Heard == \E o \in Order : \/ \E k \in Ending : CourseEnds(o, k)
                          \/ RetourOuvert(o) \/ Reprogrammation(o)
Requests == (\E o \in Order : Facts(o)) \/ Founder \/ Phone \/ Heard \/ RelaySends
            \/ DecideEnds
Retirement == RetireSweeps \/ RetireForgets \/ RetireEnds
Custody == \E o \in Order : \/ \E a \in CourseId : Pickup(a, o)
                            \/ Drop(o) \/ Absent(o) \/ OpenReturn(o) \/ HandOver(o)

Next == Requests \/ Retirement \/ Custody

Spec == Init /\ [][Next]_vars

\* Custody says each word until it is answered; the founder repeats a decision
\* custody has not wholly taken.
FairSpec ==
    /\ Spec
    /\ \A o \in Order, k \in Ending : WF_vars(CourseEnds(o, k))
    /\ WF_vars(RelaySends) /\ WF_vars(DecideEnds)
    /\ SF_vars(\E a \in CourseId, c \in world.cmds : DecideBegins(a, c))

-----------------------------------------------------------------------------
(* Properties.                                                             *)

\* An article is on the fleet book under its own ending and no other.
CountedAsItEnded(o) ==
    {k \in Ending : <<o, k>> \in log} =
        {IF file[o].place = "buyer" THEN "livree" ELSE "retournee"}

\* A bag's course ends with its last article, as custody ended each of them:
\* returned if any went home, delivered if all reached the buyer; never sooner,
\* never on another ending. Each article of an ended course is counted once, as
\* it ended, whatever is said twice.
EndsWithItsBag ==
    \A a \in CourseId :
        /\ IsColis(a) /\ course[a].status = "delivered" =>
               \A o \in ArticlesOf(a) : file[o].place = "buyer"
        /\ IsColis(a) /\ course[a].status = "returned" =>
               /\ \A o \in ArticlesOf(a) : file[o].place \in {"buyer", "home"}
               /\ \E o \in ArticlesOf(a) : file[o].place = "home"
        /\ course[a] # None /\ course[a].status \in {"delivered", "returned"} =>
               \A o \in ArticlesOf(a) : CountedAsItEnded(o)

\* No word of custody is lost: an article whose ending was answered is on no
\* live course that still waits for it.
HeardIsSettled ==
    \A a \in LiveCourses : \A o \in ArticlesOf(a) :
        file[o].place \in {"buyer", "home"} /\ reglement[a][o] = None =>
            <<IF file[o].place = "buyer" THEN "livree" ELSE "retournee", o>> \in wires

\* It holds as long as no article is taken out of the bag: one declined whole,
\* then cut down to one article, keeps a course custody cannot end.
Shrinks == {"cancel", "retire", "retire-bag"}
WholeBagIsSettled == Shrinks \cap world.doors = {} => HeardIsSettled

\* The decision is shown to the rider once every article's ledger holds it.
DecidedOnEveryLedger ==
    \A a \in decided : \A o \in ArticlesOf(a) :
        \E c \in Cmd : file[o].heard[c] = "applied"

\* A bag leaves whole: an article left behind was cancelled or retired.
Whole(a) == \A o \in Order \ course'[a].orders : Cancelled(o)
Departs(a) == course[a] = None /\ course'[a] # None
LeavesWhole == [][\A a \in CourseId : Departs(a) => Whole(a)]_vars

\* It does, but while the whole bag is being retired.
LeavesWholeUnlessPurged ==
    [][\A a \in CourseId :
          Departs(a) /\ "retire-bag" \notin world.doors => Whole(a)]_vars

\* When custody has ended every article of a course, the course ends and frees
\* its rider, whichever word comes first or twice.
EndedEverywhereEnds ==
    \A a \in CourseId :
        (a \in LiveCourses /\ \A o \in ArticlesOf(a) : file[o].place \in {"buyer", "home"})
        ~> a \notin LiveCourses

\* A decision some ledger holds is completed by repeating it.
DecisionCompletes ==
    \A a \in CourseId :
        (a \in LiveCourses /\ \E o \in ArticlesOf(a) : file[o].ladder = "return")
        ~> (a \notin LiveCourses \/ a \in decided)

\* The rest of a bag stays composable: no article it waits for has been retired
\* without saying that it travels no more.
RestGoesOn ==
    retiring = None => \A o \in named : fund[o] = "absent" => o \in retired

\* What the founder is offered to compose, the door accepts.
OfferedIsAccepted == \A o \in APreparer : Accepted(o)

\* One bag in one pair of hands: an article is on one live course.
OneCoursePerArticle == \A o \in Order : Cardinality(CoursesOf(o)) <= 1

\* An article retired alone is on no course of several articles.
RetiredIsNotCarried ==
    \A o \in retired : \A a \in CoursesOf(o) : ~IsColis(a)
=============================================================================
