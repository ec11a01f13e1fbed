---------------------------- MODULE CourseWires ----------------------------
(***************************************************************************)
(* What the logistics object tells custody, and keeps telling until it is   *)
(* heard: the opening of each order's file, the pickup code of its course, *)
(* and the two keys of its return.                                         *)
(*                                                                         *)
(* Source: services/logistics-service/worker/logistics-do.ts.  Rows live   *)
(* in memory and are persisted by each request; one alarm drains them over *)
(* outgoing fetches, and requests come in while it waits: what it read     *)
(* when it started may be out of date when it writes.  The purge of an     *)
(* order waits on a fetch too.  A course's code is named by the course     *)
(* it was minted for.                                                      *)
(***************************************************************************)
EXTENDS Naturals

CONSTANTS
    Order,
    CourseId,    \* assignment ids
    Task,        \* delivery tasks
    Worlds,      \* the settings explored: [voyages, departed, supplied, doors,
                 \* configured, crashes], the sets of orders one course may
                 \* carry, the courses whose rider has his packages from the
                 \* start with their orders, the orders whose supplier is named
                 \* from the start, the requests that come in, whether the
                 \* custody binding has its key, and the bound on restarts
    None

ASSUME WorldsAssumption == \A w \in Worlds :
    /\ w.voyages \subseteq SUBSET Order /\ w.supplied \subseteq Order
    /\ DOMAIN w.departed \subseteq CourseId
    /\ \A a \in DOMAIN w.departed : w.departed[a] \in w.voyages
    /\ \E f \in [DOMAIN w.departed -> Task] :
         \A a, b \in DOMAIN w.departed : f[a] = f[b] => a = b
    /\ w.configured \in BOOLEAN /\ w.crashes \in Nat

VARIABLES
    world,    \* the setting of this behaviour, chosen once
    course,   \* the book: what each assignment carries, and whether it lives
    queued,   \* tasks waiting for a rider, with their orders
    facts,    \* what readiness and funding say of each order
    row,      \* custodyOutbox
    ret,      \* retours
    retiring, \* the purge waiting for custody's answer
    saved,    \* storage
    alarm,    \* an alarm is set
    at,       \* where the running alarm is, with what it has read
    cust,     \* custody: the file of each order, its code and return keys
    config,   \* the binding's key is set
    crashes

mem  == <<course, queued, facts, row, ret>>
vars == <<world, mem, retiring, saved, alarm, at, cust, config, crashes>>

Row == [phase : {"open", "arm", "done"}, rest : {"none", "no_config", "no_supplier"},
        task : Task, course : CourseId, supplier : BOOLEAN]
Key == {"rider", "seller"}
RetourRow == [orders : SUBSET Order, armed : SUBSET Order,
              phase : {"pending", "done"}, confirmed : BOOLEAN]
CourseRecord == [orders : SUBSET Order, task : Task, live : BOOLEAN]
Fact == {"absent", "ready", "supplied"}
File == [task : Task \cup {None}, code : CourseId \cup {None}, spent : BOOLEAN,
         answered : SUBSET CourseId, refused : SUBSET CourseId,
         keys : SUBSET (CourseId \X Key)]
Step == {"idle", "produce", "open", "arm", "keys", "rider", "seller"}

ASSUME NoneAssumption ==
    None \notin CourseRecord /\ None \notin Row /\ None \notin RetourRow

Courses == [CourseId -> CourseRecord \cup {None}]
Rows == [Order -> Row \cup {None}]
Retours == [CourseId -> RetourRow \cup {None}]
Retiring == [order : Order, had : BOOLEAN, facts : BOOLEAN]

\* What memory holds, and storage an image of.
Images == [course : Courses, queued : SUBSET [task : Task, orders : SUBSET Order],
           facts : [Order -> Fact], row : Rows, ret : Retours]
Image == [course |-> course, queued |-> queued, facts |-> facts, row |-> row,
          ret |-> ret]

\* What the running alarm holds across its awaits.
Alarm ==
    [step : Step, rows : Rows \cup {None}, rets : Retours \cup {None},
     todo : SUBSET (Order \cup CourseId), on : Order \cup CourseId \cup {None},
     left : SUBSET Order, armed : SUBSET Order, again : BOOLEAN]

TypeOK ==
    /\ world \in Worlds
    /\ Image \in Images /\ saved \in Images
    /\ retiring \in Retiring \cup {None}
    /\ cust \in [Order -> File]
    /\ alarm \in BOOLEAN /\ config \in BOOLEAN
    /\ at \in Alarm
    /\ crashes \in 0..world.crashes

Persist == saved' = Image'

Idle == [step |-> "idle", rows |-> None, rets |-> None, todo |-> {}, on |-> None,
         left |-> {}, armed |-> {}, again |-> FALSE]

Live(a) == course[a] # None /\ course[a].live
\* courseDe
CoursesOf(o) == {a \in CourseId : Live(a) /\ o \in course[a].orders}

Departed == DOMAIN world.departed
DepartedTask == CHOOSE f \in [Departed -> Task] :
    \A a, b \in Departed : f[a] = f[b] => a = b
CarrierAtStart(o) == {a \in Departed : o \in world.departed[a]}

Init ==
    /\ world \in Worlds
    /\ course = [a \in CourseId |-> IF a \in Departed
          THEN [orders |-> world.departed[a], task |-> DepartedTask[a], live |-> TRUE]
          ELSE None]
    /\ queued = {}
    /\ facts = [o \in Order |-> IF o \in world.supplied THEN "supplied" ELSE "ready"]
    /\ row = [o \in Order |-> IF CarrierAtStart(o) = {} THEN None
          ELSE LET a == CHOOSE x \in CarrierAtStart(o) : TRUE
               IN [phase |-> "done", rest |-> "none", task |-> DepartedTask[a],
                   course |-> a, supplier |-> TRUE]]
    /\ cust = [o \in Order |-> IF CarrierAtStart(o) = {}
          THEN [task |-> None, code |-> None, spent |-> FALSE, answered |-> {},
                refused |-> {}, keys |-> {}]
          ELSE LET a == CHOOSE x \in CarrierAtStart(o) : TRUE
               IN [task |-> DepartedTask[a], code |-> a, spent |-> TRUE,
                   answered |-> {a}, refused |-> {}, keys |-> {}]]
    /\ ret = [a \in CourseId |-> None]
    /\ retiring = None /\ alarm = FALSE /\ at = Idle
    /\ config = world.configured /\ crashes = 0
    /\ saved = Image

-----------------------------------------------------------------------------
(* Requests.  Each persists everything as it ends.  They come in while no  *)
(* alarm runs, or while it waits for custody.                              *)

Waiting == at.step \in {"open", "arm", "seller"} \/ (at.step = "rider" /\ at.left # {})
GateOpen == at = Idle \/ Waiting

FreshRow(a, t, o) ==
    [phase |-> "open", rest |-> "none", task |-> t, course |-> a,
     supplier |-> facts[o] = "supplied"]

\* A course's id is minted: one never used, which one is immaterial.
Minted == LET free == {a \in CourseId : course[a] = None}
          IN IF free = {} THEN {} ELSE {CHOOSE a \in free : TRUE}

\* /ops/assign, on a queued task or on one composed for the occasion: each
\* order of the voyage gets a row with the new course's code, and the alarm
\* is set.
Assign(a, t, os) ==
    /\ "assign" \in world.doors
    /\ a \in Minted /\ os \in world.voyages
    /\ \A o \in os : CoursesOf(o) = {} /\ facts[o] # "absent"
    /\ \/ [task |-> t, orders |-> os] \in queued
       \/ /\ \A q \in queued : q.orders \cap os = {} /\ q.task # t
          /\ \A b \in CourseId : course[b] # None => course[b].task # t
    /\ course' = [course EXCEPT ![a] = [orders |-> os, task |-> t, live |-> TRUE]]
    /\ queued' = {q \in queued : q.task # t}
    /\ row' = [o \in Order |-> IF o \in os THEN FreshRow(a, t, o) ELSE row[o]]
    /\ alarm' = TRUE
    /\ UNCHANGED <<world, facts, ret, retiring, at, cust, config, crashes>>
    /\ Persist

\* The rider declines, or his lease expires: the task is queued again.
Requeue(a) ==
    /\ "requeue" \in world.doors
    /\ Live(a)
    /\ course' = [course EXCEPT ![a].live = FALSE]
    /\ queued' = queued \cup {[task |-> course[a].task, orders |-> course[a].orders]}
    /\ UNCHANGED <<world, facts, row, ret, retiring, alarm, at, cust, config, crashes>>
    /\ Persist

\* /ops/assignment/take-back: the task is closed; the row stays.
TakeBack(a) ==
    /\ "take-back" \in world.doors
    /\ Live(a)
    /\ course' = [course EXCEPT ![a].live = FALSE]
    /\ UNCHANGED <<world, queued, facts, row, ret, retiring, alarm, at, cust, config,
                   crashes>>
    /\ Persist

Undone == {o \in Order : row'[o] # None /\ row'[o].phase # "done"}

\* Mutant: a row at rest is not worth an alarm.
ReviveTried == alarm' = (alarm \/ \E o \in Undone : row'[o].rest = "none")

\* reviveCustodyProduce: an alarm, if a row needs one and none is set.
Revive == alarm' = (alarm \/ Undone # {})

\* /intake/readiness names the supplier: a parked row learns it.
NameSupplier(o) ==
    /\ "supplier" \in world.doors
    /\ facts[o] # "supplied"
    /\ facts' = [facts EXCEPT ![o] = "supplied"]
    /\ IF row[o] # None /\ row[o].phase # "done" /\ ~row[o].supplier
       THEN row' = [row EXCEPT ![o].supplier = TRUE] /\ Revive
       ELSE UNCHANGED <<row, alarm>>
    /\ UNCHANGED <<world, course, queued, ret, retiring, at, cust, config, crashes>>
    /\ Persist

\* GET /ops/board, or a replayed /ops/assign.
Board ==
    /\ GateOpen
    /\ UNCHANGED <<world, mem, retiring, saved, at, cust, config, crashes>>
    /\ Revive /\ alarm' # alarm

\* /ops/order/retirer, as far as the fetch it awaits: the books forget the
\* order; whether it has a row has been looked at before.
RetireBegins(o) ==
    /\ "retire" \in world.doors
    /\ retiring = None
    /\ facts[o] # "absent" \/ row[o] # None
    /\ \A a \in CourseId : course[a] # None /\ o \in course[a].orders =>
           course[a].orders = {o}
    /\ course' = [a \in CourseId |->
           IF a \in CoursesOf(o) THEN [course[a] EXCEPT !.live = FALSE] ELSE course[a]]
    /\ queued' = {q \in queued : o \notin q.orders}
    /\ retiring' = [order |-> o, had |-> row[o] # None, facts |-> facts[o] # "absent"]
    /\ UNCHANGED <<world, facts, row, ret, saved, alarm, at, cust, config, crashes>>

\* ... and once custody has answered, or not: row and facts go.
RetireEnds ==
    /\ retiring # None
    /\ row' = IF retiring.had THEN [row EXCEPT ![retiring.order] = None] ELSE row
    /\ facts' = IF retiring.facts THEN [facts EXCEPT ![retiring.order] = "absent"]
                                  ELSE facts
    /\ retiring' = None
    /\ UNCHANGED <<world, course, queued, ret, alarm, at, cust, config, crashes>>
    /\ Persist

\* /produce/retour-ouvert: a new row, or an article that joins the bag.
ReturnOpened(o, a) ==
    /\ "return" \in world.doors
    /\ a \in CoursesOf(o) /\ cust[o].spent
    /\ \/ /\ ret[a] = None
          /\ ret' = [ret EXCEPT ![a] = [orders |-> {o}, armed |-> {},
                                        phase |-> "pending", confirmed |-> FALSE]]
       \/ /\ ret[a] # None /\ o \notin ret[a].orders
          /\ ret' = [ret EXCEPT ![a].orders = @ \cup {o}, ![a].phase = "pending"]
    /\ alarm' = TRUE
    /\ UNCHANGED <<world, course, queued, facts, row, retiring, at, cust, config, crashes>>
    /\ Persist

\* /intake/retour/verify: the supplier has the rider's code.
ReturnConfirmed(a) ==
    /\ "return" \in world.doors
    /\ Live(a) /\ ret[a] # None /\ ~ret[a].confirmed
    /\ ret' = [ret EXCEPT ![a].confirmed = TRUE]
    /\ UNCHANGED <<world, course, queued, facts, row, retiring, alarm, at, cust, config,
                   crashes>>
    /\ Persist

\* The rider enters at the supplier's the code custody has armed.
PickupVerified(a, o) ==
    /\ a \in CoursesOf(o) /\ cust[o].code = a /\ ~cust[o].spent
    /\ cust' = [cust EXCEPT ![o].spent = TRUE]
    /\ UNCHANGED <<world, mem, retiring, saved, alarm, at, config, crashes>>

-----------------------------------------------------------------------------
(* Custody's side: /order/open and /secrets/arm, as the wire sees them.    *)

\* An open is accepted once, then again under the same ids only.
OpenAccepted(f, t) == f.task \in {None, t}
Opened(f, t) == IF f.task = None THEN [f EXCEPT !.task = t] ELSE f

\* An arming is answered from memory under a command id seen before, refused
\* once the code is spent, and replaces the code otherwise.
ArmAccepted(f, a) == a \in f.answered \/ (a \notin f.refused /\ ~f.spent)
Armed(f, a) ==
    IF a \in f.answered \cup f.refused THEN f
    ELSE IF f.spent THEN [f EXCEPT !.refused = @ \cup {a}]
         ELSE [f EXCEPT !.code = a, !.answered = @ \cup {a}]

-----------------------------------------------------------------------------
(* The alarm: flushCustodyProduce, then flushRetourArm.                    *)

AlarmStarts ==
    /\ alarm /\ at = Idle
    /\ alarm' = FALSE
    /\ at' = [Idle EXCEPT !.step = "produce", !.rows = row,
                 !.todo = {o \in Order : row[o] # None /\ row[o].phase # "done"}]
    /\ UNCHANGED <<world, mem, retiring, saved, cust, config, crashes>>

\* Mutant: every row is merged onto the current one, as the return's flush does.
WriteBackMerged(o, phase, rest) ==
    [row EXCEPT ![o] = IF @ = None THEN [at.rows[o] EXCEPT !.phase = phase, !.rest = rest]
                       ELSE [@ EXCEPT !.phase = phase, !.rest = rest]]

\* A row is written back as it was read when the flush started.
WriteBack(o, phase, rest) ==
    [row EXCEPT ![o] = [at.rows[o] EXCEPT !.phase = phase, !.rest = rest]]

RestFor(r) == IF ~config THEN "no_config"
              ELSE IF ~r.supplier THEN "no_supplier" ELSE "none"

\* A row that cannot be sent rests.
ProduceRests(o) ==
    /\ at.step = "produce" /\ o \in at.todo
    /\ LET rest == RestFor(at.rows[o])
       IN /\ rest # "none"
          /\ row' = IF at.rows[o].rest = rest THEN row
                    ELSE WriteBack(o, at.rows[o].phase, rest)
    /\ at' = [at EXCEPT !.todo = @ \ {o}]
    /\ UNCHANGED <<world, course, queued, facts, ret, retiring, saved, alarm, cust,
                   config, crashes>>

ProduceSends(o) ==
    /\ at.step = "produce" /\ o \in at.todo /\ RestFor(at.rows[o]) = "none"
    /\ at' = [at EXCEPT !.on = o, !.todo = @ \ {o},
                 !.step = IF at.rows[o].phase = "open" THEN "open" ELSE "arm"]
    /\ UNCHANGED <<world, mem, retiring, saved, alarm, cust, config, crashes>>

\* A call custody processed or not, and whose answer was heard or not.
Calls == {c \in [processed : BOOLEAN, heard : BOOLEAN] : c.heard => c.processed}

OpenAnswered(call) ==
    LET o == at.on
        t == at.rows[o].task
        ok == call.heard /\ OpenAccepted(cust[o], t)
    IN /\ at.step = "open"
       /\ cust' = IF call.processed THEN [cust EXCEPT ![o] = Opened(@, t)] ELSE cust
       /\ IF ok THEN row' = row /\ at' = [at EXCEPT !.step = "arm"]
          ELSE /\ row' = WriteBack(o, "open", "none")
               /\ at' = [at EXCEPT !.step = "produce", !.on = None, !.again = TRUE]
       /\ UNCHANGED <<world, course, queued, facts, ret, retiring, saved, alarm, config,
                      crashes>>

ArmAnswered(call) ==
    LET o == at.on
        a == at.rows[o].course
        ok == call.heard /\ ArmAccepted(cust[o], a)
    IN /\ at.step = "arm"
       /\ cust' = IF call.processed THEN [cust EXCEPT ![o] = Armed(@, a)] ELSE cust
       /\ row' = WriteBack(o, IF ok THEN "done" ELSE "arm", "none")
       /\ at' = [at EXCEPT !.step = "produce", !.on = None, !.again = @ \/ ~ok]
       /\ UNCHANGED <<world, course, queued, facts, ret, retiring, saved, alarm, config,
                      crashes>>

\* The producer rows are stored; the return rows are read.
ProduceDone ==
    /\ at.step = "produce" /\ at.todo = {}
    /\ saved' = [saved EXCEPT !.row = row]
    /\ at' = [at EXCEPT !.step = "keys", !.rows = None, !.rets = ret,
                 !.todo = {a \in CourseId : ret[a] # None /\ ret[a].phase = "pending"}]
    /\ UNCHANGED <<world, mem, retiring, alarm, cust, config, crashes>>

\* The next row of a return: its orders that do not have their keys.
KeysBegin(a) ==
    /\ at.step = "keys" /\ a \in at.todo /\ config
    /\ at' = [at EXCEPT !.step = "rider", !.on = a, !.todo = @ \ {a},
                 !.left = at.rets[a].orders \ at.rets[a].armed,
                 !.armed = at.rets[a].armed]
    /\ UNCHANGED <<world, mem, retiring, saved, alarm, cust, config, crashes>>
KeysRest(a) ==
    /\ at.step = "keys" /\ a \in at.todo /\ ~config
    /\ at' = [at EXCEPT !.todo = @ \ {a}]
    /\ UNCHANGED <<world, mem, retiring, saved, alarm, cust, config, crashes>>

KeyArmed(o, k) == [cust EXCEPT ![o].keys = @ \cup {<<at.on, k>>}]

\* One key of one order: the seller's follows the rider's, and a failure ends
\* the row's turn.
KeyAnswered(o, call) ==
    /\ at.step \in Key /\ o \in at.left
    /\ cust' = IF call.processed THEN KeyArmed(o, at.step) ELSE cust
    /\ at' = CASE ~call.heard -> [at EXCEPT !.step = "rider", !.left = {}]
               [] call.heard /\ at.step = "rider" ->
                    [at EXCEPT !.step = "seller", !.left = {o}]
               [] call.heard /\ at.step = "seller" ->
                    [at EXCEPT !.step = "rider", !.armed = @ \cup {o},
                       !.left = (at.rets[at.on].orders \ at.armed) \ {o}]
    /\ UNCHANGED <<world, mem, retiring, saved, alarm, config, crashes>>

\* Mutant: the row is written back as it was read.
MergedCaptured(a) ==
    [at.rets[a] EXCEPT !.armed = at.armed,
        !.phase = IF at.rets[a].orders \subseteq at.armed THEN "done" ELSE "pending"]

\* The result is merged onto the row as it is now.
Merged(a) ==
    [ret[a] EXCEPT !.armed = at.armed,
        !.phase = IF ret[a].orders \subseteq at.armed THEN "done" ELSE "pending"]

KeysWritten ==
    /\ at.step = "rider" /\ at.left = {}
    /\ ret' = [ret EXCEPT ![at.on] = Merged(at.on)]
    /\ at' = [at EXCEPT !.step = "keys", !.on = None, !.armed = {},
                 !.again = @ \/ Merged(at.on).phase = "pending"]
    /\ UNCHANGED <<world, course, queued, facts, row, retiring, saved, alarm, cust,
                   config, crashes>>

\* Mutant: the alarm is not set again.
AlarmEndsForGood ==
    /\ at.step = "keys" /\ at.todo = {}
    /\ saved' = [saved EXCEPT !.ret = ret]
    /\ at' = Idle
    /\ UNCHANGED <<world, mem, retiring, alarm, cust, config, crashes>>

AlarmEnds ==
    /\ at.step = "keys" /\ at.todo = {}
    /\ saved' = [saved EXCEPT !.ret = ret]
    /\ alarm' = (alarm \/ at.again)
    /\ at' = Idle
    /\ UNCHANGED <<world, mem, retiring, cust, config, crashes>>

-----------------------------------------------------------------------------
(* Restarts.  A running alarm is run again; an unanswered purge is gone.   *)

Reload ==
    /\ course' = saved.course /\ queued' = saved.queued /\ facts' = saved.facts
    /\ row' = saved.row /\ ret' = saved.ret
    /\ retiring' = None
    /\ alarm' = (alarm \/ at # Idle)
    /\ at' = Idle
    /\ UNCHANGED <<world, saved, cust>>

Crash ==
    /\ crashes < world.crashes
    /\ crashes' = crashes + 1
    /\ Reload /\ UNCHANGED config

\* The binding's key is set, by a deployment.
SetConfig == ~config /\ config' = TRUE /\ Reload /\ UNCHANGED crashes

Request == GateOpen /\
    \/ \E a \in CourseId :
         \/ \E t \in Task, os \in world.voyages : Assign(a, t, os)
         \/ Requeue(a) \/ TakeBack(a) \/ ReturnConfirmed(a)
         \/ \E o \in Order : ReturnOpened(o, a)
    \/ \E o \in UNION world.voyages : NameSupplier(o) \/ RetireBegins(o)
    \/ RetireEnds
Pickup == \E a \in CourseId, o \in Order : PickupVerified(a, o)
Answered == \E call \in Calls :
    \/ OpenAnswered(call) \/ ArmAnswered(call)
    \/ \E o \in Order : KeyAnswered(o, call)
AlarmMoves ==
    \/ AlarmStarts \/ ProduceDone \/ KeysWritten \/ AlarmEnds
    \/ \E o \in Order : ProduceRests(o) \/ ProduceSends(o)
    \/ \E a \in CourseId : KeysBegin(a) \/ KeysRest(a)

Next == Request \/ Pickup \/ Board \/ Answered \/ AlarmMoves \/ Crash \/ SetConfig

Spec == Init /\ [][Next]_vars

Heard == [processed |-> TRUE, heard |-> TRUE]

\* The platform runs the alarm, custody answers in the end, the board is read.
FairSpec ==
    /\ Spec
    /\ WF_vars(AlarmMoves) /\ WF_vars(Answered) /\ WF_vars(Board)
    /\ WF_vars(GateOpen /\ RetireEnds) /\ WF_vars(SetConfig)
    /\ SF_vars(OpenAnswered(Heard)) /\ SF_vars(ArmAnswered(Heard))
    /\ \A o \in Order : SF_vars(at.step = "rider" /\ KeyAnswered(o, Heard))
                        /\ SF_vars(at.step = "seller" /\ KeyAnswered(o, Heard))

-----------------------------------------------------------------------------
(* Properties.                                                             *)

\* The code on the rider's phone is the code on custody: when the row of a
\* course under way is done, custody holds that course's code, even though the
\* alarm may have sent an older course's code in between.
DoneMeansItsCode ==
    \A a \in CourseId, o \in Order :
        (/\ Live(a) /\ o \in course[a].orders
         /\ row[o] # None /\ row[o].course = a /\ row[o].phase = "done")
        => cust[o].code = a

\* A return is armed when each article now in the bag has both keys, one that
\* joined while the alarm was waiting included.
ArmedMeansEveryKey ==
    \A a \in CourseId :
        ret[a] # None /\ ret[a].phase = "done" =>
            \A o \in ret[a].orders : {a} \X Key \subseteq cust[o].keys

\* Nothing said of a return is unsaid: neither an article that joined the bag,
\* nor the supplier's confirmation, by an alarm or by a restart.
ReturnsOnlyGrow ==
    [][\A a \in CourseId : ret[a] # None =>
         /\ ret'[a] # None
         /\ ret[a].orders \subseteq ret'[a].orders
         /\ ret[a].confirmed => ret'[a].confirmed]_vars

\* A return that is opened gets both its keys on every article, the binding's
\* key being there from the start.
ReturnKeysArrive ==
    \A a \in CourseId, o \in Order :
        (world.configured /\ ret[a] # None /\ o \in ret[a].orders) ~> ({a} \X Key \subseteq cust[o].keys)

\* The row a course gets is delivered: unless the course ends, or the row
\* is replaced, its code is armed -- on a file opened under its own task.
RowsAreDelivered ==
    \A a \in CourseId, o \in Order :
        (/\ Live(a) /\ row[o] # None /\ row[o].course = a /\ row[o].supplier
         /\ cust[o].task \in {None, row[o].task})
        ~> \/ cust[o].code = a \/ cust[o].spent \/ ~Live(a)
           \/ row[o] = None \/ row[o].course # a \/ ~row[o].supplier
           \/ cust[o].task \notin {None, row[o].task}

\* Stated by the source, and violated: the course and its road into custody
\* commit together.
EveryCourseHasItsRow ==
    \A a \in CourseId, o \in Order :
        Live(a) /\ o \in course[a].orders => row[o] # None /\ row[o].course = a

\* Stated by the source, and violated: a row rests for want of a supplier only
\* while readiness has named none.
ParkedForAReason ==
    \A o \in Order : row[o] # None /\ row[o].phase # "done" /\ ~row[o].supplier =>
        facts[o] # "supplied"

\* Stated by the source, and violated: a row that names a course confided after
\* a take-back replaces the dead course's code on custody.
DeadCodeDies ==
    \A a \in CourseId, o \in Order :
        (Live(a) /\ row[o] # None /\ row[o].course = a /\ row[o].supplier)
        ~> \/ cust[o].code = a \/ cust[o].spent \/ ~Live(a)
           \/ row[o] = None \/ row[o].course # a
=============================================================================
