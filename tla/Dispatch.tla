------------------------------ MODULE Dispatch ------------------------------
(***************************************************************************)
(* Who carries which course: the ready queue, the assignment book, the     *)
(* witness of granted leases and the reschedule book, orchestrated by      *)
(* LeasedDispatch over the lease authority, inside one logistics object.   *)
(*                                                                         *)
(* Source: services/logistics-service/src/leased-assignment.ts,            *)
(* manual-assignment.ts, ready-queue.ts, reschedule.ts and the doors of    *)
(* worker/logistics-do.ts.  The authority answers with a resolved promise, *)
(* so nothing comes in between and a door is one action.  Every request    *)
(* but a GET ends by persisting all the books; the board, a GET, sweeps    *)
(* the expired leases and saves nothing.  A restart reads back what was    *)
(* saved.                                                                  *)
(***************************************************************************)
EXTENDS LeaseAuthority, FiniteSets

CONSTANTS
    Order,
    ProducerTask,   \* task ids a producer's event names; the others are minted
    ProducerOrder,  \* the order of each of them
    AssignmentId,   \* ids of courses, minted at random: each used once
    AssignCommand,  \* command ids of the console's « confier »
    RawCommand,     \* command ids sent straight to /authority/dispatch
    Worlds,         \* the settings explored: [tasks, again, raw, ops, fickle,
                    \* until, restarts], the task ids in play, those a producer
                    \* names again after their order was retired, the raw
                    \* command ids, the instants the founder may name to
                    \* /ops/expire-due, the orders and riders whose facts
                    \* change, the last instant, the bound on restarts
    None            \* no row

\* The command ids the object makes up itself: each names the act and the row.
OwnIds ==
    ({"rollback"} \X AssignCommand \X Version)
    \cup ({"ack", "decline", "take-back"} \X AssignmentId)
    \cup ({"complete"} \X TaskId)
    \cup ({"expire-due"} \X Time)
\* Every command id that reaches the authority.
DispatchIds == AssignCommand \cup RawCommand \cup OwnIds

ASSUME IdsAssumption     == DispatchIds \subseteq CommandId
\* The console's ids are cmd-console-assign-<task>-<instant>: none is the object's.
ASSUME ConsoleAssumption == AssignCommand \cap OwnIds = {}
ASSUME ProducerAssumption ==
    /\ ProducerTask \subseteq TaskId
    /\ ProducerOrder \in [ProducerTask -> Order]
ASSUME WorldsAssumption == Worlds \subseteq
    [tasks : SUBSET TaskId, again : SUBSET TaskId, raw : SUBSET RawCommand,
     ops : SUBSET Time, fickle : SUBSET (Order \cup Rider), until : Time, restarts : Nat]
ASSUME ClockAssumption == \A w \in Worlds : 0..w.until \subseteq Time

VARIABLES
    witness,    \* GrantedLeaseWitness: refs of the leases granted here
    book,       \* AssignmentBook.assignments
    remembered, \* AssignmentBook.appliedCommandIds: the course a command made
    tasks,      \* ReadyQueue.tasks
    processed,  \* ReadyQueue.processedCommandIds, one event per producer task
    open,       \* RescheduleBook.openReschedules: order -> task, or None
    lineage,    \* tasks that follow another one
    gate,       \* orders funded, ready and not stale (admissionGate)
    onShift,    \* riders the registry says are assignable
    used,       \* minted ids already given
    world,      \* the setting of this behaviour, chosen once
    clock,
    saved,      \* what the last persist() wrote
    restarts

facts == <<gate, onShift>>
books == <<leaseState, witness, book, remembered, tasks, processed, open,
           lineage>>
vars  == <<world, books, facts, used, clock, saved, restarts>>

ActiveStatus  == {"active_unacknowledged", "ack_pending_offline", "acknowledged"}
AwaitingAck   == ActiveStatus \ {"acknowledged"}
EndedStatus   == {"returned_to_queue", "taken_back_by_dispatch", "delivered",
                  "returned"}
Course == [status : ActiveStatus \cup EndedStatus, task : TaskId,
           order : Order, rider : Rider, lease : LeaseRef]
Closed == {"closed_rescheduled", "closed_taken_back"}
QueuedTask == [status : {"queued", "assigned"} \cup Closed, order : Order]

ASSUME NoneAssumption == None \notin Course \cup QueuedTask \cup TaskId \cup AssignmentId

TypeOK ==
    /\ world \in Worlds
    /\ leaseState \in AuthorityState
    /\ witness \subseteq LeaseRef
    /\ book \in [AssignmentId -> Course \cup {None}]
    /\ remembered \in [AssignCommand -> AssignmentId \cup {None}]
    /\ tasks \in [TaskId -> QueuedTask \cup {None}]
    /\ processed \subseteq ProducerTask
    /\ open \in [Order -> TaskId \cup {None}]
    /\ lineage \subseteq TaskId
    /\ gate \subseteq Order /\ onShift \subseteq Rider
    /\ used \subseteq AssignmentId \cup TaskId
    /\ clock \in Nat /\ restarts \in 0..world.restarts

Courses(b)       == {a \in DOMAIN b : b[a] # None}
ActiveCourses(b) == {a \in Courses(b) : b[a].status \in ActiveStatus}

\* A minted id is one never used; which one is immaterial.
Minted(ids) == IF ids \ used = {} THEN {} ELSE {CHOOSE x \in ids \ used : TRUE}

\* The books as the storage holds them.
Image == [leaseState |-> leaseState, witness |-> witness, book |-> book,
          remembered |-> remembered, tasks |-> tasks, processed |-> processed,
          open |-> open, lineage |-> lineage, gate |-> gate,
          onShift |-> onShift]

Init ==
    /\ world \in Worlds
    /\ LeaseInit
    /\ witness = {} /\ processed = {} /\ lineage = {} /\ used = {}
    /\ book = [a \in AssignmentId |-> None]
    /\ remembered = [c \in AssignCommand |-> None]
    /\ tasks = [t \in TaskId |-> None]
    /\ open = [o \in Order |-> None]
    /\ gate = Order /\ onShift = Rider
    /\ clock = 0 /\ restarts = 0
    /\ saved = Image

\* fetch(): persist() after every request but a GET.
Persist == saved' = Image'

-----------------------------------------------------------------------------
(* Facts from outside: funding and readiness, the riders' shifts, time.    *)

FactsChange(o) ==
    /\ o \in world.fickle
    /\ gate' = (gate \ {o}) \cup ({o} \ gate)
    /\ UNCHANGED <<world, books, onShift, used, clock, restarts>>
    /\ Persist

ShiftChange(r) ==
    /\ r \in world.fickle
    /\ onShift' = (onShift \ {r}) \cup ({r} \ onShift)
    /\ UNCHANGED <<world, books, gate, used, clock, restarts>>
    /\ Persist

Tick ==
    /\ clock < world.until
    /\ clock' = clock + 1
    /\ UNCHANGED <<world, books, facts, used, saved, restarts>>

-----------------------------------------------------------------------------
(* The queue.                                                              *)

OpenTasks(o) ==
    {t \in TaskId : tasks[t] # None /\ tasks[t].order = o
                    /\ tasks[t].status \notin Closed}

\* recheckAssignable
Assignable(t) ==
    /\ tasks[t] # None /\ tasks[t].status = "queued"
    /\ tasks[t].order \in gate

\* requeue never reopens a closed task.
Requeued(ts, which) ==
    [t \in TaskId |-> IF t \in which /\ ts[t] # None /\ ts[t].status \notin Closed
                      THEN [ts[t] EXCEPT !.status = "queued"] ELSE ts[t]]

\* markAssigned, closeRescheduled, closeTakenBack: a missing row stays missing.
Marked(ts, t, status) ==
    IF ts[t] = None THEN ts ELSE [ts EXCEPT ![t].status = status]

Queued(o) == [status |-> "queued", order |-> o]

\* Mutant: an event naming an id the queue already holds overwrites its row.
TaskReadyOverwrites(t) ==
    LET o == ProducerOrder[t]
    IN /\ t \in ProducerTask \cap world.tasks
       /\ ~(t \in processed /\ OpenTasks(o) # {})
       /\ t \in processed => t \in world.again
       /\ o \in gate
       /\ tasks' = [tasks EXCEPT ![t] = Queued(o)]
       /\ processed' = processed \cup {t}
       /\ UNCHANGED <<world, leaseState, witness, book, remembered, open, lineage,
                      facts, used, clock, restarts>>
       /\ Persist

\* /intake/task-ready: the producer names the task.  A processed event whose
\* order has an open task is a duplicate; an id still in the queue is refused.
TaskReady(t) ==
    LET o == ProducerOrder[t]
    IN /\ t \in ProducerTask \cap world.tasks
       /\ ~(t \in processed /\ OpenTasks(o) # {})
       /\ t \in processed => t \in world.again
       /\ tasks[t] = None
       /\ o \in gate
       /\ tasks' = [tasks EXCEPT ![t] = Queued(o)]
       /\ processed' = processed \cup {t}
       /\ UNCHANGED <<world, leaseState, witness, book, remembered, open, lineage,
                      facts, used, clock, restarts>>
       /\ Persist

\* /ops/task: the founder composes, the id is minted, one open task per order.
ComposeTask(o, t) ==
    /\ t \in Minted(world.tasks \ ProducerTask)
    /\ OpenTasks(o) = {}
    /\ o \in gate
    /\ tasks' = [tasks EXCEPT ![t] = Queued(o)]
    /\ used' = used \cup {t}
    /\ UNCHANGED <<world, leaseState, witness, book, remembered, processed, open,
                   lineage, facts, clock, restarts>>
    /\ Persist

-----------------------------------------------------------------------------
(* The assignment.                                                         *)

AcquireCmd(c, t, r) ==
    [kind |-> "acquire", id |-> c, taskId |-> t, riderId |-> r, at |-> clock,
     eligible |-> r \in onShift /\ Assignable(t)]
ReleaseCmd(id, t) == [kind |-> "release", id |-> id, taskId |-> t]

\* What the book's replay answers: the course this command made, while it lives.
RememberedCourse(c) ==
    {a \in ActiveCourses(book) : a = remembered[c]}

\* The book's own checks, under the granted ref.
BookAccepts(ref, w, t, r) ==
    /\ ref.taskId = t /\ ref.riderId = r
    /\ ref \in w
    /\ Assignable(t)
    /\ r \in onShift
    /\ \A a \in ActiveCourses(book) : book[a].rider # r /\ book[a].task # t

\* GrantedLeaseWitness: a fresh grant is registered, a replayed one was before.
Vouched(d) == IF d.replay THEN witness ELSE witness \cup d.refs

\* The course the book writes under the granted ref.
NewCourse(ref, t, r) ==
    [status |-> "active_unacknowledged", task |-> t, order |-> tasks[t].order,
     rider |-> r, lease |-> ref]

\* LeasedDispatch.assign: acquire, witness a fresh grant, then the book; a
\* refusal of the book revokes the ref and releases the grant, by its version.
Assign(c, t, r, a) ==
    LET d   == decideLease(leaseState, AcquireCmd(c, t, r))
        ref == CHOOSE x \in d.refs : TRUE
        w   == Vouched(d)
    IN /\ d.ok
       /\ UNCHANGED <<world, processed, open, lineage, facts, clock, restarts>>
       /\ \/ /\ RememberedCourse(c) # {}
             /\ leaseState' = d.state /\ witness' = w
             /\ UNCHANGED <<book, remembered, tasks, used>>
          \/ /\ RememberedCourse(c) = {}
             /\ BookAccepts(ref, w, t, r)
             /\ a \in Minted(AssignmentId)
             /\ leaseState' = d.state /\ witness' = w
             /\ book' = [book EXCEPT ![a] = NewCourse(ref, t, r)]
             /\ remembered' = [remembered EXCEPT ![c] = a]
             /\ tasks' = Marked(tasks, t, "assigned")
             /\ used' = used \cup {a}
          \/ /\ RememberedCourse(c) = {}
             /\ ~BookAccepts(ref, w, t, r)
             /\ witness' = w \ {ref}
             /\ leaseState' = decideLease(d.state,
                    ReleaseCmd(<<"rollback", c, ref.version>>, t)).state
             /\ UNCHANGED <<book, remembered, tasks, used>>
       /\ Persist

\* Mutant: the acknowledgement does not anchor the lease.
AcknowledgeWithoutAnchor(a) ==
    /\ book[a] # None /\ book[a].status \in AwaitingAck
    /\ book' = [book EXCEPT ![a].status = "acknowledged"]
    /\ UNCHANGED <<world, leaseState, witness, remembered, tasks, processed, open,
                   lineage, facts, used, clock, restarts>>
    /\ Persist

\* The rider's acknowledgement, confirmed by the server.
Acknowledge(a) ==
    /\ book[a] # None /\ book[a].status \in AwaitingAck
    /\ book' = [book EXCEPT ![a].status = "acknowledged"]
    /\ leaseState' = decideLease(leaseState,
           [kind |-> "anchor", id |-> <<"ack", a>>, taskId |-> book[a].task]).state
    /\ UNCHANGED <<world, witness, remembered, tasks, processed, open, lineage, facts,
                   used, clock, restarts>>
    /\ Persist

\* Mutant: an acknowledgement queued on the phone anchors the lease.
AcknowledgeOfflineAnchors(a) ==
    /\ book[a] # None /\ book[a].status \in AwaitingAck
    /\ book' = [book EXCEPT ![a].status = "ack_pending_offline"]
    /\ leaseState' = decideLease(leaseState,
           [kind |-> "anchor", id |-> <<"ack", a>>, taskId |-> book[a].task]).state
    /\ UNCHANGED <<world, witness, remembered, tasks, processed, open, lineage, facts,
                   used, clock, restarts>>
    /\ Persist

\* An acknowledgement queued on the phone confers nothing.
AcknowledgeOffline(a) ==
    /\ book[a] # None /\ book[a].status \in AwaitingAck
    /\ book' = [book EXCEPT ![a].status = "ack_pending_offline"]
    /\ UNCHANGED <<world, leaseState, witness, remembered, tasks, processed, open,
                   lineage, facts, used, clock, restarts>>
    /\ Persist

\* The book's half of a decline: the task is offered again.
Returned(a) ==
    /\ book[a] # None /\ book[a].status \in AwaitingAck
    /\ book' = [book EXCEPT ![a].status = "returned_to_queue"]
    /\ tasks' = Requeued(tasks, {book[a].task})

Decline(a) ==
    /\ Returned(a)
    /\ witness' = witness \ {book[a].lease}
    /\ leaseState' = decideLease(leaseState,
           ReleaseCmd(<<"decline", a>>, book[a].lease.taskId)).state
    /\ UNCHANGED <<world, remembered, processed, open, lineage, facts, used, clock,
                   restarts>>
    /\ Persist

\* The book's half of a take-back: the task is closed for good.
TakenBack(a) ==
    /\ book[a] # None /\ book[a].status \in ActiveStatus
    /\ book' = [book EXCEPT ![a].status = "taken_back_by_dispatch"]
    /\ tasks' = Marked(tasks, book[a].task, "closed_taken_back")

\* Mutant: the lease is released by the course's task, not by its own.
TakeBackByTask(a) ==
    /\ TakenBack(a)
    /\ open' = [open EXCEPT ![book[a].order] = None]
    /\ witness' = witness \ {book[a].lease}
    /\ leaseState' = decideLease(leaseState,
           ReleaseCmd(<<"take-back", a>>, book[a].task)).state
    /\ UNCHANGED <<world, remembered, processed, lineage, facts, used, clock, restarts>>
    /\ Persist

\* /ops/assignment/take-back, by the course's id.
TakeBack(a) ==
    /\ TakenBack(a)
    /\ open' = [open EXCEPT ![book[a].order] = None]
    /\ witness' = witness \ {book[a].lease}
    /\ leaseState' = decideLease(leaseState,
           ReleaseCmd(<<"take-back", a>>, book[a].lease.taskId)).state
    /\ UNCHANGED <<world, remembered, processed, lineage, facts, used, clock, restarts>>
    /\ Persist

-----------------------------------------------------------------------------
(* The end of a course, and its second passage.                            *)

\* Custody's word, by order: delivered, or back at its supplier.  The task
\* stays assigned; the release is named by the lease's task.
Complete(o, a, outcome) ==
    /\ a \in ActiveCourses(book) /\ book[a].order = o
    /\ \A b \in Courses(book) : book[b].order = o => book[b].status # outcome
    /\ book' = [book EXCEPT ![a].status = outcome]
    /\ open' = [open EXCEPT ![o] = None]
    /\ witness' = witness \ {book[a].lease}
    /\ leaseState' = decideLease(leaseState,
           ReleaseCmd(<<"complete", book[a].lease.taskId>>,
                      book[a].lease.taskId)).state
    /\ UNCHANGED <<world, remembered, tasks, processed, lineage, facts, used, clock,
                   restarts>>
    /\ Persist
Deliver(o, a) == Complete(o, a, "delivered")
ReturnToSupplier(o, a) == Complete(o, a, "returned")

\* /produce/reprogrammation: custody names the task of the first passage.
RecordReschedule(a) ==
    /\ a \in ActiveCourses(book)
    /\ book[a].task \notin lineage
    /\ open[book[a].order] = None
    /\ open' = [open EXCEPT ![book[a].order] = book[a].task]
    /\ UNCHANGED <<world, leaseState, witness, book, remembered, tasks, processed,
                   lineage, facts, used, clock, restarts>>
    /\ Persist

\* openFollowUpTask: the outcome must name the prior task, the new id must be
\* new, and the order must pass the gate again.
FollowUpAdmitted(o, prior, n) ==
    /\ open[o] = prior
    /\ n \notin lineage \cup {prior} /\ tasks[n] = None
    /\ o \in gate

\* Mutant: the prior task stays in the queue.
FollowedKeepingPrior(ts, o, prior, n) == [ts EXCEPT ![n] = Queued(o)]

\* The queue once the follow-up is admitted and the prior task closed.
Followed(ts, o, prior, n) ==
    [Marked(ts, prior, "closed_rescheduled") EXCEPT ![n] = Queued(o)]

\* retargetTask: an acknowledged course moves to a queued task of its order.
Retargetable(a, n, ts) ==
    /\ book[a].status = "acknowledged"
    /\ ts[n] = Queued(book[a].order)

\* /ops/reprogrammer: a follow-up task is admitted, the prior one closed, and
\* the course moves; its lease and its rider stay.
Reprogram(a, n) ==
    LET o  == book[a].order
        ts == Followed(tasks, o, book[a].task, n)
    IN /\ a \in ActiveCourses(book)
       /\ tasks[book[a].task] # None
       /\ n \in Minted(world.tasks \ ProducerTask)
       /\ FollowUpAdmitted(o, book[a].task, n)
       /\ Retargetable(a, n, ts)
       /\ tasks' = Marked(ts, n, "assigned")
       /\ lineage' = lineage \cup {n}
       /\ open' = [open EXCEPT ![o] = None]
       /\ book' = [book EXCEPT ![a].task = n]
       /\ used' = used \cup {n}
       /\ UNCHANGED <<world, leaseState, witness, remembered, processed, facts, clock,
                      restarts>>
       /\ Persist

-----------------------------------------------------------------------------
(* Expiry, retirement, the raw door, restarts.                             *)

\* The courses an expired task takes with it.
OnTasks(S) == {a \in ActiveCourses(book) : book[a].task \in S}

\* Mutant: a replayed sweep drives the book with the list it remembers.
SweepReplayed(now) ==
    LET d == decideLease(leaseState, [kind |-> "expire_due",
                                      id |-> <<"expire-due", now>>, now |-> now])
        gone == OnTasks({r.taskId : r \in d.refs})
    IN /\ leaseState' = d.state
       /\ witness' = witness \ d.refs
       /\ book' = [a \in AssignmentId |->
              IF a \in gone THEN [book[a] EXCEPT !.status = "returned_to_queue"]
                            ELSE book[a]]
       /\ tasks' = Requeued(tasks, {book[a].task : a \in gone})
       /\ UNCHANGED <<world, remembered, processed, open, lineage, facts, used, clock,
                      restarts>>

\* expireDue: a replayed sweep drives nothing.
Sweep(now) ==
    LET d == decideLease(leaseState, [kind |-> "expire_due",
                                      id |-> <<"expire-due", now>>, now |-> now])
        gone == OnTasks({r.taskId : r \in d.refs})
    IN /\ ~d.replay
       /\ leaseState' = d.state
       /\ witness' = witness \ d.refs
       /\ book' = [a \in AssignmentId |->
              IF a \in gone THEN [book[a] EXCEPT !.status = "returned_to_queue"]
                            ELSE book[a]]
       /\ tasks' = Requeued(tasks, {book[a].task : a \in gone})
       /\ UNCHANGED <<world, remembered, processed, open, lineage, facts, used, clock,
                      restarts>>

\* GET /ops/board and GET /rider/moi sweep now, and save nothing.
BoardSweep == Sweep(clock) /\ UNCHANGED saved
\* POST /ops/expire-due, at an instant the founder may name.
OpsSweep(now) == Sweep(now) /\ Persist

\* forgetOrder, the book's and the queue's.
CoursesOf(o) == {a \in Courses(book) : book[a].order = o}
RowsOf(o)    == {t \in TaskId : tasks[t] # None /\ tasks[t].order = o}

\* /ops/order/retirer: every row of the order, its leases, its facts.  The
\* releases carry fresh ids, which are never replayed.
Retire(o) ==
    LET mine   == CoursesOf(o)
        rows   == RowsOf(o)
        leased == rows \cup UNION {{book[a].task, book[a].lease.taskId} : a \in mine}
        freed  == {l \in Active(leaseState) : l.taskId \in leased}
    IN /\ mine # {} \/ rows # {} \/ o \in gate
       /\ book' = [a \in AssignmentId |-> IF a \in mine THEN None ELSE book[a]]
       /\ tasks' = [t \in TaskId |-> IF t \in rows THEN None ELSE tasks[t]]
       /\ open' = [open EXCEPT ![o] = None]
       /\ witness' = witness \ ({book[a].lease : a \in mine}
                                \cup {refOf(l) : l \in freed})
       /\ leaseState' = [leaseState EXCEPT !.leases = Ending(@, freed, "released")]
       /\ gate' = gate \ {o}
       /\ UNCHANGED <<world, remembered, processed, lineage, onShift, used, clock,
                      restarts>>
       /\ Persist

\* /authority/dispatch: a lease command past the books.
RawDoor(cmd) ==
    /\ cmd.id \in world.raw
    /\ leaseState' = decideLease(leaseState, cmd).state
    /\ leaseState' # leaseState
    /\ UNCHANGED <<world, witness, book, remembered, tasks, processed, open, lineage,
                   facts, used, clock, restarts>>
    /\ Persist

\* The object is evicted, or a handler threw: the books are read back.
Restart ==
    /\ restarts < world.restarts
    /\ restarts' = restarts + 1
    /\ leaseState' = saved.leaseState /\ witness' = saved.witness
    /\ book' = saved.book /\ remembered' = saved.remembered
    /\ tasks' = saved.tasks /\ processed' = saved.processed
    /\ open' = saved.open /\ lineage' = saved.lineage
    /\ gate' = saved.gate /\ onShift' = saved.onShift
    /\ UNCHANGED <<world, used, clock, saved>>

RawCmds == {[kind |-> k, id |-> c, taskId |-> t] :
                k \in {"release"}, c \in world.raw, t \in world.tasks}
           \cup {[kind |-> "acquire", id |-> c, taskId |-> t, riderId |-> r,
                  at |-> clock, eligible |-> TRUE] :
                c \in world.raw, t \in world.tasks, r \in Rider}

Facts == (\E o \in Order : FactsChange(o)) \/ (\E r \in Rider : ShiftChange(r))
Queue == \/ \E t \in ProducerTask : TaskReady(t)
         \/ \E o \in Order, t \in TaskId : ComposeTask(o, t)
RiderActs == \E a \in AssignmentId :
    Acknowledge(a) \/ AcknowledgeOffline(a) \/ Decline(a)
OpsActs ==
    \/ \E c \in AssignCommand, t \in TaskId, r \in Rider, a \in AssignmentId :
           Assign(c, t, r, a)
    \/ \E a \in AssignmentId : TakeBack(a) \/ \E n \in TaskId : Reprogram(a, n)
    \/ \E now \in world.ops : OpsSweep(now)
    \/ \E o \in Order : Retire(o)
    \/ \E cmd \in RawCmds : RawDoor(cmd)
CustodyReports == \E a \in AssignmentId :
    \/ RecordReschedule(a)
    \/ \E o \in Order : Deliver(o, a) \/ ReturnToSupplier(o, a)

Next == Facts \/ Tick \/ Queue \/ RiderActs \/ OpsActs \/ CustodyReports
        \/ BoardSweep \/ Restart

Spec == Init /\ [][Next]_vars

\* Time passes, and the console and the phones poll: each GET sweeps.
FairSpec == Spec /\ WF_vars(Tick) /\ WF_vars(BoardSweep)

-----------------------------------------------------------------------------
(* Properties.                                                             *)

\* The lease commands come from the books, and a producer does not name a task
\* again once its order was retired.  The raw door goes past the books; a task
\* that comes back is released under an id already answered.
ByTheBooks == world.raw = {} /\ world.again = {}

\* SE-I01 seen from the book: every course a rider holds is backed by an
\* active lease of its own, which the witness vouches for and which, once the
\* rider has acknowledged, no sweep can end -- even after a second passage has
\* moved the course to another task than the lease's.
CourseIsLeased ==
    ByTheBooks => \A a \in ActiveCourses(book) :
        /\ book[a].lease \in witness
        /\ \E l \in Active(leaseState) :
               /\ refOf(l) = book[a].lease /\ l.riderId = book[a].rider
               /\ book[a].status = "acknowledged" => l.anchored

LeasesAreCarried ==
    \A l \in Active(leaseState) :
        \E a \in ActiveCourses(book) : book[a].lease = refOf(l)

\* No stranded rider: every active lease backs a course its rider still holds.
\* A rider with a lease and no course is refused every assignment for ever.
NoStrandedLease == ByTheBooks => LeasesAreCarried

\* The same where a producer's task comes back after its order was retired.
NeverStrandedLease == world.raw = {} => LeasesAreCarried

\* findOneActiveViolations is empty: one active course per rider and per task.
OneActiveCourse ==
    \A a, b \in ActiveCourses(book) :
        book[a].rider = book[b].rider \/ book[a].task = book[b].task => a = b

\* No order is lost between the queue and the book: a queued task is on no
\* rider, an assigned one belongs to exactly one course that is under way or
\* completed, a course's task is in the queue under the course's order, and the
\* task of a course taken back is never handed out again.
TaskHasOneHome ==
    /\ \A t \in TaskId : tasks[t] # None =>
         /\ tasks[t].status = "queued" =>
                \A a \in ActiveCourses(book) : book[a].task # t
         /\ tasks[t].status = "assigned" =>
                Cardinality({a \in Courses(book) : book[a].task = t
                    /\ book[a].status \in ActiveStatus \cup {"delivered", "returned"}}) = 1
    /\ \A a \in ActiveCourses(book) :
         tasks[book[a].task] = [status |-> "assigned", order |-> book[a].order]
    /\ \A a \in Courses(book) : book[a].status = "taken_back_by_dispatch" =>
         tasks[book[a].task] = None \/ tasks[book[a].task].status \in Closed

\* The same package is never in two riders' hands: one active course per order.
OneRiderPerOrder ==
    \A a, b \in ActiveCourses(book) : book[a].order = book[b].order => a = b

\* It holds of the tasks the founder composes, whatever is declined, expired,
\* taken back or attempted again; a producer's events may name two tasks.
ComposedOncePerOrder == world.tasks \cap ProducerTask = {} => OneRiderPerOrder

\* A course its rider acknowledged is never swept away, not even by an expiry
\* of the task it moved to, a replayed sweep or a restart: it ends by custody's
\* word, by the founder taking it back, or by the order's retirement.
AcknowledgedIsKept ==
    [][ByTheBooks => \A a \in ActiveCourses(book) : book[a].status = "acknowledged" =>
          \/ book'[a] = None
          \/ book'[a].status \in {"acknowledged", "delivered", "returned",
                                  "taken_back_by_dispatch"}]_vars

\* A course nobody answers does not hold its rider and its order for ever: once
\* its lease is due, some sweep ends it, a restart notwithstanding.
UnansweredCourseEnds ==
    \A a \in AssignmentId :
        (/\ a \in ActiveCourses(book) /\ book[a].status \in AwaitingAck
         /\ \E l \in Active(leaseState) :
                refOf(l) = book[a].lease /\ l.expiresAt < world.until)
        ~> (a \notin ActiveCourses(book) \/ book[a].status \notin AwaitingAck)
=============================================================================
