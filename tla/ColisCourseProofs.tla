------------------------- MODULE ColisCourseProofs -------------------------
(***************************************************************************)
(* What ColisCourse promises, proved for every bag, any number of tasks,   *)
(* courses and command ids, and every setting: a course ends with its last *)
(* article, as custody ended each; the decision shown to the rider is on   *)
(* every ledger; a bag leaves whole unless the whole bag is being retired; *)
(* and, as long as no article is taken out of the bag, no closing word of  *)
(* custody is lost to the course that waits for it.                        *)
(***************************************************************************)
EXTENDS ColisCourse, WellFoundedInduction, TLAPS

\* The first article of a voyage is one of it.
LEMMA FirstTravels ==
  ASSUME NEW v \in SUBSET Order, v # {}
  PROVE  First(v) \in v
<1> DEFINE at == {i \in DOMAIN Bag : Bag[i] \in v}
<1>1. DOMAIN Bag = 1..Len(Bag) /\ Len(Bag) \in Nat
  BY BagAssumption
<1>2. at # {} /\ at \subseteq Nat
  BY <1>1 DEF Order, ToSet
<1>3. PICK m \in at : \A i \in at : ~(<<i, m>> \in OpToRel(<, Nat))
  BY <1>2, NatLessThanWellFounded, WFMin
<1>4. \A j \in 1..(m - 1) : Bag[j] \notin v
  <2> SUFFICES ASSUME NEW j \in 1..(m - 1), Bag[j] \in v PROVE FALSE
    OBVIOUS
  <2>1. j \in at /\ j < m /\ j \in Nat /\ m \in Nat
    BY <1>1, <1>2
  <2>2. <<j, m>> \in OpToRel(<, Nat)
    BY <2>1 DEF OpToRel
  <2>3. QED
    BY <1>3, <2>1, <2>2
<1>5. QED
  BY <1>3, <1>4 DEF First

Statuses == Live \cup {"delivered", "returned", "ended", "gone"}
Courses  == [CourseId -> CourseRow \cup {None}]
Tasks    == [Task -> TaskRow \cup {None}]

\* An id minted was never used.
LEMMA MintedIsNew ==
  ASSUME NEW ids, NEW given, NEW x \in Minted(ids, given)
  PROVE  x \in ids /\ given[x] = None
BY DEF Minted

\* The ids of a setting are ids.
LEMMA WorldIds == TypeOK => /\ world.tasks \subseteq Task /\ world.courses \subseteq CourseId
                            /\ world.cmds \subseteq Cmd
BY WorldsAssumption DEF TypeOK

\* A voyage is of the bag.
LEMMA VoyageOfTheBag ==
  ASSUME TypeOK, NEW o \in Order
  PROVE  /\ Voyageurs(o) = None \/ Voyageurs(o) \in SUBSET Order
         /\ FiledUnder(o) # None => /\ FiledUnder(o) \in SUBSET Order /\ FiledUnder(o) # {}
                                    /\ First(FiledUnder(o)) \in Order
         /\ Frozen(o) \in SUBSET Order
<1>1. Voyageurs(o) = None \/ Voyageurs(o) \in SUBSET Order
  BY DEF Voyageurs
<1>2. FiledUnder(o) # None => FiledUnder(o) \in SUBSET Order /\ FiledUnder(o) # {}
  BY <1>1 DEF FiledUnder
<1>3. FiledUnder(o) # None => First(FiledUnder(o)) \in Order
  BY <1>2, FirstTravels
<1>4. Frozen(o) \in SUBSET Order
  BY <1>1 DEF Frozen
<1>5. QED
  BY <1>1, <1>2, <1>3, <1>4

\* What a course is, whichever it is.
LEMMA CourseIs ==
  ASSUME TypeOK, NEW a \in CourseId, course[a] # None
  PROVE  /\ course[a] \in CourseRow /\ HeadOf(a) \in Order /\ ArticlesOf(a) \in SUBSET Order
         /\ course[a].task \in Task
BY DEF TypeOK, CourseRow, HeadOf, ArticlesOf

\* One course's status moves, and nothing else of the book.
StatusOnly(a, s) == course' = [course EXCEPT ![a].status = s]

StatusMoved(a, s) ==
    /\ course' \in Courses /\ course'[a] # None /\ course'[a].status = s
    /\ course'[a].head = course[a].head /\ course'[a].orders = course[a].orders
    /\ course'[a].task = course[a].task /\ course'[a].again = course[a].again
    /\ \A b \in CourseId : b # a => course'[b] = course[b]

\* One course's status, moved alone.
LEMMA StatusMoves ==
  ASSUME TypeOK, NEW a \in CourseId, course[a] # None, NEW s \in Statuses, StatusOnly(a, s)
  PROVE  StatusMoved(a, s)
<1> DEFINE c == [course[a] EXCEPT !.status = s]
<1>1. course \in Courses /\ course[a] \in CourseRow
  BY DEF TypeOK, Courses
<1>2. /\ c \in CourseRow /\ c.status = s /\ c.head = course[a].head /\ c.orders = course[a].orders
      /\ c.task = course[a].task /\ c.again = course[a].again
  BY <1>1 DEF CourseRow, Statuses
<1>3. course' = [course EXCEPT ![a] = c]
  BY DEF StatusOnly
<1> HIDE DEF c
<1>4. course'[a] = c /\ course' \in Courses /\ \A b \in CourseId : b # a => course'[b] = course[b]
  BY <1>1, <1>2, <1>3 DEF Courses
<1>5. QED
  BY <1>2, <1>4, NoneAssumption DEF StatusMoved

\* One task's status moves.
LEMMA TaskMoves ==
  ASSUME TypeOK, NEW t \in Task, task[t] # None, NEW s \in {"queued", "assigned"} \cup Closed
  PROVE  /\ [task EXCEPT ![t].status = s] \in Tasks
         /\ [task EXCEPT ![t].status = s][t] # None
         /\ [task EXCEPT ![t].status = s][t].status = s
         /\ [task EXCEPT ![t].status = s][t].head = task[t].head
         /\ \A u \in Task : u # t => [task EXCEPT ![t].status = s][u] = task[u]
<1> DEFINE c == [task[t] EXCEPT !.status = s]
<1>1. task \in Tasks /\ task[t] \in TaskRow
  BY DEF TypeOK, Tasks
<1>2. c \in TaskRow /\ c.status = s /\ c.head = task[t].head
  BY <1>1 DEF TaskRow
<1>3. [task EXCEPT ![t].status = s] = [task EXCEPT ![t] = c]
  OBVIOUS
<1> HIDE DEF c
<1>4. /\ [task EXCEPT ![t] = c] \in Tasks /\ [task EXCEPT ![t] = c][t] = c
      /\ \A u \in Task : u # t => [task EXCEPT ![t] = c][u] = task[u]
  BY <1>1, <1>2 DEF Tasks
<1>5. QED
  BY <1>2, <1>3, <1>4, NoneAssumption

\* A course the alarm of custody's words closes, or not.
LEMMA CloseTyped ==
  ASSUME TypeOK, NEW a \in LiveCourses, NEW closes \in BOOLEAN, NEW s \in Statuses,
         CloseIf(a, closes, s)
  PROVE  /\ course' \in Courses /\ resched' \in [Order -> Task \cup {None}]
         /\ closes /\ ~Already(HeadOf(a), s) => StatusMoved(a, s)
         /\ ~closes \/ Already(HeadOf(a), s) => course' = course
<1>1. a \in CourseId /\ course[a] # None /\ HeadOf(a) \in Order
  BY CourseIs DEF LiveCourses
<1>2. closes /\ ~Already(HeadOf(a), s) => StatusMoved(a, s)
  BY <1>1, StatusMoves DEF CloseIf, StatusOnly
<1>3. ~closes \/ Already(HeadOf(a), s) => course' = course
  BY DEF CloseIf
<1>4. resched' \in [Order -> Task \cup {None}]
  BY <1>1 DEF CloseIf, TypeOK
<1>5. QED
  BY <1>2, <1>3, <1>4 DEF StatusMoved, TypeOK, Courses

-----------------------------------------------------------------------------
(* Types.                                                                   *)

\* The books are typed at the start.
LEMMA InitTyped == Init => TypeOK
BY DEF Init, TypeOK, Funding, Ledger

\* A course under way has its task, filed under the same article.
TasksStand ==
    \A a \in LiveCourses : /\ task[course[a].task] # None
                           /\ task[course[a].task].head = HeadOf(a)

\* A course the retirement sweeps is forgotten, under the article it is filed under.
SweptIsGone ==
    retiring # None /\ retiring.on # None =>
        \A a \in retiring.on.courses :
            /\ course[a] # None /\ course[a].status = "gone"
            /\ HeadOf(a) = retiring.on.order

\* A course is filed under one of its articles.
HeadTravels == \A a \in CourseId : course[a] # None => HeadOf(a) \in ArticlesOf(a)

BookInv == TypeOK /\ TasksStand /\ SweptIsGone /\ HeadTravels

\* The founder's doors leave the books typed.
LEMMA FounderTyped ==
  ASSUME TypeOK, TasksStand, Founder
  PROVE  TypeOK'
<1>0. task \in Tasks /\ course \in Courses
  BY DEF TypeOK, Tasks, Courses
<1>1. ASSUME NEW o \in Order, NEW t \in Task, ComposeTask(o, t) PROVE TypeOK'
  <2>1. First(FiledUnder(o)) \in Order
    BY <1>1, VoyageOfTheBag DEF ComposeTask, Accepted
  <2>2. [head |-> First(FiledUnder(o)), status |-> "queued"] \in TaskRow
    BY <2>1 DEF TaskRow
  <2>3. task' \in Tasks
    BY <1>0, <1>1, <2>2 DEF ComposeTask, Tasks
  <2>4. QED
    BY <1>1, <2>3 DEF ComposeTask, TypeOK, Tasks
<1>2. ASSUME NEW t \in Task, NEW a \in CourseId, Assign(t, a) PROVE TypeOK'
  <2>1. task[t] # None /\ task[t].head \in Order
    BY <1>2 DEF Assign, TypeOK, TaskRow
  <2>2. task' \in Tasks
    BY <1>2, <2>1, TaskMoves DEF Assign
  <2>3. [head |-> task[t].head, orders |-> Frozen(task[t].head), task |-> t,
         status |-> "offered", again |-> FALSE] \in CourseRow
    BY <2>1, VoyageOfTheBag DEF CourseRow, Live
  <2>4. course' \in Courses
    BY <1>0, <1>2, <2>3 DEF Assign, Courses
  <2>5. reglement' \in [CourseId -> [Order -> Ending \cup {None}]]
    BY <1>2 DEF Assign, TypeOK
  <2>6. QED
    BY <1>2, <2>2, <2>4, <2>5 DEF Assign, TypeOK, Tasks, Courses
<1>3. ASSUME NEW a \in CourseId, TakeBack(a) PROVE TypeOK'
  <2>1. course[a] # None /\ HeadOf(a) \in Order /\ course[a].task \in Task
    BY <1>3, CourseIs DEF TakeBack, LiveCourses
  <2>2. course' \in Courses
    BY <1>3, <2>1, StatusMoves DEF TakeBack, StatusOnly, StatusMoved, Statuses
  <2>3. task' \in Tasks
    BY <1>3, <2>1, TaskMoves DEF TakeBack, TasksStand, Closed
  <2>4. resched' \in [Order -> Task \cup {None}]
    BY <1>3, <2>1 DEF TakeBack, TypeOK
  <2>5. QED
    BY <1>3, <2>2, <2>3, <2>4 DEF TakeBack, TypeOK, Tasks, Courses
<1>4. ASSUME NEW a \in CourseId, NEW t \in Task, Reprogram(a, t) PROVE TypeOK'
  <2> DEFINE old == course[a].task
  <2>1. /\ a \in LiveCourses /\ course[a] \in CourseRow /\ HeadOf(a) \in Order /\ old \in Task
        /\ task[old] # None
    BY <1>4, CourseIs DEF Reprogram, LiveCourses
  <2>2. [task[old] EXCEPT !.status = "closed_rescheduled"] \in TaskRow
    BY <2>1, <1>0 DEF Tasks, TaskRow, Closed
  <2>3. [head |-> HeadOf(a), status |-> "assigned"] \in TaskRow
    BY <2>1 DEF TaskRow
  <2>4. task' \in Tasks
    BY <1>0, <1>4, <2>2, <2>3 DEF Reprogram, Tasks
  <2>5. [course[a] EXCEPT !.task = t, !.again = TRUE] \in CourseRow
    BY <2>1 DEF CourseRow
  <2>6. course' \in Courses
    <3>1. course' = [course EXCEPT ![a] = [course[a] EXCEPT !.task = t, !.again = TRUE]]
      BY <1>0, <1>4, <2>1 DEF Reprogram, Courses
    <3>2. QED
      BY <1>0, <2>5, <3>1 DEF Courses
  <2>7. resched' \in [Order -> Task \cup {None}]
    BY <1>4, <2>1 DEF Reprogram, TypeOK
  <2>8. QED
    BY <1>4, <2>4, <2>6, <2>7 DEF Reprogram, TypeOK, Tasks, Courses
<1>5. ASSUME NEW a \in CourseId, NEW c \in world.cmds, DecideBegins(a, c) PROVE TypeOK'
  <2>1. course[a] # None /\ c \in Cmd
    BY <1>5, WorldIds DEF DecideBegins, LiveCourses
  <2>2. relay' \in Relay
    BY <1>5, <2>1, CourseIs DEF DecideBegins, Relay
  <2>3. QED
    BY <1>5, <2>2 DEF DecideBegins, TypeOK, board
<1>6. ASSUME NEW o \in Order, RetireArticle(o) \/ RetireBag(o) PROVE TypeOK'
  <2>1. <<o>> \in Seq(Order) /\ Bag \in Seq(Order)
    BY BagAssumption
  <2>2. retiring' \in Retiring
    <3>1. \A l \in Seq(Order), b \in BOOLEAN :
              [left |-> l, on |-> None, asked |-> o, alone |-> b, some |-> FALSE] \in Retiring
      BY DEF Retiring
    <3>2. QED
      BY <1>6, <2>1, <3>1 DEF RetireArticle, RetireBag
  <2>3. QED
    BY <1>6, <2>2 DEF RetireArticle, RetireBag, TypeOK, board
<1>7. QED
  BY <1>1, <1>2, <1>3, <1>4, <1>5, <1>6 DEF Founder

\* The facts that come in, and the rider's phone.
LEMMA PhoneTyped ==
  ASSUME TypeOK, TasksStand, Phone \/ \E o \in Order : Facts(o)
  PROVE  TypeOK'
<1>1. ASSUME NEW a \in CourseId, Acknowledge(a) PROVE TypeOK'
  <2>1. course' \in Courses
    BY <1>1, StatusMoves DEF Acknowledge, LiveCourses, StatusOnly, StatusMoved, Statuses, Live
  <2>2. QED
    BY <1>1, <2>1 DEF Acknowledge, TypeOK, Courses
<1>2. ASSUME NEW a \in CourseId, Requeue(a) PROVE TypeOK'
  <2>1. course[a] # None /\ course[a].task \in Task /\ task[course[a].task] # None
    BY <1>2, CourseIs DEF Requeue, LiveCourses, TasksStand
  <2>2. course' \in Courses
    BY <1>2, <2>1, StatusMoves DEF Requeue, StatusOnly, StatusMoved, Statuses
  <2>3. task' \in Tasks
    BY <1>2, <2>1, TaskMoves DEF Requeue
  <2>4. QED
    BY <1>2, <2>2, <2>3 DEF Requeue, TypeOK, Tasks, Courses
<1>3. ASSUME NEW o \in Order, Facts(o) PROVE TypeOK'
  BY <1>3 DEF Facts, TypeOK
<1>4. QED
  BY <1>1, <1>2, <1>3 DEF Phone

\* What an article is settled on.
LEMMA EndsTyped ==
  ASSUME TypeOK, NEW o \in Order, NEW k \in Ending, CourseEnds(o, k)
  PROVE  TypeOK'
<1>1. wires' \subseteq wires
  BY DEF CourseEnds, Answered
<1>2. ASSUME NEW a \in Entries(o), ReglerColis(o, k, a)
      PROVE  /\ reglement' \in [CourseId -> [Order -> Ending \cup {None}]]
             /\ log' \subseteq Order \X Ending
             /\ course' \in Courses /\ resched' \in [Order -> Task \cup {None}]
  <2>1. CASE reglement[a][o] # None \/ a \notin LiveCourses
    BY <1>2, <2>1 DEF ReglerColis, TypeOK, Courses
  <2>2. CASE ~(reglement[a][o] # None \/ a \notin LiveCourses)
    <3>1. reglement' = [reglement EXCEPT ![a][o] = k] /\ Counted(o, k)
          /\ CloseIf(a, Regles(a), Ended(a))
      BY <1>2, <2>2 DEF ReglerColis
    <3>2. Regles(a) \in BOOLEAN /\ Ended(a) \in Statuses
      BY DEF Regles, Ended, Statuses
    <3>3. course' \in Courses /\ resched' \in [Order -> Task \cup {None}]
      BY <2>2, <3>1, <3>2, CloseTyped
    <3>4. log' \subseteq Order \X Ending
      BY <3>1 DEF TypeOK, Counted
    <3>5. a \in CourseId
      BY DEF Entries
    <3>6. reglement' \in [CourseId -> [Order -> Ending \cup {None}]]
      BY <3>1, <3>5 DEF TypeOK
    <3>7. QED
      BY <3>3, <3>4, <3>6
  <2>3. QED
    BY <2>1, <2>2
<1>3. ASSUME ReglerSeul(o, k)
      PROVE  /\ reglement' \in [CourseId -> [Order -> Ending \cup {None}]]
             /\ log' \subseteq Order \X Ending
             /\ course' \in Courses /\ resched' \in [Order -> Task \cup {None}]
  <2>1. CASE UNCHANGED <<log, course, resched>>
    BY <1>3, <2>1 DEF ReglerSeul, TypeOK, Courses
  <2>2. ASSUME NEW a \in LiveCourses, Counted(o, k),
               CloseIf(a, TRUE, EndedBy(k))
        PROVE  /\ log' \subseteq Order \X Ending
               /\ course' \in Courses /\ resched' \in [Order -> Task \cup {None}]
    <3>1. EndedBy(k) \in Statuses
      BY DEF EndedBy, Statuses
    <3>2. course' \in Courses /\ resched' \in [Order -> Task \cup {None}]
      BY <2>2, <3>1, CloseTyped
    <3>3. QED
      BY <2>2, <3>2 DEF Counted, TypeOK
  <2>3. QED
    BY <1>3, <2>1, <2>2 DEF ReglerSeul, TypeOK
<1>4. EntryFor(o) \subseteq Entries(o)
  BY DEF EntryFor
<1>5. QED
  BY <1>1, <1>2, <1>3, <1>4 DEF CourseEnds, TypeOK, Courses

\* The rest of what custody's words move.
LEMMA HeardTyped ==
  ASSUME TypeOK, Heard \/ RelaySends \/ DecideEnds
  PROVE  TypeOK'
<1>1. ASSUME NEW o \in Order, RetourOuvert(o) PROVE TypeOK'
  <2>1. wires' \subseteq wires
    BY <1>1 DEF RetourOuvert, Answered
  <2>2. opened' \in [CourseId -> SUBSET Order] /\ resched' \in [Order -> Task \cup {None}]
    <3>1. CASE UNCHANGED <<opened, resched>>
      BY <3>1 DEF TypeOK
    <3>2. ASSUME NEW a \in CourseId, opened' = [opened EXCEPT ![a] = @ \cup {o}],
                 resched' = [resched EXCEPT ![o] = None]
          PROVE  opened' \in [CourseId -> SUBSET Order] /\ resched' \in [Order -> Task \cup {None}]
      BY <3>2 DEF TypeOK
    <3>3. CoursesOf(o) \subseteq CourseId
      BY DEF CoursesOf, LiveCourses
    <3>4. QED
      BY <1>1, <3>1, <3>2, <3>3 DEF RetourOuvert
  <2>3. QED
    BY <1>1, <2>1, <2>2 DEF RetourOuvert, TypeOK
<1>2. ASSUME NEW o \in Order, Reprogrammation(o) PROVE TypeOK'
  <2>1. wires' \subseteq wires
    BY <1>2 DEF Reprogrammation, Answered
  <2>2. \A a \in CoursesOf(o) : course[a].task \in Task
    BY CourseIs DEF CoursesOf, LiveCourses
  <2>3. resched' \in [Order -> Task \cup {None}]
    BY <1>2, <2>2 DEF Reprogrammation, TypeOK
  <2>4. QED
    BY <1>2, <2>1, <2>3 DEF Reprogrammation, TypeOK
<1>3. CASE RelaySends
  <2>1. PICK o \in relay.left :
          /\ file' = [file EXCEPT ![o] = ReturnApplied(@, relay.cmd)]
          /\ relay' = None \/ relay' = [relay EXCEPT !.left = @ \ {o}]
    BY <1>3 DEF RelaySends
  <2>2. relay \in Relay /\ o \in Order /\ relay.cmd \in Cmd
    BY <1>3 DEF RelaySends, TypeOK, Relay
  <2>3. relay' \in Relay \cup {None}
    BY <2>1, <2>2 DEF Relay
  <2>4. file[o] \in Ledger
    BY <2>2 DEF TypeOK
  <2>5. ReturnApplied(file[o], relay.cmd) \in Ledger
    BY <2>2, <2>4 DEF ReturnApplied, Ledger, Verdict
  <2>6. file' \in [Order -> Ledger]
    BY <2>1, <2>2, <2>5 DEF TypeOK
  <2>7. QED
    BY <1>3, <2>3, <2>6 DEF RelaySends, TypeOK, board
<1>4. CASE DecideEnds
  <2>1. relay.course \in CourseId /\ relay.head \in Order
    BY <1>4 DEF DecideEnds, TypeOK, Relay
  <2>2. QED
    BY <1>4, <2>1 DEF DecideEnds, TypeOK
<1>5. QED
  BY <1>1, <1>2, <1>3, <1>4, EndsTyped DEF Heard

\* The retirement leaves the books typed.
LEMMA RetirementTyped ==
  ASSUME TypeOK, SweptIsGone, Retirement
  PROVE  TypeOK'
<1>0. task \in Tasks /\ course \in Courses
  BY DEF TypeOK, Tasks, Courses
<1>1. CASE RetireSweeps
  <2> DEFINE o == Head(retiring.left)
             mine == Records(o)
             on == IF Known(o) THEN [order |-> o, courses |-> mine, funded |-> fund[o] # "absent"]
                   ELSE None
  <2>1. retiring \in Retiring /\ retiring.left \in Seq(Order) /\ retiring.left # <<>>
    BY <1>1 DEF RetireSweeps, TypeOK, Retiring
  <2>2. o \in Order /\ Tail(retiring.left) \in Seq(Order) /\ mine \in SUBSET CourseId
    BY <2>1 DEF Records
  <2>3. on \in Swept \cup {None}
    BY <2>2 DEF Swept
  <2>4. Known(o) \in BOOLEAN
    BY DEF Known
  <2>5. /\ retiring' = [retiring EXCEPT !.left = Tail(@), !.on = on, !.some = @ \/ Known(o)]
        /\ task' = [t \in Task |-> IF task[t] # None /\ task[t].head = o THEN None ELSE task[t]]
        /\ course' = [a \in CourseId |-> IF a \in mine
                         THEN [course[a] EXCEPT !.status = "gone"] ELSE course[a]]
        /\ resched' = [resched EXCEPT ![o] = None]
        /\ UNCHANGED <<world, fund, named, retired, reglement, log, opened, decided, relay, file,
                       wires>>
    BY <1>1 DEF RetireSweeps
  <2>6. \A a \in mine : [course[a] EXCEPT !.status = "gone"] \in CourseRow
    BY <1>0 DEF Records, Courses, CourseRow
  <2> HIDE DEF on, o, mine
  <2>7. retiring' \in Retiring
    BY <2>1, <2>2, <2>3, <2>4, <2>5 DEF Retiring
  <2>8. task' \in Tasks /\ course' \in Courses
    BY <1>0, <2>5, <2>6 DEF Tasks, Courses
  <2>9. resched' \in [Order -> Task \cup {None}]
    BY <2>2, <2>5 DEF TypeOK
  <2>10. QED
    BY <2>5, <2>7, <2>8, <2>9 DEF TypeOK, Tasks, Courses
<1>2. CASE RetireForgets
  <2>1. retiring \in Retiring /\ retiring.on \in Swept /\ retiring.on.order \in Order
    BY <1>2 DEF RetireForgets, TypeOK, Retiring, Swept
  <2>2. fund' \in [Order -> Funding]
    BY <1>2, <2>1 DEF RetireForgets, TypeOK, Funding
  <2>3. course' \in Courses
    <3>1. \A a \in retiring.on.courses : course[a] \in CourseRow
      BY <1>0, <1>2, <2>1 DEF RetireForgets, SweptIsGone, Courses, Swept
    <3>2. \A a \in retiring.on.courses :
              [course[a] EXCEPT !.orders = {retiring.on.order}] \in CourseRow
      BY <2>1, <3>1 DEF CourseRow
    <3>3. QED
      BY <1>0, <1>2, <3>2 DEF RetireForgets, Courses
  <2>4. retiring' \in Retiring
    BY <1>2, <2>1 DEF RetireForgets, Retiring
  <2>5. QED
    BY <1>2, <2>2, <2>3, <2>4 DEF RetireForgets, TypeOK, Courses
<1>3. CASE RetireEnds
  BY <1>3 DEF RetireEnds, TypeOK, Retiring
<1>4. QED
  BY <1>1, <1>2, <1>3 DEF Retirement

\* Custody's ledgers stay ledgers.
LEMMA CustodyTyped ==
  ASSUME TypeOK, Custody
  PROVE  TypeOK'
<1>1. PICK o \in Order : \/ \E a \in CourseId : Pickup(a, o)
                        \/ Drop(o) \/ Absent(o) \/ OpenReturn(o) \/ HandOver(o)
  BY DEF Custody
<1>2. file[o] \in Ledger
  BY DEF TypeOK
<1>3. file' \in [Order -> Ledger]
  <2>1. PICK f : file' = [file EXCEPT ![o] = f] /\
             \/ f = [file[o] EXCEPT !.place = "rider"] \/ f = [file[o] EXCEPT !.place = "buyer"]
             \/ f = [file[o] EXCEPT !.ladder = "reschedule"]
             \/ f = [file[o] EXCEPT !.back = TRUE] \/ f = [file[o] EXCEPT !.place = "home"]
    BY <1>1 DEF Pickup, Drop, Absent, OpenReturn, HandOver
  <2>2. f \in Ledger
    BY <1>2, <2>1 DEF Ledger
  <2>3. QED
    BY <2>1, <2>2 DEF TypeOK
<1>4. wires' \subseteq wires \cup ((Ending \cup {"retour", "reprogrammation"}) \X Order)
  BY <1>1 DEF Pickup, Drop, Absent, OpenReturn, HandOver, Says, Ending
<1>5. UNCHANGED <<world, board, retiring, relay>>
  BY <1>1 DEF Pickup, Drop, Absent, OpenReturn, HandOver, AtWork
<1>6. QED
  BY <1>3, <1>4, <1>5 DEF TypeOK, board

\* Every step keeps the types.
LEMMA TypeStep == BookInv /\ [Next]_vars => TypeOK'
<1> SUFFICES ASSUME TypeOK, TasksStand, SweptIsGone, [Next]_vars PROVE TypeOK'
  BY DEF BookInv
<1>1. CASE UNCHANGED vars
  BY <1>1 DEF vars, board, TypeOK
<1>2. QED
  BY <1>1, FounderTyped, PhoneTyped, HeardTyped, RetirementTyped, CustodyTyped DEF Next, Requests

-----------------------------------------------------------------------------
(* The books.                                                               *)

\* A task keeps its filing while its status moves.
SameFiling == \A t \in Task : task[t] # None => task'[t] # None /\ task'[t].head = task[t].head

\* A live course is acknowledged or ended in one way.
CourseEndsOrGoesOn ==
    \E a \in LiveCourses : \E s \in Statuses : StatusMoved(a, s)

\* ... by its rider or by the founder.
CourseGoesOn == \E a \in LiveCourses : \E s \in {"acknowledged", "ended"} : StatusMoved(a, s)

\* What the fleet is told.
Counts == <<log, reglement>>

\* The steps that move neither a course nor a task.
CourseAside == UNCHANGED <<course, task, retiring, Counts>>

\* A word of custody: the course it ends, if any.
EndHeard(o, k) == /\ CourseEnds(o, k) /\ UNCHANGED <<task, retiring>>
                  /\ UNCHANGED course \/ CourseEndsOrGoesOn

\* What a step does to the courses and the tasks.
LEMMA CourseSteps ==
  ASSUME BookInv, [Next]_vars
  PROVE  \/ CourseAside
         \/ CourseGoesOn /\ SameFiling /\ UNCHANGED <<retiring, Counts>>
         \/ \E o \in Order, k \in Ending : EndHeard(o, k)
         \/ \E o \in Order, t \in Task : ComposeTask(o, t)
         \/ \E t \in Task, a \in CourseId : Assign(t, a)
         \/ \E t \in Task, a \in CourseId : Reprogram(a, t)
         \/ UNCHANGED <<course, task, Counts>> /\ retiring' \in Retiring /\ retiring'.on = None
         \/ UNCHANGED <<course, task, Counts>> /\ retiring' = None
         \/ RetireSweeps \/ RetireForgets
<1>0. TypeOK /\ task \in Tasks /\ TasksStand
  BY DEF BookInv, TypeOK, Tasks
<1>1. LiveCourses \subseteq CourseId /\ \A a \in LiveCourses : course[a] # None
  BY DEF LiveCourses
<1>2. UNCHANGED task => SameFiling
  BY DEF SameFiling
<1>3. ASSUME NEW a \in CourseId, TakeBack(a) \/ Requeue(a) \/ Acknowledge(a)
      PROVE  CourseGoesOn /\ SameFiling /\ UNCHANGED <<retiring, Counts>>
  <2>1. a \in LiveCourses /\ UNCHANGED <<retiring, Counts>>
    BY <1>3 DEF TakeBack, Requeue, Acknowledge, Counts
  <2>2. \E s \in {"acknowledged", "ended"} : StatusOnly(a, s)
    BY <1>3 DEF TakeBack, Requeue, Acknowledge, StatusOnly
  <2>3. \E s \in {"acknowledged", "ended"} : StatusMoved(a, s)
    BY <1>0, <1>1, <2>1, <2>2, StatusMoves DEF Statuses, Live
  <2>4. \/ UNCHANGED task
        \/ task' = [task EXCEPT ![course[a].task].status = "closed_taken_back"]
        \/ task' = [task EXCEPT ![course[a].task].status = "queued"]
    BY <1>3 DEF TakeBack, Requeue, Acknowledge
  <2>5. course[a].task \in Task /\ task[course[a].task] # None
    BY <1>0, <1>1, <2>1, CourseIs DEF TasksStand
  <2>6. SameFiling
    <3>1. ASSUME NEW s \in {"queued", "assigned"} \cup Closed,
                 task' = [task EXCEPT ![course[a].task].status = s]
          PROVE  SameFiling
      BY <1>0, <2>5, <3>1, TaskMoves DEF SameFiling
    <3>2. QED
      BY <1>2, <2>4, <3>1 DEF Closed
  <2>7. QED
    BY <2>1, <2>3, <2>6 DEF CourseGoesOn
<1>4. ASSUME NEW o \in Order, NEW k \in Ending, CourseEnds(o, k)
      PROVE  EndHeard(o, k)
  <2>1. UNCHANGED <<task, retiring>>
    BY <1>4 DEF CourseEnds
  <2>2. ASSUME NEW a \in LiveCourses, NEW closes \in BOOLEAN, NEW s \in Statuses,
               CloseIf(a, closes, s)
        PROVE  UNCHANGED course \/ CourseEndsOrGoesOn
    BY <1>0, <2>2, CloseTyped DEF CourseEndsOrGoesOn
  <2>3. ASSUME NEW a, ReglerColis(o, k, a)
        PROVE  UNCHANGED course \/ CourseEndsOrGoesOn
    <3>1. Regles(a) \in BOOLEAN /\ Ended(a) \in Statuses
      BY DEF Regles, Ended, Statuses
    <3>2. QED
      BY <2>2, <2>3, <3>1 DEF ReglerColis
  <2>4. ASSUME ReglerSeul(o, k)
        PROVE  UNCHANGED course \/ CourseEndsOrGoesOn
    <3>1. EndedBy(k) \in Statuses
      BY DEF EndedBy, Statuses
    <3>2. QED
      BY <2>2, <2>4, <3>1 DEF ReglerSeul
  <2>5. UNCHANGED course \/ CourseEndsOrGoesOn
    BY <1>4, <2>3, <2>4 DEF CourseEnds
  <2>6. QED
    BY <1>4, <2>1, <2>5 DEF EndHeard
<1>5. ASSUME NEW o \in Order, RetireArticle(o) \/ RetireBag(o)
      PROVE  UNCHANGED <<course, task, Counts>> /\ retiring' \in Retiring /\ retiring'.on = None
  <2>1. UNCHANGED <<course, task, Counts>>
    BY <1>5 DEF RetireArticle, RetireBag, board, Counts
  <2>2. <<o>> \in Seq(Order) /\ Bag \in Seq(Order)
    BY BagAssumption
  <2>3. \A l \in Seq(Order), b \in BOOLEAN :
            LET r == [left |-> l, on |-> None, asked |-> o, alone |-> b, some |-> FALSE]
            IN r \in Retiring /\ r.on = None
    BY DEF Retiring
  <2>4. retiring' \in Retiring /\ retiring'.on = None
    BY <1>5, <2>2, <2>3 DEF RetireArticle, RetireBag
  <2>5. QED
    BY <2>1, <2>4
<1>6. CASE RetireEnds
  BY <1>6 DEF RetireEnds, Counts
<1>7. ASSUME NEW o \in Order, Facts(o) \/ RetourOuvert(o) \/ Reprogrammation(o) PROVE CourseAside
  BY <1>7 DEF Facts, RetourOuvert, Reprogrammation, CourseAside, Counts
<1>8. CASE RelaySends \/ DecideEnds \/ Custody
  BY <1>8 DEF RelaySends, DecideEnds, Custody, Pickup, Drop, Absent, OpenReturn, HandOver, AtWork,
              board, CourseAside, Counts
<1>9. ASSUME NEW a \in CourseId, NEW c, DecideBegins(a, c) PROVE CourseAside
  BY <1>9 DEF DecideBegins, board, CourseAside, Counts
<1>10. CASE UNCHANGED vars
  BY <1>10 DEF vars, board, CourseAside, Counts
<1>11. QED
  BY <1>3, <1>4, <1>5, <1>6, <1>7, <1>8, <1>9, <1>10
     DEF Next, Requests, Founder, Phone, Heard, Retirement

\* What a founder's course carries when it leaves.
LEMMA AssignCarries ==
  ASSUME TypeOK, NEW t \in Task, NEW a \in CourseId, Assign(t, a)
  PROVE  /\ course[a] = None /\ course'[a] # None /\ task[t] # None
         /\ course'[a].task = t /\ course'[a].status = "offered"
         /\ course'[a].head = task[t].head /\ course'[a].orders = Frozen(task[t].head)
         /\ task[t].head \in course'[a].orders /\ task[t].status = "queued"
         /\ \A b \in CourseId : b # a => course'[b] = course[b]
         /\ task' \in Tasks /\ task'[t] # None /\ task'[t].head = task[t].head
         /\ task'[t].status = "assigned" /\ \A u \in Task : u # t => task'[u] = task[u]
         /\ UNCHANGED retiring
<1> DEFINE h == task[t].head
           c == [head |-> h, orders |-> Frozen(h), task |-> t, status |-> "offered",
                 again |-> FALSE]
<1>1. task[t] # None /\ h \in Order /\ course \in Courses /\ task[t].status = "queued"
  BY DEF Assign, TypeOK, TaskRow, Courses
<1>2. course[a] = None /\ course' = [course EXCEPT ![a] = c] /\ UNCHANGED retiring
      /\ task' = [task EXCEPT ![t].status = "assigned"]
  BY MintedIsNew DEF Assign
<1>3. c \in CourseRow
  BY <1>1, VoyageOfTheBag DEF CourseRow, Live
<1>4. h \in Frozen(h)
  BY <1>1, VoyageOfTheBag, FirstTravels DEF Frozen
<1>5. c # None /\ c.head = h /\ c.orders = Frozen(h) /\ c.task = t /\ c.status = "offered"
  BY <1>3, NoneAssumption
<1> HIDE DEF c, h
<1>6. course'[a] = c /\ \A b \in CourseId : b # a => course'[b] = course[b]
  BY <1>1, <1>2 DEF Courses
<1>9. "assigned" \in {"queued", "assigned"} \cup Closed
  OBVIOUS
<1>7. /\ task' \in Tasks /\ task'[t] # None /\ task'[t].head = task[t].head
      /\ task'[t].status = "assigned" /\ \A u \in Task : u # t => task'[u] = task[u]
  <2> DEFINE moved == [task EXCEPT ![t].status = "assigned"]
  <2>1. /\ moved \in Tasks /\ moved[t] # None /\ moved[t].status = "assigned"
        /\ moved[t].head = task[t].head /\ \A u \in Task : u # t => moved[u] = task[u]
    BY <1>1, <1>9, TaskMoves
  <2>2. task' = moved
    BY <1>2
  <2> HIDE DEF moved
  <2>3. QED
    BY <2>1, <2>2
<1>8. QED
  BY <1>1, <1>2, <1>4, <1>5, <1>6, <1>7 DEF h

\* A second passage: another task, the same filing.
LEMMA ReprogramCarries ==
  ASSUME TypeOK, TasksStand, NEW t \in Task, NEW a \in CourseId, Reprogram(a, t)
  PROVE  /\ a \in LiveCourses /\ course[a].status = "acknowledged" /\ task[t] = None
         /\ course'[a] # None /\ course'[a].task = t /\ course'[a].status = course[a].status
         /\ course'[a].head = course[a].head /\ course'[a].orders = course[a].orders
         /\ \A b \in CourseId : b # a => course'[b] = course[b]
         /\ course[a].task \in Task /\ course[a].task # t
         /\ task[course[a].task] # None /\ task'[course[a].task] # None
         /\ task'[course[a].task].head = task[course[a].task].head
         /\ task'[course[a].task].status = "closed_rescheduled"
         /\ task'[t] # None /\ task'[t].head = HeadOf(a) /\ task'[t].status = "assigned"
         /\ \A u \in Task : u # t /\ u # course[a].task => task'[u] = task[u]
         /\ UNCHANGED retiring
<1> DEFINE old == course[a].task
           c == [course[a] EXCEPT !.task = t, !.again = TRUE]
           d == [task[old] EXCEPT !.status = "closed_rescheduled"]
           e == [head |-> HeadOf(a), status |-> "assigned"]
<1>1. /\ a \in LiveCourses /\ course[a].status = "acknowledged" /\ task[t] = None
      /\ course' = [course EXCEPT ![a] = c] /\ UNCHANGED retiring
      /\ task' = [task EXCEPT ![old] = d, ![t] = e]
  <2>1. course' = [course EXCEPT ![a].task = t, ![a].again = TRUE] /\ course \in Courses
    BY DEF Reprogram, TypeOK, Courses
  <2>2. a \in LiveCourses /\ course[a].status = "acknowledged" /\ UNCHANGED retiring
    BY DEF Reprogram
  <2>3. task[t] = None
    BY MintedIsNew DEF Reprogram
  <2>4. course' = [course EXCEPT ![a] = c]
    BY <2>1 DEF Courses
  <2>5. task' = [task EXCEPT ![old].status = "closed_rescheduled", ![t] = e]
    BY DEF Reprogram
  <2>6. task' = [task EXCEPT ![old] = d, ![t] = e]
    BY <2>5
  <2>7. QED
    BY <2>2, <2>3, <2>4, <2>6
<1>2. /\ course[a] \in CourseRow /\ HeadOf(a) \in Order /\ old \in Task /\ task[old] # None
      /\ course \in Courses /\ task \in Tasks
  BY <1>1, CourseIs DEF LiveCourses, TasksStand, TypeOK, Courses, Tasks
<1>3. /\ c \in CourseRow /\ c.task = t /\ c.status = course[a].status
      /\ c.head = course[a].head /\ c.orders = course[a].orders
  BY <1>2 DEF CourseRow
<1>4. /\ d \in TaskRow /\ d.status = "closed_rescheduled" /\ d.head = task[old].head
      /\ e \in TaskRow /\ e.status = "assigned" /\ e.head = HeadOf(a)
  BY <1>2 DEF TaskRow, Tasks, Closed
<1> HIDE DEF c, d, e
<1>5. course'[a] = c /\ \A b \in CourseId : b # a => course'[b] = course[b]
  BY <1>1, <1>2 DEF Courses
<1>6. /\ old # t /\ task'[old] = d /\ task'[t] = e
      /\ \A u \in Task : u # t /\ u # old => task'[u] = task[u]
  BY <1>1, <1>2 DEF Tasks
<1>7. QED
  BY <1>1, <1>2, <1>3, <1>4, <1>5, <1>6, NoneAssumption

\* The rows of an article are swept together.
LEMMA SweepCarries ==
  ASSUME TypeOK, RetireSweeps
  PROVE  LET o == Head(retiring.left)
         IN /\ o \in Order /\ retiring # None /\ retiring.left # <<>>
            /\ \A t \in Task : task'[t] = IF task[t] # None /\ task[t].head = o THEN None
                                          ELSE task[t]
            /\ \A a \in CourseId \ Records(o) : course'[a] = course[a]
            /\ \A a \in Records(o) : /\ course[a] # None /\ course'[a] # None /\ HeadOf(a) = o
                                     /\ course'[a].status = "gone"
                                     /\ course'[a].head = course[a].head
                                     /\ course'[a].orders = course[a].orders
                                     /\ course'[a].task = course[a].task
            /\ retiring' \in Retiring
            /\ retiring'.on = None \/ retiring'.on = [order |-> o, courses |-> Records(o),
                                                      funded |-> fund[o] # "absent"]
            /\ retiring'.alone = retiring.alone
<1> DEFINE o == Head(retiring.left)
           on == IF Known(o)
                 THEN [order |-> o, courses |-> Records(o), funded |-> fund[o] # "absent"]
                 ELSE None
<1>1. /\ retiring # None /\ retiring \in Retiring /\ retiring.left \in Seq(Order)
      /\ retiring.left # <<>> /\ course \in Courses
  BY DEF RetireSweeps, TypeOK, Retiring, Courses
<1>2. o \in Order /\ Tail(retiring.left) \in Seq(Order)
  BY <1>1
<1>3. /\ retiring' = [retiring EXCEPT !.left = Tail(@), !.on = on, !.some = @ \/ Known(o)]
      /\ task' = [t \in Task |-> IF task[t] # None /\ task[t].head = o THEN None ELSE task[t]]
      /\ course' = [a \in CourseId |-> IF a \in Records(o)
                         THEN [course[a] EXCEPT !.status = "gone"] ELSE course[a]]
  BY DEF RetireSweeps
<1>4. on \in Swept \cup {None} /\ Known(o) \in BOOLEAN
  BY <1>2 DEF Swept, Records, Known
<1> HIDE DEF o, on
<1>5. retiring' \in Retiring /\ retiring'.on = on /\ retiring'.alone = retiring.alone
  BY <1>1, <1>2, <1>3, <1>4 DEF Retiring
<1>6. ASSUME NEW a \in Records(o)
      PROVE  /\ course[a] # None /\ course'[a] # None /\ HeadOf(a) = o
             /\ course'[a].status = "gone" /\ course'[a].head = course[a].head
             /\ course'[a].orders = course[a].orders /\ course'[a].task = course[a].task
  <2>1. a \in CourseId /\ course[a] # None /\ HeadOf(a) = o /\ course[a] \in CourseRow
    BY <1>1 DEF Records, Courses
  <2>2. course'[a] = [course[a] EXCEPT !.status = "gone"]
    BY <1>3, <2>1
  <2>3. course'[a] \in CourseRow
    BY <2>1, <2>2 DEF CourseRow
  <2>4. QED
    BY <2>1, <2>2, <2>3, NoneAssumption DEF CourseRow
<1>7. QED
  BY <1>1, <1>2, <1>3, <1>5, <1>6 DEF on, o

\* A course the retirement forgets keeps its head and nothing else of its bag.
LEMMA ForgetsCarries ==
  ASSUME BookInv, RetireForgets
  PROVE  /\ \A a \in retiring.on.courses :
              /\ a \in CourseId /\ course[a] # None /\ course'[a] # None
              /\ course[a].status = "gone" /\ course'[a].status = "gone"
              /\ course'[a].head = course[a].head /\ course'[a].orders = {course[a].head}
         /\ \A a \in CourseId \ retiring.on.courses : course'[a] = course[a]
         /\ UNCHANGED task /\ retiring'.on = None
<1>1. /\ retiring \in Retiring /\ retiring.on \in Swept /\ retiring # None /\ retiring.on # None
      /\ course \in Courses
  BY DEF RetireForgets, BookInv, TypeOK, Retiring, Courses
<1>2. /\ course' = [a \in CourseId |-> IF a \in retiring.on.courses
                     THEN [course[a] EXCEPT !.orders = {retiring.on.order}] ELSE course[a]]
      /\ retiring' = [retiring EXCEPT !.on = None] /\ UNCHANGED task
  BY DEF RetireForgets
<1>3. ASSUME NEW a \in retiring.on.courses
      PROVE  /\ a \in CourseId /\ course[a] # None /\ course'[a] # None
             /\ course[a].status = "gone" /\ course'[a].status = "gone"
             /\ course'[a].head = course[a].head /\ course'[a].orders = {course[a].head}
  <2>1. /\ a \in CourseId /\ course[a] # None /\ course[a].status = "gone"
        /\ HeadOf(a) = retiring.on.order /\ course[a] \in CourseRow
    BY <1>1 DEF BookInv, SweptIsGone, Swept, Courses
  <2>2. course'[a] = [course[a] EXCEPT !.orders = {HeadOf(a)}]
    BY <1>2, <2>1
  <2>3. course'[a] \in CourseRow
    BY <2>1, <2>2 DEF CourseRow, HeadOf
  <2>4. QED
    BY <2>1, <2>2, <2>3, NoneAssumption DEF CourseRow, HeadOf
<1>4. retiring'.on = None
  BY <1>1, <1>2 DEF Retiring
<1>5. QED
  BY <1>2, <1>3, <1>4

\* Every course under way keeps its task.
LEMMA TasksStandStep == BookInv /\ [Next]_vars => TasksStand'
<1> SUFFICES ASSUME BookInv, [Next]_vars, NEW b \in CourseId,
                    course'[b] # None, course'[b].status \in Live
             PROVE  task'[course'[b].task] # None /\ task'[course'[b].task].head = course'[b].head
  BY DEF TasksStand, LiveCourses, HeadOf
<1>1. /\ TypeOK /\ TasksStand
      /\ \A a \in CourseId : course[a] # None => course[a].task \in Task /\ course[a].head \in Order
  BY CourseIs DEF BookInv, HeadOf
<1>2. ASSUME course[b] # None, course[b].status \in Live
      PROVE  /\ b \in LiveCourses /\ course[b].task \in Task
             /\ task[course[b].task] # None /\ task[course[b].task].head = course[b].head
  BY <1>1, <1>2 DEF TasksStand, LiveCourses, HeadOf
<1>3. CASE UNCHANGED <<course, task>>
  BY <1>2, <1>3
<1>4. CASE CourseEndsOrGoesOn /\ (SameFiling \/ UNCHANGED task)
  <2>1. PICK a \in LiveCourses, s \in Statuses : StatusMoved(a, s)
    BY <1>4 DEF CourseEndsOrGoesOn
  <2>2. /\ course[b] # None /\ course[b].status \in Live
        /\ course'[b].task = course[b].task /\ course'[b].head = course[b].head
    BY <2>1 DEF StatusMoved, LiveCourses
  <2>3. QED
    BY <1>2, <1>4, <2>2 DEF SameFiling
<1>5. ASSUME NEW o \in Order, NEW t \in Task, ComposeTask(o, t)
      PROVE  task'[course'[b].task] # None /\ task'[course'[b].task].head = course'[b].head
  <2>1. task[t] = None /\ UNCHANGED course /\ \A u \in Task : u # t => task'[u] = task[u]
    BY <1>1, <1>5, MintedIsNew DEF ComposeTask, TypeOK
  <2>2. QED
    BY <1>2, <2>1
<1>6. ASSUME NEW t \in Task, NEW a \in CourseId, Assign(t, a)
      PROVE  task'[course'[b].task] # None /\ task'[course'[b].task].head = course'[b].head
  <2>1. /\ task[t] # None /\ course'[a].task = t /\ course'[a].head = task[t].head
        /\ \A x \in CourseId : x # a => course'[x] = course[x]
        /\ task'[t] # None /\ task'[t].head = task[t].head
        /\ \A u \in Task : u # t => task'[u] = task[u]
    BY <1>1, <1>6, AssignCarries
  <2>2. QED
    BY <1>2, <2>1
<1>7. ASSUME NEW t \in Task, NEW a \in CourseId, Reprogram(a, t)
      PROVE  task'[course'[b].task] # None /\ task'[course'[b].task].head = course'[b].head
  <2>1. /\ a \in LiveCourses /\ task[t] = None
        /\ course'[a].task = t /\ course'[a].head = course[a].head
        /\ \A x \in CourseId : x # a => course'[x] = course[x]
        /\ task[course[a].task] # None /\ task'[course[a].task] # None
        /\ task'[course[a].task].head = task[course[a].task].head
        /\ task'[t] # None /\ task'[t].head = HeadOf(a)
        /\ \A u \in Task : u # t /\ u # course[a].task => task'[u] = task[u]
    BY <1>1, <1>7, ReprogramCarries
  <2>2. CASE b = a
    BY <2>1, <2>2 DEF HeadOf
  <2>3. CASE b # a
    BY <1>2, <2>1, <2>3
  <2>4. QED
    BY <2>2, <2>3
<1>8. CASE RetireSweeps
  <2> DEFINE o == Head(retiring.left)
  <2>1. /\ \A t \in Task : task'[t] = IF task[t] # None /\ task[t].head = o THEN None ELSE task[t]
        /\ \A a \in CourseId \ Records(o) : course'[a] = course[a]
        /\ \A a \in Records(o) : course'[a].status = "gone"
    BY <1>1, <1>8, SweepCarries
  <2>2. b \notin Records(o)
    BY <2>1 DEF Live
  <2>3. course'[b] = course[b] /\ course[b].head # o
    BY <2>1, <2>2 DEF Records, HeadOf, Live
  <2>4. QED
    BY <1>2, <2>1, <2>3
<1>9. CASE RetireForgets
  <2>1. /\ \A a \in retiring.on.courses : course'[a].status = "gone"
        /\ \A a \in CourseId \ retiring.on.courses : course'[a] = course[a]
        /\ UNCHANGED task
    BY <1>9, ForgetsCarries
  <2>2. course'[b] = course[b]
    BY <2>1 DEF Live
  <2>3. QED
    BY <1>2, <2>1, <2>2
<1>10. CourseGoesOn => CourseEndsOrGoesOn
  BY DEF CourseGoesOn, CourseEndsOrGoesOn, Statuses, Live
<1>11. QED
  BY <1>3, <1>4, <1>5, <1>6, <1>7, <1>8, <1>9, <1>10, CourseSteps DEF CourseAside, EndHeard

\* A course the retirement sweeps stays forgotten.
LEMMA SweptIsGoneStep == BookInv /\ [Next]_vars => SweptIsGone'
<1> SUFFICES ASSUME BookInv, [Next]_vars, retiring' # None, retiring'.on # None,
                    NEW b \in retiring'.on.courses
             PROVE  course'[b] # None /\ course'[b].status = "gone"
                    /\ course'[b].head = retiring'.on.order
  BY DEF SweptIsGone, HeadOf
<1>1. TypeOK /\ SweptIsGone
  BY DEF BookInv
<1>2. CASE UNCHANGED retiring /\ UNCHANGED course
  BY <1>1, <1>2 DEF SweptIsGone, HeadOf
<1>3. ASSUME UNCHANGED retiring,
             \A x \in CourseId : course[x] # None /\ course[x].status = "gone" =>
                 course'[x] = course[x]
      PROVE  course'[b] # None /\ course'[b].status = "gone"
             /\ course'[b].head = retiring'.on.order
  <2>1. retiring.on.courses \subseteq CourseId
    BY <1>1, <1>3 DEF TypeOK, Retiring, Swept
  <2>2. QED
    BY <1>1, <1>3, <2>1 DEF SweptIsGone, HeadOf
<1>4. CASE CourseEndsOrGoesOn /\ UNCHANGED retiring
  BY <1>3, <1>4 DEF CourseEndsOrGoesOn, StatusMoved, LiveCourses, Live
<1>5. ASSUME NEW o \in Order, NEW t \in Task, ComposeTask(o, t)
      PROVE  UNCHANGED retiring /\ UNCHANGED course
  BY <1>5 DEF ComposeTask
<1>6. ASSUME NEW t \in Task, NEW a \in CourseId, Assign(t, a)
      PROVE  /\ UNCHANGED retiring
             /\ \A x \in CourseId : course[x] # None /\ course[x].status = "gone" =>
                    course'[x] = course[x]
  <2>1. course[a] = None /\ UNCHANGED retiring
        /\ \A x \in CourseId : x # a => course'[x] = course[x]
    BY <1>1, <1>6, AssignCarries
  <2>2. QED
    BY <2>1
<1>7. ASSUME NEW t \in Task, NEW a \in CourseId, Reprogram(a, t)
      PROVE  /\ UNCHANGED retiring
             /\ \A x \in CourseId : course[x] # None /\ course[x].status = "gone" =>
                    course'[x] = course[x]
  <2>1. /\ course[a].status = "acknowledged" /\ UNCHANGED retiring
        /\ \A x \in CourseId : x # a => course'[x] = course[x]
    BY <1>1, <1>7, ReprogramCarries DEF BookInv
  <2>2. QED
    BY <2>1
<1>8. CASE RetireSweeps
  <2> DEFINE o == Head(retiring.left)
             on == [order |-> o, courses |-> Records(o), funded |-> fund[o] # "absent"]
  <2>1. /\ \A a \in Records(o) : /\ course'[a] # None /\ course[a].head = o
                                 /\ course'[a].status = "gone"
                                 /\ course'[a].head = course[a].head
        /\ retiring'.on = None \/ retiring'.on = on
    BY <1>1, <1>8, SweepCarries DEF HeadOf
  <2>2. on.courses = Records(o) /\ on.order = o
    OBVIOUS
  <2> HIDE DEF on, o
  <2>3. QED
    BY <2>1, <2>2
<1>9. CASE RetireForgets
  BY <1>9, ForgetsCarries
<1>10. CourseGoesOn => CourseEndsOrGoesOn
  BY DEF CourseGoesOn, CourseEndsOrGoesOn, Statuses, Live
<1>11. QED
  BY <1>2, <1>4, <1>5, <1>6, <1>7, <1>8, <1>9, <1>10, <1>3, CourseSteps DEF CourseAside, EndHeard

\* A course is filed under one of its articles, whatever is forgotten.
LEMMA HeadTravelsStep == BookInv /\ [Next]_vars => HeadTravels'
<1> SUFFICES ASSUME BookInv, [Next]_vars, NEW b \in CourseId, course'[b] # None
             PROVE  course'[b].head \in course'[b].orders
  BY DEF HeadTravels, HeadOf, ArticlesOf
<1>1. /\ TypeOK /\ TasksStand
      /\ \A a \in CourseId : course[a] # None => course[a].head \in course[a].orders
  BY DEF BookInv, HeadTravels, HeadOf, ArticlesOf
<1>2. CASE UNCHANGED course
  BY <1>1, <1>2
<1>3. CASE CourseEndsOrGoesOn
  BY <1>1, <1>3 DEF CourseEndsOrGoesOn, StatusMoved, LiveCourses
<1>4. ASSUME NEW o \in Order, NEW t \in Task, ComposeTask(o, t) PROVE UNCHANGED course
  BY <1>4 DEF ComposeTask
<1>5. ASSUME NEW t \in Task, NEW a \in CourseId, Assign(t, a)
      PROVE  course'[b].head \in course'[b].orders
  <2>1. /\ course'[a].head = task[t].head /\ task[t].head \in course'[a].orders
        /\ \A x \in CourseId : x # a => course'[x] = course[x]
    BY <1>1, <1>5, AssignCarries
  <2>2. QED
    BY <1>1, <2>1
<1>6. ASSUME NEW t \in Task, NEW a \in CourseId, Reprogram(a, t)
      PROVE  course'[b].head \in course'[b].orders
  <2>1. /\ course[a] # None
        /\ course'[a].head = course[a].head /\ course'[a].orders = course[a].orders
        /\ \A x \in CourseId : x # a => course'[x] = course[x]
    BY <1>1, <1>6, ReprogramCarries DEF LiveCourses
  <2>2. QED
    BY <1>1, <2>1
<1>7. CASE RetireSweeps
  <2> DEFINE o == Head(retiring.left)
  <2>1. /\ \A a \in CourseId \ Records(o) : course'[a] = course[a]
        /\ \A a \in Records(o) : /\ course[a] # None /\ course'[a].head = course[a].head
                                 /\ course'[a].orders = course[a].orders
    BY <1>1, <1>7, SweepCarries
  <2> HIDE DEF o
  <2>2. QED
    BY <1>1, <2>1
<1>8. CASE RetireForgets
  <2>1. /\ \A a \in retiring.on.courses : /\ course'[a].head = course[a].head
                                          /\ course'[a].orders = {course[a].head}
        /\ \A a \in CourseId \ retiring.on.courses : course'[a] = course[a]
    BY <1>8, ForgetsCarries
  <2>2. QED
    BY <1>1, <2>1
<1>9. CourseGoesOn => CourseEndsOrGoesOn
  BY DEF CourseGoesOn, CourseEndsOrGoesOn, Statuses, Live
<1>10. QED
  BY <1>2, <1>3, <1>4, <1>5, <1>6, <1>7, <1>8, <1>9, CourseSteps DEF CourseAside, EndHeard

\* Every step keeps the books.
LEMMA BookStep == BookInv /\ [Next]_vars => BookInv'
BY TypeStep, TasksStandStep, SweptIsGoneStep, HeadTravelsStep DEF BookInv

\* The books stand at the start.
LEMMA InitBooks == Init => BookInv
<1> SUFFICES ASSUME Init PROVE BookInv
  OBVIOUS
<1>1. TypeOK
  BY InitTyped
<1>2. retiring = None /\ \A a \in CourseId : course[a] = None
  BY DEF Init
<1>3. QED
  BY <1>1, <1>2 DEF BookInv, TasksStand, SweptIsGone, HeadTravels, LiveCourses

\* The books keep their types, and a course under way its task.
THEOREM BooksStand == Spec => []BookInv
BY InitBooks, BookStep, PTL DEF Spec

-----------------------------------------------------------------------------
(* What custody ended, the fleet book counts, and no other ending.          *)

PlaceOf(k) == IF k = "livree" THEN "buyer" ELSE "home"

\* A closing word, an ending counted and a settlement are all of the place
\* where custody's ledger stands.
WordsInv ==
    /\ \A o \in Order, k \in Ending : <<k, o>> \in wires => file[o].place = PlaceOf(k)
    /\ \A o \in Order, k \in Ending : <<o, k>> \in log => file[o].place = PlaceOf(k)
    /\ \A a \in CourseId, o \in Order :
           reglement[a][o] # None => <<o, reglement[a][o]>> \in log

\* A course ended on its bag was settled article by article.
SettledInv ==
    \A a \in CourseId : course[a] # None =>
        /\ IsColis(a) /\ course[a].status = "delivered" =>
               \A o \in ArticlesOf(a) : reglement[a][o] = "livree"
        /\ IsColis(a) /\ course[a].status = "returned" =>
               /\ \A o \in ArticlesOf(a) : reglement[a][o] # None
               /\ \E o \in ArticlesOf(a) : reglement[a][o] = "retournee"
        /\ ~IsColis(a) /\ course[a].status \in {"delivered", "returned"} =>
               \E k \in Ending : <<HeadOf(a), k>> \in log

EndInv == BookInv /\ WordsInv /\ SettledInv

\* A ledger that is closed stays closed, and a closing word is said of it.
LEMMA LedgersClose ==
  ASSUME TypeOK, [Next]_vars, NEW o \in Order
  PROVE  /\ file[o].place \in {"buyer", "home"} => file'[o].place = file[o].place
         /\ \A k \in Ending : <<k, o>> \in wires' =>
                <<k, o>> \in wires \/ file'[o].place = PlaceOf(k)
<1>1. file \in [Order -> Ledger]
  BY DEF TypeOK
<1>2. CASE UNCHANGED file /\ wires' \subseteq wires
  BY <1>2
<1>3. ASSUME NEW p \in Order,
             \/ \E a \in CourseId : Pickup(a, p)
             \/ Drop(p) \/ Absent(p) \/ OpenReturn(p) \/ HandOver(p)
      PROVE  /\ file[o].place \in {"buyer", "home"} => file'[o].place = file[o].place
             /\ \A k \in Ending : <<k, o>> \in wires' =>
                    <<k, o>> \in wires \/ file'[o].place = PlaceOf(k)
  <2>1. file[p] \in Ledger
    BY <1>1
  <2>2. ASSUME NEW f, f \in Ledger, file' = [file EXCEPT ![p] = f]
        PROVE  file'[p] = f /\ (o # p => file'[o] = file[o])
    BY <1>1, <2>2
  <2>3. CASE \E a \in CourseId : Pickup(a, p)
    <3>1. file' = [file EXCEPT ![p].place = "rider"] /\ file[p].place = "supplier" /\ wires' = wires
      BY <2>3 DEF Pickup
    <3>2. QED
      BY <1>1, <2>1, <3>1 DEF Ledger
  <2>4. CASE Drop(p)
    <3>1. /\ file' = [file EXCEPT ![p].place = "buyer"] /\ file[p].place = "rider"
          /\ wires' = wires \cup {<<"livree", p>>}
      BY <2>4 DEF Drop, Says
    <3>2. QED
      BY <1>1, <2>1, <3>1 DEF Ledger, PlaceOf
  <2>5. CASE Absent(p)
    <3>1. /\ file' = [file EXCEPT ![p].ladder = "reschedule"]
          /\ wires' = wires \cup {<<"reprogrammation", p>>}
      BY <2>5 DEF Absent, Says
    <3>2. QED
      BY <1>1, <2>1, <3>1 DEF Ledger, Ending
  <2>6. CASE OpenReturn(p)
    <3>1. /\ file' = [file EXCEPT ![p].back = TRUE] /\ wires' = wires \cup {<<"retour", p>>}
      BY <2>6 DEF OpenReturn, Says
    <3>2. QED
      BY <1>1, <2>1, <3>1 DEF Ledger, Ending
  <2>7. CASE HandOver(p)
    <3>1. /\ file' = [file EXCEPT ![p].place = "home"] /\ file[p].place = "rider"
          /\ wires' = wires \cup {<<"retournee", p>>}
      BY <2>7 DEF HandOver, Says
    <3>2. QED
      BY <1>1, <2>1, <3>1 DEF Ledger, PlaceOf
  <2>8. QED
    BY <1>3, <2>3, <2>4, <2>5, <2>6, <2>7
<1>4. CASE RelaySends
  <2>1. PICK p \in relay.left : file' = [file EXCEPT ![p] = ReturnApplied(@, relay.cmd)]
    BY <1>4 DEF RelaySends
  <2>2. p \in Order /\ file[p] \in Ledger
    BY <1>1, <1>4 DEF RelaySends, TypeOK, Relay
  <2>3. ReturnApplied(file[p], relay.cmd).place = file[p].place
    BY <2>2 DEF ReturnApplied, Ledger
  <2>4. file'[o].place = file[o].place /\ wires' = wires
    BY <1>1, <1>4, <2>1, <2>2, <2>3 DEF RelaySends
  <2>5. QED
    BY <2>4
<1>5. CASE UNCHANGED vars
  BY <1>2, <1>5 DEF vars
<1>6. CASE Founder \/ Phone \/ (\E p \in Order : Facts(p)) \/ Heard \/ DecideEnds \/ Retirement
  <2>1. UNCHANGED file
    BY <1>6 DEF Founder, Phone, Facts, Heard, DecideEnds, Retirement, ComposeTask, Assign, TakeBack,
                Reprogram, DecideBegins, RetireArticle, RetireBag, Acknowledge, Requeue, CourseEnds,
                RetourOuvert, Reprogrammation, RetireSweeps, RetireForgets, RetireEnds
  <2>2. wires' \subseteq wires
    BY <1>6 DEF Founder, Phone, Facts, Heard, DecideEnds, Retirement, ComposeTask, Assign, TakeBack,
                Reprogram, DecideBegins, RetireArticle, RetireBag, Acknowledge, Requeue, CourseEnds,
                RetourOuvert, Reprogrammation, RetireSweeps, RetireForgets, RetireEnds, Answered
  <2>3. QED
    BY <1>2, <2>1, <2>2
<1>7. QED
  BY <1>3, <1>4, <1>5, <1>6 DEF Next, Requests, Custody

\* One article of a course settled; the course ends with the last.
SettledOn(a, o, k) ==
    /\ a \in LiveCourses /\ IsColis(a)
    /\ reglement' = [reglement EXCEPT ![a][o] = k]
    /\ UNCHANGED course \/ (Regles(a) /\ StatusMoved(a, Ended(a)))

\* A course of one article, ended with it.
EndedAlone(a, o, k) ==
    /\ a \in LiveCourses /\ ~IsColis(a) /\ HeadOf(a) = o
    /\ StatusMoved(a, EndedBy(k))
    /\ UNCHANGED reglement

\* What a closing word does to the books.
LEMMA EndingHeard ==
  ASSUME TypeOK, HeadTravels, NEW o \in Order, NEW k \in Ending, CourseEnds(o, k)
  PROVE  /\ <<k, o>> \in wires /\ UNCHANGED file
         /\ \/ UNCHANGED <<log, reglement, course>>
            \/ log' = log \cup {<<o, k>>} /\ \E a \in CourseId : SettledOn(a, o, k)
            \/ log' = log \cup {<<o, k>>} /\ \E a \in CourseId : EndedAlone(a, o, k)
<1>1. <<k, o>> \in wires /\ UNCHANGED file
  BY DEF CourseEnds
<1>2. ASSUME NEW a \in EntryFor(o), ReglerColis(o, k, a)
      PROVE  \/ UNCHANGED <<log, reglement, course>>
             \/ log' = log \cup {<<o, k>>} /\ SettledOn(a, o, k)
  <2>1. CASE reglement[a][o] # None \/ a \notin LiveCourses
    BY <1>2, <2>1 DEF ReglerColis
  <2>2. CASE ~(reglement[a][o] # None \/ a \notin LiveCourses)
    <3>1. /\ reglement' = [reglement EXCEPT ![a][o] = k] /\ log' = log \cup {<<o, k>>}
          /\ CloseIf(a, Regles(a), Ended(a)) /\ a \in LiveCourses /\ IsColis(a)
      BY <1>2, <2>2 DEF ReglerColis, Counted, EntryFor, Entries
    <3>2. Regles(a) \in BOOLEAN /\ Ended(a) \in Statuses
      BY DEF Regles, Ended, Statuses
    <3>3. UNCHANGED course \/ (Regles(a) /\ StatusMoved(a, Ended(a)))
      BY <3>1, <3>2, CloseTyped
    <3>4. QED
      BY <3>1, <3>3 DEF SettledOn
  <2>3. QED
    BY <2>1, <2>2
<1>3. ASSUME Entries(o) = {}, ReglerSeul(o, k)
      PROVE  \/ UNCHANGED <<log, reglement, course>>
             \/ log' = log \cup {<<o, k>>} /\ \E a \in CourseId : EndedAlone(a, o, k)
  <2> DEFINE s == EndedBy(k)
  <2>1. CASE UNCHANGED <<log, course, resched>>
    BY <1>3, <2>1 DEF ReglerSeul
  <2>2. ASSUME NEW a \in LiveCourses, HeadOf(a) = o, Counted(o, k), CloseIf(a, TRUE, s),
               ~Already(o, s)
        PROVE  log' = log \cup {<<o, k>>} /\ EndedAlone(a, o, k)
    <3>1. s \in Statuses
      BY DEF EndedBy, Statuses
    <3>2. StatusMoved(a, s)
      BY <2>2, <3>1, CloseTyped
    <3>3. ~IsColis(a)
      BY <1>3, <2>2 DEF HeadTravels, Entries, LiveCourses
    <3>4. QED
      BY <1>3, <2>2, <3>2, <3>3 DEF EndedAlone, Counted, ReglerSeul
  <2>3. QED
    BY <1>3, <2>1, <2>2 DEF ReglerSeul, LiveCourses
<1>4. EntryFor(o) \subseteq CourseId
  BY DEF EntryFor, Entries
<1>5. QED
  BY <1>1, <1>2, <1>3, <1>4 DEF CourseEnds

\* The other steps count nothing, and settle nothing but a new course's blank.
LEMMA OnlyWordsCount ==
  ASSUME BookInv, [Next]_vars
  PROVE  \/ \E o \in Order, k \in Ending : CourseEnds(o, k)
         \/ UNCHANGED Counts
         \/ UNCHANGED log /\ \E t \in Task, a \in CourseId :
                Assign(t, a) /\ reglement' = [reglement EXCEPT ![a] = [o \in Order |-> None]]
<1>1. ASSUME NEW o \in Order, NEW t \in Task, ComposeTask(o, t) PROVE UNCHANGED Counts
  BY <1>1 DEF ComposeTask, Counts
<1>2. ASSUME NEW a \in CourseId, NEW t \in Task, Reprogram(a, t) PROVE UNCHANGED Counts
  BY <1>2 DEF Reprogram, Counts
<1>3. ASSUME NEW a \in CourseId, NEW t \in Task, Assign(t, a)
      PROVE  UNCHANGED log /\ reglement' = [reglement EXCEPT ![a] = [o \in Order |-> None]]
  BY <1>3 DEF Assign
<1>4. RetireSweeps \/ RetireForgets => UNCHANGED Counts
  BY DEF RetireSweeps, RetireForgets, Counts
<1>5. QED
  BY <1>1, <1>2, <1>3, <1>4, CourseSteps DEF CourseAside, EndHeard

\* No step makes a word, a count or a settlement of a place custody is not at.
LEMMA WordsStep == EndInv /\ [Next]_vars => WordsInv'
<1> SUFFICES ASSUME BookInv, WordsInv, [Next]_vars PROVE WordsInv'
  BY DEF EndInv
<1>1. TypeOK /\ TypeOK' /\ HeadTravels
  BY TypeStep DEF BookInv
<1>9. /\ reglement \in [CourseId -> [Order -> Ending \cup {None}]]
      /\ \A a \in CourseId, o \in Order :
             reglement[a][o] # None => <<o, reglement[a][o]>> \in log
  BY <1>1 DEF WordsInv, TypeOK
<1>2. \A o \in Order : /\ file[o].place \in {"buyer", "home"} => file'[o].place = file[o].place
                       /\ \A k \in Ending : <<k, o>> \in wires' =>
                              <<k, o>> \in wires \/ file'[o].place = PlaceOf(k)
  BY <1>1, LedgersClose
<1>3. \A k \in Ending : PlaceOf(k) \in {"buyer", "home"}
  BY DEF PlaceOf
<1>4. \A o \in Order, k \in Ending : <<k, o>> \in wires' => file'[o].place = PlaceOf(k)
  BY <1>2, <1>3 DEF WordsInv
<1>5. \A o \in Order, k \in Ending :
          <<k, o>> \in wires \/ <<o, k>> \in log => file'[o].place = PlaceOf(k)
  BY <1>2, <1>3 DEF WordsInv
<1>6. ASSUME NEW o \in Order, NEW k \in Ending, CourseEnds(o, k)
      PROVE  /\ \A p \in Order, j \in Ending : <<p, j>> \in log' => file'[p].place = PlaceOf(j)
             /\ \A a \in CourseId, p \in Order :
                    reglement'[a][p] # None => <<p, reglement'[a][p]>> \in log'
  <2>1. /\ <<k, o>> \in wires
        /\ \/ UNCHANGED <<log, reglement, course>>
           \/ log' = log \cup {<<o, k>>} /\ \E a \in CourseId : SettledOn(a, o, k)
           \/ log' = log \cup {<<o, k>>} /\ \E a \in CourseId : EndedAlone(a, o, k)
    BY <1>1, <1>6, EndingHeard
  <2>6. log' = log \/ log' = log \cup {<<o, k>>}
    BY <2>1
  <2>7. file'[o].place = PlaceOf(k)
    BY <1>5, <2>1
  <2>2. ASSUME NEW p \in Order, NEW j \in Ending, <<p, j>> \in log'
        PROVE  file'[p].place = PlaceOf(j)
    <3>1. CASE <<p, j>> \in log
      BY <1>5, <3>1
    <3>2. CASE <<p, j>> \notin log
      BY <2>2, <2>6, <2>7, <3>2
    <3>3. QED
      BY <3>1, <3>2
  <2>3. \/ UNCHANGED reglement /\ log \subseteq log'
        \/ log' = log \cup {<<o, k>>} /\ \E a \in CourseId :
               reglement' = [reglement EXCEPT ![a][o] = k]
    BY <2>1 DEF SettledOn, EndedAlone
  <2>4. ASSUME NEW a \in CourseId, NEW p \in Order, reglement'[a][p] # None
        PROVE  <<p, reglement'[a][p]>> \in log'
    <3>1. CASE UNCHANGED reglement /\ log \subseteq log'
      BY <1>9, <2>4, <3>1
    <3>2. ASSUME NEW b \in CourseId, log' = log \cup {<<o, k>>},
                 reglement' = [reglement EXCEPT ![b][o] = k]
          PROVE  <<p, reglement'[a][p]>> \in log'
      <4>1. CASE a = b /\ p = o
        <5>1. reglement'[a][p] = k
          BY <1>9, <3>2, <4>1
        <5>2. QED
          BY <3>2, <4>1, <5>1
      <4>2. CASE ~(a = b /\ p = o)
        <5>1. reglement'[a][p] = reglement[a][p]
          BY <1>9, <3>2, <4>2
        <5>2. QED
          BY <1>9, <2>4, <3>2, <5>1
      <4>3. QED
        BY <4>1, <4>2
    <3>3. QED
      BY <2>3, <3>1, <3>2
  <2>5. QED
    BY <2>2, <2>4
<1>7. ASSUME UNCHANGED log,
             \/ UNCHANGED reglement
             \/ \E a \in CourseId : reglement' = [reglement EXCEPT ![a] = [o \in Order |-> None]]
      PROVE  /\ \A p \in Order, j \in Ending : <<p, j>> \in log' => file'[p].place = PlaceOf(j)
             /\ \A a \in CourseId, p \in Order :
                    reglement'[a][p] # None => <<p, reglement'[a][p]>> \in log'
  <2>1. \A p \in Order, j \in Ending : <<p, j>> \in log' => file'[p].place = PlaceOf(j)
    BY <1>5, <1>7
  <2>2. ASSUME NEW a \in CourseId, NEW p \in Order, reglement'[a][p] # None
        PROVE  reglement'[a][p] = reglement[a][p]
    BY <1>7, <1>9, <2>2
  <2>3. QED
    BY <1>7, <1>9, <2>1, <2>2
<1>8. QED
  BY <1>4, <1>6, <1>7, OnlyWordsCount DEF WordsInv, Counts

\* What an ended course was settled on: every article delivered; or some
\* returned; or its single article, either way.
Settled(b) ==
    /\ IsColis(b) /\ course[b].status = "delivered" =>
           \A o \in ArticlesOf(b) : reglement[b][o] = "livree"
    /\ IsColis(b) /\ course[b].status = "returned" =>
           /\ \A o \in ArticlesOf(b) : reglement[b][o] # None
           /\ \E o \in ArticlesOf(b) : reglement[b][o] = "retournee"
    /\ ~IsColis(b) /\ course[b].status \in {"delivered", "returned"} =>
           \E k \in Ending : <<HeadOf(b), k>> \in log

\* A course left as it was, with its settlements, stays settled.
LEMMA SettledStays ==
  ASSUME NEW b \in CourseId, course[b] # None, Settled(b), log \subseteq log',
         course'[b] = course[b], reglement'[b] = reglement[b]
  PROVE  Settled(b)'
BY DEF Settled, IsColis, ArticlesOf, HeadOf

\* A course not ended on its bag has nothing to be settled.
LEMMA SettledNot ==
  ASSUME NEW b \in CourseId, course'[b].status \notin {"delivered", "returned"}
  PROVE  Settled(b)'
BY DEF Settled

\* No step ends a course on its bag but with its last article, nor unsettles one.
LEMMA SettledStep == EndInv /\ [Next]_vars => SettledInv'
<1> SUFFICES ASSUME BookInv, WordsInv, SettledInv, [Next]_vars, NEW b \in CourseId,
                    course'[b] # None
             PROVE  Settled(b)'
  BY DEF EndInv, SettledInv, Settled
<1>1. TypeOK /\ TypeOK' /\ TasksStand /\ HeadTravels /\ (course[b] # None => Settled(b))
  BY TypeStep DEF BookInv, SettledInv, Settled
<1>2. CASE UNCHANGED <<course, Counts>>
  BY <1>1, <1>2, SettledStays DEF Counts
<1>3. CASE CourseGoesOn /\ UNCHANGED Counts
  <2>1. PICK a \in LiveCourses, s \in {"acknowledged", "ended"} : StatusMoved(a, s)
    BY <1>3 DEF CourseGoesOn
  <2>2. CASE a = b
    BY <2>1, <2>2, SettledNot DEF StatusMoved
  <2>3. CASE a # b
    BY <1>1, <1>3, <2>1, <2>3, SettledStays DEF StatusMoved, Counts
  <2>4. QED
    BY <2>2, <2>3
<1>4. ASSUME NEW o \in Order, NEW k \in Ending, CourseEnds(o, k)
      PROVE  Settled(b)'
  <2>1. CASE UNCHANGED <<log, reglement, course>>
    BY <1>1, <2>1, SettledStays
  <2>2. ASSUME NEW a \in CourseId, log' = log \cup {<<o, k>>}, SettledOn(a, o, k)
        PROVE  Settled(b)'
    <3>1. /\ a \in LiveCourses /\ IsColis(a) /\ reglement' = [reglement EXCEPT ![a][o] = k]
          /\ reglement \in [CourseId -> [Order -> Ending \cup {None}]]
      BY <1>1, <2>2 DEF SettledOn, TypeOK
    <3>2. CASE b # a
      <4>1. course'[b] = course[b] /\ reglement'[b] = reglement[b]
        BY <2>2, <3>1, <3>2 DEF SettledOn, StatusMoved
      <4>2. QED
        BY <1>1, <2>2, <4>1, SettledStays
    <3>3. CASE b = a /\ UNCHANGED course
      <4>1. course'[b] = course[b] /\ course[b].status \in Live
        BY <2>2, <3>1, <3>3 DEF SettledOn, LiveCourses
      <4>2. QED
        BY <4>1, SettledNot DEF Live
    <3>4. CASE b = a /\ Regles(a) /\ StatusMoved(a, Ended(a))
      <4>1. /\ course'[b].status = Ended(b) /\ course'[b].head = course[b].head
            /\ course'[b].orders = course[b].orders
        BY <2>2, <3>4 DEF SettledOn, StatusMoved
      <4>2. IsColis(b)'
        BY <3>1, <3>4, <4>1 DEF IsColis, ArticlesOf, HeadOf
      <4>3. \A p \in course[b].orders : reglement'[b][p] # None
        BY <3>4 DEF Regles, ArticlesOf
      <4>4. course[b].orders \subseteq Order
        BY <1>1, <3>1, <3>4, CourseIs DEF LiveCourses, ArticlesOf
      <4>5. \A p \in course[b].orders : reglement'[b][p] \in {"livree", "retournee"}
        BY <1>1, <4>3, <4>4 DEF TypeOK, Ending
      <4>6. /\ Ended(b) = "returned" => \E p \in course[b].orders : reglement'[b][p] = "retournee"
            /\ Ended(b) = "delivered" => \A p \in course[b].orders : reglement'[b][p] # "retournee"
        BY DEF Ended, ArticlesOf
      <4>7. QED
        BY <4>1, <4>2, <4>3, <4>5, <4>6 DEF Settled, ArticlesOf
    <3>5. QED
      BY <2>2, <3>2, <3>3, <3>4 DEF SettledOn
  <2>3. ASSUME NEW a \in CourseId, log' = log \cup {<<o, k>>}, EndedAlone(a, o, k)
        PROVE  Settled(b)'
    <3>1. /\ a \in LiveCourses /\ ~IsColis(a) /\ HeadOf(a) = o /\ UNCHANGED reglement
          /\ course'[a].head = course[a].head /\ course'[a].orders = course[a].orders
          /\ \A x \in CourseId : x # a => course'[x] = course[x]
      BY <2>3 DEF EndedAlone, StatusMoved
    <3>2. CASE b # a
      BY <1>1, <2>3, <3>1, <3>2, SettledStays
    <3>3. CASE b = a
      <4>1. ~IsColis(b)' /\ HeadOf(b)' = o
        BY <3>1, <3>3 DEF IsColis, ArticlesOf, HeadOf, LiveCourses
      <4>2. <<o, k>> \in log'
        BY <2>3
      <4>3. QED
        BY <4>1, <4>2 DEF Settled
    <3>4. QED
      BY <3>2, <3>3
  <2>4. QED
    BY <1>1, <1>4, <2>1, <2>2, <2>3, EndingHeard
<1>5. ASSUME NEW o \in Order, NEW t \in Task, ComposeTask(o, t) PROVE UNCHANGED <<course, Counts>>
  BY <1>5 DEF ComposeTask, Counts
<1>6. ASSUME NEW t \in Task, NEW a \in CourseId, Assign(t, a) PROVE Settled(b)'
  <2>1. /\ course'[a].status = "offered" /\ \A x \in CourseId : x # a => course'[x] = course[x]
    BY <1>1, <1>6, AssignCarries
  <2>2. /\ reglement' = [reglement EXCEPT ![a] = [o \in Order |-> None]] /\ UNCHANGED log
        /\ reglement \in [CourseId -> [Order -> Ending \cup {None}]]
    BY <1>1, <1>6 DEF Assign, TypeOK
  <2>3. CASE a = b
    BY <2>1, <2>3, SettledNot
  <2>4. CASE a # b
    BY <1>1, <2>1, <2>2, <2>4, SettledStays
  <2>5. QED
    BY <2>3, <2>4
<1>7. ASSUME NEW t \in Task, NEW a \in CourseId, Reprogram(a, t) PROVE Settled(b)'
  <2>1. /\ course[a].status = "acknowledged" /\ course'[a].status = course[a].status
        /\ \A x \in CourseId : x # a => course'[x] = course[x]
    BY <1>1, <1>7, ReprogramCarries
  <2>2. UNCHANGED Counts
    BY <1>7 DEF Reprogram, Counts
  <2>3. CASE a = b
    BY <2>1, <2>3, SettledNot
  <2>4. CASE a # b
    BY <1>1, <2>1, <2>2, <2>4, SettledStays DEF Counts
  <2>5. QED
    BY <2>3, <2>4
<1>8. CASE RetireSweeps
  <2> DEFINE o == Head(retiring.left)
  <2>1. /\ \A a \in CourseId \ Records(o) : course'[a] = course[a]
        /\ \A a \in Records(o) : course'[a].status = "gone"
    BY <1>1, <1>8, SweepCarries
  <2>2. UNCHANGED Counts
    BY <1>8 DEF RetireSweeps, Counts
  <2>3. CASE b \in Records(o)
    BY <2>1, <2>3, SettledNot
  <2>4. CASE b \notin Records(o)
    BY <1>1, <2>1, <2>2, <2>4, SettledStays DEF Counts
  <2>5. QED
    BY <2>3, <2>4
<1>9. CASE RetireForgets
  <2>1. /\ \A a \in retiring.on.courses : course'[a].status = "gone"
        /\ \A a \in CourseId \ retiring.on.courses : course'[a] = course[a]
    BY <1>9, ForgetsCarries
  <2>2. UNCHANGED Counts
    BY <1>9 DEF RetireForgets, Counts
  <2>3. CASE b \in retiring.on.courses
    BY <2>1, <2>3, SettledNot
  <2>4. CASE b \notin retiring.on.courses
    BY <1>1, <2>1, <2>2, <2>4, SettledStays DEF Counts
  <2>5. QED
    BY <2>3, <2>4
<1>10. QED
  BY <1>2, <1>3, <1>4, <1>5, <1>6, <1>7, <1>8, <1>9, CourseSteps DEF CourseAside, EndHeard, Counts

\* Nothing has ended at the start.
LEMMA InitEnds == Init => EndInv
<1> SUFFICES ASSUME Init PROVE EndInv
  OBVIOUS
<1>1. /\ wires = {} /\ log = {} /\ \A a \in CourseId : course[a] = None
      /\ \A a \in CourseId, o \in Order : reglement[a][o] = None
  BY DEF Init
<1>2. QED
  BY <1>1, InitBooks DEF EndInv, WordsInv, SettledInv

\* Every step keeps what is counted and settled true to custody.
LEMMA EndStep == EndInv /\ [Next]_vars => EndInv'
BY BookStep, WordsStep, SettledStep DEF EndInv

\* A course settled on words true to custody ends as custody ended its articles.
LEMMA EndsOnItsBag == EndInv => EndsWithItsBag
<1> SUFFICES ASSUME EndInv PROVE EndsWithItsBag
  OBVIOUS
<1>1. TypeOK /\ WordsInv /\ HeadTravels
  BY DEF EndInv, BookInv
<1>2. \A a \in CourseId : course[a] # None =>
          /\ Settled(a) /\ ArticlesOf(a) \in SUBSET Order /\ HeadOf(a) \in Order
  BY <1>1, CourseIs DEF EndInv, SettledInv, Settled
<1>3. \A o \in Order, k \in Ending : <<o, k>> \in log => file[o].place = PlaceOf(k)
  BY <1>1 DEF WordsInv
<1>4. ASSUME NEW o \in Order, NEW k \in Ending, <<o, k>> \in log
      PROVE  CountedAsItEnded(o)
  <2>1. file[o].place = PlaceOf(k)
    BY <1>3, <1>4
  <2>2. \A j \in Ending : <<o, j>> \in log => j = k
    BY <1>3, <2>1 DEF PlaceOf, Ending
  <2>3. k = IF file[o].place = "buyer" THEN "livree" ELSE "retournee"
    BY <2>1 DEF PlaceOf, Ending
  <2>4. QED
    BY <1>4, <2>2, <2>3 DEF CountedAsItEnded
<1>5. ASSUME NEW a \in CourseId, NEW o \in Order, reglement[a][o] # None
      PROVE  /\ reglement[a][o] \in Ending /\ <<o, reglement[a][o]>> \in log
             /\ file[o].place = PlaceOf(reglement[a][o]) /\ CountedAsItEnded(o)
  <2>1. reglement[a][o] \in Ending /\ <<o, reglement[a][o]>> \in log
    BY <1>1, <1>5 DEF TypeOK, WordsInv
  <2>2. QED
    BY <1>3, <1>4, <2>1
<1>6. ASSUME NEW a \in CourseId, IsColis(a), course[a].status \in {"delivered", "returned"}
      PROVE  /\ course[a].status = "delivered" => \A o \in ArticlesOf(a) : file[o].place = "buyer"
             /\ course[a].status = "returned" =>
                    /\ \A o \in ArticlesOf(a) : file[o].place \in {"buyer", "home"}
                    /\ \E o \in ArticlesOf(a) : file[o].place = "home"
             /\ \A o \in ArticlesOf(a) : CountedAsItEnded(o)
  <2>1. course[a] # None /\ Settled(a) /\ ArticlesOf(a) \in SUBSET Order
    BY <1>2, <1>6 DEF IsColis
  <2>2. CASE course[a].status = "delivered"
    <3>1. \A o \in ArticlesOf(a) : o \in Order /\ reglement[a][o] = "livree"
      BY <1>6, <2>1, <2>2 DEF Settled
    <3>2. \A o \in ArticlesOf(a) : file[o].place = "buyer" /\ CountedAsItEnded(o)
      BY <1>5, <3>1, NoneAssumption DEF PlaceOf, Ending
    <3>3. QED
      BY <2>2, <3>2
  <2>3. CASE course[a].status = "returned"
    <3>1. /\ \A o \in ArticlesOf(a) : o \in Order /\ reglement[a][o] # None
          /\ \E o \in ArticlesOf(a) : reglement[a][o] = "retournee"
      BY <1>6, <2>1, <2>3 DEF Settled
    <3>2. \A o \in ArticlesOf(a) : file[o].place \in {"buyer", "home"} /\ CountedAsItEnded(o)
      BY <1>5, <3>1 DEF PlaceOf
    <3>3. \E o \in ArticlesOf(a) : file[o].place = "home"
      BY <1>5, <3>1 DEF PlaceOf
    <3>4. QED
      BY <2>3, <3>2, <3>3
  <2>4. QED
    BY <1>6, <2>2, <2>3
<1>7. ASSUME NEW a \in CourseId, course[a] # None, ~IsColis(a),
             course[a].status \in {"delivered", "returned"}
      PROVE  \A o \in ArticlesOf(a) : CountedAsItEnded(o)
  <2>1. \E k \in Ending : <<HeadOf(a), k>> \in log
    BY <1>2, <1>7 DEF Settled
  <2>2. ArticlesOf(a) = {HeadOf(a)} /\ HeadOf(a) \in Order
    BY <1>2, <1>7 DEF IsColis
  <2>3. QED
    BY <1>4, <2>1, <2>2
<1>8. QED
  BY <1>6, <1>7 DEF EndsWithItsBag, IsColis

\* A bag's course ends with its last article, as custody ended each of them.
THEOREM CourseEndsWithItsBag == Spec => []EndsWithItsBag
BY InitEnds, EndStep, EndsOnItsBag, PTL DEF Spec

-----------------------------------------------------------------------------
(* The decision of return, on every ledger before it is shown.              *)

Holds(o) == \E c \in Cmd : file[o].heard[c] = "applied"

\* A decision remembered is on every ledger of its course; one on its way is on
\* every ledger it has left behind, under the command it carries.
RelayInv ==
    /\ \A a \in decided : course[a] # None /\ \A o \in ArticlesOf(a) : Holds(o)
    /\ relay # None =>
           /\ course[relay.course] # None
           /\ \A o \in ArticlesOf(relay.course) :
                  o \in relay.left \/ file[o].heard[relay.cmd] = "applied"

\* A course never takes an article on its way; it may be left with its head.
LEMMA ArticlesOnlyGo ==
  ASSUME BookInv, [Next]_vars, NEW b \in CourseId, course[b] # None
  PROVE  course'[b] # None /\ course'[b].orders \subseteq course[b].orders
<1>1. TypeOK /\ TasksStand /\ HeadTravels
  BY DEF BookInv
<1>2. CASE UNCHANGED course
  BY <1>2
<1>3. CASE CourseEndsOrGoesOn
  BY <1>3 DEF CourseEndsOrGoesOn, StatusMoved
<1>4. ASSUME NEW o \in Order, NEW t \in Task, ComposeTask(o, t) PROVE UNCHANGED course
  BY <1>4 DEF ComposeTask
<1>5. ASSUME NEW t \in Task, NEW a \in CourseId, Assign(t, a)
      PROVE  course'[b] = course[b]
  <2>1. course[a] = None /\ \A x \in CourseId : x # a => course'[x] = course[x]
    BY <1>1, <1>5, AssignCarries
  <2>2. QED
    BY <2>1
<1>6. ASSUME NEW t \in Task, NEW a \in CourseId, Reprogram(a, t)
      PROVE  course'[b] # None /\ course'[b].orders = course[b].orders
  <2>1. /\ course'[a] # None /\ course'[a].orders = course[a].orders
        /\ \A x \in CourseId : x # a => course'[x] = course[x]
    BY <1>1, <1>6, ReprogramCarries
  <2>2. QED
    BY <2>1
<1>7. CASE RetireSweeps
  <2> DEFINE o == Head(retiring.left)
  <2>1. /\ \A a \in CourseId \ Records(o) : course'[a] = course[a]
        /\ \A a \in Records(o) : course'[a] # None /\ course'[a].orders = course[a].orders
    BY <1>1, <1>7, SweepCarries
  <2> HIDE DEF o
  <2>2. QED
    BY <2>1
<1>8. CASE RetireForgets
  <2>1. /\ \A a \in retiring.on.courses : /\ course'[a] # None
                                          /\ course'[a].orders = {course[a].head}
        /\ \A a \in CourseId \ retiring.on.courses : course'[a] = course[a]
    BY <1>8, ForgetsCarries
  <2>2. QED
    BY <1>1, <2>1 DEF HeadTravels, HeadOf, ArticlesOf
<1>9. CourseGoesOn => CourseEndsOrGoesOn
  BY DEF CourseGoesOn, CourseEndsOrGoesOn, Statuses, Live
<1>10. QED
  BY <1>2, <1>3, <1>4, <1>5, <1>6, <1>7, <1>8, <1>9, CourseSteps DEF CourseAside, EndHeard

\* A ledger remembers what it answered.
LEMMA LedgersRemember ==
  ASSUME TypeOK, [Next]_vars, NEW o \in Order, NEW c \in Cmd, file[o].heard[c] # "no_word"
  PROVE  file'[o].heard[c] = file[o].heard[c]
<1>1. file \in [Order -> Ledger]
  BY DEF TypeOK
<1>2. CASE UNCHANGED file
  BY <1>2
<1>3. ASSUME NEW p \in Order,
             \/ \E a \in CourseId : Pickup(a, p)
             \/ Drop(p) \/ Absent(p) \/ OpenReturn(p) \/ HandOver(p)
      PROVE  file'[o].heard[c] = file[o].heard[c]
  <2>1. PICK f : file' = [file EXCEPT ![p] = f] /\
             \/ f = [file[p] EXCEPT !.place = "rider"] \/ f = [file[p] EXCEPT !.place = "buyer"]
             \/ f = [file[p] EXCEPT !.ladder = "reschedule"]
             \/ f = [file[p] EXCEPT !.back = TRUE] \/ f = [file[p] EXCEPT !.place = "home"]
    BY <1>3 DEF Pickup, Drop, Absent, OpenReturn, HandOver
  <2>2. file[p] \in Ledger
    BY <1>1
  <2>3. f.heard = file[p].heard
    BY <2>1, <2>2 DEF Ledger
  <2>4. QED
    BY <1>1, <2>1, <2>3
<1>4. CASE RelaySends
  <2>1. PICK p \in relay.left : file' = [file EXCEPT ![p] = ReturnApplied(@, relay.cmd)]
    BY <1>4 DEF RelaySends
  <2>2. p \in Order /\ file[p] \in Ledger /\ relay.cmd \in Cmd
    BY <1>1, <1>4 DEF RelaySends, TypeOK, Relay
  <2>3. ReturnApplied(file[p], relay.cmd).heard =
            [file[p].heard EXCEPT ![relay.cmd] = Verdict(file[p], relay.cmd)]
    BY <2>2 DEF ReturnApplied, Ledger
  <2>4. file[p].heard \in [Cmd -> {"no_word", "applied", "refused"}]
    BY <2>2 DEF Ledger
  <2>5. p = o => file'[o].heard = [file[o].heard EXCEPT ![relay.cmd] = Verdict(file[o], relay.cmd)]
    BY <1>1, <2>1, <2>2, <2>3
  <2>6. p # o => file'[o] = file[o]
    BY <1>1, <2>1, <2>2
  <2>7. QED
    BY <2>2, <2>4, <2>5, <2>6 DEF Verdict
<1>5. CASE UNCHANGED vars
  BY <1>2, <1>5 DEF vars
<1>6. CASE Founder \/ Phone \/ (\E p \in Order : Facts(p)) \/ Heard \/ DecideEnds \/ Retirement
  <2>1. UNCHANGED file
    BY <1>6 DEF Founder, Phone, Facts, Heard, DecideEnds, Retirement, ComposeTask, Assign, TakeBack,
                Reprogram, DecideBegins, RetireArticle, RetireBag, Acknowledge, Requeue, CourseEnds,
                RetourOuvert, Reprogrammation, RetireSweeps, RetireForgets, RetireEnds
  <2>2. QED
    BY <1>2, <2>1
<1>7. QED
  BY <1>3, <1>4, <1>5, <1>6 DEF Next, Requests, Custody

\* What moves a decision.
LEMMA DecisionSteps ==
  ASSUME [Next]_vars
  PROVE  \/ UNCHANGED <<decided, relay>>
         \/ \E a \in CourseId, c \in world.cmds : DecideBegins(a, c)
         \/ RelaySends \/ DecideEnds
<1>1. CASE UNCHANGED vars
  BY <1>1 DEF vars, board
<1>2. ASSUME NEW p \in Order,
             \/ \E a \in CourseId : Pickup(a, p)
             \/ Drop(p) \/ Absent(p) \/ OpenReturn(p) \/ HandOver(p)
      PROVE  UNCHANGED <<decided, relay>>
  BY <1>2 DEF Pickup, Drop, Absent, OpenReturn, HandOver, AtWork, board
<1>3. CASE Phone \/ (\E p \in Order : Facts(p)) \/ Heard \/ Retirement
  BY <1>3 DEF Phone, Facts, Heard, Retirement, Acknowledge, Requeue, CourseEnds,
              RetourOuvert, Reprogrammation, RetireSweeps, RetireForgets, RetireEnds
<1>4. CASE Founder
  BY <1>4 DEF Founder, ComposeTask, Assign, TakeBack, Reprogram, RetireArticle, RetireBag, board
<1>5. QED
  BY <1>1, <1>2, <1>3, <1>4 DEF Next, Requests, Custody

\* Every step keeps a decision, taken or on its way, on the ledgers it has left behind.
LEMMA RelayStep == BookInv /\ RelayInv /\ [Next]_vars => RelayInv'
<1> SUFFICES ASSUME BookInv, RelayInv, [Next]_vars PROVE RelayInv'
  OBVIOUS
<1>1. TypeOK /\ decided \subseteq CourseId /\ relay \in Relay \cup {None}
  BY DEF BookInv, TypeOK
<1>2. \A a \in CourseId : course[a] # None =>
          /\ course'[a] # None /\ course'[a].orders \subseteq course[a].orders
          /\ course[a].orders \subseteq Order
  BY <1>1, ArticlesOnlyGo, CourseIs DEF ArticlesOf
<1>3. \A o \in Order, c \in Cmd : file[o].heard[c] = "applied" => file'[o].heard[c] = "applied"
  BY <1>1, LedgersRemember
<1>4. ASSUME NEW a \in decided
      PROVE  course'[a] # None /\ \A o \in course'[a].orders : Holds(o)'
  BY <1>1, <1>2, <1>3 DEF RelayInv, ArticlesOf, Holds
<1>5. relay # None => /\ relay \in Relay /\ relay.course \in CourseId /\ relay.cmd \in Cmd
  BY <1>1 DEF Relay
<1>6. ASSUME relay # None
      PROVE  /\ course'[relay.course] # None
             /\ \A o \in course'[relay.course].orders :
                    o \in relay.left \/ file'[o].heard[relay.cmd] = "applied"
  BY <1>2, <1>3, <1>5, <1>6 DEF RelayInv, ArticlesOf
<1>7. CASE UNCHANGED <<decided, relay>>
  BY <1>4, <1>6, <1>7 DEF RelayInv, ArticlesOf
<1>8. ASSUME NEW a \in CourseId, NEW c \in world.cmds, DecideBegins(a, c) PROVE RelayInv'
  <2> DEFINE r == [course |-> a, cmd |-> c, head |-> HeadOf(a), left |-> ArticlesOf(a)]
  <2>1. relay' = r /\ UNCHANGED <<course, decided>> /\ course[a] # None
    BY <1>8 DEF DecideBegins, LiveCourses, board
  <2>2. r.course = a /\ r.left = course[a].orders
    BY DEF ArticlesOf
  <2> HIDE DEF r
  <2>3. QED
    BY <1>4, <2>1, <2>2 DEF RelayInv, ArticlesOf
<1>9. CASE RelaySends
  <2>1. relay # None /\ UNCHANGED <<course, decided>>
    BY <1>9 DEF RelaySends, board
  <2>2. PICK p \in relay.left :
          /\ file' = [file EXCEPT ![p] = ReturnApplied(@, relay.cmd)]
          /\ \/ Verdict(file[p], relay.cmd) = "applied" /\ relay' = [relay EXCEPT !.left = @ \ {p}]
             \/ relay' = None
    BY <1>9 DEF RelaySends
  <2>3. p \in Order /\ file[p] \in Ledger /\ file \in [Order -> Ledger]
    BY <1>1, <1>5, <2>1, <2>2 DEF TypeOK, Relay
  <2>4. ReturnApplied(file[p], relay.cmd).heard =
            [file[p].heard EXCEPT ![relay.cmd] = Verdict(file[p], relay.cmd)]
    BY <2>3 DEF ReturnApplied, Ledger
  <2>5. file[p].heard \in [Cmd -> {"no_word", "applied", "refused"}]
    BY <2>3 DEF Ledger
  <2>6. file'[p].heard[relay.cmd] = Verdict(file[p], relay.cmd)
    BY <1>5, <2>1, <2>2, <2>3, <2>4, <2>5
  <2>7. CASE relay' = None
    BY <1>4, <2>1, <2>7 DEF RelayInv, ArticlesOf
  <2>8. CASE Verdict(file[p], relay.cmd) = "applied" /\ relay' = [relay EXCEPT !.left = @ \ {p}]
    <3>1. /\ relay'.course = relay.course /\ relay'.cmd = relay.cmd
          /\ relay'.left = relay.left \ {p}
      BY <1>5, <2>1, <2>8 DEF Relay
    <3>2. QED
      BY <1>4, <1>6, <2>1, <2>6, <2>8, <3>1 DEF RelayInv, ArticlesOf
  <2>9. QED
    BY <2>2, <2>7, <2>8
<1>10. CASE DecideEnds
  <2>1. /\ relay # None /\ relay.left = {} /\ relay' = None
        /\ decided' = decided \cup {relay.course}
    BY <1>10 DEF DecideEnds
  <2>2. course'[relay.course] # None /\ \A o \in course'[relay.course].orders : Holds(o)'
    BY <1>5, <1>6, <2>1 DEF Holds
  <2>3. QED
    BY <1>4, <2>1, <2>2 DEF RelayInv, ArticlesOf
<1>11. QED
  BY <1>7, <1>8, <1>9, <1>10, DecisionSteps

\* No decision at the start.
LEMMA InitRelay == Init => BookInv /\ RelayInv
BY InitBooks DEF Init, RelayInv

\* A decision remembered is held by every ledger.
LEMMA RelayedIsDecided == RelayInv => DecidedOnEveryLedger
BY DEF RelayInv, Holds, DecidedOnEveryLedger

\* The decision is shown to the rider once every article's ledger holds it.
THEOREM DecisionIsOnEveryLedger == Spec => []DecidedOnEveryLedger
<1>1. BookInv /\ RelayInv /\ [Next]_vars => (BookInv /\ RelayInv)'
  BY BookStep, RelayStep
<1>2. QED
  BY <1>1, InitRelay, RelayedIsDecided, PTL DEF Spec

-----------------------------------------------------------------------------
(* A bag leaves whole.                                                      *)

\* While no whole bag is retired, an article with a fact has its membership.
NamedInv ==
    "retire-bag" \notin world.doors =>
        /\ retiring # None => retiring.alone
        /\ \A o \in Order : fund[o] # "absent" => o \in named

\* No step but the retirement of a whole bag forgets a membership.
LEMMA NamedStep == TypeOK /\ NamedInv /\ [Next]_vars => NamedInv'
<1> SUFFICES ASSUME TypeOK, NamedInv, [Next]_vars PROVE NamedInv'
  OBVIOUS
<1>1. /\ fund \in [Order -> Funding] /\ named \subseteq Order
      /\ retiring # None => retiring \in Retiring
  BY DEF TypeOK
<1>2. CASE UNCHANGED <<world, fund, named, retiring>>
  BY <1>2 DEF NamedInv
<1>3. CASE UNCHANGED vars
  BY <1>2, <1>3 DEF vars, board
<1>4. ASSUME NEW o \in Order, Facts(o) PROVE NamedInv'
  <2>1. /\ UNCHANGED <<world, retiring>> /\ named' = named \cup {o}
        /\ \A p \in Order : p # o => fund'[p] = fund[p]
    BY <1>1, <1>4 DEF Facts
  <2>2. QED
    BY <2>1 DEF NamedInv
<1>5. ASSUME NEW o \in Order, RetireArticle(o) PROVE NamedInv'
  <2>1. /\ UNCHANGED <<world, fund, named>>
        /\ retiring' = [left |-> <<o>>, on |-> None, asked |-> o, alone |-> TRUE, some |-> FALSE]
    BY <1>5 DEF RetireArticle, board
  <2>2. retiring'.alone
    BY <2>1
  <2>3. QED
    BY <2>1, <2>2 DEF NamedInv
<1>6. ASSUME NEW o \in Order, RetireBag(o) PROVE NamedInv'
  BY <1>6 DEF RetireBag, Comes, NamedInv
<1>7. CASE RetireSweeps
  <2>1. UNCHANGED <<world, fund, named>> /\ retiring # None
    BY <1>7 DEF RetireSweeps
  <2>2. retiring'.alone = retiring.alone
    BY <1>7, SweepCarries
  <2>3. QED
    BY <2>1, <2>2 DEF NamedInv
<1>8. CASE RetireForgets
  <2>1. /\ UNCHANGED <<world, named>> /\ retiring # None
        /\ retiring' = [retiring EXCEPT !.on = None]
        /\ fund' = fund \/ fund' = [fund EXCEPT ![retiring.on.order] = "absent"]
    BY <1>8 DEF RetireForgets
  <2>2. retiring'.alone = retiring.alone
    BY <1>1, <2>1 DEF Retiring
  <2>3. \A o \in Order : fund'[o] # "absent" => fund[o] # "absent"
    BY <1>1, <2>1
  <2>4. QED
    BY <2>1, <2>2, <2>3 DEF NamedInv
<1>9. CASE RetireEnds
  <2>1. /\ UNCHANGED <<world, fund>> /\ retiring # None /\ retiring' = None
        /\ retiring.alone => named' = named
    BY <1>9 DEF RetireEnds
  <2>2. QED
    BY <2>1 DEF NamedInv
<1>10. CASE Custody
  BY <1>2, <1>10 DEF Custody, Pickup, Drop, Absent, OpenReturn, HandOver, AtWork, board
<1>11. CASE Phone \/ Heard \/ RelaySends \/ DecideEnds
  <2>1. UNCHANGED <<world, fund, named, retiring>>
    BY <1>11 DEF Phone, Heard, RelaySends, DecideEnds, Acknowledge, Requeue, CourseEnds,
                 RetourOuvert, Reprogrammation, board
  <2>2. QED
    BY <1>2, <2>1
<1>12. Founder => NamedInv'
  <2>1. ASSUME NEW o \in Order, NEW t \in Task, ComposeTask(o, t) PROVE NamedInv'
    BY <1>2, <2>1 DEF ComposeTask
  <2>2. ASSUME NEW a \in CourseId, TakeBack(a) PROVE NamedInv'
    BY <1>2, <2>2 DEF TakeBack
  <2>3. ASSUME NEW a \in CourseId, NEW t \in Task, Assign(t, a) \/ Reprogram(a, t) PROVE NamedInv'
    BY <1>2, <2>3 DEF Assign, Reprogram
  <2>4. ASSUME NEW a \in CourseId, NEW c \in world.cmds, DecideBegins(a, c) PROVE NamedInv'
    BY <1>2, <2>4 DEF DecideBegins, board
  <2>5. QED
    BY <1>5, <1>6, <2>1, <2>2, <2>3, <2>4 DEF Founder
<1>13. QED
  BY <1>3, <1>4, <1>7, <1>8, <1>9, <1>10, <1>11, <1>12 DEF Next, Requests, Retirement

\* Only the founder's « attribuer » opens a course.
LEMMA OnlyAssignDeparts ==
  ASSUME BookInv, [Next]_vars, NEW a \in CourseId, Departs(a)
  PROVE  \E t \in Task : Assign(t, a)
<1>1. TypeOK /\ TasksStand /\ course[a] = None /\ course'[a] # None
  BY DEF BookInv, Departs
<1>2. ASSUME NEW b \in LiveCourses, NEW s, StatusMoved(b, s) PROVE FALSE
  BY <1>1, <1>2 DEF StatusMoved, LiveCourses
<1>3. ASSUME NEW o \in Order, NEW t \in Task, ComposeTask(o, t) PROVE FALSE
  BY <1>1, <1>3 DEF ComposeTask
<1>4. ASSUME NEW t \in Task, NEW b \in CourseId, Assign(t, b) PROVE a = b
  <2>1. \A x \in CourseId : x # b => course'[x] = course[x]
    BY <1>1, <1>4, AssignCarries
  <2>2. QED
    BY <1>1, <2>1
<1>5. ASSUME NEW t \in Task, NEW b \in CourseId, Reprogram(b, t) PROVE FALSE
  <2>1. course[b] # None /\ \A x \in CourseId : x # b => course'[x] = course[x]
    BY <1>1, <1>5, ReprogramCarries DEF LiveCourses
  <2>2. QED
    BY <1>1, <2>1
<1>6. CASE RetireSweeps
  <2> DEFINE o == Head(retiring.left)
  <2>1. \A x \in CourseId \ Records(o) : course'[x] = course[x]
    BY <1>1, <1>6, SweepCarries
  <2>2. a \notin Records(o)
    BY <1>1 DEF Records
  <2>3. QED
    BY <1>1, <2>1, <2>2
<1>7. CASE RetireForgets
  BY <1>1, <1>7, ForgetsCarries
<1>8. QED
  BY <1>1, <1>2, <1>3, <1>4, <1>5, <1>6, <1>7, CourseSteps
     DEF CourseAside, EndHeard, CourseGoesOn, CourseEndsOrGoesOn

\* What an assigned course leaves behind is cancelled.
LEMMA AssignedWhole ==
  ASSUME BookInv, NamedInv, NEW t \in Task, NEW a \in CourseId, Assign(t, a),
         "retire-bag" \notin world.doors
  PROVE  Whole(a)
<1> DEFINE h == task[t].head
<1>1. TypeOK /\ h \in Order /\ Admitted(h) /\ course'[a].orders = Frozen(h)
  <2>1. TypeOK
    BY DEF BookInv
  <2>2. task[t] # None /\ Admitted(h)
    BY DEF Assign
  <2>3. QED
    BY <2>1, <2>2, AssignCarries DEF TypeOK, TaskRow
<1>2. /\ Voyageurs(h) # None /\ Voyageurs(h) # {} /\ First(Voyageurs(h)) = h
      /\ \A m \in Voyageurs(h) : fund[m] = "cleared"
  BY <1>1 DEF Admitted
<1>3. h \in Voyageurs(h)
  BY <1>1, <1>2, VoyageOfTheBag, FirstTravels
<1>4. h \in named
  BY <1>1, <1>2, <1>3 DEF NamedInv
<1>5. Voyageurs(h) = {m \in Order : ~Cancelled(m)}
  BY <1>2, <1>4 DEF Voyageurs
<1>6. Frozen(h) = Voyageurs(h)
  BY <1>2 DEF Frozen
<1>7. QED
  BY <1>1, <1>5, <1>6 DEF Whole

\* A course departs with every article of its bag that is not cancelled, unless
\* the whole bag is being retired.
THEOREM BagLeavesWhole == Spec => LeavesWholeUnlessPurged
<1>1. Init => BookInv /\ NamedInv
  <2>1. Init => NamedInv
    BY DEF Init, NamedInv
  <2>2. QED
    BY <2>1, InitBooks
<1>2. BookInv /\ NamedInv /\ [Next]_vars => (BookInv /\ NamedInv)'
  BY BookStep, NamedStep DEF BookInv
<1>3. BookInv /\ NamedInv /\ [Next]_vars =>
          [\A a \in CourseId : Departs(a) /\ "retire-bag" \notin world.doors => Whole(a)]_vars
  BY OnlyAssignDeparts, AssignedWhole
<1>4. QED
  BY <1>1, <1>2, <1>3, PTL DEF Spec, LeavesWholeUnlessPurged

-----------------------------------------------------------------------------
(* A whole bag is settled: no word of custody is lost on the way.           *)

\* Custody's closing word of an article that has arrived.
ClosingWord(o) == IF file[o].place = "buyer" THEN "livree" ELSE "retournee"

\* A ledger moves with its rider's course, says where it arrived, and is
\* answered by the board alone.
LEMMA LedgersMove ==
  ASSUME TypeOK, [Next]_vars, NEW o \in Order
  PROVE  /\ file'[o].place # "supplier" =>
                file[o].place # "supplier" \/ \E a \in CourseId : Pickup(a, o)
         /\ file'[o].place \in {"buyer", "home"} =>
                file'[o].place = file[o].place \/ <<ClosingWord(o)', o>> \in wires'
         /\ \A k \in Ending : <<k, o>> \in wires => <<k, o>> \in wires' \/ CourseEnds(o, k)
<1>1. file \in [Order -> Ledger]
  BY DEF TypeOK
<1>2. CASE /\ UNCHANGED file
           /\ \A k \in Ending : <<k, o>> \in wires => <<k, o>> \in wires' \/ CourseEnds(o, k)
  BY <1>2
<1>3. ASSUME NEW p \in Order,
             \/ \E a \in CourseId : Pickup(a, p)
             \/ Drop(p) \/ Absent(p) \/ OpenReturn(p) \/ HandOver(p)
      PROVE  /\ file'[o].place # "supplier" =>
                    file[o].place # "supplier" \/ \E a \in CourseId : Pickup(a, o)
             /\ file'[o].place \in {"buyer", "home"} =>
                    file'[o].place = file[o].place \/ <<ClosingWord(o)', o>> \in wires'
             /\ wires \subseteq wires'
  <2>1. file[p] \in Ledger
    BY <1>1
  <2>2. wires \subseteq wires'
    BY <1>3 DEF Pickup, Drop, Absent, OpenReturn, HandOver, Says
  <2>3. CASE p # o
    <3>1. file'[o] = file[o]
      BY <1>1, <1>3, <2>3 DEF Pickup, Drop, Absent, OpenReturn, HandOver
    <3>2. QED
      BY <2>2, <3>1
  <2>4. CASE p = o /\ \E a \in CourseId : Pickup(a, o)
    <3>1. file' = [file EXCEPT ![o].place = "rider"]
      BY <2>4 DEF Pickup
    <3>2. file'[o].place = "rider"
      BY <1>1, <2>1, <3>1 DEF Ledger
    <3>3. QED
      BY <2>2, <2>4, <3>2
  <2>5. CASE p = o /\ Drop(o)
    <3>1. /\ file' = [file EXCEPT ![o].place = "buyer"] /\ file[o].place = "rider"
          /\ wires' = wires \cup {<<"livree", o>>}
      BY <2>5 DEF Drop, Says
    <3>2. file'[o].place = "buyer"
      BY <1>1, <2>1, <3>1 DEF Ledger
    <3>3. QED
      BY <2>2, <3>1, <3>2 DEF ClosingWord
  <2>6. CASE p = o /\ HandOver(o)
    <3>1. /\ file' = [file EXCEPT ![o].place = "home"] /\ file[o].place = "rider"
          /\ wires' = wires \cup {<<"retournee", o>>}
      BY <2>6 DEF HandOver, Says
    <3>2. file'[o].place = "home"
      BY <1>1, <2>1, <3>1 DEF Ledger
    <3>3. QED
      BY <2>2, <3>1, <3>2 DEF ClosingWord
  <2>7. CASE p = o /\ (Absent(o) \/ OpenReturn(o))
    <3>1. \/ file' = [file EXCEPT ![o].ladder = "reschedule"]
          \/ file' = [file EXCEPT ![o].back = TRUE]
      BY <2>7 DEF Absent, OpenReturn
    <3>2. file'[o].place = file[o].place
      BY <1>1, <2>1, <2>7, <3>1 DEF Ledger
    <3>3. QED
      BY <2>2, <3>2
  <2>8. QED
    BY <1>3, <2>3, <2>4, <2>5, <2>6, <2>7
<1>4. CASE RelaySends
  <2>1. PICK p \in relay.left : file' = [file EXCEPT ![p] = ReturnApplied(@, relay.cmd)]
    BY <1>4 DEF RelaySends
  <2>2. p \in Order /\ file[p] \in Ledger
    BY <1>1, <1>4 DEF RelaySends, TypeOK, Relay
  <2>3. ReturnApplied(file[p], relay.cmd).place = file[p].place
    BY <2>2 DEF ReturnApplied, Ledger
  <2>4. file'[o].place = file[o].place /\ wires' = wires
    BY <1>1, <1>4, <2>1, <2>2, <2>3 DEF RelaySends
  <2>5. QED
    BY <2>4
<1>5. CASE UNCHANGED vars
  BY <1>2, <1>5 DEF vars
<1>6. CASE Founder \/ Phone \/ (\E p \in Order : Facts(p)) \/ DecideEnds \/ Retirement
  <2>1. UNCHANGED <<file, wires>>
    BY <1>6 DEF Founder, Phone, Facts, DecideEnds, Retirement, ComposeTask, Assign, TakeBack,
                Reprogram, DecideBegins, RetireArticle, RetireBag, Acknowledge, Requeue,
                RetireSweeps, RetireForgets, RetireEnds
  <2>2. QED
    BY <1>2, <2>1
<1>7. ASSUME NEW p \in Order, RetourOuvert(p) \/ Reprogrammation(p)
      PROVE  UNCHANGED file /\ \A k \in Ending : <<k, o>> \in wires => <<k, o>> \in wires'
  BY <1>7 DEF RetourOuvert, Reprogrammation, Answered, Ending
<1>8. ASSUME NEW p \in Order, NEW j \in Ending, CourseEnds(p, j)
      PROVE  /\ UNCHANGED file
             /\ \A k \in Ending : <<k, o>> \in wires => <<k, o>> \in wires' \/ CourseEnds(o, k)
  <2>1. UNCHANGED file /\ wires' \in {wires, wires \ {<<j, p>>}}
    BY <1>8 DEF CourseEnds, Answered
  <2>2. ASSUME NEW k \in Ending, <<k, o>> \in wires, <<k, o>> \notin wires'
        PROVE  k = j /\ o = p
    BY <2>1, <2>2
  <2>3. QED
    BY <1>8, <2>1, <2>2
<1>9. QED
  BY <1>2, <1>3, <1>4, <1>5, <1>6, <1>7, <1>8 DEF Next, Requests, Heard, Custody

Unshrunk == Shrinks \cap world.doors = {}

\* Nothing is taken out of the bag.
StillWhole ==
    retiring = None /\ retired = {} /\ \A o \in Order : fund[o] # "cancelled"

\* A bag nothing may be taken out of stays whole.
LEMMA WholeStays == TypeOK /\ Unshrunk /\ StillWhole /\ [Next]_vars => StillWhole' /\ Unshrunk'
<1> SUFFICES ASSUME TypeOK, Unshrunk, StillWhole, [Next]_vars PROVE StillWhole' /\ Unshrunk'
  OBVIOUS
<1>1. CASE UNCHANGED <<world, fund, retired, retiring>>
  BY <1>1 DEF StillWhole, Unshrunk
<1>2. CASE UNCHANGED vars
  BY <1>1, <1>2 DEF vars, board
<1>3. ASSUME NEW o \in Order, Facts(o) PROVE StillWhole' /\ Unshrunk'
  <2>1. /\ UNCHANGED <<world, retired, retiring>>
        /\ \E s \in Funding : s # "cancelled" /\ fund' = [fund EXCEPT ![o] = s]
    BY <1>3 DEF Facts, Unshrunk, Shrinks
  <2>2. QED
    BY <2>1 DEF StillWhole, Unshrunk, TypeOK
<1>4. Retirement => FALSE
  BY DEF Retirement, RetireSweeps, RetireForgets, RetireEnds, StillWhole
<1>5. ASSUME NEW o \in Order, RetireArticle(o) \/ RetireBag(o) PROVE FALSE
  BY <1>5 DEF RetireArticle, RetireBag, Comes, Unshrunk, Shrinks
<1>6. CASE Custody
  BY <1>1, <1>6 DEF Custody, Pickup, Drop, Absent, OpenReturn, HandOver, AtWork, board
<1>7. CASE Phone \/ Heard \/ RelaySends \/ DecideEnds
  <2>1. UNCHANGED <<world, fund, retired, retiring>>
    BY <1>7 DEF Phone, Heard, RelaySends, DecideEnds, Acknowledge, Requeue, CourseEnds,
                 RetourOuvert, Reprogrammation, board
  <2>2. QED
    BY <1>1, <2>1
<1>8. CASE Founder
  <2>1. UNCHANGED <<world, fund, retired, retiring>>
    BY <1>5, <1>8 DEF Founder, ComposeTask, TakeBack, Assign, Reprogram, DecideBegins, board
  <2>2. QED
    BY <1>1, <2>1
<1>9. QED
  BY <1>2, <1>3, <1>4, <1>6, <1>7, <1>8 DEF Next, Requests

\* The first article of a whole bag.
Lead == First(Order)

\* What a whole bag's doors open on: the whole bag, under its first article.
LEMMA AdmittedWhole ==
  ASSUME TypeOK, NamedInv, Unshrunk, StillWhole, NEW o \in Order, Admitted(o)
  PROVE  o = Lead /\ Frozen(o) = Order
<1>1. /\ Voyageurs(o) # None /\ Voyageurs(o) # {} /\ First(Voyageurs(o)) = o
      /\ \A m \in Voyageurs(o) : fund[m] = "cleared"
  BY DEF Admitted
<1>2. o \in Voyageurs(o)
  BY <1>1, VoyageOfTheBag, FirstTravels
<1>3. o \in named
  BY <1>1, <1>2 DEF NamedInv, Unshrunk, Shrinks
<1>4. Voyageurs(o) = Order
  BY <1>1, <1>3 DEF Voyageurs, Cancelled, StillWhole
<1>5. QED
  BY <1>1, <1>4 DEF Frozen, Lead

\* What moves the courses and the tasks of a whole bag.
LEMMA BoardSteps ==
  ASSUME Unshrunk, StillWhole, [Next]_vars
  PROVE  \/ UNCHANGED <<course, task, reglement>>
         \/ UNCHANGED file /\ \/ \E a \in CourseId : Acknowledge(a) \/ Requeue(a) \/ TakeBack(a)
                              \/ \E o \in Order, k \in Ending : CourseEnds(o, k)
                              \/ \E o \in Order, t \in Task : ComposeTask(o, t)
                              \/ \E t \in Task, a \in CourseId : Assign(t, a) \/ Reprogram(a, t)
<1>1. CASE UNCHANGED vars
  BY <1>1 DEF vars, board
<1>2. ASSUME NEW p \in Order,
             \/ \E a \in CourseId : Pickup(a, p)
             \/ Drop(p) \/ Absent(p) \/ OpenReturn(p) \/ HandOver(p)
      PROVE  UNCHANGED <<course, task, reglement>>
  BY <1>2 DEF Pickup, Drop, Absent, OpenReturn, HandOver, AtWork, board
<1>3. CASE (\E p \in Order : Facts(p) \/ RetourOuvert(p) \/ Reprogrammation(p))
           \/ RelaySends \/ DecideEnds
  BY <1>3 DEF Facts, RetourOuvert, Reprogrammation, RelaySends, DecideEnds, board
<1>4. Retirement => FALSE
  BY DEF Retirement, RetireSweeps, RetireForgets, RetireEnds, StillWhole
<1>5. \A p \in Order : RetireArticle(p) \/ RetireBag(p) => FALSE
  BY DEF RetireArticle, RetireBag, Comes, Unshrunk, Shrinks
<1>6. \A a \in CourseId, c \in world.cmds :
          DecideBegins(a, c) => UNCHANGED <<course, task, reglement>>
  BY DEF DecideBegins, board
<1>7. \A a \in CourseId, t \in Task : Assign(t, a) \/ Reprogram(a, t) => UNCHANGED file
  BY DEF Assign, Reprogram
<1>8. /\ \A o \in Order, t \in Task : ComposeTask(o, t) => UNCHANGED file
      /\ \A o \in Order, k \in Ending : CourseEnds(o, k) => UNCHANGED file
  BY DEF ComposeTask, CourseEnds
<1>9. \A a \in CourseId : Acknowledge(a) \/ Requeue(a) \/ TakeBack(a) => UNCHANGED file
  BY DEF Acknowledge, Requeue, TakeBack
<1>10. CASE Founder
  <2>1. \/ \E o \in Order, t \in Task : ComposeTask(o, t)
        \/ \E t \in Task, a \in CourseId : Assign(t, a) \/ Reprogram(a, t)
        \/ \E a \in CourseId : TakeBack(a)
        \/ UNCHANGED <<course, task, reglement>>
    BY <1>5, <1>6, <1>10 DEF Founder
  <2>2. QED
    BY <1>7, <1>8, <1>9, <2>1
<1>11. CASE Phone \/ \E o \in Order, k \in Ending : CourseEnds(o, k)
  <2>1. CASE Phone
    <3>1. \E a \in CourseId : Acknowledge(a) \/ Requeue(a) \/ TakeBack(a)
      BY <2>1 DEF Phone
    <3>2. QED
      BY <1>9, <3>1
  <2>2. CASE \E o \in Order, k \in Ending : CourseEnds(o, k)
    BY <1>8, <2>2
  <2>3. QED
    BY <1>11, <2>1, <2>2
<1>12. QED
  BY <1>1, <1>2, <1>3, <1>4, <1>10, <1>11 DEF Next, Requests, Heard, Custody

\* One task's status moves, and nothing else of the queue.
TaskMoved(t, s) ==
    /\ task'[t] # None /\ task'[t].head = task[t].head /\ task'[t].status = s
    /\ \A u \in Task : u # t => task'[u] = task[u]

\* What the rider's phone and a take-back carry.
LEMMA PhoneCarries ==
  ASSUME TypeOK, TasksStand, NEW a \in CourseId,
         Acknowledge(a) \/ Requeue(a) \/ TakeBack(a)
  PROVE  /\ a \in LiveCourses /\ course[a] # None /\ course[a].task \in Task
         /\ task[course[a].task] # None /\ UNCHANGED <<reglement, wires>>
         /\ \/ StatusMoved(a, "acknowledged") /\ UNCHANGED task
            \/ /\ StatusMoved(a, "ended")
               /\ \/ TaskMoved(course[a].task, "queued") /\ course[a].status = "offered"
                  \/ TaskMoved(course[a].task, "closed_taken_back")
                     /\ \A o \in ArticlesOf(a) : file[o].place = "supplier"
<1>1. a \in LiveCourses /\ UNCHANGED <<reglement, wires>>
  BY DEF Acknowledge, Requeue, TakeBack
<1>2. course[a] # None /\ course[a].task \in Task /\ task[course[a].task] # None
  BY <1>1, CourseIs DEF LiveCourses, TasksStand
<1>3. \A s \in {"acknowledged", "ended"} : s \in Statuses
  BY DEF Statuses, Live
<1>4. ASSUME NEW s \in {"queued", "assigned"} \cup Closed,
             task' = [task EXCEPT ![course[a].task].status = s]
      PROVE  TaskMoved(course[a].task, s)
  BY <1>2, <1>4, TaskMoves DEF TaskMoved
<1>5. CASE Acknowledge(a)
  <2>1. StatusOnly(a, "acknowledged") /\ UNCHANGED task
    BY <1>5 DEF Acknowledge, StatusOnly
  <2>2. QED
    BY <1>1, <1>2, <1>3, <2>1, StatusMoves
<1>6. CASE Requeue(a)
  <2>1. /\ StatusOnly(a, "ended") /\ course[a].status = "offered"
        /\ task' = [task EXCEPT ![course[a].task].status = "queued"]
    BY <1>6 DEF Requeue, StatusOnly
  <2>2. TaskMoved(course[a].task, "queued")
    BY <1>4, <2>1
  <2>3. QED
    BY <1>1, <1>2, <1>3, <2>1, <2>2, StatusMoves
<1>7. CASE TakeBack(a)
  <2>1. /\ StatusOnly(a, "ended") /\ \A o \in ArticlesOf(a) : file[o].place = "supplier"
        /\ task' = [task EXCEPT ![course[a].task].status = "closed_taken_back"]
    BY <1>7 DEF TakeBack, StatusOnly
  <2>2. TaskMoved(course[a].task, "closed_taken_back")
    BY <1>4, <2>1 DEF Closed
  <2>3. QED
    BY <1>1, <1>2, <1>3, <2>1, <2>2, StatusMoves
<1>8. QED
  BY <1>5, <1>6, <1>7

Open(t) == task[t] # None /\ task[t].status \notin Closed

\* A course that carries the bag, or has carried it to its end.
Engaged(a) == course[a] # None /\ course[a].status \in Live \cup {"delivered", "returned"}

\* A whole bag has one open task and at most one course, which it leaves only
\* with every article still at the supplier's.
RoadInv ==
    /\ \A a \in CourseId : course[a] # None => course[a].orders = Order /\ course[a].head = Lead
    /\ \A t \in Task : task[t] # None => task[t].head = Lead
    /\ \A p, q \in Task : Open(p) /\ Open(q) => p = q
    /\ \A a \in CourseId : Engaged(a) => /\ task[course[a].task] # None
                                         /\ task[course[a].task].status = "assigned"
    /\ \A a, b \in CourseId : Engaged(a) /\ Engaged(b) => a = b
    /\ \A o \in Order : file[o].place # "supplier" =>
           \E a \in CourseId : Engaged(a) /\ course[a].status # "offered"

\* The courses keep their bag, their task and their rider.
SameRoad ==
    /\ UNCHANGED <<file, task>>
    /\ \A b \in CourseId : Engaged(b)' <=> Engaged(b)
    /\ \A b \in CourseId : course'[b] # None =>
           /\ course[b] # None /\ course'[b].task = course[b].task
           /\ course'[b].orders = course[b].orders /\ course'[b].head = course[b].head
           /\ course[b].status # "offered" => course'[b].status # "offered"

\* A course acknowledged or ended on its bag is on the same road.
LEMMA StatusKeepsRoad ==
  ASSUME NEW a \in LiveCourses, NEW s \in {"acknowledged", "delivered", "returned"},
         StatusMoved(a, s), UNCHANGED <<file, task>>
  PROVE  SameRoad
BY DEF SameRoad, StatusMoved, Engaged, LiveCourses, Live

\* On the same road, nothing of the board is disturbed.
LEMMA SameRoadKept ==
  ASSUME RoadInv, SameRoad
  PROVE  RoadInv'
<1>1. \A b \in CourseId : course'[b] # None => course'[b].orders = Order /\ course'[b].head = Lead
  BY DEF RoadInv, SameRoad
<1>2. /\ \A t \in Task : task'[t] # None => task'[t].head = Lead
      /\ \A p, q \in Task : Open(p)' /\ Open(q)' => p = q
  BY DEF RoadInv, SameRoad, Open
<1>3. ASSUME NEW b \in CourseId, Engaged(b)'
      PROVE  task'[course'[b].task] # None /\ task'[course'[b].task].status = "assigned"
  <2>1. course'[b] # None /\ Engaged(b)
    BY <1>3 DEF SameRoad, Engaged
  <2>2. course'[b].task = course[b].task /\ task' = task
    BY <2>1 DEF SameRoad
  <2>3. QED
    BY <2>1, <2>2 DEF RoadInv
<1>4. \A a, b \in CourseId : Engaged(a)' /\ Engaged(b)' => a = b
  BY DEF RoadInv, SameRoad
<1>5. ASSUME NEW o \in Order, file'[o].place # "supplier"
      PROVE  \E a \in CourseId : Engaged(a)' /\ course'[a].status # "offered"
  <2>1. PICK a \in CourseId : Engaged(a) /\ course[a].status # "offered"
    BY <1>5 DEF RoadInv, SameRoad
  <2>2. Engaged(a)'
    BY <2>1 DEF SameRoad
  <2>3. course'[a] # None
    BY <2>2 DEF Engaged
  <2>4. QED
    BY <2>1, <2>2, <2>3 DEF SameRoad
<1>6. QED
  BY <1>1, <1>2, <1>3, <1>4, <1>5 DEF RoadInv

\* Every step keeps a whole bag under one open task and on one course.
LEMMA RoadStep ==
  ASSUME BookInv, NamedInv, Unshrunk, StillWhole, RoadInv, [Next]_vars
  PROVE  RoadInv'
<1>0. /\ TypeOK /\ TasksStand /\ HeadTravels
      /\ \A a \in CourseId : course[a] # None => course[a].task \in Task
  BY CourseIs DEF BookInv
<1>1. \A a \in LiveCourses : a \in CourseId /\ Engaged(a)
  BY DEF LiveCourses, Engaged
<1>2. CASE UNCHANGED <<course, task>>
  <2>1. \A o \in Order : file'[o].place # "supplier" =>
            \E a \in CourseId : Engaged(a) /\ course[a].status # "offered"
    <3>1. \A o \in Order : file'[o].place # "supplier" =>
              file[o].place # "supplier" \/ \E a \in CourseId : Pickup(a, o)
      BY <1>0, LedgersMove
    <3>2. \A o \in Order, a \in CourseId :
              Pickup(a, o) => Engaged(a) /\ course[a].status # "offered"
      BY DEF Pickup, CoursesOf, LiveCourses, Engaged
    <3>3. QED
      BY <3>1, <3>2 DEF RoadInv
  <2>2. QED
    BY <1>2, <2>1 DEF RoadInv, Open, Engaged
<1>3. ASSUME NEW a \in CourseId, UNCHANGED file, Acknowledge(a) \/ Requeue(a) \/ TakeBack(a)
      PROVE  RoadInv'
  <2>1. /\ a \in LiveCourses /\ course[a] # None /\ course[a].task \in Task
        /\ task[course[a].task] # None
        /\ \/ StatusMoved(a, "acknowledged") /\ UNCHANGED task
           \/ /\ StatusMoved(a, "ended")
              /\ \/ TaskMoved(course[a].task, "queued") /\ course[a].status = "offered"
                 \/ TaskMoved(course[a].task, "closed_taken_back")
                    /\ \A o \in ArticlesOf(a) : file[o].place = "supplier"
    BY <1>0, <1>3, PhoneCarries
  <2>2. CASE StatusMoved(a, "acknowledged") /\ UNCHANGED task
    BY <1>3, <2>1, <2>2, StatusKeepsRoad, SameRoadKept
  <2>3. CASE StatusMoved(a, "ended") /\ TaskMoved(course[a].task, "queued")
             /\ course[a].status = "offered"
    <3>1. \A b \in CourseId : ~Engaged(b)'
      BY <1>1, <2>1, <2>3 DEF StatusMoved, RoadInv, Engaged, Live
    <3>2. \A b \in CourseId : course'[b] # None =>
              course'[b].orders = Order /\ course'[b].head = Lead
      BY <2>1, <2>3 DEF StatusMoved, RoadInv
    <3>3. /\ \A t \in Task : task'[t] # None => task'[t].head = Lead
          /\ \A t \in Task : Open(t)' => Open(t)
      <4>1. Open(course[a].task)
        BY <1>1, <2>1 DEF RoadInv, Open, Closed
      <4>2. QED
        BY <2>1, <2>3, <4>1 DEF TaskMoved, RoadInv, Open
    <3>4. \A o \in Order : file[o].place = "supplier"
      BY <1>1, <2>1, <2>3 DEF RoadInv
    <3>5. QED
      BY <1>3, <3>1, <3>2, <3>3, <3>4 DEF RoadInv
  <2>4. CASE StatusMoved(a, "ended") /\ TaskMoved(course[a].task, "closed_taken_back")
             /\ \A o \in ArticlesOf(a) : file[o].place = "supplier"
    <3>1. \A b \in CourseId : ~Engaged(b)'
      BY <1>1, <2>1, <2>4 DEF StatusMoved, RoadInv, Engaged, Live
    <3>2. \A b \in CourseId : course'[b] # None =>
              course'[b].orders = Order /\ course'[b].head = Lead
      BY <2>1, <2>4 DEF StatusMoved, RoadInv
    <3>3. /\ \A t \in Task : task'[t] # None => task'[t].head = Lead
          /\ \A t \in Task : Open(t)' => Open(t)
      BY <2>1, <2>4 DEF TaskMoved, RoadInv, Open, Closed
    <3>4. \A o \in Order : file[o].place = "supplier"
      BY <1>1, <2>1, <2>4 DEF RoadInv, ArticlesOf
    <3>5. QED
      BY <1>3, <3>1, <3>2, <3>3, <3>4 DEF RoadInv
  <2>5. QED
    BY <2>1, <2>2, <2>3, <2>4
<1>4. ASSUME NEW o \in Order, NEW k \in Ending, CourseEnds(o, k), UNCHANGED file
      PROVE  RoadInv'
  <2>1. UNCHANGED task
    BY <1>4 DEF CourseEnds
  <2>2. \/ UNCHANGED course
        \/ \E a \in LiveCourses, s \in {"delivered", "returned"} : StatusMoved(a, s)
    <3>1. \/ UNCHANGED <<log, reglement, course>>
          \/ \E a \in CourseId : SettledOn(a, o, k)
          \/ \E a \in CourseId : EndedAlone(a, o, k)
      BY <1>0, <1>4, EndingHeard
    <3>2. (\A a : Ended(a) \in {"delivered", "returned"})
          /\ EndedBy(k) \in {"delivered", "returned"}
      BY DEF Ended, EndedBy
    <3>3. QED
      BY <3>1, <3>2 DEF SettledOn, EndedAlone
  <2>3. ASSUME NEW a \in LiveCourses, NEW s \in {"delivered", "returned"}, StatusMoved(a, s)
        PROVE  RoadInv'
    BY <1>4, <2>1, <2>3, StatusKeepsRoad, SameRoadKept
  <2>4. QED
    BY <1>2, <2>1, <2>2, <2>3
<1>5. ASSUME NEW o \in Order, NEW t \in Task, ComposeTask(o, t), UNCHANGED file
      PROVE  RoadInv'
  <2> DEFINE v == FiledUnder(o)
             e == [head |-> First(v), status |-> "queued"]
  <2>1. /\ v # None /\ Admitted(First(v)) /\ UNCHANGED course
        /\ \A q \in Task : task[q] # None /\ task[q].status \notin Closed => task[q].head \notin v
        /\ task[t] = None /\ task' = [task EXCEPT ![t] = e]
    BY <1>5, MintedIsNew DEF ComposeTask, Accepted
  <2>2. v \in SUBSET Order /\ v # {}
    BY <1>0, <2>1, VoyageOfTheBag
  <2>3. First(v) \in v /\ First(v) \in Order
    BY <2>2, FirstTravels
  <2>4. First(v) = Lead
    BY <1>0, <2>1, <2>3, AdmittedWhole
  <2>5. \A q \in Task : ~Open(q)
    BY <2>1, <2>3, <2>4 DEF RoadInv, Open
  <2>6. e \in TaskRow /\ e.head = Lead /\ e # None
    BY <2>3, <2>4, NoneAssumption DEF TaskRow
  <2> HIDE DEF e, v
  <2>7. task'[t] = e /\ \A q \in Task : q # t => task'[q] = task[q]
    BY <1>0, <2>1 DEF TypeOK
  <2>8. \A q \in Task : Open(q)' => q = t
    BY <2>5, <2>7 DEF Open
  <2>9. \A b \in CourseId : ~Engaged(b)
    BY <1>0, <2>5 DEF RoadInv, Open, Closed, Engaged
  <2>10. \A b \in CourseId : ~Engaged(b)'
    BY <2>1, <2>9 DEF Engaged
  <2>11. \A q \in Task : task'[q] # None => task'[q].head = Lead
    BY <2>6, <2>7 DEF RoadInv
  <2>12. QED
    BY <1>5, <2>1, <2>8, <2>9, <2>10, <2>11 DEF RoadInv
<1>6. ASSUME NEW t \in Task, NEW a \in CourseId, Assign(t, a), UNCHANGED file
      PROVE  RoadInv'
  <2>1. /\ course[a] = None /\ course'[a] # None /\ task[t] # None
        /\ course'[a].task = t /\ course'[a].status = "offered"
        /\ course'[a].head = task[t].head /\ course'[a].orders = Frozen(task[t].head)
        /\ task[t].status = "queued"
        /\ \A b \in CourseId : b # a => course'[b] = course[b]
        /\ task'[t] # None /\ task'[t].head = task[t].head
        /\ task'[t].status = "assigned" /\ \A u \in Task : u # t => task'[u] = task[u]
    BY <1>0, <1>6, AssignCarries
  <2>2. task[t].head = Lead /\ Frozen(task[t].head) = Order
    <3>1. task[t].head \in Order /\ Admitted(task[t].head)
      BY <1>0, <1>6, <2>1 DEF TypeOK, TaskRow, Assign
    <3>2. QED
      BY <1>0, <3>1, AdmittedWhole
  <2>3. Open(t) /\ \A q \in Task : Open(q)' => Open(q)
    BY <2>1 DEF Open, Closed
  <2>4. \A b \in CourseId : ~Engaged(b)
    <3>1. ASSUME NEW b \in CourseId, Engaged(b) PROVE FALSE
      <4>1. /\ course[b].task \in Task /\ Open(course[b].task)
            /\ task[course[b].task].status = "assigned"
        BY <1>0, <3>1 DEF RoadInv, Open, Closed, Engaged
      <4>2. course[b].task = t
        BY <2>3, <4>1 DEF RoadInv
      <4>3. QED
        BY <2>1, <4>1, <4>2
    <3>2. QED
      BY <3>1
  <2>5. \A b \in CourseId : Engaged(b)' => b = a
    BY <2>1, <2>4 DEF Engaged
  <2>6. \A q \in Task : task'[q] # None => task'[q].head = Lead
    BY <2>1, <2>2 DEF RoadInv
  <2>7. \A b \in CourseId : course'[b] # None => course'[b].orders = Order /\ course'[b].head = Lead
    BY <2>1, <2>2 DEF RoadInv
  <2>8. QED
    BY <1>6, <2>1, <2>3, <2>4, <2>5, <2>6, <2>7 DEF RoadInv
<1>7. ASSUME NEW t \in Task, NEW a \in CourseId, Reprogram(a, t), UNCHANGED file
      PROVE  RoadInv'
  <2> DEFINE old == course[a].task
  <2>1. /\ a \in LiveCourses /\ course[a].status = "acknowledged" /\ task[t] = None
        /\ course'[a] # None /\ course'[a].task = t /\ course'[a].status = course[a].status
        /\ course'[a].head = course[a].head /\ course'[a].orders = course[a].orders
        /\ \A b \in CourseId : b # a => course'[b] = course[b]
        /\ old \in Task /\ old # t /\ task[old] # None /\ task'[old] # None
        /\ task'[old].head = task[old].head /\ task'[old].status = "closed_rescheduled"
        /\ task'[t] # None /\ task'[t].head = HeadOf(a) /\ task'[t].status = "assigned"
        /\ \A u \in Task : u # t /\ u # old => task'[u] = task[u]
    BY <1>0, <1>7, ReprogramCarries
  <2>2. Engaged(a) /\ course[a] # None /\ HeadOf(a) = Lead /\ Open(old)
    BY <1>1, <2>1 DEF RoadInv, Engaged, HeadOf, Open, Closed
  <2>3. \A q \in Task : Open(q)' => q = t
    BY <2>1, <2>2 DEF RoadInv, Open, Closed
  <2>4. \A b \in CourseId : Engaged(b)' => b = a
    BY <2>1, <2>2 DEF RoadInv, Engaged
  <2>5. \A q \in Task : task'[q] # None => task'[q].head = Lead
    BY <2>1, <2>2 DEF RoadInv
  <2>6. \A b \in CourseId : course'[b] # None => course'[b].orders = Order /\ course'[b].head = Lead
    BY <2>1, <2>2 DEF RoadInv
  <2>7. Engaged(a)' /\ course'[a].status # "offered"
    BY <2>1 DEF Engaged, Live
  <2>8. QED
    BY <2>1, <2>3, <2>4, <2>5, <2>6, <2>7 DEF RoadInv
<1>8. QED
  BY <1>2, <1>3, <1>4, <1>5, <1>6, <1>7, BoardSteps

\* A course that has ended never goes on.
LEMMA EndedStays ==
  ASSUME BookInv, [Next]_vars, NEW b \in CourseId, course[b] # None, b \in LiveCourses'
  PROVE  b \in LiveCourses
<1>0. TypeOK /\ TasksStand /\ course'[b] # None /\ course'[b].status \in Live
  BY DEF BookInv, LiveCourses
<1>1. SUFFICES course'[b] = course[b] \/ b \in LiveCourses
  BY <1>0 DEF LiveCourses
<1>2. ASSUME NEW a \in LiveCourses, NEW s, StatusMoved(a, s)
      PROVE  course'[b] = course[b] \/ b \in LiveCourses
  BY <1>2 DEF StatusMoved
<1>3. ASSUME NEW o \in Order, NEW t \in Task, ComposeTask(o, t) PROVE course'[b] = course[b]
  BY <1>3 DEF ComposeTask
<1>4. ASSUME NEW t \in Task, NEW a \in CourseId, Assign(t, a) PROVE course'[b] = course[b]
  <2>1. course[a] = None /\ \A x \in CourseId : x # a => course'[x] = course[x]
    BY <1>0, <1>4, AssignCarries
  <2>2. QED
    BY <2>1
<1>5. ASSUME NEW t \in Task, NEW a \in CourseId, Reprogram(a, t)
      PROVE  course'[b] = course[b] \/ b \in LiveCourses
  <2>1. a \in LiveCourses /\ \A x \in CourseId : x # a => course'[x] = course[x]
    BY <1>0, <1>5, ReprogramCarries
  <2>2. QED
    BY <2>1
<1>6. CASE RetireSweeps
  <2> DEFINE o == Head(retiring.left)
  <2>1. /\ \A a \in Records(o) : course'[a].status = "gone"
        /\ \A a \in CourseId \ Records(o) : course'[a] = course[a]
    BY <1>0, <1>6, SweepCarries
  <2> HIDE DEF o
  <2>2. QED
    BY <1>0, <2>1 DEF Live
<1>7. CASE RetireForgets
  <2>1. /\ \A a \in retiring.on.courses : course'[a].status = "gone"
        /\ \A a \in CourseId \ retiring.on.courses : course'[a] = course[a]
    BY <1>7, ForgetsCarries
  <2>2. QED
    BY <1>0, <2>1 DEF Live
<1>8. QED
  BY <1>2, <1>3, <1>4, <1>5, <1>6, <1>7, CourseSteps
     DEF CourseAside, EndHeard, CourseGoesOn, CourseEndsOrGoesOn

\* A whole bag's course hears each of its articles: the word settles it, or
\* ends the course.
LEMMA WholeBagHears ==
  ASSUME BookInv, RoadInv, NEW b \in LiveCourses, NEW o \in Order, NEW k \in Ending,
         CourseEnds(o, k), reglement'[b][o] = None
  PROVE  b \notin LiveCourses'
<1>0. /\ TypeOK /\ HeadTravels /\ b \in CourseId /\ course[b] # None
      /\ reglement \in [CourseId -> [Order -> Ending \cup {None}]]
      /\ \A a \in CourseId : course[a] # None => ArticlesOf(a) = Order /\ HeadOf(a) = Lead
      /\ \A a \in LiveCourses : a = b
  BY DEF BookInv, TypeOK, RoadInv, LiveCourses, ArticlesOf, HeadOf, Engaged
<1>1. CASE IsColis(b)
  <2>1. b \in Entries(o) \cap LiveCourses /\ EntryFor(o) = Entries(o) \cap LiveCourses
    BY <1>0, <1>1 DEF Entries, EntryFor
  <2>2. ReglerColis(o, k, b)
    BY <1>0, <2>1 DEF CourseEnds
  <2>3. CASE reglement[b][o] # None
    BY <1>0, <2>2, <2>3 DEF ReglerColis
  <2>4. CASE reglement[b][o] = None
    <3>1. reglement' = [reglement EXCEPT ![b][o] = k]
      BY <2>2, <2>4 DEF ReglerColis
    <3>2. reglement'[b][o] = k
      BY <1>0, <3>1
    <3>3. QED
      BY <3>2, NoneAssumption
  <2>5. QED
    BY <2>3, <2>4
<1>2. CASE ~IsColis(b)
  <2>1. Order = {Lead} /\ HeadOf(b) = o
    BY <1>0, <1>2 DEF IsColis
  <2>2. Entries(o) = {}
    BY <1>0, <2>1 DEF Entries, IsColis
  <2>3. ReglerSeul(o, k) /\ b \in {a \in LiveCourses : HeadOf(a) = o}
    BY <2>1, <2>2 DEF CourseEnds
  <2>7. ~Already(o, EndedBy(k))
    <3> SUFFICES ASSUME NEW a \in CourseId, course[a] # None, course[a].status = EndedBy(k)
                 PROVE  FALSE
      BY DEF Already
    <3>1. Engaged(a) /\ Engaged(b) /\ course[b].status \in Live
      BY DEF Engaged, EndedBy, LiveCourses
    <3>2. \A x, y \in CourseId : Engaged(x) /\ Engaged(y) => x = y
      BY DEF RoadInv
    <3>3. a = b
      BY <1>0, <3>1, <3>2
    <3>4. QED
      BY <3>1, <3>3 DEF EndedBy, Live
  <2>4. CloseIf(b, TRUE, EndedBy(k))
    BY <1>0, <2>3, <2>7 DEF ReglerSeul
  <2>5. StatusMoved(b, EndedBy(k))
    BY <1>0, <2>1, <2>4, <2>7, CloseTyped DEF EndedBy, Statuses
  <2>6. QED
    BY <2>5 DEF StatusMoved, LiveCourses, Live, EndedBy
<1>3. QED
  BY <1>1, <1>2

\* A whole bag leaves with every article at the supplier's.
LEMMA LeavesFromSupplier ==
  ASSUME BookInv, RoadInv, NEW t \in Task, NEW a \in CourseId, Assign(t, a)
  PROVE  UNCHANGED file /\ \A o \in Order : file[o].place = "supplier"
<1>1. /\ task[t] # None /\ task[t].status = "queued" /\ UNCHANGED file
      /\ \A b \in CourseId : course[b] # None => course[b].task \in Task
  BY CourseIs DEF Assign, BookInv
<1>2. ASSUME NEW b \in CourseId, Engaged(b) PROVE FALSE
  <2>1. /\ course[b].task \in Task /\ task[course[b].task] # None
        /\ task[course[b].task].status = "assigned"
    BY <1>1, <1>2 DEF RoadInv, Engaged
  <2>2. Open(t) /\ Open(course[b].task)
    BY <1>1, <2>1 DEF Open, Closed
  <2>3. course[b].task = t
    BY <2>1, <2>2 DEF RoadInv
  <2>4. QED
    BY <1>1, <2>1, <2>3
<1>3. QED
  BY <1>1, <1>2 DEF RoadInv

\* No step loses a closing word a whole bag's course waits for.
LEMMA HeardStep ==
  ASSUME BookInv, NamedInv, Unshrunk, StillWhole, RoadInv, HeardIsSettled, [Next]_vars
  PROVE  HeardIsSettled'
<1> SUFFICES ASSUME NEW b \in CourseId, b \in LiveCourses', NEW o \in course'[b].orders,
                    file'[o].place \in {"buyer", "home"}, reglement'[b][o] = None
             PROVE  <<ClosingWord(o)', o>> \in wires'
  BY DEF HeardIsSettled, ArticlesOf, ClosingWord, LiveCourses
<1>0. /\ TypeOK /\ RoadInv' /\ course'[b] # None
      /\ reglement \in [CourseId -> [Order -> Ending \cup {None}]]
  BY RoadStep DEF BookInv, TypeOK, LiveCourses
<1>1. o \in Order
  BY <1>0 DEF RoadInv
<1>2. CASE course[b] = None
  <2>1. \E t \in Task : Assign(t, b)
    BY <1>0, <1>2, OnlyAssignDeparts DEF Departs
  <2>2. file'[o].place = "supplier"
    BY <1>1, <2>1, LeavesFromSupplier
  <2>3. QED
    BY <2>2
<1>3. CASE course[b] # None
  <2>1. b \in LiveCourses /\ o \in ArticlesOf(b)
    BY <1>1, <1>3, EndedStays DEF RoadInv, ArticlesOf
  <2>2. \A k \in Ending : ~CourseEnds(o, k)
    BY <1>1, <2>1, WholeBagHears
  <2>3. reglement[b][o] = None
    <3>1. CASE UNCHANGED Counts
      BY <3>1 DEF Counts
    <3>2. ASSUME NEW p \in Order, NEW k \in Ending, CourseEnds(p, k) PROVE reglement[b][o] = None
      <4>1. p # o
        BY <2>2, <3>2
      <4>2. UNCHANGED reglement \/ \E a \in CourseId : reglement' = [reglement EXCEPT ![a][p] = k]
        BY <1>0, <3>2, EndingHeard DEF BookInv, SettledOn, EndedAlone
      <4>3. reglement'[b][o] = reglement[b][o]
        BY <1>0, <1>1, <4>1, <4>2
      <4>4. QED
        BY <4>3
    <3>3. ASSUME NEW t \in Task, NEW a \in CourseId, Assign(t, a) PROVE reglement[b][o] = None
      <4>1. course[a] = None
        BY <1>0, <3>3, AssignCarries
      <4>2. reglement' = [reglement EXCEPT ![a] = [x \in Order |-> None]]
        BY <3>3 DEF Assign
      <4>3. reglement'[b] = reglement[b]
        BY <1>0, <1>3, <4>1, <4>2
      <4>4. QED
        BY <4>3
    <3>4. QED
      BY <3>1, <3>2, <3>3, OnlyWordsCount
  <2>4. /\ file'[o].place = file[o].place \/ <<ClosingWord(o)', o>> \in wires'
        /\ \A k \in Ending : <<k, o>> \in wires => <<k, o>> \in wires'
    BY <1>0, <1>1, <2>2, LedgersMove
  <2>5. CASE file'[o].place = file[o].place
    <3>1. <<ClosingWord(o), o>> \in wires /\ ClosingWord(o)' = ClosingWord(o)
      BY <2>1, <2>3, <2>5 DEF HeardIsSettled, ClosingWord
    <3>2. ClosingWord(o) \in Ending
      BY DEF ClosingWord, Ending
    <3>3. QED
      BY <2>4, <3>1, <3>2
  <2>6. QED
    BY <2>4, <2>5
<1>4. QED
  BY <1>2, <1>3

SettleInv == BookInv /\ NamedInv /\ (Unshrunk => StillWhole /\ RoadInv /\ HeardIsSettled)

\* Nothing is waited for at the start.
LEMMA InitSettle == Init => SettleInv
<1> SUFFICES ASSUME Init PROVE SettleInv
  OBVIOUS
<1>1. /\ retiring = None /\ retired = {}
      /\ \A a \in CourseId : course[a] = None
      /\ \A t \in Task : task[t] = None
      /\ \A o \in Order : fund[o] = "absent" /\ file[o].place = "supplier"
  BY DEF Init
<1>2. StillWhole /\ NamedInv
  BY <1>1 DEF StillWhole, NamedInv
<1>3. RoadInv
  BY <1>1 DEF RoadInv, Open, Engaged
<1>4. HeardIsSettled
  BY <1>1 DEF HeardIsSettled, LiveCourses
<1>5. QED
  BY <1>2, <1>3, <1>4, InitBooks DEF SettleInv

\* Every step keeps a whole bag settled, or its word on the way.
LEMMA SettleStep == SettleInv /\ [Next]_vars => SettleInv'
<1> SUFFICES ASSUME BookInv, NamedInv, Unshrunk => StillWhole /\ RoadInv /\ HeardIsSettled,
                    [Next]_vars
             PROVE  SettleInv'
  BY DEF SettleInv
<1>1. TypeOK /\ BookInv' /\ NamedInv'
  BY BookStep, NamedStep DEF BookInv
<1>2. Unshrunk' => Unshrunk
  <2>1. world' = world
    BY DEF Next, vars, Requests, Founder, Phone, Heard, Retirement, Custody, Facts, ComposeTask,
           Assign, TakeBack, Reprogram, DecideBegins, RetireArticle, RetireBag, Acknowledge, Requeue,
           CourseEnds, RetourOuvert, Reprogrammation, RelaySends, DecideEnds, RetireSweeps,
           RetireForgets, RetireEnds, Pickup, Drop, Absent, OpenReturn, HandOver, AtWork
  <2>2. QED
    BY <2>1 DEF Unshrunk
<1>3. Unshrunk => StillWhole' /\ RoadInv' /\ HeardIsSettled'
  BY <1>1, WholeStays, RoadStep, HeardStep
<1>4. QED
  BY <1>1, <1>2, <1>3 DEF SettleInv

\* While no article is taken out of its bag, no word of custody is lost: what
\* its course still waits for is on its way.
THEOREM WholeBagSettles == Spec => []WholeBagIsSettled
<1>1. SettleInv => WholeBagIsSettled
  BY DEF SettleInv, WholeBagIsSettled, Unshrunk
<1>2. QED
  BY <1>1, InitSettle, SettleStep, PTL DEF Spec
=============================================================================
