-------------------------- MODULE CourseWiresProofs --------------------------
(***************************************************************************)
(* What CourseWires promises, proved for every order, course, task and     *)
(* setting, and any number of restarts: the alarm finds what it read       *)
(* before it waited; a row that is done has its course's code on custody;  *)
(* nothing said of a return is unsaid, and what is said of its keys is so. *)
(***************************************************************************)
EXTENDS CourseWires, TLAPS

Reading == {"produce", "open", "arm"}
Arming == {"keys", "rider", "seller"}

\* What the alarm reads is there: a row for each order it still has to serve
\* and for the order it waits on; a return for each course, and it stays.
AlarmFits ==
    /\ at.step \in Reading =>
         at.rows \in Rows /\ \A o \in at.todo : o \in Order /\ at.rows[o] # None
    /\ at.step \in {"open", "arm"} => at.on \in Order /\ at.rows[at.on] # None
    /\ at.step \in Arming =>
         /\ at.rets \in Retours
         /\ \A a \in at.todo : a \in CourseId /\ at.rets[a] # None /\ ret[a] # None
    /\ at.step \in Key =>
         at.on \in CourseId /\ at.rets[at.on] # None /\ ret[at.on] # None

BooksInv == TypeOK /\ AlarmFits

\* No return is forgotten.
ReturnsStay == \A a \in CourseId : ret[a] # None => ret'[a] # None

-----------------------------------------------------------------------------
(* Types.                                                                  *)

\* Each part of memory and of storage is typed.
LEMMA ImageParts ==
  ASSUME TypeOK
  PROVE  /\ course \in Courses /\ queued \in SUBSET [task : Task, orders : SUBSET Order]
         /\ facts \in [Order -> Fact] /\ row \in Rows /\ ret \in Retours
         /\ saved.course \in Courses
         /\ saved.queued \in SUBSET [task : Task, orders : SUBSET Order]
         /\ saved.facts \in [Order -> Fact] /\ saved.row \in Rows /\ saved.ret \in Retours
<1>1. Image \in Images /\ saved \in Images
  BY DEF TypeOK
<1>2. saved.course \in Courses
      /\ saved.queued \in SUBSET [task : Task, orders : SUBSET Order]
      /\ saved.facts \in [Order -> Fact] /\ saved.row \in Rows /\ saved.ret \in Retours
  BY <1>1 DEF Images
<1>3. course \in Courses /\ queued \in SUBSET [task : Task, orders : SUBSET Order]
      /\ facts \in [Order -> Fact] /\ row \in Rows /\ ret \in Retours
  BY <1>1 DEF Images, Image
<1>4. QED
  BY <1>2, <1>3

\* Memory is typed when its parts are.
LEMMA ImageTyped ==
  ASSUME course' \in Courses, queued' \in SUBSET [task : Task, orders : SUBSET Order],
         facts' \in [Order -> Fact], row' \in Rows, ret' \in Retours
  PROVE  Image' \in Images
BY DEF Images, Image

\* Each part of the alarm's place is typed.
LEMMA AlarmParts ==
  ASSUME TypeOK
  PROVE  /\ at.step \in Step /\ at.rows \in Rows \cup {None} /\ at.rets \in Retours \cup {None}
         /\ at.todo \subseteq Order \cup CourseId /\ at.on \in Order \cup CourseId \cup {None}
         /\ at.left \subseteq Order /\ at.armed \subseteq Order /\ at.again \in BOOLEAN
BY DEF TypeOK, Alarm

\* No alarm runs: a place like another.
LEMMA IdleTyped == Idle \in Alarm /\ Idle.step = "idle"
BY DEF Idle, Alarm, Step

\* A voyage is of orders.
LEMMA AVoyage ==
  ASSUME TypeOK, NEW os \in world.voyages
  PROVE  os \subseteq Order
BY WorldsAssumption DEF TypeOK

\* A step that leaves the alarm where it is leaves it what it needs.
LEMMA AlarmWaits ==
  ASSUME AlarmFits, at' = at, ReturnsStay
  PROVE  AlarmFits'
<1>1. at.step \in Reading =>
         at.rows \in Rows /\ \A o \in at.todo : o \in Order /\ at.rows[o] # None
  BY DEF AlarmFits
<1>2. at.step \in {"open", "arm"} => at.on \in Order /\ at.rows[at.on] # None
  BY DEF AlarmFits
<1>3. at.step \in Arming => at.rets \in Retours
  BY DEF AlarmFits
<1>4. at.step \in Arming => \A a \in at.todo : a \in CourseId /\ at.rets[a] # None /\ ret[a] # None
  BY DEF AlarmFits
<1>5. at.step \in Key => at.on \in CourseId /\ at.rets[at.on] # None /\ ret[at.on] # None
  BY DEF AlarmFits
<1>6. at.step \in Arming => \A a \in at.todo : a \in CourseId /\ at.rets[a] # None /\ ret'[a] # None
  BY <1>4 DEF ReturnsStay
<1>7. at.step \in Key => at.on \in CourseId /\ at.rets[at.on] # None /\ ret'[at.on] # None
  BY <1>5 DEF ReturnsStay
<1>8. QED
  BY <1>1, <1>2, <1>3, <1>6, <1>7 DEF AlarmFits

\* An idle alarm needs nothing.
LEMMA AlarmRests ==
  ASSUME at'.step = "idle"
  PROVE  AlarmFits'
BY DEF AlarmFits, Reading, Arming, Key

-----------------------------------------------------------------------------
(* Requests.                                                               *)

\* A request that ends persists what memory holds.
LEMMA RequestTyped ==
  ASSUME BooksInv, course' \in Courses,
         queued' \in SUBSET [task : Task, orders : SUBSET Order],
         facts' \in [Order -> Fact], row' \in Rows, ret' \in Retours,
         saved' = Image' \/ saved' = saved, ReturnsStay,
         alarm' \in BOOLEAN, retiring' \in Retiring \cup {None},
         UNCHANGED <<world, at, cust, config, crashes>>
  PROVE  BooksInv'
<1>1. Image' \in Images
  BY ImageTyped
<1>2. saved' \in Images
  BY <1>1 DEF BooksInv, TypeOK
<1>3. AlarmFits'
  BY AlarmWaits DEF BooksInv
<1>4. TypeOK'
  BY <1>1, <1>2 DEF BooksInv, TypeOK
<1>5. QED
  BY <1>3, <1>4 DEF BooksInv

\* A course that ends keeps what it carries.
LEMMA EndedTyped ==
  ASSUME TypeOK, NEW b \in Courses, NEW a \in CourseId, b[a] # None
  PROVE  [b EXCEPT ![a].live = FALSE] \in Courses
<1>1. b[a] \in CourseRecord
  BY DEF Courses
<1>2. [b[a] EXCEPT !.live = FALSE] \in CourseRecord
  BY <1>1 DEF CourseRecord
<1>3. QED
  BY <1>2 DEF Courses

\* The row of a new course is one, and not an absence.
LEMMA FreshRowTyped ==
  ASSUME TypeOK, NEW a \in CourseId, NEW t \in Task, NEW o \in Order
  PROVE  FreshRow(a, t, o) \in Row /\ FreshRow(a, t, o) # None
<1>1. FreshRow(a, t, o) \in Row
  BY DEF FreshRow, Row
<1>2. QED
  BY <1>1, NoneAssumption

\* /ops/assign keeps the books typed.
LEMMA AssignTyped ==
  ASSUME BooksInv, NEW a \in CourseId, NEW t \in Task, NEW os \in world.voyages,
         Assign(a, t, os)
  PROVE  BooksInv'
<1>0. TypeOK
  BY DEF BooksInv
<1>1. os \subseteq Order
  BY <1>0, AVoyage
<1>2. course' \in Courses
  <2>1. [orders |-> os, task |-> t, live |-> TRUE] \in CourseRecord
    BY <1>1 DEF CourseRecord
  <2>2. course' = [course EXCEPT ![a] = [orders |-> os, task |-> t, live |-> TRUE]]
    BY DEF Assign
  <2>3. QED
    BY <1>0, <2>1, <2>2, ImageParts DEF Courses
<1>3. row' \in Rows
  <2>1. row' = [o \in Order |-> IF o \in os THEN FreshRow(a, t, o) ELSE row[o]]
    BY DEF Assign
  <2>2. \A o \in Order : FreshRow(a, t, o) \in Row
    BY <1>0, FreshRowTyped
  <2>3. QED
    BY <1>0, <2>1, <2>2, ImageParts DEF Rows
<1>4. /\ queued' \subseteq queued /\ facts' = facts /\ ret' = ret /\ retiring' = retiring
      /\ alarm' = TRUE /\ saved' = Image' /\ UNCHANGED <<world, at, cust, config, crashes>>
  BY DEF Assign, Persist
<1>5. queued' \in SUBSET [task : Task, orders : SUBSET Order] /\ facts' \in [Order -> Fact]
      /\ ret' \in Retours
  BY <1>0, <1>4, ImageParts
<1>6. ReturnsStay
  BY <1>4 DEF ReturnsStay
<1>7. retiring' \in Retiring \cup {None} /\ alarm' \in BOOLEAN
  BY <1>0, <1>4 DEF TypeOK
<1>8. QED
  BY <1>2, <1>3, <1>4, <1>5, <1>6, <1>7, RequestTyped

\* So do a decline, an expired lease and a take-back.
LEMMA EndTyped ==
  ASSUME BooksInv, NEW a \in CourseId, Requeue(a) \/ TakeBack(a)
  PROVE  BooksInv'
<1>0. TypeOK
  BY DEF BooksInv
<1>1. course[a] # None /\ course' = [course EXCEPT ![a].live = FALSE]
  BY DEF Requeue, TakeBack, Live
<1>2. course' \in Courses
  BY <1>0, <1>1, ImageParts, EndedTyped
<1>3. course[a] \in CourseRecord
  BY <1>0, <1>1, ImageParts DEF Courses
<1>4. queued' \in SUBSET [task : Task, orders : SUBSET Order]
  <2>1. [task |-> course[a].task, orders |-> course[a].orders]
            \in [task : Task, orders : SUBSET Order]
    BY <1>3 DEF CourseRecord
  <2>2. queued' = queued
        \/ queued' = queued \cup {[task |-> course[a].task, orders |-> course[a].orders]}
    BY DEF Requeue, TakeBack
  <2>3. QED
    BY <1>0, <2>1, <2>2, ImageParts
<1>5. /\ facts' = facts /\ row' = row /\ ret' = ret /\ retiring' = retiring
      /\ alarm' = alarm /\ saved' = Image' /\ UNCHANGED <<world, at, cust, config, crashes>>
  BY DEF Requeue, TakeBack, Persist
<1>6. ReturnsStay
  BY <1>5 DEF ReturnsStay
<1>7. retiring' \in Retiring \cup {None} /\ alarm' \in BOOLEAN
  BY <1>0, <1>5 DEF TypeOK
<1>8. facts' \in [Order -> Fact] /\ row' \in Rows /\ ret' \in Retours
  BY <1>0, <1>5, ImageParts
<1>9. QED
  BY <1>2, <1>4, <1>5, <1>6, <1>7, <1>8, RequestTyped

\* So does the naming of a supplier.
LEMMA NameSupplierTyped ==
  ASSUME BooksInv, NEW o \in Order, NameSupplier(o)
  PROVE  BooksInv'
<1>0. TypeOK
  BY DEF BooksInv
<1>1. row' \in Rows
  <2>1. CASE row[o] # None /\ row[o].phase # "done" /\ ~row[o].supplier
    <3>1. row[o] \in Row
      BY <1>0, <2>1, ImageParts DEF Rows
    <3>2. [row[o] EXCEPT !.supplier = TRUE] \in Row
      BY <3>1 DEF Row
    <3>3. row' = [row EXCEPT ![o].supplier = TRUE]
      BY <2>1 DEF NameSupplier
    <3>4. QED
      BY <1>0, <3>2, <3>3, ImageParts DEF Rows
  <2>2. CASE ~(row[o] # None /\ row[o].phase # "done" /\ ~row[o].supplier)
    BY <1>0, <2>2, ImageParts DEF NameSupplier
  <2>3. QED
    BY <2>1, <2>2
<1>2. facts' \in [Order -> Fact]
  <2>1. facts' = [facts EXCEPT ![o] = "supplied"] /\ facts \in [Order -> Fact]
    BY <1>0, ImageParts DEF NameSupplier
  <2>2. QED
    BY <2>1 DEF Fact
<1>3. alarm' \in BOOLEAN
  <2>1. alarm' = alarm \/ alarm' \in BOOLEAN
    BY DEF NameSupplier, Revive
  <2>2. QED
    BY <1>0, <2>1 DEF TypeOK
<1>4. /\ course' = course /\ queued' = queued /\ ret' = ret /\ retiring' = retiring
      /\ saved' = Image' /\ UNCHANGED <<world, at, cust, config, crashes>>
  BY DEF NameSupplier, Persist
<1>5. course' \in Courses /\ queued' \in SUBSET [task : Task, orders : SUBSET Order]
      /\ ret' \in Retours
  BY <1>0, <1>4, ImageParts
<1>6. ReturnsStay
  BY <1>4 DEF ReturnsStay
<1>7. retiring' \in Retiring \cup {None}
  BY <1>0, <1>4 DEF TypeOK
<1>8. QED
  BY <1>1, <1>2, <1>3, <1>4, <1>5, <1>6, <1>7, RequestTyped

\* So does a purge, as far as the fetch it awaits,
LEMMA RetireBeginsTyped ==
  ASSUME BooksInv, NEW o \in Order, RetireBegins(o)
  PROVE  BooksInv'
<1>0. TypeOK
  BY DEF BooksInv
<1>1. course' \in Courses
  <2>1. \A a \in CoursesOf(o) : a \in CourseId /\ course[a] # None
    BY DEF CoursesOf, Live
  <2>2. \A a \in CoursesOf(o) : course[a] \in CourseRecord
    BY <1>0, <2>1, ImageParts DEF Courses
  <2>3. \A a \in CoursesOf(o) : [course[a] EXCEPT !.live = FALSE] \in CourseRecord
    BY <2>2 DEF CourseRecord
  <2>4. course' = [a \in CourseId |->
           IF a \in CoursesOf(o) THEN [course[a] EXCEPT !.live = FALSE] ELSE course[a]]
    BY DEF RetireBegins
  <2>5. QED
    BY <1>0, <2>3, <2>4, ImageParts DEF Courses
<1>2. /\ queued' \subseteq queued /\ facts' = facts /\ row' = row /\ ret' = ret
      /\ saved' = saved /\ alarm' = alarm
      /\ UNCHANGED <<world, at, cust, config, crashes>>
  BY DEF RetireBegins
<1>3. queued' \in SUBSET [task : Task, orders : SUBSET Order]
      /\ facts' \in [Order -> Fact] /\ row' \in Rows /\ ret' \in Retours
  BY <1>0, <1>2, ImageParts
<1>4. retiring' \in Retiring
  BY DEF RetireBegins, Retiring
<1>5. ReturnsStay
  BY <1>2 DEF ReturnsStay
<1>6. alarm' \in BOOLEAN
  BY <1>0, <1>2 DEF TypeOK
<1>7. QED
  BY <1>1, <1>2, <1>3, <1>4, <1>5, <1>6, RequestTyped

\* and once it is answered.
LEMMA RetireEndsTyped ==
  ASSUME BooksInv, RetireEnds
  PROVE  BooksInv'
<1>0. TypeOK
  BY DEF BooksInv
<1>1. retiring \in Retiring
  BY <1>0 DEF TypeOK, RetireEnds
<1>2. row' \in Rows
  <2>1. row' = row \/ row' = [row EXCEPT ![retiring.order] = None]
    BY DEF RetireEnds
  <2>2. QED
    BY <1>0, <1>1, <2>1, ImageParts DEF Rows, Retiring
<1>3. facts' \in [Order -> Fact]
  <2>1. facts' = facts \/ facts' = [facts EXCEPT ![retiring.order] = "absent"]
    BY DEF RetireEnds
  <2>2. QED
    BY <1>0, <1>1, <2>1, ImageParts DEF Fact, Retiring
<1>4. /\ course' = course /\ queued' = queued /\ ret' = ret /\ retiring' = None
      /\ alarm' = alarm /\ saved' = Image' /\ UNCHANGED <<world, at, cust, config, crashes>>
  BY DEF RetireEnds, Persist
<1>5. course' \in Courses /\ queued' \in SUBSET [task : Task, orders : SUBSET Order]
      /\ ret' \in Retours
  BY <1>0, <1>4, ImageParts
<1>6. ReturnsStay
  BY <1>4 DEF ReturnsStay
<1>7. retiring' \in Retiring \cup {None} /\ alarm' \in BOOLEAN
  BY <1>0, <1>4 DEF TypeOK
<1>8. QED
  BY <1>2, <1>3, <1>4, <1>5, <1>6, <1>7, RequestTyped

\* What a return becomes when it is opened, when an article joins it, and when
\* the supplier confirms it.
LEMMA ReturnWritten ==
  ASSUME TypeOK, NEW a \in CourseId,
         \/ \E o \in Order : ReturnOpened(o, a)
         \/ ReturnConfirmed(a)
  PROVE  /\ \A b \in CourseId \ {a} : ret'[b] = ret[b]
         /\ ret' \in Retours /\ ret'[a] # None
         /\ ret[a] # None => /\ ret[a].orders \subseteq ret'[a].orders
                             /\ ret'[a].armed = ret[a].armed
                             /\ ret[a].confirmed => ret'[a].confirmed
                             /\ \/ ret'[a].phase = "pending"
                                \/ /\ ret'[a].orders = ret[a].orders
                                   /\ ret'[a].phase = ret[a].phase
         /\ ret[a] = None => ret'[a].armed = {} /\ ret'[a].phase = "pending"
<1>1. ret \in Retours
  BY ImageParts
<1>2. ret[a] # None => ret[a] \in RetourRow
  BY <1>1 DEF Retours
<1>3. ASSUME NEW o \in Order, ret[a] = None,
             ret' = [ret EXCEPT ![a] = [orders |-> {o}, armed |-> {},
                                        phase |-> "pending", confirmed |-> FALSE]]
      PROVE  /\ \A b \in CourseId \ {a} : ret'[b] = ret[b]
             /\ ret' \in Retours /\ ret'[a] # None
             /\ ret'[a].armed = {} /\ ret'[a].phase = "pending"
  <2>1. [orders |-> {o}, armed |-> {}, phase |-> "pending", confirmed |-> FALSE] \in RetourRow
    BY DEF RetourRow
  <2>2. ret'[a] = [orders |-> {o}, armed |-> {}, phase |-> "pending", confirmed |-> FALSE]
    BY <1>1, <1>3 DEF Retours
  <2>3. \A b \in CourseId \ {a} : ret'[b] = ret[b]
    BY <1>1, <1>3 DEF Retours
  <2>4. ret' \in Retours
    BY <1>1, <1>3, <2>1 DEF Retours
  <2>5. ret'[a] # None
    BY <2>1, <2>2, NoneAssumption
  <2>6. ret'[a].armed = {} /\ ret'[a].phase = "pending"
    BY <2>2
  <2>7. QED
    BY <2>3, <2>4, <2>5, <2>6
<1>4. ASSUME NEW o \in Order, ret[a] # None,
             ret' = [ret EXCEPT ![a].orders = @ \cup {o}, ![a].phase = "pending"]
      PROVE  /\ \A b \in CourseId \ {a} : ret'[b] = ret[b]
             /\ ret' \in Retours /\ ret'[a] # None
             /\ ret[a].orders \subseteq ret'[a].orders /\ ret'[a].armed = ret[a].armed
             /\ ret'[a].confirmed = ret[a].confirmed /\ ret'[a].phase = "pending"
  <2> DEFINE new == [ret[a] EXCEPT !.orders = @ \cup {o}, !.phase = "pending"]
  <2>1. ret[a] \in RetourRow
    BY <1>2, <1>4
  <2>2. new \in RetourRow /\ new.orders = ret[a].orders \cup {o} /\ new.armed = ret[a].armed
        /\ new.confirmed = ret[a].confirmed /\ new.phase = "pending"
    BY <2>1 DEF RetourRow
  <2>3. ret' = [ret EXCEPT ![a] = new]
    BY <1>1, <1>4 DEF Retours
  <2> HIDE DEF new
  <2>4. ret'[a] = new /\ \A b \in CourseId \ {a} : ret'[b] = ret[b]
    BY <1>1, <2>3 DEF Retours
  <2>5. ret' \in Retours
    BY <1>1, <2>2, <2>3 DEF Retours
  <2>6. QED
    BY <2>2, <2>4, <2>5, NoneAssumption
<1>5. ASSUME ret[a] # None, ret' = [ret EXCEPT ![a].confirmed = TRUE]
      PROVE  /\ \A b \in CourseId \ {a} : ret'[b] = ret[b]
             /\ ret' \in Retours /\ ret'[a] # None
             /\ ret'[a].orders = ret[a].orders /\ ret'[a].armed = ret[a].armed
             /\ ret'[a].confirmed = TRUE /\ ret'[a].phase = ret[a].phase
  <2> DEFINE new == [ret[a] EXCEPT !.confirmed = TRUE]
  <2>1. ret[a] \in RetourRow
    BY <1>2, <1>5
  <2>2. new \in RetourRow /\ new.orders = ret[a].orders /\ new.armed = ret[a].armed
        /\ new.confirmed = TRUE /\ new.phase = ret[a].phase
    BY <2>1 DEF RetourRow
  <2>3. ret' = [ret EXCEPT ![a] = new]
    BY <1>1, <1>5 DEF Retours
  <2> HIDE DEF new
  <2>4. ret'[a] = new /\ \A b \in CourseId \ {a} : ret'[b] = ret[b]
    BY <1>1, <2>3 DEF Retours
  <2>5. ret' \in Retours
    BY <1>1, <2>2, <2>3 DEF Retours
  <2>6. QED
    BY <2>2, <2>4, <2>5, NoneAssumption
<1>6. CASE \E o \in Order : ReturnOpened(o, a)
  <2>1. PICK o \in Order : ReturnOpened(o, a)
    BY <1>6
  <2>2. CASE ret[a] = None
    BY <1>3, <2>1, <2>2 DEF ReturnOpened
  <2>3. CASE ret[a] # None
    BY <1>4, <2>1, <2>3 DEF ReturnOpened
  <2>4. QED
    BY <2>2, <2>3
<1>7. CASE ReturnConfirmed(a)
  BY <1>5, <1>7 DEF ReturnConfirmed
<1>8. QED
  BY <1>6, <1>7

\* So do the opening and the confirmation of a return.
LEMMA ReturnTyped ==
  ASSUME BooksInv, NEW a \in CourseId,
         (\E o \in Order : ReturnOpened(o, a)) \/ ReturnConfirmed(a)
  PROVE  BooksInv'
<1>0. TypeOK
  BY DEF BooksInv
<1>1. ret' \in Retours /\ ret'[a] # None /\ \A b \in CourseId \ {a} : ret'[b] = ret[b]
  BY <1>0, ReturnWritten
<1>2. ReturnsStay
  BY <1>1 DEF ReturnsStay
<1>3. /\ course' = course /\ queued' = queued /\ facts' = facts /\ row' = row
      /\ retiring' = retiring /\ (alarm' = TRUE \/ alarm' = alarm)
      /\ saved' = Image' /\ UNCHANGED <<world, at, cust, config, crashes>>
  BY DEF ReturnOpened, ReturnConfirmed, Persist
<1>4. course' \in Courses /\ queued' \in SUBSET [task : Task, orders : SUBSET Order]
      /\ facts' \in [Order -> Fact] /\ row' \in Rows
  BY <1>0, <1>3, ImageParts
<1>5. retiring' \in Retiring \cup {None} /\ alarm' \in BOOLEAN
  BY <1>0, <1>3 DEF TypeOK
<1>6. QED
  BY <1>1, <1>2, <1>3, <1>4, <1>5, RequestTyped

-----------------------------------------------------------------------------
(* Custody and the alarm.                                                  *)

\* A step of custody or of the alarm, as far as its types go.
LEMMA StepTyped ==
  ASSUME BooksInv, row' \in Rows, ret' \in Retours, saved' \in Images,
         cust' \in [Order -> File], alarm' \in BOOLEAN, at' \in Alarm, AlarmFits',
         UNCHANGED <<world, course, queued, facts, retiring, config, crashes>>
  PROVE  BooksInv'
<1>0. TypeOK
  BY DEF BooksInv
<1>1. /\ course' \in Courses /\ queued' \in SUBSET [task : Task, orders : SUBSET Order]
      /\ facts' \in [Order -> Fact]
  BY <1>0, ImageParts
<1>2. Image' \in Images
  BY <1>1, ImageTyped
<1>3. TypeOK'
  BY <1>0, <1>2 DEF TypeOK
<1>4. QED
  BY <1>3 DEF BooksInv

\* An order's file on custody is one.
LEMMA FileTyped ==
  ASSUME TypeOK, NEW o \in Order
  PROVE  cust[o] \in File
BY DEF TypeOK

\* What custody does with an opening and with an arming.
LEMMA OpenedFile ==
  ASSUME NEW f \in File, NEW t \in Task
  PROVE  /\ Opened(f, t) \in File /\ Opened(f, t).code = f.code
         /\ Opened(f, t).answered = f.answered /\ Opened(f, t).keys = f.keys
BY DEF Opened, File

\* An arming changes neither the keys nor, unless its course is new, the code;
\* an accepted one has its course among those answered.
LEMMA ArmedFile ==
  ASSUME NEW f \in File, NEW a \in CourseId
  PROVE  /\ Armed(f, a) \in File /\ Armed(f, a).keys = f.keys
         /\ \/ Armed(f, a).code = f.code /\ Armed(f, a).answered = f.answered
            \/ /\ a \notin f.answered
               /\ Armed(f, a).code = a /\ Armed(f, a).answered = f.answered \cup {a}
         /\ ArmAccepted(f, a) => a \in Armed(f, a).answered
<1>1. CASE a \in f.answered \cup f.refused
  BY <1>1 DEF Armed, ArmAccepted
<1>2. CASE a \notin f.answered \cup f.refused /\ f.spent
  <2>1. Armed(f, a) = [f EXCEPT !.refused = @ \cup {a}]
    BY <1>2 DEF Armed
  <2>2. QED
    BY <1>2, <2>1 DEF ArmAccepted, File
<1>3. CASE a \notin f.answered \cup f.refused /\ ~f.spent
  <2>1. Armed(f, a) = [f EXCEPT !.code = a, !.answered = @ \cup {a}]
    BY <1>3 DEF Armed
  <2>2. QED
    BY <1>3, <2>1 DEF File
<1>4. QED
  BY <1>1, <1>2, <1>3

\* A file changes alone.
LEMMA KeptFile ==
  ASSUME TypeOK, NEW o \in Order, NEW f \in File, cust' = [cust EXCEPT ![o] = f]
  PROVE  cust' \in [Order -> File] /\ cust'[o] = f
         /\ \A p \in Order \ {o} : cust'[p] = cust[p]
BY DEF TypeOK

\* The rider's pickup spends a code and changes nothing else of it.
LEMMA PickupTyped ==
  ASSUME BooksInv, NEW a \in CourseId, NEW o \in Order, PickupVerified(a, o)
  PROVE  /\ BooksInv'
         /\ \A p \in Order : cust'[p].code = cust[p].code /\ cust'[p].answered = cust[p].answered
                             /\ cust'[p].keys = cust[p].keys
<1>0. TypeOK /\ AlarmFits
  BY DEF BooksInv
<1> DEFINE f == [cust[o] EXCEPT !.spent = TRUE]
<1>1. cust' = [cust EXCEPT ![o] = f]
  BY <1>0 DEF PickupVerified, TypeOK
<1>2. f \in File /\ f.code = cust[o].code /\ f.answered = cust[o].answered /\ f.keys = cust[o].keys
  BY <1>0, FileTyped DEF File
<1> HIDE DEF f
<1>3. cust' \in [Order -> File] /\ cust'[o] = f /\ \A p \in Order \ {o} : cust'[p] = cust[p]
  BY <1>0, <1>1, <1>2, KeptFile
<1>4. /\ row' = row /\ ret' = ret /\ saved' = saved /\ alarm' = alarm /\ at' = at
      /\ UNCHANGED <<world, course, queued, facts, retiring, config, crashes>>
  BY DEF PickupVerified, mem
<1>5. AlarmFits'
  BY <1>0, <1>4, AlarmWaits DEF ReturnsStay
<1>6. row' \in Rows /\ ret' \in Retours /\ saved' \in Images /\ alarm' \in BOOLEAN /\ at' \in Alarm
  BY <1>0, <1>4, ImageParts DEF TypeOK
<1>7. BooksInv'
  BY <1>3, <1>4, <1>5, <1>6, StepTyped
<1>8. QED
  BY <1>2, <1>3, <1>7

\* Reading the board keeps the books typed.
LEMMA BoardTyped ==
  ASSUME BooksInv, Board
  PROVE  BooksInv'
<1>0. TypeOK /\ AlarmFits
  BY DEF BooksInv
<1>1. /\ row' = row /\ ret' = ret /\ saved' = saved /\ cust' = cust /\ at' = at
      /\ UNCHANGED <<world, course, queued, facts, retiring, config, crashes>>
      /\ alarm' \in BOOLEAN
  BY DEF Board, mem, Revive
<1>2. AlarmFits'
  BY <1>0, <1>1, AlarmWaits DEF ReturnsStay
<1>3. row' \in Rows /\ ret' \in Retours /\ saved' \in Images /\ cust' \in [Order -> File]
      /\ at' \in Alarm
  BY <1>0, <1>1, ImageParts DEF TypeOK
<1>4. QED
  BY <1>1, <1>2, <1>3, StepTyped

\* Where the alarm is when it starts.
LEMMA AlarmStarted ==
  ASSUME BooksInv, AlarmStarts
  PROVE  /\ BooksInv'
         /\ at.step = "idle" /\ at'.step = "produce" /\ at'.rows = row
<1>0. TypeOK
  BY DEF BooksInv
<1> DEFINE todo == {o \in Order : row[o] # None /\ row[o].phase # "done"}
           new == [Idle EXCEPT !.step = "produce", !.rows = row, !.todo = todo]
<1>1. at' = new /\ at = Idle /\ alarm' = FALSE
  BY DEF AlarmStarts
<1>2. new \in Alarm /\ new.step = "produce" /\ new.rows = row /\ new.todo = todo
  <2>1. row \in Rows
    BY <1>0, ImageParts
  <2>2. QED
    BY <2>1 DEF Idle, Alarm, Step
<1> HIDE DEF new
<1>3. /\ row' = row /\ ret' = ret /\ saved' = saved /\ cust' = cust
      /\ UNCHANGED <<world, course, queued, facts, retiring, config, crashes>>
  BY DEF AlarmStarts, mem
<1>4. AlarmFits'
  <2>1. row \in Rows /\ \A o \in todo : o \in Order /\ row[o] # None
    BY <1>0, ImageParts
  <2>2. at'.step = "produce" /\ at'.rows = row /\ at'.todo = todo
    BY <1>1, <1>2
  <2>3. QED
    BY <2>1, <2>2 DEF AlarmFits, Arming, Key
<1>5. row' \in Rows /\ ret' \in Retours /\ saved' \in Images /\ cust' \in [Order -> File]
      /\ alarm' \in BOOLEAN /\ at' \in Alarm
  BY <1>0, <1>1, <1>2, <1>3, ImageParts DEF TypeOK
<1>6. BooksInv'
  BY <1>3, <1>4, <1>5, StepTyped
<1>7. QED
  BY <1>1, <1>2, <1>6, IdleTyped

\* A row is written back as it was read.
LEMMA WrittenBack ==
  ASSUME TypeOK, AlarmFits, at.step \in Reading, NEW o \in Order, at.rows[o] # None,
         NEW phase \in {"open", "arm", "done"},
         NEW rest \in {"none", "no_config", "no_supplier"},
         row' = WriteBack(o, phase, rest)
  PROVE  /\ row' \in Rows /\ row'[o] # None /\ row'[o].course = at.rows[o].course
         /\ row'[o].phase = phase
         /\ \A p \in Order \ {o} : row'[p] = row[p]
<1> DEFINE new == [at.rows[o] EXCEPT !.phase = phase, !.rest = rest]
<1>1. at.rows \in Rows
  BY DEF AlarmFits
<1>2. at.rows[o] \in Row
  BY <1>1 DEF Rows
<1>3. new \in Row /\ new.course = at.rows[o].course /\ new.phase = phase
  BY <1>2 DEF Row
<1>4. row' = [row EXCEPT ![o] = new]
  BY DEF WriteBack
<1> HIDE DEF new
<1>5. row \in Rows /\ new # None
  BY <1>3, ImageParts, NoneAssumption
<1>6. row'[o] = new /\ \A p \in Order \ {o} : row'[p] = row[p]
  BY <1>4, <1>5 DEF Rows
<1>7. row' \in Rows
  BY <1>3, <1>4, <1>5 DEF Rows
<1>8. QED
  BY <1>3, <1>5, <1>6, <1>7

\* The alarm's place moves on: what it reads stays.
LEMMA AlarmReads ==
  ASSUME BooksInv, at.step \in Reading, at'.step \in Reading, at'.rows = at.rows,
         at'.todo \subseteq at.todo,
         at'.step \in {"open", "arm"} => at'.on \in Order /\ at.rows[at'.on] # None
  PROVE  AlarmFits'
<1>1. at.rows \in Rows /\ \A o \in at.todo : o \in Order /\ at.rows[o] # None
  BY DEF BooksInv, AlarmFits
<1>2. at'.step \notin Arming /\ at'.step \notin Key
  BY DEF Reading, Arming, Key
<1>3. QED
  BY <1>1, <1>2 DEF AlarmFits

\* A row that rests is written back, and the alarm goes on.
LEMMA RestsTyped ==
  ASSUME BooksInv, NEW o \in Order, ProduceRests(o)
  PROVE  /\ BooksInv' /\ at.step \in Reading /\ at'.step = at.step /\ at'.rows = at.rows
         /\ \A p \in Order : row'[p] = row[p] \/
              /\ p = o /\ row'[p] # None /\ at.rows[p] # None
              /\ row'[p].course = at.rows[p].course /\ row'[p].phase = at.rows[p].phase
<1>0. TypeOK /\ AlarmFits
  BY DEF BooksInv
<1>1. at.step = "produce" /\ o \in at.todo /\ at.step \in Reading
  BY DEF ProduceRests, Reading
<1>2. at.rows \in Rows /\ at.rows[o] # None
  BY <1>0, <1>1 DEF AlarmFits
<1>3. at.rows[o] \in Row
  BY <1>2 DEF Rows
<1>4. at.rows[o].phase \in {"open", "arm", "done"}
      /\ RestFor(at.rows[o]) \in {"none", "no_config", "no_supplier"}
  BY <1>3 DEF Row, RestFor
<1>5. row' = row \/ row' = WriteBack(o, at.rows[o].phase, RestFor(at.rows[o]))
  BY DEF ProduceRests
<1>6. /\ row' \in Rows
      /\ \A p \in Order : row'[p] = row[p] \/
              /\ p = o /\ row'[p] # None /\ at.rows[p] # None
              /\ row'[p].course = at.rows[p].course /\ row'[p].phase = at.rows[p].phase
  <2>1. CASE row' = row
    BY <1>0, <2>1, ImageParts
  <2>2. CASE row' = WriteBack(o, at.rows[o].phase, RestFor(at.rows[o]))
    <3>1. /\ row' \in Rows /\ row'[o] # None /\ row'[o].course = at.rows[o].course
          /\ row'[o].phase = at.rows[o].phase
          /\ \A p \in Order \ {o} : row'[p] = row[p]
      BY <1>0, <1>1, <1>2, <1>4, <2>2, WrittenBack
    <3>2. QED
      BY <1>2, <3>1
  <2>3. QED
    BY <1>5, <2>1, <2>2
<1> DEFINE new == [at EXCEPT !.todo = @ \ {o}]
<1>7. at' = new
  BY DEF ProduceRests
<1>8. new \in Alarm /\ new.step = at.step /\ new.rows = at.rows /\ new.todo = at.todo \ {o}
  BY <1>0 DEF TypeOK, Alarm
<1> HIDE DEF new
<1>9. AlarmFits'
  BY <1>1, <1>7, <1>8, AlarmReads
<1>10. /\ ret' = ret /\ saved' = saved /\ alarm' = alarm /\ cust' = cust
       /\ UNCHANGED <<world, course, queued, facts, retiring, config, crashes>>
  BY DEF ProduceRests
<1>11. ret' \in Retours /\ saved' \in Images /\ cust' \in [Order -> File] /\ alarm' \in BOOLEAN
       /\ at' \in Alarm
  BY <1>0, <1>7, <1>8, <1>10, ImageParts DEF TypeOK
<1>12. BooksInv'
  BY <1>6, <1>9, <1>10, <1>11, StepTyped
<1>13. QED
  BY <1>1, <1>6, <1>7, <1>8, <1>12

\* A row that is sent: the alarm waits on it, with what it has read.
LEMMA SendsTyped ==
  ASSUME BooksInv, NEW o \in Order, ProduceSends(o)
  PROVE  BooksInv' /\ at.step \in Reading /\ at'.step \in Reading /\ at'.rows = at.rows
<1>0. TypeOK /\ AlarmFits
  BY DEF BooksInv
<1>1. at.step = "produce" /\ o \in at.todo /\ at.step \in Reading
  BY DEF ProduceSends, Reading
<1>2. at.rows[o] # None
  BY <1>0, <1>1 DEF AlarmFits
<1> DEFINE next == IF at.rows[o].phase = "open" THEN "open" ELSE "arm"
           new == [at EXCEPT !.on = o, !.todo = @ \ {o}, !.step = next]
<1>3. at' = new
  BY DEF ProduceSends
<1>4. next \in {"open", "arm"}
  OBVIOUS
<1> HIDE DEF next
<1>5. /\ new \in Alarm /\ new.step = next /\ new.rows = at.rows /\ new.todo = at.todo \ {o}
      /\ new.on = o
  BY <1>0, <1>4 DEF TypeOK, Alarm, Step
<1> HIDE DEF new
<1>6. at'.step \in Reading
  BY <1>3, <1>4, <1>5 DEF Reading
<1>7. AlarmFits'
  BY <1>1, <1>2, <1>3, <1>5, <1>6, AlarmReads
<1>8. /\ row' = row /\ ret' = ret /\ saved' = saved /\ alarm' = alarm /\ cust' = cust
      /\ UNCHANGED <<world, course, queued, facts, retiring, config, crashes>>
  BY DEF ProduceSends, mem
<1>9. row' \in Rows /\ ret' \in Retours /\ saved' \in Images /\ cust' \in [Order -> File]
      /\ alarm' \in BOOLEAN /\ at' \in Alarm
  BY <1>0, <1>3, <1>5, <1>8, ImageParts DEF TypeOK
<1>10. BooksInv'
  BY <1>7, <1>8, <1>9, StepTyped
<1>11. QED
  BY <1>1, <1>3, <1>5, <1>6, <1>10

\* The row the alarm waits on.
LEMMA OnRow ==
  ASSUME BooksInv, at.step \in {"open", "arm"}
  PROVE  /\ at.step \in Reading /\ at.on \in Order /\ at.rows[at.on] # None
         /\ at.rows[at.on] \in Row
         /\ at.rows[at.on].task \in Task /\ at.rows[at.on].course \in CourseId
<1>1. at.step \in Reading /\ at.on \in Order /\ at.rows[at.on] # None /\ at.rows \in Rows
  BY DEF BooksInv, AlarmFits, Reading
<1>2. at.rows[at.on] \in Row
  BY <1>1 DEF Rows
<1>3. QED
  BY <1>1, <1>2 DEF Row

\* An opening leaves custody's codes, and a row open as it was read.
LEMMA OpenTyped ==
  ASSUME BooksInv, NEW call \in Calls, OpenAnswered(call)
  PROVE  /\ BooksInv' /\ at.step \in Reading /\ at'.step \in Reading /\ at'.rows = at.rows
         /\ \A p \in Order : cust'[p].code = cust[p].code /\ cust'[p].answered = cust[p].answered
                             /\ cust'[p].keys = cust[p].keys
         /\ \A p \in Order : row'[p] = row[p] \/
              /\ row'[p] # None /\ at.rows[p] # None
              /\ row'[p].course = at.rows[p].course /\ row'[p].phase = "open"
<1> DEFINE o == at.on
           f == Opened(cust[o], at.rows[o].task)
<1>0. TypeOK /\ AlarmFits /\ at.step = "open"
  BY DEF BooksInv, OpenAnswered
<1>1. at.step \in Reading /\ o \in Order /\ at.rows[o] # None /\ at.rows[o].task \in Task
  BY <1>0, OnRow
<1>2. cust[o] \in File
  BY <1>0, <1>1, FileTyped
<1>3. f \in File /\ f.code = cust[o].code /\ f.answered = cust[o].answered /\ f.keys = cust[o].keys
  BY <1>1, <1>2, OpenedFile
<1>4. cust' = cust \/ cust' = [cust EXCEPT ![o] = f]
  BY <1>0, <1>1 DEF OpenAnswered, TypeOK
<1> HIDE DEF f
<1>5. /\ cust' \in [Order -> File]
      /\ \A p \in Order : cust'[p].code = cust[p].code /\ cust'[p].answered = cust[p].answered
                             /\ cust'[p].keys = cust[p].keys
  <2>1. CASE cust' = cust
    BY <1>0, <2>1 DEF TypeOK
  <2>2. CASE cust' = [cust EXCEPT ![o] = f]
    <3>1. cust' \in [Order -> File] /\ cust'[o] = f /\ \A p \in Order \ {o} : cust'[p] = cust[p]
      BY <1>0, <1>1, <1>3, <2>2, KeptFile
    <3>2. QED
      BY <1>3, <3>1
  <2>3. QED
    BY <1>4, <2>1, <2>2
<1>6. \/ row' = row /\ at' = [at EXCEPT !.step = "arm"]
      \/ /\ row' = WriteBack(o, "open", "none")
         /\ at' = [at EXCEPT !.step = "produce", !.on = None, !.again = TRUE]
  BY DEF OpenAnswered
<1>7. /\ row' \in Rows
      /\ \A p \in Order : row'[p] = row[p] \/
              /\ row'[p] # None /\ at.rows[p] # None
              /\ row'[p].course = at.rows[p].course /\ row'[p].phase = "open"
  <2>1. CASE row' = row
    BY <1>0, <2>1, ImageParts
  <2>2. CASE row' = WriteBack(o, "open", "none")
    <3>1. /\ row' \in Rows /\ row'[o] # None /\ row'[o].course = at.rows[o].course
          /\ row'[o].phase = "open"
          /\ \A p \in Order \ {o} : row'[p] = row[p]
      BY <1>0, <1>1, <2>2, WrittenBack
    <3>2. QED
      BY <1>1, <3>1
  <2>3. QED
    BY <1>6, <2>1, <2>2
<1>8. /\ at' \in Alarm /\ at'.rows = at.rows /\ at'.todo = at.todo
      /\ \/ at'.step = "arm" /\ at'.on = o
         \/ at'.step = "produce"
  <2>1. CASE at' = [at EXCEPT !.step = "arm"]
    BY <1>0, <2>1 DEF TypeOK, Alarm, Step
  <2>2. CASE at' = [at EXCEPT !.step = "produce", !.on = None, !.again = TRUE]
    BY <1>0, <2>2 DEF TypeOK, Alarm, Step
  <2>3. QED
    BY <1>6, <2>1, <2>2
<1>9. at'.step \in Reading
  BY <1>8 DEF Reading
<1>10. AlarmFits'
  BY <1>1, <1>8, <1>9, AlarmReads
<1>11. /\ ret' = ret /\ saved' = saved /\ alarm' = alarm
       /\ UNCHANGED <<world, course, queued, facts, retiring, config, crashes>>
  BY DEF OpenAnswered
<1>12. ret' \in Retours /\ saved' \in Images /\ alarm' \in BOOLEAN
  BY <1>0, <1>11, ImageParts DEF TypeOK
<1>13. BooksInv'
  BY <1>5, <1>7, <1>8, <1>10, <1>11, <1>12, StepTyped
<1>14. QED
  BY <1>1, <1>5, <1>7, <1>8, <1>9, <1>13

\* An arming: custody holds the code of the row that was read, or keeps what it
\* has; a row is done only once custody has answered its course.
LEMMA ArmTyped ==
  ASSUME BooksInv, NEW call \in Calls, ArmAnswered(call)
  PROVE  /\ BooksInv' /\ at.step \in Reading /\ at'.step \in Reading /\ at'.rows = at.rows
         /\ at.on \in Order /\ at.rows[at.on] # None
         /\ \A p \in Order : cust'[p].keys = cust[p].keys
         /\ \A p \in Order \ {at.on} : cust'[p] = cust[p] /\ row'[p] = row[p]
         /\ LET a == at.rows[at.on].course
            IN  \/ cust'[at.on].code = cust[at.on].code
                   /\ cust'[at.on].answered = cust[at.on].answered
                \/ /\ a \notin cust[at.on].answered /\ cust'[at.on].code = a
                   /\ cust'[at.on].answered = cust[at.on].answered \cup {a}
         /\ row'[at.on] # None /\ row'[at.on].course = at.rows[at.on].course
         /\ row'[at.on].phase = "done" => at.rows[at.on].course \in cust'[at.on].answered
<1> DEFINE o == at.on
           a == at.rows[o].course
           f == Armed(cust[o], a)
           ok == call.heard /\ ArmAccepted(cust[o], a)
<1>0. TypeOK /\ AlarmFits /\ at.step = "arm"
  BY DEF BooksInv, ArmAnswered
<1>1. at.step \in Reading /\ o \in Order /\ at.rows[o] # None /\ a \in CourseId
  BY <1>0, OnRow
<1>2. cust[o] \in File
  BY <1>0, <1>1, FileTyped
<1>3. /\ f \in File /\ f.keys = cust[o].keys
      /\ \/ f.code = cust[o].code /\ f.answered = cust[o].answered
         \/ /\ a \notin cust[o].answered
            /\ f.code = a /\ f.answered = cust[o].answered \cup {a}
      /\ ArmAccepted(cust[o], a) => a \in f.answered
  BY <1>1, <1>2, ArmedFile
<1>4. IF call.processed THEN cust' = [cust EXCEPT ![o] = f] ELSE cust' = cust
  BY <1>0, <1>1 DEF ArmAnswered, TypeOK
<1>5. row' = WriteBack(o, IF ok THEN "done" ELSE "arm", "none")
      /\ at' = [at EXCEPT !.step = "produce", !.on = None, !.again = @ \/ ~ok]
  BY DEF ArmAnswered
<1>6. ok => call.processed /\ a \in f.answered
  BY <1>3 DEF Calls
<1>7. ok \in BOOLEAN
  BY DEF Calls, ArmAccepted
<1> HIDE DEF f, ok
<1>8. /\ cust' \in [Order -> File] /\ \A p \in Order \ {o} : cust'[p] = cust[p]
      /\ cust'[o] = IF call.processed THEN f ELSE cust[o]
  <2>1. CASE call.processed
    BY <1>0, <1>1, <1>3, <1>4, <2>1, KeptFile
  <2>2. CASE ~call.processed
    BY <1>0, <1>4, <2>2 DEF TypeOK
  <2>3. QED
    BY <2>1, <2>2
<1>9. /\ \A p \in Order : cust'[p].keys = cust[p].keys
      /\ \/ cust'[o].code = cust[o].code /\ cust'[o].answered = cust[o].answered
         \/ /\ a \notin cust[o].answered /\ cust'[o].code = a
            /\ cust'[o].answered = cust[o].answered \cup {a}
      /\ ok => a \in cust'[o].answered
  BY <1>3, <1>6, <1>8
<1>10. (IF ok THEN "done" ELSE "arm") \in {"open", "arm", "done"}
  OBVIOUS
<1>11. /\ row' \in Rows /\ row'[o] # None /\ row'[o].course = a
       /\ row'[o].phase = IF ok THEN "done" ELSE "arm"
       /\ \A p \in Order \ {o} : row'[p] = row[p]
  BY <1>0, <1>1, <1>5, <1>10, WrittenBack
<1>12. row'[o].phase = "done" => ok
  BY <1>11
<1>13. at' \in Alarm /\ at'.rows = at.rows /\ at'.todo = at.todo /\ at'.step = "produce"
  BY <1>0, <1>5, <1>7 DEF TypeOK, Alarm, Step
<1>14. at'.step \in Reading
  BY <1>13 DEF Reading
<1>15. AlarmFits'
  BY <1>1, <1>13, <1>14, AlarmReads
<1>16. /\ ret' = ret /\ saved' = saved /\ alarm' = alarm
       /\ UNCHANGED <<world, course, queued, facts, retiring, config, crashes>>
  BY DEF ArmAnswered
<1>17. ret' \in Retours /\ saved' \in Images /\ alarm' \in BOOLEAN
  BY <1>0, <1>16, ImageParts DEF TypeOK
<1>18. BooksInv'
  BY <1>8, <1>11, <1>13, <1>15, <1>16, <1>17, StepTyped
<1>19. QED
  BY <1>1, <1>8, <1>9, <1>11, <1>12, <1>13, <1>14, <1>18

\* The returns are read.
LEMMA ProducedTyped ==
  ASSUME BooksInv, ProduceDone
  PROVE  /\ BooksInv' /\ at'.step = "keys" /\ at'.rets = ret
         /\ saved'.row = row /\ saved'.course = saved.course /\ saved'.ret = saved.ret
<1>0. TypeOK
  BY DEF BooksInv
<1> DEFINE todo == {a \in CourseId : ret[a] # None /\ ret[a].phase = "pending"}
           new == [at EXCEPT !.step = "keys", !.rows = None, !.rets = ret, !.todo = todo]
<1>1. at' = new
  BY DEF ProduceDone
<1>2. ret \in Retours /\ row \in Rows
  BY <1>0, ImageParts
<1>3. new \in Alarm /\ new.step = "keys" /\ new.rets = ret /\ new.todo = todo
  BY <1>0, <1>2 DEF TypeOK, Alarm, Step
<1> HIDE DEF new
<1>4. \A a \in todo : a \in CourseId /\ ret[a] # None
  OBVIOUS
<1> HIDE DEF todo
<1>5. /\ row' = row /\ ret' = ret /\ alarm' = alarm /\ cust' = cust
      /\ UNCHANGED <<world, course, queued, facts, retiring, config, crashes>>
      /\ saved' = [saved EXCEPT !.row = row]
  BY DEF ProduceDone, mem
<1>6. AlarmFits'
  BY <1>1, <1>2, <1>3, <1>4, <1>5 DEF AlarmFits, Reading, Key
<1>7. saved' \in Images /\ saved'.row = row /\ saved'.course = saved.course
      /\ saved'.ret = saved.ret
  BY <1>0, <1>2, <1>5 DEF TypeOK, Images
<1>8. row' \in Rows /\ ret' \in Retours /\ cust' \in [Order -> File] /\ alarm' \in BOOLEAN
      /\ at' \in Alarm
  BY <1>0, <1>1, <1>2, <1>3, <1>5 DEF TypeOK
<1>9. BooksInv'
  BY <1>5, <1>6, <1>7, <1>8, StepTyped
<1>10. QED
  BY <1>1, <1>3, <1>7, <1>9

\* The alarm's place moves on among the returns.
LEMMA AlarmArms ==
  ASSUME BooksInv, at.step \in Arming, at'.step \in Arming, at'.rets = at.rets, ReturnsStay,
         at'.todo \subseteq at.todo,
         at'.step \in Key => \/ at.step \in Key /\ at'.on = at.on
                             \/ at'.on \in at.todo
  PROVE  AlarmFits'
<1>1. at.rets \in Retours /\ \A a \in at.todo : a \in CourseId /\ at.rets[a] # None /\ ret[a] # None
  BY DEF BooksInv, AlarmFits
<1>2. at.step \in Key => at.on \in CourseId /\ at.rets[at.on] # None /\ ret[at.on] # None
  BY DEF BooksInv, AlarmFits
<1>3. \A a \in at'.todo : a \in CourseId /\ at'.rets[a] # None /\ ret'[a] # None
  BY <1>1 DEF ReturnsStay
<1>4. at'.step \in Key => at'.on \in CourseId /\ at'.rets[at'.on] # None /\ ret'[at'.on] # None
  BY <1>1, <1>2 DEF ReturnsStay
<1>5. at'.step \notin Reading
  BY DEF Reading, Arming
<1>6. at'.step \notin {"open", "arm"}
  BY DEF Arming
<1>7. QED
  BY <1>1, <1>3, <1>4, <1>5, <1>6 DEF AlarmFits

\* The alarm takes a return up: with the keys it read of it.
LEMMA KeysBeginTyped ==
  ASSUME BooksInv, NEW a \in CourseId, KeysBegin(a)
  PROVE  /\ BooksInv' /\ at.step \in Arming /\ at'.step = "rider" /\ at'.rets = at.rets
         /\ at'.on = a /\ at.rets[a] # None /\ at'.armed = at.rets[a].armed
<1>0. TypeOK /\ AlarmFits /\ at.step = "keys" /\ a \in at.todo
  BY DEF BooksInv, KeysBegin
<1>1. at.step \in Arming /\ at.rets \in Retours /\ at.rets[a] # None
  BY <1>0 DEF AlarmFits, Arming
<1>2. at.rets[a] \in RetourRow
  BY <1>1 DEF Retours
<1> DEFINE left == at.rets[a].orders \ at.rets[a].armed
           new == [at EXCEPT !.step = "rider", !.on = a, !.todo = @ \ {a},
                      !.left = left, !.armed = at.rets[a].armed]
<1>3. at' = new
  BY DEF KeysBegin
<1>4. left \subseteq Order /\ at.rets[a].armed \subseteq Order
  BY <1>2 DEF RetourRow
<1> HIDE DEF left
<1>5. /\ new \in Alarm /\ new.step = "rider" /\ new.rets = at.rets /\ new.on = a
      /\ new.todo = at.todo \ {a} /\ new.armed = at.rets[a].armed
  BY <1>0, <1>4 DEF TypeOK, Alarm, Step
<1> HIDE DEF new
<1>6. /\ row' = row /\ ret' = ret /\ saved' = saved /\ alarm' = alarm /\ cust' = cust
      /\ UNCHANGED <<world, course, queued, facts, retiring, config, crashes>>
  BY DEF KeysBegin, mem
<1>7. AlarmFits'
  <2>1. at'.step \in Arming /\ ReturnsStay
    BY <1>3, <1>5, <1>6 DEF Arming, ReturnsStay
  <2>2. QED
    BY <1>0, <1>1, <1>3, <1>5, <2>1, AlarmArms
<1>8. row' \in Rows /\ ret' \in Retours /\ saved' \in Images /\ cust' \in [Order -> File]
      /\ alarm' \in BOOLEAN /\ at' \in Alarm
  BY <1>0, <1>3, <1>5, <1>6, ImageParts DEF TypeOK
<1>9. BooksInv'
  BY <1>6, <1>7, <1>8, StepTyped
<1>10. QED
  BY <1>1, <1>3, <1>5, <1>9

\* Without its key the binding lets a return rest.
LEMMA KeysRestTyped ==
  ASSUME BooksInv, NEW a \in CourseId, KeysRest(a)
  PROVE  BooksInv' /\ at.step = "keys" /\ at'.step = "keys" /\ at'.rets = at.rets
<1>0. TypeOK /\ AlarmFits /\ at.step = "keys"
  BY DEF BooksInv, KeysRest
<1> DEFINE new == [at EXCEPT !.todo = @ \ {a}]
<1>1. at' = new
  BY DEF KeysRest
<1>2. /\ new \in Alarm /\ new.step = "keys" /\ new.rets = at.rets /\ new.todo = at.todo \ {a}
  BY <1>0 DEF TypeOK, Alarm, Step
<1> HIDE DEF new
<1>3. /\ row' = row /\ ret' = ret /\ saved' = saved /\ alarm' = alarm /\ cust' = cust
      /\ UNCHANGED <<world, course, queued, facts, retiring, config, crashes>>
  BY DEF KeysRest, mem
<1>4. AlarmFits'
  <2>1. at'.step \in Arming /\ at.step \in Arming /\ ReturnsStay /\ at'.step \notin Key
    BY <1>0, <1>1, <1>2, <1>3 DEF Arming, ReturnsStay, Key
  <2>2. QED
    BY <1>1, <1>2, <2>1, AlarmArms
<1>5. row' \in Rows /\ ret' \in Retours /\ saved' \in Images /\ cust' \in [Order -> File]
      /\ alarm' \in BOOLEAN /\ at' \in Alarm
  BY <1>0, <1>1, <1>2, <1>3, ImageParts DEF TypeOK
<1>6. BooksInv'
  BY <1>3, <1>4, <1>5, StepTyped
<1>7. QED
  BY <1>0, <1>1, <1>2, <1>6

\* One key of one order is armed, or not: an order joins those armed with both.
LEMMA KeyTyped ==
  ASSUME BooksInv, NEW o \in Order, NEW call \in Calls, KeyAnswered(o, call)
  PROVE  /\ BooksInv' /\ at.step \in Key /\ at'.step \in Key /\ at'.rets = at.rets
         /\ at'.on = at.on /\ at.on \in CourseId /\ o \in at.left
         /\ \A p \in Order : /\ cust'[p].code = cust[p].code
                             /\ cust'[p].answered = cust[p].answered
                             /\ cust[p].keys \subseteq cust'[p].keys
         /\ call.heard => <<at.on, at.step>> \in cust'[o].keys
         /\ \/ at'.step = "rider" /\ at'.armed = at.armed
            \/ /\ call.heard /\ at.step = "rider" /\ at'.step = "seller"
               /\ at'.left = {o} /\ at'.armed = at.armed
            \/ /\ call.heard /\ at.step = "seller" /\ at'.step = "rider"
               /\ at'.armed = at.armed \cup {o}
<1>0. TypeOK /\ AlarmFits /\ at.step \in Key /\ o \in at.left
  BY DEF BooksInv, KeyAnswered
<1>1. at.on \in CourseId /\ at.rets[at.on] # None /\ at.rets \in Retours /\ at.step \in Arming
  BY <1>0 DEF AlarmFits, Arming, Key
<1>2. at.rets[at.on] \in RetourRow
  BY <1>1 DEF Retours
<1>3. at.rets[at.on].orders \subseteq Order
  BY <1>2 DEF RetourRow
<1> DEFINE f == [cust[o] EXCEPT !.keys = @ \cup {<<at.on, at.step>>}]
<1>4. cust[o] \in File
  BY <1>0, FileTyped
<1>5. /\ f \in File /\ f.code = cust[o].code /\ f.answered = cust[o].answered
      /\ f.keys = cust[o].keys \cup {<<at.on, at.step>>}
  BY <1>0, <1>1, <1>4 DEF File
<1>6. IF call.processed THEN cust' = [cust EXCEPT ![o] = f] ELSE cust' = cust
  BY <1>0 DEF KeyAnswered, KeyArmed, TypeOK
<1> HIDE DEF f
<1>7. /\ cust' \in [Order -> File]
      /\ \A p \in Order : /\ cust'[p].code = cust[p].code
                          /\ cust'[p].answered = cust[p].answered
                          /\ cust[p].keys \subseteq cust'[p].keys
      /\ call.processed => <<at.on, at.step>> \in cust'[o].keys
  <2>1. CASE call.processed
    <3>1. cust' \in [Order -> File] /\ cust'[o] = f /\ \A p \in Order \ {o} : cust'[p] = cust[p]
      BY <1>0, <1>5, <1>6, <2>1, KeptFile
    <3>2. QED
      BY <1>5, <3>1
  <2>2. CASE ~call.processed
    BY <1>0, <1>6, <2>2 DEF TypeOK
  <2>3. QED
    BY <2>1, <2>2
<1>8. call.heard => call.processed
  BY DEF Calls
<1>9. /\ at' \in Alarm /\ at'.rets = at.rets /\ at'.on = at.on /\ at'.todo = at.todo
      /\ \/ at'.step = "rider" /\ at'.armed = at.armed
         \/ /\ call.heard /\ at.step = "rider" /\ at'.step = "seller"
            /\ at'.left = {o} /\ at'.armed = at.armed
         \/ /\ call.heard /\ at.step = "seller" /\ at'.step = "rider"
            /\ at'.armed = at.armed \cup {o}
  <2>1. CASE ~call.heard
    <3>1. at' = [at EXCEPT !.step = "rider", !.left = {}]
      BY <2>1 DEF KeyAnswered
    <3>2. QED
      BY <1>0, <3>1 DEF TypeOK, Alarm, Step
  <2>2. CASE call.heard /\ at.step = "rider"
    <3>1. at' = [at EXCEPT !.step = "seller", !.left = {o}]
      BY <2>2 DEF KeyAnswered
    <3>2. QED
      BY <1>0, <2>2, <3>1 DEF TypeOK, Alarm, Step
  <2>3. CASE call.heard /\ at.step = "seller"
    <3> DEFINE left == (at.rets[at.on].orders \ at.armed) \ {o}
    <3>1. at' = [at EXCEPT !.step = "rider", !.armed = @ \cup {o}, !.left = left]
      BY <2>3 DEF KeyAnswered
    <3>2. left \subseteq Order
      BY <1>3
    <3> HIDE DEF left
    <3>3. QED
      BY <1>0, <2>3, <3>1, <3>2 DEF TypeOK, Alarm, Step
  <2>4. QED
    BY <1>0, <2>1, <2>2, <2>3 DEF Key
<1>10. /\ row' = row /\ ret' = ret /\ saved' = saved /\ alarm' = alarm
       /\ UNCHANGED <<world, course, queued, facts, retiring, config, crashes>>
  BY DEF KeyAnswered, mem
<1>11. at'.step \in Key /\ at'.step \in Arming
  BY <1>9 DEF Key, Arming
<1>12. AlarmFits'
  <2>1. ReturnsStay
    BY <1>10 DEF ReturnsStay
  <2>2. QED
    BY <1>0, <1>1, <1>9, <1>11, <2>1, AlarmArms
<1>13. row' \in Rows /\ ret' \in Retours /\ saved' \in Images /\ alarm' \in BOOLEAN
  BY <1>0, <1>10, ImageParts DEF TypeOK
<1>14. BooksInv'
  BY <1>7, <1>9, <1>10, <1>12, <1>13, StepTyped
<1>15. QED
  BY <1>0, <1>1, <1>7, <1>8, <1>9, <1>11, <1>14

\* What the flush found out is merged onto the return as it is now.
LEMMA WrittenTyped ==
  ASSUME BooksInv, KeysWritten
  PROVE  /\ BooksInv' /\ at.step \in Key /\ at'.step = "keys" /\ at'.rets = at.rets
         /\ at.on \in CourseId /\ ret[at.on] # None /\ ret'[at.on] # None
         /\ ret'[at.on].orders = ret[at.on].orders
         /\ ret'[at.on].confirmed = ret[at.on].confirmed
         /\ ret'[at.on].armed = at.armed
         /\ ret'[at.on].phase = "done" => ret'[at.on].orders \subseteq at.armed
         /\ \A b \in CourseId \ {at.on} : ret'[b] = ret[b]
<1> DEFINE a == at.on
           new == Merged(a)
           next == [at EXCEPT !.step = "keys", !.on = None, !.armed = {},
                      !.again = @ \/ Merged(a).phase = "pending"]
<1>0. TypeOK /\ AlarmFits /\ at.step \in Key /\ at.step \in Arming
  BY DEF BooksInv, KeysWritten, Key, Arming
<1>1. a \in CourseId /\ ret[a] # None /\ ret \in Retours
  BY <1>0, ImageParts DEF AlarmFits
<1>2. ret[a] \in RetourRow
  BY <1>1 DEF Retours
<1>3. /\ new \in RetourRow /\ new.orders = ret[a].orders /\ new.confirmed = ret[a].confirmed
      /\ new.armed = at.armed
      /\ new.phase = "done" => new.orders \subseteq at.armed
  <2>1. at.armed \subseteq Order
    BY <1>0, AlarmParts
  <2>2. QED
    BY <1>2, <2>1 DEF Merged, RetourRow
<1>4. ret' = [ret EXCEPT ![a] = new] /\ at' = next
  BY DEF KeysWritten
<1> HIDE DEF new
<1>5. ret'[a] = new /\ new # None /\ ret' \in Retours /\ \A b \in CourseId \ {a} : ret'[b] = ret[b]
  <2>1. new # None
    BY <1>3, NoneAssumption
  <2>2. QED
    BY <1>1, <1>3, <1>4, <2>1 DEF Retours
<1>6. next \in Alarm /\ next.step = "keys" /\ next.rets = at.rets /\ next.todo = at.todo
  <2>1. (at.again \/ Merged(a).phase = "pending") \in BOOLEAN
    OBVIOUS
  <2>2. at \in Alarm
    BY <1>0 DEF TypeOK
  <2> DEFINE again == at.again \/ Merged(a).phase = "pending"
  <2>3. next = [at EXCEPT !.step = "keys", !.on = None, !.armed = {}, !.again = again]
    BY <2>2 DEF Alarm
  <2>4. again \in BOOLEAN
    BY <2>1
  <2> HIDE DEF again, next
  <2>5. QED
    BY <2>2, <2>3, <2>4 DEF Alarm, Step
<1> HIDE DEF next
<1>7. /\ row' = row /\ saved' = saved /\ alarm' = alarm /\ cust' = cust
      /\ UNCHANGED <<world, course, queued, facts, retiring, config, crashes>>
  BY DEF KeysWritten
<1>8. AlarmFits'
  <2>1. at'.step \in Arming /\ at'.step \notin Key /\ ReturnsStay
    BY <1>1, <1>4, <1>5, <1>6 DEF Arming, Key, ReturnsStay
  <2>2. QED
    BY <1>0, <1>4, <1>6, <2>1, AlarmArms
<1>9. row' \in Rows /\ saved' \in Images /\ cust' \in [Order -> File] /\ alarm' \in BOOLEAN
      /\ at' \in Alarm
  BY <1>0, <1>4, <1>6, <1>7, ImageParts DEF TypeOK
<1>10. BooksInv'
  BY <1>5, <1>7, <1>8, <1>9, StepTyped
<1>11. QED
  BY <1>0, <1>1, <1>3, <1>4, <1>5, <1>6, <1>10

\* The alarm ends: the returns are stored.
LEMMA EndsTyped ==
  ASSUME BooksInv, AlarmEnds
  PROVE  /\ BooksInv' /\ at'.step = "idle"
         /\ saved'.ret = ret /\ saved'.row = saved.row /\ saved'.course = saved.course
<1>0. TypeOK
  BY DEF BooksInv
<1>1. /\ row' = row /\ ret' = ret /\ cust' = cust
      /\ UNCHANGED <<world, course, queued, facts, retiring, config, crashes>>
      /\ saved' = [saved EXCEPT !.ret = ret] /\ at' = Idle /\ alarm' \in BOOLEAN
  BY DEF AlarmEnds, mem
<1>2. ret \in Retours
  BY <1>0, ImageParts
<1>3. saved' \in Images /\ saved'.ret = ret /\ saved'.row = saved.row
      /\ saved'.course = saved.course
  BY <1>0, <1>1, <1>2 DEF TypeOK, Images
<1>4. at' \in Alarm /\ at'.step = "idle" /\ AlarmFits'
  BY <1>1, IdleTyped, AlarmRests
<1>5. row' \in Rows /\ ret' \in Retours /\ cust' \in [Order -> File]
  BY <1>0, <1>1, ImageParts DEF TypeOK
<1>6. QED
  BY <1>1, <1>3, <1>4, <1>5, StepTyped

\* A restart: memory is what storage held.
LEMMA ReloadTyped ==
  ASSUME BooksInv, Crash \/ SetConfig
  PROVE  /\ BooksInv' /\ at'.step = "idle" /\ saved' = saved /\ cust' = cust
         /\ course' = saved.course /\ row' = saved.row /\ ret' = saved.ret
<1>0. TypeOK
  BY DEF BooksInv
<1>1. Reload
  BY DEF Crash, SetConfig
<1>2. /\ course' = saved.course /\ queued' = saved.queued /\ facts' = saved.facts
      /\ row' = saved.row /\ ret' = saved.ret /\ retiring' = None
      /\ alarm' \in BOOLEAN /\ at' = Idle /\ UNCHANGED <<world, saved, cust>>
  BY <1>1 DEF Reload
<1>3. config' \in BOOLEAN
  BY <1>0 DEF Crash, SetConfig, TypeOK
<1>4. crashes' \in 0..world'.crashes
  <2>1. world.crashes \in Nat /\ crashes \in 0..world.crashes /\ world' = world
    BY <1>0, <1>2, WorldsAssumption DEF TypeOK
  <2>2. crashes' = crashes \/ (crashes < world.crashes /\ crashes' = crashes + 1)
    BY DEF Crash, SetConfig
  <2>3. QED
    BY <2>1, <2>2
<1>5. Image' \in Images
  BY <1>0, <1>2, ImageParts, ImageTyped
<1>6. at'.step = "idle" /\ at' \in Alarm /\ AlarmFits'
  BY <1>2, IdleTyped, AlarmRests
<1>7. TypeOK'
  BY <1>0, <1>2, <1>3, <1>4, <1>5, <1>6 DEF TypeOK
<1>8. QED
  BY <1>2, <1>6, <1>7 DEF BooksInv

-----------------------------------------------------------------------------
(* The books stand.                                                        *)

\* Courses under way at the start have tasks, of orders.
LEMMA TasksOfTheDeparted ==
  ASSUME world \in Worlds
  PROVE  /\ DepartedTask \in [Departed -> Task] /\ Departed \subseteq CourseId
         /\ \A a \in Departed : world.departed[a] \subseteq Order
<1>1. \E f \in [Departed -> Task] : \A a, b \in Departed : f[a] = f[b] => a = b
  BY WorldsAssumption DEF Departed
<1>2. Departed \subseteq CourseId /\ \A a \in Departed : world.departed[a] \subseteq Order
  BY WorldsAssumption DEF Departed
<1>3. QED
  BY <1>1, <1>2 DEF DepartedTask

\* At the start a course whose rider has his packages, and only such a course,
\* is in the book and has its code on custody.
LEMMA AtTheStart ==
  ASSUME Init
  PROVE  /\ course \in Courses /\ row \in Rows /\ cust \in [Order -> File]
         /\ \A a \in CourseId : course[a] # None <=> a \in Departed
         /\ \A o \in Order : row[o] # None =>
              /\ row[o].course \in Departed /\ cust[o].code = row[o].course
              /\ cust[o].answered = {row[o].course}
         /\ \A o \in Order : row[o] = None => cust[o].answered = {}
<1>1. world \in Worlds
  BY DEF Init
<1>2. /\ DepartedTask \in [Departed -> Task] /\ Departed \subseteq CourseId
      /\ \A a \in Departed : world.departed[a] \subseteq Order
  BY <1>1, TasksOfTheDeparted
<1>3. course \in Courses /\ \A a \in CourseId : course[a] # None <=> a \in Departed
  <2>1. \A a \in Departed : [orders |-> world.departed[a], task |-> DepartedTask[a], live |-> TRUE]
            \in CourseRecord
    BY <1>2 DEF CourseRecord
  <2>2. course = [a \in CourseId |-> IF a \in Departed
          THEN [orders |-> world.departed[a], task |-> DepartedTask[a], live |-> TRUE]
          ELSE None]
    BY DEF Init
  <2>3. course \in Courses
    BY <2>1, <2>2 DEF Courses
  <2>4. \A a \in CourseId : a \in Departed => course[a] \in CourseRecord
    BY <2>1, <2>2
  <2>5. \A a \in CourseId : a \notin Departed => course[a] = None
    BY <2>2
  <2>6. QED
    BY <2>3, <2>4, <2>5, NoneAssumption
<1> DEFINE first(o) == CHOOSE x \in CarrierAtStart(o) : TRUE
           r(o) == [phase |-> "done", rest |-> "none", task |-> DepartedTask[first(o)],
                    course |-> first(o), supplier |-> TRUE]
           armed(o) == [task |-> DepartedTask[first(o)], code |-> first(o), spent |-> TRUE,
                    answered |-> {first(o)}, refused |-> {}, keys |-> {}]
           blank == [task |-> None, code |-> None, spent |-> FALSE, answered |-> {},
                     refused |-> {}, keys |-> {}]
<1>4. \A o \in Order : CarrierAtStart(o) # {} => first(o) \in Departed
  BY DEF CarrierAtStart
<1>5. row = [o \in Order |-> IF CarrierAtStart(o) = {} THEN None ELSE r(o)]
  BY DEF Init
<1>6. cust = [o \in Order |-> IF CarrierAtStart(o) = {} THEN blank ELSE armed(o)]
  BY DEF Init
<1> HIDE DEF first
<1>7. \A o \in Order : CarrierAtStart(o) # {} =>
        r(o) \in Row /\ r(o).course = first(o) /\ armed(o) \in File
        /\ armed(o).code = first(o) /\ armed(o).answered = {first(o)}
  BY <1>2, <1>4 DEF Row, File
<1>8. blank \in File /\ blank.answered = {}
  BY DEF File
<1> HIDE DEF r, armed, blank
<1>9. \A o \in Order : CarrierAtStart(o) # {} => r(o) # None
  BY <1>7, NoneAssumption
<1>10. row \in Rows
  BY <1>5, <1>7 DEF Rows
<1>11. cust \in [Order -> File]
  BY <1>6, <1>7, <1>8
<1>12. \A o \in Order : row[o] # None =>
          row[o] = r(o) /\ cust[o] = armed(o) /\ CarrierAtStart(o) # {}
  BY <1>5, <1>6
<1>13. \A o \in Order : row[o] = None => cust[o] = blank
  BY <1>5, <1>6, <1>9
<1>14. QED
  BY <1>3, <1>4, <1>7, <1>8, <1>10, <1>11, <1>12, <1>13

\* The books stand at the start.
LEMMA InitBooks == Init => BooksInv
<1> SUFFICES ASSUME Init PROVE BooksInv
  OBVIOUS
<1>1. course \in Courses /\ row \in Rows /\ cust \in [Order -> File]
  BY AtTheStart
<1>2. /\ world \in Worlds /\ queued = {} /\ ret = [a \in CourseId |-> None]
      /\ facts = [o \in Order |-> IF o \in world.supplied THEN "supplied" ELSE "ready"]
      /\ retiring = None /\ alarm = FALSE /\ at = Idle
      /\ config = world.configured /\ crashes = 0 /\ saved = Image
  BY DEF Init
<1>3. queued \in SUBSET [task : Task, orders : SUBSET Order] /\ facts \in [Order -> Fact]
  BY <1>2 DEF Fact
<1>4. ret \in Retours
  BY <1>2 DEF Retours
<1>5. Image \in Images
  BY <1>1, <1>3, <1>4 DEF Images, Image
<1>6. world.configured \in BOOLEAN /\ world.crashes \in Nat
  BY <1>2, WorldsAssumption
<1>7. at \in Alarm /\ at.step = "idle"
  BY <1>2, IdleTyped
<1>8. TypeOK
  <2>1. crashes \in 0..world.crashes
    BY <1>2, <1>6
  <2>2. config \in BOOLEAN /\ alarm \in BOOLEAN
    BY <1>2, <1>6
  <2>3. saved \in Images /\ retiring \in Retiring \cup {None}
    BY <1>2, <1>5
  <2>4. QED
    BY <1>1, <1>2, <1>5, <1>7, <2>1, <2>2, <2>3 DEF TypeOK
<1>9. AlarmFits
  BY <1>7 DEF AlarmFits, Reading, Arming, Key
<1>10. QED
  BY <1>8, <1>9 DEF BooksInv

\* One case for each action.
LEMMA StepCases ==
  ASSUME TypeOK, Next
  PROVE  \/ \E a \in CourseId, t \in Task, os \in world.voyages : Assign(a, t, os)
         \/ \E a \in CourseId : Requeue(a) \/ TakeBack(a)
         \/ \E a \in CourseId : (\E o \in Order : ReturnOpened(o, a)) \/ ReturnConfirmed(a)
         \/ \E o \in Order : NameSupplier(o)
         \/ \E o \in Order : RetireBegins(o)
         \/ RetireEnds
         \/ \E a \in CourseId, o \in Order : PickupVerified(a, o)
         \/ Board
         \/ \E call \in Calls : OpenAnswered(call)
         \/ \E call \in Calls : ArmAnswered(call)
         \/ \E call \in Calls, o \in Order : KeyAnswered(o, call)
         \/ AlarmStarts \/ ProduceDone \/ KeysWritten \/ AlarmEnds
         \/ \E o \in Order : ProduceRests(o)
         \/ \E o \in Order : ProduceSends(o)
         \/ \E a \in CourseId : KeysBegin(a)
         \/ \E a \in CourseId : KeysRest(a)
         \/ Crash \/ SetConfig
<1>1. CASE Request
  <2>1. UNION world.voyages \subseteq Order
    BY AVoyage
  <2>2. QED
    BY <1>1, <2>1 DEF Request
<1>2. CASE Pickup \/ Board \/ Crash \/ SetConfig
  BY <1>2 DEF Pickup
<1>3. CASE Answered
  BY <1>3 DEF Answered
<1>4. CASE AlarmMoves
  BY <1>4 DEF AlarmMoves
<1>5. QED
  BY <1>1, <1>2, <1>3, <1>4 DEF Next

\* And after every step.
LEMMA NextBooks == BooksInv /\ [Next]_vars => BooksInv'
<1> SUFFICES ASSUME BooksInv, [Next]_vars PROVE BooksInv'
  OBVIOUS
<1>0. TypeOK
  BY DEF BooksInv
<1>1. CASE UNCHANGED vars
  <2>1. UNCHANGED <<world, course, queued, facts, row, ret, retiring, saved, alarm, at, cust,
                    config, crashes>>
    BY <1>1 DEF vars, mem
  <2>2. QED
    BY <2>1 DEF BooksInv, TypeOK, AlarmFits, Image
<1>2. CASE Next
  BY <1>0, <1>2, StepCases, AssignTyped, EndTyped, ReturnTyped, NameSupplierTyped,
     RetireBeginsTyped, RetireEndsTyped, PickupTyped, BoardTyped, OpenTyped, ArmTyped, KeyTyped,
     AlarmStarted, ProducedTyped, WrittenTyped, EndsTyped, RestsTyped, SendsTyped,
     KeysBeginTyped, KeysRestTyped, ReloadTyped
<1>3. QED
  BY <1>1, <1>2

\* The books stay well typed, and the alarm's place in them exists: what it
\* read before it waited on custody is there when it writes.
THEOREM WiresStand == Spec => []BooksInv
<1>1. QED
  BY InitBooks, NextBooks, PTL DEF Spec

-----------------------------------------------------------------------------
(* The code on the rider's phone.                                          *)

Carried(b, a, o) == b[a] # None /\ b[a].live /\ o \in b[a].orders

\* A course is under way, in memory or in what a restart would bring back.
Carries(a, o) == Carried(course, a, o) \/ Carried(saved.course, a, o)

\* An order's row as the running alarm has read it.
Read(o) == IF at.step \in Reading THEN at.rows[o] ELSE None
RowsOf(o) == {row[o], saved.row[o], Read(o)}

Its(r, a) == r # None /\ r.course = a
OnlyIts(r, a) == r # None => r.course = a

SameCourses == \A a \in CourseId : course[a] = None <=> saved.course[a] = None

\* A row names a course of the book; so does all that custody has answered.
KnownAt(o) ==
    /\ \A r \in RowsOf(o) : r # None => r.course \in CourseId /\ course[r.course] # None
    /\ \A a \in cust[o].answered : a \in CourseId /\ course[a] # None

\* A row is done only once custody has answered its course.
DoneAt(o) ==
    \A r \in RowsOf(o) : r # None /\ r.phase = "done" => r.course \in cust[o].answered

\* A course under way that custody has answered has its code there, and no row,
\* in memory, stored or read, is left that could send another course's.
CodeAt(o) ==
    \A a \in CourseId : Carries(a, o) /\ a \in cust[o].answered =>
        cust[o].code = a /\ \A r \in RowsOf(o) : OnlyIts(r, a)

\* A course under way whose row is in memory has no other's in storage; one
\* whose row the alarm has read has no other's in either.
RowAt(o) ==
    \A a \in CourseId : Carries(a, o) =>
        /\ Its(row[o], a) => OnlyIts(saved.row[o], a)
        /\ Its(Read(o), a) => OnlyIts(row[o], a) /\ OnlyIts(saved.row[o], a)

CodeInvAt(o) == KnownAt(o) /\ DoneAt(o) /\ CodeAt(o) /\ RowAt(o)
CodeInv == SameCourses /\ \A o \in Order : CodeInvAt(o)

\* A row that is another, or nothing, and no further on its road.
Follows(new, old) ==
    new # None => /\ old # None /\ new.course = old.course
                  /\ new.phase = "done" => old.phase = "done"

\* How an order's three rows move in a step.
Keeps(o) == Follows(row'[o], row[o]) /\ Follows(saved'.row[o], saved.row[o])
            /\ Follows(Read(o)', Read(o))
Saves(o) == Follows(row'[o], row[o]) /\ Follows(saved'.row[o], row[o])
            /\ Follows(Read(o)', Read(o))
Reads(o) == Follows(row'[o], row[o]) /\ Follows(saved'.row[o], saved.row[o])
            /\ Follows(Read(o)', row[o])
Writes(o) == Follows(row'[o], Read(o)) /\ Follows(saved'.row[o], saved.row[o])
             /\ Follows(Read(o)', Read(o))
Reloads(o) == Follows(row'[o], saved.row[o]) /\ Follows(saved'.row[o], saved.row[o])
              /\ Read(o)' = None
RowsMove(o) == Keeps(o) \/ Saves(o) \/ Reads(o) \/ Writes(o) \/ Reloads(o)

\* No course is forgotten, and none is under way that was not.
CoursesFade(o) ==
    /\ \A a \in CourseId : course[a] # None => course'[a] # None
    /\ \A a \in CourseId : Carries(a, o)' => Carries(a, o)

\* Custody's code stays, with what it has answered.
CodeStays(o) == cust'[o].code = cust[o].code /\ cust'[o].answered = cust[o].answered

\* A row that stays follows itself.
LEMMA FollowsItself == \A r : Follows(r, r)
BY DEF Follows

\* Every row after such a step follows one before it.
LEMMA RowsFollow ==
  ASSUME NEW o \in Order, RowsMove(o)
  PROVE  \A r \in RowsOf(o)' : r # None => \E s \in RowsOf(o) : Follows(r, s)
<1>1. RowsOf(o)' = {row'[o], saved'.row[o], Read(o)'}
  BY DEF RowsOf
<1>2. QED
  BY <1>1 DEF RowsOf, RowsMove, Keeps, Saves, Reads, Writes, Reloads

\* When an order's rows move so, no course comes back for it and custody's code
\* stays, its rows agree as they did.
LEMMA RowsMoved ==
  ASSUME NEW o \in Order, CodeInvAt(o), RowsMove(o), CoursesFade(o), CodeStays(o)
  PROVE  CodeInvAt(o)'
<1>1. \A r \in RowsOf(o)' : r # None => \E s \in RowsOf(o) : Follows(r, s)
  BY RowsFollow
<1>2. \A r \in RowsOf(o)' : r # None =>
        \E s \in RowsOf(o) : /\ s # None /\ r.course = s.course
                             /\ r.phase = "done" => s.phase = "done"
  BY <1>1 DEF Follows
<1>3. KnownAt(o)'
  <2>1. /\ \A r \in RowsOf(o) : r # None => r.course \in CourseId /\ course[r.course] # None
        /\ \A a \in cust[o].answered : a \in CourseId /\ course[a] # None
    BY DEF CodeInvAt, KnownAt
  <2>2. \A r \in RowsOf(o)' : r # None => r.course \in CourseId /\ course'[r.course] # None
    BY <1>2, <2>1 DEF CoursesFade
  <2>3. \A a \in cust'[o].answered : a \in CourseId /\ course'[a] # None
    BY <2>1 DEF CoursesFade, CodeStays
  <2>4. QED
    BY <2>2, <2>3 DEF KnownAt
<1>4. DoneAt(o)'
  <2>1. \A r \in RowsOf(o) : r # None /\ r.phase = "done" => r.course \in cust[o].answered
    BY DEF CodeInvAt, DoneAt
  <2>2. \A r \in RowsOf(o)' : r # None /\ r.phase = "done" => r.course \in cust'[o].answered
    BY <1>2, <2>1 DEF CodeStays
  <2>3. QED
    BY <2>2 DEF DoneAt
<1>5. CodeAt(o)'
  <2> SUFFICES ASSUME NEW a \in CourseId, Carries(a, o)', a \in cust'[o].answered
               PROVE  cust'[o].code = a /\ \A r \in RowsOf(o)' : OnlyIts(r, a)
    BY DEF CodeAt
  <2>1. cust[o].code = a /\ \A r \in RowsOf(o) : OnlyIts(r, a)
    BY DEF CodeInvAt, CodeAt, CoursesFade, CodeStays
  <2>2. QED
    BY <1>2, <2>1 DEF OnlyIts, CodeStays
<1>6. RowAt(o)'
  <2> SUFFICES ASSUME NEW a \in CourseId, Carries(a, o)'
               PROVE  /\ Its(row'[o], a) => OnlyIts(saved'.row[o], a)
                      /\ Its(Read(o)', a) => OnlyIts(row'[o], a) /\ OnlyIts(saved'.row[o], a)
    BY DEF RowAt
  <2>1. /\ Its(row[o], a) => OnlyIts(saved.row[o], a)
        /\ Its(Read(o), a) => OnlyIts(row[o], a) /\ OnlyIts(saved.row[o], a)
    BY DEF CodeInvAt, RowAt, CoursesFade
  <2>2. CASE Keeps(o)
    BY <2>1, <2>2 DEF Keeps, Follows, Its, OnlyIts
  <2>3. CASE Saves(o)
    BY <2>1, <2>3 DEF Saves, Follows, Its, OnlyIts
  <2>4. CASE Reads(o)
    BY <2>1, <2>4 DEF Reads, Follows, Its, OnlyIts
  <2>5. CASE Writes(o)
    BY <2>1, <2>5 DEF Writes, Follows, Its, OnlyIts
  <2>6. CASE Reloads(o)
    BY <2>1, <2>6 DEF Reloads, Follows, Its, OnlyIts
  <2>7. QED
    BY <2>2, <2>3, <2>4, <2>5, <2>6 DEF RowsMove
<1>7. QED
  BY <1>3, <1>4, <1>5, <1>6 DEF CodeInvAt

\* The alarm waits: what it has read stays.
LEMMA ReadStays ==
  ASSUME NEW o, at' = at
  PROVE  Read(o)' = Read(o)
BY DEF Read

\* A request that ends persists rows that are those it found, or fewer.
LEMMA PersistMoves ==
  ASSUME NEW o \in Order, at' = at, saved' = Image', Follows(row'[o], row[o])
  PROVE  RowsMove(o)
<1>1. saved'.row = row'
  BY DEF Image
<1>2. Read(o)' = Read(o)
  BY ReadStays
<1>3. QED
  BY <1>1, <1>2, FollowsItself DEF RowsMove, Saves

\* Nothing is written of an order's rows but, perhaps, by the alarm.
LEMMA StillMoves ==
  ASSUME NEW o \in Order, row'[o] = row[o], saved' = saved, Read(o)' = Read(o)
  PROVE  RowsMove(o)
BY FollowsItself DEF RowsMove, Keeps

\* The books of courses stay.
LEMMA CoursesStay ==
  ASSUME NEW o \in Order, course' = course,
         saved'.course = saved.course \/ saved'.course = course'
  PROVE  CoursesFade(o)
BY DEF CoursesFade, Carries, Carried

\* Courses end, and the book is persisted or not.
LEMMA CoursesEnd ==
  ASSUME NEW o \in Order, saved'.course = saved.course \/ saved'.course = course',
         \A a \in CourseId : course[a] # None => course'[a] # None,
         \A a \in CourseId : Carried(course', a, o) => Carried(course, a, o)
  PROVE  CoursesFade(o)
BY DEF CoursesFade, Carries

\* Memory and storage know the same courses while none is forgotten.
LEMMA SameCoursesKept ==
  ASSUME SameCourses,
         \A a \in CourseId : course'[a] = None <=> course[a] = None,
         saved'.course = saved.course \/ saved'.course = course'
  PROVE  SameCourses'
BY DEF SameCourses

\* A step that leaves the courses, custody's codes and storage, and moves rows.
LEMMA CodeCalm ==
  ASSUME CodeInv, course' = course, saved'.course = saved.course \/ saved'.course = course',
         \A o \in Order : RowsMove(o) /\ CodeStays(o)
  PROVE  CodeInv'
<1>1. SameCourses'
  BY SameCoursesKept DEF CodeInv
<1>2. ASSUME NEW o \in Order PROVE CodeInvAt(o)'
  <2>1. CoursesFade(o)
    BY CoursesStay
  <2>2. QED
    BY <2>1, RowsMoved DEF CodeInv
<1>3. QED
  BY <1>1, <1>2 DEF CodeInv

\* Nothing but the code of the order the alarm waits on could change its books.
LEMMA CodeArm ==
  ASSUME BooksInv, CodeInv, NEW call \in Calls, ArmAnswered(call)
  PROVE  CodeInv'
<1>0. at.on \in Order
  BY ArmTyped
<1> SUFFICES ASSUME NEW q \in Order, q = at.on, NEW b, b = at.rows[q].course
             PROVE  CodeInv'
  BY <1>0
<1>1. /\ q \in Order /\ at.rows[q] # None /\ at.step \in Reading
      /\ at'.step \in Reading /\ at'.rows = at.rows
      /\ row'[q] # None /\ row'[q].course = b
      /\ row'[q].phase = "done" => b \in cust'[q].answered
  BY ArmTyped
<1>2. \A p \in Order \ {q} : cust'[p] = cust[p] /\ row'[p] = row[p]
  BY ArmTyped
<1>3. \/ cust'[q].code = cust[q].code /\ cust'[q].answered = cust[q].answered
      \/ /\ b \notin cust[q].answered /\ cust'[q].code = b
         /\ cust'[q].answered = cust[q].answered \cup {b}
  BY ArmTyped
<1>4. course' = course /\ saved' = saved
  BY DEF ArmAnswered
<1>5. \A p \in Order : Read(p)' = Read(p)
  BY <1>1 DEF Read
<1>6. \A p \in Order : CodeInvAt(p)
  BY DEF CodeInv
<1>7. ASSUME NEW p \in Order \ {q} PROVE CodeInvAt(p)'
  <2>1. RowsMove(p)
    BY <1>2, <1>4, <1>5, StillMoves
  <2>2. CoursesFade(p)
    BY <1>4, CoursesStay
  <2>3. CodeStays(p)
    BY <1>2 DEF CodeStays
  <2>4. QED
    BY <1>6, <2>1, <2>2, <2>3, RowsMoved
<1>8. CodeInvAt(q)'
  <2>1. Read(q) = at.rows[q] /\ Its(Read(q), b)
    BY <1>1 DEF Read, Its
  <2>2. RowsOf(q) = {row[q], saved.row[q], Read(q)}
        /\ RowsOf(q)' = {row'[q], saved.row[q], Read(q)}
    BY <1>1, <1>4, <1>5 DEF RowsOf
  <2>3. \A a : Carries(a, q)' = Carries(a, q)
    BY <1>4 DEF Carries, Carried
  <2>4. KnownAt(q) /\ DoneAt(q) /\ CodeAt(q) /\ RowAt(q)
    BY <1>1, <1>6 DEF CodeInvAt
  <2>5. cust[q].answered \subseteq cust'[q].answered
        /\ cust'[q].answered \subseteq cust[q].answered \cup {b}
    BY <1>3
  <2>6. b \in CourseId /\ course[b] # None
    BY <2>1, <2>2, <2>4 DEF KnownAt, Its
  <2>7. KnownAt(q)'
    <3>1. \A r \in RowsOf(q)' : r # None => r.course \in CourseId /\ course'[r.course] # None
      BY <1>1, <1>4, <2>2, <2>4, <2>6 DEF KnownAt
    <3>2. \A a \in cust'[q].answered : a \in CourseId /\ course'[a] # None
      BY <1>4, <2>4, <2>5, <2>6 DEF KnownAt
    <3>3. QED
      BY <3>1, <3>2 DEF KnownAt
  <2>8. DoneAt(q)'
    <3>1. \A r \in RowsOf(q) : r # None /\ r.phase = "done" => r.course \in cust'[q].answered
      BY <2>4, <2>5 DEF DoneAt
    <3>2. \A r \in RowsOf(q)' : r # None /\ r.phase = "done" => r.course \in cust'[q].answered
      BY <1>1, <2>2, <3>1
    <3>3. QED
      BY <3>2 DEF DoneAt
  <2>9. CodeAt(q)'
    <3> SUFFICES ASSUME NEW a \in CourseId, Carries(a, q), a \in cust'[q].answered
                 PROVE  cust'[q].code = a /\ \A r \in RowsOf(q)' : OnlyIts(r, a)
      BY <2>3 DEF CodeAt
    <3>1. CASE a \in cust[q].answered
      <4>1. cust[q].code = a /\ \A r \in RowsOf(q) : OnlyIts(r, a)
        BY <2>4, <3>1 DEF CodeAt
      <4>2. a = b
        BY <2>1, <2>2, <4>1 DEF OnlyIts, Its
      <4>3. cust'[q].code = a
        BY <1>3, <3>1, <4>1, <4>2
      <4>4. QED
        BY <1>1, <2>2, <4>1, <4>2, <4>3 DEF OnlyIts
    <3>2. CASE a \notin cust[q].answered
      <4>1. a = b /\ cust'[q].code = b
        BY <1>3, <2>5, <3>2
      <4>2. OnlyIts(row[q], b) /\ OnlyIts(saved.row[q], b)
        BY <2>1, <2>4, <4>1 DEF RowAt
      <4>3. OnlyIts(row'[q], b) /\ OnlyIts(Read(q), b)
        BY <1>1, <2>1 DEF OnlyIts, Its
      <4>4. QED
        BY <2>2, <4>1, <4>2, <4>3
    <3>3. QED
      BY <3>1, <3>2
  <2>10. RowAt(q)'
    <3> SUFFICES ASSUME NEW a \in CourseId, Carries(a, q)
                 PROVE  /\ Its(row'[q], a) => OnlyIts(saved.row[q], a)
                        /\ Its(Read(q), a) => OnlyIts(row'[q], a) /\ OnlyIts(saved.row[q], a)
      BY <1>1, <1>4, <1>5, <2>3 DEF RowAt
    <3>1. Its(Read(q), a) => OnlyIts(row[q], a) /\ OnlyIts(saved.row[q], a)
      BY <2>4 DEF RowAt
    <3>2. Its(row'[q], a) => a = b
      BY <1>1 DEF Its
    <3>3. Its(Read(q), a) => a = b
      BY <2>1 DEF Its
    <3>4. QED
      BY <1>1, <2>1, <3>1, <3>2, <3>3 DEF OnlyIts
  <2>11. QED
    BY <2>7, <2>8, <2>9, <2>10 DEF CodeInvAt
<1>9. SameCourses'
  BY <1>4, SameCoursesKept DEF CodeInv
<1>10. QED
  BY <1>7, <1>8, <1>9 DEF CodeInv

\* A new course: its id is in no row and in nothing custody has answered, and
\* no other course carries its orders.
LEMMA CodeAssign ==
  ASSUME BooksInv, CodeInv, NEW a \in CourseId, NEW t \in Task, NEW os \in world.voyages,
         Assign(a, t, os)
  PROVE  CodeInv'
<1> DEFINE new == [orders |-> os, task |-> t, live |-> TRUE]
<1>0. TypeOK
  BY DEF BooksInv
<1>1. os \subseteq Order /\ course \in Courses
  BY <1>0, AVoyage, ImageParts
<1>2. course[a] = None
  BY DEF Assign, Minted
<1>3. /\ \A o \in os : CoursesOf(o) = {}
      /\ course' = [course EXCEPT ![a] = new]
      /\ row' = [o \in Order |-> IF o \in os THEN FreshRow(a, t, o) ELSE row[o]]
      /\ UNCHANGED <<at, cust>> /\ saved' = Image'
  BY DEF Assign, Persist
<1>4. saved'.course = course' /\ saved'.row = row'
  BY <1>3 DEF Image
<1>5. course'[a] = new /\ \A c \in CourseId \ {a} : course'[c] = course[c]
  BY <1>1, <1>3 DEF Courses
<1>6. new # None
  <2>1. new \in CourseRecord
    BY <1>1 DEF CourseRecord
  <2>2. QED
    BY <2>1, NoneAssumption
<1>7. \A c \in CourseId : course[c] # None => course'[c] # None
  BY <1>5, <1>6
<1>8. SameCourses'
  BY <1>4 DEF SameCourses
<1>9. ASSUME NEW o \in Order PROVE CodeInvAt(o)'
  <2>1. Read(o)' = Read(o)
    BY <1>3, ReadStays
  <2>2. KnownAt(o) /\ DoneAt(o) /\ CodeAt(o) /\ RowAt(o)
    BY DEF CodeInv, CodeInvAt
  <2>3. \A c \in CourseId : Carries(c, o)' <=> Carried(course', c, o)
    BY <1>4 DEF Carries
  <2>4. \A c \in CourseId \ {a} : Carried(course', c, o) <=> Carried(course, c, o)
    BY <1>5 DEF Carried
  <2>5. CASE o \in os
    <3>1. row'[o] = FreshRow(a, t, o) /\ FreshRow(a, t, o) # None
          /\ row'[o].course = a /\ row'[o].phase = "open"
      BY <1>0, <1>3, <2>5, FreshRowTyped DEF FreshRow
    <3>2. RowsOf(o)' = {row'[o], Read(o)}
      BY <1>4, <2>1 DEF RowsOf
    <3>3. Read(o) \in RowsOf(o)
      BY DEF RowsOf
    <3>4. KnownAt(o)'
      <4>1. \A r \in RowsOf(o)' : r # None => r.course \in CourseId /\ course'[r.course] # None
        BY <1>5, <1>6, <1>7, <2>2, <3>1, <3>2, <3>3 DEF KnownAt
      <4>2. \A c \in cust'[o].answered : c \in CourseId /\ course'[c] # None
        BY <1>3, <1>7, <2>2 DEF KnownAt
      <4>3. QED
        BY <4>1, <4>2 DEF KnownAt
    <3>5. DoneAt(o)'
      <4>1. \A r \in RowsOf(o)' : r # None /\ r.phase = "done" => r.course \in cust'[o].answered
        BY <1>3, <2>2, <3>1, <3>2, <3>3 DEF DoneAt
      <4>2. QED
        BY <4>1 DEF DoneAt
    <3>6. \A c \in CourseId : Carries(c, o)' => c = a
      <4>1. \A c \in CourseId : ~Carried(course, c, o)
        BY <1>3, <2>5 DEF CoursesOf, Live, Carried
      <4>2. QED
        BY <2>3, <2>4, <4>1
    <3>7. a \notin cust'[o].answered /\ ~Its(Read(o), a)
      BY <1>2, <1>3, <2>2, <3>3 DEF KnownAt, Its
    <3>8. CodeAt(o)'
      BY <3>6, <3>7 DEF CodeAt
    <3>9. RowAt(o)'
      <4>1. OnlyIts(saved'.row[o], a)
        BY <1>4, <3>1 DEF OnlyIts
      <4>2. \A c \in CourseId : Carries(c, o)' =>
              /\ Its(row'[o], c) => OnlyIts(saved'.row[o], c)
              /\ Its(Read(o)', c) => OnlyIts(row'[o], c) /\ OnlyIts(saved'.row[o], c)
        BY <2>1, <3>6, <3>7, <4>1
      <4>3. QED
        BY <4>2 DEF RowAt
    <3>10. QED
      BY <3>4, <3>5, <3>8, <3>9 DEF CodeInvAt
  <2>6. CASE o \notin os
    <3>1. row'[o] = row[o]
      BY <1>3, <2>6
    <3>2. RowsMove(o)
      BY <1>3, <3>1, FollowsItself, PersistMoves
    <3>3. CodeStays(o)
      BY <1>3 DEF CodeStays
    <3>4. CoursesFade(o)
      <4>1. ~Carried(course', a, o)
        BY <1>5, <2>6 DEF Carried
      <4>2. QED
        BY <1>4, <1>7, <2>4, <4>1, CoursesEnd
    <3>5. CodeInvAt(o)
      BY DEF CodeInv
    <3>6. QED
      BY <3>2, <3>3, <3>4, <3>5, RowsMoved
  <2>7. QED
    BY <2>5, <2>6
<1>10. QED
  BY <1>8, <1>9 DEF CodeInv

\* A course ends, at the rider's, at the dispatcher's or at the purge's word.
LEMMA CodeEnd ==
  ASSUME BooksInv, CodeInv, NEW ending \in SUBSET CourseId,
         \A a \in ending : course[a] # None,
         course' = [a \in CourseId |->
             IF a \in ending THEN [course[a] EXCEPT !.live = FALSE] ELSE course[a]],
         saved' = Image' \/ saved' = saved, row' = row, at' = at, cust' = cust
  PROVE  CodeInv'
<1>1. course \in Courses
  BY ImageParts DEF BooksInv
<1>2. \A a \in ending : course[a] \in CourseRecord
  BY <1>1 DEF Courses
<1>3. \A a \in ending : [course[a] EXCEPT !.live = FALSE] \in CourseRecord
                        /\ [course[a] EXCEPT !.live = FALSE].live = FALSE
  BY <1>2 DEF CourseRecord
<1>4. \A a \in CourseId : course'[a] = None <=> course[a] = None
  BY <1>3, NoneAssumption
<1>5. ASSUME NEW o \in Order, NEW a \in CourseId, Carried(course', a, o)
      PROVE  Carried(course, a, o)
  <2>1. a \notin ending
    BY <1>3, <1>5 DEF Carried
  <2>2. course'[a] = course[a]
    BY <2>1
  <2>3. QED
    BY <1>5, <2>2 DEF Carried
<1>6. saved'.course = saved.course \/ saved'.course = course'
  <2>1. Image'.course = course'
    BY DEF Image
  <2>2. QED
    BY <2>1
<1>7. ASSUME NEW o \in Order PROVE CodeInvAt(o)'
  <2>1. CoursesFade(o)
    BY <1>4, <1>5, <1>6, CoursesEnd
  <2>2. RowsMove(o)
    <3>1. CASE saved' = Image'
      BY <3>1, FollowsItself, PersistMoves
    <3>2. CASE saved' = saved
      BY <3>2, ReadStays, StillMoves
    <3>3. QED
      BY <3>1, <3>2
  <2>3. CodeStays(o)
    BY DEF CodeStays
  <2>4. QED
    BY <2>1, <2>2, <2>3, RowsMoved DEF CodeInv
<1>8. SameCourses'
  BY <1>4, <1>6, SameCoursesKept DEF CodeInv
<1>9. QED
  BY <1>7, <1>8 DEF CodeInv

\* A decline, an expired lease, a take-back and a purge end courses only.
LEMMA CodeEnded ==
  ASSUME BooksInv, CodeInv,
         \/ \E a \in CourseId : Requeue(a) \/ TakeBack(a)
         \/ \E o \in Order : RetireBegins(o)
  PROVE  CodeInv'
<1>1. course \in Courses
  BY ImageParts DEF BooksInv
<1>2. CASE \E a \in CourseId : Requeue(a) \/ TakeBack(a)
  <2>1. PICK a \in CourseId : Requeue(a) \/ TakeBack(a)
    BY <1>2
  <2>2. course[a] # None /\ course' = [course EXCEPT ![a].live = FALSE]
        /\ saved' = Image' /\ row' = row /\ at' = at /\ cust' = cust
    BY <2>1 DEF Requeue, TakeBack, Live, Persist
  <2>3. course' = [c \in CourseId |->
             IF c \in {a} THEN [course[c] EXCEPT !.live = FALSE] ELSE course[c]]
    BY <1>1, <2>2 DEF Courses
  <2>4. QED
    BY <2>2, <2>3, CodeEnd
<1>3. CASE \E o \in Order : RetireBegins(o)
  <2>1. PICK o \in Order : RetireBegins(o)
    BY <1>3
  <2>2. CoursesOf(o) \in SUBSET CourseId /\ \A a \in CoursesOf(o) : course[a] # None
    BY DEF CoursesOf, Live
  <2>3. course' = [a \in CourseId |->
             IF a \in CoursesOf(o) THEN [course[a] EXCEPT !.live = FALSE] ELSE course[a]]
        /\ saved' = saved /\ row' = row /\ at' = at /\ cust' = cust
    BY <2>1 DEF RetireBegins
  <2>4. QED
    BY <2>2, <2>3, CodeEnd
<1>4. QED
  BY <1>2, <1>3

\* The other requests: rows stay what they are, or go.
LEMMA CodeRequest ==
  ASSUME BooksInv, CodeInv,
         \/ \E a \in CourseId : (\E o \in Order : ReturnOpened(o, a)) \/ ReturnConfirmed(a)
         \/ \E o \in Order : NameSupplier(o)
         \/ RetireEnds
  PROVE  CodeInv'
<1>0. TypeOK
  BY DEF BooksInv
<1>1. row \in Rows
  BY <1>0, ImageParts
<1>2. /\ course' = course /\ at' = at /\ cust' = cust /\ saved' = Image'
  BY DEF ReturnOpened, ReturnConfirmed, NameSupplier, RetireEnds, Persist
<1>3. \A o \in Order : Follows(row'[o], row[o])
  <2>1. CASE \E a \in CourseId : (\E o \in Order : ReturnOpened(o, a)) \/ ReturnConfirmed(a)
    <3>1. row' = row
      BY <2>1 DEF ReturnOpened, ReturnConfirmed
    <3>2. QED
      BY <3>1, FollowsItself
  <2>2. CASE \E o \in Order : NameSupplier(o)
    <3>1. PICK o \in Order : NameSupplier(o)
      BY <2>2
    <3>2. CASE row[o] # None /\ row[o].phase # "done" /\ ~row[o].supplier
      <4>1. row[o] \in Row
        BY <1>1, <3>2 DEF Rows
      <4>2. row' = [row EXCEPT ![o].supplier = TRUE]
        BY <3>1, <3>2 DEF NameSupplier
      <4>3. row'[o].course = row[o].course /\ row'[o].phase = row[o].phase
        BY <1>1, <4>1, <4>2 DEF Row, Rows
      <4>4. \A p \in Order \ {o} : row'[p] = row[p]
        BY <1>1, <4>2 DEF Rows
      <4>5. QED
        BY <3>2, <4>3, <4>4, FollowsItself DEF Follows
    <3>3. CASE ~(row[o] # None /\ row[o].phase # "done" /\ ~row[o].supplier)
      BY <3>1, <3>3, FollowsItself DEF NameSupplier
    <3>4. QED
      BY <3>2, <3>3
  <2>3. CASE RetireEnds
    <3>1. row' = row \/ row' = [row EXCEPT ![retiring.order] = None]
      BY <2>3 DEF RetireEnds
    <3>2. \A o \in Order : row'[o] = row[o] \/ row'[o] = None
      BY <1>1, <3>1 DEF Rows
    <3>3. QED
      BY <3>2, FollowsItself DEF Follows
  <2>4. QED
    BY <2>1, <2>2, <2>3
<1>4. saved'.course = course'
  BY <1>2 DEF Image
<1>5. \A o \in Order : RowsMove(o) /\ CodeStays(o)
  BY <1>2, <1>3, PersistMoves DEF CodeStays
<1>6. QED
  BY <1>2, <1>4, <1>5, CodeCalm

\* Custody, the board, and the alarm while it writes no row: the rows in memory
\* and in storage stay, and what was read stays or is dropped.
LEMMA CodeQuiet ==
  ASSUME CodeInv, course' = course, row' = row, saved'.row = saved.row,
         saved'.course = saved.course, \A o \in Order : CodeStays(o),
         \A o \in Order : Read(o)' = Read(o) \/ Read(o)' = None
  PROVE  CodeInv'
<1>1. \A o \in Order : RowsMove(o)
  BY FollowsItself DEF RowsMove, Keeps, Follows
<1>2. QED
  BY <1>1, CodeCalm

\* Custody's keys, the board, and an alarm that writes no row move no code.
LEMMA CodeStill ==
  ASSUME BooksInv, CodeInv,
         \/ \E a \in CourseId, o \in Order : PickupVerified(a, o)
         \/ Board \/ KeysWritten \/ AlarmEnds
         \/ \E call \in Calls, o \in Order : KeyAnswered(o, call)
         \/ \E o \in Order : ProduceSends(o)
         \/ \E a \in CourseId : KeysBegin(a) \/ KeysRest(a)
  PROVE  CodeInv'
<1>1. course' = course /\ row' = row
  BY DEF PickupVerified, Board, KeysWritten, AlarmEnds, KeyAnswered, ProduceSends, KeysBegin,
     KeysRest, mem
<1>2. saved'.row = saved.row /\ saved'.course = saved.course
  <2>1. CASE AlarmEnds
    BY <2>1, EndsTyped
  <2>2. CASE ~AlarmEnds
    BY <2>2 DEF PickupVerified, Board, KeysWritten, KeyAnswered, ProduceSends, KeysBegin,
       KeysRest
  <2>3. QED
    BY <2>1, <2>2
<1>3. \A o \in Order : CodeStays(o)
  <2>1. CASE \E a \in CourseId, o \in Order : PickupVerified(a, o)
    BY <2>1, PickupTyped DEF CodeStays
  <2>2. CASE \E call \in Calls, o \in Order : KeyAnswered(o, call)
    BY <2>2, KeyTyped DEF CodeStays
  <2>3. CASE Board \/ KeysWritten \/ AlarmEnds \/ (\E o \in Order : ProduceSends(o))
             \/ (\E a \in CourseId : KeysBegin(a) \/ KeysRest(a))
    BY <2>3 DEF Board, KeysWritten, AlarmEnds, ProduceSends, KeysBegin, KeysRest, CodeStays
  <2>4. QED
    BY <2>1, <2>2, <2>3
<1>4. \A o \in Order : Read(o)' = Read(o) \/ Read(o)' = None
  <2>1. CASE \/ \E a \in CourseId, o \in Order : PickupVerified(a, o)
             \/ Board
    BY <2>1 DEF PickupVerified, Board, Read
  <2>2. CASE \E o \in Order : ProduceSends(o)
    BY <2>2, SendsTyped DEF Read
  <2>3. CASE KeysWritten
    BY <2>3, WrittenTyped DEF Read, Reading
  <2>4. CASE AlarmEnds
    BY <2>4, EndsTyped DEF Read, Reading
  <2>5. CASE \E call \in Calls, o \in Order : KeyAnswered(o, call)
    BY <2>5, KeyTyped DEF Read, Reading, Key
  <2>6. CASE \E a \in CourseId : KeysBegin(a)
    BY <2>6, KeysBeginTyped DEF Read, Reading
  <2>7. CASE \E a \in CourseId : KeysRest(a)
    BY <2>7, KeysRestTyped DEF Read, Reading
  <2>8. QED
    BY <2>1, <2>2, <2>3, <2>4, <2>5, <2>6, <2>7
<1>5. QED
  BY <1>1, <1>2, <1>3, <1>4, CodeQuiet

\* The alarm reads the rows, writes them back one by one, and stores them.
LEMMA CodeDrain ==
  ASSUME BooksInv, CodeInv,
         \/ AlarmStarts
         \/ \E o \in Order : ProduceRests(o)
         \/ \E call \in Calls : OpenAnswered(call)
         \/ ProduceDone
  PROVE  CodeInv'
<1>1. CASE AlarmStarts
  <2>1. course' = course /\ row' = row /\ saved' = saved /\ cust' = cust
    BY <1>1 DEF AlarmStarts, mem
  <2>2. \A o \in Order : Read(o)' = row[o]
    BY <1>1, AlarmStarted DEF Read, Reading
  <2>3. \A o \in Order : RowsMove(o) /\ CodeStays(o)
    BY <2>1, <2>2, FollowsItself DEF RowsMove, Reads, CodeStays
  <2>4. QED
    BY <2>1, <2>3, CodeCalm
<1>2. CASE \E o \in Order : ProduceRests(o)
  <2>1. /\ at.step \in Reading /\ at'.step = at.step /\ at'.rows = at.rows
        /\ \A p \in Order : row'[p] = row[p] \/
              /\ row'[p] # None /\ at.rows[p] # None
              /\ row'[p].course = at.rows[p].course /\ row'[p].phase = at.rows[p].phase
    BY <1>2, RestsTyped
  <2>2. course' = course /\ saved' = saved /\ cust' = cust
    BY <1>2 DEF ProduceRests
  <2>3. \A p \in Order : Read(p)' = Read(p) /\ Read(p) = at.rows[p]
    BY <2>1 DEF Read
  <2>4. \A p \in Order : Follows(row'[p], row[p]) \/ Follows(row'[p], Read(p))
    BY <2>1, <2>3, FollowsItself DEF Follows
  <2>5. \A p \in Order : RowsMove(p) /\ CodeStays(p)
    BY <2>2, <2>3, <2>4, FollowsItself DEF RowsMove, Keeps, Writes, CodeStays
  <2>6. QED
    BY <2>2, <2>5, CodeCalm
<1>3. CASE \E call \in Calls : OpenAnswered(call)
  <2>1. /\ at.step \in Reading /\ at'.step \in Reading /\ at'.rows = at.rows
        /\ \A p \in Order : CodeStays(p)
        /\ \A p \in Order : row'[p] = row[p] \/
              /\ row'[p] # None /\ at.rows[p] # None
              /\ row'[p].course = at.rows[p].course /\ row'[p].phase = "open"
    BY <1>3, OpenTyped DEF CodeStays
  <2>2. course' = course /\ saved' = saved
    BY <1>3 DEF OpenAnswered
  <2>3. \A p \in Order : Read(p)' = Read(p) /\ Read(p) = at.rows[p]
    BY <2>1 DEF Read
  <2>4. \A p \in Order : Follows(row'[p], row[p]) \/ Follows(row'[p], Read(p))
    BY <2>1, <2>3, FollowsItself DEF Follows
  <2>5. \A p \in Order : RowsMove(p)
    BY <2>2, <2>3, <2>4, FollowsItself DEF RowsMove, Keeps, Writes
  <2>6. QED
    BY <2>1, <2>2, <2>5, CodeCalm
<1>4. CASE ProduceDone
  <2>1. course' = course /\ row' = row /\ cust' = cust
    BY <1>4 DEF ProduceDone, mem
  <2>2. saved'.row = row /\ saved'.course = saved.course /\ at'.step = "keys"
    BY <1>4, ProducedTyped
  <2>3. \A o \in Order : Read(o)' = None
    BY <2>2 DEF Read, Reading
  <2>4. \A o \in Order : RowsMove(o) /\ CodeStays(o)
    BY <2>1, <2>2, <2>3, FollowsItself DEF RowsMove, Saves, Follows, CodeStays
  <2>5. QED
    BY <2>1, <2>2, <2>4, CodeCalm
<1>5. QED
  BY <1>1, <1>2, <1>3, <1>4

\* A restart brings back what storage held, a course a purge was ending included.
LEMMA CodeReload ==
  ASSUME BooksInv, CodeInv, Crash \/ SetConfig
  PROVE  CodeInv'
<1>1. /\ at'.step = "idle" /\ saved' = saved /\ cust' = cust
      /\ course' = saved.course /\ row' = saved.row
  BY ReloadTyped
<1>2. SameCourses
  BY DEF CodeInv
<1>3. SameCourses'
  BY <1>1 DEF SameCourses
<1>4. ASSUME NEW o \in Order PROVE CodeInvAt(o)'
  <2>1. RowsMove(o)
    <3>1. Read(o)' = None
      BY <1>1 DEF Read, Reading
    <3>2. QED
      BY <1>1, <3>1, FollowsItself DEF RowsMove, Reloads
  <2>2. CoursesFade(o)
    BY <1>1, <1>2 DEF CoursesFade, SameCourses, Carries
  <2>3. CodeStays(o)
    BY <1>1 DEF CodeStays
  <2>4. QED
    BY <2>1, <2>2, <2>3, RowsMoved DEF CodeInv
<1>5. QED
  BY <1>3, <1>4 DEF CodeInv

\* The codes agree at the start.
LEMMA InitCodes == Init => CodeInv
<1> SUFFICES ASSUME Init PROVE CodeInv
  OBVIOUS
<1>1. /\ \A a \in CourseId : course[a] # None <=> a \in Departed
      /\ \A o \in Order : row[o] # None =>
              /\ row[o].course \in Departed /\ cust[o].code = row[o].course
              /\ cust[o].answered = {row[o].course}
      /\ \A o \in Order : row[o] = None => cust[o].answered = {}
  BY AtTheStart
<1>2. saved = Image /\ at = Idle /\ Departed \subseteq CourseId
  BY TasksOfTheDeparted DEF Init
<1>3. saved.course = course /\ saved.row = row /\ at.step = "idle"
  BY <1>2, IdleTyped DEF Image
<1>4. \A o \in Order : RowsOf(o) = {row[o], None} /\ Read(o) = None
  BY <1>3 DEF RowsOf, Read, Reading
<1>5. ASSUME NEW o \in Order PROVE CodeInvAt(o)
  <2>1. KnownAt(o)
    BY <1>1, <1>2, <1>4 DEF KnownAt
  <2>2. DoneAt(o)
    BY <1>1, <1>4 DEF DoneAt
  <2>3. CodeAt(o)
    BY <1>1, <1>4 DEF CodeAt, OnlyIts
  <2>4. RowAt(o)
    BY <1>3, <1>4 DEF RowAt, Its, OnlyIts
  <2>5. QED
    BY <2>1, <2>2, <2>3, <2>4 DEF CodeInvAt
<1>6. SameCourses
  BY <1>3 DEF SameCourses
<1>7. QED
  BY <1>5, <1>6 DEF CodeInv

\* And after every step.
LEMMA NextCodes == BooksInv /\ CodeInv /\ [Next]_vars => CodeInv'
<1> SUFFICES ASSUME BooksInv, CodeInv, [Next]_vars PROVE CodeInv'
  OBVIOUS
<1>0. TypeOK
  BY DEF BooksInv
<1>1. CASE UNCHANGED vars
  <2>1. UNCHANGED <<course, row, saved, at, cust>>
    BY <1>1 DEF vars, mem
  <2>2. \A o \in Order : CodeStays(o) /\ Read(o)' = Read(o)
    BY <2>1 DEF CodeStays, Read
  <2>3. QED
    BY <2>1, <2>2, CodeQuiet
<1>2. CASE Next
  BY <1>0, <1>2, StepCases, CodeAssign, CodeArm, CodeEnded, CodeRequest, CodeStill, CodeDrain,
     CodeReload
<1>3. QED
  BY <1>1, <1>2

\* When the row of a course under way is done, custody holds that course's code,
\* whatever older course's code the alarm may have sent in between, and whatever
\* a restart brings back.
THEOREM DoneRowHasItsCode == Spec => []DoneMeansItsCode
<1>1. CodeInv => DoneMeansItsCode
  <2> SUFFICES ASSUME CodeInv, NEW a \in CourseId, NEW o \in Order,
                      Live(a), o \in course[a].orders,
                      row[o] # None, row[o].course = a, row[o].phase = "done"
               PROVE  cust[o].code = a
    BY DEF DoneMeansItsCode
  <2>1. Carries(a, o)
    BY DEF Carries, Carried, Live
  <2>2. a \in cust[o].answered
    BY DEF CodeInv, CodeInvAt, DoneAt, RowsOf
  <2>3. QED
    BY <2>1, <2>2 DEF CodeInv, CodeInvAt, CodeAt
<1>2. Spec => []CodeInv
  <2>1. BooksInv /\ CodeInv /\ [Next]_vars => CodeInv'
    BY NextCodes
  <2>2. QED
    BY InitCodes, InitBooks, NextBooks, <2>1, PTL DEF Spec
<1>3. QED
  BY <1>1, <1>2, PTL

-----------------------------------------------------------------------------
(* Returns.                                                                *)

\* A return in memory is one in storage, of the same articles, and confirmed
\* alike: what an alarm has not stored yet is which of them have their keys.
ReturnInv ==
    \A a \in CourseId :
        /\ ret[a] = None <=> saved.ret[a] = None
        /\ ret[a] # None => /\ ret[a].orders = saved.ret[a].orders
                            /\ ret[a].confirmed = saved.ret[a].confirmed

\* How a return moves in a step: it is stored as it is now, or what storage says
\* of its articles and of its confirmation stays what memory says.
ReturnGrows(a) ==
    ret[a] # None => /\ ret'[a] # None
                     /\ ret[a].orders \subseteq ret'[a].orders
                     /\ ret[a].confirmed => ret'[a].confirmed
SaidAlike(r, s) ==
    /\ r = None <=> s = None
    /\ r # None => r.orders = s.orders /\ r.confirmed = s.confirmed

\* A return says what it says.
LEMMA AlikeItself == \A r : SaidAlike(r, r)
BY DEF SaidAlike

\* The same, return by return.
LEMMA ReturnInvAlike == ReturnInv <=> \A a \in CourseId : SaidAlike(ret[a], saved.ret[a])
BY DEF ReturnInv, SaidAlike

\* In each step a return says what it said, and storage says the same: it was
\* stored, or it has not changed but in which articles have their keys.
LEMMA ReturnMoves ==
  ASSUME BooksInv, ReturnInv, [Next]_vars, NEW a \in CourseId
  PROVE  ReturnGrows(a) /\ SaidAlike(ret'[a], saved'.ret[a])
<1>0. TypeOK /\ SaidAlike(ret[a], saved.ret[a])
  BY ReturnInvAlike DEF BooksInv
<1>1. ASSUME ret' = ret, saved'.ret = saved.ret
      PROVE  ReturnGrows(a) /\ SaidAlike(ret'[a], saved'.ret[a])
  BY <1>0, <1>1 DEF ReturnGrows
<1>2. ASSUME ret' = ret, saved'.ret = ret'
      PROVE  ReturnGrows(a) /\ SaidAlike(ret'[a], saved'.ret[a])
  BY <1>2, AlikeItself DEF ReturnGrows
<1>3. Image'.ret = ret'
  BY DEF Image
<1>4. CASE UNCHANGED vars
  BY <1>1, <1>4 DEF vars, mem
<1>5. CASE \/ \E c \in CourseId, t \in Task, os \in world.voyages : Assign(c, t, os)
           \/ \E c \in CourseId : Requeue(c) \/ TakeBack(c)
           \/ \E o \in Order : NameSupplier(o)
           \/ RetireEnds
  <2>1. ret' = ret /\ saved' = Image'
    BY <1>5 DEF Assign, Requeue, TakeBack, NameSupplier, RetireEnds, Persist
  <2>2. QED
    BY <1>2, <1>3, <2>1
<1>6. CASE \E c \in CourseId : (\E o \in Order : ReturnOpened(o, c)) \/ ReturnConfirmed(c)
  <2>1. PICK c \in CourseId : (\E o \in Order : ReturnOpened(o, c)) \/ ReturnConfirmed(c)
    BY <1>6
  <2>2. saved'.ret = ret'
    BY <1>3, <2>1 DEF ReturnOpened, ReturnConfirmed, Persist
  <2>3. /\ \A b \in CourseId \ {c} : ret'[b] = ret[b]
        /\ ret'[c] # None
        /\ ret[c] # None => /\ ret[c].orders \subseteq ret'[c].orders
                            /\ ret[c].confirmed => ret'[c].confirmed
    BY <1>0, <2>1, ReturnWritten
  <2>4. ReturnGrows(a)
    BY <2>3 DEF ReturnGrows
  <2>5. QED
    BY <2>2, <2>4, AlikeItself
<1>7. CASE \/ \E o \in Order : RetireBegins(o)
           \/ \E c \in CourseId, o \in Order : PickupVerified(c, o)
           \/ Board
           \/ \E call \in Calls : OpenAnswered(call) \/ ArmAnswered(call)
           \/ \E call \in Calls, o \in Order : KeyAnswered(o, call)
           \/ AlarmStarts
           \/ \E o \in Order : ProduceRests(o) \/ ProduceSends(o)
           \/ \E c \in CourseId : KeysBegin(c) \/ KeysRest(c)
  <2>1. ret' = ret /\ saved' = saved
    BY <1>7 DEF RetireBegins, PickupVerified, Board, OpenAnswered, ArmAnswered, KeyAnswered,
       AlarmStarts, ProduceRests, ProduceSends, KeysBegin, KeysRest, mem
  <2>2. QED
    BY <1>1, <2>1
<1>8. CASE ProduceDone
  <2>1. ret' = ret
    BY <1>8 DEF ProduceDone, mem
  <2>2. QED
    BY <1>1, <1>8, <2>1, ProducedTyped
<1>9. CASE KeysWritten
  <2>1. /\ at.on \in CourseId /\ ret[at.on] # None /\ ret'[at.on] # None
        /\ ret'[at.on].orders = ret[at.on].orders
        /\ ret'[at.on].confirmed = ret[at.on].confirmed
        /\ \A b \in CourseId \ {at.on} : ret'[b] = ret[b]
    BY <1>9, WrittenTyped
  <2>2. saved' = saved
    BY <1>9 DEF KeysWritten
  <2>3. /\ ret'[a] = None <=> ret[a] = None
        /\ ret[a] # None => ret'[a].orders = ret[a].orders /\ ret'[a].confirmed = ret[a].confirmed
    BY <2>1
  <2>4. QED
    BY <1>0, <2>2, <2>3 DEF ReturnGrows, SaidAlike
<1>10. CASE AlarmEnds
  <2>1. ret' = ret
    BY <1>10 DEF AlarmEnds, mem
  <2>2. QED
    BY <1>2, <1>10, <2>1, EndsTyped
<1>11. CASE Crash \/ SetConfig
  <2>1. ret' = saved.ret /\ saved' = saved
    BY <1>11, ReloadTyped
  <2>2. ReturnGrows(a)
    BY <1>0, <2>1 DEF ReturnGrows, SaidAlike
  <2>3. QED
    BY <2>1, <2>2, AlikeItself
<1>12. QED
  BY <1>0, <1>4, <1>5, <1>6, <1>7, <1>8, <1>9, <1>10, <1>11, StepCases

\* There is no return at the start.
LEMMA InitReturns == Init => ReturnInv
<1> SUFFICES ASSUME Init PROVE ReturnInv
  OBVIOUS
<1>1. ret = [a \in CourseId |-> None] /\ saved.ret = ret
  BY DEF Init, Image
<1>2. QED
  BY <1>1 DEF ReturnInv

\* Memory and storage keep saying the same.
LEMMA NextReturns == BooksInv /\ ReturnInv /\ [Next]_vars => ReturnInv'
<1> SUFFICES ASSUME BooksInv, ReturnInv, [Next]_vars PROVE ReturnInv'
  OBVIOUS
<1>1. \A a \in CourseId : SaidAlike(ret'[a], saved'.ret[a])
  BY ReturnMoves
<1>2. QED
  BY <1>1 DEF ReturnInv, SaidAlike

\* Nothing said of a return is unsaid: an article that joined the bag while an
\* alarm was waiting stays in it, and so does the supplier's confirmation, when
\* the alarm writes and when a restart reads.
THEOREM ReturnsAreKept == Spec => ReturnsOnlyGrow
<1>1. BooksInv /\ ReturnInv /\ [Next]_vars =>
        \A a \in CourseId : ret[a] # None =>
          /\ ret'[a] # None
          /\ ret[a].orders \subseteq ret'[a].orders
          /\ ret[a].confirmed => ret'[a].confirmed
  BY ReturnMoves DEF ReturnGrows
<1>2. QED
  BY InitBooks, NextBooks, InitReturns, NextReturns, <1>1, PTL DEF Spec, ReturnsOnlyGrow

-----------------------------------------------------------------------------
(* The keys of a return.                                                   *)

\* The orders whose two keys custody holds for a course's return.
Keyed(a) == {o \in Order : {a} \X Key \subseteq cust[o].keys}

ReturnRead(a) == IF at.step \in Arming THEN at.rets[a] ELSE None

\* What a return says of its keys is true: an article said to have them has
\* them, and a return said to be done has all its articles among those.
RetTold(a, r) ==
    r # None => /\ r.armed \subseteq Keyed(a)
                /\ r.phase = "done" => r.orders \subseteq r.armed

\* So is what the alarm says of the return it is arming.
AlarmTold ==
    /\ \A a \in CourseId : ReturnRead(a) # None => ReturnRead(a).armed \subseteq Keyed(a)
    /\ at.step \in Key => at.armed \subseteq Keyed(at.on)
    /\ at.step = "seller" => \A o \in at.left : <<at.on, "rider">> \in cust[o].keys

KeyInv ==
    /\ \A a \in CourseId : RetTold(a, ret[a]) /\ RetTold(a, saved.ret[a])
    /\ AlarmTold

KeysGrow == \A o \in Order : cust[o].keys \subseteq cust'[o].keys

\* Custody forgets no key.
LEMMA StepKeys ==
  ASSUME BooksInv, [Next]_vars
  PROVE  KeysGrow
<1>0. TypeOK
  BY DEF BooksInv
<1>1. CASE \/ UNCHANGED vars
           \/ \E c \in CourseId, t \in Task, os \in world.voyages : Assign(c, t, os)
           \/ \E c \in CourseId : Requeue(c) \/ TakeBack(c) \/ ReturnConfirmed(c)
           \/ \E c \in CourseId, o \in Order : ReturnOpened(o, c)
           \/ \E o \in Order : NameSupplier(o) \/ RetireBegins(o)
           \/ \E o \in Order : ProduceRests(o) \/ ProduceSends(o)
           \/ RetireEnds \/ Board \/ AlarmStarts \/ ProduceDone \/ KeysWritten \/ AlarmEnds
           \/ \E c \in CourseId : KeysBegin(c) \/ KeysRest(c)
           \/ Crash \/ SetConfig
  <2>1. cust' = cust
    BY <1>1 DEF vars, Assign, Requeue, TakeBack, ReturnConfirmed, ReturnOpened, NameSupplier,
       RetireBegins, ProduceRests, ProduceSends, RetireEnds, Board, AlarmStarts, ProduceDone,
       KeysWritten, AlarmEnds, KeysBegin, KeysRest, Crash, SetConfig, Reload
  <2>2. QED
    BY <2>1 DEF KeysGrow
<1>2. CASE \E a \in CourseId, o \in Order : PickupVerified(a, o)
  BY <1>2, PickupTyped DEF KeysGrow
<1>3. CASE \E call \in Calls : OpenAnswered(call)
  BY <1>3, OpenTyped DEF KeysGrow
<1>4. CASE \E call \in Calls : ArmAnswered(call)
  BY <1>4, ArmTyped DEF KeysGrow
<1>5. CASE \E call \in Calls, o \in Order : KeyAnswered(o, call)
  BY <1>5, KeyTyped DEF KeysGrow
<1>6. QED
  BY <1>0, <1>1, <1>2, <1>3, <1>4, <1>5, StepCases

\* So an article that has its keys keeps them.
LEMMA KeyedGrows ==
  ASSUME KeysGrow
  PROVE  \A a : Keyed(a) \subseteq Keyed(a)'
BY DEF KeysGrow, Keyed

\* What a step makes of a return's row in storage.
LEMMA StoredReturn ==
  ASSUME BooksInv, [Next]_vars, NEW a \in CourseId
  PROVE  saved'.ret[a] \in {ret'[a], saved.ret[a], ret[a]}
<1>0. TypeOK /\ Image'.ret = ret'
  BY DEF BooksInv, Image
<1>1. CASE \/ \E c \in CourseId, t \in Task, os \in world.voyages : Assign(c, t, os)
           \/ \E c \in CourseId : Requeue(c) \/ TakeBack(c) \/ ReturnConfirmed(c)
           \/ \E c \in CourseId, o \in Order : ReturnOpened(o, c)
           \/ \E o \in Order : NameSupplier(o)
           \/ RetireEnds
  <2>1. saved' = Image'
    BY <1>1 DEF Assign, Requeue, TakeBack, ReturnConfirmed, ReturnOpened, NameSupplier,
       RetireEnds, Persist
  <2>2. QED
    BY <1>0, <2>1
<1>2. CASE \/ UNCHANGED vars
           \/ \E o \in Order : RetireBegins(o) \/ ProduceRests(o) \/ ProduceSends(o)
           \/ \E c \in CourseId, o \in Order : PickupVerified(c, o)
           \/ Board \/ AlarmStarts \/ KeysWritten
           \/ \E call \in Calls : OpenAnswered(call) \/ ArmAnswered(call)
           \/ \E call \in Calls, o \in Order : KeyAnswered(o, call)
           \/ \E c \in CourseId : KeysBegin(c) \/ KeysRest(c)
           \/ Crash \/ SetConfig
  <2>1. saved' = saved
    BY <1>2 DEF vars, RetireBegins, ProduceRests, ProduceSends, PickupVerified, Board,
       AlarmStarts, KeysWritten, OpenAnswered, ArmAnswered, KeyAnswered, KeysBegin, KeysRest,
       Crash, SetConfig, Reload
  <2>2. QED
    BY <2>1
<1>3. CASE ProduceDone
  BY <1>3, ProducedTyped
<1>4. CASE AlarmEnds
  BY <1>4, EndsTyped
<1>5. QED
  BY <1>0, <1>1, <1>2, <1>3, <1>4, StepCases

\* What a step makes of a return's row in memory.
LEMMA ReturnInMemory ==
  ASSUME BooksInv, KeyInv, [Next]_vars, NEW a \in CourseId
  PROVE  RetTold(a, ret[a])'
<1>0. /\ TypeOK /\ KeysGrow /\ RetTold(a, ret[a]) /\ RetTold(a, saved.ret[a])
      /\ Keyed(a) \subseteq Keyed(a)'
  BY StepKeys, KeyedGrows DEF BooksInv, KeyInv
<1>1. ASSUME ret'[a] = ret[a] \/ ret'[a] = saved.ret[a] PROVE RetTold(a, ret[a])'
  BY <1>0, <1>1 DEF RetTold
<1>2. CASE \E c \in CourseId : (\E o \in Order : ReturnOpened(o, c)) \/ ReturnConfirmed(c)
  <2>1. PICK c \in CourseId : (\E o \in Order : ReturnOpened(o, c)) \/ ReturnConfirmed(c)
    BY <1>2
  <2>2. CASE a # c
    <3>1. ret'[a] = ret[a]
      BY <1>0, <2>1, <2>2, ReturnWritten
    <3>2. QED
      BY <1>1, <3>1
  <2>3. CASE a = c
    <3>1. /\ ret[a] # None =>
                /\ ret'[a].armed = ret[a].armed
                /\ \/ ret'[a].phase = "pending"
                   \/ ret'[a].orders = ret[a].orders /\ ret'[a].phase = ret[a].phase
          /\ ret[a] = None => ret'[a].armed = {} /\ ret'[a].phase = "pending"
      BY <1>0, <2>1, <2>3, ReturnWritten
    <3>2. CASE ret[a] = None
      <4>1. ret'[a].armed = {} /\ ret'[a].phase # "done"
        BY <3>1, <3>2
      <4>2. QED
        BY <4>1 DEF RetTold
    <3>3. CASE ret[a] # None
      <4>1. ret'[a].armed = ret[a].armed /\ ret[a].armed \subseteq Keyed(a)'
        BY <1>0, <3>1, <3>3 DEF RetTold
      <4>2. ret'[a].phase = "done" => ret'[a].orders \subseteq ret'[a].armed
        BY <1>0, <3>1, <3>3 DEF RetTold
      <4>3. QED
        BY <4>1, <4>2 DEF RetTold
    <3>4. QED
      BY <3>2, <3>3
  <2>4. QED
    BY <2>2, <2>3
<1>3. CASE KeysWritten
  <2>1. /\ at.step \in Key /\ ret'[at.on].armed = at.armed
        /\ ret'[at.on].phase = "done" => ret'[at.on].orders \subseteq at.armed
        /\ \A b \in CourseId \ {at.on} : ret'[b] = ret[b]
    BY <1>3, WrittenTyped
  <2>2. CASE a = at.on
    <3>1. at.armed \subseteq Keyed(a)
      BY <2>1, <2>2 DEF KeyInv, AlarmTold
    <3>2. QED
      BY <1>0, <2>1, <2>2, <3>1 DEF RetTold
  <2>3. CASE a # at.on
    BY <1>1, <2>1, <2>3
  <2>4. QED
    BY <2>2, <2>3
<1>4. CASE Crash \/ SetConfig
  <2>1. ret' = saved.ret
    BY <1>4, ReloadTyped
  <2>2. QED
    BY <1>1, <2>1
<1>5. CASE \/ UNCHANGED vars
           \/ \E c \in CourseId, t \in Task, os \in world.voyages : Assign(c, t, os)
           \/ \E c \in CourseId : Requeue(c) \/ TakeBack(c)
           \/ \E o \in Order : NameSupplier(o) \/ RetireBegins(o)
           \/ \E o \in Order : ProduceRests(o) \/ ProduceSends(o)
           \/ RetireEnds \/ Board \/ AlarmStarts \/ ProduceDone \/ AlarmEnds
           \/ \E c \in CourseId, o \in Order : PickupVerified(c, o)
           \/ \E call \in Calls : OpenAnswered(call) \/ ArmAnswered(call)
           \/ \E call \in Calls, o \in Order : KeyAnswered(o, call)
           \/ \E c \in CourseId : KeysBegin(c) \/ KeysRest(c)
  <2>1. ret' = ret
    BY <1>5 DEF vars, mem, Assign, Requeue, TakeBack, NameSupplier, RetireBegins, ProduceRests,
       ProduceSends, RetireEnds, Board, AlarmStarts, ProduceDone, AlarmEnds, PickupVerified,
       OpenAnswered, ArmAnswered, KeyAnswered, KeysBegin, KeysRest
  <2>2. QED
    BY <1>1, <2>1
<1>6. QED
  BY <1>0, <1>2, <1>3, <1>4, <1>5, StepCases

\* What the alarm says of the return it is arming stays true.
LEMMA AlarmTells ==
  ASSUME BooksInv, KeyInv, [Next]_vars
  PROVE  AlarmTold'
<1>0. TypeOK /\ KeysGrow /\ (\A a : Keyed(a) \subseteq Keyed(a)') /\ AlarmTold
  BY StepKeys, KeyedGrows DEF BooksInv, KeyInv
<1>1. at.step \in Key => at.on \in CourseId
  BY DEF BooksInv, AlarmFits
<1>2. at.left \subseteq Order
  BY <1>0, AlarmParts
<1>3. ASSUME at' = at PROVE AlarmTold'
  <2>1. \A a : ReturnRead(a)' = ReturnRead(a)
    BY <1>3 DEF ReturnRead
  <2>2. \A a \in CourseId : ReturnRead(a)' # None => ReturnRead(a)'.armed \subseteq Keyed(a)'
    BY <1>0, <2>1 DEF AlarmTold
  <2>3. at'.step \in Key => at'.armed \subseteq Keyed(at.on)'
    BY <1>0, <1>3 DEF AlarmTold
  <2>4. at'.step = "seller" => \A o \in at'.left : <<at'.on, "rider">> \in cust'[o].keys
    BY <1>0, <1>2, <1>3 DEF AlarmTold, KeysGrow
  <2>5. QED
    BY <1>3, <2>2, <2>3, <2>4 DEF AlarmTold, Keyed
<1>4. ASSUME at'.step \notin Arming PROVE AlarmTold'
  BY <1>4 DEF AlarmTold, ReturnRead, Arming, Key
<1>5. ASSUME at.step \in Arming, at'.step \in Arming, at'.rets = at.rets
      PROVE  \A a \in CourseId : ReturnRead(a)' # None => ReturnRead(a)'.armed \subseteq Keyed(a)'
  <2>1. \A a : ReturnRead(a)' = ReturnRead(a)
    BY <1>5 DEF ReturnRead
  <2>2. QED
    BY <1>0, <2>1 DEF AlarmTold
<1>6. CASE \/ UNCHANGED vars
           \/ \E c \in CourseId, t \in Task, os \in world.voyages : Assign(c, t, os)
           \/ \E c \in CourseId : Requeue(c) \/ TakeBack(c)
           \/ \E c \in CourseId : (\E o \in Order : ReturnOpened(o, c)) \/ ReturnConfirmed(c)
           \/ \E o \in Order : NameSupplier(o) \/ RetireBegins(o)
           \/ RetireEnds \/ Board
           \/ \E c \in CourseId, o \in Order : PickupVerified(c, o)
  <2>1. at' = at
    BY <1>6 DEF vars, Assign, Requeue, TakeBack, ReturnOpened, ReturnConfirmed, NameSupplier,
       RetireBegins, RetireEnds, Board, PickupVerified
  <2>2. QED
    BY <1>3, <2>1
<1>7. CASE \/ AlarmStarts \/ AlarmEnds \/ Crash \/ SetConfig
           \/ \E o \in Order : ProduceRests(o)
           \/ \E o \in Order : ProduceSends(o)
           \/ \E call \in Calls : OpenAnswered(call)
           \/ \E call \in Calls : ArmAnswered(call)
  <2>1. CASE AlarmStarts
    BY <1>4, <2>1, AlarmStarted DEF Arming
  <2>2. CASE AlarmEnds
    BY <1>4, <2>2, EndsTyped DEF Arming
  <2>3. CASE Crash \/ SetConfig
    BY <1>4, <2>3, ReloadTyped DEF Arming
  <2>4. CASE \E o \in Order : ProduceRests(o)
    <3>1. at'.step \in Reading
      BY <2>4, RestsTyped
    <3>2. QED
      BY <1>4, <3>1 DEF Arming, Reading
  <2>5. CASE \E o \in Order : ProduceSends(o)
    <3>1. at'.step \in Reading
      BY <2>5, SendsTyped
    <3>2. QED
      BY <1>4, <3>1 DEF Arming, Reading
  <2>6. CASE \E call \in Calls : OpenAnswered(call)
    <3>1. at'.step \in Reading
      BY <2>6, OpenTyped
    <3>2. QED
      BY <1>4, <3>1 DEF Arming, Reading
  <2>7. CASE \E call \in Calls : ArmAnswered(call)
    <3>1. at'.step \in Reading
      BY <2>7, ArmTyped
    <3>2. QED
      BY <1>4, <3>1 DEF Arming, Reading
  <2>8. QED
    BY <1>7, <2>1, <2>2, <2>3, <2>4, <2>5, <2>6, <2>7
<1>8. CASE ProduceDone
  <2>1. at'.step = "keys" /\ at'.rets = ret
    BY <1>8, ProducedTyped
  <2>2. \A a : ReturnRead(a)' = ret[a]
    BY <2>1 DEF ReturnRead, Arming
  <2>3. \A a \in CourseId : ReturnRead(a)' # None => ReturnRead(a)'.armed \subseteq Keyed(a)'
    BY <1>0, <2>2 DEF KeyInv, RetTold
  <2>4. QED
    BY <2>1, <2>3 DEF AlarmTold, Key
<1>9. CASE \E c \in CourseId : KeysRest(c)
  <2>1. at.step = "keys" /\ at'.step = "keys" /\ at'.rets = at.rets
    BY <1>9, KeysRestTyped
  <2>2. QED
    BY <1>5, <2>1 DEF AlarmTold, Arming, Key
<1>10. CASE KeysWritten
  <2>1. at.step \in Key /\ at'.step = "keys" /\ at'.rets = at.rets
    BY <1>10, WrittenTyped
  <2>2. at.step \in Arming /\ at'.step \in Arming
    BY <2>1 DEF Arming, Key
  <2>3. QED
    BY <1>5, <2>1, <2>2 DEF AlarmTold, Key
<1>11. CASE \E c \in CourseId : KeysBegin(c)
  <2>1. PICK c \in CourseId : KeysBegin(c)
    BY <1>11
  <2>2. /\ at.step \in Arming /\ at'.step = "rider" /\ at'.rets = at.rets
        /\ at'.on = c /\ at.rets[c] # None /\ at'.armed = at.rets[c].armed
    BY <2>1, KeysBeginTyped
  <2>3. ReturnRead(c) = at.rets[c]
    BY <2>2 DEF ReturnRead
  <2>4. at'.armed \subseteq Keyed(c)'
    BY <1>0, <2>2, <2>3 DEF AlarmTold
  <2>5. \A a \in CourseId : ReturnRead(a)' # None => ReturnRead(a)'.armed \subseteq Keyed(a)'
    BY <1>5, <2>2 DEF Arming
  <2>6. at'.armed \subseteq Keyed(at.on)'
    BY <2>2, <2>4 DEF Keyed
  <2>7. QED
    BY <2>2, <2>5, <2>6 DEF AlarmTold
<1>12. CASE \E call \in Calls, o \in Order : KeyAnswered(o, call)
  <2>1. PICK call \in Calls, o \in Order : KeyAnswered(o, call)
    BY <1>12
  <2>2. /\ at.step \in Key /\ at'.step \in Key /\ at'.rets = at.rets
        /\ at'.on = at.on /\ at.on \in CourseId /\ o \in at.left
        /\ call.heard => <<at.on, at.step>> \in cust'[o].keys
    BY <2>1, KeyTyped
  <2>3. \/ at'.step = "rider" /\ at'.armed = at.armed
        \/ /\ call.heard /\ at.step = "rider" /\ at'.step = "seller"
           /\ at'.left = {o} /\ at'.armed = at.armed
        \/ /\ call.heard /\ at.step = "seller" /\ at'.step = "rider"
           /\ at'.armed = at.armed \cup {o}
    BY <2>1, KeyTyped
  <2>4. at.step \in Arming /\ at'.step \in Arming
    BY <2>2 DEF Arming, Key
  <2>5. \A a \in CourseId : ReturnRead(a)' # None => ReturnRead(a)'.armed \subseteq Keyed(a)'
    BY <1>5, <2>2, <2>4
  <2>6. at.armed \subseteq Keyed(at.on)
    BY <1>0, <2>2 DEF AlarmTold
  <2>7. \A p \in at.armed : p \in Order /\ {at.on} \X Key \subseteq cust'[p].keys
    BY <1>0, <2>6 DEF Keyed, KeysGrow
  <2>8. at.step = "seller" /\ call.heard => {at.on} \X Key \subseteq cust'[o].keys
    <3> SUFFICES ASSUME at.step = "seller", call.heard
                 PROVE  {at.on} \X Key \subseteq cust'[o].keys
      OBVIOUS
    <3>1. <<at.on, "rider">> \in cust[o].keys
      BY <1>0, <2>2 DEF AlarmTold
    <3>2. <<at.on, "rider">> \in cust'[o].keys /\ <<at.on, "seller">> \in cust'[o].keys
      BY <1>0, <2>2, <3>1 DEF KeysGrow
    <3>3. QED
      BY <3>2 DEF Key
  <2>9. \A p \in at'.armed : p \in Order /\ {at.on} \X Key \subseteq cust'[p].keys
    BY <2>3, <2>7, <2>8
  <2>10. at'.armed \subseteq Keyed(at.on)'
    BY <2>2, <2>9 DEF Keyed
  <2>11. at'.step = "seller" => \A p \in at'.left : <<at'.on, "rider">> \in cust'[p].keys
    BY <2>2, <2>3
  <2>12. QED
    BY <2>5, <2>10, <2>11 DEF AlarmTold
<1>13. QED
  BY <1>0, <1>6, <1>7, <1>8, <1>9, <1>10, <1>11, <1>12, StepCases

\* What is said of the keys stays true.
LEMMA NextKeys == BooksInv /\ KeyInv /\ [Next]_vars => KeyInv'
<1> SUFFICES ASSUME BooksInv, KeyInv, [Next]_vars PROVE KeyInv'
  OBVIOUS
<1>1. ASSUME NEW a \in CourseId
      PROVE  RetTold(a, ret[a])' /\ RetTold(a, saved.ret[a])'
  <2>1. RetTold(a, ret[a])'
    BY ReturnInMemory
  <2>2. saved'.ret[a] \in {ret'[a], saved.ret[a], ret[a]}
    BY StoredReturn
  <2>3. Keyed(a) \subseteq Keyed(a)' /\ RetTold(a, ret[a]) /\ RetTold(a, saved.ret[a])
    BY StepKeys, KeyedGrows DEF KeyInv
  <2>4. RetTold(a, saved.ret[a])'
    BY <2>1, <2>2, <2>3 DEF RetTold
  <2>5. QED
    BY <2>1, <2>4
<1>2. AlarmTold'
  BY AlarmTells
<1>3. QED
  BY <1>1, <1>2 DEF KeyInv

\* And is at the start, when nothing is.
LEMMA InitKeys == Init => KeyInv
<1> SUFFICES ASSUME Init PROVE KeyInv
  OBVIOUS
<1>1. ret = [a \in CourseId |-> None] /\ saved.ret = ret /\ at = Idle
  BY DEF Init, Image
<1>2. at.step = "idle"
  BY <1>1, IdleTyped
<1>3. AlarmTold
  BY <1>2 DEF AlarmTold, ReturnRead, Arming, Key
<1>4. QED
  BY <1>1, <1>3 DEF KeyInv, RetTold

\* A return is said to be armed only when each article now in the bag has both
\* keys on custody, one that joined while the alarm was waiting included.
THEOREM ArmedReturnIsOpenable == Spec => []ArmedMeansEveryKey
<1>1. BooksInv /\ KeyInv => ArmedMeansEveryKey
  <2> SUFFICES ASSUME BooksInv, KeyInv, NEW a \in CourseId, ret[a] # None,
                      ret[a].phase = "done", NEW o \in ret[a].orders
               PROVE  {a} \X Key \subseteq cust[o].keys
    BY DEF ArmedMeansEveryKey
  <2>1. o \in Keyed(a)
    BY DEF KeyInv, RetTold
  <2>2. QED
    BY <2>1 DEF Keyed
<1>2. QED
  BY InitBooks, NextBooks, InitKeys, NextKeys, <1>1, PTL DEF Spec

=============================================================================
