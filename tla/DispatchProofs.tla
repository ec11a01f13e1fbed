--------------------------- MODULE DispatchProofs ---------------------------
(***************************************************************************)
(* One authority, proved: for any number of tasks, riders, courses and     *)
(* command ids, through every door of the logistics object, its sweeps,    *)
(* its retirements and its restarts, a task is leased to one rider and a   *)
(* rider to one task.                                                      *)
(*                                                                         *)
(* Pairwise uniqueness alone is enough for a grant; what the proof carries *)
(* along is that a grant is named by a version never used before, which is *)
(* what the witness, the rollback ids and a remembered grant rest on.  The *)
(* saved image keeps the same invariant, so that a restart may fall        *)
(* anywhere.                                                               *)
(*                                                                         *)
(* Over it, the queue and the book tell one story in every setting: a task *)
(* has one home.  The second half ties both to the leases.                 *)
(***************************************************************************)
EXTENDS Dispatch, TLAPS, FiniteSetTheorems

Answers == [CommandId -> Outcome \cup {Unseen}]

\* A state of the authority in which every lease is well named and no two
\* active ones share a task or a rider.
LeaseInv(s) ==
    /\ s = [leases |-> s.leases, versions |-> s.versions, applied |-> s.applied]
    /\ s.leases \subseteq Lease
    /\ s.versions \in [TaskId -> 0..MaxVersion]
    /\ s.applied \in Answers
    /\ OneLease(s)
    /\ NamedOnce(s)
    /\ NewestOnly(s)

-----------------------------------------------------------------------------
(* The decision function.                                                  *)

\* A rewriting of the leases that keeps every name and wakes none up.
Fading(s, S) ==
    \A m \in S : \E l \in s.leases :
        /\ refOf(m) = refOf(l) /\ m \in Lease
        /\ m.status = "active" => l.status = "active"
\* ... and keeps them apart: one lease of the result for each name.
KeepsNames(s, S) == \A m, n \in S : refOf(m) = refOf(n) => m = n

LEMMA FadingKeeps ==
  ASSUME NEW s, LeaseInv(s), NEW S, NEW applied \in Answers, Fading(s, S), KeepsNames(s, S)
  PROVE  LeaseInv([leases |-> S, versions |-> s.versions, applied |-> applied])
<1> DEFINE z == [leases |-> S, versions |-> s.versions, applied |-> applied]
<1>1. z.leases = S /\ z.versions = s.versions /\ z.applied = applied
  OBVIOUS
<1>2. S \subseteq Lease
  BY DEF Fading
<1>3. \A m \in S : \E l \in s.leases :
         /\ m.taskId = l.taskId /\ m.riderId = l.riderId /\ m.version = l.version
         /\ m.status = "active" => l.status = "active"
  <2> SUFFICES ASSUME NEW m \in S
               PROVE \E l \in s.leases :
                   /\ m.taskId = l.taskId /\ m.riderId = l.riderId /\ m.version = l.version
                   /\ m.status = "active" => l.status = "active"
    OBVIOUS
  <2>1. PICK l \in s.leases : /\ refOf(m) = refOf(l)
                              /\ m.status = "active" => l.status = "active"
    BY DEF Fading
  <2>2. m.taskId = l.taskId /\ m.riderId = l.riderId /\ m.version = l.version
    BY <2>1 DEF refOf
  <2>3. QED
    BY <2>1, <2>2
<1>4. \A m, n \in S : m.taskId = n.taskId /\ m.version = n.version => m = n
  <2> SUFFICES ASSUME NEW m \in S, NEW n \in S, m.taskId = n.taskId, m.version = n.version
               PROVE m = n
    OBVIOUS
  <2>1. m.riderId = n.riderId
    BY <1>3 DEF LeaseInv, NamedOnce
  <2>2. refOf(m) = refOf(n)
    BY <2>1 DEF refOf
  <2>3. QED
    BY <2>2 DEF KeepsNames
<1>5. NamedOnce(z)
  BY <1>1, <1>3, <1>4 DEF LeaseInv, NamedOnce
<1>6. NewestOnly(z)
  BY <1>1, <1>3 DEF LeaseInv, NewestOnly, Active
<1>7. OneLease(z)
  <2> SUFFICES ASSUME NEW m \in S, NEW n \in S, m.status = "active", n.status = "active",
                      m.taskId = n.taskId \/ m.riderId = n.riderId
               PROVE m = n
    BY <1>1 DEF OneLease, Active
  <2>1. m.taskId = n.taskId /\ m.version = n.version
    BY <1>3 DEF LeaseInv, OneLease, Active
  <2>2. QED
    BY <1>4, <2>1
<1>8. QED
  BY <1>1, <1>2, <1>5, <1>6, <1>7 DEF LeaseInv

\* What an accepted command leaves in the memory of answers.
LEMMA AnswerTyped ==
  ASSUME NEW s, LeaseInv(s), NEW id, NEW L, L \subseteq Lease,
         NEW kind \in {"acquire", "release", "anchor", "expire_due"}
  PROVE  [s.applied EXCEPT ![id] = [kind |-> kind, refs |-> {refOf(l) : l \in L}]] \in Answers
<1>1. \A l \in L : refOf(l) \in LeaseRef
  BY DEF Lease, LeaseRef, refOf
<1>2. [kind |-> kind, refs |-> {refOf(l) : l \in L}] \in Outcome
  BY <1>1 DEF Outcome
<1>3. QED
  BY <1>2 DEF LeaseInv, Answers

\* Two leases of one state with one name are the same lease.
LEMMA NameIsLease ==
  ASSUME NEW s, LeaseInv(s), NEW l \in s.leases, NEW m \in s.leases, refOf(l) = refOf(m)
  PROVE  l = m
<1>1. l.taskId = m.taskId /\ l.version = m.version
  BY DEF refOf
<1>2. QED
  BY <1>1 DEF LeaseInv, NamedOnce

\* Ending the leases of any set: what a release, a sweep and a retirement do.
LEMMA EndingFades ==
  ASSUME NEW s, LeaseInv(s), NEW D, NEW status \in {"released", "expired"}
  PROVE  /\ Fading(s, Ending(s.leases, D, status))
         /\ KeepsNames(s, Ending(s.leases, D, status))
<1> DEFINE f(l) == [l EXCEPT !.status = IF l \in D THEN status ELSE @]
<1>1. \A l \in s.leases : /\ refOf(f(l)) = refOf(l) /\ f(l) \in Lease
                          /\ f(l).status = "active" => l.status = "active"
  BY DEF LeaseInv, Lease, refOf
<1> HIDE DEF f
<1>2. Fading(s, {f(l) : l \in s.leases})
  BY <1>1 DEF Fading
<1>3. \A l, m \in s.leases : refOf(f(l)) = refOf(f(m)) => f(l) = f(m)
  BY <1>1, NameIsLease
<1>4. KeepsNames(s, {f(l) : l \in s.leases})
  BY <1>3 DEF KeepsNames
<1>5. QED
  BY <1>2, <1>4 DEF f, Ending

\* Anchoring the leases of any set.
LEMMA AnchoringFades ==
  ASSUME NEW s, LeaseInv(s), NEW D
  PROVE  /\ Fading(s, Anchoring(s.leases, D))
         /\ KeepsNames(s, Anchoring(s.leases, D))
<1> DEFINE f(l) == [l EXCEPT !.anchored = (l \in D) \/ @]
<1>1. \A l \in s.leases : /\ refOf(f(l)) = refOf(l) /\ f(l) \in Lease
                          /\ f(l).status = l.status
  BY DEF LeaseInv, Lease, refOf
<1> HIDE DEF f
<1>2. Fading(s, {f(l) : l \in s.leases})
  BY <1>1 DEF Fading
<1>3. \A l, m \in s.leases : refOf(f(l)) = refOf(f(m)) => f(l) = f(m)
  BY <1>1, NameIsLease
<1>4. KeepsNames(s, {f(l) : l \in s.leases})
  BY <1>3 DEF KeepsNames
<1>5. QED
  BY <1>2, <1>4 DEF f, Anchoring

LEMMA AcquireKeeps ==
  ASSUME NEW s, LeaseInv(s), NEW cmd,
         cmd.kind = "acquire", cmd.taskId \in TaskId, cmd.riderId \in Rider, cmd.at \in Nat
  PROVE  LeaseInv(Acquire(s, cmd).state)
<1>1. CASE Acquire(s, cmd) = Refused(s)
  BY <1>1 DEF Refused
<1>2. CASE Acquire(s, cmd) # Refused(s)
  <2> DEFINE v == s.versions[cmd.taskId] + 1
             g == [taskId |-> cmd.taskId, riderId |-> cmd.riderId,
                   version |-> v, status |-> "active",
                   expiresAt |-> cmd.at + TTL, anchored |-> FALSE]
             z == Acquire(s, cmd).state
  <2>1. /\ \A l \in Active(s) : l.riderId # cmd.riderId /\ l.taskId # cmd.taskId
        /\ s.versions[cmd.taskId] < MaxVersion
    BY <1>2, VersionAssumption DEF Acquire, LeaseInv
  <2>2. /\ z = [leases |-> z.leases, versions |-> z.versions, applied |-> z.applied]
        /\ z.leases = s.leases \cup {g}
        /\ z.versions = [s.versions EXCEPT ![cmd.taskId] = v]
        /\ z.applied = [s.applied EXCEPT ![cmd.id] = [kind |-> cmd.kind, refs |-> {refOf(g)}]]
    BY <1>2 DEF Acquire, Applied
  <2>3. v \in Version /\ v \in 0..MaxVersion
    BY <2>1, VersionAssumption DEF LeaseInv, Version
  <2>4. g \in Lease
    BY <2>3, TTLAssumption DEF Lease
  <2>5. g.taskId = cmd.taskId /\ g.riderId = cmd.riderId /\ g.version = v /\ g.status = "active"
    OBVIOUS
  <2> HIDE DEF g, z
  <2>6. z.versions \in [TaskId -> 0..MaxVersion] /\ z.leases \subseteq Lease
    BY <2>2, <2>3, <2>4 DEF LeaseInv
  <2>12. z.applied \in Answers
    <3>1. {refOf(l) : l \in {g}} = {refOf(g)}
      OBVIOUS
    <3>2. [s.applied EXCEPT ![cmd.id] =
              [kind |-> "acquire", refs |-> {refOf(l) : l \in {g}}]] \in Answers
      BY <2>4, AnswerTyped
    <3>3. QED
      BY <2>2, <3>1, <3>2
  <2>7. \A l \in s.leases : l.taskId = cmd.taskId => l.version < v
    BY VersionAssumption DEF LeaseInv, NamedOnce, Lease, Version
  <2>8. OneLease(z)
    BY <2>1, <2>2, <2>5 DEF OneLease, Active, LeaseInv
  <2>9. NamedOnce(z)
    <3>1. \A l \in z.leases : l.version <= z.versions[l.taskId]
      BY <2>2, <2>3, <2>5, <2>7, VersionAssumption DEF NamedOnce, LeaseInv, Lease, Version
    <3>2. \A l, m \in z.leases : l.taskId = m.taskId /\ l.version = m.version => l = m
      BY <2>2, <2>3, <2>5, <2>7, VersionAssumption DEF NamedOnce, LeaseInv, Lease, Version
    <3>3. QED
      BY <3>1, <3>2 DEF NamedOnce
  <2>10. NewestOnly(z)
    BY <2>1, <2>2, <2>3, <2>5 DEF NewestOnly, Active, LeaseInv, Lease
  <2>11. QED
    BY <2>2, <2>6, <2>8, <2>9, <2>10, <2>12 DEF LeaseInv, z
<1>3. QED
  BY <1>1, <1>2

LEMMA ReleaseKeeps ==
  ASSUME NEW s, LeaseInv(s), NEW cmd, cmd.kind = "release"
  PROVE  LeaseInv(Release(s, cmd).state)
<1> DEFINE S == Ending(s.leases, ActiveOn(s, cmd.taskId), "released")
           answered == [s.applied EXCEPT ![cmd.id] =
                           [kind |-> cmd.kind, refs |-> {refOf(l) : l \in ActiveOn(s, cmd.taskId)}]]
<1>1. Fading(s, S) /\ KeepsNames(s, S)
  BY EndingFades
<1>2. ActiveOn(s, cmd.taskId) \subseteq Lease
  BY DEF LeaseInv, ActiveOn, Active
<1>3. answered \in Answers
  BY <1>2, AnswerTyped
<1> HIDE DEF S, answered
<1>4. LeaseInv([leases |-> S, versions |-> s.versions, applied |-> answered])
  BY <1>1, <1>3, FadingKeeps
<1>5. QED
  BY <1>4 DEF Release, Refused, Applied, S, answered

LEMMA AnchorKeeps ==
  ASSUME NEW s, LeaseInv(s), NEW cmd, cmd.kind = "anchor"
  PROVE  LeaseInv(Anchor(s, cmd).state)
<1> DEFINE S == Anchoring(s.leases, ActiveOn(s, cmd.taskId))
           answered == [s.applied EXCEPT ![cmd.id] =
                           [kind |-> cmd.kind, refs |-> {refOf(l) : l \in ActiveOn(s, cmd.taskId)}]]
<1>1. Fading(s, S) /\ KeepsNames(s, S)
  BY AnchoringFades
<1>2. ActiveOn(s, cmd.taskId) \subseteq Lease
  BY DEF LeaseInv, ActiveOn, Active
<1>3. answered \in Answers
  BY <1>2, AnswerTyped
<1> HIDE DEF S, answered
<1>4. LeaseInv([leases |-> S, versions |-> s.versions, applied |-> answered])
  BY <1>1, <1>3, FadingKeeps
<1>5. QED
  BY <1>4 DEF Anchor, Refused, Applied, S, answered

LEMMA ExpireKeeps ==
  ASSUME NEW s, LeaseInv(s), NEW cmd, cmd.kind = "expire_due"
  PROVE  LeaseInv(ExpireDue(s, cmd).state)
<1> DEFINE S == Ending(s.leases, Due(s, cmd.now), "expired")
           answered == [s.applied EXCEPT ![cmd.id] =
                           [kind |-> cmd.kind, refs |-> {refOf(l) : l \in Due(s, cmd.now)}]]
<1>1. Fading(s, S) /\ KeepsNames(s, S)
  BY EndingFades
<1>2. Due(s, cmd.now) \subseteq Lease
  BY DEF LeaseInv, Due, Active
<1>3. answered \in Answers
  BY <1>2, AnswerTyped
<1> HIDE DEF S, answered
<1>4. LeaseInv([leases |-> S, versions |-> s.versions, applied |-> answered])
  BY <1>1, <1>3, FadingKeeps
<1>5. QED
  BY <1>4 DEF ExpireDue, Applied, S, answered

\* Whatever the command, seen before or not, the decision keeps the invariant.
LEMMA DecisionKeeps ==
  ASSUME NEW s, LeaseInv(s), NEW cmd,
         cmd.kind \in {"acquire", "release", "anchor", "expire_due"},
         cmd.kind = "acquire" => /\ cmd.taskId \in TaskId /\ cmd.riderId \in Rider
                                 /\ cmd.at \in Nat
  PROVE  LeaseInv(decideLease(s, cmd).state)
<1>1. CASE IsReplay(s, cmd)
  BY <1>1 DEF decideLease, Replayed
<1>2. CASE ~IsReplay(s, cmd)
  BY <1>2, AcquireKeeps, ReleaseKeeps, AnchorKeeps, ExpireKeeps DEF decideLease
<1>3. QED
  BY <1>1, <1>2

LEMMA EmptyKeeps == LeaseInv(emptyLeaseState)
BY VersionAssumption DEF LeaseInv, emptyLeaseState, OneLease, NamedOnce, NewestOnly, Active,
       Answers

-----------------------------------------------------------------------------
(* The authority alone, under any sequence of commands.                    *)

LEMMA LeaseCommandKeeps ==
  ASSUME LeaseInv(leaseState), NEW cmd \in LeaseCommand
  PROVE  LeaseInv(decideLease(leaseState, cmd).state)
<1>1. /\ cmd.kind \in {"acquire", "release", "anchor", "expire_due"}
      /\ cmd.kind = "acquire" => cmd.taskId \in TaskId /\ cmd.riderId \in Rider /\ cmd.at \in Nat
  BY TimeAssumption DEF LeaseCommand
<1>2. QED
  BY <1>1, DecisionKeeps

\* SE-I01 of the authority by itself: whatever commands arrive, in whatever
\* order and however often, every lease stays well named and no task or rider
\* is leased twice (assignment-lease.ts decideLease).
THEOREM AuthorityInvariant == LeaseSpec => []LeaseInv(leaseState)
<1>1. LeaseInit => LeaseInv(leaseState)
  BY EmptyKeeps DEF LeaseInit
<1>2. LeaseInv(leaseState) /\ [LeaseNext]_leaseState => LeaseInv(leaseState)'
  BY LeaseCommandKeeps DEF LeaseNext, Send
<1>3. QED
  BY <1>1, <1>2, PTL DEF LeaseSpec

-----------------------------------------------------------------------------
(* The authority inside the object: every door, the sweeps, the restarts.  *)

DoorInv ==
    /\ world \in Worlds
    /\ clock \in Nat
    /\ LeaseInv(leaseState)
    /\ LeaseInv(saved.leaseState)

LEMMA DoorInit == Init => DoorInv
BY EmptyKeeps DEF Init, LeaseInit, DoorInv, Image

\* A door that leaves the leases well named saves them so.
LEMMA DoorSaves ==
  ASSUME DoorInv, LeaseInv(leaseState'), UNCHANGED <<world, clock>>,
         Persist \/ UNCHANGED saved
  PROVE  DoorInv'
BY DEF DoorInv, Persist, Image

\* The console's « confier »: the grant, and the release that takes it back
\* when the book refuses.
LEMMA AssignKeeps ==
  ASSUME DoorInv, NEW c, NEW t \in TaskId, NEW r \in Rider, NEW a, Assign(c, t, r, a)
  PROVE  LeaseInv(leaseState')
<1> DEFINE d == decideLease(leaseState, AcquireCmd(c, t, r))
           ref == CHOOSE x \in d.refs : TRUE
           rollback == ReleaseCmd(<<"rollback", c, ref.version>>, t)
<1>1. LeaseInv(d.state)
  BY DecisionKeeps DEF DoorInv, AcquireCmd
<1>2. rollback.kind = "release"
  BY DEF ReleaseCmd
<1>3. leaseState' = d.state \/ leaseState' = decideLease(d.state, rollback).state
  BY DEF Assign
<1> HIDE DEF d, rollback
<1>4. LeaseInv(decideLease(d.state, rollback).state)
  BY <1>1, <1>2, DecisionKeeps
<1>5. QED
  BY <1>1, <1>3, <1>4

\* The other doors send one command each.
LEMMA CommandKeeps ==
  ASSUME DoorInv, NEW cmd, cmd.kind \in {"release", "anchor", "expire_due"},
         leaseState' = decideLease(leaseState, cmd).state
  PROVE  LeaseInv(leaseState')
BY DecisionKeeps DEF DoorInv

\* A retirement ends the leases it finds without a command.
LEMMA RetireKeeps ==
  ASSUME DoorInv, NEW o, Retire(o)
  PROVE  LeaseInv(leaseState')
<1>1. PICK freed : leaseState' = [leaseState EXCEPT !.leases = Ending(@, freed, "released")]
  BY DEF Retire
<1>2. leaseState' = [leases |-> Ending(leaseState.leases, freed, "released"),
                     versions |-> leaseState.versions, applied |-> leaseState.applied]
  BY <1>1 DEF DoorInv, LeaseInv
<1>3. leaseState.applied \in Answers
  BY DEF DoorInv, LeaseInv
<1>4. QED
  BY <1>2, <1>3, EndingFades, FadingKeeps DEF DoorInv

LEMMA RawDoorKeeps ==
  ASSUME DoorInv, NEW cmd \in RawCmds, RawDoor(cmd)
  PROVE  LeaseInv(leaseState')
<1>1. world.tasks \subseteq TaskId
  BY WorldsAssumption DEF DoorInv
<1>2. /\ cmd.kind \in {"acquire", "release"}
      /\ cmd.kind = "acquire" => cmd.taskId \in TaskId /\ cmd.riderId \in Rider /\ cmd.at \in Nat
  BY <1>1 DEF RawCmds, DoorInv
<1>3. QED
  BY <1>2, DecisionKeeps DEF RawDoor, DoorInv

LEMMA DoorStep == DoorInv /\ [Next]_vars => DoorInv'
<1> SUFFICES ASSUME DoorInv, [Next]_vars PROVE DoorInv'
  OBVIOUS
<1>1. CASE Facts
  BY <1>1, DoorSaves DEF Facts, FactsChange, ShiftChange, books, DoorInv
<1>2. CASE Tick
  BY <1>2 DEF Tick, books, DoorInv
<1>3. CASE Queue
  BY <1>3, DoorSaves DEF Queue, TaskReady, ComposeTask, DoorInv
<1>4. CASE RiderActs
  <2>1. PICK a \in AssignmentId : Acknowledge(a) \/ AcknowledgeOffline(a) \/ Decline(a)
    BY <1>4 DEF RiderActs
  <2>2. CASE Acknowledge(a)
    BY <2>2, CommandKeeps, DoorSaves DEF Acknowledge
  <2>3. CASE AcknowledgeOffline(a)
    BY <2>3, DoorSaves DEF AcknowledgeOffline, DoorInv
  <2>4. CASE Decline(a)
    BY <2>4, CommandKeeps, DoorSaves DEF Decline, ReleaseCmd
  <2>5. QED
    BY <2>1, <2>2, <2>3, <2>4
<1>5. CASE OpsActs
  <2>1. ASSUME NEW c \in AssignCommand, NEW t \in TaskId, NEW r \in Rider,
               NEW a \in AssignmentId, Assign(c, t, r, a)
        PROVE  DoorInv'
    BY <2>1, AssignKeeps, DoorSaves DEF Assign
  <2>2. ASSUME NEW a \in AssignmentId, TakeBack(a) PROVE DoorInv'
    BY <2>2, CommandKeeps, DoorSaves DEF TakeBack, ReleaseCmd
  <2>3. ASSUME NEW a \in AssignmentId, NEW n \in TaskId, Reprogram(a, n) PROVE DoorInv'
    BY <2>3, DoorSaves DEF Reprogram, DoorInv
  <2>4. ASSUME NEW now, OpsSweep(now) PROVE DoorInv'
    BY <2>4, CommandKeeps, DoorSaves DEF OpsSweep, Sweep
  <2>5. ASSUME NEW o \in Order, Retire(o) PROVE DoorInv'
    BY <2>5, RetireKeeps, DoorSaves DEF Retire
  <2>6. ASSUME NEW cmd \in RawCmds, RawDoor(cmd) PROVE DoorInv'
    BY <2>6, RawDoorKeeps, DoorSaves DEF RawDoor
  <2>7. QED
    BY <1>5, <2>1, <2>2, <2>3, <2>4, <2>5, <2>6 DEF OpsActs
<1>6. CASE CustodyReports
  <2>1. ASSUME NEW a \in AssignmentId, RecordReschedule(a) PROVE DoorInv'
    BY <2>1, DoorSaves DEF RecordReschedule, DoorInv
  <2>2. ASSUME NEW a, NEW o, NEW outcome, Complete(o, a, outcome) PROVE DoorInv'
    BY <2>2, CommandKeeps, DoorSaves DEF Complete, ReleaseCmd
  <2>3. QED
    BY <1>6, <2>1, <2>2 DEF CustodyReports, Deliver, ReturnToSupplier
<1>7. CASE BoardSweep
  BY <1>7, CommandKeeps, DoorSaves DEF BoardSweep, Sweep
<1>8. CASE Restart
  BY <1>8 DEF Restart, DoorInv
<1>9. CASE UNCHANGED vars
  BY <1>9 DEF vars, books, DoorInv
<1>10. QED
  BY <1>1, <1>2, <1>3, <1>4, <1>5, <1>6, <1>7, <1>8, <1>9 DEF Next

\* What the object holds and what it last saved are both well named.
THEOREM DoorInvariant == Spec => []DoorInv
BY DoorInit, DoorStep, PTL DEF Spec

\* SE-I01 through every door: replays, rollbacks, sweeps, retirements, raw
\* commands and restarts never leave a task or a rider with two active leases
\* (leased-assignment.ts LeasedDispatch, logistics-do.ts).
THEOREM OneAuthorityThroughout == Spec => []OneAuthority
<1>1. DoorInv => OneAuthority
  BY DEF DoorInv, LeaseInv, OneAuthority
<1>2. QED
  BY <1>1, DoorInvariant, PTL

\* A task and a version name one lease for ever, whatever was released, swept
\* or replayed: the witness and the rollback ids rest on it.
THEOREM NamesHold == Spec => []VersionsNameLeases
<1>1. DoorInv => VersionsNameLeases
  BY DEF DoorInv, LeaseInv, VersionsNameLeases
<1>2. QED
  BY <1>1, DoorInvariant, PTL

-----------------------------------------------------------------------------
(* What the storage holds.                                                 *)

Completed == {"delivered", "returned"}
\* The courses a task belongs to: under way or completed.
Holding(b) == {a \in Courses(b) : b[a].status \in ActiveStatus \cup Completed}

BookType  == [AssignmentId -> Course \cup {None}]
QueueType == [TaskId -> QueuedTask \cup {None}]

\* What the storage can hold.
Typed(wit, b, rem, ts, pr, op, lin, ga, sh) ==
    /\ wit \subseteq LeaseRef
    /\ b \in BookType
    /\ rem \in [AssignCommand -> AssignmentId \cup {None}]
    /\ ts \in QueueType
    /\ pr \subseteq ProducerTask
    /\ op \in [Order -> TaskId \cup {None}]
    /\ lin \subseteq TaskId
    /\ ga \subseteq Order /\ sh \subseteq Rider

\* A task id already given, by its producer or here.
Given(t, pr, us) == IF t \in ProducerTask THEN t \in pr ELSE t \in us
\* Every course and every row bears an id already given.
Known(b, ts, pr, us) ==
    /\ Courses(b) \subseteq us
    /\ \A t \in TaskId : ts[t] # None => Given(t, pr, us)

\* The queue and the book tell one story, in every setting: each course's row is
\* in the queue under its order, a task is assigned to exactly one course under
\* way or completed, a task taken back is closed.
OneStory(b, ts) ==
    /\ \A a \in Courses(b) :
           ts[b[a].task] # None /\ ts[b[a].task].order = b[a].order
    /\ \A a \in Holding(b) : ts[b[a].task].status = "assigned"
    /\ \A a, x \in Holding(b) : b[a].task = b[x].task => a = x
    /\ \A t \in TaskId : ts[t] # None /\ ts[t].status = "assigned" =>
           \E a \in Holding(b) : b[a].task = t
    /\ \A a \in Courses(b) : b[a].status = "taken_back_by_dispatch" =>
           ts[b[a].task].status \in Closed

TypedHere == Typed(witness, book, remembered, tasks, processed, open, lineage, gate, onShift)
TypedSaved == Typed(saved.witness, saved.book, saved.remembered, saved.tasks, saved.processed,
                    saved.open, saved.lineage, saved.gate, saved.onShift)
\* The queue and the book, here and on the disk, in every setting.
StoryHere ==
    TypedHere /\ OneStory(book, tasks) /\ Known(book, tasks, processed, used)
StorySaved ==
    TypedSaved /\ OneStory(saved.book, saved.tasks)
    /\ Known(saved.book, saved.tasks, saved.processed, used)
StoryInv ==
    /\ DoorInv
    /\ StoryHere /\ StorySaved
    /\ used \subseteq AssignmentId \cup TaskId
    /\ restarts \in 0..world.restarts

\* A minted id is the setting's and was never given.
LEMMA MintedIsNew ==
  ASSUME NEW ids, NEW x \in Minted(ids)
  PROVE  x \in ids /\ x \notin used
BY DEF Minted

\* The book z is b with another status on one course.
Restated(b, a, st, z) ==
    /\ z \in BookType /\ Courses(z) = Courses(b)
    /\ z[a].status = st /\ z[a].task = b[a].task /\ z[a].order = b[a].order
    /\ z[a].rider = b[a].rider /\ z[a].lease = b[a].lease
    /\ \A x \in Courses(b) \ {a} : z[x] = b[x]
\* The book z is b with a course a that was not there.
Written(b, a, row, z) ==
    /\ z \in BookType /\ Courses(z) = Courses(b) \cup {a}
    /\ z[a] = row /\ row # None
    /\ \A x \in Courses(b) : z[x] = b[x] /\ x # a
\* The book z is b with one course moved to another task.
Retargeted(b, a, n, z) ==
    /\ z \in BookType /\ Courses(z) = Courses(b)
    /\ z[a].task = n /\ z[a].order = b[a].order /\ z[a].status = b[a].status
    /\ z[a].rider = b[a].rider /\ z[a].lease = b[a].lease
    /\ \A x \in Courses(b) \ {a} : z[x] = b[x]
\* The queue zs is ts with the task k closed and a new one, n, assigned.
Reattempted(ts, k, n, o, zs) ==
    /\ zs \in QueueType
    /\ zs[k] # None /\ zs[k].status = "closed_rescheduled" /\ zs[k].order = ts[k].order
    /\ zs[n] # None /\ zs[n].status = "assigned" /\ zs[n].order = o
    /\ \A x \in TaskId \ {k, n} : zs[x] = ts[x]
\* A map without the entries of S.
Without(f, S) == [x \in DOMAIN f |-> IF x \in S THEN None ELSE f[x]]
\* The queue zs is ts with another status on one row.
RowRestated(ts, t, st, zs) ==
    /\ zs \in QueueType
    /\ zs[t] # None /\ zs[t].status = st /\ zs[t].order = ts[t].order
    /\ \A x \in TaskId \ {t} : zs[x] = ts[x]
\* The queue zs is ts with the open rows of S offered again.
Reoffered(ts, S, zs) ==
    /\ zs \in QueueType
    /\ \A t \in TaskId : /\ zs[t] # None <=> ts[t] # None
                         /\ zs[t] # None => zs[t].order = ts[t].order
                         /\ t \notin S => zs[t] = ts[t]
                         /\ ts[t] # None /\ ts[t].status \in Closed => zs[t] = ts[t]
                         /\ t \in S /\ ts[t] # None /\ ts[t].status \notin Closed =>
                                zs[t].status = "queued"

\* Writing a status on a course restates it.
LEMMA StatusEdit ==
  ASSUME NEW b \in BookType, NEW a \in Courses(b), NEW st \in ActiveStatus \cup EndedStatus
  PROVE  Restated(b, a, st, [b EXCEPT ![a].status = st])
<1> DEFINE z == [b EXCEPT ![a].status = st]
<1>1. a \in AssignmentId /\ b[a] \in Course
  BY DEF BookType, Courses
<1>2. z = [b EXCEPT ![a] = [b[a] EXCEPT !.status = st]]
  OBVIOUS
<1>3. [b[a] EXCEPT !.status = st] \in Course
  BY <1>1 DEF Course
<1>4. z \in BookType /\ z[a] = [b[a] EXCEPT !.status = st] /\ z[a] # None
  BY <1>1, <1>2, <1>3, NoneAssumption DEF BookType
<1>5. \A x \in AssignmentId \ {a} : z[x] = b[x]
  BY <1>1, <1>2 DEF BookType
<1>6. /\ z[a].status = st /\ z[a].task = b[a].task /\ z[a].order = b[a].order
      /\ z[a].rider = b[a].rider /\ z[a].lease = b[a].lease
  BY <1>1, <1>4 DEF Course
<1>7. QED
  BY <1>1, <1>4, <1>5, <1>6 DEF Courses, BookType, Restated

\* Writing a new row in the book adds a course and touches no other.
LEMMA CourseEdit ==
  ASSUME NEW b \in BookType, NEW a \in AssignmentId, a \notin Courses(b), NEW row \in Course
  PROVE  Written(b, a, row, [b EXCEPT ![a] = row])
<1> DEFINE z == [b EXCEPT ![a] = row]
<1>1. z \in BookType /\ z[a] = row /\ row # None /\ \A x \in AssignmentId \ {a} : z[x] = b[x]
  BY NoneAssumption DEF BookType
<1>2. QED
  BY <1>1 DEF Written, Courses, BookType

\* Writing a task on a course moves it and touches no other.
LEMMA TaskEdit ==
  ASSUME NEW b \in BookType, NEW a \in Courses(b), NEW n \in TaskId
  PROVE  Retargeted(b, a, n, [b EXCEPT ![a].task = n])
<1> DEFINE z == [b EXCEPT ![a].task = n]
<1>1. a \in AssignmentId /\ b[a] \in Course
  BY DEF BookType, Courses
<1>2. z = [b EXCEPT ![a] = [b[a] EXCEPT !.task = n]]
  OBVIOUS
<1>3. [b[a] EXCEPT !.task = n] \in Course
  BY <1>1 DEF Course
<1>4. z \in BookType /\ z[a] = [b[a] EXCEPT !.task = n] /\ z[a] # None
  BY <1>1, <1>2, <1>3, NoneAssumption DEF BookType
<1>5. \A x \in AssignmentId \ {a} : z[x] = b[x]
  BY <1>1, <1>2 DEF BookType
<1>6. /\ z[a].task = n /\ z[a].order = b[a].order /\ z[a].status = b[a].status
      /\ z[a].rider = b[a].rider /\ z[a].lease = b[a].lease
  BY <1>1, <1>4 DEF Course
<1>7. QED
  BY <1>1, <1>4, <1>5, <1>6 DEF Courses, BookType, Retargeted

\* Writing a status on a row of the queue restates it.
LEMMA RowEdit ==
  ASSUME NEW ts \in QueueType, NEW t \in TaskId, ts[t] # None,
         NEW st \in {"queued", "assigned"} \cup Closed
  PROVE  RowRestated(ts, t, st, Marked(ts, t, st))
<1> DEFINE zs == Marked(ts, t, st)
<1>1. ts[t] \in QueuedTask
  BY DEF QueueType
<1>2. zs = [ts EXCEPT ![t] = [ts[t] EXCEPT !.status = st]]
  BY DEF Marked
<1>3. /\ [ts[t] EXCEPT !.status = st] \in QueuedTask
      /\ [ts[t] EXCEPT !.status = st].status = st
      /\ [ts[t] EXCEPT !.status = st].order = ts[t].order
  BY <1>1 DEF QueuedTask
<1>4. QED
  BY <1>2, <1>3, NoneAssumption DEF QueueType, RowRestated

\* A second passage closes the task it repeats and assigns the new one.
LEMMA PassageEdit ==
  ASSUME NEW ts \in QueueType, NEW k \in TaskId, ts[k] # None, NEW n \in TaskId, ts[n] = None,
         NEW o \in Order
  PROVE  Reattempted(ts, k, n, o, Marked(Followed(ts, o, k, n), n, "assigned"))
<1> DEFINE m == Marked(ts, k, "closed_rescheduled")
           f == [m EXCEPT ![n] = Queued(o)]
           zs == Marked(f, n, "assigned")
<1>1. RowRestated(ts, k, "closed_rescheduled", m)
  BY RowEdit DEF Closed
<1>2. Queued(o) \in QueuedTask /\ Queued(o) # None /\ Queued(o).order = o
  BY NoneAssumption DEF Queued, QueuedTask
<1> HIDE DEF m
<1>3. /\ f \in QueueType /\ f[n] = Queued(o) /\ f[n] # None
      /\ \A x \in TaskId \ {n} : f[x] = m[x]
  BY <1>1, <1>2 DEF RowRestated, QueueType
<1> HIDE DEF f
<1>4. RowRestated(f, n, "assigned", zs)
  BY <1>3, RowEdit
<1>5. zs = Marked(Followed(ts, o, k, n), n, "assigned")
  BY DEF f, m, Followed
<1> HIDE DEF zs
<1>6. Reattempted(ts, k, n, o, zs)
  BY <1>1, <1>2, <1>3, <1>4 DEF RowRestated, Reattempted
<1>7. QED
  BY <1>5, <1>6

\* The open rows of a set of tasks are offered again, the closed ones are not.
LEMMA RequeueEdit ==
  ASSUME NEW ts \in QueueType, NEW S
  PROVE  Reoffered(ts, S, Requeued(ts, S))
<1> DEFINE zs == Requeued(ts, S)
<1>1. \A t \in TaskId : ts[t] # None =>
         /\ [ts[t] EXCEPT !.status = "queued"] \in QueuedTask
         /\ [ts[t] EXCEPT !.status = "queued"].status = "queued"
         /\ [ts[t] EXCEPT !.status = "queued"].order = ts[t].order
  BY DEF QueueType, QueuedTask
<1>2. \A t \in TaskId : zs[t] =
         IF t \in S /\ ts[t] # None /\ ts[t].status \notin Closed
         THEN [ts[t] EXCEPT !.status = "queued"] ELSE ts[t]
  BY DEF Requeued
<1>3. zs \in QueueType
  BY <1>1 DEF QueueType, Requeued
<1>4. QED
  BY <1>1, <1>2, <1>3, NoneAssumption DEF QueueType, Reoffered

-----------------------------------------------------------------------------
(* One story: the queue and the book, in every setting.                    *)

\* A course that goes on, or is completed, keeps its task.
LEMMA StoryGoesOn ==
  ASSUME NEW b \in BookType, NEW ts, OneStory(b, ts), NEW a \in ActiveCourses(b),
         NEW st \in ActiveStatus \cup Completed, NEW z, Restated(b, a, st, z)
  PROVE  OneStory(z, ts)
<1>1. a \in Courses(b) /\ b[a].status \in ActiveStatus
  BY DEF ActiveCourses
<1>2. /\ Courses(z) = Courses(b) /\ z[a].status = st
      /\ z[a].task = b[a].task /\ z[a].order = b[a].order
      /\ \A x \in Courses(b) \ {a} : z[x] = b[x]
  BY DEF Restated
<1>3. Holding(z) = Holding(b)
  BY <1>1, <1>2 DEF Holding
<1>4. \A x \in Courses(b) : z[x].task = b[x].task /\ z[x].order = b[x].order
  BY <1>2
<1>5. \A x \in Holding(b) : x \in Courses(b)
  BY DEF Holding
<1>6. \A x \in Courses(z) : z[x].status = "taken_back_by_dispatch" => b[x].status = "taken_back_by_dispatch"
  BY <1>1, <1>2 DEF ActiveStatus, Completed
<1>7. /\ \A x \in Holding(z) : z[x].task = b[x].task
      /\ \A x \in Courses(z) : z[x].task = b[x].task /\ z[x].order = b[x].order
  BY <1>2, <1>3, <1>4, <1>5
<1>8. \A x \in Courses(z) : ts[z[x].task] # None /\ ts[z[x].task].order = z[x].order
  BY <1>2, <1>7 DEF OneStory
<1>12. \A x \in Courses(z) : z[x].status = "taken_back_by_dispatch" =>
             ts[z[x].task].status \in Closed
  BY <1>2, <1>6, <1>7 DEF OneStory
<1>9. /\ \A x \in Holding(z) : ts[z[x].task].status = "assigned"
      /\ \A x, y \in Holding(z) : z[x].task = z[y].task => x = y
  BY <1>3, <1>7 DEF OneStory
<1>10. \A t \in TaskId : ts[t] # None /\ ts[t].status = "assigned" =>
           \E x \in Holding(z) : z[x].task = t
  BY <1>3, <1>7 DEF OneStory
<1>11. QED
  BY <1>8, <1>9, <1>10, <1>12 DEF OneStory

\* Courses offered again give their tasks back to the queue.
LEMMA StoryReturned ==
  ASSUME NEW b \in BookType, NEW ts \in QueueType, OneStory(b, ts),
         NEW S, S \subseteq ActiveCourses(b), NEW z \in BookType, Courses(z) = Courses(b),
         \A x \in Courses(b) : /\ z[x].task = b[x].task /\ z[x].order = b[x].order
                               /\ x \in S => z[x].status = "returned_to_queue"
                               /\ x \notin S => z[x] = b[x],
         NEW zs, Reoffered(ts, {b[a].task : a \in S}, zs)
  PROVE  OneStory(z, zs)
<1> DEFINE T == {b[a].task : a \in S}
<1>1. \A x \in S : x \in Holding(b) /\ x \in Courses(b) /\ b[x].status \in ActiveStatus
  BY DEF Holding, ActiveCourses
<1>2. \A x \in Courses(b) : b[x].task \in TaskId
  BY DEF Courses, BookType, Course
<1>3. Holding(z) = Holding(b) \ S
  BY <1>1 DEF Holding, ActiveStatus, Completed
<1>4. \A t \in TaskId : /\ zs[t] # None <=> ts[t] # None
                        /\ zs[t] # None => zs[t].order = ts[t].order
                        /\ t \notin T => zs[t] = ts[t]
                        /\ t \in T => zs[t].status = "queued"
                        /\ ts[t] # None /\ ts[t].status \in Closed => zs[t] = ts[t]
  <2>3. \A x \in S : ts[b[x].task] # None /\ ts[b[x].task].status = "assigned"
    BY <1>1 DEF OneStory
  <2>1. \A t \in T : ts[t] # None /\ ts[t].status = "assigned"
    BY <2>3
  <2>2. QED
    BY <2>1 DEF Reoffered, Closed
<1>5. \A x \in Holding(b) \ S : b[x].task \notin T
  <2>1. \A x, y \in Holding(b) : b[x].task = b[y].task => x = y
    BY DEF OneStory
  <2>2. QED
    BY <1>1, <2>1
<1> HIDE DEF T
<1>6. \A x \in Holding(z) : zs[z[x].task].status = "assigned"
  BY <1>2, <1>3, <1>4, <1>5 DEF OneStory, Holding
<1>7. \A t \in TaskId : zs[t] # None /\ zs[t].status = "assigned" =>
         \E a \in Holding(z) : z[a].task = t
  <2> SUFFICES ASSUME NEW t \in TaskId, zs[t] # None, zs[t].status = "assigned"
               PROVE \E a \in Holding(z) : z[a].task = t
    OBVIOUS
  <2>1. t \notin T /\ zs[t] = ts[t]
    BY <1>4
  <2>2. PICK a \in Holding(b) : b[a].task = t
    BY <2>1 DEF OneStory
  <2>3. a \notin S
    BY <2>1, <2>2 DEF T
  <2>4. QED
    BY <1>3, <2>2, <2>3 DEF Holding
<1>8. \A a \in Courses(z) : z[a].status = "taken_back_by_dispatch" =>
           zs[z[a].task].status \in Closed
  BY <1>2, <1>4 DEF OneStory
<1>9. \A a, x \in Holding(z) : z[a].task = z[x].task => a = x
  BY <1>3 DEF OneStory, Holding
<1>10. \A a \in Courses(z) : zs[z[a].task] # None /\ zs[z[a].task].order = z[a].order
  BY <1>2, <1>4 DEF OneStory
<1>11. QED
  BY <1>6, <1>7, <1>8, <1>9, <1>10 DEF OneStory

\* A course taken back closes its task.
LEMMA StoryTakenBack ==
  ASSUME NEW b \in BookType, NEW ts \in QueueType, OneStory(b, ts), NEW a \in ActiveCourses(b),
         NEW z, Restated(b, a, "taken_back_by_dispatch", z),
         NEW zs, RowRestated(ts, b[a].task, "closed_taken_back", zs)
  PROVE  OneStory(z, zs)
<1> DEFINE k == b[a].task
<1>1. a \in Courses(b) /\ a \in Holding(b) /\ k \in TaskId
  BY DEF ActiveCourses, Holding, Courses, BookType, Course
<1>2. /\ Courses(z) = Courses(b) /\ z[a].task = k /\ z[a].order = b[a].order
      /\ z[a].status = "taken_back_by_dispatch"
      /\ \A x \in Courses(b) \ {a} : z[x] = b[x]
  BY DEF Restated
<1>3. /\ zs[k] # None /\ zs[k].status = "closed_taken_back" /\ zs[k].order = ts[k].order
      /\ \A x \in TaskId \ {k} : zs[x] = ts[x]
  BY DEF RowRestated
<1>4. Holding(z) = Holding(b) \ {a}
  BY <1>2 DEF Holding, ActiveStatus, Completed
<1>5. \A x \in Courses(b) : b[x].task \in TaskId
  BY DEF Courses, BookType, Course
<1> HIDE DEF k
<1>6. \A x \in Courses(z) : zs[z[x].task] # None /\ zs[z[x].task].order = z[x].order
  <2>1. \A x \in Courses(b) : ts[b[x].task] # None /\ ts[b[x].task].order = b[x].order
    BY DEF OneStory
  <2>2. \A x \in Courses(b) : zs[b[x].task] # None /\ zs[b[x].task].order = b[x].order
    BY <1>3, <1>5, <2>1
  <2>3. QED
    BY <1>1, <1>2, <2>2 DEF k
<1>7. \A x \in Holding(z) : z[x].task # k /\ z[x] = b[x] /\ x \in Courses(b)
  <2>1. \A x, y \in Holding(b) : b[x].task = b[y].task => x = y
    BY DEF OneStory
  <2>2. QED
    BY <1>1, <1>2, <1>4, <2>1 DEF Holding, k
<1>8. /\ \A x \in Holding(z) : zs[z[x].task].status = "assigned"
      /\ \A x, y \in Holding(z) : z[x].task = z[y].task => x = y
  BY <1>3, <1>4, <1>5, <1>7 DEF OneStory
<1>9. \A t \in TaskId : zs[t] # None /\ zs[t].status = "assigned" =>
          \E x \in Holding(z) : z[x].task = t
  <2> SUFFICES ASSUME NEW t \in TaskId, zs[t] # None, zs[t].status = "assigned"
               PROVE \E x \in Holding(z) : z[x].task = t
    OBVIOUS
  <2>1. t # k /\ zs[t] = ts[t]
    BY <1>3
  <2>2. PICK x \in Holding(b) : b[x].task = t
    BY <2>1 DEF OneStory
  <2>3. x \in Holding(z)
    BY <1>4, <2>1, <2>2 DEF k
  <2>4. QED
    BY <1>7, <2>2, <2>3
<1>10. \A x \in Courses(z) : z[x].status = "taken_back_by_dispatch" =>
           zs[z[x].task].status \in Closed
  <2>1. \A x \in Courses(b) : b[x].status = "taken_back_by_dispatch" =>
           ts[b[x].task].status \in Closed
    BY DEF OneStory
  <2>2. zs[k].status \in Closed
    BY <1>3 DEF Closed
  <2>3. QED
    BY <1>2, <1>3, <1>5, <2>1, <2>2
<1>11. QED
  BY <1>6, <1>8, <1>9, <1>10 DEF OneStory

\* A task that enters the queue has no past there.
LEMMA StoryQueued ==
  ASSUME NEW b \in BookType, NEW ts \in QueueType, OneStory(b, ts),
         NEW t \in TaskId, ts[t] = None, NEW o \in Order,
         NEW zs, zs = [ts EXCEPT ![t] = Queued(o)]
  PROVE  zs \in QueueType /\ OneStory(b, zs)
<1>1. Queued(o) \in QueuedTask /\ Queued(o) # None /\ Queued(o).status = "queued"
  BY NoneAssumption DEF Queued, QueuedTask
<1>2. zs \in QueueType /\ zs[t] = Queued(o) /\ \A x \in TaskId \ {t} : zs[x] = ts[x]
  BY <1>1 DEF QueueType
<1>3. \A x \in Courses(b) : b[x].task \in TaskId /\ b[x].task # t
  BY DEF OneStory, Courses, BookType, Course
<1>4. \A x \in Holding(b) : x \in Courses(b)
  BY DEF Holding
<1>5. \A x \in Courses(b) : zs[b[x].task] = ts[b[x].task]
  BY <1>2, <1>3
<1>6. \A x \in TaskId : zs[x] # None /\ zs[x].status = "assigned" => zs[x] = ts[x]
  BY <1>1, <1>2
<1>7. QED
  BY <1>2, <1>4, <1>5, <1>6 DEF OneStory

\* A queued task is confided to a course that has just been made.
LEMMA StoryConfided ==
  ASSUME NEW b \in BookType, NEW ts \in QueueType, OneStory(b, ts),
         NEW a \in AssignmentId, a \notin Courses(b), NEW t \in TaskId,
         ts[t] # None, ts[t].status = "queued",
         NEW row \in Course, row.task = t, row.order = ts[t].order, row.status \in ActiveStatus,
         NEW z, Written(b, a, row, z),
         NEW zs, RowRestated(ts, t, "assigned", zs)
  PROVE  OneStory(z, zs)
<1>1. /\ z[a] = row
      /\ Courses(z) = Courses(b) \cup {a}
      /\ \A x \in Courses(b) : z[x] = b[x] /\ x # a /\ b[x].task \in TaskId
  BY DEF Written, BookType, Courses, Course
<1>2. /\ zs[t] # None /\ zs[t].status = "assigned" /\ zs[t].order = ts[t].order
      /\ \A x \in TaskId \ {t} : zs[x] = ts[x]
  BY DEF RowRestated
<1>3. Holding(z) = Holding(b) \cup {a}
  <2>1. \A x \in Courses(z) : x \in Holding(z) <=> x = a \/ x \in Holding(b)
    BY <1>1 DEF Holding
  <2>2. Holding(z) \subseteq Courses(z) /\ Holding(b) \subseteq Courses(b)
    BY DEF Holding
  <2>3. QED
    BY <1>1, <2>1, <2>2
<1>4. \A x \in Courses(b) : z[x] = b[x] /\ (b[x].task = t => x \notin Holding(b)
                                            /\ b[x].status # "taken_back_by_dispatch")
  BY <1>1 DEF OneStory, Closed, Courses
<1>5. \A x \in Holding(b) : z[x] = b[x] /\ b[x].task # t /\ x \in Courses(b)
  BY <1>4 DEF Holding
<1>6. \A x \in Courses(z) : zs[z[x].task] # None /\ zs[z[x].task].order = z[x].order
  <2>1. \A x \in Courses(b) : ts[b[x].task] # None /\ ts[b[x].task].order = b[x].order
    BY DEF OneStory
  <2>2. \A x \in Courses(b) : zs[b[x].task] # None /\ zs[b[x].task].order = b[x].order
    BY <1>1, <1>2, <2>1
  <2>3. QED
    BY <1>1, <1>2, <2>2
<1>7. /\ \A x \in Holding(z) : zs[z[x].task].status = "assigned"
      /\ \A x, y \in Holding(z) : z[x].task = z[y].task => x = y
  <2>1. /\ \A x \in Holding(b) : ts[b[x].task].status = "assigned"
        /\ \A x, y \in Holding(b) : b[x].task = b[y].task => x = y
    BY DEF OneStory
  <2>2. QED
    BY <1>1, <1>2, <1>3, <1>5, <2>1
<1>8. \A k \in TaskId : zs[k] # None /\ zs[k].status = "assigned" =>
          \E x \in Holding(z) : z[x].task = k
  <2>1. \A k \in TaskId : ts[k] # None /\ ts[k].status = "assigned" =>
            \E x \in Holding(b) : b[x].task = k
    BY DEF OneStory
  <2>2. QED
    BY <1>1, <1>2, <1>3, <1>5, <2>1
<1>9. \A x \in Courses(z) : z[x].status = "taken_back_by_dispatch" =>
          zs[z[x].task].status \in Closed
  BY <1>1, <1>2, <1>4 DEF OneStory, ActiveStatus
<1>10. QED
  BY <1>6, <1>7, <1>8, <1>9 DEF OneStory

\* A second passage: the course goes on under a task that was not there, and its
\* own task is closed.
LEMMA StoryReattempted ==
  ASSUME NEW b \in BookType, NEW ts \in QueueType, OneStory(b, ts),
         NEW a \in ActiveCourses(b), NEW n \in TaskId, ts[n] = None,
         NEW z, Retargeted(b, a, n, z),
         NEW zs, Reattempted(ts, b[a].task, n, b[a].order, zs)
  PROVE  OneStory(z, zs)
<1> DEFINE k == b[a].task
<1>1. a \in Courses(b) /\ a \in Holding(b) /\ k \in TaskId /\ b[a].status \in ActiveStatus
  BY DEF ActiveCourses, Holding, Courses, BookType, Course
<1>2. /\ Courses(z) = Courses(b) /\ z[a].task = n /\ z[a].order = b[a].order
      /\ z[a].status = b[a].status
      /\ \A x \in Courses(b) \ {a} : z[x] = b[x]
  BY DEF Retargeted
<1>3. \A x \in Courses(b) : b[x].task \in TaskId /\ b[x].task # n
  BY DEF OneStory, Courses, BookType, Course
<1>4. /\ zs[k] # None /\ zs[k].status = "closed_rescheduled" /\ zs[k].order = ts[k].order
      /\ zs[n] # None /\ zs[n].status = "assigned" /\ zs[n].order = b[a].order
      /\ \A x \in TaskId \ {k, n} : zs[x] = ts[x]
  BY DEF Reattempted
<1>5. Holding(z) = Holding(b)
  BY <1>1, <1>2 DEF Holding
<1> HIDE DEF k
<1>6. \A x \in Courses(z) : zs[z[x].task] # None /\ zs[z[x].task].order = z[x].order
  <2>1. \A x \in Courses(b) : ts[b[x].task] # None /\ ts[b[x].task].order = b[x].order
    BY DEF OneStory
  <2>2. \A x \in Courses(b) : zs[b[x].task] # None /\ zs[b[x].task].order = b[x].order
    BY <1>3, <1>4, <2>1
  <2>3. QED
    BY <1>2, <1>4, <2>2
<1>7. \A x \in Holding(b) \ {a} : b[x].task # k /\ z[x] = b[x] /\ x \in Courses(b)
  <2>1. \A x, y \in Holding(b) : b[x].task = b[y].task => x = y
    BY DEF OneStory
  <2>2. QED
    BY <1>1, <1>2, <2>1 DEF Holding, k
<1>8. /\ \A x \in Holding(z) : zs[z[x].task].status = "assigned"
      /\ \A x, y \in Holding(z) : z[x].task = z[y].task => x = y
  <2>1. /\ \A x \in Holding(b) : ts[b[x].task].status = "assigned"
        /\ \A x, y \in Holding(b) : b[x].task = b[y].task => x = y
    BY DEF OneStory
  <2>2. QED
    BY <1>2, <1>3, <1>4, <1>5, <1>7, <2>1
<1>9. \A t \in TaskId : zs[t] # None /\ zs[t].status = "assigned" =>
          \E x \in Holding(z) : z[x].task = t
  <2>1. \A t \in TaskId : ts[t] # None /\ ts[t].status = "assigned" =>
            \E x \in Holding(b) : b[x].task = t
    BY DEF OneStory
  <2> SUFFICES ASSUME NEW t \in TaskId, zs[t] # None, zs[t].status = "assigned", t # n
               PROVE \E x \in Holding(z) : z[x].task = t
    BY <1>1, <1>2, <1>5
  <2>2. t # k /\ zs[t] = ts[t]
    BY <1>4
  <2>3. PICK x \in Holding(b) : b[x].task = t
    BY <2>1, <2>2
  <2>4. x # a
    BY <2>2, <2>3 DEF k
  <2>5. QED
    BY <1>5, <1>7, <2>3, <2>4
<1>10. \A x \in Courses(z) : z[x].status = "taken_back_by_dispatch" =>
           zs[z[x].task].status \in Closed
  <2>1. \A x \in Courses(b) : b[x].status = "taken_back_by_dispatch" =>
           ts[b[x].task].status \in Closed
    BY DEF OneStory
  <2>2. zs[k].status \in Closed
    BY <1>4 DEF Closed
  <2>3. z[a].status # "taken_back_by_dispatch"
    BY <1>1, <1>2 DEF ActiveStatus
  <2>4. QED
    BY <1>2, <1>3, <1>4, <2>1, <2>2, <2>3
<1>11. QED
  BY <1>6, <1>8, <1>9, <1>10 DEF OneStory

\* A retirement removes the order's courses together with its rows.
LEMMA StoryRetired ==
  ASSUME NEW b \in BookType, NEW ts \in QueueType, OneStory(b, ts), NEW o,
         NEW z, z = Without(b, {x \in Courses(b) : b[x].order = o}),
         NEW zs, zs = Without(ts, {t \in TaskId : ts[t] # None /\ ts[t].order = o})
  PROVE  z \in BookType /\ zs \in QueueType /\ OneStory(z, zs)
<1>1. /\ z \in BookType
      /\ \A x \in AssignmentId : z[x] = IF b[x] # None /\ b[x].order = o THEN None ELSE b[x]
  BY DEF BookType, Without, Courses
<1>2. /\ zs \in QueueType
      /\ \A t \in TaskId : zs[t] = IF ts[t] # None /\ ts[t].order = o THEN None ELSE ts[t]
  BY DEF QueueType, Without
<1>3. /\ \A x \in Courses(z) : x \in Courses(b) /\ z[x] = b[x] /\ b[x].order # o
      /\ \A x \in Courses(b) : b[x].order # o => x \in Courses(z) /\ z[x] = b[x]
  BY <1>1 DEF Courses, BookType
<1>4. \A x \in Courses(b) : b[x].task \in TaskId
  BY DEF Courses, BookType, Course
<1>5. /\ \A x \in Holding(z) : x \in Holding(b) /\ x \in Courses(z)
      /\ \A x \in Holding(b) : x \in Courses(b) /\ (b[x].order # o => x \in Holding(z))
  BY <1>3 DEF Holding
<1>6. /\ \A x \in Courses(b) : ts[b[x].task] # None /\ ts[b[x].task].order = b[x].order
      /\ \A x \in Holding(b) : ts[b[x].task].status = "assigned"
      /\ \A x, y \in Holding(b) : b[x].task = b[y].task => x = y
      /\ \A t \in TaskId : ts[t] # None /\ ts[t].status = "assigned" =>
             \E x \in Holding(b) : b[x].task = t
      /\ \A x \in Courses(b) : b[x].status = "taken_back_by_dispatch" =>
             ts[b[x].task].status \in Closed
  BY DEF OneStory
<1>7. \A x \in Courses(z) : zs[z[x].task] = ts[z[x].task]
  <2>1. \A x \in Courses(b) : b[x].order # o => zs[b[x].task] = ts[b[x].task]
    BY <1>2, <1>4, <1>6
  <2>2. QED
    BY <1>3, <2>1
<1>8. \A t \in TaskId : zs[t] # None /\ zs[t].status = "assigned" =>
          \E x \in Holding(z) : z[x].task = t
  <2> SUFFICES ASSUME NEW t \in TaskId, zs[t] # None, zs[t].status = "assigned"
               PROVE \E x \in Holding(z) : z[x].task = t
    OBVIOUS
  <2>1. zs[t] = ts[t] /\ ts[t] # None /\ ts[t].order # o
    BY <1>2
  <2>2. PICK x \in Holding(b) : b[x].task = t
    BY <1>6, <2>1
  <2>3. b[x].order # o
    BY <1>5, <1>6, <2>1, <2>2
  <2>4. QED
    BY <1>3, <1>5, <2>2, <2>3
<1>9. /\ \A x \in Courses(z) : zs[z[x].task] # None /\ zs[z[x].task].order = z[x].order
      /\ \A x \in Courses(z) : z[x].status = "taken_back_by_dispatch" =>
             zs[z[x].task].status \in Closed
  <2> SUFFICES ASSUME NEW x \in Courses(z)
               PROVE  /\ zs[z[x].task] # None /\ zs[z[x].task].order = z[x].order
                      /\ z[x].status = "taken_back_by_dispatch" =>
                             zs[z[x].task].status \in Closed
    OBVIOUS
  <2>1. x \in Courses(b) /\ z[x] = b[x] /\ zs[b[x].task] = ts[b[x].task]
    BY <1>3, <1>7
  <2>2. QED
    BY <1>6, <2>1
<1>10. /\ \A x \in Holding(z) : zs[z[x].task].status = "assigned"
       /\ \A x, y \in Holding(z) : z[x].task = z[y].task => x = y
  BY <1>3, <1>5, <1>6, <1>7
<1>11. QED
  BY <1>1, <1>2, <1>8, <1>9, <1>10 DEF OneStory

\* What an acquire answers with are names of leases.
LEMMA GrantRefs ==
  ASSUME NEW s, LeaseInv(s), NEW cmd, cmd.id \in CommandId,
         cmd.kind = "acquire", cmd.taskId \in TaskId, cmd.riderId \in Rider, cmd.at \in Nat
  PROVE  decideLease(s, cmd).refs \subseteq LeaseRef
<1>1. CASE IsReplay(s, cmd)
  <2>1. s.applied[cmd.id] \in Outcome \cup {Unseen}
    BY DEF LeaseInv, Answers
  <2>2. s.applied[cmd.id].refs \subseteq LeaseRef
    BY <2>1 DEF Outcome, Unseen
  <2>3. QED
    BY <1>1, <2>2 DEF decideLease, Replayed
<1>2. CASE ~IsReplay(s, cmd)
  <2>1. decideLease(s, cmd) = Acquire(s, cmd)
    BY <1>2 DEF decideLease
  <2>2. CASE Acquire(s, cmd) = Refused(s)
    BY <2>1, <2>2 DEF Refused
  <2>3. CASE Acquire(s, cmd) # Refused(s)
    <3> DEFINE g == [taskId |-> cmd.taskId, riderId |-> cmd.riderId,
                     version |-> s.versions[cmd.taskId] + 1, status |-> "active",
                     expiresAt |-> cmd.at + TTL, anchored |-> FALSE]
    <3>1. s.versions[cmd.taskId] < MaxVersion /\ s.versions[cmd.taskId] \in 0..MaxVersion
      BY <2>3, VersionAssumption DEF Acquire, LeaseInv
    <3>2. s.versions[cmd.taskId] + 1 \in Version
      BY <3>1, VersionAssumption DEF Version
    <3>3. refOf(g) \in LeaseRef
      BY <3>2 DEF refOf, LeaseRef
    <3>4. Acquire(s, cmd).refs = {refOf(g)}
      BY <2>3 DEF Acquire, Applied
    <3>5. QED
      BY <2>1, <3>3, <3>4
  <2>4. QED
    BY <2>2, <2>3
<1>3. QED
  BY <1>1, <1>2

\* A producer's task joins the queue once, under its order.
LEMMA StoryTaskReady ==
  ASSUME StoryInv, NEW t, TaskReady(t)
  PROVE  StoryHere'
<1>1. t \in TaskId /\ t \in ProducerTask /\ ProducerOrder[t] \in Order /\ tasks[t] = None
  BY ProducerAssumption DEF TaskReady
<1>2. book \in BookType /\ tasks \in QueueType /\ OneStory(book, tasks)
  BY DEF StoryInv, StoryHere, TypedHere, Typed
<1>3. /\ tasks' = [tasks EXCEPT ![t] = Queued(ProducerOrder[t])]
      /\ processed' = processed \cup {t}
      /\ UNCHANGED <<book, witness, remembered, open, lineage, gate, onShift, used>>
  BY DEF TaskReady, facts
<1>4. tasks' \in QueueType /\ OneStory(book, tasks')
  BY <1>1, <1>2, <1>3, StoryQueued
<1>5. OneStory(book', tasks')
  BY <1>3, <1>4
<1>6. TypedHere'
  BY <1>1, <1>3, <1>4 DEF StoryInv, StoryHere, TypedHere, Typed
<1>7. Known(book', tasks', processed', used')
  BY <1>1, <1>2, <1>3 DEF StoryInv, StoryHere, Known, Given, QueueType
<1>8. QED
  BY <1>5, <1>6, <1>7 DEF StoryHere

\* So does a task composed here.
LEMMA StoryComposeTask ==
  ASSUME StoryInv, NEW o \in Order, NEW t \in TaskId, ComposeTask(o, t)
  PROVE  StoryHere'
<1>1. book \in BookType /\ tasks \in QueueType /\ OneStory(book, tasks)
  BY DEF StoryInv, StoryHere, TypedHere, Typed
<1>2. /\ tasks' = [tasks EXCEPT ![t] = Queued(o)]
      /\ used' = used \cup {t}
      /\ UNCHANGED <<book, witness, remembered, processed, open, lineage, gate, onShift>>
  BY DEF ComposeTask, facts
<1>3. t \notin used /\ t \notin ProducerTask
  BY MintedIsNew DEF ComposeTask
<1>4. tasks[t] = None
  BY <1>3 DEF StoryInv, StoryHere, Known, Given, TypedHere, Typed
<1>5. tasks' \in QueueType /\ OneStory(book, tasks')
  BY <1>1, <1>2, <1>4, StoryQueued
<1>6. OneStory(book', tasks')
  BY <1>2, <1>5
<1>7. TypedHere'
  BY <1>2, <1>5 DEF StoryInv, StoryHere, TypedHere, Typed
<1>8. Known(book', tasks', processed', used')
  BY <1>1, <1>2, <1>3 DEF StoryInv, StoryHere, Known, Given, QueueType
<1>9. QED
  BY <1>6, <1>7, <1>8 DEF StoryHere

\* The book's half of « confier », whatever the authority granted.
LEMMA StoryAssign ==
  ASSUME StoryInv, NEW c \in AssignCommand, NEW t \in TaskId, NEW r \in Rider,
         NEW a \in AssignmentId, Assign(c, t, r, a)
  PROVE  StoryHere'
<1> DEFINE cmd == AcquireCmd(c, t, r)
           d == decideLease(leaseState, cmd)
           ref == CHOOSE x \in d.refs : TRUE
           w == Vouched(d)
<1>1. /\ book \in BookType /\ tasks \in QueueType /\ OneStory(book, tasks)
      /\ witness \subseteq LeaseRef
  BY DEF StoryInv, StoryHere, TypedHere, Typed
<1>2. w \subseteq LeaseRef
  <2>1. /\ cmd.id \in CommandId /\ cmd.kind = "acquire" /\ cmd.taskId \in TaskId
        /\ cmd.riderId \in Rider /\ cmd.at \in Nat
    BY IdsAssumption DEF AcquireCmd, DispatchIds, StoryInv, DoorInv
  <2>2. d.refs \subseteq LeaseRef
    BY <2>1, GrantRefs DEF StoryInv, DoorInv
  <2>3. QED
    BY <1>1, <2>2 DEF Vouched
<1>3. /\ witness' = w \/ witness' = w \ {ref}
      /\ UNCHANGED <<processed, open, lineage, gate, onShift>>
  BY DEF Assign, facts
<1>4. witness' \subseteq LeaseRef
  BY <1>2, <1>3
<1>5. CASE UNCHANGED <<book, remembered, tasks, used>>
  BY <1>3, <1>4, <1>5 DEF StoryInv, StoryHere, TypedHere, Typed, Known, Given
<1>6. CASE /\ BookAccepts(ref, w, t, r)
           /\ a \in Minted(AssignmentId)
           /\ book' = [book EXCEPT ![a] = NewCourse(ref, t, r)]
           /\ remembered' = [remembered EXCEPT ![c] = a]
           /\ tasks' = Marked(tasks, t, "assigned")
           /\ used' = used \cup {a}
  <2>1. /\ ref \in LeaseRef /\ tasks[t] # None /\ tasks[t].status = "queued"
    BY <1>2, <1>6 DEF BookAccepts, Assignable
  <2>2. tasks[t].order \in Order
    BY <1>1, <2>1 DEF QueueType, QueuedTask
  <2> DEFINE row == NewCourse(ref, t, r)
  <2>3. /\ row \in Course /\ row.task = t /\ row.order = tasks[t].order
        /\ row.status \in ActiveStatus
    BY <2>1, <2>2 DEF NewCourse, Course, ActiveStatus
  <2>4. a \notin used /\ a \notin Courses(book)
    BY <1>6, MintedIsNew DEF StoryInv, StoryHere, Known, Given
  <2> HIDE DEF row, ref, w
  <2>5. Written(book, a, row, book')
    BY <1>1, <1>6, <2>3, <2>4, CourseEdit DEF row
  <2>6. RowRestated(tasks, t, "assigned", tasks')
    BY <1>1, <1>6, <2>1, RowEdit
  <2>7. OneStory(book', tasks')
    BY <1>1, <2>1, <2>3, <2>4, <2>5, <2>6, StoryConfided
  <2>8. TypedHere'
    BY <1>3, <1>4, <1>6, <2>5, <2>6
       DEF StoryInv, StoryHere, TypedHere, Typed, Written, RowRestated
  <2>9. Known(book', tasks', processed', used')
    BY <1>3, <1>6, <2>1, <2>5, <2>6 DEF StoryInv, StoryHere, Known, Given, Written, RowRestated
  <2>10. QED
    BY <2>7, <2>8, <2>9 DEF StoryHere
<1>7. QED
  BY <1>5, <1>6 DEF Assign

\* One course changes its status; its row does not.
LEMMA StoryRestated ==
  ASSUME StoryInv, NEW a \in ActiveCourses(book), NEW st \in ActiveStatus \cup Completed,
         book' = [book EXCEPT ![a].status = st],
         witness' \subseteq witness, open' \in [Order -> TaskId \cup {None}],
         UNCHANGED <<remembered, tasks, processed, lineage, gate, onShift, used>>
  PROVE  StoryHere'
<1>1. /\ book \in BookType /\ OneStory(book, tasks)
      /\ a \in Courses(book) /\ st \in ActiveStatus \cup EndedStatus
  BY DEF StoryInv, StoryHere, TypedHere, Typed, ActiveCourses, Completed, EndedStatus
<1>2. Restated(book, a, st, book')
  BY <1>1, StatusEdit
<1>3. OneStory(book', tasks)
  BY <1>1, <1>2, StoryGoesOn
<1>4. OneStory(book', tasks')
  BY <1>3
<1>5. TypedHere'
  BY <1>2 DEF StoryInv, StoryHere, TypedHere, Typed, Restated
<1>6. Known(book', tasks', processed', used')
  BY <1>2 DEF StoryInv, StoryHere, Known, Given, Restated
<1>7. QED
  BY <1>4, <1>5, <1>6 DEF StoryHere

\* Courses given back to the queue, by a decline or a sweep.
LEMMA StoryGivenBack ==
  ASSUME StoryInv, NEW S, S \subseteq ActiveCourses(book), book' \in BookType,
         Courses(book') = Courses(book),
         \A x \in Courses(book) :
             /\ book'[x].task = book[x].task /\ book'[x].order = book[x].order
             /\ x \in S => book'[x].status = "returned_to_queue"
             /\ x \notin S => book'[x] = book[x],
         tasks' = Requeued(tasks, {book[x].task : x \in S}),
         witness' \subseteq witness,
         UNCHANGED <<remembered, processed, open, lineage, gate, onShift, used>>
  PROVE  StoryHere'
<1>1. book \in BookType /\ tasks \in QueueType /\ OneStory(book, tasks)
  BY DEF StoryInv, StoryHere, TypedHere, Typed
<1>2. Reoffered(tasks, {book[x].task : x \in S}, tasks')
  BY <1>1, RequeueEdit
<1>3. OneStory(book', tasks')
  BY <1>1, <1>2, StoryReturned
<1>4. TypedHere'
  BY <1>2 DEF StoryInv, StoryHere, TypedHere, Typed, Reoffered
<1>5. Known(book', tasks', processed', used')
  BY <1>2 DEF StoryInv, StoryHere, Known, Given, Reoffered
<1>6. QED
  BY <1>3, <1>4, <1>5 DEF StoryHere

\* A refused course gives its task back to the queue.
LEMMA StoryDecline ==
  ASSUME StoryInv, NEW a \in AssignmentId, Decline(a)
  PROVE  StoryHere'
<1>1. /\ book \in BookType /\ a \in ActiveCourses(book) /\ a \in Courses(book)
      /\ book' = [book EXCEPT ![a].status = "returned_to_queue"]
      /\ tasks' = Requeued(tasks, {book[a].task})
      /\ witness' \subseteq witness
      /\ UNCHANGED <<remembered, processed, open, lineage, gate, onShift, used>>
  BY DEF Decline, Returned, facts, StoryInv, StoryHere, TypedHere, Typed, BookType,
         ActiveCourses, Courses, AwaitingAck
<1>2. Restated(book, a, "returned_to_queue", book')
  BY <1>1, StatusEdit DEF EndedStatus
<1>3. {book[x].task : x \in {a}} = {book[a].task}
  OBVIOUS
<1>4. tasks' = Requeued(tasks, {book[x].task : x \in {a}})
  BY <1>1, <1>3
<1>5. /\ book' \in BookType /\ Courses(book') = Courses(book)
      /\ \A x \in Courses(book) :
             /\ book'[x].task = book[x].task /\ book'[x].order = book[x].order
             /\ x \in {a} => book'[x].status = "returned_to_queue"
             /\ x \notin {a} => book'[x] = book[x]
  BY <1>2 DEF Restated
<1>6. {a} \subseteq ActiveCourses(book)
  BY <1>1
<1>7. QED
  BY <1>1, <1>4, <1>5, <1>6, StoryGivenBack

\* A sweep gives back the tasks of the courses it ends, and no other.
LEMMA StorySweep ==
  ASSUME StoryInv, NEW now, Sweep(now)
  PROVE  StoryHere'
<1>1. PICK refs :
        LET gone == OnTasks({r.taskId : r \in refs})
        IN /\ witness' = witness \ refs
           /\ book' = [a \in AssignmentId |->
                  IF a \in gone THEN [book[a] EXCEPT !.status = "returned_to_queue"]
                                ELSE book[a]]
           /\ tasks' = Requeued(tasks, {book[a].task : a \in gone})
           /\ UNCHANGED <<remembered, processed, open, lineage, gate, onShift, used>>
  BY DEF Sweep, facts
<1> DEFINE gone == OnTasks({r.taskId : r \in refs})
<1>2. book \in BookType /\ gone \subseteq ActiveCourses(book)
  BY DEF OnTasks, StoryInv, StoryHere, TypedHere, Typed
<1> HIDE DEF gone
<1>3. \A a \in gone : a \in AssignmentId /\ book[a] \in Course
  BY <1>2 DEF ActiveCourses, Courses, BookType
<1>4. \A a \in gone : LET m == [book[a] EXCEPT !.status = "returned_to_queue"]
                      IN /\ m \in Course /\ m.status = "returned_to_queue"
                         /\ m.task = book[a].task /\ m.order = book[a].order
  BY <1>3 DEF Course, EndedStatus
<1>5. book' = [a \in AssignmentId |->
          IF a \in gone THEN [book[a] EXCEPT !.status = "returned_to_queue"] ELSE book[a]]
  BY <1>1 DEF gone
<1>6. book' \in BookType
  BY <1>2, <1>4, <1>5 DEF BookType
<1>7. Courses(book') = Courses(book)
  BY <1>2, <1>3, <1>4, <1>5, NoneAssumption DEF Courses, BookType
<1>8. \A x \in Courses(book) :
          /\ book'[x].task = book[x].task /\ book'[x].order = book[x].order
          /\ x \in gone => book'[x].status = "returned_to_queue"
          /\ x \notin gone => book'[x] = book[x]
  BY <1>2, <1>4, <1>5 DEF Courses, BookType
<1>9. /\ tasks' = Requeued(tasks, {book[a].task : a \in gone})
      /\ witness' \subseteq witness
      /\ UNCHANGED <<remembered, processed, open, lineage, gate, onShift, used>>
  BY <1>1 DEF gone
<1>10. QED
  BY <1>2, <1>6, <1>7, <1>8, <1>9, StoryGivenBack

\* A take-back closes the task of the course it ends.
LEMMA StoryTakeBack ==
  ASSUME StoryInv, NEW a \in AssignmentId, TakeBack(a)
  PROVE  StoryHere'
<1>1. /\ book \in BookType /\ tasks \in QueueType /\ OneStory(book, tasks)
      /\ a \in ActiveCourses(book) /\ a \in Courses(book)
      /\ book[a].task \in TaskId /\ book[a].order \in Order
      /\ book' = [book EXCEPT ![a].status = "taken_back_by_dispatch"]
      /\ tasks' = Marked(tasks, book[a].task, "closed_taken_back")
      /\ open' = [open EXCEPT ![book[a].order] = None]
      /\ witness' \subseteq witness
      /\ UNCHANGED <<remembered, processed, lineage, gate, onShift, used>>
  BY DEF TakeBack, TakenBack, facts, StoryInv, StoryHere, TypedHere, Typed, BookType,
         ActiveCourses, Courses, Course
<1>2. Restated(book, a, "taken_back_by_dispatch", book')
  BY <1>1, StatusEdit DEF EndedStatus
<1>3. RowRestated(tasks, book[a].task, "closed_taken_back", tasks')
  <2>1. tasks[book[a].task] # None
    BY <1>1 DEF OneStory
  <2>2. QED
    BY <1>1, <2>1, RowEdit DEF Closed
<1>4. OneStory(book', tasks')
  BY <1>1, <1>2, <1>3, StoryTakenBack
<1>5. TypedHere'
  BY <1>1, <1>2, <1>3 DEF StoryInv, StoryHere, TypedHere, Typed, Restated, RowRestated
<1>6. Known(book', tasks', processed', used')
  <2>1. tasks[book[a].task] # None
    BY <1>1 DEF OneStory
  <2>2. QED
    BY <1>1, <1>2, <1>3, <2>1 DEF StoryInv, StoryHere, Known, Given, Restated, RowRestated
<1>7. QED
  BY <1>4, <1>5, <1>6 DEF StoryHere

\* A second passage moves the course to the task minted for it.
LEMMA StoryReprogram ==
  ASSUME StoryInv, NEW a \in AssignmentId, NEW n \in TaskId, Reprogram(a, n)
  PROVE  StoryHere'
<1>0. n \notin used /\ n \notin ProducerTask
  BY MintedIsNew DEF Reprogram
<1>1. /\ book \in BookType /\ tasks \in QueueType /\ OneStory(book, tasks)
      /\ a \in ActiveCourses(book) /\ a \in Courses(book)
      /\ book[a].task \in TaskId /\ book[a].order \in Order
      /\ tasks[book[a].task] # None /\ tasks[n] = None
      /\ book' = [book EXCEPT ![a].task = n]
      /\ tasks' = Marked(Followed(tasks, book[a].order, book[a].task, n), n, "assigned")
      /\ open' = [open EXCEPT ![book[a].order] = None]
      /\ lineage' = lineage \cup {n} /\ used' = used \cup {n}
      /\ UNCHANGED <<witness, remembered, processed, gate, onShift>>
  BY DEF Reprogram, FollowUpAdmitted, facts, StoryInv, StoryHere, TypedHere, Typed, BookType,
         ActiveCourses, Courses, Course
<1>2. Retargeted(book, a, n, book')
  BY <1>1, TaskEdit
<1>3. Reattempted(tasks, book[a].task, n, book[a].order, tasks')
  BY <1>1, PassageEdit
<1>4. OneStory(book', tasks')
  BY <1>1, <1>2, <1>3, StoryReattempted
<1>5. TypedHere'
  BY <1>1, <1>2, <1>3 DEF StoryInv, StoryHere, TypedHere, Typed, Retargeted, Reattempted
<1>6. Known(book', tasks', processed', used')
  BY <1>0, <1>1, <1>2, <1>3 DEF StoryInv, StoryHere, Known, Given, Retargeted, Reattempted
<1>7. QED
  BY <1>4, <1>5, <1>6 DEF StoryHere

\* A retirement takes the courses and the rows of an order away together.
LEMMA StoryRetire ==
  ASSUME StoryInv, NEW o \in Order, Retire(o)
  PROVE  StoryHere'
<1>1. book \in BookType /\ tasks \in QueueType /\ OneStory(book, tasks)
  BY DEF StoryInv, StoryHere, TypedHere, Typed
<1>2. /\ book' = Without(book, {x \in Courses(book) : book[x].order = o})
      /\ tasks' = Without(tasks, {t \in TaskId : tasks[t] # None /\ tasks[t].order = o})
  BY <1>1 DEF Retire, Without, CoursesOf, RowsOf, BookType, QueueType
<1>3. /\ open' = [open EXCEPT ![o] = None]
      /\ witness' \subseteq witness /\ gate' \subseteq gate
      /\ UNCHANGED <<remembered, processed, lineage, onShift, used>>
  BY DEF Retire
<1>4. book' \in BookType /\ tasks' \in QueueType /\ OneStory(book', tasks')
  BY <1>1, <1>2, StoryRetired
<1>5. TypedHere'
  BY <1>3, <1>4 DEF StoryInv, StoryHere, TypedHere, Typed
<1>6. Known(book', tasks', processed', used')
  BY <1>1, <1>2, <1>3 DEF StoryInv, StoryHere, Known, Given, Without, Courses, BookType, QueueType
<1>7. QED
  BY <1>4, <1>5, <1>6 DEF StoryHere

\* A door that keeps the story saves it so.
LEMMA StorySaves ==
  ASSUME StoryInv, StoryHere', Persist \/ (UNCHANGED saved /\ used' = used)
  PROVE  StorySaved'
<1>1. CASE Persist
  BY <1>1 DEF Persist, Image, StoryHere, StorySaved, TypedHere, TypedSaved
<1>2. CASE UNCHANGED saved /\ used' = used
  BY <1>2 DEF StoryInv, StorySaved, TypedSaved
<1>3. QED
  BY <1>1, <1>2

\* A step that keeps the story here keeps it on the disk, saved or not.
LEMMA StoryKept ==
  ASSUME StoryInv, [Next]_vars, StoryHere', Persist \/ (UNCHANGED saved /\ used' = used),
         used' \subseteq AssignmentId \cup TaskId, UNCHANGED <<world, restarts>>
  PROVE  StoryInv'
BY DoorStep, StorySaves DEF StoryInv

\* A door that touches neither the queue nor the book.
LEMMA StoryAside ==
  ASSUME StoryInv, UNCHANGED <<book, remembered, tasks, processed, lineage, used>>,
         witness' \subseteq witness, open' \in [Order -> TaskId \cup {None}],
         gate' \subseteq Order, onShift' \subseteq Rider
  PROVE  StoryHere'
BY DEF StoryInv, StoryHere, TypedHere, Typed, Known, Given

\* Every action keeps the story, here and on the disk.
LEMMA StoryStep == StoryInv /\ [Next]_vars => StoryInv'
<1> SUFFICES ASSUME StoryInv, [Next]_vars PROVE StoryInv'
  OBVIOUS
<1>0. /\ open \in [Order -> TaskId \cup {None}] /\ gate \subseteq Order /\ onShift \subseteq Rider
      /\ used \subseteq AssignmentId \cup TaskId
  BY DEF StoryInv, StoryHere, TypedHere, Typed
<1>1. CASE Facts
  BY <1>0, <1>1, StoryAside, StoryKept DEF Facts, FactsChange, ShiftChange, books
<1>2. CASE Tick
  BY <1>0, <1>2, StoryAside, StoryKept DEF Tick, books, facts
<1>3. CASE Queue
  <2>1. ASSUME NEW t \in ProducerTask, TaskReady(t) PROVE StoryInv'
    <3>1. Persist /\ used' = used /\ UNCHANGED <<world, restarts>>
      BY <2>1 DEF TaskReady
    <3>2. QED
      BY <1>0, <2>1, <3>1, StoryTaskReady, StoryKept
  <2>2. ASSUME NEW o \in Order, NEW t \in TaskId, ComposeTask(o, t) PROVE StoryInv'
    <3>1. Persist /\ used' = used \cup {t} /\ UNCHANGED <<world, restarts>>
      BY <2>2 DEF ComposeTask
    <3>2. QED
      BY <1>0, <2>2, <3>1, StoryComposeTask, StoryKept
  <2>3. QED
    BY <1>3, <2>1, <2>2 DEF Queue
<1>4. CASE RiderActs
  <2>1. PICK a \in AssignmentId : Acknowledge(a) \/ AcknowledgeOffline(a) \/ Decline(a)
    BY <1>4 DEF RiderActs
  <2>2. Persist /\ used' = used /\ UNCHANGED <<world, restarts>>
    BY <2>1 DEF Acknowledge, AcknowledgeOffline, Decline
  <2>3. StoryHere'
    <3>1. book[a] # None /\ book[a].status \in AwaitingAck => a \in ActiveCourses(book)
      BY DEF ActiveCourses, Courses, AwaitingAck, StoryInv, StoryHere, TypedHere, Typed, BookType
    <3>2. {"acknowledged", "ack_pending_offline"} \subseteq ActiveStatus
      BY DEF ActiveStatus
    <3>3. CASE Acknowledge(a)
      BY <1>0, <3>1, <3>2, <3>3, StoryRestated DEF Acknowledge, facts
    <3>4. CASE AcknowledgeOffline(a)
      BY <1>0, <3>1, <3>2, <3>4, StoryRestated DEF AcknowledgeOffline, facts
    <3>5. CASE Decline(a)
      BY <3>5, StoryDecline
    <3>6. QED
      BY <2>1, <3>3, <3>4, <3>5
  <2>4. QED
    BY <1>0, <2>2, <2>3, StoryKept
<1>5. CASE OpsActs
  <2>1. ASSUME NEW c \in AssignCommand, NEW t \in TaskId, NEW r \in Rider,
               NEW a \in AssignmentId, Assign(c, t, r, a)
        PROVE  StoryInv'
    <3>1. Persist /\ used' \subseteq used \cup {a} /\ UNCHANGED <<world, restarts>>
      BY <2>1 DEF Assign
    <3>2. QED
      BY <1>0, <2>1, <3>1, StoryAssign, StoryKept
  <2>2. ASSUME NEW a \in AssignmentId, TakeBack(a) PROVE StoryInv'
    <3>1. Persist /\ used' = used /\ UNCHANGED <<world, restarts>>
      BY <2>2 DEF TakeBack
    <3>2. QED
      BY <1>0, <2>2, <3>1, StoryTakeBack, StoryKept
  <2>3. ASSUME NEW a \in AssignmentId, NEW n \in TaskId, Reprogram(a, n) PROVE StoryInv'
    <3>1. Persist /\ used' = used \cup {n} /\ UNCHANGED <<world, restarts>>
      BY <2>3 DEF Reprogram
    <3>2. QED
      BY <1>0, <2>3, <3>1, StoryReprogram, StoryKept
  <2>4. ASSUME NEW now, OpsSweep(now) PROVE StoryInv'
    <3>1. Persist /\ used' = used /\ UNCHANGED <<world, restarts>> /\ Sweep(now)
      BY <2>4 DEF OpsSweep, Sweep
    <3>2. QED
      BY <1>0, <3>1, StorySweep, StoryKept
  <2>5. ASSUME NEW o \in Order, Retire(o) PROVE StoryInv'
    <3>1. Persist /\ used' = used /\ UNCHANGED <<world, restarts>>
      BY <2>5 DEF Retire
    <3>2. QED
      BY <1>0, <2>5, <3>1, StoryRetire, StoryKept
  <2>6. ASSUME NEW cmd \in RawCmds, RawDoor(cmd) PROVE StoryInv'
    BY <1>0, <2>6, StoryAside, StoryKept DEF RawDoor, facts
  <2>7. QED
    BY <1>5, <2>1, <2>2, <2>3, <2>4, <2>5, <2>6 DEF OpsActs
<1>6. CASE CustodyReports
  <2>1. ASSUME NEW a \in AssignmentId, RecordReschedule(a) PROVE StoryInv'
    <3>1. book[a].task \in TaskId
      BY <2>1 DEF RecordReschedule, ActiveCourses, Courses, StoryInv, StoryHere, TypedHere,
                  Typed, BookType, Course
    <3>2. open' \in [Order -> TaskId \cup {None}]
      BY <1>0, <2>1, <3>1 DEF RecordReschedule
    <3>3. StoryHere'
      BY <1>0, <2>1, <3>2, StoryAside DEF RecordReschedule, facts
    <3>4. QED
      BY <1>0, <2>1, <3>3, StoryKept DEF RecordReschedule
  <2>2. ASSUME NEW a, NEW o \in Order, NEW outcome \in Completed, Complete(o, a, outcome)
        PROVE  StoryInv'
    <3>1. /\ a \in ActiveCourses(book) /\ witness' \subseteq witness
          /\ book' = [book EXCEPT ![a].status = outcome]
          /\ open' \in [Order -> TaskId \cup {None}]
          /\ UNCHANGED <<remembered, tasks, processed, lineage, gate, onShift, used>>
      BY <1>0, <2>2 DEF Complete, facts
    <3>2. StoryHere'
      BY <3>1, StoryRestated
    <3>3. QED
      BY <1>0, <2>2, <3>1, <3>2, StoryKept DEF Complete
  <2>3. QED
    BY <1>6, <2>1, <2>2 DEF CustodyReports, Deliver, ReturnToSupplier, Completed
<1>7. CASE BoardSweep
  <2>1. Sweep(clock) /\ UNCHANGED saved /\ used' = used /\ UNCHANGED <<world, restarts>>
    BY <1>7 DEF BoardSweep, Sweep
  <2>2. QED
    BY <1>0, <2>1, StorySweep, StoryKept
<1>8. CASE Restart
  <2>1. StoryHere'
    BY <1>8 DEF Restart, StoryInv, StorySaved, TypedSaved, StoryHere, TypedHere, Typed, Known, Given
  <2>2. StorySaved'
    BY <1>8 DEF Restart, StoryInv, StorySaved, TypedSaved
  <2>3. world \in Worlds /\ world.restarts \in Nat
    BY WorldsAssumption DEF StoryInv, DoorInv
  <2>4. restarts' \in 0..world'.restarts /\ used' = used
    BY <1>8, <2>3 DEF Restart, StoryInv
  <2>5. QED
    BY <1>0, <2>1, <2>2, <2>4, DoorStep DEF StoryInv
<1>9. CASE UNCHANGED vars
  BY <1>0, <1>9, StoryAside, StoryKept DEF vars, books, facts
<1>10. QED
  BY <1>1, <1>2, <1>3, <1>4, <1>5, <1>6, <1>7, <1>8, <1>9 DEF Next

\* It holds of the empty books.
LEMMA StoryInit == Init => StoryInv
<1> SUFFICES ASSUME Init PROVE StoryInv
  OBVIOUS
<1>1. DoorInv
  BY DoorInit
<1>2. /\ Courses(book) = {} /\ Holding(book) = {}
      /\ \A t \in TaskId : tasks[t] = None
  BY DEF Init, Courses, Holding
<1>3. TypedHere
  BY DEF Init, TypedHere, Typed, BookType, QueueType
<1>4. OneStory(book, tasks) /\ Known(book, tasks, processed, used)
  BY <1>2 DEF OneStory, Known
<1>5. StorySaved
  <2>1. /\ saved.witness = witness /\ saved.book = book /\ saved.remembered = remembered
        /\ saved.tasks = tasks /\ saved.processed = processed /\ saved.open = open
        /\ saved.lineage = lineage /\ saved.gate = gate /\ saved.onShift = onShift
    BY DEF Init, Image
  <2>2. QED
    BY <1>3, <1>4, <2>1 DEF StorySaved, TypedSaved, TypedHere
<1>6. used \subseteq AssignmentId \cup TaskId /\ restarts \in 0..world.restarts
  BY WorldsAssumption DEF Init
<1>7. QED
  BY <1>1, <1>3, <1>4, <1>5, <1>6 DEF StoryInv, StoryHere

\* In every setting, the raw door's and the repeated task's included, the queue
\* and the book are well typed and tell one story, in memory and on the disk.
THEOREM StoryInvariant == Spec => []StoryInv
BY StoryInit, StoryStep, PTL DEF Spec

\* What the authority, the witness, the book, the queue and the reschedule book
\* hold is of the kind the code declares, through every door and restart.
THEOREM BooksTyped == Spec => []TypeOK
<1>1. StoryInv => TypeOK
  <2> SUFFICES ASSUME StoryInv PROVE TypeOK
    OBVIOUS
  <2>1. leaseState \in AuthorityState
    BY DEF StoryInv, DoorInv, LeaseInv, AuthorityState, Answers
  <2>2. QED
    BY <2>1 DEF StoryInv, DoorInv, StoryHere, TypedHere, Typed, BookType, QueueType, TypeOK
<1>2. QED
  BY <1>1, StoryInvariant, PTL

\* The authority's state as the object holds it is one decideLease can be in.
THEOREM AuthorityTyped == Spec => []LeaseTypeOK
<1>1. TypeOK => LeaseTypeOK
  BY DEF TypeOK, LeaseTypeOK
<1>2. QED
  BY <1>1, BooksTyped, PTL

\* No order is lost between the queue and the book (ready-queue.ts,
\* manual-assignment.ts): a queued task is on no rider, an assigned one belongs
\* to exactly one course, a task taken back is never handed out again.
THEOREM EveryTaskHasOneHome == Spec => []TaskHasOneHome
<1>1. StoryInv => TaskHasOneHome
  <2> SUFFICES ASSUME StoryInv PROVE TaskHasOneHome
    OBVIOUS
  <2>1. OneStory(book, tasks) /\ tasks \in QueueType /\ book \in BookType
    BY DEF StoryInv, StoryHere, TypedHere, Typed
  <2>2. \A a \in ActiveCourses(book) : a \in Holding(book) /\ a \in Courses(book)
    BY DEF ActiveCourses, Holding
  <2>3. /\ \A a \in Courses(book) :
               /\ tasks[book[a].task] # None /\ tasks[book[a].task].order = book[a].order
               /\ book[a].status = "taken_back_by_dispatch" =>
                      tasks[book[a].task].status \in Closed
        /\ \A a \in Holding(book) : tasks[book[a].task].status = "assigned"
        /\ \A a, x \in Holding(book) : book[a].task = book[x].task => a = x
        /\ \A t \in TaskId : tasks[t] # None /\ tasks[t].status = "assigned" =>
               \E a \in Holding(book) : book[a].task = t
    BY <2>1 DEF OneStory
  <2>4. \A a \in ActiveCourses(book) :
            tasks[book[a].task] = [status |-> "assigned", order |-> book[a].order]
    <3> SUFFICES ASSUME NEW a \in ActiveCourses(book)
                 PROVE tasks[book[a].task] = [status |-> "assigned", order |-> book[a].order]
      OBVIOUS
    <3>1. book[a].task \in TaskId
      BY <2>1, <2>2 DEF Courses, BookType, Course
    <3>2. /\ tasks[book[a].task] # None /\ tasks[book[a].task].order = book[a].order
          /\ tasks[book[a].task].status = "assigned"
      BY <2>2, <2>3
    <3>3. tasks[book[a].task] \in QueuedTask
      BY <2>1, <3>1, <3>2 DEF QueueType
    <3>4. QED
      BY <3>2, <3>3 DEF QueuedTask
  <2>5. ASSUME NEW t \in TaskId, tasks[t] # None
        PROVE  /\ tasks[t].status = "queued" => \A a \in ActiveCourses(book) : book[a].task # t
               /\ tasks[t].status = "assigned" =>
                      Cardinality({a \in Courses(book) : book[a].task = t
                          /\ book[a].status \in ActiveStatus \cup {"delivered", "returned"}}) = 1
    <3>1. tasks[t].status = "queued" => \A a \in ActiveCourses(book) : book[a].task # t
      BY <2>2, <2>3
    <3>2. ASSUME tasks[t].status = "assigned"
          PROVE  Cardinality({a \in Courses(book) : book[a].task = t
                     /\ book[a].status \in ActiveStatus \cup {"delivered", "returned"}}) = 1
      <4>1. PICK a \in Holding(book) : book[a].task = t
        BY <2>3, <2>5, <3>2
      <4>2. {x \in Courses(book) : book[x].task = t
                /\ book[x].status \in ActiveStatus \cup {"delivered", "returned"}} = {a}
        BY <2>3, <4>1 DEF Holding, Completed
      <4>3. Cardinality({a}) = 1
        BY FS_Singleton
      <4>4. QED
        BY <4>2, <4>3
    <3>3. QED
      BY <3>1, <3>2
  <2>6. QED
    BY <2>3, <2>4, <2>5 DEF TaskHasOneHome
<1>2. QED
  BY <1>1, StoryInvariant, PTL

-----------------------------------------------------------------------------
(***************************************************************************)
(* The three books agree, proved: the leases of the authority, the courses *)
(* of the assignment book and the rows of the queue, in memory and on the  *)
(* disk, through every door, sweep, retirement and restart.                *)
(*                                                                         *)
(* That leases and courses are one for one is not inductive alone.  A      *)
(* command is answered from two memories, the authority's and the book's,  *)
(* and a replayed answer changes nothing: the proof carries along that the *)
(* two remember the same (Recalled), that an id the object makes up is     *)
(* answered once and names what is past (SaidOnce), and that a course is   *)
(* on its lease's task until it is acknowledged (Paired), so that a sweep, *)
(* which speaks of tasks, ends the courses of the leases it ends.          *)
(***************************************************************************)

\* Every course's lease is on a task that is in the queue under its order.
Rooted(b, ts) ==
    \A a \in Courses(b) :
        ts[b[a].lease.taskId] # None /\ ts[b[a].lease.taskId].order = b[a].order

\* The active leases A and the courses under way are one for one.  A course not
\* yet acknowledged is still on its lease's task; when it has moved, that task
\* is closed for good.
Paired(A, wit, b, ts) ==
    /\ \A a \in ActiveCourses(b) :
           /\ b[a].lease \in wit
           /\ \E l \in A : /\ refOf(l) = b[a].lease /\ l.riderId = b[a].rider
                           /\ b[a].status = "acknowledged" => l.anchored
    /\ \A l \in A : \E a \in ActiveCourses(b) : b[a].lease = refOf(l)
    /\ \A a, x \in ActiveCourses(b) : b[a].lease = b[x].lease => a = x
    /\ \A a \in ActiveCourses(b) :
           \/ b[a].task = b[a].lease.taskId
           \/ b[a].status = "acknowledged" /\ ts[b[a].lease.taskId].status \in Closed

\* The grant the authority remembers of a command is the course the book
\* remembers of it: a command sent again while its course is under way is
\* answered by both.
Recalled(ver, app, b, rem, us) ==
    \A c \in AssignCommand :
        /\ app[c].kind \in {"none", "acquire"}
        /\ \A r \in app[c].refs : r.version <= ver[r.taskId]
        /\ rem[c] \in us \cup {None}
        /\ \A a \in ActiveCourses(b) : b[a].lease \in app[c].refs <=> rem[c] = a

\* A course whose rider has not answered.
Awaits(b, a) == a \in Courses(b) /\ b[a].status \in AwaitingAck
\* A task that is queued, or that a course under way or its lease is about.
Live(b, ts, t) ==
    \/ ts[t] # None /\ ts[t].status = "queued"
    \/ \E a \in ActiveCourses(b) : b[a].task = t \/ b[a].lease.taskId = t

\* An id the object makes up is answered once, and what it names is then past:
\* a course answered, a course ended, a task that is over.
SaidOnce(app, b, ts, pr, us) ==
    /\ \A a \in AssignmentId :
         /\ app[<<"ack", a>>] # Unseen \/ app[<<"decline", a>>] # Unseen =>
                a \in us /\ ~Awaits(b, a)
         /\ app[<<"take-back", a>>] # Unseen => a \in us /\ a \notin ActiveCourses(b)
    /\ \A t \in TaskId : app[<<"complete", t>>] # Unseen =>
           Given(t, pr, us) /\ ~Live(b, ts, t)

Sound(s, wit, b, rem, ts, pr, us) ==
    /\ Rooted(b, ts)
    /\ Paired(Active(s), wit, b, ts)
    /\ Recalled(s.versions, s.applied, b, rem, us)
    /\ SaidOnce(s.applied, b, ts, pr, us)

SoundHere == Sound(leaseState, witness, book, remembered, tasks, processed, used)
SoundSaved == Sound(saved.leaseState, saved.witness, saved.book, saved.remembered,
                    saved.tasks, saved.processed, used)
\* Every acknowledgement is on disk before it is answered.
AcknowledgedIsSaved ==
    \A a \in ActiveCourses(book) : book[a].status = "acknowledged" =>
        saved.book[a] # None /\ saved.book[a].status = "acknowledged"

BooksInv ==
    /\ StoryInv
    /\ clock \in 0..world.until
    /\ ByTheBooks => SoundHere /\ SoundSaved
    /\ AcknowledgedIsSaved

-----------------------------------------------------------------------------
(* What one decision does to the active leases.                            *)

\* The leases that end are no longer active, the others are what they were.
LEMMA EndingActive ==
  ASSUME NEW s, LeaseInv(s), NEW D, NEW status \in {"released", "expired"},
         NEW z, z.leases = Ending(s.leases, D, status)
  PROVE  Active(z) = Active(s) \ D
<1> DEFINE f(l) == [l EXCEPT !.status = IF l \in D THEN status ELSE @]
<1>1. \A l \in s.leases : /\ l \in D => f(l).status # "active"
                          /\ l \notin D => f(l) = l
  BY DEF LeaseInv, Lease
<1>2. z.leases = {f(l) : l \in s.leases}
  BY DEF Ending
<1> HIDE DEF f
<1>3. \A m \in Active(z) : m \in Active(s) \ D
  BY <1>1, <1>2 DEF Active
<1>4. \A m \in Active(s) \ D : m \in Active(z)
  <2> SUFFICES ASSUME NEW m \in Active(s) \ D PROVE m \in Active(z)
    OBVIOUS
  <2>1. m \in s.leases /\ m \notin D /\ m.status = "active"
    BY DEF Active
  <2>2. f(m) = m
    BY <1>1, <2>1
  <2>3. m \in z.leases
    BY <1>2, <2>1, <2>2
  <2>4. QED
    BY <2>1, <2>3 DEF Active
<1>5. QED
  BY <1>3, <1>4

\* The active lease of a task is the only one.
LEMMA OneOnTask ==
  ASSUME NEW s, LeaseInv(s), NEW l \in Active(s)
  PROVE  ActiveOn(s, l.taskId) = {l}
BY DEF LeaseInv, OneLease, ActiveOn

\* A release under a new id ends the active lease of the task it names.
LEMMA ReleaseEnds ==
  ASSUME NEW s, LeaseInv(s), NEW l \in Active(s), NEW id, s.applied[id] = Unseen,
         NEW z, z = decideLease(s, ReleaseCmd(id, l.taskId)).state
  PROVE  /\ Active(z) = Active(s) \ {l} /\ z.versions = s.versions
         /\ z.applied = [s.applied EXCEPT ![id] = [kind |-> "release", refs |-> {refOf(l)}]]
<1> DEFINE cmd == ReleaseCmd(id, l.taskId)
<1>1. cmd.kind = "release" /\ cmd.id = id /\ cmd.taskId = l.taskId
  BY DEF ReleaseCmd
<1> HIDE DEF cmd
<1>2. ActiveOn(s, cmd.taskId) = {l}
  BY <1>1, OneOnTask
<1>3. decideLease(s, cmd) = Release(s, cmd)
  BY <1>1 DEF decideLease, IsReplay
<1>4. Release(s, cmd) = Applied(s, cmd, Ending(s.leases, {l}, "released"), s.versions, {refOf(l)})
  <2>1. {refOf(m) : m \in {l}} = {refOf(l)}
    OBVIOUS
  <2>2. QED
    BY <1>2, <2>1 DEF Release
<1>5. z = Release(s, cmd).state
  BY <1>3 DEF cmd
<1>6. /\ z.leases = Ending(s.leases, {l}, "released") /\ z.versions = s.versions
      /\ z.applied = [s.applied EXCEPT ![id] = [kind |-> "release", refs |-> {refOf(l)}]]
  <2>1. z = Applied(s, cmd, Ending(s.leases, {l}, "released"), s.versions, {refOf(l)}).state
    BY <1>4, <1>5
  <2>2. QED
    BY <1>1, <2>1 DEF Applied
<1>7. QED
  BY <1>6, EndingActive

\* The active leases B are A with the lease l anchored.
Anchored(A, l, B) ==
    \E m \in B : /\ refOf(m) = refOf(l) /\ m.riderId = l.riderId /\ m.anchored
                 /\ B = (A \ {l}) \cup {m}

\* An anchor under a new id anchors the active lease of the task it names.
LEMMA AnchorAnchors ==
  ASSUME NEW s, LeaseInv(s), NEW l \in Active(s), NEW id, s.applied[id] = Unseen,
         NEW z, z = decideLease(s, [kind |-> "anchor", id |-> id, taskId |-> l.taskId]).state
  PROVE  /\ Anchored(Active(s), l, Active(z)) /\ z.versions = s.versions
         /\ z.applied = [s.applied EXCEPT ![id] = [kind |-> "anchor", refs |-> {refOf(l)}]]
<1> DEFINE cmd == [kind |-> "anchor", id |-> id, taskId |-> l.taskId]
           f(k) == [k EXCEPT !.anchored = (k \in {l}) \/ @]
<1>1. cmd.kind = "anchor" /\ cmd.id = id /\ cmd.taskId = l.taskId
  OBVIOUS
<1>5. z = decideLease(s, cmd).state
  OBVIOUS
<1> HIDE DEF cmd
<1>2. ActiveOn(s, cmd.taskId) = {l}
  BY <1>1, OneOnTask
<1>3. decideLease(s, cmd) = Anchor(s, cmd)
  BY <1>1 DEF decideLease, IsReplay
<1>4. Anchor(s, cmd) = Applied(s, cmd, Anchoring(s.leases, {l}), s.versions, {refOf(l)})
  <2>1. {refOf(m) : m \in {l}} = {refOf(l)}
    OBVIOUS
  <2>2. QED
    BY <1>2, <2>1 DEF Anchor
<1>6. /\ z.leases = {f(k) : k \in s.leases} /\ z.versions = s.versions
      /\ z.applied = [s.applied EXCEPT ![id] = [kind |-> "anchor", refs |-> {refOf(l)}]]
  <2>1. z = Applied(s, cmd, Anchoring(s.leases, {l}), s.versions, {refOf(l)}).state
    BY <1>3, <1>4, <1>5
  <2>2. Anchoring(s.leases, {l}) = {f(k) : k \in s.leases}
    BY DEF Anchoring
  <2> HIDE DEF f
  <2>3. /\ z.leases = Anchoring(s.leases, {l}) /\ z.versions = s.versions
        /\ z.applied = [s.applied EXCEPT ![cmd.id] = [kind |-> cmd.kind, refs |-> {refOf(l)}]]
    BY <2>1 DEF Applied
  <2>4. QED
    BY <1>1, <2>2, <2>3
<1>7. \A k \in s.leases \ {l} : f(k) = k
  BY DEF LeaseInv, Lease
<1>8. /\ l \in s.leases /\ f(l).status = "active" /\ f(l).anchored
      /\ refOf(f(l)) = refOf(l) /\ f(l).riderId = l.riderId
  BY DEF LeaseInv, Lease, Active, refOf
<1> HIDE DEF f
<1>9. Active(z) = (Active(s) \ {l}) \cup {f(l)}
  <2>1. \A m \in Active(z) : m \in (Active(s) \ {l}) \cup {f(l)}
    BY <1>6, <1>7, <1>8 DEF Active
  <2>2. \A m \in Active(s) \ {l} : m \in Active(z)
    <3> SUFFICES ASSUME NEW m \in Active(s) \ {l} PROVE m \in Active(z)
      OBVIOUS
    <3>1. m \in s.leases /\ m # l /\ m.status = "active"
      BY DEF Active
    <3>2. m = f(m)
      BY <1>7, <3>1
    <3>3. QED
      BY <1>6, <3>1, <3>2 DEF Active
  <2>3. f(l) \in Active(z)
    BY <1>6, <1>8 DEF Active
  <2>4. QED
    BY <2>1, <2>2, <2>3
<1>10. QED
  BY <1>6, <1>8, <1>9 DEF Anchored

\* A first sweep ends what is due.
LEMMA SweepEnds ==
  ASSUME NEW s, LeaseInv(s), NEW now,
         NEW d, d = decideLease(s, [kind |-> "expire_due", id |-> <<"expire-due", now>>,
                                    now |-> now]),
         ~d.replay
  PROVE  /\ Active(d.state) = Active(s) \ Due(s, now) /\ d.state.versions = s.versions
         /\ d.refs = {refOf(l) : l \in Due(s, now)}
         /\ d.state.applied = [s.applied EXCEPT ![<<"expire-due", now>>] =
                                   [kind |-> "expire_due", refs |-> d.refs]]
<1> DEFINE id == <<"expire-due", now>>
           cmd == [kind |-> "expire_due", id |-> id, now |-> now]
<1>1. cmd.kind = "expire_due" /\ cmd.id = id /\ cmd.now = now /\ d = decideLease(s, cmd)
  OBVIOUS
<1> HIDE DEF cmd
<1>2. d = ExpireDue(s, cmd)
  BY <1>1 DEF decideLease, Replayed
<1>3. d = Applied(s, cmd, Ending(s.leases, Due(s, now), "expired"), s.versions,
                  {refOf(l) : l \in Due(s, now)})
  BY <1>1, <1>2 DEF ExpireDue
<1> HIDE DEF id
<1>4. /\ d.state.leases = Ending(s.leases, Due(s, now), "expired")
      /\ d.state.versions = s.versions /\ d.refs = {refOf(l) : l \in Due(s, now)}
      /\ d.state.applied = [s.applied EXCEPT ![id] = [kind |-> "expire_due", refs |-> d.refs]]
  BY <1>1, <1>3 DEF Applied
<1>5. QED
  BY <1>4, EndingActive DEF id

\* A grant that is not a replay: a free rider, a free task, the next version.
Granted(s, cmd, g, z) ==
    /\ cmd.eligible
    /\ \A l \in Active(s) : l.riderId # cmd.riderId /\ l.taskId # cmd.taskId
    /\ g.taskId = cmd.taskId /\ g.riderId = cmd.riderId
    /\ g.version = s.versions[cmd.taskId] + 1
    /\ Active(z) = Active(s) \cup {g}
    /\ z.versions = [s.versions EXCEPT ![cmd.taskId] = g.version]
    /\ z.applied = [s.applied EXCEPT ![cmd.id] = [kind |-> "acquire", refs |-> {refOf(g)}]]

\* A grant that is not a replay adds one active lease, under the next version.
LEMMA AcquireGrants ==
  ASSUME NEW s, LeaseInv(s), NEW cmd, cmd.kind = "acquire",
         NEW d, d = decideLease(s, cmd), d.ok, ~IsReplay(s, cmd)
  PROVE  \E g : d.refs = {refOf(g)} /\ ~d.replay /\ Granted(s, cmd, g, d.state)
<1> DEFINE v == s.versions[cmd.taskId] + 1
           g == [taskId |-> cmd.taskId, riderId |-> cmd.riderId,
                 version |-> v, status |-> "active",
                 expiresAt |-> cmd.at + TTL, anchored |-> FALSE]
<1>1. d = Acquire(s, cmd)
  BY DEF decideLease
<1>2. /\ cmd.eligible /\ \A l \in Active(s) : l.riderId # cmd.riderId /\ l.taskId # cmd.taskId
      /\ d = Applied(s, cmd, s.leases \cup {g}, [s.versions EXCEPT ![cmd.taskId] = v], {refOf(g)})
  BY <1>1 DEF Acquire, Refused
<1>3. /\ g.taskId = cmd.taskId /\ g.riderId = cmd.riderId /\ g.version = v
      /\ g.status = "active"
  OBVIOUS
<1> HIDE DEF g
<1>4. /\ d.state.leases = s.leases \cup {g} /\ d.refs = {refOf(g)} /\ ~d.replay
      /\ d.state.versions = [s.versions EXCEPT ![cmd.taskId] = v]
      /\ d.state.applied = [s.applied EXCEPT ![cmd.id] = [kind |-> "acquire", refs |-> {refOf(g)}]]
  BY <1>2 DEF Applied
<1>5. Active(d.state) = Active(s) \cup {g}
  BY <1>3, <1>4 DEF Active
<1>6. QED
  BY <1>2, <1>3, <1>4, <1>5 DEF Granted
-----------------------------------------------------------------------------
(* Leases and courses, one for one.                                        *)

\* A row of the queue that stays, under its order, closed if it was closed.
Stays(ts, zs, t) ==
    ts[t] # None => /\ zs[t] # None /\ zs[t].order = ts[t].order
                    /\ ts[t].status \in Closed => zs[t].status \in Closed

\* Courses stay rooted while no row goes and no course comes.
LEMMA RootedKept ==
  ASSUME NEW b, NEW ts, Rooted(b, ts), NEW z, NEW zs, Courses(z) \subseteq Courses(b),
         \A x \in Courses(z) : /\ z[x].lease = b[x].lease /\ z[x].order = b[x].order
                               /\ Stays(ts, zs, b[x].lease.taskId)
  PROVE  Rooted(z, zs)
BY DEF Rooted, Stays

\* A course written on a row of its order is rooted.
LEMMA RootedWritten ==
  ASSUME NEW b, NEW ts, Rooted(b, ts), NEW a, NEW row, NEW z, Written(b, a, row, z), NEW zs,
         \A x \in Courses(b) : Stays(ts, zs, b[x].lease.taskId),
         zs[row.lease.taskId] # None, zs[row.lease.taskId].order = row.order
  PROVE  Rooted(z, zs)
BY DEF Rooted, Stays, Written

\* The courses under way go on, with their leases and their riders.
LEMMA PairedGoesOn ==
  ASSUME NEW A, NEW wit, NEW b, NEW ts, Paired(A, wit, b, ts), NEW z, NEW zs,
         ActiveCourses(z) = ActiveCourses(b),
         \A x \in ActiveCourses(b) :
             /\ z[x].lease = b[x].lease /\ z[x].rider = b[x].rider
             /\ z[x].status = "acknowledged" => b[x].status = "acknowledged"
             /\ \/ z[x].task = b[x].lease.taskId
                \/ /\ z[x].status = "acknowledged"
                   /\ zs[b[x].lease.taskId].status \in Closed
  PROVE  Paired(A, wit, z, zs)
<1>1. \A a \in ActiveCourses(z) :
          /\ z[a].lease \in wit
          /\ \E l \in A : /\ refOf(l) = z[a].lease /\ l.riderId = z[a].rider
                          /\ z[a].status = "acknowledged" => l.anchored
  <2> SUFFICES ASSUME NEW a \in ActiveCourses(b)
               PROVE  /\ z[a].lease \in wit
                      /\ \E l \in A : /\ refOf(l) = z[a].lease /\ l.riderId = z[a].rider
                                      /\ z[a].status = "acknowledged" => l.anchored
    OBVIOUS
  <2>1. PICK l \in A : /\ refOf(l) = b[a].lease /\ l.riderId = b[a].rider
                       /\ b[a].status = "acknowledged" => l.anchored
    BY DEF Paired
  <2>2. b[a].lease \in wit
    BY DEF Paired
  <2>3. QED
    BY <2>1, <2>2
<1>2. \A l \in A : \E a \in ActiveCourses(z) : z[a].lease = refOf(l)
  BY DEF Paired
<1>3. \A a, x \in ActiveCourses(z) : z[a].lease = z[x].lease => a = x
  BY DEF Paired
<1>4. \A a \in ActiveCourses(z) :
          \/ z[a].task = z[a].lease.taskId
          \/ z[a].status = "acknowledged" /\ zs[z[a].lease.taskId].status \in Closed
  OBVIOUS
<1>5. QED
  BY <1>1, <1>2, <1>3, <1>4 DEF Paired

\* Courses and their leases end together.
LEMMA PairedEnded ==
  ASSUME NEW A, NEW wit, NEW b, NEW ts, Paired(A, wit, b, ts), NEW S, NEW D,
         \A a \in ActiveCourses(b), l \in A : refOf(l) = b[a].lease => (a \in S <=> l \in D),
         NEW wit2, \A a \in ActiveCourses(b) \ S : b[a].lease \in wit2,
         NEW z, NEW zs, ActiveCourses(z) = ActiveCourses(b) \ S,
         \A x \in ActiveCourses(z) : z[x] = b[x] /\ Stays(ts, zs, b[x].lease.taskId),
         Rooted(b, ts)
  PROVE  Paired(A \ D, wit2, z, zs)
<1>1. \A a \in ActiveCourses(z) :
          /\ z[a].lease \in wit2
          /\ \E l \in A \ D : /\ refOf(l) = z[a].lease /\ l.riderId = z[a].rider
                              /\ z[a].status = "acknowledged" => l.anchored
  <2> SUFFICES ASSUME NEW a \in ActiveCourses(z)
               PROVE  /\ z[a].lease \in wit2
                      /\ \E l \in A \ D : /\ refOf(l) = z[a].lease /\ l.riderId = z[a].rider
                                          /\ z[a].status = "acknowledged" => l.anchored
    OBVIOUS
  <2>1. PICK l \in A : /\ refOf(l) = b[a].lease /\ l.riderId = b[a].rider
                       /\ b[a].status = "acknowledged" => l.anchored
    BY DEF Paired
  <2>2. QED
    BY <2>1
<1>2. \A l \in A \ D : \E a \in ActiveCourses(z) : z[a].lease = refOf(l)
  <2> SUFFICES ASSUME NEW l \in A \ D PROVE \E a \in ActiveCourses(z) : z[a].lease = refOf(l)
    OBVIOUS
  <2>1. PICK a \in ActiveCourses(b) : b[a].lease = refOf(l)
    BY DEF Paired
  <2>2. a \in ActiveCourses(z)
    BY <2>1
  <2>3. QED
    BY <2>1, <2>2
<1>3. \A a, x \in ActiveCourses(z) : z[a].lease = z[x].lease => a = x
  BY DEF Paired
<1>4. \A a \in ActiveCourses(z) :
          \/ z[a].task = z[a].lease.taskId
          \/ z[a].status = "acknowledged" /\ zs[z[a].lease.taskId].status \in Closed
  BY DEF Paired, Stays, Rooted, ActiveCourses
<1>5. QED
  BY <1>1, <1>2, <1>3, <1>4 DEF Paired

\* The course of one lease ends, and the lease with it.
LEMMA OneEnds ==
  ASSUME NEW s, LeaseInv(s), NEW wit, NEW b, NEW ts, Paired(Active(s), wit, b, ts),
         NEW a \in ActiveCourses(b)
  PROVE  \E l \in Active(s) :
             /\ refOf(l) = b[a].lease /\ l.taskId = b[a].lease.taskId
             /\ l.riderId = b[a].rider
             /\ \A x \in ActiveCourses(b), m \in Active(s) :
                    refOf(m) = b[x].lease => (x \in {a} <=> m \in {l})
             /\ \A x \in ActiveCourses(b) \ {a} :
                    b[x].lease # b[a].lease /\ b[x].lease.taskId # b[a].lease.taskId
<1>1. PICK l \in Active(s) : refOf(l) = b[a].lease /\ l.riderId = b[a].rider
  BY DEF Paired
<1>2. l.taskId = b[a].lease.taskId
  BY <1>1 DEF refOf
<1>3. \A m \in Active(s) : refOf(m) = refOf(l) => m = l
  BY NameIsLease DEF Active
<1>4. \A x \in ActiveCourses(b), m \in Active(s) :
          refOf(m) = b[x].lease => (x \in {a} <=> m \in {l})
  BY <1>1, <1>3 DEF Paired
<1>5. \A x \in ActiveCourses(b) \ {a} :
          b[x].lease # b[a].lease /\ b[x].lease.taskId # b[a].lease.taskId
  <2> SUFFICES ASSUME NEW x \in ActiveCourses(b) \ {a}, b[x].lease.taskId = b[a].lease.taskId
               PROVE FALSE
    BY DEF Paired
  <2>1. PICK m \in Active(s) : refOf(m) = b[x].lease
    BY DEF Paired
  <2>2. m.taskId = l.taskId
    BY <1>2, <2>1 DEF refOf
  <2>3. m = l
    BY <2>2 DEF LeaseInv, OneLease
  <2>4. QED
    BY <1>1, <2>1, <2>3 DEF Paired
<1>6. QED
  BY <1>1, <1>2, <1>4, <1>5

\* An acknowledgement anchors the lease of its course.
LEMMA PairedAnchored ==
  ASSUME NEW A, NEW wit, NEW b, NEW ts, Paired(A, wit, b, ts), NEW a \in ActiveCourses(b),
         NEW l \in A, refOf(l) = b[a].lease,
         \A x \in ActiveCourses(b) \ {a} : b[x].lease # b[a].lease,
         l.riderId = b[a].rider, b[a].status # "acknowledged",
         NEW B, Anchored(A, l, B),
         NEW z, ActiveCourses(z) = ActiveCourses(b), Restated(b, a, "acknowledged", z)
  PROVE  Paired(B, wit, z, ts)
<1>1. PICK m \in B : /\ refOf(m) = refOf(l) /\ m.riderId = l.riderId /\ m.anchored
                     /\ B = (A \ {l}) \cup {m}
  BY DEF Anchored
<1>2. /\ z[a].task = b[a].task /\ z[a].rider = b[a].rider /\ z[a].lease = b[a].lease
      /\ \A x \in ActiveCourses(b) \ {a} : z[x] = b[x]
  BY DEF Restated, ActiveCourses
<1>3. \A x \in ActiveCourses(z) :
          /\ z[x].lease \in wit
          /\ \E k \in B : /\ refOf(k) = z[x].lease /\ k.riderId = z[x].rider
                          /\ z[x].status = "acknowledged" => k.anchored
  <2> SUFFICES ASSUME NEW x \in ActiveCourses(b)
               PROVE  /\ z[x].lease \in wit
                      /\ \E k \in B : /\ refOf(k) = z[x].lease /\ k.riderId = z[x].rider
                                      /\ z[x].status = "acknowledged" => k.anchored
    OBVIOUS
  <2>1. b[x].lease \in wit
    BY DEF Paired
  <2>2. CASE x = a
    BY <1>1, <1>2, <2>1, <2>2
  <2>3. CASE x # a
    <3>1. PICK k \in A : /\ refOf(k) = b[x].lease /\ k.riderId = b[x].rider
                         /\ b[x].status = "acknowledged" => k.anchored
      BY DEF Paired
    <3>2. k # l /\ k \in B
      BY <1>1, <2>3, <3>1
    <3>3. QED
      BY <1>2, <2>1, <2>3, <3>1, <3>2
  <2>4. QED
    BY <2>2, <2>3
<1>4. \A k \in B : \E x \in ActiveCourses(z) : z[x].lease = refOf(k)
  <2>1. \A k \in A : \E x \in ActiveCourses(b) : b[x].lease = refOf(k)
    BY DEF Paired
  <2>2. \A x \in ActiveCourses(b) : z[x].lease = b[x].lease
    BY <1>2
  <2>3. QED
    BY <1>1, <2>1, <2>2
<1>5. \A x, y \in ActiveCourses(z) : z[x].lease = z[y].lease => x = y
  BY <1>2 DEF Paired
<1>6. \A x \in ActiveCourses(z) :
          \/ z[x].task = z[x].lease.taskId
          \/ z[x].status = "acknowledged" /\ ts[z[x].lease.taskId].status \in Closed
  BY <1>2 DEF Paired
<1>7. QED
  BY <1>3, <1>4, <1>5, <1>6 DEF Paired

\* A grant and the course written under it.
LEMMA PairedGranted ==
  ASSUME NEW s, LeaseInv(s), NEW wit, NEW b, NEW ts, Paired(Active(s), wit, b, ts),
         NEW g, NEW a, NEW row, row.lease = refOf(g), row.rider = g.riderId,
         row.task = g.taskId, row.status = "active_unacknowledged",
         \A l \in Active(s) : l.taskId # g.taskId,
         NEW z, Written(b, a, row, z), NEW zs,
         \A x \in ActiveCourses(b) : Stays(ts, zs, b[x].lease.taskId), Rooted(b, ts)
  PROVE  Paired(Active(s) \cup {g}, wit \cup {refOf(g)}, z, zs)
<1> DEFINE A == Active(s)
<1>1. /\ ActiveCourses(z) = ActiveCourses(b) \cup {a} /\ z[a] = row
      /\ \A x \in ActiveCourses(b) : z[x] = b[x] /\ x # a
  BY DEF Written, ActiveCourses, ActiveStatus
<1>2. refOf(g).taskId = g.taskId
  BY DEF refOf
<1>3. \A x \in ActiveCourses(b) : b[x].lease # refOf(g)
  <2> SUFFICES ASSUME NEW x \in ActiveCourses(b), b[x].lease = refOf(g) PROVE FALSE
    OBVIOUS
  <2>1. PICK l \in A : refOf(l) = b[x].lease
    BY DEF Paired
  <2>2. l.taskId = g.taskId
    BY <2>1 DEF refOf
  <2>3. QED
    BY <2>2
<1>4. \A x \in ActiveCourses(z) :
          /\ z[x].lease \in wit \cup {refOf(g)}
          /\ \E k \in A \cup {g} : /\ refOf(k) = z[x].lease /\ k.riderId = z[x].rider
                                   /\ z[x].status = "acknowledged" => k.anchored
  <2> SUFFICES ASSUME NEW x \in ActiveCourses(z)
               PROVE  /\ z[x].lease \in wit \cup {refOf(g)}
                      /\ \E k \in A \cup {g} : /\ refOf(k) = z[x].lease /\ k.riderId = z[x].rider
                                               /\ z[x].status = "acknowledged" => k.anchored
    OBVIOUS
  <2>1. CASE x = a
    BY <1>1, <2>1
  <2>2. CASE x # a
    <3>1. b[x].lease \in wit /\ x \in ActiveCourses(b)
      BY <1>1, <2>2 DEF Paired
    <3>2. PICK k \in A : /\ refOf(k) = b[x].lease /\ k.riderId = b[x].rider
                         /\ b[x].status = "acknowledged" => k.anchored
      BY <3>1 DEF Paired
    <3>3. QED
      BY <1>1, <3>1, <3>2
  <2>3. QED
    BY <2>1, <2>2
<1>5. \A k \in A \cup {g} : \E x \in ActiveCourses(z) : z[x].lease = refOf(k)
  <2>1. \A k \in A : \E x \in ActiveCourses(b) : b[x].lease = refOf(k)
    BY DEF Paired
  <2>2. QED
    BY <1>1, <2>1
<1>6. \A x, y \in ActiveCourses(z) : z[x].lease = z[y].lease => x = y
  <2>1. \A x, y \in ActiveCourses(b) : b[x].lease = b[y].lease => x = y
    BY DEF Paired
  <2>2. QED
    BY <1>1, <1>3, <2>1
<1>7. \A x \in ActiveCourses(z) :
          \/ z[x].task = z[x].lease.taskId
          \/ z[x].status = "acknowledged" /\ zs[z[x].lease.taskId].status \in Closed
  <2>1. \A x \in ActiveCourses(b) :
            \/ b[x].task = b[x].lease.taskId
            \/ b[x].status = "acknowledged" /\ zs[b[x].lease.taskId].status \in Closed
    BY DEF Paired, Stays, Rooted, ActiveCourses
  <2>2. QED
    BY <1>1, <1>2, <2>1
<1>8. QED
  BY <1>4, <1>5, <1>6, <1>7 DEF Paired
-----------------------------------------------------------------------------
(* What the authority and the book remember.                               *)

\* The answers app2 are app, but for one id.
Answered(app, id, app2) == \A k \in CommandId : k # id => app2[k] = app[k]

\* An answer recorded under an id changes that id's answer only.
LEMMA AnswerEdit ==
  ASSUME NEW app \in Answers, NEW id, NEW x
  PROVE  Answered(app, id, [app EXCEPT ![id] = x])
BY DEF Answers, Answered

\* The object's own ids are no console's.
LEMMA OwnAnswer ==
  ASSUME NEW app, NEW app2, NEW id \in OwnIds, Answered(app, id, app2)
  PROVE  \A c \in AssignCommand : app2[c] = app[c]
BY ConsoleAssumption, IdsAssumption DEF Answered, DispatchIds

\* The memories still agree when no command is answered and no course begins.
LEMMA RecalledKept ==
  ASSUME NEW ver, NEW app, NEW b, NEW rem, NEW us, Recalled(ver, app, b, rem, us),
         NEW app2, \A c \in AssignCommand : app2[c] = app[c],
         NEW z, ActiveCourses(z) \subseteq ActiveCourses(b),
         \A x \in ActiveCourses(z) : z[x].lease = b[x].lease,
         NEW us2, us \subseteq us2
  PROVE  Recalled(ver, app2, z, rem, us2)
BY DEF Recalled

\* A grant, and the course the book remembers it by.
LEMMA RecalledGranted ==
  ASSUME NEW s, LeaseInv(s), NEW wit, NEW b, NEW ts, Paired(Active(s), wit, b, ts),
         NEW rem \in [AssignCommand -> AssignmentId \cup {None}], NEW us,
         Recalled(s.versions, s.applied, b, rem, us),
         NEW c \in AssignCommand, NEW cmd, cmd.id = c, cmd.taskId \in TaskId,
         NEW g, NEW y, Granted(s, cmd, g, y),
         NEW a \in AssignmentId, a \notin us, ActiveCourses(b) \subseteq us,
         NEW row, row.lease = refOf(g), NEW z, Written(b, a, row, z)
  PROVE  Recalled(y.versions, y.applied, z, [rem EXCEPT ![c] = a], us \cup {a})
<1> DEFINE rem2 == [rem EXCEPT ![c] = a]
<1>1. /\ ActiveCourses(z) \subseteq ActiveCourses(b) \cup {a} /\ z[a].lease = refOf(g)
      /\ \A x \in ActiveCourses(b) : z[x] = b[x] /\ x # a
  BY DEF Written, ActiveCourses
<1>2. /\ s.versions \in [TaskId -> 0..MaxVersion] /\ c \in CommandId
      /\ s.applied \in Answers
  BY IdsAssumption DEF LeaseInv, DispatchIds
<1>3. /\ y.applied[c] = [kind |-> "acquire", refs |-> {refOf(g)}]
      /\ \A k \in AssignCommand \ {c} : y.applied[k] = s.applied[k]
  BY <1>2, IdsAssumption DEF Granted, Answers, DispatchIds
<1>4. /\ y.versions[cmd.taskId] = s.versions[cmd.taskId] + 1
      /\ \A t \in TaskId \ {cmd.taskId} : y.versions[t] = s.versions[t]
      /\ s.versions[cmd.taskId] \in Nat
  BY <1>2, VersionAssumption DEF Granted
<1>5. refOf(g).taskId = cmd.taskId /\ refOf(g).version = s.versions[cmd.taskId] + 1
  BY DEF Granted, refOf
<1>6. rem2[c] = a /\ \A k \in AssignCommand \ {c} : rem2[k] = rem[k]
  OBVIOUS
<1>7. \A k \in AssignCommand : \A r \in s.applied[k].refs :
          r.taskId \in TaskId /\ r.version \in Nat /\ r.version <= s.versions[r.taskId]
  <2> SUFFICES ASSUME NEW k \in AssignCommand, NEW r \in s.applied[k].refs
               PROVE  r.taskId \in TaskId /\ r.version \in Nat
                      /\ r.version <= s.versions[r.taskId]
    OBVIOUS
  <2>1. s.applied[k] \in Outcome \cup {Unseen}
    BY <1>2, IdsAssumption DEF Answers, DispatchIds
  <2>2. r \in LeaseRef
    BY <2>1 DEF Outcome, Unseen
  <2>3. QED
    BY <2>2, VersionAssumption DEF LeaseRef, Version, Recalled
<1>8. \A x \in ActiveCourses(b) : b[x].lease # refOf(g)
  <2> SUFFICES ASSUME NEW x \in ActiveCourses(b), b[x].lease = refOf(g) PROVE FALSE
    OBVIOUS
  <2>1. PICK l \in Active(s) : refOf(l) = b[x].lease
    BY DEF Paired
  <2>2. l.taskId = g.taskId
    BY <2>1 DEF refOf
  <2>3. QED
    BY <2>2 DEF Granted
<1> HIDE DEF rem2
<1>9. ASSUME NEW k \in AssignCommand
      PROVE  /\ y.applied[k].kind \in {"none", "acquire"}
             /\ \A r \in y.applied[k].refs : r.version <= y.versions[r.taskId]
             /\ rem2[k] \in us \cup {a} \cup {None}
             /\ \A x \in ActiveCourses(z) : z[x].lease \in y.applied[k].refs <=> rem2[k] = x
  <2>1. CASE k = c
    <3>1. y.applied[k].kind = "acquire" /\ y.applied[k].refs = {refOf(g)}
      BY <1>3, <2>1
    <3>2. \A x \in ActiveCourses(z) : z[x].lease \in y.applied[k].refs <=> rem2[k] = x
      BY <1>1, <1>6, <1>8, <2>1, <3>1
    <3>3. QED
      BY <1>4, <1>5, <1>6, <2>1, <3>1, <3>2
  <2>2. CASE k # c
    <3>1. y.applied[k] = s.applied[k] /\ rem2[k] = rem[k]
      BY <1>3, <1>6, <2>2
    <3>2. \A r \in s.applied[k].refs : r.version <= y.versions[r.taskId] /\ r # refOf(g)
      <4> SUFFICES ASSUME NEW r \in s.applied[k].refs
                   PROVE r.version <= y.versions[r.taskId] /\ r # refOf(g)
        OBVIOUS
      <4>1. r.taskId \in TaskId /\ r.version \in Nat /\ r.version <= s.versions[r.taskId]
        BY <1>7
      <4>2. CASE r.taskId = cmd.taskId
        BY <1>4, <1>5, <4>1, <4>2
      <4>3. CASE r.taskId # cmd.taskId
        BY <1>4, <1>5, <4>1, <4>3
      <4>4. QED
        BY <4>2, <4>3
    <3>3. /\ s.applied[k].kind \in {"none", "acquire"} /\ rem[k] \in us \cup {None}
          /\ \A x \in ActiveCourses(b) : b[x].lease \in s.applied[k].refs <=> rem[k] = x
      BY DEF Recalled
    <3>4. rem[k] # a
      BY <3>3, NoneAssumption
    <3>5. \A x \in ActiveCourses(z) : z[x].lease \in y.applied[k].refs <=> rem2[k] = x
      BY <1>1, <3>1, <3>2, <3>3, <3>4
    <3>6. QED
      BY <3>1, <3>2, <3>3, <3>5
  <2>3. QED
    BY <2>1, <2>2
<1>10. QED
  BY <1>9 DEF Recalled, rem2

\* No course and no task comes back to life.
Lessens(b, ts, z, zs, pr, us) ==
    /\ \A a \in us : /\ a \in ActiveCourses(z) => a \in ActiveCourses(b)
                     /\ Awaits(z, a) => Awaits(b, a)
    /\ \A t \in TaskId : Given(t, pr, us) /\ Live(z, zs, t) => Live(b, ts, t)

\* The ids the object makes up, apart from the sweeps', which name no row.
LEMMA SaidMore ==
  ASSUME NEW app, NEW b, NEW ts, NEW pr, NEW us, SaidOnce(app, b, ts, pr, us),
         NEW z, NEW zs, NEW pr2, NEW us2, pr \subseteq pr2, us \subseteq us2,
         Lessens(b, ts, z, zs, pr, us), NEW app2,
         \A a \in AssignmentId :
             /\ app2[<<"ack", a>>] # Unseen =>
                    app[<<"ack", a>>] # Unseen \/ (a \in us2 /\ ~Awaits(z, a))
             /\ app2[<<"decline", a>>] # Unseen =>
                    app[<<"decline", a>>] # Unseen \/ (a \in us2 /\ ~Awaits(z, a))
             /\ app2[<<"take-back", a>>] # Unseen =>
                    app[<<"take-back", a>>] # Unseen \/ (a \in us2 /\ a \notin ActiveCourses(z)),
         \A t \in TaskId : app2[<<"complete", t>>] # Unseen =>
             app[<<"complete", t>>] # Unseen \/ (Given(t, pr2, us2) /\ ~Live(z, zs, t))
  PROVE  SaidOnce(app2, z, zs, pr2, us2)
<1>1. \A t \in TaskId : Given(t, pr, us) => Given(t, pr2, us2)
  BY DEF Given
<1>2. ASSUME NEW a \in AssignmentId
      PROVE  /\ app2[<<"ack", a>>] # Unseen \/ app2[<<"decline", a>>] # Unseen =>
                    a \in us2 /\ ~Awaits(z, a)
             /\ app2[<<"take-back", a>>] # Unseen => a \in us2 /\ a \notin ActiveCourses(z)
  BY DEF SaidOnce, Lessens
<1>3. ASSUME NEW t \in TaskId
      PROVE  app2[<<"complete", t>>] # Unseen => Given(t, pr2, us2) /\ ~Live(z, zs, t)
  BY <1>1 DEF SaidOnce, Lessens
<1>4. QED
  BY <1>2, <1>3 DEF SaidOnce

\* The ids are told apart by the act they name, then by its row.
LEMMA OwnIdsApart ==
  /\ \A a \in AssignmentId : {<<"ack", a>>, <<"decline", a>>, <<"take-back", a>>} \subseteq OwnIds
  /\ \A t \in TaskId : <<"complete", t>> \in OwnIds
  /\ \A now \in Time : <<"expire-due", now>> \in OwnIds
  /\ OwnIds \subseteq CommandId
BY IdsAssumption DEF OwnIds, DispatchIds

\* What was said stays past while ids are only added and nothing comes back.
LEMMA SaidAside ==
  ASSUME NEW app, NEW app2, NEW id, Answered(app, id, app2),
         NEW b, NEW ts, NEW pr, NEW us, SaidOnce(app, b, ts, pr, us),
         NEW z, NEW zs, NEW pr2, NEW us2, pr \subseteq pr2, us \subseteq us2,
         Lessens(b, ts, z, zs, pr, us),
         \A a \in AssignmentId :
             /\ id \in {<<"ack", a>>, <<"decline", a>>} => a \in us2 /\ ~Awaits(z, a)
             /\ id = <<"take-back", a>> => a \in us2 /\ a \notin ActiveCourses(z),
         \A t \in TaskId : id = <<"complete", t>> => Given(t, pr2, us2) /\ ~Live(z, zs, t)
  PROVE  SaidOnce(app2, z, zs, pr2, us2)
<1>1. \A k \in OwnIds : k # id => app2[k] = app[k]
  BY OwnIdsApart DEF Answered
<1>2. \A a \in AssignmentId :
             /\ app2[<<"ack", a>>] # Unseen =>
                    app[<<"ack", a>>] # Unseen \/ (a \in us2 /\ ~Awaits(z, a))
             /\ app2[<<"decline", a>>] # Unseen =>
                    app[<<"decline", a>>] # Unseen \/ (a \in us2 /\ ~Awaits(z, a))
             /\ app2[<<"take-back", a>>] # Unseen =>
                    app[<<"take-back", a>>] # Unseen \/ (a \in us2 /\ a \notin ActiveCourses(z))
  BY <1>1, OwnIdsApart
<1>3. \A t \in TaskId : app2[<<"complete", t>>] # Unseen =>
             app[<<"complete", t>>] # Unseen \/ (Given(t, pr2, us2) /\ ~Live(z, zs, t))
  BY <1>1, OwnIdsApart
<1>4. QED
  BY <1>2, <1>3, SaidMore
-----------------------------------------------------------------------------
(* Every door keeps leases and courses one for one.                        *)

\* The courses under way after a status is written on one.
LEMMA RestatedActive ==
  ASSUME NEW b, NEW a \in Courses(b), NEW st, NEW z, Restated(b, a, st, z)
  PROVE  /\ st \in ActiveStatus => ActiveCourses(z) = ActiveCourses(b) \cup {a}
         /\ st \notin ActiveStatus => ActiveCourses(z) = ActiveCourses(b) \ {a}
         /\ \A x : Awaits(z, x) => IF x = a THEN st \in AwaitingAck ELSE Awaits(b, x)
         /\ \A x \in Courses(b) : z[x].task = b[x].task /\ z[x].lease = b[x].lease
                                  /\ z[x].order = b[x].order /\ z[x].rider = b[x].rider
BY DEF Restated, ActiveCourses, Awaits

\* What the story and the soundness of the books say here, taken apart.
LEMMA Apart ==
  ASSUME StoryInv, SoundHere
  PROVE  /\ LeaseInv(leaseState) /\ leaseState.applied \in Answers
         /\ book \in BookType /\ tasks \in QueueType /\ witness \subseteq LeaseRef
         /\ remembered \in [AssignCommand -> AssignmentId \cup {None}]
         /\ OneStory(book, tasks) /\ Known(book, tasks, processed, used)
         /\ Rooted(book, tasks) /\ Paired(Active(leaseState), witness, book, tasks)
         /\ Recalled(leaseState.versions, leaseState.applied, book, remembered, used)
         /\ SaidOnce(leaseState.applied, book, tasks, processed, used)
         /\ ActiveCourses(book) \subseteq Courses(book) /\ Courses(book) \subseteq AssignmentId
         /\ ActiveCourses(book) \subseteq Holding(book)
         /\ \A a \in Courses(book) : /\ book[a] \in Course /\ book[a].lease.taskId \in TaskId
                                     /\ book[a].task \in TaskId /\ book[a].order \in Order
<1>1. /\ LeaseInv(leaseState) /\ leaseState.applied \in Answers
      /\ book \in BookType /\ tasks \in QueueType /\ witness \subseteq LeaseRef
      /\ remembered \in [AssignCommand -> AssignmentId \cup {None}]
      /\ OneStory(book, tasks) /\ Known(book, tasks, processed, used)
  BY DEF StoryInv, DoorInv, LeaseInv, StoryHere, TypedHere, Typed
<1>2. /\ Rooted(book, tasks) /\ Paired(Active(leaseState), witness, book, tasks)
      /\ Recalled(leaseState.versions, leaseState.applied, book, remembered, used)
      /\ SaidOnce(leaseState.applied, book, tasks, processed, used)
  BY DEF SoundHere, Sound
<1>3. /\ ActiveCourses(book) \subseteq Courses(book) /\ Courses(book) \subseteq AssignmentId
      /\ ActiveCourses(book) \subseteq Holding(book)
  BY <1>1 DEF ActiveCourses, Courses, Holding, BookType
<1>4. \A a \in Courses(book) : /\ book[a] \in Course /\ book[a].lease.taskId \in TaskId
                               /\ book[a].task \in TaskId /\ book[a].order \in Order
  BY <1>1 DEF Courses, BookType, Course, LeaseRef
<1>5. QED
  BY <1>1, <1>2, <1>3, <1>4

\* No course under way but its own is about a course's task or its lease's.
LEMMA OwnTask ==
  ASSUME StoryInv, SoundHere, NEW a \in ActiveCourses(book),
         NEW x \in ActiveCourses(book), x # a
  PROVE  book[x].task # book[a].lease.taskId /\ book[x].lease.taskId # book[a].lease.taskId
<1>1. book[x].lease.taskId # book[a].lease.taskId
  BY Apart, OneEnds
<1>2. book[x].task # book[a].lease.taskId
  <2>1. /\ tasks[book[x].task].status = "assigned"
        /\ book[x].task # book[a].task
    BY Apart DEF OneStory
  <2>2. \/ book[a].task = book[a].lease.taskId
        \/ tasks[book[a].lease.taskId].status \in Closed
    BY Apart DEF Paired
  <2>3. QED
    BY <2>1, <2>2 DEF Closed
<1>3. QED
  BY <1>1, <1>2

\* One course ends and its lease is released, under an id never answered.
LEMMA SoundEnds ==
  ASSUME StoryInv, SoundHere, NEW a \in ActiveCourses(book),
         NEW st, st \notin ActiveStatus, Restated(book, a, st, book'),
         NEW id \in OwnIds, leaseState.applied[id] = Unseen,
         leaseState' = decideLease(leaseState, ReleaseCmd(id, book[a].lease.taskId)).state,
         witness' = witness \ {book[a].lease},
         \A t \in TaskId :
             /\ Stays(tasks, tasks', t)
             /\ tasks'[t] # None /\ tasks'[t].status = "queued" => Live(book, tasks, t)
             /\ id = <<"complete", t>> =>
                    /\ t = book[a].lease.taskId
                    /\ ~(tasks'[t] # None /\ tasks'[t].status = "queued"),
         \A x \in AssignmentId :
             id \in {<<"ack", x>>, <<"decline", x>>, <<"take-back", x>>} => x = a,
         UNCHANGED <<remembered, processed, used>>
  PROVE  SoundHere'
<1>1. /\ LeaseInv(leaseState) /\ leaseState.applied \in Answers /\ a \in Courses(book)
      /\ Rooted(book, tasks) /\ Paired(Active(leaseState), witness, book, tasks)
      /\ Recalled(leaseState.versions, leaseState.applied, book, remembered, used)
      /\ SaidOnce(leaseState.applied, book, tasks, processed, used)
      /\ \A x \in Courses(book) : book[x].lease.taskId \in TaskId
      /\ ActiveCourses(book) \subseteq Courses(book)
  BY Apart
<1>2. /\ ActiveCourses(book') = ActiveCourses(book) \ {a} /\ Courses(book') = Courses(book)
      /\ \A x : Awaits(book', x) => x # a /\ Awaits(book, x)
      /\ \A x \in Courses(book) :
             /\ book'[x].task = book[x].task /\ book'[x].lease = book[x].lease
             /\ book'[x].order = book[x].order
      /\ \A x \in ActiveCourses(book') : book'[x] = book[x]
  BY <1>1, RestatedActive DEF Restated, ActiveCourses, AwaitingAck
<1>3. PICK l \in Active(leaseState) :
          /\ refOf(l) = book[a].lease /\ l.taskId = book[a].lease.taskId
          /\ \A x \in ActiveCourses(book), m \in Active(leaseState) :
                 refOf(m) = book[x].lease => (x \in {a} <=> m \in {l})
          /\ \A x \in ActiveCourses(book) \ {a} : book[x].lease # book[a].lease
  BY <1>1, OneEnds
<1>4. /\ Active(leaseState') = Active(leaseState) \ {l}
      /\ leaseState'.versions = leaseState.versions
      /\ leaseState'.applied = [leaseState.applied EXCEPT ![id] =
                                    [kind |-> "release", refs |-> {refOf(l)}]]
  BY <1>1, <1>3, ReleaseEnds
<1>5. Answered(leaseState.applied, id, leaseState'.applied)
  <2>1. Answered(leaseState.applied, id, [leaseState.applied EXCEPT ![id] =
                     [kind |-> "release", refs |-> {refOf(l)}]])
    BY <1>1, AnswerEdit
  <2>2. QED
    BY <1>4, <2>1
<1>6. Rooted(book', tasks')
  BY <1>1, <1>2, RootedKept
<1>7. Paired(Active(leaseState'), witness', book', tasks')
  <2>1. \A x \in ActiveCourses(book) \ {a} : book[x].lease \in witness'
    BY <1>1, <1>3 DEF Paired
  <2>2. \A x \in ActiveCourses(book') :
            book'[x] = book[x] /\ Stays(tasks, tasks', book[x].lease.taskId)
    BY <1>1, <1>2
  <2>3. Paired(Active(leaseState) \ {l}, witness', book', tasks')
    BY <1>1, <1>2, <1>3, <2>1, <2>2, PairedEnded
  <2>4. QED
    BY <1>4, <2>3
<1>8. Recalled(leaseState'.versions, leaseState'.applied, book', remembered', used')
  <2>1. \A c \in AssignCommand : leaseState'.applied[c] = leaseState.applied[c]
    BY <1>5, OwnAnswer
  <2>2. Recalled(leaseState.versions, leaseState'.applied, book', remembered, used)
    BY <1>1, <1>2, <2>1, RecalledKept
  <2>3. QED
    BY <1>4, <2>2
<1>9. SaidOnce(leaseState'.applied, book', tasks', processed', used')
  <2>1. Lessens(book, tasks, book', tasks', processed, used)
    BY <1>1, <1>2 DEF Lessens, Live
  <2>2. \A x \in AssignmentId :
            /\ id \in {<<"ack", x>>, <<"decline", x>>} => x \in used /\ ~Awaits(book', x)
            /\ id = <<"take-back", x>> => x \in used /\ x \notin ActiveCourses(book')
    BY <1>1, <1>2, Apart DEF Known
  <2>3. \A t \in TaskId : id = <<"complete", t>> =>
            Given(t, processed, used) /\ ~Live(book', tasks', t)
    <3> SUFFICES ASSUME NEW t \in TaskId, id = <<"complete", t>>
                 PROVE Given(t, processed, used) /\ ~Live(book', tasks', t)
      OBVIOUS
    <3>1. t = book[a].lease.taskId /\ ~(tasks'[t] # None /\ tasks'[t].status = "queued")
      OBVIOUS
    <3>2. Given(t, processed, used)
      BY <1>1, <3>1, Apart DEF Rooted, Known
    <3>3. \A x \in ActiveCourses(book') : book'[x].task # t /\ book'[x].lease.taskId # t
      BY <1>1, <1>2, <3>1, OwnTask
    <3>4. QED
      BY <3>1, <3>2, <3>3 DEF Live
  <2>4. SaidOnce(leaseState'.applied, book', tasks', processed, used)
    BY <1>1, <1>5, <2>1, <2>2, <2>3, SaidAside
  <2>5. QED
    BY <2>4
<1>10. QED
  BY <1>6, <1>7, <1>8, <1>9 DEF SoundHere, Sound

\* A refusal ends the lease of the course it ends.
LEMMA SoundDecline ==
  ASSUME StoryInv, SoundHere, NEW a \in AssignmentId, Decline(a)
  PROVE  SoundHere'
<1>1. /\ book[a].status \in AwaitingAck /\ a \in ActiveCourses(book) /\ a \in Courses(book)
      /\ book' = [book EXCEPT ![a].status = "returned_to_queue"]
      /\ tasks' = Requeued(tasks, {book[a].task})
      /\ witness' = witness \ {book[a].lease}
      /\ leaseState' = decideLease(leaseState,
              ReleaseCmd(<<"decline", a>>, book[a].lease.taskId)).state
      /\ UNCHANGED <<remembered, processed, used>>
  BY Apart DEF Decline, Returned, BookType, ActiveCourses, Courses, AwaitingAck
<1>2. Restated(book, a, "returned_to_queue", book')
  BY <1>1, Apart, StatusEdit DEF EndedStatus
<1>3. Reoffered(tasks, {book[a].task}, tasks')
  BY <1>1, Apart, RequeueEdit
<1>4. \A t \in TaskId :
          /\ Stays(tasks, tasks', t)
          /\ tasks'[t] # None /\ tasks'[t].status = "queued" => Live(book, tasks, t)
  BY <1>1, <1>3 DEF Reoffered, Stays, Live
<1>5. leaseState.applied[<<"decline", a>>] = Unseen
  BY <1>1, Apart DEF SaidOnce, Awaits
<1>6. <<"decline", a>> \in OwnIds /\ "returned_to_queue" \notin ActiveStatus
  BY OwnIdsApart DEF ActiveStatus
<1>7. QED
  BY <1>1, <1>2, <1>4, <1>5, <1>6, SoundEnds

\* So does a take-back.
LEMMA SoundTakeBack ==
  ASSUME StoryInv, SoundHere, NEW a \in AssignmentId, TakeBack(a)
  PROVE  SoundHere'
<1>1. /\ a \in ActiveCourses(book) /\ a \in Courses(book)
      /\ book' = [book EXCEPT ![a].status = "taken_back_by_dispatch"]
      /\ tasks' = Marked(tasks, book[a].task, "closed_taken_back")
      /\ witness' = witness \ {book[a].lease}
      /\ leaseState' = decideLease(leaseState,
              ReleaseCmd(<<"take-back", a>>, book[a].lease.taskId)).state
      /\ UNCHANGED <<remembered, processed, used>>
  BY Apart DEF TakeBack, TakenBack, BookType, ActiveCourses, Courses
<1>2. Restated(book, a, "taken_back_by_dispatch", book')
  BY <1>1, Apart, StatusEdit DEF EndedStatus
<1>3. RowRestated(tasks, book[a].task, "closed_taken_back", tasks')
  <2>1. tasks[book[a].task] # None /\ book[a].task \in TaskId /\ tasks \in QueueType
    BY <1>1, Apart DEF OneStory
  <2>2. QED
    BY <1>1, <2>1, RowEdit DEF Closed
<1>4. \A t \in TaskId :
          /\ Stays(tasks, tasks', t)
          /\ tasks'[t] # None /\ tasks'[t].status = "queued" => Live(book, tasks, t)
  BY <1>3 DEF RowRestated, Stays, Live, Closed
<1>5. leaseState.applied[<<"take-back", a>>] = Unseen
  BY <1>1, Apart DEF SaidOnce
<1>6. <<"take-back", a>> \in OwnIds /\ "taken_back_by_dispatch" \notin ActiveStatus
  BY OwnIdsApart DEF ActiveStatus
<1>7. QED
  BY <1>1, <1>2, <1>4, <1>5, <1>6, SoundEnds

\* So does a completion, under its task's id.
LEMMA SoundComplete ==
  ASSUME StoryInv, SoundHere, NEW o, NEW a, NEW outcome \in Completed, Complete(o, a, outcome)
  PROVE  SoundHere'
<1> DEFINE t == book[a].lease.taskId
<1>1. /\ a \in ActiveCourses(book) /\ a \in Courses(book) /\ t \in TaskId
      /\ book' = [book EXCEPT ![a].status = outcome]
      /\ witness' = witness \ {book[a].lease}
      /\ leaseState' = decideLease(leaseState, ReleaseCmd(<<"complete", t>>, t)).state
      /\ UNCHANGED <<tasks, remembered, processed, used>>
  BY Apart DEF Complete
<1>2. outcome \notin ActiveStatus /\ outcome \in EndedStatus
  BY DEF Completed, ActiveStatus, EndedStatus
<1>3. Restated(book, a, outcome, book')
  BY <1>1, <1>2, Apart, StatusEdit
<1>4. \A k \in TaskId :
          /\ Stays(tasks, tasks', k)
          /\ tasks'[k] # None /\ tasks'[k].status = "queued" => Live(book, tasks, k)
  BY <1>1 DEF Stays, Live
<1>5. leaseState.applied[<<"complete", t>>] = Unseen
  BY <1>1, Apart DEF SaidOnce, Live
<1>6. ~(tasks'[t] # None /\ tasks'[t].status = "queued")
  <2>1. tasks[book[a].task].status = "assigned"
    BY <1>1, Apart DEF OneStory
  <2>2. book[a].task = t \/ tasks[t].status \in Closed
    BY <1>1, Apart DEF Paired
  <2>3. QED
    BY <1>1, <2>1, <2>2 DEF Closed
<1>7. <<"complete", t>> \in OwnIds
  BY <1>1, OwnIdsApart
<1> DEFINE id == <<"complete", t>>
<1>8. /\ \A k \in TaskId : id = <<"complete", k>> => k = t
      /\ \A x \in AssignmentId : id \notin {<<"ack", x>>, <<"decline", x>>, <<"take-back", x>>}
  OBVIOUS
<1> HIDE DEF id
<1>9. leaseState.applied[id] = Unseen /\ id \in OwnIds
      /\ leaseState' = decideLease(leaseState, ReleaseCmd(id, t)).state
  BY <1>1, <1>5, <1>7 DEF id
<1>10. \A k \in TaskId :
          /\ Stays(tasks, tasks', k)
          /\ tasks'[k] # None /\ tasks'[k].status = "queued" => Live(book, tasks, k)
          /\ id = <<"complete", k>> =>
                 /\ k = book[a].lease.taskId
                 /\ ~(tasks'[k] # None /\ tasks'[k].status = "queued")
  BY <1>4, <1>6, <1>8
<1>11. \A x \in AssignmentId :
          id \in {<<"ack", x>>, <<"decline", x>>, <<"take-back", x>>} => x = a
  BY <1>8
<1>12. QED
  BY <1>1, <1>2, <1>3, <1>9, <1>10, <1>11, SoundEnds

\* The rider's answer anchors the lease of its own course: it has not moved.
LEMMA SoundAcknowledge ==
  ASSUME StoryInv, SoundHere, NEW a \in AssignmentId, Acknowledge(a)
  PROVE  SoundHere'
<1> DEFINE id == <<"ack", a>>
           t == book[a].lease.taskId
<1>1. /\ book[a].status \in AwaitingAck /\ a \in ActiveCourses(book) /\ a \in Courses(book)
      /\ book' = [book EXCEPT ![a].status = "acknowledged"]
      /\ leaseState' = decideLease(leaseState,
              [kind |-> "anchor", id |-> id, taskId |-> book[a].task]).state
      /\ UNCHANGED <<witness, tasks, remembered, processed, used>>
  BY Apart DEF Acknowledge, BookType, ActiveCourses, Courses, AwaitingAck
<1>2. book[a].task = t /\ book[a].status # "acknowledged"
  BY <1>1, Apart DEF Paired, AwaitingAck
<1>3. leaseState.applied[id] = Unseen
  BY <1>1, Apart DEF SaidOnce, Awaits
<1>4. /\ id \in OwnIds
      /\ \A x \in AssignmentId : /\ id \in {<<"ack", x>>, <<"decline", x>>} => x = a
                                /\ id # <<"take-back", x>>
      /\ \A k \in TaskId : id # <<"complete", k>>
  BY OwnIdsApart
<1>5. Restated(book, a, "acknowledged", book')
  BY <1>1, Apart, StatusEdit DEF ActiveStatus
<1>6. /\ ActiveCourses(book') = ActiveCourses(book) /\ Courses(book') = Courses(book)
      /\ \A x : Awaits(book', x) => x # a /\ Awaits(book, x)
      /\ \A x \in Courses(book) :
             /\ book'[x].task = book[x].task /\ book'[x].lease = book[x].lease
             /\ book'[x].order = book[x].order
  <2>1. "acknowledged" \in ActiveStatus /\ "acknowledged" \notin AwaitingAck
    BY DEF ActiveStatus, AwaitingAck
  <2>2. Courses(book') = Courses(book)
    BY <1>5 DEF Restated
  <2>3. /\ ActiveCourses(book') = ActiveCourses(book) \cup {a}
        /\ \A x : Awaits(book', x) => IF x = a THEN "acknowledged" \in AwaitingAck
                                              ELSE Awaits(book, x)
        /\ \A x \in Courses(book) :
               /\ book'[x].task = book[x].task /\ book'[x].lease = book[x].lease
               /\ book'[x].order = book[x].order
    BY <1>1, <1>5, <2>1 DEF Restated, ActiveCourses, Awaits
  <2>4. QED
    BY <1>1, <2>1, <2>2, <2>3
<1>7. PICK l \in Active(leaseState) :
          /\ refOf(l) = book[a].lease /\ l.taskId = t /\ l.riderId = book[a].rider
          /\ \A x \in ActiveCourses(book) \ {a} : book[x].lease # book[a].lease
  BY <1>1, Apart, OneEnds
<1> HIDE DEF id, t
<1>8. /\ Anchored(Active(leaseState), l, Active(leaseState'))
      /\ leaseState'.versions = leaseState.versions
      /\ leaseState'.applied = [leaseState.applied EXCEPT ![id] =
                                    [kind |-> "anchor", refs |-> {refOf(l)}]]
  <2>1. leaseState' = decideLease(leaseState,
              [kind |-> "anchor", id |-> id, taskId |-> l.taskId]).state
    BY <1>1, <1>2, <1>7
  <2>2. QED
    BY <1>3, <2>1, Apart, AnchorAnchors
<1>9. Answered(leaseState.applied, id, leaseState'.applied)
  <2>1. Answered(leaseState.applied, id, [leaseState.applied EXCEPT ![id] =
                     [kind |-> "anchor", refs |-> {refOf(l)}]])
    BY Apart, AnswerEdit
  <2>2. QED
    BY <1>8, <2>1
<1>10. Rooted(book', tasks')
  <2>1. \A x \in Courses(book) : Stays(tasks, tasks', book[x].lease.taskId)
    BY <1>1 DEF Stays
  <2>2. QED
    BY <1>6, <2>1, Apart, RootedKept
<1>11. Paired(Active(leaseState'), witness', book', tasks')
  <2>1. Paired(Active(leaseState'), witness, book', tasks)
    BY <1>1, <1>2, <1>5, <1>6, <1>7, <1>8, Apart, PairedAnchored
  <2>2. QED
    BY <1>1, <2>1
<1>12. Recalled(leaseState'.versions, leaseState'.applied, book', remembered', used')
  <2>1. \A c \in AssignCommand : leaseState'.applied[c] = leaseState.applied[c]
    BY <1>4, <1>9, OwnAnswer
  <2>2. Recalled(leaseState.versions, leaseState'.applied, book', remembered, used)
    BY <1>6, <2>1, Apart, RecalledKept
  <2>3. QED
    BY <1>1, <1>8, <2>2
<1>13. SaidOnce(leaseState'.applied, book', tasks', processed', used')
  <2>1. Lessens(book, tasks, book', tasks, processed, used)
    BY <1>6, Apart DEF Lessens, Live
  <2>2. \A x \in AssignmentId :
            /\ id \in {<<"ack", x>>, <<"decline", x>>} => x \in used /\ ~Awaits(book', x)
            /\ id = <<"take-back", x>> => x \in used /\ x \notin ActiveCourses(book')
    BY <1>1, <1>4, <1>6, Apart DEF Known
  <2>3. SaidOnce(leaseState'.applied, book', tasks, processed, used)
    BY <1>4, <1>9, <2>1, <2>2, Apart, SaidAside
  <2>4. QED
    BY <1>1, <2>3
<1>14. QED
  BY <1>10, <1>11, <1>12, <1>13 DEF SoundHere, Sound

\* An acknowledgement made offline leaves the leases alone.
LEMMA SoundAcknowledgeOffline ==
  ASSUME StoryInv, SoundHere, NEW a \in AssignmentId, AcknowledgeOffline(a)
  PROVE  SoundHere'
<1>1. /\ book[a].status \in AwaitingAck /\ a \in ActiveCourses(book) /\ a \in Courses(book)
      /\ book' = [book EXCEPT ![a].status = "ack_pending_offline"]
      /\ UNCHANGED <<leaseState, witness, tasks, remembered, processed, used>>
  BY Apart DEF AcknowledgeOffline, BookType, ActiveCourses, Courses, AwaitingAck
<1>2. /\ "ack_pending_offline" \in ActiveStatus /\ "ack_pending_offline" \in AwaitingAck
      /\ book[a].status # "acknowledged"
  BY <1>1 DEF ActiveStatus, AwaitingAck
<1>3. Restated(book, a, "ack_pending_offline", book')
  BY <1>1, <1>2, Apart, StatusEdit
<1>4. /\ ActiveCourses(book') = ActiveCourses(book) /\ Courses(book') = Courses(book)
      /\ \A x : Awaits(book', x) => Awaits(book, x)
      /\ \A x \in Courses(book) :
             /\ book'[x].task = book[x].task /\ book'[x].lease = book[x].lease
             /\ book'[x].order = book[x].order /\ book'[x].rider = book[x].rider
             /\ book'[x].status = "acknowledged" => book[x].status = "acknowledged"
             /\ book[x].status = "acknowledged" => book'[x].status = "acknowledged"
  BY <1>1, <1>2, <1>3 DEF Restated, ActiveCourses, Awaits
<1>5. Rooted(book', tasks)
  BY <1>4, Apart, RootedKept DEF Stays
<1>6. Paired(Active(leaseState), witness, book', tasks)
  <2>1. \A x \in ActiveCourses(book) :
            \/ book'[x].task = book[x].lease.taskId
            \/ /\ book'[x].status = "acknowledged"
               /\ tasks[book[x].lease.taskId].status \in Closed
    BY <1>4, Apart DEF Paired
  <2>2. QED
    BY <1>4, <2>1, Apart, PairedGoesOn
<1>7. Recalled(leaseState.versions, leaseState.applied, book', remembered, used)
  BY <1>4, Apart, RecalledKept
<1>8. SaidOnce(leaseState.applied, book', tasks, processed, used)
  <2>1. Lessens(book, tasks, book', tasks, processed, used)
    BY <1>4, Apart DEF Lessens, Live
  <2>2. QED
    BY <2>1, Apart, SaidMore
<1>9. QED
  BY <1>1, <1>5, <1>6, <1>7, <1>8 DEF SoundHere, Sound

\* A second passage moves the course; its lease's task is closed for good.
LEMMA SoundReprogram ==
  ASSUME StoryInv, SoundHere, NEW a \in AssignmentId, NEW n \in TaskId, Reprogram(a, n)
  PROVE  SoundHere'
<1>1. /\ a \in ActiveCourses(book) /\ a \in Courses(book)
      /\ book[a].status = "acknowledged"
      /\ tasks[book[a].task] # None /\ tasks[n] = None
      /\ book' = [book EXCEPT ![a].task = n]
      /\ tasks' = Marked(Followed(tasks, book[a].order, book[a].task, n), n, "assigned")
      /\ used' = used \cup {n}
      /\ UNCHANGED <<leaseState, witness, remembered, processed>>
  BY Apart DEF Reprogram, FollowUpAdmitted, Retargetable
<1>2. n \notin used /\ n \notin ProducerTask
  BY MintedIsNew DEF Reprogram
<1>3. Retargeted(book, a, n, book')
  BY <1>1, Apart, TaskEdit
<1>4. Reattempted(tasks, book[a].task, n, book[a].order, tasks')
  BY <1>1, Apart, PassageEdit
<1>5. /\ ActiveCourses(book') = ActiveCourses(book) /\ Courses(book') = Courses(book)
      /\ \A x : Awaits(book', x) => Awaits(book, x)
      /\ \A x \in Courses(book) :
             /\ book'[x].lease = book[x].lease
             /\ book'[x].order = book[x].order /\ book'[x].rider = book[x].rider
             /\ book'[x].status = book[x].status
             /\ book'[x].task = IF x = a THEN n ELSE book[x].task
  <2>1. /\ Courses(book') = Courses(book)
        /\ \A x \in Courses(book) :
               /\ book'[x].lease = book[x].lease
               /\ book'[x].order = book[x].order /\ book'[x].rider = book[x].rider
               /\ book'[x].status = book[x].status
               /\ book'[x].task = IF x = a THEN n ELSE book[x].task
    BY <1>1, <1>3 DEF Retargeted
  <2>2. /\ ActiveCourses(book') = ActiveCourses(book)
        /\ \A x : Awaits(book', x) => Awaits(book, x)
    BY <2>1 DEF ActiveCourses, Awaits
  <2>3. QED
    BY <2>1, <2>2
<1>6. \A t \in TaskId : Stays(tasks, tasks', t) /\ (t \notin {book[a].task, n} => tasks'[t] = tasks[t])
  BY <1>1, <1>4 DEF Reattempted, Stays, Closed
<1>7. tasks'[book[a].task].status \in Closed /\ tasks'[n].status = "assigned"
  BY <1>4 DEF Reattempted, Closed
<1>8. Rooted(book', tasks')
  BY <1>5, <1>6, Apart, RootedKept
<1>9. Paired(Active(leaseState), witness, book', tasks')
  <2>1. \A x \in ActiveCourses(book) :
            \/ book'[x].task = book[x].lease.taskId
            \/ /\ book'[x].status = "acknowledged"
               /\ tasks'[book[x].lease.taskId].status \in Closed
    <3> SUFFICES ASSUME NEW x \in ActiveCourses(book)
                 PROVE \/ book'[x].task = book[x].lease.taskId
                       \/ /\ book'[x].status = "acknowledged"
                          /\ tasks'[book[x].lease.taskId].status \in Closed
      OBVIOUS
    <3>1. \/ book[x].task = book[x].lease.taskId
          \/ /\ book[x].status = "acknowledged"
             /\ tasks[book[x].lease.taskId].status \in Closed
      BY Apart DEF Paired
    <3>2. x \in Courses(book) /\ book[x].lease.taskId \in TaskId
          /\ tasks[book[x].lease.taskId] # None
      BY Apart DEF Rooted
    <3>3. QED
      BY <1>1, <1>5, <1>6, <1>7, <3>1, <3>2 DEF Stays
  <2>2. QED
    BY <1>5, <2>1, Apart, PairedGoesOn
<1>10. Recalled(leaseState.versions, leaseState.applied, book', remembered, used')
  <2>1. used \subseteq used' /\ \A x \in ActiveCourses(book') : book'[x].lease = book[x].lease
    BY <1>1, <1>5, Apart
  <2>2. ActiveCourses(book') \subseteq ActiveCourses(book)
    BY <1>5
  <2>3. QED
    BY <2>1, <2>2, Apart, RecalledKept
<1>11. SaidOnce(leaseState.applied, book', tasks', processed, used')
  <2>1. ~Given(n, processed, used)
    BY <1>2 DEF Given
  <2>2. \A t \in TaskId : tasks'[t] # None /\ tasks'[t].status = "queued" =>
            tasks[t] # None /\ tasks[t].status = "queued"
    BY <1>6, <1>7 DEF Closed
  <2>3. Lessens(book, tasks, book', tasks', processed, used)
    BY <1>5, <2>1, <2>2, Apart DEF Lessens, Live
  <2>4. QED
    BY <1>1, <2>3, Apart, SaidMore
<1>12. QED
  BY <1>1, <1>8, <1>9, <1>10, <1>11 DEF SoundHere, Sound

\* A task enters the queue under an id not yet given.
LEMMA SoundQueued ==
  ASSUME StoryInv, SoundHere, NEW t \in TaskId, tasks[t] = None, NEW o \in Order,
         ~Given(t, processed, used), tasks' = [tasks EXCEPT ![t] = Queued(o)],
         used \subseteq used', processed \subseteq processed',
         UNCHANGED <<leaseState, witness, book, remembered>>
  PROVE  SoundHere'
<1>1. \A k \in TaskId : k # t => tasks'[k] = tasks[k]
  BY Apart DEF QueueType
<1>2. \A k \in TaskId : Stays(tasks, tasks', k)
  BY <1>1 DEF Stays
<1>3. Rooted(book, tasks')
  BY <1>2, Apart, RootedKept
<1>4. Paired(Active(leaseState), witness, book, tasks')
  <2>1. \A x \in ActiveCourses(book) :
            \/ book[x].task = book[x].lease.taskId
            \/ /\ book[x].status = "acknowledged"
               /\ tasks'[book[x].lease.taskId].status \in Closed
    <3> SUFFICES ASSUME NEW x \in ActiveCourses(book)
                 PROVE \/ book[x].task = book[x].lease.taskId
                       \/ /\ book[x].status = "acknowledged"
                          /\ tasks'[book[x].lease.taskId].status \in Closed
      OBVIOUS
    <3>1. book[x].lease.taskId \in TaskId /\ tasks[book[x].lease.taskId] # None
      BY Apart DEF Rooted
    <3>2. QED
      BY <1>2, <3>1, Apart DEF Paired, Stays
  <2>2. QED
    BY <2>1, Apart, PairedGoesOn
<1>5. Recalled(leaseState.versions, leaseState.applied, book, remembered, used')
  BY Apart, RecalledKept
<1>6. SaidOnce(leaseState.applied, book, tasks', processed', used')
  <2>1. Lessens(book, tasks, book, tasks', processed, used)
    BY <1>1 DEF Lessens, Live
  <2>2. QED
    BY <2>1, Apart, SaidMore
<1>7. QED
  BY <1>3, <1>4, <1>5, <1>6 DEF SoundHere, Sound

\* A producer's task leaves leases and courses alone.
LEMMA SoundTaskReady ==
  ASSUME StoryInv, SoundHere, ByTheBooks, NEW t \in ProducerTask, TaskReady(t)
  PROVE  SoundHere'
<1>1. /\ t \in TaskId /\ tasks[t] = None /\ ProducerOrder[t] \in Order
      /\ tasks' = [tasks EXCEPT ![t] = Queued(ProducerOrder[t])]
      /\ used' = used /\ processed' = processed \cup {t}
      /\ UNCHANGED <<leaseState, witness, book, remembered>>
  BY ProducerAssumption DEF TaskReady
<1>2. ~Given(t, processed, used)
  BY DEF TaskReady, ByTheBooks, Given
<1>3. QED
  BY <1>1, <1>2, SoundQueued

\* So does a task composed here.
LEMMA SoundComposeTask ==
  ASSUME StoryInv, SoundHere, NEW o \in Order, NEW t \in TaskId, ComposeTask(o, t)
  PROVE  SoundHere'
<1>1. /\ tasks' = [tasks EXCEPT ![t] = Queued(o)]
      /\ used' = used \cup {t} /\ processed' = processed
      /\ UNCHANGED <<leaseState, witness, book, remembered>>
  BY DEF ComposeTask
<1>2. t \notin used /\ t \notin ProducerTask
  BY MintedIsNew DEF ComposeTask
<1>3. ~Given(t, processed, used)
  BY <1>2 DEF Given
<1>4. tasks[t] = None
  BY <1>3, Apart DEF Known
<1>5. QED
  BY <1>1, <1>3, <1>4, SoundQueued

\* What a sweep finds due is what it takes the courses of.
LEMMA DueIsSwept ==
  ASSUME StoryInv, SoundHere, NEW now, NEW a \in ActiveCourses(book),
         NEW l \in Active(leaseState), refOf(l) = book[a].lease
  PROVE  /\ l \in Due(leaseState, now) => book[a].task = l.taskId /\ book[a].status # "acknowledged"
         /\ a \in OnTasks({r.taskId : r \in {refOf(m) : m \in Due(leaseState, now)}})
                <=> l \in Due(leaseState, now)
<1> DEFINE due == Due(leaseState, now)
<1>1. due \subseteq Active(leaseState) /\ \A m \in due : ~m.anchored
  BY DEF Due
<1>2. \A x \in ActiveCourses(book), m \in due : refOf(m) = book[x].lease =>
          book[x].task = m.taskId /\ book[x].status # "acknowledged"
  <2> SUFFICES ASSUME NEW x \in ActiveCourses(book), NEW m \in due, refOf(m) = book[x].lease
               PROVE book[x].task = m.taskId /\ book[x].status # "acknowledged"
    OBVIOUS
  <2>1. PICK k \in Active(leaseState) : /\ refOf(k) = book[x].lease
                                        /\ book[x].status = "acknowledged" => k.anchored
    BY Apart DEF Paired
  <2>2. k = m
    BY <1>1, <2>1, Apart, NameIsLease DEF Active
  <2>3. book[x].status # "acknowledged"
    BY <1>1, <2>1, <2>2
  <2>4. book[x].task = book[x].lease.taskId
    BY <2>3, Apart DEF Paired
  <2>5. book[x].lease.taskId = m.taskId
    <3>1. refOf(m).taskId = m.taskId
      BY DEF refOf
    <3>2. QED
      BY <3>1
  <2>6. QED
    BY <2>3, <2>4, <2>5
<1>3. {r.taskId : r \in {refOf(m) : m \in due}} = {m.taskId : m \in due}
  <2>1. \A m : refOf(m).taskId = m.taskId
    BY DEF refOf
  <2>2. QED
    BY <2>1
<1>4. l \in due => a \in OnTasks({m.taskId : m \in due})
  BY <1>2 DEF OnTasks
<1>5. a \in OnTasks({m.taskId : m \in due}) => l \in due
  <2> SUFFICES ASSUME a \in OnTasks({m.taskId : m \in due}) PROVE l \in due
    OBVIOUS
  <2>1. PICK m \in due : book[a].task = m.taskId
    BY DEF OnTasks
  <2>2. PICK x \in ActiveCourses(book) : book[x].lease = refOf(m)
    BY <1>1, Apart DEF Paired
  <2>3. book[x].task = m.taskId
    BY <1>2, <2>2
  <2>4. x = a
    BY <2>1, <2>3, Apart DEF OneStory
  <2>5. l = m
    BY <1>1, <2>2, <2>4, Apart, NameIsLease DEF Active
  <2>6. QED
    BY <2>5
<1>6. QED
  BY <1>2, <1>3, <1>4, <1>5

\* A sweep ends the leases that are due and gives their courses back.
LEMMA SoundSweep ==
  ASSUME StoryInv, SoundHere, NEW now \in Time, Sweep(now)
  PROVE  SoundHere'
<1> DEFINE id == <<"expire-due", now>>
           d == decideLease(leaseState, [kind |-> "expire_due", id |-> id, now |-> now])
           due == Due(leaseState, now)
           gone == OnTasks({r.taskId : r \in d.refs})
<1>1. /\ ~d.replay /\ leaseState' = d.state /\ witness' = witness \ d.refs
      /\ book' = [a \in AssignmentId |->
             IF a \in gone THEN [book[a] EXCEPT !.status = "returned_to_queue"] ELSE book[a]]
      /\ tasks' = Requeued(tasks, {book[a].task : a \in gone})
      /\ UNCHANGED <<remembered, processed, used>>
  BY DEF Sweep
<1>2. /\ Active(leaseState') = Active(leaseState) \ due
      /\ leaseState'.versions = leaseState.versions
      /\ d.refs = {refOf(m) : m \in due}
      /\ leaseState'.applied = [leaseState.applied EXCEPT ![id] =
                                    [kind |-> "expire_due", refs |-> d.refs]]
  <2>1. d = decideLease(leaseState, [kind |-> "expire_due", id |-> <<"expire-due", now>>,
                                     now |-> now])
    OBVIOUS
  <2>2. LeaseInv(leaseState) /\ ~d.replay
    BY <1>1, Apart
  <2> HIDE DEF d
  <2>3. /\ Active(d.state) = Active(leaseState) \ Due(leaseState, now)
        /\ d.state.versions = leaseState.versions
        /\ d.refs = {refOf(m) : m \in Due(leaseState, now)}
        /\ d.state.applied = [leaseState.applied EXCEPT ![<<"expire-due", now>>] =
                                  [kind |-> "expire_due", refs |-> d.refs]]
    BY <2>1, <2>2, SweepEnds
  <2>4. QED
    BY <1>1, <2>3
<1>3. gone = OnTasks({r.taskId : r \in {refOf(m) : m \in due}})
  BY <1>2
<1>4. \A a \in ActiveCourses(book), l \in Active(leaseState) : refOf(l) = book[a].lease =>
          /\ a \in gone <=> l \in due
          /\ a \in gone => book[a].task = l.taskId /\ book[a].status # "acknowledged"
  BY <1>3, DueIsSwept
<1>5. gone \subseteq ActiveCourses(book) /\ due \subseteq Active(leaseState)
  BY DEF OnTasks, Due
<1> HIDE DEF d, due, gone, id
<1>6. \A a \in Courses(book) :
          /\ a \in AssignmentId /\ book[a] \in Course /\ book[a] # None
          /\ LET m == [book[a] EXCEPT !.status = "returned_to_queue"]
             IN /\ m # None /\ m.status = "returned_to_queue"
                /\ m.task = book[a].task /\ m.order = book[a].order /\ m.lease = book[a].lease
  <2>1. \A a \in Courses(book) : a \in AssignmentId /\ book[a] \in Course /\ book[a] # None
    BY Apart DEF Courses
  <2>2. \A m \in Course :
            LET k == [m EXCEPT !.status = "returned_to_queue"]
            IN /\ k \in Course /\ k.status = "returned_to_queue"
               /\ k.task = m.task /\ k.order = m.order /\ k.lease = m.lease
    BY DEF Course, EndedStatus
  <2>3. QED
    BY <2>1, <2>2, NoneAssumption
<1>7. /\ Courses(book') = Courses(book)
      /\ \A x \in Courses(book) :
             /\ book'[x].task = book[x].task /\ book'[x].lease = book[x].lease
             /\ book'[x].order = book[x].order
             /\ x \in gone => book'[x].status = "returned_to_queue"
             /\ x \notin gone => book'[x] = book[x]
  <2>1. \A x \in Courses(book) : x \in Courses(book')
    BY <1>1, <1>6, Apart DEF Courses
  <2>2. \A x \in Courses(book') : x \in Courses(book)
    <3>1. /\ DOMAIN book' = AssignmentId /\ DOMAIN book = AssignmentId
          /\ \A x \in AssignmentId \ gone : book'[x] = book[x]
      BY <1>1, Apart DEF BookType
    <3>2. gone \subseteq Courses(book)
      BY <1>5, Apart
    <3>3. QED
      BY <3>1, <3>2 DEF Courses
  <2>3. \A x \in Courses(book) :
             /\ book'[x].task = book[x].task /\ book'[x].lease = book[x].lease
             /\ book'[x].order = book[x].order
             /\ x \in gone => book'[x].status = "returned_to_queue"
             /\ x \notin gone => book'[x] = book[x]
    BY <1>1, <1>6
  <2>4. QED
    BY <2>1, <2>2, <2>3
<1>8. /\ ActiveCourses(book') = ActiveCourses(book) \ gone
      /\ \A x \in ActiveCourses(book') : book'[x] = book[x]
      /\ \A x : Awaits(book', x) => Awaits(book, x)
  <2>1. "returned_to_queue" \notin ActiveStatus /\ "returned_to_queue" \notin AwaitingAck
    BY DEF ActiveStatus, AwaitingAck
  <2>2. \A x \in ActiveCourses(book') : x \notin gone /\ book'[x] = book[x] /\ x \in ActiveCourses(book)
    BY <1>7, <2>1 DEF ActiveCourses
  <2>3. \A x \in ActiveCourses(book) \ gone : x \in ActiveCourses(book')
    BY <1>7 DEF ActiveCourses
  <2>4. \A x : Awaits(book', x) => Awaits(book, x)
    BY <1>7, <2>1 DEF Awaits
  <2>5. QED
    BY <2>2, <2>3, <2>4
<1>9. Reoffered(tasks, {book[a].task : a \in gone}, tasks')
  BY <1>1, Apart, RequeueEdit
<1>10. \A t \in TaskId :
          /\ Stays(tasks, tasks', t)
          /\ tasks'[t] # None /\ tasks'[t].status = "queued" => Live(book, tasks, t)
  <2> SUFFICES ASSUME NEW t \in TaskId
               PROVE  /\ Stays(tasks, tasks', t)
                      /\ tasks'[t] # None /\ tasks'[t].status = "queued" => Live(book, tasks, t)
    OBVIOUS
  <2>1. Stays(tasks, tasks', t)
    BY <1>9 DEF Reoffered, Stays
  <2>2. CASE t \in {book[a].task : a \in gone}
    BY <1>5, <2>1, <2>2 DEF Live
  <2>3. CASE t \notin {book[a].task : a \in gone}
    BY <1>9, <2>1, <2>3 DEF Live, Reoffered
  <2>4. QED
    BY <2>2, <2>3
<1>11. Answered(leaseState.applied, id, leaseState'.applied)
  <2>1. Answered(leaseState.applied, id, [leaseState.applied EXCEPT ![id] =
                     [kind |-> "expire_due", refs |-> d.refs]])
    BY Apart, AnswerEdit
  <2>2. QED
    BY <1>2, <2>1
<1>12. /\ id \in OwnIds
       /\ \A x \in AssignmentId : id \notin {<<"ack", x>>, <<"decline", x>>, <<"take-back", x>>}
       /\ \A t \in TaskId : id # <<"complete", t>>
  BY OwnIdsApart DEF id
<1>13. Rooted(book', tasks')
  BY <1>7, <1>10, Apart, RootedKept
<1>14. Paired(Active(leaseState'), witness', book', tasks')
  <2>1. \A a \in ActiveCourses(book), l \in Active(leaseState) :
            refOf(l) = book[a].lease => (a \in gone <=> l \in due)
    BY <1>4
  <2>2. \A a \in ActiveCourses(book) \ gone : book[a].lease \in witness'
    <3> SUFFICES ASSUME NEW a \in ActiveCourses(book) \ gone PROVE book[a].lease \in witness'
      OBVIOUS
    <3>1. PICK l \in Active(leaseState) : refOf(l) = book[a].lease
      BY Apart DEF Paired
    <3>2. \A m \in due : refOf(m) # book[a].lease
      BY <1>5, <2>1
    <3>3. QED
      BY <1>1, <1>2, <3>2, Apart DEF Paired
  <2>3. \A x \in ActiveCourses(book') :
            book'[x] = book[x] /\ Stays(tasks, tasks', book[x].lease.taskId)
    BY <1>8, <1>10, Apart
  <2>4. Paired(Active(leaseState) \ due, witness', book', tasks')
    BY <1>8, <2>1, <2>2, <2>3, Apart, PairedEnded
  <2>5. QED
    BY <1>2, <2>4
<1>15. Recalled(leaseState'.versions, leaseState'.applied, book', remembered', used')
  <2>1. \A c \in AssignCommand : leaseState'.applied[c] = leaseState.applied[c]
    BY <1>11, <1>12, OwnAnswer
  <2>2. Recalled(leaseState.versions, leaseState'.applied, book', remembered, used)
    BY <1>8, <2>1, Apart, RecalledKept
  <2>3. QED
    BY <1>1, <1>2, <2>2
<1>16. SaidOnce(leaseState'.applied, book', tasks', processed', used')
  <2>1. Lessens(book, tasks, book', tasks', processed, used)
    BY <1>8, <1>10, Apart DEF Lessens, Live
  <2>2. SaidOnce(leaseState'.applied, book', tasks', processed, used)
    BY <1>11, <1>12, <2>1, Apart, SaidAside
  <2>3. QED
    BY <1>1, <2>2
<1>17. QED
  BY <1>13, <1>14, <1>15, <1>16 DEF SoundHere, Sound

\* A retirement takes the order's courses and every lease on its tasks.
LEMMA SoundRetire ==
  ASSUME StoryInv, SoundHere, NEW o \in Order, Retire(o)
  PROVE  SoundHere'
<1> DEFINE mine   == CoursesOf(o)
           rows   == RowsOf(o)
           leased == rows \cup UNION {{book[a].task, book[a].lease.taskId} : a \in mine}
           freed  == {l \in Active(leaseState) : l.taskId \in leased}
<1>1. /\ book' = [a \in AssignmentId |-> IF a \in mine THEN None ELSE book[a]]
      /\ tasks' = [t \in TaskId |-> IF t \in rows THEN None ELSE tasks[t]]
      /\ witness' = witness \ ({book[a].lease : a \in mine} \cup {refOf(l) : l \in freed})
      /\ leaseState' = [leaseState EXCEPT !.leases = Ending(@, freed, "released")]
      /\ UNCHANGED <<remembered, processed, used>>
  BY DEF Retire
<1>2. \A t \in leased : t \in TaskId /\ tasks[t] # None /\ tasks[t].order = o
  <2>1. \A t \in rows : t \in TaskId /\ tasks[t] # None /\ tasks[t].order = o
    BY DEF RowsOf
  <2>2. \A a \in mine : a \in Courses(book) /\ book[a].order = o
    BY DEF CoursesOf
  <2>3. /\ \A a \in Courses(book) :
               /\ tasks[book[a].task] # None /\ tasks[book[a].task].order = book[a].order
               /\ tasks[book[a].lease.taskId] # None
               /\ tasks[book[a].lease.taskId].order = book[a].order
               /\ book[a].task \in TaskId /\ book[a].lease.taskId \in TaskId
    BY Apart DEF OneStory, Rooted
  <2> HIDE DEF mine, rows
  <2>4. \A a \in mine : \A t \in {book[a].task, book[a].lease.taskId} :
            t \in TaskId /\ tasks[t] # None /\ tasks[t].order = o
    BY <2>2, <2>3
  <2>5. QED
    BY <2>1, <2>4
<1>3. /\ \A a \in mine : a \in Courses(book) /\ book[a].order = o /\ book[a].lease.taskId \in leased
      /\ \A a \in Courses(book) : book[a].order = o => a \in mine
      /\ \A t \in TaskId : t \in rows <=> tasks[t] # None /\ tasks[t].order = o
  BY DEF CoursesOf, RowsOf
<1>4. freed \subseteq Active(leaseState) /\ \A l \in Active(leaseState) : l \in freed <=> l.taskId \in leased
  OBVIOUS
<1> HIDE DEF mine, rows, leased, freed
<1>5. \A a \in ActiveCourses(book), l \in Active(leaseState) :
          refOf(l) = book[a].lease => (a \in mine <=> l \in freed)
  <2> SUFFICES ASSUME NEW a \in ActiveCourses(book), NEW l \in Active(leaseState),
                      refOf(l) = book[a].lease
               PROVE a \in mine <=> l \in freed
    OBVIOUS
  <2>1. l.taskId = book[a].lease.taskId /\ a \in Courses(book)
    <3>1. refOf(l).taskId = l.taskId
      BY DEF refOf
    <3>2. QED
      BY <3>1, Apart
  <2>2. tasks[book[a].lease.taskId].order = book[a].order
    BY <2>1, Apart DEF Rooted
  <2>3. QED
    BY <1>2, <1>3, <1>4, <2>1, <2>2
<1>6. /\ Courses(book') = Courses(book) \ mine
      /\ ActiveCourses(book') = ActiveCourses(book) \ mine
      /\ \A x \in Courses(book') : book'[x] = book[x] /\ x \in Courses(book) /\ x \notin mine
      /\ \A x : Awaits(book', x) => Awaits(book, x)
  <2>1. \A x \in AssignmentId : book'[x] = IF x \in mine THEN None ELSE book[x]
    BY <1>1
  <2>2. DOMAIN book' = AssignmentId /\ DOMAIN book = AssignmentId
    BY <1>1, Apart DEF BookType
  <2>3. Courses(book') = Courses(book) \ mine
    BY <2>1, <2>2 DEF Courses
  <2>4. \A x \in Courses(book') : book'[x] = book[x] /\ x \in Courses(book) /\ x \notin mine
    BY <2>1, <2>3, Apart
  <2>5. ActiveCourses(book') = ActiveCourses(book) \ mine
    BY <2>3, <2>4 DEF ActiveCourses
  <2>6. \A x : Awaits(book', x) => Awaits(book, x)
    BY <2>4 DEF Awaits
  <2>7. QED
    BY <2>3, <2>4, <2>5, <2>6
<1>7. /\ \A t \in TaskId : t \notin rows => Stays(tasks, tasks', t)
      /\ \A t \in TaskId : tasks'[t] # None => tasks'[t] = tasks[t]
  BY <1>1 DEF Stays
<1>8. \A x \in Courses(book') : Stays(tasks, tasks', book[x].lease.taskId)
  <2> SUFFICES ASSUME NEW x \in Courses(book') PROVE Stays(tasks, tasks', book[x].lease.taskId)
    OBVIOUS
  <2>1. x \in Courses(book) /\ book[x].order # o /\ book[x].lease.taskId \in TaskId
    BY <1>3, <1>6, Apart
  <2>2. book[x].lease.taskId \notin rows
    BY <1>3, <2>1, Apart DEF Rooted
  <2>3. QED
    BY <1>7, <2>1, <2>2
<1>9. /\ Active(leaseState') = Active(leaseState) \ freed
      /\ leaseState'.versions = leaseState.versions /\ leaseState'.applied = leaseState.applied
  <2>1. leaseState' = [leases |-> Ending(leaseState.leases, freed, "released"),
                       versions |-> leaseState.versions, applied |-> leaseState.applied]
    BY <1>1, Apart DEF LeaseInv
  <2>2. leaseState'.leases = Ending(leaseState.leases, freed, "released")
    BY <2>1
  <2>3. Active(leaseState') = Active(leaseState) \ freed
    BY <2>2, Apart, EndingActive
  <2>4. QED
    BY <2>1, <2>3
<1>10. Rooted(book', tasks')
  BY <1>6, <1>8, Apart, RootedKept
<1>11. Paired(Active(leaseState'), witness', book', tasks')
  <2>1. \A a \in ActiveCourses(book) \ mine : book[a].lease \in witness'
    <3> SUFFICES ASSUME NEW a \in ActiveCourses(book) \ mine PROVE book[a].lease \in witness'
      OBVIOUS
    <3>1. \A l \in freed : refOf(l) # book[a].lease
      BY <1>4, <1>5
    <3>2. \A x \in mine : book[x].lease # book[a].lease
      BY <1>3, Apart DEF Rooted
    <3>3. QED
      BY <1>1, <3>1, <3>2, Apart DEF Paired
  <2>2. \A x \in ActiveCourses(book') :
            book'[x] = book[x] /\ Stays(tasks, tasks', book[x].lease.taskId)
    BY <1>6, <1>8 DEF ActiveCourses
  <2>3. Paired(Active(leaseState) \ freed, witness', book', tasks')
    BY <1>5, <1>6, <2>1, <2>2, Apart, PairedEnded
  <2>4. QED
    BY <1>9, <2>3
<1>12. Recalled(leaseState'.versions, leaseState'.applied, book', remembered', used')
  <2>1. Recalled(leaseState.versions, leaseState.applied, book', remembered, used)
    BY <1>6, Apart, RecalledKept DEF ActiveCourses
  <2>2. QED
    BY <1>1, <1>9, <2>1
<1>13. SaidOnce(leaseState'.applied, book', tasks', processed', used')
  <2>1. Lessens(book, tasks, book', tasks', processed, used)
    BY <1>6, <1>7, Apart DEF Lessens, Live, ActiveCourses
  <2>2. SaidOnce(leaseState.applied, book', tasks', processed, used)
    BY <2>1, Apart, SaidMore
  <2>3. QED
    BY <1>1, <1>9, <2>2
<1>14. QED
  BY <1>10, <1>11, <1>12, <1>13 DEF SoundHere, Sound

\* A command sent again is answered by the course it made, and a fresh grant is
\* one the book accepts: neither is ever rolled back.
LEMMA AssignAgrees ==
  ASSUME StoryInv, SoundHere, NEW c \in AssignCommand, NEW t \in TaskId, NEW r \in Rider,
         NEW d, d = decideLease(leaseState, AcquireCmd(c, t, r)), d.ok
  PROVE  \/ d.state = leaseState /\ d.replay /\ RememberedCourse(c) # {}
         \/ /\ RememberedCourse(c) = {} /\ ~d.replay
            /\ \E g : /\ d.refs = {refOf(g)}
                      /\ Granted(leaseState, AcquireCmd(c, t, r), g, d.state)
                      /\ BookAccepts(refOf(g), witness \cup {refOf(g)}, t, r)
<1> DEFINE cmd == AcquireCmd(c, t, r)
           app == leaseState.applied
<1>1. /\ cmd.kind = "acquire" /\ cmd.id = c /\ cmd.taskId = t /\ cmd.riderId = r
      /\ cmd.eligible = (r \in onShift /\ Assignable(t))
  BY DEF AcquireCmd
<1>2. /\ c \in CommandId /\ app[c] \in Outcome \cup {Unseen}
      /\ app[c].kind \in {"none", "acquire"}
      /\ \A a \in ActiveCourses(book) : book[a].lease \in app[c].refs <=> remembered[c] = a
  BY IdsAssumption, Apart DEF DispatchIds, Answers, Recalled
<1>3. app[c] # Unseen => app[c].kind = "acquire"
  BY <1>2 DEF Outcome
<1>4. /\ \A l \in Active(leaseState) : \E a \in ActiveCourses(book) : book[a].lease = refOf(l)
      /\ \A a \in ActiveCourses(book) : \E l \in Active(leaseState) :
             refOf(l) = book[a].lease /\ l.riderId = book[a].rider
  BY Apart DEF Paired
<1> HIDE DEF app
<1>5. CASE IsReplay(leaseState, cmd)
  <2>1. \E l \in Active(leaseState) : refOf(l) \in app[c].refs
    BY <1>1, <1>3, <1>5 DEF IsReplay, app
  <2>2. RememberedCourse(c) # {}
    BY <1>2, <1>4, <2>1 DEF RememberedCourse
  <2>3. d.state = leaseState /\ d.replay
    BY <1>5 DEF decideLease, Replayed
  <2>4. QED
    BY <2>2, <2>3
<1>6. CASE ~IsReplay(leaseState, cmd)
  <2>1. d = decideLease(leaseState, cmd)
    OBVIOUS
  <2> HIDE DEF cmd
  <2>2. PICK g : d.refs = {refOf(g)} /\ ~d.replay /\ Granted(leaseState, cmd, g, d.state)
    BY <1>1, <1>6, <2>1, Apart, AcquireGrants
  <2>3. RememberedCourse(c) = {}
    <3> SUFFICES ASSUME NEW a \in ActiveCourses(book), a = remembered[c] PROVE FALSE
      BY DEF RememberedCourse
    <3>1. book[a].lease \in app[c].refs
      BY <1>2
    <3>2. app[c] # Unseen
      BY <3>1 DEF Unseen
    <3>3. \E l \in Active(leaseState) : refOf(l) \in app[c].refs
      BY <1>4, <3>1
    <3>4. QED
      BY <1>1, <1>6, <3>2, <3>3 DEF IsReplay, app
  <2>4. BookAccepts(refOf(g), witness \cup {refOf(g)}, t, r)
    <3>1. /\ g.taskId = t /\ g.riderId = r /\ r \in onShift /\ Assignable(t)
          /\ \A l \in Active(leaseState) : l.riderId # r
      BY <1>1, <2>2 DEF Granted
    <3>2. refOf(g).taskId = t /\ refOf(g).riderId = r
      BY <3>1 DEF refOf
    <3>3. \A a \in ActiveCourses(book) : book[a].rider # r
      BY <1>4, <3>1
    <3>4. \A a \in ActiveCourses(book) : book[a].task # t
      <4>1. \A a \in ActiveCourses(book) : tasks[book[a].task].status = "assigned"
        BY Apart DEF OneStory
      <4>2. tasks[t].status = "queued"
        BY <3>1 DEF Assignable
      <4>3. QED
        BY <4>1, <4>2
    <3>5. QED
      BY <3>1, <3>2, <3>3, <3>4 DEF BookAccepts
  <2>5. QED
    BY <2>2, <2>3, <2>4 DEF cmd
<1>7. QED
  BY <1>5, <1>6

\* An assignment writes the course of the lease it was granted; sent again, it
\* changes neither memory.
LEMMA SoundAssign ==
  ASSUME StoryInv, SoundHere, NEW c \in AssignCommand, NEW t \in TaskId, NEW r \in Rider,
         NEW a \in AssignmentId, Assign(c, t, r, a)
  PROVE  SoundHere'
<1> DEFINE cmd == AcquireCmd(c, t, r)
           d == decideLease(leaseState, cmd)
           ref == CHOOSE x \in d.refs : TRUE
           w == Vouched(d)
<1>1. /\ d.ok /\ processed' = processed
      /\ \/ /\ RememberedCourse(c) # {}
            /\ leaseState' = d.state /\ witness' = w
            /\ UNCHANGED <<book, remembered, tasks, used>>
         \/ /\ RememberedCourse(c) = {}
            /\ BookAccepts(ref, w, t, r)
            /\ a \in Minted(AssignmentId)
            /\ leaseState' = d.state /\ witness' = w
            /\ book' = [book EXCEPT ![a] = NewCourse(ref, t, r)]
            /\ remembered' = [remembered EXCEPT ![c] = a]
            /\ tasks' = Marked(tasks, t, "assigned")
            /\ used' = used \cup {a}
         \/ RememberedCourse(c) = {} /\ ~BookAccepts(ref, w, t, r)
  BY DEF Assign
<1>2. \/ d.state = leaseState /\ d.replay /\ RememberedCourse(c) # {}
      \/ /\ RememberedCourse(c) = {} /\ ~d.replay
         /\ \E g : /\ d.refs = {refOf(g)} /\ Granted(leaseState, cmd, g, d.state)
                   /\ BookAccepts(refOf(g), witness \cup {refOf(g)}, t, r)
  BY <1>1, AssignAgrees
<1>3. CASE d.state = leaseState /\ d.replay /\ RememberedCourse(c) # {}
  <2>1. UNCHANGED <<leaseState, witness, book, remembered, tasks, processed, used>>
    BY <1>1, <1>3 DEF Vouched
  <2>2. QED
    BY <2>1 DEF SoundHere
<1>4. CASE RememberedCourse(c) = {} /\ ~d.replay
  <2>1. PICK g : /\ d.refs = {refOf(g)} /\ Granted(leaseState, cmd, g, d.state)
                 /\ BookAccepts(refOf(g), witness \cup {refOf(g)}, t, r)
    BY <1>2, <1>4
  <2>2. ref = refOf(g) /\ w = witness \cup {refOf(g)}
    BY <1>4, <2>1 DEF Vouched
  <2> DEFINE row == NewCourse(refOf(g), t, r)
  <2>3. /\ a \in Minted(AssignmentId)
        /\ leaseState' = d.state /\ witness' = witness \cup {refOf(g)}
        /\ book' = [book EXCEPT ![a] = row]
        /\ remembered' = [remembered EXCEPT ![c] = a]
        /\ tasks' = Marked(tasks, t, "assigned") /\ used' = used \cup {a}
    BY <1>1, <1>4, <2>1, <2>2
  <2>4. /\ Assignable(t) /\ tasks[t] # None /\ tasks[t].status = "queued"
        /\ tasks[t].order \in Order
    <3>1. Assignable(t) /\ tasks[t] # None /\ tasks[t].status = "queued"
      BY <2>1 DEF BookAccepts, Assignable
    <3>2. QED
      BY <3>1, Apart DEF QueueType, QueuedTask
  <2>5. /\ cmd.id = c /\ cmd.taskId = t /\ cmd.riderId = r /\ cmd.kind = "acquire"
        /\ cmd.at \in Nat
    BY DEF AcquireCmd, StoryInv, DoorInv
  <2> HIDE DEF cmd, d, ref, w
  <2>6. /\ g.taskId = t /\ g.riderId = r
        /\ \A l \in Active(leaseState) : l.taskId # t
        /\ Active(leaseState') = Active(leaseState) \cup {g}
        /\ Granted(leaseState, cmd, g, leaseState')
    BY <2>1, <2>3, <2>5 DEF Granted
  <2>7. refOf(g) \in LeaseRef
    <3>1. d.refs \subseteq LeaseRef
      BY <2>5, IdsAssumption, Apart, GrantRefs DEF d, DispatchIds
    <3>2. QED
      BY <2>1, <3>1
  <2>8. /\ row \in Course /\ row.task = t /\ row.order = tasks[t].order /\ row.rider = r
        /\ row.lease = refOf(g) /\ row.status = "active_unacknowledged"
    BY <2>4, <2>7 DEF NewCourse, Course, ActiveStatus
  <2>9. a \notin used /\ a \notin Courses(book)
    BY <2>3, MintedIsNew, Apart DEF Known
  <2> HIDE DEF row
  <2>10. Written(book, a, row, book')
    BY <2>3, <2>8, <2>9, Apart, CourseEdit
  <2>11. RowRestated(tasks, t, "assigned", tasks')
    BY <2>3, <2>4, Apart, RowEdit
  <2>12. \A k \in TaskId : Stays(tasks, tasks', k) /\ (k # t => tasks'[k] = tasks[k])
    BY <2>4, <2>11 DEF RowRestated, Stays, Closed
  <2>13. row.lease.taskId = t
    BY <2>6, <2>8 DEF refOf
  <2>14. Rooted(book', tasks')
    <3>1. \A x \in Courses(book) : Stays(tasks, tasks', book[x].lease.taskId)
      BY <2>12, Apart
    <3>2. tasks'[row.lease.taskId] # None /\ tasks'[row.lease.taskId].order = row.order
      BY <2>8, <2>11, <2>13 DEF RowRestated
    <3>3. QED
      BY <2>10, <3>1, <3>2, Apart, RootedWritten
  <2>15. Paired(Active(leaseState'), witness', book', tasks')
    <3>1. \A x \in ActiveCourses(book) : Stays(tasks, tasks', book[x].lease.taskId)
      BY <2>12, Apart
    <3>2. Paired(Active(leaseState) \cup {g}, witness \cup {refOf(g)}, book', tasks')
      BY <2>6, <2>8, <2>10, <3>1, Apart, PairedGranted
    <3>3. QED
      BY <2>3, <2>6, <3>2
  <2>16. Recalled(leaseState'.versions, leaseState'.applied, book', remembered', used')
    <3>1. ActiveCourses(book) \subseteq used
      BY Apart DEF Known
    <3>2. Recalled(leaseState'.versions, leaseState'.applied, book',
                   [remembered EXCEPT ![c] = a], used \cup {a})
      <4>1. /\ LeaseInv(leaseState) /\ Paired(Active(leaseState), witness, book, tasks)
            /\ remembered \in [AssignCommand -> AssignmentId \cup {None}]
            /\ Recalled(leaseState.versions, leaseState.applied, book, remembered, used)
        BY Apart
      <4>2. cmd.id = c /\ cmd.taskId \in TaskId
        BY <2>5
      <4>3. /\ Granted(leaseState, cmd, g, leaseState') /\ a \notin used
            /\ row.lease = refOf(g) /\ Written(book, a, row, book')
        BY <2>6, <2>8, <2>9, <2>10
      <4>4. QED
        BY <3>1, <4>1, <4>2, <4>3, RecalledGranted
    <3>3. QED
      BY <2>3, <3>2
  <2>17. SaidOnce(leaseState'.applied, book', tasks', processed', used')
    <3>1. Answered(leaseState.applied, c, leaseState'.applied)
      <4>1. leaseState'.applied = [leaseState.applied EXCEPT ![c] =
                                       [kind |-> "acquire", refs |-> {refOf(g)}]]
        BY <2>5, <2>6 DEF Granted
      <4>2. QED
        BY <4>1, Apart DEF Answers, Answered
    <3>2. c \notin OwnIds
      BY ConsoleAssumption
    <3>3. Lessens(book, tasks, book', tasks', processed, used)
      <4>1. /\ \A x \in ActiveCourses(book') : x # a => x \in ActiveCourses(book) /\ book'[x] = book[x]
            /\ \A x : Awaits(book', x) /\ x # a => Awaits(book, x)
            /\ book'[a] = row
        BY <2>10 DEF Written, ActiveCourses, Awaits
      <4>2. Live(book, tasks, t)
        BY <2>4 DEF Live
      <4>3. \A k \in TaskId : tasks'[k] # None /\ tasks'[k].status = "queued" =>
                tasks[k] # None /\ tasks[k].status = "queued"
        BY <2>11, <2>12 DEF RowRestated
      <4>4. QED
        BY <2>8, <2>9, <2>13, <4>1, <4>2, <4>3 DEF Lessens, Live
    <3>4. \A x \in AssignmentId :
              c \notin {<<"ack", x>>, <<"decline", x>>} /\ c # <<"take-back", x>>
      BY <3>2, OwnIdsApart
    <3>5. \A k \in TaskId : c # <<"complete", k>>
      BY <3>2, OwnIdsApart
    <3>6. used \subseteq used' /\ processed \subseteq processed'
      BY <1>1, <2>3
    <3>7. QED
      BY <3>1, <3>3, <3>4, <3>5, <3>6, Apart, SaidAside
  <2>18. QED
    BY <2>14, <2>15, <2>16, <2>17 DEF SoundHere, Sound
<1>5. QED
  BY <1>2, <1>3, <1>4

\* A door that touches neither the authority nor the books.
LEMMA SoundAside ==
  ASSUME SoundHere,
         UNCHANGED <<leaseState, witness, book, remembered, tasks, processed, used>>
  PROVE  SoundHere'
BY DEF SoundHere

\* A door that keeps the books sound saves them so.
LEMMA SoundSaves ==
  ASSUME SoundSaved, SoundHere', Persist \/ (UNCHANGED saved /\ used' = used)
  PROVE  SoundSaved'
<1>1. CASE Persist
  BY <1>1 DEF Persist, Image, SoundHere, SoundSaved
<1>2. CASE UNCHANGED saved /\ used' = used
  BY <1>2 DEF SoundSaved
<1>3. QED
  BY <1>1, <1>2

\* Every action keeps the books sound.
LEMMA SoundStep ==
  ASSUME StoryInv, clock \in 0..world.until, SoundHere, SoundSaved, ByTheBooks, [Next]_vars
  PROVE  SoundHere' /\ SoundSaved'
<1>0. world.ops \subseteq Time /\ clock \in Time
  BY WorldsAssumption, ClockAssumption DEF StoryInv, DoorInv
<1>1. CASE Facts
  BY <1>1, SoundAside, SoundSaves DEF Facts, FactsChange, ShiftChange, books
<1>2. CASE Tick
  BY <1>2, SoundAside, SoundSaves DEF Tick, books
<1>3. CASE Queue
  <2>1. ASSUME NEW t \in ProducerTask, TaskReady(t) PROVE SoundHere' /\ SoundSaved'
    BY <2>1, SoundTaskReady, SoundSaves DEF TaskReady
  <2>2. ASSUME NEW o \in Order, NEW t \in TaskId, ComposeTask(o, t)
        PROVE SoundHere' /\ SoundSaved'
    BY <2>2, SoundComposeTask, SoundSaves DEF ComposeTask
  <2>3. QED
    BY <1>3, <2>1, <2>2 DEF Queue
<1>4. CASE RiderActs
  <2>1. PICK a \in AssignmentId : Acknowledge(a) \/ AcknowledgeOffline(a) \/ Decline(a)
    BY <1>4 DEF RiderActs
  <2>2. Persist
    BY <2>1 DEF Acknowledge, AcknowledgeOffline, Decline
  <2>3. QED
    BY <2>1, <2>2, SoundAcknowledge, SoundAcknowledgeOffline, SoundDecline, SoundSaves
<1>5. CASE OpsActs
  <2>1. ASSUME NEW c \in AssignCommand, NEW t \in TaskId, NEW r \in Rider,
               NEW a \in AssignmentId, Assign(c, t, r, a)
        PROVE  SoundHere' /\ SoundSaved'
    <3>1. Persist
      BY <2>1 DEF Assign
    <3>2. QED
      BY <2>1, <3>1, SoundAssign, SoundSaves
  <2>2. ASSUME NEW a \in AssignmentId, TakeBack(a) PROVE SoundHere' /\ SoundSaved'
    BY <2>2, SoundTakeBack, SoundSaves DEF TakeBack
  <2>3. ASSUME NEW a \in AssignmentId, NEW n \in TaskId, Reprogram(a, n)
        PROVE SoundHere' /\ SoundSaved'
    <3>1. Persist
      BY <2>3 DEF Reprogram
    <3>2. QED
      BY <2>3, <3>1, SoundReprogram, SoundSaves
  <2>4. ASSUME NEW now \in world.ops, OpsSweep(now) PROVE SoundHere' /\ SoundSaved'
    <3>1. Persist /\ Sweep(now) /\ now \in Time
      BY <1>0, <2>4 DEF OpsSweep
    <3>2. QED
      BY <3>1, SoundSweep, SoundSaves
  <2>5. ASSUME NEW o \in Order, Retire(o) PROVE SoundHere' /\ SoundSaved'
    <3>1. Persist
      BY <2>5 DEF Retire
    <3>2. QED
      BY <2>5, <3>1, SoundRetire, SoundSaves
  <2>6. ASSUME NEW cmd \in RawCmds, RawDoor(cmd) PROVE SoundHere' /\ SoundSaved'
    BY <2>6 DEF RawDoor, ByTheBooks
  <2>7. QED
    BY <1>5, <2>1, <2>2, <2>3, <2>4, <2>5, <2>6 DEF OpsActs
<1>6. CASE CustodyReports
  <2>1. ASSUME NEW a, RecordReschedule(a) PROVE SoundHere' /\ SoundSaved'
    BY <2>1, SoundAside, SoundSaves DEF RecordReschedule
  <2>2. ASSUME NEW a, NEW o, NEW outcome \in Completed, Complete(o, a, outcome)
        PROVE  SoundHere' /\ SoundSaved'
    <3>1. Persist
      BY <2>2 DEF Complete
    <3>2. QED
      BY <2>2, <3>1, SoundComplete, SoundSaves
  <2>3. QED
    BY <1>6, <2>1, <2>2 DEF CustodyReports, Deliver, ReturnToSupplier, Completed
<1>7. CASE BoardSweep
  <2>1. Sweep(clock) /\ UNCHANGED saved /\ used' = used
    BY <1>7 DEF BoardSweep, Sweep
  <2>2. QED
    BY <1>0, <2>1, SoundSweep, SoundSaves
<1>8. CASE Restart
  BY <1>8 DEF Restart, SoundHere, SoundSaved
<1>9. CASE UNCHANGED vars
  BY <1>9, SoundAside, SoundSaves DEF vars, books
<1>10. QED
  BY <1>1, <1>2, <1>3, <1>4, <1>5, <1>6, <1>7, <1>8, <1>9 DEF Next

\* Nothing but a tick moves the clock, and nothing moves the setting.
LEMMA WorldStays == [Next]_vars => world' = world /\ (clock' = clock \/ Tick)
<1> SUFFICES ASSUME [Next]_vars PROVE world' = world /\ (clock' = clock \/ Tick)
  OBVIOUS
<1>1. ASSUME Facts \/ Queue \/ RiderActs \/ CustodyReports PROVE world' = world /\ clock' = clock
  BY <1>1 DEF Facts, FactsChange, ShiftChange, Queue, TaskReady, ComposeTask, RiderActs,
              Acknowledge, AcknowledgeOffline, Decline, CustodyReports, RecordReschedule,
              Deliver, ReturnToSupplier, Complete
<1>2. ASSUME OpsActs PROVE world' = world /\ clock' = clock
  <2>1. ASSUME NEW c, NEW t, NEW r, NEW a, Assign(c, t, r, a)
        PROVE world' = world /\ clock' = clock
    BY <2>1 DEF Assign
  <2>2. ASSUME NEW a, TakeBack(a) PROVE world' = world /\ clock' = clock
    BY <2>2 DEF TakeBack
  <2>3. ASSUME NEW a, NEW n, Reprogram(a, n) PROVE world' = world /\ clock' = clock
    BY <2>3 DEF Reprogram
  <2>4. ASSUME NEW now, OpsSweep(now) PROVE world' = world /\ clock' = clock
    BY <2>4 DEF OpsSweep, Sweep
  <2>5. ASSUME NEW o, Retire(o) PROVE world' = world /\ clock' = clock
    BY <2>5 DEF Retire
  <2>6. ASSUME NEW cmd, RawDoor(cmd) PROVE world' = world /\ clock' = clock
    BY <2>6 DEF RawDoor
  <2>7. QED
    BY <1>2, <2>1, <2>2, <2>3, <2>4, <2>5, <2>6 DEF OpsActs
<1>3. ASSUME BoardSweep \/ Restart \/ UNCHANGED vars PROVE world' = world /\ clock' = clock
  BY <1>3 DEF BoardSweep, Sweep, Restart, vars
<1>4. Tick => world' = world
  BY DEF Tick
<1>5. QED
  BY <1>1, <1>2, <1>3, <1>4 DEF Next

\* A sweep leaves an acknowledged course alone, wherever it has moved.
LEMMA SweepSpares ==
  ASSUME StoryInv, SoundHere, NEW now, Sweep(now), NEW a \in ActiveCourses(book),
         book[a].status = "acknowledged"
  PROVE  book'[a] = book[a]
<1> DEFINE d == decideLease(leaseState, [kind |-> "expire_due", id |-> <<"expire-due", now>>,
                                         now |-> now])
           due == Due(leaseState, now)
           gone == OnTasks({r.taskId : r \in d.refs})
<1>1. /\ ~d.replay
      /\ book' = [x \in AssignmentId |->
             IF x \in gone THEN [book[x] EXCEPT !.status = "returned_to_queue"] ELSE book[x]]
  BY DEF Sweep
<1>2. d.refs = {refOf(m) : m \in due}
  <2>1. d = decideLease(leaseState, [kind |-> "expire_due", id |-> <<"expire-due", now>>,
                                     now |-> now])
    OBVIOUS
  <2>2. LeaseInv(leaseState) /\ ~d.replay
    BY <1>1, Apart
  <2> HIDE DEF d
  <2>3. /\ Active(d.state) = Active(leaseState) \ Due(leaseState, now)
        /\ d.state.versions = leaseState.versions
        /\ d.refs = {refOf(m) : m \in Due(leaseState, now)}
        /\ d.state.applied = [leaseState.applied EXCEPT ![<<"expire-due", now>>] =
                                  [kind |-> "expire_due", refs |-> d.refs]]
    BY <2>1, <2>2, SweepEnds
  <2>4. QED
    BY <2>3
<1>3. PICK l \in Active(leaseState) : refOf(l) = book[a].lease
  BY Apart DEF Paired
<1>4. a \notin OnTasks({r.taskId : r \in {refOf(m) : m \in due}})
  BY <1>3, DueIsSwept
<1>5. a \notin gone /\ a \in AssignmentId
  BY <1>2, <1>4, Apart
<1> HIDE DEF gone
<1>6. QED
  BY <1>1, <1>5

\* What becomes of an acknowledged course in one step.
KeptOn(a) ==
    \/ book'[a] = None
    \/ book'[a].status \in {"acknowledged", "delivered", "returned", "taken_back_by_dispatch"}

\* No step but custody's word, the founder's take-back or the end of the order
\* ends an acknowledged course.
LEMMA KeptStep ==
  ASSUME StoryInv, SoundHere, AcknowledgedIsSaved, ByTheBooks, [Next]_vars,
         NEW a \in ActiveCourses(book), book[a].status = "acknowledged"
  PROVE  KeptOn(a)
<1>0. /\ a \in Courses(book) /\ a \in AssignmentId /\ book \in BookType
      /\ book[a].status \notin AwaitingAck
  BY Apart DEF AwaitingAck
<1>1. book'[a] = book[a] => KeptOn(a)
  BY DEF KeptOn
<1>2. ASSUME book' = book \/ (\E x \in AssignmentId \ {a} : \E y : book' = [book EXCEPT ![x] = y])
      PROVE KeptOn(a)
  BY <1>0, <1>1, <1>2 DEF BookType
<1>3. ASSUME NEW x \in Courses(book), NEW st \in ActiveStatus \cup EndedStatus,
             book' = [book EXCEPT ![x].status = st],
             x = a => st \in {"acknowledged", "delivered", "returned", "taken_back_by_dispatch"}
      PROVE  KeptOn(a)
  <2>1. Restated(book, x, st, book')
    BY <1>0, <1>3, StatusEdit
  <2>2. QED
    BY <1>0, <1>1, <1>3, <2>1 DEF Restated, KeptOn
<1>4. ASSUME Facts \/ Tick \/ Queue \/ UNCHANGED vars PROVE KeptOn(a)
  <2>1. book' = book
    BY <1>4 DEF Facts, FactsChange, ShiftChange, Tick, Queue, TaskReady, ComposeTask, vars, books
  <2>2. QED
    BY <1>1, <2>1
<1>5. CASE RiderActs
  <2>1. PICK x \in AssignmentId : Acknowledge(x) \/ AcknowledgeOffline(x) \/ Decline(x)
    BY <1>5 DEF RiderActs
  <2>2. /\ book[x] # None /\ book[x].status \in AwaitingAck
        /\ \E st \in {"acknowledged", "ack_pending_offline", "returned_to_queue"} :
               book' = [book EXCEPT ![x].status = st]
    BY <2>1 DEF Acknowledge, AcknowledgeOffline, Decline, Returned
  <2>3. x \in Courses(book) /\ x # a
    BY <1>0, <2>2 DEF Courses, BookType
  <2>4. {"acknowledged", "ack_pending_offline", "returned_to_queue"}
            \subseteq ActiveStatus \cup EndedStatus
    BY DEF ActiveStatus, EndedStatus
  <2>5. QED
    BY <1>3, <2>2, <2>3, <2>4
<1>6. CASE OpsActs
  <2>1. ASSUME NEW c \in AssignCommand, NEW t \in TaskId, NEW r \in Rider,
               NEW x \in AssignmentId, Assign(c, t, r, x)
        PROVE  KeptOn(a)
    <3>1. \/ book' = book
          \/ x \in Minted(AssignmentId) /\ \E y : book' = [book EXCEPT ![x] = y]
      BY <2>1 DEF Assign
    <3>2. a \in used
      BY <1>0, Apart DEF Known
    <3>3. x \in Minted(AssignmentId) => x # a
      BY <3>2, MintedIsNew
    <3>4. QED
      BY <1>2, <3>1, <3>3
  <2>2. ASSUME NEW x \in AssignmentId, TakeBack(x) PROVE KeptOn(a)
    <3>1. x \in Courses(book) /\ book' = [book EXCEPT ![x].status = "taken_back_by_dispatch"]
      BY <1>0, <2>2 DEF TakeBack, TakenBack, Courses, BookType
    <3>2. QED
      BY <1>3, <3>1 DEF EndedStatus
  <2>3. ASSUME NEW x \in AssignmentId, NEW n \in TaskId, Reprogram(x, n) PROVE KeptOn(a)
    <3>1. x \in Courses(book) /\ book' = [book EXCEPT ![x].task = n]
      BY <2>3, Apart DEF Reprogram
    <3>2. Retargeted(book, x, n, book')
      BY <1>0, <3>1, TaskEdit
    <3>3. QED
      BY <1>0, <1>1, <3>2 DEF Retargeted, KeptOn
  <2>4. ASSUME NEW now \in world.ops, OpsSweep(now) PROVE KeptOn(a)
    BY <1>1, <2>4, SweepSpares DEF OpsSweep
  <2>5. ASSUME NEW o \in Order, Retire(o) PROVE KeptOn(a)
    BY <1>0, <2>5 DEF Retire, KeptOn
  <2>6. ASSUME NEW cmd \in RawCmds, RawDoor(cmd) PROVE KeptOn(a)
    BY <1>1, <2>6 DEF RawDoor
  <2>7. QED
    BY <1>6, <2>1, <2>2, <2>3, <2>4, <2>5, <2>6 DEF OpsActs
<1>7. CASE CustodyReports
  <2>1. ASSUME NEW x, RecordReschedule(x) PROVE KeptOn(a)
    BY <1>1, <2>1 DEF RecordReschedule
  <2>2. ASSUME NEW x, NEW o, NEW outcome \in Completed, Complete(o, x, outcome)
        PROVE  KeptOn(a)
    <3>1. x \in Courses(book) /\ book' = [book EXCEPT ![x].status = outcome]
      BY <2>2, Apart DEF Complete
    <3>2. /\ outcome \in ActiveStatus \cup EndedStatus
          /\ outcome \in {"acknowledged", "delivered", "returned", "taken_back_by_dispatch"}
      BY DEF Completed, EndedStatus
    <3>3. QED
      BY <1>3, <3>1, <3>2
  <2>3. QED
    BY <1>7, <2>1, <2>2 DEF CustodyReports, Deliver, ReturnToSupplier, Completed
<1>8. CASE BoardSweep
  BY <1>1, <1>8, SweepSpares DEF BoardSweep
<1>9. CASE Restart
  BY <1>9 DEF Restart, AcknowledgedIsSaved, KeptOn
<1>10. QED
  BY <1>4, <1>5, <1>6, <1>7, <1>8, <1>9 DEF Next

\* Persisting makes the saved book the book; between two persists only a board's
\* sweep moves it, and it acknowledges nothing.
LEMMA SavedStep ==
  ASSUME StoryInv, AcknowledgedIsSaved, [Next]_vars
  PROVE  AcknowledgedIsSaved'
<1>1. CASE Persist
  BY <1>1 DEF Persist, Image, AcknowledgedIsSaved, ActiveCourses, Courses
<1>2. ASSUME book' = book, saved' = saved PROVE AcknowledgedIsSaved'
  BY <1>2 DEF AcknowledgedIsSaved
<1>3. CASE BoardSweep
  <2>1. PICK gone :
          /\ gone \subseteq ActiveCourses(book)
          /\ book' = [x \in AssignmentId |->
                 IF x \in gone THEN [book[x] EXCEPT !.status = "returned_to_queue"] ELSE book[x]]
    BY <1>3 DEF BoardSweep, Sweep, OnTasks
  <2>2. saved' = saved /\ book \in BookType
    BY <1>3 DEF BoardSweep, StoryInv, StoryHere, TypedHere, Typed
  <2>3. ASSUME NEW a \in ActiveCourses(book'), book'[a].status = "acknowledged"
        PROVE  a \in ActiveCourses(book) /\ book[a].status = "acknowledged"
    <3>1. a \in AssignmentId /\ book'[a] # None
      BY <2>1 DEF ActiveCourses, Courses
    <3>2. CASE a \notin gone
      BY <2>1, <2>2, <3>1, <3>2, <2>3 DEF ActiveCourses, Courses, BookType
    <3>3. CASE a \in gone
      <4>1. book'[a] = [book[a] EXCEPT !.status = "returned_to_queue"]
        BY <2>1, <3>1, <3>3
      <4>2. book[a] \in Course
        BY <2>1, <2>2, <3>3 DEF ActiveCourses, Courses, BookType
      <4>3. book'[a].status = "returned_to_queue"
        BY <4>1, <4>2 DEF Course
      <4>4. QED
        BY <2>3, <4>3
    <3>4. QED
      BY <3>2, <3>3
  <2>4. QED
    BY <2>2, <2>3 DEF AcknowledgedIsSaved
<1>4. CASE Restart
  BY <1>4 DEF Restart, AcknowledgedIsSaved, ActiveCourses, Courses
<1>5. ASSUME Facts \/ Queue \/ RiderActs \/ CustodyReports PROVE Persist
  BY <1>5 DEF Facts, FactsChange, ShiftChange, Queue, TaskReady, ComposeTask, RiderActs,
              Acknowledge, AcknowledgeOffline, Decline, CustodyReports, RecordReschedule,
              Deliver, ReturnToSupplier, Complete
<1>6. ASSUME OpsActs PROVE Persist
  <2>1. ASSUME NEW c, NEW t, NEW r, NEW a, Assign(c, t, r, a) PROVE Persist
    BY <2>1 DEF Assign
  <2>2. ASSUME NEW a, TakeBack(a) PROVE Persist
    BY <2>2 DEF TakeBack
  <2>3. ASSUME NEW a, NEW n, Reprogram(a, n) PROVE Persist
    BY <2>3 DEF Reprogram
  <2>4. ASSUME NEW now, OpsSweep(now) PROVE Persist
    BY <2>4 DEF OpsSweep
  <2>5. ASSUME NEW o, Retire(o) PROVE Persist
    BY <2>5 DEF Retire
  <2>6. ASSUME NEW cmd, RawDoor(cmd) PROVE Persist
    BY <2>6 DEF RawDoor
  <2>7. QED
    BY <1>6, <2>1, <2>2, <2>3, <2>4, <2>5, <2>6 DEF OpsActs
<1>7. Tick \/ UNCHANGED vars => book' = book /\ saved' = saved
  BY DEF Tick, vars, books
<1>8. QED
  BY <1>1, <1>2, <1>3, <1>4, <1>5, <1>6, <1>7 DEF Next

\* Every action keeps the whole of it.
LEMMA BooksStep == BooksInv /\ [Next]_vars => BooksInv'
<1> SUFFICES ASSUME BooksInv, [Next]_vars PROVE BooksInv'
  OBVIOUS
<1>1. StoryInv' /\ AcknowledgedIsSaved'
  BY StoryStep, SavedStep DEF BooksInv
<1>2. world \in Worlds /\ world.until \in Nat
  BY WorldsAssumption, TimeAssumption DEF BooksInv, StoryInv, DoorInv
<1>3. clock' \in 0..world'.until
  BY <1>2, WorldStays DEF Tick, BooksInv
<1>4. ByTheBooks' => ByTheBooks
  BY WorldStays DEF ByTheBooks
<1>5. ByTheBooks => SoundHere' /\ SoundSaved'
  BY SoundStep DEF BooksInv
<1>6. QED
  BY <1>1, <1>3, <1>4, <1>5 DEF BooksInv

\* It holds of the empty books.
LEMMA BooksInit == Init => BooksInv
<1> SUFFICES ASSUME Init PROVE BooksInv
  OBVIOUS
<1>1. StoryInv
  BY StoryInit
<1>2. clock \in 0..world.until
  <2>1. world \in Worlds /\ clock = 0
    BY DEF Init
  <2>2. world.until \in Time /\ Time \subseteq Nat
    BY <2>1, WorldsAssumption, TimeAssumption
  <2>3. world.until \in Nat
    BY <2>2
  <2>4. QED
    BY <2>1, <2>3
<1>3. ActiveCourses(book) = {} /\ Courses(book) = {} /\ Active(leaseState) = {}
  BY DEF Init, ActiveCourses, Courses, LeaseInit, emptyLeaseState, Active
<1>4. SoundHere
  <2>1. Rooted(book, tasks) /\ Paired(Active(leaseState), witness, book, tasks)
    BY <1>3 DEF Rooted, Paired
  <2>2. \A id \in CommandId : leaseState.applied[id] = Unseen
    BY DEF Init, LeaseInit, emptyLeaseState
  <2>3. Recalled(leaseState.versions, leaseState.applied, book, remembered, used)
    BY <1>3, <2>2, IdsAssumption DEF Recalled, Init, Unseen, DispatchIds
  <2>4. SaidOnce(leaseState.applied, book, tasks, processed, used)
    BY <2>2, OwnIdsApart DEF SaidOnce
  <2>5. QED
    BY <2>1, <2>3, <2>4 DEF SoundHere, Sound
<1>5. /\ saved.leaseState = leaseState /\ saved.witness = witness /\ saved.book = book
      /\ saved.remembered = remembered /\ saved.tasks = tasks /\ saved.processed = processed
  BY DEF Init, Image
<1>6. SoundSaved
  BY <1>4, <1>5 DEF SoundHere, SoundSaved
<1>7. AcknowledgedIsSaved
  BY <1>3 DEF AcknowledgedIsSaved
<1>8. QED
  BY <1>1, <1>2, <1>4, <1>6, <1>7 DEF BooksInv

\* The whole of it: leases, witness, courses, rows and remembered answers agree
\* in memory and on the disk, in every setting that goes by the books.
THEOREM BooksInvariant == Spec => []BooksInv
BY BooksInit, BooksStep, PTL DEF Spec

\* SE-I01 seen from the book: every course a rider holds has an active lease of
\* its own, witnessed, anchored once acknowledged (leased-assignment.ts assign,
\* acknowledge, expireDue; manual-assignment.ts).
THEOREM EveryCourseIsLeased == Spec => []CourseIsLeased
<1>1. BooksInv => CourseIsLeased
  <2> SUFFICES ASSUME BooksInv, ByTheBooks, NEW a \in ActiveCourses(book)
               PROVE /\ book[a].lease \in witness
                     /\ \E l \in Active(leaseState) :
                            /\ refOf(l) = book[a].lease /\ l.riderId = book[a].rider
                            /\ book[a].status = "acknowledged" => l.anchored
    BY DEF CourseIsLeased
  <2>1. Paired(Active(leaseState), witness, book, tasks)
    BY DEF BooksInv, SoundHere, Sound
  <2>2. QED
    BY <2>1 DEF Paired
<1>2. QED
  BY <1>1, BooksInvariant, PTL

\* No rider is left with a lease and no course: a rollback, a decline, a
\* take-back, a completion, a sweep and a retirement each end the lease of the
\* course they end (leased-assignment.ts).
THEOREM NoRiderIsStranded == Spec => []NoStrandedLease
<1>1. BooksInv => NoStrandedLease
  <2> SUFFICES ASSUME BooksInv, ByTheBooks PROVE LeasesAreCarried
    BY DEF NoStrandedLease
  <2>1. Paired(Active(leaseState), witness, book, tasks)
    BY DEF BooksInv, SoundHere, Sound
  <2>2. QED
    BY <2>1 DEF Paired, LeasesAreCarried
<1>2. QED
  BY <1>1, BooksInvariant, PTL

\* A course its rider acknowledged ends by custody's word, by the founder's
\* take-back or with its order, and never by a sweep or a restart.
THEOREM AcknowledgementIsKept == Spec => AcknowledgedIsKept
<1>1. BooksInv /\ [Next]_vars =>
        [ByTheBooks => \A a \in ActiveCourses(book) : book[a].status = "acknowledged" =>
            \/ book'[a] = None
            \/ book'[a].status \in {"acknowledged", "delivered", "returned",
                                    "taken_back_by_dispatch"}]_vars
  BY KeptStep DEF BooksInv, KeptOn
<1>2. QED
  BY <1>1, BooksInvariant, PTL DEF Spec, AcknowledgedIsKept
=============================================================================
