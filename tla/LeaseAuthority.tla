--------------------------- MODULE LeaseAuthority ---------------------------
(***************************************************************************)
(* The one assignment authority: a decision function over the state of all *)
(* leases, their versions and the answers already given.                   *)
(*                                                                         *)
(* Source: services/logistics-service/src/assignment-lease.ts and the raw  *)
(* command door of worker/logistics-do.ts.  decideLease is pure, and its   *)
(* state is replaced by an accepted, first answer only, so a command is    *)
(* one action.  A lease is kept for ever, in one of three statuses.        *)
(***************************************************************************)
EXTENDS Naturals

CONSTANTS
    TaskId,      \* delivery tasks
    Rider,       \* riders
    CommandId,   \* command ids, whoever mints them
    Time,        \* instants, a set of naturals
    TTL,         \* ASSIGNMENT_LEASE_TTL
    MaxVersion   \* bound on the grants of one task

ASSUME TimeAssumption    == Time \subseteq Nat
ASSUME TTLAssumption     == TTL \in Nat
ASSUME VersionAssumption == MaxVersion \in Nat

VARIABLE leaseState  \* LeaseAuthorityState: leases, versions, appliedCommands

Version == 1..MaxVersion
LeaseRef == [taskId : TaskId, riderId : Rider, version : Version]
Lease == [taskId : TaskId, riderId : Rider, version : Version,
          status : {"active", "released", "expired"},
          expiresAt : Nat, anchored : BOOLEAN]

refOf(l) == [taskId |-> l.taskId, riderId |-> l.riderId, version |-> l.version]

\* What a command id is remembered to have answered: the kind of the command
\* and the leases it named (several for a sweep).
Outcome == [kind : {"acquire", "release", "anchor", "expire_due"},
            refs : SUBSET LeaseRef]
Unseen == [kind |-> "none", refs |-> {}]

AuthorityState ==
    [leases : SUBSET Lease, versions : [TaskId -> 0..MaxVersion],
     applied : [CommandId -> Outcome \cup {Unseen}]]

LeaseCommand ==
    [kind : {"acquire"}, id : CommandId, taskId : TaskId, riderId : Rider,
     at : Time, eligible : BOOLEAN]
    \cup [kind : {"release", "anchor"}, id : CommandId, taskId : TaskId]
    \cup [kind : {"expire_due"}, id : CommandId, now : Time]

emptyLeaseState ==
    [leases |-> {}, versions |-> [t \in TaskId |-> 0],
     applied |-> [c \in CommandId |-> Unseen]]

Active(s) == {l \in s.leases : l.status = "active"}
ActiveOn(s, t) == {l \in Active(s) : l.taskId = t}

-----------------------------------------------------------------------------
(* decideLease.  A decision: the next state, whether the command is         *)
(* accepted, whether the answer is a replay, the leases answered.           *)

Refused(s) == [ok |-> FALSE, replay |-> FALSE, state |-> s, refs |-> {}]
Replayed(s, refs) == [ok |-> TRUE, replay |-> TRUE, state |-> s, refs |-> refs]
Applied(s, cmd, leases, versions, refs) ==
    [ok |-> TRUE, replay |-> FALSE, refs |-> refs,
     state |-> [leases |-> leases, versions |-> versions,
                applied |-> [s.applied EXCEPT
                    ![cmd.id] = [kind |-> cmd.kind, refs |-> refs]]]]

\* A remembered answer is given again, except that a remembered grant answers
\* an acquire only while its lease is still active.
IsReplay(s, cmd) ==
    /\ s.applied[cmd.id] # Unseen
    /\ (cmd.kind = "acquire" /\ s.applied[cmd.id].kind = "acquire") =>
           \E l \in Active(s) : refOf(l) \in s.applied[cmd.id].refs

\* The leases with those of a set ended; the leases with those of a set anchored.
Ending(leases, which, status) ==
    {[l EXCEPT !.status = IF l \in which THEN status ELSE @] : l \in leases}
Anchoring(leases, which) == {[l EXCEPT !.anchored = (l \in which) \/ @] : l \in leases}

\* Mutant: the rider's other leases are not looked at.
AcquireBlind(s, cmd) ==
    IF \/ ~cmd.eligible
       \/ \E l \in Active(s) : l.taskId = cmd.taskId
       \/ s.versions[cmd.taskId] >= MaxVersion
    THEN Refused(s)
    ELSE LET v == s.versions[cmd.taskId] + 1
             granted == [taskId |-> cmd.taskId, riderId |-> cmd.riderId,
                         version |-> v, status |-> "active",
                         expiresAt |-> cmd.at + TTL, anchored |-> FALSE]
         IN Applied(s, cmd, s.leases \cup {granted},
                    [s.versions EXCEPT ![cmd.taskId] = v], {refOf(granted)})

\* The grant: attested eligibility, a free rider, a free task, a new version.
Acquire(s, cmd) ==
    IF \/ ~cmd.eligible
       \/ \E l \in Active(s) : l.riderId = cmd.riderId
       \/ \E l \in Active(s) : l.taskId = cmd.taskId
       \/ s.versions[cmd.taskId] >= MaxVersion
    THEN Refused(s)
    ELSE LET v == s.versions[cmd.taskId] + 1
             granted == [taskId |-> cmd.taskId, riderId |-> cmd.riderId,
                         version |-> v, status |-> "active",
                         expiresAt |-> cmd.at + TTL, anchored |-> FALSE]
         IN Applied(s, cmd, s.leases \cup {granted},
                    [s.versions EXCEPT ![cmd.taskId] = v], {refOf(granted)})

\* The active lease of the task is released; without one, nothing is
\* remembered.
Release(s, cmd) ==
    LET named == ActiveOn(s, cmd.taskId)
    IN IF named = {} THEN Refused(s)
       ELSE Applied(s, cmd, Ending(s.leases, named, "released"), s.versions,
                    {refOf(l) : l \in named})

\* The server-confirmed acknowledgement: the lease no longer expires.
Anchor(s, cmd) ==
    LET named == ActiveOn(s, cmd.taskId)
    IN IF named = {} THEN Refused(s)
       ELSE Applied(s, cmd, Anchoring(s.leases, named), s.versions,
                    {refOf(l) : l \in named})

Due(s, now) == {l \in Active(s) : ~l.anchored /\ l.expiresAt < now}

\* The sweep is accepted even when nothing is due.
ExpireDue(s, cmd) ==
    LET due == Due(s, cmd.now)
    IN Applied(s, cmd, Ending(s.leases, due, "expired"), s.versions,
               {refOf(l) : l \in due})

decideLease(s, cmd) ==
    IF IsReplay(s, cmd) THEN Replayed(s, s.applied[cmd.id].refs)
    ELSE CASE cmd.kind = "acquire"    -> Acquire(s, cmd)
           [] cmd.kind = "release"    -> Release(s, cmd)
           [] cmd.kind = "anchor"     -> Anchor(s, cmd)
           [] cmd.kind = "expire_due" -> ExpireDue(s, cmd)

-----------------------------------------------------------------------------
(* The authority alone, under any sequence of commands.                    *)

LeaseInit == leaseState = emptyLeaseState

\* LeaseAuthority.send, and the raw door.
Send(cmd) == leaseState' = decideLease(leaseState, cmd).state

LeaseNext == \E cmd \in LeaseCommand : Send(cmd)

LeaseSpec == LeaseInit /\ [][LeaseNext]_leaseState

-----------------------------------------------------------------------------
(* What the authority promises.                                            *)

LeaseTypeOK == leaseState \in AuthorityState

\* SE-I01: whatever commands arrive, in whatever order and however often, a
\* task is leased to at most one rider and a rider to at most one task.
OneLease(s) ==
    \A l, m \in Active(s) : l.taskId = m.taskId \/ l.riderId = m.riderId => l = m
OneAuthority == OneLease(leaseState)

\* A lease is found by its task and version alone, and a grant never reuses a
\* version: what names a lease names it for ever (the witness, the rollback
\* ids and the replay of a grant rest on it).
NamedOnce(s) ==
    /\ \A l \in s.leases : l.version <= s.versions[l.taskId]
    /\ \A l, m \in s.leases :
           l.taskId = m.taskId /\ l.version = m.version => l = m
VersionsNameLeases == NamedOnce(leaseState)

\* Only the newest grant of a task may be active: an older one is never
\* brought back by a release or a sweep that hits the wrong lease.
NewestOnly(s) == \A l \in Active(s) : l.version = s.versions[l.taskId]
OnlyTheNewestIsActive == NewestOnly(leaseState)

\* An accepted acquire, replayed or not, hands out a lease that is active
\* once the command is done, unless its id had named another kind of command.
GrantsAreAlive ==
    \A cmd \in LeaseCommand :
        LET d == decideLease(leaseState, cmd)
        IN (/\ cmd.kind = "acquire" /\ d.ok
            /\ leaseState.applied[cmd.id].kind \in {"none", "acquire"})
           => \A r \in d.refs : \E l \in Active(d.state) : refOf(l) = r

\* A lease that ended stays ended, as it ended, and an anchored lease ends
\* only by a release.
EndedForGood ==
    [][\A l \in leaseState.leases : \E m \in leaseState'.leases :
          /\ refOf(m) = refOf(l)
          /\ l.status # "active" => m = l
          /\ l.anchored => m.anchored /\ m.status \in {l.status, "released"}
      ]_leaseState
=============================================================================
