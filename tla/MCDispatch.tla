----------------------------- MODULE MCDispatch -----------------------------
(* Small instances of Dispatch for TLC.  Books: minted tasks only, two riders,
   an expiry, a second passage, a restart.  Named: a producer's task beside one.
   Intake: the producer names it again, and the raw door is used.  Polled: time passes, the funding changes, the console polls. *)
EXTENDS Dispatch, TLC

CONSTANTS o1, p1, p2, m1, m2, m3, r1, w1

Clock == 0..2
NoOrders  == [t \in {} |-> o1]
OneProducer == p1 :> o1
SameOrder == (p1 :> o1) @@ (p2 :> o1)
Ids == DispatchIds

World(ts, again, raw, ops, fickle, until, n) ==
    [tasks |-> ts, again |-> again, raw |-> raw, ops |-> ops, fickle |-> fickle,
     until |-> until, restarts |-> n]

Books == World({m1, m2, m3}, {}, {}, {1}, {r1}, 1, 1)
Intake == World({p1, m1}, {p1}, {w1}, {}, {}, 0, 0)
Named == World({p1, m1}, {}, {}, {1}, {}, 1, 1)
BooksAndIntake == {Books, Named, Intake}
Polled == {World({m1}, {}, {}, {}, {o1}, 2, 1)}
TwoTasks == {World({p1, p2}, {}, {}, {}, {}, 0, 0)}
Reused == {World({p1}, {p1}, {}, {}, {o1}, 0, 0)}

Commands == Permutations(AssignCommand)
=============================================================================
