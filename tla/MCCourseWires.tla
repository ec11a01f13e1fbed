--------------------------- MODULE MCCourseWires ---------------------------
(* Small instances of CourseWires for TLC. *)
EXTENDS CourseWires, TLC

CONSTANTS o1, o2, a1

NoneDeparted == [a \in {} |-> {}]
Singles == {{o1}, {o2}}
OneSingle == {{o1}}
Bag == {{o1, o2}}

World(voyages, departed, supplied, doors, configured, n) ==
    [voyages |-> voyages, departed |-> departed, supplied |-> supplied,
     doors |-> doors, configured |-> configured, crashes |-> n]

\* One order, every door, the key set later, a crash; two orders of their own
\* drained by one alarm; a bag on its way home, restarts or no key included.
OneOrder == World(OneSingle, NoneDeparted, {o1},
                  {"assign", "requeue", "take-back", "supplier", "retire"}, FALSE, 1)
TwoOrders == World(Singles, NoneDeparted, {o1}, {"assign", "supplier"}, TRUE, 0)
Return(configured, n) ==
    World(Bag, a1 :> {o1, o2}, {o1, o2}, {"return"}, configured, n)

RoadAndReturn == {OneOrder, TwoOrders, Return(TRUE, 2), Return(FALSE, 0)}

Requeued == {World(OneSingle, NoneDeparted, {o1}, {"assign", "requeue"}, TRUE, 0)}
Parked == {World(Singles, NoneDeparted, {o1}, {"assign", "supplier"}, TRUE, 0)}
Lost == Requeued \cup Parked
TakenBack == {World(OneSingle, NoneDeparted, {o1}, {"assign", "take-back"}, TRUE, 0)}
=============================================================================
