----------------------------- MODULE MCRiderRoad -----------------------------
(* The settings of RiderRoad's runs.                                       *)
EXTENDS RiderRoad

World(mode, checks, codes, reasons, verdicts, founder, fs, ks, rough, courses) ==
    [mode |-> mode, checks |-> checks, codes |-> codes, reasons |-> reasons,
     verdicts |-> verdicts, founder |-> founder, faults |-> fs, kills |-> ks,
     rough |-> rough, courses |-> courses]

One    == {"conform"}
Right  == {"right"}
Accept == {"accept"}
Reject == {"reject"}

\* Lossy: timeouts, lost answers and a restart of custody, the app living.
Lossy == {World("prepaid", One, Right, {"absent"}, {}, TRUE, 1, 0, FALSE, 1),
          World("prepaid", One, Right, {"final"}, {}, FALSE, 1, 0, FALSE, 1),
          World("prepaid", {"conform", "gap"}, {"right", "wrong"}, {}, {}, FALSE, 2, 0,
                FALSE, 1)}
         \cup {World("door", One, Right, {}, Accept, FALSE, 2, 0, FALSE, 1),
               World("door", One, Right, {}, Reject, FALSE, 1, 0, FALSE, 1)}

\* Gentle: the app killed at rest; a refusal at a door that is paid there.
Gentle == {World("prepaid", One, Right, {"absent"}, {}, TRUE, 0, 1, FALSE, 1),
           World("prepaid", One, Right, {"final"}, {}, TRUE, 0, 1, FALSE, 1),
           World("door", One, Right, {"absent"}, Accept, FALSE, 0, 0, FALSE, 1)}
          \cup {World("door", {"conform", "gap"}, Right, {}, v, FALSE, 0, 1, FALSE, 1) :
                    v \in {Accept, Reject}}

\* Rough: the app killed anywhere, a rider of two minds; for safety alone.
Rough == {World("prepaid", One, Right, {"absent"}, {}, FALSE, 0, 1, TRUE, 1),
          World("prepaid", One, Right, {}, {}, FALSE, 1, 1, TRUE, 1),
          World("door", One, Right, {}, Accept \cup Reject, FALSE, 1, 0, TRUE, 1)}

Roads == Lossy \cup Gentle \cup Rough

\* Two orders one after the other.
TwoCourses == {World("door", One, Right, {}, Accept, FALSE, 0, 1, FALSE, 2)}
=============================================================================
