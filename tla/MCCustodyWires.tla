--------------------------- MODULE MCCustodyWires ---------------------------
(* Small instances of CustodyWires for TLC: the acts of the road and of the
   way home are drained by the same alarm, in settings of their own. *)
EXTENDS CustodyWires

RoadActs == {"begin", "depart", "arrive", "drop", "other"}
DropActs == {"begin", "depart", "drop"}
HomeActs == {"refuse", "begin", "expire", "open", "handover", "other"}
ReturnActs == {"refuse", "begin", "expire", "open", "handover"}

Setting(acts, bindings, legacy, n) ==
    [acts |-> acts, bindings |-> bindings, legacy |-> legacy, crashes |-> n]

RoadAndHome == {Setting(RoadActs, {}, FALSE, 2), Setting(HomeActs, {}, FALSE, 2)}
Drained == {Setting(DropActs, {"shop", "logistics"}, FALSE, 1),
            Setting(ReturnActs, {"shop", "logistics"}, TRUE, 0),
            Setting({"begin", "expire"}, {"shop"}, TRUE, 1)}
OneCrash == {Setting(RoadActs, {"shop", "logistics"}, FALSE, 1)}
=============================================================================
