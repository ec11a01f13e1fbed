------------------------------- MODULE MCHouse -------------------------------
(* The settings of House's runs.                                           *)
EXTENDS House, TLC

o1 == "o1"
o2 == "o2"
Two  == {o1, o2}
Bag  == "c1" :> Two
One  == "c1" :> {o1}
Solo == ("c1" :> {o1}) @@ ("c2" :> {o2})

Setting(carries, ready, reqs, seals, sweeps, founder, lossy, shs, cards, down, again) ==
    [carries |-> carries, ready |-> ready, requests |-> reqs, seals |-> seals,
     sweeps |-> sweeps, founder |-> founder, lossy |-> lossy, shifts |-> shs,
     cards |-> cards, outages |-> down, restarts |-> again]

\* Packages are sealed while no request waits; the desk sweeps alone, and is
\* answered.  A bag on the road; its sweep; one package with two shifts, two
\* taps, two cards; the same with a restart; the registry.
Orderly ==
    {Setting(Bag, TRUE, {"moi", "end"}, "at_rest", "none", {}, FALSE, 1, 0, 1, 0),
     Setting(Bag, TRUE, {"end", "authorise"}, "at_rest", "none", {}, FALSE, 1, 1, 0, 0),
     Setting(Bag, TRUE, {"end"}, "at_rest", "orderly", {}, FALSE, 1, 0, 1, 1),
     Setting(One, TRUE, {"end", "again", "authorise"}, "at_rest", "orderly", {}, FALSE,
             2, 2, 1, 0),
     Setting(One, TRUE, {"moi", "end", "authorise"}, "at_rest", "orderly", {}, FALSE,
             2, 1, 1, 1),
     Setting(Solo, TRUE, {"moi", "end"}, "at_rest", "none", {}, FALSE, 1, 0, 0, 0),
     Setting(One, FALSE, {"moi", "end"}, "at_rest", "none",
             {"register", "certify", "code", "remove"}, FALSE, 1, 0, 0, 0)}

\* A package sealed while custody is being asked.
Sealing == {Setting(Bag, TRUE, {"moi", "end"}, "any", "none", {}, FALSE, 1, 0, 0, 0)}
\* The desk sweeps while the rider asks.
Sweeping == {Setting(Bag, TRUE, {"end"}, "at_rest", "any", {}, FALSE, 1, 0, 0, 0)}
\* Custody is silent after the sweep.
Silent == {Setting(Bag, TRUE, {"end"}, "at_rest", "unheard", {}, FALSE, 1, 0, 1, 0)}
\* Any of the three.
Left == Sealing \cup Sweeping \cup Silent
\* The desk retries what it did not hear taken.
Retried == {Setting(Bag, TRUE, {"end", "authorise"}, "at_rest", "none", {}, TRUE, 2, 1, 0, 0)}
\* The founder removes a rider who is on shift.
Removed == {Setting(One, TRUE, {"end"}, "at_rest", "none", {"register", "remove"}, FALSE, 1, 0, 0, 0)}
Late == Retried \cup Removed
=============================================================================
