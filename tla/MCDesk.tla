------------------------------- MODULE MCDesk -------------------------------
(* The settings of Desk's runs.                                            *)
EXTENDS Desk, TLC

Setting(d, sends, wavers, reloads, restarts) ==
    [desk |-> d, sends |-> sends, wavers |-> wavers, reloads |-> reloads,
     restarts |-> restarts]

\* Each fault at its turn, and the fleet.
Settings ==
    {Setting("passage", 3, TRUE, FALSE, FALSE), Setting("passage", 2, FALSE, TRUE, TRUE),
     Setting("passage", 3, FALSE, FALSE, TRUE), Setting("fleet", 4, FALSE, TRUE, FALSE)}

\* The founder changes his mind over a lost answer.
Wavering == {Setting("passage", 3, TRUE, FALSE, FALSE)}
\* The page is loaded again over a lost answer.
Reloaded == {Setting("passage", 3, FALSE, TRUE, FALSE)}
Refused == Wavering \cup Reloaded
\* Nothing but late commands and lost answers.
Steady == {Setting("passage", 3, FALSE, FALSE, FALSE)}
Fleet  == {Setting("fleet", 4, FALSE, FALSE, FALSE)}

Orderly == Steady \cup Fleet

Odometer == ("charge" :> 1) @@ ("repair" :> 2)
=============================================================================
