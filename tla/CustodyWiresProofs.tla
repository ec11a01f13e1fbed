------------------------- MODULE CustodyWiresProofs -------------------------
(***************************************************************************)
(* The outboxes of a custody object, proved for every setting: whichever   *)
(* requests come in, whichever secrets are missing, however many crashes   *)
(* fall and however many answers are lost, what the receivers were told is *)
(* what the file says, the facts commit() and the transit record carry     *)
(* never stand without their row, the drop has both of its rows or, after  *)
(* a crash, neither, and a delivered row is never sent again.              *)
(*                                                                         *)
(* The two rows of the journey live under one key, which flushTransit      *)
(* reads once and writes once: the argument for them is about the copy it  *)
(* holds in between (CopyFits), and about a departure that can only arrive *)
(* while an answer is awaited, when the copy already knows of it           *)
(* (CopyKnowsDeparture).                                                   *)
(***************************************************************************)
EXTENDS CustodyWires, TLAPS

\* A row is there only for a fact.
RowsAreFacts == \A w \in Wires : rows[w] # "none" => FactOf(w)

\* The copy flushTransit holds tells the truth, and forgets no delivery.
CopyFits ==
    \A s \in Stages : /\ copy[s] # "none" => FactOf(s)
                      /\ copy[s] = "delivered" => s \in told
                      /\ at \in {2, 3} /\ rows[s] = "delivered" => copy[s] = "delivered"

\* While the journey rows are being flushed, a copy without a departure means
\* none was stated, and no arrival either.
CopyKnowsDeparture ==
    at \in {2, 3} /\ copy["en_route"] = "none" => ~departed /\ copy["arrivee"] = "none"

\* An awaited answer is about a row that was pending, and still is.
WaitingFits == waiting => at \in 1..8 /\ Seen = "pending"

ArrivedAfter == arrived => departed

\* A closed return ended the road.
HomeIsHome == retour = "closed" => phase = "home"

WiresInv ==
    /\ TypeOK
    /\ WiresTellTheTruth
    /\ RowsOfTheCommit
    /\ RowsAreFacts
    /\ CopyFits
    /\ CopyKnowsDeparture
    /\ WaitingFits
    /\ ArrivedAfter
    /\ HomeIsHome

-----------------------------------------------------------------------------
(* The drain order and the facts.                                          *)

LEMMA DrainLength == Len(DrainOrder) = 8
BY DEF DrainOrder

LEMMA DrainWires ==
  ASSUME at \in 1..8
  PROVE  /\ Wire \in Wires
         /\ Wire = "en_route" <=> at = 2
         /\ Wire = "arrivee" <=> at = 3
         /\ Wire \in Stages <=> at \in {2, 3}
BY DEF Wire, DrainOrder, Wires, Stages

\* The facts of a custody file only ever become true.
Monotone == \A w \in Wires : FactOf(w) => FactOf(w)'

LEMMA FactsGrow ==
  ASSUME TypeOK, HomeIsHome, [FileNext]_fileVars, departed => departed', arrived => arrived'
  PROVE  Monotone /\ HomeIsHome'
<1>1. /\ phase = "delivered" => phase' = "delivered"
      /\ (phase = "refused" \/ retour # "none") => (phase' = "refused" \/ retour' # "none")
      /\ retour # "none" => retour' # "none"
      /\ retour = "closed" => retour' = "closed"
      /\ rescheduled => rescheduled'
      /\ HomeIsHome'
  <2>1. CASE UNCHANGED <<phase, retour, rescheduled>>
    BY <2>1 DEF HomeIsHome
  <2>2. CASE RefusePickup \/ BeginRoad \/ Reschedule
    BY <2>2 DEF RefusePickup, BeginRoad, Reschedule, HomeIsHome
  <2>3. CASE OpenRetour
    BY <2>3 DEF OpenRetour, TypeOK, Retours, HomeIsHome
  <2>4. CASE HandBack \/ Deliver
    BY <2>4 DEF HandBack, Deliver, HomeIsHome
  <2>5. QED
    BY <2>1, <2>2, <2>3, <2>4 DEF FileNext, fileVars
<1>2. QED
  BY <1>1 DEF Monotone, FactOf, Wires, DropWires

LEMMA InitHolds == Init => WiresInv
<1> SUFFICES ASSUME Init PROVE WiresInv
  OBVIOUS
<1> USE DEF Init, FileInit
<1>1. TypeOK
  <2>1. world.bindings \subseteq {"shop", "logistics"} /\ world.crashes \in Nat
    BY WorldsAssumption DEF World
  <2>2. rows \in [Wires -> Status] /\ copy \in [Stages -> Status]
    BY DEF Status
  <2>3. phase \in Phases /\ retour \in Retours /\ rescheduled \in BOOLEAN
    BY DEF Phases, Retours
  <2>4. at \in 0..Len(DrainOrder) + 1 /\ crashes \in 0..world.crashes
    BY <2>1, DrainLength
  <2>5. QED
    BY <2>1, <2>2, <2>3, <2>4 DEF TypeOK
<1>2. \A w \in Wires : rows[w] = "none"
  OBVIOUS
<1>3. WiresTellTheTruth /\ RowsAreFacts
  BY <1>2 DEF WiresTellTheTruth, RowsAreFacts
<1>4. RowsOfTheCommit
  BY DEF RowsOfTheCommit
<1>5. CopyFits /\ CopyKnowsDeparture /\ WaitingFits /\ ArrivedAfter /\ HomeIsHome
  BY DEF CopyFits, HomeIsHome, CopyKnowsDeparture, WaitingFits, ArrivedAfter, Stages
<1>6. QED
  BY <1>1, <1>3, <1>4, <1>5 DEF WiresInv

-----------------------------------------------------------------------------
(* A request: some rows become pending, the alarm goes on or is restarted. *)

\* Rows that may be made pending: their fact stands, they were not delivered.
Fit(X) == \A w \in X : w \in Wires /\ rows[w] # "delivered" /\ FactOf(w)'

Pending(X) == rows' = [w \in Wires |-> IF w \in X THEN "pending" ELSE rows[w]]

\* The alarm waits for its answer, or starts again from nothing.
Undisturbed == Gate /\ UNCHANGED <<at, waiting, copy>>
Restarted == at' = 0 /\ waiting' = FALSE /\ copy' = [s \in Stages |-> "none"]

\* The rows of the command log that the facts make due.
DueRows == Due \cup {w \in {"en_route"} : departed'}

\* What every request does to the rows, the log and the alarm.
Request(X) ==
    /\ Pending(X) /\ Fit(X) /\ Monotone
    /\ Undisturbed \/ Restarted
    /\ told \subseteq told' /\ (\A w \in told' \ told : FactOf(w)) /\ world' = world
    /\ \A w \in DueRows : \/ w \in X \/ rows[w] # "none"
                          \/ w = "refus" /\ phase' = "refused" /\ phase = "refused" /\ retour' = "none"
                          \/ w = "reprog" /\ rescheduled
    /\ arrived' => departed'
    /\ HomeIsHome'

LEMMA RequestKeeps ==
  ASSUME WiresInv, NEW X, Request(X), TypeOK'
  PROVE  WiresInv' /\ (\A w \in Wires : rows[w] = "delivered" => rows'[w] = "delivered")
<1> USE DEF WiresInv
<1>1. \A w \in Wires : rows'[w] = IF w \in X THEN "pending" ELSE rows[w]
  BY DEF Request, Pending
<1>2. \A w \in Wires : FactOf(w) => FactOf(w)'
  BY DEF Request, Monotone
<1>3. \A w \in Wires : rows[w] = "delivered" => rows'[w] = "delivered"
  BY <1>1 DEF Request, Fit
<1>4. RowsAreFacts'
  BY <1>1, <1>2 DEF RowsAreFacts, Request, Fit
<1>5. WiresTellTheTruth'
  BY <1>1, <1>2 DEF WiresTellTheTruth, Request
<1>6. RowsOfTheCommit'
  <2>1. \A w \in DueRows : \/ rows'[w] # "none"
                           \/ w = "refus" /\ phase = "refused" /\ retour' = "none"
                           \/ w = "reprog" /\ rescheduled
    BY <1>1 DEF Request, DueRows, Due, Wires
  <2>2. \A w \in Wires : rows[w] # "none" => rows'[w] # "none"
    BY <1>1
  <2>3. world' = world
    BY DEF Request
  <2>4. /\ retour' # "none" => rows'["refus"] # "none" /\ rows'["ouvert"] # "none"
        /\ retour' = "closed" => rows'["retournee"] # "none"
        /\ departed' => rows'["en_route"] # "none"
    BY <2>1 DEF DueRows, Due
  <2>5. phase' = "refused" => rows'["refus"] # "none" \/ world.legacy
    BY <2>1, <2>2 DEF DueRows, Due, RowsOfTheCommit, Wires
  <2>6. rescheduled' => rows'["reprog"] # "none" \/ world.legacy
    BY <2>1, <2>2 DEF DueRows, Due, RowsOfTheCommit, Wires
  <2>7. QED
    BY <2>3, <2>4, <2>5, <2>6 DEF RowsOfTheCommit
<1>7. ArrivedAfter' /\ HomeIsHome'
  BY DEF ArrivedAfter, Request
<1>8. CASE Restarted
  <2>1. CopyFits' /\ CopyKnowsDeparture' /\ WaitingFits'
    BY <1>8 DEF Restarted, CopyFits, CopyKnowsDeparture, WaitingFits, Stages
  <2>2. QED
    BY <1>3, <1>4, <1>5, <1>6, <1>7, <2>1
<1>9. CASE Undisturbed
  <2>1. UNCHANGED <<at, waiting, copy>> /\ told \subseteq told' /\ Gate
    BY <1>9 DEF Undisturbed, Request
  <2>2. CopyFits'
    BY <1>1, <1>2, <2>1 DEF CopyFits, Stages, Wires
  <2>3. WaitingFits'
    <3> SUFFICES ASSUME waiting' PROVE (at \in 1..8)' /\ Seen' = "pending"
      BY DEF WaitingFits
    <3>1. at \in 1..8 /\ at' = at /\ Seen = "pending" /\ Wire \in Wires /\ Wire' = Wire
      BY <2>1, DrainWires DEF WaitingFits, Wire
    <3>2. CASE Wire \in Stages
      BY <2>1, <3>1, <3>2 DEF Seen
    <3>3. CASE Wire \notin Stages
      BY <1>1, <3>1, <3>3 DEF Seen
    <3>4. QED
      BY <3>1, <3>2, <3>3
  <2>4. CopyKnowsDeparture'
    <3> SUFFICES ASSUME at \in {2, 3}, copy["en_route"] = "none" PROVE FALSE
      BY <2>1 DEF CopyKnowsDeparture
    <3>1. waiting /\ Seen = "pending"
      BY <2>1 DEF Gate, WaitingFits
    <3>2. copy["en_route"] = "pending" \/ copy["arrivee"] = "pending"
      BY <3>1, DrainWires DEF Seen
    <3>3. QED
      BY <3>2 DEF CopyKnowsDeparture
  <2>5. QED
    BY <1>3, <1>4, <1>5, <1>6, <1>7, <2>2, <2>3, <2>4
<1>10. QED
  BY <1>8, <1>9 DEF Request

-----------------------------------------------------------------------------
(* Every request, crash and deployment is one of those.                    *)

LEMMA UnhealedFits ==
  ASSUME WiresInv, Monotone
  PROVE  Fit(Unhealed)
<1>1. \A w \in Unhealed : w \in Wires /\ rows[w] # "delivered" /\ FactOf(w)
  <2>1. \A w \in Unhealed : /\ w \in {"reprog", "refus"}
                            /\ rows[w] # "delivered"
                            /\ rows[w] = "none" => (w = "reprog" /\ rescheduled)
                                                   \/ (w = "refus" /\ phase = "refused")
    BY DEF Unhealed
  <2>2. \A w \in Unhealed : rows[w] # "none" => FactOf(w)
    BY <2>1 DEF WiresInv, RowsAreFacts, Wires
  <2>3. \A w \in Unhealed : rows[w] = "none" => FactOf(w)
    BY <2>1 DEF FactOf, DropWires
  <2>4. QED
    BY <2>1, <2>2, <2>3 DEF Wires
<1>2. QED
  BY <1>1 DEF Fit, Monotone

LEMMA ArmedFits ==
  ASSUME WiresInv
  PROVE  Fit(Armed)
<1>1. \A w \in Armed : w \in Due /\ rows[w] = "none"
  BY DEF Armed
<1>2. \A w \in Due : w \in Wires /\ FactOf(w)'
  BY DEF Due, FactOf, DropWires, Wires
<1>3. QED
  BY <1>1, <1>2 DEF Fit

LEMMA StrandedFits ==
  ASSUME WiresInv, Monotone, NEW ws \in SUBSET Wires
  PROVE  Fit(Stranded(ws))
BY DEF Fit, Stranded, WiresInv, RowsAreFacts, Monotone

LEMMA FitsTogether ==
  ASSUME NEW X, NEW Y, Fit(X), Fit(Y) PROVE Fit(X \cup Y)
BY DEF Fit

\* What a request owes is already there when it states no new fact.
LEMMA NothingNewDue ==
  ASSUME WiresInv, UNCHANGED <<fileVars, departed>>
  PROVE  \A w \in DueRows : \/ rows[w] # "none"
                            \/ w = "refus" /\ phase' = "refused" /\ phase = "refused" /\ retour' = "none"
                            \/ w = "reprog" /\ rescheduled
BY DEF DueRows, Due, fileVars, WiresInv, RowsOfTheCommit

\* The answer, heard or lost, and the crash, both leave the alarm in order.
LEMMA SettleAlarm ==
  ASSUME Gate, NEW act, NEW ws, Settle(act, ws)
  PROVE  Undisturbed \/ Restarted
BY DEF Settle, Dies, Restart, Undisturbed, Restarted, alarmVars

FileTyped == phase \in Phases /\ retour \in Retours /\ rescheduled \in BOOLEAN

LEMMA FileTypes == ASSUME FileTyped, [FileNext]_fileVars PROVE FileTyped'
BY DEF FileTyped, FileNext, RefusePickup, BeginRoad, Reschedule, OpenRetour, HandBack, Deliver,
       fileVars, Phases, Retours

LEMMA DiesTypes ==
  ASSUME TypeOK, NEW alarmed \in BOOLEAN, Dies(alarmed), world' = world
  PROVE  /\ alarm' \in BOOLEAN /\ at' \in 0..Len(DrainOrder) + 1
         /\ waiting' \in BOOLEAN /\ (waiting' => at' > 0) /\ left' \in BOOLEAN
         /\ copy' \in [Stages -> Status] /\ crashes' \in 0..world'.crashes
<1>1. world.crashes \in Nat
  BY WorldsAssumption DEF TypeOK, World
<1>2. crashes' \in 0..world.crashes
  BY <1>1 DEF TypeOK, Dies
<1>3. [s \in Stages |-> "none"] \in [Stages -> Status]
  BY DEF Status
<1>4. /\ alarm' = (alarm \/ at > 0 \/ alarmed)
      /\ at' = 0 /\ waiting' = FALSE /\ left' = FALSE /\ copy' = [s \in Stages |-> "none"]
  BY DEF Dies, Restart
<1>5. alarm' \in BOOLEAN
  BY <1>4
<1>6. at' \in 0..Len(DrainOrder) + 1
  BY <1>4, DrainLength
<1>7. QED
  BY <1>2, <1>3, <1>4, <1>5, <1>6

LEMMA RequestTypes ==
  ASSUME TypeOK, NEW X, Pending(X), NEW act \in ActNames, NEW ws, Settle(act, ws),
         world' = world, told' = told, configured' = configured, FileTyped',
         departed' \in BOOLEAN, arrived' \in BOOLEAN
  PROVE  TypeOK'
<1>1. rows' \in [Wires -> Status]
  BY DEF Pending, TypeOK, Status
<1>2. heard' \subseteq ActNames
  BY DEF Settle, TypeOK
<1>3. CASE UNCHANGED <<alarmVars, crashes>> /\ alarm' = Alarmed(ws)
  <2>1. alarm' \in BOOLEAN
    BY <1>3 DEF Alarmed
  <2>2. QED
    BY <1>1, <1>2, <1>3, <2>1 DEF TypeOK, FileTyped, alarmVars
<1>4. CASE Dies(Unhealed # {})
  BY <1>1, <1>2, <1>4, DiesTypes DEF TypeOK, FileTyped
<1>5. QED
  BY <1>3, <1>4 DEF Settle

\* A step that keeps the invariant and loses no delivered row.
Kept == WiresInv' /\ (\A w \in Wires : rows[w] = "delivered" => rows'[w] = "delivered")

LEMMA CommitKeeps ==
  ASSUME WiresInv, NEW act, Commit(act), FileNext \/ UNCHANGED fileVars
  PROVE  Kept
<1> DEFINE X == Armed \cup Unhealed
<1>1. Monotone /\ HomeIsHome' /\ FileTyped'
  BY FactsGrow, FileTypes DEF WiresInv, TypeOK, FileTyped, Commit, transitVars
<1>2. Fit(X)
  BY <1>1, UnhealedFits, ArmedFits, FitsTogether
<1>3. Pending(X)
  BY DEF Commit, Rearmed, Pending
<1>4. act \in ActNames
  BY WorldsAssumption DEF Commit, WiresInv, TypeOK, World
<1>5. TypeOK'
  BY <1>1, <1>3, <1>4, RequestTypes DEF Commit, WiresInv, TypeOK, transitVars
<1>6. \A w \in DueRows : w \in X \/ rows[w] # "none"
  BY DEF DueRows, Armed, Commit, transitVars, WiresInv, RowsOfTheCommit
<1>7. Request(X)
  BY <1>1, <1>2, <1>3, <1>6, SettleAlarm DEF Request, Commit, transitVars, WiresInv, ArrivedAfter
<1>8. QED
  BY <1>5, <1>7, RequestKeeps DEF Kept

LEMMA DropKeeps ==
  ASSUME WiresInv, DropItOff
  PROVE  Kept
<1>1. Monotone /\ HomeIsHome' /\ FileTyped'
  BY FactsGrow, FileTypes DEF WiresInv, TypeOK, FileTyped, DropItOff, transitVars, FileNext
<1>2. Fit(Armed) /\ Fit(Unhealed)
  BY <1>1, UnhealedFits, ArmedFits
<1>3. Fit(DropWires)
  <2>1. \A w \in DropWires : w \in Wires /\ (FactOf(w) => phase = "delivered")
                             /\ (phase' = "delivered" => FactOf(w)')
    BY DEF DropWires, Wires, FactOf
  <2>2. phase = "on_road" /\ phase' = "delivered"
    BY DEF DropItOff, Deliver
  <2>3. \A w \in DropWires : rows[w] = "none"
    BY <2>1, <2>2 DEF WiresInv, RowsAreFacts
  <2>4. QED
    BY <2>1, <2>2, <2>3 DEF Fit
<1>4. \A w \in DueRows : w \in Armed \/ rows[w] # "none"
  BY DEF DueRows, Armed, DropItOff, transitVars, WiresInv, RowsOfTheCommit
<1>5. "drop" \in ActNames
  BY DEF ActNames
<1>6. ASSUME NEW X, Fit(X), Armed \subseteq X, Pending(X), TypeOK', Undisturbed \/ Restarted
      PROVE  Kept
  <2>1. Request(X)
    BY <1>1, <1>4, <1>6 DEF Request, DropItOff, transitVars, WiresInv, ArrivedAfter
  <2>2. QED
    BY <1>6, <2>1, RequestKeeps DEF Kept
<1>7. CASE rows' = Rearmed(Armed \cup DropWires) /\ Settle("drop", DropWires)
  <2> DEFINE X == (Armed \cup DropWires) \cup Unhealed
  <2>1. Pending(X) /\ Fit(X)
    BY <1>2, <1>3, <1>7, FitsTogether DEF Rearmed, Pending
  <2>2. TypeOK'
    BY <1>1, <1>5, <1>7, <2>1, RequestTypes DEF DropItOff, WiresInv, TypeOK, transitVars
  <2>3. Undisturbed \/ Restarted
    BY <1>7, SettleAlarm DEF DropItOff
  <2>4. QED
    BY <1>6, <2>1, <2>2, <2>3
<1>8. CASE rows' = Rearmed(Armed) /\ Dies(Unhealed # {}) /\ UNCHANGED heard
  <2> DEFINE X == Armed \cup Unhealed
  <2>1. Pending(X) /\ Fit(X)
    BY <1>2, <1>8, FitsTogether DEF Rearmed, Pending
  <2>2. Settle("drop", {})
    BY <1>8 DEF Settle
  <2>3. TypeOK'
    BY <1>1, <1>5, <2>1, <2>2, RequestTypes DEF DropItOff, WiresInv, TypeOK, transitVars
  <2>4. Undisturbed \/ Restarted
    BY <2>2, SettleAlarm DEF DropItOff
  <2>5. QED
    BY <1>6, <2>1, <2>3, <2>4
<1>9. QED
  BY <1>7, <1>8 DEF DropItOff

LEMMA JourneyKeeps ==
  ASSUME WiresInv, NEW act, NEW stage \in Stages, Journey(act, stage),
         departed' \in BOOLEAN, arrived' \in BOOLEAN, departed => departed', arrived => arrived',
         arrived' => departed', departed' # departed => stage = "en_route",
         ~FactOf(stage), FactOf(stage)'
  PROVE  Kept
<1>1. /\ UNCHANGED fileVars /\ Gate /\ act \in world.acts
      /\ rows' = Rearmed({stage}) /\ Settle(act, Unhealed \cup {stage})
      /\ world' = world /\ told' = told /\ configured' = configured
  BY DEF Journey
<1>2. Monotone /\ HomeIsHome'
  BY <1>1, FactsGrow DEF WiresInv
<1>3. FileTyped'
  BY <1>1 DEF WiresInv, TypeOK, FileTyped, fileVars
<1> DEFINE X == {stage} \cup Unhealed
<1>4. Pending(X) /\ Fit(X)
  <2>1. stage \in Wires /\ rows[stage] = "none"
    BY DEF Stages, Wires, WiresInv, RowsAreFacts
  <2>2. Fit({stage})
    BY <2>1 DEF Fit
  <2>3. QED
    BY <1>1, <1>2, <2>2, UnhealedFits, FitsTogether DEF Rearmed, Pending
<1>5. act \in ActNames
  BY <1>1, WorldsAssumption DEF WiresInv, TypeOK, World
<1>6. TypeOK'
  BY <1>1, <1>3, <1>4, <1>5, RequestTypes DEF WiresInv
<1>7. \A w \in DueRows : \/ w \in X \/ rows[w] # "none"
                         \/ w = "refus" /\ phase' = "refused" /\ phase = "refused" /\ retour' = "none"
                         \/ w = "reprog" /\ rescheduled
  <2>1. CASE departed' = departed
    BY <1>1, <2>1, NothingNewDue
  <2>2. CASE departed' # departed
    BY <1>1, <2>2 DEF DueRows, Due, fileVars, WiresInv, RowsOfTheCommit
  <2>3. QED
    BY <2>1, <2>2
<1>8. Undisturbed \/ Restarted
  BY <1>1, SettleAlarm
<1>9. Request(X)
  BY <1>1, <1>2, <1>4, <1>7, <1>8 DEF Request
<1>10. QED
  BY <1>6, <1>9, RequestKeeps DEF Kept

LEMMA DepartKeeps == ASSUME WiresInv, Depart PROVE Kept
<1>1. /\ Journey("depart", "en_route") /\ ~departed /\ departed' = TRUE /\ arrived' = arrived
  BY DEF Depart
<1>2. "en_route" \in Stages /\ ~FactOf("en_route") /\ FactOf("en_route")'
  BY <1>1 DEF Stages, FactOf, DropWires
<1>3. QED
  BY <1>1, <1>2, JourneyKeeps DEF WiresInv, TypeOK

LEMMA ArriveKeeps == ASSUME WiresInv, Arrive PROVE Kept
<1>1. /\ Journey("arrive", "arrivee") /\ departed /\ ~arrived /\ arrived' = TRUE
      /\ departed' = departed
  BY DEF Arrive
<1>2. "arrivee" \in Stages /\ ~FactOf("arrivee") /\ FactOf("arrivee")'
  BY <1>1 DEF Stages, FactOf, DropWires
<1>3. QED
  BY <1>1, <1>2, JourneyKeeps DEF WiresInv, TypeOK

LEMMA ReviveKeeps ==
  ASSUME WiresInv, NEW act \in ActNames, NEW ws \in SUBSET Wires, Revive(act, ws)
  PROVE  Kept
<1> DEFINE X == Stranded(ws) \cup Unhealed
<1>1. Monotone /\ HomeIsHome' /\ FileTyped'
  BY FactsGrow DEF Revive, WiresInv, TypeOK, FileTyped, fileVars, transitVars
<1>2. Pending(X) /\ Fit(X)
  BY <1>1, UnhealedFits, StrandedFits, FitsTogether DEF Revive, Rearmed, Pending
<1>3. TypeOK'
  BY <1>1, <1>2, RequestTypes DEF Revive, WiresInv, TypeOK, transitVars
<1>4. Request(X)
  BY <1>1, <1>2, NothingNewDue, SettleAlarm DEF Request, Revive, transitVars, WiresInv, ArrivedAfter
<1>5. QED
  BY <1>3, <1>4, RequestKeeps DEF Kept

LEMMA RedeliverKeeps ==
  ASSUME WiresInv, (\E act \in world.acts : Redeliver(act)) \/ Reviver
  PROVE  Kept
<1>1. PICK act \in ActNames, ws \in SUBSET Wires : Revive(act, ws)
  <2>1. CASE Reviver
    BY <2>1 DEF Reviver, ActNames, RetourWires, Wires
  <2>2. ASSUME NEW act \in world.acts, Redeliver(act)
        PROVE  \E x \in ActNames, ws \in SUBSET Wires : Revive(x, ws)
    <3>1. act \in ActNames
      BY WorldsAssumption DEF WiresInv, TypeOK, World
    <3>2. \E ws \in SUBSET Wires : Revive(act, ws)
      BY <2>2, Zenon DEF Redeliver, Rearm, DropWires, RetourWires, Wires
    <3>3. QED
      BY <3>1, <3>2
  <2>3. QED
    BY <2>1, <2>2
<1>2. QED
  BY <1>1, ReviveKeeps

\* What an awaited answer is about is a fact.
LEMMA AwaitedIsAFact ==
  ASSUME WiresInv, at \in 1..8, Seen # "none"
  PROVE  FactOf(Wire)
<1>1. CASE Wire \in Stages
  BY <1>1 DEF Seen, WiresInv, CopyFits
<1>2. CASE Wire \notin Stages
  BY <1>2, DrainWires DEF Seen, WiresInv, RowsAreFacts
<1>3. QED
  BY <1>1, <1>2

\* A restart of the object, with or without rows put by the request it cut.
LEMMA RestartKeeps ==
  ASSUME WiresInv, NEW X, Fit(X), Pending(X), UNCHANGED <<world, fileVars, transitVars>>,
         Restarted, told \subseteq told', \A w \in told' \ told : FactOf(w), TypeOK'
  PROVE  Kept
<1>1. Monotone /\ HomeIsHome'
  BY FactsGrow DEF WiresInv, transitVars
<1>2. Request(X)
  BY <1>1, NothingNewDue DEF Request, transitVars, WiresInv, ArrivedAfter
<1>3. QED
  BY <1>2, RequestKeeps DEF Kept

LEMMA CrashKeeps == ASSUME WiresInv, Crash PROVE Kept
<1>1. /\ Dies(FALSE) /\ UNCHANGED <<world, fileVars, transitVars, configured, heard>>
      /\ told' \in {told, told \cup {w \in Wires : waiting /\ w = Wire}}
  BY DEF Crash
<1>2. Restarted
  BY <1>1 DEF Dies, Restart, Restarted
<1>3. told \subseteq told' /\ told' \subseteq Wires /\ \A w \in told' \ told : FactOf(w)
  <2>1. waiting => FactOf(Wire)
    BY AwaitedIsAFact DEF WiresInv, WaitingFits
  <2>2. QED
    BY <1>1, <2>1 DEF WiresInv, TypeOK
<1>4. PICK X : Fit(X) /\ Pending(X)
  <2>1. CASE UNCHANGED rows
    <3>1. Fit({}) /\ Pending({})
      BY <2>1 DEF Fit, Pending, WiresInv, TypeOK
    <3>2. QED
      BY <3>1
  <2>2. CASE rows' = Rearmed({})
    <3>1. Monotone
      BY <1>1, FactsGrow DEF WiresInv, transitVars
    <3>2. Fit(Unhealed) /\ Pending(Unhealed)
      BY <2>2, <3>1, UnhealedFits DEF Rearmed, Pending
    <3>3. QED
      BY <3>2
  <2>3. QED
    BY <2>1, <2>2 DEF Crash
<1>5. TypeOK'
  <2>1. rows' \in [Wires -> Status]
    BY <1>4 DEF Pending, WiresInv, TypeOK, Status
  <2>2. QED
    BY <1>1, <1>3, <2>1, DiesTypes DEF WiresInv, TypeOK, fileVars, transitVars
<1>6. QED
  BY <1>1, <1>2, <1>3, <1>4, <1>5, RestartKeeps

LEMMA SecretKeeps ==
  ASSUME WiresInv, NEW b \in {"shop", "logistics"}, SetSecret(b)
  PROVE  Kept
<1>1. /\ Restart(FALSE) /\ configured' = configured \cup {b}
      /\ UNCHANGED <<world, fileVars, transitVars, rows, told, heard, crashes>>
  BY DEF SetSecret
<1>2. Restarted
  BY <1>1 DEF Restart, Restarted
<1>3. Fit({}) /\ Pending({})
  BY <1>1 DEF Fit, Pending, WiresInv, TypeOK
<1>4. TypeOK'
  <2>0. alarm' = (alarm \/ at > 0 \/ FALSE) /\ at' = 0 /\ left' = FALSE
    BY <1>1 DEF Restart
  <2>1. alarm' \in BOOLEAN /\ at' \in 0..Len(DrainOrder) + 1 /\ left' \in BOOLEAN
    <3>1. alarm' \in BOOLEAN /\ left' \in BOOLEAN
      BY <2>0
    <3>2. at' \in 0..Len(DrainOrder) + 1
      BY <2>0, DrainLength
    <3>3. QED
      BY <3>1, <3>2
  <2>2. copy' \in [Stages -> Status]
    BY <1>2 DEF Restarted, Status
  <2>3. QED
    BY <1>1, <1>2, <2>1, <2>2 DEF Restarted, WiresInv, TypeOK, fileVars, transitVars
<1>5. QED
  BY <1>1, <1>2, <1>3, <1>4, RestartKeeps

-----------------------------------------------------------------------------
(* The alarm.                                                              *)

\* The end of one flush: the row, or the copy, takes its new status.
LEMMA WriteKeeps ==
  ASSUME WiresInv, at \in 1..8, NEW status \in Status, Write(status),
         UNCHANGED <<world, fileVars, transitVars>>, TypeOK',
         told \subseteq told', \A w \in told' \ told : FactOf(w),
         Seen # "none" => status # "none", status # "none" => FactOf(Wire),
         Seen = "delivered" => status = "delivered", status = "delivered" => Wire \in told'
  PROVE  Kept
<1> USE DEF WiresInv
<1> DEFINE pair == [copy EXCEPT ![Wire] = status]
           r == IF Wire \notin Stages THEN [rows EXCEPT ![Wire] = status]
                ELSE IF Wire = "arrivee" THEN [w \in Wires |-> IF w \in Stages THEN pair[w]
                                                                      ELSE rows[w]]
                ELSE rows
<1>1. /\ rows' = r /\ copy' = IF Wire \in Stages THEN pair ELSE [s \in Stages |-> r[s]]
      /\ at' = at + 1 /\ waiting' = FALSE
  BY DEF Write
<1>2. Wire \in Wires /\ (Wire \in Stages => Wire \in {"en_route", "arrivee"})
  BY DrainWires DEF Stages
<1>3. \A w \in Wires : FactOf(w)' <=> FactOf(w)
  BY DEF FactOf, fileVars, transitVars, Wires, DropWires
<1>4. \A w \in Wires : \/ rows'[w] = rows[w]
                       \/ w = Wire /\ w \notin Stages /\ rows'[w] = status
                       \/ w \in Stages /\ Wire = "arrivee" /\ rows'[w] = pair[w]
  BY <1>1, <1>2 DEF TypeOK
<1>5. \A s \in Stages : pair[s] = IF s = Wire THEN status ELSE copy[s]
  BY DEF TypeOK
<1>6. /\ Wire \in Stages => Seen = copy[Wire]
      /\ Wire \notin Stages => Seen = rows[Wire]
      /\ Wire = "arrivee" => at = 3
      /\ Stages \subseteq Wires
  BY DrainWires DEF Seen, Stages, Wires
<1>7. \A w \in Wires : rows[w] = "delivered" => rows'[w] = "delivered"
  BY <1>4, <1>5, <1>6 DEF CopyFits
<1>8. \A w \in Wires : rows'[w] # "none" => FactOf(w)
  BY <1>4, <1>5 DEF CopyFits, RowsAreFacts
<1>9. \A w \in Wires : rows'[w] = "delivered" => w \in told'
  BY <1>4, <1>5 DEF CopyFits, WiresTellTheTruth
<1>10. RowsAreFacts' /\ WiresTellTheTruth'
  <2>1. \A w \in Wires : w \in told' => FactOf(w)
    BY DEF WiresTellTheTruth
  <2>2. QED
    BY <1>3, <1>8, <1>9, <2>1 DEF RowsAreFacts, WiresTellTheTruth
<1>11. RowsOfTheCommit'
  <2>1. \A w \in Wires \ Stages : rows[w] # "none" => rows'[w] # "none"
    BY <1>4, <1>6
  <2>2. departed => rows'["en_route"] # "none"
    <3>1. CASE Wire = "arrivee"
      BY <1>4, <1>5, <1>6, <3>1 DEF CopyKnowsDeparture, RowsOfTheCommit, Stages, Wires
    <3>2. CASE Wire # "arrivee"
      BY <1>4, <3>2 DEF RowsOfTheCommit, Stages, Wires
    <3>3. QED
      BY <3>1, <3>2
  <2>3. UNCHANGED <<retour, phase, rescheduled, departed, world>>
    BY DEF fileVars, transitVars
  <2>4. {"refus", "ouvert", "retournee", "reprog"} \subseteq Wires \ Stages
    BY DEF Wires, Stages
  <2>5. QED
    BY <2>1, <2>2, <2>3, <2>4 DEF RowsOfTheCommit
<1>12. CASE Wire \in Stages
  <2>1. \A s \in Stages : copy'[s] = IF s = Wire THEN status ELSE copy[s]
    BY <1>1, <1>5, <1>12
  <2>2. CopyFits'
    <3>1. \A s \in Stages : /\ copy'[s] # "none" => FactOf(s)
                            /\ copy'[s] = "delivered" => s \in told'
      BY <2>1 DEF CopyFits
    <3>2. \A s \in Stages : rows'[s] = "delivered" => copy'[s] = "delivered"
      <4>1. at \in {2, 3}
        BY <1>12, DrainWires
      <4>2. QED
        BY <1>4, <1>5, <1>6, <2>1, <4>1 DEF CopyFits
    <3>3. QED
      BY <1>3, <1>6, <3>1, <3>2 DEF CopyFits
  <2>3. CopyKnowsDeparture'
    <3> SUFFICES ASSUME at' \in {2, 3}, copy'["en_route"] = "none"
                 PROVE ~departed /\ copy'["arrivee"] = "none"
      BY DEF CopyKnowsDeparture, transitVars
    <3>1. at = 2 /\ Wire = "en_route"
      BY <1>1, <1>12, DrainWires
    <3>2. copy["en_route"] = "none" /\ copy'["arrivee"] = copy["arrivee"]
      BY <1>6, <2>1, <3>1 DEF Stages
    <3>3. QED
      BY <3>1, <3>2 DEF CopyKnowsDeparture
  <2>4. QED
    BY <1>1, <1>7, <1>10, <1>11, <2>2, <2>3
       DEF Kept, WaitingFits, ArrivedAfter, HomeIsHome, fileVars, transitVars
<1>13. CASE Wire \notin Stages
  <2>1. \A s \in Stages : copy'[s] = rows'[s] /\ rows'[s] = rows[s]
    BY <1>1, <1>6, <1>13 DEF TypeOK
  <2>2. CopyFits'
    BY <1>3, <1>6, <1>8, <1>9, <2>1 DEF CopyFits
  <2>3. CopyKnowsDeparture'
    <3> SUFFICES ASSUME copy'["en_route"] = "none" PROVE ~departed /\ copy'["arrivee"] = "none"
      BY DEF CopyKnowsDeparture, transitVars
    <3>1. ~departed /\ ~arrived
      BY <2>1 DEF RowsOfTheCommit, ArrivedAfter, Stages
    <3>2. rows["arrivee"] = "none"
      BY <3>1 DEF RowsAreFacts, FactOf, Wires, DropWires
    <3>3. QED
      BY <2>1, <3>1, <3>2 DEF Stages
  <2>4. QED
    BY <1>1, <1>7, <1>10, <1>11, <2>2, <2>3
       DEF Kept, WaitingFits, ArrivedAfter, HomeIsHome, fileVars, transitVars
<1>14. QED
  BY <1>12, <1>13

LEMMA WriteTypes ==
  ASSUME TypeOK, at \in 1..8, NEW status \in Status, Write(status)
  PROVE  /\ rows' \in [Wires -> Status] /\ copy' \in [Stages -> Status]
         /\ at' \in 0..Len(DrainOrder) + 1 /\ waiting' = FALSE
<1>1. Wire \in Wires /\ Stages \subseteq Wires
  BY DrainWires DEF Stages, Wires
<1>2. QED
  BY <1>1, DrainLength DEF Write, TypeOK

LEMMA RestKeeps == ASSUME WiresInv, FlushRest PROVE Kept
<1>1. /\ at \in 1..8 /\ ~waiting
      /\ UNCHANGED <<world, fileVars, transitVars, alarm, left, configured, told, heard, crashes>>
  BY DrainLength DEF FlushRest
<1>2. Seen \in Status
  BY <1>1, DrainWires DEF Seen, WiresInv, TypeOK
<1>3. PICK status \in Status : /\ Write(status)
                               /\ status = Seen \/ (Seen = "pending" /\ status = "unsendable")
  BY <1>2 DEF FlushRest, Status
<1>4. TypeOK'
  BY <1>1, <1>3, WriteTypes DEF WiresInv, TypeOK, fileVars, transitVars
<1>5. Seen = "delivered" => Wire \in told
  BY <1>1, DrainWires DEF Seen, WiresInv, CopyFits, WiresTellTheTruth
<1>6. status # "none" => FactOf(Wire)
  BY <1>1, <1>3, AwaitedIsAFact
<1>7. QED
  BY <1>1, <1>3, <1>4, <1>5, <1>6, WriteKeeps

LEMMA AnswerKeeps == ASSUME WiresInv, NEW ok \in BOOLEAN, FlushAnswer(ok) PROVE Kept
<1>1. /\ waiting /\ Write(Outcome(ok))
      /\ IF ok THEN told' = told \cup {Wire} ELSE told' \in {told, told \cup {Wire}}
      /\ left' = (left \/ ~ok)
      /\ UNCHANGED <<world, fileVars, transitVars, alarm, configured, heard, crashes>>
  BY DEF FlushAnswer
<1>2. at \in 1..8 /\ Seen = "pending" /\ Wire \in Wires /\ FactOf(Wire)
  BY <1>1, DrainWires, AwaitedIsAFact DEF WiresInv, WaitingFits
<1>3. Outcome(ok) \in Status /\ Outcome(ok) # "none" /\ (Outcome(ok) = "delivered" => ok)
  BY DEF Outcome, Status
<1>4. /\ told \subseteq told' /\ told' \subseteq Wires /\ (\A w \in told' \ told : FactOf(w))
      /\ ok => Wire \in told'
  BY <1>1, <1>2 DEF WiresInv, TypeOK
<1>5. left' \in BOOLEAN
  BY <1>1
<1>6. TypeOK'
  BY <1>1, <1>2, <1>3, <1>4, <1>5, WriteTypes DEF WiresInv, TypeOK, fileVars, transitVars
<1>7. QED
  BY <1>1, <1>2, <1>3, <1>4, <1>6, WriteKeeps

\* The other steps of the alarm touch no row.
LEMMA AlarmKeeps == ASSUME WiresInv, AlarmFires \/ FlushSend \/ AlarmEnds PROVE Kept
<1>1. UNCHANGED <<world, phase, retour, rescheduled, departed, arrived, rows, told>>
  BY DEF AlarmFires, FlushSend, AlarmEnds, fileVars, transitVars, wireVars
<1>2. TypeOK'
  <2>1. CASE AlarmFires
    <3>1. at' \in 0..Len(DrainOrder) + 1 /\ (waiting' => at' > 0)
      BY <2>1, DrainLength DEF AlarmFires
    <3>2. alarm' \in BOOLEAN /\ waiting' \in BOOLEAN /\ left' \in BOOLEAN
      BY <2>1 DEF AlarmFires
    <3>3. QED
      BY <2>1, <3>1, <3>2 DEF AlarmFires, WiresInv, TypeOK, fileVars, transitVars
  <2>2. CASE FlushSend
    BY <2>2, DrainLength DEF FlushSend, WiresInv, TypeOK, fileVars, transitVars, wireVars
  <2>3. CASE AlarmEnds
    <3>1. alarm' \in BOOLEAN /\ copy' \in [Stages -> Status] /\ ~waiting
      BY <2>3, DrainLength DEF AlarmEnds, Status, WiresInv, WaitingFits
    <3>2. at' \in 0..Len(DrainOrder) + 1
      BY <2>3, DrainLength DEF AlarmEnds
    <3>3. waiting' = waiting /\ waiting \in BOOLEAN /\ left' \in BOOLEAN
      BY <2>3 DEF AlarmEnds, WiresInv, TypeOK
    <3>4. QED
      BY <2>3, <3>1, <3>2, <3>3 DEF AlarmEnds, WiresInv, TypeOK, fileVars, transitVars
  <2>4. QED
    BY <2>1, <2>2, <2>3
<1>3. \A w \in Wires : FactOf(w)' <=> FactOf(w)
  BY <1>1 DEF FactOf, Wires, DropWires
<1>4. /\ WiresTellTheTruth' /\ RowsOfTheCommit' /\ RowsAreFacts' /\ ArrivedAfter' /\ HomeIsHome'
  BY <1>1, <1>3 DEF WiresInv, WiresTellTheTruth, RowsOfTheCommit, RowsAreFacts, ArrivedAfter,
                    HomeIsHome
<1>5. CopyFits' /\ CopyKnowsDeparture' /\ WaitingFits'
  <2>1. CASE AlarmFires
    BY <1>1, <1>3, <2>1 DEF AlarmFires, WiresInv, CopyFits, CopyKnowsDeparture, WaitingFits,
                            Stages, Wires
  <2>2. CASE FlushSend
    <3>1. UNCHANGED <<at, copy>> /\ at \in 1..8 /\ Seen = "pending"
      BY <2>2, DrainLength DEF FlushSend
    <3>2. Seen' = Seen
      BY <1>1, <3>1 DEF Seen, Wire
    <3>3. CopyFits' /\ CopyKnowsDeparture'
      BY <1>1, <1>3, <3>1 DEF WiresInv, CopyFits, CopyKnowsDeparture, Stages, Wires
    <3>4. QED
      BY <3>1, <3>2, <3>3 DEF WaitingFits
  <2>3. CASE AlarmEnds
    <3>1. at' = 0 /\ copy' = [s \in Stages |-> "none"] /\ waiting' = waiting /\ ~waiting
      BY <2>3, DrainLength DEF AlarmEnds, WiresInv, WaitingFits
    <3>2. QED
      BY <3>1 DEF CopyFits, CopyKnowsDeparture, WaitingFits, Stages
  <2>4. QED
    BY <2>1, <2>2, <2>3
<1>6. QED
  BY <1>1, <1>2, <1>4, <1>5 DEF Kept, WiresInv

-----------------------------------------------------------------------------
(* Every step.                                                             *)

LEMMA StepKeeps == WiresInv /\ [Next]_vars => Kept
<1> SUFFICES ASSUME WiresInv, [Next]_vars PROVE Kept
  OBVIOUS
<1>1. CASE RefuseAtPickup \/ TakeTheRoad \/ ExpireWindow \/ OpenTheReturn \/ HandItBack
  BY <1>1, CommitKeeps DEF RefuseAtPickup, TakeTheRoad, ExpireWindow, OpenTheReturn, HandItBack,
                           FileNext
<1>2. CASE OtherRequest
  BY <1>2, CommitKeeps DEF OtherRequest
<1>3. CASE DropItOff \/ Depart \/ Arrive
  BY <1>3, DropKeeps, DepartKeeps, ArriveKeeps
<1>4. CASE (\E act \in world.acts : Redeliver(act)) \/ Reviver
  BY <1>4, RedeliverKeeps
<1>5. CASE AlarmStep
  BY <1>5, RestKeeps, AnswerKeeps, AlarmKeeps DEF AlarmStep
<1>6. CASE Crash \/ \E b \in {"shop", "logistics"} : SetSecret(b)
  BY <1>6, CrashKeeps, SecretKeeps
<1>7. CASE UNCHANGED vars
  <2>1. UNCHANGED <<world, phase, retour, rescheduled, departed, arrived, rows, alarm, at, waiting,
                    copy, left, configured, told, heard, crashes>>
    BY <1>7 DEF vars, fileVars, transitVars, wireVars, alarmVars
  <2>2. \A w \in Wires : FactOf(w)' <=> FactOf(w)
    BY <2>1 DEF FactOf, Wires, DropWires
  <2>3. Seen' = Seen
    BY <2>1 DEF Seen, Wire
  <2>4. TypeOK' /\ RowsOfTheCommit' /\ CopyKnowsDeparture' /\ ArrivedAfter' /\ HomeIsHome'
    BY <2>1 DEF WiresInv, TypeOK, RowsOfTheCommit, CopyKnowsDeparture, ArrivedAfter, HomeIsHome
  <2>5. WiresTellTheTruth' /\ RowsAreFacts' /\ CopyFits' /\ WaitingFits'
    BY <2>1, <2>2, <2>3 DEF WiresInv, WiresTellTheTruth, RowsAreFacts, CopyFits, WaitingFits,
                            Stages, Wires
  <2>6. QED
    BY <2>1, <2>4, <2>5 DEF Kept, WiresInv
<1>8. QED
  BY <1>1, <1>2, <1>3, <1>4, <1>5, <1>6, <1>7 DEF Next

-----------------------------------------------------------------------------
(* The drop's rows, put after its commit.                                  *)

\* A step that neither delivers nor writes a first row of the drop.
LEMMA DropUntouched ==
  ASSUME DropRowsTogether, crashes \in Nat, crashes' \in {crashes, crashes + 1},
         phase' = "delivered" => phase = "delivered",
         \A w \in DropWires : rows'[w] = "none" <=> rows[w] = "none"
  PROVE  DropRowsTogether'
BY DEF DropRowsTogether

\* The heals and the commit put no row of the drop.
LEMMA RearmedDrop ==
  ASSUME WiresInv, NEW ws, rows' = Rearmed(ws),
         \A w \in DropWires : w \in ws => rows[w] # "none"
  PROVE  \A w \in DropWires : rows'[w] = "none" <=> rows[w] = "none"
<1>1. \A w \in DropWires : w \in Wires /\ w \notin Unhealed
  BY DEF DropWires, Wires, Unhealed
<1>2. QED
  BY <1>1 DEF Rearmed

LEMMA ArmedNoDrop == \A w \in DropWires : w \notin Armed /\ w \notin Stages
BY DEF DropWires, Armed, Due, Stages

LEMMA CrashesGrow ==
  ASSUME WiresInv, [Next]_vars
  PROVE  crashes \in Nat /\ crashes' \in {crashes, crashes + 1}
<1>1. crashes \in Nat
  BY WorldsAssumption DEF WiresInv, TypeOK, World
<1>2. ASSUME NEW act, NEW ws, Settle(act, ws) PROVE crashes' \in {crashes, crashes + 1}
  BY <1>2 DEF Settle, Dies
<1>3. QED
  BY <1>1, <1>2, Zenon
     DEF Next, RefuseAtPickup, TakeTheRoad, ExpireWindow, OpenTheReturn, HandItBack, OtherRequest,
         Commit, DropItOff, Depart, Arrive, Journey, Redeliver, Reviver, Revive, Rearm, AlarmStep,
         AlarmFires, FlushRest, FlushSend, FlushAnswer, AlarmEnds, Crash, SetSecret, Dies, vars

\* A flush writes no first row of the drop, and drops none.
LEMMA WriteDrop ==
  ASSUME WiresInv, at \in 1..8, NEW status \in Status, Write(status),
         Seen = "none" <=> status = "none"
  PROVE  \A w \in DropWires : rows'[w] = "none" <=> rows[w] = "none"
<1>1. /\ Wire \in Wires /\ DropWires \subseteq Wires \ Stages
      /\ Wire \notin Stages => Seen = rows[Wire]
  BY DrainWires DEF Seen, DropWires, Wires, Stages
<1>2. \A w \in DropWires : rows'[w] = rows[w] \/ (w = Wire /\ Wire \notin Stages /\ rows'[w] = status)
  BY <1>1 DEF Write, WiresInv, TypeOK
<1>3. QED
  BY <1>1, <1>2

LEMMA DropStep ==
  ASSUME WiresInv, DropRowsTogether, [Next]_vars
  PROVE  DropRowsTogether'
<1>0. crashes \in Nat /\ crashes' \in {crashes, crashes + 1}
  BY CrashesGrow
<1> DEFINE Same == \A w \in DropWires : rows'[w] = "none" <=> rows[w] = "none"
           Stays == phase' = "delivered" => phase = "delivered"
<1>1. Same /\ Stays => DropRowsTogether'
  BY <1>0, DropUntouched
<1>2. CASE RefuseAtPickup \/ TakeTheRoad \/ ExpireWindow \/ OpenTheReturn \/ HandItBack
           \/ OtherRequest
  <2>1. rows' = Rearmed(Armed)
    BY <1>2 DEF RefuseAtPickup, TakeTheRoad, ExpireWindow, OpenTheReturn, HandItBack, OtherRequest,
                Commit
  <2>2. Stays
    BY <1>2 DEF RefuseAtPickup, TakeTheRoad, ExpireWindow, OpenTheReturn, HandItBack, OtherRequest,
                RefusePickup, BeginRoad, Reschedule, OpenRetour, HandBack, fileVars
  <2>3. QED
    BY <1>1, <2>1, <2>2, RearmedDrop, ArmedNoDrop
<1>3. CASE DropItOff
  <2>1. phase = "on_road" /\ \A w \in DropWires : w \in Wires /\ rows[w] = "none"
    BY <1>3 DEF DropItOff, Deliver, WiresInv, RowsAreFacts, FactOf, DropWires, Wires
  <2>2. CASE rows' = Rearmed(Armed \cup DropWires)
    BY <2>1, <2>2 DEF Rearmed, DropRowsTogether
  <2>3. CASE rows' = Rearmed(Armed) /\ Dies(Unhealed # {})
    <3>1. \A w \in DropWires : rows'[w] = "none"
      BY <2>1, <2>3, RearmedDrop, ArmedNoDrop
    <3>2. crashes' > 0
      BY <1>0, <2>3 DEF Dies
    <3>3. QED
      BY <3>1, <3>2 DEF DropRowsTogether
  <2>4. QED
    BY <1>3, <2>2, <2>3 DEF DropItOff
<1>4. CASE Depart \/ Arrive
  <2>1. PICK stage \in Stages : rows' = Rearmed({stage}) /\ UNCHANGED fileVars
    BY <1>4 DEF Depart, Arrive, Journey, Stages
  <2>2. QED
    BY <1>1, <2>1, RearmedDrop, ArmedNoDrop DEF fileVars
<1>5. CASE (\E act \in world.acts : Redeliver(act)) \/ Reviver
  <2>1. PICK act, ws : Revive(act, ws)
    BY <1>5, Zenon DEF Redeliver, Reviver, Rearm
  <2>2. rows' = Rearmed(Stranded(ws)) /\ UNCHANGED fileVars
    BY <2>1 DEF Revive
  <2>3. \A w \in Stranded(ws) : rows[w] # "none"
    BY DEF Stranded
  <2>4. QED
    BY <1>1, <2>2, <2>3, RearmedDrop DEF fileVars
<1>6. CASE AlarmStep
  <2>1. UNCHANGED fileVars
    BY <1>6 DEF AlarmStep, AlarmFires, FlushRest, FlushSend, FlushAnswer, AlarmEnds
  <2>2. CASE FlushRest
    <3>1. at \in 1..8 /\ Seen \in Status
      BY <2>2, DrainLength, DrainWires DEF FlushRest, Seen, WiresInv, TypeOK
    <3>2. PICK status \in Status : Write(status) /\ (Seen = "none" <=> status = "none")
      BY <2>2, <3>1 DEF FlushRest, Status
    <3>3. QED
      BY <1>1, <2>1, <3>1, <3>2, WriteDrop DEF fileVars
  <2>3. ASSUME NEW ok \in BOOLEAN, FlushAnswer(ok) PROVE DropRowsTogether'
    <3>1. at \in 1..8 /\ Seen = "pending"
      BY <2>3 DEF FlushAnswer, WiresInv, WaitingFits
    <3>2. Write(Outcome(ok)) /\ Outcome(ok) \in Status /\ Outcome(ok) # "none"
      BY <2>3 DEF FlushAnswer, Outcome, Status
    <3>3. QED
      BY <1>1, <2>1, <3>1, <3>2, WriteDrop DEF fileVars
  <2>4. CASE AlarmFires \/ FlushSend \/ AlarmEnds
    <3>1. UNCHANGED rows
      BY <2>4 DEF AlarmFires, FlushSend, AlarmEnds, wireVars
    <3>2. QED
      BY <1>1, <2>1, <3>1 DEF fileVars
  <2>5. QED
    BY <1>6, <2>2, <2>3, <2>4 DEF AlarmStep
<1>7. CASE Crash \/ \E b \in {"shop", "logistics"} : SetSecret(b)
  <2>1. UNCHANGED fileVars /\ (UNCHANGED rows \/ rows' = Rearmed({}))
    BY <1>7 DEF Crash, SetSecret
  <2>2. QED
    BY <1>1, <2>1, RearmedDrop DEF fileVars
<1>8. CASE UNCHANGED vars
  BY <1>1, <1>8 DEF vars, fileVars, wireVars
<1>9. QED
  BY <1>2, <1>3, <1>4, <1>5, <1>6, <1>7, <1>8 DEF Next

-----------------------------------------------------------------------------
(* The theorems.                                                           *)

\* The invariant of the outboxes, in every setting.
THEOREM WiresInvariant == Spec => []WiresInv
<1>1. WiresInv /\ [Next]_vars => WiresInv'
  BY StepKeeps DEF Kept
<1>2. QED
  BY <1>1, InitHolds, PTL DEF Spec

\* Type correctness of the object, its rows and its alarm.
THEOREM WiresTypes == Spec => []TypeOK
<1>1. WiresInv => TypeOK
  BY DEF WiresInv
<1>2. QED
  BY <1>1, WiresInvariant, PTL

\* No receiver is ever told what the custody file does not say, and a row is
\* marked delivered only when its receiver processed it (custody-do.ts flush*).
THEOREM ToldTheTruth == Spec => []WiresTellTheTruth
<1>1. WiresInv => WiresTellTheTruth
  BY DEF WiresInv
<1>2. QED
  BY <1>1, WiresInvariant, PTL

\* Whatever crashed, a refusal, a return, a second passage and a departure never
\* stand without their row (custody-do.ts commit, older files excepted); a drop,
\* whose rows are put after its commit, has both of them, or neither where the
\* object has crashed (custody-do.ts /delivery/drop).
THEOREM CommitsAreWired == Spec => []CommitsCarryTheirRows
<1>1. Init => DropRowsTogether
  BY DEF Init, FileInit, DropRowsTogether
<1>2. WiresInv /\ DropRowsTogether /\ [Next]_vars => DropRowsTogether'
  BY DropStep
<1>3. WiresInv /\ DropRowsTogether => CommitsCarryTheirRows
  BY DEF WiresInv, CommitsCarryTheirRows
<1>4. QED
  BY <1>1, <1>2, <1>3, WiresInvariant, PTL DEF Spec

\* A delivered row is never sent again, by a redelivered act, a heal, or a
\* flush that read the row before it was delivered (custody-do.ts flushTransit).
THEOREM DeliveredStays == Spec => DeliveredForGood
<1>1. WiresInv /\ [Next]_vars
         => [\A w \in Wires : rows[w] = "delivered" => rows'[w] = "delivered"]_rows
  BY StepKeeps DEF Kept
<1>2. QED
  BY <1>1, WiresInvariant, PTL DEF Spec, DeliveredForGood
=============================================================================
