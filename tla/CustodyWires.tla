---------------------------- MODULE CustodyWires ----------------------------
(***************************************************************************)
(* The outboxes of one custody object (CustodyDO): how a committed fact    *)
(* becomes a row, how the shared alarm drains the rows over two service    *)
(* bindings, and what a crash, a lost answer, a missing secret or a        *)
(* request arriving while the alarm awaits an answer do to them.           *)
(*                                                                         *)
(* Source: services/custody-service/worker/custody-do.ts.  The input gate  *)
(* of a Durable Object holds every event back while a storage call is      *)
(* pending, so a handler is one action and the alarm is atomic between two *)
(* outgoing fetches; while it awaits a fetch, requests come in.  A crash   *)
(* may fall between two storage calls; the platform then runs the alarm    *)
(* handler again.                                                          *)
(***************************************************************************)
EXTENDS CustodyFile, Naturals, Sequences

CONSTANT
    Worlds       \* the settings explored: [acts, bindings, legacy, crashes],
                 \* the requests received, the bindings whose secret is set from
                 \* the start, whether the file may predate the healed wires,
                 \* and the bound on crashes

\* The order in which alarm() drains the rows.
DrainOrder == <<"eligibility", "en_route", "arrivee", "livree", "refus",
                "ouvert", "retournee", "reprog">>
Wires  == {"eligibility", "en_route", "arrivee", "livree", "refus", "ouvert",
           "retournee", "reprog"}
Stages == {"en_route", "arrivee"}       \* the two rows under ONE key
DropWires   == {"eligibility", "livree"}
RetourWires == {"ouvert", "retournee"}

\* Shop+ hears the money and journey facts, logistics the course facts.
BindingOf(w) == IF w \in {"eligibility", "refus"} \cup Stages THEN "shop"
                                                              ELSE "logistics"

ActNames == {"refuse", "begin", "expire", "open", "handover", "drop",
             "depart", "arrive", "other"}
Status == {"none", "pending", "delivered", "unsendable"}

World == [acts : SUBSET ActNames, bindings : SUBSET {"shop", "logistics"},
          legacy : BOOLEAN, crashes : Nat]
ASSUME WorldsAssumption == Worlds \subseteq World

VARIABLES
    world,      \* the setting of this behaviour, chosen once
    departed, arrived, \* TransitRecord: departedAt, arrivedAt
    rows,       \* [Wires -> Status]: the durable outbox rows
    alarm,      \* an alarm is set
    at,         \* position of a running alarm() in DrainOrder, 0 when none runs
    waiting,    \* the running alarm awaits an answer of the binding
    copy,       \* the transit outbox as flushTransit read it
    left,       \* a flush of this run left its row pending (attempts > 0)
    configured, \* bindings whose secret the founder has set
    told,       \* wires whose receiver processed the row at least once
    heard,      \* acts whose answer reached the client
    crashes

wireVars  == <<rows, alarm>>
alarmVars == <<at, waiting, copy, left>>
transitVars == <<departed, arrived>>
vars == <<world, fileVars, transitVars, wireVars, alarmVars, configured, told, heard,
          crashes>>

-----------------------------------------------------------------------------
(* State.                                                                  *)

TypeOK ==
    /\ world \in Worlds
    /\ phase \in Phases /\ retour \in Retours /\ rescheduled \in BOOLEAN
    /\ departed \in BOOLEAN /\ arrived \in BOOLEAN
    /\ rows \in [Wires -> Status]
    /\ alarm \in BOOLEAN
    /\ at \in 0..Len(DrainOrder) + 1
    /\ waiting \in BOOLEAN /\ (waiting => at > 0)
    /\ copy \in [Stages -> Status]
    /\ left \in BOOLEAN
    /\ configured \subseteq {"shop", "logistics"}
    /\ told \subseteq Wires
    /\ heard \subseteq ActNames
    /\ crashes \in 0..world.crashes

\* A file older than the refusal or the reprogrammation wire has the fact and
\* no row.
Init ==
    /\ world \in Worlds
    /\ \/ FileInit
       \/ world.legacy /\ phase = "refused" /\ retour = "none" /\ rescheduled = FALSE
       \/ world.legacy /\ phase = "on_road" /\ retour = "none" /\ rescheduled = TRUE
    /\ departed = FALSE /\ arrived = FALSE
    /\ rows = [w \in Wires |-> "none"]
    /\ alarm = FALSE
    /\ at = 0 /\ waiting = FALSE /\ left = FALSE
    /\ copy = [s \in Stages |-> "none"]
    /\ configured = world.bindings
    /\ told = {} /\ heard = {} /\ crashes = 0

-----------------------------------------------------------------------------
(* What a request does to the rows.                                        *)

\* healReprogrammationWire and healRefusWire run before every request.
Unhealed ==
    {w \in {"reprog"} : rescheduled /\ rows[w] = "none"}
    \cup {w \in {"refus"} : \/ rows[w] = "none" /\ phase = "refused"
                            \/ rows[w] \in {"unsendable", "pending"}}

\* The rows after the heals, with those of `ws` pending as well.
Rearmed(ws) == [w \in Wires |-> IF w \in ws \cup Unhealed THEN "pending"
                                                          ELSE rows[w]]

\* Mutant: a delivered row is revived like a stranded one.
StrandedOrDone(ws) == {w \in ws : rows[w] # "none"}

Stranded(ws) == {w \in ws : rows[w] \notin {"none", "delivered"}}

\* Mutant: the refusal wire is left to a later commit.
DueNoRefusal ==
    {w \in {"ouvert"} : retour' # "none"}
    \cup {w \in {"retournee"} : retour' = "closed"}
    \cup {w \in {"reprog"} : rescheduled'}

\* commit() arms, in the very put of the log row, the rows of the facts the
\* spine now states; a row that exists is left alone.
Due ==
    {w \in {"refus"} : phase' = "refused" \/ retour' # "none"}
    \cup {w \in {"ouvert"} : retour' # "none"}
    \cup {w \in {"retournee"} : retour' = "closed"}
    \cup {w \in {"reprog"} : rescheduled'}

Armed == {w \in Due : rows[w] = "none"}

Alarmed(ws) == alarm \/ ws # {}

\* No event reaches the object while a storage call of alarm() is pending.
Gate == at = 0 \/ waiting

\* The object restarts: a running alarm() is lost and the platform, which owes
\* its completion, fires it again.  `alarmed`: a setAlarm had gone through.
Restart(alarmed) ==
    /\ alarm' = (alarm \/ at > 0 \/ alarmed)
    /\ at' = 0 /\ waiting' = FALSE /\ left' = FALSE
    /\ copy' = [s \in Stages |-> "none"]

Dies(alarmed) ==
    /\ crashes < world.crashes /\ crashes' = crashes + 1
    /\ Restart(alarmed)

\* The request put its rows and either answered, with the answer heard or lost,
\* or crashed before setAlarm; a crash takes a running alarm() with it, which
\* the platform starts again.
Settle(act, ws) ==
    \/ /\ alarm' = Alarmed(ws)
       /\ heard' \in {heard, heard \cup ({act} \ {"other"})}
       /\ UNCHANGED <<alarmVars, crashes>>
    \/ /\ Dies(Unhealed # {})
       /\ UNCHANGED heard

\* A logged command: applied to the spine, committed with the rows it makes due.
Commit(act) ==
    /\ Gate /\ act \in world.acts
    /\ rows' = Rearmed(Armed)
    /\ Settle(act, Unhealed \cup Armed)
    /\ UNCHANGED <<world, transitVars, configured, told>>

RefuseAtPickup == RefusePickup /\ Commit("refuse")
TakeTheRoad    == BeginRoad    /\ Commit("begin")
ExpireWindow   == Reschedule   /\ Commit("expire")
OpenTheReturn  == OpenRetour   /\ Commit("open")
HandItBack     == HandBack     /\ Commit("handover")

\* Any other request: a read, or a command that changes none of these facts.
OtherRequest   == UNCHANGED fileVars /\ Commit("other")

-----------------------------------------------------------------------------
(* The drop: its two rows are put AFTER the commit.                        *)

DropItOff ==
    /\ Gate /\ "drop" \in world.acts
    /\ Deliver
    /\ \/ /\ rows' = Rearmed(Armed \cup DropWires)
          /\ Settle("drop", DropWires)
       \/ /\ rows' = Rearmed(Armed)     \* crash between the two puts
          /\ Dies(Unhealed # {})
          /\ UNCHANGED heard
    /\ UNCHANGED <<world, transitVars, configured, told>>

-----------------------------------------------------------------------------
(* The journey facts, outside the command log.                             *)

\* POST /transit/depart and /transit/arrive: the record and the row in one put.
Journey(act, stage) ==
    /\ Gate /\ act \in world.acts
    /\ rows' = Rearmed({stage})
    /\ Settle(act, Unhealed \cup {stage})
    /\ UNCHANGED <<world, fileVars, configured, told>>

Depart ==
    /\ ~departed /\ phase = "on_road"
    /\ departed' = TRUE
    /\ Journey("depart", "en_route")
    /\ UNCHANGED arrived

\* The operations door may state the arrival after custody moved on.
Arrive ==
    /\ departed /\ ~arrived
    /\ arrived' = TRUE
    /\ Journey("arrive", "arrivee")
    /\ UNCHANGED departed

-----------------------------------------------------------------------------
(* A redelivered act: answered from the record, and the moment a stranded  *)
(* row is revived.                                                         *)

Revive(act, ws) ==
    /\ Gate
    /\ rows' = Rearmed(Stranded(ws))
    /\ Settle(act, Unhealed \cup Stranded(ws))
    /\ UNCHANGED <<world, fileVars, transitVars, configured, told>>

\* rearmTransitStage: nothing is put while any alarm is set, the one the heals
\* of this very request set included.
Rearm(act, stage) ==
    IF Alarmed(Unhealed)
    THEN Revive(act, {})
    ELSE Revive(act, {stage})

Committed(act) ==
    CASE act = "refuse"   -> phase = "refused"
      [] act = "expire"   -> rescheduled
      [] act = "open"     -> retour # "none"
      [] act = "handover" -> retour = "closed"
      [] act = "drop"     -> phase = "delivered"
      [] act = "depart"   -> departed
      [] act = "arrive"   -> arrived
      [] OTHER            -> FALSE

\* A replayed drop (or the code typed again), return act, expiry or journey
\* fact; a replayed refusal revives nothing of its own.
Redeliver(act) ==
    /\ act \in world.acts
    /\ Committed(act)
    /\ CASE act = "drop"                -> Revive(act, DropWires)
         [] act \in {"open", "handover"} -> Revive(act, RetourWires)
         [] act = "expire"              -> Revive(act, {"reprog"})
         [] act = "depart"              -> Rearm(act, "en_route")
         [] act = "arrive"              -> Rearm(act, "arrivee")
         [] OTHER                       -> Revive(act, {})

\* POST /wires/reviver, which logistics calls for every course on the board.
Reviver == Revive("other", RetourWires \cup {"reprog"})

-----------------------------------------------------------------------------
(* The alarm.                                                              *)

\* Starting: the platform clears the alarm it fires.
AlarmFires ==
    /\ alarm /\ at = 0
    /\ alarm' = FALSE
    /\ at' = 1 /\ waiting' = FALSE /\ left' = FALSE
    /\ UNCHANGED <<world, fileVars, transitVars, rows, copy, configured, told, heard,
                   crashes>>

Wire == DrainOrder[at]

\* The row as the flush sees it: flushTransit works on the copy it read.
Seen == IF Wire \in Stages THEN copy[Wire] ELSE rows[Wire]

\* The flush of the current wire ends with its row in `status`.  flushTransit
\* reads both stages before its first fetch and puts the pair once, at the end.
Write(status) ==
    LET pair == [copy EXCEPT ![Wire] = status]
        r == IF Wire \notin Stages THEN [rows EXCEPT ![Wire] = status]
             ELSE IF Wire = "arrivee" THEN [w \in Wires |-> IF w \in Stages THEN pair[w]
                                                                     ELSE rows[w]]
             ELSE rows
    IN  /\ rows' = r
        /\ copy' = IF Wire \in Stages THEN pair ELSE [s \in Stages |-> r[s]]
        /\ at' = at + 1
        /\ waiting' = FALSE

\* Nothing to send, or no secret to send it with: the row rests.
FlushRest ==
    /\ at \in 1..Len(DrainOrder) /\ ~waiting
    /\ \/ Seen # "pending" /\ Write(Seen)
       \/ /\ Seen = "pending" /\ BindingOf(Wire) \notin configured
          /\ Write("unsendable")
    /\ UNCHANGED <<world, fileVars, transitVars, alarm, left, configured, told, heard,
                   crashes>>

FlushSend ==
    /\ at \in 1..Len(DrainOrder) /\ ~waiting
    /\ Seen = "pending" /\ BindingOf(Wire) \in configured
    /\ waiting' = TRUE
    /\ UNCHANGED <<world, fileVars, transitVars, wireVars, at, copy, left, configured,
                   told, heard, crashes>>

\* Mutant: an answer that never came is taken for a delivery.
OutcomeOptimistic(ok) == "delivered"

Outcome(ok) == IF ok THEN "delivered" ELSE "pending"

\* The answer: ok, or an outage before or after the receiver processed the row.
FlushAnswer(ok) ==
    /\ waiting
    /\ IF ok THEN told' = told \cup {Wire} ELSE told' \in {told, told \cup {Wire}}
    /\ left' = (left \/ ~ok)
    /\ Write(Outcome(ok))
    /\ UNCHANGED <<world, fileVars, transitVars, alarm, configured, heard, crashes>>

\* Mutant: the run ends without asking for another.
RetryNever == FALSE

Retry == left

\* The last flush done: another alarm, on the backoff rung, if a row is left.
AlarmEnds ==
    /\ at = Len(DrainOrder) + 1
    /\ alarm' = (alarm \/ Retry)
    /\ at' = 0 /\ left' = FALSE /\ copy' = [s \in Stages |-> "none"]
    /\ UNCHANGED <<world, fileVars, transitVars, rows, waiting, configured, told, heard,
                   crashes>>

AlarmStep ==
    \/ AlarmFires \/ FlushRest \/ FlushSend
    \/ \E ok \in BOOLEAN : FlushAnswer(ok)
    \/ AlarmEnds

-----------------------------------------------------------------------------
(* The environment: crashes, and the founder setting a binding's secret.   *)

\* A crash of the running alarm, or of a request between the put of its heals
\* and their setAlarm.
Crash ==
    /\ Dies(FALSE)
    /\ \/ at > 0 /\ UNCHANGED rows
       \/ Gate /\ Unhealed # {} /\ rows' = Rearmed({})
    /\ told' \in {told, told \cup {w \in Wires : waiting /\ w = Wire}}
    /\ UNCHANGED <<world, fileVars, transitVars, configured, heard>>

\* A deployment restarts the object.
SetSecret(b) ==
    /\ b \notin configured
    /\ configured' = configured \cup {b}
    /\ Restart(FALSE)
    /\ UNCHANGED <<world, fileVars, transitVars, rows, told, heard, crashes>>

Next ==
    \/ RefuseAtPickup \/ TakeTheRoad \/ ExpireWindow \/ OpenTheReturn
    \/ HandItBack \/ OtherRequest \/ DropItOff \/ Depart \/ Arrive
    \/ \E act \in world.acts : Redeliver(act)
    \/ Reviver
    \/ AlarmStep
    \/ Crash
    \/ \E b \in {"shop", "logistics"} : SetSecret(b)

Spec == Init /\ [][Next]_vars

\* The platform runs a set alarm to its end; a receiver asked again and again
\* processes a row in the end (a delivered row is never asked for again, so
\* every row has its turn); a client redelivers an act until its answer is
\* heard; the founder's board, read again and again, calls /wires/reviver.  The
\* input gate holds requests back now and then, hence strong fairness for them.
Fairness ==
    /\ WF_vars(AlarmStep)
    /\ SF_vars(FlushAnswer(TRUE))
    /\ SF_vars(\E act \in world.acts : Redeliver(act) /\ act \in heard' \ heard)
    /\ SF_vars(Reviver)

FairSpec == Spec /\ Fairness

-----------------------------------------------------------------------------
(* Properties.                                                             *)

\* The fact a wire reports.
FactOf(w) ==
    CASE w \in DropWires   -> phase = "delivered"
      [] w = "refus"       -> phase = "refused" \/ retour # "none"
      [] w = "ouvert"      -> retour # "none"
      [] w = "retournee"   -> retour = "closed"
      [] w = "reprog"      -> rescheduled
      [] w = "en_route"    -> departed
      [] w = "arrivee"     -> arrived

\* No receiver is ever told what the custody file does not say, and a row is
\* marked delivered only when its receiver really processed it.
WiresTellTheTruth ==
    \A w \in Wires : /\ w \in told => FactOf(w)
                     /\ rows[w] = "delivered" => w \in told

\* The facts whose rows commit() puts with the log: a refusal, a return opened or
\* closed, a second passage decided; and a departure, in the put of its record.
RowsOfTheCommit ==
    /\ retour # "none" => rows["refus"] # "none" /\ rows["ouvert"] # "none"
    /\ retour = "closed" => rows["retournee"] # "none"
    /\ phase = "refused" => rows["refus"] # "none" \/ world.legacy
    /\ rescheduled => rows["reprog"] # "none" \/ world.legacy
    /\ departed => rows["en_route"] # "none"

\* The drop, whose two rows are put after its commit: both rows or neither, and
\* neither only where the object has crashed.
DropRowsTogether ==
    phase = "delivered" => \/ \A w \in DropWires : rows[w] # "none"
                           \/ crashes > 0 /\ \A w \in DropWires : rows[w] = "none"

\* One write, not two (custody-do.ts, commit and the transit record): whatever
\* crashed, a refusal, a return, a second passage and a departure never stand
\* without their row; older files excepted, which a first request repairs.  The
\* drop is the exception: its rows come after its commit, arm together or not at
\* all, and may both be missing after a crash.
CommitsCarryTheirRows == RowsOfTheCommit /\ DropRowsTogether

\* A delivered row is never sent again, neither by a redelivered act, nor by a
\* heal, nor by a flush that read the row before it was delivered.
DeliveredForGood ==
    [][\A w \in Wires : rows[w] = "delivered" => rows'[w] = "delivered"]_rows

\* At-least-once: the facts of the command log reach their receiver once the
\* binding has its secret, through crashes and lost answers; so does a row of
\* the drop or of the departure that is pending.
EachWireReachesItsReceiver ==
    /\ \A w \in {"refus", "ouvert", "retournee", "reprog"} :
           FactOf(w) /\ BindingOf(w) \in configured ~> w \in told
    /\ \A w \in DropWires \cup {"en_route"} :
           rows[w] = "pending" /\ BindingOf(w) \in configured
               ~> w \in told

\* custody-do.ts, /delivery/drop: "the commit-then-arm window admits no
\* externally visible partial state (...) the output gate is what makes that
\* window unreachable": a rider who heard his drop accepted left its two rows.
AnsweredDropIsWired ==
    "drop" \in heard => \A w \in DropWires : rows[w] # "none"

\* custody-do.ts, TransitOutboxRow: the transit facts travel "at-least-once":
\* an arrival the rider heard accepted left its row.
AnsweredArrivalIsWired == "arrive" \in heard => rows["arrivee"] # "none"
=============================================================================
