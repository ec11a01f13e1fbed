-------------------------------- MODULE Desk --------------------------------
(***************************************************************************)
(* The founder's console and the object it commands.  Two of its desks:    *)
(* the next passage of a course custody rescheduled, or its way home to    *)
(* the seller (apps/dispatch-console/src/reprogrammation.ts and its part   *)
(* of main.ts), and the fleet (flotte.ts), each against the doors of       *)
(* services/logistics-service/worker/logistics-do.ts.                      *)
(*                                                                         *)
(* A desk sends one command at a time and waits for it 15 seconds          *)
(* (courses-port.ts): a command given up may still be on its way and land  *)
(* later, an answer may be lost, the page may be loaded again and forget.  *)
(* The door that sends a course home asks custody over a fetch, and other  *)
(* requests are served meanwhile.  The desks share nothing but the road,   *)
(* so a behaviour works at one of them (world.desk).                       *)
(***************************************************************************)
EXTENDS Integers, FiniteSets

CONSTANTS
    Window,     \* the windows the founder may type
    Moto,       \* the motos the founder has to declare, by label
    Rider,      \* the riders a moto may be handed to
    Note,       \* the fleet entries the founder has to record
    Reading,    \* the odometer reading of each
    World,      \* the settings of a behaviour
    MaxSends,   \* bound: commands sent, whatever the setting
    None

Commands == 1 .. MaxSends

ASSUME MaxSendsAssumption == MaxSends \in Nat
ASSUME WorldAssumption == World \subseteq
    [desk : {"passage", "fleet"}, sends : 0..MaxSends,
     wavers : BOOLEAN, reloads : BOOLEAN, restarts : BOOLEAN]
ASSUME ReadingAssumption == Reading \in [Note -> Nat]

\* What the doors answer, and what the desk says when none did.
Replies == {"ok", "passee", "fenetre_passee", "no_active_course", "order_not_rescheduled",
            "not_funded_for_mode", "retour_deja_ouvert", "course_non_reprogrammee",
            "custody_refused", "custody_unreachable", "unreachable", "odometer_goes_backwards"}

Fixing == [w : Window, id : Commands]
Rows   == [waiting : BOOLEAN, second : Window \cup {None}]

\* What a desk may send.
Order(act, what) == [n : Commands, act : {act}, id : Commands, what : what]
Orders == Order("fix", Window) \cup Order("home", {None}) \cup Order("note", Note \cup Moto)
              \cup Order("entrust", [moto : Commands, rider : Rider \cup {None}])

ASSUME NoneAssumption ==
    /\ None \notin Window /\ None \notin Commands /\ None \notin Rider
    /\ None \notin Replies /\ None \notin Fixing /\ None \notin Rows /\ None \notin Orders

VARIABLES
    world,      \* desk; sends; wavers, reloads, restarts: what may happen
    sent,       \* commands sent so far, the source of fresh ids
    road,       \* commands on their way to the object
    flight,     \* the command the desk waits for, or None
    answer,     \* the answer to it on its way back, or None
    past,       \* windows already over
    book,       \* the object: the course, its reschedule, its second passage
    relays,     \* sendings home waiting for custody's answer
    custody,    \* custody's file of the order, and the ids it remembers
    desk,       \* the next-passage desk's memory (FixationUi, RenvoiUi)
    rows,       \* what its last read of the board shows, or None
    fleet       \* the fleet ledger, and what the fleet desk was told

roadVars == <<sent, road, flight, answer>>
courseVars == <<past, book, relays, custody>>
vars == <<world, roadVars, courseVars, desk, rows, fleet>>

Idle == [fix |-> None, fixed |-> None, no |-> None,
         ask |-> FALSE, home |-> None, gone |-> FALSE, refused |-> None]

InFlight == {flight} \ {None}

\* A command as its desk sent it: an id of its own, or of an earlier tap.
Sent(r) == r \in Orders /\ r.n <= sent /\ r.id <= r.n

BookType == [open : BOOLEAN, passage : Window \cup {None}, fixes : SUBSET Commands,
             decided : BOOLEAN, back : BOOLEAN, over : BOOLEAN]
CustodyType == [state : {"reschedule", "return", "rejected", "ended"}, told : BOOLEAN,
                took : SUBSET Commands, refused : SUBSET Commands]
DeskType == [fix : Fixing \cup {None}, fixed : Window \cup {None},
             no : [w : Window, why : Replies] \cup {None}, ask : BOOLEAN,
             home : Commands \cup {None}, gone : BOOLEAN, refused : Replies \cup {None}]
FleetType == [holder : [Commands -> Rider \cup {None}], km : Nat,
              entries : SUBSET [what : Note \cup Moto, id : Commands],
              heard : SUBSET (Note \cup Moto)]

TypeOK ==
    /\ world \in World /\ sent \in 0..world.sends /\ past \subseteq Window
    /\ \A r \in road \cup InFlight : Sent(r)
    /\ answer \in Replies \cup {None} /\ (answer # None => flight # None)
    /\ book \in BookType /\ custody \in CustodyType /\ desk \in DeskType /\ fleet \in FleetType
    /\ \A x \in relays : /\ x = [of |-> x.of, said |-> x.said]
                         /\ Sent(x.of) /\ x.of.act = "home"
                         /\ x.said \in {None, "ok", "custody_refused"}
    /\ rows \in Rows \cup {None}
    /\ desk.fix # None => desk.fix.id <= sent
    /\ desk.home # None => desk.home <= sent

Init ==
    /\ world \in World
    /\ sent = 0 /\ road = {} /\ flight = None /\ answer = None
    /\ past = {}
    /\ book = [open |-> FALSE, passage |-> None, fixes |-> {},
               decided |-> FALSE, back |-> FALSE, over |-> FALSE]
    /\ relays = {}
    /\ custody = [state |-> "reschedule", told |-> FALSE, took |-> {}, refused |-> {}]
    /\ desk = Idle /\ rows = None
    /\ fleet = [holder |-> [v \in Commands |-> None], km |-> 0,
                entries |-> {}, heard |-> {}]

-----------------------------------------------------------------------------
(* The road: one command in flight, fifteen seconds.                       *)

Send(act, id, what) ==
    /\ flight = None /\ sent < world.sends
    /\ sent' = sent + 1
    /\ flight' = [n |-> sent + 1, act |-> act, id |-> id, what |-> what]
    /\ road' = road \cup {flight'}
    /\ answer' = None

\* The answer to r travels back only while its desk still waits for it.
Answers(r, what) ==
    answer' = IF flight = r THEN what ELSE answer

Lands(r, act) ==
    /\ r \in road /\ r.act = act
    /\ road' = road \ {r}
    /\ UNCHANGED <<world, sent, flight, past, desk, rows>>

-----------------------------------------------------------------------------
(* The object: custody's outcome, the window, the way home.                *)

\* Custody's outcome of the first passage, told until the answer is heard;
\* on record only while no second passage has moved the course on.
Reprogrammation ==
    /\ world.desk = "passage" /\ ~custody.told
    /\ book' = [book EXCEPT !.open = IF book.over \/ book.passage # None THEN @ ELSE TRUE]
    /\ \E heard \in BOOLEAN : custody' = [custody EXCEPT !.told = heard]
    /\ UNCHANGED <<world, roadVars, past, relays, desk, rows, fleet>>

FixAnswer(r) ==
    IF r.id \in book.fixes THEN {"ok"}
    ELSE IF r.what \in past THEN {"fenetre_passee"}
    ELSE IF book.over THEN {"no_active_course"}
    ELSE IF ~book.open THEN {"order_not_rescheduled"}
    ELSE {"ok", "not_funded_for_mode"}

\* A refused intake gate changes nothing.  A new fix closes the reschedule.
Reprogrammer(r) ==
    /\ Lands(r, "fix")
    /\ \E a \in FixAnswer(r) :
        /\ Answers(r, a)
        /\ book' = IF a = "ok" /\ r.id \notin book.fixes
                   THEN [book EXCEPT !.open = FALSE, !.passage = r.what, !.fixes = @ \cup {r.id}]
                   ELSE book
    /\ UNCHANGED <<relays, custody, fleet>>

HomeRefusal ==
    IF book.over THEN "no_active_course"
    ELSE IF book.decided THEN "ok"
    ELSE IF book.back THEN "retour_deja_ouvert"
    ELSE IF book.passage = None /\ ~book.open THEN "course_non_reprogrammee"
    ELSE "relayed"

\* The decision is asked of custody before this book remembers it.
RetourDecider(r) ==
    /\ Lands(r, "home")
    /\ IF HomeRefusal = "relayed"
       THEN relays' = relays \cup {[of |-> r, said |-> None]} /\ UNCHANGED answer
       ELSE Answers(r, HomeRefusal) /\ UNCHANGED relays
    /\ UNCHANGED <<book, custody, fleet>>

\* Custody judges a command once and replays its answer by id; it turns a
\* reschedule into a return, and nothing else.
ReturnApply(x) ==
    /\ x \in relays /\ x.said = None
    /\ LET id == x.of.id
           yes == id \in custody.took
                    \/ (id \notin custody.refused /\ custody.state = "reschedule")
       IN  /\ custody' =
                 IF yes THEN [custody EXCEPT !.took = @ \cup {id},
                                 !.state = IF id \in custody.took THEN @ ELSE "return"]
                 ELSE [custody EXCEPT !.refused = @ \cup {id}]
           /\ relays' = (relays \ {x}) \cup
                            {[x EXCEPT !.said = IF yes THEN "ok" ELSE "custody_refused"]}
    /\ UNCHANGED <<world, roadVars, past, book, desk, rows, fleet>>

\* Custody's answer is in: only then is the decision on this book.
Decided(x) ==
    /\ x \in relays /\ x.said # None
    /\ relays' = relays \ {x}
    /\ Answers(x.of, x.said)
    /\ book' = IF x.said = "ok"
               THEN [book EXCEPT !.decided = TRUE, !.open = FALSE] ELSE book
    /\ UNCHANGED <<world, sent, road, flight, past, custody, desk, rows, fleet>>

\* The call to custody fails, before custody acted or after.
RelayFails(x) ==
    /\ x \in relays
    /\ relays' = relays \ {x}
    /\ Answers(x.of, "custody_unreachable")
    /\ UNCHANGED <<world, sent, road, flight, past, book, custody, desk, rows, fleet>>

\* The object restarts: requests it was serving are gone, unanswered.
Restart ==
    /\ world.restarts /\ relays # {}
    /\ relays' = {}
    /\ UNCHANGED <<world, roadVars, past, book, custody, desk, rows, fleet>>

\* The rider's own return (a refusal at the second door, or the seal of a
\* decided one) reaches this book.
RetourOuvert ==
    /\ world.desk = "passage" /\ ~book.over /\ ~book.back
    /\ \/ custody.state = "return"
       \/ custody.state = "reschedule" /\ book.passage # None
    /\ custody' = [custody EXCEPT !.state = IF @ = "return" THEN @ ELSE "rejected"]
    /\ book' = [book EXCEPT !.back = TRUE, !.open = FALSE]
    /\ UNCHANGED <<world, roadVars, past, relays, desk, rows, fleet>>

\* The second passage delivers, or the return reaches the seller.
CourseOver ==
    /\ world.desk = "passage" /\ ~book.over
    /\ IF custody.state = "reschedule" THEN book.passage # None ELSE book.back
    /\ custody' = [custody EXCEPT !.state = "ended"]
    /\ book' = [book EXCEPT !.over = TRUE]
    /\ UNCHANGED <<world, roadVars, past, relays, desk, rows, fleet>>

Clock ==
    /\ world.desk = "passage"
    /\ \E w \in Window \ past : past' = past \cup {w}
    /\ UNCHANGED <<world, roadVars, book, relays, custody, desk, rows, fleet>>

-----------------------------------------------------------------------------
(* The next-passage desk.                                                  *)

AtDesk(d) == world.desk = d /\ flight = None

\* Neither list holds a course that is going home.
Waiting == book.open /\ ~book.over /\ ~(book.decided \/ book.back)
Second  == IF book.over \/ book.decided \/ book.back THEN None ELSE book.passage

RefreshReprog ==
    /\ AtDesk("passage")
    /\ rows' = [waiting |-> Waiting, second |-> Second]
    /\ UNCHANGED <<world, roadVars, courseVars, desk, fleet>>

Listed == rows # None /\ (rows.waiting \/ rows.second # None)

\* The same window tapped again is the same command; another is a new one.
\* Mutant: a tap is a new command.
FixIdFresh(w) == sent + 1
\* Mutant: the order keeps its command, whatever the window.
FixIdWhatever(w) == IF desk.fix # None THEN desk.fix.id ELSE sent + 1
FixId(w) == IF desk.fix # None /\ desk.fix.w = w THEN desk.fix.id ELSE sent + 1

\* A window already over is refused on the desk.  A founder who does not
\* waver keeps the window typed first.
FixerPassage(w) ==
    /\ AtDesk("passage") /\ rows # None /\ rows.waiting
    /\ desk.fix # None /\ ~world.wavers => desk.fix.w = w
    /\ IF w \in past
       THEN desk' = [desk EXCEPT !.no = [w |-> w, why |-> "passee"]] /\ UNCHANGED roadVars
       ELSE /\ Send("fix", FixId(w), w)
            /\ desk' = [desk EXCEPT !.no = None, !.fix = [w |-> w, id |-> FixId(w)]]
    /\ UNCHANGED <<world, courseVars, rows, fleet>>

DemanderRenvoi ==
    /\ AtDesk("passage") /\ Listed /\ ~desk.ask
    /\ desk' = [desk EXCEPT !.ask = TRUE, !.refused = None]
    /\ UNCHANGED <<world, roadVars, courseVars, rows, fleet>>

AnnulerRenvoi ==
    /\ world.desk = "passage" /\ Listed /\ desk.ask
    /\ desk' = [desk EXCEPT !.ask = FALSE]
    /\ UNCHANGED <<world, roadVars, courseVars, rows, fleet>>

\* Mutant: a tap is a new command.
HomeIdFresh == sent + 1
HomeId == IF desk.home # None THEN desk.home ELSE sent + 1

CommencerRenvoi ==
    /\ AtDesk("passage") /\ Listed /\ desk.ask
    /\ Send("home", HomeId, None)
    /\ desk' = [desk EXCEPT !.ask = FALSE, !.home = HomeId]
    /\ UNCHANGED <<world, courseVars, rows, fleet>>

\* What the desk keeps of an answer: « fait » forgets the command, and the
\* board is read again; a failure keeps it for the next tap.
FixHears(a) ==
    IF a = "ok" THEN [desk EXCEPT !.fix = None, !.fixed = flight.what]
    ELSE [desk EXCEPT !.no = [w |-> flight.what, why |-> a]]

HomeHears(a) ==
    IF a = "ok" THEN [desk EXCEPT !.ask = FALSE, !.home = None, !.gone = TRUE]
    ELSE [desk EXCEPT !.refused = a]

FleetHears(a) ==
    IF a = "ok" /\ flight.act = "note"
    THEN [fleet EXCEPT !.heard = @ \cup {flight.what}] ELSE fleet

Keeps(a) ==
    /\ flight' = None /\ answer' = None
    /\ CASE flight.act = "fix"  -> desk' = FixHears(a) /\ UNCHANGED fleet
         [] flight.act = "home" -> desk' = HomeHears(a) /\ UNCHANGED fleet
         [] OTHER               -> fleet' = FleetHears(a) /\ UNCHANGED desk
    /\ rows' = IF a = "ok" THEN None ELSE rows
    /\ UNCHANGED <<world, sent, road, courseVars>>

Hears    == flight # None /\ answer # None /\ Keeps(answer)
TimesOut == flight # None /\ Keeps("unreachable")

\* The page is loaded again: the memory of the desks is gone.
Reload ==
    /\ world.reloads /\ (flight # None \/ desk # Idle)
    /\ flight' = None /\ answer' = None /\ desk' = Idle /\ rows' = None
    /\ UNCHANGED <<world, sent, road, courseVars, fleet>>

-----------------------------------------------------------------------------
(* The fleet: its desk mints an id at each click, its ledger replays by id. *)

Vehicles == {e.id : e \in {x \in fleet.entries : x.what \in Moto}}

\* The form is kept until the act is known done.
Noter(x) ==
    /\ AtDesk("fleet") /\ x \in (Note \cup Moto) \ fleet.heard
    /\ x \in Note => Vehicles # {}
    /\ Send("note", sent + 1, x)
    /\ UNCHANGED <<world, courseVars, desk, rows, fleet>>

Confier(v, r) ==
    /\ AtDesk("fleet") /\ v \in Vehicles
    /\ Send("entrust", sent + 1, [moto |-> v, rider |-> r])
    /\ UNCHANGED <<world, courseVars, desk, rows, fleet>>

Replayed(r) == \E e \in fleet.entries : e.id = r.id

\* declareMoto, addEntry: a reading below the last one is refused.  The notes
\* are all of one moto, so there is one odometer; the desk names only motos the
\* ledger has, which keeps them for ever, and riders the registry knows.
Recorded(r) ==
    [fleet EXCEPT !.entries = @ \cup {[what |-> r.what, id |-> r.id]},
                  !.km = IF r.what \in Note THEN Reading[r.what] ELSE @]

Backwards(r) == r.what \in Note /\ ~Replayed(r) /\ Reading[r.what] < fleet.km

Entree(r) ==
    /\ Lands(r, "note")
    /\ Answers(r, IF Backwards(r) THEN "odometer_goes_backwards" ELSE "ok")
    /\ fleet' = IF Replayed(r) \/ Backwards(r) THEN fleet ELSE Recorded(r)
    /\ UNCHANGED <<book, relays, custody>>

\* Mutant: the moto the rider had stays with him.
EntrustedKeeping(v, r) == [fleet.holder EXCEPT ![v] = r]
Entrusted(v, r) ==
    [u \in Commands |-> IF u = v THEN r
                        ELSE IF r # None /\ fleet.holder[u] = r THEN None
                        ELSE fleet.holder[u]]

ConfierMoto(r) ==
    /\ Lands(r, "entrust")
    /\ Answers(r, "ok")
    /\ fleet' = [fleet EXCEPT !.holder = Entrusted(r.what.moto, r.what.rider)]
    /\ UNCHANGED <<book, relays, custody>>

-----------------------------------------------------------------------------
Next ==
    \/ Reprogrammation \/ RetourOuvert \/ CourseOver \/ Clock
    \/ \E r \in road : Reprogrammer(r) \/ RetourDecider(r) \/ Entree(r) \/ ConfierMoto(r)
    \/ \E x \in relays : ReturnApply(x) \/ Decided(x) \/ RelayFails(x)
    \/ Restart
    \/ RefreshReprog \/ DemanderRenvoi \/ AnnulerRenvoi \/ CommencerRenvoi
    \/ \E w \in Window : FixerPassage(w)
    \/ Hears \/ TimesOut \/ Reload
    \/ \E x \in Note \cup Moto : Noter(x)
    \/ \E v \in Commands, r \in Rider \cup {None} : Confier(v, r)

Spec == Init /\ [][Next]_vars

-----------------------------------------------------------------------------
\* « Passage fixé », the window the desk says: it is the window the follow-up
\* task carries to the rider's phone, whatever was tapped, lost or landed
\* late (fixationFaite; /ops/reprogrammer).
FixedIsFixed == desk.fixed # None => book.passage = desk.fixed

\* The answers that would be false: the absence never came, over a passage
\* the rider reads; custody refuses, over a return it has on record.
Says(why) == answer = None /\ answer' = why

FalseNo ==
    \/ Says("order_not_rescheduled") /\ flight.what = book.passage
    \/ Says("custody_refused") /\ custody.state = "return"

\* A founder who keeps his page and his window is never refused what his own
\* tap did: its answer lost, he taps again, and it is the same command, here
\* and in custody's memory (commencerFixation, commencerRenvoi).
NeverToldNoForItsAct == [][FalseNo => world.wavers \/ world.reloads]_vars

\* The same of any founder, as the desk's comments have it.
NeverToldNo == [][~FalseNo]_vars

\* No passage is fixed over a package custody was told to send home.
NoPassageOnAReturn ==
    [][book.passage' # book.passage => custody.state # "return"]_vars

\* « One moto per rider »: handed, taken back, handed on, a late command
\* landing between two others (confierMoto).
OneMotoPerRider ==
    \A u, v \in Vehicles : fleet.holder[u] # None /\ fleet.holder[u] = fleet.holder[v] => u = v

\* What the founder records once is once in the ledger.
RecordedOnce ==
    \A e, f \in fleet.entries : e.what = f.what => e = f
=============================================================================
