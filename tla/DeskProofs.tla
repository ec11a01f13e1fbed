----------------------------- MODULE DeskProofs -----------------------------
(***************************************************************************)
(* What Desk promises, proved for every window, moto, rider, note and      *)
(* setting, and any number of commands: the road and the object stay well  *)
(* typed; « passage fixé » is the window the rider's phone is given; a     *)
(* founder who keeps his page and his window is never refused his own act; *)
(* one moto per rider.                                                     *)
(***************************************************************************)
EXTENDS Desk, TLAPS

\* A reply is no absence.
LEMMA ReplyIsSome == \A a \in Replies : a # None
BY NoneAssumption

\* The bound of a setting.
LEMMA SendsBound ==
  ASSUME TypeOK
  PROVE  world.sends \in Nat /\ MaxSends \in Nat /\ world.sends <= MaxSends
         /\ sent \in Nat /\ sent <= world.sends /\ sent <= MaxSends
         /\ 1..sent \subseteq Commands
BY WorldAssumption, MaxSendsAssumption DEF TypeOK, Commands

\* What a command sent is.
LEMMA SentFacts ==
  ASSUME TypeOK, NEW r, Sent(r)
  PROVE  /\ r # None /\ r.n \in Commands /\ r.id \in Commands /\ r.n <= sent /\ r.id \in 1..sent
         /\ \/ r.act = "fix" /\ r.what \in Window
            \/ r.act = "home" /\ r.what = None
            \/ r.act = "note" /\ r.what \in Note \cup Moto
            \/ r.act = "entrust" /\ r.what.moto \in Commands /\ r.what.rider \in Rider \cup {None}
BY SendsBound, NoneAssumption DEF Sent, Orders, Order, Commands

\* The object's book, the desk and the ledgers are typed at the start.
LEMMA InitTyped == Init => TypeOK
<1> SUFFICES ASSUME Init PROVE TypeOK
  OBVIOUS
<1>1. world \in World /\ sent = 0 /\ world.sends \in Nat
  BY WorldAssumption, MaxSendsAssumption DEF Init
<1>2. book \in BookType /\ custody \in CustodyType /\ desk \in DeskType
  BY DEF Init, Idle, BookType, CustodyType, DeskType
<1>3. fleet \in FleetType
  BY DEF Init, FleetType
<1>4. QED
  BY <1>1, <1>2, <1>3 DEF Init, TypeOK, InFlight, Idle

\* A command sent stays one while more are sent.
LEMMA StillSent ==
  ASSUME TypeOK, sent' = sent + 1, NEW r, Sent(r)
  PROVE  Sent(r)'
<1>1. r.n \in Nat /\ sent \in Nat
  BY SentFacts, SendsBound DEF Commands
<1>2. QED
  BY <1>1 DEF Sent

\* A command sent joins the road under the next number.
LEMMA SendTyped ==
  ASSUME TypeOK, NEW act, NEW id, NEW what, Send(act, id, what), UNCHANGED world,
         id \in 1..(sent + 1),
         \/ act = "fix" /\ what \in Window
         \/ act = "home" /\ what = None
         \/ act = "note" /\ what \in Note \cup Moto
         \/ act = "entrust" /\ what \in [moto : Commands, rider : Rider \cup {None}]
  PROVE  /\ sent' \in 0..world'.sends /\ sent' = sent + 1
         /\ \A r \in (road \cup InFlight)' : Sent(r)'
         /\ answer' = None
         /\ id \in Commands
<1>1. /\ sent < world.sends /\ sent' = sent + 1 /\ road' = road \cup {flight'}
      /\ answer' = None
      /\ flight' = [n |-> sent + 1, act |-> act, id |-> id, what |-> what]
  BY DEF Send
<1>2. sent' \in 0..world.sends /\ sent' \in Commands /\ id \in Commands
  BY <1>1, SendsBound DEF Commands
<1>3. flight'.n = sent + 1 /\ flight'.act = act /\ flight'.id = id /\ flight'.what = what
  BY <1>1
<1>4. Sent(flight)'
  <2>1. flight' \in Order(act, {what})
    BY <1>1, <1>2 DEF Order
  <2>2. flight' \in Orders
    BY <2>1 DEF Orders, Order
  <2>3. QED
    BY <1>1, <1>2, <1>3, <2>2, SendsBound DEF Sent
<1>5. ASSUME NEW r \in road PROVE Sent(r)'
  BY <1>1, StillSent DEF TypeOK
<1>6. (road \cup InFlight)' \subseteq road \cup {flight'}
  BY <1>1 DEF InFlight
<1>7. \A r \in (road \cup InFlight)' : Sent(r)'
  BY <1>4, <1>5, <1>6
<1>8. QED
  BY <1>1, <1>2, <1>7

\* Commands on their way are what they were while none is sent.
LEMMA SameSent ==
  ASSUME TypeOK, UNCHANGED sent, road' \subseteq road, flight' \in {flight, None}
  PROVE  /\ \A x \in (road \cup InFlight)' : Sent(x)'
         /\ \A x \in relays : Sent(x.of)'
BY DEF TypeOK, InFlight, Sent

\* Nothing on the road moves.
LEMMA RoadAside ==
  ASSUME TypeOK, UNCHANGED <<world, roadVars>>
  PROVE  /\ world' \in World /\ sent' \in 0..world'.sends
         /\ \A x \in (road \cup InFlight)' : Sent(x)'
         /\ \A x \in relays : Sent(x.of)'
         /\ answer' \in Replies \cup {None} /\ (answer' # None => flight' # None)
BY SameSent DEF TypeOK, roadVars

\* Nothing but the road moves.
LEMMA RestAside ==
  ASSUME TypeOK, UNCHANGED <<world, past, book, relays, custody, desk, rows, fleet>>
  PROVE  /\ world' \in World /\ past' \subseteq Window /\ rows' \in Rows \cup {None}
         /\ book' \in BookType /\ custody' \in CustodyType /\ desk' \in DeskType
         /\ fleet' \in FleetType
         /\ \A x \in relays' : /\ x = [of |-> x.of, said |-> x.said] /\ x \in relays
                               /\ x.of.act = "home" /\ x.said \in {None, "ok", "custody_refused"}
BY DEF TypeOK

\* A command lands, and its desk may be answered.
LEMMA LandTyped ==
  ASSUME TypeOK, NEW r, NEW act, Lands(r, act),
         (\E a \in Replies : Answers(r, a)) \/ UNCHANGED answer
  PROVE  /\ world' \in World /\ sent' \in 0..world'.sends /\ past' \subseteq Window
         /\ \A x \in (road \cup InFlight)' : Sent(x)'
         /\ \A x \in relays : Sent(x.of)'
         /\ answer' \in Replies \cup {None} /\ (answer' # None => flight' # None)
         /\ desk' \in DeskType /\ rows' \in Rows \cup {None} /\ UNCHANGED <<desk, sent>>
<1>1. UNCHANGED <<world, sent, flight, past, desk, rows>> /\ road' \subseteq road
  BY DEF Lands
<1>2. answer' \in Replies \cup {None} /\ (answer' # None => flight' # None)
  <2>1. r # None
    BY SentFacts DEF Lands, TypeOK
  <2>2. QED
    BY <1>1, <2>1 DEF Answers, TypeOK
<1>3. QED
  BY <1>1, <1>2, SameSent DEF TypeOK

\* Every step keeps the types.
LEMMA StepTyped == TypeOK /\ [Next]_vars => TypeOK'
<1> SUFFICES ASSUME TypeOK, [Next]_vars PROVE TypeOK'
  OBVIOUS
<1>0. /\ book \in BookType /\ custody \in CustodyType /\ desk \in DeskType /\ fleet \in FleetType
      /\ \A r \in road \cup InFlight : Sent(r)
  BY DEF TypeOK
<1>1. CASE Reprogrammation
  <2>1. book' \in BookType
    BY <1>0, <1>1 DEF Reprogrammation, BookType
  <2>2. custody' \in CustodyType
    BY <1>0, <1>1 DEF Reprogrammation, CustodyType
  <2>3. QED
    BY <1>1, <2>1, <2>2, RoadAside DEF Reprogrammation, TypeOK, roadVars
<1>2. CASE RetourOuvert
  <2>1. book' \in BookType
    BY <1>0, <1>2 DEF RetourOuvert, BookType
  <2>2. custody' \in CustodyType
    BY <1>0, <1>2 DEF RetourOuvert, CustodyType
  <2>3. QED
    BY <1>2, <2>1, <2>2, RoadAside DEF RetourOuvert, TypeOK, roadVars
<1>3. CASE CourseOver
  <2>1. book' \in BookType
    BY <1>0, <1>3 DEF CourseOver, BookType
  <2>2. custody' \in CustodyType
    BY <1>0, <1>3 DEF CourseOver, CustodyType
  <2>3. QED
    BY <1>3, <2>1, <2>2, RoadAside DEF CourseOver, TypeOK, roadVars
<1>4. CASE Clock
  BY <1>4, RoadAside DEF Clock, TypeOK, roadVars
<1>5. ASSUME NEW r \in road, Reprogrammer(r) PROVE TypeOK'
  <2>1. PICK a \in FixAnswer(r) :
            /\ Answers(r, a)
            /\ book' = IF a = "ok" /\ r.id \notin book.fixes
                       THEN [book EXCEPT !.open = FALSE, !.passage = r.what,
                                         !.fixes = @ \cup {r.id}]
                       ELSE book
    BY <1>5 DEF Reprogrammer
  <2>2. a \in Replies
    BY DEF FixAnswer, Replies
  <2>3. Lands(r, "fix") /\ UNCHANGED <<relays, custody, fleet>>
    BY <1>5 DEF Reprogrammer
  <2>4. r.what \in Window /\ r.id \in Commands
    BY <1>0, <2>3, SendsBound DEF Lands, Sent, Orders, Order
  <2>5. book' \in BookType
    BY <1>0, <2>1, <2>4 DEF BookType
  <2>6. QED
    BY <2>1, <2>2, <2>3, <2>5, LandTyped DEF TypeOK
<1>6. ASSUME NEW r \in road, RetourDecider(r) PROVE TypeOK'
  <2>1. /\ Lands(r, "home") /\ UNCHANGED <<book, custody, fleet>>
        /\ IF HomeRefusal = "relayed"
           THEN relays' = relays \cup {[of |-> r, said |-> None]} /\ UNCHANGED answer
           ELSE Answers(r, HomeRefusal) /\ UNCHANGED relays
    BY <1>6 DEF RetourDecider
  <2>2. HomeRefusal # "relayed" => HomeRefusal \in Replies
    BY DEF HomeRefusal, Replies
  <2>3. r.act = "home" /\ Sent(r) /\ Sent(r)'
    BY <1>0, <2>1 DEF Lands, Sent, Orders, Order
  <2>4. \A x \in relays' : /\ x = [of |-> x.of, said |-> x.said]
                           /\ Sent(x.of)' /\ x.of.act = "home"
                           /\ x.said \in {None, "ok", "custody_refused"}
    BY <2>1, <2>2, <2>3, LandTyped DEF TypeOK
  <2>5. QED
    BY <2>1, <2>2, <2>4, LandTyped DEF TypeOK
<1>7. ASSUME NEW x \in relays, ReturnApply(x) PROVE TypeOK'
  <2> DEFINE id == x.of.id
             yes == id \in custody.took
                      \/ (id \notin custody.refused /\ custody.state = "reschedule")
             y == [x EXCEPT !.said = IF yes THEN "ok" ELSE "custody_refused"]
  <2>1. /\ custody' = IF yes THEN [custody EXCEPT !.took = @ \cup {id},
                                 !.state = IF id \in custody.took THEN @ ELSE "return"]
                      ELSE [custody EXCEPT !.refused = @ \cup {id}]
        /\ relays' = (relays \ {x}) \cup {y}
        /\ UNCHANGED <<world, roadVars, past, book, desk, rows, fleet>>
    BY <1>7 DEF ReturnApply
  <2>2. id \in Commands
    BY SendsBound DEF TypeOK, Sent, Orders, Order
  <2>3. x = [of |-> x.of, said |-> x.said] /\ x.of.act = "home"
    BY DEF TypeOK
  <2>4. y = [of |-> y.of, said |-> y.said] /\ y.of = x.of /\ y.said \in {"ok", "custody_refused"}
    BY <2>3
  <2> HIDE DEF y
  <2>5. custody' \in CustodyType
    <3> HIDE DEF id
    <3>1. QED
      BY <1>0, <2>1, <2>2 DEF CustodyType
  <2>6. \A z \in relays' : /\ z = [of |-> z.of, said |-> z.said]
                           /\ Sent(z.of)' /\ z.of.act = "home"
                           /\ z.said \in {None, "ok", "custody_refused"}
    BY <2>1, <2>3, <2>4, RoadAside DEF TypeOK
  <2>7. QED
    BY <2>1, <2>5, <2>6, RoadAside DEF TypeOK, roadVars
<1>8. ASSUME NEW x \in relays, Decided(x) \/ RelayFails(x) PROVE TypeOK'
  <2>1. PICK a \in Replies : Answers(x.of, a)
    BY <1>8, NoneAssumption DEF Decided, RelayFails, TypeOK, Replies
  <2>2. /\ relays' = relays \ {x}
        /\ UNCHANGED <<world, sent, road, flight, past, custody, desk, rows, fleet>>
    BY <1>8 DEF Decided, RelayFails
  <2>3. book' = book \/ book' = [book EXCEPT !.decided = TRUE, !.open = FALSE]
    BY <1>8 DEF Decided, RelayFails
  <2>4. book' \in BookType
    BY <1>0, <2>3 DEF BookType
  <2>5. answer' \in Replies \cup {None} /\ (answer' # None => flight' # None)
    <3>1. x.of # None
      BY SentFacts DEF TypeOK
    <3>2. QED
      BY <2>1, <2>2, <3>1 DEF Answers, TypeOK
  <2>6. QED
    BY <2>2, <2>4, <2>5, SameSent DEF TypeOK
<1>9. CASE Restart
  BY <1>9, RoadAside DEF Restart, TypeOK, roadVars
<1>10. CASE RefreshReprog
  <2>1. rows' \in Rows
    BY <1>0, <1>10 DEF RefreshReprog, Waiting, Second, Rows, BookType
  <2>2. QED
    BY <1>10, <2>1, RoadAside DEF RefreshReprog, courseVars, TypeOK, roadVars
<1>11. CASE DemanderRenvoi \/ AnnulerRenvoi
  <2>1. /\ UNCHANGED <<world, roadVars, courseVars, rows, fleet>>
        /\ \/ desk' = [desk EXCEPT !.ask = TRUE, !.refused = None]
           \/ desk' = [desk EXCEPT !.ask = FALSE]
    BY <1>11 DEF DemanderRenvoi, AnnulerRenvoi
  <2>2. desk' \in DeskType /\ desk'.fix = desk.fix /\ desk'.home = desk.home
    BY <1>0, <2>1 DEF DeskType
  <2>3. QED
    BY <2>1, <2>2, RoadAside DEF courseVars, TypeOK, roadVars
<1>12. CASE CommencerRenvoi
  <2>1. /\ Send("home", HomeId, None) /\ UNCHANGED <<world, courseVars, rows, fleet>>
        /\ desk' = [desk EXCEPT !.ask = FALSE, !.home = HomeId]
    BY <1>12 DEF CommencerRenvoi
  <2>2. HomeId \in 1..(sent + 1)
    BY <1>0, SendsBound DEF HomeId, TypeOK, Commands, DeskType
  <2>3. /\ sent' \in 0..world'.sends /\ sent' = sent + 1
        /\ \A r \in (road \cup InFlight)' : Sent(r)'
        /\ answer' = None /\ HomeId \in Commands
    BY <2>1, <2>2, SendTyped
  <2>4. desk' \in DeskType /\ desk'.fix = desk.fix /\ desk'.home = HomeId
    BY <1>0, <2>1, <2>3 DEF DeskType
  <2>5. \A x \in relays : Sent(x.of)'
    BY <2>3, StillSent DEF TypeOK
  <2>6. desk'.home <= sent' /\ (desk'.fix # None => desk'.fix.id <= sent')
    BY <1>0, <2>2, <2>3, <2>4, SendsBound DEF TypeOK, DeskType, Fixing, Commands
  <2>7. QED
    BY <2>1, <2>3, <2>4, <2>5, <2>6 DEF courseVars, TypeOK
<1>13. ASSUME NEW w \in Window, FixerPassage(w) PROVE TypeOK'
  <2>1. CASE w \in past
    <3>1. /\ UNCHANGED <<world, roadVars, courseVars, rows, fleet>>
          /\ desk' = [desk EXCEPT !.no = [w |-> w, why |-> "passee"]]
      BY <1>13, <2>1 DEF FixerPassage
    <3>2. desk' \in DeskType /\ desk'.fix = desk.fix /\ desk'.home = desk.home
      BY <1>0, <3>1 DEF DeskType, Replies
    <3>3. QED
      BY <3>1, <3>2, RoadAside DEF courseVars, TypeOK, roadVars
  <2>2. CASE w \notin past
    <3>1. /\ Send("fix", FixId(w), w) /\ UNCHANGED <<world, courseVars, rows, fleet>>
          /\ desk' = [desk EXCEPT !.no = None, !.fix = [w |-> w, id |-> FixId(w)]]
      BY <1>13, <2>2 DEF FixerPassage
    <3>2. FixId(w) \in 1..(sent + 1)
      BY <1>0, SendsBound DEF FixId, TypeOK, Commands, DeskType, Fixing
    <3>3. /\ sent' \in 0..world'.sends /\ sent' = sent + 1
          /\ \A r \in (road \cup InFlight)' : Sent(r)'
          /\ answer' = None /\ FixId(w) \in Commands
      BY <3>1, <3>2, SendTyped
    <3>4. desk' \in DeskType /\ desk'.fix.id = FixId(w) /\ desk'.home = desk.home
      BY <1>0, <3>1, <3>3 DEF DeskType, Fixing
    <3>5. \A x \in relays : Sent(x.of)'
      BY <3>3, StillSent DEF TypeOK
    <3>6. desk'.fix.id <= sent' /\ (desk'.home # None => desk'.home <= sent')
      BY <1>0, <3>2, <3>3, <3>4, SendsBound DEF TypeOK, DeskType, Commands
    <3>7. QED
      BY <3>1, <3>3, <3>4, <3>5, <3>6 DEF courseVars, TypeOK
  <2>3. QED
    BY <2>1, <2>2
<1>14. ASSUME NEW a \in Replies, flight # None, Keeps(a) PROVE TypeOK'
  <2>1. /\ flight' = None /\ answer' = None /\ UNCHANGED <<world, sent, road, courseVars>>
        /\ rows' = IF a = "ok" THEN None ELSE rows
        /\ CASE flight.act = "fix"  -> desk' = FixHears(a) /\ UNCHANGED fleet
             [] flight.act = "home" -> desk' = HomeHears(a) /\ UNCHANGED fleet
             [] OTHER               -> fleet' = FleetHears(a) /\ UNCHANGED desk
    BY <1>14 DEF Keeps
  <2>2. Sent(flight)
    BY <1>0, <1>14 DEF InFlight
  <2>3. /\ flight.act = "fix" => desk' = FixHears(a) /\ UNCHANGED fleet
        /\ flight.act = "home" => desk' = HomeHears(a) /\ UNCHANGED fleet
        /\ flight.act \in {"note", "entrust"} => fleet' = FleetHears(a) /\ UNCHANGED desk
    BY <2>1
  <2>4. flight.act = "fix" => /\ desk' \in DeskType /\ desk'.fix \in {desk.fix, None}
                              /\ desk'.home = desk.home
    <3> SUFFICES ASSUME flight.act = "fix"
                 PROVE  /\ desk' \in DeskType /\ desk'.fix \in {desk.fix, None}
                        /\ desk'.home = desk.home
      OBVIOUS
    <3>1. flight.what \in Window /\ desk' = FixHears(a)
      BY <2>2, <2>3 DEF Sent, Orders, Order
    <3>2. [w |-> flight.what, why |-> a] \in [w : Window, why : Replies]
      BY <3>1
    <3>3. CASE a = "ok"
      BY <1>0, <3>1, <3>3 DEF FixHears, DeskType
    <3>4. CASE a # "ok"
      BY <1>0, <3>1, <3>2, <3>4 DEF FixHears, DeskType
    <3>5. QED
      BY <3>3, <3>4
  <2>5. flight.act = "home" => /\ desk' \in DeskType /\ desk'.fix = desk.fix
                               /\ desk'.home \in {desk.home, None}
    BY <1>0, <2>3 DEF HomeHears, DeskType
  <2>6. flight.act \in {"note", "entrust"} => fleet' \in FleetType
    BY <1>0, <2>2, <2>3 DEF FleetHears, FleetType, Sent, Orders, Order
  <2>7. /\ desk' \in DeskType /\ fleet' \in FleetType
        /\ desk'.fix \in {desk.fix, None} /\ desk'.home \in {desk.home, None}
    BY <1>0, <2>2, <2>3, <2>4, <2>5, <2>6 DEF Sent, Orders, Order
  <2>8. QED
    BY <2>1, <2>7, SameSent DEF courseVars, TypeOK
<1>15. CASE Reload
  <2>1. Idle \in DeskType /\ Idle.fix = None /\ Idle.home = None
    BY DEF Idle, DeskType
  <2>2. QED
    BY <1>15, <2>1, SameSent DEF Reload, courseVars, TypeOK
<1>16. ASSUME NEW x \in Note \cup Moto, Noter(x) PROVE TypeOK'
  <2>1. /\ Send("note", sent + 1, x) /\ UNCHANGED <<world, courseVars, desk, rows, fleet>>
    BY <1>16 DEF Noter
  <2>2. sent + 1 \in 1..(sent + 1)
    BY SendsBound
  <2>3. /\ sent' \in 0..world'.sends /\ sent' = sent + 1
        /\ \A r \in (road \cup InFlight)' : Sent(r)'
        /\ answer' = None
    BY <2>1, <2>2, SendTyped
  <2>4. \A z \in relays : Sent(z.of)'
    BY <2>3, StillSent DEF TypeOK
  <2>5. (desk'.home # None => desk'.home <= sent') /\ (desk'.fix # None => desk'.fix.id <= sent')
    BY <1>0, <2>1, <2>3, SendsBound DEF TypeOK, DeskType, Fixing, Commands
  <2>6. UNCHANGED <<world, past, book, relays, custody, desk, rows, fleet>>
    BY <2>1 DEF courseVars
  <2>7. QED
    BY <2>3, <2>4, <2>5, <2>6, RestAside DEF TypeOK
<1>17. ASSUME NEW v \in Commands, NEW r \in Rider \cup {None}, Confier(v, r) PROVE TypeOK'
  <2> DEFINE what == [moto |-> v, rider |-> r]
  <2>1. /\ Send("entrust", sent + 1, what) /\ UNCHANGED <<world, courseVars, desk, rows, fleet>>
    BY <1>17 DEF Confier
  <2>2. sent + 1 \in 1..(sent + 1) /\ what \in [moto : Commands, rider : Rider \cup {None}]
    BY SendsBound
  <2> HIDE DEF what
  <2>3. /\ sent' \in 0..world'.sends /\ sent' = sent + 1
        /\ \A z \in (road \cup InFlight)' : Sent(z)'
        /\ answer' = None
    BY <2>1, <2>2, SendTyped
  <2>4. \A z \in relays : Sent(z.of)'
    BY <2>3, StillSent DEF TypeOK
  <2>5. (desk'.home # None => desk'.home <= sent') /\ (desk'.fix # None => desk'.fix.id <= sent')
    BY <1>0, <2>1, <2>3, SendsBound DEF TypeOK, DeskType, Fixing, Commands
  <2>6. UNCHANGED <<world, past, book, relays, custody, desk, rows, fleet>>
    BY <2>1 DEF courseVars
  <2>7. QED
    BY <2>3, <2>4, <2>5, <2>6, RestAside DEF TypeOK
<1>18. ASSUME NEW r \in road, Entree(r) PROVE TypeOK'
  <2>1. /\ Lands(r, "note") /\ UNCHANGED <<book, relays, custody>>
        /\ Answers(r, IF Backwards(r) THEN "odometer_goes_backwards" ELSE "ok")
        /\ fleet' = fleet \/ fleet' = Recorded(r)
    BY <1>18 DEF Entree
  <2>2. r.what \in Note \cup Moto /\ r.id \in Commands
    BY <1>0, <2>1, SendsBound DEF Lands, Sent, Orders, Order
  <2>3. [what |-> r.what, id |-> r.id] \in [what : Note \cup Moto, id : Commands]
    BY <2>2
  <2>4. r.what \in Note => Reading[r.what] \in Nat
    BY ReadingAssumption
  <2>5. fleet' \in FleetType
    <3>1. (IF r.what \in Note THEN Reading[r.what] ELSE fleet.km) \in Nat
      BY <1>0, <2>4 DEF FleetType
    <3>2. fleet.entries \cup {[what |-> r.what, id |-> r.id]}
              \in SUBSET [what : Note \cup Moto, id : Commands]
      BY <1>0, <2>3 DEF FleetType
    <3>3. Recorded(r) \in FleetType
      BY <1>0, <3>1, <3>2 DEF Recorded, FleetType
    <3>4. QED
      BY <1>0, <2>1, <3>3
  <2>6. \E a \in Replies : Answers(r, a)
    BY <2>1 DEF Replies
  <2>7. QED
    BY <2>1, <2>5, <2>6, LandTyped DEF TypeOK
<1>19. ASSUME NEW r \in road, ConfierMoto(r) PROVE TypeOK'
  <2>1. /\ Lands(r, "entrust") /\ UNCHANGED <<book, relays, custody>> /\ Answers(r, "ok")
        /\ fleet' = [fleet EXCEPT !.holder = Entrusted(r.what.moto, r.what.rider)]
    BY <1>19 DEF ConfierMoto
  <2>2. r.what.moto \in Commands /\ r.what.rider \in Rider \cup {None}
    BY <1>0, <2>1 DEF Lands, Sent, Orders, Order
  <2>3. Entrusted(r.what.moto, r.what.rider) \in [Commands -> Rider \cup {None}]
    BY <1>0, <2>2 DEF Entrusted, FleetType
  <2>4. fleet' \in FleetType
    BY <1>0, <2>1, <2>3 DEF FleetType
  <2>5. \E a \in Replies : Answers(r, a)
    BY <2>1 DEF Replies
  <2>6. QED
    BY <2>1, <2>4, <2>5, LandTyped DEF TypeOK
<1>20. CASE UNCHANGED vars
  BY <1>20, RoadAside DEF vars, courseVars, TypeOK, roadVars
<1>21. CASE Hears \/ TimesOut
  <2>1. flight # None /\ \E a \in Replies : Keeps(a)
    BY <1>21 DEF Hears, TimesOut, TypeOK, Replies
  <2>2. QED
    BY <2>1, <1>14
<1>22. QED
  BY <1>1, <1>2, <1>3, <1>4, <1>5, <1>6, <1>7, <1>8, <1>9, <1>10, <1>11, <1>12, <1>13, <1>15,
     <1>16, <1>17, <1>18, <1>19, <1>20, <1>21 DEF Next

\* Whatever is lost, given up, landed late or loaded again, the road, the object
\* and the desks are well typed.
THEOREM DeskTyped == Spec => []TypeOK
BY InitTyped, StepTyped, PTL DEF Spec

-----------------------------------------------------------------------------
(* The passage: which window an id stands for.                             *)

\* The commands of one kind on their way, or waited for.
Flying(act) == {r \in road \cup InFlight : r.act = act}

\* The passage is fixed once, by one of the commands the door remembers, and the
\* reschedule it answers is closed for good.
PassageInv ==
    /\ book.passage # None => ~book.open /\ book.fixes # {}
    /\ book.passage = None => book.fixes = {}
    /\ book.fixes \subseteq 1..sent

\* One id, one window: on the road, on the desk and in the door's memory.
WindowInv ==
    /\ \A r, x \in Flying("fix") : r.id = x.id => r.what = x.what
    /\ \A r \in Flying("fix") : r.id \in book.fixes => r.what = book.passage
    /\ desk.fix # None =>
           /\ \A r \in Flying("fix") : r.id = desk.fix.id => r.what = desk.fix.w
           /\ desk.fix.id \in book.fixes => desk.fix.w = book.passage

\* « Passage fixé » travels back only about the passage that was fixed.
AnswerInv == answer = "ok" /\ flight.act = "fix" => book.passage = flight.what

FixInv == TypeOK /\ PassageInv /\ WindowInv /\ AnswerInv /\ FixedIsFixed

\* What a step leaves of the passage when it is none of its business.
FixQuiet ==
    /\ Flying("fix")' \subseteq Flying("fix") /\ sent <= sent' /\ world' = world
    /\ book'.passage = book.passage /\ book'.fixes = book.fixes
    /\ desk'.fix = desk.fix /\ desk'.fixed = desk.fixed
    /\ book'.open => book.open \/ book.passage = None
    /\ answer' = "ok" /\ flight'.act = "fix" => answer = "ok" /\ flight' = flight
    /\ answer' = "order_not_rescheduled" => answer' = answer
    /\ rows' = rows \/ (rows' # None /\ rows'.waiting = Waiting)

\* The commands on their way are fewer, or what they were.
LEMMA FlyingFewer ==
  ASSUME NEW act, road' \subseteq road, flight' \in {flight, None}
  PROVE  Flying(act)' \subseteq Flying(act)
BY DEF Flying, InFlight

\* A command of another kind is sent.
LEMMA FlyingOther ==
  ASSUME TypeOK, NEW act, NEW other, NEW id, NEW what, Send(other, id, what), other # act
  PROVE  Flying(act)' \subseteq Flying(act) /\ answer' = None /\ sent <= sent'
BY SendsBound DEF Flying, InFlight, Send

\* A command is sent.
LEMMA FlyingMore ==
  ASSUME TypeOK, NEW act, NEW id, NEW what, Send(act, id, what)
  PROVE  /\ Flying(act)' \subseteq Flying(act) \cup {flight'} /\ sent' = sent + 1 /\ answer' = None
         /\ flight'.act = act /\ flight'.id = id /\ flight'.what = what
         /\ \A r \in Flying(act) : r.id \in 1..sent
<1>1. \A r \in Flying(act) : r.id \in 1..sent
  BY SentFacts DEF Flying, TypeOK
<1>2. QED
  BY <1>1 DEF Flying, InFlight, Send

\* Which steps a passage is the business of.
LEMMA FixAside ==
  ASSUME TypeOK, [Next]_vars
  PROVE  \/ \E r \in road : Reprogrammer(r)
         \/ \E w \in Window : FixerPassage(w) /\ w \notin past
         \/ Hears \/ TimesOut \/ Reload
         \/ FixQuiet
<1>0. book \in BookType /\ desk \in DeskType /\ sent \in Nat /\ answer \in Replies \cup {None}
  BY SendsBound DEF TypeOK
<1>a. ReplyIsSome
  BY ReplyIsSome
<1>1. ASSUME UNCHANGED <<world, roadVars, desk>>, rows' = rows,
             book'.passage = book.passage, book'.fixes = book.fixes,
             book'.open => book.open \/ book.passage = None
      PROVE  FixQuiet
  BY <1>0, <1>1, FlyingFewer DEF FixQuiet, roadVars
<1>2. CASE Reprogrammation \/ RetourOuvert \/ CourseOver \/ Clock \/ Restart \/ UNCHANGED vars
  <2>1. UNCHANGED <<world, roadVars, desk>> /\ rows' = rows
    BY <1>2 DEF Reprogrammation, RetourOuvert, CourseOver, Clock, Restart, vars, roadVars,
                courseVars
  <2>2. /\ book'.passage = book.passage /\ book'.fixes = book.fixes
        /\ book'.open => book.open \/ book.passage = None
    BY <1>0, <1>2 DEF Reprogrammation, RetourOuvert, CourseOver, Clock, Restart, vars, courseVars,
                      BookType
  <2>3. QED
    BY <1>1, <2>1, <2>2
<1>3. ASSUME NEW x \in relays, ReturnApply(x) PROVE FixQuiet
  BY <1>1, <1>3 DEF ReturnApply
<1>4. CASE DemanderRenvoi \/ AnnulerRenvoi \/ RefreshReprog
  <2>1. /\ UNCHANGED <<world, roadVars, courseVars>>
        /\ desk'.fix = desk.fix /\ desk'.fixed = desk.fixed
        /\ rows' = rows \/ rows' = [waiting |-> Waiting, second |-> Second]
    BY <1>0, <1>4 DEF DemanderRenvoi, AnnulerRenvoi, RefreshReprog, DeskType
  <2>2. Waiting \in BOOLEAN /\ Second \in Window \cup {None}
    BY <1>0 DEF Waiting, Second, BookType
  <2>3. rows' = rows \/ (rows' # None /\ rows'.waiting = Waiting)
    BY <2>1, <2>2, NoneAssumption DEF Rows
  <2>4. QED
    BY <1>0, <2>1, <2>3, FlyingFewer DEF FixQuiet, roadVars, courseVars
<1>5. ASSUME NEW w \in Window, FixerPassage(w), w \in past PROVE FixQuiet
  <2>1. /\ UNCHANGED <<world, roadVars, courseVars, rows>>
        /\ desk'.fix = desk.fix /\ desk'.fixed = desk.fixed
    BY <1>0, <1>5 DEF FixerPassage, DeskType
  <2>2. QED
    BY <1>0, <2>1, FlyingFewer DEF FixQuiet, roadVars, courseVars
<1>6. ASSUME NEW r \in road, NEW act, act # "fix", Lands(r, act), UNCHANGED book,
             UNCHANGED answer \/ (answer' # "order_not_rescheduled" /\ Answers(r, answer'))
      PROVE  FixQuiet
  <2>1. UNCHANGED <<world, sent, flight, past, desk, rows>> /\ road' \subseteq road /\ r.act # "fix"
    BY <1>6 DEF Lands
  <2>2. flight = r \/ answer' = answer
    BY <1>6 DEF Answers
  <2>3. QED
    BY <1>0, <1>6, <2>1, <2>2, FlyingFewer DEF FixQuiet
<1>7. ASSUME NEW r \in road, RetourDecider(r) \/ Entree(r) \/ ConfierMoto(r) PROVE FixQuiet
  <2>1. /\ UNCHANGED book /\ (Lands(r, "home") \/ Lands(r, "note") \/ Lands(r, "entrust"))
        /\ UNCHANGED answer \/ Answers(r, answer')
        /\ flight = r => answer' = answer \/ answer' \in
             {"no_active_course", "ok", "retour_deja_ouvert", "course_non_reprogrammee",
              "odometer_goes_backwards"}
    BY <1>7 DEF RetourDecider, Entree, ConfierMoto, Answers, HomeRefusal
  <2>2. UNCHANGED answer \/ (answer' # "order_not_rescheduled" /\ Answers(r, answer'))
    BY <2>1 DEF Answers
  <2>3. QED
    BY <1>6, <2>1, <2>2
<1>8. ASSUME NEW x \in relays, Decided(x) \/ RelayFails(x) PROVE FixQuiet
  <2>1. /\ UNCHANGED <<world, sent, road, flight, desk, rows>>
        /\ book'.passage = book.passage /\ book'.fixes = book.fixes /\ (book'.open => book.open)
    BY <1>0, <1>8 DEF Decided, RelayFails, BookType
  <2>2. x.of.act = "home" /\ x.said \in {None, "ok", "custody_refused"}
    BY DEF TypeOK
  <2>3. answer' = answer \/ (flight = x.of /\ answer' \in {"ok", "custody_refused",
                                                             "custody_unreachable"})
    BY <1>8, <2>2 DEF Decided, RelayFails, Answers
  <2>4. QED
    BY <1>0, <2>1, <2>2, <2>3, FlyingFewer DEF FixQuiet
<1>9. ASSUME NEW act, act # "fix", NEW id, NEW what, Send(act, id, what),
             UNCHANGED <<world, courseVars, rows>>,
             desk'.fix = desk.fix, desk'.fixed = desk.fixed
      PROVE  FixQuiet
  <2>1. Flying("fix")' \subseteq Flying("fix") /\ answer' = None /\ sent <= sent'
    BY <1>9, FlyingOther
  <2>2. None # "ok" /\ None # "order_not_rescheduled"
    BY NoneAssumption DEF Replies
  <2>3. QED
    BY <1>9, <2>1, <2>2 DEF FixQuiet, courseVars
<1>10. CASE CommencerRenvoi
  <2>1. desk'.fix = desk.fix /\ desk'.fixed = desk.fixed
    BY <1>0, <1>10 DEF CommencerRenvoi, DeskType
  <2>2. QED
    BY <1>9, <1>10, <2>1 DEF CommencerRenvoi
<1>11. ASSUME NEW x \in Note \cup Moto, Noter(x) PROVE FixQuiet
  BY <1>9, <1>11 DEF Noter
<1>12. ASSUME NEW v \in Commands, NEW r \in Rider \cup {None}, Confier(v, r) PROVE FixQuiet
  BY <1>9, <1>12 DEF Confier
<1>13. QED
  BY <1>2, <1>3, <1>4, <1>5, <1>7, <1>8, <1>10, <1>11, <1>12 DEF Next

\* The passage starts unfixed.
LEMMA FixInit == Init => FixInv
<1> SUFFICES ASSUME Init PROVE FixInv
  OBVIOUS
<1>1. TypeOK
  BY InitTyped
<1>2. Flying("fix") = {}
  BY DEF Init, Flying, InFlight
<1>3. None # "ok"
  BY NoneAssumption DEF Replies
<1>4. QED
  BY <1>1, <1>2, <1>3 DEF Init, FixInv, PassageInv, WindowInv, AnswerInv, FixedIsFixed, Idle

\* A passage lands: fixed once, under the window its id stands for.
LEMMA FixLands ==
  ASSUME FixInv, NEW r \in road, Reprogrammer(r)
  PROVE  PassageInv' /\ WindowInv' /\ AnswerInv' /\ FixedIsFixed'
<1>1. /\ book \in BookType /\ Sent(r) /\ r.act = "fix" /\ r \in Flying("fix")
      /\ UNCHANGED <<world, sent, flight, past, desk, rows>> /\ road' \subseteq road
  BY DEF Reprogrammer, Lands, FixInv, TypeOK, Flying
<1>2. r.what \in Window /\ r.what # None /\ r.id \in 1..sent
  BY <1>1, NoneAssumption, SentFacts DEF FixInv
<1>3. Flying("fix")' \subseteq Flying("fix")
  BY <1>1, FlyingFewer
<1>4. PICK a \in FixAnswer(r) :
            /\ Answers(r, a)
            /\ book' = IF a = "ok" /\ r.id \notin book.fixes
                       THEN [book EXCEPT !.open = FALSE, !.passage = r.what,
                                         !.fixes = @ \cup {r.id}]
                       ELSE book
  BY DEF Reprogrammer
<1>5. CASE a = "ok" /\ r.id \notin book.fixes
  <2>1. book.open /\ book.passage = None /\ book.fixes = {}
    BY <1>4, <1>5 DEF FixAnswer, FixInv, PassageInv
  <2>2. ~book'.open /\ book'.passage = r.what /\ book'.fixes = {r.id}
    BY <1>1, <1>4, <1>5, <2>1 DEF BookType
  <2>3. PassageInv'
    BY <1>1, <1>2, <2>2 DEF PassageInv
  <2>4. WindowInv'
    BY <1>1, <1>3, <2>2 DEF WindowInv, FixInv
  <2>5. AnswerInv'
    <3>1. flight = r \/ answer' = answer
      BY <1>4 DEF Answers
    <3>2. flight = r => book'.passage = flight.what
      BY <2>2
    <3>3. ~(answer = "ok" /\ flight.act = "fix")
      <4> SUFFICES ASSUME answer = "ok", flight.act = "fix" PROVE FALSE
        OBVIOUS
      <4>1. flight # None /\ flight.what = None
        BY <2>1, NoneAssumption DEF FixInv, AnswerInv, TypeOK, Replies
      <4>2. flight.what \in Window
        BY <4>1, SentFacts DEF FixInv, TypeOK, InFlight
      <4>3. QED
        BY <4>1, <4>2, NoneAssumption
    <3>4. QED
      BY <1>1, <3>1, <3>2, <3>3 DEF AnswerInv
  <2>6. FixedIsFixed'
    BY <1>1, <2>1 DEF FixInv, FixedIsFixed
  <2>7. QED
    BY <2>3, <2>4, <2>5, <2>6
<1>6. CASE ~(a = "ok" /\ r.id \notin book.fixes)
  <2>1. book' = book
    BY <1>4, <1>6
  <2>2. AnswerInv'
    BY <1>1, <1>4, <1>6, <2>1 DEF AnswerInv, Answers, FixInv, WindowInv
  <2>3. QED
    BY <1>1, <1>3, <2>1, <2>2 DEF FixInv, PassageInv, WindowInv, FixedIsFixed
<1>7. QED
  BY <1>5, <1>6

\* The founder taps: the id he sends is the one his desk kept for this window.
LEMMA FixTapped ==
  ASSUME FixInv, NEW w \in Window, FixerPassage(w), w \notin past
  PROVE  PassageInv' /\ WindowInv' /\ AnswerInv' /\ FixedIsFixed'
<1>1. /\ Send("fix", FixId(w), w) /\ UNCHANGED <<world, courseVars, rows, fleet>>
      /\ desk' = [desk EXCEPT !.no = None, !.fix = [w |-> w, id |-> FixId(w)]]
  BY DEF FixerPassage
<1>2. /\ Flying("fix")' \subseteq Flying("fix") \cup {flight'} /\ sent' = sent + 1
      /\ answer' = None /\ flight'.act = "fix" /\ flight'.id = FixId(w) /\ flight'.what = w
      /\ \A r \in Flying("fix") : r.id \in 1..sent
  BY <1>1, FlyingMore DEF FixInv
<1>3. desk \in DeskType /\ sent \in Nat /\ book' = book
  BY <1>1, SendsBound DEF FixInv, TypeOK, courseVars
<1>4. /\ desk'.fix # None /\ desk'.fix.w = w /\ desk'.fix.id = FixId(w) /\ desk'.fixed = desk.fixed
  <2>1. desk'.fix = [w |-> w, id |-> FixId(w)] /\ desk'.fixed = desk.fixed
    BY <1>1, <1>3 DEF DeskType
  <2>2. FixId(w) \in Commands
    BY <1>1, <1>3, SendsBound DEF FixId, FixInv, TypeOK, Commands, DeskType, Fixing, Send
  <2>3. QED
    BY <2>1, <2>2, NoneAssumption DEF Fixing
<1>5. /\ \A r \in Flying("fix") : r.id = FixId(w) => r.what = w
      /\ FixId(w) \in book.fixes => w = book.passage
  BY <1>2, <1>3 DEF FixId, FixInv, WindowInv, PassageInv
<1>6. WindowInv'
  BY <1>2, <1>3, <1>4, <1>5 DEF FixInv, WindowInv
<1>7. PassageInv' /\ AnswerInv' /\ FixedIsFixed'
  BY <1>2, <1>3, <1>4, NoneAssumption DEF FixInv, PassageInv, AnswerInv, FixedIsFixed, Replies
<1>8. QED
  BY <1>6, <1>7

\* The desk keeps an answer, or gives up, or is loaded again.
LEMMA FixHeard ==
  ASSUME FixInv, Hears \/ TimesOut \/ Reload
  PROVE  PassageInv' /\ WindowInv' /\ AnswerInv' /\ FixedIsFixed'
<1>1. /\ UNCHANGED <<world, sent, road, courseVars>> /\ flight' = None /\ answer' = None
      /\ desk \in DeskType
  BY DEF Hears, TimesOut, Reload, Keeps, FixInv, TypeOK
<1>2. desk'.fix \in {desk.fix, None} /\ (desk'.fixed # None => book.passage = desk'.fixed)
  <2>1. CASE Reload
    BY <2>1 DEF Reload, Idle
  <2>2. ASSUME NEW a, flight # None, Keeps(a), a = answer \/ a = "unreachable"
        PROVE  desk'.fix \in {desk.fix, None} /\ (desk'.fixed # None => book.passage = desk'.fixed)
    <3>1. /\ flight.act = "fix" => desk' = FixHears(a)
          /\ flight.act = "home" => desk' = HomeHears(a)
          /\ flight.act \in {"note", "entrust"} => desk' = desk
      BY <2>2 DEF Keeps
    <3>2. Sent(flight)
      BY <2>2 DEF FixInv, TypeOK, InFlight
    <3>3. desk.fixed # None => book.passage = desk.fixed
      BY DEF FixInv, FixedIsFixed
    <3>4. CASE flight.act = "fix"
      <4>1. CASE a = "ok"
        <5>1. book.passage = flight.what
          BY <2>2, <3>4, <4>1 DEF FixInv, AnswerInv
        <5>2. desk'.fix = None /\ desk'.fixed = flight.what
          BY <1>1, <3>1, <3>4, <4>1 DEF FixHears, DeskType
        <5>3. QED
          BY <5>1, <5>2
      <4>2. CASE a # "ok"
        BY <1>1, <3>1, <3>3, <3>4, <4>2 DEF FixHears, DeskType
      <4>3. QED
        BY <4>1, <4>2
    <3>5. CASE flight.act = "home"
      BY <1>1, <3>1, <3>3, <3>5 DEF HomeHears, DeskType
    <3>6. CASE flight.act \in {"note", "entrust"}
      BY <3>1, <3>3, <3>6
    <3>7. QED
      BY <3>2, <3>4, <3>5, <3>6, SentFacts DEF FixInv
  <2>3. QED
    BY <2>1, <2>2 DEF Hears, TimesOut
<1>3. Flying("fix")' \subseteq Flying("fix")
  BY <1>1, FlyingFewer
<1>4. QED
  BY <1>1, <1>2, <1>3, NoneAssumption
     DEF FixInv, PassageInv, WindowInv, AnswerInv, FixedIsFixed, courseVars, Replies

\* A step that is none of the passage's business.
LEMMA FixAsideKeeps ==
  ASSUME FixInv, TypeOK', FixQuiet
  PROVE  PassageInv' /\ WindowInv' /\ AnswerInv' /\ FixedIsFixed'
<1>1. sent \in Nat /\ sent' \in Nat
  BY SendsBound, WorldAssumption DEF FixInv, TypeOK
<1>2. WindowInv'
  BY DEF FixInv, FixQuiet, WindowInv
<1>3. PassageInv'
  BY <1>1 DEF FixInv, FixQuiet, PassageInv
<1>4. AnswerInv' /\ FixedIsFixed'
  BY DEF FixInv, FixQuiet, AnswerInv, FixedIsFixed
<1>5. QED
  BY <1>2, <1>3, <1>4

\* Every step keeps one window to an id.
LEMMA FixStep == FixInv /\ [Next]_vars => FixInv'
<1> SUFFICES ASSUME FixInv, [Next]_vars PROVE FixInv'
  OBVIOUS
<1>1. TypeOK /\ TypeOK'
  BY StepTyped DEF FixInv
<1>2. PassageInv' /\ WindowInv' /\ AnswerInv' /\ FixedIsFixed'
  BY <1>1, FixAside, FixLands, FixTapped, FixHeard, FixAsideKeeps
<1>3. QED
  BY <1>1, <1>2 DEF FixInv

\* One id stands for one window, everywhere it is written.
THEOREM FixInvariant == Spec => []FixInv
BY FixInit, FixStep, PTL DEF Spec

\* « Passage fixé » is the window the rider's phone is given.
THEOREM PassageSaidIsPassageFixed == Spec => []FixedIsFixed
<1>1. FixInv => FixedIsFixed
  BY DEF FixInv
<1>2. QED
  BY <1>1, FixInvariant, PTL

-----------------------------------------------------------------------------
(* A founder who keeps his page and his window: one command, however often  *)
(* he taps.                                                                 *)

Steadfast == ~world.wavers /\ ~world.reloads

\* Every id a passage was ever asked under and may still be heard of.
FixIds == {r.id : r \in Flying("fix")} \cup book.fixes

\* His passage is asked under one id, the one his desk keeps until the door's
\* « fait »; after it his board no longer offers the order.
SteadyFix ==
    Steadfast =>
        /\ \A i, j \in FixIds : i = j
        /\ desk.fix # None => FixIds \subseteq {desk.fix.id}
        /\ desk.fix = None /\ FixIds # {} =>
               book.passage # None /\ (rows # None => ~rows.waiting)

\* A passage lands under an id already flying.
LEMMA SteadyLands ==
  ASSUME FixInv, SteadyFix, NEW r \in road, Reprogrammer(r)
  PROVE  SteadyFix'
<1>1. /\ Sent(r) /\ r \in Flying("fix") /\ r.what # None /\ book \in BookType
      /\ UNCHANGED <<world, sent, flight, past, desk, rows>> /\ road' \subseteq road
  BY SentFacts, NoneAssumption DEF Reprogrammer, Lands, FixInv, TypeOK, Flying
<1>2. Flying("fix")' \subseteq Flying("fix")
  BY <1>1, FlyingFewer
<1>3. /\ book'.fixes \subseteq book.fixes \cup {r.id}
      /\ book'.passage = book.passage \/ book'.passage = r.what
  BY <1>1 DEF Reprogrammer, BookType
<1>4. FixIds' \subseteq FixIds
  BY <1>1, <1>2, <1>3 DEF FixIds
<1>5. QED
  BY <1>1, <1>3, <1>4 DEF SteadyFix, Steadfast

\* A steady founder taps again under the id his desk kept.
LEMMA SteadyTapped ==
  ASSUME FixInv, SteadyFix, NEW w \in Window, FixerPassage(w), w \notin past
  PROVE  SteadyFix'
<1>1. /\ Send("fix", FixId(w), w) /\ UNCHANGED <<world, courseVars, rows, fleet>>
      /\ desk' = [desk EXCEPT !.no = None, !.fix = [w |-> w, id |-> FixId(w)]]
      /\ rows # None /\ rows.waiting /\ (desk.fix # None /\ ~world.wavers => desk.fix.w = w)
  BY DEF FixerPassage
<1>2. /\ Flying("fix")' \subseteq Flying("fix") \cup {flight'} /\ flight'.id = FixId(w)
  BY <1>1, FlyingMore DEF FixInv
<1>3. desk \in DeskType /\ sent \in Nat /\ book' = book
  BY <1>1, SendsBound DEF FixInv, TypeOK, courseVars
<1>4. desk'.fix # None /\ desk'.fix.id = FixId(w)
  <2>1. desk'.fix = [w |-> w, id |-> FixId(w)]
    BY <1>1, <1>3 DEF DeskType
  <2>2. FixId(w) \in Commands
    BY <1>1, <1>3, SendsBound DEF FixId, FixInv, TypeOK, Commands, DeskType, Fixing, Send
  <2>3. QED
    BY <2>1, <2>2, NoneAssumption DEF Fixing
<1>5. FixIds' \subseteq FixIds \cup {FixId(w)}
  BY <1>2, <1>3 DEF FixIds
<1>6. Steadfast => FixIds \subseteq {FixId(w)}
  BY <1>1 DEF SteadyFix, Steadfast, FixId
<1>7. QED
  BY <1>1, <1>4, <1>5, <1>6 DEF SteadyFix, Steadfast

\* The door's « fait » forgets the command, and the board is read again.
LEMMA SteadyHeard ==
  ASSUME FixInv, SteadyFix, Hears \/ TimesOut \/ Reload
  PROVE  SteadyFix'
<1> SUFFICES ASSUME Steadfast' PROVE SteadyFix'
  BY DEF SteadyFix
<1>1. /\ UNCHANGED <<world, sent, road, courseVars>> /\ flight' = None /\ desk \in DeskType
  BY DEF Hears, TimesOut, Reload, Keeps, FixInv, TypeOK
<1>2. ~Reload /\ Steadfast /\ book' = book
  BY <1>1 DEF Reload, Steadfast, courseVars
<1>3. PICK a : flight # None /\ Keeps(a) /\ (a = answer \/ a = "unreachable")
  BY <1>2 DEF Hears, TimesOut
<1>4. FixIds' \subseteq FixIds
  BY <1>1, <1>2, FlyingFewer DEF FixIds
<1>5. Sent(flight) /\ rows' \in {rows, None}
  BY <1>3 DEF FixInv, TypeOK, InFlight, Keeps
<1>6. CASE flight.act = "fix" /\ a = "ok"
  <2>1. book.passage = flight.what /\ flight.what \in Window
    BY <1>3, <1>5, <1>6, SentFacts DEF FixInv, AnswerInv
  <2>2. rows' = None /\ desk'.fix = None
    BY <1>1, <1>3, <1>6 DEF Keeps, FixHears, DeskType
  <2>3. QED
    BY <1>2, <1>4, <2>1, <2>2, NoneAssumption DEF SteadyFix
<1>7. CASE ~(flight.act = "fix" /\ a = "ok")
  <2>1. /\ flight.act = "fix" => desk' = FixHears(a)
        /\ flight.act = "home" => desk' = HomeHears(a)
        /\ flight.act \in {"note", "entrust"} => desk' = desk
    BY <1>3 DEF Keeps
  <2>2. desk'.fix = desk.fix
    BY <1>1, <1>5, <1>7, <2>1, SentFacts DEF FixHears, HomeHears, DeskType, FixInv
  <2>3. QED
    BY <1>2, <1>4, <1>5, <2>2 DEF SteadyFix
<1>8. QED
  BY <1>6, <1>7

\* A step that is none of the passage's business.
LEMMA SteadyAside ==
  ASSUME FixInv, SteadyFix, FixQuiet
  PROVE  SteadyFix'
<1>1. FixIds' \subseteq FixIds /\ world' = world
  BY DEF FixIds, FixQuiet
<1>2. book.passage # None => ~Waiting
  BY DEF FixInv, PassageInv, Waiting
<1>3. QED
  BY <1>1, <1>2 DEF SteadyFix, Steadfast, FixQuiet

-----------------------------------------------------------------------------
(* The way home: custody judges a command once and replays its answer.      *)

HomeIds == {r.id : r \in Flying("home")} \cup {x.of.id : x \in relays}
               \cup custody.took \cup custody.refused

\* Custody answered each id one way, and a return on record has a command of
\* its own behind it.
CustodyInv ==
    /\ custody.took \cap custody.refused = {}
    /\ custody.state = "return" => custody.took # {}
    /\ \A x \in relays : /\ x.said = "ok" => x.of.id \in custody.took
                         /\ x.said = "custody_refused" => x.of.id \in custody.refused

\* « Renvoi décidé » travels back only over a decision on this book.
HomeAnswer == answer = "ok" /\ flight.act = "home" => book.decided

\* He sends his order home under one id, the one his desk keeps until the
\* door's « fait »; after it his board no longer offers the order.
SteadyHome ==
    Steadfast =>
        /\ \A i, j \in HomeIds : i = j
        /\ desk.home # None => HomeIds \subseteq {desk.home}
        /\ desk.home = None /\ HomeIds # {} =>
               book.decided /\ (rows # None => ~rows.waiting /\ rows.second = None)

HomeInv == TypeOK /\ CustodyInv /\ HomeAnswer /\ SteadyHome

\* What a step leaves of the way home when it is none of its business.
HomeQuiet ==
    /\ Flying("home")' \subseteq Flying("home") /\ relays' \subseteq relays
    /\ custody'.took = custody.took /\ custody'.refused = custody.refused
    /\ custody'.state = "return" => custody.state = "return"
    /\ desk'.home = desk.home /\ book'.decided = book.decided /\ world' = world
    /\ answer' = "ok" /\ flight'.act = "home" => answer = "ok" /\ flight' = flight
    /\ answer' = "custody_refused" => answer' = answer
    /\ \/ rows' = rows
       \/ rows' # None /\ (book.decided => ~rows'.waiting /\ rows'.second = None)

\* Which steps the way home is the business of.
LEMMA HomeAside ==
  ASSUME TypeOK, [Next]_vars
  PROVE  \/ \E r \in road : RetourDecider(r)
         \/ \E x \in relays : ReturnApply(x) \/ Decided(x)
         \/ CommencerRenvoi \/ Hears \/ TimesOut \/ Reload
         \/ HomeQuiet
<1>0. /\ book \in BookType /\ desk \in DeskType /\ custody \in CustodyType /\ sent \in Nat
      /\ answer \in Replies \cup {None} /\ None # "ok" /\ None # "custody_refused"
  BY SendsBound, NoneAssumption DEF TypeOK, Replies
<1>1. ASSUME UNCHANGED <<world, roadVars, desk, rows>>, relays' \subseteq relays,
             custody'.took = custody.took, custody'.refused = custody.refused,
             custody'.state = "return" => custody.state = "return",
             book'.decided = book.decided
      PROVE  HomeQuiet
  BY <1>0, <1>1, FlyingFewer DEF HomeQuiet, roadVars
<1>2. CASE Reprogrammation \/ RetourOuvert \/ CourseOver \/ Clock \/ Restart \/ UNCHANGED vars
  <2>1. UNCHANGED <<world, roadVars, desk, rows>> /\ relays' \subseteq relays
    BY <1>2 DEF Reprogrammation, RetourOuvert, CourseOver, Clock, Restart, vars, roadVars,
                courseVars
  <2>2. /\ custody'.took = custody.took /\ custody'.refused = custody.refused
        /\ custody'.state = "return" => custody.state = "return"
    BY <1>0, <1>2 DEF Reprogrammation, RetourOuvert, CourseOver, Clock, Restart, vars, courseVars,
                      CustodyType
  <2>3. book'.decided = book.decided
    BY <1>0, <1>2 DEF Reprogrammation, RetourOuvert, CourseOver, Clock, Restart, vars, courseVars,
                      BookType
  <2>4. QED
    BY <1>1, <2>1, <2>2, <2>3
<1>3. ASSUME NEW x \in relays, RelayFails(x) PROVE HomeQuiet
  <2>1. /\ UNCHANGED <<world, sent, road, flight, book, custody, desk, rows>>
        /\ relays' \subseteq relays
        /\ answer' \in {answer, "custody_unreachable"}
    BY <1>3 DEF RelayFails, Answers
  <2>2. QED
    BY <1>0, <2>1, FlyingFewer DEF HomeQuiet
<1>4. CASE DemanderRenvoi \/ AnnulerRenvoi \/ RefreshReprog
  <2>1. /\ UNCHANGED <<world, roadVars, courseVars>> /\ desk'.home = desk.home
        /\ rows' = rows \/ rows' = [waiting |-> Waiting, second |-> Second]
    BY <1>0, <1>4 DEF DemanderRenvoi, AnnulerRenvoi, RefreshReprog, DeskType
  <2>2. Waiting \in BOOLEAN /\ Second \in Window \cup {None}
    BY <1>0 DEF Waiting, Second, BookType
  <2>3. book.decided => ~Waiting /\ Second = None
    BY DEF Waiting, Second
  <2>4. rows' = rows \/ (rows' # None /\ (book.decided => ~rows'.waiting /\ rows'.second = None))
    BY <2>1, <2>2, <2>3, NoneAssumption DEF Rows
  <2>5. QED
    BY <1>0, <2>1, <2>4, FlyingFewer DEF HomeQuiet, roadVars, courseVars
<1>5. ASSUME NEW w \in Window, FixerPassage(w), w \in past PROVE HomeQuiet
  <2>1. UNCHANGED <<world, roadVars, courseVars, rows>> /\ desk'.home = desk.home
    BY <1>0, <1>5 DEF FixerPassage, DeskType
  <2>2. QED
    BY <1>0, <2>1, FlyingFewer DEF HomeQuiet, roadVars, courseVars
<1>6. ASSUME NEW r \in road, NEW act, act # "home", Lands(r, act), UNCHANGED <<relays, custody>>,
             book'.decided = book.decided, NEW a, a # "custody_refused", Answers(r, a)
      PROVE  HomeQuiet
  <2>1. /\ UNCHANGED <<world, sent, flight, past, desk, rows>>
        /\ road' \subseteq road /\ r.act # "home"
    BY <1>6 DEF Lands
  <2>2. (flight = r /\ answer' = a) \/ answer' = answer
    BY <1>6 DEF Answers
  <2>3. QED
    BY <1>0, <1>6, <2>1, <2>2, FlyingFewer DEF HomeQuiet
<1>7. ASSUME NEW r \in road, Reprogrammer(r) PROVE HomeQuiet
  <2>1. PICK a \in FixAnswer(r) : Answers(r, a)
    BY <1>7 DEF Reprogrammer
  <2>2. a # "custody_refused"
    BY DEF FixAnswer
  <2>3. Lands(r, "fix") /\ UNCHANGED <<relays, custody>> /\ book'.decided = book.decided
    BY <1>0, <1>7 DEF Reprogrammer, BookType
  <2>4. QED
    BY <1>6, <2>1, <2>2, <2>3
<1>8. ASSUME NEW r \in road, Entree(r) \/ ConfierMoto(r) PROVE HomeQuiet
  <2>1. /\ Lands(r, "note") \/ Lands(r, "entrust")
        /\ UNCHANGED <<book, relays, custody>>
        /\ Answers(r, "ok") \/ Answers(r, "odometer_goes_backwards")
    BY <1>8 DEF Entree, ConfierMoto
  <2>2. QED
    BY <1>6, <2>1
<1>9. ASSUME NEW act, act # "home", NEW id, NEW what, Send(act, id, what),
             UNCHANGED <<world, courseVars, rows>>, desk'.home = desk.home
      PROVE  HomeQuiet
  <2>1. Flying("home")' \subseteq Flying("home") /\ answer' = None
    BY <1>9, FlyingOther
  <2>2. QED
    BY <1>0, <1>9, <2>1 DEF HomeQuiet, courseVars
<1>10. ASSUME NEW w \in Window, FixerPassage(w), w \notin past PROVE HomeQuiet
  <2>1. /\ Send("fix", FixId(w), w) /\ UNCHANGED <<world, courseVars, rows>>
        /\ desk'.home = desk.home
    BY <1>0, <1>10 DEF FixerPassage, DeskType
  <2>2. QED
    BY <1>9, <2>1
<1>11. ASSUME NEW x \in Note \cup Moto, Noter(x) PROVE HomeQuiet
  BY <1>9, <1>11 DEF Noter
<1>12. ASSUME NEW v \in Commands, NEW r \in Rider \cup {None}, Confier(v, r) PROVE HomeQuiet
  BY <1>9, <1>12 DEF Confier
<1>13. QED
  BY <1>2, <1>3, <1>4, <1>5, <1>7, <1>8, <1>10, <1>11, <1>12 DEF Next

\* The way home starts unasked.
LEMMA HomeInit == Init => HomeInv /\ SteadyFix
<1> SUFFICES ASSUME Init PROVE HomeInv /\ SteadyFix
  OBVIOUS
<1>1. TypeOK
  BY InitTyped
<1>2. Flying("home") = {} /\ Flying("fix") = {}
  BY DEF Init, Flying, InFlight
<1>3. HomeIds = {} /\ FixIds = {}
  BY <1>2 DEF Init, HomeIds, FixIds
<1>4. None # "ok"
  BY NoneAssumption DEF Replies
<1>5. QED
  BY <1>1, <1>3, <1>4 DEF Init, HomeInv, CustodyInv, HomeAnswer, SteadyHome, SteadyFix, Idle

\* A step that is none of the way home's business.
LEMMA HomeAsideKeeps ==
  ASSUME HomeInv, HomeQuiet
  PROVE  CustodyInv' /\ HomeAnswer' /\ SteadyHome'
<1>1. HomeIds' \subseteq HomeIds
  BY DEF HomeIds, HomeQuiet
<1>2. SteadyHome'
  BY <1>1 DEF HomeInv, SteadyHome, Steadfast, HomeQuiet
<1>3. CustodyInv' /\ HomeAnswer'
  BY DEF HomeInv, HomeQuiet, CustodyInv, HomeAnswer
<1>4. QED
  BY <1>2, <1>3

\* The door is asked: refused at once, or relayed under the same id.
LEMMA HomeAsked ==
  ASSUME HomeInv, NEW r \in road, RetourDecider(r)
  PROVE  CustodyInv' /\ HomeAnswer' /\ SteadyHome'
<1>1. /\ UNCHANGED <<world, sent, flight, past, desk, rows, book, custody, fleet>>
      /\ r.act = "home" /\ road' \subseteq road /\ r \in Flying("home")
      /\ answer' = answer \/ (answer' = HomeRefusal /\ HomeRefusal # "relayed")
  BY DEF RetourDecider, Lands, Answers, Flying
<1>2. PICK x : /\ relays' \subseteq relays \cup {x} /\ x.of = r
               /\ x.said # "ok" /\ x.said # "custody_refused"
  <2> DEFINE x == [of |-> r, said |-> None]
  <2>1. relays' \subseteq relays \cup {x}
    BY DEF RetourDecider
  <2>2. x.of = r /\ x.said # "ok" /\ x.said # "custody_refused"
    BY NoneAssumption DEF Replies
  <2> HIDE DEF x
  <2>3. QED
    BY <2>1, <2>2
<1>3. HomeIds' \subseteq HomeIds
  BY <1>1, <1>2, FlyingFewer DEF HomeIds
<1>4. CustodyInv'
  BY <1>1, <1>2 DEF HomeInv, CustodyInv
<1>5. HomeAnswer'
  BY <1>1 DEF HomeInv, HomeAnswer, HomeRefusal
<1>6. SteadyHome'
  BY <1>1, <1>3 DEF HomeInv, SteadyHome, Steadfast
<1>7. QED
  BY <1>4, <1>5, <1>6

\* Custody judges a command it never judged, or replays its answer.
LEMMA HomeJudged ==
  ASSUME HomeInv, NEW x \in relays, ReturnApply(x)
  PROVE  CustodyInv' /\ HomeAnswer' /\ SteadyHome'
<1> DEFINE id == x.of.id
           yes == id \in custody.took
                    \/ (id \notin custody.refused /\ custody.state = "reschedule")
           y == [x EXCEPT !.said = IF yes THEN "ok" ELSE "custody_refused"]
<1>1. /\ custody' = IF yes THEN [custody EXCEPT !.took = @ \cup {id},
                               !.state = IF id \in custody.took THEN @ ELSE "return"]
                    ELSE [custody EXCEPT !.refused = @ \cup {id}]
      /\ relays' = (relays \ {x}) \cup {y}
      /\ UNCHANGED <<world, roadVars, past, book, desk, rows, fleet>>
  BY DEF ReturnApply
<1>2. y.of = x.of /\ y.said = IF yes THEN "ok" ELSE "custody_refused"
  <2>1. x = [of |-> x.of, said |-> x.said]
    BY DEF HomeInv, TypeOK
  <2>2. QED
    BY <2>1
<1> HIDE DEF y
<1>3. custody \in CustodyType /\ id \in HomeIds
  BY DEF HomeInv, TypeOK, HomeIds
<1>4. /\ custody'.took = IF yes THEN custody.took \cup {id} ELSE custody.took
      /\ custody'.refused = IF yes THEN custody.refused ELSE custody.refused \cup {id}
      /\ custody'.state = "return" => custody.state = "return" \/ yes
  <2> HIDE DEF id
  <2>1. QED
    BY <1>1, <1>3 DEF CustodyType
<1>5. CustodyInv'
  <2>1. custody'.took \cap custody'.refused = {}
    BY <1>4 DEF HomeInv, CustodyInv
  <2>2. custody'.state = "return" => custody'.took # {}
    BY <1>4 DEF HomeInv, CustodyInv
  <2>3. \A z \in relays' : /\ z.said = "ok" => z.of.id \in custody'.took
                           /\ z.said = "custody_refused" => z.of.id \in custody'.refused
    BY <1>1, <1>2, <1>4 DEF HomeInv, CustodyInv
  <2>4. QED
    BY <2>1, <2>2, <2>3 DEF CustodyInv
<1>6. HomeIds' \subseteq HomeIds
  <2>1. Flying("home")' = Flying("home")
    BY <1>1 DEF Flying, InFlight, roadVars
  <2>2. \A z \in relays' : z.of.id \in HomeIds
    BY <1>1, <1>2, <1>3 DEF HomeIds
  <2>3. custody'.took \subseteq HomeIds /\ custody'.refused \subseteq HomeIds
    BY <1>3, <1>4 DEF HomeIds
  <2>4. QED
    BY <2>1, <2>2, <2>3 DEF HomeIds
<1>7. HomeAnswer'
  BY <1>1 DEF HomeInv, HomeAnswer, roadVars
<1>8. SteadyHome'
  BY <1>1, <1>6 DEF HomeInv, SteadyHome, Steadfast
<1>9. QED
  BY <1>5, <1>7, <1>8

\* Custody's answer is in, and the book remembers a yes before the desk hears.
LEMMA HomeDecided ==
  ASSUME HomeInv, NEW x \in relays, Decided(x)
  PROVE  CustodyInv' /\ HomeAnswer' /\ SteadyHome'
<1>1. /\ UNCHANGED <<world, sent, road, flight, past, custody, desk, rows, fleet>>
      /\ relays' = relays \ {x} /\ answer' \in {answer, x.said}
  BY DEF Decided, Answers
<1>2. book'.decided = (book.decided \/ x.said = "ok")
  BY DEF Decided, HomeInv, TypeOK, BookType
<1>3. HomeIds' \subseteq HomeIds
  BY <1>1, FlyingFewer DEF HomeIds
<1>4. CustodyInv'
  BY <1>1 DEF HomeInv, CustodyInv
<1>5. HomeAnswer'
  BY <1>1, <1>2 DEF HomeInv, HomeAnswer
<1>6. SteadyHome'
  BY <1>1, <1>2, <1>3 DEF HomeInv, SteadyHome, Steadfast
<1>7. QED
  BY <1>4, <1>5, <1>6

\* The founder confirms: the id he sends is the one his desk kept.
LEMMA HomeTapped ==
  ASSUME HomeInv, CommencerRenvoi
  PROVE  CustodyInv' /\ HomeAnswer' /\ SteadyHome'
<1>1. /\ Send("home", HomeId, None) /\ UNCHANGED <<world, courseVars, rows, fleet>> /\ Listed
      /\ desk' = [desk EXCEPT !.ask = FALSE, !.home = HomeId]
  BY DEF CommencerRenvoi
<1>2. /\ Flying("home")' \subseteq Flying("home") \cup {flight'} /\ flight'.id = HomeId
      /\ answer' = None
  BY <1>1, FlyingMore DEF HomeInv
<1>3. desk \in DeskType /\ UNCHANGED <<book, relays, custody>>
  BY <1>1 DEF HomeInv, TypeOK, courseVars
<1>4. desk'.home = HomeId /\ HomeId # None
  <2>1. HomeId \in Commands
    BY <1>1, <1>3, SendsBound DEF HomeId, HomeInv, TypeOK, Commands, DeskType, Send
  <2>2. QED
    BY <1>1, <1>3, <2>1, NoneAssumption DEF DeskType
<1>5. HomeIds' \subseteq HomeIds \cup {HomeId}
  BY <1>2, <1>3 DEF HomeIds
<1>6. Steadfast => HomeIds \subseteq {HomeId}
  BY <1>1 DEF HomeInv, SteadyHome, Steadfast, HomeId, Listed
<1>7. SteadyHome'
  BY <1>1, <1>4, <1>5, <1>6 DEF SteadyHome, Steadfast
<1>8. CustodyInv' /\ HomeAnswer'
  BY <1>2, <1>3, NoneAssumption DEF HomeInv, CustodyInv, HomeAnswer, Replies
<1>9. QED
  BY <1>7, <1>8

\* The desk hears: « fait » only over a decision.
LEMMA HomeHeard ==
  ASSUME HomeInv, Hears \/ TimesOut \/ Reload
  PROVE  CustodyInv' /\ HomeAnswer' /\ SteadyHome'
<1>1. /\ UNCHANGED <<world, sent, road, courseVars>> /\ flight' = None /\ answer' = None
      /\ desk \in DeskType
  BY DEF Hears, TimesOut, Reload, Keeps, HomeInv, TypeOK
<1>2. CustodyInv' /\ HomeAnswer'
  BY <1>1, NoneAssumption DEF HomeInv, CustodyInv, HomeAnswer, courseVars, Replies
<1>3. SteadyHome'
  <2> SUFFICES ASSUME Steadfast' PROVE SteadyHome'
    BY DEF SteadyHome
  <2>1. ~Reload /\ Steadfast /\ UNCHANGED <<book, relays, custody>>
    BY <1>1 DEF Reload, Steadfast, courseVars
  <2>2. PICK a : flight # None /\ Keeps(a) /\ (a = answer \/ a = "unreachable")
    BY <2>1 DEF Hears, TimesOut
  <2>3. HomeIds' \subseteq HomeIds
    BY <1>1, <2>1, FlyingFewer DEF HomeIds
  <2>4. Sent(flight) /\ rows' \in {rows, None}
    BY <2>2 DEF HomeInv, TypeOK, InFlight, Keeps
  <2>5. CASE flight.act = "home" /\ a = "ok"
    <3>1. book.decided
      BY <2>2, <2>5 DEF HomeInv, HomeAnswer
    <3>2. rows' = None /\ desk'.home = None
      BY <1>1, <2>2, <2>5 DEF Keeps, HomeHears, DeskType
    <3>3. QED
      BY <2>1, <2>3, <3>1, <3>2 DEF HomeInv, SteadyHome
  <2>6. CASE ~(flight.act = "home" /\ a = "ok")
    <3>1. /\ flight.act = "fix" => desk' = FixHears(a)
          /\ flight.act = "home" => desk' = HomeHears(a)
          /\ flight.act \in {"note", "entrust"} => desk' = desk
      BY <2>2 DEF Keeps
    <3>2. desk'.home = desk.home
      BY <1>1, <2>4, <2>6, <3>1, SentFacts DEF FixHears, HomeHears, DeskType, HomeInv
    <3>3. QED
      BY <2>1, <2>3, <2>4, <3>2 DEF HomeInv, SteadyHome
  <2>7. QED
    BY <2>5, <2>6
<1>4. QED
  BY <1>2, <1>3

\* Every step keeps the way home's books.
LEMMA HomeStep == HomeInv /\ [Next]_vars => HomeInv'
<1> SUFFICES ASSUME HomeInv, [Next]_vars PROVE HomeInv'
  OBVIOUS
<1>1. TypeOK /\ TypeOK'
  BY StepTyped DEF HomeInv
<1>2. CustodyInv' /\ HomeAnswer' /\ SteadyHome'
  BY <1>1, HomeAside, HomeAsideKeeps, HomeAsked, HomeJudged, HomeDecided, HomeTapped, HomeHeard
<1>3. QED
  BY <1>1, <1>2 DEF HomeInv

\* Everything the two desks rest on.
DeskInv == FixInv /\ SteadyFix /\ HomeInv

\* Every step keeps what the two desks rest on.
LEMMA SteadyStep == DeskInv /\ [Next]_vars => DeskInv'
<1> SUFFICES ASSUME DeskInv, [Next]_vars PROVE DeskInv'
  OBVIOUS
<1>1. FixInv' /\ HomeInv' /\ TypeOK
  BY FixStep, HomeStep DEF DeskInv, FixInv
<1>2. SteadyFix'
  BY <1>1, FixAside, SteadyLands, SteadyTapped, SteadyHeard, SteadyAside DEF DeskInv
<1>3. QED
  BY <1>1, <1>2 DEF DeskInv

\* « order_not_rescheduled » over the passage he asked for: only of another id.
LEMMA NoFalseAbsence ==
  ASSUME DeskInv, [Next]_vars, Steadfast
  PROVE  ~(Says("order_not_rescheduled") /\ flight.what = book.passage)
<1> SUFFICES ASSUME Says("order_not_rescheduled"), flight.what = book.passage PROVE FALSE
  OBVIOUS
<1>1. answer = None /\ answer' = "order_not_rescheduled" /\ answer' # None /\ TypeOK
  BY NoneAssumption DEF Says, Replies, DeskInv, FixInv
<1>2. ~FixQuiet
  BY <1>1 DEF FixQuiet
<1>3. ~(Hears \/ TimesOut \/ Reload)
  BY <1>1 DEF Hears, TimesOut, Reload, Keeps
<1>4. ASSUME NEW w \in Window, FixerPassage(w), w \notin past PROVE FALSE
  BY <1>1, <1>4 DEF FixerPassage, Send
<1>5. ASSUME NEW r \in road, Reprogrammer(r) PROVE FALSE
  <2>1. PICK a \in FixAnswer(r) : Answers(r, a)
    BY <1>5 DEF Reprogrammer
  <2>2. flight = r /\ a = "order_not_rescheduled"
    BY <1>1, <2>1 DEF Answers
  <2>3. r.id \notin book.fixes
    BY <2>1, <2>2 DEF FixAnswer
  <2>4. r \in Flying("fix") /\ r.what # None
    BY <1>1, <1>5, SentFacts, NoneAssumption DEF Reprogrammer, Lands, Flying, TypeOK
  <2>5. book.fixes # {}
    BY <2>2, <2>4 DEF DeskInv, FixInv, PassageInv
  <2>6. \A i \in book.fixes : i = r.id
    BY <2>4 DEF DeskInv, SteadyFix, FixIds
  <2>7. QED
    BY <2>3, <2>5, <2>6
<1>6. QED
  BY <1>1, <1>2, <1>3, <1>4, <1>5, FixAside

\* « custody_refused » over a return custody has on record: only of another id.
LEMMA NoFalseRefusal ==
  ASSUME DeskInv, [Next]_vars, Steadfast
  PROVE  ~(Says("custody_refused") /\ custody.state = "return")
<1> SUFFICES ASSUME Says("custody_refused"), custody.state = "return" PROVE FALSE
  OBVIOUS
<1>1. answer = None /\ answer' = "custody_refused" /\ answer' # None /\ TypeOK
  BY NoneAssumption DEF Says, Replies, DeskInv, FixInv
<1>2. ~HomeQuiet
  BY <1>1 DEF HomeQuiet
<1>3. ~(Hears \/ TimesOut \/ Reload)
  BY <1>1 DEF Hears, TimesOut, Reload, Keeps
<1>4. ~CommencerRenvoi
  BY <1>1 DEF CommencerRenvoi, Send
<1>5. ASSUME NEW r \in road, RetourDecider(r) PROVE FALSE
  BY <1>1, <1>5 DEF RetourDecider, Answers, HomeRefusal
<1>6. ASSUME NEW x \in relays, ReturnApply(x) PROVE FALSE
  BY <1>1, <1>6 DEF ReturnApply, roadVars
<1>7. ASSUME NEW x \in relays, Decided(x) PROVE FALSE
  <2>1. x.said = "custody_refused"
    BY <1>1, <1>7 DEF Decided, Answers
  <2>2. x.of.id \in custody.refused /\ custody.took # {} /\ custody.took \cap custody.refused = {}
    BY <2>1 DEF DeskInv, HomeInv, CustodyInv
  <2>3. \A i \in custody.took : i = x.of.id
    BY DEF DeskInv, HomeInv, SteadyHome, HomeIds
  <2>4. QED
    BY <2>2, <2>3
<1>8. QED
  BY <1>1, <1>2, <1>3, <1>4, <1>5, <1>6, <1>7, HomeAside

\* A founder who keeps his page and his window is never refused his own act.
THEOREM NoFalseNoToASteadyFounder == Spec => NeverToldNoForItsAct
<1>1. Init => DeskInv
  BY FixInit, HomeInit DEF DeskInv
<1>2. DeskInv /\ [Next]_vars => [FalseNo => world.wavers \/ world.reloads]_vars
  BY NoFalseAbsence, NoFalseRefusal DEF FalseNo, Steadfast
<1>3. QED
  BY <1>1, <1>2, SteadyStep, PTL DEF Spec, NeverToldNoForItsAct

-----------------------------------------------------------------------------
(* The fleet: one moto per rider.                                           *)

\* Of every moto there could be, not only of those declared.
Handed == \A u, v \in Commands :
              fleet.holder[u] # None /\ fleet.holder[u] = fleet.holder[v] => u = v

\* Handing a moto to a rider takes back the one he had.
LEMMA EntrustedHands ==
  ASSUME fleet \in FleetType, Handed, NEW m \in Commands, NEW k \in Rider \cup {None}
  PROVE  LET h == Entrusted(m, k)
         IN  \A u, v \in Commands : h[u] # None /\ h[u] = h[v] => u = v
BY DEF Entrusted, Handed, FleetType

\* Every step leaves a rider with one moto at most.
LEMMA HandedStep == TypeOK /\ Handed /\ [Next]_vars => Handed'
<1> SUFFICES ASSUME TypeOK, Handed, [Next]_vars PROVE Handed'
  OBVIOUS
<1>0. fleet \in FleetType
  BY DEF TypeOK
<1>1. fleet'.holder = fleet.holder => Handed'
  BY DEF Handed
<1>2. ASSUME NEW r \in road, ConfierMoto(r) PROVE Handed'
  <2>1. /\ Sent(r) /\ r.act = "entrust"
        /\ fleet' = [fleet EXCEPT !.holder = Entrusted(r.what.moto, r.what.rider)]
    BY <1>2 DEF ConfierMoto, Lands, TypeOK
  <2>2. r.what.moto \in Commands /\ r.what.rider \in Rider \cup {None}
    BY <2>1, SentFacts
  <2>3. fleet'.holder = Entrusted(r.what.moto, r.what.rider)
    BY <1>0, <2>1 DEF FleetType
  <2>4. QED
    BY <1>0, <2>2, <2>3, EntrustedHands DEF Handed
<1>3. ASSUME NEW r \in road, Entree(r) PROVE fleet'.holder = fleet.holder
  BY <1>0, <1>3 DEF Entree, Recorded, FleetType
<1>4. ASSUME NEW a, Keeps(a) PROVE fleet'.holder = fleet.holder
  <2>1. fleet' = fleet \/ fleet' = FleetHears(a)
    BY <1>4 DEF Keeps
  <2>2. QED
    BY <1>0, <2>1 DEF FleetHears, FleetType
<1>5. CASE UNCHANGED fleet
  BY <1>1, <1>5
<1>6. QED
  BY <1>1, <1>2, <1>3, <1>4, <1>5
     DEF Next, vars, Reprogrammation, RetourOuvert, CourseOver, Clock, Reprogrammer, RetourDecider,
         ReturnApply, Decided, RelayFails, Restart, RefreshReprog, DemanderRenvoi, AnnulerRenvoi,
         CommencerRenvoi, FixerPassage, Hears, TimesOut, Reload, Noter, Confier

\* « One moto per rider », whatever command lands late.
THEOREM RiderHoldsOneMoto == Spec => []OneMotoPerRider
<1>1. Init => TypeOK /\ Handed
  BY InitTyped DEF Init, Handed
<1>2. TypeOK /\ Handed => OneMotoPerRider
  <2> SUFFICES ASSUME TypeOK, Handed PROVE OneMotoPerRider
    OBVIOUS
  <2>1. Vehicles \subseteq Commands
    BY DEF Vehicles, TypeOK, FleetType
  <2>2. QED
    BY <2>1 DEF Handed, OneMotoPerRider
<1>3. QED
  BY <1>1, <1>2, HandedStep, StepTyped, PTL DEF Spec
=============================================================================
