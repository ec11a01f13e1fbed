--------------------------- MODULE RiderRoadProofs ---------------------------
(***************************************************************************)
(* The rider's phone, proved: through every loss, repetition, delay and    *)
(* killing, of any number, the phone is never ahead of custody; and while  *)
(* the app lives, an act custody took is never answered « no ».            *)
(*                                                                         *)
(* The first rests on custody's record only growing (Grows), so that an    *)
(* answer true once is true for good: those custody remembers, those shown *)
(* and the stage computed from them.  The second is about identity.  But   *)
(* for the drop, the requests of an act on their way all carry the one id  *)
(* the phone holds (OneId), an act done has its answer under that id       *)
(* (DoneRow), and the phone changes ids only on a « wait » of its own      *)
(* (WaitRow).  The drop, whose two codes share a phase, may have two ids   *)
(* about: custody answers it from the record instead.                      *)
(***************************************************************************)
EXTENDS RiderRoad, TLAPS

\* What a stage says of a record f; True speaks of custody's.
TrueOf(s, f) ==
    CASE s = "none"                  -> TRUE
      [] s = "verification_accepted" -> f.pickup = "accepted"
      [] s = "custody_taken"         -> f.holder # "supplier"
      [] s = "departed"              -> f.departed
      [] s = "arrived"               -> f.arrived
      [] s = "valid_rejection"       -> f.rejected
      [] s = "refused_final"         -> f.ladder = "return"
      [] s = "reschedule"            -> f.ladder \in {"reschedule", "return"}
      [] s = "return_open"           -> f.ret # "none"

\* Nothing is done with a package before it leaves the supplier, and one that is
\* to go back stays with the courier until it is home.
Coherent(f) ==
    /\ f.holder = "supplier" => /\ ~f.departed /\ ~f.arrived /\ ~f.rejected
                                /\ f.ladder = "none" /\ f.ret = "none"
    /\ InReturn(f) => f.holder \in {"courier", "home"}
    /\ f.holder = "home" => InReturn(f)

\* What custody's record never takes back.
Grows(f, g) ==
    /\ f.pickup = "accepted" => g.pickup = "accepted"
    /\ f.holder # "supplier" => g.holder # "supplier"
    /\ f.departed => g.departed
    /\ f.arrived => g.arrived
    /\ f.rejected => g.rejected
    /\ f.ladder = "return" => g.ladder = "return"
    /\ f.ladder = "reschedule" => g.ladder \in {"reschedule", "return"}
    /\ f.ret # "none" => g.ret # "none"

\* What the answer a to an act says of the record.
Means(act, a, f) ==
    /\ act = "verify" /\ a = "ok" => f.pickup = "accepted"
    /\ act = "seal" /\ a = "ok" => f.holder # "supplier"
    /\ act = "depart" /\ a = "ok" => f.departed
    /\ act = "arrive" /\ a = "ok" => f.arrived
    /\ act = "inspect" /\ a = "rejected" => f.rejected
    /\ act = "expire" /\ a = "return" => f.ladder = "return"
    /\ act = "expire" /\ a = "reschedule" => f.ladder \in {"reschedule", "return"}
    /\ act = "open" /\ a = "ok" => f.ret # "none"

\* The answers that leave an act undone.
Undone == {"no", "wait"}

\* Custody at the command k: the record f becomes g, under the answer a.
Served(k, f, g, a) ==
    /\ g \in File /\ Coherent(g) /\ Grows(f, g)
    /\ a \in Said /\ Means(k[1], a, g)
    /\ a \in Undone => g = f
    /\ \A j \in Key : Done(j, g) /\ ~Done(j, f) => j = k /\ a \notin Undone

-----------------------------------------------------------------------------
(* The doors.                                                              *)

\* A key is an act with one of its contents.
LEMMA KeyShape ==
  ASSUME NEW k \in Key
  PROVE  k[1] \in Act /\ k[2] \in Content(k[1]) /\ k = <<k[1], k[2]>>
  BY DEF Key

\* The keys, one by one.
LEMMA Keys ==
  ASSUME NEW k \in Key
  PROVE  k \in {<<"verify", "conform">>, <<"verify", "gap">>, <<"seal", "as_it_is">>,
                <<"depart", "as_it_is">>, <<"arrive", "as_it_is">>,
                <<"evidence", "as_it_is">>, <<"inspect", "accept">>,
                <<"inspect", "reject">>, <<"drop", "right">>, <<"drop", "wrong">>,
                <<"refusal", "final">>, <<"refusal", "absent">>, <<"expire", "as_it_is">>,
                <<"open", "as_it_is">>, <<"handover", "as_it_is">>}
  BY KeyShape DEF Act, Content

\* A command id is a key with a number.
LEMMA IdShape ==
  ASSUME NEW id \in Id
  PROVE  /\ id[1] \in Key /\ id[2] \in 1..MaxIds /\ id = <<id[1], id[2]>>
         /\ ActOf(id) = id[1][1] /\ ActOf(id) \in Act
  BY KeyShape DEF Id, ActOf

\* The acts that a step of the record has done, and what it did to it.
LEMMA DoneNow ==
  ASSUME NEW f, NEW g, NEW j \in Key, Done(j, g), ~Done(j, f)
  PROVE  \/ j = <<"verify", "conform">> /\ g.pickup = "accepted" /\ f.pickup # "accepted"
         \/ j = <<"verify", "gap">> /\ g.pickup = "refused" /\ f.pickup # "refused"
         \/ j = <<"seal", "as_it_is">> /\ g.holder # "supplier" /\ f.holder = "supplier"
         \/ j = <<"depart", "as_it_is">> /\ g.departed /\ ~f.departed
         \/ j = <<"arrive", "as_it_is">> /\ g.arrived /\ ~f.arrived
         \/ j = <<"evidence", "as_it_is">> /\ g.evidence /\ ~f.evidence
         \/ j = <<"inspect", "accept">> /\ g.inspected /\ ~f.inspected
         \/ j = <<"inspect", "reject">> /\ g.rejected /\ ~f.rejected
         \/ j = <<"drop", "right">> /\ g.holder = "buyer" /\ f.holder # "buyer"
         \/ /\ j = <<"expire", "as_it_is">> /\ g.ladder \in {"return", "reschedule"}
            /\ f.ladder \notin {"return", "reschedule"}
         \/ j = <<"open", "as_it_is">> /\ g.ret # "none" /\ f.ret = "none"
         \/ j = <<"handover", "as_it_is">> /\ g.ret = "closed" /\ f.ret # "closed"
<1>1. CASE j[1] \in {"verify", "inspect", "drop", "refusal"}
  BY <1>1, Keys, KeyShape DEF Done
<1>2. CASE j[1] \notin {"verify", "inspect", "drop", "refusal"}
  BY <1>2, Keys, KeyShape DEF Done
<1>3. QED
  BY <1>1, <1>2

\* Custody's record answers for itself at the check of the goods,
LEMMA VerificationServes ==
  ASSUME NEW f \in File, Coherent(f), NEW c \in {"conform", "gap"}
  PROVE  Served(<<"verify", c>>, f, Verification(f, c).file, Verification(f, c).answer)
<1> DEFINE g == Verification(f, c).file
           a == Verification(f, c).answer
<1>1. \/ g = f /\ a \in {"unfit", "no"}
      \/ f.pickup = "none" /\ c = "conform" /\ a = "ok" /\ g = [f EXCEPT !.pickup = "accepted"]
      \/ f.pickup = "none" /\ c = "gap" /\ a = "unfit" /\ g = [f EXCEPT !.pickup = "refused"]
  BY DEF Verification, Says, File, InReturn
<1> HIDE DEF g, a
<1>2. g \in File
  BY <1>1 DEF File
<1>3. Coherent(g) /\ Grows(f, g)
  BY <1>1 DEF File, Coherent, Grows, InReturn
<1>4. a \in Said /\ Means(<<"verify", c>>[1], a, g) /\ (a \in Undone => g = f)
  BY <1>1 DEF File, Means, Undone, Said, Recorded, Refused, NotYet
<1>5. ASSUME NEW j \in Key, Done(j, g), ~Done(j, f)
      PROVE  j = <<"verify", c>> /\ a \notin Undone
  BY <1>1, <1>5, DoneNow DEF File, Coherent, InReturn, Undone
<1>6. QED
  BY <1>2, <1>3, <1>4, <1>5 DEF Served, g, a

\* ... when custody begins,
LEMMA BeginCustodyServes ==
  ASSUME NEW f \in File, Coherent(f)
  PROVE  Served(<<"seal", "as_it_is">>, f, BeginCustody(f).file, BeginCustody(f).answer)
<1> DEFINE g == BeginCustody(f).file
           a == BeginCustody(f).answer
<1>1. \/ g = f /\ a = "no"
      \/ f.holder = "supplier" /\ a = "ok" /\ g = [f EXCEPT !.holder = "courier"]
  BY DEF BeginCustody, Says, File, InReturn
<1> HIDE DEF g, a
<1>2. g \in File
  BY <1>1 DEF File
<1>3. Coherent(g) /\ Grows(f, g)
  BY <1>1 DEF File, Coherent, Grows, InReturn
<1>4. a \in Said /\ Means(<<"seal", "as_it_is">>[1], a, g) /\ (a \in Undone => g = f)
  BY <1>1 DEF File, Means, Undone, Said, Recorded, Refused, NotYet
<1>5. ASSUME NEW j \in Key, Done(j, g), ~Done(j, f)
      PROVE  j = <<"seal", "as_it_is">> /\ a \notin Undone
  BY <1>1, <1>5, DoneNow DEF File, Coherent, InReturn, Undone
<1>6. QED
  BY <1>2, <1>3, <1>4, <1>5 DEF Served, g, a

\* ... when it leaves,
LEMMA DepartServes ==
  ASSUME NEW f \in File, Coherent(f)
  PROVE  Served(<<"depart", "as_it_is">>, f, Depart(f).file, Depart(f).answer)
<1> DEFINE g == Depart(f).file
           a == Depart(f).answer
<1>1. \/ g = f /\ a = "ok" /\ f.departed
      \/ g = f /\ a = "no"
      \/ f.holder = "courier" /\ a = "ok" /\ g = [f EXCEPT !.departed = TRUE]
  BY DEF Depart, Says, File, InReturn
<1> HIDE DEF g, a
<1>2. g \in File
  BY <1>1 DEF File
<1>3. Coherent(g) /\ Grows(f, g)
  BY <1>1 DEF File, Coherent, Grows, InReturn
<1>4. a \in Said /\ Means(<<"depart", "as_it_is">>[1], a, g) /\ (a \in Undone => g = f)
  BY <1>1 DEF File, Means, Undone, Said, Recorded, Refused, NotYet
<1>5. ASSUME NEW j \in Key, Done(j, g), ~Done(j, f)
      PROVE  j = <<"depart", "as_it_is">> /\ a \notin Undone
  BY <1>1, <1>5, DoneNow DEF File, Coherent, InReturn, Undone
<1>6. QED
  BY <1>2, <1>3, <1>4, <1>5 DEF Served, g, a

\* ... when it arrives,
LEMMA ArriveServes ==
  ASSUME NEW f \in File, Coherent(f)
  PROVE  Served(<<"arrive", "as_it_is">>, f, Arrive(f).file, Arrive(f).answer)
<1> DEFINE g == Arrive(f).file
           a == Arrive(f).answer
<1>1. \/ g = f /\ a = "ok" /\ f.arrived
      \/ g = f /\ a = "no"
      \/ f.holder = "courier" /\ a = "ok" /\ g = [f EXCEPT !.arrived = TRUE]
  BY DEF Arrive, Says, File, InReturn
<1> HIDE DEF g, a
<1>2. g \in File
  BY <1>1 DEF File
<1>3. Coherent(g) /\ Grows(f, g)
  BY <1>1 DEF File, Coherent, Grows, InReturn
<1>4. a \in Said /\ Means(<<"arrive", "as_it_is">>[1], a, g) /\ (a \in Undone => g = f)
  BY <1>1 DEF File, Means, Undone, Said, Recorded, Refused, NotYet
<1>5. ASSUME NEW j \in Key, Done(j, g), ~Done(j, f)
      PROVE  j = <<"arrive", "as_it_is">> /\ a \notin Undone
  BY <1>1, <1>5, DoneNow DEF File, Coherent, InReturn, Undone
<1>6. QED
  BY <1>2, <1>3, <1>4, <1>5 DEF Served, g, a

\* ... at the evidence,
LEMMA EvidenceServes ==
  ASSUME NEW f \in File, Coherent(f)
  PROVE  Served(<<"evidence", "as_it_is">>, f, Evidence(f).file, Evidence(f).answer)
<1> DEFINE g == Evidence(f).file
           a == Evidence(f).answer
<1>1. \/ g = f /\ a \in {"no", "already"}
      \/ f.holder = "courier" /\ a = "ok" /\ g = [f EXCEPT !.evidence = TRUE]
  BY DEF Evidence, Says, File, InReturn
<1> HIDE DEF g, a
<1>2. g \in File
  BY <1>1 DEF File
<1>3. Coherent(g) /\ Grows(f, g)
  BY <1>1 DEF File, Coherent, Grows, InReturn
<1>4. a \in Said /\ Means(<<"evidence", "as_it_is">>[1], a, g) /\ (a \in Undone => g = f)
  BY <1>1 DEF File, Means, Undone, Said, Recorded, Refused, NotYet
<1>5. ASSUME NEW j \in Key, Done(j, g), ~Done(j, f)
      PROVE  j = <<"evidence", "as_it_is">> /\ a \notin Undone
  BY <1>1, <1>5, DoneNow DEF File, Coherent, InReturn, Undone
<1>6. QED
  BY <1>2, <1>3, <1>4, <1>5 DEF Served, g, a

\* ... at the buyer's code,
LEMMA ConfirmDropServes ==
  ASSUME NEW f \in File, Coherent(f), NEW c \in {"right", "wrong"}
  PROVE  Served(<<"drop", c>>, f, ConfirmDrop(f, c).file, ConfirmDrop(f, c).answer)
<1> DEFINE g == ConfirmDrop(f, c).file
           a == ConfirmDrop(f, c).answer
<1>1. \/ g = f /\ a \in {"ok", "no", "wait"}
      \/ /\ f.holder = "courier" /\ ~InReturn(f) /\ c = "right" /\ a = "ok"
         /\ g = [f EXCEPT !.holder = "buyer"]
  BY DEF ConfirmDrop, Says, File, InReturn
<1> HIDE DEF g, a
<1>2. g \in File
  BY <1>1 DEF File
<1>3. Coherent(g) /\ Grows(f, g)
  BY <1>1 DEF File, Coherent, Grows, InReturn
<1>4. a \in Said /\ Means(<<"drop", c>>[1], a, g) /\ (a \in Undone => g = f)
  BY <1>1 DEF File, Means, Undone, Said, Recorded, Refused, NotYet
<1>5. ASSUME NEW j \in Key, Done(j, g), ~Done(j, f)
      PROVE  j = <<"drop", c>> /\ a \notin Undone
  BY <1>1, <1>5, DoneNow DEF File, Coherent, InReturn, Undone
<1>6. QED
  BY <1>2, <1>3, <1>4, <1>5 DEF Served, g, a

\* ... at the inspection,
LEMMA DoorInspectionServes ==
  ASSUME NEW f \in File, Coherent(f), NEW c \in {"accept", "reject"}
  PROVE  Served(<<"inspect", c>>, f, DoorInspection(f, c).file, DoorInspection(f, c).answer)
<1> DEFINE g == DoorInspection(f, c).file
           a == DoorInspection(f, c).answer
<1>1. \/ g = f /\ a \in {"no", "already"}
      \/ f.holder = "courier" /\ c = "accept" /\ a = "ok" /\ g = [f EXCEPT !.inspected = TRUE]
      \/ /\ f.holder = "courier" /\ c = "reject" /\ a = "rejected"
         /\ g = [f EXCEPT !.rejected = TRUE]
  BY DEF DoorInspection, Says, File, InReturn
<1> HIDE DEF g, a
<1>2. g \in File
  BY <1>1 DEF File
<1>3. Coherent(g) /\ Grows(f, g)
  BY <1>1 DEF File, Coherent, Grows, InReturn
<1>4. a \in Said /\ Means(<<"inspect", c>>[1], a, g) /\ (a \in Undone => g = f)
  BY <1>1 DEF File, Means, Undone, Said, Recorded, Refused, NotYet
<1>5. ASSUME NEW j \in Key, Done(j, g), ~Done(j, f)
      PROVE  j = <<"inspect", c>> /\ a \notin Undone
  BY <1>1, <1>5, DoneNow DEF File, Coherent, InReturn, Undone
<1>6. QED
  BY <1>2, <1>3, <1>4, <1>5 DEF Served, g, a

\* ... when the door is refused,
LEMMA DoorRefusalServes ==
  ASSUME NEW f \in File, Coherent(f), NEW c \in {"final", "absent"}
  PROVE  Served(<<"refusal", c>>, f, DoorRefusal(f, c).file, DoorRefusal(f, c).answer)
<1> DEFINE g == DoorRefusal(f, c).file
           a == DoorRefusal(f, c).answer
<1>1. \/ g = f /\ a \in {"no", "open"}
      \/ /\ f.holder = "courier" /\ f.ladder = "none" /\ a = "ok"
         /\ g = [f EXCEPT !.ladder = "retry", !.escalates = (c = "final")]
  BY DEF DoorRefusal, Says, File, InReturn
<1> HIDE DEF g, a
<1>2. g \in File
  BY <1>1 DEF File
<1>3. Coherent(g) /\ Grows(f, g)
  BY <1>1 DEF File, Coherent, Grows, InReturn
<1>4. a \in Said /\ Means(<<"refusal", c>>[1], a, g) /\ (a \in Undone => g = f)
  BY <1>1 DEF File, Means, Undone, Said, Recorded, Refused, NotYet
<1>5. ASSUME NEW j \in Key, Done(j, g), ~Done(j, f)
      PROVE  j = <<"refusal", c>> /\ a \notin Undone
  <2>1. f # g
    BY <1>5
  <2>2. /\ g.pickup = f.pickup /\ g.holder = f.holder /\ g.ret = f.ret /\ g.ladder = "retry"
        /\ g.inspected = f.inspected /\ g.rejected = f.rejected /\ g.evidence = f.evidence
        /\ g.departed = f.departed /\ g.arrived = f.arrived
    BY <1>1, <2>1 DEF File
  <2>3. QED
    BY <1>5, <2>2, DoneNow
<1>6. QED
  BY <1>2, <1>3, <1>4, <1>5 DEF Served, g, a

\* ... when its window ends,
LEMMA DoorExpireServes ==
  ASSUME NEW f \in File, Coherent(f)
  PROVE  Served(<<"expire", "as_it_is">>, f, DoorExpire(f).file, DoorExpire(f).answer)
<1> DEFINE g == DoorExpire(f).file
           a == DoorExpire(f).answer
<1>1. \/ g = f /\ a \in {"no", "wait"}
      \/ f.ladder = "retry" /\ a = "return" /\ g = [f EXCEPT !.ladder = "return"]
      \/ f.ladder = "retry" /\ a = "reschedule" /\ g = [f EXCEPT !.ladder = "reschedule"]
  BY DEF DoorExpire, Says, File, InReturn
<1> HIDE DEF g, a
<1>2. g \in File
  BY <1>1 DEF File
<1>3. Coherent(g) /\ Grows(f, g)
  BY <1>1 DEF File, Coherent, Grows, InReturn
<1>4. a \in Said /\ Means(<<"expire", "as_it_is">>[1], a, g) /\ (a \in Undone => g = f)
  BY <1>1 DEF File, Means, Undone, Said, Recorded, Refused, NotYet
<1>5. ASSUME NEW j \in Key, Done(j, g), ~Done(j, f)
      PROVE  j = <<"expire", "as_it_is">> /\ a \notin Undone
  BY <1>1, <1>5, DoneNow DEF File, Coherent, InReturn, Undone
<1>6. QED
  BY <1>2, <1>3, <1>4, <1>5 DEF Served, g, a

\* ... when the return opens,
LEMMA OpenReturnServes ==
  ASSUME NEW f \in File, Coherent(f)
  PROVE  Served(<<"open", "as_it_is">>, f, OpenReturn(f).file, OpenReturn(f).answer)
<1> DEFINE g == OpenReturn(f).file
           a == OpenReturn(f).answer
<1>1. \/ g = f /\ a = "no"
      \/ f.holder = "courier" /\ a = "ok" /\ g = [f EXCEPT !.ret = "opened"]
  BY DEF OpenReturn, Says, File, InReturn
<1> HIDE DEF g, a
<1>2. g \in File
  BY <1>1 DEF File
<1>3. Coherent(g) /\ Grows(f, g)
  BY <1>1 DEF File, Coherent, Grows, InReturn
<1>4. a \in Said /\ Means(<<"open", "as_it_is">>[1], a, g) /\ (a \in Undone => g = f)
  BY <1>1 DEF File, Means, Undone, Said, Recorded, Refused, NotYet
<1>5. ASSUME NEW j \in Key, Done(j, g), ~Done(j, f)
      PROVE  j = <<"open", "as_it_is">> /\ a \notin Undone
  BY <1>1, <1>5, DoneNow DEF File, Coherent, InReturn, Undone
<1>6. QED
  BY <1>2, <1>3, <1>4, <1>5 DEF Served, g, a

\* ... and when it is handed back.
LEMMA HandoverServes ==
  ASSUME NEW f \in File, Coherent(f)
  PROVE  Served(<<"handover", "as_it_is">>, f, Handover(f).file, Handover(f).answer)
<1> DEFINE g == Handover(f).file
           a == Handover(f).answer
<1>1. \/ g = f /\ a \in {"no", "wait"}
      \/ f.ret = "opened" /\ a = "ok" /\ g = [f EXCEPT !.ret = "closed", !.holder = "home"]
  BY DEF Handover, Says, File, InReturn
<1> HIDE DEF g, a
<1>2. g \in File
  BY <1>1 DEF File
<1>3. Coherent(g) /\ Grows(f, g)
  BY <1>1 DEF File, Coherent, Grows, InReturn
<1>4. a \in Said /\ Means(<<"handover", "as_it_is">>[1], a, g) /\ (a \in Undone => g = f)
  BY <1>1 DEF File, Means, Undone, Said, Recorded, Refused, NotYet
<1>5. ASSUME NEW j \in Key, Done(j, g), ~Done(j, f)
      PROVE  j = <<"handover", "as_it_is">> /\ a \notin Undone
  <2>1. f # g
    BY <1>5
  <2>2. a = "ok" /\ f.ret = "opened" /\ f.holder # "supplier"
    BY <1>1, <2>1 DEF Coherent
  <2>3. /\ g.pickup = f.pickup /\ g.holder = "home" /\ g.ladder = f.ladder
        /\ g.inspected = f.inspected /\ g.rejected = f.rejected /\ g.evidence = f.evidence
        /\ g.departed = f.departed /\ g.arrived = f.arrived
    BY <1>1, <2>1 DEF File
  <2>4. QED
    BY <1>5, <2>2, <2>3, DoneNow DEF Undone
<1>6. QED
  BY <1>2, <1>3, <1>4, <1>5 DEF Served, g, a

\* Custody answers every command so.
LEMMA CustodyServes ==
  ASSUME NEW f \in File, Coherent(f), NEW k \in Key
  PROVE  Served(k, f, Custody(f, k).file, Custody(f, k).answer)
<1>0. k[1] \in Act /\ k[2] \in Content(k[1]) /\ k = <<k[1], k[2]>>
  BY KeyShape
<1>1. CASE k[1] = "verify"
  BY <1>0, <1>1, VerificationServes DEF Custody, Content
<1>2. CASE k[1] = "seal"
  BY <1>0, <1>2, BeginCustodyServes DEF Custody, Content
<1>3. CASE k[1] = "depart"
  BY <1>0, <1>3, DepartServes DEF Custody, Content
<1>4. CASE k[1] = "arrive"
  BY <1>0, <1>4, ArriveServes DEF Custody, Content
<1>5. CASE k[1] = "evidence"
  BY <1>0, <1>5, EvidenceServes DEF Custody, Content
<1>6. CASE k[1] = "inspect"
  BY <1>0, <1>6, DoorInspectionServes DEF Custody, Content
<1>7. CASE k[1] = "drop"
  BY <1>0, <1>7, ConfirmDropServes DEF Custody, Content
<1>8. CASE k[1] = "refusal"
  BY <1>0, <1>8, DoorRefusalServes DEF Custody, Content
<1>9. CASE k[1] = "expire"
  BY <1>0, <1>9, DoorExpireServes DEF Custody, Content
<1>10. CASE k[1] = "open"
  BY <1>0, <1>10, OpenReturnServes DEF Custody, Content
<1>11. CASE k[1] = "handover"
  BY <1>0, <1>11, HandoverServes DEF Custody, Content
<1>12. QED
  BY <1>0, <1>1, <1>2, <1>3, <1>4, <1>5, <1>6, <1>7, <1>8, <1>9, <1>10, <1>11 DEF Act

\* The automatic decision changes nothing an act leaves behind.
LEMMA AutoDecideServes ==
  ASSUME NEW f \in File, NEW g, NEW k, NEW a, Served(k, f, g, a), a \notin Undone
  PROVE  Served(k, f, AutoDecide(g), a)
<1> DEFINE h == AutoDecide(g)
<1>1. g \in File /\ Coherent(g) /\ Grows(f, g) /\ a \in Said /\ Means(k[1], a, g)
  BY DEF Served
<1>2. h \in File
  BY <1>1 DEF AutoDecide, File
<1>3. /\ h.pickup = g.pickup /\ h.holder = g.holder /\ h.ret = g.ret /\ h.ladder = g.ladder
      /\ h.inspected = g.inspected /\ h.rejected = g.rejected /\ h.evidence = g.evidence
      /\ h.departed = g.departed /\ h.arrived = g.arrived
  BY <1>1 DEF AutoDecide, File
<1> HIDE DEF h
<1>4. Coherent(h) /\ Grows(f, h) /\ Means(k[1], a, h)
  BY <1>1, <1>3 DEF Coherent, InReturn, Grows, Means
<1>5. ASSUME NEW j \in Key, Done(j, h), ~Done(j, g)
      PROVE  FALSE
  BY <1>3, <1>5, DoneNow
<1>6. QED
  BY <1>1, <1>2, <1>4, <1>5 DEF Served, h

\* A drop given its right code is never answered « no » once done, and where it
\* is, on a package that has left the supplier, the package goes back.
LEMMA RightDropRefused ==
  ASSUME NEW f \in File, Coherent(f), Custody(f, <<"drop", "right">>).answer = "no"
  PROVE  f.holder # "buyer" /\ (f.holder # "supplier" => InReturn(f))
<1>1. ConfirmDrop(f, "right").answer = "no"
  BY DEF Custody
<1>2. f.holder # "buyer"
  BY <1>1 DEF ConfirmDrop, Says
<1>3. ASSUME f.holder = "courier", ~InReturn(f)
      PROVE  FALSE
  <2>1. CASE ~f.decided
    BY <1>1, <1>3, <2>1 DEF ConfirmDrop, Says
  <2>2. CASE f.decided /\ world.mode = "door" /\ ~(f.inspected /\ f.paid)
    BY <1>1, <1>3, <2>2 DEF ConfirmDrop, Says
  <2>3. CASE f.decided /\ ~(world.mode = "door" /\ ~(f.inspected /\ f.paid))
    BY <1>1, <1>3, <2>3 DEF ConfirmDrop, Says
  <2>4. QED
    BY <2>1, <2>2, <2>3
<1>4. QED
  BY <1>2, <1>3 DEF Coherent, File

\* A departure or an arrival on record is never answered « no ».
LEMMA RoadRefused ==
  ASSUME NEW f \in File, NEW k \in Key, k[1] \in {"depart", "arrive"},
         Custody(f, k).answer = "no"
  PROVE  ~Done(k, f)
<1>1. CASE k[1] = "depart"
  BY <1>1, Keys DEF Custody, Depart, Says, Done
<1>2. CASE k[1] = "arrive"
  BY <1>2, Keys DEF Custody, Arrive, Says, Done
<1>3. QED
  BY <1>1, <1>2

-----------------------------------------------------------------------------
(* What is true stays true.                                                *)

\* An answer stays true of a record that grows,
LEMMA MeansGrows ==
  ASSUME NEW f, NEW g, NEW act, NEW a, Grows(f, g), Means(act, a, f)
  PROVE  Means(act, a, g)
  BY DEF Grows, Means

\* ... and so does a stage.
LEMMA StageGrows ==
  ASSUME NEW f, NEW g, NEW s \in Stages, Grows(f, g), TrueOf(s, f)
  PROVE  TrueOf(s, g)
  BY DEF Grows, TrueOf, Stages

\* The stage of true answers is true.
LEMMA StageIsTrue ==
  ASSUME NEW p, NEW f, \A act \in Act : Means(act, p[act], f)
  PROVE  Stage(p) \in Stages /\ TrueOf(Stage(p), f)
<1>1. \A act \in {"open", "expire", "inspect", "arrive", "depart", "seal", "verify"} :
          Means(act, p[act], f)
  BY DEF Act
<1>2. QED
  BY <1>1 DEF Stage, Stages, TrueOf, Means

\* The rows kept are rows.
LEMMA KeptRows ==
  ASSUME NEW rows, NEW h, NEW n
  PROVE  /\ Kept(rows, h, n) \subseteq rows
         /\ \A r \in rows : r.id \in n \/ h[r.id[1]] = r.id[2] => r \in Kept(rows, h, n)
         /\ \A r \in Kept(rows, h, n) : r.id \in n \/ h[r.id[1]] = r.id[2]
  BY DEF Kept

\* All that custody has answered, and all that the phone shows and remembers, is
\* true of custody's record.
Truthful ==
    /\ TypeOK
    /\ Coherent(file)
    /\ \A r \in log : Means(ActOf(r.id), r.answer, file)
    /\ \A act \in Act : Means(act, phase[act], file)
    /\ TrueOf(remembered, file)
    /\ disk.course = course => TrueOf(disk.stage, file)

-----------------------------------------------------------------------------
(* Requests and answers.                                                   *)

\* A command is answered from the log, or by custody.
LEMMA AnswerIs ==
  ASSUME TypeOK, NEW id \in Id
  PROVE  \/ \E r \in log : r.id = id /\ Answer(id) = Says(file, r.answer)
         \/ (\A r \in log : r.id # id) /\ Answer(id) = Custody(file, id[1])
<1>1. CASE \E r \in log : r.id = id
  <2> DEFINE r == CHOOSE r \in log : r.id = id
  <2>1. r \in log /\ r.id = id
    BY <1>1
  <2>2. Answer(id) = Says(file, r.answer)
    BY <1>1 DEF Answer
  <2>3. QED
    BY <2>1, <2>2
<1>2. CASE ~ \E r \in log : r.id = id
  BY <1>2 DEF Answer
<1>3. QED
  BY <1>1, <1>2

\* Whichever it is, the answer is true.
LEMMA AnswerServes ==
  ASSUME Truthful, NEW id \in Id
  PROVE  Served(id[1], file, Answer(id).file, Answer(id).answer)
<1>1. CASE \E r \in log : r.id = id /\ Answer(id) = Says(file, r.answer)
  <2>1. PICK r \in log : r.id = id /\ Answer(id) = Says(file, r.answer)
    BY <1>1
  <2>2. Answer(id).file = file /\ Answer(id).answer = r.answer
    BY <2>1 DEF Says
  <2>3. r.answer \in Said /\ Means(ActOf(id), r.answer, file)
    BY <2>1 DEF Truthful, TypeOK
  <2>4. ActOf(id) = id[1][1] /\ file \in File /\ Coherent(file)
    BY IdShape DEF Truthful, TypeOK
  <2>5. Grows(file, file)
    BY <2>4 DEF Grows
  <2>6. QED
    BY <2>2, <2>3, <2>4, <2>5 DEF Served
<1>2. CASE Answer(id) = Custody(file, id[1])
  BY <1>2, CustodyServes, IdShape DEF Truthful, TypeOK
<1>3. QED
  BY <1>1, <1>2, AnswerIs DEF Truthful

\* What the phone does with an answer.
LEMMA HearsIs ==
  ASSUME TypeOK, NEW id \in Id, NEW a \in Shown, Hears(id, a)
  PROVE  /\ phase' \in [Act -> {"idle", "working"} \cup Shown]
         /\ awaits' = awaits \ {id}
         /\ \/ phase' = phase /\ remembered' = remembered
            \/ /\ id \in awaits /\ phase' = [phase EXCEPT ![ActOf(id)] = a]
               /\ remembered' = remembered \/ remembered' = Stage(phase')
<1>1. ActOf(id) \in Act
  BY IdShape
<1>2. CASE id \in awaits
  BY <1>1, <1>2 DEF Hears, Shows, Remember, TypeOK
<1>3. CASE id \notin awaits
  BY <1>3 DEF Hears, TypeOK
<1>4. QED
  BY <1>2, <1>3

\* The phone's half of an answer that is true of the record.
LEMMA HearsTrue ==
  ASSUME Truthful, NEW id \in Id, NEW a \in Shown, Hears(id, a),
         Grows(file, file'), Means(ActOf(id), a, file')
  PROVE  /\ phase' \in [Act -> {"idle", "working"} \cup Shown]
         /\ awaits' \subseteq Id
         /\ \A act \in Act : Means(act, phase'[act], file')
         /\ remembered' \in Stages /\ TrueOf(remembered', file')
<1>1. /\ phase' \in [Act -> {"idle", "working"} \cup Shown]
      /\ awaits' = awaits \ {id}
      /\ \/ phase' = phase /\ remembered' = remembered
         \/ /\ id \in awaits /\ phase' = [phase EXCEPT ![ActOf(id)] = a]
            /\ remembered' = remembered \/ remembered' = Stage(phase')
  BY HearsIs DEF Truthful
<1>2. \A act \in Act : Means(act, phase[act], file')
  BY MeansGrows DEF Truthful
<1>3. \A act \in Act : Means(act, phase'[act], file')
  BY <1>1, <1>2 DEF Truthful, TypeOK
<1>4. remembered \in Stages /\ TrueOf(remembered, file')
  BY StageGrows DEF Truthful, TypeOK
<1>5. Stage(phase') \in Stages /\ TrueOf(Stage(phase'), file')
  BY <1>3, StageIsTrue
<1>6. awaits' \subseteq Id
  BY <1>1 DEF Truthful, TypeOK
<1>7. QED
  BY <1>1, <1>3, <1>4, <1>5, <1>6

\* A fault counted is within its bound.
LEMMA FaultCounts ==
  ASSUME TypeOK, Fault
  PROVE  faults' \in 0..world.faults
<1>1. world.faults \in Nat
  BY WorldsAssumption DEF TypeOK
<1>2. QED
  BY <1>1 DEF TypeOK, Fault

\* What custody makes of a request, its log and its record.
LEMMA HandleServes ==
  ASSUME Truthful, NEW id \in Id, NEW arrives, Handle(id, arrives)
  PROVE  /\ Served(id[1], file, file', Answer(id).answer)
         /\ \A r \in log' : r \in log \/ r = [id |-> id, answer |-> Answer(id).answer]
<1>1. Served(id[1], file, Answer(id).file, Answer(id).answer)
  BY AnswerServes
<1>2. Served(id[1], file, file', Answer(id).answer)
  <2>1. CASE ActOf(id) = "evidence" /\ Answer(id).answer = "ok"
    <3>1. file' = AutoDecide(Answer(id).file)
      BY <2>1 DEF Handle
    <3>2. Answer(id).answer \notin Undone /\ file \in File
      BY <2>1 DEF Undone, Truthful, TypeOK
    <3>3. QED
      BY <1>1, <3>1, <3>2, AutoDecideServes
  <2>2. CASE ~(ActOf(id) = "evidence" /\ Answer(id).answer = "ok")
    BY <1>1, <2>2 DEF Handle
  <2>3. QED
    BY <2>1, <2>2
<1>3. \A r \in log' : r \in log \/ r = [id |-> id, answer |-> Answer(id).answer]
  BY KeptRows DEF Handle
<1>4. QED
  BY <1>2, <1>3

\* A log of true answers, when the record grows and one true row is added.
LEMMA LogTrue ==
  ASSUME Truthful, NEW id \in Id, NEW a, Served(id[1], file, file', a),
         \A r \in log' : r \in log \/ r = [id |-> id, answer |-> a]
  PROVE  /\ log' \subseteq [id : Id, answer : Said]
         /\ \A r \in log' : Means(ActOf(r.id), r.answer, file')
<1>1. Grows(file, file') /\ a \in Said /\ Means(ActOf(id), a, file')
  BY IdShape DEF Served
<1>2. log' \subseteq [id : Id, answer : Said]
  BY <1>1 DEF Truthful, TypeOK
<1>3. ASSUME NEW r \in log'
      PROVE  Means(ActOf(r.id), r.answer, file')
  <2>1. CASE r \in log
    BY <1>1, <2>1, MeansGrows DEF Truthful
  <2>2. CASE r = [id |-> id, answer |-> a]
    BY <1>1, <2>2
  <2>3. QED
    BY <2>1, <2>2
<1>4. QED
  BY <1>2, <1>3

\* What the disk says stays true of a record that grows.
LEMMA DiskTrue ==
  ASSUME Truthful, Grows(file, file'), disk' = disk, course' = course
  PROVE  disk'.course = course' => TrueOf(disk'.stage, file')
<1>1. disk.stage \in Stages
  BY DEF Truthful, TypeOK
<1>2. QED
  BY <1>1, StageGrows DEF Truthful

\* A request handled.
LEMMA HandleTruthful ==
  ASSUME Truthful, NEW id \in net, NEW arrives \in BOOLEAN, Handle(id, arrives)
  PROVE  Truthful'
<1>0. id \in Id
  BY DEF Truthful, TypeOK
<1>1. /\ Served(id[1], file, file', Answer(id).answer)
      /\ \A r \in log' : r \in log \/ r = [id |-> id, answer |-> Answer(id).answer]
  BY <1>0, HandleServes
<1>2. /\ log' \subseteq [id : Id, answer : Said]
      /\ \A r \in log' : Means(ActOf(r.id), r.answer, file')
  BY <1>0, <1>1, LogTrue
<1>3. /\ file' \in File /\ Coherent(file') /\ Grows(file, file')
      /\ Answer(id).answer \in Said /\ Means(ActOf(id), Answer(id).answer, file')
  BY <1>0, <1>1, IdShape DEF Served
<1>4. \E a \in Shown : Hears(id, a) /\ Means(ActOf(id), a, file')
  <2>1. CASE arrives
    BY <1>3, <2>1 DEF Handle, Shown
  <2>2. CASE ~arrives
    <3>1. Hears(id, "unreachable")
      BY <2>2 DEF Handle
    <3>2. "unreachable" \in Shown /\ Means(ActOf(id), "unreachable", file')
      BY DEF Shown, Unanswered, Means
    <3>3. QED
      BY <3>1, <3>2
  <2>3. QED
    BY <2>1, <2>2
<1>5. /\ phase' \in [Act -> {"idle", "working"} \cup Shown]
      /\ awaits' \subseteq Id
      /\ \A act \in Act : Means(act, phase'[act], file')
      /\ remembered' \in Stages /\ TrueOf(remembered', file')
  BY <1>0, <1>3, <1>4, HearsTrue
<1>6. disk'.course = course' => TrueOf(disk'.stage, file')
  BY <1>3, DiskTrue DEF Handle
<1>7. faults' \in 0..world.faults
  BY FaultCounts DEF Handle, Truthful, TypeOK
<1>8. UNCHANGED <<world, course, held, disk, ui, house, kills>> /\ net' \subseteq net
  BY DEF Handle
<1>9. TypeOK'
  BY <1>2, <1>3, <1>5, <1>7, <1>8 DEF Truthful, TypeOK
<1>10. QED
  BY <1>2, <1>3, <1>5, <1>6, <1>9 DEF Truthful

\* A restart of custody between the evidence and its decision.
LEMMA CrashTruthful ==
  ASSUME Truthful, NEW id \in net, CrashAfterEvidence(id)
  PROVE  Truthful'
<1>0. id \in Id
  BY DEF Truthful, TypeOK
<1>1. /\ Served(id[1], file, file', "ok")
      /\ \A r \in log' : r \in log \/ r = [id |-> id, answer |-> "ok"]
  BY <1>0, AnswerServes, KeptRows DEF CrashAfterEvidence
<1>2. /\ log' \subseteq [id : Id, answer : Said]
      /\ \A r \in log' : Means(ActOf(r.id), r.answer, file')
  BY <1>0, <1>1, LogTrue
<1>3. file' \in File /\ Coherent(file') /\ Grows(file, file')
  BY <1>1 DEF Served
<1>4. /\ Hears(id, "unreachable")
      /\ "unreachable" \in Shown /\ Means(ActOf(id), "unreachable", file')
  BY DEF Shown, Unanswered, Means, CrashAfterEvidence
<1>5. /\ phase' \in [Act -> {"idle", "working"} \cup Shown]
      /\ awaits' \subseteq Id
      /\ \A act \in Act : Means(act, phase'[act], file')
      /\ remembered' \in Stages /\ TrueOf(remembered', file')
  BY <1>0, <1>3, <1>4, HearsTrue
<1>6. disk'.course = course' => TrueOf(disk'.stage, file')
  BY <1>3, DiskTrue DEF CrashAfterEvidence
<1>7. faults' \in 0..world.faults
  BY FaultCounts DEF CrashAfterEvidence, Truthful
<1>8. UNCHANGED <<world, course, held, disk, ui, house, kills>> /\ net' \subseteq net
  BY DEF CrashAfterEvidence
<1>9. TypeOK'
  BY <1>2, <1>3, <1>5, <1>7, <1>8 DEF Truthful, TypeOK
<1>10. QED
  BY <1>2, <1>3, <1>5, <1>6, <1>9 DEF Truthful

\* A request given up.
LEMMA TimeOutTruthful ==
  ASSUME Truthful, NEW id \in awaits, NEW lost \in BOOLEAN, TimeOut(id, lost)
  PROVE  Truthful'
<1>0. id \in Id /\ file \in File /\ file' = file
  BY DEF Truthful, TypeOK, TimeOut
<1>1. Grows(file, file')
  BY <1>0 DEF Grows
<1>2. log' \subseteq log
  BY KeptRows DEF TimeOut
<1>3. /\ Hears(id, "unreachable")
      /\ "unreachable" \in Shown /\ Means(ActOf(id), "unreachable", file')
  BY DEF Shown, Unanswered, Means, TimeOut
<1>4. /\ phase' \in [Act -> {"idle", "working"} \cup Shown]
      /\ awaits' \subseteq Id
      /\ \A act \in Act : Means(act, phase'[act], file')
      /\ remembered' \in Stages /\ TrueOf(remembered', file')
  BY <1>0, <1>1, <1>3, HearsTrue
<1>5. faults' \in 0..world.faults
  BY FaultCounts DEF TimeOut, Truthful
<1>6. UNCHANGED <<world, course, file, held, disk, ui, house, kills>> /\ net' \subseteq net
  BY DEF TimeOut
<1>7. TypeOK'
  BY <1>2, <1>4, <1>5, <1>6 DEF Truthful, TypeOK
<1>8. QED
  BY <1>2, <1>4, <1>6, <1>7 DEF Truthful

\* A gesture sends an act under an id, the one held or a fresh one.
LEMMA TapIs ==
  ASSUME TypeOK, NEW k \in Key, Tap(k[1], k[2])
  PROVE  \E n \in 1..MaxIds :
             /\ n \in AttemptFor(k)
             /\ held' = [held EXCEPT ![k] = n]
             /\ net' = net \cup {<<k, n>>} /\ awaits' = awaits \cup {<<k, n>>}
             /\ <<k, n>> \in Id
<1>1. k = <<k[1], k[2]>> /\ k[1] \in Act
  BY KeyShape
<1>2. PICK n \in AttemptFor(k) : /\ held' = [held EXCEPT ![k] = n]
                                 /\ net' = net \cup {<<k, n>>}
                                 /\ awaits' = awaits \cup {<<k, n>>}
  BY <1>1 DEF Tap
<1>3. n \in 1..MaxIds
  <2>1. held[k] \in 0..MaxIds /\ MaxIds \in Nat
    BY MaxIdsAssumption DEF TypeOK
  <2>2. QED
    BY <1>2, <2>1 DEF AttemptFor, FreshId
<1>4. QED
  BY <1>2, <1>3 DEF Id

\* A gesture.
LEMMA TapTruthful ==
  ASSUME Truthful, NEW k \in Key, Tap(k[1], k[2])
  PROVE  Truthful'
<1>1. k[1] \in Act
  BY KeyShape
<1>2. PICK n \in 1..MaxIds :
             /\ held' = [held EXCEPT ![k] = n]
             /\ net' = net \cup {<<k, n>>} /\ awaits' = awaits \cup {<<k, n>>}
             /\ <<k, n>> \in Id
  BY TapIs DEF Truthful
<1>3. log' \subseteq log
  BY KeptRows DEF Tap
<1>4. /\ phase' = [phase EXCEPT ![k[1]] = "working"]
      /\ remembered' = remembered \/ remembered' = Stage(phase')
      /\ UNCHANGED <<world, course, file, disk, ui, house, faults, kills>>
  BY DEF Tap, Shows, Remember
<1>5. \A act \in Act : Means(act, phase'[act], file)
  BY <1>1, <1>4 DEF Truthful, TypeOK, Means
<1>6. remembered' \in Stages /\ TrueOf(remembered', file)
  <2>1. Stage(phase') \in Stages /\ TrueOf(Stage(phase'), file)
    BY <1>5, StageIsTrue
  <2>2. remembered \in Stages /\ TrueOf(remembered, file)
    BY DEF Truthful, TypeOK
  <2>3. QED
    BY <1>4, <2>1, <2>2
<1>7. held' \in [Key -> 0..MaxIds]
  <2>1. n \in 0..MaxIds
    BY MaxIdsAssumption
  <2>2. QED
    BY <1>2, <2>1 DEF Truthful, TypeOK
<1>8. phase' \in [Act -> {"idle", "working"} \cup Shown]
  BY <1>1, <1>4 DEF Truthful, TypeOK
<1>9. TypeOK'
  BY <1>2, <1>3, <1>4, <1>6, <1>7, <1>8 DEF Truthful, TypeOK
<1>10. QED
  BY <1>3, <1>4, <1>5, <1>6, <1>9 DEF Truthful

\* The memory written.
LEMMA LandTruthful ==
  ASSUME Truthful, Land
  PROVE  Truthful'
<1>1. disk' = [course |-> course, stage |-> remembered]
  BY DEF Land
<1>2. course \in 0..world.courses
  <2>1. world.courses \in Nat
    BY WorldsAssumption DEF Truthful, TypeOK
  <2>2. QED
    BY <2>1 DEF Truthful, TypeOK
<1>3. disk' \in [course : 0..world.courses, stage : Stages]
  BY <1>1, <1>2 DEF Truthful, TypeOK
<1>4. UNCHANGED <<world, course, file, log, net, awaits, phase, held, remembered, ui, house,
                  faults, kills>>
  BY DEF Land
<1>5. TypeOK'
  BY <1>3, <1>4 DEF Truthful, TypeOK
<1>6. QED
  BY <1>1, <1>4, <1>5 DEF Truthful

\* The app killed and opened again.
LEMMA KillTruthful ==
  ASSUME Truthful, Kill
  PROVE  Truthful'
<1>1. log' \subseteq log
  BY KeptRows DEF Kill
<1>2. /\ phase' = Calm /\ awaits' = {} /\ ui' = AtRest /\ held' = [j \in Key |-> 0]
      /\ UNCHANGED <<world, course, file, net, disk, house, faults>>
  BY DEF Kill
<1>3. \A act \in Act : Means(act, phase'[act], file)
  BY <1>2 DEF Calm, Means
<1>4. remembered' \in Stages /\ TrueOf(remembered', file)
  BY DEF Kill, Truthful, TypeOK, Stages, TrueOf
<1>5. kills' \in 0..world.kills
  <2>1. world.kills \in Nat
    BY WorldsAssumption DEF Truthful, TypeOK
  <2>2. QED
    BY <2>1 DEF Kill, Truthful, TypeOK
<1>6. held' \in [Key -> 0..MaxIds]
  <2>1. 0 \in 0..MaxIds
    BY MaxIdsAssumption
  <2>2. QED
    BY <1>2, <2>1
<1>7. /\ phase' \in [Act -> {"idle", "working"} \cup Shown]
      /\ ui' \in [trying : BOOLEAN, back : BOOLEAN]
  BY <1>2 DEF Calm, AtRest
<1>8. TypeOK'
  BY <1>1, <1>2, <1>4, <1>5, <1>6, <1>7 DEF Truthful, TypeOK
<1>9. QED
  BY <1>1, <1>2, <1>3, <1>4, <1>8 DEF Truthful

\* The rider's other gestures.
LEMMA GesturesTruthful ==
  ASSUME Truthful, Gestures
  PROVE  Truthful'
<1>1. ui' \in [trying : BOOLEAN, back : BOOLEAN]
  <2>1. ui \in [trying : BOOLEAN, back : BOOLEAN]
    BY DEF Truthful, TypeOK
  <2>2. \/ ui' = [ui EXCEPT !.trying = TRUE] \/ ui' = [trying |-> TRUE, back |-> TRUE]
        \/ ui' = AtRest
    BY DEF Gestures
  <2>3. /\ [ui EXCEPT !.trying = TRUE] \in [trying : BOOLEAN, back : BOOLEAN]
        /\ [trying |-> TRUE, back |-> TRUE] \in [trying : BOOLEAN, back : BOOLEAN]
        /\ AtRest \in [trying : BOOLEAN, back : BOOLEAN]
    BY <2>1 DEF AtRest
  <2>4. QED
    BY <2>2, <2>3
<1>2. UNCHANGED <<world, course, file, log, net, awaits, phase, held, remembered, disk, house,
                  faults, kills>>
  BY DEF Gestures
<1>3. TypeOK'
  BY <1>1, <1>2 DEF Truthful, TypeOK
<1>4. QED
  BY <1>2, <1>3 DEF Truthful

\* A step of the record with nothing said.
LEMMA GrowthTruthful ==
  ASSUME Truthful, file' \in File, Coherent(file'), Grows(file, file'),
         house' \in [passage : 1..2, decided : BOOLEAN, code : BOOLEAN, vendor : BOOLEAN],
         UNCHANGED <<world, course, log, net, phoneVars, faults, kills>>
  PROVE  Truthful'
<1>1. UNCHANGED <<awaits, phase, held, remembered, disk, ui>>
  BY DEF phoneVars
<1>2. TypeOK'
  BY <1>1 DEF Truthful, TypeOK
<1>3. \A r \in log : Means(ActOf(r.id), r.answer, file')
  BY MeansGrows DEF Truthful
<1>4. \A act \in Act : Means(act, phase[act], file')
  BY MeansGrows DEF Truthful
<1>5. TrueOf(remembered, file')
  BY StageGrows DEF Truthful, TypeOK
<1>6. disk'.course = course' => TrueOf(disk'.stage, file')
  BY <1>1, DiskTrue
<1>7. QED
  BY <1>1, <1>2, <1>3, <1>4, <1>5, <1>6 DEF Truthful

\* The window ends, the buyer pays, the keys are armed.
LEMMA LedgerTruthful ==
  ASSUME Truthful, Elapse \/ Pay \/ Arm
  PROVE  Truthful'
<1>1. /\ file \in File /\ Coherent(file)
      /\ house \in [passage : 1..2, decided : BOOLEAN, code : BOOLEAN, vendor : BOOLEAN]
  BY DEF Truthful, TypeOK
<1>2. /\ \/ file' = [file EXCEPT !.late = TRUE] \/ file' = [file EXCEPT !.paid = TRUE]
         \/ file' = [file EXCEPT !.armed = TRUE]
      /\ UNCHANGED <<world, course, log, net, phoneVars, house, faults, kills>>
  BY DEF Elapse, Pay, Arm, Ledger
<1>3. file' \in File
  BY <1>1, <1>2 DEF File
<1>4. Coherent(file') /\ Grows(file, file')
  BY <1>1, <1>2 DEF File, Coherent, Grows, InReturn
<1>5. QED
  BY <1>1, <1>2, <1>3, <1>4, GrowthTruthful

\* What the session tells.
LEMMA SessionTruthful ==
  ASSUME Truthful, FixPassage \/ HearReturn \/ VendorSays
  PROVE  Truthful'
<1>1. /\ file \in File /\ Coherent(file)
      /\ house \in [passage : 1..2, decided : BOOLEAN, code : BOOLEAN, vendor : BOOLEAN]
  BY DEF Truthful, TypeOK
<1>2. /\ \/ house' = [house EXCEPT !.passage = 2] \/ house' = [house EXCEPT !.code = TRUE]
         \/ house' = [house EXCEPT !.vendor = TRUE]
      /\ UNCHANGED <<world, course, file, log, net, phoneVars, faults, kills>>
  BY DEF FixPassage, HearReturn, VendorSays, Session
<1>3. house' \in [passage : 1..2, decided : BOOLEAN, code : BOOLEAN, vendor : BOOLEAN]
  <2>1. 2 \in 1..2
    OBVIOUS
  <2>2. CASE house' = [house EXCEPT !.passage = 2]
    BY <1>1, <2>1, <2>2
  <2>3. CASE house' = [house EXCEPT !.code = TRUE]
    BY <1>1, <2>3
  <2>4. CASE house' = [house EXCEPT !.vendor = TRUE]
    BY <1>1, <2>4
  <2>5. QED
    BY <1>2, <2>2, <2>3, <2>4
<1>4. Grows(file, file')
  BY <1>1, <1>2 DEF Grows
<1>5. QED
  BY <1>1, <1>2, <1>3, <1>4, GrowthTruthful

\* The founder decides the return.
LEMMA DecideReturnTruthful ==
  ASSUME Truthful, DecideReturn
  PROVE  Truthful'
<1>1. /\ file \in File /\ Coherent(file)
      /\ house \in [passage : 1..2, decided : BOOLEAN, code : BOOLEAN, vendor : BOOLEAN]
  BY DEF Truthful, TypeOK
<1>2. /\ file.ladder = "reschedule" /\ file' = [file EXCEPT !.ladder = "return"]
      /\ house' = [house EXCEPT !.decided = TRUE]
      /\ UNCHANGED <<world, course, log, net, phoneVars, faults, kills>>
  BY DEF DecideReturn
<1>3. file' \in File
  BY <1>1, <1>2 DEF File
<1>4. Coherent(file') /\ Grows(file, file')
  BY <1>1, <1>2 DEF File, Coherent, Grows, InReturn
<1>5. house' \in [passage : 1..2, decided : BOOLEAN, code : BOOLEAN, vendor : BOOLEAN]
  BY <1>1, <1>2
<1>6. QED
  BY <1>2, <1>3, <1>4, <1>5, GrowthTruthful

\* A step of the phone and custody, one by one.
LEMMA StepCases ==
  ASSUME Truthful, [Next]_vars
  PROVE  \/ \E k \in Key : Tap(k[1], k[2])
         \/ \E id \in net, arrives \in BOOLEAN : Handle(id, arrives)
         \/ \E id \in net : CrashAfterEvidence(id)
         \/ \E id \in awaits, lost \in BOOLEAN : TimeOut(id, lost)
         \/ Land \/ Kill \/ Gestures
         \/ (Elapse \/ Pay \/ Arm)
         \/ (FixPassage \/ HearReturn \/ VendorSays) \/ DecideReturn
         \/ UNCHANGED vars
  BY DEF Next, Taps, Requests, Losses

\* Every step keeps to the truth.
LEMMA StepTruthful ==
  ASSUME Truthful, [Next]_vars
  PROVE  Truthful'
<1>1. ASSUME UNCHANGED vars
      PROVE  Truthful'
  BY <1>1 DEF vars, phoneVars, Truthful, TypeOK
<1>2. QED
  BY <1>1, StepCases, TapTruthful, HandleTruthful, CrashTruthful, TimeOutTruthful,
     LandTruthful, KillTruthful, GesturesTruthful, LedgerTruthful, SessionTruthful,
     DecideReturnTruthful

\* The beginning is true.
LEMMA InitTruthful ==
  ASSUME Init
  PROVE  Truthful
<1>1. /\ world.courses \in Nat \ {0} /\ world.faults \in Nat /\ world.kills \in Nat
      /\ MaxIds \in Nat
  BY WorldsAssumption, MaxIdsAssumption DEF Init
<1>2. file \in File /\ Coherent(file)
  BY DEF Init, NewFile, File, Coherent, InReturn
<1>3. course \in 1..world.courses /\ 0 \in 0..world.courses /\ 0 \in 0..MaxIds
  BY <1>1 DEF Init
<1>4. faults \in 0..world.faults /\ kills \in 0..world.kills
  BY <1>1 DEF Init
<1>5. /\ phase \in [Act -> {"idle", "working"} \cup Shown]
      /\ \A act \in Act : Means(act, phase[act], file)
  BY DEF Init, Calm, Means
<1>6. held \in [Key -> 0..MaxIds] /\ disk \in [course : 0..world.courses, stage : Stages]
  BY <1>3 DEF Init, Stages
<1>7. ui \in [trying : BOOLEAN, back : BOOLEAN]
  BY DEF Init, AtRest
<1>8. house \in [passage : 1..2, decided : BOOLEAN, code : BOOLEAN, vendor : BOOLEAN]
  BY DEF Init, NewHouse
<1>9. TypeOK
  BY <1>2, <1>3, <1>4, <1>5, <1>6, <1>7, <1>8 DEF Init, TypeOK, Stages
<1>10. TrueOf(remembered, file) /\ disk.stage = "none"
  BY DEF Init, TrueOf
<1>11. TrueOf(disk.stage, file)
  BY <1>10 DEF TrueOf
<1>12. QED
  BY <1>2, <1>5, <1>9, <1>10, <1>11 DEF Init, Truthful

\* For every setting, with any number of losses, restarts and killings of the
\* app, all that is answered, shown and remembered is true of custody's record.
THEOREM TruthfulAlways == Spec => []Truthful
<1>1. Init => Truthful
  BY InitTruthful
<1>2. Truthful /\ [Next]_vars => Truthful'
  BY StepTruthful
<1>3. QED
  BY <1>1, <1>2, PTL DEF Spec

\* Every variable keeps its type.
THEOREM RoadIsTyped == Spec => []TypeOK
<1>1. Truthful => TypeOK
  BY DEF Truthful
<1>2. QED
  BY <1>1, TruthfulAlways, PTL

\* The phone is never ahead of custody: the stage in memory, and the one on the
\* disk for this order, are stages custody recorded (App.tsx, the stage effect
\* and loadActMemory).
THEOREM PhoneIsNeverAhead == Spec => []PhoneNeverAhead
<1>1. Truthful => PhoneNeverAhead
  BY DEF Truthful, PhoneNeverAhead, True, TrueOf
<1>2. QED
  BY <1>1, TruthfulAlways, PTL

-----------------------------------------------------------------------------
(* One answer for each command.                                            *)

\* Custody's log gives one answer to each command id, and none to the two acts
\* it keeps no id of; what is awaited is on its way; a code is sent for a package
\* that has left the supplier, and where the right one was refused the package
\* goes back.
Consistent ==
    /\ \A r, q \in log : r.id = q.id => r = q
    /\ \A r \in log : Logged(r.id)
    /\ awaits \subseteq net
    /\ \A id \in net : ActOf(id) = "drop" => file.holder # "supplier"
    /\ \A r \in log : r.id[1] = <<"drop", "right">> /\ r.answer = "no" => InReturn(file)

\* Custody has taken the request id and answered a; the phone hears it, or
\* nothing.
Processed(id, a) ==
    /\ id \in net /\ net' = net \ {id} /\ UNCHANGED <<world, held>>
    /\ Served(id[1], file, file', a)
    /\ \/ \E r \in log : r.id = id /\ r.answer = a
       \/ (\A r \in log : r.id # id) /\ Custody(file, id[1]).answer = a
    /\ \A r \in log' : r \in log \/ (Logged(id) /\ r = [id |-> id, answer |-> a])
    /\ \A r \in log : held[r.id[1]] = r.id[2] => r \in log'
    /\ Logged(id) /\ held[id[1]] = id[2] => [id |-> id, answer |-> a] \in log'
    /\ Hears(id, a) \/ Hears(id, "unreachable")

\* The answer to a request is in the log, or custody's own.
LEMMA AnswerComes ==
  ASSUME TypeOK, NEW id \in Id
  PROVE  \/ \E r \in log : r.id = id /\ r.answer = Answer(id).answer
         \/ (\A r \in log : r.id # id) /\ Custody(file, id[1]).answer = Answer(id).answer
  BY AnswerIs DEF Says

\* A request handled is processed,
LEMMA HandleProcesses ==
  ASSUME Truthful, NEW id \in net, NEW arrives \in BOOLEAN, Handle(id, arrives)
  PROVE  Processed(id, Answer(id).answer)
<1> DEFINE a == Answer(id).answer
           rows == IF Logged(id) THEN log \cup {[id |-> id, answer |-> a]} ELSE log
<1>1. id \in Id /\ TypeOK
  BY DEF Truthful, TypeOK
<1>2. log' = Kept(rows, held, net')
  BY DEF Handle
<1>3. \A r \in log' : r \in rows
  BY <1>2, KeptRows
<1>4. \A r \in rows : held[r.id[1]] = r.id[2] => r \in log'
  BY <1>2, KeptRows
<1>5. Logged(id) /\ held[id[1]] = id[2] => [id |-> id, answer |-> a] \in log'
  <2>1. ASSUME Logged(id)
        PROVE  [id |-> id, answer |-> a] \in rows
    BY <2>1
  <2>2. QED
    BY <1>4, <2>1
<1>6. Served(id[1], file, file', a)
  BY <1>1, HandleServes
<1>7. Hears(id, a) \/ Hears(id, "unreachable")
  BY DEF Handle
<1>8. net' = net \ {id} /\ UNCHANGED <<world, held>>
  BY DEF Handle
<1>9. \/ \E r \in log : r.id = id /\ r.answer = a
      \/ (\A r \in log : r.id # id) /\ Custody(file, id[1]).answer = a
  BY <1>1, AnswerComes
<1>10. QED
  BY <1>3, <1>4, <1>5, <1>6, <1>7, <1>8, <1>9 DEF Processed

\* ... and so is one over which custody restarts.
LEMMA CrashProcesses ==
  ASSUME Truthful, NEW id \in net, CrashAfterEvidence(id)
  PROVE  Processed(id, "ok")
<1> DEFINE rows == log \cup {[id |-> id, answer |-> "ok"]}
<1>1. id \in Id /\ TypeOK /\ Logged(id) /\ Answer(id).answer = "ok"
  BY DEF Truthful, TypeOK, CrashAfterEvidence, Logged
<1>2. log' = Kept(rows, held, net')
  BY DEF CrashAfterEvidence
<1>3. \A r \in log' : r \in rows
  BY <1>2, KeptRows
<1>4. \A r \in rows : held[r.id[1]] = r.id[2] => r \in log'
  BY <1>2, KeptRows
<1>5. held[id[1]] = id[2] => [id |-> id, answer |-> "ok"] \in log'
  BY <1>4
<1>6. Served(id[1], file, file', "ok")
  BY <1>1, AnswerServes DEF CrashAfterEvidence
<1>7. Hears(id, "unreachable") /\ net' = net \ {id} /\ UNCHANGED <<world, held>>
  BY DEF CrashAfterEvidence
<1>8. \/ \E r \in log : r.id = id /\ r.answer = "ok"
      \/ (\A r \in log : r.id # id) /\ Custody(file, id[1]).answer = "ok"
  BY <1>1, AnswerComes
<1>9. QED
  BY <1>1, <1>3, <1>4, <1>5, <1>6, <1>7, <1>8 DEF Processed

\* What is awaited after a request is processed.
LEMMA ProcessedHears ==
  ASSUME Truthful, NEW id, NEW a, Processed(id, a)
  PROVE  /\ id \in Id /\ a \in Shown /\ awaits' = awaits \ {id}
         /\ \A act \in Act : \/ phase'[act] = phase[act]
                             \/ act = ActOf(id) /\ phase'[act] \in {a, "unreachable"}
<1>1. id \in Id /\ TypeOK
  BY DEF Processed, Truthful, TypeOK
<1>2. a \in Shown /\ "unreachable" \in Shown
  BY DEF Processed, Served, Shown, Unanswered
<1>3. PICK b \in {a, "unreachable"} : Hears(id, b)
  BY DEF Processed
<1>4. /\ awaits' = awaits \ {id}
      /\ phase' = phase \/ phase' = [phase EXCEPT ![ActOf(id)] = b]
  BY <1>1, <1>2, <1>3, HearsIs
<1>5. QED
  BY <1>1, <1>2, <1>4 DEF TypeOK

\* A package that goes back goes on going back.
LEMMA ReturnGrows ==
  ASSUME NEW f, NEW g, Grows(f, g), InReturn(f)
  PROVE  InReturn(g)
  BY DEF Grows, InReturn

\* The answers stay one for each command when a request is processed.
LEMMA ProcessedConsistent ==
  ASSUME Truthful, Consistent, NEW id, NEW a, Processed(id, a)
  PROVE  Consistent'
<1> DEFINE row == [id |-> id, answer |-> a]
<1>1. /\ id \in net /\ id \in Id /\ net' = net \ {id} /\ awaits' = awaits \ {id}
      /\ Grows(file, file')
  BY ProcessedHears DEF Processed, Served
<1>2. \A r \in log : r.id = id => r = row
  <2>1. SUFFICES ASSUME NEW r \in log, r.id = id
                 PROVE  r = row
    OBVIOUS
  <2>2. PICK q \in log : q.id = id /\ q.answer = a
    BY <2>1 DEF Processed
  <2>3. q = r
    BY <2>1, <2>2 DEF Consistent
  <2>4. r = [id |-> r.id, answer |-> r.answer]
    BY <2>1 DEF Truthful, TypeOK
  <2>5. QED
    BY <2>1, <2>2, <2>3, <2>4
<1>3. \A r \in log' : r \in log \/ (Logged(id) /\ r = row)
  BY DEF Processed
<1>4. \A r, q \in log' : r.id = q.id => r = q
  BY <1>2, <1>3 DEF Consistent
<1>5. \A r \in log' : Logged(r.id)
  BY <1>3 DEF Consistent
<1>6. awaits' \subseteq net'
  BY <1>1 DEF Consistent
<1>7. \A x \in net' : ActOf(x) = "drop" => file'.holder # "supplier"
  BY <1>1 DEF Consistent, Grows
<1>8. ASSUME NEW r \in log', r.id[1] = <<"drop", "right">>, r.answer = "no"
      PROVE  InReturn(file')
  <2>1. CASE r \in log
    BY <1>1, <1>8, <2>1, ReturnGrows DEF Consistent
  <2>2. CASE r \notin log
    <3>1. r = row /\ id[1] = <<"drop", "right">> /\ a = "no"
      BY <1>3, <1>8, <2>2
    <3>2. \A q \in log : q.id # id
      BY <1>2, <2>2, <3>1
    <3>3. Custody(file, <<"drop", "right">>).answer = "no"
      BY <3>1, <3>2 DEF Processed
    <3>4. file.holder # "supplier"
      BY <1>1, <3>1 DEF Consistent, ActOf
    <3>5. InReturn(file)
      BY <3>3, <3>4, RightDropRefused DEF Truthful, TypeOK
    <3>6. QED
      BY <1>1, <3>5, ReturnGrows
  <2>3. QED
    BY <2>1, <2>2
<1>9. QED
  BY <1>4, <1>5, <1>6, <1>7, <1>8 DEF Consistent

\* A screen that asks for the code is of a package that has left the supplier.
LEMMA CodeAskedHeld ==
  ASSUME Truthful, Screen = "code"
  PROVE  file.holder # "supplier"
<1>1. Holds
  BY DEF Screen
<1>2. Coherent(file) /\ TrueOf(remembered, file) /\ remembered \in Stages
  BY DEF Truthful, TypeOK
<1>3. CASE Answered("seal")
  <2>1. phase["seal"] = "ok"
    BY <1>1, <1>3 DEF Holds, ShownOr
  <2>2. Means("seal", phase["seal"], file)
    BY DEF Truthful, Act
  <2>3. QED
    BY <2>1, <2>2 DEF Means
<1>4. CASE ~Answered("seal")
  <2>1. Rung(remembered) >= 2
    BY <1>1, <1>4 DEF Holds, ShownOr, AtLeast, Rung
  <2>2. remembered \notin {"none", "verification_accepted"}
    BY <2>1 DEF Rung
  <2>3. QED
    BY <1>2, <2>2 DEF Stages, TrueOf, Coherent
<1>5. QED
  BY <1>3, <1>4

\* ... and when a gesture sends one more,
LEMMA TapConsistent ==
  ASSUME Truthful, Consistent, NEW k \in Key, Tap(k[1], k[2])
  PROVE  Consistent'
<1>1. PICK n \in 1..MaxIds : /\ net' = net \cup {<<k, n>>}
                             /\ awaits' = awaits \cup {<<k, n>>}
  BY TapIs DEF Truthful
<1>2. log' \subseteq log /\ file' = file
  BY KeptRows DEF Tap
<1>3. ASSUME k[1] = "drop"
      PROVE  file.holder # "supplier"
  <2>1. Offered("drop", k[2])
    BY <1>3 DEF Tap
  <2>2. Screen = "code"
    BY <2>1 DEF Offered, Troubles
  <2>3. QED
    BY <2>2, CodeAskedHeld
<1>4. \A id \in net' : ActOf(id) = "drop" => file'.holder # "supplier"
  BY <1>1, <1>2, <1>3 DEF Consistent, ActOf
<1>5. QED
  BY <1>1, <1>2, <1>4 DEF Consistent

\* ... and when the log and the requests only shrink and the record grows.
LEMMA FewerConsistent ==
  ASSUME Truthful, Consistent, log' \subseteq log, net' \subseteq net, awaits' \subseteq net',
         Grows(file, file')
  PROVE  Consistent'
<1>1. \A id \in net' : ActOf(id) = "drop" => file'.holder # "supplier"
  BY DEF Consistent, Grows
<1>2. \A r \in log' : r.id[1] = <<"drop", "right">> /\ r.answer = "no" => InReturn(file')
  BY ReturnGrows DEF Consistent
<1>3. QED
  BY <1>1, <1>2 DEF Consistent

-----------------------------------------------------------------------------
(* One id for each act, while the app lives.                               *)

\* The acts whose ids may change, the drop apart, and their one content.
Waiting == {"expire", "handover"}
KeyOf(act) == <<act, "as_it_is">>

\* The requests of an act on their way all carry the id the phone holds for it.
OneId == \A id \in net : ActOf(id) # "drop" => held[id[1]] = id[2]

\* An act told to wait was told so under the id the phone holds, and nothing more
\* of it is on its way.
WaitRow ==
    \A act \in Waiting : phase[act] = "wait" =>
        /\ \E r \in log : r.id = <<KeyOf(act), held[KeyOf(act)]>> /\ r.answer = "wait"
        /\ \A id \in net : ActOf(id) # act

\* An act done was done under the id the phone holds.
DoneRow ==
    \A k \in Key : k[1] \notin {"depart", "arrive", "drop"} /\ Done(k, file) =>
        \E r \in log : r.id = <<k, held[k]>> /\ r.answer \notin Undone

Identified == OneId /\ WaitRow /\ DoneRow

\* The acts that wait have one key each.
LEMMA WaitingKey ==
  ASSUME NEW act \in Waiting
  PROVE  /\ act \in Act /\ KeyOf(act) \in Key /\ KeyOf(act)[1] = act
         /\ \A k \in Key : k[1] = act => k = KeyOf(act)
<1>1. act \in Act /\ KeyOf(act) \in Key /\ KeyOf(act)[1] = act
  BY DEF Waiting, Act, KeyOf, Key, Content
<1>2. ASSUME NEW k \in Key, k[1] = act
      PROVE  k = KeyOf(act)
  BY <1>2, Keys DEF Waiting, KeyOf
<1>3. QED
  BY <1>1, <1>2

\* A request processed leaves its act's id with the phone.
LEMMA ProcessedIdentified ==
  ASSUME Truthful, Consistent, Identified, NEW id, NEW a, Processed(id, a)
  PROVE  Identified'
<1>1. /\ id \in net /\ id \in Id /\ net' = net \ {id} /\ held' = held
      /\ id[1] \in Key /\ id = <<id[1], id[2]>> /\ ActOf(id) = id[1][1]
  BY ProcessedHears, IdShape DEF Processed
<1>2. OneId'
  BY <1>1 DEF Identified, OneId
<1>3. \A r \in log : r.id \in Id
  BY DEF Truthful, TypeOK
<1>4. ASSUME NEW k \in Key, NEW r \in log, r.id = <<k, held[k]>>
      PROVE  r \in log'
  BY <1>4 DEF Processed
<1>5. ASSUME ActOf(id) \notin {"depart", "arrive", "drop"}
      PROVE  /\ id = <<id[1], held[id[1]]>>
             /\ \E r \in log' : r.id = id /\ r.answer = a
  <2>1. held[id[1]] = id[2]
    BY <1>1, <1>5 DEF Identified, OneId
  <2>2. [id |-> id, answer |-> a] \in log'
    BY <1>5, <2>1 DEF Processed, Logged
  <2>3. QED
    BY <1>1, <2>1, <2>2
<1>6. WaitRow'
  <2>1. SUFFICES ASSUME NEW act \in Waiting, phase'[act] = "wait"
                 PROVE  /\ \E r \in log' : /\ r.id = <<KeyOf(act), held'[KeyOf(act)]>>
                                           /\ r.answer = "wait"
                        /\ \A x \in net' : ActOf(x) # act
    BY DEF WaitRow
  <2>2. /\ act \in Act /\ KeyOf(act) \in Key
        /\ \A k \in Key : k[1] = act => k = KeyOf(act)
    BY WaitingKey
  <2>3. CASE phase[act] = "wait"
    <3>1. PICK r \in log : r.id = <<KeyOf(act), held[KeyOf(act)]>> /\ r.answer = "wait"
      BY <2>1, <2>3 DEF Identified, WaitRow
    <3>2. \A x \in net : ActOf(x) # act
      BY <2>1, <2>3 DEF Identified, WaitRow
    <3>3. QED
      BY <1>1, <1>4, <2>2, <3>1, <3>2
  <2>4. CASE phase[act] # "wait"
    <3>1. act = ActOf(id) /\ a = "wait"
      BY <2>1, <2>2, <2>4, ProcessedHears
    <3>2. id[1] = KeyOf(act) /\ ActOf(id) \notin {"depart", "arrive", "drop"}
      BY <1>1, <2>1, <2>2, <3>1 DEF Waiting
    <3>3. ASSUME NEW x \in net, ActOf(x) = act
          PROVE  x = id
      <4>1. x \in Id
        BY <3>3 DEF Truthful, TypeOK
      <4>2. x[1] = KeyOf(act) /\ x = <<x[1], x[2]>>
        BY <2>2, <3>3, <4>1, IdShape
      <4>3. held[x[1]] = x[2] /\ held[id[1]] = id[2]
        BY <1>1, <3>1, <3>2, <3>3 DEF Identified, OneId
      <4>4. QED
        BY <1>1, <3>2, <4>2, <4>3
    <3>4. QED
      BY <1>1, <1>5, <3>1, <3>2, <3>3
  <2>5. QED
    BY <2>3, <2>4
<1>7. DoneRow'
  <2>1. SUFFICES ASSUME NEW k \in Key, k[1] \notin {"depart", "arrive", "drop"},
                        Done(k, file')
                 PROVE  \E r \in log' : r.id = <<k, held'[k]>> /\ r.answer \notin Undone
    BY DEF DoneRow
  <2>2. CASE Done(k, file)
    BY <1>1, <1>4, <2>1, <2>2 DEF Identified, DoneRow
  <2>3. CASE ~Done(k, file)
    <3>1. k = id[1] /\ a \notin Undone
      BY <2>1, <2>3 DEF Processed, Served
    <3>2. QED
      BY <1>1, <1>5, <2>1, <3>1
  <2>4. QED
    BY <2>2, <2>3
<1>8. QED
  BY <1>2, <1>6, <1>7 DEF Identified

\* The phone changes the id of an act only where nothing of it is on its way, and
\* it is not done.
LEMMA FreshIsNew ==
  ASSUME Truthful, Consistent, Identified, NEW k \in Key, k[1] # "drop",
         held[k] = 0 \/ Forgets(k[1])
  PROVE  /\ \A id \in net : id[1] # k
         /\ k[1] \notin {"depart", "arrive"} => ~Done(k, file)
<1>1. /\ net \subseteq Id /\ \A r \in log : r.id \in Id
      /\ \A id \in Id : id[2] # 0 /\ ActOf(id) = id[1][1]
  BY IdShape DEF Truthful, TypeOK
<1>2. CASE held[k] = 0
  <2>1. \A id \in net : id[1] # k
    BY <1>1, <1>2 DEF Identified, OneId
  <2>2. ASSUME k[1] \notin {"depart", "arrive"}, Done(k, file)
        PROVE  FALSE
    <3>1. PICK r \in log : r.id = <<k, held[k]>>
      BY <2>2 DEF Identified, DoneRow
    <3>2. r.id[2] = 0
      BY <1>2, <3>1
    <3>3. QED
      BY <1>1, <3>2
  <2>3. QED
    BY <2>1, <2>2
<1>3. CASE Forgets(k[1])
  <2>1. k[1] \in Waiting /\ phase[k[1]] = "wait"
    BY <1>3 DEF Forgets, Waiting, NotYet
  <2>2. k = KeyOf(k[1])
    BY <2>1, WaitingKey
  <2>3. \A id \in net : ActOf(id) # k[1]
    BY <2>1 DEF Identified, WaitRow
  <2>4. PICK r \in log : r.id = <<k, held[k]>> /\ r.answer = "wait"
    BY <2>1, <2>2 DEF Identified, WaitRow
  <2>5. ASSUME Done(k, file)
        PROVE  FALSE
    <3>1. PICK q \in log : q.id = <<k, held[k]>> /\ q.answer \notin Undone
      BY <2>1, <2>5 DEF Identified, DoneRow, Waiting
    <3>2. q = r
      BY <2>4, <3>1 DEF Consistent
    <3>3. QED
      BY <2>4, <3>1, <3>2 DEF Undone
  <2>6. QED
    BY <1>1, <2>3, <2>5
<1>4. QED
  BY <1>2, <1>3

\* A gesture keeps the act's id, or takes one for an act not done.
LEMMA TapIdentified ==
  ASSUME Truthful, Consistent, Identified, NEW k \in Key, Tap(k[1], k[2])
  PROVE  Identified'
<1>1. PICK n \in AttemptFor(k) : /\ held' = [held EXCEPT ![k] = n]
                                 /\ net' = net \cup {<<k, n>>}
                                 /\ <<k, n>> \in Id
  BY TapIs DEF Truthful
<1>2. /\ held \in [Key -> 0..MaxIds] /\ net \subseteq Id /\ \A id \in Id : ActOf(id) = id[1][1]
      /\ \A r \in log : r.id \in Id
  BY IdShape DEF Truthful, TypeOK
<1>3. \A j \in Key : held'[j] = IF j = k THEN n ELSE held[j]
  BY <1>1, <1>2
<1>4. file' = file /\ phase' = [phase EXCEPT ![k[1]] = "working"]
  BY DEF Tap, Shows
<1>5. \A r \in log : r.id \in net' \/ held'[r.id[1]] = r.id[2] => r \in log'
  BY KeptRows DEF Tap
<1>6. held[k] # n => held[k] = 0 \/ Forgets(k[1])
  BY <1>1 DEF AttemptFor
<1>7. OneId'
  <2>1. SUFFICES ASSUME NEW id \in net', ActOf(id) # "drop"
                 PROVE  held'[id[1]] = id[2]
    BY DEF OneId, ActOf
  <2>2. CASE id = <<k, n>>
    BY <1>3, <2>2
  <2>3. CASE id \in net /\ id[1] = k
    <3>1. held[k] = id[2] /\ k[1] # "drop"
      BY <1>2, <2>1, <2>3 DEF Identified, OneId
    <3>2. held[k] = n
      BY <1>6, <2>3, <3>1, FreshIsNew
    <3>3. QED
      BY <1>3, <2>3, <3>1, <3>2
  <2>4. CASE id \in net /\ id[1] # k
    <3>1. held[id[1]] = id[2] /\ id[1] \in Key
      BY <1>2, <2>1, <2>4, IdShape DEF Identified, OneId
    <3>2. QED
      BY <1>3, <2>4, <3>1
  <2>5. QED
    BY <1>1, <2>1, <2>2, <2>3, <2>4
<1>8. WaitRow'
  <2>1. SUFFICES ASSUME NEW act \in Waiting, phase'[act] = "wait"
                 PROVE  /\ \E r \in log' : /\ r.id = <<KeyOf(act), held'[KeyOf(act)]>>
                                           /\ r.answer = "wait"
                        /\ \A x \in net' : ActOf(x) # act
    BY DEF WaitRow, ActOf
  <2>2. /\ act \in Act /\ KeyOf(act) \in Key /\ KeyOf(act)[1] = act
    BY WaitingKey
  <2>3. act # k[1] /\ phase[act] = "wait"
    <3>1. phase \in [Act -> {"idle", "working"} \cup Shown]
      BY DEF Truthful, TypeOK
    <3>2. QED
      BY <1>4, <2>1, <2>2, <3>1, KeyShape
  <2>4. PICK r \in log : r.id = <<KeyOf(act), held[KeyOf(act)]>> /\ r.answer = "wait"
    BY <2>1, <2>3 DEF Identified, WaitRow
  <2>5. KeyOf(act) # k
    BY <2>2, <2>3
  <2>6. held'[KeyOf(act)] = held[KeyOf(act)] /\ r \in log'
    BY <1>3, <1>5, <2>2, <2>4, <2>5
  <2>7. \A x \in net' : ActOf(x) # act
    <3>1. \A x \in net : ActOf(x) # act
      BY <2>1, <2>3 DEF Identified, WaitRow
    <3>2. ActOf(<<k, n>>) # act
      BY <2>3 DEF ActOf
    <3>3. QED
      BY <1>1, <3>1, <3>2
  <2>8. QED
    BY <2>4, <2>6, <2>7
<1>9. DoneRow'
  <2>1. SUFFICES ASSUME NEW j \in Key, j[1] \notin {"depart", "arrive", "drop"}, Done(j, file)
                 PROVE  \E r \in log' : r.id = <<j, held'[j]>> /\ r.answer \notin Undone
    BY <1>4 DEF DoneRow
  <2>2. PICK r \in log : r.id = <<j, held[j]>> /\ r.answer \notin Undone
    BY <2>1 DEF Identified, DoneRow
  <2>3. held'[j] = held[j]
    <3>1. CASE j = k
      BY <1>3, <1>6, <2>1, <3>1, FreshIsNew
    <3>2. CASE j # k
      BY <1>3, <3>2
    <3>3. QED
      BY <3>1, <3>2
  <2>4. r \in log'
    BY <1>5, <2>2, <2>3
  <2>5. QED
    BY <2>2, <2>3, <2>4
<1>10. QED
  BY <1>7, <1>8, <1>9 DEF Identified

\* The ids stay when no act is done and nothing sent, answered or forgotten.
LEMMA FewerIdentified ==
  ASSUME Identified, held' = held, net' \subseteq net,
         \A r \in log : held[r.id[1]] = r.id[2] => r \in log',
         \A act \in Waiting : phase'[act] = "wait" => phase[act] = "wait",
         \A k \in Key : Done(k, file') => Done(k, file)
  PROVE  Identified'
<1>1. OneId'
  BY DEF Identified, OneId
<1>2. WaitRow'
  <2>1. SUFFICES ASSUME NEW act \in Waiting, phase'[act] = "wait"
                 PROVE  /\ \E r \in log' : /\ r.id = <<KeyOf(act), held'[KeyOf(act)]>>
                                           /\ r.answer = "wait"
                        /\ \A x \in net' : ActOf(x) # act
    BY DEF WaitRow
  <2>2. PICK r \in log : r.id = <<KeyOf(act), held[KeyOf(act)]>> /\ r.answer = "wait"
    BY <2>1 DEF Identified, WaitRow
  <2>3. r \in log'
    BY <2>2
  <2>4. \A x \in net : ActOf(x) # act
    BY <2>1 DEF Identified, WaitRow
  <2>5. QED
    BY <2>2, <2>3, <2>4
<1>3. DoneRow'
  <2>1. SUFFICES ASSUME NEW k \in Key, k[1] \notin {"depart", "arrive", "drop"},
                        Done(k, file')
                 PROVE  \E r \in log' : r.id = <<k, held'[k]>> /\ r.answer \notin Undone
    BY DEF DoneRow
  <2>2. PICK r \in log : r.id = <<k, held[k]>> /\ r.answer \notin Undone
    BY <2>1 DEF Identified, DoneRow
  <2>3. r \in log'
    BY <2>2
  <2>4. QED
    BY <2>2, <2>3
<1>4. QED
  BY <1>1, <1>2, <1>3 DEF Identified

-----------------------------------------------------------------------------
(* Never « no » for an act done.                                           *)

Answering == Truthful /\ Consistent /\ (world.kills = 0 => Identified)

\* A step of the record alone, or of the session, or of the screen.
Still ==
    /\ UNCHANGED <<world, log, net, awaits, phase, held>>
    /\ Grows(file, file')
    /\ \A k \in Key : Done(k, file') => Done(k, file)

\* Such are the steps that neither send, answer nor forget.
LEMMA StillSteps ==
  ASSUME Truthful, \/ Land \/ Gestures \/ (Elapse \/ Pay \/ Arm)
                   \/ (FixPassage \/ HearReturn \/ VendorSays) \/ DecideReturn
                   \/ UNCHANGED vars
  PROVE  Still
<1>0. file \in File
  BY DEF Truthful, TypeOK
<1>1. UNCHANGED <<world, log, net, awaits, phase, held>>
  BY DEF Land, Gestures, Elapse, Pay, Arm, Ledger, FixPassage, HearReturn, VendorSays, Session,
     DecideReturn, vars, phoneVars
<1>2. \/ file' = file \/ file' = [file EXCEPT !.late = TRUE]
      \/ file' = [file EXCEPT !.paid = TRUE] \/ file' = [file EXCEPT !.armed = TRUE]
      \/ file.ladder = "reschedule" /\ file' = [file EXCEPT !.ladder = "return"]
  BY DEF Land, Gestures, Elapse, Pay, Arm, Ledger, FixPassage, HearReturn, VendorSays, Session,
     DecideReturn, vars
<1>3. /\ file'.pickup = file.pickup /\ file'.holder = file.holder /\ file'.ret = file.ret
      /\ file'.departed = file.departed /\ file'.arrived = file.arrived
      /\ file'.evidence = file.evidence /\ file'.inspected = file.inspected
      /\ file'.rejected = file.rejected
      /\ \/ file'.ladder = file.ladder
         \/ file.ladder = "reschedule" /\ file'.ladder = "return"
  BY <1>0, <1>2 DEF File
<1>4. Grows(file, file')
  BY <1>3 DEF Grows
<1>5. ASSUME NEW k \in Key, Done(k, file'), ~Done(k, file)
      PROVE  FALSE
  BY <1>3, <1>5, DoneNow
<1>6. QED
  BY <1>1, <1>4, <1>5 DEF Still

\* A request given up leaves the ids and the answers as they are.
LEMMA TimeOutIs ==
  ASSUME Truthful, Consistent, NEW id \in awaits, NEW lost \in BOOLEAN, TimeOut(id, lost)
  PROVE  /\ UNCHANGED <<world, file, held>> /\ net' \subseteq net /\ log' \subseteq log
         /\ awaits' = awaits \ {id} /\ awaits' \subseteq net'
         /\ \A r \in log : held[r.id[1]] = r.id[2] => r \in log'
         /\ \A act \in Act : phase'[act] = phase[act] \/ phase'[act] = "unreachable"
<1>1. id \in Id /\ TypeOK
  BY DEF Truthful, TypeOK
<1>2. Hears(id, "unreachable") /\ "unreachable" \in Shown
  BY DEF TimeOut, Shown, Unanswered
<1>3. /\ awaits' = awaits \ {id}
      /\ phase' = phase \/ phase' = [phase EXCEPT ![ActOf(id)] = "unreachable"]
  BY <1>1, <1>2, HearsIs
<1>4. UNCHANGED <<world, file, held>> /\ log' = Kept(log, held, net')
  BY DEF TimeOut
<1>5. net' = net \/ net' = net \ {id}
  BY DEF TimeOut
<1>6. /\ log' \subseteq log /\ \A r \in log : held[r.id[1]] = r.id[2] => r \in log'
  BY <1>4, KeptRows
<1>7. \A act \in Act : phase'[act] = phase[act] \/ phase'[act] = "unreachable"
  BY <1>1, <1>3 DEF TypeOK
<1>8. QED
  BY <1>3, <1>4, <1>5, <1>6, <1>7 DEF Consistent

\* Every step keeps one answer for a command and one id for an act.
LEMMA StepAnswering ==
  ASSUME Answering, [Next]_vars
  PROVE  Answering'
<1>0. Truthful /\ Consistent /\ (world.kills = 0 => Identified) /\ Truthful'
  BY StepTruthful DEF Answering
<1>1. ASSUME NEW k \in Key, Tap(k[1], k[2])
      PROVE  Answering'
  <2>1. world' = world
    BY <1>1 DEF Tap
  <2>2. QED
    BY <1>0, <1>1, <2>1, TapConsistent, TapIdentified DEF Answering
<1>2. ASSUME NEW id, NEW a, Processed(id, a)
      PROVE  Answering'
  <2>1. world' = world
    BY <1>2 DEF Processed
  <2>2. QED
    BY <1>0, <1>2, <2>1, ProcessedConsistent, ProcessedIdentified DEF Answering
<1>3. ASSUME NEW id \in awaits, NEW lost \in BOOLEAN, TimeOut(id, lost)
      PROVE  Answering'
  <2>1. /\ UNCHANGED <<world, file, held>> /\ net' \subseteq net /\ log' \subseteq log
        /\ awaits' \subseteq net'
        /\ \A r \in log : held[r.id[1]] = r.id[2] => r \in log'
        /\ \A act \in Act : phase'[act] = phase[act] \/ phase'[act] = "unreachable"
    BY <1>0, <1>3, TimeOutIs
  <2>2. Grows(file, file')
    BY <2>1 DEF Grows
  <2>3. \A act \in Waiting : phase'[act] = "wait" => phase[act] = "wait"
    BY <2>1 DEF Waiting, Act
  <2>4. Consistent'
    BY <1>0, <2>1, <2>2, FewerConsistent
  <2>5. Identified => Identified'
    BY <2>1, <2>3, FewerIdentified
  <2>6. QED
    BY <1>0, <2>1, <2>4, <2>5 DEF Answering
<1>4. ASSUME Still
      PROVE  Answering'
  <2>1. /\ UNCHANGED <<world, log, net, awaits, phase, held>> /\ Grows(file, file')
        /\ \A k \in Key : Done(k, file') => Done(k, file)
    BY <1>4 DEF Still
  <2>2. Consistent'
    <3>1. awaits' \subseteq net'
      BY <1>0, <2>1 DEF Consistent
    <3>2. QED
      BY <1>0, <2>1, <3>1, FewerConsistent
  <2>3. Identified => Identified'
    BY <2>1, FewerIdentified
  <2>4. QED
    BY <1>0, <2>1, <2>2, <2>3 DEF Answering
<1>5. ASSUME Kill
      PROVE  Answering'
  <2>1. world.kills # 0 /\ world' = world
    <3>1. world.kills \in Nat
      BY <1>0, WorldsAssumption DEF Truthful, TypeOK
    <3>2. QED
      BY <1>0, <1>5, <3>1 DEF Kill, Truthful, TypeOK
  <2>2. log' \subseteq log /\ net' = net /\ awaits' = {} /\ file' = file
    BY <1>5, KeptRows DEF Kill
  <2>3. Grows(file, file')
    BY <2>2 DEF Grows
  <2>4. Consistent'
    BY <1>0, <2>2, <2>3, FewerConsistent
  <2>5. QED
    BY <1>0, <2>1, <2>4 DEF Answering
<1>6. QED
  BY <1>0, <1>1, <1>2, <1>3, <1>4, <1>5, StepCases, StillSteps, HandleProcesses,
     CrashProcesses

\* A request processed is not answered « no » for an act that is done.
LEMMA NoMeansUndone ==
  ASSUME Truthful, Consistent, Identified, NEW id, Processed(id, "no")
  PROVE  ~Done(id[1], file')
<1>0. SUFFICES ASSUME Done(id[1], file')
               PROVE  FALSE
  OBVIOUS
<1> DEFINE k == id[1]
<1>1. /\ id \in net /\ id \in Id /\ k \in Key /\ id = <<k, id[2]>> /\ ActOf(id) = k[1]
      /\ k = <<k[1], k[2]>> /\ k[2] \in Content(k[1])
  BY ProcessedHears, IdShape, KeyShape DEF Processed
<1>2. file' = file /\ file \in File /\ Coherent(file)
  BY DEF Processed, Served, Undone, Truthful, TypeOK
<1>3. CASE k[1] \in {"depart", "arrive"}
  <2>1. ~Logged(id)
    BY <1>1, <1>3 DEF Logged
  <2>2. Custody(file, k).answer = "no"
    BY <2>1 DEF Processed, Consistent
  <2>3. QED
    BY <1>0, <1>1, <1>2, <1>3, <2>2, RoadRefused
<1>4. CASE k[1] = "drop"
  <2>1. k = <<"drop", "right">> /\ file.holder = "buyer"
    BY <1>0, <1>1, <1>2, <1>4 DEF Done, Content
  <2>2. CASE \E r \in log : r.id = id /\ r.answer = "no"
    BY <1>2, <2>1, <2>2 DEF Consistent, Coherent
  <2>3. CASE Custody(file, k).answer = "no"
    BY <1>2, <2>1, <2>3, RightDropRefused
  <2>4. QED
    BY <2>2, <2>3 DEF Processed
<1>5. CASE k[1] \notin {"depart", "arrive", "drop"}
  <2>1. PICK r \in log : r.id = <<k, held[k]>> /\ r.answer \notin Undone
    BY <1>0, <1>1, <1>2, <1>5 DEF Identified, DoneRow
  <2>2. r.id = id
    BY <1>1, <1>5, <2>1 DEF Identified, OneId
  <2>3. PICK q \in log : q.id = id /\ q.answer = "no"
    BY <2>1, <2>2 DEF Processed
  <2>4. q = r
    BY <2>2, <2>3 DEF Consistent
  <2>5. QED
    BY <2>1, <2>3, <2>4 DEF Undone
<1>6. QED
  BY <1>3, <1>4, <1>5

\* No step answers « no » for an act done, while the app lives.
LEMMA StepNeverDenies ==
  ASSUME Answering, [Next]_vars, world.kills = 0, NEW id \in awaits \ awaits',
         phase'[ActOf(id)] = "no"
  PROVE  ~Done(id[1], file')
<1>0. Truthful /\ Consistent /\ Identified /\ ActOf(id) \in Act
  BY IdShape DEF Answering, Truthful, TypeOK
<1>1. ASSUME NEW x, NEW a, Processed(x, a)
      PROVE  ~Done(id[1], file')
  <2>1. /\ a \in Shown /\ awaits' = awaits \ {x} /\ x \in Id
        /\ \A act \in Act : \/ phase'[act] = phase[act]
                            \/ act = ActOf(x) /\ phase'[act] \in {a, "unreachable"}
        /\ Hears(x, a) \/ Hears(x, "unreachable")
    BY <1>0, <1>1, ProcessedHears DEF Processed
  <2>2. x = id
    BY <2>1
  <2>3. phase'[ActOf(id)] \in {a, "unreachable"}
    <3>1. phase \in [Act -> {"idle", "working"} \cup Shown]
      BY <1>0 DEF Truthful, TypeOK
    <3>2. QED
      BY <1>0, <2>1, <2>2, <3>1 DEF Hears, Shows
  <2>4. a = "no"
    BY <2>3
  <2>5. QED
    BY <1>0, <1>1, <2>2, <2>4, NoMeansUndone
<1>2. ASSUME NEW x \in awaits, NEW lost \in BOOLEAN, TimeOut(x, lost)
      PROVE  FALSE
  <2>1. awaits' = awaits \ {x}
    BY <1>0, <1>2, TimeOutIs
  <2>2. x = id
    BY <2>1
  <2>3. phase' = [phase EXCEPT ![ActOf(id)] = "unreachable"]
    BY <1>2, <2>2 DEF TimeOut, Hears, Shows
  <2>4. phase'[ActOf(id)] = "unreachable"
    BY <1>0, <2>3 DEF Truthful, TypeOK
  <2>5. QED
    BY <2>4
<1>3. ASSUME NEW k \in Key, Tap(k[1], k[2])
      PROVE  FALSE
  <2>1. \E n \in 1..MaxIds : awaits' = awaits \cup {<<k, n>>}
    BY <1>0, <1>3, TapIs DEF Truthful
  <2>2. QED
    BY <2>1
<1>4. ASSUME Still
      PROVE  FALSE
  BY <1>4 DEF Still
<1>5. ASSUME Kill
      PROVE  FALSE
  BY <1>0, <1>5 DEF Kill, Calm
<1>6. QED
  BY <1>0, <1>1, <1>2, <1>3, <1>4, <1>5, StepCases, StillSteps, HandleProcesses,
     CrashProcesses

\* The beginning: nothing sent, nothing answered, nothing done.
LEMMA InitAnswering ==
  ASSUME Init
  PROVE  Answering
<1>1. Truthful
  BY InitTruthful
<1>2. Consistent
  BY DEF Init, Consistent
<1>3. ASSUME NEW k \in Key, Done(k, file)
      PROVE  FALSE
  BY <1>3, Keys DEF Init, NewFile, Done
<1>4. OneId /\ WaitRow
  BY DEF Init, OneId, WaitRow, Waiting, Calm, Act
<1>5. QED
  BY <1>1, <1>2, <1>3, <1>4 DEF Answering, Identified, DoneRow

\* Custody remembers one answer for each command id, whatever is lost, repeated
\* or killed, and what the phone awaits is on its way; while the app lives, the
\* requests of an act carry the one id the phone holds for it (custody-do.ts,
\* replayOutcome; App.tsx, attemptFor).
THEOREM AnsweringAlways == Spec => []Answering
<1>1. Init => Answering
  BY InitAnswering
<1>2. Answering /\ [Next]_vars => Answering'
  BY StepAnswering
<1>3. QED
  BY <1>1, <1>2, PTL DEF Spec

\* While the app lives, a rider is never told « no » for an act custody took
\* (App.tsx, attemptFor; custody-do.ts, replayOutcome).
THEOREM NeverToldNo == Spec => NeverToldNoForADoneAct
<1>1. Answering /\ [Next]_vars
        => [world.kills = 0 =>
              \A id \in awaits \ awaits' :
                  phase'[ActOf(id)] = "no" => ~Done(id[1], file')]_vars
  BY StepNeverDenies
<1>2. QED
  BY <1>1, AnsweringAlways, PTL DEF Spec, NeverToldNoForADoneAct
=============================================================================
