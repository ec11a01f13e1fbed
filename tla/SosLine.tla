------------------------------- MODULE SosLine -------------------------------
(***************************************************************************)
(* The rider's alarm: raised on the phone, queued on its disk, sent by a   *)
(* drain of the queue, and put on the desk's board, which acknowledges it. *)
(*                                                                         *)
(* Source: apps/rider-app/src/offline/outbox.ts, backlog.ts, sos.ts,       *)
(* evidence.ts, documentStore.ts, src/net/sos-wire.ts, the drains and the  *)
(* alarm of App.tsx; logistics-service/worker/sos-book.ts and its routes.  *)
(* Every reading and writing of the file is awaited: an append and several *)
(* drains may each hold a list the others have since rewritten.            *)
(***************************************************************************)
EXTENDS Naturals, FiniteSets

CONSTANTS
    Sos,      \* the alarms, by command id
    Evidence, \* the captures queued beside them, by command id
    Drain,    \* the drains of the reconnect effect that may run at once
    InTurn,   \* whether appends and drains wait for one another
    MaxFaults \* bound on the requests or answers lost, and the app's deaths

VARIABLES
    queue,   \* sera-outbox.json: the entries on the disk
    online,  \* the phone's connectivity
    appends, \* each entry's append: not begun, the list read, written
    drains,  \* each drain: the list it read, what it has left to send, what it keeps
    said,    \* what the rider is told of each alarm
    board,   \* the desk's incidents
    faults

vars == <<queue, online, appends, drains, said, board, faults>>

Entry == Sos \cup Evidence
\* An alarm drains the queue itself, after its own append.
Drainer == Drain \cup Sos
NoList  == [at |-> "idle", todo |-> {}, kept |-> {}]
NotYet  == [at |-> "none", list |-> {}]

TypeOK ==
    /\ queue \subseteq Entry /\ online \in BOOLEAN
    /\ appends \in [Entry -> [at : {"none", "read", "written"}, list : SUBSET Entry]]
    /\ drains \in [Drainer -> [at : {"idle", "sending"}, todo : SUBSET Entry,
                               kept : SUBSET Entry]]
    /\ said \in [Sos -> {"nothing", "sending", "flushed", "owed", "reached",
                        "untold"}]
    /\ board \in [Sos -> {"none", "open", "acknowledged"}]
    /\ faults \in 0..MaxFaults

Init ==
    /\ queue = {} /\ online \in BOOLEAN
    /\ appends = [e \in Entry |-> NotYet]
    /\ drains = [d \in Drainer |-> NoList]
    /\ said = [s \in Sos |-> "nothing"]
    /\ board = [s \in Sos |-> "none"]
    /\ faults = MaxFaults

Quiet == /\ \A d \in Drainer : drains[d].at = "idle"
         /\ \A e \in Entry : appends[e].at # "read"
Turn  == InTurn => Quiet

\* append: the whole list is read, then written with the entry at its end.
AppendReads(e) ==
    /\ appends[e].at = "none" /\ Turn
    /\ appends' = [appends EXCEPT ![e] = [at |-> "read", list |-> queue]]
    /\ UNCHANGED <<queue, online, drains, said, board, faults>>
AppendWrites(e) ==
    /\ appends[e].at = "read"
    /\ queue' = appends[e].list \cup {e}
    /\ appends' = [appends EXCEPT ![e] = [at |-> "written", list |-> {}]]
    /\ UNCHANGED <<online, drains, said, board, faults>>

\* flush: the list is read once, each entry sent in its turn, and what is kept
\* of that list written back.
FlushReads(d) ==
    /\ drains[d].at = "idle" /\ Turn
    /\ drains' = [drains EXCEPT ![d] = [at |-> "sending", todo |-> queue, kept |-> {}]]
Settle(d, e) == drains' = [drains EXCEPT ![d].todo = @ \ {e}]
Keep(d, e)   == drains' = [drains EXCEPT ![d].todo = @ \ {e}, ![d].kept = @ \cup {e}]

\* raise: by command id, the first one stays.
raise(s) == board' = [board EXCEPT ![s] = IF @ = "none" THEN "open" ELSE @]

\* httpSosSender: only an alarm is sent, and only a 200 settles it; no network,
\* a refusal, a timeout or a lost answer keeps it.
Sends(d, e) ==
    /\ drains[d].at = "sending" /\ e \in drains[d].todo
    /\ \/ /\ e \in Sos /\ online
          /\ raise(e) /\ Settle(d, e) /\ UNCHANGED faults
       \/ /\ e \in Sos /\ online /\ faults > 0
          /\ faults' = faults - 1 /\ Keep(d, e)
          /\ raise(e) \/ UNCHANGED board
       \/ /\ e \in Evidence \/ ~online
          /\ Keep(d, e) /\ UNCHANGED <<board, faults>>
    /\ UNCHANGED <<queue, online, appends, said>>
FlushWrites(d) ==
    /\ drains[d].at = "sending" /\ drains[d].todo = {}
    /\ queue' = drains[d].kept /\ drains' = [drains EXCEPT ![d] = NoList]
    /\ UNCHANGED <<online, appends, board, faults>>

\* The effect drains when the phone comes online or its session is read again.
Reconnect(d) == online /\ FlushReads(d) /\ UNCHANGED <<queue, online, appends, said, board, faults>>
Reconnected(d) == FlushWrites(d) /\ UNCHANGED said

\* The alarm, its append written: drained if the phone was online; then the queue
\* is read again, and it is told owed while it is there, reached when it is not.
FireDrains(s) ==
    /\ appends[s].at = "written" /\ said[s] = "nothing" /\ online
    /\ FlushReads(s) /\ said' = [said EXCEPT ![s] = "sending"]
    /\ UNCHANGED <<queue, online, appends, board, faults>>
Told(s, q) == said' = [said EXCEPT ![s] = IF s \in q THEN "owed" ELSE "reached"]
FireDrained(s) == FlushWrites(s) /\ said' = [said EXCEPT ![s] = "flushed"]
FireEnds(s) ==
    /\ said[s] = "flushed"
    /\ Told(s, queue) /\ UNCHANGED <<queue, online, appends, drains, board, faults>>
FireOffline(s) ==
    /\ appends[s].at = "written" /\ said[s] = "nothing" /\ ~online
    /\ Told(s, queue) /\ UNCHANGED <<queue, online, appends, drains, board, faults>>

\* acknowledge: an incident of the board, once; what nobody raised is refused.
acknowledge(s) ==
    /\ board[s] = "open" /\ board' = [board EXCEPT ![s] = "acknowledged"]

\* POST /ops/sos/ack: the desk answers what is on its board.
SosAck(s) ==
    /\ acknowledge(s) /\ UNCHANGED <<queue, online, appends, drains, said, faults>>

Connectivity ==
    /\ online' = ~online /\ UNCHANGED <<queue, appends, drains, said, board, faults>>
\* The app dies: the lists held in memory go, the file stays.
Kill ==
    /\ faults > 0 /\ faults' = faults - 1
    /\ drains' = [d \in Drainer |-> NoList]
    /\ appends' = [e \in Entry |-> IF appends[e].at = "read" THEN NotYet ELSE appends[e]]
    /\ said' = [s \in Sos |-> IF appends[s].at = "written" /\ said[s] \notin {"owed", "reached"}
                              THEN "untold" ELSE said[s]]
    /\ UNCHANGED <<queue, online, board>>

Next ==
    \/ \E e \in Entry : AppendReads(e) \/ AppendWrites(e)
    \/ \E d \in Drain : Reconnect(d) \/ Reconnected(d)
    \/ \E d \in Drainer, e \in Entry : Sends(d, e)
    \/ \E s \in Sos : FireDrains(s) \/ FireDrained(s) \/ FireEnds(s) \/ FireOffline(s)
                       \/ SosAck(s)
    \/ Connectivity \/ Kill

Spec == Init /\ [][Next]_vars

\* The app runs on; a drain started online is not for ever cut before its
\* requests.
FairSpec ==
    /\ Spec
    /\ \A e \in Entry : WF_vars(AppendWrites(e))
    /\ \A d \in Drain : SF_vars(Reconnect(d)) /\ WF_vars(Reconnected(d))
    /\ \A d \in Drainer, e \in Entry : WF_vars(Sends(d, e)) /\ SF_vars(Sends(d, e) /\ online)
    /\ \A s \in Sos : /\ WF_vars(FireDrains(s)) /\ WF_vars(FireDrained(s))
                    /\ WF_vars(FireEnds(s)) /\ WF_vars(FireOffline(s))

-----------------------------------------------------------------------------

\* The rider is told the alarm has reached the desk only when it is on the
\* desk's board.  Not so when an append or another drain comes between a
\* flush's reading and its writing: the alarm is written over, unsent, and
\* told reached because it is no longer queued (outbox.ts:114).
ReachedIsOnTheBoard == \A s \in Sos : said[s] = "reached" => board[s] # "none"

\* An alarm written to the disk of a phone that is online again and again is on
\* the board in the end, whatever is lost on the way (outbox.ts, flush).
AlarmArrives == []<>online => \A s \in Sos : (s \in queue) ~> (board[s] # "none")
=============================================================================
