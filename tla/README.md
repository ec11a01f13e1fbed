# Séra in TLA+

Séra is the last-mile delivery side of a marketplace: riders fetch packages at
suppliers, bring them to buyers' doors, and bring them home again when the
door says no. Its law is in `docs/Sera-Build-Spec.md` (invariants SE-I01 to
SE-I12); its authority is in two Cloudflare Workers whose Durable Objects hold
all the state. These modules model that authority and the phone and console
that command it, TLC checks them on small instances, and TLAPS proves, for every
instance, what nine of the ten checked modules promise.

## 1. Inventory

### Components, their state and operations

| Component | Source | State | Operations |
|---|---|---|---|
| Custody spine | `custody-service/src/custody-spine.ts`, `refusal-ladder.ts`, `door-flow.ts`, `pickup-verification-policy.ts` | per order: verification, seal, courier flag, evidence, decision, door session, rejection, ladder outcome, return flow, signal ids, emitted events | verifyPickup, beginCustody, submitDeliveryEvidence, decideValidation, confirmDrop, recordDoorInspection, recordDoorRefusal, escalateExpiredWindow, applyDispatcherReturn, openReturn, completeReturnHandover, armDoorReference, consumeDoorPaidSignal, fileCustodyLiabilityClaim |
| Custody ledger | `custody-ledger.ts` | custodian per package, hash chain | append |
| Secret registry | `secret-registry.ts` | digest and consumption per kind | register, consume, consumeTwoKeys |
| Custody object | `custody-service/worker/custody-do.ts` | command log, chain, transit record, eight outbox rows, alarm | one door per command, heals on every request, alarm flushes, replay on load |
| Package claim | `worker/package-claim-do.ts` | one claim per package | claim |
| Lease authority | `logistics-service/src/assignment-lease.ts` | leases, versions, applied command ids | acquire, release, anchor, expire_due |
| Dispatch | `leased-assignment.ts`, `manual-assignment.ts`, `ready-queue.ts`, `reschedule.ts` | assignments, queued tasks, granted-lease witness, reschedule outcomes | assign, acknowledge, decline, takeBack, deliver, returnToSupplier, expireDue, reprogrammer, forgetOrder, onTaskReady |
| Logistics object | `worker/logistics-do.ts`, `colis.ts` | snapshots of the above, funding and readiness facts, producer rows, return rows, package courses | intake, ops and rider doors, custody's reports, alarm flushes |
| Riders and shifts | `rider-registry.ts`, `route-manifest.ts` | riders, shifts, custody facts, end-of-shift exceptions | startShift, endShift, deriveManifest |
| SOS book | `worker/sos-book.ts` | incidents | raise, acknowledge |
| Rider app | `apps/rider-app/src/offline`, `net` | stored outbox, act memory, session | enqueue, flush, remember, forget |
| Fleet and cost | `flotte.ts`, `delivery-cost.ts` | append-only accounts | logCourse, openShift, closeShift |
| Console | `apps/dispatch-console/src` | each desk's command ids, what it waits for, what its last board showed | sends the doors' commands, answers the founder |

### How they interact

Shop+ (another system) declares funding and readiness to the logistics object;
the founder admits a task and assigns a rider, under a lease. The logistics
object opens the order's custody file and arms its pickup code over a service
binding, through an outbox of its own. The rider acts on the custody object
alone. What custody decides comes back over eight at-least-once wires drained by
one alarm: to Shop+ the eligibility, the refusal and the two journey facts, to
logistics the delivered course, the opened return, the returned course and the
reprogrammation. On a return, logistics arms the two handover keys on custody.
The founder's board, each time it is read, calls custody's `/wires/reviver`.

### What is hard

* **Commands in orders nobody scripted.** Some fifteen commands reach one file
  from the rider, the founder, Shop+, logistics and the payment provider; each guard
  reads flags set by others.
* **Requests during fetches.** An object's input gate protects storage calls,
  not outgoing fetches: an alarm that awaits a binding works on what it read.
* **Restarts.** A restart may fall between two awaited storage calls; the log
  is replayed, the alarm is run again, and nothing else is remembered.
* **Retries.** Clients redeliver until they hear an answer, receivers hear rows
  twice, secrets are armed again.
* **Time.** Retry windows and leases expire on someone else's call.
* **Two ledgers for one fact.** Who carries a package is custody's word, who
  holds a course is logistics', and reports between them are late or repeated.

### What makes each component correct

* *Spine*: one custodian; custody earned by verification, then seal; payment
  before hand-off; eligible and refused exclude each other; a fee only for an
  unwaived buyer's fault; two keys or none; one retry window; secrets spent once.
* *Custody object*: the facts put with their row keep it, the drop's two rows
  stand together, receivers hear facts only, a delivered row is never sent
  again, every row arrives in the end.
* *Package claim*: one order per package, whichever opening is interrupted.
* *Lease and dispatch*: one active lease per rider and per task, every active
  assignment backed by the newest lease of its task, an expiry or a
  release never hits a later grant, no order lost between queue and book.
* *Logistics object*: the code on the rider's phone is the code armed on
  custody; a package course closes when, and as, its last article does.
* *Shifts*: no shift ends over a package no exception covers.
* *Rider outbox*: no act is lost or sent under a second command id.
* *Rider's phone*: never ahead of custody, never told no for an act that was
  taken, never left without a way to the end of the road.
* *Console*: it says only what was done, whatever was lost or came late.

## 2. The modules

| Module | Role | Runs |
|---|---|---|
| `CustodyChain` | abstract: the promise about one package's custodian and outcome | `spine` |
| `CustodyFile` | abstract: phase, return and reschedule of one file, what the outboxes look at | `spine`, `wires_*` |
| `CustodySpine` | the custody file of one order, one action per command; refines both | `spine` |
| `CustodyWires` | the outboxes and the alarm of one custody object, over `CustodyFile` | `wires_road`, `wires_live` |
| `PackageOwner` | abstract: the first file that begins custody of a package, and no other | `claim` |
| `PackageClaim` | the custody objects and claim objects that race for packages; refines it | `claim` |
| `LeaseAuthority` | `decideLease` with its replay memory | `dispatch_*` |
| `Dispatch` | queue, book, witness and reschedules over `LeaseAuthority`, saved and restarted | `dispatch_*` |
| `CourseWires` | what logistics keeps telling custody: openings, pickup codes, return keys | `course_road` |
| `ColisCourse` | a bag of articles on one course, over one custody ledger per article | `colis_road` |
| `RiderRoad` | the phone's acts on one order, against custody's doors | `rider_road` |
| `House` | one rider's shift and its end, against custody's word | `house` |
| `Desk` | the founder's desks, against logistics' doors and their relay to custody | `desk` |
| `SosLine` | the alarm, from the phone's queue to the board | `sos_lost` |
| `CustodySpineProofs`, `CustodyWiresProofs`, `DispatchProofs`, `CourseWiresProofs`, `ColisCourseProofs`, `DeskProofs`, `RiderRoadProofs`, `ClaimHouseProofs` (of `PackageClaim` and `House`) | the theorems | |
| `MC...` | the small instances, one per module TLC checks | |

Four modules compose two components over one state: `Dispatch` EXTENDS
`LeaseAuthority`, `CustodyWires` runs over `CustodyFile`, which `CustodySpine`
is checked and proved to implement, `PackageClaim` holds both kinds of object, and `Desk`,
`RiderRoad`, `House` and `ColisCourse` hold the sender, the messages on their way
and the door that answers.

### Conventions

An action is a whole command or a whole stretch between two fetches: guards in the
code's order and meaning, then every assignment. A command that is refused and
changes nothing is a stutter.

*Settings.* Most modules have a variable `world`, drawn once from the
constant `Worlds` and never changed: which requests come in, whether the object
restarts, and how often a fault may happen. One run thus explores several
instances, each small enough, and the MC module names them. It stands for the
environment, not for a part of the program.

*Extra configurations.* A cfg that is not in the tables of section 3 shows one
statement of the source refuted; `tlc -config <cfg> <module>` replays it.

### CustodySpine

Each variable is a field of the `CustodySpine` class, the secret registry or
the ledger. The two refusals that do change something are modelled:
`beginCustody`, before which `CustodyDO.apply` establishes the seller as
custodian, and the provider's signal, which records an alert. A secret is its
digest; evidence is valid or absent (a bundle bound to another seal is refused);
the conformity checklist is its verdict; the door matrix is its five results;
instants are small numbers; the events are counted, not built. Command replay is
the stutter of a recorded answer. `MaxReopens` bounds the reopenings of a
return and the liability claims, which the code does not limit.

### CustodyWires

`rows` holds the status of the eight outbox rows; `en_route` and `arrivee` share
one storage key, and `copy` is that pair as `flushTransit` read it. A request is
one action (input gate) and goes first through the two heals. `at` walks the
alarm's drain order; `waiting` is an outgoing fetch, the only moment at which
requests come in during an alarm. The answer may be lost before or after the
receiver processed the row. Restarts take a running alarm with them, and the
platform runs it again; a request's restart may fall after its put and before
`setAlarm`, and for a drop between its two puts. Setting a binding's secret is a
deployment, hence a restart too. A file may be older than the healed wires.
Left out: the backoff's durations and attempt counts (`left` says that a retry is
due), a failure of `setAlarm` alone, the bodies of the rows, the opening of the file.

`CommitsCarryTheirRows` says what each put guarantees. `commit()` puts the rows of a
refusal, a return and a second passage with the log, and a departure is put with
its record (`RowsOfTheCommit`): they never stand without their row. The drop does
not enjoy this: its two rows are put after its commit (`custody-do.ts:2543`), so
`DropRowsTogether` promises both or neither, and neither only where the object
has crashed. `wires_lost` shows such a crash, against the comment of the drop.

### PackageClaim

An order's object asks the package's claim object before it writes its file, and
waits; the call may fail before or after the claim is written, or its answer reach
nobody, and two opens of one order may wait at once. `Legacy` files carry no marker
until they are opened again. Of the spine, only what decides which file acts is
kept: the first accepted verification and the beginning of custody. The names of its
specification are its own (`ClaimSpec`, `ClaimNext`), so that `ClaimHouseProofs` can
extend it together with `House`; nothing else joins the two.

### LeaseAuthority and Dispatch

`leaseState` is the code's `LeaseAuthorityState`. `/ops/assign` awaits the
authority, but the in-process dispatch answers with a resolved promise and the
input gate holds other requests back: one action. The raw command door
(`/authority/dispatch`) is a command of its own kind, outside the books. Tasks a
producer names may come back, minted ones never do; minted ids are canonical.
Requests persist all books; the board, a GET, sweeps and saves
nothing, so a restart undoes its sweep. A course carries one task here:
`ColisCourse` has the courses of several articles.

### CourseWires

Rows live in memory, each request persists them. The alarm walks the openings,
then the keys; `at` holds the row as the flush read it, which it writes back
after its fetches. Requests come in only while the object is idle or waits on a
fetch (`GateOpen`). A code is named by the course it was minted for. Only an
order carried alone is retired here. `Image` is what a request persists, `saved`
what storage holds: the alarm stores the rows and the returns apart.

### ColisCourse

Custody's closing words come late, out of order and again. Two doors wait on
custody between their steps: the retirement (alone or the whole bag) and the
relay of a decided return. A voyage is a set of articles, and `First` the article
of it that comes first in the bag, under which its task is filed; the relay asks
the ledgers in any order but the head's, which it asks last. A closing word for a
first article some course of which already ended so is a duplicate (`Already`). Taken as given: a take-back finds custody not begun;
"cleared" folds funding, readiness, mode and supplier gate into one fact.

### RiderRoad

`phase`, `held` and `remembered` are the app's React state, `disk` its act
memory; `log` is custody's memory of command ids. A request may land after the
phone gave it up; a kill loses what was not on disk, and the loading of the
memory is part of the restart. What the buyer says at the door is fixed by the
setting, except where the rider is of two minds. Left out: the doors of a bag, the sign-in;
the session's poll is instantaneous.

### House

`facts` is what custody was last heard to say, `kept` what is stored. Each
request that reads custody order by order is a run of `readCustodian` actions, between
which other requests, seals and sweeps come in where the setting allows them.
A package is an order's. Left out: the minting of codes is atomic; the offline
shift states, which the worker never asks for.

### Desk

One course and one of the two desks per behaviour. A command may be given up and
land later, its answer lost, the page loaded again (every id forgotten). The
refusals that depend on the rest of the board are a free choice of the door. The
course is acknowledged throughout, and the relay has one order. The notes of the
fleet are of one moto, hence one odometer; left out are the refusals
`unknown_vehicle` (the desk names motos the ledger has, and none ever leaves it) and
`unknown_rider` (a rider taken off the registry), which change nothing.

### SosLine

`append` and each drain hold the list they read until they write theirs; what
lies between is a kill, a lost request or another writer. `InTurn` is the
hypothesis that they wait for one another, which the code does not make. The rider is
told by a reading of the queue that comes after the flush's write (`FireEnds`). With `InTurn`
`AlarmArrives` holds with any single drain.

## 3. What TLC checks

| Run | Instance | Properties |
|---|---|---|
| `spine` | both modes, two riders and the supplier, two seals and two drop codes, two references with room for one, one signal, two instants; 1.18 million states | `CustodyIsEarned`, `TwoKeyReturn`, `PaymentBeforeHandoff`, `OneMoneyOutcome`, `FeeOnlyOnBuyerFault`, `OneProtectionClaim`, `SecretsAreSingleUse`, `LadderOnlyClimbs`, refinements `ImplementsChain` and `ImplementsFile` |
| `wires_road` | journey and drop; refusal, return and expiry; both secrets set late, two crashes; 912 000 states | `WiresTellTheTruth`, `CommitsCarryTheirRows`, `DeliveredForGood` |
| `wires_live` | departure and drop with a crash; return acts on an old file; an expiry, logistics' secret set late, a crash | `EachWireReachesItsReceiver` |
| `claim` | three orders, two packages, one old file, two orders after the same package, two faults | `HeldIsClaimed`, `AskedAgainHolds`, refinement `OneOwner` |
| `dispatch_books` | three minted tasks, two riders, two courses, an expiry, a second passage, a restart; a producer's task with the raw door; a producer that names a task again; 439 000 states | `OneAuthority`, `CourseIsLeased`, `NoStrandedLease`, `TaskHasOneHome`, `AcknowledgedIsKept` |
| `dispatch_live` | one task, two riders, three instants, a restart, funding that changes its mind | `UnansweredCourseEnds` |
| `course_road` | one order with every door, a key set late, a restart; two orders on one alarm; a bag's return with two restarts or no key | `DoneMeansItsCode`, `ReturnsOnlyGrow`, `ReturnKeysArrive`, `RowsAreDelivered` |
| `colis_road` | a bag of two articles: the road with two tasks, the decided return, one article retired, the whole bag retired; 885 000 states | `EndsWithItsBag`, `WholeBagIsSettled`, `DecidedOnEveryLedger`, `LeavesWholeUnlessPurged` |
| `rider_road` | thirteen settings: lost and late answers and custody's restart; the app killed at rest; the app killed anywhere and a rider of two minds | `PhoneNeverAhead`, `NeverToldNoForADoneAct`, `RoadEnds` |
| `house` | seven settings: a bag on the road, its sweep, two shifts with two cards, a restart, an outage, the registry | `AuthorisedOnce`, `NothingLeftBehind`, `FreeRiderEnds` |
| `desk` | three settings of the passage desk (a founder who wavers, a page reloaded, a restart of the object), one of the fleet desk; two million states | `FixedIsFixed`, `OneMotoPerRider`, `NeverToldNoForItsAct` |
| `sos_lost` | one alarm, one drain, no fault | `ReachedIsOnTheBoard`, violated |

Each run ends within three minutes. Deadlock is not an error: a delivered order,
a closed course or a bound reached is at rest.

### Why the bounds are enough

The spine's guards compare a presented digest with the armed one, a rider with the
verified one, an instant with the expiry; two values of each make every
comparison go both ways, and the theorems cover the rest. Two reopenings let an
event be emitted twice, the only distinction a property makes. In the wires, the second crash hits
the recovery of the first. Three orders over two packages let an order lose one
claim, win another and meet a third. In `Dispatch`, the third task and the second
version let a lease be granted, ended and granted again while a stale command for
the first is still out. Two orders let an alarm wait on one while a request
changes the other; two articles are the smallest bag that is not whole. A phone
holds up to three ids of one act (`MaxIds`), a setting has up to two faults: one
that harms, one that hits the recovery. The bounds of `House` count shifts,
cards, outages and restarts; two shifts are needed for a stale authorisation. The desk's
sends (two to four) let a first command land after a third was answered.

### Where the source says otherwise

Each of these statements is quoted in the project file with its line; each cfg
refutes one at a time.

| Cfg | Statement | What happens |
|---|---|---|
| `Spine_ladder` | `NoRejectionOnALadder` | `openReturn` says a rejection and a ladder outcome cannot coexist; `recordDoorInspection` never tests the ladder |
| | `AppliedReturnCanOpen` | the dispatcher's return over a provider's outage cannot be opened by the rider: the fault is the provider's |
| | `RescheduleKeepsPackage` | the window of a package already home expires into a reschedule |
| `Wires_lost` | `AnsweredDropIsWired` | a restart between a drop's commit and its rows loses both rows for good |
| | `AnsweredArrivalIsWired` | `flushTransit` erases an arrival stated while it awaits the departure's answer |
| `Claim_stranded` | `ClaimedIsCarried` | an open that failed after its claim was written strands the package it claimed, when the order is then opened on another |
| `Dispatch_reused` | `NeverStrandedLease` | a reused producer's task id: the second completion replays the first release, and the lease stays |
| `Dispatch_two_tasks` | `OneRiderPerOrder` | two task ids of one order are leased to two riders |
| `Course_lost` | `EveryCourseHasItsRow` | a flush writes back the row of the course before, and the new course's code is never sent |
| | `ParkedForAReason` | a flush parks an order over the supplier that came meanwhile |
| `Course_dead_code` | `DeadCodeDies` | a task confided again after a take-back is refused by custody for ever, the old code stays armed |
| `Colis_apart` | `HeardIsSettled`, `OneCoursePerArticle`, `RetiredIsNotCarried` | an article declined, cancelled or retired apart from its bag |
| `Colis_half_bag` | `LeavesWhole` | the whole-bag retirement lets a repeated funding fact survive without its membership |
| `Colis_partial` | `DecisionCompletes` | a decision relayed to some ledgers only, retried under another id, is refused by those that took it |
| `Road_next_course` | `PhoneNeverAhead` | the stage of one order is remembered under the next order's name |
| `House_left` | `NothingLeftBehind` | a shift ended on readings that were out of date when used |
| `House_late` | `AuthorisedOnce` | a card retried after the end of the shift authorises the next one |
| | `ClockAgrees` | removing a rider leaves his fleet record open |
| `Desk_refused` | `NeverToldNo` | the desk is refused over the passage, or the return, it has itself obtained |
| `Desk_steady` | `NoPassageOnAReturn` | a passage fixed on a package that is going home |
| | `RecordedOnce` | a second click after a lost answer records the entry twice |
| `Sos_lost` | `ReachedIsOnTheBoard` | a drain writes its list over an alarm appended meanwhile, which is then shown as received |

`RoadEnds` is checked for all but the rough settings: a restart of custody between the
accepted evidence and the automatic decision, followed by a killed app, leaves a
drop waiting for a decision by hand.

Because of these, some passing properties are stated for settings or states in which
the disagreement cannot arise, and the configuration that lifts the condition is
the one above:
`LeavesWholeUnlessPurged` against `LeavesWhole`;
`NeverToldNoForItsAct` against `NeverToldNo`; `RowsAreDelivered` (a row not replaced) against
`EveryCourseHasItsRow`; `PhoneNeverAhead` of a phone with one order; `NothingLeftBehind` and `AuthorisedOnce` of the orderly settings
(packages sealed while no request waits, the desk sweeps alone and is answered,
its card is heard); `CourseIsLeased`, `NoStrandedLease` and `AcknowledgedIsKept` where
`ByTheBooks`: no lease is acquired or released past the books, through the raw
command door, and no producer names again a task of an order that was retired
(`Dispatch_reused`). `OneAuthority` and `TaskHasOneHome` need neither.

### Fairness

* `CustodyWires`: the platform runs a set alarm and its steps (weak); a receiver
  asked for ever answers in the end (strong; a delivered row is never sent again,
  so no row can use up the successes of another); a client redelivers an act until
  it hears an answer; the founder's board, polled by the console, calls the
  reviver. The last two are strong because the gate holds requests back now and
  then. Nothing is assumed of crashes, secrets or other acts. The statement
  leaves the `arrivee` row out, since it may be erased, and asks of the drop's rows
  only that a pending row arrives.
* `Dispatch`: the clock advances and the board is read, console and phones polling.
  The founder, the producer and the riders owe nothing.
* `CourseWires`: the alarm's steps, the end of a purge and the deployment of a missing key (weak);
  custody, asked for ever, answers in the end (strong); the board is polled.
* `ColisCourse` (for `DecisionCompletes`; its run claims safety only): custody's ledgers are its own wires' receivers (above), so each ending
  is reported; a waiting relay goes on; the founder sends a decision of his again and again.
* `PackageClaim`: the producer's wire is at-least-once, so the order keeps asking
  (strong, the gate holding it back now and then); a claim is answered, and an open ends.
* `RiderRoad`: the rider does what his screen is there for (strong: the
  screen comes and goes with the answers), requests travel or time out, and
  the buyer, the founder and the supplier do what they owe. He need not do anything else.
* `House`: custody answers or fails, requests go on, the phone polls its session
  and the rider taps the end. The desk and the founder owe nothing.
* `SosLine` (for `AlarmArrives`): the app runs on, the phone is online again and
  again, and a drain is not cut for ever.
* `CustodySpine` and `Desk` claim safety only.

## 4. What is proved

Fifty-eight theorems over eight modules (the project file lists those a reader should
know of), and with them every safety property that a passing run checks, each for every value of the constants that satisfies the
named assumptions of its module. Each proof module strengthens its properties to an inductive
invariant, which TLC checked on the instances of section 3 before it was proved,
has one lemma per action or per conjunct, and combines them in a temporal step.

The assumptions are of three kinds. `NoneAssumption` says that the absence is none
of the values it stands beside (a JavaScript `null` is no id and no row).
`WorldsAssumption` says that a setting is made of the module's orders, tasks and
courses. The others say what the code guarantees of its ids: a console's command id
is none the object makes up, a bag lists each order once.

### CustodySpineProofs

Each invariant and action property of `spine`, and both refinements.
`PaymentBeforeHandoff`, or the agreement of the courier flag with the ledger, is not inductive,
because the guards that protect it read other flags. `SpineInv` ties them
together. Its core is `PhaseInv`: before the seal is consumed nothing of the road
has happened (`Untouched`), and afterwards the file is in exactly one of three
phases, `OnTheRoad`, `HandedOut`, `BackHome`, each fixing the courier flag, the
custodian, the delivery and the return. The key lemma is `NeverBegunTwice`: a
consumed custody seal can neither be presented nor re-armed, so `TakeCustody`
happens only from the untouched phase. `PhaseKept` then shows each action keeps or
moves the phase, and one lemma per remaining conjunct goes through the actions
that disturb it. `ImplementsFile`, which joins the spine to its outboxes, follows the same
phases: what `CustodyFile` calls the phase is read off the spine's (`PhaseRead`), and
`FileStep` shows each command to be a step of the abstract file or a stutter.

### CustodyWiresProofs

The three safety properties of `wires_road`, whatever the settings. The drop's rows have
an argument of their own (`DropStep`): no other step writes a first one of them or takes
one away, and a drop cut between its two puts has counted a crash. A receiver is told the truth because
a row exists only for a fact of the log (`RowsAreFacts`), and facts are never
taken back. What is hard is the pair of journey rows, which `flushTransit` writes
back from a copy: `CopyFits` and `CopyKnowsDeparture` say that the copy tells the truth,
forgets no delivery, and knows the departure if there was one, `WaitingFits`
that an awaited answer is about a row that was pending and still is, `ArrivedAfter` and `HomeIsHome`
order the phases of the file.

### DispatchProofs

SE-I01, and the queue's half of the books. `AuthorityInvariant` is about `LeaseAuthority` alone, under any commands:
versions name leases, only the newest grant of a task is active, no rider has
two. `DoorInvariant` carries it through every action of `Dispatch`, of the
state in memory and of the state last saved alike, which is why a restart keeps
it. `NamesHold` says that a task and a version name one lease for ever: every
replayed answer is about the lease it was about. `StoryInv` adds the queue and the
book in every setting: a course's row is in the queue under its order, an assigned
task belongs to exactly one course under way or completed (`OneStory`), and
whatever bears an id was given it (`Known`), so that a minted id is new;
`TaskHasOneHome` follows. The saved image satisfies the same, with the ids given since.

Its second half is of the books: `CourseIsLeased`, `NoStrandedLease` and `AcknowledgedIsKept`, where `ByTheBooks`.
That leases and courses are one for one (`Paired`) is not inductive, because a
command sent again is answered from two memories and every end of a course
releases under an id of its own making, which would be a replay if it was ever used.
`Recalled` says that the authority and the book remember the same course of a
console's command; `SaidOnce` that an id the object makes up is answered once and that
what it names is past; `Rooted` that the row of a lease's task is there; the last clause of
`Paired` that a course leaves its lease's task only once acknowledged, when that task is closed,
which is why a sweep, which speaks of task ids, ends the courses of the leases it ends
and no acknowledged one. `AcknowledgedIsSaved` carries an acknowledgement over a
restart. The assumptions on the constants are the code's: a console's command id
is none of those the object makes up (`cmd-console-assign-...`, the console's `main.ts`),
and the clock's instants up to the bound are in `Time`.

### ClaimHouseProofs

Two components that share nothing. Of the claims, `ClaimInv` says that a held marker is the claim's (`HeldIsClaimed`), that a won answer
on its way is what the claim object says (`WonIsClaimed`), that an open on its way is
about the package of the file it would heal, one per object (`AnswerFits`, `OneHop`), and
that custody began under a claim that is still held (`BegunHeld`). `FilesImplementOwner` follows: the file that begins
custody is the claim's, and the claim never changes hands.

Of the house, `AuthorisedOnce` (`OneShiftEach`) where the desk hears what was taken, with seals,
sweeps, courses, outages and restarts as they come: a command is minted past every other (`LogPast`), and
while its card is on the desk it stands in no row and ended no shift (`CardUnused`).
`NothingLeftBehind` (`EndsOnNoGuess`) where packages are sealed at rest and the desk's sweeps are
alone and answered, as in the run `house`. Three lists must agree for it: what the facts
say, what the book gives him, and what custody knows. `Accounted` says that a package with the rider
is in the facts, in a course he is doing, or being asked for by the sweep that took its
course away; `AccountedOnDisk` the same of the facts a restart reads back, which are
stored only at the end of a request and once a sweep; `AskedAll` that the end of a shift asks
for all he holds, and `ReadingsTrue` that no answer on its way denies it.

### CourseWiresProofs

The safety properties of `course_road`, and `ArmedMeansEveryKey`, which the run's
instances satisfy too. The alarm writes rows back as it read them, so
`DoneMeansItsCode` cannot be shown of memory alone. `CodeInv` relates, order by order,
the three rows that may still be sent: the one in memory, the one in storage and
the one the running alarm holds. A course under way that custody has answered has its code
there, and none of the three names another course (`CodeAt`); one whose row is in
memory, or read, finds no other's in storage (`RowAt`); a row is done only once custody
answered its course (`DoneAt`). Under way is said of memory or of storage, because a purge
ends a course in memory only and a restart brings it back. Each step is then one of five ways in
which the three rows move (`RowsMove`), but for an assignment, whose id is
new (`KnownAt`), and an arming. `ReturnsAreKept` rests on `ReturnInv`: memory and storage
differ, between an alarm's write and its store, in nothing but which articles have
their keys. `KeyInv` says that whatever claims those keys, in memory, in storage or in
the alarm, claims keys that custody has; keys are never taken back.

### ColisCourseProofs

The four properties of `colis_road`, for any bag. `BookInv` gives each course under
way its task, and each course swept by a retirement its end. That a course ends as custody
ended its articles needs the words on their way and the fleet book as well
(`WordsInv`: each is of the place where the ledger stands, and places are final),
with `SettledInv` for the book of courses. The decision of return: articles only leave a course and
ledgers forget nothing, so what the relay has behind it stays behind it (`RelayInv`).
A bag leaves whole because an article with a funding fact has its membership unless a
whole bag is being retired (`NamedInv`), and the gate asks every member. `WholeBagIsSettled` is the
longest: where nothing may be taken out of the bag (`StillWhole`), there is one open task and
one course engaged, which leaves the supplier's once, with every article
(`RoadInv`), so the word a ledger says of its end always finds the course that waits
for it. `First` is a minimum over the bag's positions, obtained from the well-foundedness of `<`
(`FirstTravels`), without induction over the sequence.

### DeskProofs

The three properties of `desk`, for any number of sends. « Passage fixé » is about the
phone's window because one command id stands for one window on the road, on the
desk and in the door's memory (`WindowInv`). A founder who neither changes his
mind nor loads his page again asks under one id for ever, which is why his own
act cannot be what refuses him: `SteadyFix` for the passage, `SteadyHome` for the
return, where `CustodyInv` adds that custody answers an id one way and never both.
One moto per rider holds in every setting (`Handed`).

### RiderRoadProofs

`PhoneNeverAhead` and `NeverToldNoForADoneAct`, for any number of losses, restarts and killings,
of a phone with one order (of two, `SpecOfTwo`, the first is refuted: `Road_next_course`).
The first rests on `Grows`, what custody's record never takes back, shown of every door:
so an answer true when it was given, wherever it is (on its way, in custody's log, on the
screen, on the disk), is true when it is read (`Truthful`). A kill changes ids, and a late answer
may be that of an act the rider has forgotten, but none of them says more than the record does. The second
is about identity and holds while the app lives. An act's requests carry the one id
the phone holds for it (`OneId`), an act done has its answer under that id (`DoneRow`),
and the phone changes ids only on a « wait » of its own (`WaitRow`), so that the id that did
the act is asked again with its own answer in the log. The drop is apart: its two codes
share a phase, two of its ids may be about, and custody answers it from the record.
`AnsweringAlways` is the whole, `Answering`, for every setting.

The proof found the module at fault once. TLA+ leaves the choice open between two true
guards of a CASE, where the code's `if` chains are ordered and TLC takes the first arm: ten doors
written as CASEs were not what the code does to a prover. They are chains of IF now,
with the same states.

### Model-checked only

`SosLine`, whose run claims nothing that holds, and liveness
under fairness: `RoadEnds`, `FreeRiderEnds`, `AskedAgainHolds`, `UnansweredCourseEnds`,
`ReturnKeysArrive`, `RowsAreDelivered` and `EachWireReachesItsReceiver`. It is outside the prover's reach, as are
ENABLED and induction over data (the ledger's hash chain).

## 5. Plan

Left, in order of weight:

1. The door's replay of a command id with another body, and custody's integrity guard.
2. The console's intake, rider and removal desks, which share the shape of `Desk`.

### Not modelled

* *Stateless parts*: both routers, the evidence service, the shared packages
  (mirrors of contracts, a flags reader, a logger), the UI and its rendering.
* *Seeds nothing calls*: `custody-transition.ts`, the ops monitor, the offline evidence
  queue and `armReturnKeys` of the spine.
* *Accounts with no protocol*: fleet utilisation, the motos' documents, the log of
  courses and the delivery cost's arithmetic.
* *Checks on content*: the hash chain and the integrity self-check, the ramassage
  handshake's code, the door-reference door of the object, addresses and briefs.
* *Other actors*: Shop+, the payment provider and the buyer, which appear as the
  environment's choices; the vendor's retrait desk; the sign-in.
