# A TLA+ verification of QueueFair

QueueFair is a virtual waiting room in front of a ticket sale. This directory
models the two services in `src/` in TLA+, checks them on small instances
with TLC, and proves the properties that matter most for every instance with
TLAPS. It says what the code does, not what the documents hope; where the two
differ it shows a counterexample (see *Where the code and its documents
disagree*).

    tlc -config MCRateEnvelope.cfg MCRateEnvelope  # any run: its cfg and its MC module
    tlapm EventQueueProofs.tla                     # any of the eight proof modules

`PROJECT.json` lists the runs, the mutants that show each property can fail, the
source lines behind each definition, the hazards of the code and the theorems.

## 1. The system

### 1.1 Components

**Event queue in Redis** (`queue_service/lua/*.lua`, `core/keys.py`,
`api/management/commands/create_event.py`).
*State*, per event: a sorted set `queue` (token -> arrival number), the counters
`seq` and `admitted`, the hash `bucket` (tokens, last refill), the hash `config`,
and one key `pass:{token}` per admitted waiter.
*Operations*: `join.lua` (idempotent arrival), `admit_batch.lua` (refill, pop,
count), `position.lua` (read only), `create_event` (write the configuration;
with `--reset` delete four keys first).
*Hard*: a place is told in two ways, by arithmetic on two counters and by a rank;
they are right only if no command ever burns a number, repeats one or counts an
admission that did not happen.
*Correct if* numbers in the queue are gap-free, both ways agree, nobody is
overtaken, a place only moves by admissions, and whoever is queued is called in the
end although every call refills only a fraction of a token.

**Admission rate** (`admit_batch.lua:65-97`, clock of `adapters/admission_factory.py`).
*State*: the bucket. *Operation*: refill and spend, with the clock reading of
whoever calls. *Hard*: every process has its own clock and reads it before it
awaits Redis. *Correct if* no stretch of time admits more than a burst plus the
rate times its length.

**Admission controller** (`core/admission.py`, `adapters/queue_repository.py`,
`adapters/pass_issuer.py`, `api/management/commands/run_admitter.py`).
*State*, per process and between two awaits: its clock reading and the batch it
popped. *Operations*: read the clock, await the script, sign, await a pipeline of
`SET ... EX`, sleep; on an exception log and sleep.
*Hard*: replies are lost and commands repeated by the client, a pipeline is not a
transaction and each of its SETs may be refused by itself, the process dies between the
pop and the passes, two processes work on one event, the life of a key and that of the
pass in it are counted from different moments. *Correct if* every waiter popped is
accounted for exactly once, a batch's passes appear in order, a pass is in its key as long
as it is valid (and no longer), no pass gives way to that of an earlier stay, and nobody
hangs between queue and pass. Section 5 says where the code differs.

**Waiter API** (`api/views.py`, `core/state.py`, `core/validation.py`) and the
browsers behind it. *State*: none in the service; a cookie per browser, and what
each tab shows. *Operations*: `POST /join` takes the token of the cookie or of `?t=`, or mints
one, runs `join.lua`, answers a place and sets the cookie; `GET /position` answers
place, pass, or 404; both answer 503 when Redis fails.
*Hard*: tabs share a cookie none may have yet, answers are lost or late, a page
load is a join, a waiter is for a moment in neither the queue nor a pass key. *Correct if*
every answer is of one instant, what a tab shows only improves, nobody whose turn it is is
told that he is unknown, and a browser has one place.

**Booking transaction** (`booking_service/bookings/booking.py`, `models.py`,
`views.py`). *State*: the rows of `Event` (capacity, tickets_booked) and
`Booking` (unique `jti`; unique user per event). *Operation*: `book_ticket`: two
SELECTs, a conditional UPDATE, an INSERT, COMMIT; on a constraint violation roll
back and search again. *Hard*: statements of concurrent transactions in READ
COMMITTED, rollbacks, workers that die, clients that retry. *Correct if* no event
is oversold, counter and rows agree, every answer is true, retries find their
booking, and nobody waits for ever.

**Pass verification** (`bookings/tokens.py`, `authentication.py`, `views.py`).
*State*: none; what it decides by is in the pass and on the booking host's clock.
*Operation*: `POST /events/{id}/book` checks signature, `exp`, `iat` and event, then
calls `book_ticket`. *Hard*: the times in a pass were written by another host, and a
pass can be collected early, late or twice. *Correct if* behind every ticket is one
wait, and passes that would be let in do not pile up.

**Admin site** (`admin.py`, the constraints of `models.py`). *State*: the pages staff have
open. *Operations*: load an event's page, edit any of its fields, `tickets_booked`
among them, submit it, add and delete events and bookings. *Hard*: a page is
submitted at any later time with every field it was loaded with, next to open
transactions. *Correct if* the constraints hold whatever staff do, nobody but staff
loses count, and no request is stuck behind them.

**Redis client and health view**, **mint_token**, **settings, URLs,
migrations**, and the **SSE stream, fan-out and frontend** that the documents
describe and this commit does not contain: see *What is not modelled*.

### 1.2 How they interact

    browser tabs --POST /join, GET /position--> queue views --EVALSHA--> Redis
    admitter processes --EVALSHA, pipeline of SETs-----------------------^
    browser <--pass (JWT)-- GET /position
    browser --pass--> booking views --SQL--> PostgreSQL

The queue service and the booking service share no state; the pass, signed by one
and verified by the other, is all that joins them. A Lua script is atomic in
Redis; nothing else on the queue side is. On the booking side a row lock is held
from the UPDATE to the end of the transaction; the reads before it are not
protected by anything.

## 2. The modules

| Module | Models | Extends |
|---|---|---|
| `TokenBucket` | the arithmetic of the refill and of the batch size | |
| `EventQueue` | the Redis state of an event; one action per script, two for `create_event --reset` | `TokenBucket` |
| `FairLine` | abstract: a line people join at the end and leave at the head | |
| `RateEnvelope` | calls of `admit_batch.lua` with late and reordered clock readings, and the admissions of any stretch of time | `EventQueue` |
| `AdmissionLoop` | `run_forever` in several processes with failures, and the pass keys | `EventQueue` |
| `Drain` | an event that is never over, with admitters that go on calling and time that goes on passing | `EventQueue` |
| `WaiterView` | browsers, tabs, cookies, the two views, lost answers, next to the admitters | `AdmissionLoop` |
| `PassGate` | collecting a pass, its verification by another host's clock, the sale | `AdmissionLoop`, instance of `TicketSale` |
| `TicketSale` | abstract: a box office that sells one ticket at a time | |
| `Booking` | `book_ticket`, one action per SQL statement | |
| `BookingAdmin` | staff at the admin site next to `book_ticket` | `Booking` |
| `EventQueueProofs`, `RateEnvelopeProofs`, `DrainProofs`, `AdmissionLoopProofs`, `PassGateProofs`, `WaiterViewProofs`, `BookingProofs`, `BookingAdminProofs` | theorems | their module, the proofs it builds on, `TLAPS` |
| `MC*` | constants for TLC | their module, `TLC` |

An operator commented *Fault* is a variant of the definition next to it with a
plausible bug in it. No specification uses it; it is there so that a run can be
repeated with the bug and seen to fail.

### 2.1 Correspondence with the code

`EventQueue`. `queue`, `seq`, `admitted`, `bucket`, `config` are the five keys; a
key that does not exist is the empty function, 0, `NoBucket`, `NoConfig`. `Join`
is `join.lua` to its last line: a token that is queued consumes no number.
`AdmitBatch(now)` is `admit_batch.lua` with both early returns in its guard
(`AdmissionClosed`), the first call's full bucket (`OpenBucket`), the refill that
credits nothing when the clock stepped back (`Elapsed`) but still writes the older
reading, and the pop that runs only for a positive batch. Configurations are any
integers because `create_event` takes any: a paused event (rate 0) and a mistyped
one (negative batch) are in the runs. `ResetState` and `PutConfig` are apart
because `DEL` and `HSET` are, and the command may die between them. Redis orders
equal scores by member; `Dense` shows that there are none.

`RateEnvelope` adds a clock, and calls whose reading is at most `MaxLag` old.
`window` is a history variable: it opens at an arbitrary call and counts what is
admitted from then on, so an invariant about it speaks of every stretch. A stretch does not reach
over a call with a negative `batch_max`, which pays tokens into the bucket.

`Drain`. `Call` is a tick of any admitter as Redis sees it. A behaviour has no end here, so
time is counted backwards from the present (`Times` are ages, negated; `Pass` makes the
last refill older, up to `Horizon`, at which every bucket is full anyway) and arrival
numbers from the last admission (`Renumber`). The scripts use differences of readings and
of numbers only, so nothing they do changes.

`AdmissionLoop`. A process is asleep, calling (its reading taken, the script not
answered) or recording (the batch popped, some passes stored). `ScriptAnswered`
runs the script and takes the reply; `ScriptReplyLost` runs it and loses the reply;
`ScriptNotRun` never reaches Redis, or Redis refuses it. `Again` is the client's repetition
after a connection error or timeout, up to `MaxRetries`, then the `except` of `run_forever`;
an error reply goes there at once. The pipeline is sent with `transaction=False`, so Redis
answers each SET by itself: `StorePass` is one that is executed, `RefusePass` one that is
answered with an error, with the later ones executed all the same. redis-py raises the first
error after the last reply and repeats nothing, so `FinishTick` ends the tick either way and
strands whoever was refused (`Owed`). `PipelineFails` is a broken connection, after any
number of the SETs: all of it is sent again, or the tick ends; `Die` is a kill or
a cancellation at any await. A pass keeps its number, `exp` (whole seconds from the
tick's reading, as `PassIssuer.issue` floors it) and `until` (when Redis deletes the
key, counted from the SET). `arrivals`, `recorded` and `stranded` are history.

`WaiterView`. A tab is idle, joining, polling, or has an answer under way. `LoadPage`
takes the cookie's token, the one of the page's `?t=` link, or one that is minted; `JoinServed`, `JoinRefused`, `JoinBroken` are
the ends of the view (answer, 404, repetition or 503, the latter at once when Redis refuses the
script); `ShowAnswer` is the arrival of
an answer and the only place that sets the cookie; `ShowNothing` is a 404 or an
answer that never arrives. `PollAnswer` looks at the queue first and at the pass
second, as `position.lua` does.

`PassGate`. A pass is collected (`Collect`, the admitted answer of `GET /position`) into
a wallet and may be used at any later time. `Verified` is `jwt.decode` by the booking
host's clock, which is `skew` ahead of the queue's: PyJWT refuses a pass that has
expired and one whose `iat` is in its future. `Book` is the whole of `BookingView.post`
when it makes a booking, by `TicketSale!Sell`; every other end changes nothing.
`Booking` is shown and proved to implement `TicketSale`, so its transactions may stand
there in place of the sale. `rewound` is history: for each number, how far late readings have
set `last_refill_ms` back since it was called (`SetBack`, the HSET of `admit_batch.lua:97`).

`Booking`. `req[r].at` names the next statement of `book_ticket`. The conditional
UPDATE is `ClaimTicket` (matches, locks the row) or `ClaimNothing` (the committed
row is full or missing; it does not wait). Waiting for a lock is the action not
being enabled; re-evaluating the WHERE clause after the wait is the guard being
evaluated when it is. `InsertBooking` violates a constraint only against committed
rows and waits for uncommitted ones. The increment becomes visible at the commit.
`Commit` may end without an answer (the worker died after it), `Die` is a death or a
lost connection before it. `capacity` is the set of rows of `Event` with their capacity;
`book_ticket` never writes it.

`BookingAdmin`. `forms` holds the pages that were loaded and, by `TypeCount`, edited; a page
may be submitted once, again, or never. `SaveEvent` is a submission: all fields are written
back, `event_not_oversold` (the `CheckConstraint`) is the only check on the numbers, and the
UPDATE waits for the row's lock. A submission is one transaction with one write, so it is one
step. `DeleteEvent` is refused when a booking refers to the event (`PROTECT`); `AddBooking` and
`DeleteBooking` do not touch the counter, as `BookingAdmin` in the code does not. An edited
booking is a deletion and an addition; an edited `event_id` is a new event, because the key of
a page that is submitted says which row is written.

## 3. What the runs check

| Run | Question | Distinct states |
|---|---|---|
| `event_queue` | Do two counters and a sorted set behave as one fair line, and what rate does the bucket guarantee with late clocks? | 99,428 |
| `rate_contract` | Is it the documented one? *(no)* | |
| `admission_loop` | Is every waiter who was popped accounted for, in order, with a pass that stays while it is valid, and does anybody hang between queue and pass? | 134,194 |
| `pass_gate` | Is every ticket backed by a wait, is the crowd at the gate bounded with late readings, when does a pass give way to an older one? | 1,025,824 |
| `drain` | Is everybody who is queued called? | 6,645 |
| `live_pass` | Is a live pass always shown? *(no)* | |
| `waiter_view` | Are answers consistent and never worse than the last? | 944,281 |
| `unknown_early` | Is only who is past his turn told that he is unknown? *(no)* | |
| `one_place` | Does a browser hold one place? *(no)* | |
| `booking` | Are concurrent transactions a box office, and are answers true? | 124,876 |
| `booking_admin` | What survives the staff, and is every request answered? | 129,024 |
| `booking_replay` | Is a retry ever told *sold out*? *(yes)* | |

`event_queue`: `Dense` (numbers gap-free), `PlacesAgree` (the join's arithmetic is
the poll's rank), `FirstComeFirstServed`, `PlaceFollowsAdmissions` (a place falls by
exactly the number admitted), `IsFairLine` (refinement of `FairLine`) and
`RateWithRewinds`, the exact guarantee: every set-back of the refill
time is credited once more. It runs under `EnvelopeSpec`, whose steps are those of
`EventQueue` with readings up to `MaxLag` old. `admission_loop`: `EveryAdmissionAccountedFor`
(recorded, stranded or in flight, exactly one), `PassesInBatchOrder` (whoever of a batch is
passed over had his SET refused), `KeyCoversPass` (the key does not go before the pass; that it
stays after it, section 5 reports) and `PoppedIsSettled`.
`pass_gate`: `GateTypeOK` (one pass per place, never renewed), `EveryTicketWaited`,
`OnlyOlderBatchesPutBack`: a slow process can put a token's pass back to that of its earlier stay
(section 5), and this is the only way it
happens: the pass that gives way is later than the whole batch the other one is in, so no
repetition of a pipeline and no order within it does it, and with one process it does not happen.
`CrowdBounded` (of those who can enter at one moment, a pass and the later ones
are at most a burst plus the rate over a pass's life, plus what late readings were credited twice
since). It holds for a booking
host that is slow because `jwt.decode` also refuses a pass from its future: with that
check dropped the run finds a larger crowd, so `iat` is load-bearing, contrary to the
remark in `pass_issuer.py:43`. With two admitters the term
`rewound` is needed: without it the bound is exceeded, which is what `rate_contract` comes to
at the gate. `MaxBurst` and `MaxRate` are the largest numbers staff have
configured; a negative `batch_max`, which `create_event` accepts, makes the script pay tokens into
the bucket without limit, so no bound holds of such a configuration and `Metering` leaves it out.
`drain`: `EveryoneIsCalled`: from some moment on the event
is not paused and a single waiter fits into burst and batch, and everybody who is queued then
leaves the queue. It rests on fractions of a token being kept between calls; a burst of 0, which
`create_event` accepts, freezes the queue for good, and is among the configurations of the run.
`CreditIsKept` and `PlacesMoveUp` are its ranking. `Credit` is the bucket plus the rate over the age
of the last refill, uncapped: a call that admits nobody keeps it, however late its reading; time
adds to it; and once it covers a token beyond the worst lag, the next call moves everybody forward.
`waiter_view`: `AnswersOfOneInstant`, `ShownOnlyImproves`,
`UnknownWasCalled` (only somebody who was called hears that he is unknown: what the code
keeps of `UnknownMeansGone`, which `unknown_early` refutes).
`booking`: `LockProtocol`, `CounterMatchesRows`, `NeverOversold`,
`HoldersNeverWait` (no deadlock: the INSERT, made with the event's row locked, finds no
uncommitted row in its way), `LoserFindsWinner` (the re-raise at the end of `book_ticket` is dead code),
`AnswersAreTrue` (a *sold out* is final), `LateReplayFindsBooking`, `IsTicketSale`.
`booking_admin`: `AdminTypeOK` (the lock protocol holds next to staff), `CounterWithinCapacity` (with
the increments still to be committed: a resize cannot make a commit fail), `BookingsHaveEvents`
(deleting an event next to a transaction that has claimed a ticket), `RequestsCountRight`
(counter and rows differ by what staff did, and no request adds to it), `EveryRequestEnds`.
`CounterMatchesRows`, `NeverOversold`, `AnswersAreTrue` and `LoserFindsWinner` are statements about
`book_ticket` alone: next to staff a stale page un-counts bookings and more rows than seats are
sold, a deletion falsifies an answer already given, a request may lose to a booking that is
deleted before it looks again, and an event created between the UPDATE and `exists()` is
answered *sold out*.

### 3.1 Bounds, and why they are enough

* `Unit = 2` units in a token instead of 60000 keeps half tokens, which is what
  fractional refills are about; rates 1 and 2 give fractions and whole tokens.
* `MaxSeq` bounds arrivals since the last reset. 6 with three tokens lets everybody
  be popped and return; a reset sets it back, so there is no bound on an event's lives.
* `Times` is 0..2 or 0..3: with `MaxLag = 2` three readings can arrive in every order,
  and one out of order is all the counterexample needs. `MaxRewound = 3` bounds how far
  one window is set back (a set-back can be repeated for ever).
* `admission_loop`: two admitters, two tokens, two arrivals: a batch of two, or a token that is
  popped by one process, returns, and is popped by the other while the first still holds the old
  batch. `MaxRetries = 1` instead of 3 has both outcomes of a failure, repeat and give up.
* `pass_gate`: two admitters without repetitions (`MaxRetries = 0`), three arrivals, a full burst
  of 2 and half a token per tick are the least that exceed the bound when a check is missing;
  three readings let one be late by two ticks, which is enough for a third pass that the rate
  alone does not pay for. The booking host's clock is right, a tick behind and a tick ahead.
  Three arrivals of two tokens are also the least with which a pass gives way to that of a batch
  of two. The theorems have any number of repetitions.
* `live_pass` has one admitter, `unknown_early` one tab and one token.
* Two tabs of one browser, one emptied jar: the smallest instance in which a cookie is
  set, shared, lost and replaced while the other tab remembers the old token. There
  `MaxRetries = 0`: a repeated script is a later `LoadPage` with the same token.
* Three requests, two tickets, a person with two passes, a pass for an event with no
  row: both constraints, the last ticket and the 404 are reached.
* `booking_admin`: two requests of two people, one event, sizes 0 and 1: pages that are stale by
  one booking, an event that is full, emptied, resized, deleted and created again. A request
  that is served again and again while its transactions are rolled back is already enough to
  starve the other without strong fairness.
* `drain`: three tokens that return for ever, four numbers between renumberings, a third and two
  thirds of a token per tick (`Unit = 3`), readings up to one tick late, a full bucket after
  three ticks (`Horizon = 4` with the lag). There is no bound on the length of a behaviour.
* Symmetry is declared on tokens, processes, tabs and requests that no definition tells
  apart, and on none of the runs with a liveness property.

### 3.2 Fairness

`admission_loop` assumes weak fairness of the steps of a process that does not
fail (`LoopFairSpec`): asyncio resumes a task whose await is done, and every Redis
command ends in a reply or an exception (`socket_timeout` is set in
`redis_client.py`). Failures, joins and the clock are under no fairness; a process
that fails at every tick satisfies the property by stranding, never by hanging.
`booking_admin` assumes weak fairness of a request's own statements (a worker that
started goes on) and strong fairness of the UPDATE that waits for a row (PostgreSQL
queues the waiters of a lock; weak fairness would let others take the lock each time
it is free). Staff are under no fairness; they may submit for ever or never.
`drain` assumes weak fairness of `Call` (`run_forever` comes back after every tick, whatever the
tick raised, and Redis is reached again and again; a call that reaches it runs the whole
script, whether or not its reply arrives), `Pass` (time passes) and
`Renumber` (which is no step of the code). The calls may carry the oldest reading each time.
Neither joins nor staff are under any. None of the three assumes that a client retries or
that an operator does anything.

## 4. What is proved

TLAPS checks the following for every value of the constants that satisfies the named
`ASSUME`s (any tokens, integer configurations, clock readings, requests, passes and
capacities).

**`EventQueueProofs`** (`QueueInvariant`): `TypeOK /\ Dense` is inductive. It is
needed as a whole: that a pop takes a prefix of the numbers (`PopMinIsPrefix`) rests
on `RankIsArithmetic`, rank = number - admitted - 1, which is counting in an interval
and holds only if the numbers are gap-free; and that they stay gap-free rests on the
pop taking a prefix. `PlacesAlwaysAgree`, `ServedInOrder`, `PlaceMovesByAdmissions`,
`QueueTypes` and `EventQueueIsFairLine` (`Join` maps to `FL!Join` or a stutter, a pop to
`FL!Call(n)`, a reset to `FL!Clear`) follow from it.

**`RateEnvelopeProofs`** (`RateWithinRewinds`): the invariant is the property with
`EnvelopeTypeOK` on top of `Dense`, inherited through `EnvelopeImplementsQueue`.
A batch moves tokens from the bucket to the count (`ChargeEach`), a refill is paid by
the time that passed (`CreditApart`), and a set-back moves time from
`last_refill_ms` to `rewound`, once for each side of the inequality. A call with a negative
`batch_max` pays into the bucket; it ends the stretch (`PayingKeepsEnvelope`), and the next one
starts from a refill that is capped again.
`EnvelopeTypes` is its first part. `ContractWhenFresh`: with `MaxLag = 0` nothing is ever
set back and the documented contract holds.

**`AdmissionLoopProofs`** (`LoopInvariant`): for any processes, configurations and number
of repetitions. `LoopInv` is types, `TypeOK /\ Dense` of the queue, `Lined` (a number in the
queue belongs to the token that arrived with it), `Hands` for each process (its batch has
distinct numbers below `admitted`, with their own tokens, and is recorded from its
beginning but for those that were refused), `Ledger` (recorded, stranded and the batches cover 1 .. `admitted` and do not
overlap) and `Kept` (what each pass key holds). The property alone is not inductive: that a
reply carries exactly the numbers the counter just passed (`ReplyFacts`) needs `Dense`, and
that a repeated pipeline keeps the order needs to know which of its commands were executed.
The steps fall in four kinds, a lemma each: a process keeps its batch (`SameBatch`), lets it
go (`LetGo`), takes a reply (`ReplyTaken`) or loses one (`ReplyForgotten`); `StorePassOK` is
the fifth. `LoopTypes`, `AdmissionsAccountedFor`, `BatchesStoredInOrder` and
`PassesKeptWhileValid` follow. `OnlyOvertakenPutBack` holds for any number of processes and needs
one thing more: a batch has no gaps, as only consecutive numbers are popped together (`Whole`,
kept by `WholeKept`). A key for a token of the batch whose pass has a larger number than the
batch gives that token has one that is larger than every number in it (`BeforeOrAfter`).
The module also states what any step of the loop does to the queue and to the history
(`QueueMoves`, `HistoryGrows`), which the two modules below build on. `BatchesRunDown` is the part
of `PoppedIsSettled` that needs no fairness: with a batch in hand a step spends one of `MaxRetries`,
or has one pass less to store, or lets go with everybody in it stored or stranded.
`HiddenByLaterJoin` is what is left of `LivePassIsShown`: a place that hides a pass was taken
after the pass was earned.

**`DrainProofs`** (`DrainInvariant`): `TypeOK /\ Dense` again, with `Pass` and `Renumber` keeping
it; `DrainTypes` follows. `NothingIsForfeited` proves `CreditIsKept`: a call that admits nobody
found less than a token (`NobodyMeansPoor`), so the cap at a full burst did not bite, and a refill
pays at least for the time the reading moved (`RefillKeepsCredit`). `LineMovesUp` proves
`PlacesMoveUp`: a token that is due is found by a reading of any lag (`DueIsFound`), and then the
batch is not empty (`RichMeansBatch`). `WaitingBecomesDue`: a refill as old as `Horizon` makes a
token due at any rate. Together they are a ranking of (place, missing credit); that fairness makes
it run down is left to TLC.

**`PassGateProofs`** (`GateInvariant`): on top of `LoopInv`, what a pass in the wallet or in a
key says is fixed by the number it was given (`SignedOnce`): the tick that popped the number is the
only one that ever signs for it, so every copy has the same expiry, and the batch in a process's
hands agrees with what was stored of it before. `OnePassPerPlace` and
`TicketsWereWaitedFor` follow.
`CrowdAlwaysBounded` composes this with the rate, for any number of processes and
configurations that meter. `CrowdInv` adds `Pace` (what the counter has gained since a number was
popped, and what the bucket still holds, is paid for by one full bucket and the time since, with
what was set back since then counted twice) and, from it, `Spread` (two numbers that were issued
are as far apart in time as they are in the line). A reading that is late is credited nothing, so
the time of the refill and `rewound` together stay where they were; one that is not is credited the
time that passed (`SetBackIs`, `CallCharge`). What a step issues anew was popped by the process
that called the script, with the reading of that call (`NewlyIssued`). One moment of the
booking host's clock accepts passes of less than one life only (`iat` on one side, `exp` on the
other), so the numbers accepted from a first one on lie within an interval that the bound pays for
(`Packed`).

**`WaiterViewProofs`** (`ViewInvariant`): for any browsers, tabs and admitters. The central
part is `Dated(t, n, place)`: what was once told of stay `n` of token `t` is still true or has
become better than true, or the token was given a later number. Every step of the loop keeps
it (`DatedKept`, from `QueueMoves` and `HistoryGrows`), so an answer may be late by any number
of steps, and two answers of one stay are comparable whichever way they were computed
(`RankIsArithmetic`). `BrowsersUseTheirOwn`, `AnswersAreOfOneInstant`, `PlacesOnlyImprove` and
`UnknownWereCalled` follow; the last takes from `Ledger` that a number which left the queue is
recorded, stranded or in flight.

**The refinements**, end to end:

    WaiterSpec --\                             (WaitersImplementLoop)
                  >--> LoopSpec --> Spec --> FairLine's Spec
    GateSpec ----/  \       (GateImplementsLoop, LoopImplementsQueue, EventQueueIsFairLine)
                     \--> TicketSale's SaleSpec    (GateImplementsSale)
    Booking's Spec ------> TicketSale's SaleSpec    (BookingSellsTickets)

`LoopIsFairLine`, `BrowsersStandInLine` and `FairLineToBoxOffice` are the compositions: processes
that fail, browsers and booking hosts do to the event only what the scripts can do, so what is
proved of `EventQueue` and of the loop holds with them. That nobody is sold two tickets and no event
more than it has is not proved of `PassGate`, whose `Book` is the abstract sale, but of the code that
implements it (`NeverSoldBeyond`, `OneTicketEach` in `BookingProofs`).

**`BookingProofs`** (`BookingInvariant`): `Inv` is types, `Tables` (rows are on events
that exist, no two conflict, counter = rows <= capacity), `Locked` (who is in a
transaction holds its row's lock, and only he) and `Sound` (what each place in the
code implies about the rows, for answers and replays). `Tables` alone is not
inductive: the commit preserves it because `Locked` makes the committer the only one
in a transaction on that event, so the room his UPDATE saw is still there.
`LockAlwaysHeld`, `CounterAlwaysMatches`, `NeverSoldBeyond`,
`LoserAlwaysFindsWinner`, `AnswersAlwaysTrue`, `LateReplayAlwaysFinds` and
`BookingSellsTickets` follow, the last one from `CommitSells` (a commit is one sale) and
`OnlyCommitsSell` (no other step touches the committed rows). So does `HoldersProceed`: two passes
that conflict are for one event (a `jti` is one pass), and its row has one holder.

**`BookingAdminProofs`** (`AdminInvariant`): types and the lock protocol, `Room` (a counter is
within the capacity, with one to spare while its row is locked) and `Rows` (every booking has its
event, and a row that waits for its COMMIT is new). Each open transaction holds its row's lock, so
there is at most one on an event and a submission, which needs the row free, finds none. `AdminTypes`, `CounterAlwaysWithinCapacity`, `BookingsAlwaysHaveEvents` and
`RequestsAlwaysCountRight` follow, and `HoldersProceedDespiteStaff`: the argument above uses the lock
protocol only.

*Model-checked only*: the three liveness properties `EveryoneIsCalled`, `PoppedIsSettled` and
`EveryRequestEnds`. Liveness under fairness is out of the prover's reach; what of them needs no
fairness is proved (`NothingIsForfeited`, `LineMovesUp` and `WaitingBecomesDue`; `BatchesRunDown`;
`HoldersProceed`). Every other property of the passing runs is a theorem.

## 5. Where the code and its documents disagree

Each of these runs ends with a counterexample; `PROJECT.json` quotes the lines.

1. `rate_contract`: an older clock reading credits nothing but is written back
   (`admit_batch.lua:97`), so the interval is credited twice and more is admitted than
   the script's header and the design document allow.
2. `live_pass`: a page load is a join, and a join re-queues somebody whose pass is
   waiting (`join.lua:51`); `position.lua` then answers with a place.
3. `one_place`: tabs that load before the first answer has set the cookie are given a
   token and a place each.
4. `unknown_early`: a poll between the pop and the SET is told `unknown_token` with nothing
   failing; `position.lua`, `queue_repository.py:111` and `decisions.md:426-428` say that this
   means never queued or expired.
5. `booking_replay`: a double tap on the last ticket can be answered *sold out* although
   its pass holds the ticket; only an IntegrityError searches again.

Two more are smaller, and have a configuration (`tlc -config MCDeadPass.cfg MCAdmissionLoop`,
`tlc -config MCTwoAdmitters.cfg MCAdmissionLoop`, both end with a counterexample) but no run in
`PROJECT.json`:

6. `KeyNeverOutlivesPass`: the life of a pass is counted from the tick's second
   (`admission.py:57`, `pass_issuer.py:45`), that of its key from the
   SET (`queue_repository.py:201`), so the key outlives the pass and `GET /position` hands out
   what the booking service refuses. The docstring of `record_admissions`
   (`queue_repository.py:182`, "the key cannot outlive the credential it holds") and the tests
   `test_admission.py:83` and `test_admit_batch.py:321` say that it cannot. The tests compare two
   numbers of seconds that are counted from different moments. What does hold is `KeyCoversPass`.
7. `PassesOnlyMoveOn`: the SETs of two processes are under no order, so a slow one puts the pass of
   a token's earlier stay in the place of the later one's, with no failure, although several
   processes are said to be safe (`admission.py:7-10`, `run_admitter.py:3-6` and `29`). The script
   orders the pops, not the SETs that follow them. What does hold is `OnlyOlderBatchesPutBack`.

## 6. What is not modelled, and why

* **Signatures, header syntax, claim types**: only passes that were issued are presented.
  A request that passed the verification and is slow sells later than `Book` does; no
  property depends on when.
* **Doubles**: the bucket's tokens are exact here. Rounding over many refills is out of
  TLC's reach.
* **Waiting-time estimate, syntax checks, HTTP methods**: no state depends on them. A `?t=` that
  was copied to another browser is not modelled: `WaiterView` lets a tab use the tokens of its
  own browser only.
* **Abandonment**: `position.lua:13-19` says that the arithmetic on two counters drifts from the
  rank whenever somebody leaves the queue from its middle. No code path removes anybody but at the
  head, so `PlacesAgree` holds; it says nothing of a queue that people can leave.
* **Several requests of one tab at once**: a tab of `WaiterView` has one request outstanding and
  waits for its answer, or gives it up, before the next. Nothing in the services ensures it
  (there is no page in the repository); a tab that polls again before the last answer came could
  show the older of two answers last.
* **A command that timed out at the client and is executed after its repetition**: the model
  executes a command before its repetition or not at all.
* **`create_event --reset` next to admitters that hold a batch**: `EventQueue` and
  `Drain` have resets, `AdmissionLoop` and the modules above it do not: their history is kept by
  arrival number, and a number means another waiter in the event's next life.
* **mint_token** (a development tool, which may repeat a `jti`), **health view**, **client
  singleton**, **settings, URLs, migrations**: no behaviour the properties are about.
* **SSE stream, pub/sub, frontend, backpressure**: not in the code at this commit.

## 7. Plan

Done, in this order: `TokenBucket`, `EventQueue` and `FairLine` with their proofs;
`RateEnvelope` with its proofs; `Booking` and `TicketSale` with their proofs;
`AdmissionLoop` with its proofs; `WaiterView`; `PassGate`; `BookingAdmin` with its proofs;
`Drain`; the proofs of `PassGate` and `WaiterView`; the bound on the crowd, the chain of
refinements from browsers and booking host to the abstract line and sale, and the safety half of
the liveness properties.

What is left, most important first:

1. Resets in `AdmissionLoop`: batches and pass keys that survive `--reset`. It needs numbers
   tagged with the life of the event they were given in, in the history and in its proofs.
2. Tabs with several requests outstanding, once there is a page that says how it polls.
