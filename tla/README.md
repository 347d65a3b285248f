# RaftBook in TLA+

A verification development of RaftBook: an in-memory order book, an idempotent
event log on Postgres, a command handler that joins them, and two APIs that
share the handler and push its events. TLA+ modules model the components, TLC
checks them on small instances, and TLAPS proves the safety invariants of the
order book, the event log, the handler, the event streams, the start-up and the
two APIs, that the book implements strict price-time priority, and that both
backends of the log implement its abstract specification, for every instance. `PROJECT.json` maps every definition to the
lines it models and lists runs, mutants, hazards, findings and theorems.

## The system

| Component | State | Operations | Talks to |
|---|---|---|---|
| `matching_engine` (`OrderBook`) | `bids`, `asks`: price -> deque of orders; `order_locator`: id -> (side, price) | `place_limit`, `cancel`; synchronous, `&mut self` | called by the handler |
| `event_log` in memory | vector of records, key -> seq | `append`, `append_idempotent`, `read_from` | tests only |
| `event_log` on Postgres | tables `event_log` (BIGSERIAL seq) and `command_log` (key -> seq); a connection pool | `append_idempotent` (lookup, transaction of two inserts, 23505 path), `read_from` | Postgres |
| `command_handler` | the book, the log | `handle(PlaceOrder / CancelOrder)`, `restore_from_log` | book (call), log (await) |
| `api`, gRPC (u64) | `AppState`: `Mutex<CommandHandler>`, broadcast channel, pool | `PlaceOrder`, `CancelOrder`, `StreamEvents` (replay, then live) | handler under the mutex, channel after it |
| `api`, GraphQL (i64) | the same `AppState` | mutations, `events` query, `eventStream` subscription (live only) | the same |
| `engined` | none | connect, create tables, seed seven commands, serve; restarted on failure | all of the above |
| `frontend`, `proto`, `scripts` | none of the exchange | presentation, interface, process management | GraphQL |

One market, one book, one handler. A request locks the handler, `handle`
appends the command's first event under the caller's `command_id`, then asks
the book, then appends the trades one by one under derived keys. The events
are broadcast after the lock is released.

What is hard here:

* **The book keeps one fact in three structures**, taken apart and put back in
  every iteration of the matching loop. Correct means: the structures agree,
  the book is never crossed, trades follow price-time priority, calls return.
* **The log is written by several awaited statements.** A request whose client
  goes away is dropped at any await; its COMMIT may take effect later, or not.
  Correct means: per key one event, the same answer to everyone, no one stuck.
* **The handler changes log, book, log in turn**, and anything may fail in
  between; after a restart the book is empty. Correct means: a command reaches
  the book at most once, the log's trades are the book's trades, the log's
  order is the book's order, and replies tell what happened.
* **Every boot seeds again**, on an empty book and a log that holds whatever the
  boots before got to. Correct means: no command takes effect twice, the seed
  stays in front of the clients' commands, and in the end the process serves.
* **Two APIs with different numbers share one engine.** Correct means: what is
  wrong with a request is told before its command id is used up, and what a
  client is shown is what was traded.
* **Events are broadcast without the lock**, to streams that merge replay with
  live events by a cursor over a bounded buffer. Correct means: only logged
  events, each once and in order on a stream, and nothing missed without a
  cause.

## Modules

| Module | What it is |
|---|---|
| `Orders` | vocabulary of the engine: orders, trades, the two price comparisons, the entry checks |
| `Ascending` | a finite set of numbers in ascending order, the subsequence at a set of positions, and the sum of a sequence, as closed forms |
| `AscendingProofs` | TLAPS proofs of what they return, of how sums change and of what `FlattenSeq` joins; induction over the naturals as a fact about sets |
| `Matching` | price-time priority as a closed form: a side of the book is one queue, a call is one function of it |
| `MatchingProofs` | TLAPS proofs of what one call makes of a sound book, and of an id's lots |
| `PriceTimePriority` | abstract specification of the book over `Matching` |
| `OrderBook` | the code's book: maps of levels, locator, one step per loop iteration |
| `OrderBookRefinement` | `OrderBook` implements `PriceTimePriority` |
| `OrderBookProofs` | TLAPS proofs of `OrderBook`'s invariants, and that it implements `PriceTimePriority` |
| `IdempotentLog` | abstract specification of `append_idempotent`: calls take effect at one instant, a given-up one late, once, or never |
| `PostgresEventLog` | `pg_append_idempotent`, one step per awaited statement, with pool, key waits, drops, failures and orphaned transactions; it implements `IdempotentLog` |
| `PostgresEventLogProofs` | TLAPS proofs of `PostgresEventLog`'s invariants, and that it implements `IdempotentLog` |
| `InMemoryEventLog` | the in-memory backend; it implements `IdempotentLog`, too |
| `InMemoryEventLogProofs` | TLAPS proofs of that and of its index |
| `CommandHandler` | `handle` and `restore_from_log` over `Matching`'s book and a log whose appends are open until their COMMIT, with retries, drops, failures and restarts |
| `CommandHandlerProofs` | TLAPS proofs of `CommandHandler`'s invariants |
| `EventStreams` | requests that log under the mutex and broadcast after it, the channel with its bound, gRPC streams (subscribe, replay, tail, resume) and GraphQL clients (query, subscribe) |
| `EventStreamsProofs` | TLAPS proofs of `EventStreams`' invariants |
| `Boot` | `CommandHandler` in the life of the process: connect, tables, seed, servers, every end and the restart |
| `Gateway` | `CommandHandler` behind the two APIs: argument checks, casts, responses, for `u64` and `i64` of a given size |
| `ServiceProofs` | TLAPS proofs of the invariants of `Boot` and of `Gateway` |
| `MC*` | the instances for TLC |

### From code to model

`OrderBook`. `PlaceLimit` is the head of `place_limit`; `FillMaker` and
`ReduceMaker` are the two ways an iteration of `match_with_level` ends (maker
exhausted, or put back to the front); `Filled` and `Rest` are the returns;
`Cancel` is the whole of `cancel`. `match_with_level` removes a level from the
map and re-inserts it; nothing can look at the map in between, so in the model
the level stays where it is. `user_id` and `ts_nanos` are left out: the engine
does not read them. Quantities only decrease, so `u64` cannot overflow and no
width is modelled.

`PostgresEventLog`. A client's `pc` names the statement it awaits. The
transaction's own rows are invisible until `Commit`. `AfterInsertOf` says where
the `INSERT` into `command_log` leads: nowhere while another open transaction
holds the key, to the rollback if the key is committed, else to the `COMMIT`.
`Drop` and `Fail` may happen at every await; from `commit` on they leave an
*orphan*, which keeps a connection of the pool or not, and commits or aborts
later. Calls are not bounded; the numbers of the sequence are (`MaxSeq`), and
`SeqExhausted` is the call that finds none left, which fails as any statement
may. The database is external; the module's header says what is relied on.

`CommandHandler`. `active` is the running call (the mutex), `log` the committed
and open entries in the order of seq. `AppendEvent` is an append up to its
COMMIT, including the wait for an open entry of the same key and the answer
when the key is there; `EventCommitted` is the COMMIT and what the handler does
before its next await, so the book is changed in that step. `Crash` is a
restart as `engined` does it: `CommandHandler::new`, no restore. `Restore` is
`restore_from_log`, called or not before the first command. `runs` is a history
variable: in which boot a command reached the book and what the book said. The
book is `Matching`'s because `OrderBook` implements it and its calls do not
await. The keys of the log are `Key(k, part)`: the handler's trade keys
`{id}-trade-{n}` are strings like the callers' ids, so one of the instance's
command ids *is* the first trade key of another, and everything but the trade it
displaces has to stay right.

`Boot` extends `CommandHandler`. `phase` is where `main` is. `SeedCommand` sends
the next of the seed's seven commands when the one before was answered `Ok`;
any other answer leaves `main` (`SeedFails`). `BootFails` is every other error,
`ProcessDies` a kill; both are `StartAgain` of the handler, as docker's
`restart: on-failure` has it, with an append under way left open. The database
starts empty, or with the tables of `sql/`. Clients come when the first server
listens, before the second does.

`Gateway` extends `CommandHandler`, too. A request is checked as its API checks
it, in the API's own integer type, and either changes nothing or calls the
handler with the numbers cast as the code casts them (`AsU64`, `AsI64`);
`PlaceOrderResponse` and `GraphqlTrade` are what the clients are shown. Both
types have `2 * Half` numbers instead of 2^64. What the engine sees is within
`u64` by then.

`InMemoryEventLog`. `append_idempotent` awaits nothing: once polled it runs to
its answer, so it is one step, `AppendAgain` or `AppendNew`. `PlainAppend` is
the `append` without a key into the same vector.

`EventStreams`. An event is its seq. A request's stages are the mutex
(`handling`: `LogEvent` once per event, or `Retry`) and the synchronous sends
after it (`sending`). `GiveUp` is every way to leave `handle` without a result:
an error, a refusal by the engine, a dropped future; its last event may be
committed late. A reader becomes a gRPC stream or a GraphQL client; readers
only read, so one reader that may be either is enough. `sent` keeps the whole
history of the channel, of which a receiver can still read the last `Capacity`.
A start above `MaxBigint` is refused by `read_from`: it ends a stream
(`ReplayFails`, also a database error) and fails the query, while the
subscription takes it. `Resume` is a client that opens its stream again behind
the last event it was given. Three history variables let the properties say
what was asked and what was lost: `abandoned`, the numbers of requests that were
given up, with the one that was being committed; `lost`, what was overwritten
before a reader got to it; and a reader's `asked` and `queried`, the start it gave
and how many events its query returned. No action depends on them. Here no
command id is a trade key, so a trade can always be logged; `CommandHandler` has
the collisions.

Assumed: a `command_id` always stands for the same command (the callers'
contract).

## Runs

| Run | Question | Instance |
|---|---|---|
| `order_book` | do levels, locator and running order agree after every iteration, does each take lots, and do the loops compute price-time priority? | 4 ids, prices and quantities 0-2 |
| `event_log_safety` | is `append_idempotent` an atomic idempotent insertion? | 3 clients, 2 keys, 2 events, pool of 2, 3 numbers |
| `event_log_liveness` | does every append end? | 2 clients, 2 keys, pool of 1, 3 numbers |
| `command_handler_faults` | what survives retries, colliding ids, drops, failed appends and a restart? | 3 ids, one the trade key of another; 4 commands; 4 calls, 1 drop or failure, 1 restart |
| `command_handler_retry` | *violated*: a retry is told the original result | 2 commands, 3 calls, no faults |
| `command_handler_ok` | *violated*: Ok means that it was done | 2 commands, 3 calls, 1 drop |
| `command_handler_restore` | *violated*: `restore_from_log` rebuilds the book | 2 commands, 2 calls, 1 restart |
| `event_streams` | what may readers give out and miss, and why? | 2 requests at a time, 3 in all, 4 events, 2 given up or failed replays, 1 resumption, a channel of 2, 1 reader that starts at 0, 2 or out of range |
| `event_streams_grpc` | *violated*: a gRPC stream misses nothing | 2 requests, no faults, no lag |
| `event_streams_graphql` | *violated*: a GraphQL client misses nothing | 2 requests, no faults, no lag |
| `boot` | what do failing boots leave, and does the process serve in the end? | the seed of the code, 2 calls of clients, 2 kills, 1 error or dropped call, 4 boots after the first |
| `gateway` | what do the APIs let through, and what do they show? | 3 bits: u64 is 0..7, i64 is -4..3; 2 ids, 2 orders, 3 calls, 1 drop or failure |

Why the bounds are enough. Four orders are a taker and three makers: two at one
price (time priority, partial fill at the front) and one at another (level
exhausted, next level). Quantities 1 and 2 make a maker smaller than, equal to
and larger than the taker; 0 and price 0 are the refused inputs. Ids are reused
freely, as callers may. For the log, two clients race and the third arrives
while one of them is an orphan; two keys tell waiting for a key from waiting
for a connection; three numbers let one attempt waste one and two commands be
logged, and calls go on without end. A pool of one is the worst case for
circular waits. For the handler, the commands are two asks at one price, a bid
that sweeps both (so a fault falls between its two trades) and a cancel; each
may be sent under any id, so the same order comes twice under different ids, and
four calls leave room for a retry of any of three commands, also after the
restart. For the streams, two overlapping requests can send in either order, a
third can retry what was given up, four records overflow a channel of two, and
two faults with one resumption let a replay fail and be made again after a
request was given up. For the boot, the first kill can fall anywhere in the
seed, the second in the boot that repeats it, one error more in a third; a
later boot repeats an earlier one's state. Two calls of clients, who may order
and cancel what the seed left, show a server between its boots. `MaxBoots` is
never what ends the restarts: after two kills and one error, only the refused
cancel can end a boot, once. For the gateway, three bits leave
numbers on both sides of `i64::MAX`; the casts look at nothing but the sign bit,
and `Half` is a constant (the proofs hold for every value of it).

`CHECK_DEADLOCK FALSE` is set where the bound on calls lets the system stop.

**Fairness.** `OrderBook` needs none: `place_limit` is a synchronous function,
its next iteration is always possible (the check for deadlock) and each takes
lots (`RoundsTakeLots`). `PostgresEventLog`: weak fairness of every client's
next statement (the runtime polls the call, the server answers; waiting for a
connection or a key disables the step) and of the end of an orphaned
transaction (the server notices a dead connection); strong fairness of the
steps that take a connection, because sqlx's pool serves its waiters in order.
Waiting for a key needs none here: each time the key is held a number is used
up, so `MaxSeq` bounds how often rivals can abort and be followed by others.
`CommandHandler`: weak fairness of `AppendEvent`, `EventCommitted` and
`OrphanEnds`. `Boot`: the same, and weak fairness of `main`'s next step, from
connecting to binding both servers; docker starts the process again in the step
that ends it. No call, drop, failure, crash or restore ever has to happen.

Every property of a passing run has a mutant: a plausible bug of the code
(a dropped guard, a reversed order, a row written outside its transaction)
under which TLC finds that property violated. They stand beside the
definitions they would replace, marked `\* mutant`.

## What the runs show of the code

The passing runs show the book and the log to do what they promise, and the
handler to be at-most-once with a log that agrees with its book under every
fault, also when a caller's id is a trade key of another command: that trade is
then missing from the log, and nothing else is wrong. A stream gives out only
what is logged, in order, also when it is resumed, and each gap has one of five
causes; an event nobody was told of belongs to a request that was given up or has
still to send it. A GraphQL subscription gives out what is sent, as often as it is
sent: twice, when a retry sends it twice. The process serves in the end, with the seed in front of every client's
command in the log. Some promises of the documentation do not hold:

* a retry does not get the original result (no trades, `remaining_quantity` 0
  even if the order rests);
* `Ok` on a retry does not mean that the command was done: a refused cancel or
  a dropped command is `Ok` the second time, because its event was logged
  before the book was asked;
* `restore_from_log` leaves the book empty (the README lists the full replay as
  planned);
* a gRPC stream can miss an event without any failure, when two requests
  broadcast in the opposite order of their seqs: the README says "no missed
  events";
* a GraphQL client that queries first and subscribes then, as the schema says,
  misses what is sent in between.

Three things are worth knowing although no run is violated by them, since the
properties state what does hold:

* A boot that dies between the seed's fourth order and its cancel makes the next
  boot's cancel fail with `OrderNotFound`, and that boot exit; the one after it
  passes, because the cancel is logged by then (`OnlyTheCancelIsRefused`,
  `Serves`). `Opens` needs an undisturbed first boot: in any other, the market
  is not the documented session, and from the second boot on the seed does not
  touch the book at all.
* A GraphQL client that sells into a gRPC bid above `i64::MAX` is shown a fill
  at a negative price; `ShownAsTraded` and `AnswersAddUp` say that of the trades
  a GraphQL client has a part in, these are the only ones shown wrong. (The
  trades of two gRPC orders may be, to whoever watches them by GraphQL.)
* An `events` query from a negative `fromSeq` is an error, a subscription from
  the same number is silent.

The header of `command_handler/src/lib.rs` also gives the sequence as match, then
persist; the code persists `OrderAccepted` first. The model follows the code.

## Proofs

`OrderBookProofs` proves, for every set of ids, prices and quantities,
`Spec => []P` for `TypeOK`, `LevelsSound`, `LocatorExact` and `NeverCrossed`.
The only assumptions are those of the modules: prices and quantities are natural
numbers, and `NoOrder` is not an order.

The inductive invariant `IInv` is the conjunction of the four, `BestExists` and
`IncomingNotResting`, what the check of `place_limit`'s head is there for.
They need each other. `LocatorExact` is kept when a maker is forgotten because
the maker in that level is the one the locator knows (`LevelsSound`) and stands
there once, and when the remainder rests because its id is new
(`IncomingNotResting`). `NeverCrossed` is kept when the remainder rests because
the loop ended on the *best* opposite price, so that no level crosses; that
needs a best price to exist wherever there is a level (`BestExists`), which
does not follow from the types, since the set of prices may be infinite: it is
kept because a step adds at most one level. The proof has a lemma per action,
and under it a step per conjunct; lemmas on maps, `RemoveAt` and replaced
queues come first, and one lemma per way a level can change (a removal, a
reduction, an order that rests) carries the book's part of the invariant.
`EveryRoundTakesLots` follows from it: the maker at the front has lots
(`TypeOK`), so a round that is not the last leaves fewer to match.

Its second part proves `Refinement`, `Spec => ImplementsPriceTimePriority`, from
the same assumptions. The abstract book has one queue per side, the levels one
after the other (`Queues`); while a call runs it is the book that call will
leave (`CompletedBook`), and the abstract reply is the trades so far followed by
those still to come (`CompletedReply`). So `PlaceLimit` and `Cancel` are the
abstract steps, and every iteration has to be a stutter: placing what is left of
the order on what is left of the queues must give the same book, the same
remainder and the same trades in all. Two things carry that.

* *Where a level stands in its queue.* `Splits` says that a side is what comes
  before a price, the level, and what comes behind, for any level put there, none
  included. It holds at every price (`SplitExists`), because flattening a set of
  prices that is better than another, followed by the other, flattens both
  (`FlattensJoin`); nothing comes before the best price (`NothingBeforeBest`), so
  a match takes from the head of the queue.
* *What one round leaves to do.* `MatchingProofs` has the closed form of a call
  before and after its head is gone or smaller (`PlaceAfterExhausted`,
  `PlaceWhatIsReduced`), with nothing left (`PlaceNothing`), and of an order
  that crosses nothing and joins its side (`PlaceJoins`); in `OrderBookProofs`
  `FillMakerStutters`, `ReduceMakerStutters`, `FilledStutters` and `RestStutters`
  apply them, and `CancelCloses` does the same for `cancel`, where the locator
  finds the one order of the queue that has the id.

`RInv` is the invariant behind it: `IInv`, that each side has finitely many
levels (the number of levels is what `Flatten` counts; a step adds at most one),
and that no trades are pending when no call runs.

`PostgresEventLogProofs` proves, for every set of clients, keys and events and
every pool size, `Spec => []P` for `TypeOK`, `OneEventPerCommand`,
`AnswersAreLogged` and `NoMissingCommandEvent`, from the module's assumption on
its constants alone. These four are not inductive: that a commit keeps the two
tables in one-to-one correspondence depends on what the transaction may rely on
since its inserts. `IInv` adds it. A transaction past its second insert, be it a
client's or an orphan, owns its key: it is not logged, and no other such
transaction has it (`ClientKeysOwned`, `OrphanKeysOwned`; kept by the wait of
`InsertCommand`). Every transaction owns its seq (`ClientSeqsOwned`,
`OrphanSeqsOwned`; kept because `nextval` never repeats itself and a seq passes
to the orphan when its client lets go). A call on the 23505 path has its key in
the log (`WinnerLogged`), so the second lookup finds it. One lemma per action, as
before; `CommitRowsProperties` is what both kinds of commit share.

Its second part proves `Spec => ImplementsIdempotentLog`. The log is
mapped to the records of the committed keys, a client to its pending or answered
call, an orphan to an abandoned request. The commit maps to `Insert`, a lookup
that finds the key to `Replay`, `Drop`, `Fail` and `SeqExhausted` to `GiveUp`, an
orphan's end to `LateInsert` or `Forget`, everything else between start and
answer to a stutter. `IInv` is used where a commit must be allowed by the
abstract log (new key, new seq), where `LookUpAgain` must be a replay, and where
an orphan that ends must take its request with it and no other.

`InMemoryEventLogProofs` proves `Spec => []IndexSound` (every key points at a
record of its own in the vector, so the lookup never panics) and
`Spec => ImplementsIdempotentLog`, for every set of callers, keys and events,
with no assumption. `IInv` is the two type and index invariants; a plain append
is a stutter because a position, once given, keeps its record. The module has
no run of its own: the proofs cover every instance.

**Sequences and sums.** The provers know nothing of `SelectSeq`, `SortSeq` or the
folds, so the modules that are proved about say what those compute in closed
form: `Ascending(S)` lists a finite set of numbers, `At(s, P)` is `s` at the
positions `P`, and `Total(s)` is the sum of `s`, as a recursive function.
`AscendingProofs` proves that the first lists each member once, in order, that
the second is a sequence of the right type with the right elements, and what
sums do: they add pointwise, change by what one summand changes, and grow with
what is appended; a selection of summands, each no greater, has no greater sum.
For `FlattenSeq` it proves what the join of sequences of sequences is made of
(`FlattenMembers`) and that it joins part by part (`FlattenConcat`), and for
positions that splitting a sequence at one and joining what remains is `RemoveAt`
(`RemoveAtSplits`).
The library's induction theorems cannot be instantiated here, but a set of
numbers that has 0 and with `n` also `n + 1` has them all (`SetInduction`, from
well-foundedness), and that is enough for the lemmas that need induction; that
`Matching`'s recursive function of the lots ahead exists (`SumsExist`) is one.

`MatchingProofs` proves what a call makes of a book that is sound: every queue
holds orders with lots, best price first (`SoundBook`). `place_limit` and
`cancel` keep that (`PlaceKeepsSound`, `CancelKeepsSound`); the fills are a
prefix of the opposite queue (`CrossingPrefix`, `AheadGrows`); the trades' lots
and what rests are the incoming order's lots (`TradesAddUp`); and every order
that rests and every party of a trade is an order placed before
(`PlacePlaces`, `TradesPlaced`). For each id, what the trades take from its
orders and what rests of them afterwards are no more than what rested of them
before and what the call brought (`PlaceRests`, `CancelRests`).

`CommandHandlerProofs` proves `Spec => []P` for `TypeOK`, `AtMostOnceEffect`,
`BookIsReplay`, `TradesFollowMatching`, `FirstReplyTellsTheLog` and `NoOverfill`, for every set
of ids, commands and orders and any number of calls, drops, failures and
restarts. It assumes that `None` is neither an id nor a command, and that
commands are placed orders or cancels; it does *not* assume that command ids and
trade keys differ. `AtMostOnceEffect` needs more than itself: no key has two
entries (`KeysDistinct`), a first event stands under an id that was sent
(`FirstEventsSent`), and what ran has its first event *committed*
(`RunsLogged`), so that the COMMIT which lets a command run finds that it has
not run. `BookIsReplay` compares the book with a replay of the log, and every
step changes the log, what was submitted or what ran; so replays are written
with all three as arguments (`Books`) and the replays of two states are
compared. What makes that work is `Past(p)`: all a step may do to the log is
commit an entry, lose one that is open, or add one at the end. The call in
progress has its stage, its trades to log and its first event agree
(`ActiveSound`), an answer carries what its run returned (`ReplySound`), and
what a run returned is what `Matching` says of the book before it
(`MatchedTrades`).

`NoOverfill`, that no order trades more than was placed under its id, is not
inductive: a trade that is appended was matched long before. `Account` is what
is kept. For each order id, the lots of its trades in the log, of those the
running call has yet to append, and of what rests under the id are together no
more than what the accepted commands placed under it. Every step but one leaves
or lowers the left side (`Shrinks`): an append moves lots from the running call
to the log, a drop or a failure loses them, a restart loses the book, a colliding
id loses the trade it displaces. The one step that raises it is the COMMIT of
the first event, which lets a command run; what matching makes of the book is
covered by the lots the command brings (`PlaceRests`), and these are counted on
the right from then on, once, because the command has not run before
(`PlacedRuns`, `RunAccount`).

`EventStreamsProofs` proves `Spec => []P` for `TypeOK`, `DeliveredIsLogged`,
`StreamsInOrder`, `StartsAreKept`, `UnsentHasOwner`, `GapsHaveCauses` and
`SubscriptionsEcho`, for any number of requests, readers and events and every capacity of the channel.
It assumes that `Capacity` is not 0 (`broadcast::channel` panics on that) and
that sequence numbers do not leave the range of a `bigint`. The invariant says
where every logged event stands with every reader (`ReaderInv`): below the
cursor a stream was given all but what came late, was overtaken or overwritten
(`BehindCursor`); from the cursor on it has still to come to what it misses,
unless that was overwritten (`FromCursorOn`); and the cursor is what the
delivered numbers make it. A subscription has no cursor that moves; what it gave
is what the channel had at the positions it received (`Echoes`), and a query's
part of what a client has is bounded by the query's own start (`QueryStarts`).
`UnsentHasOwner` is inductive with one more fact, that what may still be
committed late is abandoned (`LateIsAbandoned`); `GapsHaveCauses` follows with
it.

`ServiceProofs` rests on the handler's proofs. For `Boot` it proves
`BootSpec => []P` for `BootTypeOK`, `SeedComesFirst` and
`OnlyTheCancelIsRefused`, for any clients and any number of boots, kills and
errors, with the seed's seven commands as they are in the code. It assumes that the
seven ids differ from each other, from the clients' ids and from every trade
key (they are fixed strings, `seed-...`). The heart is `InSeedOrder`: whatever first event
the log holds, the earlier seed commands are committed before it; a boot sends
the next seed command only after an `Ok`, which implies that its first event is
committed (`SeedSoFar`). An order of the seed is not refused because an id that
rests was placed by a command that ran (`BookPlaced`), and the seed's command of
that id has not. For `Gateway` it proves `GatewaySpec => []P` for
`GatewayTypeOK`, `ArgumentsCostNoId`, `ShownAsTraded` and `AnswersAddUp`, for
`u64` and `i64` of any size. It assumes that the handler's prices and quantities include `u64` and
that every order and cancel of such numbers is a command, so nothing is
excluded by the choice of constants. The step that makes `ShownAsTraded`
hold is `MatchedPlaced`: both parties of a trade are orders that some command
placed, with the prices they were placed at, and what a GraphQL client placed is
below `Half` (`RequestsChecked`). `AnswersAddUp` adds up the same trades: an answer
has the records of all of them (`ReplySound`), each as matched as long as no
command id is a trade key of another command, which is a hypothesis of that
theorem and of no other (the trade displaced by such an id is not among the
fills); and the API that answers is the one that was asked (`AskerSent`).

**Only model-checked.** Liveness (under fairness, with `ENABLED`) is beyond the
installed prover. One safety property is not proved: `Opens` is one concrete run
of ten events, which TLC computes.

## Not modelled

Left out for good: the frontend, the protobuf files and the scripts (no state of
the exchange; the frontend only polls the queries); sockets, routing, schema
wiring and logging (I/O); the inherent `append` and `len` of the Postgres log and
`resting_order_count` (no caller outside the tests); `user_id` and `ts_nanos`
(nothing reads them). In `Boot`, both servers keep running until one fails, so
a graceful shutdown does not exist, as in the code.
