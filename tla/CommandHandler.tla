---------------------------- MODULE CommandHandler ----------------------------
(***************************************************************************)
(* The command handler over the order book and the event log.              *)
(* Source: crates/command_handler/src/lib.rs, with the callers' contract   *)
(* of crates/api and the start-up of crates/engined.                       *)
(*                                                                         *)
(* One command runs at a time (Arc<Mutex<CommandHandler>>, held through    *)
(* handle().await).  The book is Matching's, which OrderBook implements:   *)
(* place_limit and cancel have no await and are part of the step that      *)
(* calls them.  An append is two steps, the statements before COMMIT and   *)
(* the COMMIT, as PostgresEventLog has it: `log` is in the order of seq,   *)
(* an entry is open until its COMMIT, and an open entry whose call was     *)
(* given up commits or vanishes later.                                     *)
(*                                                                         *)
(* The caller's future is dropped at any await when its client goes away   *)
(* (Drop), an append may fail (Fail), and the process may die and start    *)
(* again with an empty book (Crash); engined does not call                 *)
(* restore_from_log, so Restore is a step of its own.                      *)
(***************************************************************************)
EXTENDS Matching

CONSTANTS
    CommandIds,
    Commands,      \* what a command id may stand for
    None,          \* no value
    MaxCalls,      \* bound: calls of handle
    MaxDrops,      \* bound: calls dropped or failed
    MaxCrashes     \* bound: restarts

PlaceOrder(order)     == [type |-> "PlaceOrder", order |-> order]
CancelOrder(order_id) == [type |-> "CancelOrder", order_id |-> order_id]

ASSUME CommandHandlerAssumption ==
    /\ None \notin CommandIds /\ None \notin Commands
    /\ \A command \in Commands :
          \/ \E order \in Submitted : command = PlaceOrder(order)
          \/ \E order_id \in OrderIds : command = CancelOrder(order_id)
    /\ MaxCalls \in Nat /\ MaxDrops \in Nat /\ MaxCrashes \in Nat

VARIABLES
    book,        \* CommandHandler.book
    log,         \* event_log and command_log, in the order of seq
    submitted,   \* what each command id stands for once it was sent
    active,      \* the running call of handle, or None
    reply,       \* what the last call returned; None when it was given up
    runs,        \* history: what the book said each time a command reached it
    boot,        \* how often the process has started again
    budget       \* what is left of the bounds

vars == <<book, log, submitted, active, reply, runs, boot, budget>>

Init ==
    /\ book = EmptyBook
    /\ log = << >>
    /\ submitted = [k \in CommandIds |-> None]
    /\ active = None
    /\ reply = None
    /\ runs = [k \in CommandIds |-> << >>]
    /\ boot = 0
    /\ budget = [calls |-> MaxCalls, drops |-> MaxDrops, crashes |-> MaxCrashes]

RanIn(someBoot, k) == \E i \in DOMAIN runs[k] : runs[k][i].boot = someBoot

Spend(what) == budget[what] > 0 /\ budget' = [budget EXCEPT ![what] = @ - 1]

-------------------------------------------------------------------------------
(* The log.                                                                *)

(* A command's OrderAccepted or OrderCanceled (part 0) stands under the    *)
(* command id itself, its n-th trade under "{id}-trade-{n-1}".  Both are   *)
(* strings: a caller's id may be some command's trade key.                 *)
Key(k, part) == IF part = 0 THEN k ELSE <<k, part>>

OpenAt(key)   == {i \in DOMAIN log : log[i].key = key /\ log[i].open}
ClosedAt(key) == {i \in DOMAIN log : log[i].key = key /\ ~ log[i].open}
Logged(key)   == ClosedAt(key) # {}

(* The record an append of a key that is there is answered with.           *)
RecordAt(key) == log[CHOOSE i \in ClosedAt(key) : TRUE].event

OrderAccepted(order_id)      == [type |-> "OrderAccepted", order_id |-> order_id]
OrderCanceledEvent(order_id) == [type |-> "OrderCanceled", order_id |-> order_id]
TradeExecuted(trade)         == [type |-> "TradeExecuted", trade |-> trade]

FirstEvent(k) ==
    IF submitted[k].type = "PlaceOrder"
    THEN OrderAccepted(submitted[k].order.order_id)
    ELSE OrderCanceledEvent(submitted[k].order_id)

TradeFromTheBack == active.trades[Len(active.trades) + 1 - active.part]  \* mutant

ItsTrade == active.trades[active.part]

(* What the running call is appending.                                     *)
TheKey == Key(active.command_id, active.part)
TheEvent ==
    IF active.part = 0 THEN FirstEvent(active.command_id)
    ELSE TradeExecuted(ItsTrade)

Close(i) == [log EXCEPT ![i].open = FALSE]

-------------------------------------------------------------------------------
(* Replies: Ok(CommandResult) and Err(CommandError).  The record of the    *)
(* first event is left out: it is the log's, RecordAt(k).                  *)

OrderPlaced(k, trades, remaining, inserted) ==
    [command_id |-> k, result |-> "OrderPlaced", trades |-> trades,
     remaining_quantity |-> remaining, inserted |-> inserted]
OrderCanceled(k, inserted) ==
    [command_id |-> k, result |-> "OrderCanceled", inserted |-> inserted]
Refused(k, error) == [command_id |-> k, result |-> error]

IsOk(r) == r # None /\ r.result \in {"OrderPlaced", "OrderCanceled"}

Answer(r) == reply' = r /\ active' = None

(* The retry path: no trades and nothing remaining, whatever was answered  *)
(* the first time.                                                         *)
RetryReply(k) ==
    IF submitted[k].type = "PlaceOrder" THEN OrderPlaced(k, << >>, 0, FALSE)
    ELSE OrderCanceled(k, FALSE)

-------------------------------------------------------------------------------
(* A call takes the mutex.  A command id always stands for the same        *)
(* command: the callers' contract.                                         *)
Call(k, command) ==
    /\ active = None
    /\ submitted[k] \in {None, command}
    /\ submitted' = [submitted EXCEPT ![k] = command]
    /\ active' = [command_id |-> k, stage |-> "append", part |-> 0,
                  trades |-> << >>, remaining |-> 0, records |-> << >>]
    /\ reply' = None
    /\ UNCHANGED <<book, log, runs, boot>>

Handle(k) == Spend("calls") /\ \E command \in Commands : Call(k, command)

(* The loop over outcome.trades goes on after `part` of them.              *)
GoesOnOneTooFew(part, trades)  == part + 1 < Len(trades)            \* mutant
GoesOnOneTooMany(part, trades) == part <= Len(trades)               \* mutant

GoesOn(part, trades) == part < Len(trades)

PersistNext(part, trades, remaining, records) ==
    IF GoesOn(part, trades)
    THEN /\ active' = [active EXCEPT !.stage = "append", !.part = part + 1, !.trades = trades,
                                     !.remaining = remaining, !.records = records]
         /\ UNCHANGED reply
    ELSE Answer(OrderPlaced(active.command_id, records, remaining, TRUE))

(* A trade's append is answered: trade_records.push(rec.record).           *)
TradeAnswered(record) ==
    /\ PersistNext(active.part, active.trades, active.remaining, Append(active.records, record))
    /\ UNCHANGED <<book, runs>>

(* The command's encounter with the book.                                  *)
Ran(k, error) == runs' = [runs EXCEPT ![k] = Append(@, [boot |-> boot, error |-> error])]

RunPlaceOrder(k) ==
    LET order == submitted[k].order
        error == PlaceError(order, RestingIds(book))
    IN  /\ Ran(k, error)
        /\ IF error = "None"
           THEN /\ book' = BookAfterPlace(order, book)
                /\ PersistNext(0, PlaceOutcome(order, book).trades,
                                  PlaceOutcome(order, book).remaining_quantity, << >>)
           ELSE /\ Answer(Refused(k, error))
                /\ UNCHANGED book

RunCancelOrder(k) ==
    LET id    == submitted[k].order_id
        error == IF id \in RestingIds(book) THEN "None" ELSE "OrderNotFound"
    IN  /\ Ran(k, error)
        /\ book' = BookAfterCancel(id, book)
        /\ Answer(IF error = "None" THEN OrderCanceled(k, TRUE) ELSE Refused(k, error))

RunCommand(k) ==
    IF submitted[k].type = "PlaceOrder" THEN RunPlaceOrder(k) ELSE RunCancelOrder(k)

RetriedRuns(k) == RunCommand(k)                                     \* mutant

RetriedCancels(k) ==                                                \* mutant
    IF submitted[k].type = "CancelOrder" THEN RunCancelOrder(k)
    ELSE Answer(RetryReply(k)) /\ UNCHANGED <<book, runs>>

(* A retry is answered without the book.                                   *)
Retried(k) == Answer(RetryReply(k)) /\ UNCHANGED <<book, runs>>

(* append_idempotent up to its COMMIT.  It waits for an open entry of the  *)
(* same key; it answers with the entry that is there.                      *)
AppendEvent ==
    /\ active # None
    /\ active.stage = "append"
    /\ OpenAt(TheKey) = {}
    /\ \/ /\ ~ Logged(TheKey)
          /\ log' = Append(log, [key |-> TheKey, event |-> TheEvent, open |-> TRUE])
          /\ active' = [active EXCEPT !.stage = "commit"]
          /\ UNCHANGED <<book, reply, runs>>
       \/ /\ Logged(TheKey)
          /\ IF active.part = 0
             THEN Retried(active.command_id)
             ELSE TradeAnswered(RecordAt(TheKey))
          /\ UNCHANGED log
    /\ UNCHANGED <<submitted, boot, budget>>

(* The COMMIT of an append is answered and the call goes on: with the book *)
(* after the first event, with the next trade after a trade.               *)
EventCommitted ==
    /\ active # None
    /\ active.stage = "commit"
    /\ \E i \in OpenAt(TheKey) : log' = Close(i)
    /\ IF active.part = 0
       THEN RunCommand(active.command_id)
       ELSE TradeAnswered(TheEvent)
    /\ UNCHANGED <<submitted, boot, budget>>

-------------------------------------------------------------------------------
(* Failures.                                                               *)

(* A call ends without a result.  An append given up before its COMMIT was *)
(* sent leaves nothing; else its entry stays open.                         *)
GiveUp(r) ==
    /\ \/ UNCHANGED log
       \/ /\ active # None
          /\ active.stage = "commit"
          /\ \E i \in OpenAt(TheKey) : log' = RemoveAt(log, i)
    /\ Answer(r)
    /\ UNCHANGED <<submitted, runs>>

Drop ==
    /\ active # None
    /\ Spend("drops")
    /\ GiveUp(None)
    /\ UNCHANGED <<book, boot>>

(* An append returns Err: `?` leaves the rest of the command undone.       *)
Fail ==
    /\ active # None
    /\ Spend("drops")
    /\ GiveUp(Refused(active.command_id, "EventLog"))
    /\ UNCHANGED <<book, boot>>

(* The process ends and starts again with OrderBook::new().                *)
StartAgain ==
    /\ GiveUp(None)
    /\ book' = EmptyBook
    /\ boot' = boot + 1

Crash == Spend("crashes") /\ StartAgain

OrphanBehindCaller(i) == log[i].open /\ active = None               \* mutant

(* An entry whose COMMIT nobody waits for.                                 *)
Orphan(i) ==
    /\ log[i].open
    /\ active # None => active.stage # "commit" \/ log[i].key # TheKey

OrphanEnds ==
    /\ \E i \in DOMAIN log : Orphan(i) /\ log' \in {Close(i), RemoveAt(log, i)}
    /\ UNCHANGED <<book, submitted, active, reply, runs, boot, budget>>

(* restore_from_log: from an empty book, accepted orders and trades are    *)
(* passed over and cancels are applied.                                    *)
Restored ==
    LET after[n \in 0 .. Len(log)] ==
            IF n = 0 THEN EmptyBook
            ELSE IF ~ log[n].open /\ log[n].event.type = "OrderCanceled"
            THEN BookAfterCancel(log[n].event.order_id, after[n - 1])
            ELSE after[n - 1]
    IN  after[Len(log)]

RestoreOk     == [result |-> "Restored"]
RestoreFailed == [result |-> "EventLog"]

(* Called on start-up, before handle is used.                              *)
Restore ==
    /\ active = None
    /\ \A k \in CommandIds : ~ RanIn(boot, k)
    /\ \/ /\ book' = Restored
          /\ reply' = RestoreOk
          /\ UNCHANGED budget
       \/ /\ Spend("drops")
          /\ reply' = RestoreFailed
          /\ UNCHANGED book
    /\ UNCHANGED <<log, submitted, active, runs, boot>>

Next ==
    \/ \E k \in CommandIds : Handle(k)
    \/ AppendEvent
    \/ EventCommitted
    \/ Drop
    \/ Fail
    \/ Crash
    \/ OrphanEnds
    \/ Restore

Spec == Init /\ [][Next]_vars

(* A running call is polled and the database ends every transaction.       *)
FairSpec == Spec /\ WF_vars(AppendEvent) /\ WF_vars(EventCommitted) /\ WF_vars(OrphanEnds)

-------------------------------------------------------------------------------
(* Properties.                                                             *)

TradeKeys == CommandIds \X (Nat \ {0})

LoggedEvents == [type: {"OrderAccepted", "OrderCanceled"}, order_id: OrderIds]
                    \cup [type: {"TradeExecuted"}, trade: Trade]

Entries == [key: CommandIds \cup TradeKeys, event: LoggedEvents, open: BOOLEAN]

Calls == [command_id: CommandIds, stage: {"append", "commit"}, part: Nat,
          trades: Seq(Trade), remaining: Nat, records: Seq(LoggedEvents)]

(* Types.  A call that is past its first event is at one of its trades,    *)
(* with a record for each trade before it.                                 *)
TypeOK ==
    /\ \A side \in Sides : book[side] \in Seq(LimitOrder)
    /\ log \in Seq(Entries)
    /\ submitted \in [CommandIds -> Commands \cup {None}]
    /\ active # None => /\ active \in Calls
                        /\ submitted[active.command_id] # None
                        /\ active.part \in 0 .. Len(active.trades)
                        /\ active.part > 0 => Len(active.records) = active.part - 1
    /\ boot \in Nat
    /\ runs \in [CommandIds -> Seq([boot: 0 .. boot, error: Errors \cup {"None"}])]

(* The entry is a command's first event, not a trade that a colliding key  *)
(* makes look like one.                                                    *)
IsFirstEvent(entry) == entry.event.type # "TradeExecuted"

(* The book that the log's commands give when they are run one by one, in  *)
(* the order of the log, on an empty book.                                 *)
BookAfter(k, b) ==
    IF submitted[k].type = "CancelOrder" THEN BookAfterCancel(submitted[k].order_id, b)
    ELSE IF PlaceError(submitted[k].order, RestingIds(b)) = "None"
    THEN BookAfterPlace(submitted[k].order, b)
    ELSE b

RunBy(someBoot, entry) == IsFirstEvent(entry) /\ RanIn(someBoot, entry.key)

Replay(someBoot, entries) ==
    LET after[n \in 0 .. Len(entries)] ==
            IF n = 0 THEN EmptyBook
            ELSE IF RunBy(someBoot, entries[n]) THEN BookAfter(entries[n].key, after[n - 1])
            ELSE after[n - 1]
    IN  after[Len(entries)]

(* The trades of an order that the book accepted, as the log tells them:   *)
(* matched against the commands that stand before it.                      *)
AcceptedByBook(k) == \E n \in DOMAIN runs[k] : runs[k][n].error = "None"

Matched(k) ==
    LET i == CHOOSE i \in DOMAIN log : log[i].key = k /\ IsFirstEvent(log[i])
    IN  IF AcceptedByBook(k) /\ submitted[k].type = "PlaceOrder"
        THEN PlaceOutcome(submitted[k].order, Replay(runs[k][1].boot, SubSeq(log, 1, i - 1))).trades
        ELSE << >>

Quantity(tradeList) == Total([n \in DOMAIN tradeList |-> tradeList[n].quantity])

(* A reply gives for each trade the record that the log holds under its    *)
(* key, the trade itself unless a caller took the key for a command.       *)
TellsTheLog(r) ==
    LET k == r.command_id
    IN  /\ Len(r.trades) = Len(Matched(k))
        /\ \A n \in DOMAIN r.trades :
              /\ Logged(Key(k, n))
              /\ r.trades[n] = RecordAt(Key(k, n))
              /\ Key(k, n) \in CommandIds \/ r.trades[n] = TradeExecuted(Matched(k)[n])
        /\ r.remaining_quantity = submitted[k].order.quantity - Quantity(Matched(k))

(* A command reaches the book once in all boots of the process together,   *)
(* however often it is sent, given up, failed or sent again after a crash: *)
(* the handler's "without re-running the matching logic".                  *)
AtMostOnceEffect == \A k \in CommandIds : Len(runs[k]) <= 1

(* The book is the log's commands run in the order of the log, leaving out *)
(* those no live handler ran: handler and database never disagree about    *)
(* which of two commands came first, whatever was dropped or orphaned.     *)
BookIsReplay == book = Replay(boot, log)

(* A logged trade is the one that matching its command against the         *)
(* commands logged before it gives, in whichever boot it ran, under the    *)
(* key of its place, and every trade before it is logged or its key taken  *)
(* by a caller: trades that were given up are missing at the end, and a    *)
(* trade committed by an orphan is no other than the one matched.          *)
TradesFollowMatching ==
    \A i \in DOMAIN log :
        ~ IsFirstEvent(log[i]) =>
            \E k \in CommandIds : \E n \in DOMAIN Matched(k) :
                /\ log[i].key = Key(k, n)
                /\ log[i].event = TradeExecuted(Matched(k)[n])
                /\ \A m \in 1 .. (n - 1) : Logged(Key(k, m))

(* The lots of an order that a trade moves, and an event.                  *)
Lots(id, trade) ==
    IF id \in {trade.maker_order_id, trade.taker_order_id} THEN trade.quantity ELSE 0

LotsTraded(id, event) == IF event.type = "TradeExecuted" THEN Lots(id, event.trade) ELSE 0

(* The lots that a command submitted under the id, if the entry is its     *)
(* first event and the book accepted it.                                   *)
LotsPlaced(id, entry) ==
    IF /\ IsFirstEvent(entry)
       /\ AcceptedByBook(entry.key)
       /\ submitted[entry.key].type = "PlaceOrder"
       /\ submitted[entry.key].order.order_id = id
    THEN submitted[entry.key].order.quantity
    ELSE 0

(* No order trades more lots in the log than were submitted under its id   *)
(* by commands that the book accepted, over all boots.                     *)
NoOverfill ==
    \A id \in OrderIds :
        Total([i \in DOMAIN log |-> LotsTraded(id, log[i].event)])
            <= Total([i \in DOMAIN log |-> LotsPlaced(id, log[i])])

(* A caller told that its order was placed now is told what the log holds: *)
(* every trade is committed by then, and what it is told remains is what   *)
(* the trades left.  An id that looks like a trade key may cost the log    *)
(* that one trade and nothing else.                                        *)
FirstReplyTellsTheLog ==
    IsOk(reply) /\ reply.result = "OrderPlaced" /\ reply.inserted => TellsTheLog(reply)

(* The mutex is always given back: a call that has to wait for the key of  *)
(* an abandoned transaction does not wait forever.                         *)
HandleReturns == (active # None) ~> (active = None)

-------------------------------------------------------------------------------
(* What lib.rs says of the handler and the code does not do.               *)

(* "the handler returns the original result": a retry, too, tells what the *)
(* log holds.                                                              *)
RetryTellsTheLog ==
    IsOk(reply) /\ reply.result = "OrderPlaced" => TellsTheLog(reply)

(* "Retrying a command ... is always safe": a caller told Ok is told so of *)
(* a command that was carried out.                                         *)
OkMeansDone ==
    IsOk(reply) => AcceptedByBook(reply.command_id)

(* restore_from_log will "replay the log and rebuild the book": after it   *)
(* the book is what the commands that ran before left.                     *)
RestoreRebuilds ==
    [][reply' = RestoreOk /\ boot > 0 => book' = Replay(boot - 1, log)]_<<book, reply>>
===============================================================================
