# TLA+ models of pm-sdk-go

Formal models of the Go SDK in `src/`: what the parts that talk to a server do,
step by step, and what makes them correct. Everything is model-checked on small
instances with TLC; every safety property, and every refinement, is proved for
every size with TLAPS.

All line numbers below are of `src/pkg/ws/client.go` unless another file is named.

## The system

| part | state it keeps | operations | talks to |
|---|---|---|---|
| ws market channel (`pkg/ws`) | one goroutine per `SubscribeBook`: connection, `attempt`, `disconnect`, `seqGuard`, the channel `out` (64) | `SubscribeBook`, `runBookLoop`, `readBookFrames`, `sleepBackoff` | upstream `/ws/market`; the consumer through `out`; the caller's ctx |
| ws user channel (`pkg/ws`) | `Facade.userStreams` under `userMu`; per stream `subs` under its own `mu`, `cancel`, a loop goroutine; per subscriber a channel (64) and a ctx | `SubscribeOrders`, `SubscribeTrades`, `attachUserSub`, `detachUserSub`, `runUserLoop`, `dispatchOrder`, `dispatchTrade` | upstream `/ws/user`; the consumers; their ctxs |
| ws wire types | none | `parseBookFrame`, `parseOrderFrame`, `parseTradeFrame`, `mapOrderStatus` | the two readers |
| clob (`pkg/clob`) | none across calls; during one: the results, the positions of what is sent | place, cancel, batch (`client_batch.go`), replace (`client_replace.go`), get, list, trades, error classification | the exchange over HTTP; the signer |
| gamma (`pkg/gamma`) | none; the caller keeps the cursor | queries, offset cursors of `ListEvents` and `ListSeries` | gamma service over HTTP |
| relayer (`pkg/relayer`) | none across calls | `DeploySafe`, `ExecuteSafeTx`, polling until terminal | relayer service over HTTP; the signer |
| signer (`pkg/signer`) | key material, constant | order, ClobAuth and Safe digests, ECDSA | clob, relayer |
| obs, promobs, zapobs | lazily registered collectors under a mutex (promobs) | counters, histograms, log lines | every part |
| root client and options | facades wired once | `New`, options | every part |

The subscriptions are the only part with goroutines and locks of its own, and
the part whose correctness depends on interleaving, cancellation, full
channels, reconnection and the order of frames. The HTTP facades are sequential;
what is hard in them is the other side: answers that are lost, partial or
contradictory, time limits that race with answers, two calls that use one nonce.

What makes each part correct:

* **user channel**: nothing is sent on a closed channel; a live subscriber is
  never stranded on a stopped or unregistered stream; one connection per user
  id; orders reach every order subscriber once and in order; a slow trade
  consumer holds nobody up; after cancellation the channel is closed; when the
  last subscriber is gone the loop ends.
* **market channel**: a consumer that follows the comments on `UpdateType` holds
  the true book of a token or none; every reconnect is announced before
  anything of the new connection; `Sequence` never goes back between two RESETs;
  waits escalate and never vanish; the channel is closed after cancellation; the
  consumer catches up after a break.
* **order calls**: what each item's result claims is what the exchange did, for
  every answer it can give, and remains so; nothing is cancelled for a
  replacement that is not sent; what an order signer signs is what is sent, and
  the amounts keep the limit price.
* **relayer**: the outcome reported is the outcome reached, and stays so; a call
  that overlaps nothing uses a good nonce, if the relayer names one; a call returns, whatever the relayer
  does, and soon after its ctx is done.
* **listings**: a walk page by page misses and repeats no more than the listing's
  changes explain, and ends.

The list `hazards` of `PROJECT.json` names, at its line, everything found to be
hard to test, and which property covers it.

## Modules

| module | models |
|---|---|
| `WsUser` | the user channel: calls, detach goroutines, loops, consumers |
| `WsUserProofs` | the inductive invariant of `WsUser` and the theorems |
| `UserFeed` | what `SubscribeOrders` and `SubscribeTrades` promise each caller, without locks, streams and connections; implemented by `WsUser` |
| `WsUserOrdersProofs` | the theorem about the delivery of orders, on top of it, and the refinement of `UserFeed` |
| `MCWsUser` | instances of `WsUser`: every call passes the same user id |
| `WsBook` | the market channel with its upstream and its consumer |
| `BookFeed` | what `SubscribeBook` promises its consumer, without connections, guard or channel; implemented by `WsBook` |
| `WsBookProofs` | the inductive invariant of `WsBook`, the theorems, and the refinement of `BookFeed` |
| `MCWsBook` | instances of `WsBook`, and their symmetry |
| `ClobOrders` | the six calls that change orders, the requests they send, the exchange |
| `OrderSigning` | what makes a request a signed order, as operators; extended by `ClobOrders` |
| `OrderPromise` | what the placing calls promise about each request, without requests and answers; implemented by `ClobOrders` |
| `OrderSigningProofs` | lemmas about the operators of `OrderSigning` |
| `ClobOrdersProofs` | the inductive invariant of `ClobOrders`, the theorems, and the refinement of `OrderPromise` |
| `MCClobOrders` | the instance of `ClobOrders`: who calls what with which requests |
| `RelayerService` | `DeploySafe` and `ExecuteSafeTx` calls for one Safe, the relayer they talk to and the chain behind it |
| `SafePromise` | what `DeploySafe` and `ExecuteSafeTx` promise each caller, without requests, answers and polls; implemented by `RelayerService` |
| `RelayerServiceProofs` | its inductive invariant, the theorems, and the refinement of `SafePromise` |
| `MCRelayerService` | instances of `RelayerService` |
| `Listings` | a walk through a listing of gamma or clob that changes meanwhile |
| `ListingsProofs` | its inductive invariant and theorems, with lemmas about pages |
| `MCListings` | the instance of `Listings`: the windows of time asked for |

The components share no state: a websocket stream, an order call and a relayer
call meet only in the services behind them. Calls of one facade do interact
there, so `ClobOrders` and `RelayerService` each have several calls and one
service; `ClobOrders` is composed with `OrderSigning`, which its signing step
uses.

### WsUser and the code

A *subscriber* is one Subscribe call; `pc` says where the call and then its
detach goroutine stand. A call creates at most one stream, so a stream is named
by the call that created it (`streamOf`).

| action | code |
|---|---|
| `Subscribe`, `Cancel`, `Recv` | the caller: the call (167-198), its ctx done, a receive |
| `AttachLock`, `AttachJoin` | `attachUserSub`: `userMu`, look up or create with its loop (335-347); `st.mu`, append, both unlocks (348-351) |
| `DetachRemove` | the goroutine that waits for ctx, and `detachUserSub` up to the first unlock: remove, close (353-377) |
| `DetachLock`, `DetachStop` | `userMu` again, then `st.mu`, look again, cancel, delete (380-389) |
| `LoopTop`, `LoopSleep`, `LoopConnect` | `runUserLoop` (394-433) |
| `ReadEvent`, `ReadFails` | `readUserFrames` (453-490), the end of a read session (435-443) |
| `OrderBegin`, `OrderSend`, `OrderEnd` | `dispatchOrder`: the lock, one send of the range at a time, the unlock (570-586) |
| `DispatchTrade` | `dispatchTrade`, which never waits and is one step under the lock (590-606) |

`userMu` is a variable because attach and detach hold it while they wait for
`st.mu`. `st.mu` is held over more than one step only by `dispatchOrder`
(`stMu`); everybody else takes and gives it back within a step, guarded by
`~stMu`. An event is a number, counted by stream, so that loss, repetition and
order can be told; its contents are not modelled. `last` is a history
variable: the number of the event received last, on attaching that of the
stream's last one. A ctx that was done before the call is one done as the call
begins. A send on, or close of, a closed channel would panic; the model records
it in `panicked`, where the program would stop.

`UserFeed` sees of a subscriber its ctx, its channel, whether that is not yet open,
open or closed (`FeedState`), and how many events have been dispatched to it
(`Offered`); an order counts from the moment the range has come to the
subscriber, so that a `dispatchOrder` is one dispatch for each of them. It has no
locks, streams, loops or connections: that these let nobody's events get lost,
out of order or into a closed channel is what the refinement says.

The checks at the top of Subscribe calls (no URL, no credentials) return before
any state is touched and are left out. `disconnect` is a Boolean here, because
only whether it is positive affects the loop; the length of the waits is modelled
in `WsBook`, which uses the same `sleepBackoff`.

### WsBook and the code

| action | code |
|---|---|
| `LoopTop`, `LoopSleep`, `LoopConnect`, `PushReconnectReset`, `LoopSubscribe` | `runBookLoop` (208-257), `sleepBackoff` (639-653) |
| `ReadFrame` | `conn.Read` and `parseBookFrame` (276-287, 695-790): what the upstream may have sent, as the updates made of it |
| `PushUpdate` | guard and push of one update, or RESET in its place (287-309), with `Accept` = `seqGuard.accept` (860-881) |
| `ReadFails` | end of a read session (277-280, 261-267) |
| `Recv`, `Apply` | the consumer, doing what `types.go:30-40` says |
| `MissedChange` | the upstream changing while nobody is subscribed |

A book is its *version*, the number of changes it has seen. An update is its
token, kind, timestamp and the version it leads to. `frameHash` is made of
sequence, token, type and levels, so in the model the update is its own hash.
`accept` writes the guard before the push; when the push gives up because ctx is
done nobody reads the guard again, so accept and push are one step. In the same
way `g.reset()` after a pushed RESET is part of that push. A `price_change` frame
of several tokens is grouped by a Go map, so its updates come in any order
(`Orders`).

The upstream is external and is modelled from how the code and its comments use
it: it dumps a snapshot of every subscribed token after a subscribe, in one frame
or several, then sends deltas. `DumpNow` says whether a snapshot is stamped with
the time it is sent or with the time of its book's last change. `Anomalies`
switches on what the guard exists for: a delta stamped earlier than one before
it, a delta without timestamp, a repeated frame. The upstream's deltas wait for
the end of its dump. A DELTA sets price levels absolutely, so the consumer may
apply the last one again without harm; applying any other than the next one
makes the book *garbled*, a state `BookFeed` does not have.

### ClobOrders, OrderSigning and the code

Line numbers of this part are of `src/pkg/clob/client_batch.go` (b), `client_replace.go`
(r) and `client.go` (c). `PlaceOrder`, `PlaceOrders`, `CancelOrder`,
`CancelOrders`, `CancelByTokenID` and `ReplaceOrders` go the same way, a loop over
the arguments, one request, the answer fitted back, and are one set of actions;
`args.op` says which call it is.

| action | code |
|---|---|
| `Start` | the call, its results made (b 40-49, r 49-63): `ReplaceOrders` starts from `ErrUpstream`, the others from nil |
| `ScanId`, `Scanned` | the loop over the ids (b 134-145, r 65-76) |
| `SignItem` | `signOne` for the next request (b 50-61, r 78-88, c 120-243) |
| `SendNothing`, `SendHeldBack`, `Send` | the end of the loops: nothing left (b 63-66), nothing cancelled because signing failed (r 89-91), or the request (r 92-112) |
| `TransportError`, `TakeStatus`, `TakeGarbled` | the request fails, its status is not 2xx, its answer cannot be decoded (b 68-79, b 159-175) |
| `TakeCancelled` | `CancelOrder`, `CancelByTokenID` (c 247-285) |
| `TakePlaced`, with `PlaceResults` | `PlaceOrder` (c 86-113), `PlaceOrders` (b 86-115) |
| `TakeCancels`, with `CancelError` | `CancelOrders` (b 172-211) |
| `TakeReplaced`, with `ReplaceCancels` and `ReplacePlacements` | `ReplaceOrders` (r 116-135), `mapReplaceCancels` (r 138-167), `mapReplacePlacements` (r 169-200) |
| `TakeNoEnvelope` | `ReplaceOrders` with an answer that is no envelope (r 118-126) |
| `ServeCancel`, `ServePlace`, `ServeToken`, `ServeEnd`, `Fill` | the exchange and the market, external |

The exchange carries a request out item by item, may turn it away, may stop in the
middle, and goes on after the call has given up. It tells the truth about what it
names, but need not name everything, keep the order, or send an answer that can
be read. It gives an id only to a request that it made an order of (`Entry`): that is
an assumption, and `PlaceOrder`, which does not look at `success`, rests on it. An order has the name of the request item it was made from, so that an
answer that names the wrong one shows. The statuses of a cancel are the two the
code distinguishes and one for every refusal.

`OrderSigning` has numbers where the code has decimals: a price counts ticks, a
size counts parts finer than a base unit, so that `toBaseUnits` has something to
cut off. `SignedFields` is what an EIP-712 signature covers and `SentFields` what the
wire order says; the two differ where the code converts differently (a fee through
`uint64`, a token id that is no decimal number, a signature type of 3 and above),
which `WellFormed` names. `signOne` makes an EIP-712 signature only if the signer has
`SignOrder` and `ScopeID`; with any other signer it signs a line of text (`SignedText`,
c 211-219), leaves the recovery byte as it is, and sends the order all the same.
`Signature` has both branches, and `OrderSigners` says which calls have which kind of
signer: `OrdersVerify` says that the orders of the first kind verify and those of the
second do not. `Wrap` is the width of the fee. The signer is the
address recovered, so that `Verifies` compares fields and the recovery byte
(`helpers.go` 27-46). The salt is the item's position: the code takes
`time.Now().UnixNano()`, which for this purpose only has to be the same in both.

### Listings and the code

| action | code |
|---|---|
| `ReadEvents`, with `NextOffset` | `ListEvents` (`src/pkg/gamma/client.go` 90-169), whose cursor code `ListSeries` repeats (221-225) |
| `ReadOrders`, with `DecodeOrders` | `ListOrders` (`src/pkg/clob/client.go` 315-351), `decodeListOrdersResponse` (`orders_json.go` 14-52) |
| `ReadTrades`, with `SentWindow` and `SentFromID` | `GetTrades` (`client.go` 382-445), `withFromIDQuery` (720-729) |
| `Add`, `Leave`, `AfterID`, `Within`, `Page` | the services' data and how they select from it, external |

The caller passes back the cursor, or for trades the id of the last trade it got.
An answer that fails or does not decode leaves the caller where it was, which is
no step. A page is given by places, an element's place being the number of those ahead of
it (`Ahead`), instead of by sorting. The bounds of `GetTrades` go through
`float32` (`client.go` 396-402):
`Float32` rounds to 24 bits of mantissa as the conversion does, and `Decimal` is
the shortest decimal that tells a float32 from its neighbours, which is what the
parameter's rendering sends. Both are written down for times of 31 bits, from 2004
to 2038, where a float32 is a multiple of 128; `ListingsAssumption` asks that of
the windows.

### RelayerService and the code

Line numbers of this part are of `src/pkg/relayer/service.go`. `DeploySafe` and
`ExecuteSafeTx` have the same shape, ask, sign, submit, poll, and are one set of
actions; `Deploys` says which calls are deployments.

| action | code |
|---|---|
| `Start`, `Cancel` | the caller: the call (96-110, 184-201), its ctx done |
| `TakeAsk` | the answer to `GetDeployed` (110-117) or `GetNonce` (201-204), signing, `Submit` sent (119-159, 206-245) |
| `TakeSubmit` | the answer to `Submit`, the check of the id, the head of the loop (159-168, 245-251, 272-276) |
| `Wait` | the select between ctx and the poll interval (277-281) |
| `TakePoll`, with `Iterate` | the answer to `GetTransaction` (283-300), and the loop's next head |
| `ExchangeFails` | `doer.Do` failing, in the network, by the client's time limit or because ctx is done (`client.go` 104-107) |
| `ServeQuery`, `ServeSubmit`, `LoseSubmit`, `Advance` | the relayer, the network and the chain, external |

A submission (`sent`) has a life of its own: the exchange may fail before or
after the relayer has handled it, and then it may still arrive, also after the
call has returned. A call submits at most one transaction, which is named by
it. `tx` follows the states of `types.go` 13-18, with the hash counted up each
time the relayer sends the transaction again. `ErrAuth`, `ErrNotFound` and
`ErrPrecondition` are one status (`refused`), as the loop treats them alike; 409
joins them for a submission, where the model does not tell them apart; all
other failures are `error`. A 2xx answer need not have the field that was asked for
(`bare`), which the client decodes as its zero value: no transactionID ends the call
with `invalid`, no state is one that is not final, no `deployed` is false, and no
nonce is 0 (`src/pkg/relayer/client.go` 172-174), which the call then signs, on a Safe
that expects another one too. `alone` and `blind` are history variables: a call
overlaps nothing, and such a call took its nonce from a bare answer. On asking and submitting, a failure is one result (`error`),
whether ctx caused it or not. `Iterate` says that a ctx which is done when the
loop comes round is seen at once: the timer is set at that moment, with an
interval of two seconds by default. With an interval of nanoseconds the select
might find both ready and poll once more.

`SafePromise` sees of a call what it returned and with which hash (`Told`), and of
its transaction whether there is one, whether it is under way, confirmed, or
failed (`Fate`), and the hash of a confirmed one (`Hash`). It says what
`OutcomeTrue`, a property of states, cannot say: that a call has one transaction
at most, that none comes after a result that rules it out, and that a final state
is final. `error`, which is all that is left of a submission whose answer is lost,
rules nothing out.

The Safe executes a transaction only with its current nonce, and one deployment
is under way at a time (`ErrConflict`, `errors.go` 27).

## Runs

| run | instance | shows |
|---|---|---|
| `user_races` | 2 order and 1 trade subscribers, capacity 1, 2 orders | `TypeOK`, `NoPanic`, `LiveServed`, `OneStreamPerUser`, `StoppedOnlyWhenEmpty`, `OrdersNotLost` |
| `user_live` | 1 order, 1 trade subscriber, 2 orders, fair | `ClosedAfterCancel`, `SubscribeReturns`, `AbandonedLoopEnds` |
| `user_trade_live` | 1 order, 1 trade subscriber, 1 order, 2 trades, fair | `DispatchFinishes`, `FeedSpec` |
| `user_stalled` | as `user_live`, consumers need not receive | a violation of `ClosedAfterCancel` |
| `book_feed` | 2 tokens, capacity 2, 2 changes each, clock 3, one failure, all anomalies | `TypeOK`, `StreamOrdered`, `ReconnectAnnounced`, `FeedSpec` |
| `book_retry` | 1 token, 8 failures, repeated frames without end; the consumer and the upstream need not do anything | `FirstOrWaited`, `BackoffEscalates`, `ClosedAfterCancel` |
| `book_live` | 2 tokens, 2 failures, fair | `CatchesUp` |
| `book_reset` | 1 token, a delta back in time, fair | a violation of `SnapshotAfterReset` |
| `relayer_execute` | 2 executions, 2 polls, a hash that changes | `TypeOK`, `OutcomeTrue`, `AloneHasNonce`, `CancelStops` |
| `relayer_deploy` | a deployment and an execution, 2 polls, fair | `OutcomeTrue`, `CallReturns`, `PromiseKept` |
| `clob_orders` | a call of any of the six kinds with up to 2 ids and 3 requests, next to a small call that signs text and places two requests, of which `signOne` refuses one, or cancels an old order or the first call's new one | `TypeOK`, `CancelledAsReported`, `ReplaceWhole`, `EveryItemAnswered`, `OrdersVerify`, `LimitKept`, `PromiseKept` |
| `listings` | 5 elements that become 7 or fewer, pages of 2, limits 0 to 3, four windows, fair | `TypeOK`, `MissedAtMostRemoved`, `RepeatedAtMostAdded`, `OrdersComplete`, `TradesOnceInOrder`, `WindowNearlyKept`, `WalkEnds` |

Why the bounds are enough: three subscribers of one user are the least with which
a stream can be left by one, joined by a second and superseded by the third's;
different users share nothing but `userMu`, which three calls of one user already
contend for. One order in flight is enough for the dispatch to meet every step of
the others, and two orders over a channel of one let a slow consumer fill it,
make the loop wait, and drain it again. Order subscribers are alike, and so are
executions and tokens, so the runs without liveness use that symmetry. Two tokens
are the least that share the guard and a frame; two changes each and a clock of
three make frames that tie, advance and go back; one failure gives a second
connection with changes missed before it. Eight failures take the wait to the cap
and past it, with and without a read session between. Two calls are the least
that contend for a nonce or for whether there is a Safe, and the second also
meets a transaction or a submission that the first has left behind. Two polls
have a first, which goes round, and a last, which does not. `MaxPolls` is the
code's own parameter, 120 by default. `MaxOrders`, `MaxTrades`, `MaxVersion`,
`MaxClock`, `MaxFaults` and `MaxHash` bound what the environment does; nothing in
the SDK's own steps is bounded.

In `clob_orders` three requests are the least in which one that fails locally
stands between two that are sent, so that positions on the wire and positions of
the arguments differ, and two of those sent are the least that an answer can
swap; two ids do the same for cancels, one of them empty. There are two statuses for
a request turned away and two for one stopped on the way, each mapped to another
error. The three requests have, between them, both sides, a size with more than
six decimals, a notional that is no whole unit, a maker of its own and a fee; the
other call sells a size of more than six decimals. In
`listings` five elements make three pages of two, the middle one with neighbours
to move in from either side; limits of 0 and 3 are below and above what the
service gives; trades are 35 seconds apart, so that a float32 bound, which may
move by over a minute, passes several of them. `MaxId` bounds what is added.

Deadlock is not checked: the program stops when
all callers have left, and a bounded environment runs out of events.

### Fairness

The Go scheduler runs every runnable goroutine, so the loops are weakly fair. A
`sync.Mutex` waiter is not passed over for ever (starvation mode hands the lock
over after a millisecond), so goroutines waiting for a lock that keeps coming
free are strongly fair. Reading an event needs the upstream and is not fair; a
read that fails is certain only once the loop's ctx is done, which makes the
websocket library close the connection, so that it happens although frames keep
arriving (strong fairness in `WsBook`). Nobody has to subscribe, to cancel or to
trade. `FairSpec` of `WsUser` adds order consumers that receive until they
cancel, which is what a blocking channel asks of them; trade consumers need not
receive at all. `StalledSpec` drops that. `FairSpec` of `WsBook` adds an upstream
that sends the snapshots it owes and a consumer that receives. `FairSpec` of
`RelayerService` asks only that a call's own goroutine runs and that an HTTP
exchange ends, which the client's limit of 30 seconds ensures
(`src/pkg/relayer/client.go:69`); the relayer may stay silent for ever.
`FairSpec` of `Listings` is a caller that goes on while it has a cursor. The order
calls have no liveness property: nothing bounds them but the caller's ctx and
the HTTP client, which are outside the package.

### Disagreements between code and comments

* `user_stalled`: `dispatchOrder` holds the stream's lock while it waits for an
  order consumer (571-577), and a detach needs that lock to close its channel
  (360). One consumer that has stopped receiving, without cancelling, keeps the
  channels of the user's other subscribers open after their ctx is done, although
  the comment on `SubscribeTrades` promises `ctx 取消后关闭` (182-183).
* `book_reset`: after the guard's RESET the loop keeps the same subscription
  (297-303), and snapshots come only after a subscribe; the SNAPSHOT the consumer
  is told to wait for (`types.go:35`) need not ever come.

Others, met while modelling, have no run. In the websocket package: the comment
in `accept` (864) says that updates without timestamp are passed, but the condition
above it also asks for an empty hash, which `frameHash` never returns. An element
that does not decode is skipped without RESET (713), so the next DELTA is applied
to a book that misses a change; no frame of the model is such.

In the relayer: the comment at `src/pkg/relayer/service.go:285` says that the
select above handles a ctx that is done, but after the last poll there is no
select, and the call returns `ErrTxTimeout` (300). `ErrInvalidConfig` is for
arguments that are not valid (`src/pkg/relayer/errors.go:31`), and is returned also
when the relayer has taken the transaction and the answer names no id
(`service.go:272-274`); the model has the case, and `OutcomeTrue` promises nothing
of it. `GetNonce` is said to return 0 when the nonce is missing or cannot be parsed,
as it is for a Safe that is not deployed (`client.go:147-148`); what cannot be parsed
is an error in the code (169-171, 175-178), and a missing nonce is 0 for every Safe, so
that a lone call can sign a nonce that is used up. `AloneHasNonce` has both cases.

In `src/pkg/clob`:

* `PlaceOrders` and `CancelOrders` promise an error per item (`client_batch.go:13`);
  when the request as a whole fails, the items keep a nil error and, for
  placements, an empty id. `EveryItemAnswered` therefore asks it of them only when
  the call returned nil.
* `CancelOrder` and `CancelByTokenID` read the status only (`client.go:267-285`): a
  2xx answer whose `not_canceled` names the order is a success.
  `CancelledAsReported` leaves them out.
* `CancelOrders` takes an answer without the list of those cancelled as success for
  every id it does not refuse (`client_batch.go:194-209`). `CancelledAsReported`
  holds because the modelled exchange lists every id it did not cancel.
* `PlaceOrder` ignores the answer's flag `success` (`client.go:105-112`), which
  `PlaceOrders` and `ReplaceOrders` check (`client_batch.go:93`,
  `client_replace.go:178`): with an exchange that gives an id to an order it rejects,
  it would return that id as placed. The model's exchange gives an id only to an
  order it made.
* The orders of a signer without `SignOrder` and `ScopeID` are signed as text and sent
  (`client.go:211-219`), a path kept for the tests' mock signers; the exchange cannot
  verify them, and the caller is not told.
* `signOne` lets pass what the exchange cannot verify: a signature type of 3 and
  above is signed as it is and sent as "0"; a negative fee is signed modulo 2^64; a
  token id that is no decimal number is signed as 0. An order below a base unit is
  signed with an amount of zero. Of a size with more than six decimals the tokens are
  cut off too, so that a buyer may sign to pay up to the price of one base unit more
  than the tokens it gets; `LimitKept` gives the bound.
* The bounds of `GetTrades` are exact in its own type (`types.go:183`) and go
  through `float32` (`client.go:396-402`): they move by up to 64 seconds, and again
  in being written with few digits. `WindowNearlyKept` says what remains true. The
  code itself notes that a service may ignore `from_id` (408-410).
* An order that does not decode stops a walk through `ListOrders` for good
  (`orders_json.go:19-52`); `GetTrades` takes `{}` for an empty last page
  (`client.go:430-443`).

In `src/pkg/gamma`: `ListEvents` and `ListSeries` return an empty cursor after the
first page when the limit is 0 or above what the service gives
(`client.go:87-88`, 159-169), so `MissedAtMostRemoved` is about limits the
service keeps to.

## Proofs

`WsUserProofs` proves, for any number of calls and users, any assignment of calls
to users, any capacity and any number of events (the only assumption is
`ConstantsAssumption` of `WsUser`, which fixes the types of the constants and
that `None` is no subscriber):

| theorem | says |
|---|---|
| `TypeCorrect` | `Spec => []TypeOK` |
| `NeverPanics` | `Spec => []NoPanic` |
| `SubscribersServed` | `Spec => []LiveServed` |
| `OneConnection` | `Spec => []OneStreamPerUser` |
| `StopsOnlyWhenEmpty` | `Spec => []StoppedOnlyWhenEmpty` |

None of the last four is inductive by itself. `IInv` adds what they rest on:
who holds `userMu` and for which steps (`LockOwner`); `stMu` is held exactly
while the loop is sending (`StreamLock`); a call's stream exists, was created by
a call for the same user, and a new subscriber joins a registered one
(`CallStream`); the registry holds exactly the one uncancelled stream of a user
(`Registry`); a stream's slice holds each live subscriber of it once and nobody
else (`Membership`); a cancelled stream is empty, and an ended loop was cancelled
(`Cancellation`); a channel is closed exactly when its subscriber has left the
slice (`Closing`). The heart of it is `DetachStop`: between `DetachRemove` and it
another call may have joined, but joining needs `userMu`, which `DetachLock` has
taken, so what `DetachStop` sees of `subs` stays true until it lets go. The
lemmas go action by action; `WithoutProperties` states what removing an element
of a slice keeps. TLC checked `IInv` on the instance of `user_races` before it
was proved.

`WsUserOrdersProofs` adds `EveryOrderDelivered`, `Spec => []OrdersNotLost`, and
with it all safety of the user channel is proved. `DInv` says of each order
subscriber that is owed events that its channel holds exactly those between the
one it received last and the one sent last (`Holds`), where the last one sent is the
one in dispatch only for those whom the range has passed; of calls that have not
joined that they hold nothing (`Unsent`); and of a stream that is not dispatching
that its range begins at the beginning (`AtStart`). It rests on `Membership` and
`Cancellation` of `IInv`: the range of a dispatch goes over the slice as it is, and
because of the lock the slice does not change under it.

Its second theorem, `FeedCorrect`, is `Spec => FeedSpec`: `WsUser` implements
`UserFeed`. Under `IInv` and `DInv`, `AttachJoin` is the abstract `Open`,
`DetachRemove` is `Close`, one send of the range is a `Dispatch` to its subscriber,
`DispatchTrade` one to all trade subscribers of the stream, those with a full
channel missing it; every other step of loops and goroutines is a stutter. The
lemmas about `Sent` carry it: beginning and ending a dispatch, breaks, reconnects
and other calls' coming and going change nobody's count (`BeginSent`, `EndSent`,
`GoroutineSent`), and a send raises that of its own subscriber only
(`SendSent`).

`WsBookProofs` proves, for any set of tokens, any capacity, any limit of the
waits and any of the upstream's anomalies (`ConstantsAssumption` and
`NoneAssumption` of `WsBook`: types of the constants; `None` is no update):

| theorem | says |
|---|---|
| `TypeCorrect` | `Spec => []TypeOK` |
| `OrderedStream` | `Spec => []StreamOrdered` |
| `ReconnectsAnnounced` | `Spec => []ReconnectAnnounced` |
| `EveryRetryWaited` | `Spec => []FirstOrWaited` |
| `WaitsEscalate` | `Spec => BackoffEscalates` |
| `FeedCorrect` | `Spec => FeedSpec`: `WsBook` implements `BookFeed` |

`StreamOrdered` follows from `Guard`, which ties the guard to the last update
pushed, and `InOrder`, the order within the channel; `ReconnectAnnounced` from
`Announced`, `FirstOrWaited` from `Waiting`. `WaitsEscalate` needs `Escalating`,
which says what the last wait was in terms of the failures counted; the shift stops
at 2^5, so that the longest wait is the limit or 32 seconds, whichever is less
(`LongestWait`). The refinement is about the
consumer, who is up to a full channel behind the loop. What will become of its books as it
drains the channel is a *path*: a sequence of views, one per update in the
channel, each of which *fits* its update and is what the update before it leads to
(`After`). `Books` says that there is such a path from the books as they are to a
view that the loop owes nothing but the updates still pending (`Due`). A push makes
the path longer at its end, applying an update shortens it at its beginning, and
neither needs to look at the middle; that is why an existential path is
inductive where a direct statement about consumer and loop is not. `Frames` says
that a frame tells of the books as they are when it is read. TLC checked `IInv` on
the instance of `book_feed` before it was proved.

`OrderSigningProofs` has the lemmas about signing that `ClobOrdersProofs` cites:
truncation stays within a base unit of the limit for every size, and within the limit
for a size of whole units; well-formed requests are signed by an order signer as they
are sent. `ClobOrdersProofs` proves, for any number of calls, ids and requests, any
contents of the requests and any scale (`ArgumentsAssumption`: the arguments
are ones the functions can be called with; `ScaleAssumption`: scales are
positive):

| theorem | says |
|---|---|
| `TypeCorrect` | `Spec => []TypeOK` |
| `CancelCorrect` | `Spec => []CancelledAsReported` |
| `ReplaceCorrect` | `Spec => []ReplaceWhole` |
| `AnswerCorrect` | `Spec => []EveryItemAnswered` |
| `OrdersCorrect` | `Spec => []OrdersVerify` |
| `AmountsCorrect` | `Spec => []LimitKept` |
| `PromiseCorrect` | `Spec => PromiseKept`: `ClobOrders` implements `OrderPromise` |

`Inv` is `TypeOK` and, for every call, `CallInv`: before its time there is nothing
(`Fresh`); an id looked at is sent or empty with its error (`Scan`), a request
tried is sent once or has its error (`Sign`); an order exists exactly if the log
of the exchange has it, and an id the log has as cancelled or not found is not
open (`Log`); what has been told agrees with the log (`Told`). That an id stays
closed rests on two things: an id that is passed to a call is that of an order
already made (`Scan`), and an order is made once, as no position is sent twice
(`Sign`). For the refinement, a call that
returns is `Tell`, the exchange's placing is `Place`, and all else stutters; a
request reported as refused was never sent, or was sent with a request that the
exchange turned away untouched.

`RelayerServiceProofs` proves, for any number of calls, polls and changes of a
hash (`ConstantsAssumption` of `RelayerService`: there is at least one poll, and
`None` is no number):

| theorem | says |
|---|---|
| `TypeCorrect` | `Spec => []TypeOK` |
| `OutcomesAreTrue` | `Spec => []OutcomeTrue` |
| `NonceIsFresh` | `Spec => []AloneHasNonce` |
| `CancellationStops` | `Spec => CancelStops` |
| `PromiseCorrect` | `Spec => PromiseKept`: `RelayerService` implements `SafePromise` |

A result is true because the answer it rests on was true when it was given and
could not become false on the way: a transaction does not leave a final state,
its hash is fixed by then, and a deployed Safe stays. `Inv` says so of answers
that nobody has read yet (`Answers`), and ties transactions to submissions
(`Submission`: a submission that is still on its way has no transaction, and one
that is polled has arrived), results to the place of the call (`Progress`), and
the Safe to deployments (`Deployment`). `Undisturbed` is what makes a nonce good:
while a call is alone no other call, submission or transaction is left that could
move the Safe's nonce, so that a nonce the relayer named stays good; a call that was
named none has signed 0. The refinement adds `Settled`: after `already`, `refused` and
`invalid` no submission is on its way, because these results are read from an
answer, and an answer to a submission means that it has arrived. A call that
returns is the abstract `Return`, a submission taken is `Take`, the chain's steps are
`Deploy`, `Confirm` and `Fail`, and all else is a stutter. TLC checked `Inv` on both instances before it was proved.

`ListingsProofs` proves, for any number of elements, any limits, pages of any
length, any orders that do not decode and any windows between 2004 and 2038
(`ListingsAssumption`: types of the constants, a page holds at least one element):

| theorem | says |
|---|---|
| `TypeCorrect` | `Spec => []TypeOK` |
| `MissesExplained` | `Spec => []MissedAtMostRemoved` |
| `RepeatsExplained` | `Spec => []RepeatedAtMostAdded` |
| `OrdersWalkComplete` | `Spec => []OrdersComplete` |
| `TradesInOrder` | `Spec => []TradesOnceInOrder` |
| `WindowKept` | `Spec => []WindowNearlyKept` |

What the properties say of a walk that has ended is not inductive, as it says
nothing of one under way. `EventsInv` does: of the elements that stand before the
next offset (`Front`), no more are missing than were removed; and the elements
returned twice, with those returned that have been pushed behind the offset and so
may be, are no more than were added. A removal lets at most one element slip
into `Front`, an addition at the front pushes at most one out of it. A page read
turns the places after the offset into `Front` and into returned elements alike,
and a page that is not full reaches the end of the listing. `OrdersInv` and
`TradesInv` are simpler, because their cursors are elements, which do not move.
The lemmas about pages need no induction over them: an element's place is a
cardinality, every place below the size of the listing is taken by exactly one
element (`AheadExists`, `AheadDiffers`), and a page is the elements of consecutive
places (`PageLemma`). `WindowKept` is arithmetic: `float32` moves a bound by at
most 64, and writing it down by at most 64 more. TLC checked `IInv` on the
instance of `listings`.

Only model-checked: the liveness properties (`ClosedAfterCancel`,
`SubscribeReturns`, `AbandonedLoopEnds`, `DispatchFinishes`, `CatchesUp`,
`CallReturns`, `WalkEnds`), as liveness under fairness is out of the prover's reach.
The two violations are TLC's too.

## Not modelled

* The ping loop: it changes no state the readers look at. A half-open connection
  is therefore outside the model.
* JSON and decimal decoding, `mapOrderStatus`; a frame that does not decode is
  skipped by the code without a RESET, and the model's frames all decode.
* What the upstream sends while the user channel is disconnected: those events
  are lost without a sign, as the comments say.
* Of clob: `GetOrder`, `GetBook`, which read one object and map its fields; an
  answer of `ReplaceOrders` that names an index twice or beyond the request.
* Of gamma: the queries that read one object or one page. One of them,
  `GetMarketByConditionID`, takes the first element of the answer unchecked.
* Of the relayer: `GetTransactions`, the checks of arguments and the contents of
  what is signed.
* promobs registers collectors under one mutex on first use, zapobs writes log
  lines: no step of theirs waits, and no other part reads their state.
* Hashing and ECDSA (`pkg/signer`, `pkg/relayer/eip712.go`): pure functions
  tested against vectors. Options, examples, contract tests.
* The generated HTTP clients, which are 10 051 of the 17 123 lines of code and make
  requests and decode answers without state of their own. They bound the share of
  the code that a model can stand for.

## Plan

1. Done: `WsUser` and `WsBook` with `UserFeed` and `BookFeed`, all safety and both
   refinements proved. They came first because they hold all the concurrency of
   the library.
2. Done: `RelayerService` and `SafePromise`, all proved.
3. Done: `OrderSigning`, `ClobOrders` and `OrderPromise`, all proved.
4. Done: `Listings`, all safety proved.
5. Left: frames that do not decode, in `WsBook`, with what remains true of a book
   then; an upstream with a state of its own in `WsUser`, to say how much a
   reconnection loses.
