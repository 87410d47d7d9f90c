# TLA+ models and proofs of predmarket-arb

predmarket-arb watches pairs of equivalent markets on two venues (Kalshi and
Polymarket US), evaluates every pair on every order-book update, and records
when a pair is *viable* (a hedge clears fees and slippage). What it produces is
measurements: how often windows open, how long they stay open, whether they are
still open a moment later. So the failures that matter are silent ones: a
market that is no longer streamed, a book that is no longer the venue's, two
markets paired that are not one bet, a row that is never written, a window that
is never closed, a report that counts what nobody saw, an alarm that does not
ring. The models in this directory follow the data from the catalogs to the
report and are about those.

All of `pmarb` that streams runs in one asyncio process; a step of those models
is what one task does between two awaits, except where two threads share state
(the writer). The scripts are processes of their own; a step of those models is
what one of them does between two things another one can see: a file operation,
a database statement, a status line.

## 1. Inventory

| Component (source) | State | Operations | Must hold |
|---|---|---|---|
| Kalshi stream (`feeds/kalshi.py`) | `_meta`, `_ws`, `_sid`, `_cmd_id`, `_acks`, `_pruned`; the reader's `books`, `last_seq`, `tickers` | connect and subscribe, read a frame, idle timeout, reconnect, `resync`, `_mutate`, crash and restart | a yielded book is the venue's; the subscription becomes the desired set; "live" is true; a resync returns |
| Polymarket stream (`feeds/polymarket.py`) | per shard `meta_by_slug`, `batches`, `ws`, `errors`, request ids; `_acks`; the list of shards | per-shard connect and subscribe, control frames, `resync`, `_prune_shard`, `_recycle`, new shards, the end of a shard and of the stream | the venue's cap per connection; every market placed; survivors of a removed batch resubscribed; refusals noticed |
| Hot loop (`main.py`) | `cache`, `index`, `last_append`, `pair_id` | take a book, evaluate its pairs, decide a row, submit it; restart a crashed consumer | rows tell when windows open and close |
| Refresh (`refresh.py`) | the same structures, and the two market lists | diff, database sync, close markers, in-place rewrite, both resyncs | no open window is dropped without a marker; nothing of a past slate remains |
| Observation writer (`db/writer.py`) | queue, task, two worker threads, four counters | `submit`, `start`, `stop`, batching, write | every row is in one place; a drop only at the limit; the counters account |
| Detection (`detection/spread.py`, `fees.py`) | none | `max_fillable_size`, `evaluate_pair` | the largest size that clears; a pair that clears is never recorded as one that does not |
| Matching (`matching/`, `scripts/export_candidates.py`) | the claims of a layer, the legs already taken | structured, futures, lines, props, lexical; `dedupe_one_to_one` | no market in two pairs; a pair on one game is a hedge; a market is paired with its own game |
| Database sync and schema (`db/sync.py`, `schema.py`) | `market`, `match_pair` | upsert, retract, verdicts | a pair that is produced is live, one that is not is retracted, whoever else writes |
| Nightly refresh (`scripts/refresh.sh`, `seed_db.py`) | lock, staging directory, `matches.json` | match, gate, rename, seed | one run at a time; no collapse of the match set; the collector sees the new file |
| Funnel and survival (`backtest/`) | none | windows by gap, by state; censoring; a filter by the match set | what is said of a window was seen |
| Watchdog (`scripts/watchdog.sh`) | the state file, docker's log | compare two status lines, alert, restart | "ok" means measured; a fault keeps raising alerts |
| API, logs, latency, credentials, migrations | files, counters | read, append, sign | no interaction with the above |

How they interact. Nightly, the matchers write `matches.json` and `seed_db.py`
puts it into the database. The collector's refresh reads the same file, awaits a
database thread that upserts the same table, rewrites the hot loop's structures
in place without an await, and calls `resync` on each feed, which changes the
attributes the feed's reader works from and exchanges messages with the venue
over the reader's own socket: the reply is read by the reader and handed over
through a future. The two feeds are async generators; the hot loop iterates over
each in its own task, shares `cache` and `index` between the two, and submits
rows to the writer without waiting; the writer's task hands batches to a thread.
The report reads rows, and the pairs as the last sync left them. The watchdog reads what the
collector prints.

The hard behaviours: the refresher and a reader interleave at every await of
either; sockets die, stall, or are replaced while a reply is awaited; venues
refuse or ignore a change; sequence numbers are shared by books and replies;
removal on Polymarket is by batch; the writer's counters are updated by two
threads; a stop cancels work in progress; two transactions that read and write
one table overlap; a rename changes the file behind a mount; a log outlives the
process that wrote it; five layers of matchers claim the same markets.
`PROJECT.json` lists the hazards one by one, at their lines, with the properties
that cover them.

## 2. Modules

| Module | Models | Proved in |
|---|---|---|
| `KalshiFeed`, `MCKalshiFeed` | the reader, the refresher inside `resync`/`_mutate`, the restarted consumer, the socket and the venue | `KalshiFeed_proofs` |
| `PolymarketFeed` | shards, their readers, the refresher inside `resync`, the stream around them, the venue | `PolymarketFeed_proofs` |
| `Collector`, `MCCollector` | the hot loop and the refresh over the state they share | `Collector_proofs` |
| `ObservationWriter` | the queue, the batching task, the two worker threads, stop | `ObservationWriter_proofs` |
| `RowLedger` | what the writer promises its callers: the abstract specification | `ObservationWriter_proofs` |
| `FillWalk`, `MCFillWalk` | the evaluation of one pair: the depth walk, its gate and early exit, the frontier, the better direction; and the same economics by size, as a reference | `FillWalk_proofs` |
| `Names` | names of competitors, their scores and the alignment of two pairs of them | `Matching_proofs` |
| `Matching`, `MCMatching` | the five matchers and the one-to-one assignment of layer after layer | `Matching_proofs` |
| `Publication` | `refresh.sh`, the seed, the refresh's transaction, rebuilds by hand, verdicts: everything that writes `matches.json` and `match_pair` | `Scripts_proofs` |
| `Report`, `MCReport` | rows as the collector writes them, and the funnel and the survival curve that are read out of them | `Report_proofs` |
| `Watchdog` | the collector as seen from outside, its status lines, `watchdog.sh` | `Scripts_proofs` |

The parts are composed by contract, so that each stays small enough to be
checked. `Collector` only needs to know of a pair whether it has an evaluation and
whether that is viable, and keeps the two independent of `FillWalk`. A feed may
yield it a book of any market it wants; `KalshiFeed` and `PolymarketFeed` say what
a feed wants and when it is sent it. It treats the writer as something that stores
a row or drops it, which is what `RowLedger` states and `ObservationWriter`
implements. `Publication` takes from a run of the matchers only which pairs come
out, any set, and `Matching` says what can be in it. `Report` repeats of
`Collector` the rule that decides a row and not the streams around it.

### KalshiFeed

`meta`, `ws`, `sid`, `cmdId`, `acks` and `pruned` are the attributes of the same
names; `books`, `lastSeq` and `tickers` are the locals of `stream_books`. A
socket is the number of the connection that made it, so that a refresher that
captured an old one can be told from one that holds the current one. `OpenSocket`
is the head of the reconnect loop, `Connected` the return of the connect with
the subscribe sent, and one action per kind of frame follows: a gap, the
`subscribed` ack, a reply, a frame of an unwanted ticker, a book. `Resync` is the
code up to the first await, `MutateSend` up to the await of the future,
`MutateAnswered` and `MutateTimeout` its two ends, `CloseSocket` the fallback.
While the refresher is between two awaits (`Running`) no step of the reader is
taken.

A ladder is one level with a size up to `MaxSize`; a frame carries, unseen by the
code, the size the venue had when it sent it, and `ReadBook` notes whether the ladder agrees.
`VenueMutate` answers in six ways: applied and echoed, applied and acknowledged
without the echoed list (`bare`), acknowledged and not applied (`noop`), rejected,
silent, and acknowledged so without being applied. The runs have all but the last: a
bare acknowledgement of a change not made (`bare_noop`) would be believed, as the
comment at `kalshi.py:684` accepts.

A resync inside the connect window (the ticker list has been read and the
subscription id is not known, `kalshi.py:528` to `739`) is reported as
"on_reconnect" and applied by no reconnect: its additions are not subscribed, nor
what it dropped unsubscribed, until something else ends the connection. Every run has
such resyncs. `overtaken` holds the tickers they added or dropped until the next
connect reads the list; `CoveredWhenQuiet` and `EventuallyCovered` except these and no
others. Without the exception, as the docstring of `resync` has it, both are false.

One kind of book does go wrong, and `BookFaithful` says which. A ticker the reader
does not want has no ladder: its frames are passed over (`kalshi.py:601`), the ladder
it had is forgotten (`kalshi.py:568`). If a refresh wants it again while the venue
still streams it, the next delta is added to an empty ladder (`kalshi.py:603`) and a
book of that one level is yielded, although the docstring of `stream_books` promises
a fresh full-depth one. An `add_markets` for a ticker that is already subscribed
brings no snapshot in the model (the venue's answer is not recorded), so that this
lasts until the connection ends. Two ways lead there: a refresh that drops the ticker
inside the connect window, so that the venue goes on sending it, and a later refresh
that wants it back; and a `delete_markets` whose wait ends without an answer, with a
second refresh before the reader has read what the closed socket still holds. The
second needs two refreshes within moments, the first only a pair that is dropped on
one day and matched again on the next. `readded` holds these tickers until their next
snapshot; of any other ticker every book is the venue's.

### PolymarketFeed

One record of variables per shard. A batch is a request id and its slugs. The
resync is a program over the shards (`at` is the one whose turn it is): prune
each, waiting for an acknowledgement per stale batch (`PruneNext`,
`Acknowledged`, `AckTimeout`), place the additions (`PlaceAdds`), start new
shards (`Overflow`), wait and compare the error counters (`GraceOver`), recycle
(`Recycle`). The sends of a resync do not suspend it; those of a connecting
reader do, one step per batch (`SubscribeNext`), which is where a resync can meet
a shard whose batches are not all recorded yet, and where a recycle can pull the
socket out of a subscribe (`ReaderRaises`, `polymarket.py:716`). An exception in a
shard's task ends it (`ReaderEnds`), a shard that ended or a consumer that raised
ends the stream (`StreamEnds`, `ConsumerRaises`), and the consumer starts it again
on the list the refresh left (`StreamStarts`): new shards, with a resync of the old
ones perhaps still under way (`ghosts`, `OrphansPruned`). The queue that merges the
shards carries books only and delays the end of a shard being noticed.

A restart under a resync has one more effect, which no later resync undoes: the new
shards start with the corrected list, the resync wakes up and places its additions
on them once more (`polymarket.py:884`), and a slug is then on two shards, or twice
on one, until the next restart. `LiveMeansExact`, `PlacedWithinCap` and the half of
`Covered` that says what is not streamed except exactly the streams started under a
resync that still had slugs to place (`doubled`).

Three statements of its comments the code does not keep, met while modelling and
stated as exceptions of the properties: an unsubscribe that fails leaves the lists
of the batches after it uncorrected, and the recycle subscribes their dropped slugs
again (`polymarket.py:967` against the comment at 943; `LiveMeansExact` speaks of
"live" only); a refusal read while a prune is waiting is before the counters are
compared and is not acted on (923; `EventuallyCovered` excludes refusals); and a
resync can raise when a reader clears `shard.ws` between two of its sends (806,
961), with additions unplaced (`PlacedWithinCap` excludes "failed").

Such a raise has a second effect. A shard the resync had given up on before it is never
recycled, against the docstrings at `polymarket.py:843` and 941: it goes on with
batches that were left half removed, streaming what nobody wants, or not what a later
resync believes it has, until its connection ends by itself. `spared` is the history
variable for these shards, and `CoveredWhenQuiet`, `PlacedWithinCap` and
`EventuallyCovered` except exactly them. The proof found this: with the three slugs of
the run no raise follows a shard that was given up, so that TLC never saw it. Four
slugs do it, with the match sets `{s1, s2, s3, s4}` and `{s1, s3}`, two to a connection
and a batch, and one fault. The theorems hold for every value.

### ObservationWriter

`Submit` is `submit`. `Collect` is a pass of `_run` from the first row to the
hand-over of the batch: on Python 3.12 (the Dockerfile's build) `wait_for` on a
queue that holds a row does not suspend, so nothing can come in between. (On
3.11, which `pyproject.toml` still admits, it would suspend, and a stop could also
lose rows collected but not handed over.) A worker thread's `stats.c += n` is two
steps, a load and a store. `Insert` may commit, raise, or commit and then raise.
`Stop` cancels the task: a thread that has not begun is taken off the executor
with its batch, one that has begun runs on while `_drain_remaining` runs beside
it. The batch taken off is neither drained nor written nor counted, although
`stop` promises to drain what is queued (`writer.py:76`): the ledger has a place
for exactly that batch (`abandoned`). Rows submitted are history (`offered`,
`refused`, `stored`, `givenUp`, `abandoned`).

### Collector

Prices are reduced to where YES is cheap: a pair is viable when the two books
differ. The clock is not kept: staleness, throttle and heartbeat are chosen when
they are asked for. `TakeBook` is one turn of `_consume_stream`: cache, every pair
of the market, `sample_reason`, submit, `last_append`. `RefreshReads`,
`RefreshPublishes` and `RefreshPoly` are the stretches of `refresh_once` between
its awaits; books arrive between any two. `shownOpen` holds the pairs whose last
stored row is VIABLE, `oddCloses` counts closing rows by their parity (so that each
stored close is seen, also one like the row before it), and `unsaid` holds the pairs
whose latest row was not stored: dropped at the queue's limit, or without a
`match_pair` id.

The Polymarket resync at the end of a cycle may leave dropped slugs streaming: their
books wait in the merged queue, a shard is connecting with its old list
(`polymarket.py:948`), batches behind a failed unsubscribe are never corrected (967), or
the resync raises and `refresh_once` goes on (`refresh.py:266-274`). `RefreshPoly` leaves
any of them, and what Polymarket had not let go of when the next refresh publishes is
`notYetOff`. Their books refill the cache after each pruning (`main.py:208` does not ask
whether a market is tracked). `CacheBounded`, a conjunct of `TypeOK`, says that this is
all the cache holds beside the tracked markets: a slug let go of is gone with the next
refresh, one left streaming stays. Kalshi passes over frames of tickers it does not want
(`kalshi.py:601`), so its dropped tickers do not come back.

A book that empties or goes stale leaves its pair without an evaluation and so
without a row (`main.py:224`): the window's last row reads viable until the next
evaluation. Properties here and in `Report` therefore speak of evaluations.

### FillWalk

`BuyShare` is one turn of the loop of `max_fillable_size`, a share of each leg, and
`RunsOut` its end at the cap or the thinner leg; `NextDirection` and `Compare` are the
loop of `evaluate_pair` around it. Money is counted in hundredths of a cent, the unit
fees are rounded to, and averages are compared multiplied out, so the model has the
code's rounding (of a fee, and of a size to whole shares) and not the error of its
floats. Ladders and prices are inputs; `FillAssumption` says what the feeds
guarantee of them: levels cheapest first (`Sorted`, `market.py:154`), and uncrossed,
that is, no venue sells both sides of a market for less than a dollar. The two
cost and two fee sums of the code are kept as one each, since only their sums decide.
A fee is rounded half up; Python's rounding differs on exact ties, which no price of
the run reaches. The reference (`Totals`, `EdgeAt`, `SizeClears`, and `Fill` for
`compute_fill_price`) knows nothing of the walk. The staleness gate of
`evaluate_pair` belongs to `Collector`.

One disagreement with the docstring (`spread.py:257`) is the exception of
`ZeroIsNoTrade`: when the top of a leg holds less than one share, a row of size 0 can
show an edge above the buffer, because the one contract is priced there and the walk
never buys it.

### Names and Matching

A name is the set of its words and of the single letters that abbreviate one;
folding accents and punctuation has happened. `CompetitorScore` and `Align` are the
functions of `structured.py`. A market of `Matching` is its structured identity, as
the parsers leave it, beside the truth about it (`game`, `team`) that no matcher
sees. The layers run in the order of `export_candidates.py`: `RunMatcher` computes a
layer's candidates, `TakeClaim` is the matcher's own walk for lines and props (ties
go by catalog order, so any of them), `WalkBlock` is one group of equal rank of
`dedupe_one_to_one`. `OrientedPays` is what `main.oriented` makes of an inverted pair.
The catalogs of `MCMatching` name the second game of a series the other way round on
Polymarket, so that a hedge may need the inversion.

`HedgePays` speaks of the layers that know sides, names and terms: structured and
lines. The lexical layer pairs texts, always the same way round; its candidates are for
review by hand (`matcher.py:11-13`). `LinesKeepTheirGame` speaks of one contract listed
twice (`SameContract`: layer, terms, game, and the player of a prop).

What the code does and the properties are worded around:

- An unknown settlement date is written as a difference of no days
  (`futures.py:170`, `lines.py:187`, `props.py:131`, `_delta_days(...) or 0`) and so
  ranks best, though the comment of `_delta_rank` says that unknown must lose.
- A title name contained in the other team's full name files a Kalshi moneyline
  under the wrong team (`structured.py:185-193`). The catalogs exclude such titles
  for moneylines (`ClearTitles`).
- After a contested block is refused, a candidate of lower rank may win the same
  market (`matcher.py:227-238`); `LostForCause` says exactly what a refusal rests on.
- The lexical layer skips games and outrights, and sees lines and props
  (`matcher.py:121-127`), though its comment calls what is left genuinely
  unstructured. A spread it pairs may be with its complement.
- Within the start tolerance of 30 hours, a market whose own counterpart is not
  listed may be paired with the neighbouring game of a series.

### Publication

`refresh.sh` is `MakeLock`, `Stage`, `Export` (the matchers, the gates and the
rename), `SeedReads`, the transaction and `Exit`; a kill leaves the lock. The
transaction of `seed_db.py` and the one of the refresh are the same actions
(`Upsert`, `Select`, `Retract`, `Commit`, `Abort`): statements under READ COMMITTED
that see what is committed when they run, wait for rows another transaction has
written, and are rolled back when they wait for each other. `view` is what the
collector's bind mount shows: the path, or the inode it had. `Review` records a
verdict; a collector in the container reads none, as the image has no
`reviews.json` (`.dockerignore`), and its upsert writes that verbatim: labels are
blanked until the next seed.

`refresh.sh` creates its staging directory before it sets the trap (lines 88-90,
against the comment at 85-87): a `mktemp` that fails leaves the lock to the operator,
which `Stage` has. The collector upserts markets and not pairs when it starts
(`CollectorStarts`), whatever the docstring at `sync.py:3` says.

### Report

Time is the number of the event. `Evaluate` writes rows by `sample_reason` (throttle and
heartbeat chosen), `Refresh` writes the close markers, `Restart` forgets the windows.
`Windows` (its walk over the rows as a recursive function, `upTo`) and `Persistence` are
the funnel's, `Opens`, `StateAt` and `Fate` those of `survival_curve`.

A pair not evaluated since the start counts as last written at 0.0 of
`time.monotonic()`, the uptime of the host (`main.py:266-277`). On a host that has been
up for longer than the heartbeat its first evaluation is always written; on one that
just booted (`young`) it need not be, and a window that was open before the restart then
goes on in the rows. `SurvivalFaithful` excepts a restart on such a host (`coldStarts`)
between the row the curve reads and the target. Without the exception, as the docstring of
`survival.py` has it, it is false.

A duration is rounded to a tenth of a second before it meets a cutoff (`Durations`;
`Tenth` is one in instants). Half a tenth may go either way, as its binary fraction
lies. So a window may persist for a cutoff that its last row does not reach, and the
curve then calls it censored: `WindowsExplainOpens` allows that within half a tenth.
Otherwise the two notions of a window differ exactly by silences and reopenings, where
`survival.py:64` calls them the same event.

Which pairs a report takes in is not modelled. The code filters by what the last sync
left in `match_pair` without retracting it (`sources.py:104`), and each sync retracts
whatever its match file does not name: a pair whose game is over leaves the report like
one that was never a hedge, though `sources.py:52` promises every pair monitored in the
period.

### Watchdog

The specification is `WatchdogSpec`, and its parts carry the prefix, so that one module
can extend it beside `Publication`. `Judge` is the comparison of the newest line with
the state file, one alternative per verdict; `CheckUp` and `CheckDown` are a run of the
script. With `--restart` a check that finds a wedge or no line calls `docker restart`,
which may fail (`watchdog.sh:96`): one more alert, and state file and collector as they
were. The line ages by checks and outlives its process, as docker's log does. Two
behaviours follow and are in the model: with `--restart`, a collector that takes longer
to start than one interval is restarted again over its predecessor's line; and the age
an alert quotes for a frozen counter (`watchdog.sh:212-223`) is text and not modelled,
which may overstate it when the compared signal changed in between.

## 3. Runs

All with TLC; the bounds are the constants in the `.cfg` files.

| Run | Question | Bounds |
|---|---|---|
| `KalshiFeed_safety` | is a yielded book, a waiter, a ladder or a "live" ever wrong? | 2 tickers, sizes 0..2 of the one that moves, 6 sequence numbers per connection, 2 resyncs, 1 fault |
| `KalshiFeed_coverage` | does every resync return, and is the desired set what is sent in the end? | sizes not modelled, 3 resyncs, 2 faults |
| `PolymarketFeed` | cap, placement, coverage, return of a resync and of the stream at any moment | 3 slugs in 3 match sets, 2 per connection, 2 per batch, 3 shards, 2 resyncs, 1 fault |
| `ObservationWriter` | rows, counters, the ledger, progress | 4 rows, queue 3, batches of 2 |
| `Collector` | do the rows tell when windows are open and close each once, and does the cache forget, across refreshes? | 1 ticker paired with 2 slugs, both live games; lost rows and refreshes without bound |
| `FillWalk` | are size, frontier, plan and direction what the economics by size say? | ladders of two levels in the direction that may clear, one in the other; sizes in half shares; cap 3 |
| `Matching` | is what is written one-to-one, lost for cause, a hedge, and of one game? | two games of two teams; 1 to 4 markets of a kind per game and venue; outrights of 2 editions; 3 by 2 texts |
| `Matching_series` | does the moneyline layer keep a doubleheader apart? (refuted) | the same |
| `Publication` | what do overlapping runs, transactions, rebuilds and restarts leave in the file and the table? | 2 pairs, one streamed; 2 runs, 2 starts, 1 fault; in the container and from the checkout |
| `Publication_container` | does the running collector pick the new file up? (refuted) | 1 run, no fault |
| `Report` | is what the report says of a window what was seen? | 2 pairs, 6 events, a gap of 2, a tenth of 2, 1 lost row or restart |
| `Watchdog` | is "ok" measured, and does a fault keep raising alerts? | counters up to 2, a log window of 2 checks |

Why the bounds are enough. Two tickers are one that stays and one that is dropped or
added, and two resyncs let a ticker be dropped and added again; a third follows a
resync of the connect window and one after it. One fault puts each failure at each
point; two let a reconnect fail as well, or a mutation fail after a reconnect.
Sequence numbers bound the frames of one connection only; six are a subscribe of
two, the replies to a drop and to an add of one of them, its new snapshot and a move
of it (the coverage run moves nothing and needs five). Sizes up to two tell a ladder
from an empty one to which a move was added; one ticker's sizes are no other's
concern, so one moves. Three slugs at two per connection need a second shard, and
the three match sets ask for a removal, an addition and a swap in either order; two
slugs per batch make a batch partly dead, and what is then added to the same shard
is a second batch; a third shard is started where one slug is placed twice and a
removal on another shard failed. Two resyncs are needed for what the first one
leaves behind: with one, a stream that starts under it looks harmless. A queue of
three and batches of two with four rows fill the queue, cut a batch off a longer
one, and leave a batch and a drain running together. One ticker with two slugs gives
two pairs that share a market, so that one is dropped and the other is kept; both
are live games, whose rows have every reason there is, and they are interchangeable,
which the symmetry uses. `Collector` needs no bound: its state is finite. Two levels
put the gate inside the second; sizes of one to five half shares leave a fraction on
either level, give an empty first level, and reach beyond the cap of three; the
prices lie on both sides of fifty cents, where fees rise and fall. Two clubs of one
city and two schools of one state are the names that a subset of words confuses; the
three schedules are a doubleheader, two days inside the start window, and a weekly
sport. Two pairs let one transaction write what the other retracts; two starts let a
run find the lock of another, or follow it. With two pairs, one of them streamed,
only one gate of `refresh.sh` is at work, half of the whole; that each of the three
holds for any sizes is proved (`PublicationNeverHalves`). Six events hold a window,
its close, a silence longer than the gap, a restart and a refresh; a tenth of two
instants puts windows on either side of its half. Counters of 0, 1 and 2 tell
progress from none, and two checks let a line of a dead process be compared twice.

What each property says stands beside it in its module. Each has a mutation of a
mapped definition, kept in the module beside the definition, under which TLC refutes
it.

What the refuted runs show, each a disagreement between the code and a comment, quoted in
`PROJECT.json`:

- A game of a doubleheader may be paired with the other one: candidates of equal
  score are ranked by settlement dates that the venues pad differently, and not by
  the date of the ticker as `matcher.py:224-225` says. It needs Kalshi to list one game
  of the two.
- `refresh.sh` renames the new file over the one that `docker-compose.yml:64` mounts
  by inode: the running container goes on with the old match set.

Other disagreements are exceptions in the statements of properties that hold:

- A resync that meets a connect in progress is picked up by no connect, whatever its
  answer "on_reconnect" promises (`kalshi.py:718`; `overtaken` in `CoveredWhenQuiet`).
- After a restart on a host that just booted, a window seen shut can go on in the rows,
  and the curve counts it as survived (`survival.py:16-19`; `coldStarts` in
  `SurvivalFaithful`).
- A row of size 0 may show an edge above the buffer (`spread.py:257`; `ZeroIsNoTrade`).

### Fairness

Safety properties assume none. For liveness: the event loop runs each task that
can run (`WF` of each reader, of the refresher, of the stream, of the writer's
task), connects eventually succeed, the executor runs its threads, the database
answers or raises, a venue that is up reads its commands, and the consumer keeps up
with the queue of books, so that a shard that ended is noticed. The number of faults
and of resyncs is bounded, so "eventually" means once they have stopped. Nothing is
assumed of the market, of the refresh schedule, or of the venue's answers beyond
their being one of those listed. A wait with a timeout ends by weak fairness because
the timeout is a step that is enabled as long as the wait lasts.

`Publication` assumes that a run that started goes on, that the refresh comes round
(it is daily), that the restart policy of the compose service brings its collector back
(`docker-compose.yml:37`), and, strongly (`SF`), that a transaction that waits for a row
again and again gets it in the end: Postgres queues for row locks. Nobody has to remove
a lock, to rebuild by hand, or to start the collector of a checkout again: `Settles`, which
is about that collector, excepts one that is left down, because the seed its transaction
made fail is then never made good. For the compose service it claims nothing, as that
goes on with the old file. `Watchdog` assumes that cron runs the check; the collector may
do as it likes, or nothing, and is given no fairness at all. `WedgeEnds` has one more
premise, in its statement (`DockerRestarts`): a docker restart that is called again and
again does not fail every time. Without it the property is false, and right to be.

## 4. Proofs

Each theorem holds for every value of the constants that the module's named
assumption admits. An invariant is proved by a lemma per action; the inductive
invariant is always the conjunction named here, and the last step of a theorem is
temporal.

**Kalshi stream** (`KalshiFeed_proofs`): `KalshiTypeCorrect`, `KalshiLeavesNothing`,
`KalshiOnlyLossIsAGap`, `KalshiLiveMeansApplied`, `KalshiCoveredWhenQuiet`,
`KalshiBookFaithful`, for any tickers, any number of resyncs and faults and any
interleaving of reader, refresher and venue. `KalshiLeavesNothing` and
`KalshiOnlyLossIsAGap` rest on `IInv`. `Numbered` says that, unless a frame was lost,
the frames in flight continue the count from the last the reader saw to the last the
venue sent (`Chain`), so a step over a gap needs a loss; `Links` that an open socket has
its reader; `Todo` that a call has still to send what it has not yet sent, in order;
`Wired` that at most one command is on its way, and that it is the subscribe of a
connection that has not begun or the mutation of the call in progress, which no reply
has answered. `Forgotten` holds `NothingLeftBehind`, the claim of `KalshiLeavesNothing`
and a conjunct of the `TypeOK` the runs check. For "live" the invariant adds `Replies`,
that an ok on its way to the call is of a change that was made, and `DoneSoFar`, that
what a call no longer has to send is in the subscription. Both need the hypothesis that
a bare ok is never sent for a change that was not made: the code takes one for proof
(`kalshi.py:684`), and without the hypothesis the claim is false.

`KalshiCoveredWhenQuiet` says that once nothing is in flight the venue streams the wanted
set, but for the tickers a resync added or dropped inside this connect's window.
`Follows`, added to the invariant of "live", says it of every moment: what is subscribed,
or what the list being connected with or the subscribe on its way will subscribe, differs
from the wanted set by no more than `overtaken` (`Near`); while a call mutates the
connection, up to the two differences of that call. A resync outside the window changes
both sides alike, one inside it adds what it changed to `overtaken` (`FollowsResync`). A
call that cannot finish its two messages closes the socket, and a new connection reads
the list again. Its one hypothesis is that of "live".

`KalshiTypeCorrect` needs the invariant of the books, because a ladder stays within what a
market can hold only as long as the differences added to it are those of a book that
does; `Counted` bounds the rest.

`KalshiBookFaithful` says that every book yielded is the venue's as of its frame, or of
a ticker wanted again while still streamed. Its invariant is `BInv == IInv /\ Reading /\
...`: for every connection there are `told`, the venue's book as the frames up to each
number tell it, and `shot`, the ticker each number is a snapshot of, such that every
numbered frame in flight reports its own step of `told` (`Reports`), the venue's book is
`told` at its own counter, and each ladder the reader may rely on is `told` at the last
number it read, or awaits a snapshot that comes before any delta of its ticker (`Sound`).
Frames carry the difference from the frame *sent* before them, lost or not, so losing
one changes nothing in `told`; the reader accepts a number only if it is the next, so it
never adds a difference to another base. The one place where it takes a number on trust
is the first of a connection: `Opens` says that this is number 1, which needs the
hypothesis that the first numbered frame is not lost (`LosesFirst` is FALSE).

**Polymarket stream** (`PolymarketFeed_proofs`): `PolymarketTypeCorrect`,
`PolymarketLiveMeansExact`, `PolymarketPlacesAll`, `PolymarketPlacedWithinCap`,
`PolymarketCoveredWhenQuiet`. A resync is a program over the list of shards, so the
invariant `EInv` says how far it has come: `Shaped`, that shards are numbered without a
hole, which makes "the next one" reach all; `Pruned`, that the shards behind it want
nothing but `desired` or are to be recycled, and that what is too much on the one whose
turn it is stands in a batch still to be pruned; `Asked`, that what is wanted is on a
shard or still to be placed; `Apart`, that no slug is on two shards, or on one and still
to be placed; `Told`, what "live" claims. A prune keeps it because it never takes away
what is wanted (`PruneExact`), an addition and an overflow because the pieces of a list
are disjoint and cover it (`PiecesCut`), the end of a stream because it can only come
while the resync is suspended (`TornExact`). For the types, `TakeSized` shows that what
is added to a shard fits the room left on it. The bound on shards must leave room for
every match set (`PolymarketBounds`).

The last two are about what a connection carries and what the venue was asked on it. Four
layers lead there, each inductive with those below it. `WInv` (`Wired`, `InTurn`): which
of socket, batches, commands and answers a shard can have in each phase of its reader, and
how far the resync is. `NInv` (`Fresh`, `Once`): every request id in use was handed out,
and none is in use twice. `AInv` (`Answered`): on a connection that no resync has given
up on (`Trusted`), what the venue has or is about to have is what the shard has recorded,
but for the batch whose end is awaited; and once that is acknowledged it is gone, because
no other request carries its id. `LInv` (`Listed`, `Fits`): the shard wants what those
batches name or are still to name, but for what it is being pruned of, and together they
stay within the limit. The cap then follows because a survivor is subscribed only after
its batch is gone, and an addition only after all prunes of its shard.

**Writer** (`ObservationWriter_proofs`): `WriterTypeCorrect`,
`WriterCountersAccount`, `WriterNeverOvercounts`. The counters' invariants are not
inductive. `Balance` counts what is *accounted* for: the queue, the rows in both
threads, the abandoned batch, `written` and `failed`. It never exceeds `queued`, and
equals it while the threads have not overlapped. To carry that through a
`StoreCounter` one must know what the thread has loaded: `Loaded` says that a thread
about to store holds a value no greater than its counter, and exactly its counter
while there was no overlap; and `Stages` that a thread beyond the hand-over, the task
and `stop` agree on how far they are, so that only a drain can run beside a batch.
`IInv == TypeOK /\ Stages /\ Loaded /\ Balance`.

**Ledger** (the same module): `WriterImplementsLedger`, that the writer
implements `RowLedger` under the mapping of `ObservationWriter`: initial states map
to initial states and every step to a step of the ledger or a stutter. The mapping
takes sets of sequences and counts them, so it needs that no row is in two places:
`Placed == IInv /\ Apart`, where `Apart` says that the queue holds no row twice, that
it and both threads' batches are disjoint, and that every row anywhere was offered.

**Collector** (`Collector_proofs`): `CollectorTypeCorrect`,
`CollectorRowsTellViability`, `CollectorClosedOnce`, for any match file, any rows lost and
any number of refreshes. `IInv == TypeOK /\ Streams /\ RowsTellViability /\ Closable`. The
bound of the cache needs `Streams`: what the feeds may yield is of tracked pairs, or was
not let go of when the last refresh published. That the rows tell the windows needs
`Closable`: a pair with an open window in the table has an id, so that whatever closes the
window in memory, an evaluation or a refresh, can submit its row. `ClosedOnce` is an
action property and follows from both: a closing row is submitted only of a pair whose
window the collector holds open, and then the latest row says VIABLE or was lost. It is
stated of `oddCloses`, the pairs with an odd number of closing rows, so that a second close
like the first is seen as well.

**Fill walk** (`FillWalk_proofs`): `FillTypeCorrect`, `FillLargestSize`,
`FillEdgeDecays`, `FillPlanIsFillable`, `FillZeroIsNoTrade`, for any sorted, uncrossed
ladders, rates, buffer and cap. `FillLargestSize` says that the early exit loses no
size. `Walked` ties the running sums to the totals of the reference and says that `best`
is the largest size that cleared so far. At the end of a walk that ran out this is the
claim; at the end of one that exited, `NoneBeyond` is needed: no larger size clears. It
rests on `AverageRises` (the average of a rising sequence never falls: `n * total[k] <=
k * total[n]`), on `TotalBelow`, and on `FeeNonNegative`, the fact the docstring gives
as the reason. These are facts about a recursive function for every length, so they need
induction; the module states it of sets (`SetInduction`), derived from the library's
theorem that `<` on the naturals is well-founded, because the library's own induction
rules are stated of operators, which the provers used cannot instantiate.
`WholeSharesAre` says what the expansion of a ladder share by share is, and with it that
a sorted ladder expands to sorted shares.

`EdgeDecays` is about fees as well: they are not monotonic, but a fee of at most the
rate 1 falls no faster than its price rises, rounding included, so what a share costs with
its fees (`Spendings`) still rises, and its average with it (`AverageEdgeFalls`).
`PlanIsFillable` compares two algorithms, one by share and one by level: `Given` says of
`compute_fill_price` after each level that it has what the whole shares of those levels
are and pays for no fraction more than the price of the last. `ZeroIsNoTrade` needs what
the row keeps of the directions already compared (`RowKept`), and that books are uncrossed:
if one direction has an edge at the top, the other loses (`OtherLoses`), so no later
direction can put a size of 0 over one that clears. `Kept == Decays /\ RowKept` is
inductive with `IInv`.

**Names** (`Matching_proofs`): `AlignNeverInverts`. However Kalshi shortens two full
names (dropping words or cutting them to a letter) and in whichever order the venues
name the teams, `Align` puts each name to its own or refuses, provided that neither full
name contains the other and that the full names hold no initials. Without the first, a
title name may be short for both; that is the case the catalogs of `MCMatching` leave
out.

**Matching** (`Matching_proofs`): `MatchingOneToOne`, `MatchingLostForCause`, for any
catalogs, similarities and tolerances; `MatchingHedgePays` and
`MatchingLinesKeepTheirGame`, for any that have what their hypotheses name. The
invariant of the first two says whose turn it is (`Turns`: what is kept is of the
present layer or an earlier one), that the claimed legs are those of the candidates kept
(`Claimed`), that what is left of a group is outranked by everything walked (`Ahead`),
and of every candidate walked or of an earlier layer that is out, why (`Causes`).

`MatchingHedgePays` assumes `TruthfulCatalogs`: ids are of one market, two listings of one
game name the same two teams (in full on Polymarket, shortened as `AlignNeverInverts`
has it on Kalshi), the title of a moneyline fits no team but its own, and spreads are of
half points and on Kalshi of the side that gives them. `HInv` carries, from the claim
through the group to the file, that a candidate of those two layers on one game is a hedge.
`MatchingLinesKeepTheirGame` assumes `SpacedCatalogs`: a contract that both list starts
closest, by more than the hour within which the matcher refuses to guess, to its own
listing, and is named no worse there. `OInv` says of the matcher's walk that of the claims
looked at each lost a market to one that was taken; the own counterpart's claim ranks
before any other on either market and is not refused, so it is the one taken. Both
hypotheses are about what venues list, and both are ASSUMEd of the catalogs of
`MCMatching`, where TLC evaluates them.

**Publication** (`Scripts_proofs`, which holds the proofs of the two shell scripts):
`PublicationTypeCorrect` (with it, that no two transactions hold one row),
`PublicationOneMatcher`, `PublicationNeverHalves`, `PublicationTrackedHaveRows`, for any
pairs, runs and bounds. `Counts` says that unless someone rebuilt by hand the file is
whole and is what the run past the lock counted; `Covers` that the rows of what the
collector is about to track are written, and not retracted, by its own transaction;
`OneMatcher` keeps any other run from replacing the file between the count and the
rename.

**Watchdog** (`Scripts_proofs`): `WatchdogTypeCorrect`, `WatchdogOkMeansMeasured`, for
any window. `Unshown` says that what was neither recorded nor shown since cannot look
like progress, for the counters against the newest line, for that line against the state
file, and for the two together.

**Report** (`Report_proofs`): `ReportNoManufacturedDecay`, `ReportSurvivalFaithful`,
`ReportWindowsExplainOpens`, for any pairs, any number of events and faults, any gap and
any length of a tenth. `IInv == Typed /\ Accurate /\ Remembers` relates the rows
of a pair to the evaluations there were: rows are in the order of their instants and
none is of the future (`InTime`); each is that of an evaluation, with its verdict, or a
close marker (`Written`); unless a row was lost, the first evaluation after a viable row
left a row, if the refresh had not before (`Told`). `Told` holds because the collector
remembers a window it opened (`Remembers`) unless it restarted, and the first evaluation
after a restart is written at any rate, unless the host is young: then the instant of
the restart is one of `coldStarts`, which `Told` excepts. `StateAtIs` and `FateIs` say
what the curve reads out of such rows. For the funnel, `WindowsGrouped` says of the walk
over the rows, by induction over how far it has come, that each window begins at a
viable row with no other within the gap before it (`Starts`), ends at a viable row, and
that every such beginning has its window (`Grouped`); an opening of the curve is then
such a beginning, or differs from one by a silence or a reopening. `RoundedSpan` bounds
the exact span of a window by half a tenth below its rounded duration, and
`PersistedSurvived` has the fate of an undisturbed window from it.

Every safety property that a passing run checks, and every action property, is stated by
a theorem. Only model-checked, and why: progress under fairness and everything that depends
on `ENABLED` is beyond TLAPS (`ResyncReturns`, both `EventuallyCovered`, `RowsSettle`,
`Settles`, `AlarmRaised`, `WedgeEnds`). The inductive invariant of Polymarket was
checked with TLC on an instance of four slugs, where a raise spares a shard.

## 5. Not modelled

- Parsing: how a title, a slug or a question becomes a structured identity, the text
  similarity of the lexical layer (an input), discovery and its pagination, the
  normalization of payloads. No state and no order of events.
- Which pairs a report takes in (`load_from_db`, `run_backtest`), a filter: see Report.
- Whole-number lines, on which a push pays neither side: `Margins` and `Pays` have
  half-point lines, as both venues list them.
- `hazards.annotate`, which labels pairs without choosing them; the capital and edge
  tables of the backtest, which are sums over the windows modelled.
- `dedupe_matches.py`: the walk of `Matching` over an existing file, with a list of
  layers (`_PRIORITY`, line 20) that lacks lines and props and so drops them.
- The file sinks, the latency histogram, the API, credentials, migrations, the
  scripts that probe or print.
- The schedule of the refresh: it may happen at any time, in any state.
- `reconnect=False`, which only tests use.
- The first numbered Kalshi frame being lost (`LosesFirst` is FALSE in the runs):
  the code cannot notice it, and the venue is not known to do it.
- Floating-point error of averages and prices.

## 6. What is left

1. The parsers as functions from a venue's naming scheme to identities, if the schemes
   are written down somewhere to hold them to; with them the hypotheses of the two
   matching theorems could be derived from how a venue lists its games.
2. A composition of `Collector` with `Report`: that the rows the one writes are rows the
   other assumes is argued here (the rule that decides a row is the same) and not checked.
3. Liveness by proof, should the prover come to handle fairness.
