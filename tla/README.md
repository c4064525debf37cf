# A TLA+ model of the JANE exchange simulator

JANE is a header-only C++20 exchange simulator (`src/include/jane/`). This
directory models it in TLA+, checks the models with TLC on small instances, and
proves with TLAPS, for every value of the constants, the main invariants of the
order book, the node pool, the price indices, the matching engine, the exchange
around it, the market-data feed, the market maker, the two ring buffers and the
fan-in sequencer, and that engine and rings implement their abstract
specifications.

## The system

Requests reach the exchange through lock-free queues (`concurrency/`), one
thread drains them in round-robin order, and from there on everything is
sequential: the driver (`replay/`) gives each request a sequence number, asks the
risk engine (`risk/`), calls the matching engine (`matching/`), which works on
one symbol's order book (`book/`), books the fills, and publishes level updates
and one execution report (`marketdata/`, `protocol/`). What is hard differs on
the two sides of that line. In the queues it is interleaving and memory order. Behind
them it is the redundancy of the book: every order is in a queue, in an index, in
the aggregates of its level, in a bitmap and in a node pool, each updated by
separate statements and each read by somebody else. Strategies (`strategy/`) are
clients of the exchange; they decide on prices and ids that may be out of date by
the time their orders arrive. Subscribers see the exchange through the feed only,
and the feed may lose messages.

| Part | Source | Module | State of the model |
|---|---|---|---|
| Price levels and ladder | `book/price_level.hpp`, `book/order_book.hpp` | `LadderSide`, `NodeBook` | modelled, twice |
| Occupancy bitmap | `book/bitmap.hpp` | `Bitmap` | modelled, word by word |
| Order book | `book/order_book.hpp` | `OrderBook`, `BookSession`, `NodeBook` | modelled, twice |
| Node pool | `memory/slab_pool.hpp` | `SlabPool`, `SlabPoolSession` | modelled |
| Audit | `correctness/invariants.hpp` | `NodeBook` | modelled |
| Price index variants | `book/price_index_variants.hpp` | `PriceIndexVariants` | modelled |
| Matching engine | `matching/matching_engine.hpp` | `MatchingEngine`, `PriceTimePriority` | modelled |
| Risk engine | `risk/risk_engine.hpp` | `ReplayEngine` | modelled |
| Driver | `replay/replay_engine.hpp` | `ReplayEngine` | handlers modelled, clock left out |
| Publisher, sinks | `marketdata/` | `MarketDataFeed`, `ReplayEngine` | publisher modelled; files left out |
| Wire messages, codec | `protocol/` | `Codec` | modelled; a payload is not spelled out in bytes |
| SPSC ring | `concurrency/spsc_ring_buffer.hpp` | `SPSCRingBuffer`, `BoundedFifo` | modelled |
| MPSC ring | `concurrency/mpsc_ring_buffer.hpp` | `MPSCRingBuffer`, `BoundedFifo` | modelled |
| Fan-in sequencer | `concurrency/fan_in_sequencer.hpp` | `FanInSequencer` | modelled |
| Market maker | `strategy/market_maker.hpp` | `MarketMaker` | modelled |
| Arbitrage | `strategy/arbitrage.hpp` | `Arbitrage` | modelled |
| VWAP execution | `strategy/vwap.hpp` | `VwapExecutor` | modelled |
| Histogram | `metrics/histogram.hpp` | `LatencyHistogram` | modelled |
| Counters, generator, pmr pool, book viewer | | none | output, random input or benchmark code |

## The modules

**`LadderSide`** has the operators of one side of the ladder. The intrusive list
of a level is the sequence of its order ids, the bitmap is the set of its set
bits, `std::nullopt` is `NoIndex`. Operators keep the names of the functions.

**`OrderBook`** has a book as a record (two ladders, index, pool count, order
count) and each function of the class as an operator from a book to the error it
returns and the book it leaves. Error checks come in the order of the code. The
predicates at the end say what it means for a book to be sound.

**`BookSession`** is any sequence of `add`, `cancel`, `reduce_quantity` and
`replace` by the thread that owns a book.

**`NodeBook`** is the same class as it lies in memory: nodes in the slots of a
**`SlabPool`**, linked by `prev` and `next`, an index from ids to slots, and a
**`Bitmap`** of words per side, in which a word is the set of its 1 bits and a
shift takes its count modulo the width. Each of its actions is the action of
`BookSession` together with the same call on the memory, so that the two can be
compared after every call. `check_book_invariants` is there as the code has it, a
walk along the links. **`SlabPoolSession`** is any sequence of calls on a pool by
callers that return only what they hold; `free` is a history variable, the list
as it should be. **`PriceIndexVariants`** feeds three indices with the same calls.
**`LatencyHistogram`** keeps, beside the buckets, the bag of what was recorded.

**`MatchingEngine`** makes `submit` and `replace` several steps: the prologue
(with the fill-or-kill pre-check), one `MatchOne` per turn of the `while` loop of
`match_against_book`, and `FinishSubmit`. One thread calls the engine, so
no other call comes between; the steps exist so that invariants hold *inside* a call
as well. **`PriceTimePriority`** is the abstract market it implements: a set of
resting orders, no ladder, queue, bitmap or pool; an incoming order trades with
the acceptable order of best price and lowest sequence number. The refinement
mapping (`Orders`, the index without its level numbers) is at the end of
`MatchingEngine`.

**`ReplayEngine`** extends the engine with the driver, the risk engine and the
feed. A handler is a chain of steps: entry, engine steps, one `ApplyFill` per
fill, and `Complete`. `mirror` is the book that a subscriber builds from the
level updates. Accounts are known by client, since only one symbol trades. The
kill switch is flipped between requests.

**`Codec`** models a message on the wire as a frame (type, length field, size in
bytes, payload), and a buffer as the frames that begin in it together with its
size, which may end inside a frame. The level records of a snapshot are a
function from prices, since no price has two; their number is what the lengths
depend on. **`MarketDataFeed`** has the publisher on top
of it, with the sequence numbers and the snapshot buffer that grows. The book is
seen through its level aggregates, and when the driver publishes what is the
subject of `ReplayEngine`. The subscriber and the transport are not part of the
source: the subscriber does what the comments in `messages.hpp` ask for (upsert
on `Update`, remove on `Delete`, gaps seen by the numbers), starts from a
snapshot, and throws its view away at a gap; the transport loses messages.

**`MarketMaker`**, **`Arbitrage`** and **`VwapExecutor`** extend the matching
engine with a strategy and its caller. The messages that `on_tick` or `check`
asks for are submitted one by one, in any order, and orders and cancels of others
may come before each. The arbitrage has two engines, the second an `INSTANCE` of
`MatchingEngine` with its own variables. The maker's caller ticks again once all
messages are submitted, and calls `notify_order_gone` for tracked orders that do
not rest.

**`SPSCRingBuffer`** takes one shared access per step. An acquire load may return
an old value of the other side's index, but none older than the cached copy.
Indices wrap at `Wrap` (2^64 in the code), so calls are unbounded.
**`MPSCRingBuffer`** has the load of the position, the load of a cell's sequence,
the compare-and-swap that wins or loses, the write and the publication as steps of their own.
The load of the position may return an old value; the load of a cell's sequence returns
the latest, so `PushFailsOnlyWhenFull` is about the sequence that the cell really had:
with an old one a push could fail on a cell that has just been freed.
Both implement **`BoundedFifo`** (`ImplementsFifo`, `ClaimsAreFifo`). **`FanInSequencer`** takes the queues as
atomic, which `ImplementsFifo` justifies, and `try_drain_one` attempt by attempt; `overtaken` is
a history variable, how often each client was served while another waited.

Operators whose comment begins with "A defect" are variants of the definition
that follows them. They stand for plausible mistakes; each property is checked
to fail on one of them (`PROJECT.json`, `mutants`).

## The runs

| Run | Checks | Bounds |
|---|---|---|
| `book` | `TypeOK`, `BookStructured`, `QuantitiesAgree`, `MemoryStandsForBook`, `AuditFindsNothing`, `ErrorChangesNothing`, `PriorityKept` | 4 ids, 3 levels, bitmap words of 2 bits, 3 nodes, 4 sequence numbers |
| | `FreeListIntact` | 5 slots, any number of calls |
| | `VariantsAgree` | 7 prices, words of 3 bits, any number of calls |
| | `PercentilesTrackSamples` | 8 linear buckets, 2 octaves of 4, 3 samples out of 14 |
| `matching` | `BookStructured`, `NeverCrossed`, `FokAllOrNothing`, `ReplaceKeepsOrder`, `LoopMakesProgress`, `ImplementsPriceTimePriority` | 3 ids, 3 levels, 2 nodes, 4 sequence numbers |
| `exchange` | `ReplayTypeOK`, `FeedMirrorsBook`, `ZeroSum`, `RestingReportIsOpen` | 3 ids of 2 clients, 2 levels, 2 nodes, 4 sequence numbers |
| `order_entry` | `IndexOrder`, `NoSlotRace`, `ImplementsFifo`, `ItemsAreTaken`, `RetriesGetThrough` | 4 slots, 2 values, indices modulo 16 |
| | `NothingMissed`, `BoundedOvertaking`, `NoStarvation` | 3 producers, queues of 2 |
| `mpsc` | `NoCellRace`, `ClaimsAreFifo`, `PushFailsOnlyWhenFull`, `ClaimsAreTaken` | 3 producers, 2 slots, 4 pushes |
| `feed` | `SubscriberInStep`, `NumbersAreConsecutive`, `RecordingReadsBack`, `DroppedOnlyAboveCeiling` | 2 levels a side, 2 unread messages, 5 sequence numbers, lengths up to 87 |
| `strategies` | `QuotesTracked`, `InventoryBounded`, `NoSelfTrade` | 5 levels, quotes of 2, inventory limit 1, 6 sequence numbers |
| | `LegsKeepEdge` | two venues, clips of 2, edge of 2, 5 sequence numbers |

Where a run has several rows, a variable `subject`, chosen in the initial state,
says which of the independent parts a behaviour exercises.

What the properties say:

- `BookStructured`: each queue holds exactly the orders of its side and price,
  once, in the order of their sequence numbers; the bitmap marks the occupied
  levels and the best price is the best of them; the pool, the index and the
  counter agree. `QuantitiesAgree`: the aggregate of a level is the sum over its
  queue.
- `ErrorChangesNothing`: a failed call leaves the book as it was. For `replace`,
  which cancels before it adds, this means that the defensive branch is dead.
  `PriorityKept`: only its own replace costs an order its place.
- `MemoryStandsForBook`: links, free list and bitmap words do, call by call and
  error by error, what sequences, a count and a set do in `BookSession`; in
  particular no slot is reused while something links to it. `AuditFindsNothing`:
  the audit visits every occupied level, best first, and reports nothing except the crossing
  that callers of a bare book may cause; back-links are sound.
  `FreeListIntact`: the free list has every slot that nobody holds, once.
  `VariantsAgree`: the three indices return the same best price.
- `PercentilesTrackSamples`: a percentile is the nearest-rank sample, exact in the
  linear range and too low by at most one part in `kSubBucketsPerOctave` above
  it. The ends are exact and the middle is rounded down, so above the linear range
  `percentile(0)` may exceed `percentile(50)` when the samples share a bucket. Two
  titles in `src/tests/test_histogram.cpp` promise more than that: "a single recorded
  value is every percentile" (line 38) and "percentile is monotonically
  non-decreasing in p" (line 69) hold for the samples of these tests and in the
  linear range, not for every sample.
- `NeverCrossed`, `FokAllOrNothing`, `ReplaceKeepsOrder` (a replace that passed
  validation is not turned down once the order has been cancelled),
  `LoopMakesProgress` (the loop terminates and never overfills),
  `ImplementsPriceTimePriority` (refinement).
- `FeedMirrorsBook`: between requests a subscriber has the aggregates of the
  book. `ZeroSum`: positions and cash flows add up to zero after every turn of
  `apply_fills`. `RestingReportIsOpen`: a `New` or `Replaced` report tells the
  quantity that is open.
- `SubscriberInStep`: a subscriber that read everything and saw no gap has, at each
  price its snapshot reached or a delta touched, the level of the book.
  `NumbersAreConsecutive`: a gap in the numbers is always a loss, dropped
  snapshots and unnumbered reports notwithstanding. `DroppedOnlyAboveCeiling`:
  four attempts at a growing buffer are enough for every snapshot whose length
  the header can hold. `RecordingReadsBack`: a recording cut anywhere is
  read as its whole messages and then as incomplete.
- `QuotesTracked`: a resting order of the maker is tracked on its side or about to
  be cancelled. `InventoryBounded`: the position passes `max_inventory` by less
  than two quotes (the comment on `max_inventory` promises less, see `inventory_limit`). `NoSelfTrade`: the maker's bid and ask, moved one after
  the other, never meet. `LegsKeepEdge`: the arbitrage buys at its ask or below,
  sells at its bid or above, no more than a clip of each, and leaves nothing in a
  book.
- `NoSlotRace`, `NoCellRace`: no two threads are at one slot while one of them
  writes. `IndexOrder`: the caches lag in the right direction, across the wrap.
  `PushFailsOnlyWhenFull`: the MPSC push fails only if the ring was full at the
  load it decided on. `ItemsAreTaken`, `ClaimsAreTaken`, `RetriesGetThrough`:
  neither side stays blocked.
- `NothingMissed`: a drain that returns false did not pass over an item that was
  waiting when it began. `BoundedOvertaking`, `NoStarvation`: while a client
  waits, each other client is served at most once.

Five further runs end in a counterexample; each states what a document or a comment says
and the code does not do (`findings` in `PROJECT.json`):

| Run | Statement | What happens |
|---|---|---|
| `capacity_reject` | `BookCapacityExceeded` only when the pool is full | also for prices off the ladder and ids that rest |
| `pnl_sum` | PnL sums to zero | accounts are marked at their own last trades; cash sums to zero, PnL does not |
| `kill_switch` | risk check before matching, on all three entry points | a replace trades while the kill switch is engaged |
| `vwap_overfill` | the slices sum to the parent, "regardless of rounding" | with 43 slices of 18 the last is -1 and rejected, and 19 may trade |
| `inventory_limit` | quoting a side stops "once \|position\| would exceed" `max_inventory` | with a limit of 3 and a position of 2 the maker bids for 2 more: the position before the fill is compared |

Two observations have no run. `leaves_quantity` of a report is the unfilled
quantity also when the remainder was dropped or the order rejected, although
`messages.hpp` calls it the open quantity. And `size_approx` of the SPSC ring, called by a third
thread, loads `head` before `tail`, so that its unsigned difference can wrap
around.

**Why the bounds are enough.** Three levels give the best price a neighbour to
skip; two nodes are exhausted and freed within four requests, also in the middle
of a sweep; price sets include one beyond the ladder, quantity sets include
zero; an id may be used again while it rests. Two clients with three ids allow a
client to trade with itself. Words of two and of three bits make searches cross
a word boundary and end in a last word that is not full, and a slot is freed and
reused in the middle of a list of three. Four slots are filled and emptied, and
sixteen index values are four laps, so that the wrap meets every state of the
ring. With three
producers one can be overtaken by a second while a third holds a cell. A snapshot of
three records is one byte longer than the largest length, 87, and the first
buffer, of 11 bytes, takes all four attempts for one of two. With an
inventory limit of 1 and quotes of 2 the maker is capped, pulls quotes and comes
back. In `inventory_limit` the limit is 3, so that the first quotes respect it. The curve of the VWAP run is that of 43 slices, the fewest for which some
parent order comes out too large. Samples lie on both sides of every bucket and
octave boundary. Symmetry is used over order ids in runs without liveness properties: ids are compared for
equality only. `MaxSequence` and `MaxPushes` bound the length of a behaviour in
the guards. With them the driver stays live through
cancels and the rings never stop; the histogram, the feed and the strategies do
stop at their bounds, so their runs do not look for deadlock.

**Fairness.** The safety runs assume none. In the rings, a thread inside a call
goes on (weak fairness on the steps of a call), the consumer polls, and a load
that is repeated for ever does not return an old value for ever (strong fairness
on the loads that return the current value), which is what the C++ standard asks
of atomic stores: they become visible in a finite period of time. No producer is assumed
to call again. In the MPSC ring fairness covers only the two steps after a claim,
since a lost race may repeat. The fan-in consumer polls; its producers need not push.

## The proofs

| Theorem | Module | Statement |
|---|---|---|
| `SessionTypeCorrect` | `BookSession_proofs` | `Spec => []TypeOK` |
| `SessionStructured` | | `Spec => []BookStructured` |
| `SessionQuantities` | | `Spec => []QuantitiesAgree` |
| `SessionErrors` | | `Spec => ErrorChangesNothing` |
| `SessionPriority` | | `Spec => PriorityKept` |
| `FreeListStaysIntact` | | `PoolSpec => []FreeListIntact` |
| `ExhaustedMeansAllLive` | | an empty free list means that every slot is held |
| `VariantsAlwaysAgree` | | `IndexSpec => []VariantsAgree` |
| `EngineTypeCorrect` | `MatchingEngine_proofs` | `Spec => []TypeOK` |
| `EngineStructured` | | `Spec => []BookStructured` |
| `EngineNeverCrossed` | | `Spec => []NeverCrossed` |
| `EngineFillsOrKills` | | `Spec => []FokAllOrNothing` |
| `EngineReplaceKeepsOrder` | | `Spec => []ReplaceKeepsOrder` |
| `EngineLoopMakesProgress` | | `Spec => LoopMakesProgress` |
| `EngineImplementsPriority` | | `Spec => ImplementsPriceTimePriority` |
| `ReplayTypeCorrect` | `ReplayEngine_proofs` | `ReplaySpec => []ReplayTypeOK` |
| `FeedFollowsBook` | | `ReplaySpec => []FeedMirrorsBook` |
| `AccountsSumToZero` | | `ReplaySpec => []ZeroSum` |
| `ReportsTellTheBook` | | `ReplaySpec => []RestingReportIsOpen` |
| `MakerTracksQuotes` | `MarketMaker_proofs` | `MakerSpec => []QuotesTracked` |
| `MakerNeverSelfTrades` | | `MakerSpec => []NoSelfTrade` |
| `InventoryStaysBounded` | `MakerInventory_proofs` | `MakerSpec => []InventoryBounded` |
| `IndicesStayInOrder` | `Queues_proofs` | `Spec => []IndexOrder` |
| `SlotsNeverShared` | | `Spec => []NoSlotRace` |
| `RingImplementsFifo` | | `Spec => ImplementsFifo` |
| `SweepMissesNothing` | | `FanInSpec => []NothingMissed` |
| `OvertakingIsBounded` | | `FanInSpec => []BoundedOvertaking` |
| `CellsNeverShared` | | `CellsSpec => []NoCellRace` |
| `PushFailsOnFullRing` | | `CellsSpec => PushFailsOnlyWhenFull` |
| `CellsImplementFifo` | | `CellsSpec => ClaimsAreFifo` |
| `NumbersStayConsecutive` | `MarketDataFeed_proofs` | `FeedSpec => []NumbersAreConsecutive` |
| `SubscriberStaysInStep` | | `FeedSpec => []SubscriberInStep` |
| `OnlyTooLongIsDropped` | | `FeedSpec => DroppedOnlyAboveCeiling` |
| `RecordingsReadBack` | | `FeedSpec => [](RecordingReadsBack /\ \A cut \in Nat : ReadsBack(cut))` |

The assumptions are those of the modules: a positive number of levels and of
nodes, integer prices, requests of the right type; for the maker, a positive
spread and size, and ids of its own; for the feed, fixed-size payloads that the
length field can hold, no quantity on a level without orders, and a first buffer
that reaches the largest snapshot within three doublings, as 8192 bytes do (the default,
and every caller in the repository passes at least that; the constructor itself takes any
size); for the price indices, words of at least
one bit; for the rings, a capacity above 1, which in the SPSC ring divides the
range of the indices. No bound on orders, clients, levels,
prices, producers or the length of a behaviour is used: `MaxSequence` and
`MaxPushes` may have any value.

**The book.** `OrderBook_proofs` has the lemmas about one side (after a level
is vacated, `next_after` on the cleared bitmap is the best of what is left, and
removal keeps the other members of a queue and their order) and about the book as
a data type: each of `add`, `cancel`, `reduce_quantity` and `replace` takes a sound
book to a sound book, its index, queues, sequence numbers and node count (a
cardinality) included. It also has what the proofs need of sums over finite sets: a
sum exists and is unique, and it changes by one term when an element comes,
goes or changes. The induction behind this runs over the cardinality, as a
least counterexample, since the library's induction theorems cannot be used. From
there the aggregate of a level stays the sum over its queue.
`BookSession_proofs` is an induction on top of these lemmas; its invariant adds
that the next sequence number is above all in the book and that only limit orders
rest. Its last part follows the free list of the pool through its history `free`:
allocation takes the head, deallocation puts a slot in front that is not in the
list.

**The price indices.** `IndexInv`, also in `BookSession_proofs`, says that the bits of the ladder and the
entries of the sorted vector are the prices of the tree, that the vector is
strictly increasing, and that the cached best of the ladder is the tree's. The
step that matters is an erasure of the best price: `HighestBit` shows that the
scan by words, with the first word masked, returns the highest set bit at or below
the one it starts from, for every width of a word and a last word of any length. The
scan is a recursive function, so the proof gives its values in closed form and
shows that the recursion has no other solution.

**The engine.** `NeverCrossed` is not inductive: it says nothing inside a call,
and it has to hold when the remainder of an aggressor is added. `EngineInv` adds
that the book is uncrossed at every step, that the aggregates are right, that only
Day limit orders of this symbol rest, each with a lower sequence number than the
next one and than the aggressor, that an aggressor's open quantity is never
negative, that a fill-or-kill aggressor has no more open than the orders it may
trade with, and that what is left of a replaced order fits back: a Day limit
order on the ladder whose id does not rest and for which there is a free node. The
loop ends only when the best price of the other side no longer crosses, and by
`BestIsTouch` that is the best of all, so what is added does not cross. That the
order fits back is what `ReplaceKeepsOrder` needs: with a price, an id and a node
none of `add`'s errors can occur.

For `FokAllOrNothing` the walk of `available_liquidity` has to be related to
the loop. After any number of visits the walk has counted a set of acceptable
orders, each once, namely those of levels better than the one it is at
(`Walks`), so its result is at most the sum of what is open in all of them. Each
turn of the loop takes the same quantity from that sum and from the aggressor, and when
the loop ends no acceptable order is left.

For the refinement each step of the engine is a step of the abstract market on
`Orders`, the resting orders without their places. What has to be shown is that
the front of the best level is *the* first of all acceptable orders in price and
time (`FrontIsFirst`: best prices from `BestIsTouch`, time from the order of
sequence numbers within a queue), and that the pre-check by levels decides as
the sum over orders does.

**The exchange.** `ReplayEngine_proofs` puts four invariants on top of
`EngineInv`, whose steps it reuses. `HandlerInv` ties the request in progress to
the engine's state: which order the call is about, which fills are still to be
booked, and, once the call is over, that an order said to rest does rest with the
quantity returned. `AccountsInv` adds to `ZeroSum` only that finitely many accounts
exist: a fill adds a quantity to one of them and takes it from another, or does both to
the same one.
`MirrorInv` says what a subscriber lacks in the middle of a request: exactly the
levels `ToPublish`, that is those of the fills not yet applied, of the price a
replace leaves, and of the price where the order comes to rest. All other levels
are shown as they are in the book; nothing is left to publish when the handler
returns. `ReportInv` is `RestingReportIsOpen` with the types; its step `Complete`
rests on `HandlerInv`.

**The feed.** That a subscriber is in step is not inductive: messages are still
on their way while the book moves on. `FeedInv` says of every message in the sink
what it promises. A level that no later message touches is in the book as the
delta or the snapshot has it (`DeltasCurrent`, `SnapshotsCurrent`), and as the
subscriber has it if nothing on the way touches it (`SubscriberCurrent`).
`ExpectsNext` ties the numbers to the losses: a subscriber that missed nothing
expects the number that comes next, and one that missed a message expects a lower
one, so it notices at the next message. For `OnlyTooLongIsDropped` the buffer,
which never shrinks, is at the last attempt at least eight times the first one, so
only the length field can still refuse the snapshot. For `RecordingsReadBack` every frame in a
recording is shown to be well framed (its length field is the number of bytes
that follow, the modulus notwithstanding); by induction over the
number of messages read, the parser has then decoded that many payloads and
stands at the next frame. The theorem covers a cut at any byte, the invariant of the run the cuts
that matter.

**The market maker.** `MarketMaker_proofs` builds on `EngineInv`. That the maker
never trades with itself is not a fact about the book alone: its quotes are in the
book, in messages on their way and in the order being matched. `MakerInv` says that
in all three places together every bid is below every ask (`QuotesApart`), that a
message that quotes is about a tracked id and one that cancels is not, and that
tracked ids are different and were given out before. The step that matters is
`on_tick`: its targets lie on either side of a mid that is at least the best
bid and at most the best ask, and the maker's own quotes are no better than those. All
other steps only move a quote along, from a message to the aggressor and from
there to the book (`MovingAlong`).

`MakerInventory_proofs` adds `InventoryInv`. The maker has one quote open on a
side at most (`OneQuote`), in the book or being matched. `Within(s, n)` says that
the position stays within `n` even if all that is open on side `s` trades. A fill
leaves that sum alone, since the position grows by what the quote loses, and on
the other side it only makes room; so the sum grows only when a quote is accepted.
What it is at that moment is settled by the message (`MessageBound`): `on_tick`
quotes below `max_inventory` only. A new quote is asked for when nothing is open
on that side, and nothing can trade there until it arrives. A replace is
asked for while a quote of at most `quote_size` is open, which may trade before
the replace restores it to full size. That is the second quote of the
overshoot, and why the two kinds of message have bounds of their own.

**The queues.** For the SPSC ring `Queues_proofs` needs, beside `IndexOrder`, that a
producer which goes on to write has a slot left and that a consumer which goes on
to copy has an item. The rest is arithmetic modulo `Wrap`: distances add up as
long as they stay within a lap, and since the capacity divides `Wrap` the slots stay
in step when an index wraps. For the MPSC ring it has `CellsInv`: positions span at
most one lap, the sequence of a cell in that lap says free, claimed or published,
a claimed position has one owner, and a producer about to win a claim found its
cell free. The last conjunct is what a compare-and-swap on an old position
preserves. For the refinements the abstract queue is read off the slots between the
two indices: a push takes effect when `head` is stored (SPSC) or when the position is
claimed (MPSC, where an item not stored yet is its producer's), a pop when the item is
copied, and every other step leaves the queue alone. `CellDataInv` adds that a producer
has stored its item by the time it publishes. For the fan-in it measures how many
attempts ago a queue had its turn (`Behind`): queues that the sweep has polled
hold only what came after it began, and a client that waits was overtaken only by
clients whose turn came after its own, by each of them once (`TurnsPassed`). The queue
polled next is the one whose turn is longest ago (`NextIsLast`), so none of those comes
round again before the waiting client does.

**Only model-checked.** Every liveness property (fairness is beyond this prover).
`MemoryStandsForBook` and `AuditFindsNothing` follow links from node to node
through a memory that the same calls rewrite: what such a walk computes for every
input needs an induction over data that the prover's library does not offer, and
the least-counterexample argument used above for sums, scans and recordings would
have to be made anew for lists that share one pool. `PercentilesTrackSamples` is
about nearest ranks in a bag and powers of two. `LegsKeepEdge` needs `EngineInv`
of two engines at once.

## What is not modelled

- The 64-bit range of prices, quantities and cash: integers are unbounded.
- The clock, logging and the wording of messages, which decide nothing.
- `size_approx`, `empty_approx`, `full_approx` and `mean`, which change nothing.
- The file behind `FileSink`, apart from a recording that ends early; the bytes
  of a payload.
- `PmrPool` and the counters (benchmark and display), the random
  order generator (the models take any order of their input sets), and the
  programs under `src/apps`, `src/bench` and `src/tools`, which only drive
  the parts modelled here and print.
- The order in which a handler publishes several messages, except as far as the last
  state of a level depends on it.
- A position limit that counts open orders: `check_new_order` looks at filled
  quantity only, and nothing promises more.
