# A TLA+ verification project for itchcpp

itchcpp is a C++20 library for the Nasdaq TotalView-ITCH 5.0 feed: transport decoders that
turn datagrams and TCP bytes into messages, order books that are built from those messages,
and analytics, replay, export and bindings on top. This directory models the parts that keep
state over long message sequences, checks them with TLC on small instances, and proves the
central results with TLAPS for every value of the constants. Paths below are relative to the
repository (`src/` here).

## 1. The system

| Part | Files | State it keeps | Operations | Hard behaviour |
|---|---|---|---|---|
| Order index | `include/itch/book/order_index.hpp` | open-addressed slots, count, mask | `find`, `insert` (with `rehash`), `erase` (with `remove_at`), `clear` | backward shift around the end of the table, growth in the middle of an insert, probe loops that end only at a free slot |
| Order-level book | `include/itch/book/l3_book.hpp`, `src/book/l3_book.cpp` | object pool with free list, FIFO links per level, two sorted ladders, index | `add_order`, `execute_order`, `reduce_order`, `delete_order`, `replace_order`, queries | four linked structures updated by hand, reuse of nodes, aggregates kept incrementally, duplicate and unknown reference numbers, over-execution |
| Book manager | `include/itch/book/book_manager.hpp`, `src/book/book_manager.cpp`, `include/itch/tape.hpp` | a book and a last BBO per locate, symbols, universe, callbacks | `process` (a handler per message type), `track_symbol`, callback setters, lookups | events decided against remembered state, callbacks that come and go, books created on first use |
| Limit order book | `include/itch/order_book.hpp`, `src/order_book.cpp` | price maps, order lists | `process` and its handlers | no duplicate check, unsigned subtraction without a clamp |
| Sequence tracker | `include/itch/transport/sequencing.hpp` | next expected number per session, two counters | `observe`, `reset` | lost, repeated, overlapping, late packets |
| MoldUDP64 decoder | `include/itch/transport/moldudp64.hpp`, `src/transport/moldudp64.cpp` | a tracker, two counters | `decode_packet` | an unreliable network, recovery, control packets, truncated datagrams |
| SoupBinTCP decoder | `include/itch/transport/soupbintcp.hpp`, `src/transport/soupbintcp.cpp` | byte buffer, session, next number, a tracker | `feed` | packets split over chunks, several logins, exceptions in the middle of a chunk |
| Pcap reader | `include/itch/transport/pcap.hpp`, `src/transport/pcap.cpp` | offset, byte order, link types, port filter | `read` | two file formats, two byte orders, sections and interfaces, lengths that lie |
| Parser | `include/itch/parser.hpp`, `src/parser.cpp`, `include/itch/detail/wire.hpp` | error callback, two counters | eleven `parse` and `try_parse` overloads around one loop | truncated, short, long and unknown frames; callbacks that throw |
| Messages, encoder, overlay views | `messages`, `encoder`, `overlay` | none between calls | encoding, field access, a framing loop of its own | one layout told five times, a 48-bit field in a 64-bit member |
| Replay engine | `include/itch/replay.hpp`, `src/replay.cpp` | speed, clock base | `replay`, `set_speed` | pacing against a clock, reentrant `set_speed`, timestamps out of order |
| Analytics | `include/itch/analytics/*.hpp` | open bar, running sums, last imbalance per locate | `add`, `flush`, `reset`, `process`, book metrics | interval boundaries, callbacks that throw, stale samples |
| Sinks and exporters | `include/itch/io/*.hpp`, `src/io/*.cpp` | a stream, column builders, the last error | `write`, `write_parquet` | failures half way, two tables of columns that must agree |
| Command-line tool | `tools/itch_tool/main.cpp` | counters of a command | `stats`, `inspect`, `filter`, `convert` | cut inputs, outputs that fail |
| Python bindings | `python/src/bindings.cpp` | the iterator's buffer, a struct per message | iteration, attributes, serialisation | reads of any size, exceptions between steps, values wider than their member |
| Helpers | `indicators`, `price`, `time`, `venue` | none | lookups, conversions | none |

How they interact: a transport decoder takes packets from the caller, tells its
`SequenceTracker` about the header and hands the message blocks to `Parser`, which calls the
user's callback for each message. The callback usually calls `BookManager::process`, which
routes the message to an `L3Book`; the book finds orders through its `OrderIndex`. Gap and
retransmission callbacks lead from the tracker to the application, which recovers messages
and feeds them back through the same decoder. Bars, averages and the auction tracker hang on
the same callbacks; the sinks, the tool and the Python iterator sit on `Parser`; `PcapReader`
feeds a `MoldUdp64Decoder`. Nothing in the library starts a thread: the concurrency is that of
the network, the recovery channel and the clock around it. What takes its place is reentrancy
and failure: user code runs inside nearly every loop, may throw there, and two of the decoders
swallow some of what it throws.

What makes each part correct, in a line: the index is a map; the book has exactly the effect
the messages describe, with time priority and exact aggregates; the manager keeps every book
as if it were alone and reports every change once; the tracker never skips a number in
silence and never raises a false alarm; the decoders deliver or report every message, and in
the end deliver it; the parser and the views find exactly the well-formed frames; encoder,
parser and views agree on every byte; and a callback, a write or a read that fails leaves each
of them in a state from which the next call goes on correctly, or with damage that is bounded.

`PROJECT.json` lists every part, also those not modelled, the hazards of the code by line, and
for every definition the source lines it stands for.

## 2. The modules

| Module | Role |
|---|---|
| `BookCalls` | the calls a book takes, with any arguments a feed can carry |
| `BookEffects` | what each call means for queues of orders per side and price |
| `BookSpec` | abstract: the state machine of those effects, what an order-level book promises |
| `L3BookOps` | `L3Book` as a value, one operator per member function |
| `L3Book` | `L3Book` as a state machine, its properties, its refinement of `BookSpec` |
| `BookManager`, `MCBookManager` | the manager, composed from `L3BookOps`, with `BookSpec` as the history of what each locate's messages should make |
| `OrderMap` | abstract: a map |
| `OrderIndex`, `MCOrderIndex` | the hash table, its loops step by step, its refinement of `OrderMap` |
| `SequencingOps` | `SequenceTracker` as a value |
| `SequenceTracker`, `MCSequenceTracker` | the tracker fed with arbitrary packets |
| `MoldUdp64`, `MCMoldUdp64` | the decoder between an exchange, a network and a recovery service |
| `Wire` | the layout of all 23 messages, as told by structs, sizes, encoder, parser and views |
| `Codec` | a stream between the encoder and the parser and views, over `Wire` |
| `Framing` | the framing loops of the parser, of `decode_packet` and of the views, with every overload, diagnostics and throwing callbacks |
| `LimitOrderBook` | the simple book, and the rules of a well-behaved feed, on which it refines `BookSpec` |
| `SoupBinTcp` | the TCP decoder over any chunks, with its tracker from `SequencingOps` |
| `SoupBinBook` | the decoder and a book manager's entry composed, with callbacks that throw |
| `Pcap` | the capture reader |
| `Replay` | the replay engine and a clock |
| `Bars`, `Averages`, `Microstructure`, `Auctions` | the analytics, `Microstructure` over `L3BookOps` |
| `Sinks` | both exporters fed the same messages, columns from `Wire` |
| `Tool` | the command-line tool |
| `PyIterator`, `PyMessages` | the Python iterator; the message classes, over `Wire` |
| `Readers`, `Consumers`, `Outlets` | parts that share no state side by side, with the variables and constants of all of them and the properties that the proofs are about |
| `MCL3Book`, `MCReaders`, `MCMessages`, `MCConsumers` | suites: small instances of several modules in one run (see 3) |
| `L3BookOps_proofs` | lemmas about the operations of one book as a value: the list it stands for, each call's effect, aggregates and depth |
| `L3Book_proofs`, `BookManager_proofs` | the theorems about the book and the manager, from those lemmas |
| `OrderIndex_proofs`, `SequenceTracker_proofs`, `MoldUdp64_proofs` | the theorems about the index, the tracker and the UDP decoder |
| `Readers_proofs` | the theorems about the TCP decoder, the framing loops and the Python iterator |
| `Consumers_proofs` | the theorems about the simple book, the analytics, the exporters, the tool and the replay engine |

Two conventions. A component that another one uses is split into an `...Ops` module (a record
and operators that return the record they leave behind) and a state machine over it, so that
`replace_order` is a composition of `delete_order` and `add_order` as in the code, and a
manager can hold many books. And a definition with a `_Something` suffix, commented *Mutant*,
is a plausible error in the definition of the same name that follows it; `PROJECT.json` names the property that
must catch it, and no specification uses it.

### Correspondence

**`OrderIndex`.** `m_slots`, `m_count`, `m_mask` are the members. An operation that rewrites
the table in a loop is several steps: `phase`, `hole`, `next`, `old`, `pending` are the local
variables of `remove_at` and of `insert` while it waits for `rehash`. The loops are split so
that their loop invariants can be stated (`ProbeChains`) and their termination checked; no
other operation starts in between, since the table has one caller. The hash is an arbitrary
function, fixed at the start; splitmix64 is one of them.

**`L3Book`.** `pool`, `free_head`, `levels` (`m_bids` and `m_asks` by side) and `index` are the
members. Positions count from 1, with 0 for `NIL` and `NPOS`. The index is the map that
`OrderIndex` implements. `std::lower_bound` on a ladder is its specification. Level counters
are integers in the model, so an underflow would show as a negative value rather than wrap.

**`BookManager`.** One action per handler of `process` and per configuration call. `msg`,
`quotes` and `tape` show the last message and the callback invocations it led to; `feed`,
`missed` and `named` are history. Symbols of locates are those of the day's directory; an add
may carry a blank symbol, which is what the completing branch of `ensure_entry` is for.

**`SequenceTracker`.** The map of expectations has `Unseen` for an absent session. Sequence
numbers are naturals: a session does not reach 2^64. `anchor`, `observed`, `reported` are
history.

**`MoldUdp64`.** The exchange publishes 1, 2, ... in datagrams of up to `MaxBlocks`; the
network is a set from which datagrams are received in any order, more than once if `Repeats`,
or lost; `Cuts` allows it to cut a datagram inside its last block. `decode_packet` is one step,
as it is one call. The exchange, the network and the application that serves retransmission
requests are external: they are modelled from how the decoder's interface uses them. The
decoder's statistics saturate at `MaxStat` because no other property depends on them.

**`Wire`, `Codec`.** A value is the bytes of its field, each a symbol of its own, so that a byte
in a wrong place shows whatever the values are. Each of the five tellings is a table in the
order of its own source; nothing is derived from another one unless the code derives it.
`WIRE_SIZE` follows `sizeof` minus the padding of the timestamp, with the code's `static_assert`s
as an assumption that TLC evaluates. The host is little-endian.

**`Framing`.** A buffer is bytes: a run of frames with any declared length and type, cut
anywhere. One turn of a loop is one step; the variable `kind` is the entry point (the overloads,
`decode_packet`, `for_each_message`), which decides what a truncated end and an exception turn
into. `frames` and `cut` are known to the properties only.

**`LimitOrderBook`.** Orders are objects with an identity, lists hold identities, `m_orders` maps
reference numbers to identities, so a dangling iterator is an identity that is no longer alive.
Share counters wrap at `Modulus`. The handlers check nothing of a feed; `KeepsRules` says which
messages an exchange would send.

**`SoupBinTcp`.** The buffer holds bytes `<<packet, position>>`; `feed(n)` appends the next `n` of
the stream, and the loop processes a packet per step. An exception leaves `feed` with the buffer
as it is, which is what makes the next call repeat its packets. **`SoupBinBook`** takes whole
packets and puts the manager's handlers behind them: the trade callback before the book
executes, the BBO callback after, either of which may throw.

**`Pcap`.** Offsets and lengths are the program's; the bytes between are records. `touched` is the
furthest byte any read reached. The decoder behind the reader is a sink for payloads.

**`Replay`.** The thread and the clock are two processes. `paced` is read once per replay and the
multiplier once per message, as in the code. A quotient by zero converts to a time in the past
on the targets the library builds for.

**`Bars`, `Averages`, `Auctions`.** The members are the variables; `tape`, `samples` and `feed` are
the history the properties recompute from. Prices are the raw integers of `Price`; averages are
fractions. **`Microstructure`** applies the metrics to each pair of successive BBOs of an `L3Book`.

**`Sinks`.** A cell is the message and the member it shows. `write_parquet` may fail at each
column it finishes, at the file and at the writer; what was emptied stays empty. **`Tool`** is
`main` with its commands; a message is its type.

**`PyIterator`.** The buffer holds bytes `<<frame, position>>`; `file.read` returns any non-empty
part of what was asked for, `save_file.write` may raise, `next()` may be called again after any
exception. The read of an empty optional is the outcome `"undefined"`, after which nothing is
claimed. **`PyMessages`** has the attribute tables of the bindings, the assignments with values
shorter or longer than the member, and the way to bytes and back through `Wire`.

## 3. The runs

Parts that share no state are checked side by side in one run, a *suite*: its module declares the
variables of all of them and a variable `part`, fixed at the start, that says which part a
behaviour is about; the other parts stay in their initial states. The graph of a suite is the
disjoint union of those of its parts, so an invariant of a part is checked on all of that part's
behaviours and costs nothing on the others. Where a part is needed twice with different inputs,
`part` also restricts the inputs (`"rows"` and `"retries"`, `"any_feed"` and `"well_behaved"`).

A run checks the facts that belong together as one property, the conjunction of named parts: the
type invariant of a module stands in the property that rests on it. The parts are definitions of
their own, in brackets below.

| Run | Parts and instance | Properties |
|---|---|---|
| `l3_book` | `L3Book` with 3 references, 2 prices, shares 0..2 (*ladders*) | `TypeOK`; `StructureIsSound` (`PoolPartition`, `FifoWellLinked`, `IndexFindsEveryOrder`): pool, links and index agree; `DepthIsExact`: aggregates are exact, no empty level stays; `CallsHaveTheirEffect`: every call has the effect `BookEffects` gives it, with time priority kept |
| | `SoupBinBook` with 2 references, 4 messages, 2 exceptions (*session*) | `DamageIsConfined` (with `NeverMoreThanSent`): a throwing callback damages only the orders whose quantities it lost or repeated, and never adds shares |
| `book_manager` | 2 locates and 1 shared reference (*routing*); 1 locate, 2 references, 2 prices, shares 0..2 (*events*) | `RoutingIsSound` (`TypeOK`, `BooksFollowFeed`, `LookupsAreExact`): each locate has the book of its own messages; `QuotesAreExact`, `TapeTellsExecutions`: BBO events and trades are exact |
| `order_index` | 4 keys, homes 2, 6 and 7, capacity 4 growing to 8 | `TableIsSound` (`TypeOK`, `FindIsExact`, `CountIsExact`, `LoadStaysBelowLimit`, `RehashFits`, `ProbeChains`), `ImplementsOrderMap`: the table is a map; `OperationsReturn`: every operation on it returns |
| `sequence_tracker` | 2 sessions, numbers 0..3, packets of 0..2 | `NoSilentSkip`, `NoFalseGap`, `ExpectedNeverRewinds`, `CountersAreExact` (`TypeOK`, `GapCountIsExact`, `SeenCountsFirstArrivals`): gaps are reported exactly once, counters are exact |
| `mold_udp64` | 1 session, 3 messages, 2 per datagram, loss, repetition, reordering; fair | `TypeOK`, `DeliveredOrReported`, `GapsAreBeingRecovered`: no message is lost in silence; `EverythingArrives`: every message arrives in the end |
| `messages` | streams of 2 messages of all types (*codec*) | `LayoutsAgree` (`RoundTrip`, `WireFollowsStructs`, `ViewsAgreeWithParser`): structs, sizes, encoder, parser and views agree |
| | all 23 classes, pairs of assignments (*python*) | `AttributesAreKept` (`AttributesSurviveTheWire`, `CreatedIsWhatIsSent`): each attribute has its own bytes |
| | pairs of all types (*rows*); 3 messages of 2 types and 4 calls that fail anywhere (*retries*) | `ExportsAreFaithful` (`RowsAreLossless`, `ParquetAgreesWithCsv`, `FilesHoldWholeRows`): both tables of columns agree, and a failed call never shears the columns |
| | 3 messages of 3 types, all command lines (*tool*) | `ExitCodeIsHonest` (`SuccessIsComplete`, `OnlyBadInputFails`): exit code 0 means a complete result, and a command that can succeed does |
| | 3 messages, timestamps 0..2, speeds 0, 1, 2 (*replay*) | `PacingIsExact` (never early, and `LatenessDoesNotAddUp`): a message comes at its own time; `ReplayEnds`: replay returns |
| `readers` | captures of 2 records or up to 10 blocks, cut at 4 places, 17 frames (*pcap*) | `CapturesAreReadExactly` (`ReadsStayInside`, `DatagramsAreExact`): exactly the UDP payloads, no read outside |
| | 2 frames of length 0..2, 2 calls, 8 entry points, any cut, any throw (*framing*) | `DeliversWellFormedFrames`, `CallsEndAsDocumented` (`EndsAsDocumented`, `CollectsWhatWasAsked`, `DiagnosticsAreExact`): both loops find exactly the well-formed frames; outcomes and counters are exact |
| | packets of all kinds in every chunking with an exception (*chunks*); 2 sessions, logins that resume, jump and step back (*logins*) | `ChunkingIsInvisible`, `EscapesOnlyRepeat` (`NothingIsSkipped`, `RepeatsAreBounded`), `NoSilentJump`: chunks do not matter, an exception repeats and never loses, no login makes numbers vanish in silence |
| | files of up to 3 frames, two chunk sizes, a failing write, a resumption (*iterator*) | `IterationIsExact` (`YieldsTheFeed`, `SavedIsYielded`, `BufferStaysSmall`): iteration is independent of reads and survives failures |
| | *pcap*, *framing*, *iterator*; fair | `CallsReturn`: every call of the three loops returns |
| `consumers` | `LimitOrderBook`, 3 objects, counters modulo 3: 2 references at one price (*any_feed*); 3 references, 2 prices, shares 0..1, rules kept (*well_behaved*) | `LegacyBookIsSound` (`IteratorsAreValid`, `TotalsAreSums`, `UnreachableOnlyIfDuplicated`): what a feed that breaks the rules can and cannot do; `LegacyImplementsBookSpec`: on one that keeps them it is the abstract book |
| | books of 3 orders at 2 prices (*metrics*) | `MetricsAreExact` (`DepthIsRestingShares`), `BidFlowIsWhatHappened`: depth and bid flow are what rests and what happened |
| | 4 trades, 3 clocks, 1 exception (*bars*) | `BarsAreExact` (`BarsPartitionTape`, `BarsFollowClock`): bars partition the tape along the clock |
| | 4 samples, times 0, 1, 4 in any order, resets (*averages*) | `AveragesAreExact` (`AveragesStayInRange`, `TwapCoversTheSpan`): nothing of another interval gets in |
| | 2 locates, 2 cross types, 3 messages (*auctions*) | `AuctionsFollowFeed`: each cross gets the imbalance of its own security |
| `mold_udp64_cut` | as `mold_udp64`, with cuts | `CutBlocksAreSurfaced` (violated): finding 1 |
| `microstructure_flow` | as *metrics* | `FlowIsStandard` (violated): finding 2 |
| `pcap_swapped` | as *pcap* | `SwappedCapturesAreRead` (violated): finding 3 |
| `py_iterator_short` | as *iterator* | `UndersizedAreSkipped` (violated): finding 4 |

*Bounds.* Three orders give a FIFO with a head, a middle and a tail, a free list of several
nodes and a level that empties beside one that does not; a second price puts a level before
and after another; shares 0..2 give empty, partial, full and excessive executions. That each
step is one of `BookSpec` is checked as `CallsHaveTheirEffect`, which names the effect of the call
that was made; the refinement itself, which asks for some call that explains a step, is proved.
In a table of four slots the third key makes the table grow; the homes 2, 6 and 7 give shared
homes, a chain that runs into another key's home, and chains around the end at both sizes, so
that `remove_at` meets its wrapped case with entries that may and that may not move. For
the tracker, four starting numbers and packets of up to two overlap in every way: before,
across, at, and beyond the expectation. Three messages in datagrams of one or two allow a
gap at the start, in the middle and at the end of what was published. The parts of the manager's
run divide its questions: routing, universe and lookups need two locates, events need a book in
which the best price changes hands.
Two frames of up to two bytes, with types of one and two bytes, give frames that are too
short, exact and too long, before and behind each other, and every place for a cut; two calls
show counters that go on. For the simple book, counters modulo 3 with shares up to 2 wrap by one
over-execution, and three objects allow a duplicate beside a third order. Three packets of two
to four bytes are cut inside prefixes and bodies and across packets; one exception in front of a
second delivery shows the repetition. Behind the
decoder, two reference numbers, one of which may replace the other, and four messages let a
quantity be repeated before and after another order's. In
captures, two sections with two interfaces each tell a stale table from a fresh one, and the
four cuts hit a header, a block, a frame and the last byte. Chunks of one byte split every
frame in every way, chunks of three span two. Four trades with quantities 1 and 3 against a
bucket of 2 fill a bucket exactly, overshoot it, and skip one. Three timestamps allow one that
runs backwards between two that do not.

*Views.* The runs of the books, of the manager and of the consumers hide the variables that only
record the last call, its message and its callback invocations, or the previous BBO. No action
reads them, and the properties read them only in the state a step leads to, which TLC evaluates
for every step.

*Deadlock* is checked where a system never stops: the manager, the index, the tracker and the
MoldUDP64 decoder. In the other runs a part may stop: a program run, a replay, a file or an
iteration is over, or a bound on calls or messages is reached.

*Fairness.* `OrderIndex`: weak fairness of the running loop, since a function that can
take its next iteration takes it. `MoldUdp64`: the decoder itself needs none beyond receiving
what is handed to it. The surroundings owe it four things, all of them MoldUDP64's or the
application's duties: an exchange with nothing to send goes on sending heartbeats (weak); of
the heartbeats sent again and again one gets through (strong: the network may lose any
particular one); the application answers the requests it is given (weak); and the answers,
which come over a channel of their own, are fed back (weak). Data datagrams have no fairness:
they may all be lost. `Framing`, `Pcap`, `PyIterator`: weak fairness of the loop's steps, as in
`OrderIndex`; for the iterator this includes that `file.read` returns. `Replay`: weak fairness of
the thread, which includes that callbacks return, and of the clock.

## 4. The proofs

Assumptions are those on the constants, each the range the code's types give it: `Ref`, `Price`
sets of naturals and `MaxShares` a natural (`BookCalls`); locates are finitely many positive numbers,
since a locate is 16 bits wide and the manager counts its books, and a day's directory gives each
a symbol of its own (`BookManager`); `NPOS` is not a value, hashes are naturals and a table starts
with at least two slots (`OrderIndex`); bounds are naturals (`SequenceTracker`); the counters of the
simple book hold every quantity a message carries (`LimitOrderBook`); for `MoldUdp64` a datagram has
at least one and fewer than 65535 messages, the count that marks the end of a session; for
`SoupBinTcp` the streams are sequences of packets with the fields of their kinds, of which a frame
of length zero has none. `Readers` adds those of the parts it composes: a length takes two bytes
and every type has a size or none (`FramingAssumption`); bodies and chunk sizes are naturals, and
the character the iterator reads behind an empty frame is no message type (`IterationAssumption`).
`Consumers` adds that the prices, quantities and times of trades and samples are naturals
(`AveragesAssumption`, `BarsAssumption`), `Outlets` that timestamps are naturals, speeds integers and
the columns at which a call fails numbered (`OutletsAssumption`). Sets of sessions, references, prices, keys and messages are
otherwise arbitrary, also infinite.

**The book** (`L3BookOps_proofs`, `L3Book_proofs`). The code keeps four linked structures; the
properties speak of walked chains, which is recursion, and no invariant about walks is inductive.
So the invariant is a *representation*: `Sound(b)` says that there are a list of pool nodes `W[l]`
for each line (a side and a price) and one, `F`, for the free list, such that

- the nodes of `W[l]` are linked forward and backward in that order, carry the side and price of
  `l`, and the index finds each of them (`QueuesOK`);
- what the index finds is queued (`IndexOK`), the free list is linked and the index finds none
  of it (`FreeOK`), and every node is in one list (`CoverOK`);
- each ladder has, the best first, exactly one level for each line with a non-empty list, whose
  head, tail and counters are those of the list (`LaddersOK`).

`CoverOK` has a set `X` of nodes that are in hand, between `allocate_node` and `append_order` or
between `unlink_node` and `free_node`, so that each member function has a lemma of its own and
`replace_order` is the composition of those of `delete_order` and `add_order`. The theorems:

- `TypeCorrect`: every stored position lies in the pool and every share count is one a message
  can carry, whatever the calls.
- `Invariance`: `Sound(book)` always.
- `Structure`: `StructureIsSound`. A walk from a level's head visits exactly `W[l]`; the walk is
  a recursive function, and what it visits follows from its least place of difference (below).
- `Depth`: `DepthIsExact`. The aggregates are sums over `W[l]` by `LaddersOK`, and the sums change
  as the lists do (`SharesOfAppend`, `SharesOfRemove`, ...).
- `CallEffects`: `CallsHaveTheirEffect`, every call has exactly the effect `BookEffects` gives it.
- `Refinement`: `Spec => Abstract!Spec`, the book implements `BookSpec`.

**The manager** (`BookManager_proofs`). The lemmas about one book carry over to the books of all
locates. The invariant `IInv`: every entry has a sound book, its own symbol or a blank one, and
the BBO of its book as `last_bbo` (`EntriesOK`); names given are kept (`NamesOK`); each locate whose
adds were all tracked shows what its messages make (`FeedOK`); the counter counts the entries
(`CountOK`). From it `Routing` (`RoutingIsSound`), `Quotes` (`QuotesAreExact`: a BBO event exactly on
a change; `EntriesOK` is what a callback that comes late needs) and `Tape`
(`TapeTellsExecutions`: the side and price of the order *before* the execution took it away).

**The index** (`OrderIndex_proofs`). `Invariance`: the shape of the table in each phase of its
loops, no key twice, the exact count, the load limit, and the probe chains, which are kept across
the iterations of `remove_at` up to its hole. `TableSoundness` (`TableIsSound`: lookups are
exact, a probe always meets a free slot, a rehash never starts another) and
`TableImplementsMap` (`ImplementsOrderMap`: no move of `remove_at` and no copy of `rehash` changes
the map). Hashes are arbitrary: nothing depends on their quality.

**The tracker** (`SequenceTracker_proofs`). `NothingSkippedSilently`, `GapsAreNews`, `NoRewind`,
`TypeCorrect`, `Counters`. None of the first two is inductive: that a gap is news needs that
everything observed or reported lies before the expectation, and that nothing is skipped needs
that the anchor does too. The inductive invariant `SessionInv` says both, per session. `Counters`
(`CountersAreExact`): `gap_count()` and `messages_seen()` are the cardinalities of sets of
numbers, so each step needs only that what it adds is new.

**The UDP decoder** (`MoldUdp64_proofs`). `NothingLostSilently` (if datagrams arrive whole),
`GapsPursued`, `TypeCorrect`. The invariant has five parts: the types; `Traffic`, what the datagrams
and requests on the way may contain (only published numbers; recovered datagrams hold what was
asked for); `SessionInv`, the tracker's expectation never passes what was published; `Covered`,
everything passed is delivered or reported; and `Pursued`, each reported number is delivered,
requested or on the way. `Covered` needs `Traffic` (a whole datagram delivers all the tracker is
told of), and `Pursued` needs `SessionInv` (a reported number can be recovered because it was
published).

**The TCP decoder** (`Readers_proofs`). `Chunks` (`ChunkingIsInvisible`), `Escapes`
(`EscapesOnlyRepeat`) and `Numbers` (`NoSilentJump`), for any stream, any chunks and any number of
exceptions. The properties hold between two calls of `feed` and speak of what the whole prefix
of the stream makes; the invariant `Reading` speaks of two packets: the buffer starts behind
packet `b`, and the loop has come behind packet `j`. Bytes are positions in the stream, so that the buffer
is an interval of it (`Base`, `Placed`), which a chunk extends (`BytesMore`) and a return cuts
(`BytesTail`), and the two bytes at `offset` are the prefix of packet `j + 1` wherever a chunk ended
(`PacketIs`). Up to `j` the messages are delivered (`Delivered`), each of them at most once more than there
were exceptions (`Repeated`); an exception takes `j` back to `b` and the count of exceptions up by
one, which is what keeps the bound. `Ahead`: the next number is at least the one at `j`, unless
the bytes fed hold a login behind `j`: when a login has been read and a
later packet of the same call throws, the number is that of the login, which may restart it at 1,
while the loop is back before it. `Exact`: without exceptions the decoder's members are those of one that
sees whole packets (`After`). `Tracked` is the tracker's account, per session, and is inductive by itself.

**The framing loops** (`Readers_proofs`). `FramesDelivered` (`DeliversWellFormedFrames`) and
`CallsEnded` (`CallsEndAsDocumented`) of `Framing`, for every table of sizes, every filter and every
run of frames cut anywhere. `FramingInv` has three parts: the types (`Calling`), the call in its loop
(`Looping`) and the call that has returned (`Returned`). They speak of the number `k` of frames that are
passed: the offset is the end of frame `k` (`Framed`), what was delivered, collected and counted is
what those frames make (`Given`, `Tallied`), and a return is at the last whole frame, with the outcome
and the report of a truncated end that its overload gives (`Closed`), or at the frame whose callback
threw. That the two bytes at the offset are the length of frame `k + 1`, whatever bytes bodies
hold, is a lemma about the positions of the ends; the cut may fall inside those two bytes.

**The Python iterator** (`Readers_proofs`). `Iteration` (`IterationIsExact`), for every input, every chunk
size, every short read and every failing write. The property compares what was yielded with the
frames of the input, of which the code holds a part in its buffer and a part in the file.
`IterationInv`: there is a number `k` of frames taken off, and the bytes behind them are, in order,
the buffer behind its offset and then the rest of the file (`TakenOff`); what was yielded is the
wanted ones of those `k`, and an iterator that stopped has taken off all frames up to the stop event
(`Faithful`), unless a write raised or the caller went on behind a stop event that its filter hid (`Excused`);
the saved frames are those yielded; and a buffer that is refilled holds at most an unfinished
frame and one chunk (`Small`). A refill moves bytes from the file to the buffer and keeps `k` (`TakenOff`
says the same of both); only a decoded or skipped frame takes it up.

**The simple book** (`Consumers_proofs`). `Soundness` (`LegacyBookIsSound`), for any feed, any
width of the counters and any number of orders alive. The invariant `Sound` speaks of the four
parts together, because each operation disturbs several: every level of the maps is `Queued` (its
list holds live orders of its line, none twice, and its total is their sum), each kept position
leads to a live order of its number, each live order is listed at its own line, and can be
reached by its number unless that was added twice. `remove_order` is proved as it works: taking
shares keeps the book sound although an order may be left without any (`TakenSound`), and erasing
such an order, its number and perhaps its level does too (`GoneSound`), so that both messages that
erase are compositions of lemmas. That totals stay sums also when single counters wrap is the
arithmetic of `Wrapping`: additions and subtractions of counters commute.

The same invariant gives `Refinement` (`LegacyImplementsBookSpec`): on feeds that keep the
exchange's rules the simple book implements `BookSpec`. `Sound` with no number added twice says
that each number leads to one live order in the list of its line (`ListOfLine`); each member
function then changes the queues of those lists as `BookEffects` says (`TakeRefines`,
`ReplaceRefines`), and the rules are what excludes a second add of a live number.

**The analytics** (`Consumers_proofs`). `Auctioned` (`AuctionsFollowFeed`): what the tracker stores of a
locate is the last imbalance that locate published (`TrackerInv`), for any number of locates whose
messages interleave. `Averaged` (`AveragesAreExact`): the weighted sums lie between the lowest and the
highest price times the weight (`Within`), stated for all prices at once so that it is inductive,
and Twap's total is the span from the first sample to the last where times are in order (`Spans`),
which needs what it remembers of the last sample (`Remembers`). `Barred` (`BarsAreExact`): the bars
given out and the unfinished one cut the tape (`Cuts`: each starts behind the one before, is the
summary of its own trades, lies in one bucket, and ends at a bucket's end or at a flush), also when
the callback throws, for each of the three clocks.

**The outlets** (`Consumers_proofs`). `Exported` (`ExportsAreFaithful`): each builder holds a stretch of the
columns of what was exported, the last messages, as many as since it was emptied, and each file
a stretch that ends before those of the builders and meets that of no other file (`SinkInv`). A
call that fails empties some builders and leaves others; that each column's stretch is counted from the
end makes the invariant say, column by column, what is lost. `Reported` (`ExitCodeIsHonest`): after `i`
messages the counts, the shown messages and the written ones are those of the first `i` of the file
(`CliResults`), and each way to end says why (`CliEnds`). `Paced` (`PacingIsExact`): the base is the
time of the first message on both clocks (`EngineBase`), and the target of the message at hand its
distance from there, rounded down (`EngineTarget`); that no message is early is then a fact about quotients,
and that lateness does not add up is that the target does not depend on the clock.

*Least counterexamples.* The induction theorems of the library are out of the provers' reach. An
argument that would be an induction over positions is made from the least position where it
fails: every set of naturals with an element has a least one (`LeastElement`, and `UpTo` for the form
of an induction step; modules that need them prove them, as none extends another). `LowerBound`
finds the answer of `std::lower_bound` so; the sums, the walks and the probe chains are compared
so.

*Only model-checked.* Liveness (`OperationsReturn`, `EverythingArrives`, `CallsReturn`,
`ReplayEnds`): the prover has no support for fairness. The tables of the codec and the bindings
(`LayoutsAgree`, `AttributesAreKept`): they are finite, and TLC evaluates them whole. What is not proved yet: the
capture reader (`CapturesAreReadExactly`), the book metrics (`MetricsAreExact`,
`BidFlowIsWhatHappened`), and what throwing callbacks of a composed decoder and book leave
(`DamageIsConfined`). Their runs are exhaustive on the instances of section 3.

## 5. Findings

1. The comment at `moldudp64.cpp:62` says that the gap of a truncated trailing block "will
   already have been surfaced by the sequence tracker". The tracker has been told the header's
   count, so it takes the cut message as received; no gap is ever reported for it.
2. `order_flow_imbalance` is documented as the contribution of Cont, Kukanov and Stoikov
   (`microstructure.hpp:79`). When the best offer moves, its term has the opposite sign
   (`microstructure.hpp:108`).
3. The developer guide says that byte-swapped pcapng captures are handled
   (`docs/DEVELOPER_GUIDE.md:149`). The length of their section header is read unswapped
   (`pcap.cpp:160`), and `read` returns true without a datagram.
4. A frame of a known type that is too short is skipped by the parser; the Python iterator then
   dereferences an empty optional (`bindings.cpp:687`).

2 and 4 are errors of the code; 1 and 3 are places where code and documentation disagree. More of
those were met while modelling. They have no run; the models follow the code, and the properties
are stated so that they hold of it:

- `try_parse` is documented to skip oversized frames (`parser.hpp:206`); the loop delivers them
  (`parser.cpp:330-339`).
- `malformed_message_count` is documented to count frames that are too short (`parser.hpp:245`);
  it also counts truncated buffers (`parser.cpp:286`).
- The stream overloads are documented to throw on reading errors (`parser.hpp:143`); the result of
  the read is not looked at (`parser.cpp:438`), and the bytes that are missing become padding,
  in `Framing` as well.
- `messages_seen()` is documented as the number of distinct messages observed
  (`sequencing.hpp:149`); a message that comes after it was reported missing is not counted.
- `BookManager` is documented to restrict its work to a universe of symbols
  (`book_manager.hpp:34`); non-cross and cross trades reach the trade callback for every symbol.
- The Python iterators are documented to stop at the end-of-messages event
  (`python/README.md:43`); if the filter hides that event, the next call of `next()` goes on behind
  it (`bindings.cpp:699`).
- `decode()` is said to replicate the Python method (`bindings.cpp:47`), which keeps bytes that are
  not ASCII (`_bases.py:78`); this one raises.
- `VolumeClock` is documented to be given the volume including the trade (`bars.hpp:72`); it is
  given the volume before it (`bars.hpp:101`).
- The CSV sink is documented to leave blank what a message does not carry (`csv_sink.hpp:24`); it
  also leaves blank the symbols of nine types and the match number of a broken trade.
- The Parquet exporter is documented to have the schema of the CSV sink (`arrow_export.hpp:30`); it
  drops the market category of a stock directory.
- `error()` is documented to be empty after a success (`arrow_export.hpp:76`); it is never cleared.
- `rows_written` is documented as the rows written (`csv_sink.hpp:47`); it also counts rows that a
  failed stream did not take, and the tool reports them with exit code 0.
- The top-level README offers `--to` with Parquet for the tool, which reads the option and
  ignores it.

## 6. Not modelled, and the plan

Not modelled, and why:

- text forms of messages, the printed book, the wording of the tool and of logs: formatting;
- code tables (`indicators.hpp`), `price.hpp`, `time.hpp`, `venue.hpp`: pure lookups, conversions of
  a single value, types;
- rounding of doubles in the analytics: the models compute with exact fractions;
- IP fragments in captures: the reader takes each as a datagram, and what comes of it depends on
  payload bytes the model leaves out;
- the bindings of the books and the analytics, and the Python modules around the extension: glue;
- `RuntimeVenue` and tests, examples, benchmarks, build files.


Open: proofs of the capture reader, over the positions of `Readers_proofs`; of the metrics, over
the representation of `L3BookOps_proofs`; and of `DamageIsConfined`, which joins the invariants of
the TCP decoder and of the book.
