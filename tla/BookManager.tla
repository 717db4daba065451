---------------------------- MODULE BookManager ----------------------------
(***************************************************************************)
(* itch::book::BookManager: the books of a whole market, kept from one     *)
(* pass over the feed, with the quotes (BBO events) and the trades it      *)
(* hands to its callbacks.                                                 *)
(*                                                                         *)
(* Each book is a value of module L3BookOps.  Timestamps, match numbers    *)
(* and the kind of a cross are copied from the message to the trade and    *)
(* are left out.  A message with MPID attribution is handled as the plain  *)
(* one.  Callbacks return here; SoupBinBook has the ones that throw.       *)
(***************************************************************************)
EXTENDS L3BookOps, BookEffects

CONSTANTS
  Locate,         \* stock locate codes
  ListedSymbol,   \* [Locate -> symbol]: the day's stock directory
  NoSymbol,       \* a blank symbol
  FeedRef         \* [Locate -> reference numbers the feed uses for it]

ASSUME DirectoryAssumption ==
  /\ Locate \subseteq Nat \ {0} /\ IsFiniteSet(Locate)
  /\ NoSymbol \notin {ListedSymbol[l] : l \in Locate}
  /\ \A k, l \in Locate : ListedSymbol[k] = ListedSymbol[l] => k = l
ASSUME FeedAssumption == FeedRef \in [Locate -> SUBSET Ref]

VARIABLES
  m_books_by_locate,   \* [locate with a book -> [book, symbol, last_bbo]]
  m_symbol_by_locate,  \* [Locate -> symbol]
  m_universe,          \* symbols to track; empty for all
  m_bbo_callback,      \* whether a BBO callback is installed
  m_trade_callback,    \* whether a trade callback is installed
  m_book_count,
  msg,                 \* the last message: what a caller sees of a step,
  quotes,              \*   and the calls of the BBO callback
  tape,                \*   and of the trade callback it led to
  feed,                \* history: [locate -> the abstract book of its messages]
  missed,              \* history: locates with an add outside the universe
  named                \* history: locates whose book saw an add with a symbol

settings  == <<m_universe, m_bbo_callback, m_trade_callback>>
managed   == <<m_books_by_locate, m_symbol_by_locate, m_book_count>>
seen      == <<msg, quotes, tape>>
history   == <<feed, missed, named>>
stateVars == <<settings, managed, history>>
vars      == <<stateVars, seen>>

-----------------------------------------------------------------------------
(***************************************************************************)
(* The messages of a feed, by ITCH type.  Any reference number of a locate *)
(* may come with any of them, known or not.                                *)
(***************************************************************************)

AddMessage ==
  UNION {[type : {"A"}, locate : {l}, stock : {ListedSymbol[l], NoSymbol},
          ref : FeedRef[l], side : Side, shares : Shares, price : Price] : l \in Locate}

ExecutedMessage ==
  UNION {[type : {"E"}, locate : {l}, ref : FeedRef[l], shares : Shares] : l \in Locate}

ExecutedWithPriceMessage ==
  UNION {[type : {"C"}, locate : {l}, ref : FeedRef[l], shares : Shares,
          price : Price, printable : BOOLEAN] : l \in Locate}

CancelMessage ==
  UNION {[type : {"X"}, locate : {l}, ref : FeedRef[l], shares : Shares] : l \in Locate}

DeleteMessage ==
  UNION {[type : {"D"}, locate : {l}, ref : FeedRef[l]] : l \in Locate}

ReplaceMessage ==
  UNION {[type : {"U"}, locate : {l}, ref : FeedRef[l], new : FeedRef[l],
          shares : Shares, price : Price] : l \in Locate}

TradeMessage ==
  UNION {[type : {"P"}, locate : {l}, stock : {ListedSymbol[l]}, side : Side,
          shares : Shares, price : Price] : l \in Locate}

CrossMessage ==
  UNION {[type : {"Q"}, locate : {l}, stock : {ListedSymbol[l]},
          shares : Shares, price : Price] : l \in Locate}

DirectoryMessage ==
  UNION {[type : {"R"}, locate : {l}, stock : {ListedSymbol[l]}] : l \in Locate}

NoMessage == [type |-> "none"]

\* What an order message means for the book of its locate.
BookCall(m) ==
  CASE m.type = "A"          -> [op |-> "add", ref |-> m.ref, side |-> m.side,
                                 shares |-> m.shares, price |-> m.price]
    [] m.type \in {"E", "C"} -> [op |-> "execute", ref |-> m.ref, shares |-> m.shares]
    [] m.type = "X"          -> [op |-> "reduce", ref |-> m.ref, shares |-> m.shares]
    [] m.type = "D"          -> [op |-> "delete", ref |-> m.ref]
    [] m.type = "U"          -> [op |-> "replace", ref |-> m.ref, new |-> m.new,
                                 shares |-> m.shares, price |-> m.price]

\* The history of an order message: the abstract book follows it, unless an add of
\* the locate has been left out.
Follow(m, gone) ==
  /\ missed' = IF gone THEN missed \cup {m.locate} ELSE missed
  /\ feed' = [feed EXCEPT ![m.locate] =
                IF m.locate \in missed' THEN NoOrders
                                        ELSE Effect(@, BookCall(m))]

-----------------------------------------------------------------------------
(***************************************************************************)
(* The handlers.                                                           *)
(***************************************************************************)

HasBook(l) == l \in DOMAIN m_books_by_locate

\* entry
entry(l) == m_books_by_locate[l]

\* Mutant: an empty universe tracks nothing.
in_universe_Strict(symbol) == symbol \in m_universe

in_universe(symbol) == m_universe = {} \/ symbol \in m_universe

\* Anything but a buy indicator is a sell.
to_side(indicator) == IF indicator = "B" THEN "B" ELSE "S"

NewEntry(symbol) ==
  [book |-> EmptyBook, symbol |-> symbol, last_bbo |-> bbo(EmptyBook)]

\* The entry ensure_entry returns: the one that is there, with its symbol if that was
\* still blank, or a new one.
Ensured(l, symbol) ==
  IF HasBook(l)
  THEN [entry(l) EXCEPT !.symbol = IF @ = NoSymbol THEN symbol ELSE @]
  ELSE NewEntry(symbol)

Counted(l) == IF HasBook(l) THEN m_book_count ELSE m_book_count + 1

\* Mutant: the last BBO is kept only for a callback that wants it.
LastBbo_ForCallback(e) == IF m_bbo_callback THEN bbo(e.book) ELSE e.last_bbo

LastBbo(e) == bbo(e.book)

\* emit_bbo_if_changed: the entry of l becomes e with its last BBO brought up to date.
emit_bbo_if_changed(l, e) ==
  /\ m_books_by_locate' =
       [k \in DOMAIN m_books_by_locate \cup {l} |->
          IF k = l THEN [e EXCEPT !.last_bbo = LastBbo(e)] ELSE entry(k)]
  /\ quotes' = IF bbo(e.book) # e.last_bbo /\ m_bbo_callback
               THEN <<[locate |-> l, bbo |-> bbo(e.book)]>>
               ELSE << >>

\* A handler that finds no entry.
Ignored ==
  /\ quotes' = << >>
  /\ UNCHANGED m_books_by_locate

Trade(m, symbol, price, side, printable, is_cross) ==
  [locate |-> m.locate, symbol |-> symbol, price |-> price, shares |-> m.shares,
   side |-> side, printable |-> printable, is_cross |-> is_cross]

Printed(trade) == IF m_trade_callback THEN <<trade>> ELSE << >>

handle_add_order(m) ==
  LET tracked == HasBook(m.locate) \/ in_universe(m.stock)
      e       == Ensured(m.locate, m.stock)
  IN  /\ IF tracked
         THEN /\ emit_bbo_if_changed(m.locate,
                   [e EXCEPT !.book = add_order(@, m.ref, to_side(m.side), m.shares, m.price)])
              /\ m_book_count' = Counted(m.locate)
         ELSE Ignored /\ UNCHANGED m_book_count
      /\ tape' = << >>
      /\ named' = IF tracked /\ m.stock # NoSymbol THEN named \cup {m.locate} ELSE named
      /\ Follow(m, m_universe # {} /\ m.stock \notin m_universe)
      /\ msg' = m
      /\ UNCHANGED <<settings, m_symbol_by_locate>>

\* The book a message is about, if there is one.
Book(m) == entry(m.locate).book

\* A handler that leaves the given book behind for a locate that has one, and does
\* nothing for another.
OnBook(m, changed) ==
  /\ IF HasBook(m.locate)
     THEN emit_bbo_if_changed(m.locate, [entry(m.locate) EXCEPT !.book = changed])
     ELSE Ignored
  /\ Follow(m, FALSE)
  /\ msg' = m
  /\ UNCHANGED <<settings, m_symbol_by_locate, m_book_count, named>>

\* Mutant: the trade is made after the book has executed the order.
ExecutedTrade_After(m) ==
  LET after == execute_order(Book(m), m.ref, m.shares)
  IN  IF HasBook(m.locate) /\ contains(after, m.ref)
      THEN Printed(Trade(m, entry(m.locate).symbol, order_price(after, m.ref),
                         order_side(after, m.ref), TRUE, FALSE))
      ELSE << >>

\* An execution at the price of the resting order: no trade when none rests.
ExecutedTrade(m) ==
  IF HasBook(m.locate) /\ contains(Book(m), m.ref)
  THEN Printed(Trade(m, entry(m.locate).symbol, order_price(Book(m), m.ref),
                     order_side(Book(m), m.ref), TRUE, FALSE))
  ELSE << >>

handle_order_executed(m) ==
  /\ tape' = ExecutedTrade(m)
  /\ OnBook(m, execute_order(Book(m), m.ref, m.shares))

\* An execution at a price of its own: a trade even when the order is unknown.
ExecutedWithPriceTrade(m) ==
  LET side == IF contains(Book(m), m.ref) THEN order_side(Book(m), m.ref) ELSE "none"
  IN  IF HasBook(m.locate)
      THEN Printed(Trade(m, entry(m.locate).symbol, m.price, side, m.printable, FALSE))
      ELSE << >>

handle_order_executed_with_price(m) ==
  /\ tape' = ExecutedWithPriceTrade(m)
  /\ OnBook(m, execute_order(Book(m), m.ref, m.shares))

handle_order_cancel(m) ==
  /\ tape' = << >>
  /\ OnBook(m, reduce_order(Book(m), m.ref, m.shares))

handle_order_delete(m) ==
  /\ tape' = << >>
  /\ OnBook(m, delete_order(Book(m), m.ref))

handle_order_replace(m) ==
  /\ tape' = << >>
  /\ OnBook(m, replace_order(Book(m), m.ref, m.new, m.shares, m.price))

\* A message that no book sees.
OffBook(m) ==
  /\ msg' = m
  /\ quotes' = << >>
  /\ UNCHANGED <<settings, m_books_by_locate, m_book_count, history>>

handle_non_cross_trade(m) ==
  /\ tape' = Printed(Trade(m, m.stock, m.price, m.side, TRUE, FALSE))
  /\ UNCHANGED m_symbol_by_locate
  /\ OffBook(m)

handle_cross_trade(m) ==
  /\ tape' = Printed(Trade(m, m.stock, m.price, "none", TRUE, TRUE))
  /\ UNCHANGED m_symbol_by_locate
  /\ OffBook(m)

handle_stock_directory(m) ==
  /\ tape' = << >>
  /\ m_symbol_by_locate' = [m_symbol_by_locate EXCEPT ![m.locate] = m.stock]
  /\ OffBook(m)

-----------------------------------------------------------------------------
(***************************************************************************)
(* The calls that configure the manager, at any time.                      *)
(***************************************************************************)

Configured ==
  /\ msg' = NoMessage
  /\ quotes' = << >>
  /\ tape' = << >>
  /\ UNCHANGED <<managed, history>>

set_bbo_callback(installed) ==
  /\ m_bbo_callback' = installed
  /\ UNCHANGED <<m_universe, m_trade_callback>>
  /\ Configured

set_trade_callback(installed) ==
  /\ m_trade_callback' = installed
  /\ UNCHANGED <<m_universe, m_bbo_callback>>
  /\ Configured

track_symbol(symbol) ==
  /\ m_universe' = m_universe \cup {symbol}
  /\ UNCHANGED <<m_bbo_callback, m_trade_callback>>
  /\ Configured

-----------------------------------------------------------------------------

Init ==
  /\ m_books_by_locate = << >>
  /\ m_symbol_by_locate = [l \in Locate |-> NoSymbol]
  /\ m_universe = {}
  /\ m_bbo_callback = FALSE
  /\ m_trade_callback = FALSE
  /\ m_book_count = 0
  /\ msg = NoMessage
  /\ quotes = << >>
  /\ tape = << >>
  /\ feed = [l \in Locate |-> NoOrders]
  /\ missed = {}
  /\ named = {}

\* process: the handler for each type of message; the other types change nothing.
process ==
  \/ \E m \in AddMessage : handle_add_order(m)
  \/ \E m \in ExecutedMessage : handle_order_executed(m)
  \/ \E m \in ExecutedWithPriceMessage : handle_order_executed_with_price(m)
  \/ \E m \in CancelMessage : handle_order_cancel(m)
  \/ \E m \in DeleteMessage : handle_order_delete(m)
  \/ \E m \in ReplaceMessage : handle_order_replace(m)
  \/ \E m \in TradeMessage : handle_non_cross_trade(m)
  \/ \E m \in CrossMessage : handle_cross_trade(m)
  \/ \E m \in DirectoryMessage : handle_stock_directory(m)

Next ==
  \/ process
  \/ \E installed \in BOOLEAN : set_bbo_callback(installed)
  \/ \E installed \in BOOLEAN : set_trade_callback(installed)
  \/ \E l \in Locate : track_symbol(ListedSymbol[l])

Spec == Init /\ [][Next]_vars

-----------------------------------------------------------------------------
(***************************************************************************)
(* The queries.                                                            *)
(***************************************************************************)

\* The locate whose book is returned: the first with the symbol, or 0 for nullptr.
book_for_symbol(symbol) ==
  LET found == {l \in DOMAIN m_books_by_locate : entry(l).symbol = symbol}
  IN  IF found = {} THEN 0 ELSE CHOOSE l \in found : \A k \in found : l <= k

symbol_for_locate(l) ==
  IF HasBook(l) /\ entry(l).symbol # NoSymbol THEN entry(l).symbol
                                              ELSE m_symbol_by_locate[l]

-----------------------------------------------------------------------------
(***************************************************************************)
(* Properties.                                                             *)
(***************************************************************************)

Symbols == {ListedSymbol[l] : l \in Locate}

\* Type invariant.
TypeOK ==
  /\ DOMAIN m_books_by_locate \subseteq Locate
  /\ \A l \in DOMAIN m_books_by_locate :
       /\ DOMAIN entry(l) = {"book", "symbol", "last_bbo"}
       /\ entry(l).symbol \in Symbols \cup {NoSymbol}
  /\ m_symbol_by_locate \in [Locate -> Symbols \cup {NoSymbol}]
  /\ m_universe \subseteq Symbols
  /\ m_bbo_callback \in BOOLEAN
  /\ m_trade_callback \in BOOLEAN
  /\ m_book_count \in 0 .. Cardinality(Locate)
  /\ Len(quotes) <= 1 /\ Len(tape) <= 1
  /\ feed \in [Locate -> [Line -> Seq([reference_number : Ref, shares : Shares])]]
  /\ missed \subseteq Locate
  /\ named \subseteq Locate

\* The queue of orders the manager shows for a locate and a line.
OrdersShown(l, line) == IF HasBook(l) THEN orders_at(entry(l).book, line[1], line[2]) ELSE << >>

\* Every locate whose adds were all inside the universe has exactly the book its own
\* messages make: routing by locate, the creation of books on first use and the symbol
\* filter lose nothing and mix nothing up.
BooksFollowFeed ==
  \A l \in Locate \ missed : \A line \in Line : OrdersShown(l, line) = feed[l][line]

NoQuote == bbo(EmptyBook)

\* The best bid and offer a locate has.
Quote(l) == IF HasBook(l) THEN bbo(entry(l).book) ELSE NoQuote

\* With a BBO callback installed, a step calls it for exactly the books whose best bid
\* or offer it changed, with the new one, also when the callback was installed late or
\* had been removed for a while.
QuotesAreExact ==
  [][LET changed == {l \in Locate : Quote(l)' # Quote(l)}
     IN  {[locate |-> quotes'[i].locate, bbo |-> quotes'[i].bbo] : i \in DOMAIN quotes'}
           = IF m_bbo_callback THEN {[locate |-> l, bbo |-> Quote(l)'] : l \in changed}
                               ELSE {}]_vars

\* An executed order is on the tape once, with the side and, unless the message has its
\* own, the price it rested at before the execution took it away, whatever its history
\* in the book; executions of orders that do not rest print only with their own price.
TapeTellsExecutions ==
  [][(m_trade_callback /\ msg'.type \in {"E", "C"} /\ msg'.locate \notin missed) =>
       LET m    == msg'
           line == LineOf(feed[m.locate], m.ref)
       IN  IF Rests(feed[m.locate], m.ref)
           THEN /\ Len(tape') = 1
                /\ tape'[1].side = line[1]
                /\ tape'[1].price = IF m.type = "C" THEN m.price ELSE line[2]
                /\ tape'[1].shares = m.shares
           ELSE m.type = "E" => tape' = << >>]_vars

\* The lookups agree with the feed: the count of books is exact, a book has its locate's
\* symbol once an add has named it, and is then found under that symbol.
LookupsAreExact ==
  /\ m_book_count = Cardinality(DOMAIN m_books_by_locate)
  /\ named \subseteq DOMAIN m_books_by_locate
  /\ \A l \in named : /\ symbol_for_locate(l) = ListedSymbol[l]
                      /\ book_for_symbol(ListedSymbol[l]) = l
  /\ \A l \in Locate : symbol_for_locate(l) \in {ListedSymbol[l], NoSymbol}

\* BookManager routes the feed soundly: every message reaches the one book of its
\* locate, and books, symbols and counts found by the lookups are those of the feed,
\* whenever the universe and the callbacks were configured.
RoutingIsSound == TypeOK /\ BooksFollowFeed /\ LookupsAreExact
=============================================================================
