------------------------- MODULE BookManager_proofs -------------------------
(***************************************************************************)
(* Theorems about BookManager, for any directory, reference numbers,       *)
(* prices and quantities, from the lemmas of L3BookOps_proofs about the    *)
(* operations of one book.                                                 *)
(***************************************************************************)
EXTENDS BookManager, L3BookOps_proofs, FiniteSetTheorems

\* The abstract books.
Queues == [Line -> Seq([reference_number : Ref, shares : Shares])]

\* An order that rests has a line and a place.
LEMMA RestingPlace ==
  ASSUME NEW q \in Queues, NEW ref, Rests(q, ref)
  PROVE  /\ LineOf(q, ref) \in Line
         /\ PlaceOf(q[LineOf(q, ref)], ref) \in 1 .. Len(q[LineOf(q, ref)])
         /\ q[LineOf(q, ref)] \in Seq([reference_number : Ref, shares : Shares])
<1>1. LineOf(q, ref) \in Line /\ Holds(q[LineOf(q, ref)], ref)
  BY DEF Rests, LineOf
<1>2. PICK orders : orders = q[LineOf(q, ref)]
  OBVIOUS
<1>3. orders \in Seq([reference_number : Ref, shares : Shares]) /\ Holds(orders, ref)
  BY <1>1, <1>2 DEF Queues
<1>4. PlaceOf(orders, ref) \in DOMAIN orders
  BY <1>3 DEF Holds, PlaceOf
<1>5. DOMAIN orders = 1 .. Len(orders)
  BY <1>3, LenProperties
<1> QED
  BY <1>1, <1>2, <1>3, <1>4, <1>5

LEMMA AddedType ==
  ASSUME NEW q \in Queues, NEW ref \in Ref, NEW side \in Side, NEW n \in Shares, NEW price \in Price
  PROVE  Added(q, ref, side, n, price) \in Queues
<1>1. PICK line : line = <<side, price>>
  OBVIOUS
<1>2. line \in Line /\ Order(ref, n) \in [reference_number : Ref, shares : Shares]
  BY <1>1 DEF Line, Order
<1>3. Append(q[line], Order(ref, n)) \in Seq([reference_number : Ref, shares : Shares])
  BY <1>2, AppendProperties DEF Queues
<1>4. [q EXCEPT ![line] = Append(q[line], Order(ref, n))] \in Queues
  BY <1>3 DEF Queues
<1> QED
  BY <1>1, <1>4 DEF Added

LEMMA DeletedType ==
  ASSUME NEW q \in Queues, NEW ref
  PROVE  Deleted(q, ref) \in Queues
<1>1. CASE ~ Rests(q, ref)
  BY <1>1 DEF Deleted
<1>2. CASE Rests(q, ref)
  <2>1. PICK line : line = LineOf(q, ref)
    OBVIOUS
  <2>2. PICK i : i = PlaceOf(q[line], ref)
    OBVIOUS
  <2>3. /\ line \in Line /\ i \in 1 .. Len(q[line])
        /\ q[line] \in Seq([reference_number : Ref, shares : Shares])
    BY <1>2, <2>1, <2>2, RestingPlace
  <2>4. RemoveAt(q[line], i) \in Seq([reference_number : Ref, shares : Shares])
    BY <2>3, RemoveType
  <2>5. [q EXCEPT ![line] = RemoveAt(q[line], i)] \in Queues
    BY <2>3, <2>4 DEF Queues
  <2> QED
    BY <1>2, <2>1, <2>2, <2>5 DEF Deleted
<1> QED
  BY <1>1, <1>2

LEMMA FilledType ==
  ASSUME NEW q \in Queues, NEW ref \in Ref, NEW n \in Shares
  PROVE  Filled(q, ref, n) \in Queues
<1>1. CASE ~ Rests(q, ref)
  BY <1>1 DEF Filled
<1>2. CASE Rests(q, ref)
  <2>1. PICK line : line = LineOf(q, ref)
    OBVIOUS
  <2>2. PICK i : i = PlaceOf(q[line], ref)
    OBVIOUS
  <2>3. /\ line \in Line /\ i \in 1 .. Len(q[line])
        /\ q[line] \in Seq([reference_number : Ref, shares : Shares])
    BY <1>2, <2>1, <2>2, RestingPlace
  <2>4. PICK left : left = Left(q[line][i], n)
    OBVIOUS
  <2>5. q[line][i] \in [reference_number : Ref, shares : Shares]
    BY <2>3, ElementOfSeq
  <2>6. left \in Shares
    BY <2>4, <2>5, SharesAssumption DEF Left, Shares
  <2>7. Order(ref, left) \in [reference_number : Ref, shares : Shares]
    BY <2>6 DEF Order
  <2>8. [q[line] EXCEPT ![i] = Order(ref, left)] \in Seq([reference_number : Ref, shares : Shares])
    BY <2>3, <2>7, ExceptSeq
  <2>9. [q EXCEPT ![line] = [q[line] EXCEPT ![i] = Order(ref, left)]] \in Queues
    BY <2>3, <2>8 DEF Queues
  <2>10. Deleted(q, ref) \in Queues
    BY DeletedType
  <2>11. Filled(q, ref, n) = IF left = 0 THEN Deleted(q, ref)
                             ELSE [q EXCEPT ![line] = [q[line] EXCEPT ![i] = Order(ref, left)]]
    BY <1>2, <2>1, <2>2, <2>4 DEF Filled
  <2> QED
    BY <2>9, <2>10, <2>11
<1> QED
  BY <1>1, <1>2

\* Every call leaves an abstract book behind.
LEMMA EffectType ==
  ASSUME NEW q \in Queues, NEW c \in Call
  PROVE  Effect(q, c) \in Queues
<1>1. CASE c \in AddCall
  <2>1. c.op = "add" /\ c.ref \in Ref /\ c.side \in Side /\ c.shares \in Shares /\ c.price \in Price
    BY <1>1 DEF AddCall
  <2> QED
    BY <2>1, AddedType DEF Effect
<1>2. CASE c \in ExecuteCall \cup ReduceCall
  <2>1. c.op \in {"execute", "reduce"} /\ c.ref \in Ref /\ c.shares \in Shares
    BY <1>2 DEF ExecuteCall, ReduceCall
  <2> QED
    BY <2>1, FilledType DEF Effect
<1>3. CASE c \in DeleteCall
  <2>1. c.op = "delete" /\ c.ref \in Ref
    BY <1>3 DEF DeleteCall
  <2> QED
    BY <2>1, DeletedType DEF Effect
<1>4. CASE c \in ReplaceCall
  <2>1. c.op = "replace" /\ c.ref \in Ref /\ c.new \in Ref /\ c.shares \in Shares /\ c.price \in Price
    BY <1>4 DEF ReplaceCall
  <2>2. Deleted(q, c.ref) \in Queues
    BY DeletedType
  <2>3. Rests(q, c.ref) => LineOf(q, c.ref)[1] \in Side
    BY RestingPlace DEF Line
  <2>4. Replaced(q, c.ref, c.new, c.shares, c.price) \in Queues
    BY <2>1, <2>2, <2>3, AddedType DEF Replaced
  <2> QED
    BY <2>1, <2>4 DEF Effect
<1> QED
  BY <1>1, <1>2, <1>3, <1>4 DEF Call

-----------------------------------------------------------------------------
(***************************************************************************)
(* The inductive invariant: each entry has a sound book, the BBO last seen *)
(* is the book's and the symbol is its locate's or blank; the book of each *)
(* locate with no add left out shows what its messages make.               *)
(***************************************************************************)

EntryOK(l, e) ==
  /\ DOMAIN e = {"book", "symbol", "last_bbo"}
  /\ Sound(e.book) /\ e.last_bbo = bbo(e.book)
  /\ e.symbol \in {ListedSymbol[l], NoSymbol}

EntriesOK == \A l \in DOMAIN m_books_by_locate : EntryOK(l, m_books_by_locate[l])

NamesOK ==
  /\ \A l \in Locate : m_symbol_by_locate[l] \in {ListedSymbol[l], NoSymbol}
  /\ \A l \in named : /\ l \in DOMAIN m_books_by_locate
                      /\ m_books_by_locate[l].symbol = ListedSymbol[l]

\* What the manager shows of a locate.
BookShown(l) ==
  IF l \in DOMAIN m_books_by_locate THEN queues(m_books_by_locate[l].book) ELSE NoOrders

FeedOK == \A l \in Locate \ missed : feed[l] = BookShown(l)

CountOK ==
  /\ DOMAIN m_books_by_locate \subseteq Locate
  /\ m_book_count = Cardinality(DOMAIN m_books_by_locate)

HistoryOK ==
  /\ feed \in [Locate -> Queues]
  /\ missed \subseteq Locate
  /\ named \subseteq Locate

SettingsOK ==
  /\ m_symbol_by_locate \in [Locate -> Symbols \cup {NoSymbol}]
  /\ m_universe \subseteq Symbols
  /\ m_bbo_callback \in BOOLEAN
  /\ m_trade_callback \in BOOLEAN

SeenOK == Len(quotes) <= 1 /\ Len(tape) <= 1

IInv == EntriesOK /\ NamesOK /\ FeedOK /\ CountOK /\ HistoryOK /\ SettingsOK /\ SeenOK

\* The entry of l becomes e with its last BBO brought up to date.
EntryBecomes(l, e) ==
  /\ DOMAIN m_books_by_locate' = DOMAIN m_books_by_locate \cup {l}
  /\ \A k \in DOMAIN m_books_by_locate : k # l => m_books_by_locate'[k] = m_books_by_locate[k]
  /\ DOMAIN m_books_by_locate'[l] = {"book", "symbol", "last_bbo"}
  /\ m_books_by_locate'[l].book = e.book
  /\ m_books_by_locate'[l].symbol = e.symbol
  /\ m_books_by_locate'[l].last_bbo = bbo(e.book)

LEMMA EntryEmitted ==
  ASSUME NEW l, NEW e, DOMAIN e = {"book", "symbol", "last_bbo"}, emit_bbo_if_changed(l, e)
  PROVE  EntryBecomes(l, e) /\ Len(quotes') <= 1
<1>1. PICK f : f = [e EXCEPT !.last_bbo = bbo(e.book)]
  OBVIOUS
<1>2. /\ DOMAIN f = {"book", "symbol", "last_bbo"} /\ f.book = e.book /\ f.symbol = e.symbol
      /\ f.last_bbo = bbo(e.book)
  BY <1>1
<1>3. m_books_by_locate' = [k \in DOMAIN m_books_by_locate \cup {l} |->
                              IF k = l THEN f ELSE m_books_by_locate[k]]
  BY <1>1 DEF emit_bbo_if_changed, LastBbo, entry
<1>4. Len(quotes') <= 1
  BY DEF emit_bbo_if_changed
<1> QED
  BY <1>2, <1>3, <1>4 DEF EntryBecomes

LEMMA EntriesKept ==
  ASSUME NEW l, NEW e, EntriesOK, EntryBecomes(l, e), Sound(e.book),
         e.symbol \in {ListedSymbol[l], NoSymbol}
  PROVE  EntriesOK'
<1>1. EntryOK(l, m_books_by_locate'[l])
  BY DEF EntryBecomes, EntryOK
<1>2. ASSUME NEW k \in DOMAIN m_books_by_locate, k # l
      PROVE  EntryOK(k, m_books_by_locate'[k])
  BY <1>2 DEF EntryBecomes, EntriesOK
<1> QED
  BY <1>1, <1>2 DEF EntriesOK, EntryBecomes

LEMMA NoOrdersType == NoOrders \in Queues
BY EmptySeq DEF NoOrders, Queues

LEMMA FollowType ==
  ASSUME HistoryOK, NEW m, m.locate \in Locate, BookCall(m) \in Call, NEW gone, Follow(m, gone)
  PROVE  feed' \in [Locate -> Queues] /\ missed' \subseteq Locate
<1>1. missed' \subseteq Locate
  BY DEF Follow, HistoryOK
<1>2. feed[m.locate] \in Queues
  BY DEF HistoryOK
<1>3. Effect(feed[m.locate], BookCall(m)) \in Queues
  BY <1>2, EffectType
<1>4. feed' = [feed EXCEPT ![m.locate] = IF m.locate \in missed' THEN NoOrders
                                         ELSE Effect(feed[m.locate], BookCall(m))]
  BY DEF Follow
<1> QED
  BY <1>1, <1>3, <1>4, NoOrdersType DEF HistoryOK

\* A message to a book that carries it out keeps the books and the feed together.
LEMMA FeedFollows ==
  ASSUME FeedOK, HistoryOK, NEW m, m.locate \in Locate, NEW gone, Follow(m, gone),
         NEW e, EntryBecomes(m.locate, e),
         (m.locate \notin missed /\ ~ gone) =>
            queues(e.book) = Effect(BookShown(m.locate), BookCall(m))
  PROVE  FeedOK'
<1> SUFFICES ASSUME NEW l \in Locate, l \notin missed'
             PROVE  feed'[l] = BookShown(l)'
  BY DEF FeedOK
<1>1. missed \subseteq missed' /\ (gone => m.locate \in missed')
  BY DEF Follow
<1>2. feed' = [feed EXCEPT ![m.locate] = IF m.locate \in missed' THEN NoOrders
                                         ELSE Effect(feed[m.locate], BookCall(m))]
  BY DEF Follow
<1>3. CASE l # m.locate
  <2>1. feed'[l] = feed[l]
    BY <1>2, <1>3 DEF HistoryOK
  <2>2. BookShown(l)' = BookShown(l)
    BY <1>3 DEF BookShown, EntryBecomes
  <2> QED
    BY <1>1, <2>1, <2>2 DEF FeedOK
<1>4. CASE l = m.locate
  <2>1. feed'[l] = Effect(feed[l], BookCall(m))
    BY <1>2, <1>4 DEF HistoryOK
  <2>2. BookShown(l)' = queues(e.book)
    BY <1>4 DEF BookShown, EntryBecomes
  <2>3. feed[l] = BookShown(l)
    BY <1>1 DEF FeedOK
  <2> QED
    BY <1>1, <1>4, <2>1, <2>2, <2>3
<1> QED
  BY <1>3, <1>4

\* A message that finds no book, and that would change nothing.
LEMMA FeedIgnores ==
  ASSUME FeedOK, HistoryOK, NEW m, m.locate \in Locate, NEW gone, Follow(m, gone),
         UNCHANGED m_books_by_locate,
         (m.locate \notin missed /\ ~ gone) =>
            BookShown(m.locate) = Effect(BookShown(m.locate), BookCall(m))
  PROVE  FeedOK'
<1> SUFFICES ASSUME NEW l \in Locate, l \notin missed'
             PROVE  feed'[l] = BookShown(l)'
  BY DEF FeedOK
<1>1. missed \subseteq missed' /\ (gone => m.locate \in missed')
  BY DEF Follow
<1>2. feed' = [feed EXCEPT ![m.locate] = IF m.locate \in missed' THEN NoOrders
                                         ELSE Effect(feed[m.locate], BookCall(m))]
  BY DEF Follow
<1>3. BookShown(l)' = BookShown(l)
  BY DEF BookShown
<1>4. feed[l] = BookShown(l)
  BY <1>1 DEF FeedOK
<1>5. CASE l # m.locate
  BY <1>2, <1>3, <1>4, <1>5 DEF HistoryOK
<1>6. CASE l = m.locate
  <2>1. feed'[l] = Effect(feed[l], BookCall(m))
    BY <1>2, <1>6 DEF HistoryOK
  <2> QED
    BY <1>1, <1>3, <1>4, <1>6, <2>1
<1> QED
  BY <1>5, <1>6

\* Book c is what message m makes of a sound book b.
Carries(b, c, m) == Sound(b) => Sound(c) /\ queues(c) = Effect(queues(b), BookCall(m))

\* A handler of an order that rests, or does not.
LEMMA OnBookKeeps ==
  ASSUME IInv, NEW m, m.locate \in Locate, BookCall(m) \in Call,
         NEW changed, OnBook(m, changed), Carries(Book(m), changed, m),
         Effect(NoOrders, BookCall(m)) = NoOrders, Len(tape') <= 1
  PROVE  IInv'
<1>1. Follow(m, FALSE) /\ UNCHANGED <<settings, m_symbol_by_locate, m_book_count, named>>
  BY DEF OnBook
<1>2. HistoryOK' /\ SettingsOK'
  BY <1>1, FollowType DEF IInv, HistoryOK, SettingsOK, settings
<1>3. CASE ~ HasBook(m.locate)
  <2>1. quotes' = << >> /\ UNCHANGED m_books_by_locate
    BY <1>3 DEF OnBook, Ignored
  <2>2. BookShown(m.locate) = NoOrders
    BY <1>3 DEF BookShown, HasBook
  <2>3. FeedOK'
    BY <1>1, <2>1, <2>2, FeedIgnores DEF IInv
  <2>4. EntriesOK' /\ NamesOK' /\ CountOK'
    BY <1>1, <2>1 DEF IInv, EntriesOK, NamesOK, CountOK
  <2>5. SeenOK'
    BY <2>1 DEF SeenOK
  <2> QED
    BY <1>2, <2>3, <2>4, <2>5 DEF IInv
<1>4. CASE HasBook(m.locate)
  <2>1. PICK l : l = m.locate
    OBVIOUS
  <2>2. l \in DOMAIN m_books_by_locate /\ EntryOK(l, m_books_by_locate[l])
    BY <1>4, <2>1 DEF HasBook, IInv, EntriesOK
  <2>3. PICK e : e = [m_books_by_locate[l] EXCEPT !.book = changed]
    OBVIOUS
  <2>4. /\ DOMAIN e = {"book", "symbol", "last_bbo"} /\ e.book = changed
        /\ e.symbol = m_books_by_locate[l].symbol
    BY <2>2, <2>3 DEF EntryOK
  <2>5. emit_bbo_if_changed(l, e)
    BY <1>4, <2>1, <2>3 DEF OnBook, entry
  <2>6. EntryBecomes(l, e) /\ Len(quotes') <= 1
    BY <2>4, <2>5, EntryEmitted
  <2>7. Sound(changed) /\ queues(changed) = Effect(queues(m_books_by_locate[l].book), BookCall(m))
    BY <2>1, <2>2 DEF Carries, Book, entry, EntryOK
  <2>8. EntriesOK'
    BY <2>2, <2>4, <2>6, <2>7, EntriesKept DEF IInv, EntryOK
  <2>9. BookShown(l) = queues(m_books_by_locate[l].book)
    BY <2>2 DEF BookShown
  <2>10. queues(e.book) = Effect(BookShown(m.locate), BookCall(m))
    BY <2>1, <2>4, <2>7, <2>9
  <2>11. EntryBecomes(m.locate, e)
    BY <2>1, <2>6
  <2>12. FeedOK'
    BY <1>1, <2>10, <2>11, FeedFollows DEF IInv
  <2>13. NamesOK'
    BY <1>1, <2>2, <2>4, <2>6 DEF IInv, NamesOK, EntryBecomes
  <2>14. CountOK'
    BY <1>1, <2>2, <2>6 DEF IInv, CountOK, EntryBecomes
  <2>15. SeenOK'
    BY <2>6 DEF SeenOK
  <2> QED
    BY <1>2, <2>8, <2>12, <2>13, <2>14, <2>15 DEF IInv
<1> QED
  BY <1>3, <1>4

\* On an abstract book without orders only an add has an effect.
LEMMA NothingRests ==
  ASSUME NEW c, c.op \in {"execute", "reduce", "delete", "replace"}
  PROVE  Effect(NoOrders, c) = NoOrders
<1>1. ASSUME NEW ref PROVE ~ Rests(NoOrders, ref)
  <2>1. \A l \in Line : DOMAIN NoOrders[l] = {}
    BY DEF NoOrders
  <2> QED
    BY <2>1 DEF Rests, Holds
<1> QED
  BY <1>1 DEF Effect, Filled, Deleted, Replaced

LEMMA ExecutedMessageType ==
  ASSUME NEW m \in ExecutedMessage \cup CancelMessage \cup ExecutedWithPriceMessage
  PROVE  /\ m.locate \in Locate /\ m.ref \in Ref /\ m.shares \in Shares
         /\ m.type \in {"E", "C", "X"}
         /\ BookCall(m).ref = m.ref /\ BookCall(m).shares = m.shares
         /\ BookCall(m).op \in {"execute", "reduce"} /\ BookCall(m) \in Call
<1>1. /\ m.locate \in Locate /\ m.ref \in Ref /\ m.shares \in Shares
      /\ m.type \in {"E", "C", "X"}
  BY FeedAssumption DEF ExecutedMessage, CancelMessage, ExecutedWithPriceMessage
<1>2. m.type # "A"
  BY <1>1
<1>3. CASE m.type \in {"E", "C"}
  <2>1. BookCall(m) = [op |-> "execute", ref |-> m.ref, shares |-> m.shares]
    BY <1>3 DEF BookCall
  <2>2. BookCall(m) \in ExecuteCall
    BY <1>1, <2>1 DEF ExecuteCall
  <2> QED
    BY <1>1, <2>1, <2>2 DEF Call
<1>4. CASE m.type = "X"
  <2>1. BookCall(m) = [op |-> "reduce", ref |-> m.ref, shares |-> m.shares]
    BY <1>4 DEF BookCall
  <2>2. BookCall(m) \in ReduceCall
    BY <1>1, <2>1 DEF ReduceCall
  <2> QED
    BY <1>1, <2>1, <2>2 DEF Call
<1> QED
  BY <1>1, <1>3, <1>4

LEMMA DeleteMessageType ==
  ASSUME NEW m \in DeleteMessage
  PROVE  /\ m.locate \in Locate /\ m.ref \in Ref /\ m.type = "D"
         /\ BookCall(m) = [op |-> "delete", ref |-> m.ref] /\ BookCall(m) \in Call
<1>1. m.locate \in Locate /\ m.ref \in Ref /\ m.type = "D"
  BY FeedAssumption DEF DeleteMessage
<1>2. BookCall(m) = [op |-> "delete", ref |-> m.ref]
  BY <1>1 DEF BookCall
<1>3. BookCall(m) \in DeleteCall
  BY <1>1, <1>2 DEF DeleteCall
<1> QED
  BY <1>1, <1>2, <1>3 DEF Call

LEMMA ReplaceMessageType ==
  ASSUME NEW m \in ReplaceMessage
  PROVE  /\ m.locate \in Locate /\ m.ref \in Ref /\ m.new \in Ref /\ m.shares \in Shares
         /\ m.price \in Price /\ m.type = "U"
         /\ BookCall(m) = [op |-> "replace", ref |-> m.ref, new |-> m.new,
                           shares |-> m.shares, price |-> m.price]
         /\ BookCall(m) \in Call
<1>1. /\ m.locate \in Locate /\ m.ref \in Ref /\ m.new \in Ref /\ m.shares \in Shares
      /\ m.price \in Price /\ m.type = "U"
  BY FeedAssumption DEF ReplaceMessage
<1>2. BookCall(m) = [op |-> "replace", ref |-> m.ref, new |-> m.new,
                     shares |-> m.shares, price |-> m.price]
  BY <1>1 DEF BookCall
<1>3. BookCall(m) \in ReplaceCall
  BY <1>1, <1>2 DEF ReplaceCall
<1> QED
  BY <1>1, <1>2, <1>3 DEF Call

LEMMA AddMessageType ==
  ASSUME NEW m \in AddMessage
  PROVE  /\ m.locate \in Locate /\ m.ref \in Ref /\ m.side \in Side /\ m.shares \in Shares
         /\ m.price \in Price /\ m.type = "A" /\ m.stock \in {ListedSymbol[m.locate], NoSymbol}
         /\ BookCall(m) = [op |-> "add", ref |-> m.ref, side |-> m.side,
                           shares |-> m.shares, price |-> m.price]
         /\ BookCall(m) \in Call
<1>1. /\ m.locate \in Locate /\ m.ref \in Ref /\ m.side \in Side /\ m.shares \in Shares
      /\ m.price \in Price /\ m.type = "A" /\ m.stock \in {ListedSymbol[m.locate], NoSymbol}
  BY FeedAssumption DEF AddMessage
<1>2. BookCall(m) = [op |-> "add", ref |-> m.ref, side |-> m.side,
                     shares |-> m.shares, price |-> m.price]
  BY <1>1 DEF BookCall
<1>3. BookCall(m) \in AddCall
  BY <1>1, <1>2 DEF AddCall
<1> QED
  BY <1>1, <1>2, <1>3 DEF Call

LEMMA ExecutionKeeps ==
  ASSUME IInv, NEW m \in ExecutedMessage \cup CancelMessage \cup ExecutedWithPriceMessage,
         OnBook(m, execute_order(Book(m), m.ref, m.shares)), Len(tape') <= 1
  PROVE  IInv'
<1>1. /\ m.locate \in Locate /\ m.ref \in Ref /\ m.shares \in Shares
      /\ BookCall(m).ref = m.ref /\ BookCall(m).shares = m.shares
      /\ BookCall(m).op \in {"execute", "reduce"} /\ BookCall(m) \in Call
  BY ExecutedMessageType
<1>2. PICK b : b = Book(m)
  OBVIOUS
<1>3. PICK c : c = BookCall(m)
  OBVIOUS
<1>4. ASSUME NEW q PROVE Effect(q, c) = Filled(q, m.ref, m.shares)
  BY <1>1, <1>3 DEF Effect
<1>5. Carries(b, execute_order(b, m.ref, m.shares), m)
  BY <1>1, <1>3, <1>4, ExecuteSound DEF Carries
<1>6. Effect(NoOrders, c) = NoOrders
  BY <1>1, <1>3, NothingRests
<1> QED
  BY <1>1, <1>2, <1>3, <1>5, <1>6, OnBookKeeps

LEMMA DeletionKeeps ==
  ASSUME IInv, NEW m \in DeleteMessage, handle_order_delete(m)
  PROVE  IInv'
<1>1. m.locate \in Locate /\ m.ref \in Ref /\ BookCall(m) \in Call
  BY DeleteMessageType
<1>2. PICK b : b = Book(m)
  OBVIOUS
<1>3. PICK c : c = BookCall(m)
  OBVIOUS
<1>4. c.op = "delete" /\ c.ref = m.ref
  BY <1>3, DeleteMessageType
<1>5. ASSUME NEW q PROVE Effect(q, c) = Deleted(q, m.ref)
  BY <1>4 DEF Effect
<1>6. Carries(b, delete_order(b, m.ref), m)
  BY <1>1, <1>3, <1>5, DeleteSound DEF Carries
<1>7. Effect(NoOrders, c) = NoOrders
  BY <1>4, NothingRests
<1>8. OnBook(m, delete_order(Book(m), m.ref)) /\ Len(tape') <= 1
  BY DEF handle_order_delete
<1> QED
  BY <1>1, <1>2, <1>3, <1>6, <1>7, <1>8, OnBookKeeps

LEMMA ReplacementKeeps ==
  ASSUME IInv, NEW m \in ReplaceMessage, handle_order_replace(m)
  PROVE  IInv'
<1>1. /\ m.locate \in Locate /\ m.ref \in Ref /\ m.new \in Ref /\ m.shares \in Shares
      /\ m.price \in Price /\ BookCall(m) \in Call
  BY ReplaceMessageType
<1>2. PICK b : b = Book(m)
  OBVIOUS
<1>3. PICK c : c = BookCall(m)
  OBVIOUS
<1>4. c.op = "replace" /\ c.ref = m.ref /\ c.new = m.new /\ c.shares = m.shares /\ c.price = m.price
  BY <1>3, ReplaceMessageType
<1>5. ASSUME NEW q PROVE Effect(q, c) = Replaced(q, m.ref, m.new, m.shares, m.price)
  BY <1>4 DEF Effect
<1>6. Carries(b, replace_order(b, m.ref, m.new, m.shares, m.price), m)
  BY <1>1, <1>3, <1>5, ReplaceSound DEF Carries
<1>7. Effect(NoOrders, c) = NoOrders
  BY <1>4, NothingRests
<1>8. OnBook(m, replace_order(Book(m), m.ref, m.new, m.shares, m.price)) /\ Len(tape') <= 1
  BY DEF handle_order_replace
<1> QED
  BY <1>1, <1>2, <1>3, <1>6, <1>7, <1>8, OnBookKeeps

\* The entry an add works on: the locate's own, or a new one.
LEMMA EnsuredIs ==
  ASSUME IInv, NEW m \in AddMessage, NEW e, e = Ensured(m.locate, m.stock)
  PROVE  /\ DOMAIN e = {"book", "symbol", "last_bbo"}
         /\ Sound(e.book) /\ queues(e.book) = BookShown(m.locate)
         /\ e.last_bbo = bbo(e.book)
         /\ e.symbol \in {ListedSymbol[m.locate], NoSymbol}
         /\ m.stock # NoSymbol => e.symbol = ListedSymbol[m.locate]
         /\ HasBook(m.locate) /\ m_books_by_locate[m.locate].symbol = ListedSymbol[m.locate]
              => e.symbol = ListedSymbol[m.locate]
         /\ HasBook(m.locate) => e.book = m_books_by_locate[m.locate].book
         /\ ~ HasBook(m.locate) => e.book = EmptyBook
<1>1. m.locate \in Locate /\ m.stock \in {ListedSymbol[m.locate], NoSymbol}
  BY AddMessageType
<1>2. ListedSymbol[m.locate] # NoSymbol
  BY <1>1, DirectoryAssumption
<1>3. CASE HasBook(m.locate)
  <2>1. PICK f : f = m_books_by_locate[m.locate]
    OBVIOUS
  <2>2. EntryOK(m.locate, f)
    BY <1>3, <2>1 DEF HasBook, IInv, EntriesOK
  <2>3. e = [f EXCEPT !.symbol = IF f.symbol = NoSymbol THEN m.stock ELSE f.symbol]
    BY <1>3, <2>1 DEF Ensured, entry
  <2>4. /\ DOMAIN e = {"book", "symbol", "last_bbo"} /\ e.book = f.book /\ e.last_bbo = f.last_bbo
        /\ e.symbol = IF f.symbol = NoSymbol THEN m.stock ELSE f.symbol
    BY <2>2, <2>3 DEF EntryOK
  <2>5. BookShown(m.locate) = queues(f.book)
    BY <1>3, <2>1 DEF BookShown, HasBook
  <2> QED
    BY <1>1, <1>2, <1>3, <2>1, <2>2, <2>4, <2>5 DEF EntryOK
<1>4. CASE ~ HasBook(m.locate)
  <2>1. e = [book |-> EmptyBook, symbol |-> m.stock, last_bbo |-> bbo(EmptyBook)]
    BY <1>4 DEF Ensured, NewEntry
  <2>2. BookShown(m.locate) = NoOrders
    BY <1>4 DEF BookShown, HasBook
  <2> QED
    BY <1>1, <1>2, <1>4, <2>1, <2>2, EmptySound
<1> QED
  BY <1>3, <1>4

\* An add that is tracked, and one that is not.
LEMMA AdditionKeeps ==
  ASSUME IInv, NEW m \in AddMessage, handle_add_order(m)
  PROVE  IInv'
<1>1. /\ m.locate \in Locate /\ m.ref \in Ref /\ m.side \in Side /\ m.shares \in Shares
      /\ m.price \in Price /\ BookCall(m) \in Call
  BY AddMessageType
<1>2. PICK gone \in BOOLEAN : gone = (m_universe # {} /\ m.stock \notin m_universe)
  OBVIOUS
<1>3. PICK tracked \in BOOLEAN : tracked = (HasBook(m.locate) \/ in_universe(m.stock))
  BY DEF HasBook, in_universe
<1>4. Follow(m, gone) /\ UNCHANGED <<settings, m_symbol_by_locate>> /\ tape' = << >>
  BY <1>2 DEF handle_add_order
<1>5. named' = IF tracked /\ m.stock # NoSymbol THEN named \cup {m.locate} ELSE named
  BY <1>3 DEF handle_add_order
<1>6. HistoryOK'
  BY <1>1, <1>4, <1>5, FollowType DEF IInv, HistoryOK
<1>7. SettingsOK'
  BY <1>4 DEF IInv, SettingsOK, settings
<1>8. CASE ~ tracked
  <2>1. quotes' = << >> /\ UNCHANGED <<m_books_by_locate, m_book_count>>
    BY <1>3, <1>8 DEF handle_add_order, Ignored
  <2>2. gone
    BY <1>2, <1>3, <1>8 DEF in_universe
  <2>3. FeedOK'
    BY <1>1, <1>4, <2>1, <2>2, FeedIgnores DEF IInv
  <2>4. EntriesOK' /\ NamesOK' /\ CountOK' /\ SeenOK'
    BY <1>4, <1>5, <1>8, <2>1 DEF IInv, EntriesOK, NamesOK, CountOK, SeenOK
  <2> QED
    BY <1>6, <1>7, <2>3, <2>4 DEF IInv
<1>9. CASE tracked
  <2>1. PICK e : e = Ensured(m.locate, m.stock)
    OBVIOUS
  <2>2. PICK b : b = e.book
    OBVIOUS
  <2>3. PICK c : c = add_order(b, m.ref, m.side, m.shares, m.price)
    OBVIOUS
  <2>4. PICK f : f = [e EXCEPT !.book = c]
    OBVIOUS
  <2>5. /\ DOMAIN e = {"book", "symbol", "last_bbo"}
        /\ Sound(b) /\ queues(b) = BookShown(m.locate)
        /\ e.symbol \in {ListedSymbol[m.locate], NoSymbol}
        /\ m.stock # NoSymbol => e.symbol = ListedSymbol[m.locate]
        /\ HasBook(m.locate) /\ m_books_by_locate[m.locate].symbol = ListedSymbol[m.locate]
              => e.symbol = ListedSymbol[m.locate]
    BY <2>1, <2>2, EnsuredIs
  <2>6. DOMAIN f = {"book", "symbol", "last_bbo"} /\ f.book = c /\ f.symbol = e.symbol
    BY <2>4, <2>5
  <2>7. to_side(m.side) = m.side
    BY <1>1 DEF to_side, Side
  <2>8. emit_bbo_if_changed(m.locate, f) /\ m_book_count' = Counted(m.locate)
    BY <1>3, <1>9, <2>1, <2>2, <2>3, <2>4, <2>7 DEF handle_add_order
  <2>9. EntryBecomes(m.locate, f) /\ Len(quotes') <= 1
    BY <2>6, <2>8, EntryEmitted
  <2>10. Sound(c) /\ queues(c) = Added(queues(b), m.ref, m.side, m.shares, m.price)
    BY <1>1, <2>3, <2>5, AddSound
  <2>11. Effect(queues(b), BookCall(m)) = Added(queues(b), m.ref, m.side, m.shares, m.price)
    <3>1. PICK x : x = BookCall(m)
      OBVIOUS
    <3>2. x.op = "add" /\ x.ref = m.ref /\ x.side = m.side /\ x.shares = m.shares /\ x.price = m.price
      BY <3>1, AddMessageType
    <3> QED
      BY <3>1, <3>2 DEF Effect
  <2>12. EntriesOK'
    BY <2>5, <2>6, <2>9, <2>10, EntriesKept DEF IInv
  <2>13. queues(f.book) = Effect(BookShown(m.locate), BookCall(m))
    BY <2>5, <2>6, <2>10, <2>11
  <2>14. FeedOK'
    BY <1>1, <1>4, <2>9, <2>13, FeedFollows DEF IInv
  <2>15. NamesOK'
    BY <1>4, <1>5, <2>5, <2>6, <2>9 DEF IInv, NamesOK, EntryBecomes, HasBook
  <2>16. CountOK'
    <3>1. DOMAIN m_books_by_locate' = DOMAIN m_books_by_locate \cup {m.locate}
      BY <2>9 DEF EntryBecomes
    <3>2. /\ DOMAIN m_books_by_locate \subseteq Locate
          /\ m_book_count = Cardinality(DOMAIN m_books_by_locate)
          /\ IsFiniteSet(DOMAIN m_books_by_locate)
      BY DirectoryAssumption, FS_Subset DEF IInv, CountOK
    <3>3. Cardinality(DOMAIN m_books_by_locate \cup {m.locate}) =
            IF m.locate \in DOMAIN m_books_by_locate THEN m_book_count ELSE m_book_count + 1
      BY <3>2, FS_AddElement
    <3> QED
      BY <1>1, <2>8, <3>1, <3>2, <3>3 DEF CountOK, Counted, HasBook
  <2>17. SeenOK'
    BY <1>4, <2>9 DEF SeenOK
  <2> QED
    BY <1>6, <1>7, <2>12, <2>14, <2>15, <2>16, <2>17 DEF IInv
<1> QED
  BY <1>8, <1>9

\* A trade callback gets at most one trade of a message.
LEMMA TapeLength ==
  ASSUME NEW trade PROVE Len(Printed(trade)) <= 1
BY DEF Printed

\* A step that leaves the books alone.
LEMMA OffBookKeeps ==
  ASSUME IInv, UNCHANGED <<m_books_by_locate, m_book_count, history>>, SettingsOK',
         \A l \in Locate : m_symbol_by_locate'[l] \in {ListedSymbol[l], NoSymbol},
         Len(quotes') <= 1, Len(tape') <= 1
  PROVE  IInv'
<1>1. EntriesOK' /\ NamesOK' /\ CountOK'
  BY DEF IInv, EntriesOK, NamesOK, CountOK, history
<1>2. FeedOK' /\ HistoryOK'
  BY DEF IInv, FeedOK, BookShown, HistoryOK, history
<1> QED
  BY <1>1, <1>2 DEF IInv, SeenOK

LEMMA StepKeeps ==
  ASSUME IInv, Next
  PROVE  IInv'
<1>1. ASSUME NEW m \in AddMessage, handle_add_order(m) PROVE IInv'
  BY <1>1, AdditionKeeps
<1>2. ASSUME NEW m \in ExecutedMessage, handle_order_executed(m) PROVE IInv'
  <2>1. ExecutedTrade(m) = << >> \/ \E trade : ExecutedTrade(m) = Printed(trade)
    BY DEF ExecutedTrade
  <2>2. Len(ExecutedTrade(m)) <= 1
    BY <2>1, TapeLength
  <2> QED
    BY <1>2, <2>2, ExecutionKeeps DEF handle_order_executed
<1>3. ASSUME NEW m \in ExecutedWithPriceMessage, handle_order_executed_with_price(m) PROVE IInv'
  <2>1. ExecutedWithPriceTrade(m) = << >> \/ \E trade : ExecutedWithPriceTrade(m) = Printed(trade)
    BY DEF ExecutedWithPriceTrade
  <2>2. Len(ExecutedWithPriceTrade(m)) <= 1
    BY <2>1, TapeLength
  <2> QED
    BY <1>3, <2>2, ExecutionKeeps DEF handle_order_executed_with_price
<1>4. ASSUME NEW m \in CancelMessage, handle_order_cancel(m) PROVE IInv'
  BY <1>4, ExecutionKeeps DEF handle_order_cancel, reduce_order
<1>5. ASSUME NEW m \in DeleteMessage, handle_order_delete(m) PROVE IInv'
  BY <1>5, DeletionKeeps
<1>6. ASSUME NEW m \in ReplaceMessage, handle_order_replace(m) PROVE IInv'
  BY <1>6, ReplacementKeeps
<1>7. \A l \in Locate : m_symbol_by_locate[l] \in {ListedSymbol[l], NoSymbol}
  BY DEF IInv, NamesOK
<1>8. ASSUME NEW m \in TradeMessage, handle_non_cross_trade(m) PROVE IInv'
  <2>1. Len(tape') <= 1
    BY <1>8, TapeLength DEF handle_non_cross_trade
  <2>2. UNCHANGED <<m_books_by_locate, m_book_count, history, settings, m_symbol_by_locate>> /\ quotes' = << >>
    BY <1>8 DEF handle_non_cross_trade, OffBook
  <2>3. SettingsOK'
    BY <2>2 DEF IInv, SettingsOK, settings
  <2> QED
    BY <1>7, <2>1, <2>2, <2>3, OffBookKeeps
<1>9. ASSUME NEW m \in CrossMessage, handle_cross_trade(m) PROVE IInv'
  <2>1. Len(tape') <= 1
    BY <1>9, TapeLength DEF handle_cross_trade
  <2>2. UNCHANGED <<m_books_by_locate, m_book_count, history, settings, m_symbol_by_locate>> /\ quotes' = << >>
    BY <1>9 DEF handle_cross_trade, OffBook
  <2>3. SettingsOK'
    BY <2>2 DEF IInv, SettingsOK, settings
  <2> QED
    BY <1>7, <2>1, <2>2, <2>3, OffBookKeeps
<1>10. ASSUME NEW m \in DirectoryMessage, handle_stock_directory(m) PROVE IInv'
  <2>1. m.locate \in Locate /\ m.stock = ListedSymbol[m.locate]
    BY DEF DirectoryMessage
  <2>2. UNCHANGED <<m_books_by_locate, m_book_count, history, settings>> /\ quotes' = << >> /\ tape' = << >>
    BY <1>10 DEF handle_stock_directory, OffBook
  <2>3. m_symbol_by_locate' = [m_symbol_by_locate EXCEPT ![m.locate] = m.stock]
    BY <1>10 DEF handle_stock_directory
  <2>4. m_symbol_by_locate \in [Locate -> Symbols \cup {NoSymbol}]
    BY DEF IInv, SettingsOK
  <2>5. \A l \in Locate : m_symbol_by_locate'[l] \in {ListedSymbol[l], NoSymbol}
    BY <1>7, <2>1, <2>3, <2>4
  <2>6. m.stock \in Symbols
    BY <2>1 DEF Symbols
  <2>7. m_symbol_by_locate' \in [Locate -> Symbols \cup {NoSymbol}]
    BY <2>3, <2>4, <2>6
  <2>8. SettingsOK'
    BY <2>2, <2>7 DEF IInv, SettingsOK, settings
  <2> QED
    BY <2>2, <2>5, <2>8, OffBookKeeps
<1>11. ASSUME Configured, SettingsOK' PROVE IInv'
  BY <1>7, <1>11, OffBookKeeps DEF Configured, managed
<1>12. ASSUME NEW installed \in BOOLEAN, set_bbo_callback(installed) PROVE IInv'
  BY <1>11, <1>12 DEF set_bbo_callback, IInv, SettingsOK, Configured, managed
<1>13. ASSUME NEW installed \in BOOLEAN, set_trade_callback(installed) PROVE IInv'
  BY <1>11, <1>13 DEF set_trade_callback, IInv, SettingsOK, Configured, managed
<1>14. ASSUME NEW l \in Locate, track_symbol(ListedSymbol[l]) PROVE IInv'
  BY <1>11, <1>14 DEF track_symbol, IInv, SettingsOK, Configured, managed, Symbols
<1> QED
  BY <1>1, <1>2, <1>3, <1>4, <1>5, <1>6, <1>8, <1>9, <1>10, <1>12, <1>13, <1>14 DEF Next, process

\* The invariant behind the theorems below, of every behaviour of the manager.
THEOREM Invariance == Spec => []IInv
<1>1. Init => IInv
  <2> SUFFICES ASSUME Init PROVE IInv
    OBVIOUS
  <2>1. DOMAIN m_books_by_locate = {}
    BY DEF Init
  <2>2. EntriesOK /\ NamesOK
    BY <2>1 DEF Init, EntriesOK, NamesOK
  <2>3. FeedOK
    BY <2>1 DEF Init, FeedOK, BookShown
  <2>4. CountOK
    BY <2>1, FS_EmptySet DEF Init, CountOK
  <2>5. HistoryOK
    BY NoOrdersType DEF Init, HistoryOK
  <2>6. SettingsOK
    BY DEF Init, SettingsOK
  <2>7. SeenOK
    BY DEF Init, SeenOK
  <2> QED
    BY <2>2, <2>3, <2>4, <2>5, <2>6, <2>7 DEF IInv
<1>2. IInv /\ [Next]_vars => IInv'
  <2> SUFFICES ASSUME IInv, [Next]_vars PROVE IInv'
    OBVIOUS
  <2>1. CASE Next
    BY <2>1, StepKeeps
  <2>2. CASE UNCHANGED vars
    <3>1. UNCHANGED <<m_books_by_locate, m_book_count, history, settings, m_symbol_by_locate>>
            /\ UNCHANGED <<quotes, tape>>
      BY <2>2 DEF vars, stateVars, managed, seen
    <3>2. SettingsOK' /\ SeenOK'
      BY <3>1 DEF IInv, SettingsOK, SeenOK, settings
    <3> QED
      BY <3>1, <3>2, OffBookKeeps DEF IInv, NamesOK, SeenOK
  <2> QED
    BY <2>1, <2>2
<1> QED
  BY <1>1, <1>2, PTL DEF Spec

\* BookManager routes the feed soundly, whatever the feed brings for known and unknown
\* orders and locates and whenever the universe and the callbacks are configured: each
\* locate whose adds were all tracked has exactly the book its own messages make, and the
\* lookups by locate and by symbol and the count find exactly these books.
THEOREM Routing == Spec => []RoutingIsSound
<1>1. ASSUME IInv PROVE RoutingIsSound
  <2>1. TypeOK
    <3>1. Cardinality(DOMAIN m_books_by_locate) \in Nat
            /\ Cardinality(DOMAIN m_books_by_locate) <= Cardinality(Locate)
            /\ Cardinality(Locate) \in Nat
      BY <1>1, DirectoryAssumption, FS_Subset, FS_CardinalityType DEF IInv, CountOK
    <3>2. m_book_count \in 0 .. Cardinality(Locate)
      BY <1>1, <3>1 DEF IInv, CountOK
    <3>3. \A l \in DOMAIN m_books_by_locate :
            /\ DOMAIN entry(l) = {"book", "symbol", "last_bbo"}
            /\ entry(l).symbol \in Symbols \cup {NoSymbol}
      BY <1>1 DEF IInv, EntriesOK, EntryOK, CountOK, entry, Symbols
    <3> QED
      BY <1>1, <3>2, <3>3 DEF IInv, TypeOK, CountOK, HistoryOK, SettingsOK, SeenOK, Queues
  <2>2. BooksFollowFeed
    <3> SUFFICES ASSUME NEW l \in Locate \ missed, NEW line \in Line
                 PROVE  OrdersShown(l, line) = feed[l][line]
      BY DEF BooksFollowFeed
    <3>1. feed[l] = BookShown(l)
      BY <1>1 DEF IInv, FeedOK
    <3>2. BookShown(l)[line] = OrdersShown(l, line)
      BY DEF BookShown, OrdersShown, HasBook, entry, queues, NoOrders, Line
    <3> QED
      BY <3>1, <3>2
  <2>3. LookupsAreExact
    <3>1. m_book_count = Cardinality(DOMAIN m_books_by_locate)
      BY <1>1 DEF IInv, CountOK
    <3>2. \A l \in named : /\ l \in DOMAIN m_books_by_locate /\ l \in Locate
                           /\ entry(l).symbol = ListedSymbol[l]
      BY <1>1 DEF IInv, NamesOK, HistoryOK, entry
    <3>3. \A l \in DOMAIN m_books_by_locate :
            l \in Locate /\ entry(l).symbol \in {ListedSymbol[l], NoSymbol}
      BY <1>1 DEF IInv, EntriesOK, EntryOK, CountOK, entry
    <3>4. \A l \in Locate : ListedSymbol[l] # NoSymbol /\ l \in Nat \ {0}
      BY DirectoryAssumption
    <3>5. \A l \in Locate : symbol_for_locate(l) \in {ListedSymbol[l], NoSymbol}
      BY <1>1, <3>3 DEF IInv, NamesOK, symbol_for_locate, HasBook
    <3>6. ASSUME NEW l \in named
          PROVE  symbol_for_locate(l) = ListedSymbol[l] /\ book_for_symbol(ListedSymbol[l]) = l
      <4>1. symbol_for_locate(l) = ListedSymbol[l]
        BY <3>2, <3>4 DEF symbol_for_locate, HasBook
      <4>2. {k \in DOMAIN m_books_by_locate : entry(k).symbol = ListedSymbol[l]} = {l}
        <5>1. ASSUME NEW k \in DOMAIN m_books_by_locate, entry(k).symbol = ListedSymbol[l]
              PROVE  k = l
          <6>1. k \in Locate /\ l \in Locate /\ entry(k).symbol = ListedSymbol[k]
            BY <3>2, <3>3, <3>4, <5>1
          <6> QED
            BY <5>1, <6>1, DirectoryAssumption
        <5> QED
          BY <3>2, <5>1
      <4>3. l <= l
        BY <3>2, <3>4
      <4>4. (CHOOSE k \in {l} : \A j \in {l} : k <= j) = l
        BY <4>3
      <4> QED
        BY <4>1, <4>2, <4>4 DEF book_for_symbol
    <3> QED
      BY <3>1, <3>2, <3>5, <3>6 DEF LookupsAreExact
  <2> QED
    BY <2>1, <2>2, <2>3 DEF RoutingIsSound
<1>2. IInv => RoutingIsSound
  BY <1>1
<1> QED
  BY <1>2, Invariance, PTL

-----------------------------------------------------------------------------

\* What a step tells the BBO callback, and what it should.
Told == {[locate |-> quotes'[i].locate, bbo |-> quotes'[i].bbo] : i \in DOMAIN quotes'}

Changed == {l \in Locate : Quote(l)' # Quote(l)}

ToldChanges ==
  Told = IF m_bbo_callback THEN {[locate |-> l, bbo |-> Quote(l)'] : l \in Changed} ELSE {}

LEMMA NothingTold ==
  ASSUME UNCHANGED m_books_by_locate, quotes' = << >>
  PROVE  ToldChanges
<1>1. \A l \in Locate : Quote(l)' = Quote(l)
  BY DEF Quote, HasBook, entry, NoQuote
<1>2. Changed = {}
  BY <1>1 DEF Changed
<1>3. Told = {}
  BY DEF Told
<1> QED
  BY <1>2, <1>3 DEF ToldChanges

\* emit_bbo_if_changed compares with the BBO it last saw, which is that of the book
\* before the message.
LEMMA ChangeTold ==
  ASSUME NEW l \in Locate, NEW e, DOMAIN e = {"book", "symbol", "last_bbo"},
         e.last_bbo = Quote(l), emit_bbo_if_changed(l, e)
  PROVE  ToldChanges
<1>1. EntryBecomes(l, e)
  BY EntryEmitted
<1>2. PICK q : q = bbo(e.book)
  OBVIOUS
<1>3. Quote(l)' = q
  BY <1>1, <1>2 DEF Quote, HasBook, entry, EntryBecomes
<1>4. \A k \in Locate : k # l => Quote(k)' = Quote(k)
  BY <1>1 DEF Quote, HasBook, entry, EntryBecomes, NoQuote
<1>5. quotes' = IF q # Quote(l) /\ m_bbo_callback THEN <<[locate |-> l, bbo |-> q]>> ELSE << >>
  BY <1>2 DEF emit_bbo_if_changed
<1>6. CASE q # Quote(l) /\ m_bbo_callback
  <2>1. Changed = {l}
    BY <1>3, <1>4, <1>6 DEF Changed
  <2>2. Told = {[locate |-> l, bbo |-> q]}
    <3>1. quotes' = <<[locate |-> l, bbo |-> q]>>
      BY <1>5, <1>6
    <3>2. DOMAIN quotes' = {1} /\ quotes'[1].locate = l /\ quotes'[1].bbo = q
      BY <3>1
    <3> QED
      BY <3>2 DEF Told
  <2> QED
    BY <1>3, <1>6, <2>1, <2>2 DEF ToldChanges
<1>7. CASE ~ (q # Quote(l) /\ m_bbo_callback)
  <2>1. Told = {}
    BY <1>5, <1>7 DEF Told
  <2>2. q = Quote(l) => Changed = {}
    BY <1>3, <1>4 DEF Changed
  <2> QED
    BY <1>7, <2>1, <2>2 DEF ToldChanges
<1> QED
  BY <1>6, <1>7

LEMMA OnBookTells ==
  ASSUME IInv, NEW m, m.locate \in Locate, NEW changed, OnBook(m, changed)
  PROVE  ToldChanges
<1>1. CASE ~ HasBook(m.locate)
  BY <1>1, NothingTold DEF OnBook, Ignored
<1>2. CASE HasBook(m.locate)
  <2>1. PICK f : f = m_books_by_locate[m.locate]
    OBVIOUS
  <2>2. EntryOK(m.locate, f)
    BY <1>2, <2>1 DEF HasBook, IInv, EntriesOK
  <2>3. PICK e : e = [f EXCEPT !.book = changed]
    OBVIOUS
  <2>4. DOMAIN e = {"book", "symbol", "last_bbo"} /\ e.last_bbo = f.last_bbo
    BY <2>2, <2>3 DEF EntryOK
  <2>5. Quote(m.locate) = f.last_bbo
    BY <1>2, <2>1, <2>2 DEF Quote, entry, EntryOK
  <2>6. emit_bbo_if_changed(m.locate, e)
    BY <1>2, <2>1, <2>3 DEF OnBook, entry
  <2> QED
    BY <2>4, <2>5, <2>6, ChangeTold
<1> QED
  BY <1>1, <1>2

LEMMA AdditionTells ==
  ASSUME IInv, NEW m \in AddMessage, handle_add_order(m)
  PROVE  ToldChanges
<1>1. PICK tracked \in BOOLEAN : tracked = (HasBook(m.locate) \/ in_universe(m.stock))
  BY DEF HasBook, in_universe
<1>2. CASE ~ tracked
  BY <1>1, <1>2, NothingTold DEF handle_add_order, Ignored
<1>3. CASE tracked
  <2>1. PICK e : e = Ensured(m.locate, m.stock)
    OBVIOUS
  <2>2. /\ DOMAIN e = {"book", "symbol", "last_bbo"} /\ e.last_bbo = bbo(e.book)
        /\ HasBook(m.locate) => e.book = m_books_by_locate[m.locate].book
        /\ ~ HasBook(m.locate) => e.book = EmptyBook
    BY <2>1, EnsuredIs
  <2>3. PICK c : c = add_order(e.book, m.ref, to_side(m.side), m.shares, m.price)
    OBVIOUS
  <2>4. PICK f : f = [e EXCEPT !.book = c]
    OBVIOUS
  <2>5. DOMAIN f = {"book", "symbol", "last_bbo"} /\ f.last_bbo = e.last_bbo
    BY <2>2, <2>4
  <2>6. Quote(m.locate) = e.last_bbo
    BY <2>2 DEF Quote, NoQuote, entry
  <2>7. emit_bbo_if_changed(m.locate, f)
    BY <1>1, <1>3, <2>1, <2>3, <2>4 DEF handle_add_order
  <2>8. m.locate \in Locate
    BY AddMessageType
  <2> QED
    BY <2>5, <2>6, <2>7, <2>8, ChangeTold
<1> QED
  BY <1>2, <1>3

LEMMA StepTells ==
  ASSUME IInv, Next
  PROVE  ToldChanges
<1>1. ASSUME NEW m \in AddMessage, handle_add_order(m) PROVE ToldChanges
  BY <1>1, AdditionTells
<1>2. ASSUME NEW m \in ExecutedMessage, handle_order_executed(m) PROVE ToldChanges
  BY <1>2, ExecutedMessageType, OnBookTells DEF handle_order_executed
<1>3. ASSUME NEW m \in ExecutedWithPriceMessage, handle_order_executed_with_price(m)
      PROVE  ToldChanges
  BY <1>3, ExecutedMessageType, OnBookTells DEF handle_order_executed_with_price
<1>4. ASSUME NEW m \in CancelMessage, handle_order_cancel(m) PROVE ToldChanges
  BY <1>4, ExecutedMessageType, OnBookTells DEF handle_order_cancel
<1>5. ASSUME NEW m \in DeleteMessage, handle_order_delete(m) PROVE ToldChanges
  BY <1>5, DeleteMessageType, OnBookTells DEF handle_order_delete
<1>6. ASSUME NEW m \in ReplaceMessage, handle_order_replace(m) PROVE ToldChanges
  BY <1>6, ReplaceMessageType, OnBookTells DEF handle_order_replace
<1>7. ASSUME NEW m, OffBook(m) PROVE ToldChanges
  BY <1>7, NothingTold DEF OffBook
<1>8. ASSUME Configured PROVE ToldChanges
  BY <1>8, NothingTold DEF Configured, managed
<1> QED
  BY <1>1, <1>2, <1>3, <1>4, <1>5, <1>6, <1>7, <1>8
     DEF Next, process, handle_non_cross_trade, handle_cross_trade, handle_stock_directory,
         set_bbo_callback, set_trade_callback, track_symbol

\* With a BBO callback installed, a message calls it exactly when it changed the best bid
\* or offer of its book, with the new one, also when the callback was installed late or
\* removed for a while.
THEOREM Quotes == Spec => QuotesAreExact
<1>1. IInv /\ [Next]_vars => [ToldChanges]_vars
  BY StepTells
<1>2. [ToldChanges]_vars =>
        [LET changed == {l \in Locate : Quote(l)' # Quote(l)}
         IN  {[locate |-> quotes'[i].locate, bbo |-> quotes'[i].bbo] : i \in DOMAIN quotes'}
               = IF m_bbo_callback THEN {[locate |-> l, bbo |-> Quote(l)'] : l \in changed}
                                   ELSE {}]_vars
  BY Zenon DEF ToldChanges, Told, Changed
<1> QED
  BY <1>1, <1>2, Invariance, PTL DEF Spec, QuotesAreExact

-----------------------------------------------------------------------------

\* A lookup in a sound book finds an order exactly when it rests, with the side and the
\* price of the line it rests on.
LEMMA LookupFinds ==
  ASSUME NEW b, Sound(b), NEW ref \in Ref
  PROVE  /\ Rests(queues(b), ref) <=> contains(b, ref)
         /\ contains(b, ref) => /\ LineOf(queues(b), ref)[1] = order_side(b, ref)
                                /\ LineOf(queues(b), ref)[2] = order_price(b, ref)
<1>1. PICK W, F : Represents(b, W, F, {})
  BY DEF Sound
<1>2. Rests(queues(b), ref) <=> contains(b, ref)
  BY <1>1, FindsResting DEF contains
<1>3. ASSUME contains(b, ref)
      PROVE  LineOf(queues(b), ref) = <<order_side(b, ref), order_price(b, ref)>>
  <2>1. PICK line \in Line : \E k \in 1 .. Len(W[line]) :
                               RestsAt(b, W, F, ref, b.index[ref], line, k)
    BY <1>1, <1>3, FindsPlace DEF contains
  <2>2. PICK k \in 1 .. Len(W[line]) : W[line][k] = b.index[ref]
    BY <2>1 DEF RestsAt
  <2>3. /\ LineOf(queues(b), ref) = line
        /\ line = <<b.pool[b.index[ref]].side, b.pool[b.index[ref]].price>>
    BY <1>1, <2>2, FindsResting
  <2> QED
    BY <2>3 DEF order_side, order_price
<1> QED
  BY <1>2, <1>3

\* The orders of a locate as the feed left them, and as its book has them.
LEMMA FeedFinds ==
  ASSUME IInv, NEW m, m.locate \in Locate \ missed, m.ref \in Ref,
         NEW q, q = feed[m.locate]
  PROVE  /\ Rests(q, m.ref) <=> HasBook(m.locate) /\ contains(Book(m), m.ref)
         /\ Rests(q, m.ref) => /\ LineOf(q, m.ref)[1] = order_side(Book(m), m.ref)
                               /\ LineOf(q, m.ref)[2] = order_price(Book(m), m.ref)
<1>1. q = BookShown(m.locate)
  BY DEF IInv, FeedOK
<1>2. CASE ~ HasBook(m.locate)
  <2>1. q = NoOrders
    BY <1>1, <1>2 DEF BookShown, HasBook
  <2>2. ~ Rests(NoOrders, m.ref)
    BY DEF Rests, Holds, NoOrders
  <2> QED
    BY <1>2, <2>1, <2>2
<1>3. CASE HasBook(m.locate)
  <2>1. PICK b : b = Book(m)
    OBVIOUS
  <2>2. q = queues(b)
    BY <1>1, <1>3, <2>1 DEF BookShown, HasBook, Book, entry
  <2>3. Sound(b)
    BY <1>3, <2>1 DEF IInv, EntriesOK, EntryOK, HasBook, Book, entry
  <2> QED
    BY <1>3, <2>1, <2>2, <2>3, LookupFinds
<1> QED
  BY <1>2, <1>3

\* What the tape should have after an execution.
TapeTells ==
  (m_trade_callback /\ msg'.type \in {"E", "C"} /\ msg'.locate \notin missed) =>
     IF Rests(feed[msg'.locate], msg'.ref)
     THEN /\ Len(tape') = 1
          /\ tape'[1].side = LineOf(feed[msg'.locate], msg'.ref)[1]
          /\ tape'[1].price = IF msg'.type = "C" THEN msg'.price
                              ELSE LineOf(feed[msg'.locate], msg'.ref)[2]
          /\ tape'[1].shares = msg'.shares
     ELSE msg'.type = "E" => tape' = << >>

\* order_executed reads the order before the book executes it.
LEMMA ExecutionPrints ==
  ASSUME IInv, NEW m \in ExecutedMessage, handle_order_executed(m)
  PROVE  TapeTells
<1> SUFFICES ASSUME m_trade_callback, m.locate \notin missed
             PROVE  IF Rests(feed[m.locate], m.ref)
                    THEN /\ Len(tape') = 1
                         /\ tape'[1].side = LineOf(feed[m.locate], m.ref)[1]
                         /\ tape'[1].price = LineOf(feed[m.locate], m.ref)[2]
                         /\ tape'[1].shares = m.shares
                    ELSE tape' = << >>
  <2>1. msg' = m /\ m.type = "E"
    BY DEF handle_order_executed, OnBook, ExecutedMessage
  <2> QED
    BY <2>1 DEF TapeTells
<1>1. m.locate \in Locate /\ m.ref \in Ref
  BY ExecutedMessageType
<1>2. PICK q : q = feed[m.locate]
  OBVIOUS
<1>3. PICK side : side = order_side(Book(m), m.ref)
  OBVIOUS
<1>4. PICK price : price = order_price(Book(m), m.ref)
  OBVIOUS
<1>5. /\ Rests(q, m.ref) <=> HasBook(m.locate) /\ contains(Book(m), m.ref)
      /\ Rests(q, m.ref) => LineOf(q, m.ref)[1] = side /\ LineOf(q, m.ref)[2] = price
  BY <1>1, <1>2, <1>3, <1>4, FeedFinds
<1>6. tape' = ExecutedTrade(m)
  BY DEF handle_order_executed
<1>7. CASE Rests(q, m.ref)
  <2>1. tape' = Printed(Trade(m, entry(m.locate).symbol, price, side, TRUE, FALSE))
    BY <1>3, <1>4, <1>5, <1>6, <1>7 DEF ExecutedTrade
  <2>2. Len(tape') = 1 /\ tape'[1].side = side /\ tape'[1].price = price /\ tape'[1].shares = m.shares
    BY <2>1 DEF Printed, Trade
  <2> QED
    BY <1>2, <1>5, <1>7, <2>2
<1>8. CASE ~ Rests(q, m.ref)
  <2>1. tape' = << >>
    BY <1>5, <1>6, <1>8 DEF ExecutedTrade
  <2> QED
    BY <1>2, <1>8, <2>1
<1> QED
  BY <1>7, <1>8

LEMMA PricedExecutionPrints ==
  ASSUME IInv, NEW m \in ExecutedWithPriceMessage, handle_order_executed_with_price(m)
  PROVE  TapeTells
<1> SUFFICES ASSUME m_trade_callback, m.locate \notin missed, Rests(feed[m.locate], m.ref)
             PROVE  /\ Len(tape') = 1
                    /\ tape'[1].side = LineOf(feed[m.locate], m.ref)[1]
                    /\ tape'[1].price = m.price
                    /\ tape'[1].shares = m.shares
  <2>1. msg' = m /\ m.type = "C"
    BY DEF handle_order_executed_with_price, OnBook, ExecutedWithPriceMessage
  <2> QED
    BY <2>1 DEF TapeTells
<1>1. m.locate \in Locate /\ m.ref \in Ref
  BY ExecutedMessageType
<1>2. PICK q : q = feed[m.locate]
  OBVIOUS
<1>3. PICK side : side = order_side(Book(m), m.ref)
  OBVIOUS
<1>4. HasBook(m.locate) /\ contains(Book(m), m.ref) /\ LineOf(q, m.ref)[1] = side
  BY <1>1, <1>2, <1>3, FeedFinds
<1>5. tape' = Printed(Trade(m, entry(m.locate).symbol, m.price, side, m.printable, FALSE))
  BY <1>3, <1>4 DEF handle_order_executed_with_price, ExecutedWithPriceTrade
<1>6. Len(tape') = 1 /\ tape'[1].side = side /\ tape'[1].price = m.price /\ tape'[1].shares = m.shares
  BY <1>5 DEF Printed, Trade
<1> QED
  BY <1>2, <1>4, <1>6

LEMMA StepPrints ==
  ASSUME IInv, Next
  PROVE  TapeTells
<1>1. ASSUME NEW m, msg' = m, m.type \notin {"E", "C"} PROVE TapeTells
  BY <1>1 DEF TapeTells
<1>2. ASSUME NEW m \in AddMessage, handle_add_order(m) PROVE TapeTells
  BY <1>1, <1>2 DEF handle_add_order, AddMessage
<1>3. ASSUME NEW m \in CancelMessage, handle_order_cancel(m) PROVE TapeTells
  BY <1>1, <1>3 DEF handle_order_cancel, OnBook, CancelMessage
<1>4. ASSUME NEW m \in DeleteMessage, handle_order_delete(m) PROVE TapeTells
  BY <1>1, <1>4 DEF handle_order_delete, OnBook, DeleteMessage
<1>5. ASSUME NEW m \in ReplaceMessage, handle_order_replace(m) PROVE TapeTells
  BY <1>1, <1>5 DEF handle_order_replace, OnBook, ReplaceMessage
<1>6. ASSUME NEW m \in TradeMessage, handle_non_cross_trade(m) PROVE TapeTells
  BY <1>1, <1>6 DEF handle_non_cross_trade, OffBook, TradeMessage
<1>7. ASSUME NEW m \in CrossMessage, handle_cross_trade(m) PROVE TapeTells
  BY <1>1, <1>7 DEF handle_cross_trade, OffBook, CrossMessage
<1>8. ASSUME NEW m \in DirectoryMessage, handle_stock_directory(m) PROVE TapeTells
  BY <1>1, <1>8 DEF handle_stock_directory, OffBook, DirectoryMessage
<1>9. ASSUME Configured PROVE TapeTells
  BY <1>1, <1>9 DEF Configured, NoMessage
<1> QED
  BY <1>2, <1>3, <1>4, <1>5, <1>6, <1>7, <1>8, <1>9, ExecutionPrints, PricedExecutionPrints
     DEF Next, process, set_bbo_callback, set_trade_callback, track_symbol

\* An execution is on the tape once, with the side and, unless the message brings its own,
\* the price at which the order rested before the execution took it from the book; one
\* of an order that does not rest is there only with a price of its own.
THEOREM Tape == Spec => TapeTellsExecutions
<1>1. IInv /\ [Next]_vars => [TapeTells]_vars
  BY StepPrints
<1>2. [TapeTells]_vars =>
        [(m_trade_callback /\ msg'.type \in {"E", "C"} /\ msg'.locate \notin missed) =>
           LET m    == msg'
               line == LineOf(feed[m.locate], m.ref)
           IN  IF Rests(feed[m.locate], m.ref)
               THEN /\ Len(tape') = 1
                    /\ tape'[1].side = line[1]
                    /\ tape'[1].price = IF m.type = "C" THEN m.price ELSE line[2]
                    /\ tape'[1].shares = m.shares
               ELSE m.type = "E" => tape' = << >>]_vars
  BY Zenon DEF TapeTells
<1> QED
  BY <1>1, <1>2, Invariance, PTL DEF Spec, TapeTellsExecutions
=============================================================================
