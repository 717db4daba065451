---------------------------- MODULE SoupBinBook ----------------------------
(***************************************************************************)
(* A BookManager behind a SoupBinDecoder, with trade and BBO callbacks     *)
(* that may throw.  A runtime_error is swallowed by the decoder and the    *)
(* message counts as handled; any other exception leaves feed() before it  *)
(* drops the packets it has consumed, so the next feed() hands all of them *)
(* to the book a second time.                                              *)
(*                                                                         *)
(* One symbol, one order message per packet, whole packets (SoupBinTcp has *)
(* the reassembly).  The server sends what an exchange can: fresh          *)
(* reference numbers, no more shares taken than rest.                      *)
(***************************************************************************)
EXTENDS L3BookOps

CONSTANTS Sendable,     \* the calls of BookCalls the session's messages may make
          MaxMessages,  \* bound on the messages of the session
          MaxThrows     \* bound on the callbacks that throw

VARIABLES book, last_bbo,    \* the BookEntry
          m_buffer, offset,  \* the decoder's packets, and how many of them feed() is past
          pc,                \* "idle", or "loop" inside feed()
          ideal, used, sent, \* the server: its book, its reference numbers, its messages
          throws,            \* callbacks that have thrown
          damaged,           \* history: orders a repeated or lost quantity may have reached
          lost               \* history: a swallowed exception has lost an execution
vars == <<book, last_bbo, m_buffer, offset, pc, ideal, used, sent, throws, damaged, lost>>

Init == /\ book = EmptyBook /\ last_bbo = bbo(EmptyBook)
        /\ m_buffer = << >> /\ offset = 0 /\ pc = "idle"
        /\ ideal = EmptyBook /\ used = {} /\ sent = 0
        /\ throws = 0 /\ damaged = {} /\ lost = FALSE

\* What each handler calls on the book.
Apply(b, c) == CASE c.op = "add"     -> add_order(b, c.ref, c.side, c.shares, c.price)
                 [] c.op = "execute" -> execute_order(b, c.ref, c.shares)
                 [] c.op = "reduce"  -> reduce_order(b, c.ref, c.shares)
                 [] c.op = "delete"  -> delete_order(b, c.ref)
                 [] c.op = "replace" -> replace_order(b, c.ref, c.new, c.shares, c.price)

RestingShares(b, r) == IF contains(b, r) THEN b.pool[b.index[r]].shares ELSE 0

\* The server's next message.
CanSend(c) ==
  CASE c.op = "add"     -> c.ref \notin used /\ c.shares > 0
    [] c.op = "delete"  -> contains(ideal, c.ref)
    [] c.op = "replace" -> contains(ideal, c.ref) /\ c.new \notin used /\ c.shares > 0
    [] OTHER            -> c.shares \in 1 .. RestingShares(ideal, c.ref)
Send(c) == /\ pc = "idle" /\ sent < MaxMessages /\ CanSend(c)
           /\ ideal' = Apply(ideal, c) /\ sent' = sent + 1
           /\ used' = used \cup {IF c.op = "replace" THEN c.new ELSE c.ref}
           /\ m_buffer' = Append(m_buffer, c)
           /\ UNCHANGED <<book, last_bbo, offset, pc, throws, damaged, lost>>

\* feed(): from the first packet of the buffer on.
feed == /\ pc = "idle" /\ m_buffer # << >>
        /\ pc' = "loop" /\ offset' = 0
        /\ UNCHANGED <<book, last_bbo, m_buffer, ideal, used, sent, throws, damaged, lost>>

Return == /\ pc = "loop" /\ offset = Len(m_buffer)
          /\ m_buffer' = << >> /\ offset' = 0 /\ pc' = "idle"
          /\ UNCHANGED <<book, last_bbo, ideal, used, sent, throws, damaged, lost>>

-----------------------------------------------------------------------------
Quantities(messages) == {messages[i].ref : i \in {j \in DOMAIN messages : messages[j].op \in {"execute", "reduce"}}}
\* A replacement of a damaged order may find it gone.
Heirs(c) == IF c.op = "replace" /\ c.ref \in damaged THEN {c.new} ELSE {}

Message == m_buffer[offset + 1]
InLoop == pc = "loop" /\ offset < Len(m_buffer) /\ UNCHANGED <<m_buffer, ideal, used, sent>>
Throws == throws < MaxThrows /\ throws' = throws + 1

\* An exception leaves feed(); everything up to here comes again.
Escape(repeated) == /\ pc' = "idle" /\ offset' = 0
                    /\ damaged' = damaged \cup Quantities(repeated)

\* Mutant: the book executes before the trade is reported.
TradeCallbackThrows_Executed ==
  /\ InLoop /\ Throws
  /\ Message.op = "execute" /\ contains(book, Message.ref)
  /\ book' = Apply(book, Message) /\ UNCHANGED <<last_bbo, lost>>
  /\ Escape(SubSeq(m_buffer, 1, offset))
\* The trade callback is called before the book executes; it throws, and the order keeps
\* its shares: for good after a runtime_error, until the packet is repeated otherwise.
TradeCallbackThrows ==
  /\ InLoop /\ Throws
  /\ Message.op = "execute" /\ contains(book, Message.ref)
  /\ UNCHANGED <<book, last_bbo>>
  /\ \/ /\ offset' = offset + 1 /\ damaged' = damaged \cup {Message.ref}
        /\ lost' = TRUE /\ UNCHANGED pc
     \/ Escape(SubSeq(m_buffer, 1, offset)) /\ UNCHANGED lost

\* The book changes, the new BBO is remembered, and its callback, if it changed, throws.
BboCallbackThrows ==
  LET after == Apply(book, Message)
  IN  /\ InLoop /\ Throws
      /\ bbo(after) # last_bbo
      /\ book' = after /\ last_bbo' = bbo(after) /\ UNCHANGED lost
      /\ \/ offset' = offset + 1 /\ damaged' = damaged \cup Heirs(Message) /\ UNCHANGED pc
         \/ Escape(SubSeq(m_buffer, 1, offset + 1))

Process ==
  /\ InLoop
  /\ book' = Apply(book, Message) /\ last_bbo' = bbo(book')
  /\ offset' = offset + 1 /\ damaged' = damaged \cup Heirs(Message)
  /\ UNCHANGED <<pc, throws, lost>>

Next == \/ \E c \in Sendable : Send(c)
        \/ feed \/ Return \/ Process \/ TradeCallbackThrows \/ BboCallbackThrows
Spec == Init /\ [][Next]_vars

-----------------------------------------------------------------------------
Quiet == pc = "idle" /\ m_buffer = << >>

\* Type invariant.
TypeOK == /\ offset \in 0 .. Len(m_buffer) /\ damaged \subseteq used
          /\ pc = "idle" => offset = 0

\* Once feed() has returned, an order whose quantities were neither repeated nor lost
\* rests in the book with the shares the server says, whatever was handed over twice
\* around it: adds, deletions and replacements do no harm the second time.
DamageIsConfined ==
  Quiet => \A r \in Ref \ damaged : RestingShares(book, r) = RestingShares(ideal, r)

\* What is handed over twice only takes: as long as no execution was lost, the book never
\* shows more shares than the server has.
NeverMoreThanSent ==
  (Quiet /\ ~ lost) =>
    LET shown(b) == FoldFunction(LAMBDA level, sum : level.total_shares + sum, 0, b.levels["B"])
    IN  shown(book) <= shown(ideal)
=============================================================================
