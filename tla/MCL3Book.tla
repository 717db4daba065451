----------------------------- MODULE MCL3Book -----------------------------
(***************************************************************************)
(* Small instances for TLC of the order-level book and of what is built    *)
(* on it.  `part' says what a behaviour is about: the book ("ladders"), or *)
(* a book behind a SoupBinTCP decoder, which has variables of its own      *)
(* ("session").                                                            *)
(***************************************************************************)
EXTENDS L3Book

\* Three orders are enough for a FIFO with a first, a middle and a last order, for
\* a free list of several nodes and for a level that empties next to one that does
\* not.
MCRef == 1 .. 3

\* Two prices: a level can be inserted before and after another.
MCPrice == {1, 2}

VARIABLES
  part,
  book_behind, last_bbo, m_buffer, offset, pc, ideal, used, sent, throws, damaged, lost

sessionVars == <<book_behind, last_bbo, m_buffer, offset, pc, ideal, used, sent, throws,
                 damaged, lost>>

AtOnePrice(c) == c.op \in {"add", "replace"} => c.price = 1

\* Four messages, so that a packet that is repeated has others before and after it, and
\* two exceptions, so that a repetition is interrupted in its turn.  Two orders on one
\* side: one that is damaged and one that should not be.
Session ==
  INSTANCE SoupBinBook WITH
    book <- book_behind, MaxMessages <- 4, MaxThrows <- 2,
    Sendable <- {c \in Call : /\ AtOnePrice(c) /\ c.ref \in {1, 2}
                              /\ c.op = "add" => c.side = "B"
                              /\ c.op = "replace" => c.new \in {1, 2}}

\* Orders without shares come from replaces alone, and a reduce does what an execute does.
InLadders(c) ==
  /\ c.op = "add" => c.shares # 0
  /\ c.op = "reduce" => c.shares = 1
  /\ c.op = "replace" => c.shares = c.price - 1

MCInit ==
  /\ part \in {"ladders", "session"}
  /\ Init
  /\ Session!Init

MCNext ==
  \/ part = "ladders" /\ Next /\ InLadders(call') /\ UNCHANGED <<part, sessionVars>>
  \/ part = "session" /\ Session!Next /\ UNCHANGED <<part, vars>>

MCSpec == MCInit /\ [][MCNext]_<<part, vars, sessionVars>>

\* Without the call: what was called last does not matter for what comes next.
MCView == <<part, bookVars, sessionVars>>

\* SoupBinDecoder::feed and a book whose callbacks throw: the decoder hands packets over
\* again after an exception, and an order whose quantities were neither repeated nor lost
\* that way rests with the shares the server says; no order ever has more.  Between two
\* calls of feed() no packet is half handled.
DamageIsConfined ==
  Session!TypeOK /\ Session!DamageIsConfined /\ Session!NeverMoreThanSent
=============================================================================
