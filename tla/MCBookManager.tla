--------------------------- MODULE MCBookManager ---------------------------
(***************************************************************************)
(* A small instance of BookManager for TLC.  The feed of all messages is   *)
(* out of reach; a behaviour takes its messages from one of two parts of   *)
(* it.                                                                     *)
(***************************************************************************)
EXTENDS BookManager

MCLocate       == {1, 2}
MCListedSymbol == <<"AAPL", "MSFT">>
MCRef          == {1, 2}
MCFeedRef      == <<{1, 2}, {1}>>
MCPrice        == {1, 2}

VARIABLE part

Field(m, name, values) == name \in DOMAIN m => m[name] \in values

\* "routing": two securities that use the same reference number, for the books and the
\* universe.  "events": one security with two orders and two prices, so that the best
\* price changes hands, for quotes and trades.
InPart(m) ==
  CASE part = "routing" -> /\ Field(m, "ref", {1}) /\ Field(m, "new", {1})
                           /\ Field(m, "price", {1}) /\ Field(m, "shares", {0, 1})
    [] part = "events"  -> Field(m, "locate", {1})

\* In "events" only the one symbol can be tracked.
MCNext ==
  /\ Next
  /\ InPart(msg')
  /\ part = "events" => m_universe' \subseteq {ListedSymbol[1]}
  /\ UNCHANGED part

MCInit == Init /\ part \in {"routing", "events"}
MCSpec == MCInit /\ [][MCNext]_<<vars, part>>
MCView == <<part, stateVars>>
=============================================================================
