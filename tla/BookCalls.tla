----------------------------- MODULE BookCalls -----------------------------
(***************************************************************************)
(* The calls an order book takes, with the arguments a feed can carry:     *)
(* any reference number, known or not, and any share quantity.             *)
(***************************************************************************)
EXTENDS Integers

CONSTANTS
  Ref,        \* order reference numbers that can appear on the feed
  Price,      \* raw limit prices
  MaxShares   \* largest share quantity a message carries (2^32 - 1 in the code)

ASSUME RefAssumption    == Ref \subseteq Nat
ASSUME PriceAssumption  == Price \subseteq Nat
ASSUME SharesAssumption == MaxShares \in Nat

Side   == {"B", "S"}
Shares == 0 .. MaxShares

AddCall ==
  [op : {"add"}, ref : Ref, side : Side, shares : Shares, price : Price]

ExecuteCall == [op : {"execute"}, ref : Ref, shares : Shares]
ReduceCall  == [op : {"reduce"}, ref : Ref, shares : Shares]
DeleteCall  == [op : {"delete"}, ref : Ref]

ReplaceCall ==
  [op : {"replace"}, ref : Ref, new : Ref, shares : Shares, price : Price]

NoCall == [op |-> "none"]
Call   == AddCall \cup ExecuteCall \cup ReduceCall \cup DeleteCall \cup ReplaceCall
=============================================================================
