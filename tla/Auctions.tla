------------------------------ MODULE Auctions ------------------------------
(***************************************************************************)
(* itch::analytics::AuctionTracker: NOII messages update the imbalance of  *)
(* their locate code, and a cross trade is reported with the imbalance     *)
(* stored for its own.  The stored imbalance is never dropped, and its     *)
(* cross type is not compared with that of the cross.                      *)
(***************************************************************************)
EXTENDS Integers, Sequences, FiniteSets, FiniteSetsExt

CONSTANTS Locate,       \* stock locate codes
          CrossType,    \* cross type codes
          Quantity,     \* share quantities
          MaxMessages   \* bound on the messages of a behaviour

VARIABLES m_latest_imbalance,  \* locate -> the latest ImbalanceInfo, or NoInfo
          m_callback,          \* whether an auction callback is installed
          feed,                \* history: the messages, and whether anyone listened
          auctions             \* history: what the callback was given
vars == <<m_latest_imbalance, m_callback, feed, auctions>>

NOIIMessage == [message_type : {"I"}, stock_locate : Locate, cross_type : CrossType,
                paired_shares : Quantity, imbalance_shares : Quantity]
CrossTradeMessage == [message_type : {"Q"}, stock_locate : Locate, cross_type : CrossType,
                      shares : Quantity]
OtherMessage == [message_type : {"B"}, stock_locate : Locate]

NoInfo == [paired_shares |-> 0, imbalance_shares |-> 0, had_imbalance |-> FALSE]
make_imbalance_info(noii) == [paired_shares |-> noii.paired_shares,
                              imbalance_shares |-> noii.imbalance_shares,
                              had_imbalance |-> TRUE]
Auction(cross, info) == [stock_locate |-> cross.stock_locate, cross_type |-> cross.cross_type,
                         cross_shares |-> cross.shares, imbalance |-> info]

Init == /\ m_latest_imbalance = [l \in Locate |-> NoInfo]
        /\ m_callback = FALSE
        /\ feed = << >> /\ auctions = << >>

set_auction_callback == /\ m_callback' = TRUE
                        /\ UNCHANGED <<m_latest_imbalance, feed, auctions>>

Receives(message) == /\ Len(feed) < MaxMessages
                     /\ feed' = Append(feed, [message |-> message, heard |-> m_callback])
                     /\ UNCHANGED m_callback

\* Mutant: the first imbalance of a locate is kept (emplace for operator[]).
process_noii_Emplace(noii) ==
  /\ m_latest_imbalance' = [m_latest_imbalance EXCEPT ![noii.stock_locate] =
                              IF @ = NoInfo THEN make_imbalance_info(noii) ELSE @]
  /\ UNCHANGED auctions
process_noii(noii) ==
  /\ m_latest_imbalance' = [m_latest_imbalance EXCEPT ![noii.stock_locate] =
                              make_imbalance_info(noii)]
  /\ UNCHANGED auctions

process_cross(cross) ==
  /\ auctions' = IF m_callback
                 THEN Append(auctions, Auction(cross, m_latest_imbalance[cross.stock_locate]))
                 ELSE auctions
  /\ UNCHANGED m_latest_imbalance

process_other(message) == UNCHANGED <<m_latest_imbalance, auctions>>

Next == \/ set_auction_callback
        \/ \E m \in NOIIMessage : Receives(m) /\ process_noii(m)
        \/ \E m \in CrossTradeMessage : Receives(m) /\ process_cross(m)
        \/ \E m \in OtherMessage : Receives(m) /\ process_other(m)
Spec == Init /\ [][Next]_vars

-----------------------------------------------------------------------------
\* The imbalance messages of a locate before the i-th message.
Leading(i) == {j \in 1 .. i - 1 :
                 /\ feed[j].message.message_type = "I"
                 /\ feed[j].message.stock_locate = feed[i].message.stock_locate}
Heard(i) == feed[i].message.message_type = "Q" /\ feed[i].heard
Told(i)  == Cardinality({j \in 1 .. i : Heard(j)})

\* Type invariant: an imbalance is stored exactly for the locates that had one.
TypeOK == \A l \in Locate : m_latest_imbalance[l].had_imbalance <=>
            \E j \in DOMAIN feed : /\ feed[j].message.message_type = "I"
                                   /\ feed[j].message.stock_locate = l

\* Every cross heard is one auction, in feed order, that pairs it with the last imbalance
\* its own security published before it, whatever other securities published in between.
AuctionsFollowFeed ==
  /\ Len(auctions) = Told(Len(feed))
  /\ \A i \in DOMAIN feed : Heard(i) =>
       auctions[Told(i)] = Auction(feed[i].message,
         IF Leading(i) = {} THEN NoInfo
         ELSE make_imbalance_info(feed[Max(Leading(i))].message))
=============================================================================
