----------------------------- MODULE PyMessages -----------------------------
(***************************************************************************)
(* The message classes of the Python extension (python/src/bindings.cpp):  *)
(* which attribute of a class stands for which member of the C++ struct,   *)
(* create_message, the attribute setters, to_bytes, the constructor from a *)
(* body and decode().  Members hold bytes as in module Wire; a Python      *)
(* bytes value may be shorter or longer than the member it is assigned to. *)
(***************************************************************************)
EXTENDS Wire, FiniteSets, FiniteSetsExt

CONSTANT MessageType  \* the classes under test

\* Attributes by class, where they are called as the member they expose ...
AdminAttributes ==
  [S |-> {"event_code"},
   R |-> {"stock", "market_category", "financial_status_indicator", "round_lot_size",
          "round_lots_only", "issue_classification", "issue_sub_type", "authenticity",
          "short_sale_threshold_indicator", "ipo_flag", "luld_ref", "etp_flag",
          "etp_leverage_factor", "inverse_indicator"},
   H |-> {"stock", "trading_state", "reserved", "reason"},
   Y |-> {"stock", "reg_sho_action"},
   L |-> {"mpid", "stock", "primary_market_maker", "market_maker_mode", "market_participant_state"}]
MarketAttributes ==
  [V |-> {}, W |-> {"breached_level"}, K |-> {"stock", "ipo_price"},
   J |-> {"stock", "auction_collar_reference_price", "upper_auction_collar_price",
          "lower_auction_collar_price"},
   h |-> {"stock", "market_code", "operational_halt_action"}]
OrderAttributes ==
  [A |-> {"order_reference_number", "buy_sell_indicator", "shares", "stock", "price"},
   F |-> {"order_reference_number", "buy_sell_indicator", "shares", "stock", "price", "attribution"},
   E |-> {"order_reference_number", "executed_shares", "match_number"},
   C |-> {"order_reference_number", "executed_shares", "match_number", "printable", "execution_price"},
   X |-> {"order_reference_number", "cancelled_shares"},
   D |-> {"order_reference_number"},
   U |-> {"new_order_reference_number", "shares", "price"}]
TradeAttributes ==
  [P |-> {"order_reference_number", "buy_sell_indicator", "shares", "stock", "price", "match_number"},
   Q |-> {"shares", "stock", "cross_price", "match_number", "cross_type"},
   B |-> {"match_number"},
   I |-> {"paired_shares", "imbalance_shares", "imbalance_direction", "stock", "far_price",
          "near_price", "current_reference_price", "cross_type"},
   N |-> {"stock", "interest_flag"},
   O |-> {"stock", "open_eligibility_status", "minimum_allowable_price", "maximum_allowable_price",
          "near_execution_price", "near_execution_time", "lower_price_range_collar",
          "upper_price_range_collar"}]
Attributes == AdminAttributes @@ MarketAttributes @@ OrderAttributes @@ TradeAttributes
\* ... and where the upstream package calls them otherwise.
Renamed(t) ==
  CASE t = "V" -> [level1_price |-> "level1", level2_price |-> "level2", level3_price |-> "level3"]
    [] t = "K" -> [ipo_release_time |-> "ipo_quotation_release_time",
                   ipo_release_qualifier |-> "ipo_quotation_release_qualifier"]
    [] t = "J" -> [auction_collar_extention |-> "auction_collar_extension"]
    [] t = "U" -> [order_reference_number |-> "original_order_reference_number"]
    [] t = "I" -> [variation_indicator |-> "price_variation_indicator"]
    [] OTHER   -> << >>

\* bind_common's attributes; message_type is read-only.
CommonAttributes == {"stock_locate", "tracking_number", "timestamp"}
AttributesOf(t) == CommonAttributes \cup Attributes[t] \cup DOMAIN Renamed(t)
Member(t, a) == IF a \in DOMAIN Renamed(t) THEN Renamed(t)[a] ELSE a
Kind(t, a) == (CHOOSE f \in FieldsOf(t) : f[1] = Member(t, a))[2]

-----------------------------------------------------------------------------
VARIABLES obj,       \* the message object, or NoObject
          assigned,  \* history: attribute -> the value Python last assigned
          foreign,   \* attributes that hold bytes that are not ASCII
          sets,      \* attributes set after construction
          body,      \* what to_bytes returned, or << >>
          copy,      \* the object built from it, or NoObject
          decoded    \* what decode() did: "nothing", "dataclass" or "UnicodeDecodeError"
vars == <<obj, assigned, foreign, sets, body, copy, decoded>>
NoObject == << >>

Init == /\ obj = NoObject /\ assigned = << >> /\ foreign = {} /\ sets = 0
        /\ body = << >> /\ copy = NoObject /\ decoded = "nothing"

\* The values Python may assign: an integer of the member's width, or some bytes.
Text(tag, a, n) == [i \in 1 .. n |-> <<tag, a, i>>]
Value(tag, t, a, extra) ==
  LET w == WidthOf(t, Member(t, a))
  IN  Text(tag, a, IF Kind(t, a) = "int" THEN w
                   ELSE CASE extra = "empty" -> 0 [] extra = "exact" -> w [] extra = "long" -> w + 1)
Lengths == {"empty", "exact", "long"}

\* Mutant: what a shorter value does not reach is kept from before.
Stored_NoFill(t, a, v, old) ==
  IF Kind(t, a) = "int" THEN v
  ELSE [i \in DOMAIN old |-> IF i <= Len(v) THEN v[i] ELSE old[i]]
\* def_byte, def_byte_array: padded with NUL, cut to the member's width.
Stored(t, a, v, old) ==
  IF Kind(t, a) = "int" THEN v
  ELSE [i \in DOMAIN old |-> IF i <= Len(v) THEN v[i] ELSE Zero]
Assign(o, t, a, v) == [o EXCEPT ![Member(t, a)] = Stored(t, a, v, o[Member(t, a)])]

\* MsgType {}: every member but the type is zero.
Default(t) == [name \in {f[1] : f \in FieldsOf(t)} |->
                 IF name = "message_type" THEN << t >> ELSE [i \in 1 .. WidthOf(t, name) |-> Zero]]

\* The timestamp keyword of create_message is masked to 48 bits.
Keyword(a, v) == IF a = "timestamp" THEN SubSeq(v, 1, 6) \o << Zero, Zero >> ELSE v

\* The keywords name none or all of the attributes, their bytes short, exact or long.
create_message(t, names, extra) ==
  LET keywords == [a \in names |-> Keyword(a, Value("new", t, a, extra))]
  IN  /\ obj = NoObject
      /\ obj' = FoldSet(LAMBDA a, o : Assign(o, t, a, keywords[a]), Default(t), names)
      /\ assigned' = keywords
      /\ UNCHANGED <<foreign, sets, body, copy, decoded>>

SetAttribute(a, v, plain) ==
  LET t == TypeOf(obj)
  IN  /\ sets = 0 /\ body = << >> /\ sets' = 1
      /\ obj' = Assign(obj, t, a, v)
      /\ assigned' = (a :> v) @@ assigned
      /\ foreign' = IF plain \/ v = << >> THEN foreign \ {a} ELSE foreign \cup {a}
      /\ UNCHANGED <<body, copy, decoded>>

\* split_timestamp and set_timestamp: two 32-bit halves.
split_timestamp(o) == << SubSeq(o["timestamp"], 5, 8), SubSeq(o["timestamp"], 1, 4) >>
set_timestamp(ts1, ts2) == ts2 \o ts1
SplitAndSet == /\ sets = 0 /\ body = << >> /\ sets' = 1
               /\ obj' = [obj EXCEPT !["timestamp"] =
                            set_timestamp(split_timestamp(obj)[1], split_timestamp(obj)[2])]
               /\ UNCHANGED <<assigned, foreign, body, copy, decoded>>

to_bytes == /\ body = << >> /\ body' = encode_message(obj)
            /\ UNCHANGED <<obj, assigned, foreign, sets, copy, decoded>>

\* MsgType(body): unpack_body, then std::get of the class's own alternative.
FromBody == /\ body # << >> /\ copy = NoObject
            /\ copy' = decode_typed(body[1], body, 0)
            /\ UNCHANGED <<obj, assigned, foreign, sets, body, decoded>>

\* Every bytes attribute is decoded as ASCII; a byte that is none raises.
message_decode == /\ decoded = "nothing"
                  /\ decoded' = IF foreign = {} THEN "dataclass" ELSE "UnicodeDecodeError"
                  /\ UNCHANGED <<obj, assigned, foreign, sets, body, copy>>

Next ==
  \/ obj = NoObject /\ \E t \in MessageType, extra \in Lengths :
       create_message(t, {}, extra) \/ create_message(t, AttributesOf(t), extra)
  \/ /\ obj # NoObject
     /\ \/ sets = 0 /\ \E a \in AttributesOf(TypeOf(obj)), extra \in Lengths :
             \/ SetAttribute(a, Value("set", TypeOf(obj), a, extra), TRUE)
             \/ /\ Kind(TypeOf(obj), a) = "chars"
                /\ SetAttribute(a, Value("set", TypeOf(obj), a, extra), FALSE)
        \/ SplitAndSet \/ to_bytes \/ FromBody \/ message_decode
Spec == Init /\ [][Next]_vars

-----------------------------------------------------------------------------
\* What an attribute must read back as: bytes in their member's width, NUL after them.
Expected(t, a) ==
  LET w == WidthOf(t, Member(t, a))
      v == IF a \in DOMAIN assigned THEN assigned[a] ELSE << >>
  IN  [i \in 1 .. w |-> IF i <= Len(v) THEN v[i] ELSE Zero]

\* Type invariant: the attributes of a class are the members of its struct, each once.
TypeOK ==
  obj # NoObject =>
    LET t == TypeOf(obj)
    IN  /\ {Member(t, a) : a \in AttributesOf(t)} = DOMAIN obj \ {"message_type"}
        /\ Cardinality(AttributesOf(t)) = Len(Struct(t)) - 1
        /\ DOMAIN assigned \subseteq AttributesOf(t)

\* Python reads back what it wrote: every attribute of a message built with keywords, then
\* changed, serialised and parsed again has the value assigned to it last and no other
\* attribute's bytes; one never assigned is zero; the timestamp keeps its 48 bits.
AttributesSurviveTheWire ==
  copy # NoObject =>
    LET t == TypeOf(obj)
    IN  \A a \in AttributesOf(t) :
          copy[Member(t, a)] = IF a = "timestamp" THEN SubSeq(Expected(t, a), 1, 6) \o << Zero, Zero >>
                               ELSE Expected(t, a)

\* create_message hands out an object that its own bytes describe: only an attribute set
\* to more than 48 bits afterwards can be lost on the wire.
CreatedIsWhatIsSent == (copy # NoObject /\ sets = 0) => copy = obj
=============================================================================
