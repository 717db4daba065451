-------------------------------- MODULE Wire --------------------------------
(***************************************************************************)
(* The wire layout of the ITCH 5.0 messages, told five times by the code:  *)
(* the packed structs (messages.hpp), the sizes derived from them          *)
(* (detail/wire.hpp), the parser's unpack_message (parser.cpp), the        *)
(* encoder's write_body (encoder.cpp) and the offsets of the overlay views *)
(* (overlay.hpp).  Each telling is a table of its own here.                *)
(*                                                                         *)
(* A field is <<name, kind, width>>.  A value is the field's bytes as a    *)
(* little-endian host keeps them, least significant first; a byte is the   *)
(* symbol <<name, i>>, or Zero, so a byte that ends up in another place or *)
(* another field is seen whatever the values are.                          *)
(***************************************************************************)
EXTENDS Integers, Sequences, SequencesExt

Char(f)     == <<f, "chars", 1>>
Chars(f, w) == <<f, "chars", w>>
U16(f) == <<f, "int", 2>>
U32(f) == <<f, "int", 4>>
U64(f) == <<f, "int", 8>>

Width(fields) == FoldLeft(LAMBDA n, f : n + f[3], 0, fields)
Zero == <<"zero", 0>>
Garbage == <<"uninitialized", 0>>

-----------------------------------------------------------------------------
(* The structs, in the order of their members. *)
Common == << Char("message_type"), U16("stock_locate"), U16("tracking_number"), U64("timestamp") >>
STOCK_LEN == 8
Stock == Chars("stock", STOCK_LEN)

AdminStructs ==
  [S |-> << Char("event_code") >>,
   R |-> << Stock, Char("market_category"), Char("financial_status_indicator"),
            U32("round_lot_size"), Char("round_lots_only"), Char("issue_classification"),
            Chars("issue_sub_type", 2), Char("authenticity"), Char("short_sale_threshold_indicator"),
            Char("ipo_flag"), Char("luld_ref"), Char("etp_flag"), U32("etp_leverage_factor"),
            Char("inverse_indicator") >>,
   H |-> << Stock, Char("trading_state"), Char("reserved"), Chars("reason", 4) >>,
   Y |-> << Stock, Char("reg_sho_action") >>,
   L |-> << Chars("mpid", 4), Stock, Char("primary_market_maker"), Char("market_maker_mode"),
            Char("market_participant_state") >>]

MarketStructs ==
  [V |-> << U64("level1"), U64("level2"), U64("level3") >>,
   W |-> << Char("breached_level") >>,
   K |-> << Stock, U32("ipo_quotation_release_time"), Char("ipo_quotation_release_qualifier"),
            U32("ipo_price") >>,
   J |-> << Stock, U32("auction_collar_reference_price"), U32("upper_auction_collar_price"),
            U32("lower_auction_collar_price"), U32("auction_collar_extension") >>,
   h |-> << Stock, Char("market_code"), Char("operational_halt_action") >>]

OrderStructs ==
  [A |-> << U64("order_reference_number"), Char("buy_sell_indicator"), U32("shares"), Stock,
            U32("price") >>,
   F |-> << U64("order_reference_number"), Char("buy_sell_indicator"), U32("shares"), Stock,
            U32("price"), Chars("attribution", 4) >>,
   E |-> << U64("order_reference_number"), U32("executed_shares"), U64("match_number") >>,
   C |-> << U64("order_reference_number"), U32("executed_shares"), U64("match_number"),
            Char("printable"), U32("execution_price") >>,
   X |-> << U64("order_reference_number"), U32("cancelled_shares") >>,
   D |-> << U64("order_reference_number") >>,
   U |-> << U64("original_order_reference_number"), U64("new_order_reference_number"),
            U32("shares"), U32("price") >>]

TradeStructs ==
  [P |-> << U64("order_reference_number"), Char("buy_sell_indicator"), U32("shares"), Stock,
            U32("price"), U64("match_number") >>,
   Q |-> << U64("shares"), Stock, U32("cross_price"), U64("match_number"), Char("cross_type") >>,
   B |-> << U64("match_number") >>,
   I |-> << U64("paired_shares"), U64("imbalance_shares"), Char("imbalance_direction"), Stock,
            U32("far_price"), U32("near_price"), U32("current_reference_price"),
            Char("cross_type"), Char("price_variation_indicator") >>,
   N |-> << Stock, Char("interest_flag") >>,
   O |-> << Stock, Char("open_eligibility_status"), U32("minimum_allowable_price"),
            U32("maximum_allowable_price"), U32("near_execution_price"),
            U64("near_execution_time"), U32("lower_price_range_collar"),
            U32("upper_price_range_collar") >>]

\* Two tables as one.
Joined(f, g) == [x \in DOMAIN f \cup DOMAIN g |-> IF x \in DOMAIN f THEN f[x] ELSE g[x]]
Structs == Joined(Joined(AdminStructs, MarketStructs), Joined(OrderStructs, TradeStructs))
Struct(t) == Common \o Structs[t]

(* The registry of message types and their sizes on the wire. *)
MessageTypes == << "S", "R", "H", "Y", "L", "V", "W", "K", "J", "h", "A", "F", "E", "C", "X",
                   "D", "U", "P", "Q", "B", "I", "N", "O" >>
TIMESTAMP_STRUCT_PADDING == 8 - 6
WIRE_SIZE(t) == Width(Struct(t)) - TIMESTAMP_STRUCT_PADDING

\* The static_asserts of wire.hpp.
ASSUME SpecSizes == << WIRE_SIZE("S"), WIRE_SIZE("R"), WIRE_SIZE("A"), WIRE_SIZE("I"), WIRE_SIZE("O") >>
                    = << 12, 39, 36, 50, 48 >>

-----------------------------------------------------------------------------
(* Integers: conversions between host order and network order. *)
swap_bytes(v) == Reverse(v)
from_big_endian_Host(v) == v
from_big_endian(v) == swap_bytes(v)             \* the host is little-endian
Resized(v, w) == [i \in 1..w |-> IF i <= Len(v) THEN v[i] ELSE Zero]
Bytes(wire, o, w) == SubSeq(wire, o + 1, o + w)

(* The encoder. *)
put(v, w) == from_big_endian(Resized(v, w))
put_timestamp(v) == put(SubSeq(v, 5, 8), 2) \o put(SubSeq(v, 1, 4), 4)
PutField(m, f) == CASE f[2] = "int"   -> put(m[f[1]], f[3])
                    [] f[2] = "chars" -> SubSeq(m[f[1]], 1, f[3])

write_header(m) == PutField(m, Char("message_type")) \o put(m["stock_locate"], 2)
                     \o put(m["tracking_number"], 2) \o put_timestamp(m["timestamp"])

WriteAdminBody ==
  [S |-> << Char("event_code") >>,
   R |-> << Stock, Char("market_category"), Char("financial_status_indicator"),
            U32("round_lot_size"), Char("round_lots_only"), Char("issue_classification"),
            Chars("issue_sub_type", 2), Char("authenticity"), Char("short_sale_threshold_indicator"),
            Char("ipo_flag"), Char("luld_ref"), Char("etp_flag"), U32("etp_leverage_factor"),
            Char("inverse_indicator") >>,
   H |-> << Stock, Char("trading_state"), Char("reserved"), Chars("reason", 4) >>,
   Y |-> << Stock, Char("reg_sho_action") >>,
   L |-> << Chars("mpid", 4), Stock, Char("primary_market_maker"), Char("market_maker_mode"),
            Char("market_participant_state") >>,
   V |-> << U64("level1"), U64("level2"), U64("level3") >>,
   W |-> << Char("breached_level") >>,
   K |-> << Stock, U32("ipo_quotation_release_time"), Char("ipo_quotation_release_qualifier"),
            U32("ipo_price") >>,
   J |-> << Stock, U32("auction_collar_reference_price"), U32("upper_auction_collar_price"),
            U32("lower_auction_collar_price"), U32("auction_collar_extension") >>,
   h |-> << Stock, Char("market_code"), Char("operational_halt_action") >>]

WriteOrderBody ==
  [A |-> << U64("order_reference_number"), Char("buy_sell_indicator"), U32("shares"), Stock,
            U32("price") >>,
   F |-> << U64("order_reference_number"), Char("buy_sell_indicator"), U32("shares"), Stock,
            U32("price"), Chars("attribution", 4) >>,
   E |-> << U64("order_reference_number"), U32("executed_shares"), U64("match_number") >>,
   C |-> << U64("order_reference_number"), U32("executed_shares"), U64("match_number"),
            Char("printable"), U32("execution_price") >>,
   X |-> << U64("order_reference_number"), U32("cancelled_shares") >>,
   D |-> << U64("order_reference_number") >>,
   U |-> << U64("original_order_reference_number"), U64("new_order_reference_number"),
            U32("shares"), U32("price") >>]

WriteTradeBody ==
  [P |-> << U64("order_reference_number"), Char("buy_sell_indicator"), U32("shares"), Stock,
            U32("price"), U64("match_number") >>,
   Q |-> << U64("shares"), Stock, U32("cross_price"), U64("match_number"), Char("cross_type") >>,
   B |-> << U64("match_number") >>,
   I |-> << U64("paired_shares"), U64("imbalance_shares"), Char("imbalance_direction"), Stock,
            U32("far_price"), U32("near_price"), U32("current_reference_price"),
            Char("cross_type"), Char("price_variation_indicator") >>,
   N |-> << Stock, Char("interest_flag") >>,
   O |-> << Stock, Char("open_eligibility_status"), U32("minimum_allowable_price"),
            U32("maximum_allowable_price"), U32("near_execution_price"),
            U64("near_execution_time"), U32("lower_price_range_collar"),
            U32("upper_price_range_collar") >>]

WriteBody == Joined(WriteAdminBody, Joined(WriteOrderBody, WriteTradeBody))
TypeOf(m) == m["message_type"][1]
encode_message(m) ==
  FoldLeft(LAMBDA b, f : b \o PutField(m, f), write_header(m), WriteBody[TypeOf(m)])
encode_frame(m) == LET body == encode_message(m)
                   IN << Len(body) \div 256, Len(body) % 256 >> \o body

-----------------------------------------------------------------------------
(* The parser: unpack a field at an offset, and what each type unpacks.    *)
unpack(b, o, f) == IF f[2] = "int" THEN from_big_endian(Bytes(b, o, f[3])) ELSE Bytes(b, o, f[3])
unpack_timestamp(b, o) ==
  from_big_endian(Bytes(b, o + 2, 4)) \o from_big_endian(Bytes(b, o, 2)) \o << Zero, Zero >>

UnpackAdmin ==
  [S |-> << Char("event_code") >>,
   R |-> << Stock, Char("market_category"), Char("financial_status_indicator"),
            U32("round_lot_size"), Char("round_lots_only"), Char("issue_classification"),
            Chars("issue_sub_type", 2), Char("authenticity"), Char("short_sale_threshold_indicator"),
            Char("ipo_flag"), Char("luld_ref"), Char("etp_flag"), U32("etp_leverage_factor"),
            Char("inverse_indicator") >>,
   H |-> << Stock, Char("trading_state"), Char("reserved"), Chars("reason", 4) >>,
   Y |-> << Stock, Char("reg_sho_action") >>,
   L |-> << Chars("mpid", 4), Stock, Char("primary_market_maker"), Char("market_maker_mode"),
            Char("market_participant_state") >>,
   V |-> << U64("level1"), U64("level2"), U64("level3") >>,
   W |-> << Char("breached_level") >>,
   K |-> << Stock, U32("ipo_quotation_release_time"), Char("ipo_quotation_release_qualifier"),
            U32("ipo_price") >>,
   J |-> << Stock, U32("auction_collar_reference_price"), U32("upper_auction_collar_price"),
            U32("lower_auction_collar_price"), U32("auction_collar_extension") >>,
   h |-> << Stock, Char("market_code"), Char("operational_halt_action") >>]

UnpackOrder ==
  [A |-> << U64("order_reference_number"), Char("buy_sell_indicator"), U32("shares"), Stock,
            U32("price") >>,
   F |-> << U64("order_reference_number"), Char("buy_sell_indicator"), U32("shares"), Stock,
            U32("price"), Chars("attribution", 4) >>,
   E |-> << U64("order_reference_number"), U32("executed_shares"), U64("match_number") >>,
   C |-> << U64("order_reference_number"), U32("executed_shares"), U64("match_number"),
            Char("printable"), U32("execution_price") >>,
   X |-> << U64("order_reference_number"), U32("cancelled_shares") >>,
   D |-> << U64("order_reference_number") >>,
   U |-> << U64("original_order_reference_number"), U64("new_order_reference_number"),
            U32("shares"), U32("price") >>]

UnpackTrade ==
  [P |-> << U64("order_reference_number"), Char("buy_sell_indicator"), U32("shares"), Stock,
            U32("price"), U64("match_number") >>,
   Q |-> << U64("shares"), Stock, U32("cross_price"), U64("match_number"), Char("cross_type") >>,
   B |-> << U64("match_number") >>,
   I |-> << U64("paired_shares"), U64("imbalance_shares"), Char("imbalance_direction"), Stock,
            U32("far_price"), U32("near_price"), U32("current_reference_price"),
            Char("cross_type"), Char("price_variation_indicator") >>,
   N |-> << Stock, Char("interest_flag") >>,
   O |-> << Stock, Char("open_eligibility_status"), U32("minimum_allowable_price"),
            U32("maximum_allowable_price"), U32("near_execution_price"),
            U64("near_execution_time"), U32("lower_price_range_collar"),
            U32("upper_price_range_collar") >>]

Unpack == Joined(UnpackAdmin, Joined(UnpackOrder, UnpackTrade))
FieldsOf(t) == {Struct(t)[i] : i \in 1..Len(Struct(t))}
WidthOf(t, name) == (CHOOSE f \in FieldsOf(t) : f[1] = name)[3]

\* MsgType msg; leaves every member but message_type unset.
Fresh(t) == [name \in {f[1] : f \in FieldsOf(t)} |->
               IF name = "message_type" THEN << t >>
               ELSE [i \in 1..WidthOf(t, name) |-> Garbage]]

decode_typed(t, b, o) ==
  LET header == [Fresh(t) EXCEPT !["stock_locate"]    = unpack(b, o + 1, U16("stock_locate")),
                                 !["tracking_number"] = unpack(b, o + 3, U16("tracking_number")),
                                 !["timestamp"]       = unpack_timestamp(b, o + 5)]
      Step(acc, f) == [off |-> acc.off + f[3],
                       msg |-> [acc.msg EXCEPT ![f[1]] =
                                  Resized(unpack(b, acc.off, f), WidthOf(t, f[1]))]]
  IN FoldLeft(Step, [off |-> o + 11, msg |-> header], Unpack[t]).msg

-----------------------------------------------------------------------------
(* The overlay views: a field is read at an offset written in the source.  *)
read_field(b, o, f) == unpack(b, o, f)
read_timestamp(b, o) ==
  read_field(b, o + 2, U32("low")) \o read_field(b, o, U16("high")) \o << Zero, Zero >>

MessageView == << <<U16("stock_locate"), 1>>, <<U16("tracking_number"), 3>> >>
AddOrderView == << <<U64("order_reference_number"), 11>>, <<Char("buy_sell_indicator"), 19>>,
                   <<U32("shares"), 20>>, <<Stock, 24>>, <<U32("price"), 32>> >>
OrderExecutedView == << <<U64("order_reference_number"), 11>>, <<U32("executed_shares"), 19>>,
                        <<U64("match_number"), 23>> >>
OrderExecutedWithPriceView ==
  << <<U64("order_reference_number"), 11>>, <<U32("executed_shares"), 19>>,
     <<U64("match_number"), 23>>, <<Char("printable"), 31>>, <<U32("execution_price"), 32>> >>
OrderCancelView == << <<U64("order_reference_number"), 11>>, <<U32("cancelled_shares"), 19>> >>
OrderDeleteView == << <<U64("order_reference_number"), 11>> >>
OrderReplaceView == << <<U64("original_order_reference_number"), 11>>,
                       <<U64("new_order_reference_number"), 19>>, <<U32("shares"), 27>>,
                       <<U32("price"), 31>> >>
NonCrossTradeView == << <<U64("order_reference_number"), 11>>, <<Char("buy_sell_indicator"), 19>>,
                        <<U32("shares"), 20>>, <<Stock, 24>>, <<U32("price"), 32>>,
                        <<U64("match_number"), 36>> >>
View(t) == MessageView \o CASE t = "A" -> AddOrderView
                            [] t = "E" -> OrderExecutedView
                            [] t = "C" -> OrderExecutedWithPriceView
                            [] t = "X" -> OrderCancelView
                            [] t = "D" -> OrderDeleteView
                            [] t = "U" -> OrderReplaceView
                            [] t = "P" -> NonCrossTradeView
                            [] OTHER   -> << >>
SIZE_TABLE == [t \in ToSet(MessageTypes) |-> WIRE_SIZE(t)]
=============================================================================
