------------------------------- MODULE Sinks -------------------------------
(***************************************************************************)
(* The two exporters, fed the same messages: io::CsvSink writes a row at a *)
(* time, io::ArrowExporter appends to twelve column builders that          *)
(* write_parquet empties into a file.  A cell is <<n, field>>: the field   *)
(* of the n-th message it shows, Blank for an empty string or a null.      *)
(* Finish, the file and the Parquet writer are external and may fail.      *)
(***************************************************************************)
EXTENDS Wire, FiniteSets

CONSTANTS MessageType,  \* the message types that are exported
          FailAt,       \* how many columns may be finished when one fails
          MaxMessages,  \* bound on the messages exported
          MaxWrites     \* bound on the calls of write_parquet

Columns == << "message_type", "timestamp", "stock_locate", "tracking_number", "symbol",
              "reference_number", "side", "shares", "price", "match_number", "printable", "extra" >>
Column == Range(Columns)
Blank == "blank"

\* fill_common and append_common, and a row with nothing but them.
CommonRow == [c \in Column |-> IF c \in {"message_type", "timestamp", "stock_locate", "tracking_number"}
                               THEN c ELSE Blank]

\* Which member of the struct each column shows: build_row.
OrderRows ==
  [A |-> [symbol |-> "stock", reference_number |-> "order_reference_number",
          side |-> "buy_sell_indicator", shares |-> "shares", price |-> "price"],
   F |-> [symbol |-> "stock", reference_number |-> "order_reference_number",
          side |-> "buy_sell_indicator", shares |-> "shares", price |-> "price",
          extra |-> "attribution"],
   E |-> [reference_number |-> "order_reference_number", shares |-> "executed_shares",
          match_number |-> "match_number"],
   C |-> [reference_number |-> "order_reference_number", shares |-> "executed_shares",
          price |-> "execution_price", match_number |-> "match_number", printable |-> "printable"],
   X |-> [reference_number |-> "order_reference_number", shares |-> "cancelled_shares"],
   D |-> [reference_number |-> "order_reference_number"]]
TradeRows ==
  [U |-> [reference_number |-> "new_order_reference_number", shares |-> "shares", price |-> "price",
          extra |-> "original_order_reference_number"],
   P |-> [symbol |-> "stock", reference_number |-> "order_reference_number",
          side |-> "buy_sell_indicator", shares |-> "shares", price |-> "price",
          match_number |-> "match_number"],
   Q |-> [symbol |-> "stock", shares |-> "shares", price |-> "cross_price",
          match_number |-> "match_number", extra |-> "cross_type"],
   S |-> [extra |-> "event_code"],
   R |-> [symbol |-> "stock", extra |-> "market_category"]]
CsvRows == Joined(OrderRows, TradeRows)
build_row(t) == IF t \in DOMAIN CsvRows THEN Joined(CsvRows[t], CommonRow) ELSE CommonRow

\* The same for ArrowExporter::append, branch by branch.
ArrowOrderCells ==
  [A |-> [symbol |-> "stock", reference_number |-> "order_reference_number",
          side |-> "buy_sell_indicator", shares |-> "shares", price |-> "price"],
   F |-> [symbol |-> "stock", reference_number |-> "order_reference_number",
          side |-> "buy_sell_indicator", shares |-> "shares", price |-> "price",
          extra |-> "attribution"],
   E |-> [reference_number |-> "order_reference_number", shares |-> "executed_shares",
          match_number |-> "match_number"],
   C |-> [reference_number |-> "order_reference_number", shares |-> "executed_shares",
          price |-> "execution_price", match_number |-> "match_number", printable |-> "printable"],
   X |-> [reference_number |-> "order_reference_number", shares |-> "cancelled_shares"],
   D |-> [reference_number |-> "order_reference_number"]]
ArrowTradeCells ==
  [U |-> [reference_number |-> "new_order_reference_number", shares |-> "shares", price |-> "price",
          extra |-> "original_order_reference_number"],
   P |-> [symbol |-> "stock", reference_number |-> "order_reference_number",
          side |-> "buy_sell_indicator", shares |-> "shares", price |-> "price",
          match_number |-> "match_number"],
   Q |-> [symbol |-> "stock", shares |-> "shares", price |-> "cross_price",
          match_number |-> "match_number", extra |-> "cross_type"],
   S |-> [extra |-> "event_code"],
   R |-> [symbol |-> "stock"]]
ArrowCells(t) == LET cells == Joined(ArrowOrderCells, ArrowTradeCells)
                 IN  IF t \in DOMAIN cells THEN Joined(cells[t], CommonRow) ELSE CommonRow

-----------------------------------------------------------------------------
VARIABLES exported,                        \* history: the types of the messages so far
          m_out, m_rows_written,           \* CsvSink: the rows on the stream, their count
          builders, row_count, last_error, \* ArrowExporter::Impl
          results,                         \* what each call of write_parquet returned
          files                            \* the tables of the files written so far
vars == <<exported, m_out, m_rows_written, builders, row_count, last_error, results, files>>

Init == /\ exported = << >> /\ m_out = << >> /\ m_rows_written = 0
        /\ builders = [c \in Column |-> << >>] /\ row_count = 0 /\ last_error = FALSE
        /\ results = << >> /\ files = << >>

write(t) == /\ m_out' = Append(m_out, build_row(t))
            /\ m_rows_written' = m_rows_written + 1

Appended(t, n) == [c \in Column |-> Append(builders[c], <<n, ArrowCells(t)[c]>>)]
append(t) == /\ builders' = Appended(t, row_count + 1)
             /\ row_count' = row_count + 1
             /\ UNCHANGED <<last_error, results, files>>

Export(t) == /\ Len(exported) < MaxMessages
             /\ exported' = Append(exported, t)
             /\ write(t) /\ append(t)

\* Mutant: the finished columns are kept for the next file.
Finished_Keeps(n) == builders
\* Finish hands out a column and empties its builder; n of them have been finished.
Finished(n) == [c \in Column |-> IF \E i \in 1 .. n : Columns[i] = c THEN << >> ELSE builders[c]]

FinishFails(n) == /\ n \in FailAt /\ n < Len(Columns)
                  /\ builders' = Finished(n)
                  /\ last_error' = TRUE /\ results' = Append(results, FALSE)
                  /\ UNCHANGED files

\* FileOutputStream::Open or WriteTable, once every builder is empty.
WriteFails == /\ builders' = Finished(Len(Columns))
              /\ last_error' = TRUE /\ results' = Append(results, FALSE)
              /\ UNCHANGED files

\* The writer validates the table: columns of unequal length are an error.
Writes == /\ \A c, d \in Column : Len(builders[c]) = Len(builders[d])
          /\ builders' = Finished(Len(Columns))
          /\ results' = Append(results, TRUE)
          /\ files' = Append(files, [table |-> builders,
                                     chunk_size |-> IF row_count > 0 THEN row_count ELSE 1])
          /\ UNCHANGED last_error

write_parquet == /\ Len(results) < MaxWrites
                 /\ (\E n \in FailAt : FinishFails(n)) \/ WriteFails \/ Writes
                 /\ UNCHANGED <<exported, m_out, m_rows_written, row_count>>

Next == write_parquet \/ \E t \in MessageType : Export(t)
Spec == Init /\ [][Next]_vars

-----------------------------------------------------------------------------
Fields(t) == {f[1] : f \in Range(Common) \cup Range(Structs[t])}
Shown(row) == {row[c] : c \in DOMAIN row} \ {Blank}

\* Type invariant: both sinks have counted every message, and what is written in one
\* call of write_parquet fits one row group, however many files came before.
TypeOK == /\ m_rows_written = Len(exported) /\ row_count = Len(exported)
          /\ Len(m_out) = Len(exported)
          /\ \A i \in DOMAIN files : /\ files[i].chunk_size > 0
                                     /\ files[i].chunk_size >= Len(files[i].table["symbol"])

\* A CSV row has every field of the message types a book and a tape are rebuilt from.
RowsAreLossless ==
  \A i \in DOMAIN exported :
    exported[i] \in DOMAIN OrderStructs \cup {"P", "Q", "S"} => Shown(m_out[i]) = Fields(exported[i])

\* A Parquet row shows what the CSV row of the same message shows, but for the column
\* `extra` of a stock directory.
ParquetAgreesWithCsv ==
  \A f \in DOMAIN files : \A c \in Column : \A i \in DOMAIN files[f].table[c] :
    LET cell == files[f].table[c][i]
    IN  cell[2] = m_out[cell[1]][c] \/ (exported[cell[1]] = "R" /\ c = "extra")

\* Every file is made of whole rows: the i-th cells of all columns are of the same
\* message, also when a call before it failed with half of the columns emptied, and no
\* message is in two files.
FilesHoldWholeRows ==
  /\ \A f \in DOMAIN files : \A c \in Column : \A i \in DOMAIN files[f].table[c] :
       files[f].table[c][i][1] = files[f].table["timestamp"][i][1]
  /\ \A f, g \in DOMAIN files : f # g =>
       Range(files[f].table["timestamp"]) \cap Range(files[g].table["timestamp"]) = {}
=============================================================================
