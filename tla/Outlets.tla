------------------------------- MODULE Outlets -------------------------------
(***************************************************************************)
(* What messages that have been parsed are handed to, side by side: the    *)
(* exporters, the command line tool and the callback of the replay engine. *)
(* They share no state.                                                    *)
(***************************************************************************)
EXTENDS Integers, Sequences

CONSTANTS
  ExportTypes, FailAt, MaxExported, MaxWrites,       \* of Sinks
  ToolTypes, MaxFileMessages, MaxLimit,              \* of Tool
  Speed, MaxTimestamp, MaxReplayed, MaxNow           \* of Replay

\* Columns that fail are counted; speeds, limits and bounds are integers.
ASSUME OutletsAssumption ==
  /\ FailAt \subseteq Nat
  /\ Speed \subseteq Int /\ MaxTimestamp \in Nat /\ MaxReplayed \in Nat /\ MaxNow \in Nat
  /\ MaxFileMessages \in Nat /\ MaxLimit \in Nat

VARIABLES
  exported, m_out, m_rows_written, builders, row_count, last_error, results, files, \* Sinks
  args, file, data, t_pc, index, counts, shown, rows, written, good, exit,          \* Tool
  replay, truncated, now, m_speed_multiplier, paced, replayed, base, pc, target, next,
  delivered                                                                         \* Replay

sinkVars   == <<exported, m_out, m_rows_written, builders, row_count, last_error, results, files>>
toolVars   == <<args, file, data, t_pc, index, counts, shown, rows, written, good, exit>>
replayVars == <<replay, truncated, now, m_speed_multiplier, paced, replayed, base, pc, target, next,
                delivered>>

Out == INSTANCE Sinks WITH MessageType <- ExportTypes, MaxMessages <- MaxExported
Cli == INSTANCE Tool WITH Type <- ToolTypes, MaxMessages <- MaxFileMessages, pc <- t_pc
Engine == INSTANCE Replay WITH MaxMessages <- MaxReplayed, feed <- replay

-----------------------------------------------------------------------------
\* CsvSink and ArrowExporter: a row has every field a book and a tape are rebuilt from,
\* both show the same fields in the same columns, and a file holds whole rows only, also
\* after a call of write_parquet that failed half way.
ExportsAreFaithful ==
  Out!TypeOK /\ Out!RowsAreLossless /\ Out!ParquetAgreesWithCsv /\ Out!FilesHoldWholeRows

\* The tool: exit code 0 means a complete result, and a command that can succeed on its
\* input does.
ExitCodeIsHonest == Cli!TypeOK /\ Cli!SuccessIsComplete /\ Cli!OnlyBadInputFails

\* ReplayEngine: a message is handed over at its own time, neither earlier nor held up by
\* the ones before it.
PacingIsExact == Engine!PacingIsExact
=============================================================================
