-------------------------------- MODULE Tool --------------------------------
(***************************************************************************)
(* The command line tool (tools/itch_tool/main.cpp): read a file, drive a  *)
(* command over its messages, report.  A message is its type.  The input   *)
(* is a capture or a raw stream; a raw stream that is cut makes parse      *)
(* throw through main, a capture's decoder drops what it cannot decode.    *)
(* The output stream may fail at any write, and stays failed.              *)
(***************************************************************************)
EXTENDS Integers, Sequences, FiniteSets

CONSTANTS Type,         \* message types
          MaxMessages,  \* bound on the messages of the file
          MaxLimit      \* bound on --limit

VARIABLES args,       \* the command line
          file,       \* the input on disk: [messages, cut, capture]
          data,       \* what read_file returned
          pc, index,  \* where main is, and the messages handed to the callback
          counts, shown, rows,  \* cmd_stats, cmd_inspect, CsvSink::rows_written
          written,    \* the CSV rows that reached the output
          good,       \* whether the output stream has not failed
          exit        \* the exit code, or "running" or "terminate"
vars == <<args, file, data, pc, index, counts, shown, rows, written, good, exit>>

Commands == {"stats", "inspect", "filter", "convert"}
Files == [messages : UNION {[1 .. n -> Type] : n \in 0 .. MaxMessages}, cut : BOOLEAN,
          capture : BOOLEAN]
Empty == [messages |-> << >>, cut |-> FALSE, capture |-> FALSE]

\* The command line after main's loop over it: out is "-", a file, or the input itself.
Args == [command : Commands \cup {"other"}, has_filter : BOOLEAN, wanted : SUBSET Type,
         limit : 0 .. MaxLimit, out : {"-", "file", "input"}]
WellFormed(a) == /\ ~ a.has_filter => a.wanted = {}
                 /\ a.command # "inspect" => a.limit = 0
                 /\ a.command \notin {"filter", "convert"} => ~ a.has_filter /\ a.out = "-"

NoArgs == [command |-> "other", has_filter |-> FALSE, wanted |-> {}, limit |-> 0, out |-> "-"]

Init == /\ args = NoArgs /\ file = Empty /\ data = Empty
        /\ pc = "start" /\ index = 0
        /\ counts = [t \in Type |-> 0] /\ shown = 0 /\ rows = 0
        /\ written = << >> /\ good = TRUE /\ exit = "running"

\* The tool is started on some file.
main == /\ pc = "start" /\ pc' = "read"
        /\ args' \in {a \in Args : WellFormed(a)}
        /\ file' \in Files
        /\ UNCHANGED <<data, index, counts, shown, rows, written, good, exit>>

\* A capture without a message, or a cut first frame, still has bytes.
NoBytes(f) == f.messages = << >> /\ ~ f.cut /\ ~ f.capture
Ends(code) == pc' = "done" /\ exit' = code

\* Mutant: the output is opened before the input is read.
ReadFile_AfterOpen ==
  /\ pc = "read" /\ data' = IF args.out = "input" THEN Empty ELSE file
  /\ IF NoBytes(data') THEN Ends("1") ELSE pc' = "dispatch" /\ UNCHANGED exit
  /\ UNCHANGED <<args, file, index, counts, shown, rows, written, good>>
\* read_file: the whole file, or nothing; an empty one is an error.
ReadFile ==
  /\ pc = "read" /\ data' = file
  /\ IF NoBytes(file) THEN Ends("1") ELSE pc' = "dispatch" /\ UNCHANGED exit
  /\ UNCHANGED <<args, file, index, counts, shown, rows, written, good>>

\* usage(), a command's opening of its output, or straight to the messages.
Dispatch ==
  /\ pc = "dispatch"
  /\ \/ args.command = "other" /\ Ends("1") /\ UNCHANGED file
     \/ /\ args.command # "other" /\ pc' = "messages" /\ UNCHANGED exit
        /\ file' = IF args.out = "input" THEN Empty ELSE file
     \/ args.out # "-" /\ Ends("1") /\ UNCHANGED file   \* cannot open output
  /\ UNCHANGED <<args, data, index, counts, shown, rows, written, good>>

Message == data.messages[index + 1]
HasMessage == pc = "messages" /\ index < Len(data.messages)
Advance == index' = index + 1 /\ UNCHANGED <<args, file, data, pc, exit>>

CountMessage ==
  /\ HasMessage /\ args.command = "stats" /\ Advance
  /\ counts' = [counts EXCEPT ![Message] = @ + 1]
  /\ UNCHANGED <<shown, rows, written, good>>

Shows == shown < args.limit
InspectMessage ==
  /\ HasMessage /\ args.command = "inspect" /\ Advance
  /\ shown' = IF Shows THEN shown + 1 ELSE shown
  /\ UNCHANGED <<counts, rows, written, good>>

Wanted(t) == ~ args.has_filter \/ t \in args.wanted
\* CsvSink::write counts the row whether or not the stream took it.
WriteMessage ==
  /\ HasMessage /\ args.command \in {"filter", "convert"} /\ Advance
  /\ IF Wanted(Message)
     THEN /\ rows' = rows + 1
          /\ \/ good /\ written' = Append(written, Message) /\ UNCHANGED good
             \/ good' = FALSE /\ UNCHANGED written
     ELSE UNCHANGED <<rows, written, good>>
  /\ UNCHANGED <<counts, shown>>

\* The end of the messages: flush and report, or an exception nobody catches.  What the
\* stream has taken but not yet passed on may be lost when the flush fails.
Finish ==
  /\ pc = "messages" /\ index = Len(data.messages)
  /\ IF data.cut /\ ~ data.capture THEN Ends("terminate") ELSE Ends("0")
  /\ \/ UNCHANGED <<written, good>>
     \/ /\ args.command \in {"filter", "convert"} /\ good' = FALSE
        /\ \E n \in 0 .. Len(written) : written' = SubSeq(written, 1, n)
  /\ UNCHANGED <<args, file, data, index, counts, shown, rows>>

Next == main \/ ReadFile \/ Dispatch \/ CountMessage \/ InspectMessage \/ WriteMessage \/ Finish
Spec == Init /\ [][Next]_vars

-----------------------------------------------------------------------------
\* Type invariant: each command touches its own result only.
TypeOK == /\ index \in 0 .. Len(data.messages) /\ shown <= args.limit
          /\ args.command # "stats" => \A t \in Type : counts[t] = 0
          /\ Len(written) <= rows /\ rows <= index

\* The messages of m[1 .. n] that a command line asks for, in order.
Asked(a, m) ==
  LET asked[n \in 0 .. Len(m)] ==
        IF n = 0 THEN << >>
        ELSE IF a.has_filter => m[n] \in a.wanted THEN Append(asked[n - 1], m[n])
        ELSE asked[n - 1]
  IN  asked

\* Exit code 0 from a whole raw stream means that the command saw all of it: each type is
\* counted exactly, the first messages up to the limit are shown, and on an output that
\* did not fail the rows are the wanted messages in order, also when the output replaces
\* the input.  A raw stream that is cut never ends with 0.
SuccessIsComplete ==
  (exit = "0" /\ ~ data.capture) =>
    /\ ~ data.cut
    /\ args.command = "stats" => \A t \in Type :
         counts[t] = Cardinality({i \in DOMAIN data.messages : data.messages[i] = t})
    /\ args.command = "inspect" =>
         shown = IF Len(data.messages) < args.limit THEN Len(data.messages) ELSE args.limit
    /\ (good /\ args.command \in {"filter", "convert"}) =>
         written = Asked(args, data.messages)[Len(data.messages)]

\* A command that can succeed on its input does: replacing the input by the output does
\* not lose it.
OnlyBadInputFails ==
  (exit = "1" /\ args.command # "other" /\ args.out # "file") =>
    \/ data = file /\ NoBytes(data)
    \/ args.out = "input" /\ data # Empty
=============================================================================
