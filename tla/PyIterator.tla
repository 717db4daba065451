----------------------------- MODULE PyIterator -----------------------------
(***************************************************************************)
(* The MessageIterator behind MessageParser.parse_stream, parse_file and   *)
(* parse_messages of the Python bindings: a lazy iterator that refills its *)
(* buffer from a file, filters by message type, copies what it yields to a *)
(* save_file and stops at the end-of-messages event.                       *)
(*                                                                         *)
(* The input is a sequence of frames [type, body, stop, short]: two length *)
(* bytes and `body` bytes; `short` if the parser finds the body shorter    *)
(* than its type requires.  The buffer holds bytes <<frame, position>>.    *)
(* file.read may return fewer bytes than asked for; save_file.write may    *)
(* raise.                                                                  *)
(***************************************************************************)
EXTENDS Integers, Sequences, SequencesExt, FiniteSetsExt

CONSTANTS Frames,       \* frames of an input
          MaxFrames,    \* bound on their number
          Filters,      \* sets of types a parser may be asked for
          CacheSizes,   \* values of cachesize
          ALL_MESSAGES, \* the known types
          MaxFailures,  \* bound on the writes that raise
          MaxResumes    \* bound on next() after it has raised StopIteration

VARIABLES
  m_buffer, m_offset, m_filter, m_cachesize, m_saving, m_stopped,
  m_file,            \* bytes the file still has; NoFile for an in-memory stream
  pc,                \* "new", "idle", or what __next__ is about to do
  input, cut,        \* the frames; bytes missing from the end of the last one
  raised,            \* what the last next() raised, or "none"
  yielded, saved,    \* frames returned by next(); written to save_file
  failures, resumes, ended  \* ended: the stop event has been read
config == <<m_filter, m_cachesize, m_saving, input, cut>>
outputs == <<yielded, saved, failures>>
vars == <<m_buffer, m_offset, m_stopped, m_file, pc, raised, resumes, ended, config, outputs>>

FRAME_HEADER_LEN == 2
NoFile == << <<0, 0>> >>
Total(i) == FRAME_HEADER_LEN + input[i].body
CellsOf(f, i) == [k \in 1..(FRAME_HEADER_LEN + f.body) |-> <<i, k>>]
Cells(fs) == LET cells[i \in 0..Len(fs)] == IF i = 0 THEN << >> ELSE cells[i - 1] \o CellsOf(fs[i], i)
             IN  cells
AllCells(fs) == Cells(fs)[Len(fs)]
Bytes == SubSeq(AllCells(input), 1, Len(AllCells(input)) - cut)

Init ==
  /\ pc = "new" /\ input = << >> /\ cut = 0 /\ m_filter = {} /\ m_cachesize = 1 /\ m_saving = FALSE
  /\ m_file = NoFile /\ m_buffer = << >> /\ m_offset = 0 /\ m_stopped = FALSE /\ raised = "none"
  /\ yielded = << >> /\ saved = << >> /\ failures = 0 /\ resumes = 0 /\ ended = FALSE

\* parse_stream, with all bytes in the buffer, and parse_file, with all of them to come.
Open ==
  /\ pc = "new" /\ pc' = "idle"
  /\ \E n \in 1..MaxFrames : input' \in [1..n -> Frames]
  /\ cut' \in 0..1 /\ m_filter' \in Filters /\ m_cachesize' \in CacheSizes /\ m_saving' \in BOOLEAN
  /\ \/ UNCHANGED m_file /\ m_buffer' = Bytes'
     \/ UNCHANGED m_buffer /\ m_file' = Bytes'
  /\ UNCHANGED <<m_offset, m_stopped, raised, resumes, ended, outputs>>

-----------------------------------------------------------------------------
Buffered == Len(m_buffer) - m_offset
Current == m_buffer[m_offset + 1][1]

Raise(what) == /\ pc' = "idle" /\ raised' = what
               /\ UNCHANGED <<m_stopped, m_file, resumes, ended, config, outputs>>

\* __next__ is called, again perhaps after it has raised.
next == /\ pc = "idle" /\ pc' = "header"
        /\ raised # "none" => resumes < MaxResumes
        /\ resumes' = IF raised # "none" THEN resumes + 1 ELSE resumes
        /\ raised' = "none"
        /\ UNCHANGED <<m_buffer, m_offset, m_stopped, m_file, ended, config, outputs>>

Compacted == SubSeq(m_buffer, m_offset + 1, Len(m_buffer))
\* One turn of fill_to's loop, for need more bytes than the buffer has.
Refill(n) == /\ m_buffer' = Compacted \o SubSeq(m_file, 1, n)
             /\ m_offset' = Len(m_buffer') - Buffered - n
             /\ m_file' = SubSeq(m_file, n + 1, Len(m_file))
             /\ UNCHANGED <<m_stopped, pc, raised, resumes, ended, config, outputs>>
\* fill_to(need), then the rest of __next__ from `then`, or StopIteration at the end.
fill_to(need, then) ==
  \/ /\ Buffered < need /\ m_file # NoFile
     /\ \E n \in 1..m_cachesize : n <= Len(m_file) /\ Refill(n)
  \/ /\ Buffered < need /\ m_file = NoFile
     /\ Raise("StopIteration") /\ UNCHANGED <<m_buffer, m_offset>>
  \/ /\ Buffered < need /\ m_file = << >>
     /\ Raise("StopIteration") /\ m_buffer' = Compacted /\ m_offset' = Len(m_buffer') - Buffered
  \/ /\ Buffered >= need /\ pc' = then
     /\ UNCHANGED <<m_buffer, m_offset, m_stopped, m_file, raised, resumes, ended, config, outputs>>

ReadHeader ==
  /\ pc = "header"
  /\ \/ m_stopped /\ Raise("StopIteration") /\ UNCHANGED <<m_buffer, m_offset>>
     \/ ~m_stopped /\ fill_to(FRAME_HEADER_LEN, "body")
ReadBody == pc = "body" /\ fill_to(Total(Current), "decode")

\* The byte after an empty frame is the next one's length or the end of the string.
type_byte == IF input[Current].body = 0 THEN "\\0" ELSE input[Current].type
\* An unknown type raises before anything is consumed.
RejectFrame == /\ pc = "decode" /\ type_byte \notin ALL_MESSAGES
               /\ Raise("ValueError") /\ UNCHANGED <<m_buffer, m_offset>>

kept == type_byte \in m_filter
is_stop == type_byte = "S" /\ input[Current].stop
Consume == m_offset' = m_offset + Total(Current)
\* *parsed is dereferenced without a value.
Undefined == input[Current].short /\ (type_byte = "S" \/ kept)
DecodeShort == /\ pc = "decode" /\ type_byte \in ALL_MESSAGES /\ Undefined /\ Consume
               /\ pc' = "idle" /\ raised' = "undefined" /\ resumes' = MaxResumes
               /\ UNCHANGED <<m_buffer, m_stopped, m_file, ended, config, outputs>>

Decoded == /\ pc = "decode" /\ type_byte \in ALL_MESSAGES /\ ~Undefined
           /\ Consume /\ ended' = (ended \/ is_stop)

\* Kept: saved, then yielded; the stop event itself is the last message.
StoppedAfter == m_stopped \/ is_stop
Yield == /\ Decoded /\ kept
         /\ saved' = IF m_saving THEN Append(saved, Current) ELSE saved
         /\ m_stopped' = StoppedAfter
         /\ yielded' = Append(yielded, Current)
         /\ pc' = "idle"
         /\ UNCHANGED <<m_buffer, m_file, raised, resumes, failures, config>>
\* save_file.write raises: the frame is consumed, and not yielded.
SaveFails == /\ Decoded /\ kept /\ m_saving /\ failures < MaxFailures
             /\ failures' = failures + 1 /\ pc' = "idle" /\ raised' = "write"
             /\ UNCHANGED <<m_buffer, m_stopped, m_file, resumes, saved, yielded, config>>
\* Mutant: frames are saved before the filter.
Skip_Saves == /\ Decoded /\ ~kept
              /\ saved' = IF m_saving THEN Append(saved, Current) ELSE saved
              /\ pc' = "header"
              /\ UNCHANGED <<m_buffer, m_stopped, m_file, raised, resumes, yielded, failures, config>>
\* Not kept: the next frame, or the end at the stop event.
Skip == /\ Decoded /\ ~kept
        /\ IF is_stop THEN pc' = "idle" /\ raised' = "StopIteration"
                      ELSE pc' = "header" /\ UNCHANGED raised
        /\ UNCHANGED <<m_buffer, m_stopped, m_file, resumes, config, outputs>>

Step == ReadHeader \/ ReadBody \/ RejectFrame \/ DecodeShort \/ Yield \/ SaveFails \/ Skip
Next == Open \/ next \/ Step
Spec == Init /\ [][Next]_vars /\ WF_vars(Step)

-----------------------------------------------------------------------------
(* What the feed holds, up to its stop event, its first unknown type or    *)
(* the frame that is cut off.                                              *)
IsStop(f) == f.type = "S" /\ f.stop
Known(f) == f.body > 0 /\ f.type \in ALL_MESSAGES
Crashes(f) == f.short /\ f.type \in m_filter \cup {"S"}
Stops == {i \in 1..Len(input) : IsStop(input[i])}
Bad   == {i \in 1..Len(input) : ~Known(input[i]) \/ Crashes(input[i])}
Whole == IF cut > 0 THEN Len(input) - 1 ELSE Len(input)
LastFrame == Min({Whole} \cup Stops \cup {i - 1 : i \in Bad})
WantedUpTo(fs, types) ==
  LET wanted[i \in 0..Len(fs)] == IF i = 0 THEN << >>
                                  ELSE IF fs[i].type \in types THEN Append(wanted[i - 1], i)
                                  ELSE wanted[i - 1]
  IN  wanted
Wanted == WantedUpTo(input, m_filter)[LastFrame]

\* Type invariant.
TypeOK == /\ m_offset \in 0..Len(m_buffer) /\ m_stopped \in BOOLEAN
          /\ pc \in {"new", "idle", "header", "body", "decode"}
          /\ raised \in {"none", "StopIteration", "ValueError", "write", "undefined"}

\* Whatever the file returns per read and however often next() is called after an
\* exception: as long as it was not resumed past a stop event the filter hides, and no
\* write raised, the iterator yields exactly the wanted frames up to the stop event, in
\* order, and raises only when it has yielded them all.
YieldsTheFeed ==
  (failures = 0 /\ ~(ended /\ resumes > 0 /\ "S" \notin m_filter)) =>
    /\ IsPrefix(yielded, Wanted)
    /\ raised \in {"StopIteration", "ValueError"} => yielded = Wanted

\* With a save_file, the file holds exactly the frames that were yielded, also when a
\* write raised in between.
SavedIsYielded == m_saving => saved = yielded

\* "a whole-day feed never has to be held in memory at once": the buffer holds at most
\* an unfinished frame and one chunk.
BufferStaysSmall ==
  m_file # NoFile => \E i \in 1..Len(input) : Len(m_buffer) <= m_cachesize + Total(i)

\* A call of next() is under way.
Busy == pc \notin {"new", "idle"}

\* "undersized frames are ... skipped": a short frame has no undefined outcome.
UndersizedAreSkipped == raised # "undefined"
=============================================================================
