----------------------------- MODULE MCMessages ----------------------------
(***************************************************************************)
(* Small instances for TLC of the parts that make, show and play back      *)
(* messages, side by side: encoder, parser and views, the Python message   *)
(* classes, and the exporters, the tool and the replay engine of Outlets.  *)
(* They share no variable: `part' says which of them a behaviour is about, *)
(* and the others stay in their initial state.                             *)
(***************************************************************************)
EXTENDS Codec, Outlets

VARIABLES
  part,
  obj, assigned, foreign, sets, body, copy, decoded      \* PyMessages

pyVars == <<obj, assigned, foreign, sets, body, copy, decoded>>
Py == INSTANCE PyMessages WITH MessageType <- Types

\* Up to four calls of write_parquet, so that a failure follows one and is followed by two.
MCExportTypes == Types
MCFailAt == {0, 1, 6, 11}

\* Paused, at the feed's own speed and at twice it.
MCSpeed == {0, 1, 2}

-----------------------------------------------------------------------------
MCInit ==
  /\ part \in {"codec", "python", "rows", "retries", "tool", "replay"}
  /\ Init /\ Py!Init /\ Out!Init /\ Cli!Init /\ Engine!Init

\* The exporters with every pair of types ("rows"), and with two types and more failures
\* ("retries").
ExportStep ==
  /\ Out!Next
  /\ \/ part = "rows" /\ Len(exported') <= 2 /\ Len(results') <= 2
     \/ part = "retries" /\ \A i \in DOMAIN exported' : exported'[i] \in {"A", "B"}

MCNext ==
  /\ \/ part = "codec" /\ Next /\ UNCHANGED <<pyVars, sinkVars, toolVars, replayVars>>
     \/ part = "python" /\ Py!Next /\ UNCHANGED <<vars, sinkVars, toolVars, replayVars>>
     \/ /\ part \in {"rows", "retries"} /\ ExportStep
        /\ UNCHANGED <<vars, pyVars, toolVars, replayVars>>
     \/ part = "tool" /\ Cli!Next /\ UNCHANGED <<vars, pyVars, sinkVars, replayVars>>
     \/ part = "replay" /\ Engine!Next /\ UNCHANGED <<vars, pyVars, sinkVars, toolVars>>
  /\ UNCHANGED part

allVars   == <<part, vars, pyVars, sinkVars, toolVars, replayVars>>
Replaying == part = "replay" /\ UNCHANGED <<part, vars, pyVars, sinkVars, toolVars>>
MCSpec ==
  /\ MCInit /\ [][MCNext]_allVars
  /\ WF_allVars(Replaying /\ Engine!Thread) /\ WF_allVars(Replaying /\ Engine!Tick)

-----------------------------------------------------------------------------
\* The Python classes: an attribute comes back from to_bytes and the constructor with the
\* value it was given, and create_message hands out what its own bytes describe.
AttributesAreKept ==
  Py!TypeOK /\ Py!AttributesSurviveTheWire /\ Py!CreatedIsWhatIsSent

\* ReplayEngine: every message is handed over and replay returns.
ReplayEnds == Engine!ReplayEnds
=============================================================================
