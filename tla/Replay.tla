------------------------------- MODULE Replay -------------------------------
(***************************************************************************)
(* itch::ReplayEngine::replay: a buffer is parsed and each message handed  *)
(* to the callback when its time has come, counted from the first one.     *)
(* The thread sleeps against a clock that runs by itself, the callback     *)
(* takes any time, and it may call set_speed on the engine that is         *)
(* replaying: `paced` is read once, the multiplier at every message.       *)
(***************************************************************************)
EXTENDS Integers, Sequences

CONSTANTS Speed,        \* speed multipliers; 0 or less means no pacing
          MaxTimestamp, \* bound on the timestamps of the feed
          MaxMessages,  \* bound on its length
          MaxNow        \* after this the clock only runs for a sleeper

VARIABLES feed,       \* timestamps of the frames in the buffer
          truncated,  \* whether the buffer ends in the middle of a frame
          now,        \* steady_clock::now()
          m_speed_multiplier, paced, replayed, base,  \* base = NoBase or [timestamp, wall]
          pc, target, next,
          delivered   \* history: [due, at] of every callback
vars == <<feed, truncated, now, m_speed_multiplier, paced, replayed, base, pc, target, next, delivered>>

NoBase == [timestamp |-> 0, wall |-> -1]
Timestamps == UNION {[1 .. n -> 0 .. MaxTimestamp] : n \in 0 .. MaxMessages}

Init == /\ feed = << >> /\ truncated = FALSE
        /\ now = 0 /\ m_speed_multiplier = 1
        /\ paced = FALSE /\ replayed = 0 /\ base = NoBase
        /\ pc = "idle" /\ target = 0 /\ next = 1 /\ delivered = << >>

\* replay is called with some buffer.
Begin == /\ pc = "idle" /\ pc' = "parse"
         /\ feed' \in Timestamps /\ truncated' \in BOOLEAN
         /\ paced' = (m_speed_multiplier > 0)
         /\ UNCHANGED <<now, m_speed_multiplier, replayed, base, target, next, delivered>>

\* The scaled time is truncated to whole nanoseconds.  A multiplier that has become
\* negative gives a time in the past, and so does 0: the infinite quotient converts to
\* the most negative integer (or, saturated, wraps on the addition).
Scaled(elapsed) == IF m_speed_multiplier <= 0 THEN - now - 1 ELSE elapsed \div m_speed_multiplier

\* Mutant: timestamps below the first are paced too; their unsigned distance is huge.
Target_Unguarded(timestamp) ==
  IF base = NoBase THEN now
  ELSE base.wall + Scaled(IF timestamp >= base.timestamp THEN timestamp - base.timestamp
                                                         ELSE 1000 * MaxNow)
\* Mutant: paced from midnight instead of the first message.
Target_FromMidnight(timestamp) ==
  IF base = NoBase THEN now ELSE base.wall + Scaled(timestamp)
\* When a paced message may go: the first, and any at or before its time, at once.
Target(timestamp) ==
  IF base = NoBase \/ timestamp <= base.timestamp THEN now
  ELSE base.wall + Scaled(timestamp - base.timestamp)

NewBase(timestamp) == IF base = NoBase THEN [timestamp |-> timestamp, wall |-> now] ELSE base

\* The parser's next message; the lambda sleeps, or goes straight to the callback.
NextMessage ==
  /\ pc = "parse" /\ next <= Len(feed)
  /\ target' = IF paced THEN Target(feed[next]) ELSE now
  /\ base' = IF paced THEN NewBase(feed[next]) ELSE base
  /\ pc' = "sleep"
  /\ UNCHANGED <<feed, truncated, now, m_speed_multiplier, paced, replayed, next, delivered>>

Callback == /\ pc = "sleep" /\ now >= target
            /\ pc' = "callback"
            /\ delivered' = Append(delivered, [due |-> target, at |-> now])
            /\ UNCHANGED <<feed, truncated, now, m_speed_multiplier, paced, replayed, base, target, next>>

set_speed(s) == /\ pc \in {"idle", "callback"} /\ s # m_speed_multiplier
                /\ m_speed_multiplier' = s
                /\ UNCHANGED <<feed, truncated, now, paced, replayed, base, pc, target, next, delivered>>

CallbackReturns == /\ pc = "callback" /\ pc' = "parse"
                   /\ replayed' = replayed + 1 /\ next' = next + 1
                   /\ UNCHANGED <<feed, truncated, now, m_speed_multiplier, paced, base, target, delivered>>

\* A truncated buffer makes parse throw after the last whole message.
Return == /\ pc = "parse" /\ next > Len(feed)
          /\ pc' = IF truncated THEN "threw" ELSE "returned"
          /\ UNCHANGED <<feed, truncated, now, m_speed_multiplier, paced, replayed, base, target, next, delivered>>

\* The clock.  Past MaxNow it only runs for a sleeper, as far as a target can lie.
Tick == /\ now < MaxNow \/ (pc = "sleep" /\ now < target /\ now < MaxNow + MaxTimestamp)
        /\ now' = now + 1
        /\ UNCHANGED <<feed, truncated, m_speed_multiplier, paced, replayed, base, pc, target, next, delivered>>

Thread == Begin \/ NextMessage \/ Callback \/ CallbackReturns \/ Return
Next   == Thread \/ Tick \/ \E s \in Speed : set_speed(s)

\* The thread is scheduled, the clock runs and callbacks return.
Spec == Init /\ [][Next]_vars /\ WF_vars(Thread) /\ WF_vars(Tick)

-----------------------------------------------------------------------------
\* Type invariant.  What was replayed counts the callbacks that returned, and a base is
\* only set by a paced replay.
TypeOK == /\ replayed = Len(delivered) - (IF pc = "callback" THEN 1 ELSE 0)
          /\ next = replayed + 1
          /\ base # NoBase => paced /\ base.wall \in 0 .. now

\* A message waits for its own time only: what the messages before it lost, to a slow
\* callback or a late wake-up, is caught up and does not add up.
LatenessDoesNotAddUp ==
  (pc = "sleep" /\ target > now) =>
    (target - delivered[1].due) * m_speed_multiplier <= feed[next] - feed[1]

\* ReplayEngine paces exactly, however late the thread woke up or the callback returned:
\* no message of a paced replay is handed over before the first one's wall time plus its
\* distance at the speed in force, and none waits for longer than that.
PacingIsExact ==
  [][/\ (pc = "sleep" /\ pc' = "callback" /\ paced /\ m_speed_multiplier > 0 /\ next > 1) =>
          (now - delivered[1].due + 1) * m_speed_multiplier > feed[next] - feed[1]
     /\ TypeOK' /\ LatenessDoesNotAddUp']_vars

\* Every message of the buffer is handed over and replay returns, or throws where the
\* buffer is cut: timestamps that run backwards and a speed set to 0 from the callback
\* included.
ReplayEnds == (pc = "parse") ~> (/\ pc = IF truncated THEN "threw" ELSE "returned"
                                /\ replayed = Len(feed))
=============================================================================
