-------------------------- MODULE Readers_proofs ---------------------------
(***************************************************************************)
(* Theorems about SoupBinTcp, for any streams, chunks, sessions and        *)
(* numbers of exceptions; about Framing, for any buffers and callbacks;    *)
(* about PyIterator, for any frames, filters and reads of the file.        *)
(***************************************************************************)
EXTENDS Readers, SequenceTheorems, FiniteSetTheorems, WellFoundedInduction, NaturalsInduction, TLAPS

\* A set of numbers that is not empty has a least one.
LEMMA LeastElement ==
  ASSUME NEW T, T \subseteq Nat, T # {}
  PROVE  \E x \in T : \A y \in T : x <= y
<1> DEFINE R == {ss \in Nat \X Nat : ss[1] < ss[2]}
<1>1. IsWellFoundedOn(R, Nat)
  BY NatLessThanWellFounded DEF OpToRel
<1>2. PICK x \in T : \A y \in T : ~ (<<y, x>> \in R)
  <2> HIDE DEF R
  <2> QED
    BY <1>1, WFMin
<1>3. ASSUME NEW y \in T PROVE x <= y
  <2>1. x \in Nat /\ y \in Nat /\ ~ (<<y, x>> \in R)
    BY <1>2
  <2>2. ~ (y < x)
    BY <2>1
  <2> QED
    BY <2>1, <2>2
<1> QED
  BY <1>3

\* Induction up to n: a set that holds 0 and, with each number below n, the next one,
\* holds every number up to n.
LEMMA UpTo ==
  ASSUME NEW n \in Nat, NEW T, 0 \in T, \A i \in 0 .. n - 1 : i \in T => i + 1 \in T
  PROVE  \A i \in 0 .. n : i \in T
<1> DEFINE Bad == {i \in 0 .. n : i \notin T}
<1>1. CASE Bad # {}
  <2>1. Bad \subseteq Nat
    OBVIOUS
  <2>2. PICK x \in Bad : \A y \in Bad : x <= y
    <3> HIDE DEF Bad
    <3> QED
      BY <1>1, <2>1, LeastElement
  <2>3. x \in 0 .. n /\ x \notin T /\ x # 0
    OBVIOUS
  <2>4. x - 1 \in 0 .. n - 1 /\ x - 1 \notin Bad
    BY <2>2, <2>3
  <2>5. x - 1 \in T
    BY <2>4
  <2> QED
    BY <2>3, <2>4, <2>5
<1> QED
  BY <1>1

-----------------------------------------------------------------------------

\* The recursive functions Ends and After are the ones their equations describe.
LEMMA EndsEquations ==
  ASSUME NEW packets, Len(packets) \in Nat
  PROVE  /\ Ends(packets)[0] = 0
         /\ \A k \in 1 .. Len(packets) : Ends(packets)[k] = Ends(packets)[k - 1] + 2 + packets[k].size
<1> DEFINE n == Len(packets)
           Rec(g, m) == g = [k \in 0 .. m |-> IF k = 0 THEN 0 ELSE g[k - 1] + 2 + packets[k].size]
           T == {m \in 0 .. n : \E g : Rec(g, m)}
<1>1. 0 \in T
  <2> DEFINE g == [k \in 0 .. 0 |-> 0]
  <2>1. Rec(g, 0)
    OBVIOUS
  <2>2. 0 \in 0 .. n
    OBVIOUS
  <2> HIDE DEF g, Rec
  <2> QED
    BY <2>1, <2>2
<1>2. ASSUME NEW i \in 0 .. n - 1, i \in T PROVE i + 1 \in T
  <2>1. PICK g : Rec(g, i)
    BY <1>2
  <2> DEFINE h == [k \in 0 .. i + 1 |-> IF k = i + 1 THEN g[i] + 2 + packets[i + 1].size ELSE g[k]]
  <2>2. Rec(h, i + 1)
    BY <2>1
  <2> HIDE DEF h, Rec
  <2>3. i + 1 \in 0 .. n
    OBVIOUS
  <2> QED
    BY <2>2, <2>3
<1>3. n \in T
  <2>1. n \in Nat /\ n \in 0 .. n
    OBVIOUS
  <2> HIDE DEF T, n
  <2> QED
    BY <1>1, <1>2, <2>1, UpTo
<1> DEFINE S == CHOOSE g : Rec(g, n)
<1>4. Rec(S, n)
  <2> HIDE DEF Rec
  <2> QED
    BY <1>3
<1>5. Ends(packets) = S
  BY DEF Ends
<1> HIDE DEF S
<1> QED
  BY SMTT(60), <1>4, <1>5

LEMMA AfterEquations ==
  ASSUME NEW packets, Len(packets) \in Nat
  PROVE  /\ After(packets)[0] = [session |-> NoSession, next |-> 1, messages |-> << >>]
         /\ \A k \in 1 .. Len(packets) :
              After(packets)[k] = Read(packets[k], k, After(packets)[k - 1])
<1> DEFINE n == Len(packets)
           Start == [session |-> NoSession, next |-> 1, messages |-> << >>]
           Rec(g, m) == g = [k \in 0 .. m |-> IF k = 0 THEN Start ELSE Read(packets[k], k, g[k - 1])]
           T == {m \in 0 .. n : \E g : Rec(g, m)}
<1> HIDE DEF Start
<1>1. 0 \in T
  <2> DEFINE g == [k \in 0 .. 0 |-> Start]
  <2>1. Rec(g, 0)
    OBVIOUS
  <2>2. 0 \in 0 .. n
    OBVIOUS
  <2> HIDE DEF g, Rec
  <2> QED
    BY <2>1, <2>2
<1>2. ASSUME NEW i \in 0 .. n - 1, i \in T PROVE i + 1 \in T
  <2>1. PICK g : Rec(g, i)
    BY <1>2
  <2> DEFINE h == [k \in 0 .. i + 1 |-> IF k = i + 1 THEN Read(packets[i + 1], i + 1, g[i]) ELSE g[k]]
  <2>2. Rec(h, i + 1)
    BY <2>1
  <2> HIDE DEF h, Rec
  <2>3. i + 1 \in 0 .. n
    OBVIOUS
  <2> QED
    BY <2>2, <2>3
<1>3. n \in T
  <2>1. n \in Nat /\ n \in 0 .. n
    OBVIOUS
  <2> HIDE DEF T, n
  <2> QED
    BY <1>1, <1>2, <2>1, UpTo
<1> DEFINE S == CHOOSE g : Rec(g, n)
<1>4. Rec(S, n)
  <2> HIDE DEF Rec
  <2> QED
    BY <1>3
<1>5. After(packets) = S
  BY DEF After, Start
<1> HIDE DEF S
<1>6. /\ S[0] = Start
      /\ \A k \in 1 .. n : S[k] = Read(packets[k], k, S[k - 1])
  BY SMTT(60), <1>4
<1> QED
  BY <1>5, <1>6 DEF Start

\* Each packet ends two bytes and its body behind the one before it.
LEMMA EndsStep ==
  ASSUME NEW packets, StreamOK(packets), NEW k \in 0 .. Len(packets) - 1
  PROVE  /\ k + 1 \in 1 .. Len(packets) /\ packets[k + 1].size \in Nat
         /\ Ends(packets)[k + 1] = Ends(packets)[k] + 2 + packets[k + 1].size
<1>1. k + 1 \in 1 .. Len(packets) /\ (k + 1) - 1 = k /\ Len(packets) \in Nat
  BY DEF StreamOK
<1>2. packets[k + 1].size \in Nat
  BY <1>1 DEF StreamOK, PacketOK
<1>3. Ends(packets)[k + 1] = Ends(packets)[(k + 1) - 1] + 2 + packets[k + 1].size
  BY <1>1, EndsEquations
<1> QED
  BY <1>1, <1>2, <1>3

LEMMA EndsType ==
  ASSUME NEW packets, StreamOK(packets)
  PROVE  \A k \in 0 .. Len(packets) : Ends(packets)[k] \in Nat
<1> DEFINE T == {k \in 0 .. Len(packets) : Ends(packets)[k] \in Nat}
<1>1. Len(packets) \in Nat
  BY DEF StreamOK
<1>2. 0 \in T
  BY <1>1, EndsEquations
<1>3. ASSUME NEW i \in 0 .. Len(packets) - 1, i \in T PROVE i + 1 \in T
  BY <1>1, <1>3, EndsStep
<1>4. \A k \in 0 .. Len(packets) : k \in T
  <2> HIDE DEF T
  <2> QED
    BY <1>1, <1>2, <1>3, UpTo
<1> QED
  BY <1>4

\* A packet ends behind the packets before it.
LEMMA EndsGrow ==
  ASSUME NEW packets, StreamOK(packets), NEW i \in 0 .. Len(packets)
  PROVE  \A k \in 0 .. Len(packets) : i < k => Ends(packets)[i] < Ends(packets)[k]
<1> DEFINE T == {k \in 0 .. Len(packets) : i < k => Ends(packets)[i] < Ends(packets)[k]}
<1>1. Len(packets) \in Nat
  BY DEF StreamOK
<1>2. 0 \in T
  BY <1>1
<1>3. ASSUME NEW k \in 0 .. Len(packets) - 1, k \in T PROVE k + 1 \in T
  <2>1. /\ packets[k + 1].size \in Nat
        /\ Ends(packets)[k + 1] = Ends(packets)[k] + 2 + packets[k + 1].size
    BY EndsStep
  <2>2. Ends(packets)[k] \in Nat /\ Ends(packets)[i] \in Nat
    BY <1>1, EndsType
  <2>3. k + 1 \in 0 .. Len(packets)
    BY <1>1
  <2>4. ASSUME i < k + 1 PROVE Ends(packets)[i] < Ends(packets)[k + 1]
    <3>1. CASE i = k
      BY <2>1, <2>2, <3>1
    <3>2. CASE i < k
      BY <1>3, <2>1, <2>2, <3>2
    <3> QED
      BY <2>4, <3>1, <3>2
  <2> QED
    BY <2>3, <2>4
<1>4. \A k \in 0 .. Len(packets) : k \in T
  <2> HIDE DEF T
  <2> QED
    BY <1>1, <1>2, <1>3, UpTo
<1> QED
  BY <1>4

\* What has been read of a stream has the types of the decoder's members.
LEMMA AfterStep ==
  ASSUME NEW packets, StreamOK(packets), NEW k \in 0 .. Len(packets) - 1
  PROVE  After(packets)[k + 1] = Read(packets[k + 1], k + 1, After(packets)[k])
<1>1. k + 1 \in 1 .. Len(packets) /\ (k + 1) - 1 = k /\ Len(packets) \in Nat
  BY DEF StreamOK
<1>2. After(packets)[k + 1] = Read(packets[k + 1], k + 1, After(packets)[(k + 1) - 1])
  BY <1>1, AfterEquations
<1> QED
  BY <1>1, <1>2

LEMMA AfterNext ==
  ASSUME NEW packets, StreamOK(packets)
  PROVE  \A k \in 0 .. Len(packets) : After(packets)[k].next \in Nat
<1> DEFINE T == {k \in 0 .. Len(packets) : After(packets)[k].next \in Nat}
<1>1. Len(packets) \in Nat
  BY DEF StreamOK
<1>2. 0 \in T
  BY <1>1, AfterEquations
<1>3. ASSUME NEW i \in 0 .. Len(packets) - 1, i \in T PROVE i + 1 \in T
  <2>1. PacketOK(packets[i + 1]) /\ i + 1 \in 0 .. Len(packets)
    BY <1>1 DEF StreamOK
  <2>2. After(packets)[i + 1].next \in Nat
    <3>1. PICK d : d = After(packets)[i]
      OBVIOUS
    <3>2. PICK p : p = packets[i + 1]
      OBVIOUS
    <3>3. After(packets)[i + 1] = Read(p, i + 1, d) /\ d.next \in Nat /\ PacketOK(p)
      BY <1>3, <2>1, <3>1, <3>2, AfterStep
    <3>4. After(packets)[i + 1].next \in {d.next, d.next + 1, 1, p.next}
      BY <3>3 DEF Read
    <3>5. CASE p.kind = "login_accepted"
      BY <3>3, <3>5 DEF Read, PacketOK
    <3>6. CASE p.kind # "login_accepted"
      BY <3>3, <3>6 DEF Read
    <3> QED
      BY <3>5, <3>6
  <2> QED
    BY <2>1, <2>2
<1>4. \A k \in 0 .. Len(packets) : k \in T
  <2> HIDE DEF T
  <2> QED
    BY <1>1, <1>2, <1>3, UpTo
<1> QED
  BY <1>4

\* Without a login the next number only grows.
LEMMA NextGrows ==
  ASSUME NEW packets, StreamOK(packets), NEW b \in 0 .. Len(packets), NEW j \in b .. Len(packets),
         \A i \in b + 1 .. j : packets[i].kind # "login_accepted"
  PROVE  After(packets)[b].next <= After(packets)[j].next
<1> DEFINE T == {k \in 0 .. j : b <= k => After(packets)[b].next <= After(packets)[k].next}
<1>1. Len(packets) \in Nat /\ j \in Nat /\ j <= Len(packets) /\ j \in 0 .. j
  BY DEF StreamOK
<1>2. \A k \in 0 .. Len(packets) : After(packets)[k].next \in Nat
  BY AfterNext
<1>3. 0 \in T
  BY <1>1, <1>2
<1>4. ASSUME NEW k \in 0 .. j - 1, k \in T PROVE k + 1 \in T
  <2>1. k \in 0 .. Len(packets) - 1 /\ k + 1 \in 0 .. j
    BY <1>1
  <2>2. ASSUME b <= k + 1, b # k + 1
        PROVE  After(packets)[b].next <= After(packets)[k + 1].next
    <3>1. k + 1 \in b + 1 .. j /\ b <= k
      BY <1>1, <2>2
    <3>2. packets[k + 1].kind # "login_accepted"
      BY <3>1
    <3>3. PICK d : d = After(packets)[k]
      OBVIOUS
    <3>4. d.next \in Nat /\ After(packets)[b].next <= d.next
      BY <1>2, <1>4, <2>1, <3>1, <3>3
    <3>5. After(packets)[k + 1] = Read(packets[k + 1], k + 1, d)
      BY <2>1, <3>3, AfterStep
    <3>6. After(packets)[k + 1].next \in {d.next, d.next + 1}
      BY <3>2, <3>5 DEF Read
    <3> QED
      BY <1>2, <3>4, <3>6
  <2> QED
    BY <1>1, <1>2, <2>1, <2>2
<1>5. \A k \in 0 .. j : k \in T
  <2> HIDE DEF T
  <2> QED
    BY <1>1, <1>3, <1>4, UpTo
<1> QED
  BY <1>1, <1>5

-----------------------------------------------------------------------------
(***************************************************************************)
(* The inductive invariant.  The buffer starts behind packet b, and feed() *)
(* has come behind packet j; an exception takes j back to b.               *)
(***************************************************************************)

Deliveries(i) == {k \in DOMAIN accepted : accepted[k] = i}

Base ==
  /\ StreamOK(stream)
  /\ m_session \in Session /\ m_next_sequence \in Nat
  /\ fed \in Nat /\ offset \in Nat /\ throws \in Nat /\ Len(m_buffer) \in Nat
  /\ Len(m_buffer) <= fed /\ fed <= EndOf(Len(stream))
  /\ m_buffer = Bytes(fed - Len(m_buffer), fed)
  /\ accepted \in Seq(1 .. Len(stream))
  /\ pc \in {"new", "idle", "loop"}

Fresh ==
  pc = "new" =>
    /\ stream = << >> /\ m_buffer = << >> /\ accepted = << >> /\ swallowed = {}
    /\ fed = 0 /\ offset = 0 /\ throws = 0
    /\ m_session = NoSession /\ m_next_sequence = 1

\* Packet boundaries.
Placed(b, j) ==
  /\ b \in 0 .. Len(stream) /\ j \in b .. Len(stream)
  /\ fed - Len(m_buffer) = EndOf(b)
  /\ EndOf(b) + offset = EndOf(j) /\ EndOf(j) <= fed
  /\ pc # "loop" => b = j

\* The messages of the packets passed have been delivered, each at most once more than
\* there were exceptions.
Delivered(j) == \A i \in 1 .. j : Carries(i) => (\E k \in DOMAIN accepted : accepted[k] = i) \/ i \in swallowed
Repeated(j) ==
  \A i \in 1 .. Len(stream) :
    /\ IsFiniteSet(Deliveries(i))
    /\ Cardinality(Deliveries(i)) <= throws + (IF i <= j THEN 1 ELSE 0)

\* The next number has run ahead, unless a login that sets it is yet to be read again.
Ahead(j) ==
  \/ m_next_sequence >= After(stream)[j].next
  \/ \E i \in j + 1 .. Len(stream) : stream[i].kind = "login_accepted" /\ EndOf(i) <= fed

\* Without exceptions the decoder is the one that sees whole packets.
Exact(j) ==
  throws = 0 =>
    /\ m_session = After(stream)[j].session /\ m_next_sequence = After(stream)[j].next
    /\ swallowed = {} => accepted = After(stream)[j].messages
    /\ pc # "loop" => j = Len(stream) \/ fed < EndOf(j + 1)

At(b, j) == Placed(b, j) /\ Delivered(j) /\ Repeated(j) /\ Ahead(j) /\ Exact(j)

\* The tracker and the history of what it was told.
Tracked ==
  /\ m_tracker.expected \in [Session -> Nat \cup {Unseen}]
  /\ first \in [Session -> Nat \cup {Unseen}]
  /\ \A s \in Session :
       /\ first[s] = Unseen <=> m_tracker.expected[s] = Unseen
       /\ first[s] # Unseen =>
            \A n \in first[s] .. m_tracker.expected[s] - 1 : <<s, n>> \in heard \cup reported

Reading == Base /\ Fresh /\ \E b \in 0 .. Len(stream) : \E j \in b .. Len(stream) : At(b, j)

\* Observing the next number keeps the tracker's account of the session.
LEMMA ObserveTracked ==
  ASSUME Tracked, m_session \in Session, m_next_sequence \in Nat, observe_next,
         first' = [first EXCEPT ![m_session] = IF @ = Unseen THEN m_next_sequence ELSE @],
         heard' = heard \cup {<<m_session, m_next_sequence>>}
  PROVE  Tracked'
<1>1. PICK u : u = m_session
  OBVIOUS
<1>2. PICK n : n = m_next_sequence
  OBVIOUS
<1>3. PICK E : E = m_tracker.expected
  OBVIOUS
<1>4. PICK x : x = Expected(m_tracker, u, n, 1)
  OBVIOUS
<1>5. /\ u \in Session /\ n \in Nat /\ E \in [Session -> Nat \cup {Unseen}]
      /\ first \in [Session -> Nat \cup {Unseen}]
  BY <1>1, <1>2, <1>3 DEF Tracked
<1>6. /\ x \in Nat
      /\ E[u] = Unseen => x = n + 1
      /\ E[u] # Unseen => x = IF n + 1 > E[u] THEN n + 1 ELSE E[u]
  BY <1>3, <1>4, <1>5 DEF Expected, Known, Unseen
<1>7. m_tracker'.expected = [E EXCEPT ![u] = x]
  BY <1>1, <1>2, <1>3, <1>4 DEF observe_next, observe
<1>8. first' = [first EXCEPT ![u] = IF first[u] = Unseen THEN n ELSE first[u]]
  BY <1>1, <1>2
<1>9. E[u] # Unseen => \A k \in E[u] .. n - 1 : <<u, k>> \in reported'
  BY <1>1, <1>2, <1>3 DEF observe_next, Missing, Known
<1>10. heard' = heard \cup {<<u, n>>} /\ reported \subseteq reported'
  BY <1>1, <1>2 DEF observe_next
<1>11. /\ m_tracker'.expected \in [Session -> Nat \cup {Unseen}]
       /\ first' \in [Session -> Nat \cup {Unseen}]
  BY <1>5, <1>6, <1>7, <1>8
<1>12. ASSUME NEW s \in Session
       PROVE  /\ first'[s] = Unseen <=> m_tracker'.expected[s] = Unseen
              /\ first'[s] # Unseen =>
                   \A k \in first'[s] .. m_tracker'.expected[s] - 1 : <<s, k>> \in heard' \cup reported'
  <2>1. /\ first[s] = Unseen <=> E[s] = Unseen
        /\ first[s] # Unseen => \A k \in first[s] .. E[s] - 1 : <<s, k>> \in heard \cup reported
    BY <1>3 DEF Tracked
  <2>2. CASE s # u
    <3>1. m_tracker'.expected[s] = E[s] /\ first'[s] = first[s]
      BY <1>5, <1>7, <1>8, <2>2
    <3> QED
      BY <1>10, <2>1, <3>1
  <2>3. CASE s = u /\ E[s] = Unseen
    <3>1. m_tracker'.expected[s] = n + 1 /\ first'[s] = n /\ first[s] = Unseen
      BY <1>5, <1>6, <1>7, <1>8, <2>1, <2>3
    <3>2. n \in Nat /\ n # Unseen /\ n + 1 # Unseen
      BY <1>5 DEF Unseen
    <3>3. ASSUME NEW k \in n .. (n + 1) - 1 PROVE <<s, k>> \in heard'
      BY <1>10, <2>3, <3>2
    <3> QED
      BY <3>1, <3>2, <3>3
  <2>4. CASE s = u /\ E[s] # Unseen
    <3>1. m_tracker'.expected[s] = x /\ first'[s] = first[s] /\ first[s] # Unseen
      BY <1>5, <1>7, <1>8, <2>1, <2>4
    <3>2. first[s] \in Nat /\ E[s] \in Nat /\ x # Unseen
      BY <1>5, <1>6, <2>4, <3>1 DEF Unseen
    <3>3. ASSUME NEW k \in first[s] .. x - 1 PROVE <<s, k>> \in heard' \cup reported'
      <4>1. k \in first[s] .. E[s] - 1 \/ k \in E[s] .. n - 1 \/ k = n
        BY <1>5, <1>6, <2>4, <3>2
      <4> QED
        BY <1>9, <1>10, <2>1, <2>4, <3>1, <4>1
    <3> QED
      BY <3>1, <3>2, <3>3
  <2> QED
    BY <2>2, <2>3, <2>4
<1> QED
  BY <1>11, <1>12 DEF Tracked

\* What any step does to the session and the number, as seen by the tracker.
LEMMA TrackedStep ==
  ASSUME Base, Tracked, [Next]_vars
  PROVE  Tracked'
<1>1. CASE UNCHANGED <<m_tracker, history>>
  BY <1>1 DEF Tracked, history
<1>2. CASE ProcessSequenced
  BY <1>2, ObserveTracked DEF Base, ProcessSequenced
<1> QED
  BY <1>1, <1>2 DEF Next, vars, decoder, Connect, feed, SkipZeroLength, Return, ProcessControl,
     ProcessUnsequenced, history

-----------------------------------------------------------------------------
\* The byte behind a packet is of the next one.
LEMMA ByteBehind ==
  ASSUME StreamOK(stream), NEW j \in 0 .. Len(stream) - 1
  PROVE  Byte(EndOf(j) + 1)[1] = j + 1
<1> DEFINE n == EndOf(j) + 1
           E == Ends(stream)
<1>1. Len(stream) \in Nat /\ j + 1 \in 1 .. Len(stream) /\ j \in 0 .. Len(stream)
  BY DEF StreamOK
<1>2. \A k \in 0 .. Len(stream) : E[k] \in Nat
  BY EndsType
<1>3. \A i, k \in 0 .. Len(stream) : i < k => E[i] < E[k]
  BY EndsGrow
<1>4. E[(j + 1) - 1] < n /\ n <= E[j + 1]
  <2>1. (j + 1) - 1 = j /\ E[j + 1] \in Nat /\ E[j] \in Nat /\ E[j] < E[j + 1]
    <3> HIDE DEF E
    <3> QED
      BY <1>1, <1>2, <1>3
  <2> QED
    BY <2>1 DEF EndOf
<1>5. ASSUME NEW i \in 1 .. Len(stream), E[i - 1] < n, n <= E[i] PROVE i = j + 1
  <2>1. n = E[j] + 1
    BY DEF EndOf
  <2> HIDE DEF E, n
  <2>2. i - 1 \in 0 .. Len(stream) /\ i \in 0 .. Len(stream)
    BY <1>1
  <2>3. ~ (i <= j)
    <3>1. ASSUME i <= j PROVE FALSE
      <4>1. E[i] <= E[j]
        BY <1>1, <1>2, <1>3, <2>2, <3>1
      <4> QED
        BY <1>1, <1>2, <1>5, <2>1, <2>2, <4>1
    <3> QED
      BY <3>1
  <2>4. ~ (i > j + 1)
    <3>1. ASSUME i > j + 1 PROVE FALSE
      <4>1. j + 1 <= i - 1 /\ j + 1 \in 0 .. Len(stream)
        BY <1>1, <3>1
      <4>2. E[j + 1] <= E[i - 1]
        BY <1>2, <1>3, <2>2, <4>1
      <4>3. E[j] < E[j + 1]
        BY <1>1, <1>3, <4>1
      <4>4. E[j] \in Nat /\ E[j + 1] \in Nat /\ E[i - 1] \in Nat
        BY <1>1, <1>2, <2>2, <4>1
      <4>5. \A x, y, z \in Nat : x < y /\ y <= z => ~ (z < x + 1)
        OBVIOUS
      <4> QED
        BY <1>5, <2>1, <4>2, <4>3, <4>4, <4>5
    <3> QED
      BY <3>1
  <2> QED
    BY <1>1, <2>3, <2>4
<1>6. PacketAt(n) = j + 1
  <2>1. PacketAt(n) = CHOOSE i \in 1 .. Len(stream) : E[i - 1] < n /\ n <= E[i]
    BY DEF PacketAt, EndOf
  <2> HIDE DEF E, n
  <2> QED
    BY <1>1, <1>4, <1>5, <2>1
<1> QED
  BY <1>6 DEF Byte

\* The packet feed() has come to.
LEMMA PacketIs ==
  ASSUME Base, NEW b, NEW j, Placed(b, j), HasPrefix
  PROVE  /\ j + 1 \in 1 .. Len(stream) /\ j \in 0 .. Len(stream) - 1
         /\ Packet = j + 1 /\ stream[j + 1].size \in Nat
         /\ EndOf(j + 1) = EndOf(j) + 2 + stream[j + 1].size
         /\ HasPacket <=> stream[j + 1].size > 0 /\ EndOf(j + 1) <= fed
<1>1. /\ Len(stream) \in Nat /\ b \in 0 .. Len(stream) /\ j \in 0 .. Len(stream)
      /\ StreamOK(stream)
  BY DEF Base, StreamOK, Placed
<1>2. EndOf(b) \in Nat /\ EndOf(j) \in Nat /\ EndOf(Len(stream)) \in Nat
  BY <1>1, EndsType DEF EndOf
<1>3. /\ fed \in Nat /\ offset \in Nat /\ Len(m_buffer) \in Nat /\ fed <= EndOf(Len(stream))
      /\ fed - Len(m_buffer) = EndOf(b) /\ EndOf(b) + offset = EndOf(j)
      /\ Len(m_buffer) - offset >= 2
  BY DEF Base, Placed, HasPrefix
<1>4. fed >= EndOf(j) + 2
  BY <1>2, <1>3
<1>5. j # Len(stream)
  BY <1>2, <1>3, <1>4
<1>6. j \in 0 .. Len(stream) - 1 /\ j + 1 \in 1 .. Len(stream)
  BY <1>1, <1>5
<1>7. stream[j + 1].size \in Nat /\ EndOf(j + 1) = EndOf(j) + 2 + stream[j + 1].size
  BY <1>1, <1>6, EndsStep DEF EndOf
<1>8. Packet = j + 1
  <2>1. m_buffer = [k \in 1 .. fed - (fed - Len(m_buffer)) |-> Byte(fed - Len(m_buffer) + k)]
    BY DEF Base, Bytes
  <2>2. offset + 1 \in 1 .. fed - (fed - Len(m_buffer))
    BY <1>3
  <2>3. m_buffer[offset + 1] = Byte(fed - Len(m_buffer) + (offset + 1))
    BY <2>1, <2>2
  <2>4. fed - Len(m_buffer) + (offset + 1) = EndOf(j) + 1
    BY <1>2, <1>3
  <2> QED
    BY <1>1, <1>6, <2>3, <2>4, ByteBehind DEF Packet
<1>9. HasPacket <=> stream[j + 1].size > 0 /\ EndOf(j + 1) <= fed
  <2>1. HasPacket <=> stream[j + 1].size > 0 /\ Len(m_buffer) - offset >= 2 + stream[j + 1].size
    BY <1>8 DEF HasPacket
  <2>2. Len(m_buffer) - offset >= 2 + stream[j + 1].size <=> EndOf(j + 1) <= fed
    <3>1. PICK e : e = EndOf(j)
      OBVIOUS
    <3>2. PICK z : z = stream[j + 1].size
      OBVIOUS
    <3>3. e \in Nat /\ z \in Nat /\ EndOf(j + 1) = e + 2 + z
      BY <1>2, <1>7, <3>1, <3>2
    <3>4. PICK L \in Nat : L = Len(m_buffer)
      BY <1>3
    <3>5. fed - L = EndOf(b) /\ EndOf(b) + offset = e
      BY <1>3, <3>1, <3>4
    <3>6. L - offset = fed - e
      BY <1>2, <1>3, <3>3, <3>5
    <3>7. L - offset >= 2 + z <=> e + 2 + z <= fed
      BY <1>3, <3>3, <3>4, <3>6
    <3> QED
      BY <3>2, <3>3, <3>4, <3>7
  <2> QED
    BY <2>1, <2>2
<1> QED
  BY <1>6, <1>7, <1>8, <1>9

\* What a packet does to the session and the next number, whether its callback throws or not.
SessionRead(p) ==
  /\ m_session' = IF p.kind = "login_accepted" THEN p.session ELSE m_session
  /\ m_next_sequence' = CASE p.kind = "login_accepted" -> IF p.next = 0 THEN 1 ELSE p.next
                          [] p.kind = "sequenced_data" -> m_next_sequence + 1
                          [] OTHER                     -> m_next_sequence

LEMMA BaseKept ==
  ASSUME Base, UNCHANGED <<stream, fed, m_buffer>>, m_session' \in Session,
         m_next_sequence' \in Nat, offset' \in Nat, throws' \in Nat,
         accepted' \in Seq(1 .. Len(stream)), pc' \in {"new", "idle", "loop"}
  PROVE  Base'
<1>1. EndOf(Len(stream))' = EndOf(Len(stream))
  BY DEF EndOf
<1>2. Bytes(fed - Len(m_buffer), fed)' = Bytes(fed - Len(m_buffer), fed)
  BY DEF Bytes, Byte, PacketAt, EndOf
<1> QED
  BY <1>1, <1>2 DEF Base

LEMMA SessionReadType ==
  ASSUME Base, NEW p, PacketOK(p), SessionRead(p)
  PROVE  m_session' \in Session /\ m_next_sequence' \in Nat
<1>1. CASE p.kind = "login_accepted"
  BY <1>1 DEF Base, PacketOK, SessionRead
<1>2. CASE p.kind # "login_accepted"
  BY <1>2 DEF Base, SessionRead
<1> QED
  BY <1>1, <1>2

\* The next number stays ahead over a packet.
LEMMA AheadStep ==
  ASSUME Base, NEW j \in 0 .. Len(stream) - 1, Ahead(j), SessionRead(stream[j + 1]),
         UNCHANGED <<stream, fed>>
  PROVE  Ahead(j + 1)'
<1>1. PICK p : p = stream[j + 1]
  OBVIOUS
<1>2. PICK d : d = After(stream)[j]
  OBVIOUS
<1>3. /\ StreamOK(stream) /\ Len(stream) \in Nat /\ j + 1 \in 1 .. Len(stream)
      /\ j \in 0 .. Len(stream) /\ PacketOK(p)
  BY <1>1 DEF Base, StreamOK
<1>4. After(stream)[j + 1] = Read(p, j + 1, d) /\ d.next \in Nat /\ m_next_sequence \in Nat
  BY <1>1, <1>2, <1>3, AfterStep, AfterNext DEF Base
<1>5. After(stream)'[j + 1] = Read(p, j + 1, d)
  BY <1>4
<1>6. CASE p.kind = "login_accepted"
  <2>1. m_next_sequence' = Read(p, j + 1, d).next
    BY <1>1, <1>6 DEF SessionRead, Read
  <2>2. m_next_sequence' \in Nat
    BY <1>1, <1>3, SessionReadType
  <2> QED
    BY <1>5, <2>1, <2>2 DEF Ahead
<1>7. CASE p.kind # "login_accepted"
  <2>1. CASE m_next_sequence >= d.next
    <3>1. \/ Read(p, j + 1, d).next = d.next + 1 /\ m_next_sequence' = m_next_sequence + 1
          \/ Read(p, j + 1, d).next = d.next /\ m_next_sequence' = m_next_sequence
      BY <1>1, <1>7 DEF SessionRead, Read
    <3>2. m_next_sequence' >= Read(p, j + 1, d).next
      BY <1>4, <2>1, <3>1
    <3> QED
      BY <1>5, <3>2 DEF Ahead
  <2>2. CASE \E i \in j + 1 .. Len(stream) : stream[i].kind = "login_accepted" /\ EndOf(i) <= fed
    <3>1. PICK i \in j + 1 .. Len(stream) : stream[i].kind = "login_accepted" /\ EndOf(i) <= fed
      BY <2>2
    <3>2. i # j + 1
      BY <1>1, <1>7, <3>1
    <3>3. i \in (j + 1) + 1 .. Len(stream)
      BY <1>3, <3>2
    <3>4. (stream[i].kind = "login_accepted")' /\ (EndOf(i) <= fed)'
      BY <3>1 DEF EndOf
    <3> QED
      BY <3>3, <3>4 DEF Ahead
  <2> QED
    BY <1>2, <2>1, <2>2 DEF Ahead
<1> QED
  BY <1>6, <1>7

\* And it stays ahead when an exception takes the loop back to the start of the buffer.
LEMMA AheadEscape ==
  ASSUME Base, NEW b \in 0 .. Len(stream), NEW j \in b .. Len(stream) - 1, Ahead(j),
         SessionRead(stream[j + 1]), EndOf(j + 1) <= fed, EndOf(j) <= fed,
         UNCHANGED <<stream, fed>>
  PROVE  Ahead(b)'
<1>1. /\ StreamOK(stream) /\ Len(stream) \in Nat /\ j + 1 \in 1 .. Len(stream)
      /\ j \in 0 .. Len(stream) /\ fed \in Nat /\ j \in 0 .. Len(stream) - 1
  BY DEF Base, StreamOK
<1>2. CASE \E i \in b + 1 .. j + 1 : stream[i].kind = "login_accepted"
  <2>1. PICK i \in b + 1 .. j + 1 : stream[i].kind = "login_accepted"
    BY <1>2
  <2>2. i \in b + 1 .. Len(stream) /\ i \in 0 .. Len(stream) /\ j + 1 \in 0 .. Len(stream)
    BY <1>1
  <2>3. EndOf(i) <= EndOf(j + 1) /\ EndOf(i) \in Nat /\ EndOf(j + 1) \in Nat
    <3>1. EndOf(i) \in Nat /\ EndOf(j + 1) \in Nat
      BY <1>1, <2>2, EndsType DEF EndOf
    <3>2. i < j + 1 => EndOf(i) < EndOf(j + 1)
      BY <1>1, <2>2, EndsGrow DEF EndOf
    <3> QED
      BY <1>1, <3>1, <3>2
  <2>4. EndOf(i) <= fed
    BY <1>1, <2>3
  <2>5. (stream[i].kind = "login_accepted")' /\ (EndOf(i) <= fed)'
    BY <2>1, <2>4 DEF EndOf
  <2> QED
    BY <2>2, <2>5 DEF Ahead
<1>3. CASE \A i \in b + 1 .. j + 1 : stream[i].kind # "login_accepted"
  <2>1. Ahead(j + 1)'
    BY <1>1, AheadStep
  <2>2. j + 1 \in b .. Len(stream)
    BY <1>1
  <2>3. After(stream)[b].next <= After(stream)[j + 1].next
    BY <1>1, <1>3, <2>2, NextGrows
  <2>4. After(stream)[b].next \in Nat /\ After(stream)[j + 1].next \in Nat
    BY <1>1, <2>2, AfterNext
  <2>5. m_next_sequence' \in Nat
    BY <1>1, SessionReadType DEF StreamOK
  <2>6. CASE m_next_sequence' >= After(stream)'[j + 1].next
    <3>1. m_next_sequence' >= After(stream)'[b].next
      BY <2>3, <2>4, <2>5, <2>6
    <3> QED
      BY <3>1 DEF Ahead
  <2>7. CASE \E i \in (j + 1) + 1 .. Len(stream)' : (stream[i].kind = "login_accepted")' /\ (EndOf(i) <= fed)'
    <3>1. PICK i \in (j + 1) + 1 .. Len(stream)' : (stream[i].kind = "login_accepted")' /\ (EndOf(i) <= fed)'
      BY <2>7
    <3>2. i \in b + 1 .. Len(stream)'
      BY <1>1
    <3> QED
      BY <3>1, <3>2 DEF Ahead
  <2> QED
    BY <2>1, <2>6, <2>7 DEF Ahead
<1> QED
  BY <1>2, <1>3

\* What happens to the message of packet i in a step.
Handled(i) ==
  \/ ~ Carries(i) /\ UNCHANGED <<accepted, swallowed>>
  \/ Carries(i) /\ accepted' = Append(accepted, i) /\ UNCHANGED swallowed
  \/ Carries(i) /\ UNCHANGED accepted /\ swallowed' = swallowed \cup {i}

\* The deliveries of a message before and after one more.
LEMMA DeliveriesAfter ==
  ASSUME NEW x, accepted \in Seq(1 .. x), NEW i, accepted' = Append(accepted, i)
  PROVE  /\ \A k : k # i => Deliveries(k)' = Deliveries(k)
         /\ Deliveries(i)' = Deliveries(i) \cup {Len(accepted) + 1}
         /\ Len(accepted) + 1 \notin Deliveries(i)
<1>1. PICK n : n = Len(accepted)
  OBVIOUS
<1>2. n \in Nat /\ DOMAIN accepted = 1 .. n
  BY <1>1, LenProperties
<1>3. /\ DOMAIN accepted' = 1 .. n + 1
      /\ \A k \in 1 .. n : accepted'[k] = accepted[k]
      /\ accepted'[n + 1] = i
  <2>1. i \in {i} \cup (1 .. x) /\ accepted \in Seq({i} \cup (1 .. x))
    <3>1. accepted \in [1 .. n -> 1 .. x]
      BY <1>1, LenProperties
    <3>2. accepted \in [1 .. n -> {i} \cup (1 .. x)]
      BY <3>1
    <3> QED
      BY <1>2, <3>2, SeqDef
  <2> QED
    BY <1>1, <2>1, AppendProperties
<1>4. \A k : Deliveries(k)' = {m \in 1 .. n + 1 : accepted'[m] = k}
  BY <1>3 DEF Deliveries
<1>5. \A k : Deliveries(k) = {m \in 1 .. n : accepted[m] = k}
  BY <1>2 DEF Deliveries
<1>6. ASSUME NEW k, k # i PROVE Deliveries(k)' = Deliveries(k)
  <2>1. \A m : m \in Deliveries(k)' <=> m \in Deliveries(k)
    BY <1>2, <1>3, <1>4, <1>5, <1>6
  <2> QED
    BY <2>1
<1>7. \A m : m \in Deliveries(i)' <=> m \in Deliveries(i) \cup {n + 1}
  BY <1>2, <1>3, <1>4, <1>5
<1>8. n + 1 \notin Deliveries(i)
  BY <1>2, <1>5
<1> QED
  BY <1>1, <1>6, <1>7, <1>8

\* A packet that was handled is delivered, and not too often.
LEMMA DeliveredStep ==
  ASSUME Base, NEW j \in 0 .. Len(stream) - 1, Delivered(j), Handled(j + 1), UNCHANGED stream
  PROVE  Delivered(j + 1)'
<1> SUFFICES ASSUME NEW i \in 1 .. j + 1, Carries(i)'
             PROVE  (\E k \in DOMAIN accepted' : accepted'[k] = i) \/ i \in swallowed'
  BY DEF Delivered
<1>1. Len(stream) \in Nat /\ Carries(i)
  BY DEF Base, StreamOK, Carries
<1>2. CASE i # j + 1
  <2>1. (\E k \in DOMAIN accepted : accepted[k] = i) \/ i \in swallowed
    BY <1>1, <1>2 DEF Delivered
  <2>2. ASSUME NEW k \in DOMAIN accepted, accepted' = Append(accepted, j + 1)
        PROVE  k \in DOMAIN accepted' /\ accepted'[k] = accepted[k]
    <3>1. accepted \in Seq(1 .. Len(stream)) /\ j + 1 \in 1 .. Len(stream)
      BY <1>1 DEF Base
    <3>2. PICK n : n = Len(accepted)
      OBVIOUS
    <3>3. DOMAIN accepted = 1 .. n /\ n \in Nat
      BY <3>1, <3>2, LenProperties
    <3>4. DOMAIN accepted' = 1 .. n + 1 /\ \A m \in 1 .. n : accepted'[m] = accepted[m]
      BY <2>2, <3>1, <3>2, AppendProperties
    <3> QED
      BY <3>3, <3>4
  <2> QED
    BY <2>1, <2>2 DEF Handled
<1>3. CASE i = j + 1
  <2>1. CASE accepted' = Append(accepted, j + 1)
    <3>1. Deliveries(j + 1)' = Deliveries(j + 1) \cup {Len(accepted) + 1}
      BY <2>1, DeliveriesAfter DEF Base
    <3>2. Len(accepted) + 1 \in Deliveries(j + 1)'
      BY <3>1
    <3> QED
      BY <1>3, <3>2 DEF Deliveries
  <2> QED
    BY <1>1, <1>3, <2>1 DEF Handled
<1> QED
  BY <1>2, <1>3

LEMMA RepeatedStep ==
  ASSUME Base, NEW j \in 0 .. Len(stream) - 1, Repeated(j), Handled(j + 1),
         UNCHANGED <<stream, throws>>
  PROVE  Repeated(j + 1)'
<1>1. Len(stream) \in Nat /\ throws \in Nat /\ j + 1 \in 1 .. Len(stream)
  BY DEF Base, StreamOK
<1>2. ASSUME NEW i \in 1 .. Len(stream)
      PROVE  /\ IsFiniteSet(Deliveries(i))'
             /\ Cardinality(Deliveries(i))' <= throws + (IF i <= j + 1 THEN 1 ELSE 0)
  <2>1. /\ IsFiniteSet(Deliveries(i)) /\ Cardinality(Deliveries(i)) \in Nat
        /\ Cardinality(Deliveries(i)) <= throws + (IF i <= j THEN 1 ELSE 0)
    BY FS_CardinalityType DEF Repeated
  <2>2. CASE accepted' = Append(accepted, j + 1) /\ i = j + 1
    <3>1. /\ Deliveries(i)' = Deliveries(i) \cup {Len(accepted) + 1}
          /\ Len(accepted) + 1 \notin Deliveries(i)
      BY <2>2, DeliveriesAfter DEF Base
    <3>2. /\ IsFiniteSet(Deliveries(i)')
          /\ Cardinality(Deliveries(i)') = Cardinality(Deliveries(i)) + 1
      BY <2>1, <3>1, FS_AddElement
    <3>3. ~ (i <= j) /\ i <= j + 1
      BY <1>1, <2>2
    <3> QED
      BY <1>1, <2>1, <3>2, <3>3
  <2>3. CASE UNCHANGED accepted \/ (accepted' = Append(accepted, j + 1) /\ i # j + 1)
    <3>1. Deliveries(i)' = Deliveries(i)
      <4>1. CASE UNCHANGED accepted
        BY <4>1 DEF Deliveries
      <4>2. CASE accepted' = Append(accepted, j + 1) /\ i # j + 1
        BY <4>2, DeliveriesAfter DEF Base
      <4> QED
        BY <2>3, <4>1, <4>2
    <3>2. i <= j => i <= j + 1
      BY <1>1
    <3> QED
      BY <1>1, <2>1, <3>1, <3>2
  <2> QED
    BY <2>2, <2>3 DEF Handled
<1> QED
  BY <1>2 DEF Repeated

LEMMA ExactStep ==
  ASSUME Base, pc = "loop", NEW j \in 0 .. Len(stream) - 1, Exact(j), SessionRead(stream[j + 1]),
         Handled(j + 1), UNCHANGED <<stream, throws, pc>>
  PROVE  Exact(j + 1)'
<1> SUFFICES ASSUME throws' = 0
             PROVE  /\ m_session' = After(stream)'[j + 1].session
                    /\ m_next_sequence' = After(stream)'[j + 1].next
                    /\ swallowed' = {} => accepted' = After(stream)'[j + 1].messages
  BY DEF Exact
<1>1. PICK p : p = stream[j + 1]
  OBVIOUS
<1>2. PICK d : d = After(stream)[j]
  OBVIOUS
<1>3. StreamOK(stream) /\ throws = 0
  BY DEF Base
<1>4. After(stream)'[j + 1] = Read(p, j + 1, d)
  BY <1>1, <1>2, <1>3, AfterStep
<1>5. /\ m_session = d.session /\ m_next_sequence = d.next
      /\ swallowed = {} => accepted = d.messages
  BY <1>2, <1>3 DEF Exact
<1>6. m_session' = Read(p, j + 1, d).session /\ m_next_sequence' = Read(p, j + 1, d).next
  BY <1>1, <1>5 DEF SessionRead, Read
<1>7. ASSUME swallowed' = {} PROVE accepted' = Read(p, j + 1, d).messages
  <2>1. Read(p, j + 1, d).messages = IF CarriesMessage(p) THEN Append(d.messages, j + 1) ELSE d.messages
    BY DEF Read
  <2>2. Carries(j + 1) <=> CarriesMessage(p)
    BY <1>1 DEF Carries
  <2>3. swallowed = {} /\ ~ (swallowed' = swallowed \cup {j + 1})
    BY <1>7 DEF Handled
  <2> QED
    BY <1>5, <2>1, <2>2, <2>3 DEF Handled
<1> QED
  BY <1>4, <1>6, <1>7

\* The loop goes on behind a packet it has processed or skipped.
LEMMA Passing ==
  ASSUME Base, pc = "loop", NEW b, NEW j, At(b, j), HasPrefix, EndOf(j + 1) <= fed,
         SessionRead(stream[j + 1]), Handled(j + 1),
         offset' = offset + 2 + stream[j + 1].size,
         UNCHANGED <<stream, fed, throws, pc, m_buffer>>
  PROVE  Base' /\ At(b, j + 1)'
<1>1. /\ j + 1 \in 1 .. Len(stream) /\ j \in 0 .. Len(stream) - 1 /\ stream[j + 1].size \in Nat
      /\ EndOf(j + 1) = EndOf(j) + 2 + stream[j + 1].size
  BY PacketIs DEF At
<1>2. /\ Len(stream) \in Nat /\ PacketOK(stream[j + 1]) /\ offset \in Nat /\ fed \in Nat
      /\ StreamOK(stream)
  BY <1>1 DEF Base, StreamOK
<1>3. accepted' \in Seq(1 .. Len(stream))
  <2>1. accepted \in Seq(1 .. Len(stream))
    BY DEF Base
  <2>2. Append(accepted, j + 1) \in Seq(1 .. Len(stream))
    BY <1>1, <2>1, AppendProperties
  <2> QED
    BY <2>1, <2>2 DEF Handled
<1>4. Base'
  <2>1. m_session' \in Session /\ m_next_sequence' \in Nat
    BY <1>2, SessionReadType
  <2>2. offset' \in Nat /\ throws' \in Nat /\ pc' \in {"new", "idle", "loop"}
    BY <1>1, <1>2 DEF Base
  <2> QED
    BY <1>3, <2>1, <2>2, BaseKept
<1>5. Placed(b, j + 1)'
  <2>1. /\ b \in 0 .. Len(stream) /\ j \in b .. Len(stream) /\ fed - Len(m_buffer) = EndOf(b)
        /\ EndOf(b) + offset = EndOf(j)
    BY DEF At, Placed
  <2>2. EndOf(b) \in Nat /\ EndOf(j) \in Nat
    <3>1. j \in 0 .. Len(stream)
      BY <1>1, <1>2
    <3> QED
      BY <1>2, <2>1, <3>1, EndsType DEF EndOf
  <2>3. j + 1 \in b .. Len(stream)
    BY <1>1, <1>2, <2>1
  <2>4. EndOf(b) + offset' = EndOf(j + 1)
    <3>1. PICK z \in Nat : z = stream[j + 1].size
      BY <1>1
    <3>2. PICK o \in Nat : o = offset
      BY <1>2
    <3>3. PICK x \in Nat : x = EndOf(b)
      BY <2>2
    <3>4. /\ EndOf(j) = x + o /\ EndOf(j + 1) = EndOf(j) + 2 + z
          /\ offset' = o + 2 + z
      BY <1>1, <2>1, <3>1, <3>2, <3>3
    <3>5. EndOf(j + 1) = (x + o) + 2 + z /\ EndOf(b) + offset' = x + (o + 2 + z)
      BY <3>3, <3>4
    <3>6. x + (o + 2 + z) = (x + o) + 2 + z
      OBVIOUS
    <3> QED
      BY <3>5, <3>6
  <2>5. EndOf(b)' = EndOf(b) /\ EndOf(j + 1)' = EndOf(j + 1)
    BY DEF EndOf
  <2> QED
    BY <2>1, <2>3, <2>4, <2>5 DEF Placed
<1>6. Delivered(j + 1)' /\ Repeated(j + 1)' /\ Ahead(j + 1)' /\ Exact(j + 1)'
  BY <1>1, DeliveredStep, RepeatedStep, AheadStep, ExactStep DEF At
<1> QED
  BY <1>4, <1>5, <1>6 DEF At

\* An exception leaves the buffer, and with it the packets of the call, for the next one.
LEMMA Escaping ==
  ASSUME Base, pc = "loop", NEW b, NEW j, At(b, j), HasPrefix, EndOf(j + 1) <= fed,
         SessionRead(stream[j + 1]), Escape,
         UNCHANGED <<stream, fed, accepted, swallowed>>
  PROVE  Base' /\ At(b, b)' /\ pc' = "idle"
<1>1. j + 1 \in 1 .. Len(stream) /\ j \in 0 .. Len(stream) - 1
  BY PacketIs DEF At
<1>2. /\ Len(stream) \in Nat /\ PacketOK(stream[j + 1]) /\ fed \in Nat /\ throws \in Nat
      /\ StreamOK(stream) /\ accepted \in Seq(1 .. Len(stream))
  BY <1>1 DEF Base, StreamOK
<1>3. /\ offset' = 0 /\ throws' = throws + 1 /\ pc' = "idle" /\ m_buffer' = m_buffer
  BY DEF Escape
<1>4. Base'
  <2>1. m_session' \in Session /\ m_next_sequence' \in Nat
    BY <1>2, SessionReadType
  <2> QED
    BY <1>2, <1>3, <2>1, BaseKept
<1>5. /\ b \in 0 .. Len(stream) /\ j \in b .. Len(stream) /\ fed - Len(m_buffer) = EndOf(b)
      /\ EndOf(j) <= fed /\ Len(m_buffer) \in Nat
  BY DEF At, Placed, Base
<1>6. Placed(b, b)'
  <2>1. EndOf(b) \in Nat /\ EndOf(b) <= fed
    BY <1>2, <1>5, EndsType DEF EndOf
  <2>2. EndOf(b)' = EndOf(b)
    BY DEF EndOf
  <2> QED
    BY <1>2, <1>3, <1>5, <2>1, <2>2 DEF Placed
<1>7. Delivered(b)'
  <2> SUFFICES ASSUME NEW i \in 1 .. b, Carries(i)'
               PROVE  (\E k \in DOMAIN accepted : accepted[k] = i) \/ i \in swallowed
    BY DEF Delivered
  <2>1. i \in 1 .. j /\ Carries(i)
    BY <1>5 DEF Carries
  <2> QED
    BY <2>1 DEF At, Delivered
<1>8. Repeated(b)'
  <2> SUFFICES ASSUME NEW i \in 1 .. Len(stream)
               PROVE  /\ IsFiniteSet(Deliveries(i))'
                      /\ Cardinality(Deliveries(i))' <= throws' + (IF i <= b THEN 1 ELSE 0)
    BY DEF Repeated
  <2>1. Deliveries(i)' = Deliveries(i)
    BY DEF Deliveries
  <2>2. /\ IsFiniteSet(Deliveries(i)) /\ Cardinality(Deliveries(i)) \in Nat
        /\ Cardinality(Deliveries(i)) <= throws + (IF i <= j THEN 1 ELSE 0)
    BY FS_CardinalityType DEF At, Repeated
  <2> QED
    BY <1>2, <1>3, <2>1, <2>2
<1>9. Ahead(b)'
  <2>1. j \in b .. Len(stream) - 1
    BY <1>1, <1>2, <1>5
  <2> QED
    BY <1>5, <2>1, AheadEscape DEF At
<1>10. Exact(b)'
  BY <1>2, <1>3 DEF Exact
<1> QED
  BY <1>3, <1>4, <1>6, <1>7, <1>8, <1>9, <1>10 DEF At

\* The invariant, from where feed() is in the stream.
LEMMA ReadingAgain ==
  ASSUME NEW b, NEW j, Base', At(b, j)', pc' # "new"
  PROVE  Reading'
<1>1. b \in 0 .. Len(stream)' /\ j \in b .. Len(stream)'
  BY DEF At, Placed
<1>2. Fresh'
  BY DEF Fresh
<1> QED
  BY <1>1, <1>2 DEF Reading

\* A zero-length frame is no message and no login.
LEMMA SkipStep ==
  ASSUME Base, NEW b, NEW j, At(b, j), SkipZeroLength
  PROVE  Reading'
<1>1. /\ HasPrefix /\ pc = "loop" /\ stream[Packet].size = 0 /\ offset' = offset + 2
      /\ UNCHANGED <<stream, fed, throws, pc, m_buffer, m_session, m_next_sequence, accepted, swallowed>>
  BY DEF SkipZeroLength, decoder
<1>2. /\ Packet = j + 1 /\ j + 1 \in 1 .. Len(stream) /\ j \in 0 .. Len(stream) - 1
      /\ EndOf(j + 1) = EndOf(j) + 2 + stream[j + 1].size
  BY <1>1, PacketIs DEF At
<1>3. stream[j + 1].size = 0 /\ stream[j + 1].kind = "zero"
  BY <1>1, <1>2 DEF Base, StreamOK, PacketOK
<1>4. EndOf(j + 1) <= fed
  <2>1. /\ fed \in Nat /\ offset \in Nat /\ Len(m_buffer) \in Nat /\ Len(m_buffer) - offset >= 2
        /\ fed - Len(m_buffer) = EndOf(b) /\ EndOf(b) + offset = EndOf(j)
    BY <1>1 DEF Base, At, Placed, HasPrefix
  <2>2. EndOf(b) \in Nat /\ EndOf(j) \in Nat
    BY <1>2, EndsType DEF EndOf, Base, At, Placed
  <2>3. fed >= EndOf(j) + 2
    BY <2>1, <2>2
  <2>4. EndOf(j + 1) = EndOf(j) + 2
    BY <1>2, <1>3, <2>2
  <2> QED
    BY <2>3, <2>4
<1>5. SessionRead(stream[j + 1])
  BY <1>1, <1>3 DEF SessionRead
<1>6. Handled(j + 1)
  BY <1>1, <1>3 DEF Handled, Carries, CarriesMessage
<1>7. offset' = offset + 2 + stream[j + 1].size
  BY <1>1, <1>3 DEF Base
<1>8. Base' /\ At(b, j + 1)'
  BY <1>1, <1>4, <1>5, <1>6, <1>7, Passing
<1> QED
  BY <1>1, <1>8, ReadingAgain

\* A packet that is complete, whatever its callback does.
LEMMA ProcessStep ==
  ASSUME Base, NEW b, NEW j, At(b, j), pc = "loop", HasPacket, SessionRead(stream[j + 1]),
         UNCHANGED <<stream, fed>>,
         \/ Proceed /\ Handled(j + 1)
         \/ Escape /\ UNCHANGED <<accepted, swallowed>>
  PROVE  Reading'
<1>1. HasPrefix
  BY DEF HasPacket
<1>2. Packet = j + 1 /\ EndOf(j + 1) <= fed
  BY <1>1, PacketIs DEF At
<1>3. CASE Proceed /\ Handled(j + 1)
  <2>1. /\ offset' = offset + 2 + stream[j + 1].size
        /\ UNCHANGED <<throws, pc, m_buffer>>
    BY <1>2, <1>3 DEF Proceed
  <2>2. Base' /\ At(b, j + 1)'
    BY <1>1, <1>2, <1>3, <2>1, Passing
  <2> QED
    BY <2>1, <2>2, ReadingAgain
<1>4. CASE Escape /\ UNCHANGED <<accepted, swallowed>>
  <2>1. Base' /\ At(b, b)' /\ pc' = "idle"
    BY <1>1, <1>2, <1>4, Escaping
  <2> QED
    BY <2>1, ReadingAgain
<1> QED
  BY <1>3, <1>4

LEMMA ControlStep ==
  ASSUME Base, NEW b, NEW j, At(b, j), ProcessControl
  PROVE  Reading'
<1>1. Packet = j + 1
  BY PacketIs DEF At, ProcessControl, HasPacket
<1>2. SessionRead(stream[j + 1])
  BY <1>1 DEF ProcessControl, SessionRead, LoginNumber
<1>3. ~ Carries(j + 1)
  BY <1>1 DEF ProcessControl, Carries, CarriesMessage
<1> QED
  BY <1>2, <1>3, ProcessStep DEF ProcessControl, Handled

\* decode_application_message delivers the message of the packet, if it carries one.
LEMMA DecodeHandles ==
  ASSUME NEW i, Packet = i, Decode, stream[i].kind \in {"sequenced_data", "unsequenced_data"}
  PROVE  \/ Proceed /\ Handled(i)
         \/ Escape /\ UNCHANGED <<accepted, swallowed>>
<1>1. CASE stream[i].payload # "message"
  BY <1>1 DEF Decode, Handled, Carries, CarriesMessage
<1>2. CASE stream[i].payload = "message"
  BY <1>2 DEF Decode, Handled, Carries, CarriesMessage
<1> QED
  BY <1>1, <1>2

LEMMA SequencedStep ==
  ASSUME Base, NEW b, NEW j, At(b, j), ProcessSequenced
  PROVE  Reading'
<1>1. Packet = j + 1
  BY PacketIs DEF At, ProcessSequenced, HasPacket
<1>2. SessionRead(stream[j + 1])
  BY <1>1 DEF ProcessSequenced, SessionRead
<1>3. \/ Proceed /\ Handled(j + 1)
      \/ Escape /\ UNCHANGED <<accepted, swallowed>>
  BY <1>1, DecodeHandles DEF ProcessSequenced
<1> QED
  BY <1>2, <1>3, ProcessStep DEF ProcessSequenced

LEMMA UnsequencedStep ==
  ASSUME Base, NEW b, NEW j, At(b, j), ProcessUnsequenced
  PROVE  Reading'
<1>1. Packet = j + 1
  BY PacketIs DEF At, ProcessUnsequenced, HasPacket
<1>2. SessionRead(stream[j + 1])
  BY <1>1 DEF ProcessUnsequenced, SessionRead
<1>3. \/ Proceed /\ Handled(j + 1)
      \/ Escape /\ UNCHANGED <<accepted, swallowed>>
  BY <1>1, DecodeHandles DEF ProcessUnsequenced
<1> QED
  BY <1>2, <1>3, ProcessStep DEF ProcessUnsequenced

-----------------------------------------------------------------------------
\* Stretches of the stream.
LEMMA BytesSeq ==
  ASSUME NEW m \in Nat, NEW n \in Nat, m <= n
  PROVE  /\ Bytes(m, n) \in Seq({Byte(k) : k \in 1 .. n}) /\ Len(Bytes(m, n)) = n - m
         /\ \A k \in 1 .. n - m : Bytes(m, n)[k] = Byte(m + k)
<1> DEFINE S == {Byte(k) : k \in 1 .. n}
<1>1. Bytes(m, n) = [k \in 1 .. n - m |-> Byte(m + k)] /\ n - m \in Nat
  BY DEF Bytes
<1>2. ASSUME NEW k \in 1 .. n - m PROVE Byte(m + k) \in S
  <2>1. m + k \in 1 .. n
    OBVIOUS
  <2> QED
    BY <2>1
<1>3. Bytes(m, n) \in [1 .. n - m -> S]
  <2> HIDE DEF S
  <2> QED
    BY <1>1, <1>2
<1>4. Bytes(m, n) \in Seq(S)
  <2> HIDE DEF S
  <2> QED
    BY <1>1, <1>3, SeqDef
<1>5. Len(Bytes(m, n)) = n - m
  <2>1. DOMAIN Bytes(m, n) = 1 .. n - m
    BY <1>1
  <2>2. DOMAIN Bytes(m, n) = 1 .. Len(Bytes(m, n)) /\ Len(Bytes(m, n)) \in Nat
    <3> HIDE DEF S
    <3> QED
      BY <1>4, LenProperties
  <2> QED
    BY <1>1, <2>1, <2>2
<1> QED
  BY <1>1, <1>4, <1>5

LEMMA BytesAre ==
  ASSUME NEW m \in Nat, NEW n \in Nat, m <= n, NEW S, NEW s \in Seq(S), Len(s) = n - m,
         \A k \in 1 .. n - m : s[k] = Byte(m + k)
  PROVE  s = Bytes(m, n)
<1>1. s = [k \in 1 .. n - m |-> s[k]]
  <2>1. DOMAIN s = 1 .. n - m /\ s \in [1 .. n - m -> S]
    BY LenProperties
  <2> QED
    BY <2>1
<1> QED
  BY <1>1 DEF Bytes

LEMMA BytesTail ==
  ASSUME NEW m \in Nat, NEW n \in Nat, m <= n, NEW o \in 0 .. n - m
  PROVE  SubSeq(Bytes(m, n), o + 1, n - m) = Bytes(m + o, n)
<1> DEFINE S == {Byte(k) : k \in 1 .. n}
<1>1. PICK t : t = Bytes(m, n)
  OBVIOUS
<1>2. /\ t \in Seq(S) /\ Len(t) = n - m
      /\ \A k \in 1 .. n - m : t[k] = Byte(m + k)
  BY <1>1, BytesSeq
<1> HIDE DEF S
<1>3. PICK s : s = SubSeq(t, o + 1, n - m)
  OBVIOUS
<1>4. o + 1 \in 1 .. Len(t) + 1 /\ n - m \in (o + 1) - 1 .. Len(t)
  BY <1>2
<1>5. /\ s \in Seq(S) /\ Len(s) = (n - m) - (o + 1) + 1
      /\ \A k \in 1 .. (n - m) - (o + 1) + 1 : s[k] = t[(o + 1) + k - 1]
  <2>1. PICK a \in 1 .. Len(t) + 1 : a = o + 1
    BY <1>4
  <2>2. PICK c \in a - 1 .. Len(t) : c = n - m
    BY <1>4, <2>1
  <2>3. /\ SubSeq(t, a, c) \in Seq(S)
        /\ Len(SubSeq(t, a, c)) = IF a <= c THEN c - a + 1 ELSE 0
        /\ \A k \in 1 .. c - a + 1 : SubSeq(t, a, c)[k] = t[a + k - 1]
    <3>1. t \in Seq(S)
      BY <1>2
    <3> QED
      BY <3>1
  <2>4. (IF a <= c THEN c - a + 1 ELSE 0) = c - a + 1
    BY <1>2, <2>1, <2>2
  <2> QED
    BY <1>3, <2>1, <2>2, <2>3, <2>4
<1>6. m + o \in Nat /\ m + o <= n /\ (n - m) - (o + 1) + 1 = n - (m + o)
  OBVIOUS
<1>7. ASSUME NEW k \in 1 .. n - (m + o) PROVE s[k] = Byte((m + o) + k)
  <2>1. /\ k \in 1 .. (n - m) - (o + 1) + 1 /\ (o + 1) + k - 1 \in 1 .. n - m
        /\ m + ((o + 1) + k - 1) = (m + o) + k
    OBVIOUS
  <2> QED
    BY <1>2, <1>5, <2>1
<1>8. s = Bytes(m + o, n)
  BY <1>5, <1>6, <1>7, BytesAre
<1> QED
  BY <1>1, <1>3, <1>8

LEMMA BytesMore ==
  ASSUME NEW m \in Nat, NEW n \in Nat, m <= n, NEW x \in Nat, n <= x
  PROVE  Bytes(m, n) \o Bytes(n, x) = Bytes(m, x)
<1> DEFINE S == {Byte(k) : k \in 1 .. n}
           T == {Byte(k) : k \in 1 .. x}
<1>1. PICK s : s = Bytes(m, n)
  OBVIOUS
<1>2. PICK t : t = Bytes(n, x)
  OBVIOUS
<1>3. S \subseteq T
  OBVIOUS
<1>4. /\ s \in Seq(S) /\ Len(s) = n - m
      /\ \A k \in 1 .. n - m : s[k] = Byte(m + k)
  BY <1>1, BytesSeq
<1>5. /\ t \in Seq(T) /\ Len(t) = x - n
      /\ \A k \in 1 .. x - n : t[k] = Byte(n + k)
  BY <1>2, BytesSeq
<1> HIDE DEF S, T
<1>6. s \in Seq(T)
  <2>1. s \in [1 .. n - m -> S] /\ n - m \in Nat
    BY <1>4, LenProperties
  <2>2. s \in [1 .. n - m -> T]
    BY <1>3, <2>1
  <2> QED
    BY <2>1, <2>2, SeqDef
<1>7. /\ s \o t \in Seq(T) /\ Len(s \o t) = Len(s) + Len(t)
      /\ \A k \in 1 .. Len(s) + Len(t) : (s \o t)[k] = IF k <= Len(s) THEN s[k] ELSE t[k - Len(s)]
  BY <1>5, <1>6, ConcatProperties
<1>8. Len(s \o t) = x - m /\ m <= x
  BY <1>4, <1>5, <1>7
<1>9. ASSUME NEW k \in 1 .. x - m PROVE (s \o t)[k] = Byte(m + k)
  <2>0. (s \o t)[k] = IF k <= n - m THEN s[k] ELSE t[k - (n - m)]
    <3>1. k \in 1 .. Len(s) + Len(t)
      BY <1>4, <1>5
    <3> QED
      BY <1>4, <1>7, <3>1
  <2>1. CASE k <= n - m
    BY <1>4, <2>0, <2>1
  <2>2. CASE k > n - m
    <3>1. k - (n - m) \in 1 .. x - n /\ n + (k - (n - m)) = m + k
      BY <2>2
    <3>2. (s \o t)[k] = t[k - (n - m)]
      BY <2>0, <2>2
    <3>3. t[k - (n - m)] = Byte(n + (k - (n - m)))
      BY <1>5, <3>1
    <3> QED
      BY <3>1, <3>2, <3>3
  <2>3. k <= n - m \/ k > n - m
    OBVIOUS
  <2> QED
    BY ONLY <2>1, <2>2, <2>3
<1>10. s \o t = Bytes(m, x)
  BY <1>7, <1>8, <1>9, BytesAre
<1> QED
  BY <1>1, <1>2, <1>10

LEMMA BytesKept ==
  ASSUME NEW m, NEW n, UNCHANGED stream
  PROVE  Bytes(m, n)' = Bytes(m, n)
BY DEF Bytes, Byte, PacketAt, EndOf

\* The loop ends at packet j: its bytes are dropped, the unfinished packet's are kept.
LEMMA ReturnStep ==
  ASSUME Base, NEW b, NEW j, At(b, j), Return
  PROVE  Reading'
<1>1. /\ pc = "loop" /\ pc' = "idle" /\ offset' = 0
      /\ HasPrefix => stream[Packet].size > 0 /\ ~ HasPacket
      /\ m_buffer' = SubSeq(m_buffer, offset + 1, Len(m_buffer))
      /\ UNCHANGED <<stream, fed, throws, m_session, m_next_sequence, accepted, swallowed>>
  BY DEF Return, decoder
<1>2. PICK L \in Nat : L = Len(m_buffer)
  BY DEF Base
<1>3. PICK o \in Nat : o = offset
  BY DEF Base
<1>4. PICK f \in Nat : f = fed
  BY DEF Base
<1>5. /\ Len(stream) \in Nat /\ StreamOK(stream)
      /\ b \in 0 .. Len(stream) /\ j \in 0 .. Len(stream) /\ j \in b .. Len(stream)
  BY DEF Base, StreamOK, At, Placed
<1>6. PICK x \in Nat : x = EndOf(b)
  BY <1>5, EndsType DEF EndOf
<1>7. PICK e \in Nat : e = EndOf(j)
  BY <1>5, EndsType DEF EndOf
<1>8. f - L = x /\ x + o = e /\ e <= f
  BY <1>2, <1>3, <1>4, <1>6, <1>7 DEF At, Placed
<1>9. m_buffer' = Bytes(e, f)
  <2>1. m_buffer = Bytes(x, f)
    BY <1>2, <1>4, <1>8 DEF Base
  <2>2. o \in 0 .. f - x /\ f - x = L /\ x <= f
    BY <1>8
  <2>3. SubSeq(Bytes(x, f), o + 1, f - x) = Bytes(x + o, f)
    BY <2>2, BytesTail
  <2> QED
    BY <1>1, <1>2, <1>3, <1>8, <2>1, <2>2, <2>3
<1>10. Len(m_buffer') = f - e
  BY <1>8, <1>9, BytesSeq
<1>11. /\ EndOf(j)' = EndOf(j) /\ EndOf(Len(stream))' = EndOf(Len(stream))
       /\ Bytes(e, f)' = Bytes(e, f)
  BY <1>1, BytesKept DEF EndOf
<1>12. Base'
  <2>1. f - e \in Nat /\ f - e <= f /\ f - (f - e) = e
    BY <1>8
  <2> QED
    BY <1>1, <1>4, <1>9, <1>10, <1>11, <2>1 DEF Base
<1>13. Placed(j, j)'
  <2>1. f - (f - e) = e /\ e + 0 = e /\ j \in j .. Len(stream)
    BY <1>5, <1>8
  <2>2. EndOf(j)' = e /\ fed' = f
    BY <1>1, <1>4, <1>7, <1>11
  <2>3. fed' - Len(m_buffer') = EndOf(j)'
    BY <1>10, <2>1, <2>2
  <2>4. EndOf(j)' + offset' = EndOf(j)' /\ EndOf(j)' <= fed'
    BY <1>1, <1>8, <2>1, <2>2
  <2> QED
    BY <1>1, <1>5, <2>1, <2>3, <2>4 DEF Placed
<1>14. Delivered(j)' /\ Repeated(j)' /\ Ahead(j)'
  BY <1>1 DEF At, Delivered, Repeated, Ahead, Carries, Deliveries, EndOf
<1>15. ASSUME j # Len(stream) PROVE fed < EndOf(j + 1)
  <2>1. j \in 0 .. Len(stream) - 1
    BY <1>5, <1>15
  <2>2. PICK z \in Nat : z = stream[j + 1].size
    BY <1>5, <2>1, EndsStep
  <2>3. EndOf(j + 1) = e + 2 + z
    BY <1>5, <1>7, <2>1, <2>2, EndsStep DEF EndOf
  <2>4. CASE HasPrefix
    <3>1. ~ (EndOf(j + 1) <= fed)
      BY <1>1, <2>4, PacketIs DEF At
    <3> QED
      BY <1>4, <2>3, <3>1
  <2>5. CASE ~ HasPrefix
    <3>1. ~ (L - o >= 2)
      BY <1>2, <1>3, <2>5 DEF HasPrefix
    <3>2. f < e + 2 + z
      BY <1>8, <3>1
    <3> QED
      BY <1>4, <2>3, <3>2
  <2> QED
    BY <2>4, <2>5
<1>16. Exact(j)'
  <2>1. Len(stream)' = Len(stream) /\ EndOf(j + 1)' = EndOf(j + 1)
    BY <1>1 DEF EndOf
  <2>2. pc' # "loop" => j = Len(stream)' \/ fed' < EndOf(j + 1)'
    BY <1>1, <1>15, <2>1
  <2>3. Exact(j)
    BY DEF At
  <2> QED
    BY <1>1, <2>2, <2>3 DEF Exact
<1> QED
  BY <1>1, <1>12, <1>13, <1>14, <1>16, ReadingAgain DEF At

\* A chunk, cut anywhere.
LEMMA FeedStep ==
  ASSUME Base, NEW b, NEW j, At(b, j), NEW n \in 0 .. EndOf(Len(stream)), feed(n)
  PROVE  Reading'
<1>1. /\ pc = "idle" /\ pc' = "loop" /\ offset' = 0 /\ n <= EndOf(Len(stream)) - fed
      /\ m_buffer' = m_buffer \o Bytes(fed, fed + n) /\ fed' = fed + n
      /\ UNCHANGED <<stream, throws, m_session, m_next_sequence, accepted, swallowed>>
  BY DEF feed, decoder
<1>2. PICK L \in Nat : L = Len(m_buffer)
  BY DEF Base
<1>3. PICK f \in Nat : f = fed
  BY DEF Base
<1>4. /\ Len(stream) \in Nat /\ StreamOK(stream) /\ Len(stream) \in 0 .. Len(stream)
      /\ b \in 0 .. Len(stream) /\ j = b /\ j \in 0 .. Len(stream)
  BY <1>1 DEF Base, StreamOK, At, Placed
<1>5. PICK x \in Nat : x = EndOf(b)
  BY <1>4, EndsType DEF EndOf
<1>6. PICK z \in Nat : z = EndOf(Len(stream))
  BY <1>4, EndsType DEF EndOf
<1>7. f - L = x /\ x <= f /\ n \in Nat /\ n <= z - f /\ f + n <= z
  BY <1>1, <1>2, <1>3, <1>4, <1>5, <1>6 DEF At, Placed
<1>8. m_buffer' = Bytes(x, f + n)
  <2>1. m_buffer = Bytes(x, f)
    BY <1>2, <1>3, <1>7 DEF Base
  <2>2. f + n \in Nat /\ f <= f + n
    BY <1>7
  <2>3. Bytes(x, f) \o Bytes(f, f + n) = Bytes(x, f + n)
    BY <1>7, <2>2, BytesMore
  <2> QED
    BY <1>1, <1>3, <2>1, <2>3
<1>9. Len(m_buffer') = (f + n) - x
  <2>1. f + n \in Nat /\ x <= f + n
    BY <1>7
  <2> QED
    BY <1>8, <2>1, BytesSeq
<1>10. /\ EndOf(b)' = x /\ EndOf(Len(stream))' = z
       /\ Bytes(x, f + n)' = Bytes(x, f + n)
  BY <1>1, <1>5, <1>6, BytesKept DEF EndOf
<1>11. Base'
  <2>1. /\ f + n \in Nat /\ (f + n) - x \in Nat /\ (f + n) - x <= f + n
        /\ (f + n) - ((f + n) - x) = x
    BY <1>7
  <2> QED
    BY <1>1, <1>3, <1>7, <1>8, <1>9, <1>10, <2>1 DEF Base
<1>12. Placed(b, b)'
  <2>1. (f + n) - ((f + n) - x) = x /\ x + 0 = x /\ x <= f + n /\ b \in b .. Len(stream)
    BY <1>4, <1>7
  <2> QED
    BY <1>1, <1>3, <1>4, <1>9, <1>10, <2>1 DEF Placed
<1>13. Delivered(b)' /\ Repeated(b)'
  BY <1>1, <1>4 DEF At, Delivered, Repeated, Carries, Deliveries
<1>14. Ahead(b)'
  <2>1. Ahead(b)
    BY <1>4 DEF At
  <2>2. CASE m_next_sequence >= After(stream)[b].next
    BY <1>1, <2>2 DEF Ahead
  <2>3. ASSUME NEW i \in b + 1 .. Len(stream), stream[i].kind = "login_accepted", EndOf(i) <= fed
        PROVE  Ahead(b)'
    <3>1. EndOf(i)' = EndOf(i) /\ i \in 0 .. Len(stream)
      BY <1>1, <1>4 DEF EndOf
    <3>2. EndOf(i) \in Nat
      BY <1>4, <3>1, EndsType DEF EndOf
    <3>3. EndOf(i)' <= fed'
      BY <1>1, <1>3, <1>7, <2>3, <3>1, <3>2
    <3> QED
      BY <1>1, <2>3, <3>3 DEF Ahead
  <2> QED
    BY <2>1, <2>2, <2>3 DEF Ahead
<1>15. Exact(b)'
  BY <1>1, <1>4 DEF At, Exact
<1> QED
  BY <1>1, <1>11, <1>12, <1>13, <1>14, <1>15, ReadingAgain DEF At

\* Before anything is fed, and before a login.
Started ==
  /\ StreamOK(stream) /\ NoSession \in Session
  /\ m_buffer = << >> /\ accepted = << >> /\ swallowed = {}
  /\ fed = 0 /\ offset = 0 /\ throws = 0 /\ pc \in {"new", "idle"}
  /\ m_session = NoSession /\ m_next_sequence = 1

LEMMA StartedReads == Started => Base /\ At(0, 0)
<1> SUFFICES ASSUME Started PROVE Base /\ At(0, 0)
  OBVIOUS
<1>1. /\ StreamOK(stream) /\ Len(stream) \in Nat /\ NoSession \in Session
      /\ m_buffer = << >> /\ accepted = << >> /\ swallowed = {}
      /\ fed = 0 /\ offset = 0 /\ throws = 0 /\ pc \in {"new", "idle"}
      /\ m_session = NoSession /\ m_next_sequence = 1
  BY DEF Started, StreamOK
<1>2. Len(m_buffer) = 0 /\ Len(accepted) = 0 /\ DOMAIN accepted = {}
  BY <1>1
<1>3. \A k \in 0 .. Len(stream) : EndOf(k) \in Nat
  BY <1>1, EndsType DEF EndOf
<1>4. EndOf(0) = 0 /\ 0 \in 0 .. Len(stream) /\ Len(stream) \in 0 .. Len(stream)
  BY <1>1, EndsEquations DEF EndOf
<1>5. Bytes(0, 0) = << >>
  <2>1. PICK t : t = Bytes(0, 0)
    OBVIOUS
  <2>2. t \in Seq({Byte(k) : k \in 1 .. 0}) /\ Len(t) = 0
    BY <2>1, BytesSeq
  <2>3. t = << >>
    BY <2>2, EmptySeq
  <2> QED
    BY <2>1, <2>3
<1>6. Base
  <2>1. accepted \in Seq(1 .. Len(stream))
    BY <1>1, EmptySeq
  <2>2. 0 <= EndOf(Len(stream))
    BY <1>3, <1>4
  <2> QED
    BY <1>1, <1>2, <1>5, <2>1, <2>2 DEF Base
<1>7. Placed(0, 0)
  BY <1>1, <1>2, <1>4 DEF Placed
<1>8. Delivered(0)
  BY DEF Delivered
<1>9. Repeated(0)
  <2> SUFFICES ASSUME NEW i \in 1 .. Len(stream)
               PROVE  IsFiniteSet(Deliveries(i)) /\ Cardinality(Deliveries(i)) <= throws + (IF i <= 0 THEN 1 ELSE 0)
    BY DEF Repeated
  <2>1. Deliveries(i) = {}
    BY <1>2 DEF Deliveries
  <2>2. IsFiniteSet({}) /\ Cardinality({}) = 0 /\ ~ (i <= 0)
    BY FS_EmptySet
  <2> QED
    BY <1>1, <2>1, <2>2
<1>10. After(stream)[0] = [session |-> NoSession, next |-> 1, messages |-> << >>]
  BY <1>1, AfterEquations
<1>11. Ahead(0)
  BY <1>1, <1>10 DEF Ahead
<1>12. 0 = Len(stream) \/ fed < EndOf(0 + 1)
  <2>1. CASE 0 # Len(stream)
    <3>1. 0 \in 0 .. Len(stream) - 1
      BY <1>1, <2>1
    <3>2. stream[0 + 1].size \in Nat /\ EndOf(0 + 1) = EndOf(0) + 2 + stream[0 + 1].size
      BY <1>1, <3>1, EndsStep DEF EndOf
    <3> QED
      BY <1>1, <1>4, <3>2
  <2> QED
    BY <2>1
<1>13. Exact(0)
  BY <1>1, <1>10, <1>12 DEF Exact
<1> QED
  BY <1>6, <1>7, <1>8, <1>9, <1>11, <1>13 DEF At

LEMMA InitReads ==
  ASSUME Init
  PROVE  Reading
<1>1. /\ stream = << >> /\ Len(stream) = 0
      /\ Started
  <2>1. StreamOK(<< >>)
    BY DEF StreamOK
  <2> QED
    BY <2>1, StreamAssumption DEF Init, Started
<1>2. Base /\ At(0, 0)
  BY <1>1, StartedReads
<1>3. Fresh
  BY DEF Init, Fresh
<1>4. 0 \in 0 .. Len(stream)
  BY <1>1
<1> QED
  BY <1>2, <1>3, <1>4 DEF Reading

LEMMA ConnectStep ==
  ASSUME Base, Fresh, Connect
  PROVE  Reading'
<1>1. /\ pc = "new" /\ pc' = "idle" /\ stream' \in Streams
      /\ UNCHANGED <<m_buffer, m_session, m_next_sequence, offset, fed, accepted, swallowed, throws>>
  BY DEF Connect, decoder
<1>2. Started'
  BY <1>1, StreamAssumption DEF Fresh, Started
<1>3. Base' /\ At(0, 0)'
  BY <1>2, StartedReads, PTL
<1> QED
  BY <1>1, <1>3, ReadingAgain

LEMMA StutterStep ==
  ASSUME Reading, UNCHANGED vars
  PROVE  Reading'
<1>1. UNCHANGED <<m_buffer, m_session, m_next_sequence, pc, offset, stream, fed, accepted, swallowed, throws>>
  BY DEF vars, decoder
<1>2. Base' /\ Fresh'
  <2>1. Base /\ Fresh
    BY DEF Reading
  <2>2. Bytes(fed - Len(m_buffer), fed)' = Bytes(fed - Len(m_buffer), fed)
    BY <1>1 DEF Bytes, Byte, PacketAt, EndOf
  <2>3. EndOf(Len(stream))' = EndOf(Len(stream))
    BY <1>1 DEF EndOf
  <2> QED
    BY <1>1, <2>1, <2>2, <2>3 DEF Base, Fresh
<1>3. ASSUME NEW b, NEW j, At(b, j) PROVE At(b, j)'
  <2>1. Placed(b, j)'
    BY <1>1, <1>3 DEF At, Placed, EndOf
  <2>2. Delivered(j)' /\ Repeated(j)'
    BY <1>1, <1>3 DEF At, Delivered, Repeated, Carries, Deliveries
  <2>3. Ahead(j)' /\ Exact(j)'
    BY <1>1, <1>3 DEF At, Ahead, Exact, EndOf
  <2> QED
    BY <2>1, <2>2, <2>3 DEF At
<1> QED
  BY <1>1, <1>2, <1>3 DEF Reading

LEMMA ReadingStep ==
  ASSUME Reading, [Next]_vars
  PROVE  Reading'
<1>1. PICK b, j : At(b, j)
  BY DEF Reading
<1>2. Base /\ Fresh
  BY DEF Reading
<1>3. CASE Connect
  BY <1>2, <1>3, ConnectStep
<1>4. ASSUME NEW n \in 0 .. EndOf(Len(stream)), feed(n) PROVE Reading'
  BY <1>1, <1>2, <1>4, FeedStep
<1>5. CASE SkipZeroLength
  BY <1>1, <1>2, <1>5, SkipStep
<1>6. CASE Return
  BY <1>1, <1>2, <1>6, ReturnStep
<1>7. CASE ProcessControl
  BY <1>1, <1>2, <1>7, ControlStep
<1>8. CASE ProcessSequenced
  BY <1>1, <1>2, <1>8, SequencedStep
<1>9. CASE ProcessUnsequenced
  BY <1>1, <1>2, <1>9, UnsequencedStep
<1>10. CASE UNCHANGED vars
  BY <1>10, StutterStep
<1> QED
  BY <1>3, <1>4, <1>5, <1>6, <1>7, <1>8, <1>9, <1>10 DEF Next

-----------------------------------------------------------------------------
\* What is known between two calls: the complete packets are those of the whole prefix.
LEMMA CompleteIs ==
  ASSUME Base, NEW j \in 0 .. Len(stream), EndOf(j) <= fed, j = Len(stream) \/ fed < EndOf(j + 1)
  PROVE  Complete = j
<1>1. StreamOK(stream) /\ Len(stream) \in Nat /\ fed \in Nat
  BY DEF Base, StreamOK
<1>2. \A i \in 0 .. Len(stream) : EndOf(i) \in Nat
  BY <1>1, EndsType DEF EndOf
<1>3. \A i, k \in 0 .. Len(stream) : i < k => EndOf(i) < EndOf(k)
  BY <1>1, EndsGrow DEF EndOf
<1>4. ASSUME NEW i \in 1 .. Len(stream) PROVE EndOf(i) <= fed <=> i \in 1 .. j
  <2>1. i \in 0 .. Len(stream)
    BY <1>1
  <2>2. CASE i <= j
    <3>1. EndOf(i) <= EndOf(j)
      BY <1>2, <1>3, <2>1, <2>2
    <3> QED
      BY <1>1, <1>2, <2>1, <2>2, <3>1
  <2>3. CASE i > j
    <3>1. j # Len(stream) /\ j + 1 \in 0 .. Len(stream)
      BY <1>1, <2>3
    <3>2. EndOf(j + 1) <= EndOf(i)
      BY <1>2, <1>3, <2>1, <2>3, <3>1
    <3> QED
      BY <1>1, <1>2, <2>1, <2>3, <3>1, <3>2
  <2> QED
    BY <2>2, <2>3
<1>5. {i \in 1 .. Len(stream) : EndOf(i) <= fed} = 1 .. j
  BY <1>1, <1>4
<1>6. Cardinality(1 .. j) = j
  BY FS_Interval
<1> QED
  BY <1>5, <1>6 DEF Complete

\* Reading, between two calls.
LEMMA Idle ==
  ASSUME Reading, pc = "idle"
  PROVE  \E b \in 0 .. Len(stream) : At(b, b)
<1>1. PICK b, j : At(b, j)
  BY DEF Reading
<1> QED
  BY <1>1 DEF At, Placed

\* The invariant makes chunks invisible, ...
LEMMA ReadingHidesChunks ==
  ASSUME Reading
  PROVE  ChunkingIsInvisible
<1> SUFFICES ASSUME pc = "idle", throws = 0
             PROVE  /\ swallowed = {} => accepted = After(stream)[Complete].messages
                    /\ m_session = After(stream)[Complete].session
                    /\ m_next_sequence = After(stream)[Complete].next
                    /\ Len(m_buffer) = fed - EndOf(Complete)
  BY DEF ChunkingIsInvisible
<1>1. PICK b \in 0 .. Len(stream) : At(b, b)
  BY Idle
<1>2. Base
  BY DEF Reading
<1>3. Complete = b
  BY <1>1, <1>2, CompleteIs DEF At, Placed, Exact
<1>4. Len(m_buffer) = fed - EndOf(b)
  <2>1. Len(m_buffer) \in Nat /\ fed \in Nat /\ fed - Len(m_buffer) = EndOf(b)
    BY <1>1, <1>2 DEF Base, At, Placed
  <2> QED
    BY <2>1
<1> QED
  BY <1>1, <1>3, <1>4 DEF At, Exact

\* ... skips no message, ...
LEMMA ReadingSkipsNothing ==
  ASSUME Reading
  PROVE  NothingIsSkipped
<1> SUFFICES ASSUME pc = "idle", NEW i \in 1 .. Len(stream), Carries(i), Consumed(i)
             PROVE  Contains(accepted, i) \/ i \in swallowed
  BY DEF NothingIsSkipped
<1>1. PICK b \in 0 .. Len(stream) : At(b, b)
  BY Idle
<1>2. StreamOK(stream) /\ Len(stream) \in Nat /\ accepted \in Seq(1 .. Len(stream))
  BY DEF Reading, Base, StreamOK
<1>3. i \in 0 .. Len(stream) /\ EndOf(i) \in Nat /\ EndOf(b) \in Nat
  BY <1>2, EndsType DEF EndOf
<1>4. EndOf(i) <= EndOf(b)
  BY <1>1 DEF Consumed, At, Placed
<1>5. ~ (b < i)
  <2>1. b < i => EndOf(b) < EndOf(i)
    BY <1>2, <1>3, EndsGrow DEF EndOf
  <2> QED
    BY <1>3, <1>4, <2>1
<1>6. i \in 1 .. b
  BY <1>2, <1>5
<1>7. (\E k \in DOMAIN accepted : accepted[k] = i) \/ i \in swallowed
  BY <1>1, <1>6 DEF At, Delivered
<1>8. DOMAIN accepted = 1 .. Len(accepted)
  BY <1>2, LenProperties
<1> QED
  BY <1>7, <1>8 DEF Contains

\* ... and repeats one at most once for each exception.
LEMMA ReadingBoundsRepeats ==
  ASSUME Reading
  PROVE  RepeatsAreBounded
<1>1. Base /\ StreamOK(stream) /\ Len(stream) \in Nat /\ throws \in Nat /\ fed \in Nat
  BY DEF Reading, Base, StreamOK
<1>2. ASSUME NEW i \in Range(accepted)
      PROVE  Cardinality({k \in DOMAIN accepted : accepted[k] = i}) <= 1 + throws
  <2>1. PICK b \in 0 .. Len(stream), j \in 0 .. Len(stream) : At(b, j)
    BY DEF Reading, At, Placed
  <2>2. i \in 1 .. Len(stream)
    <3>1. accepted \in Seq(1 .. Len(stream))
      BY <1>1 DEF Base
    <3>2. accepted \in [1 .. Len(accepted) -> 1 .. Len(stream)]
      BY <3>1, LenProperties
    <3> QED
      BY <3>2 DEF Range
  <2>3. /\ IsFiniteSet(Deliveries(i))
        /\ Cardinality(Deliveries(i)) <= throws + (IF i <= j THEN 1 ELSE 0)
    BY <2>1, <2>2 DEF At, Repeated
  <2>4. Cardinality(Deliveries(i)) \in Nat
    BY <2>3, FS_CardinalityType
  <2>5. Cardinality(Deliveries(i)) <= 1 + throws
    BY <1>1, <2>3, <2>4
  <2> QED
    BY <2>5 DEF Deliveries
<1>3. ASSUME pc = "idle", Len(m_buffer) = fed - EndOf(Complete)
      PROVE  m_next_sequence >= After(stream)[Complete].next
  <2>1. PICK b \in 0 .. Len(stream) : At(b, b)
    BY <1>3, Idle
  <2>2. PICK c : c = Complete
    OBVIOUS
  <2>3. \A i, k \in 0 .. Len(stream) : i < k => EndOf(i) < EndOf(k)
    BY <1>1, EndsGrow DEF EndOf
  <2>4. \A i \in 0 .. Len(stream) : EndOf(i) \in Nat
    BY <1>1, EndsType DEF EndOf
  <2> DEFINE T == {i \in 1 .. Len(stream) : EndOf(i) <= fed}
  <2>5. c \in 0 .. Len(stream) /\ IsFiniteSet(T) /\ c = Cardinality(T)
    <3>1. PICK n \in Nat : n = Len(stream)
      BY <1>1
    <3>2. IsFiniteSet(1 .. n) /\ Cardinality(1 .. n) = n
      BY FS_Interval
    <3>3. T \subseteq 1 .. n
      BY <3>1
    <3>4. c = Cardinality(T)
      BY <2>2 DEF Complete
    <3> HIDE DEF T
    <3>5. IsFiniteSet(T) /\ Cardinality(T) \in Nat /\ Cardinality(T) <= n
      BY <3>2, <3>3, FS_Subset, FS_CardinalityType
    <3> QED
      BY <3>1, <3>4, <3>5
  <2>6. c = b
    <3>1. fed - Len(m_buffer) = EndOf(b) /\ Len(m_buffer) \in Nat
      BY <1>1, <2>1 DEF At, Placed, Base
    <3>2. EndOf(b) = EndOf(c)
      BY <1>1, <1>3, <2>2, <2>4, <2>5, <3>1
    <3> QED
      BY <1>1, <2>3, <2>4, <2>5, <3>2
  <2>7. ASSUME NEW i \in b + 1 .. Len(stream), EndOf(i) <= fed PROVE FALSE
    <3>1. i \in Nat /\ i \in 0 .. Len(stream) /\ i > c
      BY <1>1, <2>6, <2>7
    <3>2. ASSUME NEW k \in 1 .. i PROVE k \in T
      <4>1. k \in 1 .. Len(stream) /\ k \in 0 .. Len(stream)
        BY <1>1, <3>1
      <4>2. EndOf(k) <= EndOf(i)
        BY <2>3, <2>4, <3>1, <4>1
      <4> QED
        BY <1>1, <2>4, <2>7, <3>1, <4>1, <4>2
    <3>3. (1 .. i) \subseteq T
      BY <3>2
    <3> HIDE DEF T
    <3>4. Cardinality(1 .. i) = i
      BY <3>1, FS_Interval
    <3>5. i <= Cardinality(T)
      BY <2>5, <3>3, <3>4, FS_Subset
    <3> QED
      BY <1>1, <2>5, <3>1, <3>5
  <2> QED
    BY <2>1, <2>2, <2>6, <2>7 DEF At, Ahead
<1> QED
  BY <1>2, <1>3 DEF RepeatsAreBounded

-----------------------------------------------------------------------------
\* Of every stream a server may send, cut anywhere, with callbacks that throw: the decoder
\* is in one place of the stream, and its tracker in step with the numbers it has heard.
THEOREM Invariance == Spec => [](Reading /\ Tracked)
<1>1. Init => Reading /\ Tracked
  <2>1. ASSUME Init PROVE Tracked
    BY <2>1 DEF Init, Tracked, NewTracker, Unseen
  <2> QED
    BY <2>1, InitReads
<1>2. Reading /\ Tracked /\ [Next]_vars => (Reading /\ Tracked)'
  BY ReadingStep, TrackedStep DEF Reading
<1> QED
  BY <1>1, <1>2, PTL DEF Spec

\* However TCP cuts the stream, feed() delivers what whole packets would have: every
\* message once and in order, with the session and number of the server, as long as no
\* exception left it.
THEOREM Chunks == Spec => []ChunkingIsInvisible
<1>1. Reading => ChunkingIsInvisible
  BY ReadingHidesChunks
<1> QED
  BY <1>1, Invariance, PTL

\* An exception that leaves feed() loses no message and repeats each at most once, and the
\* buffer is at all times the unconsumed end of what was fed.
THEOREM Escapes == Spec => []EscapesOnlyRepeat
<1>1. ASSUME Reading PROVE EscapesOnlyRepeat
  <2>1. TypeOK
    <3>1. PICK b \in 0 .. Len(stream), j \in 0 .. Len(stream) : At(b, j)
      BY <1>1 DEF Reading, At, Placed
    <3>2. Base
      BY <1>1 DEF Reading
    <3>3. EndOf(b) \in Nat /\ EndOf(j) \in Nat
      BY <3>2, EndsType DEF Base, EndOf
    <3>4. /\ fed \in Nat /\ offset \in Nat /\ Len(m_buffer) \in Nat
          /\ fed - Len(m_buffer) = EndOf(b) /\ EndOf(b) + offset = EndOf(j) /\ EndOf(j) <= fed
      BY <3>1, <3>2 DEF Base, At, Placed
    <3>5. offset \in 0 .. Len(m_buffer)
      BY <3>3, <3>4
    <3> QED
      BY <3>2, <3>5 DEF Base, TypeOK
  <2> QED
    BY <1>1, <2>1, ReadingSkipsNothing, ReadingBoundsRepeats DEF EscapesOnlyRepeat
<1>2. Reading => EscapesOnlyRepeat
  BY <1>1
<1> QED
  BY <1>2, Invariance, PTL

\* The tracker of a SoupBinTCP session is told of every number: those it has not heard of
\* were reported missing, through logins that resume, jump or change the session.
THEOREM Numbers == Spec => []NoSilentJump
<1>1. Tracked => NoSilentJump
  BY DEF Tracked, NoSilentJump
<1> QED
  BY <1>1, Invariance, PTL

-----------------------------------------------------------------------------
(* Framing: the bytes of a run of frames.                                  *)

\* What a frame is.
LEMMA FrameIs ==
  ASSUME NEW f \in Parser!Frame
  PROVE  /\ f.len \in Nat /\ f.len <= 65535 /\ f.type \in Nat
         /\ f.len > 0 => f.type \in DOMAIN WireSize /\ WireSize[f.type] \in Nat
<1>1. CASE f = [len |-> 0, type |-> 0]
  BY <1>1
<1>2. CASE f \in [len : 1 .. MaxLength, type : DOMAIN WireSize \ {0}]
  <2>1. f.len \in 1 .. MaxLength /\ f.type \in DOMAIN WireSize
    BY <1>2
  <2>2. f.type \in Nat /\ WireSize[f.type] \in Nat
    <3>1. \A type \in DOMAIN WireSize : type \in Nat /\ WireSize[type] \in Nat
      BY FramingAssumption
    <3> QED
      BY <2>1, <3>1
  <2>3. MaxLength \in Nat /\ MaxLength <= 65535
    BY FramingAssumption
  <2>4. f.len \in Nat /\ f.len <= 65535
    BY <2>1, <2>3
  <2> QED
    BY <2>1, <2>2, <2>4
<1> QED
  BY <1>1, <1>2 DEF Parser!Frame

LEMMA FrameOf ==
  ASSUME NEW fs \in Seq(Parser!Frame), NEW i \in 1 .. Len(fs)
  PROVE  /\ fs[i].len \in Nat /\ fs[i].len <= 65535 /\ fs[i].type \in Nat
         /\ fs[i].len > 0 => fs[i].type \in DOMAIN WireSize /\ WireSize[fs[i].type] \in Nat
         /\ fs[i] \in Parser!Frame
<1>1. fs[i] \in Parser!Frame
  BY ElementOfSeq
<1> QED
  BY <1>1, FrameIs

\* The recursive functions of Framing are the ones their equations describe.
LEMMA FrameEndsAre ==
  ASSUME NEW fs, Len(fs) \in Nat
  PROVE  /\ Parser!Ends(fs)[0] = 0
         /\ \A k \in 1 .. Len(fs) : Parser!Ends(fs)[k] = Parser!Ends(fs)[k - 1] + 2 + fs[k].len
<1> DEFINE n == Len(fs)
           Rec(g, m) == g = [k \in 0 .. m |-> IF k = 0 THEN 0 ELSE g[k - 1] + 2 + fs[k].len]
           T == {m \in 0 .. n : \E g : Rec(g, m)}
<1>1. 0 \in T
  <2> DEFINE g == [k \in 0 .. 0 |-> 0]
  <2>1. Rec(g, 0)
    OBVIOUS
  <2>2. 0 \in 0 .. n
    OBVIOUS
  <2> HIDE DEF g, Rec
  <2> QED
    BY <2>1, <2>2
<1>2. ASSUME NEW i \in 0 .. n - 1, i \in T PROVE i + 1 \in T
  <2>1. PICK g : Rec(g, i)
    BY <1>2
  <2> DEFINE h == [k \in 0 .. i + 1 |-> IF k = i + 1 THEN g[i] + 2 + fs[i + 1].len ELSE g[k]]
  <2>2. Rec(h, i + 1)
    BY <2>1
  <2> HIDE DEF h, Rec
  <2>3. i + 1 \in 0 .. n
    OBVIOUS
  <2> QED
    BY <2>2, <2>3
<1>3. n \in T
  <2>1. n \in Nat /\ n \in 0 .. n
    OBVIOUS
  <2> HIDE DEF T, n
  <2> QED
    BY <1>1, <1>2, <2>1, UpTo
<1> DEFINE S == CHOOSE g : Rec(g, n)
<1>4. Rec(S, n)
  <2> HIDE DEF Rec
  <2> QED
    BY <1>3
<1>5. Parser!Ends(fs) = S
  BY DEF Parser!Ends
<1> HIDE DEF S
<1> QED
  BY SMTT(60), <1>4, <1>5

Nothing == << >>
Joined(bytes, f) == bytes \o Parser!BytesOf(f)
LEMMA RunsAre ==
  ASSUME NEW fs, Len(fs) \in Nat
  PROVE  /\ Parser!Runs(fs)[0] = << >>
         /\ \A k \in 1 .. Len(fs) :
              Parser!Runs(fs)[k] = Parser!Runs(fs)[k - 1] \o Parser!BytesOf(fs[k])
<1> DEFINE n == Len(fs)
           Rec(g, m) == g = [k \in 0 .. m |->
                               IF k = 0 THEN Nothing ELSE Joined(g[k - 1], fs[k])]
           T == {m \in 0 .. n : \E g : Rec(g, m)}
<1>1. 0 \in T
  <2> DEFINE g == [k \in 0 .. 0 |-> Nothing]
  <2>1. Rec(g, 0)
    OBVIOUS
  <2>2. 0 \in 0 .. n
    OBVIOUS
  <2> HIDE DEF g, Rec
  <2> QED
    BY <2>1, <2>2
<1>2. ASSUME NEW i \in 0 .. n - 1, i \in T PROVE i + 1 \in T
  <2>1. PICK g : Rec(g, i)
    BY <1>2
  <2> DEFINE h == [k \in 0 .. i + 1 |->
                     IF k = i + 1 THEN Joined(g[i], fs[i + 1]) ELSE g[k]]
  <2>2. Rec(h, i + 1)
    BY <2>1
  <2> HIDE DEF h, Rec
  <2>3. i + 1 \in 0 .. n
    OBVIOUS
  <2> QED
    BY <2>2, <2>3
<1>3. n \in T
  <2>1. n \in Nat /\ n \in 0 .. n
    OBVIOUS
  <2> HIDE DEF T, n
  <2> QED
    BY <1>1, <1>2, <2>1, UpTo
<1> DEFINE S == CHOOSE g : Rec(g, n)
<1>4. Rec(S, n)
  <2> HIDE DEF Rec
  <2> QED
    BY <1>3
<1>5. Parser!Runs(fs) = S
  BY DEF Parser!Runs, Joined, Nothing
<1> HIDE DEF S
<1>6. S[0] = Nothing /\ \A k \in 1 .. n : S[k] = Joined(S[k - 1], fs[k])
  BY SMTT(60), <1>4
<1> QED
  BY <1>5, <1>6 DEF Joined, Nothing

Noted(starts, fs, is, k) ==
  IF k \in is THEN Append(starts, Parser!Ends(fs)[k - 1]) ELSE starts
LEMMA StartsAre ==
  ASSUME NEW fs, Len(fs) \in Nat, NEW is
  PROVE  /\ Parser!StartsIn(fs, is)[0] = << >>
         /\ \A k \in 1 .. Len(fs) :
              Parser!StartsIn(fs, is)[k] =
                IF k \in is THEN Append(Parser!StartsIn(fs, is)[k - 1], Parser!Ends(fs)[k - 1])
                ELSE Parser!StartsIn(fs, is)[k - 1]
<1> DEFINE n == Len(fs)
           Rec(g, m) == g = [k \in 0 .. m |->
                               IF k = 0 THEN Nothing ELSE Noted(g[k - 1], fs, is, k)]
           T == {m \in 0 .. n : \E g : Rec(g, m)}
<1>1. 0 \in T
  <2> DEFINE g == [k \in 0 .. 0 |-> Nothing]
  <2>1. Rec(g, 0)
    OBVIOUS
  <2>2. 0 \in 0 .. n
    OBVIOUS
  <2> HIDE DEF g, Rec
  <2> QED
    BY <2>1, <2>2
<1>2. ASSUME NEW i \in 0 .. n - 1, i \in T PROVE i + 1 \in T
  <2>1. PICK g : Rec(g, i)
    BY <1>2
  <2> DEFINE h == [k \in 0 .. i + 1 |->
                     IF k = i + 1 THEN Noted(g[i], fs, is, i + 1) ELSE g[k]]
  <2>2. Rec(h, i + 1)
    BY <2>1
  <2> HIDE DEF h, Rec
  <2>3. i + 1 \in 0 .. n
    OBVIOUS
  <2> QED
    BY <2>2, <2>3
<1>3. n \in T
  <2>1. n \in Nat /\ n \in 0 .. n
    OBVIOUS
  <2> HIDE DEF T, n
  <2> QED
    BY <1>1, <1>2, <2>1, UpTo
<1> DEFINE S == CHOOSE g : Rec(g, n)
<1>4. Rec(S, n)
  <2> HIDE DEF Rec
  <2> QED
    BY <1>3
<1>5. Parser!StartsIn(fs, is) = S
  BY DEF Parser!StartsIn, Noted, Nothing
<1> HIDE DEF S
<1>6. S[0] = Nothing /\ \A k \in 1 .. n : S[k] = Noted(S[k - 1], fs, is, k)
  BY SMTT(60), <1>4
<1> QED
  BY <1>5, <1>6 DEF Noted, Nothing

\* The ends of the frames are numbers, and grow.
LEMMA FrameEndsGrow ==
  ASSUME NEW fs \in Seq(Parser!Frame)
  PROVE  /\ \A k \in 0 .. Len(fs) : Parser!Ends(fs)[k] \in Nat
         /\ \A k \in 1 .. Len(fs) : Parser!Ends(fs)[k] = Parser!Ends(fs)[k - 1] + 2 + fs[k].len
         /\ Parser!Ends(fs)[0] = 0
         /\ \A j \in 0 .. Len(fs) : \A k \in 0 .. Len(fs) :
              k < j => Parser!Ends(fs)[k] + 2 <= Parser!Ends(fs)[j]
<1> DEFINE n == Len(fs)
           E == Parser!Ends(fs)
           T == {j \in 0 .. n : /\ \A k \in 0 .. j : E[k] \in Nat
                                /\ \A k \in 0 .. j : k < j => E[k] + 2 <= E[j]}
<1>1. n \in Nat /\ E[0] = 0 /\ \A k \in 1 .. n : E[k] = E[k - 1] + 2 + fs[k].len
  BY FrameEndsAre
<1> HIDE DEF E
<1>2. 0 \in T
  BY <1>1
<1>3. ASSUME NEW i \in 0 .. n - 1, i \in T PROVE i + 1 \in T
  <2>1. i + 1 \in 1 .. n /\ (i + 1) - 1 = i /\ i + 1 \in 0 .. n
    BY <1>1
  <2>2. E[i + 1] = E[i] + 2 + fs[i + 1].len /\ fs[i + 1].len \in Nat
    BY <1>1, <2>1, FrameOf
  <2>3. E[i] \in Nat /\ E[i + 1] \in Nat /\ E[i] + 2 <= E[i + 1]
    <3>1. i \in 0 .. i
      BY <1>1
    <3>2. E[i] \in Nat
      BY <1>3, <3>1
    <3> QED
      BY <2>2, <3>2
  <2>4. ASSUME NEW k \in 0 .. i + 1
        PROVE  E[k] \in Nat /\ (k < i + 1 => E[k] + 2 <= E[i + 1])
    <3>1. CASE k = i + 1
      BY <2>3, <3>1
    <3>2. CASE k = i
      BY <2>3, <3>2
    <3>3. CASE k < i
      BY <1>3, <2>3, <3>3
    <3> QED
      BY <2>4, <3>1, <3>2, <3>3
  <2> QED
    BY <2>1, <2>4
<1>4. \A j \in 0 .. n : j \in T
  <2> HIDE DEF T, n
  <2> QED
    BY <1>1, <1>2, <1>3, UpTo
<1>5. ASSUME NEW j \in 0 .. n, NEW k \in 0 .. n PROVE E[j] \in Nat /\ (k < j => E[k] + 2 <= E[j])
  <2>1. j \in T
    BY <1>4
  <2> QED
    BY <2>1
<1> HIDE DEF T
<1> QED
  BY <1>1, <1>5 DEF E

\* The bytes of a frame: a two-byte length, the type, filler.
LEMMA Concatenated ==
  ASSUME NEW u \in Seq(Nat), NEW v \in Seq(Nat)
  PROVE  /\ u \o v \in Seq(Nat) /\ Len(u \o v) = Len(u) + Len(v)
         /\ \A i \in 1 .. Len(u) : (u \o v)[i] = u[i]
         /\ \A i \in 1 .. Len(v) : (u \o v)[Len(u) + i] = v[i]
<1>1. u \o v \in Seq(Nat) /\ Len(u \o v) = Len(u) + Len(v) /\ Len(u) \in Nat /\ Len(v) \in Nat
  BY ConcatProperties
<1>2. \A i \in 1 .. Len(u) + Len(v) : (u \o v)[i] = IF i <= Len(u) THEN u[i] ELSE v[i - Len(u)]
  BY <1>1, ConcatProperties
<1>3. ASSUME NEW i \in 1 .. Len(u) PROVE (u \o v)[i] = u[i]
  BY <1>1, <1>2
<1>4. ASSUME NEW i \in 1 .. Len(v) PROVE (u \o v)[Len(u) + i] = v[i]
  <2>1. Len(u) + i \in 1 .. Len(u) + Len(v) /\ ~ (Len(u) + i <= Len(u)) /\ (Len(u) + i) - Len(u) = i
    BY <1>1
  <2> QED
    BY <1>2, <2>1
<1> QED
  BY <1>1, <1>3, <1>4

LEMMA BytesOfFrame ==
  ASSUME NEW f \in Parser!Frame
  PROVE  /\ Parser!BytesOf(f) \in Seq(Nat) /\ Len(Parser!BytesOf(f)) = 2 + f.len
         /\ Parser!BytesOf(f)[1] * 256 + Parser!BytesOf(f)[2] = f.len
         /\ f.len > 0 => Parser!BytesOf(f)[3] = f.type
<1>1. f.len \in Nat /\ f.type \in Nat
  BY FrameIs
<1> DEFINE high == f.len \div 256
           low == f.len % 256
<1>2. high \in Nat /\ low \in Nat /\ high * 256 + low = f.len
  <2> SUFFICES \A x \in Nat : /\ x \div 256 \in Nat /\ x % 256 \in Nat
                              /\ (x \div 256) * 256 + (x % 256) = x
    BY <1>1
  <2> QED
    OBVIOUS
<1> DEFINE a == << high, low >>
           b == [i \in 1 .. f.len |-> IF i = 1 THEN f.type ELSE 9]
<1> HIDE DEF high, low
<1>3. a \in Seq(Nat) /\ Len(a) = 2 /\ a[1] = high /\ a[2] = low
  BY <1>2
<1>4. b \in Seq(Nat) /\ Len(b) = f.len /\ (f.len > 0 => b[1] = f.type)
  BY <1>1
<1>5. Parser!BytesOf(f) = a \o b
  BY DEF Parser!BytesOf, Parser!Filler, high, low
<1> HIDE DEF a, b
<1>6. /\ a \o b \in Seq(Nat) /\ Len(a \o b) = 2 + f.len
      /\ (a \o b)[1] = a[1] /\ (a \o b)[2] = a[2]
      /\ f.len > 0 => (a \o b)[3] = b[1]
  <2>1. /\ a \o b \in Seq(Nat) /\ Len(a \o b) = Len(a) + Len(b)
        /\ \A i \in 1 .. Len(a) : (a \o b)[i] = a[i]
        /\ \A i \in 1 .. Len(b) : (a \o b)[Len(a) + i] = b[i]
    BY <1>3, <1>4, Concatenated
  <2>2. 1 \in 1 .. Len(a) /\ 2 \in 1 .. Len(a) /\ (f.len > 0 => 1 \in 1 .. Len(b)) /\ Len(a) + 1 = 3
    BY <1>1, <1>3, <1>4
  <2>3. f.len > 0 => (a \o b)[Len(a) + 1] = b[1]
    BY <2>1, <2>2
  <2> QED
    BY <1>3, <1>4, <2>1, <2>2, <2>3
<1>7. (a \o b)[1] * 256 + (a \o b)[2] = f.len
  <2>1. a[1] * 256 + a[2] = f.len
    BY <1>2, <1>3
  <2> QED
    BY <1>6, <2>1
<1> QED
  BY <1>4, <1>5, <1>6, <1>7

\* A run of bytes holds, behind the end of each frame, the next one.
Holds(bytes, fs, k) ==
  /\ bytes[Parser!Ends(fs)[k] + 1] * 256 + bytes[Parser!Ends(fs)[k] + 2] = fs[k + 1].len
  /\ fs[k + 1].len > 0 => bytes[Parser!Ends(fs)[k] + 3] = fs[k + 1].type

LEMMA RunsHold ==
  ASSUME NEW fs \in Seq(Parser!Frame)
  PROVE  /\ Parser!AllBytes(fs) \in Seq(Nat)
         /\ Len(Parser!AllBytes(fs)) = Parser!Ends(fs)[Len(fs)]
         /\ \A k \in 0 .. Len(fs) - 1 : Holds(Parser!AllBytes(fs), fs, k)
<1> DEFINE n == Len(fs)
           E == Parser!Ends(fs)
           R == Parser!Runs(fs)
           T == {m \in 0 .. n : /\ R[m] \in Seq(Nat) /\ Len(R[m]) = E[m]
                                /\ \A k \in 0 .. m - 1 : Holds(R[m], fs, k)}
<1>1. n \in Nat /\ R[0] = << >> /\ \A m \in 1 .. n : R[m] = R[m - 1] \o Parser!BytesOf(fs[m])
  <2>1. Len(fs) \in Nat
    OBVIOUS
  <2> QED
    BY <2>1, RunsAre
<1>2. /\ E[0] = 0 /\ \A m \in 1 .. n : E[m] = E[m - 1] + 2 + fs[m].len
      /\ \A k \in 0 .. n : E[k] \in Nat
  BY FrameEndsGrow
<1>3. 0 \in T
  <2>1. 0 \in 0 .. n /\ 0 .. 0 - 1 = {}
    BY <1>1
  <2>2. R[0] \in Seq(Nat) /\ Len(R[0]) = E[0]
    <3>1. << >> \in Seq(Nat) /\ Len(<< >>) = 0
      OBVIOUS
    <3> HIDE DEF R, E
    <3> QED
      BY <1>1, <1>2, <3>1
  <2> HIDE DEF R, E
  <2> QED
    BY <2>1, <2>2
<1>4. ASSUME NEW i \in 0 .. n - 1, i \in T PROVE i + 1 \in T
  <2> DEFINE b == Parser!BytesOf(fs[i + 1])
  <2>1. i + 1 \in 1 .. n /\ (i + 1) - 1 = i /\ i + 1 \in 0 .. n /\ i \in 0 .. n /\ i \in Nat
    BY <1>1
  <2>2. R[i + 1] = R[i] \o b /\ E[i + 1] = E[i] + 2 + fs[i + 1].len
    BY <1>1, <1>2, <2>1
  <2>3. fs[i + 1] \in Parser!Frame /\ fs[i + 1].len \in Nat
    BY <2>1, FrameOf
  <2>4. /\ b \in Seq(Nat) /\ Len(b) = 2 + fs[i + 1].len
        /\ b[1] * 256 + b[2] = fs[i + 1].len
        /\ fs[i + 1].len > 0 => b[3] = fs[i + 1].type
    BY <2>3, BytesOfFrame
  <2>5. R[i] \in Seq(Nat) /\ Len(R[i]) = E[i] /\ E[i] \in Nat
    BY <1>2, <1>4, <2>1
  <2> HIDE DEF b, R, E
  <2>9. /\ R[i] \o b \in Seq(Nat) /\ Len(R[i] \o b) = Len(R[i]) + Len(b)
        /\ \A j \in 1 .. Len(R[i]) : (R[i] \o b)[j] = R[i][j]
        /\ \A j \in 1 .. Len(b) : (R[i] \o b)[Len(R[i]) + j] = b[j]
    BY <2>4, <2>5, Concatenated
  <2>10. /\ R[i + 1] \in Seq(Nat) /\ Len(R[i + 1]) = E[i] + Len(b)
         /\ \A j \in 1 .. E[i] : R[i + 1][j] = R[i][j]
         /\ \A j \in 1 .. Len(b) : R[i + 1][E[i] + j] = b[j]
    BY <2>2, <2>5, <2>9
  <2>6. R[i + 1] \in Seq(Nat) /\ Len(R[i + 1]) = E[i + 1]
    <3>1. \A x, y \in Nat : x + (2 + y) = x + 2 + y
      OBVIOUS
    <3> DEFINE l == fs[i + 1].len
    <3>2. E[i + 1] = E[i] + 2 + l /\ Len(b) = 2 + l /\ l \in Nat
      BY <2>2, <2>3, <2>4
    <3> HIDE DEF l
    <3>3. E[i] + Len(b) = E[i + 1]
      BY <2>5, <3>1, <3>2
    <3> QED
      BY <2>10, <3>3
  <2>7. ASSUME NEW k \in 0 .. i PROVE Holds(R[i + 1], fs, k)
    <3>1. CASE k = i
      <4>1. /\ R[i + 1][E[i] + 1] = b[1] /\ R[i + 1][E[i] + 2] = b[2]
            /\ fs[i + 1].len > 0 => R[i + 1][E[i] + 3] = b[3]
        <5> DEFINE l == fs[i + 1].len
        <5>2. Len(b) = 2 + l /\ l \in Nat
          BY <2>3, <2>4
        <5> HIDE DEF l
        <5>3. 1 \in 1 .. Len(b) /\ 2 \in 1 .. Len(b) /\ (l > 0 => 3 \in 1 .. Len(b))
          BY <5>2
        <5>1. 1 \in 1 .. Len(b) /\ 2 \in 1 .. Len(b) /\ (fs[i + 1].len > 0 => 3 \in 1 .. Len(b))
          BY <5>3 DEF l
        <5> QED
          BY <2>10, <5>1
      <4> QED
        BY <2>4, <3>1, <4>1 DEF Holds, E
    <3>2. CASE k < i
      <4>1. k \in 0 .. i - 1 /\ k + 1 \in 1 .. n /\ (k + 1) - 1 = k /\ k \in 0 .. n /\ k + 1 \in 0 .. n
        BY <2>1, <3>2
      <4>2. Holds(R[i], fs, k)
        BY <1>4, <4>1 DEF R
      <4>3. E[k + 1] = E[k] + 2 + fs[k + 1].len /\ E[k] \in Nat /\ fs[k + 1].len \in Nat
        BY <1>2, <4>1, FrameOf DEF E
      <4>4. E[k + 1] <= E[i]
        <5>1. CASE k + 1 = i
          BY <2>5, <5>1
        <5>2. CASE k + 1 < i
          <6>1. E[k + 1] + 2 <= E[i] /\ E[k + 1] \in Nat
            BY <2>1, <4>1, <5>2, FrameEndsGrow DEF E
          <6> QED
            BY <2>5, <6>1
        <5> QED
          BY <2>1, <4>1, <3>2, <5>1, <5>2
      <4>6. /\ R[i + 1][E[k] + 1] = R[i][E[k] + 1] /\ R[i + 1][E[k] + 2] = R[i][E[k] + 2]
            /\ fs[k + 1].len > 0 => R[i + 1][E[k] + 3] = R[i][E[k] + 3]
        <5>1. /\ E[k] + 1 \in 1 .. E[i] /\ E[k] + 2 \in 1 .. E[i]
              /\ fs[k + 1].len > 0 => E[k] + 3 \in 1 .. E[i]
          <6>1. \A x, y, z \in Nat : x + 2 + y <= z =>
                   x + 1 \in 1 .. z /\ x + 2 \in 1 .. z /\ (y > 0 => x + 3 \in 1 .. z)
            OBVIOUS
          <6>2. E[k] + 2 + fs[k + 1].len <= E[i]
            BY <4>3, <4>4
          <6> QED
            BY <6>1, <6>2, <4>3, <2>5
        <5> QED
          BY <2>10, <5>1
      <4> QED
        BY <4>2, <4>6 DEF Holds, E
    <3> QED
      BY <2>1, <2>7, <3>1, <3>2
  <2>8. (i + 1) - 1 = i
    BY <2>1
  <2> QED
    BY <2>1, <2>6, <2>7, <2>8 DEF R, E
<1>5. \A m \in 0 .. n : m \in T
  <2> HIDE DEF T, n
  <2> QED
    BY <1>1, <1>3, <1>4, UpTo
<1>6. n \in T /\ Parser!AllBytes(fs) = R[n]
  BY <1>1, <1>5 DEF Parser!AllBytes
<1> QED
  BY <1>6

\* What a buffer that is cut anywhere shows at the end of a frame.
Shows(b, c, fs, k) ==
  /\ b \in Seq(Nat) /\ Len(b) = c
  /\ Parser!Ends(fs)[k] < c => k < Len(fs)
  /\ Parser!Ends(fs)[k] + 2 <= c =>
       b[Parser!Ends(fs)[k] + 1] * 256 + b[Parser!Ends(fs)[k] + 2] = fs[k + 1].len
  /\ Parser!Ends(fs)[k] + 3 <= c /\ fs[k + 1].len > 0 => b[Parser!Ends(fs)[k] + 3] = fs[k + 1].type

LEMMA BufferShows ==
  ASSUME NEW fs \in Seq(Parser!Frame), NEW c \in 0 .. Len(Parser!AllBytes(fs)),
         NEW k \in 0 .. Len(fs), Parser!Ends(fs)[k] <= c
  PROVE  Shows(SubSeq(Parser!AllBytes(fs), 1, c), c, fs, k)
<1> DEFINE A == Parser!AllBytes(fs)
           e == Parser!Ends(fs)[k]
           b == SubSeq(A, 1, c)
<1>1. A \in Seq(Nat) /\ Len(A) = Parser!Ends(fs)[Len(fs)] /\ Len(fs) \in Nat
  BY RunsHold
<1>2. e \in Nat
  BY FrameEndsGrow
<1>3. b \in Seq(Nat) /\ Len(b) = c /\ c \in Nat /\ \A i \in 1 .. c : b[i] = A[i]
  <2>1. A \in Seq(Nat) /\ c \in 0 .. Len(A)
    BY <1>1
  <2> HIDE DEF A
  <2> QED
    BY <2>1
<1>4. e < c => k < Len(fs)
  BY <1>1, <1>2, <1>3
<1>5. k < Len(fs) => Holds(A, fs, k)
  BY RunsHold, <1>1
<1>6. e + 2 <= c => b[e + 1] = A[e + 1] /\ b[e + 2] = A[e + 2]
  <2>1. e + 2 <= c => e + 1 \in 1 .. c /\ e + 2 \in 1 .. c
    <3> HIDE DEF e
    <3> QED
      BY <1>2, <1>3
  <2> QED
    BY <1>3, <2>1
<1>7. e + 3 <= c => b[e + 3] = A[e + 3]
  <2>1. e + 3 <= c => e + 3 \in 1 .. c
    <3> HIDE DEF e
    <3> QED
      BY <1>2, <1>3
  <2> QED
    BY <1>3, <2>1
<1>8. (e + 2 <= c => e < c) /\ (e + 3 <= c => e < c)
  BY <1>2, <1>3
<1> HIDE DEF A, b
<1>9. Shows(b, c, fs, k)
  BY <1>3, <1>4, <1>5, <1>6, <1>7, <1>8 DEF Holds, Shows
<1> QED
  BY <1>9 DEF A, b

\* The starts noted of a set of frames: those of the frames up to k are decided at k.
Given(fs, is) == Parser!StartsIn(fs, is)[Len(fs)]

SameUpTo(is, js, k) == \A i \in 1 .. k : i \in is <=> i \in js
LEMMA StartsAgree ==
  ASSUME NEW fs, Len(fs) \in Nat, NEW is, NEW js, NEW k \in 0 .. Len(fs),
         SameUpTo(is, js, k)
  PROVE  Parser!StartsIn(fs, is)[k] = Parser!StartsIn(fs, js)[k]
<1> DEFINE S == Parser!StartsIn(fs, is)
           U == Parser!StartsIn(fs, js)
           T == {m \in 0 .. k : S[m] = U[m]}
<1>1. /\ S[0] = << >> /\ U[0] = << >>
      /\ \A m \in 1 .. Len(fs) : S[m] = IF m \in is THEN Append(S[m - 1], Parser!Ends(fs)[m - 1]) ELSE S[m - 1]
      /\ \A m \in 1 .. Len(fs) : U[m] = IF m \in js THEN Append(U[m - 1], Parser!Ends(fs)[m - 1]) ELSE U[m - 1]
  BY StartsAre
<1> HIDE DEF S, U
<1>2. 0 \in T /\ k \in Nat
  BY <1>1
<1>3. ASSUME NEW i \in 0 .. k - 1, i \in T PROVE i + 1 \in T
  <2>1. i + 1 \in 1 .. Len(fs) /\ (i + 1) - 1 = i /\ i + 1 \in 1 .. k /\ i + 1 \in 0 .. k
    OBVIOUS
  <2>2. S[i] = U[i] /\ (i + 1 \in is <=> i + 1 \in js)
    BY <1>3, <2>1 DEF SameUpTo
  <2>3. S[i + 1] = IF i + 1 \in is THEN Append(S[i], Parser!Ends(fs)[i]) ELSE S[i]
    BY <1>1, <2>1
  <2>4. U[i + 1] = IF i + 1 \in js THEN Append(U[i], Parser!Ends(fs)[i]) ELSE U[i]
    BY <1>1, <2>1
  <2>5. S[i + 1] = U[i + 1]
    BY <2>2, <2>3, <2>4
  <2> QED
    BY <2>1, <2>5
<1>4. \A m \in 0 .. k : m \in T
  <2> HIDE DEF T
  <2> QED
    BY <1>2, <1>3, UpTo
<1>5. k \in T
  BY <1>2, <1>4
<1> QED
  BY <1>5 DEF S, U

LEMMA StartsFlat ==
  ASSUME NEW fs, Len(fs) \in Nat, NEW is, NEW k \in 0 .. Len(fs), is \subseteq 1 .. k
  PROVE  Given(fs, is) = Parser!StartsIn(fs, is)[k]
<1> DEFINE S == Parser!StartsIn(fs, is)
           T == {m \in 0 .. Len(fs) - k : S[k + m] = S[k]}
<1>1. \A m \in 1 .. Len(fs) : S[m] = IF m \in is THEN Append(S[m - 1], Parser!Ends(fs)[m - 1]) ELSE S[m - 1]
  BY StartsAre
<1> HIDE DEF S
<1>2. 0 \in T /\ Len(fs) - k \in Nat
  OBVIOUS
<1>3. ASSUME NEW i \in 0 .. (Len(fs) - k) - 1, i \in T PROVE i + 1 \in T
  <2>1. /\ k + (i + 1) \in 1 .. Len(fs) /\ (k + (i + 1)) - 1 = k + i /\ i + 1 \in 0 .. Len(fs) - k
        /\ ~ (k + (i + 1) \in 1 .. k)
    OBVIOUS
  <2>2. S[k + (i + 1)] = S[k + i]
    BY <1>1, <2>1
  <2> QED
    BY <1>3, <2>1, <2>2
<1>4. \A m \in 0 .. Len(fs) - k : m \in T
  <2> HIDE DEF T
  <2> QED
    BY <1>2, <1>3, UpTo
<1>5. Len(fs) - k \in T /\ k + (Len(fs) - k) = Len(fs)
  BY <1>2, <1>4
<1> QED
  BY <1>5 DEF S, Given

LEMMA GivenNone ==
  ASSUME NEW fs, Len(fs) \in Nat
  PROVE  Given(fs, {}) = << >>
<1>1. Given(fs, {}) = Parser!StartsIn(fs, {})[0]
  <2>1. 0 \in 0 .. Len(fs) /\ {} \subseteq 1 .. 0
    OBVIOUS
  <2> QED
    BY <2>1, StartsFlat
<1> QED
  BY <1>1, StartsAre

LEMMA GivenNext ==
  ASSUME NEW fs, Len(fs) \in Nat, NEW k \in 0 .. Len(fs) - 1, NEW is, is \subseteq 1 .. k
  PROVE  Given(fs, is \cup {k + 1}) = Append(Given(fs, is), Parser!Ends(fs)[k])
<1> DEFINE js == is \cup {k + 1}
<1>1. /\ k \in 0 .. Len(fs) /\ k + 1 \in 0 .. Len(fs) /\ k + 1 \in 1 .. Len(fs) /\ (k + 1) - 1 = k
      /\ js \subseteq 1 .. k + 1 /\ k + 1 \in js /\ \A i \in 1 .. k : i \in js <=> i \in is
  OBVIOUS
<1> HIDE DEF js
<1>2. Given(fs, js) = Parser!StartsIn(fs, js)[k + 1]
  BY <1>1, StartsFlat
<1>3. Parser!StartsIn(fs, js)[k + 1] = Append(Parser!StartsIn(fs, js)[k], Parser!Ends(fs)[k])
  <2>1. \A m \in 1 .. Len(fs) :
          Parser!StartsIn(fs, js)[m] =
            IF m \in js THEN Append(Parser!StartsIn(fs, js)[m - 1], Parser!Ends(fs)[m - 1])
            ELSE Parser!StartsIn(fs, js)[m - 1]
    BY StartsAre
  <2> QED
    BY <1>1, <2>1
<1>4. Parser!StartsIn(fs, js)[k] = Parser!StartsIn(fs, is)[k]
  <2>1. SameUpTo(js, is, k)
    BY <1>1 DEF SameUpTo
  <2> QED
    BY <1>1, <2>1, StartsAgree
<1>5. Given(fs, is) = Parser!StartsIn(fs, is)[k]
  BY <1>1, StartsFlat
<1> QED
  BY <1>2, <1>3, <1>4, <1>5 DEF js

-----------------------------------------------------------------------------
\* The frames up to k that are well formed, that a collecting overload keeps, and that
\* are counted as unknown and as malformed.
Good(fs, k) == {i \in 1 .. k : fs[i].len > 0 /\ WireSize[fs[i].type] \in 1 .. fs[i].len}
Wanted(fs, k, kd, fl) ==
  {i \in Good(fs, k) : kd \in {"vector", "try_vector"} \/ (kd = "filter" /\ fs[i].type \in fl)}
Strange(fs, k) == {i \in 1 .. k : fs[i].len > 0 /\ WireSize[fs[i].type] = 0}
Undersized(fs, k) == {i \in 1 .. k : fs[i].len > 0 /\ fs[i].len < WireSize[fs[i].type]}

LEMMA SetsInRange ==
  ASSUME NEW fs, NEW k \in Nat, NEW kd, NEW fl
  PROVE  /\ Good(fs, k) \subseteq 1 .. k /\ Wanted(fs, k, kd, fl) \subseteq 1 .. k
         /\ Strange(fs, k) \subseteq 1 .. k /\ Undersized(fs, k) \subseteq 1 .. k
         /\ IsFiniteSet(Strange(fs, k)) /\ IsFiniteSet(Undersized(fs, k))
         /\ Cardinality(Strange(fs, k)) \in Nat /\ Cardinality(Undersized(fs, k)) \in Nat
<1>1. /\ Good(fs, k) \subseteq 1 .. k /\ Wanted(fs, k, kd, fl) \subseteq 1 .. k
      /\ Strange(fs, k) \subseteq 1 .. k /\ Undersized(fs, k) \subseteq 1 .. k
  BY DEF Good, Wanted, Strange, Undersized
<1>2. IsFiniteSet(1 .. k)
  BY FS_Interval
<1>3. IsFiniteSet(Strange(fs, k)) /\ IsFiniteSet(Undersized(fs, k))
  BY <1>1, <1>2, FS_Subset
<1> QED
  BY <1>1, <1>3, FS_CardinalityType

LEMMA SetsOfNone ==
  ASSUME NEW fs, NEW kd, NEW fl
  PROVE  /\ Good(fs, 0) = {} /\ Wanted(fs, 0, kd, fl) = {}
         /\ Strange(fs, 0) = {} /\ Undersized(fs, 0) = {}
  BY DEF Good, Wanted, Strange, Undersized

\* One frame more is in exactly one of them, or empty.
LEMMA SetsNext ==
  ASSUME NEW fs, NEW k \in Nat, NEW kd, NEW fl
  PROVE  /\ Good(fs, k + 1) = IF fs[k + 1].len > 0 /\ WireSize[fs[k + 1].type] \in 1 .. fs[k + 1].len
                              THEN Good(fs, k) \cup {k + 1} ELSE Good(fs, k)
         /\ Wanted(fs, k + 1, kd, fl) =
              IF /\ fs[k + 1].len > 0 /\ WireSize[fs[k + 1].type] \in 1 .. fs[k + 1].len
                 /\ kd \in {"vector", "try_vector"} \/ (kd = "filter" /\ fs[k + 1].type \in fl)
              THEN Wanted(fs, k, kd, fl) \cup {k + 1} ELSE Wanted(fs, k, kd, fl)
         /\ Strange(fs, k + 1) = IF fs[k + 1].len > 0 /\ WireSize[fs[k + 1].type] = 0
                                 THEN Strange(fs, k) \cup {k + 1} ELSE Strange(fs, k)
         /\ Undersized(fs, k + 1) = IF fs[k + 1].len > 0 /\ fs[k + 1].len < WireSize[fs[k + 1].type]
                                    THEN Undersized(fs, k) \cup {k + 1} ELSE Undersized(fs, k)
<1>1. 1 .. k + 1 = (1 .. k) \cup {k + 1}
  OBVIOUS
<1>2. Good(fs, k + 1) = IF fs[k + 1].len > 0 /\ WireSize[fs[k + 1].type] \in 1 .. fs[k + 1].len
                        THEN Good(fs, k) \cup {k + 1} ELSE Good(fs, k)
  BY <1>1, Zenon DEF Good
<1>3. Wanted(fs, k + 1, kd, fl) =
        IF /\ fs[k + 1].len > 0 /\ WireSize[fs[k + 1].type] \in 1 .. fs[k + 1].len
           /\ kd \in {"vector", "try_vector"} \/ (kd = "filter" /\ fs[k + 1].type \in fl)
        THEN Wanted(fs, k, kd, fl) \cup {k + 1} ELSE Wanted(fs, k, kd, fl)
  <2> DEFINE full(i) == fs[i].len > 0 /\ WireSize[fs[i].type] \in 1 .. fs[i].len
             asked(i) == kd \in {"vector", "try_vector"} \/ (kd = "filter" /\ fs[i].type \in fl)
  <2>1. \A m : Wanted(fs, m, kd, fl) = {i \in 1 .. m : full(i) /\ asked(i)}
    BY DEF Wanted, Good
  <2> HIDE DEF full, asked
  <2>2. {i \in 1 .. k + 1 : full(i) /\ asked(i)} =
          IF full(k + 1) /\ asked(k + 1) THEN {i \in 1 .. k : full(i) /\ asked(i)} \cup {k + 1}
          ELSE {i \in 1 .. k : full(i) /\ asked(i)}
    BY <1>1, Zenon
  <2>3. Wanted(fs, k + 1, kd, fl) = IF full(k + 1) /\ asked(k + 1)
                                    THEN Wanted(fs, k, kd, fl) \cup {k + 1} ELSE Wanted(fs, k, kd, fl)
    BY <2>1, <2>2, Zenon
  <2> QED
    BY <2>3, Zenon DEF full, asked
<1>4. Strange(fs, k + 1) = IF fs[k + 1].len > 0 /\ WireSize[fs[k + 1].type] = 0
                           THEN Strange(fs, k) \cup {k + 1} ELSE Strange(fs, k)
  BY <1>1, Zenon DEF Strange
<1>5. Undersized(fs, k + 1) = IF fs[k + 1].len > 0 /\ fs[k + 1].len < WireSize[fs[k + 1].type]
                              THEN Undersized(fs, k) \cup {k + 1} ELSE Undersized(fs, k)
  BY <1>1, Zenon DEF Undersized
<1> QED
  BY <1>2, <1>3, <1>4, <1>5

LEMMA OneMore ==
  ASSUME NEW k \in Nat, NEW is, is \subseteq 1 .. k, IsFiniteSet(is)
  PROVE  Cardinality(is \cup {k + 1}) = Cardinality(is) + 1
<1>1. ~ (k + 1 \in is)
  OBVIOUS
<1> QED
  BY <1>1, FS_AddElement

-----------------------------------------------------------------------------
(* Framing: the inductive invariant.                                       *)

\* The variables are what they look like, and a buffer that is all there is the run of
\* its frames up to the cut.
Errors == {"unknown_type", "size_mismatch", "truncated"}
Calling ==
  /\ frames \in Seq(Parser!Frame) /\ f_cut \in 0 .. Len(Parser!AllBytes(frames))
  /\ buffer \in Seq(Nat) /\ f_offset \in 0 .. Len(buffer)
  /\ f_pc \in {"idle", "loop", "returned"} /\ kind \in Parser!Kinds
  /\ m_unknown_message_count \in Nat /\ m_malformed_message_count \in Nat
  /\ base[1] \in Nat /\ base[2] \in Nat /\ errors \in Seq(Errors)
  /\ outcome \in {"none", "ok", "unexpected", "stream_error"} \cup Parser!Exceptions
  /\ f_pc = "returned" <=> outcome # "none"
  /\ f_pc # "idle" /\ Parser!Trusted => buffer = SubSeq(Parser!AllBytes(frames), 1, f_cut)

\* The call has passed the first k frames.
Framed(k) ==
  /\ k \in 0 .. Len(frames) /\ f_offset = Parser!Ends(frames)[k] /\ f_offset <= f_cut
  /\ delivered = Given(frames, Good(frames, k))
  /\ results = Given(frames, Wanted(frames, k, kind, filter))
Tallied(k, more) ==
  /\ m_unknown_message_count = base[1] + Cardinality(Strange(frames, k))
  /\ m_malformed_message_count = base[2] + Cardinality(Undersized(frames, k)) + more
  /\ m_error_callback => Len(errors) = Cardinality(Strange(frames, k))
                                       + Cardinality(Undersized(frames, k)) + more
AllPassed(k) == \A i \in 1 .. Len(frames) : Parser!Ends(frames)[i] <= f_cut => i <= k
EmptyFilter == kind = "filter" /\ filter = {}

\* The call has left its loop behind frame k, and `more' says whether it reported a
\* truncated end.
Closed(k, more) ==
  /\ more \in {0, 1}
  /\ kind # "views" => Tallied(k, more)
  /\ more = 1 => Parser!CutInside /\ AllPassed(k)
  /\ threw = "no" =>
       /\ AllPassed(k)
       /\ outcome = IF ~Parser!CutInside \/ kind \in {"datagram", "views"} THEN "ok"
                    ELSE IF kind \in {"try", "try_vector"} THEN "unexpected" ELSE "runtime_error"
       /\ kind # "views" => more = IF Parser!CutInside THEN 1 ELSE 0
  /\ outcome = "ok" /\ kind # "datagram" => AllPassed(k)

Looping ==
  f_pc = "loop" =>
    /\ threw = "no" /\ ~EmptyFilter
    /\ Parser!Trusted => \E k \in Nat : Framed(k) /\ (kind # "views" => Tallied(k, 0))
Returned ==
  f_pc = "returned" /\ Parser!Trusted =>
    \E k \in Nat : /\ Framed(k)
                   /\ outcome # "stream_error" /\ ~EmptyFilter => \E more : Closed(k, more)
FramingInv == Calling /\ Looping /\ Returned

\* What the frames behind a position among them are.
LEMMA FramesAt ==
  ASSUME Calling, NEW k \in Nat, Framed(k)
  PROVE  /\ \A i \in 1 .. Len(frames) : Parser!Reached(i) <=> i \in 1 .. k
         /\ \A i \in 1 .. Len(frames) : Parser!Ends(frames)[i] \in Nat
         /\ k <= Len(frames) /\ Len(frames) \in Nat
<1> DEFINE E == Parser!Ends(frames)
           n == Len(frames)
<1>1. /\ k \in 0 .. n /\ n \in Nat /\ f_offset = E[k] /\ E[k] \in Nat /\ f_cut \in Nat /\ E[k] <= f_cut
      /\ \A i \in 0 .. n : E[i] \in Nat
  <2>1. frames \in Seq(Parser!Frame) /\ n \in Nat
    BY DEF Calling
  <2>2. f_cut \in Nat
    BY <2>1, RunsHold DEF Calling
  <2> QED
    BY <2>1, <2>2, FrameEndsGrow DEF Framed
<1>2. \A j \in 0 .. n : \A i \in 0 .. n : i < j => E[i] + 2 <= E[j]
  BY FrameEndsGrow DEF Calling
<1> HIDE DEF E
<1>3. ASSUME NEW i \in 1 .. n PROVE Parser!Reached(i) <=> i \in 1 .. k
  <2>1. Parser!Reached(i) <=> E[i] <= f_cut /\ E[i] <= f_offset
    BY DEF Parser!Reached, Parser!Whole, Parser!EndOf, E
  <2>2. i \in 0 .. n /\ E[i] \in Nat
    BY <1>1
  <2>3. CASE i <= k
    <3>1. E[i] <= E[k]
      <4>1. CASE i = k
        BY <1>1, <4>1
      <4>2. CASE i < k
        BY <1>1, <1>2, <2>2, <4>2
      <4> QED
        BY <1>1, <2>3, <4>1, <4>2
    <3> QED
      BY <1>1, <2>1, <2>2, <2>3, <3>1
  <2>4. CASE k < i
    <3>1. E[k] + 2 <= E[i]
      BY <1>1, <1>2, <2>2, <2>4
    <3> QED
      BY <1>1, <2>1, <2>2, <2>4, <3>1
  <2> QED
    BY <1>1, <2>3, <2>4
<1> QED
  BY <1>1, <1>3 DEF E

\* What the invariant says of the properties.
LEMMA FramingDelivers ==
  ASSUME FramingInv
  PROVE  DeliversWellFormedFrames
<1>1. Parser!TypeOK
  BY DEF FramingInv, Calling, Parser!TypeOK, Parser!size
<1>2. ASSUME f_pc # "idle", Parser!Trusted
      PROVE  delivered = Parser!Starts({i \in Parser!Indices : Parser!Reached(i) /\ Parser!WellFormed(i)})
  <2>1. PICK k \in Nat : Framed(k)
    BY <1>2 DEF FramingInv, Looping, Returned, Calling
  <2>2. /\ \A i \in 1 .. Len(frames) : Parser!Reached(i) <=> i \in 1 .. k
        /\ k <= Len(frames) /\ Len(frames) \in Nat
    BY <2>1, FramesAt DEF FramingInv
  <2>3. {i \in Parser!Indices : Parser!Reached(i) /\ Parser!WellFormed(i)} = Good(frames, k)
    <3>1. \A i : Parser!WellFormed(i) <=> frames[i].len > 0 /\ WireSize[frames[i].type] \in 1 .. frames[i].len
      BY DEF Parser!WellFormed
    <3>2. \A i \in 1 .. k : i \in 1 .. Len(frames)
      BY <2>2
    <3> QED
      BY <2>2, <3>1, <3>2, Zenon DEF Good, Parser!Indices
  <2> QED
    BY <2>1, <2>3 DEF Framed, Given, Parser!Starts
<1> QED
  BY <1>1, <1>2 DEF DeliversWellFormedFrames, Parser!DeliversWellFormedFrames

LEMMA CountsAgree ==
  \A is : Parser!Cardinality(is) = Cardinality(is)
  BY DEF Parser!Cardinality, Cardinality

LEMMA FramingEnds ==
  ASSUME FramingInv
  PROVE  CallsEndAsDocumented
<1>1. ASSUME f_pc # "idle", Parser!Trusted
      PROVE  \E k \in Nat : Framed(k)
  BY <1>1 DEF FramingInv, Looping, Returned, Calling
<1>2. ASSUME NEW k \in Nat, Framed(k)
      PROVE  /\ \A i \in 1 .. Len(frames) : Parser!Reached(i) <=> i \in 1 .. k
             /\ \A i \in 1 .. Len(frames) : Parser!Whole(i) <=> Parser!Ends(frames)[i] <= f_cut
             /\ k <= Len(frames) /\ Len(frames) \in Nat /\ Parser!Indices = 1 .. Len(frames)
             /\ (\A i \in Parser!Indices : Parser!Whole(i) => Parser!Reached(i)) <=> AllPassed(k)
             /\ \A i \in 1 .. k : i \in 1 .. Len(frames) /\ Parser!Whole(i)
  <2>1. /\ \A i \in 1 .. Len(frames) : Parser!Reached(i) <=> i \in 1 .. k
        /\ k <= Len(frames) /\ Len(frames) \in Nat
    BY <1>2, FramesAt DEF FramingInv
  <2>2. Parser!Indices = 1 .. Len(frames)
    BY DEF Parser!Indices
  <2>3. \A i : Parser!Whole(i) <=> Parser!Ends(frames)[i] <= f_cut
    BY DEF Parser!Whole, Parser!EndOf
  <2>4. \A i \in 1 .. Len(frames) : i \in 1 .. k <=> i <= k
    BY <2>1
  <2>5. (\A i \in Parser!Indices : Parser!Whole(i) => Parser!Reached(i)) <=> AllPassed(k)
    BY <2>1, <2>2, <2>3, <2>4, Zenon DEF AllPassed
  <2>6. \A i \in 1 .. k : i \in 1 .. Len(frames)
    BY <2>1
  <2>7. \A i : Parser!Reached(i) => Parser!Whole(i)
    BY DEF Parser!Reached
  <2> QED
    BY <2>1, <2>2, <2>3, <2>5, <2>6, <2>7, Zenon
<1>3. Parser!EndsAsDocumented
  <2> SUFFICES ASSUME f_pc = "returned", threw = "no", Parser!Trusted, outcome # "stream_error", ~EmptyFilter
               PROVE  /\ \A i \in Parser!Indices : Parser!Whole(i) => Parser!Reached(i)
                      /\ outcome = IF ~Parser!CutInside \/ kind \in {"datagram", "views"} THEN "ok"
                                   ELSE IF kind \in {"try", "try_vector"} THEN "unexpected" ELSE "runtime_error"
    BY DEF Parser!EndsAsDocumented, EmptyFilter
  <2>1. PICK k \in Nat : Framed(k) /\ \E more : Closed(k, more)
    BY DEF FramingInv, Returned
  <2> QED
    BY <1>2, <2>1 DEF Closed
<1>4. Parser!CollectsWhatWasAsked
  <2> SUFFICES ASSUME f_pc = "returned", outcome = "ok", kind \in {"vector", "try_vector", "filter"}
               PROVE  results = Parser!Starts({i \in Parser!Indices :
                                  /\ Parser!Whole(i) /\ Parser!WellFormed(i)
                                  /\ kind = "filter" => frames[i].type \in filter})
    BY DEF Parser!CollectsWhatWasAsked
  <2>1. Parser!Trusted
    BY DEF Parser!Trusted
  <2>2. PICK k \in Nat : Framed(k) /\ (~EmptyFilter => \E more : Closed(k, more))
    BY <2>1 DEF FramingInv, Returned
  <2>3. ~EmptyFilter => AllPassed(k)
    BY <2>2 DEF Closed
  <2> DEFINE asked(i) == kind = "filter" => frames[i].type \in filter
  <2>4. \A i : Parser!WellFormed(i) <=> frames[i].len > 0 /\ WireSize[frames[i].type] \in 1 .. frames[i].len
    BY DEF Parser!WellFormed
  <2>5. \A i : asked(i) <=> (kind \in {"vector", "try_vector"} \/ (kind = "filter" /\ frames[i].type \in filter))
    OBVIOUS
  <2>6. EmptyFilter => \A i : ~asked(i)
    BY DEF EmptyFilter
  <2> HIDE DEF asked
  <2>7. Wanted(frames, k, kind, filter) = {i \in 1 .. k : Parser!WellFormed(i) /\ asked(i)}
    BY <2>4, <2>5, Zenon DEF Wanted, Good
  <2>8. {i \in Parser!Indices : Parser!Whole(i) /\ Parser!WellFormed(i) /\ asked(i)}
          = {i \in 1 .. k : Parser!WellFormed(i) /\ asked(i)}
    <3>1. ASSUME NEW i, asked(i)
          PROVE  i \in Parser!Indices /\ Parser!Whole(i) <=> i \in 1 .. k
      <4>1. ~EmptyFilter
        BY <2>6, <3>1
      <4>2. \A j \in Parser!Indices : Parser!Whole(j) => Parser!Reached(j)
        BY <1>2, <2>2, <2>3, <4>1
      <4> QED
        BY <1>2, <2>2, <4>2, Zenon
    <3> QED
      BY <3>1, Zenon
  <2> QED
    BY <2>2, <2>7, <2>8, Zenon DEF Framed, Given, Parser!Starts, asked
<1>5. Parser!DiagnosticsAreExact
  <2> DEFINE unknown == Parser!UnknownPassed
             short == Parser!ShortPassed
             all == \A i \in Parser!Indices : Parser!Whole(i) => Parser!Reached(i)
             atEnd == Parser!EndReported
  <2> SUFFICES ASSUME f_pc # "idle", Parser!Trusted, kind # "views", outcome # "stream_error", ~EmptyFilter
               PROVE  /\ Parser!unknowns = Cardinality(unknown)
                      /\ Parser!malformeds - Cardinality(short) \in IF threw = "no" THEN {atEnd} ELSE 0 .. atEnd
                      /\ m_error_callback => Len(errors) = Parser!unknowns + Parser!malformeds
    BY CountsAgree DEF Parser!DiagnosticsAreExact, EmptyFilter
  <2>1. \E k \in Nat : \E more \in {0, 1} :
          /\ Framed(k) /\ Tallied(k, more)
          /\ more = 1 => Parser!CutInside /\ AllPassed(k) /\ f_pc = "returned"
          /\ threw = "no" /\ f_pc = "returned" => more = (IF Parser!CutInside THEN 1 ELSE 0) /\ AllPassed(k)
          /\ threw = "no" /\ f_pc # "returned" => more = 0
    <3>1. CASE f_pc = "loop"
      <4>1. PICK k \in Nat : Framed(k) /\ Tallied(k, 0)
        BY <3>1 DEF FramingInv, Looping
      <4> QED
        BY <3>1, <4>1
    <3>2. CASE f_pc = "returned"
      <4>1. PICK k \in Nat : Framed(k) /\ \E more : Closed(k, more)
        BY <3>2 DEF FramingInv, Returned
      <4>2. PICK more : Closed(k, more)
        BY <4>1
      <4> QED
        BY <3>2, <4>1, <4>2 DEF Closed
    <3> QED
      BY <3>1, <3>2 DEF FramingInv, Calling
  <2>2. PICK k \in Nat, more \in {0, 1} :
          /\ Framed(k) /\ Tallied(k, more)
          /\ more = 1 => Parser!CutInside /\ AllPassed(k) /\ f_pc = "returned"
          /\ threw = "no" /\ f_pc = "returned" => more = (IF Parser!CutInside THEN 1 ELSE 0) /\ AllPassed(k)
          /\ threw = "no" /\ f_pc # "returned" => more = 0
    BY <2>1
  <2>3. all <=> AllPassed(k)
    BY <1>2, <2>2
  <2>4. unknown = Strange(frames, k) /\ short = Undersized(frames, k)
    <3>1. \A i : i \in Parser!Indices /\ Parser!Reached(i) <=> i \in 1 .. k
      BY <1>2, <2>2, Zenon
    <3> QED
      BY <3>1, Zenon DEF Strange, Undersized, Parser!UnknownPassed, Parser!ShortPassed
  <2>5. /\ Cardinality(Strange(frames, k)) \in Nat /\ Cardinality(Undersized(frames, k)) \in Nat
        /\ base[1] \in Nat /\ base[2] \in Nat
    BY SetsInRange DEF FramingInv, Calling
  <2> HIDE DEF unknown, short, all
  <2>6. /\ m_unknown_message_count - base[1] = Cardinality(unknown)
        /\ (m_malformed_message_count - base[2]) - Cardinality(short) = more
        /\ m_error_callback => Len(errors) = Cardinality(unknown) + (Cardinality(short) + more)
        /\ m_malformed_message_count - base[2] = Cardinality(short) + more
    <3>1. /\ \A u, v \in Nat : (u + v) - u = v
          /\ \A u, v, w \in Nat : /\ ((u + v + w) - u) - v = w /\ (u + v + w) - u = v + w
                               /\ u + v + w = u + (v + w)
      OBVIOUS
    <3>2. more \in Nat
      OBVIOUS
    <3> DEFINE x == Cardinality(unknown)
               y == Cardinality(short)
    <3>3. /\ m_unknown_message_count = base[1] + x /\ m_malformed_message_count = base[2] + y + more
          /\ m_error_callback => Len(errors) = x + y + more
          /\ x \in Nat /\ y \in Nat
      BY <2>2, <2>4, <2>5 DEF Tallied
    <3> HIDE DEF x, y
    <3>4. m_unknown_message_count - base[1] = x
      BY <2>5, <3>1, <3>3
    <3>5. (m_malformed_message_count - base[2]) - y = more /\ m_malformed_message_count - base[2] = y + more
      BY <2>5, <3>1, <3>2, <3>3
    <3>6. x + y + more = x + (y + more)
      BY <3>1, <3>2, <3>3
    <3> QED
      BY <3>3, <3>4, <3>5, <3>6 DEF x, y
  <2>7. more \in IF threw = "no" THEN {atEnd} ELSE 0 .. atEnd
    BY <2>2, <2>3 DEF Parser!EndReported, all
  <2> QED
    BY <2>6, <2>7 DEF unknown, short, Parser!unknowns, Parser!malformeds
<1> QED
  BY <1>3, <1>4, <1>5 DEF CallsEndAsDocumented

-----------------------------------------------------------------------------
(* Framing: a turn of the loop.                                            *)

\* What the loop reads behind frame k is frame k + 1.
LEMMA LoopReads ==
  ASSUME Calling, f_pc # "idle", Parser!Trusted, NEW k \in Nat, Framed(k)
  PROVE  /\ Parser!size = f_cut
         /\ Parser!HasPrefix =>
              /\ k + 1 \in 1 .. Len(frames) /\ Parser!Prefix = frames[k + 1].len
              /\ Parser!Ends(frames)[k + 1] = f_offset + 2 + Parser!Prefix
         /\ Parser!HasPrefix /\ Parser!Prefix > 0 /\ f_offset + 2 + Parser!Prefix <= Parser!size =>
              Parser!Type = frames[k + 1].type
         /\ (Parser!HasPrefix => f_offset + 2 + Parser!Prefix > Parser!size) => AllPassed(k)
         /\ f_offset = Parser!size => ~Parser!CutInside
         /\ (IF Parser!HasPrefix THEN f_offset + 2 + Parser!Prefix > Parser!size
             ELSE f_offset < Parser!size) => Parser!CutInside
<1> DEFINE E == Parser!Ends(frames)
           n == Len(frames)
<1>1. /\ frames \in Seq(Parser!Frame) /\ n \in Nat /\ f_cut \in 0 .. Len(Parser!AllBytes(frames))
      /\ buffer = SubSeq(Parser!AllBytes(frames), 1, f_cut) /\ k \in 0 .. n
      /\ f_offset = E[k] /\ E[k] <= f_cut
  BY DEF Calling, Framed
<1>2. f_cut \in Nat
  BY <1>1, RunsHold
<1>3. /\ \A i \in 0 .. n : E[i] \in Nat
      /\ \A i \in 1 .. n : E[i] = E[i - 1] + 2 + frames[i].len
      /\ E[0] = 0
      /\ \A j \in 0 .. n : \A i \in 0 .. n : i < j => E[i] + 2 <= E[j]
  BY <1>1, FrameEndsGrow
<1>4. /\ Len(buffer) = f_cut
      /\ E[k] < f_cut => k < n
      /\ E[k] + 2 <= f_cut => buffer[E[k] + 1] * 256 + buffer[E[k] + 2] = frames[k + 1].len
      /\ E[k] + 3 <= f_cut /\ frames[k + 1].len > 0 => buffer[E[k] + 3] = frames[k + 1].type
  <2>1. Shows(SubSeq(Parser!AllBytes(frames), 1, f_cut), f_cut, frames, k)
    BY <1>1, BufferShows
  <2>2. Shows(buffer, f_cut, frames, k)
    BY <1>1, <2>1
  <2> QED
    BY <2>2 DEF Shows
<1>5. E[k] \in Nat /\ (k < n => k + 1 \in 1 .. n /\ k + 1 \in 0 .. n /\ (k + 1) - 1 = k)
  BY <1>1, <1>3
<1>6. k < n => frames[k + 1].len \in Nat /\ E[k + 1] \in Nat /\ E[k + 1] = E[k] + 2 + frames[k + 1].len
  BY <1>1, <1>3, <1>5, FrameOf
<1> HIDE DEF E
<1>7. Parser!size = f_cut
  BY <1>4 DEF Parser!size
<1>8. Parser!HasPrefix <=> E[k] + 2 <= f_cut
  BY <1>1, <1>7 DEF Parser!HasPrefix
<1>9. Parser!HasPrefix => /\ k < n /\ Parser!Prefix = frames[k + 1].len /\ E[k] < f_cut
                          /\ E[k + 1] = f_offset + 2 + Parser!Prefix
  <2> SUFFICES ASSUME Parser!HasPrefix
               PROVE  /\ k < n /\ Parser!Prefix = frames[k + 1].len /\ E[k] < f_cut
                      /\ E[k + 1] = f_offset + 2 + Parser!Prefix
    OBVIOUS
  <2>1. E[k] < f_cut
    BY <1>2, <1>5, <1>8
  <2>2. buffer[E[k] + 1] * 256 + buffer[E[k] + 2] = frames[k + 1].len
    BY <1>4, <1>8
  <2>3. Parser!Prefix = frames[k + 1].len
    BY <1>1, <2>2 DEF Parser!Prefix
  <2> QED
    BY <1>1, <1>4, <1>6, <2>1, <2>3
<1>10. Parser!HasPrefix /\ Parser!Prefix > 0 /\ f_offset + 2 + Parser!Prefix <= Parser!size =>
         Parser!Type = frames[k + 1].type
  <2> SUFFICES ASSUME Parser!HasPrefix, Parser!Prefix > 0, f_offset + 2 + Parser!Prefix <= Parser!size
               PROVE  Parser!Type = frames[k + 1].type
    OBVIOUS
  <2>1. frames[k + 1].len \in Nat /\ frames[k + 1].len > 0 /\ E[k] + 2 + frames[k + 1].len <= f_cut
    BY <1>1, <1>6, <1>7, <1>9
  <2>2. E[k] + 3 <= f_cut
    BY <1>2, <1>5, <2>1
  <2> QED
    BY <1>1, <1>4, <2>1, <2>2 DEF Parser!Type
<1>11. ASSUME Parser!HasPrefix => f_offset + 2 + Parser!Prefix > Parser!size,
              NEW i \in 1 .. n, k < i
       PROVE  E[i] > f_cut
  <2>1. i \in 0 .. n /\ E[i] \in Nat /\ E[k] + 2 <= E[i] /\ k < n
    BY <1>1, <1>3, <1>11
  <2>2. CASE ~Parser!HasPrefix
    BY <1>2, <1>5, <1>8, <2>1, <2>2
  <2>3. CASE Parser!HasPrefix
    <3>1. E[k + 1] > f_cut /\ E[k + 1] \in Nat
      BY <1>6, <1>7, <1>9, <1>11, <2>3
    <3>2. CASE i = k + 1
      BY <3>1, <3>2
    <3>3. CASE k + 1 < i
      <4>1. E[k + 1] + 2 <= E[i]
        BY <1>3, <1>5, <2>1, <3>3
      <4> QED
        BY <1>2, <2>1, <3>1, <4>1
    <3> QED
      BY <1>1, <1>11, <3>2, <3>3
  <2> QED
    BY <2>2, <2>3
<1>12. (Parser!HasPrefix => f_offset + 2 + Parser!Prefix > Parser!size) => AllPassed(k)
  <2> SUFFICES ASSUME Parser!HasPrefix => f_offset + 2 + Parser!Prefix > Parser!size,
                      NEW i \in 1 .. n, E[i] <= f_cut
               PROVE  i <= k
    BY DEF AllPassed, E
  <2>1. ~ (k < i)
    <3>1. i \in 0 .. n /\ E[i] \in Nat
      BY <1>1, <1>3
    <3> QED
      BY <1>2, <1>11, <3>1
  <2> QED
    BY <1>1, <2>1
<1>13. f_offset = Parser!size => ~Parser!CutInside
  <2> SUFFICES ASSUME E[k] = f_cut, f_cut > 0
               PROVE  \E i \in 1 .. n : E[i] = f_cut
    BY <1>1, <1>7 DEF Parser!CutInside, Parser!Indices, Parser!EndOf, E
  <2>1. k # 0
    BY <1>2, <1>3
  <2>2. k \in 1 .. n
    BY <1>1, <2>1
  <2> QED
    BY <2>2
<1>14. (IF Parser!HasPrefix THEN f_offset + 2 + Parser!Prefix > Parser!size
        ELSE f_offset < Parser!size) => Parser!CutInside
  <2> SUFFICES ASSUME IF Parser!HasPrefix THEN f_offset + 2 + Parser!Prefix > Parser!size
                      ELSE f_offset < Parser!size
               PROVE  f_cut > 0 /\ \A i \in 1 .. n : E[i] # f_cut
    BY DEF Parser!CutInside, Parser!Indices, Parser!EndOf, E
  <2>1. E[k] < f_cut
    BY <1>1, <1>7, <1>9
  <2>2. ASSUME NEW i \in 1 .. n PROVE E[i] # f_cut
    <3>1. i \in 0 .. n /\ E[i] \in Nat
      BY <1>1, <1>3
    <3>2. CASE k < i
      BY <1>2, <1>11, <3>1, <3>2
    <3>3. CASE i = k
      BY <1>2, <1>5, <2>1, <3>3
    <3>4. CASE i < k
      <4>1. E[i] + 2 <= E[k]
        BY <1>1, <1>3, <3>1, <3>4
      <4> QED
        BY <1>2, <1>5, <2>1, <3>1, <4>1
    <3> QED
      BY <1>1, <3>2, <3>3, <3>4
  <2> QED
    BY <1>2, <1>5, <2>1, <2>2
<1> QED
  BY <1>5, <1>7, <1>9, <1>10, <1>12, <1>13, <1>14 DEF E

\* Passing frame k + 1: handed over when it is well formed, kept when it was asked for.
LEMMA PassesFrame ==
  ASSUME Calling, f_pc # "idle", Parser!Trusted, NEW k \in Nat, Framed(k),
         Parser!HasPrefix, f_offset + 2 + Parser!Prefix <= Parser!size,
         UNCHANGED Parser!input, f_offset' = f_offset + 2 + Parser!Prefix,
         delivered' = IF Parser!Prefix > 0 /\ ~Parser!Rejected THEN Append(delivered, f_offset) ELSE delivered,
         results' = IF Parser!Prefix > 0 /\ ~Parser!Rejected /\ Parser!Kept(Parser!Type)
                    THEN Append(results, f_offset) ELSE results
  PROVE  Framed(k + 1)'
<1> DEFINE f == frames[k + 1]
           n == Len(frames)
<1>1. /\ frames' = frames /\ f_cut' = f_cut /\ kind' = kind /\ filter' = filter
  BY DEF Parser!input
<1>2. /\ Parser!size = f_cut /\ k + 1 \in 1 .. n /\ Parser!Prefix = f.len
      /\ Parser!Ends(frames)[k + 1] = f_offset + 2 + Parser!Prefix
      /\ Parser!Prefix > 0 => Parser!Type = f.type
  BY LoopReads
<1>3. /\ frames \in Seq(Parser!Frame) /\ n \in Nat /\ f_offset = Parser!Ends(frames)[k]
      /\ k \in 0 .. n - 1 /\ k + 1 \in 0 .. n /\ k + 1 \in Nat
  BY <1>2 DEF Calling, Framed
<1>4. f.len \in Nat /\ (f.len > 0 => WireSize[f.type] \in Nat)
  BY <1>2, <1>3, FrameOf
<1>5. Parser!Prefix > 0 /\ ~Parser!Rejected <=> f.len > 0 /\ WireSize[f.type] \in 1 .. f.len
  BY <1>2, <1>4 DEF Parser!Rejected
<1>6. Parser!Prefix > 0 => (Parser!Kept(Parser!Type) <=>
        kind \in {"vector", "try_vector"} \/ (kind = "filter" /\ f.type \in filter))
  BY <1>2 DEF Parser!Kept
<1> HIDE DEF f
<1>7. delivered' = Given(frames, Good(frames, k + 1))
  <2>1. Good(frames, k + 1) = IF f.len > 0 /\ WireSize[f.type] \in 1 .. f.len
                              THEN Good(frames, k) \cup {k + 1} ELSE Good(frames, k)
    BY SetsNext DEF f
  <2>2. delivered = Given(frames, Good(frames, k)) /\ Good(frames, k) \subseteq 1 .. k
    BY SetsInRange DEF Framed
  <2>3. Given(frames, Good(frames, k) \cup {k + 1}) = Append(delivered, f_offset)
    BY <1>3, <2>2, GivenNext
  <2> QED
    BY <1>5, <2>1, <2>2, <2>3
<1>8. results' = Given(frames, Wanted(frames, k + 1, kind, filter))
  <2>1. Wanted(frames, k + 1, kind, filter) =
          IF /\ f.len > 0 /\ WireSize[f.type] \in 1 .. f.len
             /\ kind \in {"vector", "try_vector"} \/ (kind = "filter" /\ f.type \in filter)
          THEN Wanted(frames, k, kind, filter) \cup {k + 1} ELSE Wanted(frames, k, kind, filter)
    BY SetsNext DEF f
  <2>2. /\ results = Given(frames, Wanted(frames, k, kind, filter))
        /\ Wanted(frames, k, kind, filter) \subseteq 1 .. k
    BY SetsInRange DEF Framed
  <2>3. Given(frames, Wanted(frames, k, kind, filter) \cup {k + 1}) = Append(results, f_offset)
    BY <1>3, <2>2, GivenNext
  <2> QED
    BY <1>5, <1>6, <2>1, <2>2, <2>3
<1> QED
  BY <1>1, <1>2, <1>3, <1>7, <1>8 DEF Framed

\* And counted when it is unknown or too short.
LEMMA CountsFrame ==
  ASSUME Calling, f_pc # "idle", Parser!Trusted, NEW k \in Nat, Framed(k), Tallied(k, 0),
         Parser!HasPrefix, f_offset + 2 + Parser!Prefix <= Parser!size,
         UNCHANGED Parser!input, m_error_callback' = m_error_callback,
         m_unknown_message_count' = IF Parser!Prefix > 0 /\ WireSize[Parser!Type] = 0
                                    THEN m_unknown_message_count + 1 ELSE m_unknown_message_count,
         m_malformed_message_count' =
           IF Parser!Prefix > 0 /\ WireSize[Parser!Type] # 0 /\ Parser!Prefix < WireSize[Parser!Type]
           THEN m_malformed_message_count + 1 ELSE m_malformed_message_count,
         m_error_callback =>
           Len(errors') = IF Parser!Prefix > 0 /\ Parser!Rejected THEN Len(errors) + 1 ELSE Len(errors)
  PROVE  Tallied(k + 1, 0)'
<1> DEFINE f == frames[k + 1]
           a == Cardinality(Strange(frames, k))
           b == Cardinality(Undersized(frames, k))
           strange == f.len > 0 /\ WireSize[f.type] = 0
           short == f.len > 0 /\ f.len < WireSize[f.type]
<1>1. frames' = frames /\ base' = base
  BY DEF Parser!input
<1>2. k + 1 \in 1 .. Len(frames) /\ Parser!Prefix = f.len /\ (Parser!Prefix > 0 => Parser!Type = f.type)
  BY LoopReads
<1>3. f.len \in Nat /\ (f.len > 0 => WireSize[f.type] \in Nat)
  BY <1>2, FrameOf DEF Calling
<1>4. /\ strange <=> Parser!Prefix > 0 /\ WireSize[Parser!Type] = 0
      /\ short <=> Parser!Prefix > 0 /\ WireSize[Parser!Type] # 0 /\ Parser!Prefix < WireSize[Parser!Type]
      /\ strange \/ short <=> Parser!Prefix > 0 /\ Parser!Rejected
      /\ ~ (strange /\ short)
  BY <1>2, <1>3 DEF Parser!Rejected
<1>5. /\ a \in Nat /\ b \in Nat /\ base[1] \in Nat /\ base[2] \in Nat
      /\ Cardinality(Strange(frames, k) \cup {k + 1}) = a + 1
      /\ Cardinality(Undersized(frames, k) \cup {k + 1}) = b + 1
  BY SetsInRange, OneMore DEF Calling
<1>6. /\ Strange(frames, k + 1) = IF strange THEN Strange(frames, k) \cup {k + 1} ELSE Strange(frames, k)
      /\ Undersized(frames, k + 1) = IF short THEN Undersized(frames, k) \cup {k + 1} ELSE Undersized(frames, k)
  BY SetsNext
<1> DEFINE c == Cardinality(Strange(frames, k + 1))
           d == Cardinality(Undersized(frames, k + 1))
<1>7. /\ c = IF strange THEN a + 1 ELSE a
      /\ d = IF short THEN b + 1 ELSE b
  BY <1>5, <1>6
<1>8. /\ m_unknown_message_count = base[1] + a /\ m_malformed_message_count = base[2] + b + 0
      /\ m_error_callback => Len(errors) = a + b + 0
  BY DEF Tallied
<1> HIDE DEF a, b, c, d, strange, short
<1>9. /\ m_unknown_message_count' = IF strange THEN m_unknown_message_count + 1 ELSE m_unknown_message_count
      /\ m_malformed_message_count' = IF short THEN m_malformed_message_count + 1 ELSE m_malformed_message_count
      /\ m_error_callback => Len(errors') = IF strange \/ short THEN Len(errors) + 1 ELSE Len(errors)
  BY <1>4
<1>10. /\ \A u, v \in Nat : /\ (u + v) + 1 = u + (v + 1) /\ (u + v + 0) + 1 = u + (v + 1) + 0
                            /\ (u + v + 0) + 1 = (u + 1) + v + 0
  OBVIOUS
<1>11. m_unknown_message_count' = base[1] + c
  BY <1>5, <1>7, <1>8, <1>9, <1>10
<1>12. m_malformed_message_count' = base[2] + d + 0
  BY <1>5, <1>7, <1>8, <1>9, <1>10
<1>13. ASSUME m_error_callback PROVE Len(errors') = c + d + 0
  <2>1. CASE strange
    <3>1. Len(errors') = (a + b + 0) + 1 /\ c = a + 1 /\ d = b
      BY <1>4, <1>7, <1>8, <1>9, <1>13, <2>1
    <3>2. (a + b + 0) + 1 = (a + 1) + b + 0
      BY <1>5, <1>10
    <3> QED
      BY <3>1, <3>2
  <2>2. CASE short
    <3>1. Len(errors') = (a + b + 0) + 1 /\ c = a /\ d = b + 1
      BY <1>4, <1>7, <1>8, <1>9, <1>13, <2>2
    <3>2. (a + b + 0) + 1 = a + (b + 1) + 0
      BY <1>5, <1>10
    <3> QED
      BY <3>1, <3>2
  <2>3. CASE ~strange /\ ~short
    BY <1>7, <1>8, <1>9, <1>13, <2>3
  <2> QED
    BY <2>1, <2>2, <2>3
<1> QED
  BY <1>1, <1>11, <1>12, <1>13 DEF Tallied, c, d

\* What a step inside a call leaves as it was.
LEMMA StaysCalling ==
  ASSUME Calling, f_pc # "idle", UNCHANGED Parser!input, f_offset' \in 0 .. Parser!size,
         m_unknown_message_count' \in Nat, m_malformed_message_count' \in Nat, errors' \in Seq(Errors),
         \/ f_pc' = "loop" /\ outcome' = "none"
         \/ f_pc' = "returned" /\ outcome' \in {"ok", "unexpected"} \cup Parser!Exceptions
  PROVE  Calling' /\ (Parser!Trusted <=> Parser!Trusted')
<1>1. /\ frames' = frames /\ f_cut' = f_cut /\ kind' = kind /\ filter' = filter /\ base' = base
      /\ buffer' = buffer
  BY DEF Parser!input
<1>2. Parser!Trusted <=> Parser!Trusted'
  BY <1>1 DEF Parser!Trusted
<1>3. f_pc' # "idle" /\ Parser!Trusted' => buffer' = SubSeq(Parser!AllBytes(frames'), 1, f_cut')
  BY <1>1, <1>2 DEF Calling
<1>4. outcome' \in {"none", "ok", "unexpected", "stream_error"} \cup Parser!Exceptions
      /\ f_pc' \in {"idle", "loop", "returned"} /\ (f_pc' = "returned" <=> outcome' # "none")
  BY DEF Parser!Exceptions
<1> QED
  BY <1>1, <1>2, <1>3, <1>4 DEF Calling, Parser!size

\* A turn that passes a frame, and goes on or leaves with the exception of a callback.
LEMMA PassingTurn ==
  ASSUME FramingInv, f_pc = "loop", UNCHANGED Parser!input, Parser!HasPrefix,
         f_offset + 2 + Parser!Prefix <= Parser!size, f_offset' = f_offset + 2 + Parser!Prefix,
         delivered' = IF Parser!Prefix > 0 /\ ~Parser!Rejected THEN Append(delivered, f_offset) ELSE delivered,
         results' = IF Parser!Prefix > 0 /\ ~Parser!Rejected /\ Parser!Kept(Parser!Type)
                    THEN Append(results, f_offset) ELSE results,
         m_unknown_message_count' \in Nat, m_malformed_message_count' \in Nat, errors' \in Seq(Errors),
         \A k \in Nat : /\ kind # "views" /\ Parser!Trusted /\ Framed(k) /\ Tallied(k, 0)
                        => Tallied(k + 1, 0)',
         NEW exception \in Parser!Exceptions, threw' = exception,
         IF exception = "no" THEN UNCHANGED <<f_pc, outcome>>
         ELSE f_pc' = "returned" /\ outcome' = Parser!Escapes(exception)
  PROVE  FramingInv'
<1>1. /\ kind' = kind /\ filter' = filter
      /\ EmptyFilter' <=> EmptyFilter
  BY DEF Parser!input, EmptyFilter
<1>2. /\ Calling /\ outcome = "none" /\ ~EmptyFilter
      /\ Parser!Trusted => \E k \in Nat : Framed(k) /\ (kind # "views" => Tallied(k, 0))
  BY DEF FramingInv, Calling, Looping
<1>3. f_offset' \in 0 .. Parser!size
  <2>1. buffer \in Seq(Nat) /\ f_offset \in Nat /\ Parser!size \in Nat
    BY <1>2 DEF Calling, Parser!size
  <2>2. f_offset + 1 \in 1 .. Len(buffer) /\ f_offset + 2 \in 1 .. Len(buffer)
    BY <2>1 DEF Parser!HasPrefix, Parser!size
  <2>3. buffer[f_offset + 1] \in Nat /\ buffer[f_offset + 2] \in Nat
    BY <2>1, <2>2, ElementOfSeq
  <2>5. \A x, y \in Nat : x * 256 + y \in Nat
    OBVIOUS
  <2>4. Parser!Prefix \in Nat
    BY <2>3, <2>5, Zenon DEF Parser!Prefix
  <2> QED
    BY <2>1, <2>4
<1>4. exception # "no" =>
        /\ Parser!Escapes(exception) \in {"ok", "unexpected"} \cup Parser!Exceptions
        /\ Parser!Escapes(exception) = "ok" => kind = "datagram"
  BY DEF Parser!Escapes, Parser!Exceptions
<1>5. \/ exception = "no" /\ f_pc' = "loop" /\ outcome' = "none"
      \/ /\ exception # "no" /\ f_pc' = "returned" /\ outcome' \in {"ok", "unexpected"} \cup Parser!Exceptions
         /\ outcome' = "ok" => kind = "datagram"
  BY <1>2, <1>4
<1>6. Calling' /\ (Parser!Trusted <=> Parser!Trusted')
  BY <1>2, <1>3, <1>5, StaysCalling
<1>7. ASSUME Parser!Trusted
      PROVE  \E k \in Nat : Framed(k)' /\ (kind # "views" => Tallied(k, 0)')
  <2>1. PICK k \in Nat : Framed(k) /\ (kind # "views" => Tallied(k, 0))
    BY <1>2, <1>7
  <2>2. Framed(k + 1)'
    BY <1>2, <1>7, <2>1, PassesFrame
  <2>3. kind # "views" => Tallied(k + 1, 0)'
    BY <1>7, <2>1
  <2> QED
    BY <2>2, <2>3
<1>8. Looping'
  BY <1>1, <1>2, <1>5, <1>6, <1>7 DEF Looping
<1>9. Returned'
  <2> SUFFICES ASSUME f_pc' = "returned", Parser!Trusted'
               PROVE  \E k \in Nat : Framed(k)' /\ Closed(k, 0)'
    BY DEF Returned
  <2>1. PICK k \in Nat : Framed(k)' /\ (kind # "views" => Tallied(k, 0)')
    BY <1>6, <1>7
  <2>2. Closed(k, 0)'
    BY <1>1, <1>5, <2>1 DEF Closed
  <2> QED
    BY <2>1, <2>2
<1> QED
  BY <1>6, <1>8, <1>9 DEF FramingInv

LEMMA ParserPads ==
  ASSUME FramingInv, Parser!Padding
  PROVE  FramingInv'
<1>1. /\ f_pc = "loop" /\ kind # "views" /\ UNCHANGED Parser!input /\ Parser!HasPrefix /\ Parser!Prefix = 0
      /\ f_offset' = f_offset + 2
      /\ UNCHANGED <<m_unknown_message_count, m_malformed_message_count, m_error_callback, f_pc, results,
                     outcome, delivered, errors, threw>>
  BY DEF Parser!Padding, Parser!Running, Parser!ParserKinds, Parser!parser
<1>2. /\ Calling /\ threw = "no" /\ f_offset \in Nat /\ Parser!size \in Nat
  BY <1>1 DEF FramingInv, Calling, Looping, Parser!size
<1>3. f_offset' = f_offset + 2 + Parser!Prefix /\ f_offset + 2 + Parser!Prefix <= Parser!size
  BY <1>1, <1>2 DEF Parser!HasPrefix
<1>4. ASSUME NEW k \in Nat, Parser!Trusted, Framed(k), Tallied(k, 0)
      PROVE  Tallied(k + 1, 0)'
  BY <1>1, <1>2, <1>3, <1>4, CountsFrame
<1>5. /\ delivered' = IF Parser!Prefix > 0 /\ ~Parser!Rejected THEN Append(delivered, f_offset) ELSE delivered
      /\ results' = IF Parser!Prefix > 0 /\ ~Parser!Rejected /\ Parser!Kept(Parser!Type)
                    THEN Append(results, f_offset) ELSE results
  BY <1>1
<1>6. /\ m_unknown_message_count' \in Nat /\ m_malformed_message_count' \in Nat /\ errors' \in Seq(Errors)
      /\ "no" \in Parser!Exceptions /\ threw' = "no"
  BY <1>1, <1>2 DEF Calling, Parser!Exceptions
<1>7. IF "no" = "no" THEN UNCHANGED <<f_pc, outcome>>
      ELSE f_pc' = "returned" /\ outcome' = Parser!Escapes("no")
  BY <1>1
<1> QED
  BY <1>1, <1>3, <1>4, <1>5, <1>6, <1>7, PassingTurn

LEMMA ParserSkips ==
  ASSUME FramingInv, NEW exception \in Parser!Exceptions, Parser!Skip(exception)
  PROVE  FramingInv'
<1>1. /\ f_pc = "loop" /\ kind # "views" /\ UNCHANGED Parser!input /\ Parser!HasPrefix /\ Parser!Prefix > 0
      /\ f_offset + 2 + Parser!Prefix <= Parser!size /\ Parser!Rejected
      /\ f_offset' = f_offset + 2 + Parser!Prefix
      /\ UNCHANGED <<m_error_callback, results, delivered>> /\ threw' = exception
      /\ IF exception = "no" THEN UNCHANGED <<f_pc, outcome>>
         ELSE f_pc' = "returned" /\ outcome' = Parser!Escapes(exception)
  BY DEF Parser!Skip, Parser!Running, Parser!ParserKinds, Parser!HasFrame, Parser!Leave, Parser!report_error
<1>2. Calling
  BY DEF FramingInv
<1>3. /\ m_unknown_message_count' = IF WireSize[Parser!Type] = 0 THEN m_unknown_message_count + 1
                                    ELSE m_unknown_message_count
      /\ m_malformed_message_count' = IF WireSize[Parser!Type] = 0 THEN m_malformed_message_count
                                      ELSE m_malformed_message_count + 1
      /\ \E error \in Errors : errors' = IF m_error_callback THEN Append(errors, error) ELSE errors
  <2> DEFINE error == IF WireSize[Parser!Type] = 0 THEN "unknown_type" ELSE "size_mismatch"
  <2>1. error \in Errors /\ Parser!report_error(error, exception)
    BY DEF Parser!Skip, Errors
  <2>2. error = "unknown_type" <=> WireSize[Parser!Type] = 0
    OBVIOUS
  <2> HIDE DEF error
  <2> QED
    BY <2>1, <2>2 DEF Parser!report_error
<1>4. /\ m_unknown_message_count' \in Nat /\ m_malformed_message_count' \in Nat /\ errors' \in Seq(Errors)
      /\ m_error_callback => Len(errors') = Len(errors) + 1
  <2>1. /\ m_unknown_message_count \in Nat /\ m_malformed_message_count \in Nat /\ errors \in Seq(Errors)
    BY <1>2 DEF Calling
  <2>2. PICK error \in Errors : errors' = IF m_error_callback THEN Append(errors, error) ELSE errors
    BY <1>3
  <2>3. Append(errors, error) \in Seq(Errors) /\ Len(Append(errors, error)) = Len(errors) + 1
    BY <2>1, AppendProperties
  <2> QED
    BY <1>3, <2>1, <2>2, <2>3
<1>5. ASSUME NEW k \in Nat, Parser!Trusted, Framed(k), Tallied(k, 0)
      PROVE  Tallied(k + 1, 0)'
  <2>1. WireSize[Parser!Type] # 0 => Parser!Prefix < WireSize[Parser!Type]
    BY <1>1 DEF Parser!Rejected
  <2>2. /\ m_unknown_message_count' = IF Parser!Prefix > 0 /\ WireSize[Parser!Type] = 0
                                      THEN m_unknown_message_count + 1 ELSE m_unknown_message_count
        /\ m_malformed_message_count' =
             IF Parser!Prefix > 0 /\ WireSize[Parser!Type] # 0 /\ Parser!Prefix < WireSize[Parser!Type]
             THEN m_malformed_message_count + 1 ELSE m_malformed_message_count
        /\ m_error_callback =>
             Len(errors') = IF Parser!Prefix > 0 /\ Parser!Rejected THEN Len(errors) + 1 ELSE Len(errors)
    BY <1>1, <1>3, <1>4, <2>1
  <2> QED
    BY <1>1, <1>2, <1>5, <2>2, CountsFrame
<1>6. /\ delivered' = IF Parser!Prefix > 0 /\ ~Parser!Rejected THEN Append(delivered, f_offset) ELSE delivered
      /\ results' = IF Parser!Prefix > 0 /\ ~Parser!Rejected /\ Parser!Kept(Parser!Type)
                    THEN Append(results, f_offset) ELSE results
  BY <1>1
<1> QED
  BY <1>1, <1>4, <1>5, <1>6, PassingTurn

LEMMA ParserDelivers ==
  ASSUME FramingInv, NEW exception \in Parser!Exceptions, Parser!Deliver(exception)
  PROVE  FramingInv'
<1>1. /\ f_pc = "loop" /\ kind # "views" /\ UNCHANGED Parser!input /\ Parser!HasPrefix /\ Parser!Prefix > 0
      /\ f_offset + 2 + Parser!Prefix <= Parser!size /\ ~Parser!Rejected
      /\ f_offset' = f_offset + 2 + Parser!Prefix
      /\ delivered' = Append(delivered, f_offset)
      /\ results' = IF Parser!Kept(Parser!Type) THEN Append(results, f_offset) ELSE results
      /\ UNCHANGED <<m_unknown_message_count, m_malformed_message_count, m_error_callback, errors>>
      /\ threw' = exception
      /\ IF exception = "no" THEN UNCHANGED <<f_pc, outcome>>
         ELSE f_pc' = "returned" /\ outcome' = Parser!Escapes(exception)
  BY DEF Parser!Deliver, Parser!Running, Parser!ParserKinds, Parser!HasFrame, Parser!Leave, Parser!parser
<1>2. Calling
  BY DEF FramingInv
<1>3. m_unknown_message_count' \in Nat /\ m_malformed_message_count' \in Nat /\ errors' \in Seq(Errors)
  BY <1>1, <1>2 DEF Calling
<1>4. ASSUME NEW k \in Nat, Parser!Trusted, Framed(k), Tallied(k, 0)
      PROVE  Tallied(k + 1, 0)'
  <2>1. /\ m_unknown_message_count' = IF Parser!Prefix > 0 /\ WireSize[Parser!Type] = 0
                                      THEN m_unknown_message_count + 1 ELSE m_unknown_message_count
        /\ m_malformed_message_count' =
             IF Parser!Prefix > 0 /\ WireSize[Parser!Type] # 0 /\ Parser!Prefix < WireSize[Parser!Type]
             THEN m_malformed_message_count + 1 ELSE m_malformed_message_count
        /\ m_error_callback =>
             Len(errors') = IF Parser!Prefix > 0 /\ Parser!Rejected THEN Len(errors) + 1 ELSE Len(errors)
    BY <1>1 DEF Parser!Rejected
  <2> QED
    BY <1>1, <1>2, <1>4, <2>1, CountsFrame
<1>5. /\ delivered' = IF Parser!Prefix > 0 /\ ~Parser!Rejected THEN Append(delivered, f_offset) ELSE delivered
      /\ results' = IF Parser!Prefix > 0 /\ ~Parser!Rejected /\ Parser!Kept(Parser!Type)
                    THEN Append(results, f_offset) ELSE results
  BY <1>1
<1> QED
  BY <1>1, <1>3, <1>4, <1>5, PassingTurn

\* A turn that leaves the loop where it stands.
LEMMA LeavingTurn ==
  ASSUME FramingInv, f_pc = "loop", UNCHANGED Parser!input, UNCHANGED <<f_offset, results, delivered>>,
         m_unknown_message_count' \in Nat, m_malformed_message_count' \in Nat, errors' \in Seq(Errors),
         f_pc' = "returned", outcome' \in {"ok", "unexpected"} \cup Parser!Exceptions,
         \A k \in Nat : /\ Parser!Trusted /\ Framed(k) /\ (kind # "views" => Tallied(k, 0))
                        => \E more : Closed(k, more)'
  PROVE  FramingInv'
<1>1. /\ Calling
      /\ Parser!Trusted => \E k \in Nat : Framed(k) /\ (kind # "views" => Tallied(k, 0))
  BY DEF FramingInv, Looping
<1>2. f_offset' \in 0 .. Parser!size
  BY <1>1 DEF Calling, Parser!size
<1>3. Calling' /\ (Parser!Trusted <=> Parser!Trusted')
  BY <1>1, <1>2, StaysCalling
<1>4. ASSUME NEW k, Framed(k) PROVE Framed(k)'
  BY <1>4 DEF Framed, Parser!input
<1>5. Returned'
  <2> SUFFICES ASSUME Parser!Trusted'
               PROVE  \E k \in Nat : Framed(k)' /\ \E more : Closed(k, more)'
    BY DEF Returned
  <2>1. PICK k \in Nat : Framed(k) /\ (kind # "views" => Tallied(k, 0))
    BY <1>1, <1>3
  <2>2. \E more : Closed(k, more)'
    BY <1>3, <2>1
  <2> QED
    BY <1>4, <2>1, <2>2
<1> QED
  BY <1>3, <1>5 DEF FramingInv, Looping

LEMMA ParserEnds ==
  ASSUME FramingInv, Parser!End \/ Parser!ViewEnd
  PROVE  FramingInv'
<1>1. /\ f_pc = "loop" /\ UNCHANGED Parser!input /\ UNCHANGED <<f_offset, results, delivered>>
      /\ UNCHANGED <<m_unknown_message_count, m_malformed_message_count, m_error_callback, errors, threw>>
      /\ f_pc' = "returned" /\ outcome' = "ok"
      /\ \/ kind # "views" /\ f_offset = Parser!size
         \/ /\ kind = "views"
            /\ Parser!HasPrefix => Parser!Prefix > 0 /\ ~Parser!HasFrame
  BY DEF Parser!End, Parser!ViewEnd, Parser!Running, Parser!ParserKinds, Parser!Leave, Parser!parser
<1>2. Calling /\ threw = "no"
  BY <1>1 DEF FramingInv, Looping
<1>3. /\ kind' = kind /\ frames' = frames /\ f_cut' = f_cut /\ base' = base
      /\ Parser!CutInside' <=> Parser!CutInside
  BY <1>1 DEF Parser!input, Parser!CutInside, Parser!Indices, Parser!EndOf
<1>4. /\ m_unknown_message_count' \in Nat /\ m_malformed_message_count' \in Nat /\ errors' \in Seq(Errors)
      /\ outcome' \in {"ok", "unexpected"} \cup Parser!Exceptions
  BY <1>1, <1>2 DEF Calling
<1>5. Parser!HasPrefix => f_offset + 2 + Parser!Prefix > Parser!size
  <2> SUFFICES ASSUME Parser!HasPrefix PROVE f_offset + 2 + Parser!Prefix > Parser!size
    OBVIOUS
  <2>1. f_offset \in Nat /\ Parser!size \in Nat /\ buffer \in Seq(Nat)
    BY <1>2 DEF Calling, Parser!size
  <2>2. f_offset # Parser!size
    BY <2>1 DEF Parser!HasPrefix
  <2>3. ~ (f_offset + 2 + Parser!Prefix <= Parser!size)
    BY <1>1, <2>2 DEF Parser!HasFrame
  <2>4. f_offset + 1 \in 1 .. Len(buffer) /\ f_offset + 2 \in 1 .. Len(buffer)
    BY <2>1 DEF Parser!HasPrefix, Parser!size
  <2>5. buffer[f_offset + 1] \in Nat /\ buffer[f_offset + 2] \in Nat
    BY <2>1, <2>4, ElementOfSeq
  <2>6. Parser!Prefix \in Nat
    BY <2>5 DEF Parser!Prefix
  <2> QED
    BY <2>1, <2>3, <2>6
<1>6. ASSUME NEW k \in Nat, Parser!Trusted, Framed(k), kind # "views" => Tallied(k, 0)
      PROVE  \E more : Closed(k, more)'
  <2>1. AllPassed(k) /\ (f_offset = Parser!size => ~Parser!CutInside)
    BY <1>1, <1>2, <1>5, <1>6, LoopReads
  <2>2. AllPassed(k)' /\ (kind # "views" => Tallied(k, 0)')
    BY <1>1, <1>3, <1>6, <2>1 DEF AllPassed, Tallied
  <2>3. Closed(k, 0)'
    BY <1>1, <1>2, <1>3, <2>1, <2>2 DEF Closed
  <2> QED
    BY <2>3
<1> QED
  BY <1>1, <1>4, <1>6, LeavingTurn

LEMMA ParserTruncated ==
  ASSUME FramingInv, NEW exception \in Parser!Exceptions, Parser!Truncated(exception)
  PROVE  FramingInv'
<1>1. /\ f_pc = "loop" /\ kind # "views" /\ UNCHANGED Parser!input
      /\ UNCHANGED <<f_offset, results, delivered, m_error_callback>>
      /\ f_pc' = "returned" /\ threw' = exception
      /\ m_unknown_message_count' = m_unknown_message_count
      /\ m_malformed_message_count' = m_malformed_message_count + 1
      /\ errors' = IF m_error_callback THEN Append(errors, "truncated") ELSE errors
      /\ IF Parser!HasPrefix THEN f_offset + 2 + Parser!Prefix > Parser!size ELSE f_offset < Parser!size
  BY DEF Parser!Truncated, Parser!Running, Parser!ParserKinds, Parser!Leave, Parser!report_error
<1>2. Calling /\ threw = "no"
  BY <1>1 DEF FramingInv, Looping
<1>3. /\ kind' = kind /\ frames' = frames /\ f_cut' = f_cut /\ base' = base
      /\ Parser!CutInside' <=> Parser!CutInside
  BY <1>1 DEF Parser!input, Parser!CutInside, Parser!Indices, Parser!EndOf
<1>4. /\ exception # "no" => /\ outcome' \in {"ok"} \cup Parser!Exceptions
                             /\ outcome' = "ok" => kind = "datagram"
      /\ exception = "no" => outcome' = IF kind = "datagram" THEN "ok"
                                        ELSE IF kind \in {"try", "try_vector"} THEN "unexpected"
                                        ELSE "runtime_error"
  <2>1. outcome' = IF exception # "no" THEN Parser!Escapes(exception)
                   ELSE CASE kind = "datagram" -> "ok"
                          [] kind \in {"try", "try_vector"} -> "unexpected"
                          [] OTHER -> "runtime_error"
    BY DEF Parser!Truncated, Parser!Leave
  <2>2. exception # "no" => /\ Parser!Escapes(exception) \in {"ok"} \cup Parser!Exceptions
                            /\ Parser!Escapes(exception) = "ok" => kind = "datagram"
    BY DEF Parser!Escapes, Parser!Exceptions
  <2> QED
    BY <2>1, <2>2
<1>5. outcome' \in {"ok", "unexpected"} \cup Parser!Exceptions
  BY <1>4 DEF Parser!Exceptions
<1>6. /\ m_unknown_message_count' \in Nat /\ m_malformed_message_count' \in Nat /\ errors' \in Seq(Errors)
      /\ m_error_callback => Len(errors') = Len(errors) + 1
  <2>1. /\ m_unknown_message_count \in Nat /\ m_malformed_message_count \in Nat /\ errors \in Seq(Errors)
        /\ "truncated" \in Errors
    BY <1>2 DEF Calling, Errors
  <2>2. Append(errors, "truncated") \in Seq(Errors) /\ Len(Append(errors, "truncated")) = Len(errors) + 1
    BY <2>1, AppendProperties
  <2> QED
    BY <1>1, <2>1, <2>2
<1>7. ASSUME NEW k \in Nat, Parser!Trusted, Framed(k), Tallied(k, 0)
      PROVE  \E more : Closed(k, more)'
  <2>1. AllPassed(k) /\ Parser!CutInside
    BY <1>1, <1>2, <1>7, LoopReads
  <2>2. AllPassed(k)' /\ Parser!CutInside'
    BY <1>3, <2>1 DEF AllPassed
  <2> DEFINE a == Cardinality(Strange(frames, k))
             b == Cardinality(Undersized(frames, k))
  <2>3. a \in Nat /\ b \in Nat /\ base[1] \in Nat /\ base[2] \in Nat
    BY <1>2, SetsInRange DEF Calling
  <2>4. /\ m_unknown_message_count = base[1] + a /\ m_malformed_message_count = base[2] + b + 0
        /\ m_error_callback => Len(errors) = a + b + 0
    BY <1>7 DEF Tallied
  <2> HIDE DEF a, b
  <2>5. \A u, v \in Nat : (u + v + 0) + 1 = u + v + 1
    OBVIOUS
  <2>6. /\ m_unknown_message_count' = base[1] + a /\ m_malformed_message_count' = base[2] + b + 1
        /\ m_error_callback => Len(errors') = a + b + 1
    <3>1. m_unknown_message_count' = base[1] + a
      BY <1>1, <2>4
    <3>2. m_malformed_message_count' = base[2] + b + 1
      BY <1>1, <2>3, <2>4, <2>5
    <3>3. m_error_callback => Len(errors') = a + b + 1
      BY <1>6, <2>3, <2>4, <2>5
    <3> QED
      BY <3>1, <3>2, <3>3
  <2>7. Tallied(k, 1)'
    BY <1>1, <1>3, <2>6 DEF Tallied, a, b
  <2>8. Closed(k, 1)'
    BY <1>1, <1>3, <1>4, <2>2, <2>7 DEF Closed
  <2> QED
    BY <2>8
<1> QED
  BY <1>1, <1>5, <1>6, <1>7, LeavingTurn

LEMMA ParserViews ==
  ASSUME FramingInv, NEW exception \in Parser!Exceptions, Parser!ViewStep(exception)
  PROVE  FramingInv'
<1>1. /\ f_pc = "loop" /\ kind = "views" /\ UNCHANGED Parser!input /\ Parser!HasPrefix
      /\ UNCHANGED <<m_unknown_message_count, m_malformed_message_count, m_error_callback, errors, results>>
      /\ threw' = exception
      /\ \/ Parser!Prefix = 0 /\ f_offset' = f_offset + 2 /\ delivered' = delivered
         \/ /\ Parser!Prefix > 0 /\ f_offset + 2 + Parser!Prefix <= Parser!size
            /\ f_offset' = f_offset + 2 + Parser!Prefix
            /\ delivered' = IF Parser!Rejected THEN delivered ELSE Append(delivered, f_offset)
      /\ IF exception = "no" THEN UNCHANGED <<f_pc, outcome>> ELSE f_pc' = "returned" /\ outcome' = exception
  BY DEF Parser!ViewStep, Parser!Running, Parser!HasFrame, Parser!Leave, Parser!parser
<1>2. Calling /\ f_offset \in Nat /\ Parser!size \in Nat
  BY DEF FramingInv, Calling, Parser!size
<1>3. f_offset' = f_offset + 2 + Parser!Prefix /\ f_offset + 2 + Parser!Prefix <= Parser!size
  <2>1. CASE Parser!Prefix = 0
    BY <1>1, <1>2, <2>1 DEF Parser!HasPrefix
  <2>2. CASE Parser!Prefix # 0
    BY <1>1, <2>2
  <2> QED
    BY <2>1, <2>2
<1>4. /\ delivered' = IF Parser!Prefix > 0 /\ ~Parser!Rejected THEN Append(delivered, f_offset) ELSE delivered
      /\ results' = IF Parser!Prefix > 0 /\ ~Parser!Rejected /\ Parser!Kept(Parser!Type)
                    THEN Append(results, f_offset) ELSE results
  BY <1>1 DEF Parser!Kept
<1>5. m_unknown_message_count' \in Nat /\ m_malformed_message_count' \in Nat /\ errors' \in Seq(Errors)
  BY <1>1, <1>2 DEF Calling
<1>6. IF exception = "no" THEN UNCHANGED <<f_pc, outcome>>
      ELSE f_pc' = "returned" /\ outcome' = Parser!Escapes(exception)
  BY <1>1 DEF Parser!Escapes
<1>7. ASSUME NEW k \in Nat, kind # "views" /\ Parser!Trusted /\ Framed(k) /\ Tallied(k, 0)
      PROVE  Tallied(k + 1, 0)'
  BY <1>1, <1>7
<1> QED
  BY <1>1, <1>3, <1>4, <1>5, <1>6, <1>7, PassingTurn

-----------------------------------------------------------------------------
(* Framing: entering and leaving a call, and the theorems.                 *)

LEMMA ZerosAre ==
  ASSUME NEW fs \in Seq(Parser!Frame), NEW c \in 0 .. Len(Parser!AllBytes(fs))
  PROVE  /\ SubSeq(Parser!AllBytes(fs), 1, c) \in Seq(Nat)
         /\ SubSeq(Parser!AllBytes(fs), 1, c) \o Parser!Zeros(Len(Parser!AllBytes(fs)) - c) \in Seq(Nat)
         /\ c = Len(Parser!AllBytes(fs)) =>
              SubSeq(Parser!AllBytes(fs), 1, c) \o Parser!Zeros(Len(Parser!AllBytes(fs)) - c)
                = SubSeq(Parser!AllBytes(fs), 1, c)
<1> DEFINE A == Parser!AllBytes(fs)
           m == Len(A) - c
<1>1. A \in Seq(Nat)
  BY RunsHold
<1> HIDE DEF A
<1>2. SubSeq(A, 1, c) \in Seq(Nat) /\ m \in Nat /\ (c = Len(A) => m = 0)
  BY <1>1 DEF A
<1>3. Parser!Zeros(m) \in Seq(Nat) /\ (m = 0 => Parser!Zeros(m) = << >>)
  BY <1>2 DEF Parser!Zeros
<1> HIDE DEF m
<1>4. SubSeq(A, 1, c) \o Parser!Zeros(m) \in Seq(Nat)
  BY <1>2, <1>3, ConcatProperties
<1>5. c = Len(A) => SubSeq(A, 1, c) \o Parser!Zeros(m) = SubSeq(A, 1, c)
  BY <1>2, <1>3
<1> QED
  BY <1>2, <1>4, <1>5 DEF A, m

\* A call begins in front of the first frame.
LEMMA Entering ==
  ASSUME FramingInv, NEW k \in Parser!Kinds, NEW fl, NEW fs \in Seq(Parser!Frame),
         NEW c \in 0 .. Len(Parser!AllBytes(fs)), NEW b \in Seq(Nat), Parser!Enter(k, fl, fs, c, b),
         (k = "stream" => c = Len(Parser!AllBytes(fs))) => b = SubSeq(Parser!AllBytes(fs), 1, c),
         \/ f_pc' = "loop" /\ outcome' = "none" /\ ~(k = "filter" /\ fl = {})
         \/ f_pc' = "returned" /\ outcome' = "ok" /\ k = "filter" /\ fl = {}
         \/ f_pc' = "returned" /\ outcome' = "stream_error"
  PROVE  FramingInv'
<1>1. /\ kind' = k /\ filter' = fl /\ frames' = fs /\ f_cut' = c /\ buffer' = b /\ f_offset' = 0
      /\ results' = << >> /\ delivered' = << >> /\ errors' = << >> /\ threw' = "no"
      /\ base' = <<m_unknown_message_count, m_malformed_message_count>>
      /\ UNCHANGED <<m_unknown_message_count, m_malformed_message_count, m_error_callback>>
  BY DEF Parser!Enter, Parser!parser
<1>2. m_unknown_message_count \in Nat /\ m_malformed_message_count \in Nat
  BY DEF FramingInv, Calling
<1>3. Calling'
  <2>1. (f_pc' = "returned" <=> outcome' # "none") /\ f_pc' \in {"idle", "loop", "returned"}
        /\ outcome' \in {"none", "ok", "unexpected", "stream_error"} \cup Parser!Exceptions
    OBVIOUS
  <2>2. Parser!Trusted' <=> (k = "stream" => c = Len(Parser!AllBytes(fs)))
    BY <1>1 DEF Parser!Trusted
  <2>3. 0 \in 0 .. Len(b) /\ << >> \in Seq(Errors)
    OBVIOUS
  <2> QED
    BY <1>1, <1>2, <2>1, <2>2, <2>3 DEF Calling
<1>4. Framed(0)' /\ Tallied(0, 0)'
  <2>1. /\ Len(fs) \in Nat /\ c \in Nat /\ Parser!Ends(fs)[0] = 0
        /\ 0 \in 0 .. Len(fs) /\ 0 <= c
    <3>1. Len(Parser!AllBytes(fs)) \in Nat
      BY RunsHold
    <3> QED
      BY <3>1, FrameEndsAre
  <2>2. Given(fs, {}) = << >>
    BY <2>1, GivenNone
  <2>3. Framed(0)'
    BY <1>1, <2>1, <2>2, SetsOfNone DEF Framed
  <2>4. Cardinality({}) = 0 /\ Len(<< >>) = 0
    BY FS_EmptySet
  <2>5. Tallied(0, 0)'
    <3>1. base'[1] = m_unknown_message_count /\ base'[2] = m_malformed_message_count
      BY <1>1
    <3>2. m_unknown_message_count + 0 = m_unknown_message_count
          /\ m_malformed_message_count + 0 + 0 = m_malformed_message_count /\ 0 + 0 + 0 = 0
      BY <1>2
    <3>3. Cardinality(Strange(fs, 0)) = 0 /\ Cardinality(Undersized(fs, 0)) = 0
      BY <2>4, SetsOfNone
    <3>4. Len(errors') = 0
      BY <1>1, <2>4
    <3> QED
      BY <1>1, <3>1, <3>2, <3>3, <3>4 DEF Tallied
  <2> QED
    BY <2>3, <2>5
<1>5. Looping'
  BY <1>1, <1>4 DEF Looping, EmptyFilter
<1>6. Returned'
  BY <1>1, <1>4 DEF Returned, EmptyFilter
<1> QED
  BY <1>3, <1>5, <1>6 DEF FramingInv

LEMMA ParserCalls ==
  ASSUME FramingInv, Parser!Call
  PROVE  FramingInv'
<1>a. PICK n \in 0 .. MaxFrames : \E fs \in [1 .. n -> Parser!Frame] :
        \E c \in 0 .. Len(Parser!AllBytes(fs)) :
          \/ \E k \in Parser!Kinds : Parser!Parse(k, fs, c)
          \/ \E fl \in Filters : Parser!ParseFiltered(fl, fs, c)
          \/ Parser!ParseStream(fs, c)
  BY DEF Parser!Call
<1>b. PICK fs \in [1 .. n -> Parser!Frame] : \E c \in 0 .. Len(Parser!AllBytes(fs)) :
        \/ \E k \in Parser!Kinds : Parser!Parse(k, fs, c)
        \/ \E fl \in Filters : Parser!ParseFiltered(fl, fs, c)
        \/ Parser!ParseStream(fs, c)
  BY <1>a
<1>1. PICK c \in 0 .. Len(Parser!AllBytes(fs)) :
        \/ \E k \in Parser!Kinds : Parser!Parse(k, fs, c)
        \/ \E fl \in Filters : Parser!ParseFiltered(fl, fs, c)
        \/ Parser!ParseStream(fs, c)
  BY <1>b
<1>2. fs \in Seq(Parser!Frame)
  <2>1. n \in Nat
    OBVIOUS
  <2> QED
    BY <2>1
<1> DEFINE b == SubSeq(Parser!AllBytes(fs), 1, c)
           z == b \o Parser!Zeros(Len(Parser!AllBytes(fs)) - c)
<1>3. b \in Seq(Nat) /\ z \in Seq(Nat) /\ (c = Len(Parser!AllBytes(fs)) => z = b)
  BY <1>2, ZerosAre
<1>4. ASSUME NEW k \in Parser!Kinds, Parser!Parse(k, fs, c) PROVE FramingInv'
  <2>1. Parser!Enter(k, {}, fs, c, b) /\ f_pc' = "loop" /\ outcome' = "none" /\ k # "filter" /\ k # "stream"
    BY <1>4 DEF Parser!Parse
  <2>2. ((k = "stream" => c = Len(Parser!AllBytes(fs))) => b = SubSeq(Parser!AllBytes(fs), 1, c))
    OBVIOUS
  <2> HIDE DEF b
  <2> QED
    BY <1>2, <1>3, <2>1, <2>2, Entering
<1>5. ASSUME NEW fl \in Filters, Parser!ParseFiltered(fl, fs, c) PROVE FramingInv'
  <2>1. /\ Parser!Enter("filter", fl, fs, c, b) /\ "filter" \in Parser!Kinds
        /\ f_pc' = IF fl = {} THEN "returned" ELSE "loop"
        /\ outcome' = IF fl = {} THEN "ok" ELSE "none"
    BY <1>5 DEF Parser!ParseFiltered, Parser!Kinds
  <2>2. (("filter" = "stream" => c = Len(Parser!AllBytes(fs))) => b = SubSeq(Parser!AllBytes(fs), 1, c))
    OBVIOUS
  <2>3. \/ f_pc' = "loop" /\ outcome' = "none" /\ ~("filter" = "filter" /\ fl = {})
        \/ f_pc' = "returned" /\ outcome' = "ok" /\ "filter" = "filter" /\ fl = {}
    BY <2>1
  <2> HIDE DEF b
  <2> QED
    BY <1>2, <1>3, <2>1, <2>2, <2>3, Entering
<1>6. ASSUME Parser!ParseStream(fs, c) PROVE FramingInv'
  <2>1. /\ Parser!Enter("stream", {}, fs, c, z) /\ "stream" \in Parser!Kinds
        /\ f_pc' = "loop" /\ outcome' = "none"
    BY <1>6 DEF Parser!ParseStream, Parser!Kinds
  <2>2. (("stream" = "stream" => c = Len(Parser!AllBytes(fs))) => z = SubSeq(Parser!AllBytes(fs), 1, c))
    BY <1>3
  <2> HIDE DEF z
  <2> QED
    BY <1>2, <1>3, <2>1, <2>2, Entering
<1> QED
  BY <1>1, <1>4, <1>5, <1>6

LEMMA NoBytes ==
  << >> \in Seq(Parser!Frame) /\ Parser!AllBytes(<< >>) = << >>
<1>1. << >> \in Seq(Parser!Frame) /\ Len(<< >>) = 0
  OBVIOUS
<1> QED
  BY <1>1, RunsAre DEF Parser!AllBytes

LEMMA ParserUnsized ==
  ASSUME FramingInv, Parser!ParseUnsizedStream
  PROVE  FramingInv'
<1>1. /\ Parser!Enter("stream", {}, << >>, 0, << >>) /\ "stream" \in Parser!Kinds
      /\ f_pc' = "returned" /\ outcome' = "stream_error"
  BY DEF Parser!ParseUnsizedStream, Parser!Kinds
<1>2. << >> \in Seq(Parser!Frame) /\ << >> \in Seq(Nat)
  OBVIOUS
<1>3. Parser!AllBytes(<< >>) = << >>
  BY NoBytes
<1>4. 0 \in 0 .. Len(Parser!AllBytes(<< >>)) /\ << >> = SubSeq(Parser!AllBytes(<< >>), 1, 0)
  BY <1>3
<1> QED
  BY <1>1, <1>2, <1>4, Entering

LEMMA ParserResting ==
  ASSUME FramingInv, Parser!Return \/ Parser!set_error_callback \/ Parser!reset_diagnostics
  PROVE  FramingInv'
<1>1. Calling
  BY DEF FramingInv
<1>2. f_pc' = "idle"
  BY DEF Parser!Return, Parser!set_error_callback, Parser!reset_diagnostics
<1>3. CASE Parser!Return
  <2>1. /\ kind' = "callback" /\ buffer' = << >> /\ f_offset' = 0 /\ outcome' = "none" /\ frames' = << >>
        /\ f_cut' = 0 /\ errors' = << >> /\ base' = <<0, 0>>
        /\ m_unknown_message_count' = m_unknown_message_count
        /\ m_malformed_message_count' = m_malformed_message_count
    BY <1>3 DEF Parser!Return, Parser!parser
  <2>2. << >> \in Seq(Parser!Frame) /\ Parser!AllBytes(<< >>) = << >>
    BY NoBytes
  <2>3. Calling'
    BY <1>1, <1>2, <2>1, <2>2 DEF Calling, Parser!Kinds
  <2> QED
    BY <1>2, <2>3 DEF FramingInv, Looping, Returned
<1>4. CASE Parser!set_error_callback \/ Parser!reset_diagnostics
  <2>1. /\ f_pc = "idle" /\ UNCHANGED Parser!input /\ UNCHANGED <<f_offset, outcome, errors>>
        /\ m_unknown_message_count' \in Nat /\ m_malformed_message_count' \in Nat
    BY <1>1, <1>4 DEF Parser!set_error_callback, Parser!reset_diagnostics, Calling
  <2>2. Calling'
    BY <1>1, <1>2, <2>1 DEF Calling, Parser!input
  <2> QED
    BY <1>2, <2>2 DEF FramingInv, Looping, Returned
<1> QED
  BY <1>3, <1>4

LEMMA FramingKept ==
  FramingInv /\ [Parser!Next]_(Parser!vars) => FramingInv'
<1> SUFFICES ASSUME FramingInv, [Parser!Next]_(Parser!vars) PROVE FramingInv'
  OBVIOUS
<1>1. CASE Parser!Call
  BY <1>1, ParserCalls
<1>2. CASE Parser!ParseUnsizedStream
  BY <1>2, ParserUnsized
<1>3. CASE Parser!Step
  <2>1. CASE Parser!Padding
    BY <2>1, ParserPads
  <2>2. CASE Parser!End \/ Parser!ViewEnd
    BY <2>2, ParserEnds
  <2>3. ASSUME NEW x \in Parser!Exceptions,
               Parser!Truncated(x) \/ Parser!Skip(x) \/ Parser!Deliver(x) \/ Parser!ViewStep(x)
        PROVE  FramingInv'
    BY <2>3, ParserTruncated, ParserSkips, ParserDelivers, ParserViews
  <2> QED
    BY <1>3, <2>1, <2>2, <2>3 DEF Parser!Step
<1>4. CASE Parser!Return \/ Parser!set_error_callback \/ Parser!reset_diagnostics
  BY <1>4, ParserResting
<1>5. CASE UNCHANGED Parser!vars
  <2>1. /\ UNCHANGED <<m_unknown_message_count, m_malformed_message_count, m_error_callback>>
        /\ UNCHANGED <<kind, filter, buffer, frames, f_cut, base, calls>>
        /\ UNCHANGED <<f_pc, f_offset, results, outcome, delivered, errors, threw>>
    BY <1>5 DEF Parser!vars, Parser!parser, Parser!input
  <2>2. Calling'
    BY <2>1 DEF FramingInv, Calling, Parser!Trusted
  <2>3. ASSUME NEW k, NEW more
        PROVE  (Framed(k)' <=> Framed(k)) /\ (Tallied(k, more)' <=> Tallied(k, more))
               /\ (Closed(k, more)' <=> Closed(k, more))
    BY <2>1 DEF Framed, Tallied, Closed, AllPassed, Parser!CutInside, Parser!Indices, Parser!EndOf
  <2>4. /\ EmptyFilter' <=> EmptyFilter
        /\ Parser!Trusted' <=> Parser!Trusted
    BY <2>1 DEF EmptyFilter, Parser!Trusted
  <2>5. Looping'
    BY <2>1, <2>3, <2>4 DEF FramingInv, Looping
  <2>6. Returned'
    BY <2>1, <2>3, <2>4 DEF FramingInv, Returned
  <2> QED
    BY <2>2, <2>5, <2>6 DEF FramingInv
<1> QED
  BY <1>1, <1>2, <1>3, <1>4, <1>5 DEF Parser!Next

LEMMA FramingBegins ==
  Parser!Init => FramingInv
<1> SUFFICES ASSUME Parser!Init PROVE FramingInv
  OBVIOUS
<1>1. << >> \in Seq(Parser!Frame) /\ Parser!AllBytes(<< >>) = << >>
  BY NoBytes
<1>2. Calling
  BY <1>1 DEF Parser!Init, Calling, Parser!Kinds
<1> QED
  BY <1>2 DEF Parser!Init, FramingInv, Looping, Returned

\* Both framing loops deliver exactly the well-formed frames they have passed, for any
\* buffer cut anywhere, any frames, sizes and types, and any callback that throws.
THEOREM FramesDelivered == Parser!Spec => []DeliversWellFormedFrames
<1>1. Parser!Spec => []FramingInv
  BY FramingBegins, FramingKept, PTL DEF Parser!Spec
<1>2. FramingInv => DeliversWellFormedFrames
  BY FramingDelivers
<1> QED
  BY <1>1, <1>2, PTL

\* Every call of the parser ends as its overload documents, hands out what was asked
\* for, and has counted and reported each frame it skipped, exactly once.
THEOREM CallsEnded == Parser!Spec => []CallsEndAsDocumented
<1>1. Parser!Spec => []FramingInv
  BY FramingBegins, FramingKept, PTL DEF Parser!Spec
<1>2. FramingInv => CallsEndAsDocumented
  BY FramingEnds
<1> QED
  BY <1>1, <1>2, PTL

-----------------------------------------------------------------------------
(* PyIterator: the bytes of an input, and what is wanted of it.            *)

Chained(bytes, fs, i) == bytes \o Iterator!CellsOf(fs[i], i)
Asked(wanted, fs, types, i) == IF fs[i].type \in types THEN Append(wanted, i) ELSE wanted

LEMMA CellsAre ==
  ASSUME NEW fs, Len(fs) \in Nat
  PROVE  /\ Iterator!Cells(fs)[0] = << >>
         /\ \A k \in 1 .. Len(fs) :
              Iterator!Cells(fs)[k] = Iterator!Cells(fs)[k - 1] \o Iterator!CellsOf(fs[k], k)
<1> DEFINE n == Len(fs)
           Rec(g, m) == g = [k \in 0 .. m |-> IF k = 0 THEN Nothing ELSE Chained(g[k - 1], fs, k)]
           T == {m \in 0 .. n : \E g : Rec(g, m)}
<1>1. 0 \in T
  <2> DEFINE g == [k \in 0 .. 0 |-> Nothing]
  <2>1. Rec(g, 0)
    OBVIOUS
  <2>2. 0 \in 0 .. n
    OBVIOUS
  <2> HIDE DEF g, Rec
  <2> QED
    BY <2>1, <2>2
<1>2. ASSUME NEW i \in 0 .. n - 1, i \in T PROVE i + 1 \in T
  <2>1. PICK g : Rec(g, i)
    BY <1>2
  <2> DEFINE h == [k \in 0 .. i + 1 |-> IF k = i + 1 THEN Chained(g[i], fs, i + 1) ELSE g[k]]
  <2>2. Rec(h, i + 1)
    BY <2>1
  <2> HIDE DEF h, Rec
  <2>3. i + 1 \in 0 .. n
    OBVIOUS
  <2> QED
    BY <2>2, <2>3
<1>3. n \in T
  <2>1. n \in Nat /\ n \in 0 .. n
    OBVIOUS
  <2> HIDE DEF T, n
  <2> QED
    BY <1>1, <1>2, <2>1, UpTo
<1> DEFINE S == CHOOSE g : Rec(g, n)
<1>4. Rec(S, n)
  <2> HIDE DEF Rec
  <2> QED
    BY <1>3
<1>5. Iterator!Cells(fs) = S
  BY DEF Iterator!Cells, Chained, Nothing
<1> HIDE DEF S
<1>6. S[0] = Nothing /\ \A k \in 1 .. n : S[k] = Chained(S[k - 1], fs, k)
  BY SMTT(60), <1>4
<1> QED
  BY <1>5, <1>6 DEF Chained, Nothing

LEMMA WantedAre ==
  ASSUME NEW fs, Len(fs) \in Nat, NEW types
  PROVE  /\ Iterator!WantedUpTo(fs, types)[0] = << >>
         /\ \A k \in 1 .. Len(fs) :
              Iterator!WantedUpTo(fs, types)[k] =
                IF fs[k].type \in types THEN Append(Iterator!WantedUpTo(fs, types)[k - 1], k)
                ELSE Iterator!WantedUpTo(fs, types)[k - 1]
<1> DEFINE n == Len(fs)
           Rec(g, m) == g = [k \in 0 .. m |-> IF k = 0 THEN Nothing ELSE Asked(g[k - 1], fs, types, k)]
           T == {m \in 0 .. n : \E g : Rec(g, m)}
<1>1. 0 \in T
  <2> DEFINE g == [k \in 0 .. 0 |-> Nothing]
  <2>1. Rec(g, 0)
    OBVIOUS
  <2>2. 0 \in 0 .. n
    OBVIOUS
  <2> HIDE DEF g, Rec
  <2> QED
    BY <2>1, <2>2
<1>2. ASSUME NEW i \in 0 .. n - 1, i \in T PROVE i + 1 \in T
  <2>1. PICK g : Rec(g, i)
    BY <1>2
  <2> DEFINE h == [k \in 0 .. i + 1 |-> IF k = i + 1 THEN Asked(g[i], fs, types, i + 1) ELSE g[k]]
  <2>2. Rec(h, i + 1)
    BY <2>1
  <2> HIDE DEF h, Rec
  <2>3. i + 1 \in 0 .. n
    OBVIOUS
  <2> QED
    BY <2>2, <2>3
<1>3. n \in T
  <2>1. n \in Nat /\ n \in 0 .. n
    OBVIOUS
  <2> HIDE DEF T, n
  <2> QED
    BY <1>1, <1>2, <2>1, UpTo
<1> DEFINE S == CHOOSE g : Rec(g, n)
<1>4. Rec(S, n)
  <2> HIDE DEF Rec
  <2> QED
    BY <1>3
<1>5. Iterator!WantedUpTo(fs, types) = S
  BY DEF Iterator!WantedUpTo, Asked, Nothing
<1> HIDE DEF S
<1>6. S[0] = Nothing /\ \A k \in 1 .. n : S[k] = Asked(S[k - 1], fs, types, k)
  BY SMTT(60), <1>4
<1> QED
  BY <1>5, <1>6 DEF Asked, Nothing

\* A byte of the input is known by its frame and its place in it.
Cell == (Nat \ {0}) \X Nat
Size(fs, i) == 2 + fs[i].body

LEMMA CellsOfFrame ==
  ASSUME NEW fs \in Seq(Frames), NEW i \in 1 .. Len(fs)
  PROVE  /\ Iterator!CellsOf(fs[i], i) \in Seq(Cell)
         /\ Len(Iterator!CellsOf(fs[i], i)) = Size(fs, i)
         /\ Iterator!CellsOf(fs[i], i)[1][1] = i
         /\ fs[i].body \in Nat /\ Size(fs, i) \in Nat /\ Size(fs, i) >= 2
<1>1. fs[i] \in Frames
  BY ElementOfSeq
<1>2. fs[i].body \in Nat
  BY <1>1, IterationAssumption
<1> DEFINE m == 2 + fs[i].body
           b == [k \in 1 .. m |-> <<i, k>>]
<1>3. m \in Nat /\ m >= 2 /\ 1 \in 1 .. m
  BY <1>2
<1>4. Iterator!CellsOf(fs[i], i) = b
  BY DEF Iterator!CellsOf, Iterator!FRAME_HEADER_LEN
<1>5. \A k \in 1 .. m : <<i, k>> \in Cell
  BY DEF Cell
<1>6. b \in Seq(Cell) /\ Len(b) = m /\ b[1] = <<i, 1>>
  <2> HIDE DEF m
  <2> QED
    BY <1>3, <1>5
<1> HIDE DEF b
<1> QED
  BY <1>2, <1>3, <1>4, <1>6 DEF Size

LEMMA CellsJoined ==
  ASSUME NEW u \in Seq(Cell), NEW v \in Seq(Cell)
  PROVE  /\ u \o v \in Seq(Cell) /\ Len(u \o v) = Len(u) + Len(v)
         /\ \A i \in 1 .. Len(u) : (u \o v)[i] = u[i]
         /\ \A i \in 1 .. Len(v) : (u \o v)[Len(u) + i] = v[i]
<1>1. u \o v \in Seq(Cell) /\ Len(u \o v) = Len(u) + Len(v) /\ Len(u) \in Nat /\ Len(v) \in Nat
  BY ConcatProperties
<1>2. \A i \in 1 .. Len(u) + Len(v) : (u \o v)[i] = IF i <= Len(u) THEN u[i] ELSE v[i - Len(u)]
  BY <1>1, ConcatProperties
<1>3. ASSUME NEW i \in 1 .. Len(u) PROVE (u \o v)[i] = u[i]
  BY <1>1, <1>2
<1>4. ASSUME NEW i \in 1 .. Len(v) PROVE (u \o v)[Len(u) + i] = v[i]
  <2>1. Len(u) + i \in 1 .. Len(u) + Len(v) /\ ~ (Len(u) + i <= Len(u)) /\ (Len(u) + i) - Len(u) = i
    BY <1>1
  <2> QED
    BY <1>2, <2>1
<1> QED
  BY <1>1, <1>3, <1>4

\* Where frame k + 1 begins.
Place(fs, k) == Len(Iterator!Cells(fs)[k])

LEMMA CellsHold ==
  ASSUME NEW fs \in Seq(Frames)
  PROVE  /\ Iterator!AllCells(fs) \in Seq(Cell) /\ Len(Iterator!AllCells(fs)) = Place(fs, Len(fs))
         /\ Place(fs, 0) = 0 /\ \A k \in 0 .. Len(fs) : Place(fs, k) \in Nat
         /\ \A k \in 0 .. Len(fs) - 1 : /\ Place(fs, k + 1) = Place(fs, k) + Size(fs, k + 1)
                                        /\ Place(fs, k + 1) <= Place(fs, Len(fs))
                                        /\ Iterator!AllCells(fs)[Place(fs, k) + 1][1] = k + 1
<1> DEFINE n == Len(fs)
           C == Iterator!Cells(fs)
           T == {m \in 0 .. n : /\ \A k \in 0 .. m : C[k] \in Seq(Cell)
                                /\ \A k \in 0 .. m - 1 : /\ Len(C[k]) + Size(fs, k + 1) <= Len(C[m])
                                                         /\ C[m][Len(C[k]) + 1][1] = k + 1}
<1>1. n \in Nat /\ C[0] = << >> /\ \A m \in 1 .. n : C[m] = C[m - 1] \o Iterator!CellsOf(fs[m], m)
  <2>1. Len(fs) \in Nat
    OBVIOUS
  <2> QED
    BY <2>1, CellsAre
<1> HIDE DEF C
<1>2. 0 \in T
  <2>1. << >> \in Seq(Cell) /\ 0 .. 0 - 1 = {} /\ 0 .. 0 = {0} /\ 0 \in 0 .. n
    BY <1>1
  <2> QED
    BY <1>1, <2>1
<1>3. ASSUME NEW i \in 0 .. n - 1, C[i] \in Seq(Cell)
      PROVE  /\ C[i + 1] \in Seq(Cell) /\ Len(C[i]) \in Nat /\ Len(C[i + 1]) = Len(C[i]) + Size(fs, i + 1)
             /\ Size(fs, i + 1) \in Nat /\ Size(fs, i + 1) >= 2
             /\ \A j \in 1 .. Len(C[i]) : C[i + 1][j] = C[i][j]
             /\ C[i + 1][Len(C[i]) + 1][1] = i + 1
  <2> DEFINE b == Iterator!CellsOf(fs[i + 1], i + 1)
  <2>1. i + 1 \in 1 .. n /\ (i + 1) - 1 = i
    BY <1>1
  <2>2. C[i + 1] = C[i] \o b
    BY <1>1, <2>1
  <2>3. /\ b \in Seq(Cell) /\ Len(b) = Size(fs, i + 1) /\ b[1][1] = i + 1
        /\ Size(fs, i + 1) \in Nat /\ Size(fs, i + 1) >= 2
    BY <2>1, CellsOfFrame
  <2> HIDE DEF b
  <2>4. /\ C[i] \o b \in Seq(Cell) /\ Len(C[i] \o b) = Len(C[i]) + Len(b)
        /\ \A j \in 1 .. Len(C[i]) : (C[i] \o b)[j] = C[i][j]
        /\ \A j \in 1 .. Len(b) : (C[i] \o b)[Len(C[i]) + j] = b[j]
    BY <1>3, <2>3, CellsJoined
  <2>5. 1 \in 1 .. Len(b) /\ Len(C[i]) \in Nat
    BY <1>3, <2>3
  <2> QED
    BY <2>2, <2>3, <2>4, <2>5
<1>4. ASSUME NEW i \in 0 .. n - 1, i \in T PROVE i + 1 \in T
  <2>0. C[i] \in Seq(Cell) /\ \A k \in 0 .. i : C[k] \in Seq(Cell)
    <3>1. i \in 0 .. i
      BY <1>1
    <3> QED
      BY <1>4, <3>1
  <2>1. /\ C[i + 1] \in Seq(Cell) /\ Len(C[i]) \in Nat /\ Len(C[i + 1]) = Len(C[i]) + Size(fs, i + 1)
        /\ Size(fs, i + 1) \in Nat /\ Size(fs, i + 1) >= 2
        /\ \A j \in 1 .. Len(C[i]) : C[i + 1][j] = C[i][j]
        /\ C[i + 1][Len(C[i]) + 1][1] = i + 1
    BY <1>3, <2>0
  <2>2. i + 1 \in 0 .. n /\ (i + 1) - 1 = i /\ i \in Nat
    BY <1>1
  <2>3. ASSUME NEW k \in 0 .. i
        PROVE  Len(C[k]) + Size(fs, k + 1) <= Len(C[i + 1]) /\ C[i + 1][Len(C[k]) + 1][1] = k + 1
    <3>1. CASE k = i
      BY <2>1, <3>1
    <3>2. CASE k < i
      <4>1. k \in 0 .. i - 1 /\ k + 1 \in 1 .. n
        BY <1>1, <2>2, <3>2
      <4>2. Len(C[k]) + Size(fs, k + 1) <= Len(C[i]) /\ C[i][Len(C[k]) + 1][1] = k + 1
        BY <1>4, <4>1
      <4>3. Size(fs, k + 1) \in Nat /\ Size(fs, k + 1) >= 2
        BY <4>1, CellsOfFrame
      <4>4. Len(C[k]) \in Nat
        <5>1. k \in 0 .. i
          BY <4>1
        <5>2. C[k] \in Seq(Cell)
          BY <1>4, <5>1
        <5> QED
          BY <5>2
      <4> DEFINE x == Len(C[k])
                 y == Size(fs, k + 1)
                 u == Len(C[i])
                 w == Size(fs, i + 1)
      <4>7. x + y <= u /\ x \in Nat /\ y \in Nat /\ y >= 2 /\ u \in Nat /\ w \in Nat
            /\ Len(C[i + 1]) = u + w
        BY <2>1, <4>2, <4>3, <4>4
      <4> HIDE DEF x, y, u, w
      <4>8. x + 1 \in 1 .. u /\ x + y <= u + w
        BY <4>7
      <4>5. Len(C[k]) + 1 \in 1 .. Len(C[i])
        BY <4>8 DEF x, u
      <4>6. Len(C[k]) + Size(fs, k + 1) <= Len(C[i + 1])
        BY <4>7, <4>8 DEF x, y
      <4> QED
        BY <2>1, <4>2, <4>5, <4>6
    <3> QED
      BY <2>2, <2>3, <3>1, <3>2
  <2>4. ASSUME NEW k \in 0 .. i + 1 PROVE C[k] \in Seq(Cell)
    <3>1. k = i + 1 \/ k \in 0 .. i
      BY <2>2
    <3> QED
      BY <2>0, <2>1, <3>1
  <2> QED
    BY <2>2, <2>3, <2>4
<1>5. \A m \in 0 .. n : m \in T
  <2> HIDE DEF T, n
  <2> QED
    BY <1>1, <1>2, <1>4, UpTo
<1>6. ASSUME NEW m \in 0 .. n PROVE C[m] \in Seq(Cell) /\ Len(C[m]) \in Nat
  <2>1. m \in T /\ m \in 0 .. m
    BY <1>1, <1>5
  <2> QED
    BY <2>1
<1>7. ASSUME NEW k \in 0 .. n - 1
      PROVE  /\ Len(C[k + 1]) = Len(C[k]) + Size(fs, k + 1)
             /\ Len(C[k]) + Size(fs, k + 1) <= Len(C[n]) /\ C[n][Len(C[k]) + 1][1] = k + 1
  <2>1. k \in 0 .. n /\ n \in T
    <3>1. k \in 0 .. n /\ n \in 0 .. n
      BY <1>1
    <3> HIDE DEF T, n
    <3> QED
      BY <1>5, <3>1
  <2> QED
    BY <1>3, <1>6, <2>1
<1>8. Len(C[0]) = 0 /\ Iterator!AllCells(fs) = C[n] /\ n \in 0 .. n
  BY <1>1 DEF Iterator!AllCells, C
<1> QED
  BY <1>6, <1>7, <1>8 DEF Place, C

\* What is wanted of fewer frames begins what is wanted of more.
Begins(u, v) == Len(u) <= Len(v) /\ \A j \in 1 .. Len(u) : v[j] = u[j]

LEMMA BeginsIsPrefix ==
  ASSUME NEW u \in Seq(Nat), NEW v \in Seq(Nat), Begins(u, v)
  PROVE  Iterator!IsPrefix(u, v)
<1>1. Len(u) \in Nat /\ Len(v) \in Nat /\ Len(u) <= Len(v) /\ \A j \in 1 .. Len(u) : v[j] = u[j]
  BY DEF Begins
<1>2. SubSeq(u, 1, Len(u)) = SubSeq(v, 1, Len(u))
  BY <1>1
<1> QED
  BY <1>1, <1>2 DEF Iterator!IsPrefix

LEMMA WantedGrows ==
  ASSUME NEW fs, Len(fs) \in Nat, NEW types
  PROVE  \A m \in 0 .. Len(fs) : \A k \in 0 .. m :
           /\ Iterator!WantedUpTo(fs, types)[k] \in Seq(Nat)
           /\ Begins(Iterator!WantedUpTo(fs, types)[k], Iterator!WantedUpTo(fs, types)[m])
<1> DEFINE n == Len(fs)
           W == Iterator!WantedUpTo(fs, types)
           T == {m \in 0 .. n : \A k \in 0 .. m : W[k] \in Seq(Nat) /\ Begins(W[k], W[m])}
<1>1. /\ W[0] = << >>
      /\ \A k \in 1 .. n : W[k] = IF fs[k].type \in types THEN Append(W[k - 1], k) ELSE W[k - 1]
  BY WantedAre
<1> HIDE DEF W
<1>2. 0 \in T
  <2>1. << >> \in Seq(Nat) /\ Begins(<< >>, << >>) /\ 0 .. 0 = {0} /\ 0 \in 0 .. n
    BY DEF Begins
  <2> QED
    BY <1>1, <2>1
<1>3. ASSUME NEW i \in 0 .. n - 1, i \in T PROVE i + 1 \in T
  <2>1. i + 1 \in 1 .. n /\ (i + 1) - 1 = i /\ i + 1 \in 0 .. n /\ i + 1 \in Nat /\ i \in 0 .. i
    OBVIOUS
  <2>2. W[i] \in Seq(Nat) /\ W[i + 1] = IF fs[i + 1].type \in types THEN Append(W[i], i + 1) ELSE W[i]
    BY <1>1, <1>3, <2>1
  <2>3. W[i + 1] \in Seq(Nat) /\ Begins(W[i], W[i + 1]) /\ Begins(W[i + 1], W[i + 1])
    BY <2>1, <2>2 DEF Begins
  <2>4. ASSUME NEW k \in 0 .. i PROVE W[k] \in Seq(Nat) /\ Begins(W[k], W[i + 1])
    <3>1. W[k] \in Seq(Nat) /\ Begins(W[k], W[i])
      BY <1>3, <2>4
    <3>2. Len(W[k]) \in Nat /\ Len(W[i]) \in Nat /\ Len(W[i + 1]) \in Nat
      BY <2>2, <2>3, <3>1
    <3>3. Len(W[k]) <= Len(W[i]) /\ Len(W[i]) <= Len(W[i + 1])
      BY <2>3, <3>1 DEF Begins
    <3>4. ASSUME NEW j \in 1 .. Len(W[k]) PROVE W[i + 1][j] = W[k][j]
      <4>1. j \in 1 .. Len(W[i])
        BY <3>2, <3>3
      <4> QED
        BY <2>3, <3>1, <4>1 DEF Begins
    <3>5. Len(W[k]) <= Len(W[i + 1])
      BY <3>2, <3>3
    <3> QED
      BY <3>1, <3>4, <3>5, Zenon DEF Begins
  <2>5. \A k \in 0 .. i + 1 : k = i + 1 \/ k \in 0 .. i
    OBVIOUS
  <2> QED
    BY <2>1, <2>3, <2>4, <2>5
<1>4. \A m \in 0 .. n : m \in T
  <2> HIDE DEF T, n
  <2>1. n \in Nat
    BY DEF n
  <2> QED
    BY <1>2, <1>3, <2>1, UpTo
<1> QED
  BY <1>4 DEF W

\* Where the iteration ends.
EndsAt(whole, stops, bad) == {whole} \cup stops \cup {i - 1 : i \in bad}
Earliest(last, n, whole, stops, bad) ==
  /\ last \in 0 .. n /\ last <= whole
  /\ \A i \in stops : last <= i
  /\ \A i \in bad : last <= i - 1
  /\ last = whole \/ last \in stops \/ last + 1 \in bad

LEMMA EarliestEnd ==
  ASSUME NEW n \in Nat, NEW whole \in 0 .. n, NEW stops, stops \subseteq 1 .. n,
         NEW bad, bad \subseteq 1 .. n,
         NEW last, last = Iterator!Min(EndsAt(whole, stops, bad))
  PROVE  Earliest(last, n, whole, stops, bad)
<1> DEFINE S == EndsAt(whole, stops, bad)
<1>1. S \subseteq Nat /\ S # {}
  <2>1. \A i \in bad : i - 1 \in Nat
    OBVIOUS
  <2>2. \A i \in stops : i \in Nat
    OBVIOUS
  <2> QED
    BY <2>1, <2>2 DEF EndsAt
<1>2. PICK x \in S : \A y \in S : x <= y
  <2> HIDE DEF S
  <2> QED
    BY <1>1, LeastElement
<1>3. last \in S /\ \A y \in S : last <= y
  <2>1. last = CHOOSE z \in S : \A y \in S : z <= y
    BY DEF Iterator!Min
  <2> HIDE DEF S
  <2> QED
    BY <1>2, <2>1
<1>4. whole \in S /\ (\A i \in stops : i \in S) /\ (\A i \in bad : i - 1 \in S)
  BY DEF EndsAt
<1>5. last = whole \/ last \in stops \/ last + 1 \in bad
  <2>1. CASE last \in {i - 1 : i \in bad}
    <3>1. PICK i \in bad : last = i - 1
      BY <2>1
    <3>2. i \in Nat
      OBVIOUS
    <3>3. last + 1 = i
      BY <3>1, <3>2
    <3> QED
      BY <3>3
  <2> QED
    BY <1>3, <2>1 DEF EndsAt
<1>6. last \in 0 .. n
  <2>1. last \in Nat /\ last <= whole
    BY <1>1, <1>3, <1>4
  <2> QED
    BY <2>1
<1> HIDE DEF S
<1> QED
  BY <1>3, <1>4, <1>5, <1>6 DEF Earliest

LEMMA LastFrameIs ==
  ASSUME input \in Seq(Frames), cut \in 0 .. 1, cut = 0 \/ Len(input) >= 1
  PROVE  /\ Iterator!LastFrame \in 0 .. Len(input) /\ Iterator!LastFrame <= Iterator!Whole
         /\ Iterator!Whole \in 0 .. Len(input)
         /\ \A i \in Iterator!Stops : Iterator!LastFrame <= i
         /\ \A i \in Iterator!Bad : Iterator!LastFrame <= i - 1
         /\ \/ Iterator!LastFrame = Iterator!Whole \/ Iterator!LastFrame \in Iterator!Stops
            \/ Iterator!LastFrame + 1 \in Iterator!Bad
<1>1. Iterator!Whole \in 0 .. Len(input) /\ Len(input) \in Nat
  BY DEF Iterator!Whole
<1>2. Iterator!Stops \subseteq 1 .. Len(input) /\ Iterator!Bad \subseteq 1 .. Len(input)
  BY DEF Iterator!Stops, Iterator!Bad
<1>3. Iterator!LastFrame = Iterator!Min(EndsAt(Iterator!Whole, Iterator!Stops, Iterator!Bad))
  BY DEF Iterator!LastFrame, EndsAt
<1>4. Earliest(Iterator!LastFrame, Len(input), Iterator!Whole, Iterator!Stops, Iterator!Bad)
  BY <1>1, <1>2, <1>3, EarliestEnd
<1> QED
  BY <1>1, <1>4 DEF Earliest

-----------------------------------------------------------------------------
(* PyIterator: the inductive invariant.                                    *)

Left == IF m_file = Iterator!NoFile THEN << >> ELSE m_file
Iterating ==
  /\ input \in Seq(Frames) /\ cut \in 0 .. 1 /\ (cut = 0 \/ Len(input) >= 1)
  /\ m_cachesize \in Nat /\ resumes \in 0 .. MaxResumes /\ failures \in Nat
  /\ i_buffer \in Seq(Cell) /\ m_offset \in 0 .. Len(i_buffer)
  /\ m_file = Iterator!NoFile \/ m_file \in Seq(Cell)
  /\ i_pc \in {"new", "idle", "header", "body", "decode"}
  /\ raised \in {"none", "StopIteration", "ValueError", "write", "undefined"}
  /\ m_stopped \in BOOLEAN
  /\ i_pc = "new" => /\ input = << >> /\ cut = 0 /\ i_buffer = << >> /\ m_offset = 0
                     /\ m_file = Iterator!NoFile /\ yielded = << >> /\ saved = << >>
                     /\ raised = "none" /\ ~m_stopped
  /\ i_pc # "new" => Len(input) >= 1
  /\ raised = "undefined" => resumes = MaxResumes /\ i_pc = "idle"
  /\ i_pc \in {"header", "body", "decode"} => raised = "none"
  /\ i_pc \in {"body", "decode"} => Iterator!Buffered >= 2
  /\ i_pc = "decode" => Iterator!Buffered >= Iterator!Total(Iterator!Current)

\* The first k frames are consumed, and the bytes of the others are in the buffer and in
\* the file, in order.
TakenOff(k) ==
  /\ k \in 0 .. Len(input)
  /\ Iterator!Buffered + Len(Left) = Len(Iterator!Bytes) - Place(input, k)
  /\ \A j \in 1 .. Iterator!Buffered : i_buffer[m_offset + j] = Iterator!Bytes[Place(input, k) + j]
  /\ \A j \in 1 .. Len(Left) : Left[j] = Iterator!Bytes[Place(input, k) + Iterator!Buffered + j]

\* What the properties excuse: a write that raised, a stop event the caller never saw.
Excused == failures # 0 \/ (ended /\ resumes > 0 /\ "S" \notin m_filter)
HiddenStop == ended /\ "S" \notin m_filter /\ i_pc = "idle" /\ raised = "StopIteration"
Faithful(k) ==
  IF raised = "undefined" THEN yielded = Iterator!Wanted
  ELSE /\ k <= Iterator!LastFrame
       /\ yielded = Iterator!WantedUpTo(input, m_filter)[k]
       /\ raised \in {"StopIteration", "ValueError"} => k = Iterator!LastFrame
       /\ m_stopped => k = Iterator!LastFrame
       /\ i_pc \in {"body", "decode"} => ~m_stopped
       /\ k \in Iterator!Stops => m_stopped \/ HiddenStop
Small == m_file # Iterator!NoFile =>
           \E i \in 1 .. Len(input) : Len(i_buffer) <= m_cachesize + Iterator!Total(i)
IterationInv ==
  /\ Iterating /\ Small
  /\ m_saving => saved = yielded
  /\ \E k \in Nat : TakenOff(k) /\ (~Excused => Faithful(k))

LEMMA IterationSound ==
  ASSUME IterationInv
  PROVE  IterationIsExact
<1>1. Iterator!TypeOK
  BY DEF IterationInv, Iterating, Iterator!TypeOK
<1>2. Iterator!SavedIsYielded
  BY DEF IterationInv, Iterator!SavedIsYielded
<1>3. Iterator!BufferStaysSmall
  BY DEF IterationInv, Small, Iterator!BufferStaysSmall
<1>4. Iterator!YieldsTheFeed
  <2> SUFFICES ASSUME ~Excused
               PROVE  /\ Iterator!IsPrefix(yielded, Iterator!Wanted)
                      /\ raised \in {"StopIteration", "ValueError"} => yielded = Iterator!Wanted
    BY DEF Iterator!YieldsTheFeed, Excused
  <2>1. PICK k \in Nat : TakenOff(k) /\ Faithful(k)
    BY DEF IterationInv
  <2> DEFINE W == Iterator!WantedUpTo(input, m_filter)
             L == Iterator!LastFrame
  <2>2. /\ input \in Seq(Frames) /\ Len(input) \in Nat /\ L \in 0 .. Len(input)
    BY LastFrameIs DEF IterationInv, Iterating
  <2>3. Iterator!Wanted = W[L]
    BY DEF Iterator!Wanted
  <2>4. raised # "undefined" => k \in 0 .. L /\ yielded = W[k]
    BY <2>1, <2>2 DEF Faithful
  <2>5. PICK m \in 0 .. L : yielded = W[m]
    <3>1. L \in 0 .. L
      BY <2>2
    <3> QED
      BY <2>1, <2>3, <2>4, <3>1 DEF Faithful
  <2>6. W[m] \in Seq(Nat) /\ W[L] \in Seq(Nat) /\ Begins(W[m], W[L])
    <3>1. L \in 0 .. L
      BY <2>2
    <3> HIDE DEF W, L
    <3> QED
      BY <2>2, <3>1, WantedGrows DEF W
  <2>7. Iterator!IsPrefix(W[m], W[L])
    BY <2>6, BeginsIsPrefix
  <2>8. raised \in {"StopIteration", "ValueError"} => yielded = W[L]
    BY <2>1 DEF Faithful
  <2> QED
    BY <2>3, <2>5, <2>7, <2>8
<1> QED
  BY <1>1, <1>2, <1>3, <1>4 DEF IterationIsExact
-----------------------------------------------------------------------------
(* PyIterator: the frame at the offset.                                    *)

\* All bytes of the frames but the last c.
Shorn(fs, c) == SubSeq(Iterator!AllCells(fs), 1, Len(Iterator!AllCells(fs)) - c)

LEMMA BytesShorn ==
  ASSUME NEW fs \in Seq(Frames), NEW c \in 0 .. 1, c = 0 \/ Len(fs) >= 1
  PROVE  /\ Shorn(fs, c) \in Seq(Cell)
         /\ Len(Shorn(fs, c)) = Place(fs, Len(fs)) - c
         /\ \A j \in 1 .. Len(Shorn(fs, c)) : Shorn(fs, c)[j] = Iterator!AllCells(fs)[j]
<1> DEFINE n == Len(fs)
           A == Iterator!AllCells(fs)
<1>1. /\ A \in Seq(Cell) /\ Len(A) = Place(fs, n) /\ n \in Nat
      /\ \A k \in 0 .. n - 1 : Place(fs, k) \in Nat /\ Place(fs, k + 1) = Place(fs, k) + Size(fs, k + 1)
  <2>1. \A k \in 0 .. n - 1 : k \in 0 .. n
    OBVIOUS
  <2> QED
    BY <2>1, CellsHold
<1>2. Len(A) - c \in 0 .. Len(A)
  <2>1. CASE c = 0
    BY <1>1, <2>1
  <2>2. CASE c = 1
    <3>1. n - 1 \in 0 .. n - 1 /\ (n - 1) + 1 = n /\ n \in 1 .. n
      BY <1>1, <2>2
    <3>2. Size(fs, n) \in Nat /\ Size(fs, n) >= 2
      BY <3>1, CellsOfFrame
    <3>3. Place(fs, n - 1) \in Nat /\ Place(fs, n) = Place(fs, n - 1) + Size(fs, n)
      BY <1>1, <3>1
    <3> QED
      BY <1>1, <2>2, <3>2, <3>3
  <2> QED
    BY <2>1, <2>2
<1>3. Shorn(fs, c) = SubSeq(A, 1, Len(A) - c)
  BY DEF Shorn
<1> HIDE DEF A, n
<1>4. /\ SubSeq(A, 1, Len(A) - c) \in Seq(Cell) /\ Len(SubSeq(A, 1, Len(A) - c)) = Len(A) - c
      /\ \A j \in 1 .. Len(A) - c : SubSeq(A, 1, Len(A) - c)[j] = A[j]
  BY <1>1, <1>2
<1> QED
  BY <1>1, <1>3, <1>4 DEF A, n

LEMMA BytesOfInput ==
  ASSUME input \in Seq(Frames), cut \in 0 .. 1, cut = 0 \/ Len(input) >= 1
  PROVE  /\ Iterator!Bytes \in Seq(Cell)
         /\ Len(Iterator!Bytes) = Place(input, Len(input)) - cut
         /\ \A j \in 1 .. Len(Iterator!Bytes) : Iterator!Bytes[j] = Iterator!AllCells(input)[j]
<1>1. Iterator!Bytes = Shorn(input, cut)
  BY DEF Iterator!Bytes, Shorn
<1> QED
  BY <1>1, BytesShorn

LEMMA FrameAhead ==
  ASSUME Iterating, NEW k \in Nat, TakenOff(k), Iterator!Buffered >= 1
  PROVE  /\ k + 1 \in 1 .. Len(input) /\ Iterator!Current = k + 1
         /\ Iterator!Total(k + 1) = Size(input, k + 1)
         /\ Size(input, k + 1) \in Nat /\ Size(input, k + 1) >= 2 /\ input[k + 1].body \in Nat
<1> DEFINE n == Len(input)
           B == Iterator!Bytes
           P == Place(input, k)
<1>1. /\ input \in Seq(Frames) /\ n \in Nat /\ cut \in 0 .. 1 /\ (cut = 0 \/ n >= 1)
      /\ m_offset \in Nat /\ Len(i_buffer) \in Nat /\ Len(Left) \in Nat
  BY DEF Iterating, Left
<1>2. /\ k \in 0 .. n /\ Iterator!Buffered + Len(Left) = Len(B) - P
      /\ \A j \in 1 .. Iterator!Buffered : i_buffer[m_offset + j] = B[P + j]
  BY DEF TakenOff
<1>3. B \in Seq(Cell) /\ Len(B) = Place(input, n) - cut
      /\ \A j \in 1 .. Len(B) : B[j] = Iterator!AllCells(input)[j]
  BY <1>1, BytesOfInput
<1>4. Iterator!Buffered \in Nat
  BY <1>1 DEF Iterator!Buffered
<1>5. P \in Nat /\ Place(input, n) \in Nat /\ Len(B) \in Nat
  <2>1. n \in 0 .. n
    BY <1>1
  <2> QED
    BY <1>1, <1>2, <1>3, <2>1, CellsHold
<1> HIDE DEF B, n
<1>6. k # n
  BY <1>1, <1>2, <1>3, <1>4, <1>5 DEF P
<1>7. k \in 0 .. n - 1 /\ k + 1 \in 1 .. n
  BY <1>1, <1>2, <1>6
<1>8. Iterator!AllCells(input)[P + 1][1] = k + 1
  BY <1>1, <1>7, CellsHold DEF n
<1>9. P + 1 \in 1 .. Len(B) /\ 1 \in 1 .. Iterator!Buffered
  BY <1>1, <1>2, <1>4, <1>5
<1>10. i_buffer[m_offset + 1][1] = k + 1
  BY <1>2, <1>3, <1>8, <1>9
<1>11. Size(input, k + 1) \in Nat /\ Size(input, k + 1) >= 2 /\ input[k + 1].body \in Nat
  BY <1>1, <1>7, CellsOfFrame DEF n
<1> QED
  BY <1>7, <1>10, <1>11 DEF n, Iterator!Current, Iterator!Total, Iterator!FRAME_HEADER_LEN, Size

LEMMA FrameWhole ==
  ASSUME Iterating, NEW k \in Nat, TakenOff(k), Iterator!Buffered >= 1,
         Iterator!Buffered >= Size(input, k + 1)
  PROVE  k + 1 <= Iterator!Whole
<1> DEFINE n == Len(input)
<1>1. k + 1 \in 1 .. n /\ Size(input, k + 1) \in Nat
  BY FrameAhead
<1>2. /\ input \in Seq(Frames) /\ n \in Nat /\ cut \in 0 .. 1 /\ (cut = 0 \/ n >= 1)
      /\ Len(Left) \in Nat /\ Iterator!Buffered \in Nat
  BY DEF Iterating, Left, Iterator!Buffered
<1>3. Iterator!Buffered + Len(Left) = Len(Iterator!Bytes) - Place(input, k)
  BY DEF TakenOff
<1>4. Len(Iterator!Bytes) = Place(input, n) - cut
  BY <1>2, BytesOfInput
<1>5. k \in 0 .. n - 1 /\ k \in 0 .. n /\ n \in 0 .. n
  BY <1>1, <1>2
<1>6. Place(input, k) \in Nat /\ Place(input, n) \in Nat
      /\ Place(input, k + 1) = Place(input, k) + Size(input, k + 1)
  BY <1>2, <1>5, CellsHold
<1>7. Place(input, k + 1) <= Place(input, n) - cut
  BY <1>1, <1>2, <1>3, <1>4, <1>6
<1>8. ~ (k + 1 = n /\ cut > 0)
  BY <1>2, <1>6, <1>7
<1> QED
  BY <1>1, <1>2, <1>8 DEF Iterator!Whole

LEMMA NoFrameLeft ==
  ASSUME Iterating, NEW k \in Nat, TakenOff(k), Left = << >>,
         \/ Iterator!Buffered < 2
         \/ Iterator!Buffered >= 1 /\ Iterator!Buffered < Size(input, k + 1)
  PROVE  Iterator!Whole <= k
<1> DEFINE n == Len(input)
<1>2. /\ input \in Seq(Frames) /\ n \in Nat /\ cut \in 0 .. 1 /\ (cut = 0 \/ n >= 1)
      /\ Iterator!Buffered \in Nat
  BY DEF Iterating, Iterator!Buffered
<1>3. k \in 0 .. n /\ Iterator!Buffered = Len(Iterator!Bytes) - Place(input, k)
  <2>1. Len(Left) = 0
    BY DEF Left
  <2>2. k \in 0 .. n /\ Iterator!Buffered + Len(Left) = Len(Iterator!Bytes) - Place(input, k)
    BY DEF TakenOff
  <2> QED
    BY <1>2, <2>1, <2>2
<1>4. Len(Iterator!Bytes) = Place(input, n) - cut
  BY <1>2, BytesOfInput
<1>5. Iterator!Whole = n - cut
  BY <1>2 DEF Iterator!Whole
<1>6. ASSUME k < Iterator!Whole PROVE FALSE
  <2>1. k \in 0 .. n - 1 /\ k \in 0 .. n /\ n \in 0 .. n /\ k + 1 \in 0 .. n /\ k + 1 \in 1 .. n
    BY <1>2, <1>3, <1>5, <1>6
  <2>2. /\ Place(input, k) \in Nat /\ Place(input, n) \in Nat /\ Place(input, k + 1) \in Nat
        /\ Place(input, k + 1) = Place(input, k) + Size(input, k + 1)
        /\ Place(input, k + 1) <= Place(input, n)
    BY <1>2, <2>1, CellsHold
  <2>3. Size(input, k + 1) \in Nat /\ Size(input, k + 1) >= 2
    BY <1>2, <2>1, CellsOfFrame
  <2>4. Place(input, k + 1) <= Place(input, n) - cut
    <3>1. CASE cut = 0
      BY <2>2, <3>1
    <3>2. CASE cut = 1
      <4>1. k + 1 \in 0 .. n - 1 /\ (k + 1) + 1 \in 1 .. n
        BY <1>2, <1>3, <1>5, <1>6, <3>2
      <4>2. /\ Place(input, (k + 1) + 1) = Place(input, k + 1) + Size(input, (k + 1) + 1)
            /\ Place(input, (k + 1) + 1) <= Place(input, n)
        BY <1>2, <4>1, CellsHold
      <4>3. Size(input, (k + 1) + 1) \in Nat /\ Size(input, (k + 1) + 1) >= 2
        BY <1>2, <4>1, CellsOfFrame
      <4> QED
        BY <2>2, <3>2, <4>2, <4>3
    <3> QED
      BY <1>2, <3>1, <3>2
  <2>5. Iterator!Buffered >= Size(input, k + 1)
    <3> DEFINE x == Place(input, k)
               y == Size(input, k + 1)
               z == Place(input, n)
    <3>1. /\ x \in Nat /\ y \in Nat /\ z \in Nat /\ cut \in 0 .. 1
          /\ x + y <= z - cut /\ Iterator!Buffered = (z - cut) - x
      BY <1>2, <1>3, <1>4, <2>2, <2>3, <2>4
    <3> HIDE DEF x, y, z
    <3>2. Iterator!Buffered >= y
      BY <3>1
    <3> QED
      BY <3>2 DEF y
  <2> QED
    BY <1>2, <2>3, <2>5
<1>7. Iterator!Whole \in Nat
  BY <1>2, LastFrameIs
<1> QED
  BY <1>6, <1>7
-----------------------------------------------------------------------------
(* PyIterator: the bytes a step moves.                                     *)

LEMMA InputStands ==
  ASSUME input' = input, cut' = cut
  PROVE  /\ Iterator!Bytes' = Iterator!Bytes
         /\ \A k \in Nat : Place(input, k)' = Place(input, k)
  BY DEF Iterator!Bytes, Place, Iterator!AllCells, Iterator!Cells, Iterator!CellsOf, Iterator!FRAME_HEADER_LEN

LEMMA FeedStands ==
  ASSUME UNCHANGED Iterator!config
  PROVE  /\ Iterator!Whole' = Iterator!Whole /\ Iterator!Stops' = Iterator!Stops
         /\ Iterator!LastFrame' = Iterator!LastFrame /\ Iterator!Wanted' = Iterator!Wanted
         /\ Iterator!WantedUpTo(input, m_filter)' = Iterator!WantedUpTo(input, m_filter)
         /\ input' = input /\ cut' = cut /\ m_filter' = m_filter /\ m_cachesize' = m_cachesize
         /\ m_saving' = m_saving
<1>1. /\ input' = input /\ cut' = cut /\ m_filter' = m_filter /\ m_cachesize' = m_cachesize
      /\ m_saving' = m_saving
  BY DEF Iterator!config
<1>2. /\ Iterator!Whole' = Iterator!Whole /\ Iterator!Stops' = Iterator!Stops
      /\ Iterator!Bad' = Iterator!Bad
  BY <1>1 DEF Iterator!Whole, Iterator!Stops, Iterator!Bad, Iterator!IsStop, Iterator!Known,
    Iterator!Crashes
<1>3. Iterator!LastFrame' = Iterator!LastFrame
  BY <1>2 DEF Iterator!LastFrame, Iterator!Min
<1>4. Iterator!WantedUpTo(input, m_filter)' = Iterator!WantedUpTo(input, m_filter)
  BY <1>1 DEF Iterator!WantedUpTo
<1>5. Iterator!Wanted' = Iterator!Wanted
  BY <1>3, <1>4 DEF Iterator!Wanted
<1> QED
  BY <1>1, <1>2, <1>3, <1>4, <1>5

\* The frame at the offset is consumed.
LEMMA FrameConsumed ==
  ASSUME Iterating, NEW k \in Nat, TakenOff(k), Iterator!Buffered >= 2,
         Iterator!Buffered >= Iterator!Total(Iterator!Current), Iterator!Consume,
         i_buffer' = i_buffer, m_file' = m_file, input' = input, cut' = cut
  PROVE  TakenOff(k + 1)' /\ m_offset' \in 0 .. Len(i_buffer)
<1> DEFINE s == Size(input, k + 1)
           P == Place(input, k)
           B == Iterator!Bytes
           bf == Iterator!Buffered
<1>1. /\ k + 1 \in 1 .. Len(input) /\ m_offset' = m_offset + s /\ s \in Nat /\ bf >= s
      /\ bf = Len(i_buffer) - m_offset /\ Iterator!Buffered' = Len(i_buffer) - m_offset'
  <2>1. bf \in Nat
    BY DEF Iterating, Iterator!Buffered
  <2>2. /\ k + 1 \in 1 .. Len(input) /\ Iterator!Current = k + 1 /\ Iterator!Total(k + 1) = s /\ s \in Nat
    BY <2>1, FrameAhead
  <2>3. m_offset' = m_offset + s /\ bf >= s
    BY <2>2 DEF Iterator!Consume
  <2> QED
    BY <2>2, <2>3 DEF Iterator!Buffered
<1>2. /\ input \in Seq(Frames) /\ m_offset \in Nat /\ Len(i_buffer) \in Nat /\ Len(Left) \in Nat
      /\ Len(input) \in Nat
  BY DEF Iterating, Left
<1>3. /\ bf + Len(Left) = Len(B) - P
      /\ \A j \in 1 .. bf : i_buffer[m_offset + j] = B[P + j]
      /\ \A j \in 1 .. Len(Left) : Left[j] = B[P + bf + j]
  BY DEF TakenOff
<1>4. k \in 0 .. Len(input) - 1 /\ k \in 0 .. Len(input)
  BY <1>1, <1>2
<1>5. Place(input, k + 1) = P + s /\ P \in Nat
  BY <1>2, <1>4, CellsHold
<1>6. Iterator!Bytes' = B /\ Place(input, k + 1)' = Place(input, k + 1) /\ Left' = Left
  BY InputStands DEF Left, Iterator!NoFile
<1>7. Len(B) \in Nat
  <2>1. B \in Seq(Cell)
    BY BytesOfInput DEF Iterating
  <2> QED
    BY <2>1
<1> HIDE DEF s, P, B, bf
<1>8. Iterator!Buffered' = bf - s /\ bf - s \in Nat
  BY <1>1, <1>2
<1>9. (bf - s) + Len(Left) = Len(B) - (P + s)
  BY <1>1, <1>2, <1>3, <1>5, <1>7
<1>10. ASSUME NEW j \in 1 .. bf - s PROVE i_buffer[m_offset' + j] = B[(P + s) + j]
  <2>1. s + j \in 1 .. bf /\ m_offset + (s + j) = (m_offset + s) + j /\ P + (s + j) = (P + s) + j
    BY <1>1, <1>2, <1>5, <1>8
  <2> QED
    BY <1>1, <1>3, <2>1
<1>11. ASSUME NEW j \in 1 .. Len(Left) PROVE Left[j] = B[(P + s) + (bf - s) + j]
  <2>1. (P + s) + (bf - s) + j = P + bf + j
    BY <1>1, <1>2, <1>5, <1>8
  <2> QED
    BY <1>3, <2>1
<1>12. m_offset' \in 0 .. Len(i_buffer)
  BY <1>1, <1>2
<1>13. k + 1 \in 0 .. Len(input)
  BY <1>1
<1>14. (TakenOff(k + 1))' = (/\ k + 1 \in 0 .. Len(input')
                             /\ Iterator!Buffered' + Len(Left') = Len(Iterator!Bytes') - Place(input, k + 1)'
                             /\ \A j \in 1 .. Iterator!Buffered' :
                                  i_buffer'[m_offset' + j] = Iterator!Bytes'[Place(input, k + 1)' + j]
                             /\ \A j \in 1 .. Len(Left') :
                                  Left'[j] = Iterator!Bytes'[Place(input, k + 1)' + Iterator!Buffered' + j])
  BY DEF TakenOff
<1> QED
  BY <1>5, <1>6, <1>8, <1>9, <1>10, <1>11, <1>12, <1>13, <1>14

\* The buffer is compacted, and n bytes of the file come behind what is left of it.
LEMMA BytesMoved ==
  ASSUME Iterating, NEW k \in Nat, TakenOff(k), NEW n \in 0 .. Len(Left),
         i_buffer' \in Seq(Cell), Left' \in Seq(Cell), m_offset' = 0,
         Len(i_buffer') = Iterator!Buffered + n,
         \A j \in 1 .. Iterator!Buffered : i_buffer'[j] = i_buffer[m_offset + j],
         \A j \in 1 .. n : i_buffer'[Iterator!Buffered + j] = Left[j],
         Len(Left') = Len(Left) - n,
         \A j \in 1 .. Len(Left) - n : Left'[j] = Left[n + j],
         input' = input, cut' = cut
  PROVE  TakenOff(k)'
<1> DEFINE P == Place(input, k)
           B == Iterator!Bytes
           bf == Iterator!Buffered
<1>1. Iterator!Buffered' = bf + n
  BY DEF Iterator!Buffered
<1>2. /\ input \in Seq(Frames) /\ m_offset \in Nat /\ Len(i_buffer) \in Nat /\ Len(Left) \in Nat
      /\ Len(input) \in Nat /\ bf \in Nat
  BY DEF Iterating, Left, Iterator!Buffered
<1>3. /\ k \in 0 .. Len(input)
      /\ bf + Len(Left) = Len(B) - P
      /\ \A j \in 1 .. bf : i_buffer[m_offset + j] = B[P + j]
      /\ \A j \in 1 .. Len(Left) : Left[j] = B[P + bf + j]
  BY DEF TakenOff
<1>4. P \in Nat
  BY <1>2, <1>3, CellsHold
<1>5. Iterator!Bytes' = B /\ Place(input, k)' = P
  BY InputStands
<1>6. Len(B) \in Nat
  <2>1. B \in Seq(Cell)
    BY BytesOfInput DEF Iterating
  <2> QED
    BY <2>1
<1> HIDE DEF P, B, bf
<1>7. (bf + n) + (Len(Left) - n) = Len(B) - P
  <2>1. \A x, y, z \in Nat : (x + z) + (y - z) = x + y
    OBVIOUS
  <2>2. n \in Nat
    BY <1>2
  <2>3. (bf + n) + (Len(Left) - n) = bf + Len(Left)
    BY <1>2, <2>1, <2>2
  <2> QED
    BY <1>3, <2>3
<1>8. ASSUME NEW j \in 1 .. bf + n PROVE i_buffer'[0 + j] = B[P + j]
  <2>1. CASE j <= bf
    <3>1. j \in 1 .. bf /\ 0 + j = j
      BY <1>2, <2>1
    <3> QED
      BY <1>3, <3>1 DEF bf
  <2>2. CASE j > bf
    <3>3. j - bf \in 1 .. n /\ j - bf \in 1 .. Len(Left)
      BY <1>2, <2>2
    <3>4. \A x, y, z \in Nat : 0 + x = y + (x - y) /\ z + x = z + y + (x - y)
      OBVIOUS
    <3>5. j \in Nat
      BY <1>2
    <3>1. j - bf \in 1 .. n /\ j - bf \in 1 .. Len(Left) /\ 0 + j = bf + (j - bf) /\ P + j = P + bf + (j - bf)
      BY <1>2, <1>4, <3>3, <3>4, <3>5
    <3>2. i_buffer'[bf + (j - bf)] = Left[j - bf] /\ Left[j - bf] = B[P + bf + (j - bf)]
      BY <1>3, <3>1 DEF bf
    <3> QED
      BY <3>1, <3>2
  <2> QED
    BY <1>2, <2>1, <2>2
<1>9. ASSUME NEW j \in 1 .. Len(Left) - n PROVE Left'[j] = B[P + (bf + n) + j]
  <2>2. n + j \in 1 .. Len(Left) /\ n \in Nat /\ j \in Nat
    BY <1>2
  <2>3. \A x, y, z, w \in Nat : x + y + (z + w) = x + (y + z) + w
    OBVIOUS
  <2>1. n + j \in 1 .. Len(Left) /\ P + bf + (n + j) = P + (bf + n) + j
    BY <1>2, <1>4, <2>2, <2>3
  <2> QED
    BY <1>3, <2>1
<1>10. (TakenOff(k))' = (/\ k \in 0 .. Len(input')
                         /\ Iterator!Buffered' + Len(Left') = Len(Iterator!Bytes') - Place(input, k)'
                         /\ \A j \in 1 .. Iterator!Buffered' :
                              i_buffer'[m_offset' + j] = Iterator!Bytes'[Place(input, k)' + j]
                         /\ \A j \in 1 .. Len(Left') :
                              Left'[j] = Iterator!Bytes'[Place(input, k)' + Iterator!Buffered' + j])
  BY DEF TakenOff
<1> QED
  BY <1>1, <1>3, <1>5, <1>7, <1>8, <1>9, <1>10
-----------------------------------------------------------------------------
(* PyIterator: the buffer is filled.                                       *)

LEMMA FilesDiffer ==
  ASSUME NEW m \in Seq(Cell)
  PROVE  m # Iterator!NoFile
<1>1. ASSUME m = Iterator!NoFile PROVE FALSE
  <2>1. Len(m) = 1 /\ m[1] = <<0, 0>>
    BY <1>1 DEF Iterator!NoFile
  <2>2. m[1] \in Cell
    BY <2>1
  <2> QED
    BY <2>1, <2>2 DEF Cell
<1> QED
  BY <1>1

LEMMA Compacting ==
  ASSUME Iterating
  PROVE  /\ Iterator!Compacted \in Seq(Cell) /\ Len(Iterator!Compacted) = Iterator!Buffered
         /\ Iterator!Buffered \in 0 .. Len(i_buffer)
         /\ \A j \in 1 .. Iterator!Buffered : Iterator!Compacted[j] = i_buffer[m_offset + j]
<1>1. i_buffer \in Seq(Cell) /\ m_offset \in 0 .. Len(i_buffer) /\ Len(i_buffer) \in Nat
  BY DEF Iterating
<1> DEFINE L == Len(i_buffer)
           C == SubSeq(i_buffer, m_offset + 1, L)
<1>2. C \in Seq(Cell) /\ Len(C) = L - m_offset /\ \A j \in 1 .. L - m_offset : C[j] = i_buffer[m_offset + j]
  BY <1>1
<1> QED
  BY <1>1, <1>2 DEF Iterator!Compacted, Iterator!Buffered

LEMMA Refilled ==
  ASSUME Iterating, NEW k \in Nat, TakenOff(k), m_file # Iterator!NoFile,
         NEW n \in 1 .. m_cachesize, n <= Len(m_file), Iterator!Refill(n)
  PROVE  /\ TakenOff(k)' /\ i_buffer' \in Seq(Cell) /\ m_offset' = 0 /\ m_file' \in Seq(Cell)
         /\ Len(i_buffer') = Iterator!Buffered + n /\ Iterator!Buffered' = Iterator!Buffered + n
<1> DEFINE C == Iterator!Compacted
           M == SubSeq(m_file, 1, n)
           bf == Iterator!Buffered
<1>1. /\ C \in Seq(Cell) /\ Len(C) = bf /\ bf \in 0 .. Len(i_buffer)
      /\ \A j \in 1 .. bf : C[j] = i_buffer[m_offset + j]
  BY Compacting
<1>2. m_file \in Seq(Cell) /\ Left = m_file /\ Len(m_file) \in Nat /\ n \in 0 .. Len(m_file)
  BY DEF Iterating, Left
<1>3. M \in Seq(Cell) /\ Len(M) = n /\ \A j \in 1 .. n : M[j] = m_file[j]
  BY <1>2
<1>4. /\ i_buffer' = C \o M /\ m_offset' = Len(i_buffer') - bf - n
      /\ m_file' = SubSeq(m_file, n + 1, Len(m_file)) /\ input' = input /\ cut' = cut
  BY DEF Iterator!Refill, Iterator!config
<1> HIDE DEF C, M, bf
<1>5. /\ C \o M \in Seq(Cell) /\ Len(C \o M) = bf + n
      /\ \A j \in 1 .. bf : (C \o M)[j] = C[j]
      /\ \A j \in 1 .. n : (C \o M)[bf + j] = M[j]
  BY <1>1, <1>3, CellsJoined
<1>6. /\ m_file' \in Seq(Cell) /\ Len(m_file') = Len(m_file) - n
      /\ \A j \in 1 .. Len(m_file) - n : m_file'[j] = m_file[n + j]
  BY <1>2, <1>4
<1>7. m_offset' = 0
  BY <1>1, <1>4, <1>5
<1>8. Left' = m_file'
  <2>1. m_file' # Iterator!NoFile
    BY <1>6, FilesDiffer
  <2> QED
    BY <2>1 DEF Left, Iterator!NoFile
<1>9. TakenOff(k)'
  BY <1>1, <1>2, <1>3, <1>4, <1>5, <1>6, <1>7, <1>8, BytesMoved DEF bf
<1>10. Iterator!Buffered' = bf + n
  BY <1>1, <1>4, <1>5, <1>7 DEF Iterator!Buffered
<1> QED
  BY <1>4, <1>5, <1>6, <1>7, <1>9, <1>10 DEF bf

LEMMA RanOut ==
  ASSUME Iterating, NEW k \in Nat, TakenOff(k), m_file = << >>,
         i_buffer' = Iterator!Compacted, m_offset' = Len(i_buffer') - Iterator!Buffered,
         m_file' = m_file, input' = input, cut' = cut
  PROVE  /\ TakenOff(k)' /\ i_buffer' \in Seq(Cell) /\ m_offset' = 0
         /\ Len(i_buffer') = Iterator!Buffered /\ Left = << >>
<1>1. /\ i_buffer' \in Seq(Cell) /\ Len(i_buffer') = Iterator!Buffered
      /\ Iterator!Buffered \in 0 .. Len(i_buffer)
      /\ \A j \in 1 .. Iterator!Buffered : i_buffer'[j] = i_buffer[m_offset + j]
  BY Compacting
<1>2. m_offset' = 0
  BY <1>1
<1>3. Left = << >> /\ Left' = << >> /\ Len(Left) = 0 /\ << >> \in Seq(Cell)
  BY DEF Left, Iterator!NoFile
<1>4. Len(i_buffer') = Iterator!Buffered + 0
  BY <1>1
<1>5. 0 \in 0 .. Len(Left) /\ Len(Left') = Len(Left) - 0
      /\ (\A j \in 1 .. 0 : i_buffer'[Iterator!Buffered + j] = Left[j])
      /\ (\A j \in 1 .. Len(Left) - 0 : Left'[j] = Left[0 + j])
  BY <1>3
<1>6. TakenOff(k)'
  BY <1>1, <1>2, <1>3, <1>4, <1>5, BytesMoved
<1> QED
  BY <1>1, <1>2, <1>3, <1>6

LEMMA BytesStand ==
  ASSUME NEW k \in Nat, TakenOff(k), i_buffer' = i_buffer, m_offset' = m_offset, m_file' = m_file,
         input' = input, cut' = cut
  PROVE  TakenOff(k)' /\ Iterator!Buffered' = Iterator!Buffered
         /\ Iterator!Current' = Iterator!Current /\ \A i : Iterator!Total(i)' = Iterator!Total(i)
<1>1. Iterator!Bytes' = Iterator!Bytes /\ Place(input, k)' = Place(input, k)
  BY InputStands
<1>2. Iterator!Buffered' = Iterator!Buffered /\ Left' = Left /\ Iterator!Current' = Iterator!Current
      /\ \A i : Iterator!Total(i)' = Iterator!Total(i)
  BY DEF Iterator!Buffered, Left, Iterator!NoFile, Iterator!Current, Iterator!Total,
    Iterator!FRAME_HEADER_LEN
<1> QED
  BY <1>1, <1>2 DEF TakenOff

LEMMA FaithfulStands ==
  ASSUME NEW k \in Nat, UNCHANGED Iterator!config, raised' = raised, yielded' = yielded,
         m_stopped' = m_stopped, i_pc' = i_pc, ended' = ended, ~Excused => Faithful(k),
         resumes' = resumes, failures' = failures
  PROVE  (~Excused => Faithful(k))'
<1>1. Excused' = Excused /\ HiddenStop' = HiddenStop
  BY DEF Excused, HiddenStop, Iterator!config
<1>2. Faithful(k)' = Faithful(k)
  BY <1>1, FeedStands DEF Faithful
<1> QED
  BY <1>1, <1>2

\* An exception that ends the iteration comes when every frame wanted is passed.
LEMMA EndRaised ==
  ASSUME Iterating, NEW k \in Nat, NEW what \in {"StopIteration", "ValueError"},
         Iterator!Raise(what), i_pc \in {"header", "body", "decode"},
         ~Excused => Faithful(k) /\ k = Iterator!LastFrame
  PROVE  (~Excused => Faithful(k))'
<1>1. /\ UNCHANGED Iterator!config /\ i_pc' = "idle" /\ raised' = what /\ m_stopped' = m_stopped
      /\ ended' = ended /\ resumes' = resumes /\ yielded' = yielded /\ failures' = failures
  BY DEF Iterator!Raise, Iterator!outputs
<1>2. Excused' = Excused
  BY <1>1 DEF Excused, Iterator!config
<1>3. ASSUME ~Excused PROVE Faithful(k)'
  <2>1. Faithful(k) /\ k = Iterator!LastFrame /\ raised = "none" /\ ~HiddenStop
    BY <1>3 DEF Iterating, HiddenStop
  <2>2. /\ k <= Iterator!LastFrame /\ yielded = Iterator!WantedUpTo(input, m_filter)[k]
        /\ k \in Iterator!Stops => m_stopped
    BY <2>1 DEF Faithful
  <2>3. raised' # "undefined"
    BY <1>1
  <2> QED
    BY <1>1, <2>1, <2>2, <2>3, FeedStands DEF Faithful
<1> QED
  BY <1>2, <1>3
-----------------------------------------------------------------------------
(* PyIterator: every action keeps the invariant.                           *)

\* What a step is shown to keep, for the count of frames it leaves consumed.
Iterated(k) == k \in Nat /\ TakenOff(k) /\ (~Excused => Faithful(k))

LEMMA IterationIs ==
  ASSUME NEW k \in Nat, Iterating', Small', (m_saving => saved = yielded)', Iterated(k)'
  PROVE  IterationInv'
  BY DEF IterationInv, Iterated

LEMMA FillsBuffer ==
  ASSUME IterationInv, NEW need \in Nat, NEW then, Iterator!fill_to(need, then),
         \/ i_pc = "header" /\ need = 2 /\ then = "body" /\ ~m_stopped
         \/ i_pc = "body" /\ need = Iterator!Total(Iterator!Current) /\ then = "decode"
  PROVE  IterationInv'
<1>1. /\ Iterating /\ Small /\ (m_saving => saved = yielded)
  BY DEF IterationInv
<1>2. PICK k \in Nat : TakenOff(k) /\ (~Excused => Faithful(k))
  BY DEF IterationInv
<1>3. /\ input \in Seq(Frames) /\ Len(input) \in Nat /\ Len(input) >= 1 /\ m_cachesize \in Nat
      /\ i_pc \in {"header", "body"} /\ then \in {"body", "decode"} /\ raised = "none" /\ cut \in 0 .. 1
  BY <1>1 DEF Iterating
<1>4. PICK i \in 1 .. Len(input) : need <= Iterator!Total(i) /\ Iterator!Total(i) \in Nat
                                   /\ (i_pc = "body" => i = k + 1 /\ need = Size(input, k + 1)
                                                        /\ Iterator!Buffered >= 2)
  <2>1. CASE i_pc = "header"
    <3>1. 1 \in 1 .. Len(input) /\ need = 2
      BY <1>3, <2>1
    <3>2. Size(input, 1) \in Nat /\ Size(input, 1) >= 2 /\ Iterator!Total(1) = Size(input, 1)
      BY <1>3, <3>1, CellsOfFrame DEF Size, Iterator!Total, Iterator!FRAME_HEADER_LEN
    <3> QED
      BY <2>1, <3>1, <3>2
  <2>2. CASE i_pc = "body"
    <3>1. Iterator!Buffered >= 2 /\ Iterator!Buffered \in Nat /\ need = Iterator!Total(Iterator!Current)
      BY <1>1, <2>2 DEF Iterating, Iterator!Buffered
    <3>2. /\ k + 1 \in 1 .. Len(input) /\ Iterator!Current = k + 1 /\ Size(input, k + 1) \in Nat
          /\ Iterator!Total(k + 1) = Size(input, k + 1)
      BY <1>1, <1>2, <3>1, FrameAhead
    <3> QED
      BY <2>2, <3>1, <3>2
  <2> QED
    BY <1>3, <2>1, <2>2
<1>5. Iterator!Buffered \in Nat /\ Len(i_buffer) \in Nat
  BY <1>1 DEF Iterating, Iterator!Buffered
<1>6. ASSUME Iterator!Buffered < need, Left = << >>, ~Excused
      PROVE  Faithful(k) /\ k = Iterator!LastFrame
  <2>1. Iterator!Whole <= k
    <3>1. \/ Iterator!Buffered < 2
          \/ Iterator!Buffered >= 1 /\ Iterator!Buffered < Size(input, k + 1)
      BY <1>3, <1>4, <1>5, <1>6
    <3> QED
      BY <1>1, <1>2, <1>6, <3>1, NoFrameLeft
  <2>2. Faithful(k) /\ k <= Iterator!LastFrame
    BY <1>2, <1>3, <1>6 DEF Faithful
  <2>3. Iterator!LastFrame \in Nat /\ Iterator!Whole \in Nat /\ Iterator!LastFrame <= Iterator!Whole
    BY <1>1, LastFrameIs DEF Iterating
  <2> QED
    BY <2>1, <2>2, <2>3
<1>7. CASE Iterator!Buffered < need /\ m_file # Iterator!NoFile
           /\ \E n \in 1 .. m_cachesize : n <= Len(m_file) /\ Iterator!Refill(n)
  <2>1. PICK n \in 1 .. m_cachesize : n <= Len(m_file) /\ Iterator!Refill(n)
    BY <1>7
  <2>2. /\ TakenOff(k)' /\ i_buffer' \in Seq(Cell) /\ m_offset' = 0 /\ m_file' \in Seq(Cell)
        /\ Len(i_buffer') = Iterator!Buffered + n /\ Iterator!Buffered' = Iterator!Buffered + n
    BY <1>1, <1>2, <1>7, <2>1, Refilled
  <2>3. /\ UNCHANGED Iterator!config /\ UNCHANGED <<m_stopped, i_pc, raised, resumes, ended>>
        /\ yielded' = yielded /\ saved' = saved /\ failures' = failures
    BY <2>1 DEF Iterator!Refill, Iterator!outputs
  <2>4. (~Excused => Faithful(k))'
    BY <1>2, <2>3, FaithfulStands
  <2>5. input' = input /\ cut' = cut /\ m_cachesize' = m_cachesize /\ m_saving' = m_saving
    BY <2>3, FeedStands
  <2>6. Iterating'
    <3>1. Len(i_buffer') \in Nat /\ 0 \in 0 .. Len(i_buffer')
      BY <2>2
    <3>2. i_pc' = "body" => Iterator!Buffered' >= 2
      BY <1>3, <1>4, <1>5, <2>2, <2>3
    <3> QED
      BY <1>1, <1>3, <2>2, <2>3, <2>5, <3>1, <3>2 DEF Iterating
  <2>7. Small'
    <3>1. Iterator!Total(i)' = Iterator!Total(i)
      BY <2>5 DEF Iterator!Total, Iterator!FRAME_HEADER_LEN
    <3>2. Len(i_buffer') <= m_cachesize' + Iterator!Total(i)'
      BY <1>3, <1>4, <1>5, <1>7, <2>1, <2>2, <2>5, <3>1
    <3> QED
      BY <1>4, <2>5, <3>2 DEF Small
  <2> QED
    BY <1>1, <2>2, <2>3, <2>4, <2>5, <2>6, <2>7, IterationIs DEF Iterated
<1>8. CASE Iterator!Buffered < need /\ m_file = Iterator!NoFile
           /\ Iterator!Raise("StopIteration") /\ UNCHANGED <<i_buffer, m_offset>>
  <2>1. /\ UNCHANGED Iterator!config /\ UNCHANGED <<m_stopped, resumes, ended, m_file>>
        /\ i_pc' = "idle" /\ raised' = "StopIteration" /\ i_buffer' = i_buffer /\ m_offset' = m_offset
        /\ yielded' = yielded /\ saved' = saved /\ failures' = failures
    BY <1>8 DEF Iterator!Raise, Iterator!outputs
  <2>2. input' = input /\ cut' = cut /\ m_cachesize' = m_cachesize /\ m_saving' = m_saving
    BY <2>1, FeedStands
  <2>3. TakenOff(k)'
    BY <1>2, <2>1, <2>2, BytesStand
  <2>4. (~Excused => Faithful(k))'
    BY <1>1, <1>2, <1>3, <1>6, <1>8, EndRaised DEF Left
  <2>5. Iterating'
    BY <1>1, <1>3, <2>1, <2>2 DEF Iterating, Iterator!NoFile
  <2>6. Small'
    BY <1>8, <2>1 DEF Small, Iterator!NoFile
  <2> QED
    BY <1>1, <2>1, <2>2, <2>3, <2>4, <2>5, <2>6, IterationIs DEF Iterated
<1>9. CASE Iterator!Buffered < need /\ m_file = << >> /\ Iterator!Raise("StopIteration")
           /\ i_buffer' = Iterator!Compacted /\ m_offset' = Len(i_buffer') - Iterator!Buffered
  <2>1. /\ UNCHANGED Iterator!config /\ UNCHANGED <<m_stopped, resumes, ended, m_file>>
        /\ i_pc' = "idle" /\ raised' = "StopIteration"
        /\ yielded' = yielded /\ saved' = saved /\ failures' = failures
    BY <1>9 DEF Iterator!Raise, Iterator!outputs
  <2>2. input' = input /\ cut' = cut /\ m_cachesize' = m_cachesize /\ m_saving' = m_saving
    BY <2>1, FeedStands
  <2>3. /\ TakenOff(k)' /\ i_buffer' \in Seq(Cell) /\ m_offset' = 0
        /\ Len(i_buffer') = Iterator!Buffered /\ Left = << >>
    BY <1>1, <1>2, <1>9, <2>1, <2>2, RanOut
  <2>4. (~Excused => Faithful(k))'
    BY <1>1, <1>2, <1>3, <1>6, <1>9, <2>3, EndRaised
  <2>5. Iterating'
    <3>1. Len(i_buffer') \in Nat /\ 0 \in 0 .. Len(i_buffer') /\ << >> \in Seq(Cell)
      BY <2>3
    <3> QED
      BY <1>1, <1>3, <1>9, <2>1, <2>2, <2>3, <3>1 DEF Iterating
  <2>6. Small'
    <3>1. Iterator!Total(i)' = Iterator!Total(i)
      BY <2>2 DEF Iterator!Total, Iterator!FRAME_HEADER_LEN
    <3>2. Len(i_buffer') <= m_cachesize' + Iterator!Total(i)'
      BY <1>3, <1>4, <1>5, <1>9, <2>2, <2>3, <3>1
    <3> QED
      BY <1>4, <2>2, <3>2 DEF Small
  <2> QED
    BY <1>1, <2>1, <2>2, <2>3, <2>4, <2>5, <2>6, IterationIs DEF Iterated
<1>10. CASE /\ Iterator!Buffered >= need /\ i_pc' = then
            /\ UNCHANGED <<i_buffer, m_offset, m_stopped, m_file, raised, resumes, ended,
                           Iterator!config, Iterator!outputs>>
  <2>1. /\ UNCHANGED Iterator!config /\ UNCHANGED <<m_stopped, resumes, ended, m_file, raised>>
        /\ i_pc' = then /\ i_buffer' = i_buffer /\ m_offset' = m_offset
        /\ yielded' = yielded /\ saved' = saved /\ failures' = failures
    BY <1>10 DEF Iterator!outputs
  <2>2. input' = input /\ cut' = cut /\ m_cachesize' = m_cachesize /\ m_saving' = m_saving
    BY <2>1, FeedStands
  <2>3. /\ TakenOff(k)' /\ Iterator!Buffered' = Iterator!Buffered
        /\ Iterator!Current' = Iterator!Current /\ \A j : Iterator!Total(j)' = Iterator!Total(j)
    BY <1>2, <2>1, <2>2, BytesStand
  <2>4. (~Excused => Faithful(k))'
    <3>1. Excused' = Excused
      BY <2>1 DEF Excused, Iterator!config
    <3>2. ASSUME ~Excused PROVE Faithful(k)'
      <4>1. Faithful(k) /\ ~HiddenStop
        BY <1>2, <1>3, <3>2 DEF HiddenStop
      <4>2. /\ k <= Iterator!LastFrame /\ yielded = Iterator!WantedUpTo(input, m_filter)[k]
            /\ ~m_stopped /\ (k \in Iterator!Stops => m_stopped)
        BY <1>3, <4>1 DEF Faithful
      <4> QED
        BY <1>3, <2>1, <4>2, FeedStands DEF Faithful
    <3> QED
      BY <3>1, <3>2
  <2>5. Iterating'
    <3>1. Iterator!Buffered' >= 2 /\ (then = "decode" => (Iterator!Buffered >= Iterator!Total(Iterator!Current))')
      <4>1. (Iterator!Total(Iterator!Current))' = Iterator!Total(Iterator!Current)
        BY <2>2, <2>3 DEF Iterator!Total, Iterator!FRAME_HEADER_LEN
      <4> QED
        BY <1>3, <1>4, <1>5, <1>10, <2>3, <4>1
    <3> QED
      BY <1>1, <1>3, <2>1, <2>2, <3>1 DEF Iterating, Iterator!NoFile
  <2>6. Small'
    BY <1>1, <2>1, <2>2, <2>3 DEF Small, Iterator!NoFile
  <2> QED
    BY <1>1, <2>1, <2>2, <2>3, <2>4, <2>5, <2>6, IterationIs DEF Iterated
<1> QED
  BY <1>7, <1>8, <1>9, <1>10 DEF Iterator!fill_to
LEMMA IteratorReadsHeader ==
  ASSUME IterationInv, Iterator!ReadHeader
  PROVE  IterationInv'
<1>1. i_pc = "header"
  BY DEF Iterator!ReadHeader
<1>2. CASE m_stopped /\ Iterator!Raise("StopIteration") /\ UNCHANGED <<i_buffer, m_offset>>
  <2>1. /\ Iterating /\ Small /\ (m_saving => saved = yielded) /\ raised = "none"
    BY <1>1 DEF IterationInv, Iterating
  <2>2. PICK k \in Nat : TakenOff(k) /\ (~Excused => Faithful(k))
    BY DEF IterationInv
  <2>3. /\ UNCHANGED Iterator!config /\ UNCHANGED <<m_stopped, resumes, ended, m_file>>
        /\ i_pc' = "idle" /\ raised' = "StopIteration" /\ i_buffer' = i_buffer /\ m_offset' = m_offset
        /\ yielded' = yielded /\ saved' = saved /\ failures' = failures
    BY <1>2 DEF Iterator!Raise, Iterator!outputs
  <2>4. input' = input /\ cut' = cut /\ m_cachesize' = m_cachesize /\ m_saving' = m_saving
    BY <2>3, FeedStands
  <2>5. /\ TakenOff(k)' /\ \A j : Iterator!Total(j)' = Iterator!Total(j)
    BY <2>2, <2>3, <2>4, BytesStand
  <2>6. (~Excused => Faithful(k))'
    <3>1. ~Excused => Faithful(k) /\ k = Iterator!LastFrame
      BY <1>2, <2>1, <2>2 DEF Faithful
    <3> QED
      BY <1>1, <1>2, <2>1, <2>2, <3>1, EndRaised
  <2>7. Iterating'
    BY <1>1, <2>1, <2>3, <2>4 DEF Iterating, Iterator!NoFile
  <2>8. Small'
    BY <2>1, <2>3, <2>4, <2>5 DEF Small, Iterator!NoFile
  <2> QED
    BY <2>1, <2>2, <2>3, <2>4, <2>5, <2>6, <2>7, <2>8, IterationIs DEF Iterated
<1>3. CASE ~m_stopped /\ Iterator!fill_to(Iterator!FRAME_HEADER_LEN, "body")
  <2>1. Iterator!FRAME_HEADER_LEN = 2 /\ 2 \in Nat
    BY DEF Iterator!FRAME_HEADER_LEN
  <2>2. Iterator!fill_to(2, "body")
    BY <1>3 DEF Iterator!FRAME_HEADER_LEN
  <2> QED
    BY <1>1, <1>3, <2>1, <2>2, FillsBuffer
<1> QED
  BY <1>2, <1>3 DEF Iterator!ReadHeader

LEMMA IteratorReadsBody ==
  ASSUME IterationInv, Iterator!ReadBody
  PROVE  IterationInv'
<1>1. i_pc = "body" /\ Iterator!fill_to(Iterator!Total(Iterator!Current), "decode")
  BY DEF Iterator!ReadBody
<1>2. Iterating /\ Iterator!Buffered \in Nat /\ Iterator!Buffered >= 2
  BY <1>1 DEF IterationInv, Iterating, Iterator!Buffered
<1>3. PICK k \in Nat : TakenOff(k)
  BY DEF IterationInv
<1>4. Iterator!Total(Iterator!Current) \in Nat
  <2>1. /\ Iterator!Current = k + 1 /\ Size(input, k + 1) \in Nat
        /\ Iterator!Total(k + 1) = Size(input, k + 1)
    BY <1>2, <1>3, FrameAhead
  <2> QED
    BY <2>1
<1> QED
  BY <1>1, <1>4, FillsBuffer

LEMMA IteratorIsAsked ==
  ASSUME IterationInv, Iterator!next
  PROVE  IterationInv'
<1>1. /\ Iterating /\ Small /\ (m_saving => saved = yielded)
  BY DEF IterationInv
<1>2. PICK k \in Nat : TakenOff(k) /\ (~Excused => Faithful(k))
  BY DEF IterationInv
<1>3. /\ UNCHANGED Iterator!config /\ UNCHANGED <<m_stopped, ended, m_file>>
      /\ i_pc = "idle" /\ i_pc' = "header" /\ raised' = "none"
      /\ i_buffer' = i_buffer /\ m_offset' = m_offset
      /\ resumes' = (IF raised # "none" THEN resumes + 1 ELSE resumes)
      /\ (raised # "none" => resumes < MaxResumes)
      /\ yielded' = yielded /\ saved' = saved /\ failures' = failures
  BY DEF Iterator!next, Iterator!outputs
<1>4. input' = input /\ cut' = cut /\ m_cachesize' = m_cachesize /\ m_saving' = m_saving
      /\ m_filter' = m_filter
  BY <1>3, FeedStands
<1>5. /\ TakenOff(k)' /\ \A j : Iterator!Total(j)' = Iterator!Total(j)
  BY <1>2, <1>3, <1>4, BytesStand
<1>6. raised # "undefined" /\ resumes \in Nat /\ resumes' \in 0 .. MaxResumes
  BY <1>1, <1>3, IterationAssumption DEF Iterating
<1>7. (~Excused => Faithful(k))'
  <2>1. ASSUME ~Excused' PROVE ~Excused /\ ~HiddenStop
    <3>1. CASE raised = "none"
      BY <1>3, <1>4, <2>1, <3>1 DEF Excused, HiddenStop
    <3>2. CASE raised # "none"
      <4>1. resumes' > 0
        BY <1>3, <1>6, <3>2
      <4> QED
        BY <1>3, <1>4, <2>1, <4>1 DEF Excused, HiddenStop
    <3> QED
      BY <3>1, <3>2
  <2>2. ASSUME ~Excused' PROVE Faithful(k)'
    <3>1. Faithful(k) /\ ~HiddenStop
      BY <1>2, <2>1, <2>2
    <3>2. /\ k <= Iterator!LastFrame /\ yielded = Iterator!WantedUpTo(input, m_filter)[k]
          /\ m_stopped => k = Iterator!LastFrame
          /\ k \in Iterator!Stops => m_stopped
      BY <1>6, <3>1 DEF Faithful
    <3> QED
      BY <1>3, <3>2, FeedStands DEF Faithful
  <2> QED
    BY <2>2
<1>8. Iterating'
  BY <1>1, <1>3, <1>4, <1>6 DEF Iterating, Iterator!NoFile
<1>9. Small'
  BY <1>1, <1>3, <1>4, <1>5 DEF Small, Iterator!NoFile
<1> QED
  BY <1>1, <1>2, <1>3, <1>4, <1>5, <1>7, <1>8, <1>9, IterationIs DEF Iterated

LEMMA IteratorOpens ==
  ASSUME IterationInv, Iterator!Open
  PROVE  IterationInv'
<1>1. /\ Iterating /\ i_pc = "new" /\ i_buffer = << >> /\ m_offset = 0 /\ m_file = Iterator!NoFile
      /\ yielded = << >> /\ saved = << >> /\ raised = "none" /\ ~m_stopped
      /\ resumes \in 0 .. MaxResumes /\ failures \in Nat
  BY DEF IterationInv, Iterating, Iterator!Open
<1>2. /\ UNCHANGED <<m_offset, m_stopped, raised, resumes, ended>> /\ i_pc' = "idle"
      /\ yielded' = yielded /\ saved' = saved /\ failures' = failures
      /\ cut' \in 0 .. 1 /\ m_cachesize' \in CacheSizes
      /\ \/ m_file' = m_file /\ i_buffer' = Iterator!Bytes'
         \/ i_buffer' = i_buffer /\ m_file' = Iterator!Bytes'
  BY DEF Iterator!Open, Iterator!outputs
<1>3. PICK n \in 1 .. MaxInput : input' \in [1 .. n -> Frames]
  BY DEF Iterator!Open
<1>4. n \in Nat /\ n >= 1 /\ input' \in Seq(Frames) /\ Len(input') = n /\ m_cachesize' \in Nat
  BY <1>2, <1>3, IterationAssumption
<1> DEFINE B == Iterator!Bytes'
<1>5. B \in Seq(Cell) /\ Len(B) = Place(input', Len(input')) - cut'
  <2>1. B = Shorn(input', cut')
    BY DEF Iterator!Bytes, Shorn, Iterator!AllCells, Iterator!Cells, Iterator!CellsOf,
      Iterator!FRAME_HEADER_LEN
  <2>2. input' \in Seq(Frames) /\ cut' \in 0 .. 1 /\ Len(input') >= 1
    BY <1>2, <1>4
  <2> HIDE DEF B
  <2> QED
    BY <2>1, <2>2, BytesShorn
<1>6. /\ Place(input, 0)' = 0 /\ Len(B) \in Nat
      /\ Left' = (IF m_file' = Iterator!NoFile THEN << >> ELSE m_file')
      /\ Iterator!Buffered' = Len(i_buffer')
  <2>1. Place(input, 0)' = Place(input', 0)
    BY DEF Place, Iterator!Cells, Iterator!CellsOf, Iterator!FRAME_HEADER_LEN
  <2>2. Place(input', 0) = 0
    BY <1>4, CellsHold
  <2>3. Len(B) \in Nat
    BY <1>5
  <2>4. /\ Left' = (IF m_file' = Iterator!NoFile THEN << >> ELSE m_file')
        /\ Iterator!Buffered' = Len(i_buffer') - m_offset'
    BY DEF Left, Iterator!NoFile, Iterator!Buffered
  <2>5. m_offset' = 0 /\ Len(i_buffer') \in Nat
    BY <1>1, <1>2, <2>3
  <2> QED
    BY <2>1, <2>2, <2>3, <2>4, <2>5
<1> HIDE DEF B
<1>7. (TakenOff(0))' = (/\ 0 \in 0 .. Len(input')
                        /\ Iterator!Buffered' + Len(Left') = Len(B) - Place(input, 0)'
                        /\ \A j \in 1 .. Iterator!Buffered' :
                             i_buffer'[m_offset' + j] = B[Place(input, 0)' + j]
                        /\ \A j \in 1 .. Len(Left') :
                             Left'[j] = B[Place(input, 0)' + Iterator!Buffered' + j])
  BY DEF TakenOff, B
<1>8. TakenOff(0)' /\ i_buffer' \in Seq(Cell) /\ (m_file' = Iterator!NoFile \/ m_file' \in Seq(Cell))
      /\ (m_file' # Iterator!NoFile => i_buffer' = << >>)
  <2>1. CASE m_file' = m_file /\ i_buffer' = Iterator!Bytes'
    <3>1. Left' = << >> /\ Len(Left') = 0 /\ i_buffer' = B /\ m_file' = Iterator!NoFile
      BY <1>1, <1>6, <2>1 DEF B
    <3>2. /\ 0 \in 0 .. Len(input') /\ Iterator!Buffered' = Len(B) /\ m_offset' = 0
          /\ \A j \in 1 .. Len(B) : 0 + j = j
      BY <1>1, <1>2, <1>4, <1>6, <3>1
    <3>3. Len(B) + 0 = Len(B) - 0 /\ 1 .. 0 = {}
      BY <1>6
    <3>4. TakenOff(0)'
      BY <1>6, <1>7, <3>1, <3>2, <3>3
    <3> QED
      BY <1>5, <3>1, <3>4
  <2>2. CASE i_buffer' = i_buffer /\ m_file' = Iterator!Bytes'
    <3>1. m_file' = B /\ B # Iterator!NoFile /\ i_buffer' = << >> /\ << >> \in Seq(Cell)
      BY <1>1, <1>5, <2>2, FilesDiffer DEF B
    <3>2. Left' = B /\ Len(i_buffer') = 0
      BY <1>6, <3>1
    <3>3. /\ 0 \in 0 .. Len(input') /\ Iterator!Buffered' = 0 /\ m_offset' = 0
          /\ \A j \in 1 .. Len(B) : 0 + 0 + j = j
      BY <1>1, <1>2, <1>4, <1>6, <3>2
    <3>4. 0 + Len(B) = Len(B) - 0 /\ 1 .. 0 = {}
      BY <1>6
    <3>5. TakenOff(0)'
      BY <1>6, <1>7, <3>2, <3>3, <3>4
    <3> QED
      BY <1>5, <3>1, <3>5
  <2> QED
    BY <1>2, <2>1, <2>2
<1>9. Iterating'
  <2>1. Len(i_buffer') \in Nat
    BY <1>8
  <2> QED
    BY <1>1, <1>2, <1>4, <1>8, <2>1 DEF Iterating, Iterator!NoFile
<1>10. Small'
  <2>1. 1 \in 1 .. Len(input') /\ Iterator!Total(1)' = Size(input', 1)
    BY <1>4 DEF Iterator!Total, Iterator!FRAME_HEADER_LEN, Size
  <2>2. Size(input', 1) \in Nat
    BY <1>4, <2>1, CellsOfFrame
  <2>3. m_file' # Iterator!NoFile => Len(i_buffer') <= m_cachesize' + Iterator!Total(1)'
    BY <1>4, <1>8, <2>1, <2>2
  <2> QED
    BY <2>1, <2>3 DEF Small, Iterator!NoFile
<1>11. Faithful(0)'
  <2>1. /\ Iterator!Whole' \in 0 .. n /\ Iterator!Stops' \subseteq 1 .. n /\ Iterator!Bad' \subseteq 1 .. n
        /\ Iterator!LastFrame' = Iterator!Min(EndsAt(Iterator!Whole', Iterator!Stops', Iterator!Bad'))
    <3>1. Iterator!Whole' \in 0 .. n
      BY <1>2, <1>4 DEF Iterator!Whole
    <3>2. Iterator!Stops' \subseteq 1 .. n /\ Iterator!Bad' \subseteq 1 .. n
      BY <1>4 DEF Iterator!Stops, Iterator!Bad
    <3>3. Iterator!LastFrame' = Iterator!Min(EndsAt(Iterator!Whole', Iterator!Stops', Iterator!Bad'))
      BY DEF Iterator!LastFrame, Iterator!Min, EndsAt
    <3> QED
      BY <3>1, <3>2, <3>3
  <2>2. Iterator!LastFrame' \in 0 .. n
    <3>1. Earliest(Iterator!LastFrame', n, Iterator!Whole', Iterator!Stops', Iterator!Bad')
      BY <1>4, <2>1, EarliestEnd
    <3> QED
      BY <3>1 DEF Earliest
  <2>3. Iterator!WantedUpTo(input, m_filter)'[0] = << >>
    <3>1. Iterator!WantedUpTo(input, m_filter)' = Iterator!WantedUpTo(input', m_filter')
      BY DEF Iterator!WantedUpTo
    <3> QED
      BY <1>4, <3>1, WantedAre
  <2>4. 0 \notin Iterator!Stops'
    BY <2>1
  <2>5. yielded' = << >> /\ raised' = "none" /\ ~m_stopped' /\ i_pc' = "idle"
    BY <1>1, <1>2
  <2>6. 0 <= Iterator!LastFrame'
    BY <2>2
  <2> QED
    BY <2>3, <2>4, <2>5, <2>6 DEF Faithful
<1> QED
  BY <1>1, <1>2, <1>8, <1>9, <1>10, <1>11, IterationIs DEF Iterated
\* A frame about to be decoded is whole in the buffer.
LEMMA FrameDecodable ==
  ASSUME Iterating, NEW k \in Nat, TakenOff(k), i_pc = "decode"
  PROVE  /\ k + 1 \in 1 .. Len(input) /\ Iterator!Current = k + 1 /\ k + 1 <= Iterator!Whole
         /\ Iterator!Buffered >= 2 /\ Iterator!Buffered >= Iterator!Total(Iterator!Current)
         /\ Iterator!type_byte \notin ALL_MESSAGES => k + 1 \in Iterator!Bad
         /\ Iterator!type_byte \in ALL_MESSAGES =>
              /\ Iterator!type_byte = input[k + 1].type
              /\ k + 1 \in Iterator!Bad <=> Iterator!Undefined
              /\ k + 1 \in Iterator!Stops <=> Iterator!is_stop
              /\ Iterator!kept <=> input[k + 1].type \in m_filter
<1>1. /\ Iterator!Buffered >= 2 /\ Iterator!Buffered >= Iterator!Total(Iterator!Current)
      /\ Iterator!Buffered \in Nat
  BY DEF Iterating, Iterator!Buffered
<1>2. /\ k + 1 \in 1 .. Len(input) /\ Iterator!Current = k + 1 /\ input[k + 1].body \in Nat
      /\ Iterator!Total(k + 1) = Size(input, k + 1)
  BY <1>1, FrameAhead
<1>3. k + 1 <= Iterator!Whole
  BY <1>1, <1>2, FrameWhole
<1>4. Iterator!type_byte = IF input[k + 1].body = 0 THEN "\\0" ELSE input[k + 1].type
  BY <1>2 DEF Iterator!type_byte
<1>5. ASSUME Iterator!type_byte \notin ALL_MESSAGES PROVE k + 1 \in Iterator!Bad
  BY <1>2, <1>4, <1>5 DEF Iterator!Bad, Iterator!Known
<1>6. ASSUME Iterator!type_byte \in ALL_MESSAGES
      PROVE  /\ Iterator!type_byte = input[k + 1].type
             /\ k + 1 \in Iterator!Bad <=> Iterator!Undefined
             /\ k + 1 \in Iterator!Stops <=> Iterator!is_stop
             /\ Iterator!kept <=> input[k + 1].type \in m_filter
  <2>1. input[k + 1].body > 0 /\ Iterator!type_byte = input[k + 1].type
    BY <1>2, <1>4, <1>6, IterationAssumption
  <2>2. Iterator!Known(input[k + 1])
    BY <1>6, <2>1 DEF Iterator!Known
  <2>3. k + 1 \in Iterator!Bad <=> Iterator!Crashes(input[k + 1])
    BY <1>2, <2>2 DEF Iterator!Bad
  <2>4. Iterator!Crashes(input[k + 1]) <=> Iterator!Undefined
    BY <1>2, <2>1 DEF Iterator!Crashes, Iterator!Undefined, Iterator!kept
  <2>5. k + 1 \in Iterator!Stops <=> Iterator!is_stop
    BY <1>2, <2>1 DEF Iterator!Stops, Iterator!IsStop, Iterator!is_stop
  <2> QED
    BY <2>1, <2>3, <2>4, <2>5 DEF Iterator!kept
<1> QED
  BY <1>1, <1>2, <1>3, <1>5, <1>6

LEMMA IteratorRejects ==
  ASSUME IterationInv, Iterator!RejectFrame
  PROVE  IterationInv'
<1>1. /\ Iterating /\ Small /\ (m_saving => saved = yielded)
  BY DEF IterationInv
<1>2. PICK k \in Nat : TakenOff(k) /\ (~Excused => Faithful(k))
  BY DEF IterationInv
<1>3. /\ i_pc = "decode" /\ Iterator!type_byte \notin ALL_MESSAGES /\ Iterator!Raise("ValueError")
      /\ i_buffer' = i_buffer /\ m_offset' = m_offset
  BY DEF Iterator!RejectFrame
<1>4. /\ UNCHANGED Iterator!config /\ UNCHANGED <<m_stopped, resumes, ended, m_file>>
      /\ i_pc' = "idle" /\ raised' = "ValueError"
      /\ yielded' = yielded /\ saved' = saved /\ failures' = failures
  BY <1>3 DEF Iterator!Raise, Iterator!outputs
<1>5. input' = input /\ cut' = cut /\ m_cachesize' = m_cachesize /\ m_saving' = m_saving
  BY <1>4, FeedStands
<1>6. /\ TakenOff(k)' /\ \A j : Iterator!Total(j)' = Iterator!Total(j)
  BY <1>2, <1>3, <1>4, <1>5, BytesStand
<1>7. (~Excused => Faithful(k))'
  <2>1. ASSUME ~Excused PROVE Faithful(k) /\ k = Iterator!LastFrame
    <3>1. k + 1 \in Iterator!Bad
      BY <1>1, <1>2, <1>3, FrameDecodable
    <3>2. Iterator!LastFrame <= (k + 1) - 1 /\ Iterator!LastFrame \in Nat
      BY <1>1, <3>1, LastFrameIs DEF Iterating
    <3>3. Faithful(k) /\ k <= Iterator!LastFrame
      BY <1>1, <1>2, <1>3, <2>1 DEF Faithful, Iterating
    <3> QED
      BY <3>2, <3>3
  <2> QED
    BY <1>1, <1>2, <1>3, <2>1, EndRaised
<1>8. Iterating'
  BY <1>1, <1>3, <1>4, <1>5 DEF Iterating, Iterator!NoFile
<1>9. Small'
  BY <1>1, <1>3, <1>4, <1>5, <1>6 DEF Small, Iterator!NoFile
<1> QED
  BY <1>1, <1>2, <1>4, <1>5, <1>6, <1>7, <1>8, <1>9, IterationIs DEF Iterated

LEMMA IteratorCrashes ==
  ASSUME IterationInv, Iterator!DecodeShort
  PROVE  IterationInv'
<1>1. /\ Iterating /\ Small /\ (m_saving => saved = yielded)
  BY DEF IterationInv
<1>2. PICK k \in Nat : TakenOff(k) /\ (~Excused => Faithful(k))
  BY DEF IterationInv
<1>3. /\ i_pc = "decode" /\ Iterator!type_byte \in ALL_MESSAGES /\ Iterator!Undefined
      /\ Iterator!Consume /\ i_pc' = "idle" /\ raised' = "undefined" /\ resumes' = MaxResumes
      /\ i_buffer' = i_buffer /\ UNCHANGED Iterator!config /\ UNCHANGED <<m_stopped, m_file, ended>>
      /\ yielded' = yielded /\ saved' = saved /\ failures' = failures
  BY DEF Iterator!DecodeShort, Iterator!outputs
<1>4. input' = input /\ cut' = cut /\ m_cachesize' = m_cachesize /\ m_saving' = m_saving
      /\ m_filter' = m_filter
  BY <1>3, FeedStands
<1>5. /\ k + 1 \in 1 .. Len(input) /\ k + 1 \in Iterator!Bad
      /\ Iterator!Buffered >= 2 /\ Iterator!Buffered >= Iterator!Total(Iterator!Current)
  BY <1>1, <1>2, <1>3, FrameDecodable
<1>6. TakenOff(k + 1)' /\ m_offset' \in 0 .. Len(i_buffer)
  BY <1>1, <1>2, <1>3, <1>4, <1>5, FrameConsumed
<1>7. ASSUME ~Excused' PROVE Faithful(k + 1)'
  <2>1. ~Excused
    <3>1. resumes \in 0 .. MaxResumes /\ MaxResumes \in Nat
      BY <1>1, IterationAssumption DEF Iterating
    <3>2. resumes > 0 => resumes' > 0
      BY <1>3, <3>1
    <3> QED
      BY <1>3, <1>4, <1>7, <3>2 DEF Excused
  <2>2. Faithful(k) /\ k <= Iterator!LastFrame /\ yielded = Iterator!WantedUpTo(input, m_filter)[k]
    BY <1>1, <1>2, <1>3, <2>1 DEF Faithful, Iterating
  <2>3. Iterator!LastFrame <= (k + 1) - 1 /\ Iterator!LastFrame \in Nat
    BY <1>1, <1>5, LastFrameIs DEF Iterating
  <2>4. k = Iterator!LastFrame
    BY <2>2, <2>3
  <2>5. yielded = Iterator!Wanted
    BY <2>2, <2>4 DEF Iterator!Wanted
  <2> QED
    BY <1>3, <2>5, FeedStands DEF Faithful
<1>8. Iterating'
  <2>1. MaxResumes \in 0 .. MaxResumes /\ MaxResumes \in Nat
    BY IterationAssumption
  <2> QED
    BY <1>1, <1>3, <1>4, <1>6, <2>1 DEF Iterating, Iterator!NoFile
<1>9. Small'
  <2>1. \A j : Iterator!Total(j)' = Iterator!Total(j)
    BY <1>4 DEF Iterator!Total, Iterator!FRAME_HEADER_LEN
  <2> QED
    BY <1>1, <1>3, <1>4, <2>1 DEF Small, Iterator!NoFile
<1>10. k + 1 \in Nat
  OBVIOUS
<1> QED
  BY <1>1, <1>3, <1>4, <1>6, <1>7, <1>8, <1>9, <1>10, IterationIs DEF Iterated
\* A frame that is decoded is one of those up to the last frame, and the stop event is it.
LEMMA FrameDecoded ==
  ASSUME Iterating, NEW k \in Nat, TakenOff(k), Faithful(k), i_pc = "decode",
         Iterator!type_byte \in ALL_MESSAGES, ~Iterator!Undefined
  PROVE  /\ k + 1 <= Iterator!LastFrame /\ (Iterator!is_stop => k + 1 = Iterator!LastFrame)
         /\ yielded = Iterator!WantedUpTo(input, m_filter)[k]
         /\ Iterator!WantedUpTo(input, m_filter)[k + 1] =
              IF Iterator!kept THEN Append(yielded, k + 1) ELSE yielded
         /\ ~m_stopped
<1>1. /\ k + 1 \in 1 .. Len(input) /\ k + 1 <= Iterator!Whole
      /\ k + 1 \notin Iterator!Bad /\ (k + 1 \in Iterator!Stops <=> Iterator!is_stop)
      /\ (Iterator!kept <=> input[k + 1].type \in m_filter)
  BY FrameDecodable
<1>2. /\ k <= Iterator!LastFrame /\ yielded = Iterator!WantedUpTo(input, m_filter)[k]
      /\ ~m_stopped /\ k \notin Iterator!Stops
  BY DEF Faithful, Iterating, HiddenStop
<1>3. /\ Iterator!LastFrame \in 0 .. Len(input) /\ Iterator!Whole \in 0 .. Len(input)
      /\ \A i \in Iterator!Stops : Iterator!LastFrame <= i
      /\ \/ Iterator!LastFrame = Iterator!Whole \/ Iterator!LastFrame \in Iterator!Stops
         \/ Iterator!LastFrame + 1 \in Iterator!Bad
  BY LastFrameIs DEF Iterating
<1>4. k # Iterator!LastFrame
  BY <1>1, <1>2, <1>3
<1>5. k + 1 <= Iterator!LastFrame
  BY <1>2, <1>3, <1>4
<1>6. Iterator!is_stop => k + 1 = Iterator!LastFrame
  BY <1>1, <1>3, <1>5
<1>7. Iterator!WantedUpTo(input, m_filter)[k + 1] =
        IF input[k + 1].type \in m_filter THEN Append(yielded, k + 1) ELSE yielded
  <2>1. Len(input) \in Nat /\ (k + 1) - 1 = k
    BY DEF Iterating
  <2> QED
    BY <1>1, <1>2, <2>1, WantedAre
<1> QED
  BY <1>1, <1>2, <1>5, <1>6, <1>7

\* What the three actions on a decoded frame have in common.
LEMMA FramePassed ==
  ASSUME IterationInv, NEW k \in Nat, TakenOff(k), ~Excused => Faithful(k), Iterator!Decoded,
         i_buffer' = i_buffer, UNCHANGED Iterator!config, UNCHANGED <<m_file, resumes>>,
         failures' \in Nat, i_pc' \in {"idle", "header"},
         raised' \in {"none", "StopIteration", "write"}, i_pc' = "header" => raised' = "none",
         m_stopped' \in BOOLEAN
  PROVE  TakenOff(k + 1)' /\ Iterating' /\ Small' /\ raised = "none" /\ i_pc = "decode"
<1>1. /\ Iterating /\ Small /\ (m_saving => saved = yielded)
  BY DEF IterationInv
<1>2. /\ i_pc = "decode" /\ Iterator!type_byte \in ALL_MESSAGES /\ ~Iterator!Undefined
      /\ Iterator!Consume
  BY DEF Iterator!Decoded
<1>3. input' = input /\ cut' = cut /\ m_cachesize' = m_cachesize /\ m_saving' = m_saving
  BY FeedStands
<1>4. /\ k + 1 \in 1 .. Len(input)
      /\ Iterator!Buffered >= 2 /\ Iterator!Buffered >= Iterator!Total(Iterator!Current)
  BY <1>1, <1>2, FrameDecodable
<1>5. TakenOff(k + 1)' /\ m_offset' \in 0 .. Len(i_buffer)
  BY <1>1, <1>2, <1>3, <1>4, FrameConsumed
<1>6. Iterating'
  BY <1>1, <1>2, <1>3, <1>5 DEF Iterating, Iterator!NoFile
<1>7. Small'
  <2>1. \A j : Iterator!Total(j)' = Iterator!Total(j)
    BY <1>3 DEF Iterator!Total, Iterator!FRAME_HEADER_LEN
  <2> QED
    BY <1>1, <1>3, <2>1 DEF Small, Iterator!NoFile
<1> QED
  BY <1>1, <1>2, <1>5, <1>6, <1>7 DEF Iterating

LEMMA IteratorYields ==
  ASSUME IterationInv, Iterator!Yield
  PROVE  IterationInv'
<1>1. PICK k \in Nat : TakenOff(k) /\ (~Excused => Faithful(k))
  BY DEF IterationInv
<1>2. /\ Iterator!Decoded /\ Iterator!kept /\ UNCHANGED Iterator!config
      /\ saved' = (IF m_saving THEN Append(saved, Iterator!Current) ELSE saved)
      /\ m_stopped' = (m_stopped \/ Iterator!is_stop)
      /\ yielded' = Append(yielded, Iterator!Current)
      /\ i_pc' = "idle" /\ i_buffer' = i_buffer
      /\ UNCHANGED <<m_file, raised, resumes, failures>>
      /\ i_pc = "decode" /\ Iterator!type_byte \in ALL_MESSAGES /\ ~Iterator!Undefined
      /\ ended' = (ended \/ Iterator!is_stop)
  BY DEF Iterator!Yield, Iterator!Decoded, Iterator!StoppedAfter
<1>3. /\ Iterating /\ raised = "none" /\ failures \in Nat /\ (m_saving => saved = yielded)
      /\ m_stopped \in BOOLEAN
  BY <1>2 DEF IterationInv, Iterating
<1>4. TakenOff(k + 1)' /\ Iterating' /\ Small'
  <2>1. m_stopped' \in BOOLEAN
    BY <1>2, <1>3
  <2> QED
    BY <1>1, <1>2, <1>3, <2>1, FramePassed
<1>5. m_saving' = m_saving /\ m_filter' = m_filter
  BY <1>2, FeedStands
<1>6. (m_saving => saved = yielded)'
  BY <1>2, <1>3, <1>5
<1>7. ASSUME ~Excused' PROVE Faithful(k + 1)'
  <2>1. ~Excused
    BY <1>2, <1>5, <1>7 DEF Excused
  <2>2. /\ k + 1 <= Iterator!LastFrame /\ (Iterator!is_stop => k + 1 = Iterator!LastFrame)
        /\ Iterator!WantedUpTo(input, m_filter)[k + 1] = Append(yielded, k + 1)
        /\ ~m_stopped
    BY <1>1, <1>2, <1>3, <2>1, FrameDecoded
  <2>3. Iterator!Current = k + 1 /\ (k + 1 \in Iterator!Stops <=> Iterator!is_stop)
    BY <1>1, <1>2, <1>3, FrameDecodable
  <2> QED
    BY <1>2, <1>3, <2>2, <2>3, FeedStands DEF Faithful
<1>8. k + 1 \in Nat
  OBVIOUS
<1> QED
  BY <1>4, <1>6, <1>7, <1>8, IterationIs DEF Iterated

LEMMA IteratorSaveFails ==
  ASSUME IterationInv, Iterator!SaveFails
  PROVE  IterationInv'
<1>1. PICK k \in Nat : TakenOff(k) /\ (~Excused => Faithful(k))
  BY DEF IterationInv
<1>2. /\ Iterator!Decoded /\ UNCHANGED Iterator!config /\ failures' = failures + 1
      /\ i_pc' = "idle" /\ raised' = "write" /\ i_buffer' = i_buffer
      /\ UNCHANGED <<m_file, resumes, m_stopped>> /\ saved' = saved /\ yielded' = yielded
  BY DEF Iterator!SaveFails
<1>3. failures \in Nat /\ (m_saving => saved = yielded) /\ m_stopped \in BOOLEAN
  BY DEF IterationInv, Iterating
<1>4. TakenOff(k + 1)' /\ Iterating' /\ Small'
  <2>1. failures' \in Nat /\ m_stopped' \in BOOLEAN
    BY <1>2, <1>3
  <2> QED
    BY <1>1, <1>2, <2>1, FramePassed
<1>5. (m_saving => saved = yielded)'
  BY <1>2, <1>3, FeedStands
<1>6. Excused'
  BY <1>2, <1>3 DEF Excused
<1>7. k + 1 \in Nat
  OBVIOUS
<1> QED
  BY <1>4, <1>5, <1>6, <1>7, IterationIs DEF Iterated

LEMMA IteratorSkips ==
  ASSUME IterationInv, Iterator!Skip
  PROVE  IterationInv'
<1>1. PICK k \in Nat : TakenOff(k) /\ (~Excused => Faithful(k))
  BY DEF IterationInv
<1>2. /\ Iterator!Decoded /\ ~Iterator!kept /\ UNCHANGED Iterator!config
      /\ i_buffer' = i_buffer /\ UNCHANGED <<m_stopped, m_file, resumes>>
      /\ saved' = saved /\ yielded' = yielded /\ failures' = failures
      /\ Iterator!is_stop => i_pc' = "idle" /\ raised' = "StopIteration"
      /\ ~Iterator!is_stop => i_pc' = "header" /\ raised' = raised
      /\ i_pc = "decode" /\ Iterator!type_byte \in ALL_MESSAGES /\ ~Iterator!Undefined
      /\ ended' = (ended \/ Iterator!is_stop)
  BY DEF Iterator!Skip, Iterator!Decoded, Iterator!outputs
<1>3. /\ Iterating /\ raised = "none" /\ failures \in Nat /\ (m_saving => saved = yielded)
      /\ m_stopped \in BOOLEAN
  BY <1>2 DEF IterationInv, Iterating
<1>4. TakenOff(k + 1)' /\ Iterating' /\ Small'
  <2>1. failures' \in Nat /\ m_stopped' \in BOOLEAN /\ i_pc' \in {"idle", "header"}
        /\ raised' \in {"none", "StopIteration", "write"} /\ (i_pc' = "header" => raised' = "none")
    BY <1>2, <1>3
  <2> QED
    BY <1>1, <1>2, <2>1, FramePassed
<1>5. m_saving' = m_saving /\ m_filter' = m_filter
  BY <1>2, FeedStands
<1>6. (m_saving => saved = yielded)'
  BY <1>2, <1>3, <1>5
<1>7. ASSUME ~Excused' PROVE Faithful(k + 1)'
  <2>1. ~Excused
    BY <1>2, <1>5, <1>7 DEF Excused
  <2>2. /\ k + 1 <= Iterator!LastFrame /\ (Iterator!is_stop => k + 1 = Iterator!LastFrame)
        /\ Iterator!WantedUpTo(input, m_filter)[k + 1] = yielded
        /\ ~m_stopped
    BY <1>1, <1>2, <1>3, <2>1, FrameDecoded
  <2>3. /\ k + 1 \in Iterator!Stops <=> Iterator!is_stop
        /\ Iterator!type_byte = input[k + 1].type /\ (Iterator!kept <=> input[k + 1].type \in m_filter)
    BY <1>1, <1>2, <1>3, FrameDecodable
  <2>4. Iterator!is_stop => HiddenStop'
    BY <1>2, <1>5, <2>3 DEF HiddenStop, Iterator!is_stop
  <2>5. raised' # "undefined" /\ i_pc' \notin {"body", "decode"} /\ ~m_stopped'
        /\ (raised' \in {"StopIteration", "ValueError"} => k + 1 = Iterator!LastFrame)
    BY <1>2, <1>3, <2>2
  <2> QED
    BY <1>2, <2>2, <2>3, <2>4, <2>5, FeedStands DEF Faithful
<1>8. k + 1 \in Nat
  OBVIOUS
<1> QED
  BY <1>4, <1>6, <1>7, <1>8, IterationIs DEF Iterated

LEMMA IteratorRests ==
  ASSUME IterationInv, UNCHANGED Iterator!vars
  PROVE  IterationInv'
<1>1. /\ Iterating /\ Small /\ (m_saving => saved = yielded)
  BY DEF IterationInv
<1>2. PICK k \in Nat : TakenOff(k) /\ (~Excused => Faithful(k))
  BY DEF IterationInv
<1>3. /\ UNCHANGED Iterator!config /\ UNCHANGED <<m_stopped, resumes, ended, m_file, raised>>
      /\ i_pc' = i_pc /\ i_buffer' = i_buffer /\ m_offset' = m_offset
      /\ yielded' = yielded /\ saved' = saved /\ failures' = failures
  BY DEF Iterator!vars, Iterator!outputs
<1>4. input' = input /\ cut' = cut /\ m_cachesize' = m_cachesize /\ m_saving' = m_saving
  BY <1>3, FeedStands
<1>5. /\ TakenOff(k)' /\ Iterator!Buffered' = Iterator!Buffered
      /\ Iterator!Current' = Iterator!Current /\ \A j : Iterator!Total(j)' = Iterator!Total(j)
  BY <1>2, <1>3, <1>4, BytesStand
<1>6. (~Excused => Faithful(k))'
  BY <1>2, <1>3, FaithfulStands
<1>7. Iterating'
  <2>1. (Iterator!Total(Iterator!Current))' = Iterator!Total(Iterator!Current)
    BY <1>4, <1>5 DEF Iterator!Total, Iterator!FRAME_HEADER_LEN
  <2> QED
    BY <1>1, <1>3, <1>4, <1>5, <2>1 DEF Iterating, Iterator!NoFile
<1>8. Small'
  BY <1>1, <1>3, <1>4, <1>5 DEF Small, Iterator!NoFile
<1> QED
  BY <1>1, <1>2, <1>3, <1>4, <1>5, <1>6, <1>7, <1>8, IterationIs DEF Iterated

LEMMA IterationKept ==
  ASSUME IterationInv, [Iterator!Next]_(Iterator!vars)
  PROVE  IterationInv'
<1>1. CASE Iterator!Open
  BY <1>1, IteratorOpens
<1>2. CASE Iterator!next
  BY <1>2, IteratorIsAsked
<1>3. CASE Iterator!ReadHeader
  BY <1>3, IteratorReadsHeader
<1>4. CASE Iterator!ReadBody
  BY <1>4, IteratorReadsBody
<1>5. CASE Iterator!RejectFrame
  BY <1>5, IteratorRejects
<1>6. CASE Iterator!DecodeShort
  BY <1>6, IteratorCrashes
<1>7. CASE Iterator!Yield
  BY <1>7, IteratorYields
<1>8. CASE Iterator!SaveFails
  BY <1>8, IteratorSaveFails
<1>9. CASE Iterator!Skip
  BY <1>9, IteratorSkips
<1>10. CASE UNCHANGED Iterator!vars
  BY <1>10, IteratorRests
<1> QED
  BY <1>1, <1>2, <1>3, <1>4, <1>5, <1>6, <1>7, <1>8, <1>9, <1>10 DEF Iterator!Next, Iterator!Step

LEMMA IterationBegins ==
  ASSUME Iterator!Init
  PROVE  IterationInv
<1>1. /\ i_pc = "new" /\ input = << >> /\ cut = 0 /\ m_filter = {} /\ m_cachesize = 1 /\ m_saving = FALSE
      /\ m_file = Iterator!NoFile /\ i_buffer = << >> /\ m_offset = 0 /\ m_stopped = FALSE
      /\ raised = "none" /\ yielded = << >> /\ saved = << >> /\ failures = 0 /\ resumes = 0
  BY DEF Iterator!Init
<1>2. /\ << >> \in Seq(Frames) /\ Len(<< >>) = 0 /\ << >> \in Seq(Cell) /\ 0 \in 0 .. MaxResumes
      /\ 0 \in 0 .. 0 /\ 0 \in 0 .. 1
  BY IterationAssumption
<1>3. Iterating
  BY <1>1, <1>2 DEF Iterating
<1>4. TakenOff(0)
  <2>1. Place(input, 0) = 0 /\ Place(input, Len(input)) = 0
    BY <1>1, <1>2, CellsHold
  <2>2. Len(Iterator!Bytes) = 0
    BY <1>1, <1>2, <2>1, BytesOfInput
  <2>3. Left = << >> /\ Iterator!Buffered = 0
    BY <1>1, <1>2 DEF Left, Iterator!Buffered
  <2> QED
    BY <1>1, <1>2, <2>1, <2>2, <2>3 DEF TakenOff
<1>5. Faithful(0)
  <2>1. Iterator!LastFrame \in 0 .. Len(input)
    BY <1>1, <1>2, LastFrameIs
  <2>2. 0 <= Iterator!LastFrame
    BY <1>1, <1>2, <2>1
  <2>3. Iterator!WantedUpTo(input, m_filter)[0] = << >>
    BY <1>1, <1>2, WantedAre
  <2>4. 0 \notin Iterator!Stops
    BY <1>1, <1>2 DEF Iterator!Stops
  <2> QED
    BY <1>1, <2>2, <2>3, <2>4 DEF Faithful
<1>6. Small /\ (m_saving => saved = yielded)
  BY <1>1 DEF Small
<1> QED
  BY <1>3, <1>4, <1>5, <1>6 DEF IterationInv

\* MessageIterator::next, whatever the file returns per read: the iterator yields exactly
\* the wanted frames up to the stop event, in order, saves exactly what it yields, and
\* holds no more than an unfinished frame and one chunk.
THEOREM Iteration == Iterator!Spec => []IterationIsExact
<1>1. Iterator!Init => IterationInv
  BY IterationBegins
<1>2. IterationInv /\ [Iterator!Next]_(Iterator!vars) => IterationInv'
  BY IterationKept
<1>3. IterationInv => IterationIsExact
  BY IterationSound
<1> QED
  BY <1>1, <1>2, <1>3, PTL DEF Iterator!Spec
=============================================================================
