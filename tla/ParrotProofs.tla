---------------------------- MODULE ParrotProofs ----------------------------
(***************************************************************************)
(* Proofs about the parrot. First about Conversation, for any guests,      *)
(* chats, rounds and limits; then about ParrotChat, for any posts at once, *)
(* messages, faults and overlaps.                                          *)
(***************************************************************************)
EXTENDS Conversation, ParrotChat, FiniteSetTheorems, SequenceTheorems, WellFoundedInduction, TLAPS

----------------------------------------------------------------------------
(***************************************************************************)
(* Turns and sequences of turns                                            *)
(***************************************************************************)

\* The turns of a conversation m, when the streams of K broke off: what
\* WholeTurns says of it besides the cap.
Turns(m, K) ==
    /\ m # <<>> => m[1].role = "user"
    /\ \A i \in 1 .. Len(m) :
        /\ i > 1 => (m[i].role = "user" <=> m[i].chat # m[i - 1].chat)
        /\ \A j \in 1 .. i : m[i].role = "user" /\ m[j].chat = m[i].chat => i = j
        /\ m[i].role = "calls" => answered(m, i) \/ m[i].chat \in K

\* The tool calls of a turn m have their results behind them, but for the last p.
Called(m, p) ==
    \A i \in 1 .. Len(m) : m[i].role = "calls" =>
        \A k \in 1 .. m[i].calls : i + k <= Len(m) + p /\ (i + k <= Len(m) => m[i + k].role = "tool")

\* The turn m of the chat c begins with its user's message, and only there.
OneTurn(m, c) ==
    /\ m \in Seq(Message) /\ Len(m) >= 1
    /\ \A i \in 1 .. Len(m) : m[i].chat = c /\ (m[i].role = "user" <=> i = 1)

\* A turn that may be stored when the streams of K broke off.
Storable(m, c, K) ==
    /\ OneTurn(m, c)
    /\ Called(m, 0) \/ c \in K
    /\ \A i \in 2 .. Len(m) - 1 : m[i].role # "assistant"

\* The messages of a chat before its answer.
Underway(m, c, p) ==
    /\ OneTurn(m, c) /\ Called(m, p)
    /\ \A i \in 1 .. Len(m) : m[i].role # "assistant"

LEMMA Least ==
    ASSUME NEW S \in SUBSET Nat, S # {}
    PROVE  \E x \in S : \A y \in S : x <= y
<1>1. PICK x \in S : \A y \in S : ~(<<y, x>> \in OpToRel(<, Nat))
  BY NatLessThanWellFounded, WFMin
<1>2. \A y \in S : ~(y < x)
  BY <1>1 DEF OpToRel
<1>. QED
  BY <1>2

LEMMA CallsAreNumbers == \A x \in Message : x.calls \in Nat
<1>. SUFFICES ASSUME NEW x \in Message PROVE x.calls \in Nat
  OBVIOUS
<1>1. x.calls \in 0 .. MaxCalls
  BY DEF Message
<1>. QED
  BY <1>1, ConversationAssumption DEF ConversationAssumption

LEMMA MessageOf ==
    ASSUME NEW c \in Chats, NEW r \in {"user", "calls", "tool", "assistant"}, NEW n \in 0 .. MaxCalls
    PROVE  /\ Msg(c, r, n) \in Message
           /\ Msg(c, r, n).chat = c /\ Msg(c, r, n).role = r /\ Msg(c, r, n).calls = n
  BY DEF Msg, Message

LEMMA ZeroCalls == 0 \in 0 .. MaxCalls
  BY ConversationAssumption DEF ConversationAssumption

\* The first message of a chat.
LEMMA OpenBegins ==
    ASSUME NEW c \in Chats
    PROVE  Underway(<<Msg(c, "user", 0)>>, c, 0)
<1>1. Msg(c, "user", 0) \in Message
  BY MessageOf, ZeroCalls
<1>2. <<Msg(c, "user", 0)>> \in Seq(Message) /\ Len(<<Msg(c, "user", 0)>>) = 1
  BY <1>1
<1>3. <<Msg(c, "user", 0)>>[1].chat = c /\ <<Msg(c, "user", 0)>>[1].role = "user"
  BY DEF Msg
<1>. QED
  BY <1>2, <1>3 DEF Underway, OneTurn, Called

\* The model asks for n tools: n results are to come.
LEMMA OpenCalls ==
    ASSUME NEW c \in Chats, NEW m, Underway(m, c, 0), NEW n \in 0 .. MaxCalls
    PROVE  Underway(Append(m, Msg(c, "calls", n)), c, n)
<1>. DEFINE x == Msg(c, "calls", n)
            q == Append(m, x)
<1>1. x \in Message /\ x.chat = c /\ x.role = "calls" /\ x.calls = n
  BY MessageOf
<1>2. m \in Seq(Message) /\ Len(m) \in Nat /\ Len(m) >= 1
  BY DEF Underway, OneTurn
<1>. HIDE DEF x
<1>3. /\ q \in Seq(Message) /\ Len(q) = Len(m) + 1
      /\ \A i \in 1 .. Len(m) : q[i] = m[i]
      /\ q[Len(m) + 1] = x
  BY <1>1, <1>2, AppendProperties
<1>. HIDE DEF q
<1>4. OneTurn(q, c)
  BY <1>1, <1>2, <1>3 DEF Underway, OneTurn
<1>5. \A i \in 1 .. Len(q) : q[i].role # "assistant"
  BY <1>1, <1>2, <1>3 DEF Underway
<1>6. Called(q, n)
  <2>. SUFFICES ASSUME NEW i \in 1 .. Len(q), q[i].role = "calls", NEW k \in 1 .. q[i].calls
                PROVE  i + k <= Len(q) + n /\ (i + k <= Len(q) => q[i + k].role = "tool")
    BY DEF Called
  <2>1. CASE i = Len(m) + 1
    BY <1>1, <1>2, <1>3, <2>1
  <2>2. CASE i \in 1 .. Len(m)
    <3>1. q[i] = m[i] /\ m[i] \in Message /\ m[i].calls \in Nat
      BY <1>2, <1>3, <2>2, CallsAreNumbers
    <3>2. i + k <= Len(m) /\ m[i + k].role = "tool"
      BY <1>2, <2>2, <3>1 DEF Underway, Called
    <3>. QED
      BY <1>2, <1>3, <2>2, <3>1, <3>2
  <2>. QED
    BY <1>2, <1>3, <2>1, <2>2
<1>. QED
  BY <1>4, <1>5, <1>6 DEF Underway, q, x

\* A result comes.
LEMMA OpenResult ==
    ASSUME NEW c \in Chats, NEW m, NEW p \in Nat \ {0}, Underway(m, c, p)
    PROVE  Underway(Append(m, Msg(c, "tool", 0)), c, p - 1)
<1>. DEFINE x == Msg(c, "tool", 0)
            q == Append(m, x)
<1>1. x \in Message /\ x.chat = c /\ x.role = "tool"
  BY MessageOf, ZeroCalls
<1>2. m \in Seq(Message) /\ Len(m) \in Nat /\ Len(m) >= 1
  BY DEF Underway, OneTurn
<1>. HIDE DEF x
<1>3. /\ q \in Seq(Message) /\ Len(q) = Len(m) + 1
      /\ \A i \in 1 .. Len(m) : q[i] = m[i]
      /\ q[Len(m) + 1] = x
  BY <1>1, <1>2, AppendProperties
<1>. HIDE DEF q
<1>4. OneTurn(q, c)
  BY <1>1, <1>2, <1>3 DEF Underway, OneTurn
<1>5. \A i \in 1 .. Len(q) : q[i].role # "assistant"
  BY <1>1, <1>2, <1>3 DEF Underway
<1>6. Called(q, p - 1)
  <2>. SUFFICES ASSUME NEW i \in 1 .. Len(q), q[i].role = "calls", NEW k \in 1 .. q[i].calls
                PROVE  i + k <= Len(q) + (p - 1) /\ (i + k <= Len(q) => q[i + k].role = "tool")
    BY DEF Called
  <2>1. i \in 1 .. Len(m)
    BY <1>1, <1>2, <1>3
  <2>2. q[i] = m[i] /\ m[i] \in Message /\ m[i].calls \in Nat
    BY <1>2, <1>3, <2>1, CallsAreNumbers
  <2>3. i + k <= Len(m) + p /\ (i + k <= Len(m) => m[i + k].role = "tool")
    BY <1>2, <2>1, <2>2 DEF Underway, Called
  <2>4. i + k <= Len(q) + (p - 1)
    BY <1>2, <1>3, <2>1, <2>2, <2>3
  <2>5. CASE i + k <= Len(m)
    <3>1. i + k \in 1 .. Len(m)
      BY <1>2, <2>1, <2>2, <2>5
    <3>. QED
      BY <1>3, <2>3, <2>4, <2>5, <3>1
  <2>6. CASE ~(i + k <= Len(m))
    <3>1. i + k <= Len(q) => i + k = Len(m) + 1
      BY <1>2, <1>3, <2>1, <2>2, <2>6
    <3>. QED
      BY <1>1, <1>3, <2>4, <3>1
  <2>. QED
    BY <2>5, <2>6
<1>. QED
  BY <1>4, <1>5, <1>6 DEF Underway, q, x

\* The answer comes: the turn is whole. A turn that breaks off is stored as it is.
LEMMA OpenAnswered ==
    ASSUME NEW c \in Chats, NEW m, Underway(m, c, 0), NEW K
    PROVE  Storable(Append(m, Msg(c, "assistant", 0)), c, K)
<1>. DEFINE x == Msg(c, "assistant", 0)
            q == Append(m, x)
<1>1. x \in Message /\ x.chat = c /\ x.role = "assistant"
  BY MessageOf, ZeroCalls
<1>2. m \in Seq(Message) /\ Len(m) \in Nat /\ Len(m) >= 1
  BY DEF Underway, OneTurn
<1>. HIDE DEF x
<1>3. /\ q \in Seq(Message) /\ Len(q) = Len(m) + 1
      /\ \A i \in 1 .. Len(m) : q[i] = m[i]
      /\ q[Len(m) + 1] = x
  BY <1>1, <1>2, AppendProperties
<1>. HIDE DEF q
<1>4. OneTurn(q, c)
  BY <1>1, <1>2, <1>3 DEF Underway, OneTurn
<1>5. \A i \in 2 .. Len(q) - 1 : q[i].role # "assistant"
  BY <1>1, <1>2, <1>3 DEF Underway
<1>6. Called(q, 0)
  <2>. SUFFICES ASSUME NEW i \in 1 .. Len(q), q[i].role = "calls", NEW k \in 1 .. q[i].calls
                PROVE  i + k <= Len(q) + 0 /\ (i + k <= Len(q) => q[i + k].role = "tool")
    BY DEF Called
  <2>1. i \in 1 .. Len(m)
    BY <1>1, <1>2, <1>3
  <2>2. q[i] = m[i] /\ m[i] \in Message /\ m[i].calls \in Nat
    BY <1>2, <1>3, <2>1, CallsAreNumbers
  <2>3. i + k <= Len(m) /\ m[i + k].role = "tool"
    BY <1>2, <2>1, <2>2 DEF Underway, Called
  <2>. QED
    BY <1>2, <1>3, <2>1, <2>2, <2>3
<1>. QED
  BY <1>4, <1>5, <1>6 DEF Storable, q, x

LEMMA OpenCut ==
    ASSUME NEW c, NEW m, NEW p, Underway(m, c, p), NEW K, c \in K
    PROVE  Storable(m, c, K)
  BY DEF Underway, Storable, OneTurn

\* A turn of a chat that has none in the conversation goes behind it.
LEMMA TurnsConcat ==
    ASSUME NEW m \in Seq(Message), NEW n, NEW c, NEW K, Turns(m, K), Storable(n, c, K),
           \A i \in 1 .. Len(m) : m[i].chat # c
    PROVE  m \o n \in Seq(Message) /\ Turns(m \o n, K)
<1>. DEFINE q == m \o n
<1>1. n \in Seq(Message) /\ Len(m) \in Nat /\ Len(n) \in Nat /\ Len(n) >= 1
  BY DEF Storable, OneTurn
<1>2. /\ q \in Seq(Message) /\ Len(q) = Len(m) + Len(n)
      /\ \A i \in 1 .. Len(m) : q[i] = m[i]
      /\ \A i \in 1 .. Len(n) : q[Len(m) + i] = n[i]
  <2>1. /\ q \in Seq(Message) /\ Len(q) = Len(m) + Len(n)
        /\ \A i \in 1 .. Len(m) + Len(n) : q[i] = IF i <= Len(m) THEN m[i] ELSE n[i - Len(m)]
    BY <1>1, ConcatProperties
  <2>. HIDE DEF q
  <2>2. \A i \in 1 .. Len(m) : q[i] = m[i]
    BY <1>1, <2>1
  <2>3. ASSUME NEW i \in 1 .. Len(n) PROVE q[Len(m) + i] = n[i]
    <3>1. Len(m) + i \in 1 .. Len(m) + Len(n) /\ ~(Len(m) + i <= Len(m)) /\ (Len(m) + i) - Len(m) = i
      BY <1>1
    <3>. QED
      BY <2>1, <3>1
  <2>. QED
    BY <2>1, <2>2, <2>3
<1>. HIDE DEF q
<1>3. ASSUME NEW i \in 1 .. Len(q)
      PROVE  i \in 1 .. Len(m) \/ \E k \in 1 .. Len(n) : i = Len(m) + k
  <2>1. i \in 1 .. Len(m) \/ (i - Len(m) \in 1 .. Len(n) /\ i = Len(m) + (i - Len(m)))
    BY <1>1, <1>2
  <2>. QED
    BY <2>1
<1>4. \A i \in 1 .. Len(n) : n[i].chat = c /\ (n[i].role = "user" <=> i = 1)
  BY DEF Storable, OneTurn
<1>5. q # <<>> => q[1].role = "user"
  <2>1. CASE m = <<>>
    <3>1. Len(m) = 0
      BY <2>1
    <3>2. q[1] = n[1]
      <4>1. q[Len(m) + 1] = n[1] /\ Len(m) + 1 = 1
        BY <1>1, <1>2, <3>1
      <4>. QED
        BY <4>1
    <3>. QED
      BY <1>1, <1>4, <3>2
  <2>2. CASE m # <<>>
    <3>1. Len(m) >= 1
      BY <1>1, <2>2, EmptySeq
    <3>. QED
      BY <1>1, <1>2, <2>2, <3>1 DEF Turns
  <2>. QED
    BY <2>1, <2>2
<1>6. ASSUME NEW i \in 1 .. Len(q)
      PROVE  /\ i > 1 => (q[i].role = "user" <=> q[i].chat # q[i - 1].chat)
             /\ \A j \in 1 .. i : q[i].role = "user" /\ q[j].chat = q[i].chat => i = j
             /\ q[i].role = "calls" => answered(q, i) \/ q[i].chat \in K
  <2>1. CASE i \in 1 .. Len(m)
    <3>1. q[i] = m[i] /\ (i > 1 => q[i - 1] = m[i - 1]) /\ (\A j \in 1 .. i : q[j] = m[j])
      BY <1>1, <1>2, <2>1
    <3>2. answered(m, i) => answered(q, i)
      <4>. SUFFICES ASSUME answered(m, i), NEW k \in 1 .. q[i].calls
                    PROVE  i + k <= Len(q) /\ q[i + k].role = "tool" /\ q[i + k].chat = q[i].chat
        BY DEF answered
      <4>1. i + k <= Len(m) /\ m[i + k].role = "tool" /\ m[i + k].chat = m[i].chat
        BY <3>1 DEF answered
      <4>2. q[i].calls \in Nat
        BY <2>1, <3>1, CallsAreNumbers
      <4>. QED
        BY <1>1, <1>2, <2>1, <3>1, <4>1, <4>2
    <3>. QED
      BY <2>1, <3>1, <3>2 DEF Turns
  <2>2. CASE \E k \in 1 .. Len(n) : i = Len(m) + k
    <3>. PICK l \in 1 .. Len(n) : i = Len(m) + l
      BY <2>2
    <3>1. q[i] = n[l] /\ q[i].chat = c
      BY <1>2, <1>4
    <3>2. i > 1 => (q[i].role = "user" <=> q[i].chat # q[i - 1].chat)
      <4>1. CASE l = 1 /\ i > 1
        <5>1. i - 1 \in 1 .. Len(m)
          BY <1>1, <4>1
        <5>2. q[i - 1].chat # c
          BY <1>2, <5>1
        <5>. QED
          BY <1>4, <3>1, <4>1, <5>2
      <4>2. CASE l > 1
        <5>1. l - 1 \in 1 .. Len(n) /\ i - 1 = Len(m) + (l - 1)
          BY <1>1, <4>2
        <5>2. q[i - 1] = n[l - 1]
          BY <1>2, <5>1
        <5>3. q[i - 1].chat = c
          BY <1>4, <5>1, <5>2
        <5>. QED
          BY <1>4, <3>1, <4>2, <5>3
      <4>. QED
        BY <1>1, <4>1, <4>2
    <3>3. ASSUME NEW j \in 1 .. i, q[i].role = "user", q[j].chat = q[i].chat
          PROVE  i = j
      <4>1. l = 1
        BY <1>4, <3>1, <3>3
      <4>2. CASE j \in 1 .. Len(m)
        BY <1>2, <3>1, <3>3, <4>2
      <4>. QED
        BY <1>1, <4>1, <4>2
    <3>4. q[i].role = "calls" => answered(q, i) \/ q[i].chat \in K
      <4>. SUFFICES ASSUME q[i].role = "calls", Called(n, 0), NEW k \in 1 .. q[i].calls
                    PROVE  i + k <= Len(q) /\ q[i + k].role = "tool" /\ q[i + k].chat = q[i].chat
        BY <3>1 DEF answered, Storable
      <4>1. n[l] \in Message /\ n[l].calls \in Nat
        BY <1>1, CallsAreNumbers
      <4>2. l + k <= Len(n) + 0 /\ (l + k <= Len(n) => n[l + k].role = "tool")
        BY <3>1 DEF Called
      <4>3. l + k \in 1 .. Len(n) /\ i + k = Len(m) + (l + k)
        BY <1>1, <3>1, <4>1, <4>2
      <4>. QED
        BY <1>1, <1>2, <1>4, <3>1, <4>2, <4>3
    <3>. QED
      BY <3>2, <3>3, <3>4
  <2>. QED
    BY <1>3, <2>1, <2>2
<1>. QED
  BY <1>2, <1>5, <1>6 DEF Turns, q

----------------------------------------------------------------------------
(***************************************************************************)
(* The cut                                                                 *)
(***************************************************************************)
Cuts(m) == {1, Len(m) + 1} \cup {i \in 1 .. Len(m) : m[i].role = "user"}
Fits(m, i) == content_count(from(m, i)) <= max_messages

LEMMA FromProperties ==
    ASSUME NEW m \in Seq(Message), NEW k \in 1 .. Len(m) + 1
    PROVE  /\ from(m, k) \in Seq(Message) /\ Len(from(m, k)) = Len(m) - k + 1
           /\ \A i \in 1 .. Len(m) - k + 1 : from(m, k)[i] = m[k + i - 1]
<1>1. Len(m) \in Nat /\ k \in Int /\ \A i \in k .. Len(m) : m[i] \in Message
  OBVIOUS
<1>2. /\ SubSeq(m, k, Len(m)) \in Seq(Message)
      /\ Len(SubSeq(m, k, Len(m))) = IF k <= Len(m) THEN Len(m) - k + 1 ELSE 0
      /\ \A i \in 1 .. Len(m) - k + 1 : SubSeq(m, k, Len(m))[i] = m[k + i - 1]
  BY <1>1, SubSeqProperties
<1>3. Len(m) - k + 1 = IF k <= Len(m) THEN Len(m) - k + 1 ELSE 0
  BY <1>1
<1>. QED
  BY <1>2, <1>3 DEF from

\* What is left when whole turns are cut off.
LEMMA TurnsFrom ==
    ASSUME NEW m \in Seq(Message), NEW K, Turns(m, K), NEW k \in Cuts(m)
    PROVE  Turns(from(m, k), K)
<1>. DEFINE q == from(m, k)
<1>1. Len(m) \in Nat /\ k \in 1 .. Len(m) + 1
  BY DEF Cuts
<1>2. /\ q \in Seq(Message) /\ Len(q) = Len(m) - k + 1
      /\ \A i \in 1 .. Len(q) : q[i] = m[k + i - 1]
  BY <1>1, FromProperties
<1>. HIDE DEF q
<1>3. q # <<>> => q[1].role = "user"
  <2>. SUFFICES ASSUME q # <<>> PROVE q[1].role = "user"
    OBVIOUS
  <2>1. Len(q) >= 1
    BY <1>2, EmptySeq
  <2>2. k \in 1 .. Len(m) /\ q[1] = m[k]
    BY <1>1, <1>2, <2>1
  <2>3. m # <<>> /\ (k = 1 \/ m[k].role = "user")
    BY <1>1, <2>2 DEF Cuts
  <2>. QED
    BY <2>2, <2>3 DEF Turns
<1>4. ASSUME NEW i \in 1 .. Len(q)
      PROVE  /\ i > 1 => (q[i].role = "user" <=> q[i].chat # q[i - 1].chat)
             /\ \A j \in 1 .. i : q[i].role = "user" /\ q[j].chat = q[i].chat => i = j
             /\ q[i].role = "calls" => answered(q, i) \/ q[i].chat \in K
  <2>. DEFINE h == k + i - 1
  <2>1. h \in 1 .. Len(m) /\ q[i] = m[h]
    BY <1>1, <1>2
  <2>2. i > 1 => h > 1 /\ q[i - 1] = m[h - 1]
    <3>. SUFFICES ASSUME i > 1 PROVE h > 1 /\ q[i - 1] = m[h - 1]
      OBVIOUS
    <3>1. i - 1 \in 1 .. Len(q) /\ k + (i - 1) - 1 = h - 1 /\ h > 1
      BY <1>1, <1>2
    <3>. QED
      BY <1>2, <3>1
  <2>3. ASSUME NEW j \in 1 .. i PROVE k + j - 1 \in 1 .. h /\ q[j] = m[k + j - 1]
    BY <1>1, <1>2
  <2>4. h \in 1 .. Len(m) /\ i > 1 => h > 1
    BY <2>1, <2>2
  <2>. HIDE DEF h
  <2>5. i > 1 => (q[i].role = "user" <=> q[i].chat # q[i - 1].chat)
    BY <2>1, <2>2 DEF Turns
  <2>6. ASSUME NEW j \in 1 .. i, q[i].role = "user", q[j].chat = q[i].chat PROVE i = j
    <3>1. m[h].role = "user" /\ m[k + j - 1].chat = m[h].chat
      BY <2>1, <2>3, <2>6
    <3>2. h = k + j - 1
      BY <2>1, <2>3, <3>1 DEF Turns
    <3>. QED
      BY <1>1, <1>2, <3>2 DEF h
  <2>7. q[i].role = "calls" => answered(q, i) \/ q[i].chat \in K
    <3>. SUFFICES ASSUME q[i].role = "calls", answered(m, h), NEW n \in 1 .. q[i].calls
                  PROVE  i + n <= Len(q) /\ q[i + n].role = "tool" /\ q[i + n].chat = q[i].chat
      BY <2>1 DEF answered, Turns
    <3>1. h + n <= Len(m) /\ m[h + n].role = "tool" /\ m[h + n].chat = m[h].chat
      BY <2>1 DEF answered
    <3>2. q[i].calls \in Nat
      BY <1>2, CallsAreNumbers
    <3>3. i + n \in 1 .. Len(q) /\ k + (i + n) - 1 = h + n
      BY <1>1, <1>2, <3>1, <3>2 DEF h
    <3>. QED
      BY <1>2, <2>1, <3>1, <3>3
  <2>. QED
    BY <2>5, <2>6, <2>7
<1>. QED
  BY <1>3, <1>4 DEF Turns, q

LEMMA EmptyFits ==
    ASSUME NEW m \in Seq(Message) PROVE Fits(m, Len(m) + 1)
<1>1. Len(m) \in Nat /\ Len(m) + 1 \in 1 .. Len(m) + 1 /\ Len(m) - (Len(m) + 1) + 1 = 0
  OBVIOUS
<1>2. from(m, Len(m) + 1) \in Seq(Message) /\ Len(from(m, Len(m) + 1)) = 0
  BY <1>1, FromProperties
<1>. DEFINE q == from(m, Len(m) + 1)
<1>3. DOMAIN q = {}
  <2>. HIDE DEF q
  <2>1. q \in Seq(Message) /\ Len(q) = 0
    BY <1>2 DEF q
  <2>. QED
    BY <2>1
<1>4. {i \in DOMAIN q : q[i].role \in {"user", "assistant"}} = {}
  BY <1>3
<1>5. content_count(q) = 0
  BY <1>4, FS_EmptySet DEF content_count
<1>. QED
  BY <1>5, ConversationAssumption DEF Fits, ConversationAssumption

\* The first cut at which the rest is within the cap.
LEMMA TrimCuts ==
    ASSUME NEW m \in Seq(Message)
    PROVE  \E k \in Cuts(m) : /\ _trim(m) = from(m, k) /\ Fits(m, k)
                              /\ \A j \in Cuts(m) : Fits(m, j) => k <= j
<1>. DEFINE S == {k \in Cuts(m) : Fits(m, k)}
<1>1. S \in SUBSET Nat
  BY DEF Cuts
<1>2. Len(m) + 1 \in S
  BY EmptyFits DEF Cuts
<1>3. \E k \in S : \A j \in S : k <= j
  BY <1>1, <1>2, Least
<1>4. \E k \in Cuts(m) : Fits(m, k) /\ \A j \in Cuts(m) : Fits(m, j) => k <= j
  BY <1>3
<1>. DEFINE k == CHOOSE i \in Cuts(m) : Fits(m, i) /\ \A j \in Cuts(m) : Fits(m, j) => i <= j
<1>5. k \in Cuts(m) /\ Fits(m, k) /\ \A j \in Cuts(m) : Fits(m, j) => k <= j
  BY <1>4
<1>6. _trim(m) = from(m, k)
  BY DEF _trim, Cuts, Fits
<1>. QED
  BY <1>5, <1>6

\* A turn has no content but its first and its last message.
LEMMA TurnContent ==
    ASSUME NEW n, NEW c, NEW K, Storable(n, c, K)
    PROVE  content_count(n) <= 2
<1>. DEFINE S == {i \in DOMAIN n : n[i].role \in {"user", "assistant"}}
            P == {1, Len(n)}
<1>1. n \in Seq(Message) /\ Len(n) \in Nat /\ DOMAIN n = 1 .. Len(n)
  BY DEF Storable, OneTurn
<1>2. S \subseteq P
  BY <1>1 DEF Storable, OneTurn
<1>3. IsFiniteSet(P) /\ Cardinality(P) <= 2
  <2>1. IsFiniteSet({1}) /\ Cardinality({1}) = 1
    BY FS_Singleton
  <2>2. IsFiniteSet({1} \cup {Len(n)}) /\ Cardinality({1} \cup {Len(n)}) <= 2
    <3>1. /\ IsFiniteSet({1} \cup {Len(n)})
          /\ Cardinality({1} \cup {Len(n)}) =
               IF Len(n) \in {1} THEN Cardinality({1}) ELSE Cardinality({1}) + 1
      BY <2>1, FS_AddElement
    <3>. QED
      BY <2>1, <3>1
  <2>3. P = {1} \cup {Len(n)}
    OBVIOUS
  <2>. QED
    BY <2>2, <2>3
<1>4. IsFiniteSet(S) /\ Cardinality(S) <= Cardinality(P)
  BY <1>2, <1>3, FS_Subset
<1>. HIDE DEF S, P
<1>5. Cardinality(S) \in Nat /\ Cardinality(P) \in Nat
  BY <1>3, <1>4, FS_CardinalityType
<1>6. Cardinality(S) <= 2
  BY <1>3, <1>4, <1>5
<1>. QED
  BY <1>6 DEF content_count, S

\* Storing a turn keeps the conversation one of turns, within the cap, and never
\* empties it.
LEMMA StoredTurn ==
    ASSUME NEW m \in Seq(Message), NEW n, NEW c, NEW K, Turns(m, K), Storable(n, c, K),
           \A i \in 1 .. Len(m) : m[i].chat # c
    PROVE  /\ _trim(m \o n) \in Seq(Message) /\ Turns(_trim(m \o n), K)
           /\ content_count(_trim(m \o n)) <= max_messages
           /\ _trim(m \o n) # <<>>
           /\ \A i \in 1 .. Len(_trim(m \o n)) :
                \/ _trim(m \o n)[i].chat = c
                \/ \E j \in 1 .. Len(m) : _trim(m \o n)[i].chat = m[j].chat
<1>. PICK q : q = m \o n
  OBVIOUS
<1>1. q \in Seq(Message) /\ Turns(q, K)
  BY TurnsConcat
<1>2. n \in Seq(Message) /\ Len(m) \in Nat /\ Len(n) \in Nat /\ Len(n) >= 1
  BY DEF Storable, OneTurn
<1>3. /\ Len(q) = Len(m) + Len(n)
      /\ \A i \in 1 .. Len(m) + Len(n) : q[i] = IF i <= Len(m) THEN m[i] ELSE n[i - Len(m)]
  BY <1>2, ConcatProperties
<1>4. PICK k \in Cuts(q) : /\ _trim(q) = from(q, k) /\ Fits(q, k)
                           /\ \A j \in Cuts(q) : Fits(q, j) => k <= j
  BY <1>1, TrimCuts
<1>5. k \in 1 .. Len(q) + 1 /\ Len(q) \in Nat
  BY <1>1 DEF Cuts
<1>6. /\ from(q, k) \in Seq(Message) /\ Len(from(q, k)) = Len(q) - k + 1
      /\ \A i \in 1 .. Len(q) - k + 1 : from(q, k)[i] = q[k + i - 1]
  BY <1>1, <1>5, FromProperties
<1>7. Turns(from(q, k), K)
  BY <1>1, TurnsFrom
<1>8. content_count(from(q, k)) <= max_messages
  BY <1>4 DEF Fits
<1>9. k <= Len(m) + 1
  <2>. DEFINE h == Len(m) + 1
  <2>1. h \in 1 .. Len(q) /\ h \in 1 .. Len(q) + 1 /\ Len(q) - h + 1 = Len(n)
    BY <1>2, <1>3
  <2>2. q[h] = n[1]
    BY <1>2, <1>3
  <2>3. h \in Cuts(q)
    <3>1. n[1].role = "user"
      BY <1>2 DEF Storable, OneTurn
    <3>. QED
      BY <2>1, <2>2, <3>1 DEF Cuts
  <2>4. from(q, h) = n
    <3>1. /\ from(q, h) \in Seq(Message) /\ Len(from(q, h)) = Len(n)
          /\ \A i \in 1 .. Len(n) : from(q, h)[i] = q[h + i - 1]
      BY <1>1, <2>1, FromProperties
    <3>2. ASSUME NEW i \in 1 .. Len(n) PROVE q[h + i - 1] = n[i]
      <4>1. h + i - 1 \in 1 .. Len(m) + Len(n) /\ ~(h + i - 1 <= Len(m)) /\ (h + i - 1) - Len(m) = i
        BY <1>2
      <4>. QED
        BY <1>3, <4>1
    <3>3. \A i \in 1 .. Len(n) : from(q, h)[i] = n[i]
      BY <3>1, <3>2
    <3>. QED
      BY <1>2, <3>1, <3>3, SeqEqual
  <2>5. Fits(q, h)
    <3>1. content_count(n) \in Nat /\ content_count(n) <= 2
      <4>1. IsFiniteSet({i \in DOMAIN n : n[i].role \in {"user", "assistant"}})
        <5>1. IsFiniteSet(1 .. Len(n)) /\ DOMAIN n = 1 .. Len(n)
          BY <1>2, FS_Interval
        <5>. QED
          BY <5>1, FS_Subset
      <4>. QED
        BY <4>1, TurnContent, FS_CardinalityType DEF content_count
    <3>2. content_count(n) <= max_messages
      BY <3>1, ConversationAssumption DEF ConversationAssumption
    <3>. QED
      BY <2>4, <3>2 DEF Fits
  <2>. QED
    BY <1>4, <2>3, <2>5
<1>10. from(q, k) # <<>>
  <2>1. Len(from(q, k)) >= 1
    BY <1>2, <1>3, <1>5, <1>6, <1>9
  <2>. QED
    BY <2>1
<1>11. ASSUME NEW i \in 1 .. Len(from(q, k))
       PROVE  \/ from(q, k)[i].chat = c
              \/ \E j \in 1 .. Len(m) : from(q, k)[i].chat = m[j].chat
  <2>. DEFINE h == k + i - 1
  <2>1. h \in 1 .. Len(m) + Len(n) /\ from(q, k)[i] = q[h]
    BY <1>3, <1>5, <1>6
  <2>. HIDE DEF h
  <2>2. CASE h <= Len(m)
    BY <1>2, <1>3, <2>1, <2>2
  <2>3. CASE ~(h <= Len(m))
    <3>1. q[h] = n[h - Len(m)] /\ h - Len(m) \in 1 .. Len(n)
      BY <1>2, <1>3, <2>1, <2>3
    <3>. QED
      BY <2>1, <3>1 DEF Storable, OneTurn
  <2>. QED
    BY <2>2, <2>3
<1>. QED
  BY <1>4, <1>6, <1>7, <1>8, <1>10, <1>11

----------------------------------------------------------------------------
(***************************************************************************)
(* The chats and the store                                                 *)
(***************************************************************************)
ConversationType ==
    /\ messages \in [Guests -> Seq(Message)]
    /\ last_accessed \in [Guests -> Nat]
    /\ now \in Nat
    /\ pc \in [Chats -> {"idle", "created", "llm", "tool", "done"}]
    /\ guest \in [Chats -> Guests \cup {NoGuest}]
    /\ stream \in [Chats -> BOOLEAN]
    /\ pending \in [Chats -> Nat]
    /\ new_messages \in [Chats -> Seq(Message)]
    /\ cut \in SUBSET Chats

\* What a chat with messages m and p calls to run has, where it stands.
InChat(where, m, c, p) ==
    /\ where \in {"llm", "tool"} => Underway(m, c, p)
    /\ where = "tool" <=> p > 0

ChatInv == \A c \in Chats : InChat(pc[c], new_messages[c], c, pending[c])

\* A stored conversation m; only chats that are over have messages in it.
InStore(m, K, over) ==
    /\ Turns(m, K) /\ content_count(m) <= max_messages
    /\ \A i \in 1 .. Len(m) : m[i].chat \in over

Over == {c \in Chats : pc[c] = "done"}

StoreInv == \A g \in Guests : InStore(messages[g], cut, Over)

ConversationInv == ConversationType /\ ChatInv /\ StoreInv

\* A step empties no conversation.
KeepsAll == \A g \in Guests : messages[g] # <<>> => messages'[g] # <<>>

LEMMA InStoreMonotone ==
    ASSUME NEW m, NEW K, NEW L, NEW S, NEW T, InStore(m, K, S), K \subseteq L, S \subseteq T
    PROVE  InStore(m, L, T)
  BY DEF InStore, Turns

LEMMA EmptyInStore ==
    ASSUME NEW K, NEW S PROVE InStore(<<>>, K, S)
<1>1. {i \in DOMAIN <<>> : <<>>[i].role \in {"user", "assistant"}} = {}
  OBVIOUS
<1>2. content_count(<<>>) = 0
  BY <1>1, FS_EmptySet DEF content_count
<1>. QED
  BY <1>2, ConversationAssumption DEF InStore, Turns, ConversationAssumption

LEMMA ConversationStarts == Init => ConversationInv
<1>. SUFFICES ASSUME Init PROVE ConversationInv
  OBVIOUS
<1>1. ConversationType
  BY DEF Init, ConversationType
<1>2. ChatInv
  BY DEF Init, ChatInv, InChat
<1>3. StoreInv
  BY EmptyInStore DEF Init, StoreInv
<1>. QED
  BY <1>1, <1>2, <1>3 DEF ConversationInv

\* A chat that goes on stores nothing.
LEMMA ChatGoesOn ==
    ASSUME ConversationInv, NEW c \in Chats, pc[c] # "done",
           NEW where \in {"created", "llm", "tool"}, NEW m \in Seq(Message), NEW p \in Nat,
           InChat(where, m, c, p),
           pc' = [pc EXCEPT ![c] = where], new_messages' = [new_messages EXCEPT ![c] = m],
           pending' = [pending EXCEPT ![c] = p],
           guest' \in [Chats -> Guests \cup {NoGuest}], stream' \in [Chats -> BOOLEAN],
           last_accessed' \in [Guests -> Nat],
           UNCHANGED <<messages, now, cut>>
    PROVE  ConversationInv'
<1>1. ConversationType'
  BY DEF ConversationInv, ConversationType
<1>2. ChatInv'
  <2>. SUFFICES ASSUME NEW d \in Chats PROVE InChat(pc'[d], new_messages'[d], d, pending'[d])
    BY DEF ChatInv
  <2>1. CASE d = c
    BY <2>1 DEF ConversationInv, ConversationType
  <2>2. CASE d # c
    BY <2>2 DEF ConversationInv, ConversationType, ChatInv
  <2>. QED
    BY <2>1, <2>2
<1>3. StoreInv'
  <2>1. Over' = Over
    BY DEF Over, ConversationInv, ConversationType
  <2>. QED
    BY <2>1 DEF StoreInv, ConversationInv
<1>. QED
  BY <1>1, <1>2, <1>3 DEF ConversationInv

\* A chat ends, with a turn that may be stored or with none.
LEMMA ChatFinishes ==
    ASSUME ConversationInv, NEW c \in Chats, pc[c] # "done", NEW msgs, NEW saved \in BOOLEAN,
           cut' \in SUBSET Chats, cut \subseteq cut', saved => Storable(msgs, c, cut'),
           Finish(c, msgs, saved)
    PROVE  ConversationInv' /\ KeepsAll
<1>. USE DEF ConversationInv
<1>1. /\ pc' = [pc EXCEPT ![c] = "done"] /\ pending' = [pending EXCEPT ![c] = 0]
      /\ new_messages' = [new_messages EXCEPT ![c] = <<>>]
      /\ guest' = [guest EXCEPT ![c] = NoGuest] /\ stream' = [stream EXCEPT ![c] = FALSE]
      /\ now' = now
  BY DEF Finish
<1>2. Over' = Over \cup {c} /\ c \notin Over
  BY <1>1 DEF Over, ConversationType
<1>3. ChatInv'
  <2>. SUFFICES ASSUME NEW d \in Chats PROVE InChat(pc'[d], new_messages'[d], d, pending'[d])
    BY DEF ChatInv
  <2>1. CASE d = c
    <3>1. pc'[d] = "done" /\ pending'[d] = 0
      BY <1>1, <2>1 DEF ConversationType
    <3>. QED
      BY <3>1 DEF InChat
  <2>2. CASE d # c
    BY <1>1, <2>2 DEF ConversationType, ChatInv
  <2>. QED
    BY <2>1, <2>2
<1>4. \A g \in Guests : InStore(messages[g], cut', Over')
  BY <1>2, InStoreMonotone DEF StoreInv
<1>5. CASE UNCHANGED store
  <2>1. ConversationType'
    BY <1>1, <1>5 DEF ConversationType, store
  <2>2. StoreInv'
    BY <1>4, <1>5 DEF StoreInv, store
  <2>3. KeepsAll
    BY <1>5 DEF KeepsAll, store
  <2>. QED
    BY <1>3, <2>1, <2>2, <2>3
<1>6. CASE saved /\ guest[c] # NoGuest
  <2>. DEFINE g == guest[c]
              t == _trim(messages[g] \o msgs)
  <2>1. g \in Guests /\ Storable(msgs, c, cut')
    BY <1>6 DEF ConversationType
  <2>2. /\ messages' = [messages EXCEPT ![g] = t]
        /\ last_accessed' = [last_accessed EXCEPT ![g] = now]
    BY <1>6 DEF Finish, append
  <2>3. messages[g] \in Seq(Message) /\ Turns(messages[g], cut')
    BY <1>4, <2>1 DEF ConversationType, InStore
  <2>4. \A i \in 1 .. Len(messages[g]) : messages[g][i].chat \in Over
    BY <2>1 DEF StoreInv, InStore
  <2>5. /\ t \in Seq(Message) /\ Turns(t, cut')
        /\ content_count(t) <= max_messages /\ t # <<>>
        /\ \A i \in 1 .. Len(t) :
             t[i].chat = c \/ \E j \in 1 .. Len(messages[g]) : t[i].chat = messages[g][j].chat
    BY <1>2, <2>1, <2>3, <2>4, StoredTurn
  <2>. HIDE DEF t, g
  <2>6. InStore(t, cut', Over')
    BY <1>2, <2>4, <2>5 DEF InStore
  <2>7. ConversationType'
    BY <1>1, <2>1, <2>2, <2>5 DEF ConversationType
  <2>8. StoreInv'
    <3>. SUFFICES ASSUME NEW h \in Guests PROVE InStore(messages'[h], cut', Over')
      BY DEF StoreInv
    <3>1. messages'[h] = IF h = g THEN t ELSE messages[h]
      BY <2>2 DEF ConversationType
    <3>. QED
      BY <1>4, <2>6, <3>1
  <2>9. KeepsAll
    BY <2>2, <2>5 DEF KeepsAll, ConversationType
  <2>. QED
    BY <1>3, <2>7, <2>8, <2>9
<1>7. UNCHANGED store \/ (saved /\ guest[c] # NoGuest)
  BY DEF Finish, append
<1>. QED
  BY <1>5, <1>6, <1>7

LEMMA GetMessages ==
    ASSUME ConversationInv, NEW g, get_messages(g)
    PROVE  last_accessed' \in [Guests -> Nat] /\ messages' = messages
  BY DEF ConversationInv, ConversationType, get_messages, Known

LEMMA FirstMessage ==
    ASSUME NEW c \in Chats
    PROVE  /\ <<Msg(c, "user", 0)>> \in Seq(Message)
           /\ InChat("llm", <<Msg(c, "user", 0)>>, c, 0)
<1>1. Underway(<<Msg(c, "user", 0)>>, c, 0)
  BY OpenBegins
<1>. QED
  BY <1>1 DEF InChat, Underway, OneTurn

LEMMA StartKeeps ==
    ASSUME ConversationInv, NEW c \in Chats, NEW b \in Bodies, Start(c, b[1], b[2])
    PROVE  ConversationInv' /\ KeepsAll
<1>1. b[1] \in Guests \cup {NoGuest} /\ b[2] \in BOOLEAN
  BY ConversationAssumption DEF ConversationAssumption
<1>2. pc[c] = "idle" /\ pending[c] = 0 /\ pending' = pending /\ now' = now /\ cut' = cut
  BY DEF Start, ConversationInv, ChatInv, InChat, ConversationType
<1>3. last_accessed' \in [Guests -> Nat] /\ messages' = messages
  BY GetMessages DEF Start
<1>4. guest' \in [Chats -> Guests \cup {NoGuest}] /\ stream' \in [Chats -> BOOLEAN]
  BY <1>1 DEF Start, ConversationInv, ConversationType
<1>5. pending' = [pending EXCEPT ![c] = 0]
  BY <1>2 DEF ConversationInv, ConversationType
<1>6. KeepsAll
  BY <1>3 DEF KeepsAll
<1>7. CASE pc' = [pc EXCEPT ![c] = "created"] /\ new_messages' = new_messages
  <2>1. new_messages' = [new_messages EXCEPT ![c] = new_messages[c]] /\ new_messages[c] \in Seq(Message)
    BY <1>7 DEF ConversationInv, ConversationType
  <2>2. InChat("created", new_messages[c], c, 0)
    BY DEF InChat
  <2>3. pc[c] # "done" /\ UNCHANGED <<messages, now, cut>>
    BY <1>2, <1>3
  <2>4. ConversationInv'
    BY <1>3, <1>4, <1>5, <1>7, <2>1, <2>2, <2>3, ChatGoesOn
  <2>. QED
    BY <1>6, <2>4
<1>8. CASE Assemble(c)
  <2>. DEFINE m == <<Msg(c, "user", 0)>>
  <2>1. pc' = [pc EXCEPT ![c] = "llm"] /\ new_messages' = [new_messages EXCEPT ![c] = m]
    BY <1>8 DEF Assemble
  <2>2. m \in Seq(Message) /\ InChat("llm", m, c, 0)
    BY FirstMessage
  <2>. HIDE DEF m
  <2>3. pc[c] # "done" /\ UNCHANGED <<messages, now, cut>>
    BY <1>2, <1>3
  <2>4. ConversationInv'
    BY <1>3, <1>4, <1>5, <2>1, <2>2, <2>3, ChatGoesOn
  <2>. QED
    BY <1>6, <2>4
<1>. QED
  BY <1>7, <1>8 DEF Start

LEMMA BeginStreamKeeps ==
    ASSUME ConversationInv, NEW c \in Chats, BeginStream(c)
    PROVE  ConversationInv' /\ KeepsAll
<1>1. pc[c] = "created" /\ pending[c] = 0 /\ pending' = pending
  BY DEF BeginStream, ConversationInv, ChatInv, InChat, ConversationType
<1>2. pending' = [pending EXCEPT ![c] = 0]
  BY <1>1 DEF ConversationInv, ConversationType
<1>3. /\ last_accessed' \in [Guests -> Nat] /\ messages' = messages
      /\ guest' \in [Chats -> Guests \cup {NoGuest}] /\ stream' \in [Chats -> BOOLEAN]
      /\ now' = now /\ cut' = cut
  BY DEF BeginStream, store, ConversationInv, ConversationType
<1>. DEFINE m == <<Msg(c, "user", 0)>>
<1>4. pc' = [pc EXCEPT ![c] = "llm"] /\ new_messages' = [new_messages EXCEPT ![c] = m]
  BY DEF BeginStream, Assemble
<1>5. m \in Seq(Message) /\ InChat("llm", m, c, 0)
  BY FirstMessage
<1>. HIDE DEF m
<1>6. pc[c] # "done" /\ UNCHANGED <<messages, now, cut>>
  BY <1>1, <1>3
<1>7. ConversationInv'
  BY <1>2, <1>3, <1>4, <1>5, <1>6, ChatGoesOn
<1>. QED
  BY <1>3, <1>7 DEF KeepsAll

\* After the last call of a round.
LEMMA NextRoundKeeps ==
    ASSUME ConversationInv, NEW c \in Chats, pc[c] # "done", NEW m, Underway(m, c, 0), NextRound(c, m)
    PROVE  ConversationInv' /\ KeepsAll
<1>1. CASE /\ pc' = [pc EXCEPT ![c] = "llm"]
           /\ pending' = [pending EXCEPT ![c] = 0]
           /\ new_messages' = [new_messages EXCEPT ![c] = m]
           /\ UNCHANGED <<store, now, guest, stream, cut>>
  <2>1. m \in Seq(Message) /\ InChat("llm", m, c, 0)
    BY DEF InChat, Underway, OneTurn
  <2>2. /\ last_accessed' \in [Guests -> Nat] /\ messages' = messages
        /\ guest' \in [Chats -> Guests \cup {NoGuest}] /\ stream' \in [Chats -> BOOLEAN]
        /\ now' = now /\ cut' = cut
    BY <1>1 DEF store, ConversationInv, ConversationType
  <2>. QED
    BY <1>1, <2>1, <2>2, ChatGoesOn DEF KeepsAll
<1>2. CASE Finish(c, Append(m, Msg(c, "assistant", 0)), TRUE) /\ UNCHANGED cut
  <2>1. cut' \in SUBSET Chats /\ cut \subseteq cut'
    BY <1>2 DEF ConversationInv, ConversationType
  <2>2. Storable(Append(m, Msg(c, "assistant", 0)), c, cut')
    BY OpenAnswered
  <2>. QED
    BY <1>2, <2>1, <2>2, ChatFinishes
<1>. QED
  BY <1>1, <1>2 DEF NextRound

LEMMA LlmCallsKeeps ==
    ASSUME ConversationInv, NEW c \in Chats, NEW n \in 0 .. MaxCalls, LlmCalls(c, n)
    PROVE  ConversationInv' /\ KeepsAll
<1>. DEFINE m == Append(new_messages[c], Msg(c, "calls", n))
<1>1. pc[c] = "llm" /\ pending[c] = 0 /\ Underway(new_messages[c], c, 0)
  BY DEF LlmCalls, ConversationInv, ChatInv, InChat, ConversationType
<1>2. Underway(m, c, n)
  BY <1>1, OpenCalls
<1>3. CASE n = 0 /\ NextRound(c, m)
  BY <1>1, <1>2, <1>3, NextRoundKeeps
<1>4. CASE n > 0 /\ ~(n = 0 /\ NextRound(c, m))
  <2>1. /\ pc' = [pc EXCEPT ![c] = "tool"]
        /\ pending' = [pending EXCEPT ![c] = n]
        /\ new_messages' = [new_messages EXCEPT ![c] = m]
        /\ UNCHANGED <<store, now, guest, stream, cut>>
    BY <1>4 DEF LlmCalls
  <2>. HIDE DEF m
  <2>2. m \in Seq(Message) /\ InChat("tool", m, c, n)
    BY <1>2, <1>4 DEF InChat, Underway, OneTurn
  <2>3. /\ last_accessed' \in [Guests -> Nat] /\ messages' = messages
        /\ guest' \in [Chats -> Guests \cup {NoGuest}] /\ stream' \in [Chats -> BOOLEAN]
        /\ now' = now /\ cut' = cut
    BY <2>1 DEF store, ConversationInv, ConversationType
  <2>4. n \in Nat
    BY ConversationAssumption DEF ConversationAssumption
  <2>. QED
    BY <1>1, <2>1, <2>2, <2>3, <2>4, ChatGoesOn DEF KeepsAll
<1>. QED
  BY <1>3, <1>4 DEF LlmCalls

LEMMA LlmAnswersKeeps ==
    ASSUME ConversationInv, NEW c \in Chats, LlmAnswers(c)
    PROVE  ConversationInv' /\ KeepsAll
<1>1. pc[c] = "llm" /\ Underway(new_messages[c], c, 0)
  BY DEF LlmAnswers, ConversationInv, ChatInv, InChat, ConversationType
<1>2. cut' \in SUBSET Chats /\ cut \subseteq cut'
  BY DEF LlmAnswers, ConversationInv, ConversationType
<1>3. Storable(Append(new_messages[c], Msg(c, "assistant", 0)), c, cut')
  BY <1>1, OpenAnswered
<1>. QED
  BY <1>1, <1>2, <1>3, ChatFinishes DEF LlmAnswers

LEMMA RunToolKeeps ==
    ASSUME ConversationInv, NEW c \in Chats, RunTool(c)
    PROVE  ConversationInv' /\ KeepsAll
<1>. DEFINE m == Append(new_messages[c], Msg(c, "tool", 0))
            p == pending[c]
<1>1. pc[c] = "tool" /\ p \in Nat \ {0} /\ Underway(new_messages[c], c, p)
  BY DEF RunTool, ConversationInv, ChatInv, InChat, ConversationType
<1>2. Underway(m, c, p - 1)
  BY <1>1, OpenResult
<1>3. CASE p = 1 /\ NextRound(c, m)
  BY <1>1, <1>2, <1>3, NextRoundKeeps
<1>4. CASE p > 1
  <2>1. /\ pending' = [pending EXCEPT ![c] = p - 1]
        /\ new_messages' = [new_messages EXCEPT ![c] = m]
        /\ UNCHANGED <<store, now, pc, guest, stream, cut>>
    BY <1>4 DEF RunTool
  <2>. HIDE DEF m, p
  <2>2. m \in Seq(Message) /\ InChat("tool", m, c, p - 1) /\ p - 1 \in Nat
    BY <1>1, <1>2, <1>4 DEF InChat, Underway, OneTurn
  <2>3. /\ last_accessed' \in [Guests -> Nat] /\ messages' = messages
        /\ guest' \in [Chats -> Guests \cup {NoGuest}] /\ stream' \in [Chats -> BOOLEAN]
        /\ now' = now /\ cut' = cut /\ pc' = [pc EXCEPT ![c] = "tool"]
    BY <1>1, <2>1 DEF store, ConversationInv, ConversationType
  <2>. QED
    BY <1>1, <2>1, <2>2, <2>3, ChatGoesOn DEF KeepsAll
<1>. QED
  BY <1>3, <1>4 DEF RunTool

LEMMA BreakOffKeeps ==
    ASSUME ConversationInv, NEW c \in Chats, Fails(c) \/ Disconnect(c)
    PROVE  ConversationInv' /\ KeepsAll
<1>1. /\ pc[c] \in Running /\ stream[c] \in BOOLEAN /\ (pc[c] # "created") \in BOOLEAN
      /\ pc[c] # "created" => Underway(new_messages[c], c, pending[c])
  BY DEF Fails, Disconnect, ConversationInv, ChatInv, InChat, ConversationType, Running
<1>2. pc[c] # "created" /\ c \in cut' => Storable(new_messages[c], c, cut')
  BY <1>1, OpenCut
<1>3. CASE Fails(c)
  <2>1. pc[c] # "created" /\ (stream[c] => c \in cut') /\ cut' \in SUBSET Chats /\ cut \subseteq cut'
    BY <1>3 DEF Fails, ConversationInv, ConversationType
  <2>. QED
    BY <1>1, <1>2, <1>3, <2>1, ChatFinishes DEF Fails, Running
<1>4. CASE Disconnect(c)
  <2>1. c \in cut' /\ cut' \in SUBSET Chats /\ cut \subseteq cut'
    BY <1>4 DEF Disconnect, ConversationInv, ConversationType
  <2>. QED
    BY <1>1, <1>2, <1>4, <2>1, ChatFinishes DEF Disconnect, Running
<1>. QED
  BY <1>3, <1>4

LEMMA CleanupKeeps ==
    ASSUME ConversationInv, cleanup
    PROVE  ConversationInv'
<1>1. PICK kept \in SUBSET Guests :
        /\ messages' = [g \in Guests |-> IF g \in kept THEN messages[g] ELSE <<>>]
        /\ last_accessed' = [g \in Guests |-> IF g \in kept THEN last_accessed[g] ELSE 0]
  BY DEF cleanup, Known
<1>2. UNCHANGED <<now, pc, guest, stream, pending, new_messages, cut>>
  BY DEF cleanup, chat
<1>3. ConversationType'
  BY <1>1, <1>2 DEF ConversationInv, ConversationType
<1>4. ChatInv'
  BY <1>2 DEF ConversationInv, ChatInv
<1>5. StoreInv'
  <2>1. Over' = Over /\ cut' = cut
    BY <1>2 DEF Over
  <2>. QED
    BY <1>1, <2>1, EmptyInStore DEF StoreInv, ConversationInv
<1>. QED
  BY <1>3, <1>4, <1>5 DEF ConversationInv

LEMMA ConversationSteps ==
    ASSUME ConversationInv, [Next]_vars
    PROVE  ConversationInv' /\ (KeepsAll \/ cleanup)
<1>1. CASE UNCHANGED vars \/ Tick
  <2>1. /\ UNCHANGED <<messages, last_accessed, pc, guest, stream, pending, new_messages, cut>>
        /\ now' \in Nat
    BY <1>1 DEF vars, store, chat, Tick, ConversationInv, ConversationType
  <2>2. ConversationType'
    BY <2>1 DEF ConversationInv, ConversationType
  <2>3. ChatInv' /\ StoreInv'
    BY <2>1 DEF ConversationInv, ChatInv, StoreInv, Over
  <2>. QED
    BY <2>1, <2>2, <2>3 DEF ConversationInv, KeepsAll
<1>2. CASE \E c \in Chats : \E b \in Bodies : Start(c, b[1], b[2])
  BY <1>2, StartKeeps
<1>3. CASE \E c \in Chats : Progress(c)
  BY <1>3, BeginStreamKeeps, LlmAnswersKeeps, RunToolKeeps, BreakOffKeeps, LlmCallsKeeps DEF Progress
<1>4. CASE \E c \in Chats : Disconnect(c)
  BY <1>4, BreakOffKeeps
<1>5. CASE cleanup
  BY <1>5, CleanupKeeps
<1>. QED
  BY <1>1, <1>2, <1>3, <1>4, <1>5 DEF Next

\* Chats of a guest overlap, break off and are trimmed, and a conversation is
\* always a sequence of whole turns within the cap, for any guests, chats, rounds,
\* tool calls and limits.
THEOREM TurnsStayWhole == Spec => []WholeTurns
<1>1. ConversationInv => WholeTurns
  BY DEF ConversationInv, StoreInv, InStore, Turns, WholeTurns
<1>. QED
  BY <1>1, ConversationStarts, ConversationSteps, PTL DEF Spec

----------------------------------------------------------------------------
\* Of two natural numbers.
LEMMA MinOfTwo ==
    ASSUME NEW a \in Nat, NEW b \in Nat
    PROVE  Min({a, b}) = IF a <= b THEN a ELSE b
<1>. DEFINE x == IF a <= b THEN a ELSE b
<1>1. x \in {a, b} /\ \A y \in {a, b} : x <= y
  OBVIOUS
<1>2. \A z \in {a, b} : (\A y \in {a, b} : z <= y) => z = x
  OBVIOUS
<1>. QED
  BY <1>1, <1>2 DEF Min

\* cleanup removes a conversation that has expired, or one that is no newer than
\* the max_conversations it keeps.
LEMMA CleanupIsFair ==
    ASSUME ConversationInv, cleanup, NEW g \in Known, messages'[g] = <<>>
    PROVE  \/ now - last_accessed[g] > ttl
           \/ Cardinality({h \in Known \ {g} : last_accessed[h] >= last_accessed[g]}) >= max_conversations
<1>. DEFINE fresh == {h \in Known : now - last_accessed[h] <= ttl}
            better == {h \in Known \ {g} : last_accessed[h] >= last_accessed[g]}
<1>1. PICK kept \in SUBSET fresh :
        /\ Cardinality(kept) = Min({Cardinality(fresh), max_conversations})
        /\ \A a \in kept, h \in fresh \ kept : last_accessed[a] >= last_accessed[h]
        /\ messages' = [h \in Guests |-> IF h \in kept THEN messages[h] ELSE <<>>]
  BY DEF cleanup
<1>2. g \notin kept
  BY <1>1 DEF Known
<1>3. IsFiniteSet(fresh) /\ IsFiniteSet(better)
  BY ConversationAssumption, FS_Subset DEF ConversationAssumption, Known
<1>4. CASE g \notin fresh
  BY <1>4, ConversationAssumption DEF ConversationInv, ConversationType, ConversationAssumption, Known
<1>5. CASE g \in fresh
  <2>1. IsFiniteSet(kept) /\ Cardinality(kept) <= Cardinality(fresh) /\ Cardinality(kept) # Cardinality(fresh)
    BY <1>1, <1>2, <1>3, <1>5, FS_Subset
  <2>2. kept \subseteq better
    BY <1>1, <1>2, <1>5
  <2>3. Cardinality(kept) <= Cardinality(better)
    BY <1>3, <2>2, FS_Subset
  <2>. HIDE DEF fresh, better
  <2>4. Cardinality(kept) \in Nat /\ Cardinality(fresh) \in Nat /\ Cardinality(better) \in Nat
    BY <1>3, <2>1, FS_CardinalityType
  <2>5. Cardinality(kept) = max_conversations
    BY <1>1, <2>1, <2>4, MinOfTwo, ConversationAssumption DEF ConversationAssumption
  <2>6. Cardinality(better) >= max_conversations
    BY <2>3, <2>4, <2>5
  <2>. QED
    BY <2>6 DEF better
<1>. QED
  BY <1>4, <1>5

\* The conversation of a running chat was used when the chat began or later: the
\* chat has read it, or it was stored since.
UsedSince ==
    /\ began \in [Chats -> Nat]
    /\ \A c \in Chats : pc[c] \in Running => began[c] <= now
    /\ \A c \in Chats : pc[c] \in Running /\ guest[c] \in Known => last_accessed[guest[c]] >= began[c]

\* A chat that goes on changes none of it.
LEMMA GoesOnUsed ==
    ASSUME ConversationInv, UsedSince, NEW c \in Chats, pc[c] \in Running,
           NEW where, pc' = [pc EXCEPT ![c] = where], UNCHANGED <<store, now, guest, began>>
    PROVE  UsedSince'
<1>1. \A d \in Chats : pc'[d] \in Running => pc[d] \in Running
  BY DEF ConversationInv, ConversationType
<1>2. Known' = Known /\ last_accessed' = last_accessed
  BY DEF store, Known
<1>. QED
  BY <1>1, <1>2 DEF UsedSince

\* A chat that ends uses its conversation, if it stores anything.
LEMMA FinishUsed ==
    ASSUME ConversationInv, UsedSince, NEW c \in Chats, NEW msgs, NEW saved, Finish(c, msgs, saved)
    PROVE  UsedSince'
<1>1. /\ pc' = [pc EXCEPT ![c] = "done"] /\ began' = [began EXCEPT ![c] = 0]
      /\ guest' = [guest EXCEPT ![c] = NoGuest] /\ now' = now
  BY DEF Finish
<1>2. "done" \notin Running
  BY DEF Running
<1>3. ASSUME NEW d \in Chats, pc'[d] \in Running
      PROVE  d # c /\ pc[d] \in Running /\ guest'[d] = guest[d] /\ began'[d] = began[d]
  BY <1>1, <1>2, <1>3 DEF ConversationInv, ConversationType, UsedSince
<1>4. began' \in [Chats -> Nat]
  BY <1>1 DEF UsedSince
<1>5. CASE UNCHANGED store
  <2>1. Known' = Known /\ last_accessed' = last_accessed
    BY <1>5 DEF store, Known
  <2>. QED
    BY <1>1, <1>3, <1>4, <2>1 DEF UsedSince
<1>6. CASE guest[c] # NoGuest /\ append(guest[c], msgs)
  <2>1. /\ messages' = [messages EXCEPT ![guest[c]] = _trim(@ \o msgs)]
        /\ last_accessed' = [last_accessed EXCEPT ![guest[c]] = now]
    BY <1>6 DEF append
  <2>2. ASSUME NEW h \in Guests, messages'[h] # <<>>
        PROVE  \/ h = guest[c] /\ last_accessed'[h] = now
               \/ h \in Known /\ last_accessed'[h] = last_accessed[h]
    <3>1. CASE h = guest[c]
      BY <2>1, <3>1 DEF ConversationInv, ConversationType
    <3>2. CASE h # guest[c]
      BY <2>1, <2>2, <3>2 DEF Known, ConversationInv, ConversationType
    <3>. QED
      BY <3>1, <3>2
  <2>3. now \in Nat
    BY DEF ConversationInv, ConversationType
  <2>4. ASSUME NEW d \in Chats, pc'[d] \in Running, guest'[d] \in Known'
        PROVE  last_accessed'[guest'[d]] >= began'[d]
    <3>1. pc[d] \in Running /\ guest'[d] = guest[d] /\ began'[d] = began[d] /\ began[d] <= now
      BY <1>3, <2>4 DEF UsedSince
    <3>. QED
      BY <2>2, <2>3, <2>4, <3>1 DEF UsedSince, Known
  <2>. QED
    BY <1>1, <1>3, <1>4, <2>4 DEF UsedSince
<1>. QED
  BY <1>5, <1>6 DEF Finish, append

\* A chat that begins uses its conversation.
LEMMA StartUsed ==
    ASSUME ConversationInv, UsedSince, NEW c \in Chats, NEW g, NEW s, Start(c, g, s)
    PROVE  UsedSince'
<1>1. /\ guest' = [guest EXCEPT ![c] = g] /\ began' = [began EXCEPT ![c] = now] /\ now' = now
      /\ last_accessed' = IF g \in Known THEN [last_accessed EXCEPT ![g] = now] ELSE last_accessed
      /\ messages' = messages
  BY DEF Start, get_messages
<1>2. now \in Nat /\ Known' = Known
  BY <1>1 DEF ConversationInv, ConversationType, Known
<1>3. \A d \in Chats : d # c => pc'[d] = pc[d] /\ guest'[d] = guest[d] /\ began'[d] = began[d]
  BY <1>1 DEF Start, Assemble, ConversationInv, ConversationType, UsedSince
<1>4. began'[c] = now /\ guest'[c] = g /\ began' \in [Chats -> Nat]
  BY <1>1, <1>2 DEF ConversationInv, ConversationType, UsedSince
<1>5. \A h \in Known : last_accessed'[h] = IF h = g THEN now ELSE last_accessed[h]
  BY <1>1 DEF ConversationInv, ConversationType, Known
<1>6. \A d \in Chats : pc'[d] \in Running => began'[d] <= now'
  BY <1>1, <1>2, <1>3, <1>4 DEF UsedSince
<1>7. ASSUME NEW d \in Chats, pc'[d] \in Running, guest'[d] \in Known'
      PROVE  last_accessed'[guest'[d]] >= began'[d]
  <2>1. CASE d = c
    BY <1>2, <1>4, <1>5, <1>7, <2>1
  <2>2. CASE d # c
    BY <1>2, <1>3, <1>5, <1>7, <2>2 DEF UsedSince
  <2>. QED
    BY <2>1, <2>2
<1>. QED
  BY <1>4, <1>6, <1>7 DEF UsedSince

LEMMA UsedNext == UsedSince /\ ConversationInv /\ [Next]_vars => UsedSince'
<1>. SUFFICES ASSUME UsedSince, ConversationInv, [Next]_vars PROVE UsedSince'
  OBVIOUS
<1>1. ASSUME NEW c \in Chats, NEW b \in Bodies, Start(c, b[1], b[2]) PROVE UsedSince'
  BY <1>1, StartUsed
<1>2. ASSUME NEW c \in Chats, NEW m, NextRound(c, m), pc[c] \in Running PROVE UsedSince'
  BY <1>2, GoesOnUsed, FinishUsed DEF NextRound
<1>3. ASSUME NEW c \in Chats, Progress(c) \/ Disconnect(c) PROVE UsedSince'
  <2>1. CASE BeginStream(c)
    BY <2>1, GoesOnUsed DEF BeginStream, Assemble, Running
  <2>2. CASE LlmAnswers(c)
    BY <2>2, FinishUsed DEF LlmAnswers
  <2>3. CASE RunTool(c)
    <3>1. pc[c] = "tool" /\ pc[c] \in Running
      BY <2>3 DEF RunTool, Running
    <3>2. CASE UNCHANGED <<store, now, pc, guest, began>>
      <4>1. pc' = [pc EXCEPT ![c] = "tool"]
        BY <3>1, <3>2 DEF ConversationInv, ConversationType
      <4>. QED
        BY <3>1, <3>2, <4>1, GoesOnUsed
    <3>. QED
      BY <1>2, <2>3, <3>1, <3>2 DEF RunTool
  <2>4. CASE Fails(c) \/ Disconnect(c)
    BY <2>4, FinishUsed DEF Fails, Disconnect
  <2>5. ASSUME NEW n \in 0 .. MaxCalls, LlmCalls(c, n) PROVE UsedSince'
    <3>1. pc[c] \in Running
      BY <2>5 DEF LlmCalls, Running
    <3>. QED
      BY <1>2, <2>5, <3>1, GoesOnUsed DEF LlmCalls
  <2>. QED
    BY <1>3, <2>1, <2>2, <2>3, <2>4, <2>5 DEF Progress
<1>4. CASE cleanup
  <2>1. UNCHANGED <<now, pc, guest, began>>
    BY <1>4 DEF cleanup, chat
  <2>2. \A g \in Known' : g \in Known /\ last_accessed'[g] = last_accessed[g]
    BY <1>4 DEF cleanup, Known
  <2>. QED
    BY <2>1, <2>2 DEF UsedSince
<1>5. CASE Tick \/ UNCHANGED vars
  <2>1. UNCHANGED <<messages, last_accessed, pc, guest, began>> /\ now' \in Nat /\ now <= now' /\ now \in Nat
    BY <1>5 DEF Tick, vars, store, chat, ConversationInv, ConversationType
  <2>2. Known' = Known
    BY <2>1 DEF Known
  <2>. QED
    BY <2>1, <2>2 DEF UsedSince
<1>. QED
  BY <1>1, <1>3, <1>4, <1>5 DEF Next

LEMMA UsedStarts == Init => UsedSince
  BY DEF Init, UsedSince, Running

\* A conversation is not lost under a chat that runs no longer than the time to
\* live, unless as many as may be were used since it began: for any guests,
\* chats, time to live and limit (history.py, routes.py).
THEOREM KeptUnderChats == Spec => KeptUnderChat
<1>1. ASSUME ConversationInv, UsedSince, [Next]_vars, NEW c \in Chats,
             pc[c] \in Running, guest[c] \in Known, messages'[guest[c]] = <<>>
      PROVE  \/ now - began[c] > ttl
             \/ Cardinality({h \in Known \ {guest[c]} : last_accessed[h] >= began[c]}) >= max_conversations
  <2>. DEFINE g == guest[c]
              newer == {h \in Known \ {g} : last_accessed[h] >= last_accessed[g]}
              since == {h \in Known \ {g} : last_accessed[h] >= began[c]}
  <2>1. g \in Guests /\ messages[g] # <<>>
    BY <1>1 DEF Known
  <2>2. cleanup
    BY <1>1, <2>1, ConversationSteps DEF KeepsAll
  <2>3. last_accessed[g] >= began[c] /\ began[c] \in Nat /\ last_accessed[g] \in Nat /\ now \in Nat
    BY <1>1, <2>1 DEF UsedSince, ConversationInv, ConversationType
  <2>4. now - last_accessed[g] > ttl \/ Cardinality(newer) >= max_conversations
    BY <1>1, <2>2, CleanupIsFair
  <2>5. CASE now - last_accessed[g] > ttl
    BY <2>3, <2>5, ConversationAssumption DEF ConversationAssumption
  <2>6. CASE Cardinality(newer) >= max_conversations
    <3>1. newer \subseteq since
      BY <1>1, <2>3 DEF ConversationInv, ConversationType, Known
    <3>2. IsFiniteSet(since)
      BY ConversationAssumption, FS_Subset DEF ConversationAssumption, Known
    <3>3. Cardinality(newer) <= Cardinality(since) /\ IsFiniteSet(newer)
      BY <3>1, <3>2, FS_Subset
    <3>. HIDE DEF newer, since
    <3>4. Cardinality(newer) \in Nat /\ Cardinality(since) \in Nat
      BY <3>2, <3>3, FS_CardinalityType
    <3>5. Cardinality(since) >= max_conversations
      BY <2>6, <3>3, <3>4, ConversationAssumption DEF ConversationAssumption
    <3>. QED
      BY <3>5 DEF since
  <2>. QED
    BY <2>4, <2>5, <2>6
<1>2. ConversationInv /\ UsedSince /\ [Next]_vars =>
        [\A c \in Chats : pc[c] \in Running /\ guest[c] \in Known /\ messages'[guest[c]] = <<>> =>
            \/ now - began[c] > ttl
            \/ Cardinality({h \in Known \ {guest[c]} : last_accessed[h] >= began[c]}) >= max_conversations]_vars
  BY <1>1
<1>3. ConversationInv /\ [Next]_vars => ConversationInv'
  BY ConversationSteps
<1>. QED
  BY <1>2, <1>3, ConversationStarts, UsedStarts, UsedNext, PTL DEF Spec, KeptUnderChat

----------------------------------------------------------------------------
(***************************************************************************)
(* The chat as a tab shows it: the specification ChatSpec of ParrotChat.   *)
(* The posts in progress, the history on its way and the cache, which is   *)
(* written by both.                                                        *)
(***************************************************************************)
\* The copies of a text t in a history h.
Held(h, t) == Cardinality({i \in DOMAIN h : h[i] = t})

\* The reply to t is on its way to the cache.
Due(P, t) == IF \E s \in Posts : P[s].state = "ok" /\ P[s].text = t THEN 1 ELSE 0

\* The text t is in a post or may be sent once more.
Live(P, f, t) == f = t \/ \E s \in Posts : P[s].state # "idle" /\ P[s].text = t

Texts == 1 .. sends

\* The history h ends with the history e.
Ends(h, e) ==
    /\ Len(e) <= Len(h)
    /\ \A i \in 1 .. Len(e) : e[i] = h[Len(h) - Len(e) + i]

HistoryType ==
    /\ sends \in Nat /\ lost \in Nat /\ overlaps \in Nat
    /\ server \in Seq(Texts) /\ everKept \in Seq(Texts) /\ Ends(everKept, server)
    /\ \A o \in late : o[2] \in Texts
    /\ cache \in Seq(Texts) \cup {Loading}
    /\ get \in [state : {"idle", "sent", "answered"}, value : Seq(Texts)]
    /\ get.state = "idle" => get = NoGet
    /\ cache = Loading => sends = 0

PostType ==
    [state : {"idle", "sent", "ok", "error"}, text : Texts \cup {NoText}, mounted : BOOLEAN]

PanelType ==
    /\ post \in [Posts -> PostType]
    /\ \A s \in Posts : post[s].state # "idle" => post[s].text \in Texts
    /\ failed \in Texts \cup {NoText}

\* A text is in one post at most, and in none while it may be sent once more.
SinglePosts ==
    \A s \in Posts : inFlight(s) =>
        /\ failed # post[s].text
        /\ \A u \in Posts : inFlight(u) /\ post[u].text = post[s].text => u = s

\* What is counted as an overlap.
Overlapping ==
    \A s \in Posts : inFlight(s) =>
        /\ get # NoGet => overlaps >= 1
        /\ \A u \in Posts : inFlight(u) /\ u # s => overlaps >= 1

\* With k remembered, m ever kept, n shown and d due: what cache and history may
\* differ by.
Shows(k, m, n, d, l, o) == n + d - m <= o /\ k - n - d <= l + o

\* ... and the history and an answer on its way.
Catches(k, m, n, d, l, o, live) == n <= m /\ k - n - d <= l + (IF live THEN 0 ELSE o)

ShownInv ==
    cache # Loading => \A t \in Texts :
        Shows(Held(server, t), Held(everKept, t), Held(cache, t), Due(post, t), lost, overlaps)

CaughtInv ==
    get.state = "answered" => \A t \in Texts :
        Catches(Held(server, t), Held(everKept, t), Held(get.value, t), Due(post, t), lost, overlaps, Live(post, failed, t))

\* h ends with what the parrot remembers and is the end of what it was asked.
Between(h) == Ends(everKept, h) /\ Ends(h, server)

\* Without losses and overlaps so does the cache, but for the reply due.
SameInv ==
    lost = 0 /\ overlaps = 0 /\ cache # Loading =>
        /\ ~Busy => Between(cache) /\ (get.state = "answered" => Between(get.value))
        /\ \A s \in Posts : inFlight(s) =>
             Between(IF post[s].state = "ok" THEN Append(cache, post[s].text) ELSE cache)

ViewInv == HistoryType /\ PanelType /\ SinglePosts /\ Overlapping /\ ShownInv /\ CaughtInv /\ SameInv

----------------------------------------------------------------------------
LEMMA HeldIsNumber ==
    ASSUME NEW S, NEW h \in Seq(S), NEW t
    PROVE  Held(h, t) \in Nat
<1>1. DOMAIN h = 1 .. Len(h) /\ Len(h) \in Nat
  OBVIOUS
<1>2. IsFiniteSet(1 .. Len(h))
  BY <1>1, FS_Interval
<1>3. IsFiniteSet({i \in DOMAIN h : h[i] = t})
  BY <1>1, <1>2, FS_Subset
<1>. QED
  BY <1>3, FS_CardinalityType DEF Held

LEMMA HeldAppend ==
    ASSUME NEW S, NEW h \in Seq(S), NEW x \in S, NEW t
    PROVE  Held(Append(h, x), t) = IF x = t THEN Held(h, t) + 1 ELSE Held(h, t)
<1>. PICK q : q = Append(h, x)
  OBVIOUS
<1>1. /\ q \in Seq(S) /\ Len(q) = Len(h) + 1 /\ Len(h) \in Nat
      /\ \A i \in 1 .. Len(h) : q[i] = h[i]
      /\ q[Len(h) + 1] = x
  BY AppendProperties
<1>2. DOMAIN h = 1 .. Len(h) /\ DOMAIN q = 1 .. Len(h) + 1
  BY <1>1
<1>. DEFINE A == {i \in DOMAIN h : h[i] = t}
            B == {i \in DOMAIN q : q[i] = t}
<1>3. IsFiniteSet(A) /\ Len(h) + 1 \notin A
  <2>1. IsFiniteSet(1 .. Len(h))
    BY <1>1, FS_Interval
  <2>. QED
    BY <1>1, <1>2, <2>1, FS_Subset
<1>4. CASE x = t
  <2>1. B = A \cup {Len(h) + 1}
    BY <1>1, <1>2, <1>4
  <2>2. Cardinality(B) = Cardinality(A) + 1
    BY <1>3, <2>1, FS_AddElement
  <2>. QED
    BY <1>4, <2>2 DEF Held
<1>5. CASE x # t
  <2>1. B = A
    BY <1>1, <1>2, <1>5
  <2>. QED
    BY <1>5, <2>1 DEF Held
<1>. QED
  BY <1>4, <1>5

LEMMA EndsSame == ASSUME NEW S, NEW h \in Seq(S) PROVE Ends(h, h)
  BY DEF Ends

LEMMA EndsEmpty == ASSUME NEW S, NEW h \in Seq(S) PROVE Ends(h, <<>>)
  BY DEF Ends

LEMMA EndsAppend ==
    ASSUME NEW S, NEW h \in Seq(S), NEW e \in Seq(S), NEW x \in S, Ends(h, e)
    PROVE  Ends(Append(h, x), Append(e, x))
<1>. DEFINE h1 == Append(h, x)
            e1 == Append(e, x)
<1>1. /\ Len(h) \in Nat /\ Len(e) \in Nat /\ Len(h1) = Len(h) + 1 /\ Len(e1) = Len(e) + 1
      /\ \A i \in 1 .. Len(h) : h1[i] = h[i]
      /\ \A i \in 1 .. Len(e) : e1[i] = e[i]
      /\ h1[Len(h) + 1] = x /\ e1[Len(e) + 1] = x
  BY AppendProperties
<1>. HIDE DEF h1, e1
<1>2. ASSUME NEW i \in 1 .. Len(e1) PROVE e1[i] = h1[Len(h1) - Len(e1) + i]
  <2>1. CASE i \in 1 .. Len(e)
    <3>1. Len(h1) - Len(e1) + i = Len(h) - Len(e) + i /\ Len(h) - Len(e) + i \in 1 .. Len(h)
      BY <1>1, <2>1 DEF Ends
    <3>. QED
      BY <1>1, <2>1, <3>1 DEF Ends
  <2>2. CASE i = Len(e) + 1
    <3>1. Len(h1) - Len(e1) + i = Len(h) + 1
      BY <1>1, <2>2
    <3>. QED
      BY <1>1, <2>2, <3>1
  <2>. QED
    BY <1>1, <2>1, <2>2
<1>3. Len(e1) <= Len(h1)
  BY <1>1 DEF Ends
<1>. QED
  BY <1>2, <1>3 DEF Ends, h1, e1

LEMMA EndsTransitive ==
    ASSUME NEW S, NEW h \in Seq(S), NEW e \in Seq(S), NEW f \in Seq(S), Ends(h, e), Ends(e, f)
    PROVE  Ends(h, f)
<1>1. Len(h) \in Nat /\ Len(e) \in Nat /\ Len(f) \in Nat /\ Len(f) <= Len(e) /\ Len(e) <= Len(h)
  BY DEF Ends
<1>2. ASSUME NEW i \in 1 .. Len(f) PROVE f[i] = h[Len(h) - Len(f) + i]
  <2>1. f[i] = e[Len(e) - Len(f) + i] /\ Len(e) - Len(f) + i \in 1 .. Len(e)
    BY <1>1 DEF Ends
  <2>2. e[Len(e) - Len(f) + i] = h[Len(h) - Len(e) + (Len(e) - Len(f) + i)]
    BY <2>1 DEF Ends
  <2>3. Len(h) - Len(e) + (Len(e) - Len(f) + i) = Len(h) - Len(f) + i
    BY <1>1
  <2>. QED
    BY <2>1, <2>2, <2>3
<1>. QED
  BY <1>1, <1>2 DEF Ends

LEMMA TrimmedEnds ==
    ASSUME NEW S, NEW h \in Seq(S)
    PROVE  Trimmed(h) \in Seq(S) /\ Ends(h, Trimmed(h))
<1>. DEFINE k == IF Len(h) > MaxTurns THEN Len(h) - MaxTurns + 1 ELSE 1
            e == SubSeq(h, k, Len(h))
<1>1. Len(h) \in Nat /\ MaxTurns \in Nat /\ k \in 1 .. Len(h) + 1 /\ k \in Int
  BY ChatAssumption
<1>2. \A i \in k .. Len(h) : h[i] \in S
  BY <1>1
<1>. HIDE DEF k
<1>3. /\ e \in Seq(S)
      /\ Len(e) = IF k <= Len(h) THEN Len(h) - k + 1 ELSE 0
      /\ \A i \in 1 .. Len(h) - k + 1 : e[i] = h[k + i - 1]
  BY <1>1, <1>2, SubSeqProperties
<1>. HIDE DEF e
<1>4. Len(e) = Len(h) - k + 1
  BY <1>1, <1>3
<1>5. ASSUME NEW i \in 1 .. Len(e) PROVE e[i] = h[Len(h) - Len(e) + i]
  <2>1. Len(h) - Len(e) + i = k + i - 1 /\ i \in 1 .. Len(h) - k + 1
    BY <1>1, <1>4
  <2>. QED
    BY <1>3, <2>1
<1>6. Ends(h, e)
  BY <1>1, <1>4, <1>5 DEF Ends
<1>7. Trimmed(h) = e
  BY DEF Trimmed, e, k
<1>. QED
  BY <1>3, <1>6, <1>7

\* An end holds no more copies of a text than the whole.
LEMMA HeldEnds ==
    ASSUME NEW S, NEW h \in Seq(S), NEW e \in Seq(S), Ends(h, e), NEW t
    PROVE  Held(e, t) <= Held(h, t)
<1>. DEFINE A == {i \in DOMAIN e : e[i] = t}
            B == {i \in DOMAIN h : h[i] = t}
            f == [i \in A |-> Len(h) - Len(e) + i]
<1>1. /\ Len(h) \in Nat /\ Len(e) \in Nat /\ Len(e) <= Len(h)
      /\ DOMAIN h = 1 .. Len(h) /\ DOMAIN e = 1 .. Len(e)
  BY DEF Ends
<1>2. IsFiniteSet(B)
  <2>1. IsFiniteSet(1 .. Len(h))
    BY <1>1, FS_Interval
  <2>. QED
    BY <1>1, <2>1, FS_Subset
<1>3. \A i \in A : Len(h) - Len(e) + i \in B
  BY <1>1 DEF Ends
<1>4. \A i, j \in A : Len(h) - Len(e) + i = Len(h) - Len(e) + j => i = j
  BY <1>1
<1>5. f \in Injection(A, B)
  <2>. HIDE DEF A, B
  <2>. QED
    BY <1>3, <1>4 DEF Injection, IsInjective
<1>. HIDE DEF f, A, B
<1>6. Cardinality(A) <= Cardinality(B)
  BY <1>2, <1>5, FS_Injection
<1>. QED
  BY <1>6 DEF Held, A, B

\* What is kept goes behind everything, and the oldest may be forgotten.
LEMMA KeepFacts ==
    ASSUME HistoryType, NEW x \in Texts, Keep(x)
    PROVE  /\ server' \in Seq(Texts) /\ everKept' \in Seq(Texts) /\ Ends(everKept', server')
           /\ \A t : /\ Held(server, t) \in Nat /\ Held(everKept, t) \in Nat
                     /\ Held(server', t) \in Nat /\ Held(everKept', t) \in Nat
                     /\ Held(server', t) <= Held(server, t) + (IF x = t THEN 1 ELSE 0)
                     /\ Held(everKept', t) = Held(everKept, t) + (IF x = t THEN 1 ELSE 0)
           /\ \A h \in Seq(Texts) : Between(h) => Ends(everKept', Append(h, x)) /\ Ends(Append(h, x), server')
<1>. DEFINE a == Append(server, x)
<1>1. /\ server \in Seq(Texts) /\ everKept \in Seq(Texts) /\ Ends(everKept, server)
      /\ server' = Trimmed(a) /\ everKept' = Append(everKept, x)
  BY DEF HistoryType, Keep
<1>2. a \in Seq(Texts) /\ everKept' \in Seq(Texts) /\ Ends(everKept', a)
  BY <1>1, AppendProperties, EndsAppend
<1>3. server' \in Seq(Texts) /\ Ends(a, server')
  BY <1>1, <1>2, TrimmedEnds
<1>4. Ends(everKept', server')
  BY <1>2, <1>3, EndsTransitive
<1>5. ASSUME NEW t
      PROVE  /\ Held(server, t) \in Nat /\ Held(everKept, t) \in Nat
             /\ Held(server', t) \in Nat /\ Held(everKept', t) \in Nat
             /\ Held(server', t) <= Held(server, t) + (IF x = t THEN 1 ELSE 0)
             /\ Held(everKept', t) = Held(everKept, t) + (IF x = t THEN 1 ELSE 0)
  <2>1. /\ Held(server, t) \in Nat /\ Held(everKept, t) \in Nat
        /\ Held(server', t) \in Nat /\ Held(everKept', t) \in Nat
    BY <1>1, <1>2, <1>3, HeldIsNumber
  <2>2. Held(a, t) = IF x = t THEN Held(server, t) + 1 ELSE Held(server, t)
    BY <1>1, HeldAppend
  <2>3. Held(Append(everKept, x), t) = IF x = t THEN Held(everKept, t) + 1 ELSE Held(everKept, t)
    BY <1>1, HeldAppend
  <2>4. Held(server', t) <= Held(a, t)
    BY <1>2, <1>3, HeldEnds
  <2>5. Held(everKept', t) = Held(everKept, t) + (IF x = t THEN 1 ELSE 0)
    BY <1>1, <2>1, <2>3
  <2>6. Held(server', t) <= Held(server, t) + (IF x = t THEN 1 ELSE 0)
    BY <2>1, <2>2, <2>4
  <2>. QED
    BY <2>1, <2>5, <2>6
<1>6. ASSUME NEW h \in Seq(Texts), Between(h)
      PROVE  Ends(everKept', Append(h, x)) /\ Ends(Append(h, x), server')
  <2>1. Append(h, x) \in Seq(Texts)
    BY AppendProperties
  <2>2. Ends(everKept', Append(h, x)) /\ Ends(Append(h, x), a)
    BY <1>1, <1>6, EndsAppend DEF Between
  <2>. QED
    BY <1>2, <1>3, <2>1, <2>2, EndsTransitive
<1>. QED
  BY <1>2, <1>3, <1>4, <1>5, <1>6

\* The suffix of the community modules.
LEMMA SuffixIsEnd ==
    ASSUME NEW S, NEW h \in Seq(S), NEW e \in Seq(S), Ends(h, e)
    PROVE  IsSuffix(e, h)
<1>. DEFINE H == Reverse(h)
            E == Reverse(e)
<1>1. Len(h) \in Nat /\ Len(e) \in Nat /\ Len(e) <= Len(h)
  BY DEF Ends
<1>2. /\ H = [i \in 1 .. Len(h) |-> h[Len(h) - i + 1]]
      /\ E = [i \in 1 .. Len(e) |-> e[Len(e) - i + 1]]
  BY DEF Reverse
<1>3. H \in Seq(S) /\ E \in Seq(S) /\ Len(H) = Len(h) /\ Len(E) = Len(e)
  BY <1>1, <1>2
<1>4. ASSUME NEW i \in 1 .. Len(e) PROVE E[i] = H[i]
  <2>1. Len(e) - i + 1 \in 1 .. Len(e) /\ Len(h) - Len(e) + (Len(e) - i + 1) = Len(h) - i + 1
    BY <1>1
  <2>2. e[Len(e) - i + 1] = h[Len(h) - i + 1]
    BY <2>1 DEF Ends
  <2>. QED
    BY <1>1, <1>2, <2>2
<1>. HIDE DEF H, E
<1>5. SubSeq(E, 1, Len(E)) = SubSeq(H, 1, Len(E))
  <2>1. /\ SubSeq(E, 1, Len(E)) \in Seq(S) /\ Len(SubSeq(E, 1, Len(E))) = Len(E)
        /\ \A i \in 1 .. Len(E) : SubSeq(E, 1, Len(E))[i] = E[i]
    BY <1>1, <1>3, SubSeqProperties
  <2>2. /\ SubSeq(H, 1, Len(E)) \in Seq(S) /\ Len(SubSeq(H, 1, Len(E))) = Len(E)
        /\ \A i \in 1 .. Len(E) : SubSeq(H, 1, Len(E))[i] = H[i]
    BY <1>1, <1>3, SubSeqProperties
  <2>. QED
    BY <1>3, <1>4, <2>1, <2>2, SeqEqual
<1>. QED
  BY <1>1, <1>3, <1>5 DEF IsSuffix, IsPrefix, H, E

LEMMA HeldNone ==
    ASSUME NEW S, NEW h \in Seq(S), NEW t, t \notin S
    PROVE  Held(h, t) = 0
<1>1. {i \in DOMAIN h : h[i] = t} = {}
  OBVIOUS
<1>. QED
  BY <1>1, FS_EmptySet DEF Held

LEMMA NotLoading ==
    ASSUME NEW n \in Nat, NEW h \in Seq(1 .. n)
    PROVE  h # Loading
<1>1. \A i \in 1 .. Len(h) : h[i] \in 1 .. n
  BY ElementOfSeq
<1>2. Len(Loading) = 1 /\ Loading[1] = 0
  BY DEF Loading
<1>. QED
  BY <1>1, <1>2

LEMMA OnlyEmpty ==
    ASSUME NEW h \in Seq(1 .. 0)
    PROVE  h = <<>>
<1>1. CASE Len(h) >= 1
  <2>1. h[1] \in 1 .. 0
    BY <1>1, ElementOfSeq
  <2>. QED
    BY <2>1
<1>2. CASE ~(Len(h) >= 1)
  <2>1. h # <<>> => Len(h) \in Nat \ {0}
    BY EmptySeq
  <2>. QED
    BY <1>2, <2>1
<1>. QED
  BY <1>1, <1>2

\* P and Q differ at s at most.
Beside(P, Q, s) == \A u \in Posts : u # s => Q[u] = P[u]

\* No post but s has the text t.
Alone(P, s, t) == \A u \in Posts : P[u].state # "idle" /\ P[u].text = t => u = s

LEMMA DueAlone ==
    ASSUME NEW P, NEW Q, NEW s \in Posts, Beside(P, Q, s), NEW t, Alone(P, s, t)
    PROVE  /\ Due(P, t) = IF P[s].state = "ok" /\ P[s].text = t THEN 1 ELSE 0
           /\ Due(Q, t) = IF Q[s].state = "ok" /\ Q[s].text = t THEN 1 ELSE 0
  BY DEF Beside, Due, Alone

LEMMA DueKept ==
    ASSUME NEW P, NEW Q, NEW s \in Posts, Beside(P, Q, s), NEW t,
           ~(P[s].state = "ok" /\ P[s].text = t), ~(Q[s].state = "ok" /\ Q[s].text = t)
    PROVE  Due(Q, t) = Due(P, t)
  BY DEF Beside, Due

LEMMA DueType == \A P, t : Due(P, t) \in {0, 1}
  BY DEF Due

LEMMA ViewStarts ==
    ASSUME ChatInit
    PROVE  ViewInv
<1>. USE DEF ChatInit
<1>0. Ends(<<>>, <<>>)
  BY DEF Ends
<1>1. HistoryType /\ PanelType
  BY <1>0 DEF HistoryType, PanelType, PostType, Texts, Idle, Loading
<1>2. \A s \in Posts : ~inFlight(s)
  BY DEF inFlight, Idle
<1>3. ShownInv /\ CaughtInv /\ SameInv
  BY DEF ShownInv, CaughtInv, SameInv, Loading
<1>. QED
  BY <1>1, <1>2, <1>3 DEF ViewInv, SinglePosts, Overlapping

----------------------------------------------------------------------------
LEMMA RefetchKeeps ==
    ASSUME ViewInv, refetchHistory,
           UNCHANGED <<server, late, everKept, cache, post, failed, sends, lost>>
    PROVE  ViewInv'
<1>. USE DEF ViewInv
<1>1. CASE get # NoGet
  <2>1. UNCHANGED <<server, late, everKept, cache, post, failed, sends, lost, get, overlaps>>
    BY <1>1 DEF refetchHistory
  <2>. QED
    BY <2>1 DEF HistoryType, PanelType, PostType, Texts, SinglePosts, Overlapping, ShownInv, CaughtInv, SameInv,
                inFlight, Busy, Between
<1>2. CASE get = NoGet
  <2>1. /\ get' = [state |-> "sent", value |-> <<>>]
        /\ overlaps' \in Nat /\ overlaps' >= overlaps /\ overlaps \in Nat /\ lost \in Nat
        /\ Busy => overlaps' >= 1
        /\ overlaps' = 0 => overlaps = 0
    BY <1>2 DEF refetchHistory, Overlap, HistoryType
  <2>2. HistoryType' /\ PanelType'
    BY <2>1 DEF HistoryType, PanelType, PostType, Texts
  <2>3. SinglePosts' /\ Overlapping'
    BY <2>1 DEF SinglePosts, Overlapping, inFlight, Busy
  <2>4. ShownInv'
    <3>. SUFFICES ASSUME cache # Loading, NEW t \in Texts
                  PROVE  Shows(Held(server, t), Held(everKept, t), Held(cache, t), Due(post, t), lost, overlaps')
      BY DEF ShownInv, Texts
    <3>1. Shows(Held(server, t), Held(everKept, t), Held(cache, t), Due(post, t), lost, overlaps)
      BY DEF ShownInv
    <3>2. Held(server, t) \in Nat /\ Held(everKept, t) \in Nat /\ Held(cache, t) \in Nat /\ Due(post, t) \in {0, 1}
      BY HeldIsNumber, DueType DEF HistoryType
    <3>. QED
      BY <2>1, <3>1, <3>2 DEF Shows
  <2>5. CaughtInv'
    BY <2>1 DEF CaughtInv
  <2>6. SameInv'
    BY <2>1 DEF SameInv, inFlight, Busy, Between
  <2>. QED
    BY <2>2, <2>3, <2>4, <2>5, <2>6
<1>. QED
  BY <1>1, <1>2

LEMMA NoTextIsNone ==
    ASSUME HistoryType
    PROVE  NoText \notin Texts
  BY ChatAssumption DEF HistoryType, Texts

LEMMA ClosePanelKeeps ==
    ASSUME ViewInv, ClosePanel
    PROVE  ViewInv'
<1>. USE DEF ViewInv
<1>1. /\ UNCHANGED <<server, late, everKept, cache, get, sends, lost, overlaps>> /\ failed' = NoText
      /\ post' = [s \in Posts |-> [post[s] EXCEPT !.mounted = FALSE]]
      /\ Texts' = Texts
  BY DEF ClosePanel, history, parrot, Texts
<1>2. ASSUME NEW s \in Posts
      PROVE  post'[s] \in PostType /\ post'[s].state = post[s].state /\ post'[s].text = post[s].text
  BY <1>1 DEF PanelType, PostType
<1>3. HistoryType' /\ PanelType'
  <2>1. HistoryType'
    BY <1>1 DEF HistoryType
  <2>2. PostType' = PostType
    BY <1>1 DEF PostType
  <2>. QED
    BY <1>1, <1>2, <2>1, <2>2 DEF PanelType
<1>4. \A s \in Posts : inFlight(s)' = inFlight(s)
  BY <1>2 DEF inFlight
<1>5. SinglePosts'
  <2>. SUFFICES ASSUME NEW s \in Posts, inFlight(s)'
                PROVE  /\ failed' # post'[s].text
                       /\ \A u \in Posts : inFlight(u)' /\ post'[u].text = post'[s].text => u = s
    BY DEF SinglePosts
  <2>1. inFlight(s) /\ post'[s].text = post[s].text
    BY <1>2, <1>4
  <2>2. post[s].text \in Texts
    BY <2>1 DEF PanelType, inFlight
  <2>3. failed' # post'[s].text
    BY <1>1, <2>1, <2>2, NoTextIsNone
  <2>4. ASSUME NEW u \in Posts, inFlight(u)', post'[u].text = post'[s].text PROVE u = s
    <3>1. inFlight(u) /\ post'[u].text = post[u].text
      BY <1>2, <1>4, <2>4
    <3>. QED
      BY <2>1, <2>4, <3>1 DEF SinglePosts
  <2>. QED
    BY <2>3, <2>4
<1>6. Overlapping'
  BY <1>1, <1>4 DEF Overlapping
<1>7. \A t : Due(post', t) = Due(post, t)
  BY <1>2 DEF Due
<1>8. ASSUME NEW t \in Texts, Live(post', failed', t) PROVE Live(post, failed, t)
  BY <1>1, <1>2, <1>8, NoTextIsNone DEF Live
<1>9. ShownInv'
  BY <1>1, <1>7 DEF ShownInv
<1>10. CaughtInv'
  <2>. SUFFICES ASSUME get.state = "answered", NEW t \in Texts
                PROVE  Catches(Held(server, t), Held(everKept, t), Held(get.value, t), Due(post, t), lost, overlaps,
                               Live(post', failed', t))
    BY <1>1, <1>7 DEF CaughtInv
  <2>1. Catches(Held(server, t), Held(everKept, t), Held(get.value, t), Due(post, t), lost, overlaps,
                Live(post, failed, t))
    BY DEF CaughtInv
  <2>2. /\ Held(server, t) \in Nat /\ Held(everKept, t) \in Nat /\ Held(get.value, t) \in Nat /\ Due(post, t) \in {0, 1}
        /\ lost \in Nat /\ overlaps \in Nat
    BY HeldIsNumber, DueType DEF HistoryType
  <2>. QED
    BY <1>8, <2>1, <2>2 DEF Catches
<1>11. SameInv'
  <2>1. Busy' = Busy
    BY <1>4 DEF Busy
  <2>. QED
    BY <1>1, <1>2, <1>4, <2>1 DEF SameInv, Between
<1>. QED
  BY <1>3, <1>5, <1>6, <1>9, <1>10, <1>11

LEMMA HeldTypes ==
    ASSUME HistoryType, NEW t
    PROVE  /\ Held(server, t) \in Nat /\ Held(everKept, t) \in Nat /\ Held(get.value, t) \in Nat
           /\ cache # Loading => Held(cache, t) \in Nat
           /\ Held(server, t) <= Held(everKept, t)
  BY HeldIsNumber, HeldEnds DEF HistoryType

\* A post is sent: with a new text, or once more with the failed one.
LEMMA MutateKeeps ==
    ASSUME ViewInv, NEW s \in Posts, NEW text, mutate(s, text),
           UNCHANGED <<server, late, everKept, cache, get, lost>>,
           \/ sends' = sends + 1 /\ text = sends + 1 /\ cache # Loading
           \/ sends' = sends /\ text = failed /\ failed # NoText
    PROVE  ViewInv'
<1>. USE DEF ViewInv
<1>1. /\ sends \in Nat /\ sends' \in Nat /\ lost \in Nat /\ overlaps \in Nat /\ Texts \subseteq Texts'
      /\ text \in Texts'
      /\ cache # Loading
  BY DEF HistoryType, PanelType, Texts
<1>2. /\ ~inFlight(s) /\ failed' = NoText
      /\ post' = [post EXCEPT ![s] = [state |-> "sent", text |-> text, mounted |-> TRUE]]
      /\ overlaps' \in Nat /\ overlaps <= overlaps'
      /\ get # NoGet \/ Busy => overlaps' >= 1
  BY <1>1 DEF mutate, Overlap
<1>3. /\ post'[s] = [state |-> "sent", text |-> text, mounted |-> TRUE]
      /\ post'[s].state = "sent" /\ post'[s].text = text
      /\ Beside(post, post', s)
  BY <1>2 DEF PanelType, Beside
<1>4. ASSUME NEW u \in Posts PROVE inFlight(u)' <=> u = s \/ inFlight(u)
  <2>1. CASE u = s
    BY <1>3, <2>1 DEF inFlight
  <2>2. CASE u # s
    <3>1. post'[u] = post[u]
      BY <1>3, <2>2 DEF Beside
    <3>. QED
      BY <2>2, <3>1 DEF inFlight
  <2>. QED
    BY <2>1, <2>2
<1>5. NoText \notin Texts' /\ NoText \notin Texts
  BY ChatAssumption, <1>1 DEF Texts
<1>6. HistoryType'
  <2>1. Seq(Texts) \subseteq Seq(Texts')
    BY <1>1, SeqMonotonic
  <2>. QED
    BY <1>1, <1>2, <2>1 DEF HistoryType
<1>7. PanelType'
  <2>1. \A u \in Posts : post'[u] \in PostType' /\ (post'[u].state # "idle" => post'[u].text \in Texts')
    <3>. SUFFICES ASSUME NEW u \in Posts
                  PROVE  post'[u] \in PostType' /\ (post'[u].state # "idle" => post'[u].text \in Texts')
      OBVIOUS
    <3>1. CASE u = s
      <4>1. [state |-> "sent", text |-> text, mounted |-> TRUE] \in PostType'
        BY <1>1 DEF PostType
      <4>. QED
        BY <1>1, <1>3, <3>1, <4>1
    <3>2. CASE u # s
      BY <1>1, <1>3, <3>2 DEF PanelType, PostType, Beside
    <3>. QED
      BY <3>1, <3>2
  <2>2. post' \in [Posts -> PostType']
    BY <1>2, <2>1 DEF PanelType
  <2>. QED
    BY <1>2, <2>1, <2>2 DEF PanelType
<1>8. \A u \in Posts : inFlight(u) => post[u].text # text /\ u # s /\ post'[u] = post[u]
  <2>. SUFFICES ASSUME NEW u \in Posts, inFlight(u)
                PROVE  post[u].text # text /\ u # s /\ post'[u] = post[u]
    OBVIOUS
  <2>1. post[u].text \in Texts /\ failed # post[u].text
    BY DEF PanelType, SinglePosts, inFlight
  <2>2. post[u].text # text
    BY <1>1, <2>1 DEF Texts
  <2>. QED
    BY <1>2, <1>3, <2>2 DEF Beside
<1>9. SinglePosts'
  <2>. SUFFICES ASSUME NEW u \in Posts, inFlight(u)'
                PROVE  /\ NoText # post'[u].text
                       /\ \A v \in Posts : inFlight(v)' /\ post'[v].text = post'[u].text => v = u
    BY <1>2 DEF SinglePosts
  <2>1. NoText # post'[u].text
    BY <1>5, <1>7 DEF PanelType, inFlight
  <2>2. ASSUME NEW v \in Posts, inFlight(v)', post'[v].text = post'[u].text PROVE v = u
    BY <1>3, <1>4, <1>8, <2>2 DEF SinglePosts
  <2>. QED
    BY <2>1, <2>2
<1>10. Overlapping'
  <2>. SUFFICES ASSUME NEW u \in Posts, inFlight(u)'
                PROVE  /\ get # NoGet => overlaps' >= 1
                       /\ \A v \in Posts : inFlight(v)' /\ v # u => overlaps' >= 1
    BY DEF Overlapping, NoGet
  <2>1. get # NoGet => overlaps' >= 1
    BY <1>2
  <2>2. ASSUME NEW v \in Posts, inFlight(v)', v # u PROVE overlaps' >= 1
    <3>1. Busy
      BY <1>4, <2>2 DEF Busy
    <3>. QED
      BY <1>2, <3>1
  <2>. QED
    BY <2>1, <2>2
<1>11. ASSUME NEW t PROVE Due(post', t) = Due(post, t)
  <2>1. ~(post[s].state = "ok" /\ post[s].text = t) /\ ~(post'[s].state = "ok" /\ post'[s].text = t)
    BY <1>2, <1>3 DEF inFlight
  <2>. QED
    BY <1>3, <2>1, DueKept
<1>12. ASSUME NEW t \in Texts, Live(post', failed', t) PROVE Live(post, failed, t)
  <2>1. PICK u \in Posts : post'[u].state # "idle" /\ post'[u].text = t
    BY <1>2, <1>5, <1>12 DEF Live
  <2>2. CASE u = s
    <3>1. t = text
      BY <1>3, <2>1, <2>2
    <3>2. t = failed
      BY <1>1, <3>1 DEF Texts
    <3>. QED
      BY <3>2 DEF Live
  <2>3. CASE u # s
    BY <1>3, <2>1, <2>3 DEF Live, Beside
  <2>. QED
    BY <2>2, <2>3
<1>13. ASSUME NEW t \in Texts', t \notin Texts
       PROVE  /\ Held(server, t) = 0 /\ Held(everKept, t) = 0 /\ Held(cache, t) = 0 /\ Held(get.value, t) = 0
              /\ Due(post, t) = 0
  <2>1. server \in Seq(Texts) /\ everKept \in Seq(Texts) /\ cache \in Seq(Texts) /\ get.value \in Seq(Texts)
    BY <1>1 DEF HistoryType
  <2>2. Held(server, t) = 0 /\ Held(everKept, t) = 0 /\ Held(cache, t) = 0 /\ Held(get.value, t) = 0
    BY <1>13, <2>1, HeldNone
  <2>3. Due(post, t) = 0
    BY <1>13 DEF Due, PanelType
  <2>. QED
    BY <2>2, <2>3
<1>14. ShownInv'
  <2>. SUFFICES ASSUME NEW t \in Texts'
                PROVE  Shows(Held(server, t), Held(everKept, t), Held(cache, t), Due(post, t), lost, overlaps')
    BY <1>11 DEF ShownInv
  <2>1. CASE t \in Texts
    <3>1. Shows(Held(server, t), Held(everKept, t), Held(cache, t), Due(post, t), lost, overlaps)
      BY <1>1, <2>1 DEF ShownInv
    <3>2. Held(server, t) \in Nat /\ Held(everKept, t) \in Nat /\ Held(cache, t) \in Nat /\ Due(post, t) \in {0, 1}
      BY <1>1, HeldTypes, DueType
    <3>. QED
      BY <1>1, <1>2, <3>1, <3>2 DEF Shows
  <2>2. CASE t \notin Texts
    BY <1>1, <1>2, <1>13, <2>2 DEF Shows
  <2>. QED
    BY <2>1, <2>2
<1>15. CaughtInv'
  <2>. SUFFICES ASSUME NEW t \in Texts', get.state = "answered"
                PROVE  Catches(Held(server, t), Held(everKept, t), Held(get.value, t), Due(post, t), lost, overlaps',
                               Live(post', failed', t))
    BY <1>11 DEF CaughtInv
  <2>1. CASE t \in Texts
    <3>1. Catches(Held(server, t), Held(everKept, t), Held(get.value, t), Due(post, t), lost, overlaps,
                  Live(post, failed, t))
      BY <2>1 DEF CaughtInv
    <3>2. Held(server, t) \in Nat /\ Held(everKept, t) \in Nat /\ Held(get.value, t) \in Nat /\ Due(post, t) \in {0, 1}
      BY HeldTypes, DueType
    <3>. QED
      <4>1. Live(post', failed', t) => Live(post, failed, t)
        BY <1>12, <2>1
      <4>2. overlaps' \in Nat /\ overlaps <= overlaps' /\ overlaps \in Nat /\ lost \in Nat
        BY <1>1, <1>2
      <4>. QED
        BY <3>1, <3>2, <4>1, <4>2 DEF Catches
  <2>2. CASE t \notin Texts
    BY <1>1, <1>2, <1>13, <2>2 DEF Catches
  <2>. QED
    BY <2>1, <2>2
<1>16. SameInv'
  <2>. SUFFICES ASSUME lost = 0, overlaps' = 0
                PROVE  /\ Busy'
                       /\ \A u \in Posts : inFlight(u)' =>
                            Between(IF post'[u].state = "ok" THEN Append(cache, post'[u].text) ELSE cache)
    BY DEF SameInv, Between
  <2>1. overlaps = 0 /\ ~Busy
    BY <1>1, <1>2
  <2>2. Between(cache)
    BY <1>1, <2>1 DEF SameInv
  <2>3. \A u \in Posts : inFlight(u)' => u = s
    BY <1>4, <2>1 DEF Busy
  <2>4. Busy'
    BY <1>4 DEF Busy
  <2>. QED
    BY <1>3, <2>2, <2>3, <2>4
<1>. QED
  BY <1>6, <1>7, <1>9, <1>10, <1>14, <1>15, <1>16

LEMMA SendKeeps ==
    ASSUME ViewInv, NEW s \in Posts,
           sendMessage(s) \/ retryFailedMessage(s)
    PROVE  ViewInv'
<1>1. CASE sendMessage(s)
  <2>1. /\ mutate(s, sends + 1) /\ UNCHANGED <<server, late, everKept, cache, get, lost>>
        /\ sends' = sends + 1 /\ cache # Loading
    BY <1>1 DEF sendMessage, history, parrot, composerDisabled, isHistoryReady
  <2>. QED
    BY <2>1, MutateKeeps
<1>2. CASE retryFailedMessage(s)
  <2>1. /\ mutate(s, failed) /\ UNCHANGED <<server, late, everKept, cache, get, lost>>
        /\ sends' = sends /\ failed # NoText
    BY <1>2 DEF retryFailedMessage, history, parrot
  <2>. QED
    BY <2>1, MutateKeeps
<1>. QED
  BY <1>1, <1>2

----------------------------------------------------------------------------
\* The post s goes from one state to another and keeps its text.
LEMMA PostMoves ==
    ASSUME PanelType, NEW s \in Posts, post[s].state # "idle",
           NEW where \in {"sent", "ok", "error"}, post' = [post EXCEPT ![s].state = where],
           failed' = failed, sends' = sends
    PROVE  /\ PanelType' /\ Beside(post, post', s)
           /\ post'[s].state = where
           /\ \A u \in Posts : /\ post'[u].text = post[u].text
                               /\ inFlight(u)' <=> inFlight(u)
           /\ \A t : Live(post', failed', t) <=> Live(post, failed, t)
<1>1. Texts' = Texts /\ PostType' = PostType
  BY DEF Texts, PostType
<1>2. Beside(post, post', s)
  BY DEF PanelType, Beside
<1>3. post'[s] \in PostType /\ post'[s].state = where /\ post'[s].text = post[s].text
  BY DEF PanelType, PostType
<1>4. ASSUME NEW u \in Posts
      PROVE  /\ post'[u] \in PostType /\ post'[u].text = post[u].text
             /\ post'[u].state # "idle" <=> post[u].state # "idle"
  <2>1. CASE u = s
    BY <1>3, <2>1
  <2>2. CASE u # s
    BY <1>2, <2>2 DEF PanelType, Beside
  <2>. QED
    BY <2>1, <2>2
<1>5. post' \in [Posts -> PostType']
  BY <1>1, <1>4 DEF PanelType
<1>6. PanelType'
  BY <1>1, <1>4, <1>5 DEF PanelType
<1>7. \A t : Live(post', failed', t) <=> Live(post, failed, t)
  BY <1>4 DEF Live
<1>. QED
  BY <1>2, <1>3, <1>4, <1>6, <1>7 DEF inFlight

\* What the posts, the texts and the overlaps have to do with each other, when no
\* post comes or goes.
LEMMA FlightKept ==
    ASSUME SinglePosts, Overlapping, UNCHANGED <<get, failed, overlaps>>,
           \A u \in Posts : post'[u].text = post[u].text /\ (inFlight(u)' <=> inFlight(u))
    PROVE  SinglePosts' /\ Overlapping' /\ (Busy' <=> Busy)
<1>1. SinglePosts'
  BY DEF SinglePosts
<1>2. Overlapping'
  BY DEF Overlapping
<1>3. Busy' <=> Busy
  BY DEF Busy
<1>. QED
  BY <1>1, <1>2, <1>3

LEMMA ServeKeeps ==
    ASSUME ViewInv, NEW s \in Posts, Serve(s)
    PROVE  ViewInv'
<1>. USE DEF ViewInv
<1>. DEFINE x == post[s].text
<1>1. /\ post[s].state = "sent" /\ Keep(x)
      /\ post' = [post EXCEPT ![s].state = "ok"]
      /\ UNCHANGED <<late, cache, get, failed, sends, lost, overlaps>>
  BY DEF Serve, panel
<1>2. /\ PanelType' /\ Beside(post, post', s) /\ post'[s].state = "ok"
      /\ \A u \in Posts : post'[u].text = post[u].text /\ (inFlight(u)' <=> inFlight(u))
      /\ \A t : Live(post', failed', t) <=> Live(post, failed, t)
  BY <1>1, PostMoves
<1>3. SinglePosts' /\ Overlapping' /\ (Busy' <=> Busy)
  BY <1>1, <1>2, FlightKept
<1>4. /\ x \in Texts /\ Texts' = Texts /\ inFlight(s) /\ post'[s].text = x
      /\ \A t : t = x => Alone(post, s, t)
  BY <1>1, <1>2 DEF PanelType, Texts, inFlight, SinglePosts, Alone
<1>5. cache \in Seq(Texts) /\ cache # Loading /\ sends \in Nat /\ lost \in Nat /\ overlaps \in Nat
  BY <1>4 DEF HistoryType, Texts
<1>. HIDE DEF x
<1>6. /\ server' \in Seq(Texts) /\ everKept' \in Seq(Texts) /\ Ends(everKept', server')
      /\ \A t : /\ Held(server, t) \in Nat /\ Held(everKept, t) \in Nat
                /\ Held(server', t) \in Nat /\ Held(everKept', t) \in Nat
                /\ Held(server', t) <= Held(server, t) + (IF x = t THEN 1 ELSE 0)
                /\ Held(everKept', t) = Held(everKept, t) + (IF x = t THEN 1 ELSE 0)
      /\ \A h \in Seq(Texts) : Between(h) => Ends(everKept', Append(h, x)) /\ Ends(Append(h, x), server')
  BY <1>1, <1>4, KeepFacts
<1>7. HistoryType'
  BY <1>1, <1>4, <1>6 DEF HistoryType
<1>8. ASSUME NEW t \in Texts
      PROVE  /\ Due(post, t) \in {0, 1} /\ Due(post', t) \in {0, 1}
             /\ Due(post', t) = Due(post, t) + (IF x = t THEN 1 ELSE 0)
  <2>1. CASE x = t
    <3>1. Alone(post, s, t) /\ post'[s].text = t
      BY <1>4, <2>1
    <3>2. /\ Due(post, t) = IF post[s].state = "ok" /\ post[s].text = t THEN 1 ELSE 0
          /\ Due(post', t) = IF post'[s].state = "ok" /\ post'[s].text = t THEN 1 ELSE 0
      BY <1>2, <3>1, DueAlone
    <3>. QED
      BY <1>1, <1>2, <2>1, <3>1, <3>2
  <2>2. CASE x # t
    <3>1. ~(post[s].state = "ok" /\ post[s].text = t) /\ ~(post'[s].state = "ok" /\ post'[s].text = t)
      BY <1>1, <1>4, <2>2
    <3>2. Due(post', t) = Due(post, t)
      BY <1>2, <3>1, DueKept
    <3>. QED
      BY <2>2, <3>2, DueType
  <2>. QED
    BY <2>1, <2>2
<1>9. ShownInv'
  <2>. SUFFICES ASSUME NEW t \in Texts
                PROVE  Shows(Held(server', t), Held(everKept', t), Held(cache, t), Due(post', t), lost, overlaps)
    BY <1>1, <1>4 DEF ShownInv
  <2>. DEFINE k == Held(server, t)  k1 == Held(server', t)  m == Held(everKept, t)  m1 == Held(everKept', t)
              n == Held(cache, t)  d == Due(post, t)  d1 == Due(post', t)  b == IF x = t THEN 1 ELSE 0
  <2>1. /\ k \in Nat /\ k1 \in Nat /\ m \in Nat /\ m1 \in Nat /\ n \in Nat /\ d \in Nat /\ b \in Nat
        /\ k1 <= k + b /\ m1 = m + b /\ d1 = d + b
    BY <1>5, <1>6, <1>8, HeldTypes
  <2>2. Shows(k, m, n, d, lost, overlaps)
    BY <1>5 DEF ShownInv
  <2>. HIDE DEF k, k1, m, m1, n, d, d1, b
  <2>3. Shows(k1, m1, n, d1, lost, overlaps)
    BY <1>5, <2>1, <2>2 DEF Shows
  <2>. QED
    BY <2>3 DEF k1, m1, n, d1
<1>10. CaughtInv'
  <2>. SUFFICES ASSUME NEW t \in Texts, get.state = "answered"
                PROVE  Catches(Held(server', t), Held(everKept', t), Held(get.value, t), Due(post', t), lost,
                               overlaps, Live(post', failed', t))
    BY <1>1, <1>4 DEF CaughtInv
  <2>. DEFINE k == Held(server, t)  k1 == Held(server', t)  m == Held(everKept, t)  m1 == Held(everKept', t)
              n == Held(get.value, t)  d == Due(post, t)  d1 == Due(post', t)  b == IF x = t THEN 1 ELSE 0
              live == Live(post, failed, t)  live1 == Live(post', failed', t)
  <2>1. /\ k \in Nat /\ k1 \in Nat /\ m \in Nat /\ m1 \in Nat /\ n \in Nat /\ d \in Nat /\ b \in Nat
        /\ k1 <= k + b /\ m1 = m + b /\ d1 = d + b
    BY <1>6, <1>8, HeldTypes
  <2>2. Catches(k, m, n, d, lost, overlaps, live) /\ (live1 <=> live)
    BY <1>2 DEF CaughtInv
  <2>. HIDE DEF k, k1, m, m1, n, d, d1, b, live, live1
  <2>3. Catches(k1, m1, n, d1, lost, overlaps, live1)
    BY <1>5, <2>1, <2>2 DEF Catches
  <2>. QED
    BY <2>3 DEF k1, m1, n, d1, live1
<1>11. SameInv'
  <2>. SUFFICES ASSUME lost = 0, overlaps = 0
                PROVE  \A u \in Posts : inFlight(u) =>
                         LET h == IF post'[u].state = "ok" THEN Append(cache, post'[u].text) ELSE cache
                         IN  Ends(everKept', h) /\ Ends(h, server')
    BY <1>1, <1>2, <1>3, <1>4 DEF SameInv, Busy, Between
  <2>1. \A u \in Posts : inFlight(u) => u = s
    BY <1>4 DEF Overlapping
  <2>2. Between(cache)
    BY <1>1, <1>4, <1>5 DEF SameInv
  <2>3. Ends(everKept', Append(cache, x)) /\ Ends(Append(cache, x), server')
    BY <1>5, <1>6, <2>2
  <2>. QED
    BY <1>2, <1>4, <2>1, <2>3
<1>. QED
  BY <1>2, <1>3, <1>7, <1>9, <1>10, <1>11

\* The parrot keeps a turn of which the tab is not told.
LEMMA LostTurn ==
    ASSUME ViewInv, NEW x \in Texts, Keep(x), lost' = lost + 1, late' \subseteq late,
           UNCHANGED <<cache, get, sends, overlaps>>,
           \A t : Due(post', t) = Due(post, t) /\ (Live(post', failed', t) <=> Live(post, failed, t))
    PROVE  HistoryType' /\ ShownInv' /\ CaughtInv' /\ SameInv'
<1>. USE DEF ViewInv
<1>1. Texts' = Texts /\ sends \in Nat /\ lost \in Nat /\ overlaps \in Nat
  BY DEF HistoryType, Texts
<1>2. /\ server' \in Seq(Texts) /\ everKept' \in Seq(Texts) /\ Ends(everKept', server')
      /\ \A t : /\ Held(server, t) \in Nat /\ Held(everKept, t) \in Nat
                /\ Held(server', t) \in Nat /\ Held(everKept', t) \in Nat
                /\ Held(server', t) <= Held(server, t) + (IF x = t THEN 1 ELSE 0)
                /\ Held(everKept', t) = Held(everKept, t) + (IF x = t THEN 1 ELSE 0)
  BY KeepFacts
<1>3. HistoryType'
  BY <1>1, <1>2 DEF HistoryType
<1>4. ASSUME NEW t \in Texts
      PROVE  LET k == Held(server, t)  k1 == Held(server', t)  m == Held(everKept, t)  m1 == Held(everKept', t)
             IN  k \in Nat /\ k1 \in Nat /\ m \in Nat /\ m1 \in Nat /\ k1 <= k + 1 /\ m <= m1
  BY <1>2
<1>5. ShownInv'
  <2>. SUFFICES ASSUME cache # Loading, NEW t \in Texts
                PROVE  Shows(Held(server', t), Held(everKept', t), Held(cache, t), Due(post, t), lost + 1, overlaps)
    BY <1>1 DEF ShownInv
  <2>. DEFINE k == Held(server, t)  k1 == Held(server', t)  m == Held(everKept, t)  m1 == Held(everKept', t)
              n == Held(cache, t)  d == Due(post, t)
  <2>1. /\ k \in Nat /\ k1 \in Nat /\ m \in Nat /\ m1 \in Nat /\ n \in Nat /\ d \in {0, 1}
        /\ k1 <= k + 1 /\ m <= m1
    BY <1>4, HeldTypes, DueType
  <2>2. Shows(k, m, n, d, lost, overlaps)
    BY DEF ShownInv
  <2>. HIDE DEF k, k1, m, m1, n, d
  <2>3. Shows(k1, m1, n, d, lost + 1, overlaps)
    BY <1>1, <2>1, <2>2 DEF Shows
  <2>. QED
    BY <2>3 DEF k1, m1, n, d
<1>6. CaughtInv'
  <2>. SUFFICES ASSUME NEW t \in Texts, get.state = "answered"
                PROVE  Catches(Held(server', t), Held(everKept', t), Held(get.value, t), Due(post, t), lost + 1,
                               overlaps, Live(post', failed', t))
    BY <1>1 DEF CaughtInv
  <2>. DEFINE k == Held(server, t)  k1 == Held(server', t)  m == Held(everKept, t)  m1 == Held(everKept', t)
              n == Held(get.value, t)  d == Due(post, t)
              live == Live(post, failed, t)  live1 == Live(post', failed', t)
  <2>1. /\ k \in Nat /\ k1 \in Nat /\ m \in Nat /\ m1 \in Nat /\ n \in Nat /\ d \in {0, 1}
        /\ k1 <= k + 1 /\ m <= m1
    BY <1>4, HeldTypes, DueType
  <2>2. Catches(k, m, n, d, lost, overlaps, live) /\ (live1 <=> live)
    BY DEF CaughtInv
  <2>. HIDE DEF k, k1, m, m1, n, d, live, live1
  <2>3. Catches(k1, m1, n, d, lost + 1, overlaps, live1)
    BY <1>1, <2>1, <2>2 DEF Catches
  <2>. QED
    BY <2>3 DEF k1, m1, n, d, live1
<1>7. SameInv'
  BY <1>1 DEF SameInv
<1>. QED
  BY <1>3, <1>5, <1>6, <1>7

LEMMA ServeFailsKeeps ==
    ASSUME ViewInv, NEW s \in Posts, ServeFails(s)
    PROVE  ViewInv'
<1>. USE DEF ViewInv
<1>. DEFINE x == post[s].text
<1>1. /\ post[s].state = "sent"
      /\ post' = [post EXCEPT ![s].state = "error"]
      /\ \/ UNCHANGED <<server, everKept, late, lost>>
         \/ Keep(x) /\ lost' = lost + 1 /\ late' = late
         \/ late' = late \cup {<<faults', x>>} /\ UNCHANGED <<server, everKept, lost>>
      /\ UNCHANGED <<cache, get, failed, sends, overlaps>>
  BY DEF ServeFails, panel, parrot
<1>2. /\ PanelType' /\ Beside(post, post', s) /\ post'[s].state = "error"
      /\ \A u \in Posts : post'[u].text = post[u].text /\ (inFlight(u)' <=> inFlight(u))
      /\ \A t : Live(post', failed', t) <=> Live(post, failed, t)
  BY <1>1, PostMoves
<1>3. SinglePosts' /\ Overlapping' /\ (Busy' <=> Busy)
  BY <1>1, <1>2, FlightKept
<1>4. x \in Texts /\ Texts' = Texts /\ inFlight(s)
  BY <1>1 DEF PanelType, Texts, inFlight
<1>5. cache # Loading /\ sends \in Nat /\ lost \in Nat /\ overlaps \in Nat
  BY <1>4 DEF HistoryType, Texts
<1>. HIDE DEF x
<1>8. ASSUME NEW t PROVE Due(post', t) = Due(post, t) /\ Due(post, t) \in {0, 1}
  <2>1. ~(post[s].state = "ok" /\ post[s].text = t) /\ ~(post'[s].state = "ok" /\ post'[s].text = t)
    BY <1>1, <1>2
  <2>. QED
    BY <1>2, <2>1, DueKept, DueType
<1>9. CASE Keep(x) /\ lost' = lost + 1 /\ late' = late
  BY <1>1, <1>2, <1>3, <1>4, <1>8, <1>9, LostTurn
<1>10. CASE UNCHANGED <<server, everKept, lost>> /\ \A o \in late' : o[2] \in Texts
  <2>1. HistoryType'
    BY <1>1, <1>4, <1>10 DEF HistoryType
  <2>2. ShownInv' /\ CaughtInv'
    BY <1>1, <1>2, <1>4, <1>8, <1>10 DEF ShownInv, CaughtInv, Catches
  <2>3. SameInv'
    <3>. SUFFICES ASSUME lost = 0, overlaps = 0
                  PROVE  \A u \in Posts : inFlight(u) =>
                           Between(IF post'[u].state = "ok" THEN Append(cache, post'[u].text) ELSE cache)
      BY <1>1, <1>2, <1>3, <1>4, <1>10 DEF SameInv, Busy, Between
    <3>1. \A u \in Posts : inFlight(u) => u = s
      BY <1>4 DEF Overlapping
    <3>2. Between(cache)
      BY <1>1, <1>4, <1>5 DEF SameInv
    <3>. QED
      BY <1>2, <3>1, <3>2
  <2>. QED
    BY <1>2, <1>3, <2>1, <2>2, <2>3
<1>11. \A o \in late \cup {<<faults', x>>} : o[2] \in Texts
  BY <1>4 DEF HistoryType
<1>. QED
  BY <1>1, <1>9, <1>10, <1>11

\* The answers that nobody waits for.
LEMMA ServeLateKeeps ==
    ASSUME ViewInv, NEW o \in late, ServeLate(o)
    PROVE  ViewInv'
<1>. USE DEF ViewInv
<1>1. /\ o[2] \in Texts /\ Keep(o[2]) /\ lost' = lost + 1 /\ late' \subseteq late
      /\ UNCHANGED <<cache, get, post, failed, sends, overlaps>>
  BY DEF ServeLate, panel, HistoryType
<1>2. HistoryType' /\ ShownInv' /\ CaughtInv' /\ SameInv'
  BY <1>1, LostTurn
<1>3. PanelType' /\ SinglePosts' /\ Overlapping'
  BY <1>1 DEF PanelType, PostType, Texts, SinglePosts, Overlapping, inFlight
<1>. QED
  BY <1>2, <1>3

\* The parrot forgets the conversation.
LEMMA ForgetKeeps ==
    ASSUME ViewInv, Forget
    PROVE  ViewInv'
<1>. USE DEF ViewInv
<1>1. server' = <<>> /\ UNCHANGED <<late, everKept, cache, get, post, failed, sends, lost, overlaps>>
  BY DEF Forget, panel
<1>2. /\ Texts' = Texts /\ everKept \in Seq(Texts) /\ lost \in Nat /\ overlaps \in Nat
      /\ server' \in Seq(Texts) /\ Ends(everKept, <<>>)
  BY <1>1, EndsEmpty DEF HistoryType, Texts
<1>3. HistoryType'
  BY <1>1, <1>2 DEF HistoryType
<1>4. PanelType' /\ SinglePosts' /\ Overlapping'
  BY <1>1 DEF PanelType, PostType, Texts, SinglePosts, Overlapping, inFlight
<1>5. ASSUME NEW t PROVE Held(server', t) = 0 /\ Held(server, t) \in Nat /\ Held(everKept, t) \in Nat
  <2>1. {i \in DOMAIN server' : server'[i] = t} = {}
    BY <1>1
  <2>. QED
    BY <2>1, FS_EmptySet, HeldTypes DEF Held
<1>6. ShownInv'
  <2>. SUFFICES ASSUME cache # Loading, NEW t \in Texts
                PROVE  Shows(0, Held(everKept, t), Held(cache, t), Due(post, t), lost, overlaps)
    BY <1>1, <1>2, <1>5 DEF ShownInv
  <2>1. /\ Shows(Held(server, t), Held(everKept, t), Held(cache, t), Due(post, t), lost, overlaps)
        /\ Held(cache, t) \in Nat /\ Due(post, t) \in {0, 1}
    BY HeldTypes, DueType DEF ShownInv
  <2>. QED
    BY <1>2, <1>5, <2>1 DEF Shows
<1>7. CaughtInv'
  <2>. SUFFICES ASSUME NEW t \in Texts, get.state = "answered"
                PROVE  Catches(0, Held(everKept, t), Held(get.value, t), Due(post, t), lost, overlaps,
                               Live(post, failed, t))
    BY <1>1, <1>2, <1>5 DEF CaughtInv
  <2>1. /\ Catches(Held(server, t), Held(everKept, t), Held(get.value, t), Due(post, t), lost, overlaps,
                   Live(post, failed, t))
        /\ Held(get.value, t) \in Nat /\ Due(post, t) \in {0, 1}
    BY HeldTypes, DueType DEF CaughtInv
  <2>. QED
    BY <1>2, <1>5, <2>1 DEF Catches
<1>8. SameInv'
  <2>1. ASSUME NEW h \in Seq(Texts), Between(h) PROVE Between(h)'
    BY <1>1, <2>1, EndsEmpty DEF Between
  <2>2. cache # Loading => cache \in Seq(Texts) /\ get.value \in Seq(Texts)
    BY DEF HistoryType
  <2>3. ASSUME NEW s \in Posts, inFlight(s), cache # Loading
        PROVE  (IF post[s].state = "ok" THEN Append(cache, post[s].text) ELSE cache) \in Seq(Texts)
    BY <2>2, <2>3, AppendProperties DEF PanelType, inFlight
  <2>4. Busy' = Busy /\ \A s \in Posts : inFlight(s)' = inFlight(s)
    BY <1>1 DEF Busy, inFlight
  <2>. QED
    BY <1>1, <2>1, <2>2, <2>3, <2>4 DEF SameInv
<1>. QED
  BY <1>3, <1>4, <1>6, <1>7, <1>8

----------------------------------------------------------------------------
\* The post s is over; its text may be offered to be sent once more.
LEMMA PostEnds ==
    ASSUME HistoryType, PanelType, SinglePosts, Overlapping,
           NEW s \in Posts, inFlight(s), post' = [post EXCEPT ![s] = Idle],
           failed' \in {failed, NoText, post[s].text}, UNCHANGED <<get, sends, overlaps>>
    PROVE  /\ PanelType' /\ SinglePosts' /\ Overlapping' /\ Beside(post, post', s)
           /\ post'[s].state = "idle"
           /\ \A u \in Posts : inFlight(u)' <=> inFlight(u) /\ u # s
           /\ \A t \in Texts : Live(post', failed', t) => Live(post, failed, t)
           /\ failed' # post[s].text => ~Live(post', failed', post[s].text)
<1>. DEFINE x == post[s].text
<1>1. Texts' = Texts /\ PostType' = PostType /\ x \in Texts /\ NoText \notin Texts
  BY NoTextIsNone DEF Texts, PostType, PanelType, inFlight
<1>2. Beside(post, post', s) /\ post'[s] = Idle
  BY DEF PanelType, Beside
<1>3. Idle \in PostType /\ Idle.state = "idle"
  BY DEF Idle, PostType
<1>4. ASSUME NEW u \in Posts
      PROVE  /\ post'[u] \in PostType
             /\ post'[u].state # "idle" <=> post[u].state # "idle" /\ u # s
             /\ post'[u].state # "idle" => post'[u].text = post[u].text
  <2>1. CASE u = s
    BY <1>2, <1>3, <2>1
  <2>2. CASE u # s
    BY <1>2, <2>2 DEF PanelType, Beside
  <2>. QED
    BY <2>1, <2>2
<1>5. \A u \in Posts : inFlight(u)' <=> inFlight(u) /\ u # s
  BY <1>4 DEF inFlight
<1>6. PanelType'
  <2>1. post' \in [Posts -> PostType']
    BY <1>1, <1>4 DEF PanelType
  <2>2. \A u \in Posts : post'[u].state # "idle" => post'[u].text \in Texts'
    BY <1>1, <1>4 DEF PanelType
  <2>3. failed' \in Texts' \cup {NoText}
    BY <1>1 DEF PanelType
  <2>. QED
    BY <2>1, <2>2, <2>3 DEF PanelType
<1>7. SinglePosts'
  <2>. SUFFICES ASSUME NEW u \in Posts, inFlight(u)'
                PROVE  /\ failed' # post'[u].text
                       /\ \A v \in Posts : inFlight(v)' /\ post'[v].text = post'[u].text => v = u
    BY DEF SinglePosts
  <2>1. u # s /\ inFlight(u) /\ post'[u].text = post[u].text /\ post[u].text \in Texts
    BY <1>4, <1>5 DEF inFlight, PanelType
  <2>2. failed # post[u].text /\ x # post[u].text
    BY <2>1 DEF SinglePosts
  <2>3. failed' # post'[u].text
    BY <1>1, <2>1, <2>2
  <2>4. ASSUME NEW v \in Posts, inFlight(v)', post'[v].text = post'[u].text PROVE v = u
    <3>1. inFlight(v) /\ post'[v].text = post[v].text
      BY <1>4, <1>5, <2>4 DEF inFlight
    <3>. QED
      BY <2>1, <2>4, <3>1 DEF SinglePosts
  <2>. QED
    BY <2>3, <2>4
<1>8. Overlapping'
  BY <1>5 DEF Overlapping
<1>9. ASSUME NEW t \in Texts, Live(post', failed', t) PROVE Live(post, failed, t)
  <2>1. CASE failed' = t
    BY <1>1, <2>1 DEF Live, inFlight
  <2>2. CASE failed' # t
    BY <1>4, <1>9, <2>2 DEF Live
  <2>. QED
    BY <2>1, <2>2
<1>10. failed' # x => ~Live(post', failed', x)
  BY <1>4 DEF Live, SinglePosts, inFlight
<1>. QED
  BY <1>2, <1>3, <1>5, <1>6, <1>7, <1>8, <1>9, <1>10

LEMMA SuccessKeeps ==
    ASSUME ViewInv, NEW s \in Posts, onSuccess(s)
    PROVE  ViewInv'
<1>. USE DEF ViewInv
<1>. DEFINE x == post[s].text
<1>1. /\ post[s].state = "ok" /\ post' = [post EXCEPT ![s] = Idle]
      /\ cache' = appendMessagesToHistory(cache, x)
      /\ failed' \in {failed, NoText}
      /\ UNCHANGED <<server, late, everKept, get, sends, lost, overlaps>>
  BY DEF onSuccess, parrot
<1>2. x \in Texts /\ Texts' = Texts /\ inFlight(s) /\ failed # x /\ NoText \notin Texts
  BY <1>1, NoTextIsNone DEF PanelType, Texts, inFlight, SinglePosts
<1>3. /\ PanelType' /\ SinglePosts' /\ Overlapping' /\ Beside(post, post', s)
      /\ post'[s].state = "idle"
      /\ \A u \in Posts : inFlight(u)' <=> inFlight(u) /\ u # s
      /\ \A t \in Texts : Live(post', failed', t) => Live(post, failed, t)
      /\ failed' # x => ~Live(post', failed', x)
  BY <1>1, <1>2, PostEnds
<1>4. failed' # x /\ ~Live(post', failed', x)
  BY <1>1, <1>2, <1>3
<1>5. /\ server \in Seq(Texts) /\ cache \in Seq(Texts) /\ cache # Loading
      /\ sends \in Nat /\ lost \in Nat /\ overlaps \in Nat
  BY <1>2 DEF HistoryType, Texts
<1>6. cache' = Append(cache, x)
  BY <1>1, <1>5 DEF appendMessagesToHistory
<1>7. Alone(post, s, x) /\ Live(post, failed, x)
  BY <1>2 DEF Alone, Live, SinglePosts, inFlight
<1>8. Due(post, x) = 1 /\ Due(post', x) = 0
  <2>1. ASSUME NEW t, t = x PROVE Due(post, t) = 1 /\ Due(post', t) = 0
    <3>1. Alone(post, s, t) /\ Beside(post, post', s)
      BY <1>3, <1>7, <2>1
    <3>2. /\ Due(post, t) = IF post[s].state = "ok" /\ post[s].text = t THEN 1 ELSE 0
          /\ Due(post', t) = IF post'[s].state = "ok" /\ post'[s].text = t THEN 1 ELSE 0
      BY <3>1, DueAlone
    <3>. QED
      BY <1>1, <1>3, <2>1, <3>2
  <2>. QED
    BY <2>1
<1>9. ASSUME NEW t, t # x PROVE Due(post', t) = Due(post, t)
  <2>1. ~(post[s].state = "ok" /\ post[s].text = t) /\ ~(post'[s].state = "ok" /\ post'[s].text = t)
    BY <1>3, <1>9
  <2>. QED
    BY <1>3, <2>1, DueKept
<1>. HIDE DEF x
<1>10. cache' \in Seq(Texts) /\ cache' # Loading
  <2>1. cache' \in Seq(Texts)
    BY <1>2, <1>5, <1>6, AppendProperties
  <2>. QED
    BY <1>5, <2>1, NotLoading DEF Texts
<1>11. HistoryType'
  BY <1>1, <1>2, <1>10 DEF HistoryType
<1>12. ShownInv'
  <2>. SUFFICES ASSUME NEW t \in Texts
                PROVE  Shows(Held(server, t), Held(everKept, t), Held(cache', t), Due(post', t), lost, overlaps)
    BY <1>1, <1>2 DEF ShownInv
  <2>1. /\ Shows(Held(server, t), Held(everKept, t), Held(cache, t), Due(post, t), lost, overlaps)
        /\ Held(server, t) \in Nat /\ Held(everKept, t) \in Nat /\ Held(cache, t) \in Nat
    BY <1>5, HeldTypes DEF ShownInv
  <2>2. Held(cache', t) = IF x = t THEN Held(cache, t) + 1 ELSE Held(cache, t)
    BY <1>2, <1>5, <1>6, HeldAppend
  <2>3. CASE x = t
    BY <1>5, <1>8, <2>1, <2>2, <2>3 DEF Shows
  <2>4. CASE x # t
    BY <1>9, <2>1, <2>2, <2>4
  <2>. QED
    BY <2>3, <2>4
<1>13. CaughtInv'
  <2>. SUFFICES ASSUME NEW t \in Texts, get.state = "answered"
                PROVE  Catches(Held(server, t), Held(everKept, t), Held(get.value, t), Due(post', t), lost, overlaps,
                               Live(post', failed', t))
    BY <1>1, <1>2 DEF CaughtInv
  <2>1. /\ Catches(Held(server, t), Held(everKept, t), Held(get.value, t), Due(post, t), lost, overlaps,
                   Live(post, failed, t))
        /\ Held(server, t) \in Nat /\ Held(everKept, t) \in Nat /\ Held(get.value, t) \in Nat
    BY HeldTypes DEF CaughtInv
  <2>2. CASE x = t
    <3>1. overlaps >= 1
      BY <1>2 DEF Overlapping, NoGet
    <3>. QED
      BY <1>4, <1>5, <1>7, <1>8, <2>1, <2>2, <3>1 DEF Catches
  <2>3. CASE x # t
    <3>1. Due(post', t) = Due(post, t) /\ Due(post, t) \in {0, 1}
      BY <1>9, <2>3, DueType
    <3>2. Live(post', failed', t) => Live(post, failed, t)
      BY <1>3
    <3>. QED
      BY <1>5, <2>1, <3>1, <3>2 DEF Catches
  <2>. QED
    BY <2>2, <2>3
<1>14. SameInv'
  <2>. SUFFICES ASSUME lost = 0, overlaps = 0
                PROVE  /\ Between(cache') /\ get.state # "answered"
                       /\ \A u \in Posts : ~inFlight(u)'
    BY <1>1 DEF SameInv, Between
  <2>1. ASSUME NEW u \in Posts PROVE ~inFlight(u)'
    <3>1. inFlight(u) /\ u # s => overlaps >= 1
      BY <1>2 DEF Overlapping
    <3>2. inFlight(u)' => inFlight(u) /\ u # s
      BY <1>3
    <3>. QED
      BY <3>1, <3>2
  <2>2. get.state # "answered"
    BY <1>2 DEF Overlapping, NoGet
  <2>3. Between(Append(cache, x))
    BY <1>1, <1>2, <1>5 DEF SameInv, x
  <2>. QED
    BY <1>6, <2>1, <2>2, <2>3
<1>. QED
  BY <1>3, <1>11, <1>12, <1>13, <1>14

LEMMA ErrorKeeps ==
    ASSUME ViewInv, NEW s \in Posts, onError(s)
    PROVE  ViewInv'
<1>. USE DEF ViewInv
<1>1. /\ post[s].state = "error" /\ post' = [post EXCEPT ![s] = Idle]
      /\ failed' \in {failed, NoText, post[s].text}
      /\ UNCHANGED <<server, late, everKept, cache, get, sends, lost, overlaps>>
  BY DEF onError, history, parrot
<1>2. Texts' = Texts /\ inFlight(s)
  BY <1>1 DEF Texts, inFlight
<1>3. /\ PanelType' /\ SinglePosts' /\ Overlapping' /\ Beside(post, post', s)
      /\ post'[s].state = "idle"
      /\ \A u \in Posts : inFlight(u)' <=> inFlight(u) /\ u # s
      /\ \A t \in Texts : Live(post', failed', t) => Live(post, failed, t)
  BY <1>1, <1>2, PostEnds
<1>4. ASSUME NEW t PROVE Due(post', t) = Due(post, t) /\ Due(post, t) \in {0, 1}
  <2>1. ~(post[s].state = "ok" /\ post[s].text = t) /\ ~(post'[s].state = "ok" /\ post'[s].text = t)
    BY <1>1, <1>3
  <2>. QED
    BY <1>3, <2>1, DueKept, DueType
<1>5. HistoryType'
  BY <1>1, <1>2 DEF HistoryType
<1>6. ShownInv'
  BY <1>1, <1>2, <1>4 DEF ShownInv
<1>7. CaughtInv'
  <2>. SUFFICES ASSUME NEW t \in Texts, get.state = "answered"
                PROVE  Catches(Held(server, t), Held(everKept, t), Held(get.value, t), Due(post, t), lost, overlaps,
                               Live(post', failed', t))
    BY <1>1, <1>2, <1>4 DEF CaughtInv
  <2>1. /\ Catches(Held(server, t), Held(everKept, t), Held(get.value, t), Due(post, t), lost, overlaps,
                   Live(post, failed, t))
        /\ Held(server, t) \in Nat /\ Held(everKept, t) \in Nat /\ Held(get.value, t) \in Nat
    BY HeldTypes DEF CaughtInv
  <2>2. /\ Live(post', failed', t) => Live(post, failed, t)
        /\ Due(post, t) \in {0, 1} /\ lost \in Nat /\ overlaps \in Nat
    BY <1>3, <1>4 DEF HistoryType
  <2>. QED
    BY <2>1, <2>2 DEF Catches
<1>8. SameInv'
  <2>. SUFFICES ASSUME lost = 0, overlaps = 0, cache # Loading
                PROVE  /\ Between(cache) /\ get.state # "answered"
                       /\ \A u \in Posts : ~inFlight(u)'
    BY <1>1 DEF SameInv, Between
  <2>1. ASSUME NEW u \in Posts PROVE ~inFlight(u)'
    <3>1. inFlight(u) /\ u # s => overlaps >= 1
      BY <1>2 DEF Overlapping
    <3>2. inFlight(u)' => inFlight(u) /\ u # s
      BY <1>3
    <3>. QED
      BY <3>1, <3>2
  <2>2. get.state # "answered"
    BY <1>2 DEF Overlapping, NoGet
  <2>3. Between(cache)
    BY <1>1, <1>2 DEF SameInv
  <2>. QED
    BY <2>1, <2>2, <2>3
<1>. QED
  BY <1>3, <1>5, <1>6, <1>7, <1>8

----------------------------------------------------------------------------
LEMMA ServeGetKeeps ==
    ASSUME ViewInv, ServeGet
    PROVE  ViewInv'
<1>. USE DEF ViewInv
<1>1. /\ get.state = "sent" /\ get' = [state |-> "answered", value |-> server]
      /\ UNCHANGED <<server, late, everKept, cache, post, failed, sends, lost, overlaps>>
  BY DEF ServeGet, panel, parrot
<1>2. get # NoGet /\ get'.state = "answered" /\ get'.value = server /\ Texts' = Texts
  BY <1>1 DEF NoGet, Texts
<1>3. HistoryType' /\ PanelType'
  BY <1>1, <1>2 DEF HistoryType, PanelType, PostType
<1>4. SinglePosts' /\ Overlapping'
  BY <1>1, <1>2 DEF SinglePosts, Overlapping, inFlight
<1>5. ShownInv'
  BY <1>1, <1>2 DEF ShownInv
<1>6. CaughtInv'
  <2>. SUFFICES ASSUME NEW t \in Texts
                PROVE  Catches(Held(server, t), Held(everKept, t), Held(server, t), Due(post, t), lost, overlaps,
                               Live(post, failed, t))
    BY <1>1, <1>2 DEF CaughtInv
  <2>1. /\ Held(server, t) \in Nat /\ Held(everKept, t) \in Nat /\ Due(post, t) \in {0, 1}
        /\ lost \in Nat /\ overlaps \in Nat /\ Held(server, t) <= Held(everKept, t)
    BY HeldTypes, DueType DEF HistoryType
  <2>. QED
    BY <2>1 DEF Catches
<1>7. SameInv'
  <2>1. Ends(everKept, server) /\ Ends(server, server)
    BY EndsSame DEF HistoryType
  <2>. QED
    BY <1>1, <1>2, <2>1 DEF SameInv, Busy, inFlight, Between
<1>. QED
  BY <1>3, <1>4, <1>5, <1>6, <1>7

LEMMA FailGetKeeps ==
    ASSUME ViewInv, FailGet
    PROVE  ViewInv'
<1>. USE DEF ViewInv
<1>1. get' = NoGet /\ UNCHANGED <<server, late, everKept, cache, post, failed, sends, lost, overlaps>>
  BY DEF FailGet, panel, parrot
<1>2. get'.state = "idle" /\ get' \in [state : {"idle", "sent", "answered"}, value : Seq(Texts)]
      /\ Texts' = Texts
  BY <1>1 DEF NoGet, Texts
<1>3. HistoryType' /\ PanelType'
  BY <1>1, <1>2 DEF HistoryType, PanelType, PostType
<1>4. SinglePosts' /\ Overlapping'
  BY <1>1 DEF SinglePosts, Overlapping, inFlight
<1>5. ShownInv' /\ CaughtInv'
  BY <1>1, <1>2 DEF ShownInv, CaughtInv
<1>6. SameInv'
  BY <1>1, <1>2 DEF SameInv, Busy, inFlight, Between
<1>. QED
  BY <1>3, <1>4, <1>5, <1>6

\* The history arrives: as it is, or not.
LEMMA ReceiveGetKeeps ==
    ASSUME ViewInv, ReceiveGet
    PROVE  ViewInv'
<1>. USE DEF ViewInv
<1>1. /\ get.state = "answered" /\ cache' = get.value /\ get' = NoGet
      /\ UNCHANGED <<server, late, everKept, post, failed, sends>>
      /\ \/ get.value = server /\ ~Busy /\ lost' = 0 /\ overlaps' = 0
         \/ ~(get.value = server /\ ~Busy) /\ UNCHANGED <<lost, overlaps>>
  BY DEF ReceiveGet, panel, parrot
<1>2. /\ get'.state = "idle" /\ get' \in [state : {"idle", "sent", "answered"}, value : Seq(Texts)]
      /\ Texts' = Texts /\ get # NoGet
      /\ server \in Seq(Texts) /\ get.value \in Seq(Texts)
      /\ sends \in Nat /\ lost \in Nat /\ overlaps \in Nat /\ lost' \in Nat /\ overlaps' \in Nat
  BY <1>1 DEF NoGet, Texts, HistoryType
<1>3. cache' # Loading
  BY <1>1, <1>2, NotLoading DEF Texts
<1>4. HistoryType' /\ PanelType'
  <2>1. HistoryType'
    BY <1>1, <1>2, <1>3 DEF HistoryType
  <2>2. PanelType'
    BY <1>1, <1>2 DEF PanelType, PostType
  <2>. QED
    BY <2>1, <2>2
<1>5. \A s \in Posts : inFlight(s)' = inFlight(s)
  BY <1>1 DEF inFlight
<1>6. SinglePosts' /\ Overlapping'
  BY <1>1, <1>5 DEF SinglePosts, Overlapping, Busy
<1>7. ShownInv'
  <2>. SUFFICES ASSUME NEW t \in Texts
                PROVE  Shows(Held(server, t), Held(everKept, t), Held(get.value, t), Due(post, t), lost', overlaps')
    BY <1>1, <1>2 DEF ShownInv
  <2>1. /\ Catches(Held(server, t), Held(everKept, t), Held(get.value, t), Due(post, t), lost, overlaps,
                   Live(post, failed, t))
        /\ Held(server, t) \in Nat /\ Held(everKept, t) \in Nat /\ Held(get.value, t) \in Nat
        /\ Due(post, t) \in {0, 1} /\ Held(server, t) <= Held(everKept, t)
    BY <1>1, HeldTypes, DueType DEF CaughtInv
  <2>2. Due(post, t) = 1 => Busy
    BY DEF Due, Busy, inFlight
  <2>3. Busy => overlaps >= 1
    BY <1>2 DEF Overlapping, Busy
  <2>4. CASE get.value = server /\ ~Busy /\ lost' = 0 /\ overlaps' = 0
    BY <2>1, <2>2, <2>4 DEF Shows
  <2>5. CASE UNCHANGED <<lost, overlaps>>
    BY <1>2, <2>1, <2>2, <2>3, <2>5 DEF Shows, Catches
  <2>. QED
    BY <1>1, <2>4, <2>5
<1>8. CaughtInv'
  BY <1>2 DEF CaughtInv
<1>9. SameInv'
  <2>. SUFFICES ASSUME lost' = 0, overlaps' = 0
                PROVE  Between(get.value) /\ ~Busy
    BY <1>1, <1>2, <1>5 DEF SameInv, Busy, Between
  <2>1. Ends(everKept, server) /\ Ends(server, server) /\ everKept \in Seq(Texts)
    BY EndsSame DEF HistoryType
  <2>2. CASE get.value = server /\ ~Busy
    BY <2>1, <2>2 DEF Between
  <2>3. CASE lost = 0 /\ overlaps = 0
    <3>1. ~Busy
      BY <1>2, <2>3 DEF Overlapping, Busy
    <3>2. CASE cache = Loading
      <4>1. /\ server \in Seq(1 .. 0) /\ get.value \in Seq(1 .. 0) /\ everKept \in Seq(1 .. 0)
        BY <1>2, <2>1, <3>2 DEF HistoryType, Texts
      <4>2. server = get.value
        BY <4>1, OnlyEmpty
      <4>. QED
        BY <2>1, <3>1, <4>2 DEF Between
    <3>3. CASE cache # Loading
      BY <1>1, <2>3, <3>1, <3>3 DEF SameInv
    <3>. QED
      BY <3>2, <3>3
  <2>. QED
    BY <1>1, <2>2, <2>3
<1>. QED
  BY <1>4, <1>6, <1>7, <1>8, <1>9

LEMMA ViewSteps ==
    ASSUME ViewInv, [ChatNext]_chatVars
    PROVE  ViewInv'
<1>1. CASE UNCHANGED chatVars
  BY <1>1 DEF chatVars, history, panel, ViewInv, HistoryType, PanelType, PostType, Texts,
              SinglePosts, Overlapping, ShownInv, CaughtInv, SameInv, inFlight, Busy, Between, parrot
<1>2. CASE OpenPanel \/ Refetch
  <2>1. refetchHistory /\ UNCHANGED <<server, late, everKept, cache, post, failed, sends, lost>>
    BY <1>2 DEF OpenPanel, Refetch, panel, parrot
  <2>. QED
    BY <2>1, RefetchKeeps
<1>3. CASE ClosePanel
  BY <1>3, ClosePanelKeeps
<1>4. CASE \E s \in Posts : sendMessage(s) \/ retryFailedMessage(s)
  BY <1>4, SendKeeps
<1>5. CASE ServeGet \/ ReceiveGet \/ FailGet
  BY <1>5, ServeGetKeeps, ReceiveGetKeeps, FailGetKeeps
<1>7. CASE Forget \/ \E o \in late : ServeLate(o)
  BY <1>7, ForgetKeeps, ServeLateKeeps
<1>6. CASE \E s \in Posts : Answers(s) \/ ServeFails(s)
  BY <1>6, ServeKeeps, SuccessKeeps, ErrorKeeps, ServeFailsKeeps DEF Answers
<1>. QED
  BY <1>1, <1>2, <1>3, <1>4, <1>5, <1>6, <1>7 DEF ChatNext, Guest

\* Once nothing is on its way, the thread ends with what the parrot remembers and
\* is the end of what it was ever asked, if there were no losses and overlaps since
\* it was last received as it is; otherwise a turn is missing or doubled no more
\* often than these account for. For any posts at once, messages, faults and
\* overlaps, and however much the parrot remembers.
THEOREM ThreadsAgree == ChatSpec => []ViewAgrees
<1>1. ChatInit => ViewInv
  BY ViewStarts
<1>2. ViewInv /\ [ChatNext]_chatVars => ViewInv'
  BY ViewSteps
<1>3. ViewInv => ViewAgrees
  <2>. SUFFICES ASSUME ViewInv, Quiet, cache # Loading
                PROVE  /\ lost + overlaps = 0 => IsSuffix(server, cache) /\ IsSuffix(cache, everKept)
                       /\ \A t \in Texts :
                            /\ Copies(server, t) - Copies(cache, t) <= lost + overlaps
                            /\ Copies(cache, t) - Copies(everKept, t) <= overlaps
    BY DEF ViewAgrees, Texts
  <2>. USE DEF ViewInv
  <2>1. /\ lost \in Nat /\ overlaps \in Nat /\ ~Busy
        /\ server \in Seq(Texts) /\ everKept \in Seq(Texts) /\ cache \in Seq(Texts)
    BY DEF HistoryType, Quiet
  <2>2. ASSUME lost + overlaps = 0 PROVE IsSuffix(server, cache) /\ IsSuffix(cache, everKept)
    <3>1. lost = 0 /\ overlaps = 0
      BY <2>1, <2>2
    <3>2. Ends(everKept, cache) /\ Ends(cache, server)
      BY <2>1, <3>1 DEF SameInv, Between
    <3>. QED
      BY <2>1, <3>2, SuffixIsEnd
  <2>3. ASSUME NEW t \in Texts
        PROVE  /\ Copies(server, t) - Copies(cache, t) <= lost + overlaps
               /\ Copies(cache, t) - Copies(everKept, t) <= overlaps
    <3>1. \A h : Copies(h, t) = Held(h, t)
      BY DEF Copies, Held
    <3>2. Due(post, t) = 0
      BY <2>1 DEF Due, Busy, inFlight
    <3>3. /\ Shows(Held(server, t), Held(everKept, t), Held(cache, t), Due(post, t), lost, overlaps)
          /\ Held(server, t) \in Nat /\ Held(everKept, t) \in Nat /\ Held(cache, t) \in Nat
      BY HeldTypes DEF ShownInv
    <3>. QED
      BY <2>1, <3>1, <3>2, <3>3 DEF Shows
  <2>. QED
    BY <2>2, <2>3
<1>. QED
  BY <1>1, <1>2, <1>3, PTL DEF ChatSpec
====
