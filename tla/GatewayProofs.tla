---------------------------- MODULE GatewayProofs ----------------------------
(***************************************************************************)
(* Theorems about Gateway, for every number of requests, rounds and calls, *)
(* every set of tools and every conversation: the types of its variables,  *)
(* the busy slot, whom a cancel reaches and what a client is told, what is *)
(* left when serve() returns, and the approval gate.  Then about the       *)
(* conversation: that it is made of whole turns in the order of their      *)
(* prompts, that no saved turn is lost, and that tool calls without a      *)
(* result are left by cancelled turns only; it rests on the slot, on the   *)
(* stop signal and on what appending, undo and compaction do.  And that    *)
(* GatewayServer implements ChatContract.                                  *)
(***************************************************************************)
EXTENDS GatewayInvariants, FiniteSetTheorems, SequenceTheorems, TLAPS

-----------------------------------------------------------------------------
(* The operators of Conversation return conversations and counts.          *)

(* A set of positions of a sequence has at most as many elements as the    *)
(* sequence.                                                               *)
LEMMA PositionsBounded ==
  ASSUME NEW S, NEW h \in Seq(S), NEW P \in SUBSET DOMAIN h
  PROVE  /\ IsFiniteSet(P)
         /\ Cardinality(P) \in 0..Len(h)
<1>1. DOMAIN h = 1..Len(h) /\ Len(h) \in Nat
  BY LenProperties
<1>2. IsFiniteSet(1..Len(h)) /\ Cardinality(1..Len(h)) = Len(h)
  <2>1. 1 \in Int /\ Len(h) \in Int
    BY <1>1
  <2>2. /\ IsFiniteSet(1..Len(h))
        /\ Cardinality(1..Len(h)) = IF 1 > Len(h) THEN 0 ELSE Len(h) - 1 + 1
    BY <2>1, FS_Interval
  <2>. QED
    BY <1>1, <2>2
<1>3. IsFiniteSet(P) /\ Cardinality(P) <= Cardinality(1..Len(h))
  BY <1>1, <1>2, FS_Subset
<1>4. Cardinality(P) \in Nat
  BY <1>3, FS_CardinalityType
<1>. QED
  BY <1>1, <1>2, <1>3, <1>4

(* A part of a sequence is a sequence over the same set.                   *)
LEMMA PartOfSeq ==
  ASSUME NEW S, NEW h \in Seq(S), NEW m \in Nat \ {0}, NEW n \in 0..Len(h)
  PROVE  SubSeq(h, m, n) \in Seq(S)
<1>1. Len(h) \in Nat
  BY LenProperties
<1>2. \A i \in m..n : i \in 1..Len(h)
  BY <1>1
<1>3. \A i \in m..n : h[i] \in S
  BY <1>2, ElementOfSeq
<1>4. m \in Int /\ n \in Int
  BY <1>1
<1>. QED
  BY <1>3, <1>4, SubSeqProperties

(* /undo leaves a conversation (handle_undo of commands/session.py).       *)
LEMMA UndoType ==
  ASSUME NEW h \in Seq(Message)
  PROVE  Undo(h) \in Seq(Message)
<1>1. BeforeLastPrompt(h) \in SUBSET DOMAIN h
  BY DEF BeforeLastPrompt
<1>2. Cardinality(BeforeLastPrompt(h)) \in 0..Len(h)
  BY <1>1, PositionsBounded
<1>3. SubSeq(h, 1, Cardinality(BeforeLastPrompt(h))) \in Seq(Message)
  BY <1>2, PartOfSeq
<1>. QED
  BY <1>3 DEF Undo

(* The turn count a resume computes is a number.                           *)
LEMMA UserTurnsType ==
  ASSUME NEW h \in Seq(Message)
  PROVE  UserTurns(h) \in Nat
<1>1. UserPositions(h) \in SUBSET DOMAIN h
  BY DEF UserPositions
<1>2. Cardinality(UserPositions(h)) \in 0..Len(h) /\ Len(h) \in Nat
  BY <1>1, PositionsBounded, LenProperties
<1>. QED
  BY <1>2 DEF UserTurns

(* compact_history returns a conversation, whatever it keeps.              *)
LEMMA CompactType ==
  ASSUME NEW h \in Seq(Message), NEW keep \in Nat
  PROVE  Compact(h, keep) \in Seq(Message)
<1>1. PreambleLen(h) \in 0..Len(h)
  <2>. DEFINE P == {i \in DOMAIN h : \A j \in 1..i : h[j].role = "system"}
  <2>1. P \in SUBSET DOMAIN h
    OBVIOUS
  <2>2. Cardinality(P) \in 0..Len(h)
    BY <2>1, PositionsBounded
  <2>. QED
    BY <2>2 DEF PreambleLen
<1>2. OldPart(h, keep) \in SUBSET DOMAIN h
  BY DEF OldPart
<1>3. KeepFrom(h, keep) \in Nat \ {0}
  BY <1>2, PositionsBounded, LenProperties DEF KeepFrom
<1>4. Len(h) \in 0..Len(h)
  BY LenProperties
<1>5. SubSeq(h, KeepFrom(h, keep), Len(h)) \in Seq(Message)
  BY <1>3, <1>4, PartOfSeq
<1>6. SubSeq(h, 1, PreambleLen(h)) \in Seq(Message)
  BY <1>1, PartOfSeq
<1>7. <<SummaryMsg>> \in Seq(Message)
  BY DEF SummaryMsg, Message, Roles
<1>. QED
  BY <1>5, <1>6, <1>7, ConcatProperties DEF Compact

-----------------------------------------------------------------------------
(* What undo and compaction leave of a conversation.                       *)

(* A set of positions that holds every position before one of its own is   *)
(* an initial segment.                                                     *)
LEMMA InitialSegment ==
  ASSUME NEW n \in Nat, NEW P \in SUBSET (1..n), \A i \in P : \A j \in 1..i : j \in P
  PROVE  Cardinality(P) \in 0..n /\ P = 1..Cardinality(P)
<1>1. IsFiniteSet(1..n) /\ Cardinality(1..n) = n
  BY FS_Interval
<1>2. IsFiniteSet(P) /\ Cardinality(P) <= n
  BY <1>1, FS_Subset
<1>3. Cardinality(P) \in Nat
  BY <1>2, FS_CardinalityType
<1>4. \A i \in P : i <= Cardinality(P)
  <2>. TAKE i \in P
  <2>1. 1..i \in SUBSET P /\ i \in Nat
    OBVIOUS
  <2>2. Cardinality(1..i) = i
    BY <2>1, FS_Interval
  <2>. QED
    BY <1>2, <2>1, <2>2, FS_Subset
<1>5. P \in SUBSET (1..Cardinality(P))
  BY <1>3, <1>4
<1>6. IsFiniteSet(1..Cardinality(P)) /\ Cardinality(1..Cardinality(P)) = Cardinality(P)
  BY <1>3, FS_Interval
<1>7. P = 1..Cardinality(P)
  BY <1>5, <1>6, FS_Subset
<1>. QED
  BY <1>2, <1>3, <1>7

(* Undo cuts the conversation before its last prompt.                      *)
LEMMA UndoCuts ==
  ASSUME NEW h \in Seq(Message)
  PROVE  \E m \in 0..Len(h) : /\ Undo(h) = SubSeq(h, 1, m)
                              /\ m = Len(h) \/ h[m + 1].role = "user"
<1>1. DOMAIN h = 1..Len(h) /\ Len(h) \in Nat
  BY LenProperties
<1>2. CASE UserPositions(h) = {}
  <2>1. SubSeq(h, 1, Len(h)) = h
    BY SubSeqFull
  <2>2. Undo(h) = SubSeq(h, 1, Len(h))
    BY <1>2, <2>1 DEF Undo
  <2>3. Len(h) \in 0..Len(h)
    BY <1>1
  <2>. QED
    BY <2>2, <2>3
<1>3. CASE UserPositions(h) # {}
  <2>. DEFINE P == BeforeLastPrompt(h)
              U == UserPositions(h)
              m == Cardinality(P)
  <2>1. /\ U \in SUBSET (1..Len(h))
        /\ \A i \in U : h[i].role = "user"
        /\ P \in SUBSET (1..Len(h))
        /\ \A i \in 1..Len(h) : i \in P <=> \E j \in U : i < j
    BY <1>1 DEF BeforeLastPrompt, UserPositions
  <2>. HIDE DEF P, U
  <2>2. \A i \in P : \A j \in 1..i : j \in P
    BY <1>1, <2>1
  <2>3. m \in 0..Len(h) /\ P = 1..m
    BY <1>1, <2>1, <2>2, InitialSegment
  <2>. HIDE DEF m
  <2>4. PICK j \in U : m < j
    <3>1. CASE m = 0
      BY <1>1, <1>3, <2>1, <3>1 DEF U
    <3>2. CASE m # 0
      BY <1>1, <2>1, <2>3, <3>2
    <3>. QED
      BY <3>1, <3>2
  <2>5. m + 1 = j
    BY <1>1, <2>1, <2>3, <2>4
  <2>6. Undo(h) = SubSeq(h, 1, m)
    BY <1>3 DEF Undo, P, m
  <2>. QED
    BY <2>1, <2>3, <2>4, <2>5, <2>6
<1>. QED
  BY <1>2, <1>3

(* Compaction keeps the leading system messages and what follows from a    *)
(* prompt to the end.                                                      *)
LEMMA CompactCuts ==
  ASSUME NEW h \in Seq(Message), NEW keep \in Nat, Compactable(h, keep)
  PROVE  LET p == PreambleLen(h)
             k == KeepFrom(h, keep)
         IN  /\ p \in 0..Len(h) /\ \A i \in 1..p : h[i].role = "system"
             /\ k \in (p + 2)..(Len(h) + 1)
             /\ k = Len(h) + 1 \/ h[k].role = "user"
<1>. DEFINE n == Len(h)
            p == PreambleLen(h)
            S == {i \in DOMAIN h : \A j \in 1..i : h[j].role = "system"}
            T == TurnStarts(h)
            After(i) == {j \in T : i < j}
            O == OldPart(h, keep)
            m == Cardinality(O)
<1>1. DOMAIN h = 1..n /\ n \in Nat
  BY LenProperties
<1>2. /\ S \in SUBSET (1..n)
      /\ \A i \in 1..n : i \in S <=> \A j \in 1..i : h[j].role = "system"
  BY <1>1
<1>3. p \in 0..n /\ S = 1..p
  <2>. HIDE DEF S
  <2>1. \A i \in S : \A j \in 1..i : j \in S
    BY <1>1, <1>2
  <2>2. Cardinality(S) \in 0..n /\ S = 1..Cardinality(S)
    BY <1>1, <1>2, <2>1, InitialSegment
  <2>. QED
    BY <2>2 DEF PreambleLen, S
<1>4. /\ T \in SUBSET (1..n)
      /\ \A i \in 1..n : i \in T <=> i > p /\ (i = p + 1 \/ h[i].role = "user")
  BY <1>1 DEF TurnStarts
<1>5. IsFiniteSet(T) /\ Cardinality(T) > keep /\ Cardinality(T) \in Nat
  <2>1. IsFiniteSet(T) /\ Cardinality(T) \in 0..n
    BY <1>1, <1>4, PositionsBounded
  <2>. QED
    BY <1>1, <2>1 DEF Compactable
<1>6. \A i : After(i) \in SUBSET T /\ \A j \in T : j \in After(i) <=> i < j
  OBVIOUS
<1>7. \A i : IsFiniteSet(After(i)) /\ Cardinality(After(i)) \in Nat
  BY <1>5, <1>6, FS_Subset, FS_CardinalityType
<1>8. O \in SUBSET (1..n) /\ \A i \in 1..n : i \in O <=> Cardinality(After(i)) >= keep
  BY <1>1 DEF OldPart
<1>. HIDE DEF p, S, T, O, n, After
<1>9. m \in 0..n /\ O = 1..m
  <2>1. ASSUME NEW i \in O, NEW j \in 1..i
        PROVE  j \in O
    <3>1. i \in 1..n /\ j \in 1..n /\ j <= i
      BY <1>1, <1>8
    <3>2. After(i) \in SUBSET After(j)
      <4>. SUFFICES ASSUME NEW x \in After(i) PROVE x \in After(j)
        OBVIOUS
      <4>1. x \in T /\ i < x
        BY <1>6
      <4>2. j < x
        BY <1>1, <1>4, <3>1, <4>1
      <4>. QED
        BY <1>6, <4>1, <4>2
    <3>3. Cardinality(After(i)) <= Cardinality(After(j))
      BY <1>7, <3>2, FS_Subset
    <3>. QED
      BY <1>7, <1>8, <3>1, <3>3
  <2>. QED
    BY <1>1, <1>8, <2>1, InitialSegment
<1>. HIDE DEF m
<1>10. m >= p + 1
  <2>1. p + 1 \in T
    <3>1. PICK t \in T : TRUE
      BY <1>5, FS_EmptySet
    <3>2. t \in 1..n /\ t > p
      BY <1>4
    <3>3. p + 1 \in 1..n /\ p + 1 > p
      BY <1>1, <1>3, <3>2
    <3>. QED
      BY <1>4, <3>3
  <2>2. After(p + 1) = T \ {p + 1}
    <3>1. \A j \in T : p + 1 < j <=> j # p + 1
      BY <1>1, <1>3, <1>4
    <3>. QED
      BY <1>6, <3>1
  <2>3. Cardinality(After(p + 1)) = Cardinality(T) - 1
    BY <1>5, <2>1, <2>2, FS_RemoveElement
  <2>4. p + 1 \in O
    <3>1. p + 1 \in 1..n
      BY <1>4, <2>1
    <3>2. Cardinality(After(p + 1)) >= keep
      BY <1>5, <2>3
    <3>. QED
      BY <1>8, <3>1, <3>2
  <2>. QED
    BY <1>3, <1>9, <2>4
<1>11. m = n \/ m + 1 \in T
  <2>. SUFFICES ASSUME m # n, m + 1 \notin T PROVE FALSE
    OBVIOUS
  <2>1. m \in 1..n /\ m + 1 \in 1..n /\ m + 1 \notin O /\ m \in O
    BY <1>1, <1>3, <1>9, <1>10
  <2>2. After(m) = After(m + 1)
    <3>1. \A j \in T : m < j <=> m + 1 < j
      BY <1>1, <1>4, <2>1
    <3>. QED
      BY <1>6, <3>1
  <2>3. Cardinality(After(m)) >= keep /\ ~(Cardinality(After(m + 1)) >= keep)
    BY <1>8, <2>1
  <2>. QED
    BY <2>2, <2>3
<1>12. KeepFrom(h, keep) = m + 1
  BY DEF KeepFrom, O, m
<1>13. m + 1 \in T => h[m + 1].role = "user"
  BY <1>1, <1>3, <1>4, <1>9, <1>10
<1>14. \A i \in 1..p : h[i].role = "system"
  BY <1>1, <1>2, <1>3
<1>15. /\ p \in 0..n
       /\ m + 1 \in (p + 2)..(n + 1)
       /\ m + 1 = n + 1 \/ h[m + 1].role = "user"
  BY <1>1, <1>3, <1>9, <1>10, <1>11, <1>13
<1>. QED
  BY <1>12, <1>14, <1>15 DEF p, n

-----------------------------------------------------------------------------
(* The shape of the conversation under these operations.                   *)

(* Behind its first a messages, which belong to no turn, g is a part of h  *)
(* that begins and ends at a prompt or where h does.                       *)
PartOf(g, h, a, d) ==
  /\ \A i \in 1..Len(g) :
       /\ i <= a => g[i].role \in {"system", "summary"}
       /\ i > a => i + d \in 1..Len(h) /\ g[i] = h[i + d]
  /\ (a = 0 /\ d = 0) \/ a + 1 > Len(g) \/ g[a + 1].role = "user"
  /\ Len(g) + d = Len(h) \/ h[Len(g) + d + 1].role = "user"

(* What a part of a conversation has of its shape.                         *)
ShapeKept(g, h) ==
  /\ WholeTurns(h) => WholeTurns(g)
  /\ PromptsInOrder(h) => PromptsInOrder(g)
  /\ \A i \in Unanswered(g) : \E j \in Unanswered(h) : g[i] = h[j]

(* Such a part keeps the turns whole, their order and their results.       *)
LEMMA PartKeepsShape ==
  ASSUME NEW g \in Seq(Message), NEW h \in Seq(Message), NEW a \in Nat, NEW d \in Nat,
         PartOf(g, h, a, d)
  PROVE  ShapeKept(g, h)
<1>0. /\ (a = 0 /\ d = 0) \/ a + 1 > Len(g) \/ g[a + 1].role = "user"
      /\ Len(g) + d = Len(h) \/ h[Len(g) + d + 1].role = "user"
  BY DEF PartOf
<1>1. /\ DOMAIN g = 1..Len(g) /\ Len(g) \in Nat
      /\ DOMAIN h = 1..Len(h) /\ Len(h) \in Nat
  BY LenProperties
<1>2. \A i \in 1..Len(g) : g[i].role \notin {"system", "summary"} =>
        /\ i > a /\ i + d \in 1..Len(h) /\ g[i] = h[i + d]
  <2>. SUFFICES ASSUME NEW i \in 1..Len(g), g[i].role \notin {"system", "summary"}
                PROVE  i > a /\ i + d \in 1..Len(h) /\ g[i] = h[i + d]
    OBVIOUS
  <2>1. ~(i <= a)
    BY DEF PartOf
  <2>2. i > a
    BY <1>1, <2>1
  <2>. QED
    BY <2>2 DEF PartOf
<1>3. \A i \in UserPositions(g) : /\ i \in 1..Len(g) /\ i > a
                                  /\ i + d \in UserPositions(h) /\ g[i] = h[i + d]
  BY <1>1, <1>2 DEF UserPositions
<1>4. ASSUME WholeTurns(h)
      PROVE  WholeTurns(g)
  <2>. SUFFICES ASSUME NEW i \in 1..Len(g), g[i].role \in {"assistant", "tool"}, g[i].req # 0
                PROVE  OpenedBy(g, i)
    BY <1>1 DEF WholeTurns
  <2>1. i > a /\ i + d \in 1..Len(h) /\ g[i] = h[i + d]
    BY <1>2
  <2>2. PICK u \in UserPositions(h) :
          /\ u <= i + d /\ h[u].req = h[i + d].req
          /\ \A v \in UserPositions(h) : v <= u \/ v > i + d
    BY <1>1, <1>4, <2>1 DEF WholeTurns, OpenedBy
  <2>3. u \in 1..Len(h) /\ h[u].role = "user"
    BY <1>1 DEF UserPositions
  <2>4. u > a + d
    <3>1. CASE a = 0 /\ d = 0
      BY <1>1, <2>3, <3>1
    <3>2. CASE a + 1 > Len(g)
      BY <1>1, <2>1, <3>2
    <3>3. CASE ~(a + 1 > Len(g)) /\ g[a + 1].role = "user"
      <4>1. a + 1 \in UserPositions(g)
        BY <1>1, <3>3 DEF UserPositions
      <4>2. a + 1 + d \in UserPositions(h)
        BY <1>3, <4>1
      <4>. QED
        BY <1>1, <2>1, <2>2, <2>3, <4>2
    <3>. QED
      BY <1>0, <3>1, <3>2, <3>3
  <2>5. /\ u - d \in 1..Len(g) /\ u - d > a /\ u - d <= i /\ (u - d) + d = u
    BY <1>1, <2>1, <2>2, <2>3, <2>4
  <2>6. g[u - d] = h[u]
    <3>1. (u - d) + d \in 1..Len(h) /\ g[u - d] = h[(u - d) + d]
      BY <2>5 DEF PartOf
    <3>. QED
      BY <2>5, <3>1
  <2>7. u - d \in UserPositions(g) /\ g[u - d].req = g[i].req
    BY <1>1, <2>1, <2>2, <2>3, <2>5, <2>6 DEF UserPositions
  <2>8. ASSUME NEW v \in UserPositions(g)
        PROVE  v <= u - d \/ v > i
    <3>1. v \in 1..Len(g) /\ v + d \in UserPositions(h)
      BY <1>3
    <3>2. v + d <= u \/ v + d > i + d
      BY <2>2, <3>1
    <3>. QED
      BY <1>1, <2>3, <3>1, <3>2
  <2>. QED
    BY <2>5, <2>7, <2>8 DEF OpenedBy
<1>5. ASSUME PromptsInOrder(h)
      PROVE  PromptsInOrder(g)
  <2>. SUFFICES ASSUME NEW i \in UserPositions(g), NEW j \in UserPositions(g), i < j
                PROVE  g[i].req < g[j].req \/ (g[i].req = 0 /\ g[j].req = 0)
    BY DEF PromptsInOrder
  <2>1. i + d < j + d
    BY <1>3
  <2>. QED
    BY <1>3, <1>5, <2>1 DEF PromptsInOrder
<1>6. ASSUME NEW i \in Unanswered(g)
      PROVE  i + d \in Unanswered(h) /\ g[i] = h[i + d]
  <2>1. i \in 1..Len(g) /\ g[i].role = "assistant" /\ ~Answered(g, i)
    BY <1>1 DEF Unanswered
  <2>2. i > a /\ i + d \in 1..Len(h) /\ g[i] = h[i + d]
    BY <1>2, <2>1
  <2>3. ~Answered(h, i + d)
    <3>. SUFFICES ASSUME Answered(h, i + d) PROVE FALSE
      OBVIOUS
    <3>1. PICK k \in 1..g[i].n : ~(i + k \in 1..Len(g) /\ g[i + k] = ToolMsg(g[i].req, k))
      BY <1>1, <2>1 DEF Answered
    <3>2. g[i].n \in Nat
      <4>1. g[i] \in Message
        BY <2>1, ElementOfSeq
      <4>. QED
        BY <4>1 DEF Message
    <3>3. \A l \in 1..g[i].n : /\ (i + d) + l \in 1..Len(h)
                               /\ h[(i + d) + l] = ToolMsg(g[i].req, l)
      BY <1>1, <2>2 DEF Answered
    <3>4. CASE i + k \in 1..Len(g)
      <4>1. i + k > a /\ (i + k) + d = (i + d) + k
        BY <1>1, <2>1, <2>2, <3>2
      <4>2. g[i + k] = h[(i + k) + d]
        BY <3>4, <4>1 DEF PartOf
      <4>. QED
        BY <3>1, <3>3, <3>4, <4>1, <4>2
    <3>5. CASE i + k \notin 1..Len(g)
      <4>. DEFINE l == Len(g) + 1 - i
      <4>1. l \in 1..k /\ (i + d) + l = Len(g) + d + 1
        BY <1>1, <2>1, <3>2, <3>5
      <4>2. l \in 1..g[i].n
        BY <3>2, <4>1
      <4>3. /\ Len(g) + d + 1 \in 1..Len(h)
            /\ h[Len(g) + d + 1] = ToolMsg(g[i].req, l)
        BY <3>3, <4>1, <4>2
      <4>4. h[Len(g) + d + 1].role = "user"
        <5>. HIDE DEF l
        <5>1. Len(g) + d + 1 \in 1..Len(h)
          BY <4>3
        <5>2. Len(g) \in Nat /\ Len(h) \in Nat
          BY <1>1
        <5>3. ASSUME NEW x \in Nat, NEW y \in Nat, x + d + 1 \in 1..y
              PROVE  x + d # y
          BY <5>3
        <5>4. Len(g) + d # Len(h)
          BY <5>1, <5>2, <5>3
        <5>. QED
          BY <1>0, <5>4
      <4>. QED
        BY <4>3, <4>4 DEF ToolMsg
    <3>. QED
      BY <3>4, <3>5
  <2>. QED
    BY <1>1, <2>1, <2>2, <2>3 DEF Unanswered
<1>. QED
  BY <1>4, <1>5, <1>6 DEF ShapeKept

(* /undo removes whole turns.                                              *)
LEMMA UndoKeepsShape ==
  ASSUME NEW h \in Seq(Message)
  PROVE  /\ ShapeKept(Undo(h), h)
         /\ \A i \in DOMAIN Undo(h) : \E j \in DOMAIN h : Undo(h)[i] = h[j]
<1>1. DOMAIN h = 1..Len(h) /\ Len(h) \in Nat
  BY LenProperties
<1>2. PICK m \in 0..Len(h) : /\ Undo(h) = SubSeq(h, 1, m)
                             /\ m = Len(h) \/ h[m + 1].role = "user"
  BY UndoCuts
<1>. DEFINE g == Undo(h)
<1>3. g \in Seq(Message) /\ Len(g) = m /\ \A i \in 1..m : g[i] = h[i]
  <2>1. 1 \in Int /\ m \in Int /\ \A i \in 1..m : h[i] \in Message
    BY <1>1, ElementOfSeq
  <2>2. /\ SubSeq(h, 1, m) \in Seq(Message)
        /\ Len(SubSeq(h, 1, m)) = IF 1 <= m THEN m - 1 + 1 ELSE 0
        /\ \A i \in 1..(m - 1 + 1) : SubSeq(h, 1, m)[i] = h[1 + i - 1]
    BY <2>1, SubSeqProperties
  <2>3. m - 1 + 1 = m /\ \A i \in 1..m : 1 + i - 1 = i
    BY <1>1
  <2>4. Len(SubSeq(h, 1, m)) = m
    BY <1>1, <2>2
  <2>5. \A i \in 1..m : SubSeq(h, 1, m)[i] = h[i]
    BY <2>2, <2>3
  <2>. QED
    BY <1>2, <2>2, <2>4, <2>5
<1>. HIDE DEF g
<1>4. PartOf(g, h, 0, 0)
  <2>1. \A i \in 1..Len(g) : ~(i <= 0) /\ i + 0 = i /\ i \in 1..Len(h)
    BY <1>1, <1>3
  <2>2. Len(g) + 0 = m /\ Len(g) + 0 + 1 = m + 1
    BY <1>1, <1>3
  <2>. QED
    BY <1>2, <1>3, <2>1, <2>2 DEF PartOf
<1>5. ShapeKept(g, h)
  BY <1>3, <1>4, PartKeepsShape
<1>6. DOMAIN g = 1..m
  BY <1>3, LenProperties
<1>7. \A i \in DOMAIN g : i \in DOMAIN h /\ g[i] = h[i]
  BY <1>1, <1>3, <1>6
<1>. QED
  BY <1>5, <1>7 DEF g

(* /compact puts a summary in the place of whole turns.                    *)
LEMMA CompactKeepsShape ==
  ASSUME NEW h \in Seq(Message), NEW keep \in Nat
  PROVE  /\ ShapeKept(Compact(h, keep), h)
         /\ \A i \in DOMAIN Compact(h, keep) :
              \/ Compact(h, keep)[i] = SummaryMsg
              \/ \E j \in DOMAIN h : Compact(h, keep)[i] = h[j]
<1>. DEFINE n == Len(h)
            p == PreambleLen(h)
            k == KeepFrom(h, keep)
            g == Compact(h, keep)
            head == SubSeq(h, 1, p)
            rest == SubSeq(h, k, n)
<1>1. DOMAIN h = 1..n /\ n \in Nat
  BY LenProperties
<1>2. CASE ~Compactable(h, keep)
  BY <1>2 DEF Compact, ShapeKept
<1>3. CASE Compactable(h, keep)
  <2>1. /\ p \in 0..n /\ \A i \in 1..p : h[i].role = "system"
        /\ k \in (p + 2)..(n + 1)
        /\ k = n + 1 \/ h[k].role = "user"
    BY <1>3, CompactCuts
  <2>. HIDE DEF p, k
  <2>2. head \in Seq(Message) /\ Len(head) = p /\ \A i \in 1..p : head[i] = h[i]
    <3>1. 1 \in Int /\ p \in Int /\ \A i \in 1..p : h[i] \in Message
      BY <1>1, <2>1, ElementOfSeq
    <3>2. /\ head \in Seq(Message)
          /\ Len(head) = IF 1 <= p THEN p - 1 + 1 ELSE 0
          /\ \A i \in 1..(p - 1 + 1) : head[i] = h[1 + i - 1]
      BY <3>1, SubSeqProperties
    <3>3. p - 1 + 1 = p /\ \A i \in 1..p : 1 + i - 1 = i
      BY <1>1, <2>1
    <3>. QED
      BY <1>1, <2>1, <3>2, <3>3
  <2>3. /\ rest \in Seq(Message) /\ Len(rest) = n + 1 - k
        /\ \A i \in 1..(n + 1 - k) : rest[i] = h[k + i - 1]
    <3>1. k \in Int /\ n \in Int /\ \A i \in k..n : h[i] \in Message
      BY <1>1, <2>1, ElementOfSeq
    <3>2. /\ rest \in Seq(Message)
          /\ Len(rest) = IF k <= n THEN n - k + 1 ELSE 0
          /\ \A i \in 1..(n - k + 1) : rest[i] = h[k + i - 1]
      BY <3>1, SubSeqProperties
    <3>3. n - k + 1 = n + 1 - k
      BY <1>1, <2>1
    <3>. QED
      BY <1>1, <2>1, <3>2, <3>3
  <2>4. <<SummaryMsg>> \in Seq(Message) /\ Len(<<SummaryMsg>>) = 1
    BY DEF SummaryMsg, Message, Roles
  <2>5. /\ g \in Seq(Message) /\ Len(g) = p + 2 + n - k
        /\ \A i \in 1..p : g[i] = h[i]
        /\ g[p + 1] = SummaryMsg
        /\ \A i \in (p + 2)..Len(g) : i + (k - p - 2) \in 1..n /\ g[i] = h[i + (k - p - 2)]
    <3>. DEFINE front == head \o <<SummaryMsg>>
    <3>1. /\ front \in Seq(Message) /\ Len(front) = p + 1
          /\ \A i \in 1..(p + 1) :
               front[i] = IF i <= p THEN head[i] ELSE <<SummaryMsg>>[i - p]
      <4>. DEFINE tail == <<SummaryMsg>>
      <4>1. head \in Seq(Message) /\ tail \in Seq(Message) /\ Len(head) = p /\ Len(tail) = 1
        BY <2>2, <2>4
      <4>. HIDE DEF head, tail, n, g
      <4>2. /\ head \o tail \in Seq(Message) /\ Len(head \o tail) = Len(head) + Len(tail)
            /\ \A i \in 1..(Len(head) + Len(tail)) :
                 (head \o tail)[i] = IF i <= Len(head) THEN head[i] ELSE tail[i - Len(head)]
        BY <4>1, ConcatProperties
      <4>3. front = head \o tail
        BY DEF tail
      <4>. QED
        BY <4>1, <4>2, <4>3 DEF tail
    <3>2. /\ front \o rest \in Seq(Message) /\ Len(front \o rest) = p + 1 + (n + 1 - k)
          /\ \A i \in 1..(p + 1 + (n + 1 - k)) :
               (front \o rest)[i] = IF i <= p + 1 THEN front[i] ELSE rest[i - (p + 1)]
      <4>. HIDE DEF front, rest, head, g, n
      <4>1. front \in Seq(Message) /\ rest \in Seq(Message)
        BY <2>3, <3>1
      <4>2. Len(front) = p + 1 /\ Len(rest) = n + 1 - k
        BY <2>3, <3>1
      <4>3. /\ front \o rest \in Seq(Message) /\ Len(front \o rest) = Len(front) + Len(rest)
            /\ \A i \in 1..(Len(front) + Len(rest)) :
                 (front \o rest)[i] = IF i <= Len(front) THEN front[i] ELSE rest[i - Len(front)]
        BY <4>1, ConcatProperties
      <4>. QED
        BY <4>2, <4>3
    <3>3. g = front \o rest
      BY <1>3 DEF Compact, p, k
    <3>. HIDE DEF g, front, rest, head
    <3>4. g \in Seq(Message) /\ Len(g) = p + 2 + n - k
      BY <1>1, <2>1, <3>2, <3>3
    <3>5. \A i \in 1..p : g[i] = h[i]
      BY <1>1, <2>1, <2>2, <3>1, <3>2, <3>3
    <3>6. g[p + 1] = SummaryMsg
      <4>1. p + 1 \in 1..(p + 1) /\ ~(p + 1 <= p) /\ (p + 1) - p = 1
            /\ p + 1 \in 1..(p + 1 + (n + 1 - k)) /\ p + 1 <= p + 1
        BY <1>1, <2>1
      <4>. QED
        BY <3>1, <3>2, <3>3, <4>1
    <3>7. ASSUME NEW i \in (p + 2)..Len(g)
          PROVE  i + (k - p - 2) \in 1..n /\ g[i] = h[i + (k - p - 2)]
      <4>1. /\ i \in 1..(p + 1 + (n + 1 - k)) /\ ~(i <= p + 1)
            /\ i - (p + 1) \in 1..(n + 1 - k)
            /\ k + (i - (p + 1)) - 1 = i + (k - p - 2)
            /\ i + (k - p - 2) \in 1..n
        BY <1>1, <2>1, <3>4
      <4>2. g[i] = rest[i - (p + 1)]
        BY <3>2, <3>3, <4>1
      <4>3. rest[i - (p + 1)] = h[k + (i - (p + 1)) - 1]
        BY <2>3, <4>1
      <4>. QED
        BY <4>1, <4>2, <4>3
    <3>. QED
      BY <3>4, <3>5, <3>6, <3>7
  <2>. HIDE DEF g, head, rest
  <2>6. PartOf(g, h, p + 1, k - p - 2)
    <3>1. ASSUME NEW i \in 1..Len(g), i <= p + 1
          PROVE  g[i].role \in {"system", "summary"}
      BY <1>1, <2>1, <2>5, <3>1 DEF SummaryMsg
    <3>2. ASSUME NEW i \in 1..Len(g), i > p + 1
          PROVE  i + (k - p - 2) \in 1..Len(h) /\ g[i] = h[i + (k - p - 2)]
      <4>1. i \in (p + 2)..Len(g)
        BY <1>1, <2>1, <2>5, <3>2
      <4>. QED
        BY <2>5, <4>1
    <3>3. p + 2 > Len(g) \/ g[p + 2].role = "user"
      <4>1. p + 2 > Len(g) \/ p + 2 \in (p + 2)..Len(g)
        BY <1>1, <2>1, <2>5
      <4>2. (p + 2) + (k - p - 2) = k /\ (k = n + 1 => p + 2 > Len(g))
        BY <1>1, <2>1, <2>5
      <4>. QED
        BY <2>1, <2>5, <4>1, <4>2
    <3>4. Len(g) + (k - p - 2) = Len(h) /\ (p + 1) + 1 = p + 2
      BY <1>1, <2>1, <2>5
    <3>. QED
      BY <3>1, <3>2, <3>3, <3>4 DEF PartOf
  <2>7. ShapeKept(g, h)
    <3>1. p + 1 \in Nat /\ k - p - 2 \in Nat
      BY <1>1, <2>1
    <3>. QED
      BY <2>5, <2>6, <3>1, PartKeepsShape
  <2>8. ASSUME NEW i \in DOMAIN g
        PROVE  g[i] = SummaryMsg \/ \E j \in DOMAIN h : g[i] = h[j]
    <3>1. i \in 1..Len(g) /\ Len(g) \in Nat
      BY <2>5, LenProperties
    <3>2. i \in 1..p \/ i = p + 1 \/ i \in (p + 2)..Len(g)
      BY <1>1, <2>1, <3>1
    <3>3. 1..p \in SUBSET (1..n)
      BY <1>1, <2>1
    <3>. QED
      BY <1>1, <2>5, <3>2, <3>3
  <2>. QED
    BY <2>7, <2>8 DEF g
<1>. QED
  BY <1>2, <1>3

-----------------------------------------------------------------------------
(* The shape of the conversation when a message is appended.               *)

(* The prompts and the unanswered calls of a longer conversation.          *)
LEMMA Appended ==
  ASSUME NEW h \in Seq(Message), NEW m \in Message
  PROVE  LET g == Append(h, m)
             e == Len(h) + 1
         IN  /\ g \in Seq(Message) /\ DOMAIN h = 1..Len(h) /\ Len(h) \in Nat
             /\ Len(g) = e /\ DOMAIN g = 1..e /\ g[e] = m
             /\ \A i \in 1..Len(h) : i \in 1..e /\ i # e /\ g[i] = h[i]
             /\ \A i \in 1..e : i \in 1..Len(h) \/ i = e
             /\ UserPositions(h) \in SUBSET (1..Len(h))
             /\ UserPositions(g) = IF m.role = "user" THEN UserPositions(h) \cup {e}
                                                      ELSE UserPositions(h)
             /\ \A i \in Unanswered(g) : i \in Unanswered(h) \/ i = e
<1>. DEFINE g == Append(h, m)
            e == Len(h) + 1
<1>1. DOMAIN h = 1..Len(h) /\ Len(h) \in Nat
  BY LenProperties
<1>2. /\ g \in Seq(Message) /\ Len(g) = e
      /\ \A i \in 1..Len(h) : g[i] = h[i]
      /\ g[e] = m
  BY AppendProperties
<1>. HIDE DEF g
<1>3. DOMAIN g = 1..e
  BY <1>2, LenProperties
<1>4. /\ \A i \in 1..Len(h) : i \in 1..e /\ i # e
      /\ \A i \in 1..e : i \in 1..Len(h) \/ i = e
      /\ e \in 1..e
  BY <1>1
<1>. HIDE DEF e
<1>5. UserPositions(h) \in SUBSET (1..Len(h))
  BY <1>1 DEF UserPositions
<1>6. \A i : i \in UserPositions(g) <=> i \in UserPositions(h) \/ (i = e /\ m.role = "user")
  BY <1>1, <1>2, <1>3, <1>4 DEF UserPositions
<1>7. UserPositions(g) = IF m.role = "user" THEN UserPositions(h) \cup {e}
                                           ELSE UserPositions(h)
  BY <1>6
<1>8. ASSUME NEW i \in Unanswered(g), i # e
      PROVE  i \in Unanswered(h)
  <2>1. i \in 1..Len(h) /\ h[i].role = "assistant" /\ g[i] = h[i]
    BY <1>2, <1>3, <1>4, <1>8 DEF Unanswered
  <2>2. ASSUME Answered(h, i)
        PROVE  Answered(g, i)
    BY <1>1, <1>2, <1>3, <1>4, <2>1, <2>2 DEF Answered
  <2>. QED
    BY <1>1, <2>1, <2>2 DEF Unanswered
<1>. QED
  BY <1>1, <1>2, <1>3, <1>4, <1>5, <1>7, <1>8 DEF g, e

(* A new prompt opens a turn behind the others.                            *)
LEMMA PromptAppended ==
  ASSUME NEW h \in Seq(Message), NEW r \in Nat, \A i \in DOMAIN h : h[i].req < r,
         WholeTurns(h), PromptsInOrder(h)
  PROVE  LET g == Append(h, UserMsg(r))
         IN  /\ WholeTurns(g) /\ PromptsInOrder(g) /\ LastPromptIs(g, r)
             /\ PromptRequests(g) = PromptRequests(h) \cup {r}
             /\ UserTurns(g) = UserTurns(h) + 1
             /\ Unanswered(g) \in SUBSET Unanswered(h)
<1>. DEFINE m == UserMsg(r)
            g == Append(h, m)
            e == Len(h) + 1
<1>1. m \in Message /\ m.role = "user" /\ m.req = r
  BY DEF UserMsg, Message, Roles
<1>. HIDE DEF m
<1>2. /\ g \in Seq(Message) /\ DOMAIN h = 1..Len(h) /\ Len(h) \in Nat
      /\ Len(g) = e /\ DOMAIN g = 1..e /\ g[e] = m
      /\ \A i \in 1..Len(h) : i \in 1..e /\ i # e /\ g[i] = h[i]
      /\ \A i \in 1..e : i \in 1..Len(h) \/ i = e
      /\ UserPositions(h) \in SUBSET (1..Len(h))
      /\ UserPositions(g) = UserPositions(h) \cup {e}
      /\ \A i \in Unanswered(g) : i \in Unanswered(h) \/ i = e
  BY <1>1, Appended
<1>3. \A i \in 1..Len(h) : i < e
  BY <1>2
<1>4. e \in Nat /\ e \notin 1..Len(h) /\ e \in 1..e
  BY <1>2
<1>. HIDE DEF e, g
<1>5. WholeTurns(g)
  <2>. SUFFICES ASSUME NEW i \in 1..e, g[i].role \in {"assistant", "tool"}, g[i].req # 0
                PROVE  OpenedBy(g, i)
    BY <1>2 DEF WholeTurns
  <2>1. i \in 1..Len(h) /\ g[i] = h[i]
    BY <1>1, <1>2
  <2>2. OpenedBy(h, i)
    BY <1>2, <2>1 DEF WholeTurns
  <2>. QED
    BY <1>2, <1>3, <2>1, <2>2 DEF OpenedBy
<1>6. PromptsInOrder(g)
  <2>. SUFFICES ASSUME NEW i \in UserPositions(g), NEW j \in UserPositions(g), i < j
                PROVE  g[i].req < g[j].req \/ (g[i].req = 0 /\ g[j].req = 0)
    BY DEF PromptsInOrder
  <2>1. CASE j = e
    <3>1. i \in 1..Len(h)
      BY <1>2, <1>4, <2>1
    <3>. QED
      BY <1>1, <1>2, <2>1, <3>1
  <2>2. CASE j # e
    <3>1. j \in UserPositions(h) /\ j \in 1..Len(h)
      BY <1>2, <2>2
    <3>2. i \in UserPositions(h) /\ i \in 1..Len(h)
      BY <1>2, <1>3, <1>4, <3>1
    <3>. QED
      BY <1>2, <3>1, <3>2 DEF PromptsInOrder
  <2>. QED
    BY <2>1, <2>2
<1>7. LastPromptIs(g, r)
  <2>1. \A v \in UserPositions(g) : v <= e
    BY <1>2, <1>4
  <2>. QED
    BY <1>1, <1>2, <2>1 DEF LastPromptIs
<1>8. PromptRequests(g) = PromptRequests(h) \cup {r}
  <2>1. \A i \in UserPositions(h) : g[i] = h[i]
    BY <1>2
  <2>. QED
    BY <1>1, <1>2, <2>1 DEF PromptRequests
<1>9. UserTurns(g) = UserTurns(h) + 1
  <2>1. IsFiniteSet(UserPositions(h)) /\ e \notin UserPositions(h)
    BY <1>2, <1>4, PositionsBounded
  <2>. QED
    BY <1>2, <2>1, FS_AddElement DEF UserTurns
<1>10. Unanswered(g) \in SUBSET Unanswered(h)
  <2>1. e \notin Unanswered(g)
    BY <1>1, <1>2 DEF Unanswered
  <2>. QED
    BY <1>2, <2>1
<1>. QED
  BY <1>5, <1>6, <1>7, <1>8, <1>9, <1>10 DEF g, m

(* A message of the turn that runs stays behind its prompt.                *)
LEMMA AnswerAppended ==
  ASSUME NEW h \in Seq(Message), NEW m \in Message, m.role \in {"assistant", "tool"},
         WholeTurns(h), PromptsInOrder(h), LastPromptIs(h, m.req)
  PROVE  LET g == Append(h, m)
         IN  /\ WholeTurns(g) /\ PromptsInOrder(g) /\ LastPromptIs(g, m.req)
             /\ PromptRequests(g) = PromptRequests(h)
             /\ UserTurns(g) = UserTurns(h)
<1>. DEFINE g == Append(h, m)
            e == Len(h) + 1
<1>1. m.role # "user"
  OBVIOUS
<1>2. /\ g \in Seq(Message) /\ DOMAIN h = 1..Len(h) /\ Len(h) \in Nat
      /\ Len(g) = e /\ DOMAIN g = 1..e /\ g[e] = m
      /\ \A i \in 1..Len(h) : i \in 1..e /\ i # e /\ g[i] = h[i]
      /\ \A i \in 1..e : i \in 1..Len(h) \/ i = e
      /\ UserPositions(h) \in SUBSET (1..Len(h))
      /\ UserPositions(g) = UserPositions(h)
  BY <1>1, Appended
<1>3. \A i \in 1..Len(h) : i < e /\ i <= e
  BY <1>2
<1>. HIDE DEF e, g
<1>4. \A i \in UserPositions(h) : g[i] = h[i]
  BY <1>2
<1>5. PICK l \in UserPositions(h) : h[l].req = m.req /\ \A v \in UserPositions(h) : v <= l
  BY DEF LastPromptIs
<1>6. WholeTurns(g)
  <2>. SUFFICES ASSUME NEW i \in 1..e, g[i].role \in {"assistant", "tool"}, g[i].req # 0
                PROVE  OpenedBy(g, i)
    BY <1>2 DEF WholeTurns
  <2>1. CASE i = e
    BY <1>2, <1>3, <1>4, <1>5, <2>1 DEF OpenedBy
  <2>2. CASE i # e
    <3>1. i \in 1..Len(h) /\ g[i] = h[i]
      BY <1>2, <2>2
    <3>2. OpenedBy(h, i)
      BY <1>2, <3>1 DEF WholeTurns
    <3>. QED
      BY <1>2, <1>4, <3>1, <3>2 DEF OpenedBy
  <2>. QED
    BY <2>1, <2>2
<1>7. PromptsInOrder(g)
  BY <1>2, <1>4 DEF PromptsInOrder
<1>8. LastPromptIs(g, m.req)
  BY <1>2, <1>4, <1>5 DEF LastPromptIs
<1>9. PromptRequests(g) = PromptRequests(h) /\ UserTurns(g) = UserTurns(h)
  BY <1>2, <1>4 DEF PromptRequests, UserTurns
<1>. QED
  BY <1>6, <1>7, <1>8, <1>9 DEF g

-----------------------------------------------------------------------------
(* The gateway.                                                            *)

TypeInv == TypeOK /\ TurnShape

-----------------------------------------------------------------------------
(* What the parts of the actions preserve.                                 *)

(* A received line has a fresh id.                                         *)
LEMMA ReceiveType ==
  ASSUME TypeOK, NEW m, Receive(m)
  PROVE  /\ New \in Ids
         /\ received' \in 0..MaxRequests
         /\ kind' \in [Ids -> AllMethods \cup {"none"}]
         /\ serving' \in {"reading", "draining", "closed"}
<1>1. m \in AllMethods
  BY GatewayAssumption DEF Receive
<1>2. New \in Ids
  BY TurnAssumption DEF TypeOK, Receive, New, Ids
<1>. QED
  BY <1>1, <1>2, TurnAssumption DEF TypeOK, Receive, New, Ids

(* A response that is queued is well formed.                               *)
LEMMA AnswerType ==
  ASSUME TypeOK, NEW r \in Ids, NEW x \in Replies, Answer(r, x)
  PROVE  /\ status' \in [Ids -> Statuses]
         /\ reply' \in [Ids -> Replies]
         /\ outbox' \in Seq(Ids)
BY AppendProperties DEF TypeOK, Answer, Statuses

(* The responses without an argument.                                      *)
LEMMA ReplyType ==
  ASSUME NEW code \in Codes
  PROVE  Reply(code, <<>>) \in Replies
BY DEF Reply, Replies

(* The responses that name a request.                                      *)
LEMMA ReplyNamingType ==
  ASSUME NEW code \in Codes, NEW r \in Ids
  PROVE  Reply(code, <<r>>) \in Replies
BY TurnAssumption DEF Reply, Replies, Ids

(* The responses that name a call.                                         *)
LEMMA ReplyCallType ==
  ASSUME NEW code \in Codes, NEW c \in Positions
  PROVE  Reply(code, c) \in Replies
<1>1. c = <<c[1], c[2], c[3]>> /\ c[1] \in Nat /\ c[2] \in Nat /\ c[3] \in Nat
  BY TurnAssumption DEF Positions, Ids
<1>2. <<c[1], c[2], c[3]>> \in Seq(Nat)
  BY <1>1
<1>. QED
  BY <1>1, <1>2 DEF Reply, Replies

(* A step that leaves the turn alone leaves it well formed.                *)
LEMMA TurnUntouched ==
  ASSUME TurnTypeOK, TurnShape, UNCHANGED <<loopVars, gateVars>>,
         messages' \in Seq(Message), turnCount' \in Nat, cancelFlag' \in BOOLEAN
  PROVE  TurnTypeOK' /\ TurnShape'
BY DEF TurnTypeOK, TurnShape, loopVars, gateVars, Tool

(* Dropping the loop leaves an idle turn.                                  *)
LEMMA DroppedType ==
  ASSUME TurnTypeOK, LoopDropped,
         messages' \in Seq(Message), turnCount' \in Nat, cancelFlag' \in BOOLEAN,
         alwaysAllow' \in SUBSET HighRisk, asked' = asked,
         future' \in [CallIds -> Futures]
  PROVE  TurnTypeOK' /\ TurnShape'
BY TurnAssumption DEF TurnTypeOK, TurnShape, LoopDropped, Phases

(* Popping the pending entry keeps the map well formed.                    *)
LEMMA PoppedType ==
  ASSUME TurnTypeOK
  PROVE  Popped \in [CallIds -> Futures]
<1>1. NoFuture \in Futures
  BY DEF Futures
<1>. QED
  BY <1>1 DEF TurnTypeOK, Popped

(* The future of a call.                                                   *)
LEMMA FutureType ==
  ASSUME NEW c \in Positions, NEW s \in Decisions \cup {"waiting"}
  PROVE  Future(c, s) \in Futures
BY DEF Future, Futures

-----------------------------------------------------------------------------
(* The steps inside a turn.                                                *)

(* What the head of a tool call does: the call is valid and, when it       *)
(* waits for the user, high-risk.                                          *)
LEMMA CallHeadType ==
  ASSUME TurnTypeOK, NEW cs \in Seq(Calls), NEW k \in 1..Len(cs), Len(cs) <= MaxCalls,
         NEW fut \in [CallIds -> Futures],
         turnOf \in Ids, round \in 1..MaxRounds, CallHead(cs, k, fut)
  PROVE  /\ calls' = cs /\ callNo' = k /\ round' = round
         /\ phase' \in {"stopping", "running", "approval"}
         /\ phase' = "approval" => cs[k].tool \in HighRisk
         /\ future' \in [CallIds -> Futures]
         /\ asked' \in SUBSET [call : Positions, id : CallIds]
<1>. DEFINE c == <<turnOf, round, k>>
            f == Future(c, "waiting")
            a == Asked(c, cs[k].id)
<1>1. c \in Positions
  BY TurnAssumption, LenProperties DEF Positions
<1>2. cs[k].tool \in Tools /\ cs[k].id \in CallIds
  BY ElementOfSeq DEF Calls
<1>3. f \in Futures
  BY <1>1, FutureType
<1>4. a \in [call : Positions, id : CallIds]
  BY <1>1, <1>2 DEF Asked
<1>5. asked \in SUBSET [call : Positions, id : CallIds]
  BY DEF TurnTypeOK
<1>6. /\ calls' = cs /\ callNo' = k /\ round' = round
      /\ phase' \in {"stopping", "running", "approval"}
      /\ phase' = "approval" => ~Ungated(cs[k].tool)
      /\ \/ future' = fut /\ asked' = asked
         \/ future' = [fut EXCEPT ![cs[k].id] = f] /\ asked' = asked \cup {a}
  BY DEF CallHead
<1>. HIDE DEF f, a
<1>. QED
  BY <1>2, <1>3, <1>4, <1>5, <1>6 DEF Ungated

(* What the head of a round does.                                          *)
LEMMA LoopHeadType ==
  ASSUME TurnTypeOK, round \in 1..MaxRounds, LoopHead
  PROVE  /\ calls' = <<>> /\ callNo' = 0 /\ round' \in 1..MaxRounds
         /\ phase' \in {"streaming", "stopping", "exhausted"}
BY TurnAssumption DEF LoopHead, TurnTypeOK

(* What follows a tool call keeps the turn well formed.                    *)
LEMMA AfterCallType ==
  ASSUME TurnTypeOK, TurnShape, phase \in {"approval", "running"},
         NEW fut \in [CallIds -> Futures],
         AfterCall(fut),
         UNCHANGED <<turnOf, alwaysAllow, messages, turnCount, cancelFlag>>
  PROVE  TurnTypeOK' /\ TurnShape'
<1>1. /\ callNo \in 1..Len(calls) /\ Len(calls) <= MaxCalls /\ calls \in Seq(Calls)
      /\ turnOf \in Ids /\ round \in 1..MaxRounds
  BY DEF TurnShape, TurnTypeOK
<1>2. Len(calls) \in Nat
  BY <1>1, LenProperties
<1>3. history' \in Seq(Message)
  <2>1. ToolMsg(turnOf, callNo) \in Message
    BY <1>1, <1>2, TurnAssumption DEF ToolMsg, Message, Roles, Ids
  <2>. QED
    BY <2>1, AppendProperties DEF AfterCall, TurnTypeOK
<1>4. CASE callNo < Len(calls) /\ CallHead(calls, callNo + 1, fut)
  <2>1. callNo + 1 \in 1..Len(calls)
    BY <1>1, <1>2, <1>4
  <2>2. /\ calls' = calls /\ callNo' = callNo + 1 /\ round' = round
        /\ phase' \in {"stopping", "running", "approval"}
        /\ phase' = "approval" => calls[callNo + 1].tool \in HighRisk
        /\ future' \in [CallIds -> Futures]
        /\ asked' \in SUBSET [call : Positions, id : CallIds]
    BY <1>1, <1>4, <2>1, CallHeadType
  <2>. QED
    BY <1>1, <1>3, <2>1, <2>2, TurnAssumption DEF TurnTypeOK, TurnShape, Phases, Tool
<1>5. CASE LoopHead /\ future' = fut /\ UNCHANGED asked
  <2>1. /\ calls' = <<>> /\ callNo' = 0 /\ round' \in 1..MaxRounds
        /\ phase' \in {"streaming", "stopping", "exhausted"}
    BY <1>1, <1>5, LoopHeadType
  <2>. QED
    BY <1>1, <1>3, <1>5, <2>1, EmptySeq, TurnAssumption DEF TurnTypeOK, TurnShape, Phases
<1>. QED
  BY <1>4, <1>5 DEF AfterCall

(* A response with tool calls names at most MaxCalls of them.              *)
LEMMA ResponseCallsType ==
  ASSUME NEW cs \in ResponseCalls
  PROVE  cs \in Seq(Calls) /\ Len(cs) \in 1..MaxCalls
<1>1. PICK k \in 1..MaxCalls : cs \in [1..k -> Calls]
  BY DEF ResponseCalls
<1>2. k \in Nat
  BY <1>1
<1>3. cs \in Seq(Calls)
  BY <1>1, <1>2, SeqDef
<1>4. Len(cs) = k
  BY <1>1, <1>2, <1>3, LenProperties
<1>. QED
  BY <1>1, <1>3, <1>4

(* Every step inside a turn keeps it well formed.                          *)
LEMMA TurnStepType ==
  ASSUME TurnTypeOK, TurnShape, TurnStep
  PROVE  TurnTypeOK' /\ TurnShape'
<1>1. CASE StreamStopped
  BY <1>1 DEF TurnTypeOK, TurnShape, StreamStopped, gateVars, Phases
<1>2. CASE StreamAnswers
  <2>1. AssistantMsg(turnOf, 0) \in Message
    BY <1>2, TurnAssumption DEF AssistantMsg, Message, Roles, TurnTypeOK, Ids
  <2>2. history' \in Seq(Message)
    BY <1>2, <2>1, AppendProperties DEF StreamAnswers, TurnTypeOK
  <2>. QED
    BY <1>2, <2>2 DEF TurnTypeOK, TurnShape, StreamAnswers, gateVars, Phases
<1>3. ASSUME NEW cs \in ResponseCalls, StreamCallsTools(cs)
      PROVE  TurnTypeOK' /\ TurnShape'
  <2>1. cs \in Seq(Calls) /\ Len(cs) \in 1..MaxCalls
    BY ResponseCallsType
  <2>2. turnOf \in Ids /\ round \in 1..MaxRounds /\ 1 \in 1..Len(cs) /\ Len(cs) <= MaxCalls
    BY <1>3, <2>1 DEF TurnShape, StreamCallsTools
  <2>3. AssistantMsg(turnOf, Len(cs)) \in Message
    BY <2>1, <2>2, TurnAssumption DEF AssistantMsg, Message, Roles, Ids
  <2>4. history' \in Seq(Message)
    BY <1>3, <2>3, AppendProperties DEF StreamCallsTools, TurnTypeOK
  <2>5. future \in [CallIds -> Futures]
    BY DEF TurnTypeOK
  <2>6. /\ calls' = cs /\ callNo' = 1 /\ round' = round
        /\ phase' \in {"stopping", "running", "approval"}
        /\ phase' = "approval" => cs[1].tool \in HighRisk
        /\ future' \in [CallIds -> Futures]
        /\ asked' \in SUBSET [call : Positions, id : CallIds]
    BY <1>3, <2>1, <2>2, <2>5, CallHeadType DEF StreamCallsTools
  <2>. QED
    BY <1>3, <2>1, <2>2, <2>4, <2>6 DEF StreamCallsTools, TurnTypeOK, TurnShape, Phases, Tool
<1>4. CASE ToolReturns
  BY <1>4, AfterCallType DEF ToolReturns, TurnTypeOK
<1>5. CASE Denied
  BY <1>5, AfterCallType, PoppedType DEF Denied
<1>6. CASE Approved
  <2>1. Remembered \in SUBSET HighRisk
    BY <1>6 DEF Remembered, Approved, TurnTypeOK, TurnShape
  <2>. QED
    BY <1>6, <2>1, PoppedType DEF TurnTypeOK, TurnShape, Approved, Phases, Tool
<1>. QED
  BY <1>1, <1>2, <1>3, <1>4, <1>5, <1>6 DEF TurnStep

-----------------------------------------------------------------------------
(* Type correctness.                                                       *)

(* The first state is well formed.                                         *)
LEMMA InitType == Init => TypeInv
<1>. SUFFICES ASSUME Init PROVE TypeInv
  OBVIOUS
<1>1. <<>> \in Seq(Message) /\ <<>> \in Seq(Calls) /\ <<>> \in Seq(Ids)
  BY EmptySeq
<1>2. TurnTypeOK
  <2>1. future \in [CallIds -> Futures]
    BY DEF Init, TurnInit, Futures
  <2>2. round \in 0..MaxRounds
    BY TurnAssumption DEF Init, TurnInit
  <2>. QED
    BY <1>1, <2>1, <2>2 DEF Init, TurnInit, TurnTypeOK, Phases
<1>3. TurnShape
  BY DEF Init, TurnInit, TurnShape
<1>4. NoReply \in Replies
  BY DEF NoReply, Replies, Codes
<1>5. /\ kind \in [Ids -> AllMethods \cup {"none"}]
      /\ status \in [Ids -> Statuses]
      /\ reply \in [Ids -> Replies]
  BY <1>4 DEF Init, Statuses
<1>6. received \in 0..MaxRequests
  BY TurnAssumption DEF Init
<1>. QED
  BY <1>1, <1>2, <1>3, <1>5, <1>6 DEF Init, TypeInv, TypeOK

(* The session handlers leave a conversation.                              *)
LEMMA ConversationType ==
  ASSUME TurnTypeOK,
         ResetConversation \/ UndoTurn \/ CompactConversation
           \/ ResumeConversation \/ UNCHANGED sessionVars
  PROVE  messages' \in Seq(Message) /\ turnCount' \in Nat
<1>1. CASE ResetConversation
  BY <1>1, EmptySeq DEF ResetConversation
<1>2. CASE UndoTurn
  BY <1>2, UndoType DEF UndoTurn, TurnTypeOK
<1>3. CASE CompactConversation
  BY <1>3, CompactType, GatewayAssumption DEF CompactConversation, TurnTypeOK
<1>4. CASE UNCHANGED sessionVars
  BY <1>4 DEF sessionVars, TurnTypeOK
<1>5. CASE ResumeConversation
  <2>1. CASE \E h \in Archive : messages' = h /\ turnCount' = UserTurns(h)
    BY <2>1, UserTurnsType, GatewayAssumption
  <2>. QED
    BY <1>1, <1>4, <1>5, <2>1 DEF ResumeConversation
<1>. QED
  BY <1>1, <1>2, <1>3, <1>4, <1>5

(* The handlers that answer at once with no argument.                      *)
LEMMA AnswerOkType ==
  ASSUME TypeInv, NEW m, Receive(m), AnswerOk,
         messages' \in Seq(Message), turnCount' \in Nat
  PROVE  TypeInv'
<1>1. Reply("ok", <<>>) \in Replies
  BY ReplyType DEF Codes
<1>2. /\ New \in Ids /\ received' \in 0..MaxRequests
      /\ kind' \in [Ids -> AllMethods \cup {"none"}]
      /\ serving' \in {"reading", "draining", "closed"}
  BY ReceiveType DEF TypeInv
<1>3. /\ status' \in [Ids -> Statuses] /\ reply' \in [Ids -> Replies]
      /\ outbox' \in Seq(Ids)
  BY <1>1, <1>2, AnswerType DEF TypeInv, AnswerOk
<1>4. TurnTypeOK' /\ TurnShape'
  BY TurnUntouched DEF TypeInv, TypeOK, AnswerOk, TurnTypeOK
<1>. QED
  BY <1>2, <1>3, <1>4 DEF TypeInv, TypeOK, AnswerOk

(* Every received line keeps the server well formed.                       *)
LEMMA RequestType == TypeInv /\ Request => TypeInv'
<1>. SUFFICES ASSUME TypeInv, Request PROVE TypeInv'
  OBVIOUS
<1>. USE DEF TypeInv
<1>0. TypeOK /\ TurnShape /\ TurnTypeOK
  BY DEF TypeOK
<1>1. ASSUME NEW m, Receive(m), UNCHANGED <<busy, shutdown, turnVars>>,
             NEW x \in Replies, Answer(New, x)
      PROVE  TypeInv'
  <2>1. TurnTypeOK' /\ TurnShape'
    BY <1>0, <1>1, TurnUntouched DEF turnVars, TurnTypeOK
  <2>. QED
    BY <1>0, <1>1, <2>1, ReceiveType, AnswerType DEF TypeOK
<1>2. CASE ChatSendBusy
  <2>1. Reply("busy", <<busy>>) \in Replies
    BY <1>0, <1>2, ReplyNamingType DEF ChatSendBusy, Codes, TypeOK
  <2>. QED
    BY <1>1, <1>2, <2>1 DEF ChatSendBusy
<1>3. ASSUME NEW code \in Refused, ChatSendRefused(code)
      PROVE  TypeInv'
  <2>1. Reply(code, <<>>) \in Replies
    BY ReplyType DEF Codes
  <2>2. TurnTypeOK' /\ TurnShape'
    BY <1>0, <1>3, TurnUntouched DEF ChatSendRefused, TurnTypeOK
  <2>. QED
    BY <1>0, <1>3, <2>1, <2>2, ReceiveType, AnswerType DEF ChatSendRefused, TypeOK
<1>4. CASE ChatSend
  <2>1. /\ New \in Ids /\ received' \in 0..MaxRequests
        /\ kind' \in [Ids -> AllMethods \cup {"none"}]
        /\ serving' \in {"reading", "draining", "closed"}
    BY <1>0, <1>4, ReceiveType DEF ChatSend
  <2>2. UserMsg(New) \in Message
    BY <2>1, TurnAssumption DEF UserMsg, Message, Roles, Ids
  <2>3. history' \in Seq(Message)
    BY <1>0, <1>4, <2>2, AppendProperties DEF ChatSend, Begin, TurnTypeOK
  <2>4. TurnTypeOK' /\ TurnShape'
    <3>1. 1 \in 1..MaxRounds /\ 1 \in 0..MaxRounds
      BY TurnAssumption
    <3>. QED
      BY <1>0, <1>4, <2>1, <2>3, <3>1
         DEF ChatSend, Begin, TurnTypeOK, TurnShape, gateVars, Phases
  <2>. QED
    BY <1>0, <1>4, <2>1, <2>4 DEF ChatSend, TypeOK, Statuses
<1>5. ASSUME NEW t \in Targets, ChatCancel(t)
      PROVE  TypeInv'
  <2>1. TurnTypeOK' /\ TurnShape'
    BY <1>0, <1>5, TurnUntouched DEF ChatCancel, TurnTypeOK
  <2>2. CASE CancelHits(t)
    <3>1. Reply("cancelling", <<busy>>) \in Replies /\ <<busy>> = IF t = <<>> THEN <<busy>> ELSE t
      BY <1>0, <2>2, ReplyNamingType DEF CancelHits, Codes, TypeOK
    <3>. QED
      BY <1>0, <1>5, <2>1, <2>2, <3>1, ReceiveType, AnswerType DEF ChatCancel, TypeOK
  <2>3. CASE ~CancelHits(t)
    <3>1. Reply("rejected", <<>>) \in Replies
      BY ReplyType DEF Codes
    <3>. QED
      BY <1>0, <1>5, <2>1, <2>3, <3>1, ReceiveType, AnswerType DEF ChatCancel, TypeOK
  <2>. QED
    BY <2>2, <2>3
<1>6. ASSUME NEW a \in asked, NEW d \in Decisions, ChatApprove(a.id, d)
      PROVE  TypeInv'
  <2>. DEFINE i == a.id
              c == future[i].of
              f == Future(c, d)
  <2>1. /\ i \in CallIds /\ future \in [CallIds -> Futures] /\ future[i] \in Futures
        /\ asked \in SUBSET [call : Positions, id : CallIds]
    BY <1>0 DEF TurnTypeOK
  <2>2. Resolvable(i) => c \in Positions
    BY <2>1 DEF Resolvable, Futures, NoFuture, Future
  <2>3. /\ Resolvable(i) => Reply(d, c) \in Replies
        /\ Reply("rejected", <<>>) \in Replies
    BY <2>2, ReplyType, ReplyCallType DEF Codes
  <2>4. Resolvable(i) => f \in Futures
    BY <2>2, FutureType
  <2>5. /\ UNCHANGED <<messages, turnCount, cancelFlag, loopVars, alwaysAllow, asked>>
        /\ \/ Resolvable(i) /\ future' = [future EXCEPT ![i] = f]
           \/ UNCHANGED future
    BY <1>6 DEF ChatApprove, Resolve
  <2>6. /\ Receive("chat.approve") /\ UNCHANGED <<busy, shutdown>>
        /\ \/ Resolvable(i) /\ Answer(New, Reply(d, c))
           \/ Answer(New, Reply("rejected", <<>>))
    BY <1>6 DEF ChatApprove
  <2>. HIDE DEF c, f, i
  <2>7. future' \in [CallIds -> Futures]
    BY <2>1, <2>4, <2>5
  <2>8. TurnTypeOK' /\ TurnShape'
    BY <1>0, <2>5, <2>7 DEF TurnTypeOK, TurnShape, loopVars, Tool
  <2>. QED
    BY <1>0, <2>3, <2>6, <2>8, ReceiveType, AnswerType DEF TypeOK
<1>7. CASE SessionNew
  BY <1>0, <1>7, ConversationType, AnswerOkType DEF SessionNew
<1>8. CASE SessionResume
  BY <1>0, <1>8, ConversationType, AnswerOkType DEF SessionResume
<1>9. CASE CommandsDispatch
  BY <1>0, <1>9, ConversationType, AnswerOkType DEF CommandsDispatch
<1>10. CASE ToolsRun
  <2>1. TurnTypeOK' /\ TurnShape'
    BY <1>0, <1>10, TurnUntouched DEF ToolsRun, turnVars, TurnTypeOK
  <2>. QED
    BY <1>0, <1>10, <2>1, ReceiveType DEF ToolsRun, TypeOK, Statuses
<1>11. CASE GatewayShutdown
  <2>1. TurnTypeOK' /\ TurnShape'
    BY <1>0, <1>11, TurnUntouched DEF GatewayShutdown, turnVars, TurnTypeOK
  <2>2. Reply("ok", <<>>) \in Replies
    BY ReplyType DEF Codes
  <2>. QED
    BY <1>0, <1>11, <2>1, <2>2, ReceiveType, AnswerType DEF GatewayShutdown, TypeOK
<1>12. CASE ReadOnly
  BY <1>0, <1>12, ConversationType, AnswerOkType DEF ReadOnly
<1>13. CASE Malformed
  <2>1. Reply("invalid", <<>>) \in Replies
    BY ReplyType DEF Codes, Refused, Raised
  <2>. QED
    BY <1>1, <1>13, <2>1 DEF Malformed
<1>. QED
  BY <1>2, <1>3, <1>4, <1>5, <1>6, <1>7, <1>8, <1>9, <1>10, <1>11, <1>12, <1>13 DEF Request

(* Every step of a task keeps the server well formed.                      *)
LEMMA WorkType == TypeInv /\ Work => TypeInv'
<1>. SUFFICES ASSUME TypeInv, Work PROVE TypeInv'
  OBVIOUS
<1>. USE DEF TypeInv
<1>0. TypeOK /\ TurnShape /\ TurnTypeOK
  BY DEF TypeOK
<1>1. CASE TurnGoesOn
  BY <1>0, <1>1, TurnStepType DEF TurnGoesOn, serverVars, TypeOK
<1>2. CASE ChatSendReturns
  <2>1. turnOf \in Ids
    BY <1>0, <1>2 DEF ChatSendReturns, TurnReturns, TurnShape
  <2>2. Reported(LoopStatus) \in Codes
    BY <1>2 DEF ChatSendReturns, TurnReturns, Reported, LoopStatus, Codes, Saved
  <2>3. /\ status' \in [Ids -> Statuses] /\ reply' \in [Ids -> Replies]
        /\ outbox' \in Seq(Ids)
    BY <1>0, <1>2, <2>1, <2>2, ReplyType, AnswerType DEF ChatSendReturns
  <2>4. TurnTypeOK' /\ TurnShape'
    <3>1. messages' \in Seq(Message) /\ turnCount' \in Nat
      BY <1>0, <1>2 DEF ChatSendReturns, TurnReturns, TurnTypeOK
    <3>. QED
      BY <1>0, <1>2, <3>1, DroppedType DEF ChatSendReturns, TurnReturns, gateVars, TurnTypeOK
  <2>. QED
    BY <1>0, <1>2, <2>3, <2>4 DEF ChatSendReturns, TypeOK
<1>3. CASE ChatSendRaises
  <2>1. turnOf \in Ids
    BY <1>0, <1>3 DEF ChatSendRaises, ProviderRaises, AllowAlwaysRaises, TurnShape
  <2>2. PICK code \in Codes : Answer(turnOf, Reply(code, <<>>))
    BY <1>3 DEF ChatSendRaises, Codes, Raised
  <2>3. /\ status' \in [Ids -> Statuses] /\ reply' \in [Ids -> Replies]
        /\ outbox' \in Seq(Ids)
    BY <1>0, <2>1, <2>2, ReplyType, AnswerType
  <2>4. CASE ProviderRaises
    <3>1. TurnTypeOK' /\ TurnShape'
      BY <1>0, <1>3, <2>4, DroppedType DEF ChatSendRaises, ProviderRaises, gateVars, TurnTypeOK
    <3>. QED
      BY <1>0, <1>3, <2>3, <3>1 DEF ChatSendRaises, TypeOK
  <2>5. CASE AllowAlwaysRaises
    <3>1. Remembered \in SUBSET HighRisk
      BY <1>0, <2>5 DEF Remembered, AllowAlwaysRaises, TurnTypeOK, TurnShape
    <3>2. TurnTypeOK' /\ TurnShape'
      BY <1>0, <1>3, <2>5, <3>1, DroppedType, PoppedType
         DEF ChatSendRaises, AllowAlwaysRaises, TurnTypeOK
    <3>. QED
      BY <1>0, <1>3, <2>3, <3>2 DEF ChatSendRaises, TypeOK
  <2>. QED
    BY <1>3, <2>4, <2>5 DEF ChatSendRaises
<1>4. ASSUME NEW r \in Ids, ToolsRunReturns(r)
      PROVE  TypeInv'
  <2>1. Reply("ok", <<>>) \in Replies
    BY ReplyType DEF Codes
  <2>2. TurnTypeOK' /\ TurnShape'
    BY <1>0, <1>4, TurnUntouched DEF ToolsRunReturns, turnVars, TurnTypeOK
  <2>. QED
    BY <1>0, <1>4, <2>1, <2>2, AnswerType DEF ToolsRunReturns, TypeOK
<1>5. CASE WriteFrame
  <2>1. TurnTypeOK' /\ TurnShape'
    BY <1>0, <1>5, TurnUntouched DEF WriteFrame, turnVars, TurnTypeOK
  <2>. QED
    BY <1>0, <1>5, <2>1 DEF WriteFrame, TypeOK, Statuses
<1>6. CASE TaskEnds
  <2>1. TurnTypeOK' /\ TurnShape'
    BY <1>0, <1>6, TurnUntouched DEF TaskEnds, sessionVars, TurnTypeOK
  <2>2. outbox' \in Seq(Ids)
    BY <1>0, <1>6, HeadTailProperties DEF TaskEnds, TypeOK
  <2>3. status' \in [Ids -> Statuses]
    BY <1>0, <1>6 DEF TaskEnds, TypeOK, Statuses
  <2>4. busy' \in {0} \cup Ids
    BY <1>0, <1>6 DEF TaskEnds, TypeOK
  <2>. QED
    BY <1>0, <1>6, <2>1, <2>2, <2>3, <2>4 DEF TaskEnds, TypeOK
<1>. QED
  BY <1>1, <1>2, <1>3, <1>4, <1>5, <1>6 DEF Work

(* Every step of serve() keeps the server well formed.                     *)
LEMMA ServeType ==
  TypeInv /\ (StdinEnds \/ ShutdownCancels \/ ServeReturns) => TypeInv'
<1>. SUFFICES ASSUME TypeInv, StdinEnds \/ ShutdownCancels \/ ServeReturns
              PROVE  TypeInv'
  OBVIOUS
<1>. USE DEF TypeInv
<1>0. TypeOK /\ TurnShape /\ TurnTypeOK
  BY DEF TypeOK
<1>1. CASE StdinEnds \/ ServeReturns
  <2>1. TurnTypeOK' /\ TurnShape'
    BY <1>0, <1>1, TurnUntouched DEF StdinEnds, ServeReturns, turnVars, TurnTypeOK
  <2>. QED
    BY <1>0, <1>1, <2>1 DEF StdinEnds, ServeReturns, TypeOK
<1>2. CASE ShutdownCancels
  <2>1. TurnTypeOK' /\ TurnShape'
    BY <1>0, <1>2, DroppedType, PoppedType DEF ShutdownCancels, TurnCancelled, TurnTypeOK
  <2>2. status' \in [Ids -> Statuses]
    BY <1>0, <1>2 DEF ShutdownCancels, TypeOK, Statuses
  <2>3. outbox' \in Seq(Ids)
    BY <1>2, EmptySeq DEF ShutdownCancels
  <2>. QED
    BY <1>0, <1>2, <2>1, <2>2, <2>3 DEF ShutdownCancels, TypeOK
<1>. QED
  BY <1>1, <1>2

(* Every step of the server keeps it well formed.                          *)
LEMMA NextType == TypeInv /\ [Next]_vars => TypeInv'
<1>. SUFFICES ASSUME TypeInv, [Next]_vars PROVE TypeInv'
  OBVIOUS
<1>1. CASE UNCHANGED vars
  <2>1. TurnTypeOK' /\ TurnShape'
    BY <1>1, TurnUntouched DEF vars, turnVars, TypeInv, TypeOK, TurnTypeOK
  <2>. QED
    BY <1>1, <2>1 DEF vars, serverVars, TypeInv, TypeOK
<1>2. CASE Next
  BY <1>2, RequestType, WorkType, ServeType DEF Next
<1>. QED
  BY <1>1, <1>2

(* All variables keep their types, for every number of requests, rounds    *)
(* and calls and whatever the frontend sends.                              *)
THEOREM TypeCorrect == Spec => []TypeOK
<1>1. TypeInv => TypeOK
  BY DEF TypeInv
<1>. QED
  BY <1>1, InitType, NextType, PTL DEF Spec

-----------------------------------------------------------------------------
(* The busy slot.                                                          *)

Slots == RequestsInOrder /\ RunningUnanswered /\ SlotHeld /\ SingleFlight

(* A fresh request is blank and is not the one that holds the slot.        *)
LEMMA NewIsFresh ==
  ASSUME TypeInv, Slots, NEW m, Receive(m)
  PROVE  /\ New \in Ids /\ received' = New /\ kind' = [kind EXCEPT ![New] = m]
         /\ status[New] = "unsent" /\ reply[New] = NoReply
         /\ busy # New /\ turnOf # New
         /\ \A r \in Ids : r # New => (r > received <=> r > New)
<1>1. New \in Ids /\ received' = New /\ New > received
  <2>1. New \in Ids
    BY ReceiveType DEF TypeInv
  <2>2. New > received
    BY TurnAssumption DEF TypeInv, TypeOK, New
  <2>. QED
    BY <2>1, <2>2 DEF Receive
<1>2. status[New] = "unsent" /\ reply[New] = NoReply
  BY <1>1 DEF Slots, RequestsInOrder
<1>3. busy # New
  BY <1>1, <1>2, TurnAssumption DEF Slots, SlotHeld, Ids
<1>4. turnOf # New
  BY <1>1, <1>2, TurnAssumption DEF Slots, SingleFlight, TypeInv, TurnShape, Ids
<1>5. \A r \in Ids : r # New => (r > received <=> r > New)
  BY TurnAssumption DEF TypeInv, TypeOK, New, Ids
<1>. QED
  BY <1>1, <1>2, <1>3, <1>4, <1>5 DEF Receive

(* A line that is answered at once leaves the slot alone.                  *)
LEMMA SlotsAnswered ==
  ASSUME TypeInv, Slots, NEW m, Receive(m), NEW x, Answer(New, x),
         m = "chat.send" => x.code = "busy",
         UNCHANGED <<busy, phase, turnOf>>
  PROVE  Slots'
<1>. DEFINE n == New
<1>1. /\ n \in Ids /\ received' = n /\ kind' = [kind EXCEPT ![n] = m]
      /\ status[n] = "unsent" /\ reply[n] = NoReply /\ busy # n /\ turnOf # n
      /\ \A r \in Ids : r # n => (r > received <=> r > n)
  BY NewIsFresh
<1>2. /\ status' = [status EXCEPT ![n] = "writing"]
      /\ reply' = [reply EXCEPT ![n] = x]
  BY DEF Answer
<1>. HIDE DEF n
<1>3. ~(n > n)
  BY <1>1, TurnAssumption DEF Ids
<1>. USE DEF Slots, TypeInv, TypeOK
<1>4. RequestsInOrder'
  BY <1>1, <1>2, <1>3 DEF RequestsInOrder
<1>5. RunningUnanswered'
  BY <1>1, <1>2 DEF RunningUnanswered
<1>6. SlotHeld'
  BY <1>1, <1>2 DEF SlotHeld
<1>7. SingleFlight'
  BY <1>1, <1>2, TurnAssumption DEF SingleFlight, TurnShape
<1>. QED
  BY <1>4, <1>5, <1>6, <1>7

(* A task that answers keeps its place in the slot.                        *)
LEMMA SlotsTaskAnswers ==
  ASSUME TypeInv, Slots, NEW r \in Ids, status[r] = "running",
         NEW x, x.code # "busy", Answer(r, x),
         UNCHANGED <<busy, kind, received>>,
         \/ kind[r] = "tools.run" /\ UNCHANGED <<phase, turnOf>>
         \/ r = turnOf /\ phase # "idle" /\ phase' = "idle" /\ turnOf' = 0
  PROVE  Slots'
<1>1. /\ status' = [status EXCEPT ![r] = "writing"]
      /\ reply' = [reply EXCEPT ![r] = x]
  BY DEF Answer
<1>. USE DEF Slots, TypeInv, TypeOK
<1>2. RequestsInOrder'
  BY <1>1 DEF RequestsInOrder
<1>3. RunningUnanswered'
  BY <1>1 DEF RunningUnanswered
<1>4. SlotHeld'
  BY <1>1 DEF SlotHeld, SingleFlight, RunningUnanswered
<1>5. SingleFlight'
  BY <1>1, TurnAssumption DEF SingleFlight, TurnShape
<1>. QED
  BY <1>2, <1>3, <1>4, <1>5

(* Receiving a line keeps the slot invariant.                              *)
LEMMA SlotsRequest == TypeInv /\ Slots /\ Request => Slots'
<1>. SUFFICES ASSUME TypeInv, Slots, Request PROVE Slots'
  OBVIOUS
<1>1. ASSUME NEW m, Receive(m), m # "chat.send", NEW x, Answer(New, x),
             UNCHANGED <<busy, loopVars>>
      PROVE  Slots'
  BY <1>1, SlotsAnswered DEF loopVars
<1>2. CASE ChatSendBusy
  <2>1. Reply("busy", <<busy>>).code = "busy"
    BY DEF Reply
  <2>2. UNCHANGED <<busy, phase, turnOf>>
    BY <1>2 DEF ChatSendBusy, turnVars, loopVars
  <2>. QED
    BY <1>2, <2>1, <2>2, SlotsAnswered DEF ChatSendBusy
<1>3. ASSUME NEW m, m = "chat.send", Receive(m), busy = 0, busy' = New,
             \/ /\ phase' = "streaming" /\ turnOf' = New
                /\ status' = [status EXCEPT ![New] = "running"]
                /\ UNCHANGED reply
             \/ /\ UNCHANGED loopVars
                /\ \E x : x.code # "busy" /\ Answer(New, x)
      PROVE  Slots'
  <2>. DEFINE n == New
  <2>1. /\ n \in Ids /\ received' = n /\ kind' = [kind EXCEPT ![n] = m]
        /\ status[n] = "unsent" /\ reply[n] = NoReply
        /\ \A r \in Ids : r # n => (r > received <=> r > n)
    BY <1>3, NewIsFresh
  <2>2. busy' = n
    BY <1>3
  <2>3. \/ /\ phase' = "streaming" /\ turnOf' = n
           /\ status' = [status EXCEPT ![n] = "running"]
           /\ UNCHANGED reply
        \/ /\ UNCHANGED <<phase, turnOf>>
           /\ status' = [status EXCEPT ![n] = "writing"]
           /\ \E x : x.code # "busy" /\ reply' = [reply EXCEPT ![n] = x]
    BY <1>3 DEF Answer, loopVars
  <2>. HIDE DEF n
  <2>4. ~(n > n) /\ n # 0
    BY <2>1, TurnAssumption DEF Ids
  <2>5. phase = "idle" /\ \A r \in Ids : ~(kind[r] = "chat.send" /\ status[r] = "running")
    BY <1>3, TurnAssumption DEF Slots, SingleFlight, TypeInv, TurnShape, Ids
  <2>6. \A r \in Ids : kind[r] = "chat.send" /\ status[r] \in {"writing", "written"}
                          => reply[r].code = "busy"
    BY <1>3, TurnAssumption DEF Slots, SlotHeld, Ids
  <2>. USE DEF Slots, TypeInv, TypeOK
  <2>7. RequestsInOrder'
    BY <2>1, <2>3, <2>4 DEF RequestsInOrder
  <2>8. RunningUnanswered'
    BY <1>3, <2>1, <2>3 DEF RunningUnanswered
  <2>9. SlotHeld'
    BY <1>3, <2>1, <2>2, <2>3, <2>6 DEF SlotHeld, NoReply
  <2>10. SingleFlight'
    BY <1>3, <2>1, <2>2, <2>3, <2>4, <2>5 DEF SingleFlight
  <2>. QED
    BY <2>7, <2>8, <2>9, <2>10
<1>4. CASE ChatSend
  BY <1>3, <1>4 DEF ChatSend, Begin
<1>5. ASSUME NEW code \in Refused, ChatSendRefused(code)
      PROVE  Slots'
  <2>1. Reply(code, <<>>).code # "busy"
    BY DEF Reply, Refused, Raised
  <2>. QED
    BY <1>3, <1>5, <2>1 DEF ChatSendRefused
<1>6. CASE ToolsRun
  <2>. DEFINE n == New
  <2>1. /\ n \in Ids /\ received' = n /\ kind' = [kind EXCEPT ![n] = "tools.run"]
        /\ status[n] = "unsent" /\ reply[n] = NoReply /\ busy # n /\ turnOf # n
        /\ \A r \in Ids : r # n => (r > received <=> r > n)
    BY <1>6, NewIsFresh DEF ToolsRun
  <2>2. /\ status' = [status EXCEPT ![n] = "running"]
        /\ UNCHANGED <<busy, reply, phase, turnOf>>
    BY <1>6 DEF ToolsRun, turnVars, loopVars
  <2>. HIDE DEF n
  <2>3. ~(n > n)
    BY <2>1, TurnAssumption DEF Ids
  <2>. USE DEF Slots, TypeInv, TypeOK
  <2>4. RequestsInOrder'
    BY <2>1, <2>2, <2>3 DEF RequestsInOrder
  <2>5. RunningUnanswered'
    BY <2>1, <2>2 DEF RunningUnanswered
  <2>6. SlotHeld'
    BY <2>1, <2>2 DEF SlotHeld
  <2>7. SingleFlight'
    BY <2>1, <2>2 DEF SingleFlight, TurnShape
  <2>. QED
    BY <2>4, <2>5, <2>6, <2>7
<1>7. ASSUME NEW t \in Targets, ChatCancel(t)
      PROVE  Slots'
  BY <1>1, <1>7 DEF ChatCancel
<1>8. ASSUME NEW a \in asked, NEW d \in Decisions, ChatApprove(a.id, d)
      PROVE  Slots'
  BY <1>1, <1>8 DEF ChatApprove
<1>9. CASE SessionNew \/ SessionResume \/ CommandsDispatch \/ ReadOnly
  BY <1>1, <1>9 DEF SessionNew, SessionResume, CommandsDispatch, ReadOnly, AnswerOk
<1>10. CASE GatewayShutdown \/ Malformed
  BY <1>1, <1>10 DEF GatewayShutdown, Malformed, turnVars
<1>. QED
  BY <1>2, <1>4, <1>5, <1>6, <1>7, <1>8, <1>9, <1>10 DEF Request

(* A step inside a turn stays inside that turn.                            *)
LEMMA TurnStepStays ==
  ASSUME TurnStep
  PROVE  phase # "idle" /\ phase' # "idle" /\ turnOf' = turnOf
<1>1. CASE \E cs \in ResponseCalls : StreamCallsTools(cs)
  BY <1>1 DEF StreamCallsTools, CallHead
<1>2. CASE ToolReturns \/ Denied
  BY <1>2 DEF ToolReturns, Denied, AfterCall, CallHead, LoopHead
<1>. QED
  BY <1>1, <1>2 DEF TurnStep, StreamStopped, StreamAnswers, Approved

(* The steps of the tasks keep the slot invariant.                         *)
LEMMA SlotsWork == TypeInv /\ Slots /\ Work => Slots'
<1>. SUFFICES ASSUME TypeInv, Slots, Work PROVE Slots'
  OBVIOUS
<1>0. phase # "idle" => turnOf \in Ids /\ status[turnOf] = "running"
  BY DEF TypeInv, TurnShape, Slots, SingleFlight
<1>1. CASE TurnGoesOn
  BY <1>1, TurnStepStays
     DEF TurnGoesOn, serverVars, Slots, RequestsInOrder, RunningUnanswered, SlotHeld, SingleFlight
<1>2. CASE ChatSendReturns
  <2>1. /\ phase # "idle" /\ phase' = "idle" /\ turnOf' = 0
        /\ Answer(turnOf, Reply(Reported(LoopStatus), <<>>))
        /\ UNCHANGED <<busy, kind, received>>
    BY <1>2 DEF ChatSendReturns, TurnReturns, LoopDropped
  <2>2. Reply(Reported(LoopStatus), <<>>).code # "busy"
    BY <1>2 DEF ChatSendReturns, TurnReturns, Reported, LoopStatus, Reply
  <2>. QED
    BY <1>0, <2>1, <2>2, SlotsTaskAnswers
<1>3. CASE ChatSendRaises
  <2>1. /\ phase # "idle" /\ phase' = "idle" /\ turnOf' = 0
        /\ UNCHANGED <<busy, kind, received>>
    BY <1>3 DEF ChatSendRaises, ProviderRaises, AllowAlwaysRaises, LoopDropped
  <2>2. PICK code \in Raised : Answer(turnOf, Reply(code, <<>>))
    BY <1>3 DEF ChatSendRaises, Raised
  <2>3. Reply(code, <<>>).code # "busy"
    BY DEF Raised, Reply
  <2>. QED
    BY <1>0, <2>1, <2>2, <2>3, SlotsTaskAnswers
<1>4. ASSUME NEW r \in Ids, ToolsRunReturns(r)
      PROVE  Slots'
  <2>1. Reply("ok", <<>>).code # "busy"
    BY DEF Reply
  <2>. QED
    BY <1>4, <2>1, SlotsTaskAnswers DEF ToolsRunReturns, turnVars, loopVars
<1>5. CASE WriteFrame
  <2>1. Head(outbox) \in Ids
    BY <1>5, HeadTailProperties DEF WriteFrame, TypeInv, TypeOK
  <2>2. UNCHANGED <<busy, received, kind, reply, phase, turnOf>>
    BY <1>5 DEF WriteFrame, turnVars, loopVars
  <2>. USE DEF WriteFrame, TypeInv, TypeOK, Slots
  <2>3. RequestsInOrder' /\ RunningUnanswered'
    BY <1>5, <2>1, <2>2 DEF RequestsInOrder, RunningUnanswered
  <2>4. SlotHeld' /\ SingleFlight'
    BY <1>5, <2>1, <2>2 DEF SlotHeld, SingleFlight
  <2>. QED
    BY <2>3, <2>4
<1>6. CASE TaskEnds
  <2>. DEFINE r == Head(outbox)
  <2>1. r \in Ids
    BY <1>6, HeadTailProperties DEF TaskEnds, TypeInv, TypeOK
  <2>2. /\ status[r] = "written"
        /\ status' = [status EXCEPT ![r] = "done"]
        /\ busy' = IF kind[r] = "chat.send" /\ reply[r].code # "busy" THEN 0 ELSE busy
        /\ UNCHANGED <<received, kind, reply, phase, turnOf>>
    BY <1>6 DEF TaskEnds, Claimed, loopVars
  <2>. HIDE DEF r
  <2>. USE DEF TypeInv, TypeOK, Slots
  <2>3. RequestsInOrder' /\ RunningUnanswered'
    BY <2>1, <2>2 DEF RequestsInOrder, RunningUnanswered
  <2>4. SlotHeld'
    BY <2>1, <2>2 DEF SlotHeld
  <2>5. SingleFlight'
    BY <2>1, <2>2 DEF SlotHeld, SingleFlight
  <2>. QED
    BY <2>3, <2>4, <2>5
<1>. QED
  BY <1>1, <1>2, <1>3, <1>4, <1>5, <1>6 DEF Work

(* The end of serve() keeps the slot invariant.                            *)
LEMMA SlotsServe ==
  TypeInv /\ Slots /\ (StdinEnds \/ ShutdownCancels \/ ServeReturns) => Slots'
<1>. SUFFICES ASSUME TypeInv, Slots, StdinEnds \/ ShutdownCancels \/ ServeReturns
              PROVE  Slots'
  OBVIOUS
<1>1. CASE StdinEnds \/ ServeReturns
  BY <1>1 DEF StdinEnds, ServeReturns, turnVars, loopVars, Slots,
              RequestsInOrder, RunningUnanswered, SlotHeld, SingleFlight
<1>2. CASE ShutdownCancels
  <2>1. /\ busy' = 0 /\ phase' = "idle" /\ UNCHANGED <<received, kind, reply>>
    BY <1>2 DEF ShutdownCancels, TurnCancelled, LoopDropped
  <2>2. \A r \in Ids :
          /\ status'[r] \notin {"running", "writing", "written"}
          /\ status'[r] = "unsent" <=> status[r] = "unsent"
    BY <1>2 DEF ShutdownCancels, TypeInv, TypeOK, Statuses, InFlight
  <2>3. RequestsInOrder'
    BY <2>1, <2>2 DEF Slots, RequestsInOrder
  <2>4. RunningUnanswered'
    BY <2>2 DEF RunningUnanswered
  <2>5. SlotHeld'
    BY <2>1, <2>2 DEF SlotHeld
  <2>6. SingleFlight'
    BY <2>1, <2>2 DEF SingleFlight
  <2>. QED
    BY <2>3, <2>4, <2>5, <2>6 DEF Slots
<1>. QED
  BY <1>1, <1>2

(* The slot invariant is inductive.                                        *)
LEMMA SlotInvInductive ==
  /\ Init => SlotInv
  /\ SlotInv /\ [Next]_vars => SlotInv'
<1>1. SlotInv <=> TypeInv /\ Slots
  BY DEF SlotInv, TypeInv, Slots
<1>2. Init => Slots
  BY TurnAssumption
     DEF Init, TurnInit, Slots, RequestsInOrder, RunningUnanswered, SlotHeld, SingleFlight, Ids
<1>3. TypeInv /\ Slots /\ UNCHANGED vars => Slots'
  BY DEF vars, serverVars, turnVars, loopVars, Slots,
         RequestsInOrder, RunningUnanswered, SlotHeld, SingleFlight
<1>4. TypeInv /\ Slots /\ Next => Slots'
  BY SlotsRequest, SlotsWork, SlotsServe DEF Next
<1>. QED
  BY <1>1, <1>2, <1>3, <1>4, InitType, NextType DEF SlotInv, TypeInv, Slots

(* "At most one in-flight chat.send", for any number of requests: the      *)
(* guard at the head of _handle_line and the release in its finally keep   *)
(* the busy slot and the running turn in step, through shutdown as well.   *)
THEOREM AlwaysSingleFlight == Spec => []SingleFlight
<1>1. SlotInv => SingleFlight
  BY DEF SlotInv
<1>. QED
  BY <1>1, SlotInvInductive, PTL DEF Spec

-----------------------------------------------------------------------------
(* Cancellation and the statuses a client is told.                         *)

(* The requests that queue a response in a step.                           *)
Answers(r) ==
  /\ r \in Ids
  /\ reply[r] = NoReply
  /\ \A q \in Ids \ {r} : reply'[q] = reply[q]

(* A step writes at most one Response, and never over another one.         *)
LEMMA RepliesStand ==
  ASSUME SlotInv, [Next]_vars
  PROVE  UNCHANGED reply \/ \E r : Answers(r)
<1>0. TypeInv /\ Slots
  BY DEF SlotInv, TypeInv, Slots
<1>1. ASSUME NEW m, Receive(m), NEW x, Answer(New, x)
      PROVE  \E r : Answers(r)
  <2>1. New \in Ids /\ reply[New] = NoReply
    BY <1>0, <1>1, NewIsFresh
  <2>2. reply' = [reply EXCEPT ![New] = x] /\ reply \in [Ids -> Replies]
    BY <1>1 DEF Answer, SlotInv, TypeOK
  <2>3. Answers(New)
    BY <2>1, <2>2 DEF Answers
  <2>. QED
    BY <2>3
<1>2. ASSUME NEW r \in Ids, status[r] = "running", NEW x, Answer(r, x)
      PROVE  \E q : Answers(q)
  <2>1. reply[r] = NoReply
    BY <1>2 DEF SlotInv, RunningUnanswered
  <2>2. reply' = [reply EXCEPT ![r] = x] /\ reply \in [Ids -> Replies]
    BY <1>2 DEF Answer, SlotInv, TypeOK
  <2>3. Answers(r)
    BY <2>1, <2>2 DEF Answers
  <2>. QED
    BY <2>3
<1>3. CASE Request
  <2>1. CASE \E t \in Targets : ChatCancel(t)
    BY <1>1, <2>1 DEF ChatCancel
  <2>2. CASE \E a \in asked, d \in Decisions : ChatApprove(a.id, d)
    BY <1>1, <2>2 DEF ChatApprove
  <2>3. CASE SessionNew \/ SessionResume \/ CommandsDispatch \/ ReadOnly
    BY <1>1, <2>3 DEF SessionNew, SessionResume, CommandsDispatch, ReadOnly, AnswerOk
  <2>4. CASE ChatSendBusy \/ (\E code \in Refused : ChatSendRefused(code))
               \/ GatewayShutdown \/ Malformed
    BY <1>1, <2>4 DEF ChatSendBusy, ChatSendRefused, GatewayShutdown, Malformed
  <2>5. CASE ChatSend \/ ToolsRun
    BY <2>5 DEF ChatSend, ToolsRun
  <2>. QED
    BY <1>3, <2>1, <2>2, <2>3, <2>4, <2>5 DEF Request
<1>4. CASE Work
  <2>1. phase # "idle" => turnOf \in Ids /\ status[turnOf] = "running"
    BY DEF SlotInv, TurnShape, SingleFlight
  <2>2. CASE ChatSendReturns
    BY <1>2, <2>1, <2>2 DEF ChatSendReturns, TurnReturns
  <2>3. CASE ChatSendRaises
    BY <1>2, <2>1, <2>3 DEF ChatSendRaises, ProviderRaises, AllowAlwaysRaises
  <2>4. CASE \E r \in Ids : ToolsRunReturns(r)
    BY <1>2, <2>4 DEF ToolsRunReturns
  <2>5. CASE TurnGoesOn \/ WriteFrame \/ TaskEnds
    BY <2>5 DEF TurnGoesOn, WriteFrame, TaskEnds, serverVars
  <2>. QED
    BY <1>4, <2>2, <2>3, <2>4, <2>5 DEF Work
<1>5. CASE StdinEnds \/ ShutdownCancels \/ ServeReturns \/ UNCHANGED vars
  BY <1>5 DEF StdinEnds, ShutdownCancels, ServeReturns, vars, serverVars
<1>. QED
  BY <1>3, <1>4, <1>5 DEF Next

(* A response that was queued stands.                                      *)
LEMMA RepliesKept ==
  ASSUME SlotInv, [Next]_vars, NEW q \in Ids, reply[q].code # "none"
  PROVE  reply'[q] = reply[q]
<1>1. reply[q] # NoReply
  BY DEF NoReply
<1>. QED
  BY <1>1, RepliesStand DEF Answers

(* An acknowledged cancel stays acknowledged.                              *)
LEMMA AcknowledgementsKept ==
  ASSUME SlotInv, [Next]_vars, NEW q \in Ids, NEW a, reply[q] = Reply("cancelling", a)
  PROVE  reply'[q] = Reply("cancelling", a)
<1>1. reply[q].code # "none"
  BY DEF Reply
<1>. QED
  BY <1>1, RepliesKept

-----------------------------------------------------------------------------
(* The stop signal.                                                        *)

(* A step sets the stop signal only by acknowledging a cancel of the       *)
(* request in flight, and keeps it only while the slot stands.             *)
LEMMA SignalSteps ==
  ASSUME SlotInv, [Next]_vars, cancelFlag'
  PROVE  /\ busy' = busy
         /\ \/ cancelFlag
            \/ /\ busy # 0
               /\ New \in Ids
               /\ reply'[New] = Reply("cancelling", <<busy>>)
<1>0. TypeInv /\ Slots
  BY DEF SlotInv, TypeInv, Slots
<1>1. CASE Request
  <2>1. ASSUME NEW t \in Targets, ChatCancel(t)
        PROVE  /\ busy' = busy
               /\ cancelFlag \/ /\ busy # 0 /\ New \in Ids
                                /\ reply'[New] = Reply("cancelling", <<busy>>)
    <3>1. New \in Ids
      BY <1>0, <2>1, NewIsFresh DEF ChatCancel
    <3>2. CASE CancelHits(t)
      <4>1. busy # 0 /\ <<busy>> = IF t = <<>> THEN <<busy>> ELSE t
        BY <3>2 DEF CancelHits
      <4>2. Answer(New, Reply("cancelling", <<busy>>)) /\ busy' = busy
        BY <2>1, <3>2, <4>1 DEF ChatCancel
      <4>. QED
        BY <3>1, <4>1, <4>2 DEF Answer, SlotInv, TypeOK
    <3>. QED
      BY <2>1, <3>2 DEF ChatCancel
  <2>2. CASE ChatSend \/ (\E code \in Refused : ChatSendRefused(code))
    BY <2>2 DEF ChatSend, ChatSendRefused
  <2>3. CASE \E a \in asked, d \in Decisions : ChatApprove(a.id, d)
    BY <2>3 DEF ChatApprove
  <2>4. CASE ChatSendBusy \/ ToolsRun \/ GatewayShutdown \/ Malformed
    BY <2>4 DEF ChatSendBusy, ToolsRun, GatewayShutdown, Malformed, turnVars
  <2>5. CASE SessionNew \/ SessionResume \/ CommandsDispatch \/ ReadOnly
    BY <2>5 DEF SessionNew, SessionResume, CommandsDispatch, ReadOnly, AnswerOk
  <2>. QED
    BY <1>1, <2>1, <2>2, <2>3, <2>4, <2>5 DEF Request
<1>2. CASE Work
  <2>1. CASE TurnGoesOn
    BY <2>1 DEF TurnGoesOn, serverVars, TurnStep, StreamStopped, StreamAnswers,
                StreamCallsTools, ToolReturns, Denied, Approved
  <2>2. CASE ChatSendReturns \/ ChatSendRaises
    BY <2>2 DEF ChatSendReturns, ChatSendRaises
  <2>3. CASE WriteFrame \/ \E r \in Ids : ToolsRunReturns(r)
    BY <2>3 DEF WriteFrame, ToolsRunReturns, turnVars
  <2>4. CASE TaskEnds
    BY <2>4 DEF TaskEnds
  <2>. QED
    BY <1>2, <2>1, <2>2, <2>3, <2>4 DEF Work
<1>3. CASE StdinEnds \/ ShutdownCancels \/ ServeReturns \/ UNCHANGED vars
  BY <1>3 DEF StdinEnds, ShutdownCancels, ServeReturns, vars, serverVars, turnVars
<1>. QED
  BY <1>1, <1>2, <1>3 DEF Next

(* A turn that goes on keeps its signal: the release of the slot and the   *)
(* next chat.send reset it only when no turn runs.                         *)
LEMMA SignalStays ==
  ASSUME SlotInv, [Next]_vars, cancelFlag, phase # "idle", phase' # "idle"
  PROVE  cancelFlag'
<1>0. busy = turnOf /\ turnOf \in Ids /\ status[turnOf] = "running" /\ busy # 0
  BY TurnAssumption DEF SlotInv, TurnShape, SingleFlight, Ids
<1>1. CASE Request
  <2>1. CASE ChatSend \/ (\E code \in Refused : ChatSendRefused(code))
    BY <1>0, <2>1 DEF ChatSend, ChatSendRefused
  <2>2. CASE \E t \in Targets : ChatCancel(t)
    BY <2>2 DEF ChatCancel
  <2>3. CASE \E a \in asked, d \in Decisions : ChatApprove(a.id, d)
    BY <2>3 DEF ChatApprove
  <2>4. CASE ChatSendBusy \/ ToolsRun \/ GatewayShutdown \/ Malformed
    BY <2>4 DEF ChatSendBusy, ToolsRun, GatewayShutdown, Malformed, turnVars
  <2>5. CASE SessionNew \/ SessionResume \/ CommandsDispatch \/ ReadOnly
    BY <2>5 DEF SessionNew, SessionResume, CommandsDispatch, ReadOnly, AnswerOk
  <2>. QED
    BY <1>1, <2>1, <2>2, <2>3, <2>4, <2>5 DEF Request
<1>2. CASE Work
  <2>1. CASE TurnGoesOn
    BY <2>1 DEF TurnGoesOn, serverVars, TurnStep, StreamStopped, StreamAnswers,
                StreamCallsTools, ToolReturns, Denied, Approved
  <2>2. CASE ChatSendReturns \/ ChatSendRaises
    BY <2>2 DEF ChatSendReturns, ChatSendRaises
  <2>3. CASE WriteFrame \/ \E r \in Ids : ToolsRunReturns(r)
    BY <2>3 DEF WriteFrame, ToolsRunReturns, turnVars
  <2>4. CASE TaskEnds
    <3>1. Head(outbox) \in Ids
      BY <2>4, HeadTailProperties DEF TaskEnds, SlotInv, TypeOK
    <3>2. ~Claimed(Head(outbox))
      BY <1>0, <2>4, <3>1 DEF TaskEnds, Claimed, SlotInv, SlotHeld
    <3>. QED
      BY <2>4, <3>2 DEF TaskEnds
  <2>. QED
    BY <1>2, <2>1, <2>2, <2>3, <2>4 DEF Work
<1>3. CASE ShutdownCancels
  BY <1>3 DEF ShutdownCancels, TurnCancelled, LoopDropped
<1>4. CASE StdinEnds \/ ServeReturns \/ UNCHANGED vars
  BY <1>4 DEF StdinEnds, ServeReturns, vars, turnVars
<1>. QED
  BY <1>1, <1>2, <1>3, <1>4 DEF Next

(* A loop stops only for the signal.                                       *)
LEMMA StopSteps ==
  ASSUME SlotInv, StoppedBySignal, [Next]_vars
  PROVE  StoppedBySignal'
<1>. SUFFICES ASSUME phase' = "stopping" PROVE cancelFlag'
  BY DEF StoppedBySignal
<1>1. CASE phase = "stopping"
  BY <1>1, SignalStays DEF StoppedBySignal
<1>2. CASE phase # "stopping"
  <2>1. CASE TurnGoesOn
    BY <1>2, <2>1 DEF TurnGoesOn, TurnStep, StreamStopped, StreamAnswers, StreamCallsTools,
                ToolReturns, Denied, Approved, AfterCall, CallHead, LoopHead
  <2>2. CASE Request
    <3>1. CASE ChatSend
      BY <3>1 DEF ChatSend, Begin
    <3>2. CASE \/ \E code \in Refused : ChatSendRefused(code)
               \/ \E t \in Targets : ChatCancel(t)
               \/ \E a \in asked, d \in Decisions : ChatApprove(a.id, d)
      BY <1>2, <3>2 DEF ChatSendRefused, ChatCancel, ChatApprove, loopVars
    <3>3. CASE ChatSendBusy \/ ToolsRun \/ GatewayShutdown \/ Malformed
      BY <1>2, <3>3 DEF ChatSendBusy, ToolsRun, GatewayShutdown, Malformed, turnVars, loopVars
    <3>4. CASE SessionNew \/ SessionResume \/ CommandsDispatch \/ ReadOnly
      BY <1>2, <3>4
         DEF SessionNew, SessionResume, CommandsDispatch, ReadOnly, AnswerOk, loopVars
    <3>. QED
      BY <2>2, <3>1, <3>2, <3>3, <3>4 DEF Request
  <2>3. CASE ChatSendReturns \/ ChatSendRaises \/ ShutdownCancels
    BY <2>3 DEF ChatSendReturns, ChatSendRaises, ShutdownCancels, TurnReturns,
                ProviderRaises, AllowAlwaysRaises, TurnCancelled, LoopDropped
  <2>4. CASE WriteFrame \/ TaskEnds \/ \E r \in Ids : ToolsRunReturns(r)
    BY <1>2, <2>4 DEF WriteFrame, TaskEnds, ToolsRunReturns, turnVars, loopVars
  <2>5. CASE StdinEnds \/ ServeReturns \/ UNCHANGED vars
    BY <1>2, <2>5 DEF StdinEnds, ServeReturns, vars, turnVars, loopVars
  <2>. QED
    BY <2>1, <2>2, <2>3, <2>4, <2>5 DEF Next, Work
<1>. QED
  BY <1>1, <1>2

(* A client is told "cancelled" by the turn that a cancel reached, and     *)
(* never "stopped".                                                        *)
LEMMA StatusSteps ==
  ASSUME SlotInv, CancelInv, [Next]_vars, NEW r \in Ids, reply'[r] # reply[r]
  PROVE  /\ reply'[r].code # "stopped"
         /\ reply'[r].code = "cancelled" =>
              /\ r = busy
              /\ cancelFlag
<1>. DEFINE Goal == /\ reply'[r].code # "stopped"
                    /\ reply'[r].code = "cancelled" => r = busy /\ cancelFlag
<1>1. ASSUME NEW q \in Ids, NEW code \in Codes \ {"stopped", "cancelled"}, NEW a,
             Answer(q, Reply(code, a))
      PROVE  Goal
  BY <1>1 DEF Answer, Reply, SlotInv, TypeOK
<1>2. CASE ChatSendReturns
  <2>1. turnOf = busy /\ turnOf \in Ids
    BY <1>2 DEF ChatSendReturns, TurnReturns, SlotInv, SingleFlight, TurnShape
  <2>2. /\ Reported(LoopStatus) # "stopped"
        /\ Reported(LoopStatus) = "cancelled" => cancelFlag
    BY <1>2 DEF ChatSendReturns, TurnReturns, Reported, LoopStatus, CancelInv, StoppedBySignal
  <2>3. r = turnOf /\ reply'[r] = Reply(Reported(LoopStatus), <<>>)
    BY <1>2, <2>1 DEF ChatSendReturns, Answer, SlotInv, TypeOK
  <2>. QED
    BY <2>1, <2>2, <2>3 DEF Reply
<1>3. CASE ChatSendRaises
  <2>1. turnOf \in Ids
    BY <1>3 DEF ChatSendRaises, ProviderRaises, AllowAlwaysRaises, SlotInv, TurnShape
  <2>. QED
    BY <1>1, <1>3, <2>1 DEF ChatSendRaises, Raised, Codes
<1>4. CASE Request
  <2>1. New \in Ids
    BY <1>4, ReceiveType
       DEF SlotInv, Request, ChatSendBusy, ChatSendRefused, ChatSend, ChatCancel, ChatApprove,
           SessionNew, SessionResume, CommandsDispatch, ToolsRun, GatewayShutdown, ReadOnly,
           Malformed
  <2>2. CASE ChatSendBusy \/ (\E code \in Refused : ChatSendRefused(code))
               \/ GatewayShutdown \/ Malformed
    BY <1>1, <2>1, <2>2
       DEF ChatSendBusy, ChatSendRefused, GatewayShutdown, Malformed, Codes, Refused, Raised
  <2>3. CASE ChatSend \/ ToolsRun
    BY <2>3 DEF ChatSend, ToolsRun
  <2>4. CASE \E t \in Targets : ChatCancel(t)
    BY <1>1, <2>1, <2>4 DEF ChatCancel, Codes
  <2>5. CASE \E a \in asked, d \in Decisions : ChatApprove(a.id, d)
    BY <1>1, <2>1, <2>5 DEF ChatApprove, Codes, Decisions
  <2>6. CASE SessionNew \/ SessionResume \/ CommandsDispatch \/ ReadOnly
    BY <1>1, <2>1, <2>6
       DEF SessionNew, SessionResume, CommandsDispatch, ReadOnly, AnswerOk, Codes
  <2>. QED
    BY <1>4, <2>2, <2>3, <2>4, <2>5, <2>6 DEF Request
<1>5. CASE \E q \in Ids : ToolsRunReturns(q)
  BY <1>1, <1>5 DEF ToolsRunReturns, Codes
<1>6. CASE TurnGoesOn \/ WriteFrame \/ TaskEnds
  BY <1>6 DEF TurnGoesOn, WriteFrame, TaskEnds, serverVars
<1>7. CASE StdinEnds \/ ShutdownCancels \/ ServeReturns \/ UNCHANGED vars
  BY <1>7 DEF StdinEnds, ShutdownCancels, ServeReturns, vars, serverVars
<1>. QED
  BY <1>2, <1>3, <1>4, <1>5, <1>6, <1>7 DEF Next, Work

(* What is known of cancels is inductive.                                  *)
LEMMA CancelInvInductive ==
  /\ Init => CancelInv
  /\ SlotInv /\ CancelInv /\ [Next]_vars => CancelInv'
<1>1. Init => CancelInv
  BY DEF Init, TurnInit, CancelInv, CancelReachesItsTarget, StatusReported,
         StoppedBySignal, NoReply
<1>2. ASSUME SlotInv, CancelInv, [Next]_vars
      PROVE  CancelReachesItsTarget'
  <2>. SUFFICES ASSUME cancelFlag'
                PROVE  busy' # 0 /\ \E q \in Ids : reply'[q] = Reply("cancelling", <<busy'>>)
    BY DEF CancelReachesItsTarget
  <2>1. CASE cancelFlag
    <3>1. PICK q \in Ids : reply[q] = Reply("cancelling", <<busy>>)
      BY <1>2, <2>1 DEF CancelInv, CancelReachesItsTarget
    <3>2. busy # 0 /\ busy' = busy
      BY <1>2, <2>1, SignalSteps DEF CancelInv, CancelReachesItsTarget
    <3>3. reply'[q] = Reply("cancelling", <<busy>>)
      BY <1>2, <3>1, AcknowledgementsKept
    <3>. QED
      BY <3>2, <3>3
  <2>2. CASE ~cancelFlag
    BY <1>2, <2>2, SignalSteps
  <2>. QED
    BY <2>1, <2>2
<1>3. ASSUME SlotInv, CancelInv, [Next]_vars
      PROVE  StatusReported'
  <2>. SUFFICES ASSUME NEW r \in Ids
                PROVE  /\ reply'[r].code = "cancelled" =>
                            \E q \in Ids : reply'[q] = Reply("cancelling", <<r>>)
                       /\ reply'[r].code # "stopped"
    BY DEF StatusReported
  <2>1. CASE reply'[r] = reply[r]
    BY <1>3, <2>1, AcknowledgementsKept DEF CancelInv, StatusReported
  <2>2. CASE reply'[r] # reply[r]
    <3>1. /\ reply'[r].code # "stopped"
          /\ reply'[r].code = "cancelled" => r = busy /\ cancelFlag
      BY <1>3, <2>2, StatusSteps
    <3>. QED
      BY <1>3, <3>1, AcknowledgementsKept DEF CancelInv, CancelReachesItsTarget
  <2>. QED
    BY <2>1, <2>2
<1>. QED
  BY <1>1, <1>2, <1>3, StopSteps DEF CancelInv

(* A cancel that names a request never reaches a later one, however many   *)
(* requests there are (server.py, _method_chat_cancel and the finally of   *)
(* _handle_line).                                                          *)
THEOREM CancelsReachTheirTarget == Spec => []CancelReachesItsTarget
<1>1. CancelInv => CancelReachesItsTarget
  BY DEF CancelInv
<1>. QED
  BY <1>1, SlotInvInductive, CancelInvInductive, PTL DEF Spec

(* "cancelled" is told only after an acknowledged cancel of that very      *)
(* request, and the loop's "stopped" never (server.py, _method_chat_send). *)
THEOREM StatusesReported == Spec => []StatusReported
<1>1. CancelInv => StatusReported
  BY DEF CancelInv
<1>. QED
  BY <1>1, SlotInvInductive, CancelInvInductive, PTL DEF Spec

(* Once the stop signal is set no further tool starts, except one whose    *)
(* approval was already pending (agent_loop.py, _execute_tool_calls).      *)
THEOREM NoToolsAfterCancel == Spec => NoToolAfterCancel
<1>1. ASSUME [Next]_vars, cancelFlag, phase' = "running", ThisCall' # ThisCall
      PROVE  FALSE
  <2>1. CASE TurnGoesOn
    BY <1>1, <2>1 DEF TurnGoesOn, TurnStep, StreamStopped, StreamAnswers, StreamCallsTools,
                ToolReturns, Denied, Approved, AfterCall, CallHead, LoopHead, ThisCall
  <2>2. CASE Request
    <3>1. CASE ChatSend
      BY <1>1, <3>1 DEF ChatSend, Begin
    <3>2. CASE \/ \E code \in Refused : ChatSendRefused(code)
               \/ \E t \in Targets : ChatCancel(t)
               \/ \E a \in asked, d \in Decisions : ChatApprove(a.id, d)
      BY <1>1, <3>2 DEF ChatSendRefused, ChatCancel, ChatApprove, loopVars, ThisCall
    <3>3. CASE ChatSendBusy \/ ToolsRun \/ GatewayShutdown \/ Malformed
      BY <1>1, <3>3
         DEF ChatSendBusy, ToolsRun, GatewayShutdown, Malformed, turnVars, loopVars, ThisCall
    <3>4. CASE SessionNew \/ SessionResume \/ CommandsDispatch \/ ReadOnly
      BY <1>1, <3>4
         DEF SessionNew, SessionResume, CommandsDispatch, ReadOnly, AnswerOk, loopVars, ThisCall
    <3>. QED
      BY <2>2, <3>1, <3>2, <3>3, <3>4 DEF Request
  <2>3. CASE ChatSendReturns \/ ChatSendRaises \/ ShutdownCancels
    BY <1>1, <2>3 DEF ChatSendReturns, ChatSendRaises, ShutdownCancels, TurnReturns,
                ProviderRaises, AllowAlwaysRaises, TurnCancelled, LoopDropped
  <2>4. CASE WriteFrame \/ TaskEnds \/ \E r \in Ids : ToolsRunReturns(r)
    BY <1>1, <2>4 DEF WriteFrame, TaskEnds, ToolsRunReturns, turnVars, loopVars, ThisCall
  <2>5. CASE StdinEnds \/ ServeReturns \/ UNCHANGED vars
    BY <1>1, <2>5 DEF StdinEnds, ServeReturns, vars, turnVars, loopVars, ThisCall
  <2>. QED
    BY <1>1, <2>1, <2>2, <2>3, <2>4, <2>5 DEF Next, Work
<1>2. [Next]_vars => [cancelFlag /\ phase' = "running" => ThisCall' = ThisCall]_vars
  BY <1>1
<1>. QED
  BY <1>2, PTL DEF Spec, NoToolAfterCancel

-----------------------------------------------------------------------------
(* The end of serve().                                                     *)

(* Nothing is lost without a shutdown, and nothing is left behind.         *)
LEMMA ServeInvInductive ==
  /\ Init => ServeInv
  /\ SlotInv /\ ServeInv /\ [Next]_vars => ServeInv'
<1>1. Init => ServeInv
  BY DEF Init, ServeInv, InFlight
<1>2. ASSUME SlotInv, ServeInv, Request
      PROVE  ServeInv'
  <2>1. /\ serving = "reading" /\ serving' # "closed"
        /\ shutdown' \/ ~shutdown
    BY <1>2 DEF Request, ChatSendBusy, ChatSendRefused, ChatSend, ChatCancel, ChatApprove,
         SessionNew, SessionResume, CommandsDispatch, ToolsRun, GatewayShutdown, ReadOnly,
         Malformed, Receive, AnswerOk, SlotInv, TypeOK
  <2>2. \E v \in {"writing", "running"} : status' = [status EXCEPT ![New] = v]
    BY <1>2 DEF Request, ChatSendBusy, ChatSendRefused, ChatSend, ChatCancel, ChatApprove,
         SessionNew, SessionResume, CommandsDispatch, ToolsRun, GatewayShutdown, ReadOnly,
         Malformed, AnswerOk, Answer
  <2>. QED
    BY <1>2, <2>1, <2>2 DEF ServeInv, SlotInv, TypeOK
<1>3. ASSUME SlotInv, ServeInv, Work
      PROVE  ServeInv'
  <2>1. serving' = serving /\ shutdown' = shutdown
    BY <1>3 DEF Work, TurnGoesOn, serverVars, ChatSendReturns, ChatSendRaises,
                ToolsRunReturns, WriteFrame, TaskEnds
  <2>2. CASE TurnGoesOn
    BY <1>3, <2>1, <2>2 DEF TurnGoesOn, serverVars, ServeInv, InFlight
  <2>3. ASSUME NEW r \in Ids, r \in InFlight, NEW v \in {"writing", "written", "done"},
               status' = [status EXCEPT ![r] = v]
        PROVE  ServeInv'
    BY <1>3, <2>1, <2>3 DEF ServeInv, SlotInv, TypeOK
  <2>4. phase # "idle" => turnOf \in InFlight
    BY <1>3 DEF SlotInv, TurnShape, SingleFlight, InFlight
  <2>5. CASE ChatSendReturns
    <3>1. turnOf \in Ids /\ turnOf \in InFlight
      BY <2>4, <2>5 DEF ChatSendReturns, TurnReturns, InFlight
    <3>. QED
      BY <2>3, <2>5, <3>1 DEF ChatSendReturns, Answer
  <2>6. CASE ChatSendRaises
    <3>1. turnOf \in Ids /\ turnOf \in InFlight
      BY <2>4, <2>6 DEF ChatSendRaises, ProviderRaises, AllowAlwaysRaises, InFlight
    <3>. QED
      BY <2>3, <2>6, <3>1 DEF ChatSendRaises, Answer
  <2>7. CASE \E r \in Ids : ToolsRunReturns(r)
    BY <2>3, <2>7 DEF ToolsRunReturns, Answer, InFlight
  <2>8. CASE WriteFrame \/ TaskEnds
    <3>1. Head(outbox) \in Ids
      BY <1>3, <2>8, HeadTailProperties DEF WriteFrame, TaskEnds, SlotInv, TypeOK
    <3>. QED
      BY <2>3, <2>8, <3>1 DEF WriteFrame, TaskEnds, InFlight
  <2>. QED
    BY <1>3, <2>2, <2>5, <2>6, <2>7, <2>8 DEF Work
<1>4. ASSUME SlotInv, ServeInv,
             StdinEnds \/ ShutdownCancels \/ ServeReturns \/ UNCHANGED vars
      PROVE  ServeInv'
  BY <1>4 DEF StdinEnds, ShutdownCancels, ServeReturns, vars, serverVars, ServeInv, InFlight
<1>. QED
  BY <1>1, <1>2, <1>3, <1>4 DEF Next

(* When serve() returns the slot is free and no turn runs, and without a   *)
(* shutdown request every request that was read was answered (the finally  *)
(* of serve()).                                                            *)
THEOREM EndOfInputAnswered == Spec => []EndOfInputAnswersAll
<1>1. SlotInv /\ ServeInv => EndOfInputAnswersAll
  <2>. SUFFICES ASSUME SlotInv, ServeInv, serving = "closed"
                PROVE  /\ busy = 0 /\ phase = "idle"
                       /\ ~shutdown => \A r \in 1..received : status[r] = "done"
    BY DEF EndOfInputAnswersAll
  <2>1. \A r \in Ids : status[r] \notin {"running", "writing", "written"}
    BY DEF ServeInv, InFlight
  <2>2. busy = 0
    BY <2>1 DEF SlotInv, TypeOK, SlotHeld
  <2>3. phase = "idle"
    BY <2>1 DEF SlotInv, SingleFlight, TurnShape
  <2>4. ASSUME ~shutdown, NEW r \in 1..received
        PROVE  status[r] = "done"
    <3>1. r \in Ids /\ ~(r > received)
      BY TurnAssumption DEF SlotInv, TypeOK, Ids
    <3>. QED
      BY <2>1, <2>4, <3>1 DEF ServeInv, SlotInv, TypeOK, Statuses, RequestsInOrder
  <2>. QED
    BY <2>2, <2>3, <2>4
<1>. QED
  BY <1>1, SlotInvInductive, ServeInvInductive, PTL DEF Spec

-----------------------------------------------------------------------------
(* ApprovalGate: a high-risk tool runs only with the user's consent, the   *)
(* first answer to a call stands, and nothing stays pending behind a turn. *)
(* A step touches the gate in one of five ways: not at all, by an answer of*)
(* the user, by the begin of a turn, by its steps, or by its end.          *)

Replied == reply \in [Ids -> Replies]

(* The acknowledgements of decisions before a step are those after it.     *)
VerdictsStand ==
  \A q \in Ids : reply[q].code \in Decisions \/ reply'[q].code \in Decisions
                   => reply'[q] = reply[q]

(* The calls of request r that were asked about lie before call k of       *)
(* round n.                                                                *)
AskedUpTo(r, n, k) ==
  \A c \in AskedCalls : c[1] = r => c[2] < n \/ (c[2] = n /\ c[3] < k)

NothingPending == \A i \in CallIds : future[i] = NoFuture

-----------------------------------------------------------------------------
(* A task that answers something else than a decision.                     *)
LEMMA OtherAnswer ==
  ASSUME Replied, NEW r \in Ids, reply[r] = NoReply, NEW x, x.code \notin Decisions,
         reply' = [reply EXCEPT ![r] = x]
  PROVE  VerdictsStand
<1>1. reply[r].code \notin Decisions
  BY DEF NoReply, Decisions
<1>. QED
  BY <1>1 DEF VerdictsStand, Replied

(* The parts of a call's position.                                         *)
LEMMA CallParts ==
  ASSUME NEW c \in Positions
  PROVE  /\ c = <<c[1], c[2], c[3]>>
         /\ c[1] \in Ids /\ c[2] \in 1..MaxRounds /\ c[3] \in 1..MaxCalls
         /\ c[1] \in Nat /\ c[2] \in Nat /\ c[3] \in Nat
BY TurnAssumption DEF Positions, Ids

(* The calls that were asked about are calls.                              *)
LEMMA AskedCallsType ==
  ASSUME TypeInv
  PROVE  AskedCalls \subseteq Positions
<1>1. asked \in SUBSET [call : Positions, id : CallIds]
  BY DEF TypeInv, TypeOK, TurnTypeOK
<1>. QED
  BY <1>1 DEF AskedCalls

(* A future that is not there is neither waited for nor decided.           *)
LEMMA NoFutureState == NoFuture.state \notin Decisions \cup {"waiting"}
BY DEF NoFuture, Future, Decisions

(* The current call, while a turn waits for it.                            *)
LEMMA CurrentCall ==
  ASSUME TypeInv, phase \in {"approval", "running"}
  PROVE  /\ CallId \in CallIds /\ ThisCall \in Positions
         /\ turnOf \in Ids /\ turnOf \in Nat
         /\ round \in 1..MaxRounds /\ round \in Nat
         /\ callNo \in Nat /\ Len(calls) \in Nat /\ callNo \in 1..Len(calls)
         /\ Len(calls) <= MaxCalls /\ callNo \in 1..MaxCalls
<1>1. /\ turnOf \in Ids /\ round \in 1..MaxRounds /\ callNo \in 1..Len(calls)
      /\ Len(calls) <= MaxCalls /\ calls \in Seq(Calls)
  BY DEF TypeInv, TypeOK, TurnTypeOK, TurnShape
<1>2. Len(calls) \in Nat
  BY <1>1, LenProperties
<1>3. callNo \in 1..MaxCalls
  BY <1>1, <1>2, TurnAssumption
<1>4. CallId \in CallIds
  BY <1>1, ElementOfSeq DEF CallId, Calls
<1>5. ThisCall \in Positions
  BY <1>1, <1>3 DEF ThisCall, Positions
<1>. QED
  BY <1>1, <1>2, <1>3, <1>4, <1>5, TurnAssumption DEF Ids

-----------------------------------------------------------------------------
(* The five ways.                                                          *)

(* The gate is not touched.                                                *)
LEMMA GateUntouched ==
  ASSUME TypeInv, ApprovalInv, VerdictsStand, UNCHANGED <<loopVars, gateVars>>,
         received <= received', received' \in Nat
  PROVE  ApprovalInv'
<1>1. UNCHANGED <<phase, turnOf, round, calls, callNo, alwaysAllow, future, asked>>
      /\ CallId' = CallId /\ ThisCall' = ThisCall /\ Tool' = Tool /\ AskedCalls' = AskedCalls
  BY DEF loopVars, gateVars, CallId, ThisCall, Tool, AskedCalls
<1>2. received \in Nat /\ AskedCalls \subseteq Positions
  BY TurnAssumption, AskedCallsType DEF TypeInv, TypeOK, TurnTypeOK
<1>3. PendingIsCurrent'
  BY <1>1 DEF ApprovalInv, PendingIsCurrent
<1>4. AskedBefore'
  <2>1. ASSUME NEW c \in AskedCalls PROVE c[1] <= received'
    <3>1. c[1] <= received /\ c[1] \in Nat
      BY <1>2, <2>1, CallParts DEF ApprovalInv, AskedBefore
    <3>. QED
      BY <1>2, <3>1
  <2>. QED
    BY <1>1, <2>1 DEF ApprovalInv, AskedBefore
<1>5. DecisionsAcknowledged'
  <2>1. ASSUME NEW i \in CallIds, future[i].state \in Decisions
        PROVE  \E q \in Ids : reply'[q] = Reply(future[i].state, future[i].of)
    <3>1. PICK q \in Ids : reply[q] = Reply(future[i].state, future[i].of)
      BY <2>1 DEF ApprovalInv, DecisionsAcknowledged
    <3>. QED
      BY <2>1, <3>1 DEF VerdictsStand, Reply
  <2>2. ASSUME NEW q \in Ids, reply'[q].code \in Decisions
        PROVE  /\ reply'[q].about \in AskedCalls
               /\ \A i \in CallIds : future[i].state = "waiting" => future[i].of # reply'[q].about
    BY <2>2 DEF ApprovalInv, DecisionsAcknowledged, VerdictsStand
  <2>. QED
    BY <1>1, <2>1, <2>2 DEF DecisionsAcknowledged
<1>6. OneAnswerPerCall'
  BY DEF ApprovalInv, OneAnswerPerCall, VerdictsStand
<1>7. RunsOnlyWithConsent'
  <2>. SUFFICES ASSUME phase = "running", Tool \in HighRisk, ~Yolo
                PROVE  /\ \/ Tool \in alwaysAllow
                          \/ \E q \in Ids : reply'[q] = Reply("allow_once", ThisCall)
                       /\ ~ \E q \in Ids : reply'[q] = Reply("deny", ThisCall)
    BY <1>1 DEF RunsOnlyWithConsent
  <2>1. ASSUME NEW d \in Decisions, NEW q \in Ids
        PROVE  reply'[q] = Reply(d, ThisCall) <=> reply[q] = Reply(d, ThisCall)
    BY <2>1 DEF VerdictsStand, Reply
  <2>. QED
    BY <2>1 DEF ApprovalInv, RunsOnlyWithConsent, Decisions
<1>. QED
  BY <1>3, <1>4, <1>5, <1>6, <1>7 DEF ApprovalInv

(* A step after which no call is waited for, nor runs.                     *)
LEMMA GateQuiet ==
  ASSUME TypeInv, ApprovalInv, VerdictsStand, phase' \notin {"approval", "running"},
         NothingPending', UNCHANGED asked, received <= received', received' \in Nat,
         phase' = "streaming" => \A c \in AskedCalls : c[1] = turnOf' => c[2] < round'
  PROVE  ApprovalInv'
<1>1. AskedCalls' = AskedCalls
  BY DEF AskedCalls
<1>2. received \in Nat /\ AskedCalls \subseteq Positions
  BY TurnAssumption, AskedCallsType DEF TypeInv, TypeOK, TurnTypeOK
<1>3. PendingIsCurrent'
  BY DEF PendingIsCurrent, NothingPending
<1>4. AskedBefore'
  <2>1. ASSUME NEW c \in AskedCalls PROVE c[1] <= received'
    <3>1. c[1] <= received /\ c[1] \in Nat
      BY <1>2, <2>1, CallParts DEF ApprovalInv, AskedBefore
    <3>. QED
      BY <1>2, <3>1
  <2>. QED
    BY <1>1, <2>1 DEF AskedBefore
<1>5. DecisionsAcknowledged'
  <2>1. \A i \in CallIds : future'[i].state \notin Decisions /\ future'[i].state # "waiting"
    BY NoFutureState DEF NothingPending
  <2>2. ASSUME NEW q \in Ids, reply'[q].code \in Decisions
        PROVE  reply'[q].about \in AskedCalls
    BY <2>2 DEF ApprovalInv, DecisionsAcknowledged, VerdictsStand
  <2>. QED
    BY <1>1, <2>1, <2>2 DEF DecisionsAcknowledged
<1>6. OneAnswerPerCall'
  BY DEF ApprovalInv, OneAnswerPerCall, VerdictsStand
<1>7. RunsOnlyWithConsent'
  BY DEF RunsOnlyWithConsent
<1>. QED
  BY <1>3, <1>4, <1>5, <1>6, <1>7 DEF ApprovalInv

(* The head of a tool call that nobody was asked about yet.                *)
LEMMA GateHead ==
  ASSUME TypeInv, ApprovalInv, NEW cs, NEW k \in 1..MaxCalls, NEW fut,
         CallHead(cs, k, fut),
         fut \in [CallIds -> Futures],
         \A i \in CallIds : fut[i] = NoFuture,
         turnOf \in Ids, turnOf <= received, round \in 1..MaxRounds, AskedUpTo(turnOf, round, k),
         UNCHANGED <<turnOf, alwaysAllow, reply, received>>
  PROVE  ApprovalInv'
<1>. DEFINE new == <<turnOf, round, k>>
            id == cs[k].id
            f == Future(new, "waiting")
            a == Asked(new, id)
<1>0. /\ turnOf \in Nat /\ round \in Nat /\ k \in Nat /\ received \in Nat
      /\ AskedCalls \subseteq Positions
  BY TurnAssumption, AskedCallsType DEF TypeInv, TypeOK, TurnTypeOK, Ids
<1>1. new \in Positions /\ new[1] = turnOf /\ new[2] = round /\ new[3] = k
  BY DEF Positions
<1>2. new \notin AskedCalls
  <2>. SUFFICES ASSUME new \in AskedCalls PROVE FALSE
    OBVIOUS
  <2>1. new[2] < round \/ (new[2] = round /\ new[3] < k)
    BY <1>1 DEF AskedUpTo
  <2>. QED
    BY <1>0, <1>1, <2>1
<1>3. /\ ThisCall' = new /\ CallId' = id /\ Tool' = cs[k].tool
      /\ UNCHANGED <<turnOf, round, alwaysAllow, reply, received>> /\ callNo' = k
  BY DEF CallHead, CallId, ThisCall, Tool
<1>4. VerdictsStand /\ received <= received' /\ received' \in Nat
  BY <1>0, <1>3 DEF VerdictsStand
<1>5. CASE phase' = "stopping" /\ future' = fut /\ UNCHANGED asked
  <2>1. NothingPending' /\ phase' \notin {"approval", "running", "streaming"}
    BY <1>5 DEF NothingPending
  <2>. QED
    BY <1>4, <1>5, <2>1, GateQuiet
<1>6. ASSUME NEW c \in AskedCalls
      PROVE  c[1] <= received /\ (c[1] = turnOf => c[2] < round \/ (c[2] = round /\ c[3] <= k))
  <2>1. c[1] <= received /\ c[3] \in Nat
    BY <1>0, <1>6, CallParts DEF ApprovalInv, AskedBefore
  <2>. QED
    BY <1>0, <2>1 DEF AskedUpTo
<1>7. OneAnswerPerCall'
  BY <1>3 DEF ApprovalInv, OneAnswerPerCall
<1>8. \A q \in Ids : reply[q].code \in Decisions => reply[q].about \in AskedCalls
  BY DEF ApprovalInv, DecisionsAcknowledged
<1>9. CASE phase' = "running" /\ Ungated(cs[k].tool) /\ future' = fut /\ UNCHANGED asked
  <2>. HIDE DEF new
  <2>0. AskedCalls' = AskedCalls
    BY <1>9 DEF AskedCalls
  <2>1. PendingIsCurrent'
    BY <1>9 DEF PendingIsCurrent
  <2>2. AskedBefore'
    BY <1>3, <1>6, <1>9, <2>0 DEF AskedBefore
  <2>3. DecisionsAcknowledged'
    BY <1>3, <1>8, <1>9, <2>0, NoFutureState DEF DecisionsAcknowledged
  <2>4. RunsOnlyWithConsent'
    <3>1. ASSUME NEW q \in Ids PROVE reply[q] # Reply("deny", new)
      BY <1>2, <1>8 DEF Reply, Decisions
    <3>. QED
      BY <1>3, <1>9, <3>1 DEF RunsOnlyWithConsent, Ungated
  <2>. QED
    BY <1>7, <2>1, <2>2, <2>3, <2>4 DEF ApprovalInv
<1>10. CASE /\ phase' = "approval"
            /\ future' = [fut EXCEPT ![id] = f] /\ asked' = asked \cup {a}
  <2>0. f.of = new /\ f.state = "waiting" /\ a.call = new
    BY DEF Future, Asked
  <2>. HIDE DEF new, f, a
  <2>1. \A i \in CallIds : future'[i] = IF i = id THEN f ELSE NoFuture
    BY <1>10
  <2>2. AskedCalls' = AskedCalls \cup {new}
    BY <1>10, <2>0 DEF AskedCalls
  <2>3. PendingIsCurrent'
    BY <1>3, <1>10, <2>0, <2>1 DEF PendingIsCurrent
  <2>4. AskedBefore'
    <3>. SUFFICES ASSUME NEW c \in AskedCalls'
                  PROVE  c[1] <= received /\ (c[1] = turnOf => c[2] < round
                                                \/ (c[2] = round /\ c[3] <= k))
      BY <1>3, <1>10, <2>2 DEF AskedBefore
    <3>1. CASE c = new
      BY <1>0, <1>1, <3>1
    <3>2. CASE c \in AskedCalls
      BY <1>6, <3>2
    <3>. QED
      BY <2>2, <3>1, <3>2
  <2>5. DecisionsAcknowledged'
    <3>1. ASSUME NEW i \in CallIds
          PROVE  /\ future'[i].state \notin Decisions
                 /\ future'[i].state = "waiting" => future'[i].of = new
      BY <2>0, <2>1, NoFutureState DEF Decisions
    <3>2. ASSUME NEW q \in Ids, reply'[q].code \in Decisions
          PROVE  reply'[q].about \in AskedCalls /\ reply'[q].about # new
      BY <1>2, <1>3, <1>8, <3>2
    <3>. QED
      BY <2>2, <3>1, <3>2 DEF DecisionsAcknowledged
  <2>6. RunsOnlyWithConsent'
    BY <1>10 DEF RunsOnlyWithConsent
  <2>. QED
    BY <1>7, <2>3, <2>4, <2>5, <2>6 DEF ApprovalInv
<1>. QED
  BY <1>5, <1>9, <1>10 DEF CallHead, new, id, f, a

(* What follows a tool call: the next one, or the next round.              *)
LEMMA GateAfterCall ==
  ASSUME TypeInv, Slots, ApprovalInv, phase \in {"approval", "running"},
         NEW fut, AfterCall(fut),
         fut \in [CallIds -> Futures],
         \A i \in CallIds : fut[i] = NoFuture,
         UNCHANGED <<turnOf, alwaysAllow, reply, received>>
  PROVE  ApprovalInv'
<1>1. /\ turnOf \in Ids /\ turnOf \in Nat /\ round \in 1..MaxRounds /\ round \in Nat
      /\ callNo \in Nat /\ Len(calls) \in Nat /\ callNo \in 1..Len(calls)
      /\ Len(calls) <= MaxCalls
  BY CurrentCall
<1>2. turnOf <= received /\ received \in Nat /\ AskedCalls \subseteq Positions
  BY <1>1, TurnAssumption, AskedCallsType
     DEF Slots, SingleFlight, RequestsInOrder, TypeInv, TypeOK, TurnTypeOK
<1>3. ASSUME NEW c \in AskedCalls, c[1] = turnOf
      PROVE  c[2] \in Nat /\ c[3] \in Nat
             /\ (c[2] < round \/ (c[2] = round /\ c[3] <= callNo))
  BY <1>2, <1>3, CallParts DEF ApprovalInv, AskedBefore
<1>4. CASE callNo < Len(calls) /\ CallHead(calls, callNo + 1, fut)
  <2>1. callNo + 1 \in 1..MaxCalls
    BY <1>1, <1>4, TurnAssumption
  <2>2. AskedUpTo(turnOf, round, callNo + 1)
    BY <1>1, <1>3 DEF AskedUpTo
  <2>. QED
    BY <1>1, <1>2, <1>4, <2>1, <2>2, GateHead
<1>5. CASE LoopHead /\ future' = fut /\ UNCHANGED asked
  <2>1. VerdictsStand /\ NothingPending' /\ received <= received' /\ received' \in Nat
    BY <1>2, <1>5 DEF VerdictsStand, NothingPending
  <2>2. phase' \notin {"approval", "running"}
    BY <1>5 DEF LoopHead
  <2>3. ASSUME phase' = "streaming", NEW c \in AskedCalls, c[1] = turnOf
        PROVE  c[2] < round'
    <3>1. round' = round + 1
      BY <1>1, <1>5, <2>3, TurnAssumption DEF LoopHead
    <3>. QED
      BY <1>1, <1>3, <2>3, <3>1
  <2>. QED
    BY <1>5, <2>1, <2>2, <2>3, GateQuiet
<1>. QED
  BY <1>4, <1>5 DEF AfterCall

(* The call was allowed: its tool starts, or the decision could not be     *)
(* written.  Whoever allowed it was told so, and nobody denied it.         *)
LEMMA GateApproved ==
  ASSUME TypeInv, ApprovalInv, Approved, UNCHANGED <<reply, received>>
  PROVE  ApprovalInv'
<1>. DEFINE f == future[CallId]
<1>1. /\ CallId \in CallIds /\ phase = "approval" /\ phase' = "running"
      /\ f.state \in {"allow_once", "allow_always"}
  BY CurrentCall DEF Approved
<1>2. /\ UNCHANGED <<turnOf, round, calls, callNo, asked, reply, received>>
      /\ CallId' = CallId /\ ThisCall' = ThisCall /\ Tool' = Tool /\ AskedCalls' = AskedCalls
  BY DEF Approved, CallId, ThisCall, Tool, AskedCalls
<1>3. f.of = ThisCall
  BY <1>1, NoFutureState DEF ApprovalInv, PendingIsCurrent, Decisions
<1>4. f.state = "allow_always" => Tool \in alwaysAllow'
  BY DEF Approved, Remembered
<1>. HIDE DEF f
<1>5. \A i \in CallIds : future'[i] = NoFuture
  <2>1. future' = [future EXCEPT ![CallId] = NoFuture] /\ DOMAIN future = CallIds
    BY DEF Approved, Popped, TypeInv, TypeOK, TurnTypeOK
  <2>. QED
    BY <1>1, <2>1 DEF ApprovalInv, PendingIsCurrent
<1>6. PendingIsCurrent' /\ OneAnswerPerCall'
  BY <1>2, <1>5 DEF ApprovalInv, PendingIsCurrent, OneAnswerPerCall
<1>7. AskedBefore'
  BY <1>1, <1>2 DEF ApprovalInv, AskedBefore
<1>8. DecisionsAcknowledged'
  <2>1. \A q \in Ids : reply[q].code \in Decisions => reply[q].about \in AskedCalls
    BY DEF ApprovalInv, DecisionsAcknowledged
  <2>. QED
    BY <1>2, <1>5, <2>1, NoFutureState DEF DecisionsAcknowledged
<1>9. RunsOnlyWithConsent'
  <2>1. PICK q \in Ids : reply[q] = Reply(f.state, ThisCall)
    BY <1>1, <1>3 DEF ApprovalInv, DecisionsAcknowledged, Decisions, f
  <2>2. ASSUME NEW p \in Ids, reply[p] = Reply("deny", ThisCall) PROVE FALSE
    <3>1. p = q
      BY <1>1, <2>1, <2>2 DEF ApprovalInv, OneAnswerPerCall, Reply, Decisions
    <3>. QED
      BY <1>1, <2>1, <2>2, <3>1 DEF Reply
  <2>. QED
    BY <1>1, <1>2, <1>4, <2>1, <2>2 DEF RunsOnlyWithConsent
<1>. QED
  BY <1>6, <1>7, <1>8, <1>9 DEF ApprovalInv

(* Once the entry is popped nothing is pending.                            *)
LEMMA PoppedAll ==
  ASSUME TypeInv, ApprovalInv
  PROVE  /\ phase # "approval" => NothingPending
         /\ \A i \in CallIds : Popped[i] = NoFuture
         /\ Popped \in [CallIds -> Futures]
<1>1. future \in [CallIds -> Futures] /\ NoFuture \in Futures
  BY DEF TypeInv, TypeOK, TurnTypeOK, Futures
<1>. QED
  BY <1>1 DEF ApprovalInv, PendingIsCurrent, NothingPending, Popped

(* Every step inside a turn keeps the gate.                                *)
LEMMA GateTurn ==
  ASSUME TypeInv, Slots, ApprovalInv, TurnStep, UNCHANGED <<reply, received>>
  PROVE  ApprovalInv'
<1>1. /\ turnOf \in Ids /\ turnOf \in Nat /\ round \in 1..MaxRounds /\ phase # "idle"
      /\ turnOf <= received /\ received \in Nat
  <2>1. phase # "idle"
    BY TurnStepStays
  <2>. QED
    BY <2>1, TurnAssumption
       DEF Slots, SingleFlight, RequestsInOrder, TypeInv, TypeOK, TurnTypeOK, TurnShape, Ids
<1>2. future \in [CallIds -> Futures]
  BY DEF TypeInv, TypeOK, TurnTypeOK
<1>3. CASE StreamStopped \/ StreamAnswers
  <2>1. /\ phase = "streaming" /\ phase' \in {"stopping", "finishing"}
        /\ UNCHANGED <<future, asked>>
    BY <1>3 DEF StreamStopped, StreamAnswers, gateVars
  <2>2. NothingPending /\ NothingPending'
    BY <2>1, PoppedAll DEF NothingPending
  <2>3. VerdictsStand /\ received <= received' /\ received' \in Nat
    BY <1>1 DEF VerdictsStand
  <2>. QED
    BY <2>1, <2>2, <2>3, GateQuiet
<1>4. ASSUME NEW cs \in ResponseCalls, StreamCallsTools(cs)
      PROVE  ApprovalInv'
  <2>1. phase = "streaming" /\ CallHead(cs, 1, future)
        /\ UNCHANGED <<turnOf, alwaysAllow, reply, received>>
    BY <1>4 DEF StreamCallsTools
  <2>2. \A i \in CallIds : future[i] = NoFuture
    BY <2>1, PoppedAll DEF NothingPending
  <2>3. 1 \in 1..MaxCalls
    <3>1. Len(cs) \in 1..MaxCalls
      BY ResponseCallsType
    <3>. QED
      BY <3>1, TurnAssumption
  <2>4. AskedUpTo(turnOf, round, 1)
    BY <2>1 DEF AskedUpTo, ApprovalInv, AskedBefore
  <2>. QED
    BY <1>1, <1>2, <2>1, <2>2, <2>3, <2>4, GateHead
<1>5. CASE ToolReturns
  <2>1. \A i \in CallIds : future[i] = NoFuture
    BY <1>5, PoppedAll DEF ToolReturns, NothingPending
  <2>. QED
    BY <1>2, <1>5, <2>1, GateAfterCall DEF ToolReturns
<1>6. CASE Denied
  BY <1>6, PoppedAll, GateAfterCall DEF Denied
<1>7. CASE Approved
  BY <1>7, GateApproved
<1>. QED
  BY <1>3, <1>4, <1>5, <1>6, <1>7 DEF TurnStep

-----------------------------------------------------------------------------
(* The steps of the server.                                                *)

(* The user's answer to a call that waits for it.                          *)
LEMMA GateAnswered ==
  ASSUME TypeInv, Slots, ApprovalInv, NEW a \in asked, NEW d \in Decisions,
         ChatApprove(a.id, d)
  PROVE  ApprovalInv'
<1>. DEFINE n == New
            i == a.id
            c == future[i].of
            f == Future(c, d)
<1>0. /\ n \in Ids /\ received' = n /\ reply[n] = NoReply
      /\ AskedCalls \subseteq Positions /\ Replied /\ received <= n /\ received \in Nat
      /\ n \in Nat
  BY NewIsFresh, TurnAssumption, AskedCallsType
     DEF ChatApprove, TypeInv, TypeOK, TurnTypeOK, Replied, New, Ids
<1>1. UNCHANGED <<loopVars, alwaysAllow, asked>>
  BY DEF ChatApprove
<1>2. CASE ~Resolvable(i)
  <2>1. reply' = [reply EXCEPT ![n] = Reply("rejected", <<>>)] /\ UNCHANGED future
    BY <1>2 DEF ChatApprove, Answer
  <2>2. Reply("rejected", <<>>).code \notin Decisions
    BY DEF Reply, Decisions
  <2>. HIDE DEF n
  <2>3. VerdictsStand
    BY <1>0, <2>1, <2>2, OtherAnswer
  <2>. QED
    BY <1>0, <1>1, <2>1, <2>3, GateUntouched DEF gateVars
<1>3. CASE Resolvable(i)
  <2>1. /\ reply' = [reply EXCEPT ![n] = Reply(d, c)]
        /\ future' = [future EXCEPT ![i] = f] /\ future[i].state = "waiting"
    BY <1>3 DEF ChatApprove, Answer, Resolve, Resolvable
  <2>2. i \in CallIds /\ a.call \in AskedCalls
    BY DEF AskedCalls, TypeInv, TypeOK, TurnTypeOK
  <2>3. f.state = d /\ f.of = c /\ Reply(d, c).about = c /\ Reply(d, c).code = d
    BY DEF Future, Reply
  <2>4. phase = "approval" /\ i = CallId /\ c = ThisCall
    BY <2>1, <2>2, NoFutureState DEF ApprovalInv, PendingIsCurrent
  <2>5. ASSUME NEW q \in Ids, reply[q].code \in Decisions
        PROVE  q # n /\ reply[q].about # c /\ reply[q].about \in AskedCalls
    <3>1. reply[n].code \notin Decisions
      BY <1>0 DEF NoReply, Decisions
    <3>. QED
      BY <2>1, <2>2, <2>5, <3>1 DEF ApprovalInv, DecisionsAcknowledged
  <2>. HIDE DEF n, i, c, f
  <2>6. /\ UNCHANGED <<phase, turnOf, round, calls, callNo, alwaysAllow, asked>>
        /\ CallId' = CallId /\ ThisCall' = ThisCall /\ Tool' = Tool /\ AskedCalls' = AskedCalls
    BY <1>1 DEF loopVars, CallId, ThisCall, Tool, AskedCalls
  <2>7. reply'[n] = Reply(d, c) /\ \A q \in Ids : q # n => reply'[q] = reply[q]
    BY <1>0, <2>1 DEF Replied
  <2>8. \A b \in CallIds : future'[b] = IF b = i THEN f ELSE future[b]
    BY <2>1 DEF TypeInv, TypeOK, TurnTypeOK
  <2>9. \A b \in CallIds : b # i => future'[b] = NoFuture
    BY <2>4, <2>8 DEF ApprovalInv, PendingIsCurrent
  <2>10. c \in AskedCalls
    BY <2>4 DEF ApprovalInv, AskedBefore
  <2>11. PendingIsCurrent'
    BY <2>3, <2>4, <2>6, <2>8, <2>9 DEF PendingIsCurrent
  <2>12. AskedBefore'
    <3>1. ASSUME NEW b \in AskedCalls PROVE b[1] <= received'
      <4>1. b[1] <= received /\ b[1] \in Nat
        BY <1>0, <3>1, CallParts DEF ApprovalInv, AskedBefore
      <4>. QED
        BY <1>0, <4>1
    <3>. QED
      BY <2>6, <3>1 DEF ApprovalInv, AskedBefore
  <2>13. DecisionsAcknowledged'
    <3>1. ASSUME NEW b \in CallIds, future'[b].state \in Decisions
          PROVE  \E q \in Ids : reply'[q] = Reply(future'[b].state, future'[b].of)
      <4>1. b = i
        BY <2>9, <3>1, NoFutureState
      <4>. QED
        BY <1>0, <2>3, <2>7, <2>8, <4>1
    <3>2. ASSUME NEW q \in Ids, reply'[q].code \in Decisions
          PROVE  reply'[q].about \in AskedCalls
      <4>1. CASE q = n
        BY <2>3, <2>7, <2>10, <4>1
      <4>2. CASE q # n
        BY <2>5, <2>7, <3>2, <4>2
      <4>. QED
        BY <4>1, <4>2
    <3>3. ASSUME NEW b \in CallIds
          PROVE  future'[b].state # "waiting"
      BY <2>3, <2>8, <2>9, NoFutureState DEF Decisions
    <3>. QED
      BY <2>6, <3>1, <3>2, <3>3 DEF DecisionsAcknowledged
  <2>14. OneAnswerPerCall'
    <3>. SUFFICES ASSUME NEW p \in Ids, NEW q \in Ids, p # q,
                         reply'[p].code \in Decisions, reply'[q].code \in Decisions,
                         reply'[p].about = reply'[q].about
                  PROVE  FALSE
      BY DEF OneAnswerPerCall
    <3>1. p = n \/ q = n
      BY <2>7 DEF ApprovalInv, OneAnswerPerCall
    <3>. QED
      BY <2>3, <2>5, <2>7, <3>1
  <2>15. RunsOnlyWithConsent'
    BY <2>4, <2>6 DEF RunsOnlyWithConsent
  <2>. QED
    BY <2>11, <2>12, <2>13, <2>14, <2>15 DEF ApprovalInv
<1>. QED
  BY <1>2, <1>3

(* A received line reaches the gate only as an answer of the user, or as   *)
(* the begin of a turn.                                                    *)
LEMMA GateRequest ==
  ASSUME TypeInv, Slots, ApprovalInv, Request
  PROVE  ApprovalInv'
<1>1. ASSUME NEW m, Receive(m), NEW x, x.code \notin Decisions,
             UNCHANGED <<loopVars, gateVars>>,
             Answer(New, x) \/ UNCHANGED reply
      PROVE  ApprovalInv'
  <2>. DEFINE n == New
  <2>1. /\ n \in Ids /\ received' = n /\ reply[n] = NoReply /\ Replied
        /\ received <= n /\ n \in Nat
    BY <1>1, NewIsFresh, TurnAssumption DEF TypeInv, TypeOK, Replied, New, Ids
  <2>2. reply' = [reply EXCEPT ![n] = x] \/ UNCHANGED reply
    BY <1>1 DEF Answer
  <2>. HIDE DEF n
  <2>3. VerdictsStand
    <3>1. CASE UNCHANGED reply
      BY <3>1 DEF VerdictsStand
    <3>2. CASE reply' = [reply EXCEPT ![n] = x]
      BY <1>1, <2>1, <3>2, OtherAnswer
    <3>. QED
      BY <2>2, <3>1, <3>2
  <2>. QED
    BY <1>1, <2>1, <2>3, GateUntouched
<1>2. ASSUME NEW code \in Codes \ Decisions, NEW about
      PROVE  Reply(code, about).code \notin Decisions
  BY DEF Reply
<1>3. {"busy", "cancelling", "rejected", "ok", "invalid"} \cup Refused \subseteq Codes \ Decisions
  BY DEF Codes, Decisions, Refused, Raised, Saved
<1>4. CASE ChatSend
  <2>1. /\ New \in Ids /\ received' = New /\ received \in Nat /\ received' \in Nat
        /\ received < New /\ AskedCalls \subseteq Positions
    <3>1. New \in Ids /\ received' = New
      BY <1>4, NewIsFresh DEF ChatSend
    <3>2. received \in Nat /\ AskedCalls \subseteq Positions
      BY TurnAssumption, AskedCallsType DEF TypeInv, TypeOK, TurnTypeOK
    <3>. QED
      BY <3>1, <3>2 DEF New
  <2>2. /\ phase' = "streaming" /\ turnOf' = New /\ busy = 0
        /\ UNCHANGED <<future, asked, reply>>
    BY <1>4 DEF ChatSend, Begin, gateVars
  <2>3. phase = "idle"
    BY <2>2, TurnAssumption DEF Slots, SingleFlight, TypeInv, TurnShape, Ids
  <2>4. NothingPending' /\ VerdictsStand
    BY <2>2, <2>3, PoppedAll DEF NothingPending, VerdictsStand
  <2>5. ASSUME NEW c \in AskedCalls PROVE c[1] # New
    <3>1. c[1] <= received /\ c[1] \in Nat
      BY <2>1, <2>5, CallParts DEF ApprovalInv, AskedBefore
    <3>. QED
      BY <2>1, <3>1
  <2>6. received <= received' /\ phase' \notin {"approval", "running"}
    BY <2>1, <2>2
  <2>. QED
    BY <2>1, <2>2, <2>4, <2>5, <2>6, GateQuiet
<1>5. CASE ChatSendBusy \/ GatewayShutdown \/ Malformed
  BY <1>1, <1>2, <1>3, <1>5 DEF ChatSendBusy, GatewayShutdown, Malformed, turnVars
<1>6. CASE \E code \in Refused : ChatSendRefused(code)
  BY <1>1, <1>2, <1>3, <1>6 DEF ChatSendRefused
<1>7. CASE \E t \in Targets : ChatCancel(t)
  BY <1>1, <1>2, <1>3, <1>7 DEF ChatCancel
<1>8. CASE \E a \in asked, d \in Decisions : ChatApprove(a.id, d)
  BY <1>8, GateAnswered
<1>9. CASE SessionNew \/ SessionResume \/ CommandsDispatch \/ ReadOnly
  BY <1>1, <1>2, <1>3, <1>9 DEF SessionNew, SessionResume, CommandsDispatch, ReadOnly, AnswerOk
<1>10. CASE ToolsRun
  <2>1. NoReply.code \notin Decisions
    BY DEF NoReply, Decisions
  <2>. QED
    BY <1>1, <1>10, <2>1 DEF ToolsRun, turnVars
<1>. QED
  BY <1>4, <1>5, <1>6, <1>7, <1>8, <1>9, <1>10 DEF Request

(* A turn that ends, whatever ends it, leaves nothing pending.             *)
LEMMA GateDropped ==
  ASSUME TypeInv, ApprovalInv, VerdictsStand, LoopDropped,
         \/ phase # "approval" /\ UNCHANGED future
         \/ future' = Popped,
         UNCHANGED <<asked, received>>
  PROVE  ApprovalInv'
<1>1. NothingPending'
  BY PoppedAll DEF NothingPending
<1>2. received <= received' /\ received' \in Nat
  BY TurnAssumption DEF TypeInv, TypeOK
<1>. QED
  BY <1>1, <1>2, GateQuiet DEF LoopDropped

(* The steps of the tasks keep the gate.                                   *)
LEMMA GateWork ==
  ASSUME TypeInv, Slots, ApprovalInv, Work
  PROVE  ApprovalInv'
<1>1. ASSUME NEW r \in Ids, status[r] = "running", NEW code \in Codes \ Decisions,
             Answer(r, Reply(code, <<>>))
      PROVE  VerdictsStand
  <2>1. reply[r] = NoReply /\ Replied
    BY <1>1 DEF Slots, RunningUnanswered, TypeInv, TypeOK, Replied
  <2>2. Reply(code, <<>>).code \notin Decisions
    BY DEF Reply
  <2>. QED
    BY <1>1, <2>1, <2>2, OtherAnswer DEF Answer
<1>2. phase # "idle" => turnOf \in Ids /\ status[turnOf] = "running"
  BY DEF TypeInv, TurnShape, Slots, SingleFlight
<1>3. received <= received /\ received \in Nat
  BY TurnAssumption DEF TypeInv, TypeOK
<1>4. CASE TurnGoesOn
  BY <1>4, GateTurn DEF TurnGoesOn, serverVars
<1>5. CASE ChatSendReturns
  <2>1. /\ phase \in {"finishing", "stopping", "exhausted"}
        /\ Answer(turnOf, Reply(Reported(LoopStatus), <<>>))
        /\ LoopDropped /\ UNCHANGED <<future, asked, received>>
    BY <1>5 DEF ChatSendReturns, TurnReturns, gateVars
  <2>2. Reported(LoopStatus) \in Codes \ Decisions
    BY <2>1 DEF Reported, LoopStatus, Codes, Saved, Decisions
  <2>3. VerdictsStand
    BY <1>1, <1>2, <2>1, <2>2
  <2>. QED
    BY <2>1, <2>3, GateDropped
<1>6. CASE ChatSendRaises
  <2>1. /\ phase # "idle" /\ LoopDropped /\ UNCHANGED <<asked, received>>
        /\ (phase # "approval" /\ UNCHANGED future) \/ future' = Popped
    BY <1>6 DEF ChatSendRaises, ProviderRaises, AllowAlwaysRaises, gateVars
  <2>2. PICK code \in Codes \ Decisions : Answer(turnOf, Reply(code, <<>>))
    BY <1>6 DEF ChatSendRaises, Codes, Raised, Decisions
  <2>3. VerdictsStand
    BY <1>1, <1>2, <2>1, <2>2
  <2>. QED
    BY <2>1, <2>3, GateDropped
<1>7. CASE \E r \in Ids : ToolsRunReturns(r)
  <2>1. PICK r \in Ids : ToolsRunReturns(r)
    BY <1>7
  <2>2. VerdictsStand
    BY <1>1, <2>1 DEF ToolsRunReturns, Codes, Decisions
  <2>. QED
    BY <1>3, <2>1, <2>2, GateUntouched DEF ToolsRunReturns, turnVars
<1>8. CASE WriteFrame \/ TaskEnds
  <2>1. UNCHANGED <<loopVars, gateVars, reply, received>>
    BY <1>8 DEF WriteFrame, TaskEnds, turnVars
  <2>. QED
    BY <1>3, <2>1, GateUntouched DEF VerdictsStand
<1>. QED
  BY <1>4, <1>5, <1>6, <1>7, <1>8 DEF Work

(* The invariant of the gate is inductive, next to that of the slot.       *)
LEMMA ApprovalInvInductive ==
  /\ Init => ApprovalInv
  /\ SlotInv /\ ApprovalInv /\ [Next]_vars => ApprovalInv'
<1>1. Init => ApprovalInv
  <2>. SUFFICES ASSUME Init PROVE ApprovalInv
    OBVIOUS
  <2>1. \A i \in CallIds : future[i] = NoFuture
    BY DEF Init, TurnInit
  <2>2. \A q \in Ids : reply[q].code \notin Decisions
    BY DEF Init, NoReply, Decisions
  <2>3. PendingIsCurrent /\ OneAnswerPerCall /\ DecisionsAcknowledged
    BY <2>1, <2>2, NoFutureState DEF PendingIsCurrent, OneAnswerPerCall, DecisionsAcknowledged
  <2>4. AskedBefore /\ RunsOnlyWithConsent
    BY DEF Init, TurnInit, AskedBefore, AskedCalls, RunsOnlyWithConsent
  <2>. QED
    BY <2>3, <2>4 DEF ApprovalInv
<1>2. ASSUME SlotInv, ApprovalInv, [Next]_vars
      PROVE  ApprovalInv'
  <2>0. TypeInv /\ Slots /\ received <= received /\ received \in Nat
    BY <1>2, TurnAssumption DEF SlotInv, TypeInv, Slots, TypeOK
  <2>1. CASE StdinEnds \/ ServeReturns \/ UNCHANGED vars
    <3>1. UNCHANGED <<loopVars, gateVars, reply, received>>
      BY <2>1 DEF StdinEnds, ServeReturns, vars, serverVars, turnVars
    <3>. QED
      BY <1>2, <2>0, <3>1, GateUntouched DEF VerdictsStand
  <2>2. CASE ShutdownCancels
    <3>1. /\ LoopDropped /\ UNCHANGED <<asked, reply, received>>
          /\ (phase # "approval" /\ UNCHANGED future) \/ future' = Popped
      BY <2>2 DEF ShutdownCancels, TurnCancelled
    <3>. QED
      BY <1>2, <2>0, <3>1, GateDropped DEF VerdictsStand
  <2>. QED
    BY <1>2, <2>0, <2>1, <2>2, GateRequest, GateWork DEF Next
<1>. QED
  BY <1>1, <1>2

-----------------------------------------------------------------------------

(* ApprovalGate lets a high-risk tool run only when it is on the           *)
(* always-allow list or a chat.approve that came while this very call      *)
(* waited was told that it allowed, and none that denied: for every set of *)
(* tools and of call ids, whether or not calls share them (the fallback to *)
(* the tool's name in openai_chat.py), and any number of requests, rounds  *)
(* and calls.                                                              *)
THEOREM AlwaysConsent == Spec => []RunsOnlyWithConsent
<1>1. ApprovalInv => RunsOnlyWithConsent
  BY DEF ApprovalInv
<1>. QED
  BY <1>1, SlotInvInductive, ApprovalInvInductive, PTL DEF Spec

(* At most one chat.approve is told that it decided a given call, even if  *)
(* several calls had the id it names: ApprovalGate.resolve skips a future  *)
(* that is done, and a new one under the id belongs to a later call.       *)
THEOREM AlwaysOneAnswer == Spec => []OneAnswerPerCall
<1>1. ApprovalInv => OneAnswerPerCall
  BY DEF ApprovalInv
<1>. QED
  BY <1>1, SlotInvInductive, ApprovalInvInductive, PTL DEF Spec

(* No entry of ApprovalGate._pending outlives the wait for it: the finally *)
(* of _decide pops it on every path, through denial, error and shutdown.   *)
THEOREM AlwaysPendingIsCurrent == Spec => []PendingIsCurrent
<1>1. ApprovalInv => PendingIsCurrent
  BY DEF ApprovalInv
<1>. QED
  BY <1>1, SlotInvInductive, ApprovalInvInductive, PTL DEF Spec


-----------------------------------------------------------------------------
(* The steps, as the conversation sees them.                               *)

(* A handler that may change the conversation at any moment.               *)
SessionStep ==
  /\ ResetConversation \/ UndoTurn \/ CompactConversation
       \/ ResumeConversation \/ UNCHANGED sessionVars
  /\ UNCHANGED loopVars

(* What a step does to the conversation and the turn.                      *)
LEMMA ConversationSteps ==
  ASSUME [Next]_vars
  PROVE  \/ UNCHANGED <<messages, turnCount, loopVars>>
         \/ \E m \in SessionMethods : Receive(m) /\ SessionStep
         \/ ChatSend
         \/ TurnGoesOn
         \/ ChatSendReturns
         \/ LoopDropped /\ UNCHANGED <<messages, turnCount>>
<1>1. CASE SessionNew \/ SessionResume \/ CommandsDispatch
  BY <1>1 DEF SessionNew, SessionResume, CommandsDispatch, AnswerOk, SessionStep,
              SessionMethods
<1>2. CASE ReadOnly
  BY <1>2 DEF ReadOnly, AnswerOk, sessionVars
<1>3. CASE \/ ChatSendBusy \/ ToolsRun \/ GatewayShutdown \/ Malformed
           \/ \E code \in Refused : ChatSendRefused(code)
  BY <1>3 DEF ChatSendBusy, ToolsRun, GatewayShutdown, Malformed, ChatSendRefused, turnVars
<1>4. CASE \/ \E t \in Targets : ChatCancel(t)
           \/ \E a \in asked, d \in Decisions : ChatApprove(a.id, d)
  BY <1>4 DEF ChatCancel, ChatApprove
<1>5. CASE Request
  BY <1>1, <1>2, <1>3, <1>4, <1>5 DEF Request
<1>6. CASE WriteFrame \/ TaskEnds \/ \E r \in Ids : ToolsRunReturns(r)
  BY <1>6 DEF WriteFrame, TaskEnds, ToolsRunReturns, turnVars, sessionVars
<1>7. CASE ChatSendRaises
  BY <1>7 DEF ChatSendRaises, ProviderRaises, AllowAlwaysRaises
<1>8. CASE ShutdownCancels
  BY <1>8 DEF ShutdownCancels, TurnCancelled
<1>9. CASE StdinEnds \/ ServeReturns \/ UNCHANGED vars
  BY <1>9 DEF StdinEnds, ServeReturns, vars, turnVars
<1>. QED
  BY <1>5, <1>6, <1>7, <1>8, <1>9 DEF Next, Work

(* Requests are never forgotten.                                           *)
LEMMA ReceivedGrows ==
  ASSUME SlotInv, [Next]_vars
  PROVE  received' \in Nat /\ received \in Nat /\ received <= received'
<1>1. received \in Nat
  BY TurnAssumption DEF SlotInv, TypeOK
<1>2. received' = received \/ received' = New
  BY DEF Next, Request, ChatSendBusy, ChatSendRefused, ChatSend, ChatCancel, ChatApprove,
         SessionNew, SessionResume, CommandsDispatch, ToolsRun, GatewayShutdown, ReadOnly,
         Malformed, Receive, Work, TurnGoesOn, ChatSendReturns, ChatSendRaises,
         ToolsRunReturns, WriteFrame, TaskEnds, StdinEnds, ShutdownCancels, ServeReturns,
         vars, serverVars
<1>. QED
  BY <1>1, <1>2 DEF New

(* A message of a turn: who asked for it and what it may be.               *)
LEMMA TurnMessages ==
  ASSUME NEW r \in Nat, NEW k \in Nat
  PROVE  /\ AssistantMsg(r, k) \in Message /\ ToolMsg(r, k) \in Message
         /\ AssistantMsg(r, k).role = "assistant" /\ AssistantMsg(r, k).req = r
         /\ AssistantMsg(r, k).n = k
         /\ ToolMsg(r, k).role = "tool" /\ ToolMsg(r, k).req = r
BY DEF AssistantMsg, ToolMsg, Message, Roles

(* The requests of a conversation are numbers.                             *)
LEMMA MessageRequests ==
  ASSUME NEW h \in Seq(Message)
  PROVE  \A i \in DOMAIN h : h[i] \in Message /\ h[i].req \in Nat
<1>1. \A i \in DOMAIN h : h[i] \in Message
  BY LenProperties, ElementOfSeq
<1>. QED
  BY <1>1 DEF Message

(* What a step of a running turn does to its history: nothing, or it       *)
(* appends one message of its own.                                         *)
LEMMA HistorySteps ==
  ASSUME SlotInv, TurnGoesOn
  PROVE  /\ phase # "idle" /\ phase' # "idle" /\ turnOf' = turnOf /\ turnOf \in Ids
         /\ UNCHANGED <<messages, turnCount, reply, received, kind>>
         /\ \/ history' = history
            \/ \E m \in Message : /\ m.role \in {"assistant", "tool"} /\ m.req = turnOf
                                  /\ history' = Append(history, m)
<1>1. phase # "idle" /\ phase' # "idle" /\ turnOf' = turnOf
  BY TurnStepStays DEF TurnGoesOn
<1>2. turnOf \in Ids /\ turnOf \in Nat
  BY <1>1, TurnAssumption DEF SlotInv, TurnShape, Ids
<1>3. UNCHANGED <<messages, turnCount, reply, received, kind>>
  BY DEF TurnGoesOn, serverVars, TurnStep, StreamStopped, StreamAnswers, StreamCallsTools,
         ToolReturns, Denied, Approved
<1>4. CASE StreamStopped \/ Approved
  BY <1>1, <1>2, <1>3, <1>4 DEF StreamStopped, Approved
<1>5. CASE StreamAnswers
  BY <1>1, <1>2, <1>3, <1>5, TurnMessages DEF StreamAnswers
<1>6. ASSUME NEW cs \in ResponseCalls, StreamCallsTools(cs)
      PROVE  \E m \in Message : /\ m.role \in {"assistant", "tool"} /\ m.req = turnOf
                                /\ history' = Append(history, m)
  <2>1. Len(cs) \in Nat
    BY TurnAssumption, LenProperties DEF ResponseCalls
  <2>. QED
    BY <1>2, <1>6, <2>1, TurnMessages DEF StreamCallsTools
<1>7. CASE ToolReturns \/ Denied
  <2>1. callNo \in Nat
    BY DEF SlotInv, TypeOK, TurnTypeOK
  <2>. QED
    BY <1>1, <1>2, <1>3, <1>7, <2>1, TurnMessages DEF ToolReturns, Denied, AfterCall
<1>. QED
  BY <1>1, <1>2, <1>3, <1>4, <1>5, <1>6, <1>7 DEF TurnGoesOn, TurnStep

(* What the session commands leave: whole turns in order, messages of the  *)
(* conversation or of no request, and no new call without a result.        *)
LEMMA SessionKeepsShape ==
  ASSUME SlotInv, SessionStep
  PROVE  /\ TurnsInOrder => TurnsInOrder'
         /\ \A i \in DOMAIN messages' :
              messages'[i].req = 0 \/ \E j \in DOMAIN messages : messages'[i] = messages[j]
         /\ \A i \in Unanswered(messages') :
              messages'[i].req = 0 \/ \E j \in Unanswered(messages) : messages'[i] = messages[j]
<1>1. messages \in Seq(Message)
  BY DEF SlotInv, TypeOK, TurnTypeOK
<1>2. ASSUME NEW h, \A i \in DOMAIN h : h[i].req = 0, messages' = h
      PROVE  /\ TurnsInOrder'
             /\ \A i \in DOMAIN messages' : messages'[i].req = 0
             /\ \A i \in Unanswered(messages') : messages'[i].req = 0
  BY <1>2 DEF TurnsInOrder, WholeTurns, PromptsInOrder, UserPositions, Unanswered
<1>3. CASE ResetConversation
  BY <1>2, <1>3 DEF ResetConversation
<1>4. CASE UndoTurn
  BY <1>1, <1>4, UndoKeepsShape DEF UndoTurn, ShapeKept, TurnsInOrder
<1>5. CASE CompactConversation
  <2>1. messages' = Compact(messages, KeepRecent)
    BY <1>5 DEF CompactConversation
  <2>. QED
    BY <1>1, <2>1, CompactKeepsShape, GatewayAssumption
       DEF ShapeKept, TurnsInOrder, SummaryMsg
<1>6. CASE ResumeConversation
  BY <1>2, <1>3, <1>6, GatewayAssumption DEF ResumeConversation, sessionVars, TurnsInOrder
<1>7. CASE UNCHANGED sessionVars
  BY <1>7 DEF sessionVars, TurnsInOrder
<1>. QED
  BY <1>3, <1>4, <1>5, <1>6, <1>7 DEF SessionStep

-----------------------------------------------------------------------------
(* Whole turns in order.                                                   *)

(* What is made of known requests stays so.                                *)
LEMMA KnownStays ==
  ASSUME SlotInv, [Next]_vars, NEW h \in Seq(Message), KnownRequests(h)
  PROVE  \A i \in DOMAIN h : h[i].req <= received'
<1>1. \A i \in DOMAIN h : h[i].req \in Nat
  BY MessageRequests
<1>. QED
  BY <1>1, ReceivedGrows DEF KnownRequests

(* Whole turns in order is inductive.                                      *)
LEMMA TurnsInvInductive ==
  /\ Init => TurnsInv
  /\ SlotInv /\ TurnsInv /\ [Next]_vars => TurnsInv'
<1>1. Init => TurnsInv
  BY DEF Init, TurnInit, TurnsInv, TurnsInOrder, WholeTurns, PromptsInOrder,
         UserPositions, KnownRequests
<1>2. ASSUME SlotInv, TurnsInv, [Next]_vars
      PROVE  TurnsInv'
  <2>1. messages \in Seq(Message) /\ history \in Seq(Message)
    BY <1>2 DEF SlotInv, TypeOK, TurnTypeOK
  <2>2. \A i \in DOMAIN messages : messages[i].req <= received'
    BY <1>2, <2>1, KnownStays DEF TurnsInv
  <2>3. phase # "idle" => \A i \in DOMAIN history : history[i].req <= received'
    BY <1>2, <2>1, KnownStays DEF TurnsInv
  <2>4. CASE UNCHANGED <<messages, turnCount, loopVars>>
    <3>1. UNCHANGED <<messages, history, phase, turnOf>>
      BY <2>4 DEF loopVars
    <3>. QED
      BY <1>2, <2>2, <2>3, <3>1 DEF TurnsInv, TurnsInOrder, KnownRequests
  <2>5. CASE SessionStep
    <3>1. UNCHANGED <<history, phase, turnOf>>
      BY <2>5 DEF SessionStep, loopVars
    <3>2. TurnsInOrder'
      BY <1>2, <2>5, SessionKeepsShape DEF TurnsInv
    <3>3. KnownRequests(messages)'
      BY <1>2, <2>2, <2>5, SessionKeepsShape, ReceivedGrows DEF KnownRequests
    <3>. QED
      BY <1>2, <2>3, <3>1, <3>2, <3>3 DEF TurnsInv, KnownRequests
  <2>6. CASE ChatSend
    <3>1. /\ messages' = messages /\ turnOf' = New /\ received' = New
          /\ history' = Append(messages, UserMsg(New))
      BY <2>6 DEF ChatSend, Begin, Receive
    <3>2. New \in Nat /\ received \in Nat /\ New = received + 1
      BY <1>2, TurnAssumption DEF SlotInv, TypeOK, New
    <3>3. \A i \in DOMAIN messages : messages[i].req < New
      <4>1. \A i \in DOMAIN messages : messages[i].req \in Nat
        BY <2>1, MessageRequests
      <4>. QED
        BY <1>2, <3>2, <4>1 DEF TurnsInv, KnownRequests
    <3>4. WholeTurns(messages) /\ PromptsInOrder(messages)
      BY <1>2 DEF TurnsInv, TurnsInOrder
    <3>5. WholeTurns(history') /\ PromptsInOrder(history') /\ LastPromptIs(history', New)
      BY <2>1, <3>1, <3>2, <3>3, <3>4, PromptAppended
    <3>6. KnownRequests(history)'
      <4>1. UserMsg(New) \in Message /\ UserMsg(New).req = New
        BY <3>2 DEF UserMsg, Message, Roles
      <4>2. \A i \in DOMAIN history' :
              (i \in DOMAIN messages /\ history'[i] = messages[i]) \/ history'[i] = UserMsg(New)
        BY <2>1, <3>1, <4>1, Appended
      <4>. QED
        BY <2>2, <3>1, <3>2, <4>1, <4>2 DEF KnownRequests
    <3>. QED
      BY <2>2, <3>1, <3>4, <3>5, <3>6 DEF TurnsInv, TurnsInOrder, KnownRequests
  <2>7. CASE TurnGoesOn
    <3>1. /\ phase # "idle" /\ turnOf' = turnOf /\ turnOf \in Ids
          /\ UNCHANGED <<messages, received>>
      BY <1>2, <2>7, HistorySteps
    <3>2. /\ WholeTurns(history) /\ PromptsInOrder(history)
          /\ KnownRequests(history) /\ LastPromptIs(history, turnOf)
      BY <1>2, <3>1 DEF TurnsInv
    <3>3. CASE history' = history
      BY <1>2, <3>1, <3>2, <3>3 DEF TurnsInv, TurnsInOrder, KnownRequests
    <3>4. ASSUME NEW m \in Message, m.role \in {"assistant", "tool"}, m.req = turnOf,
                 history' = Append(history, m)
          PROVE  TurnsInv'
      <4>1. /\ WholeTurns(history') /\ PromptsInOrder(history')
            /\ LastPromptIs(history', turnOf)
        BY <2>1, <3>2, <3>4, AnswerAppended
      <4>2. \A i \in DOMAIN history' :
              (i \in DOMAIN history /\ history'[i] = history[i]) \/ history'[i] = m
        BY <2>1, <3>4, Appended
      <4>3. turnOf <= received
        <5>1. status[turnOf] = "running"
          BY <1>2, <3>1 DEF SlotInv, SingleFlight
        <5>2. ~(turnOf > received)
          BY <1>2, <3>1, <5>1 DEF SlotInv, RequestsInOrder
        <5>. QED
          BY <1>2, <3>1, <5>2, TurnAssumption DEF SlotInv, TypeOK, Ids
      <4>4. KnownRequests(history)'
        BY <3>1, <3>2, <3>4, <4>2, <4>3 DEF KnownRequests
      <4>. QED
        BY <1>2, <3>1, <4>1, <4>4 DEF TurnsInv, TurnsInOrder, KnownRequests
    <3>. QED
      BY <1>2, <2>7, <3>3, <3>4, HistorySteps
  <2>8. CASE ChatSendReturns
    <3>1. phase # "idle" /\ messages' = history /\ phase' = "idle"
      BY <2>8 DEF ChatSendReturns, TurnReturns, LoopDropped
    <3>. QED
      BY <1>2, <2>3, <3>1 DEF TurnsInv, TurnsInOrder, KnownRequests
  <2>9. CASE LoopDropped /\ UNCHANGED <<messages, turnCount>>
    <3>1. phase' = "idle" /\ messages' = messages
      BY <2>9 DEF LoopDropped
    <3>. QED
      BY <1>2, <2>2, <3>1 DEF TurnsInv, TurnsInOrder, KnownRequests
  <2>. QED
    BY <1>2, <2>4, <2>5, <2>6, <2>7, <2>8, <2>9, ConversationSteps
<1>. QED
  BY <1>1, <1>2

(* Whatever session commands the user slips into a turn, the conversation  *)
(* is made of whole turns, each message behind the prompt of its own       *)
(* request, in the order in which they were asked (run_turn of chat.py     *)
(* copies the conversation and puts its history back; commands/session.py  *)
(* and runtime/compaction.py cut at prompts).                              *)
THEOREM AlwaysTurnsInOrder == Spec => []TurnsInOrder
<1>1. TurnsInv => TurnsInOrder
  BY DEF TurnsInv
<1>. QED
  BY <1>1, SlotInvInductive, TurnsInvInductive, PTL DEF Spec

-----------------------------------------------------------------------------
(* No turn is lost.                                                        *)

(* A step stores at most the turn that returns: no other Response has a    *)
(* status of a turn that was saved.                                        *)
LEMMA SavedSteps ==
  ASSUME SlotInv, [Next]_vars, NEW r \in Ids
  PROVE  reply'[r].code \in Saved <=>
           reply[r].code \in Saved \/ (ChatSendReturns /\ r = turnOf)
<1>1. ASSUME NEW q \in Ids, reply[q] = NoReply, NEW code, NEW a, code \notin Saved,
             Answer(q, Reply(code, a))
      PROVE  reply'[r].code \in Saved <=> reply[r].code \in Saved
  <2>1. reply' = [reply EXCEPT ![q] = Reply(code, a)] /\ reply \in [Ids -> Replies]
    BY <1>1 DEF Answer, SlotInv, TypeOK
  <2>2. Reply(code, a).code \notin Saved /\ NoReply.code \notin Saved
    BY <1>1 DEF Reply, NoReply, Saved
  <2>. QED
    BY <1>1, <2>1, <2>2
<1>2. phase # "idle" => turnOf \in Ids /\ reply[turnOf] = NoReply
  BY DEF SlotInv, TurnShape, SingleFlight, RunningUnanswered
<1>3. CASE ChatSendReturns
  <2>1. turnOf \in Ids /\ reply[turnOf] = NoReply
    BY <1>2, <1>3 DEF ChatSendReturns, TurnReturns
  <2>2. Reported(LoopStatus) \in Saved
    BY <1>3 DEF ChatSendReturns, TurnReturns, Reported, LoopStatus, Saved
  <2>3. reply' = [reply EXCEPT ![turnOf] = Reply(Reported(LoopStatus), <<>>)]
    BY <1>3 DEF ChatSendReturns, Answer
  <2>4. Reply(Reported(LoopStatus), <<>>).code = Reported(LoopStatus)
    BY DEF Reply
  <2>. QED
    BY <1>3, <2>1, <2>2, <2>3, <2>4 DEF SlotInv, TypeOK
<1>4. CASE ~ChatSendReturns
  <2>. SUFFICES reply'[r].code \in Saved <=> reply[r].code \in Saved
    BY <1>4
  <2>1. CASE ChatSendRaises
    <3>1. phase # "idle" /\ \E code \in Raised : Answer(turnOf, Reply(code, <<>>))
      BY <2>1 DEF ChatSendRaises, ProviderRaises, AllowAlwaysRaises, Raised
    <3>2. \A code \in Raised : code \notin Saved
      BY DEF Raised, Saved
    <3>. QED
      BY <1>1, <1>2, <3>1, <3>2
  <2>2. ASSUME NEW m, Receive(m)
        PROVE  New \in Ids /\ reply[New] = NoReply
    BY <2>2, NewIsFresh DEF SlotInv, TypeInv, Slots
  <2>3. CASE ChatSendBusy \/ (\E code \in Refused : ChatSendRefused(code))
               \/ GatewayShutdown \/ Malformed
    BY <1>1, <2>2, <2>3
       DEF ChatSendBusy, ChatSendRefused, GatewayShutdown, Malformed, Refused, Saved
  <2>4. CASE ChatSend \/ ToolsRun
    BY <2>4 DEF ChatSend, ToolsRun
  <2>5. CASE \E t \in Targets : ChatCancel(t)
    BY <1>1, <2>2, <2>5 DEF ChatCancel, Saved
  <2>6. CASE \E a \in asked, d \in Decisions : ChatApprove(a.id, d)
    BY <1>1, <2>2, <2>6 DEF ChatApprove, Decisions, Saved
  <2>7. CASE SessionNew \/ SessionResume \/ CommandsDispatch \/ ReadOnly
    BY <1>1, <2>2, <2>7
       DEF SessionNew, SessionResume, CommandsDispatch, ReadOnly, AnswerOk, Saved
  <2>8. CASE \E q \in Ids : ToolsRunReturns(q)
    <3>1. PICK q \in Ids : ToolsRunReturns(q)
      BY <2>8
    <3>2. reply[q] = NoReply
      BY <3>1 DEF ToolsRunReturns, SlotInv, RunningUnanswered
    <3>. QED
      BY <1>1, <3>1, <3>2 DEF ToolsRunReturns, Saved
  <2>9. CASE TurnGoesOn \/ WriteFrame \/ TaskEnds
    BY <2>9 DEF TurnGoesOn, WriteFrame, TaskEnds, serverVars
  <2>10. CASE StdinEnds \/ ShutdownCancels \/ ServeReturns \/ UNCHANGED vars
    BY <2>10 DEF StdinEnds, ShutdownCancels, ServeReturns, vars, serverVars
  <2>. QED
    BY <1>4, <2>1, <2>3, <2>4, <2>5, <2>6, <2>7, <2>8, <2>9, <2>10
       DEF Next, Request, Work
<1>. QED
  BY <1>3, <1>4

(* A session command, once received, stays known.                          *)
LEMMA SessionMethodsStay ==
  ASSUME SlotInv, [Next]_vars, NoSessionMethods'
  PROVE  /\ NoSessionMethods
         /\ \A m \in SessionMethods : ~Receive(m)
<1>1. ASSUME NEW m, Receive(m)
      PROVE  NoSessionMethods /\ m \notin SessionMethods
  <2>1. New \in Ids /\ kind' = [kind EXCEPT ![New] = m]
    BY <1>1, NewIsFresh DEF SlotInv, TypeInv, Slots
  <2>2. New > received
    BY <1>1, ReceivedGrows DEF Receive, New
  <2>3. kind[New] = "none" /\ kind \in [Ids -> AllMethods \cup {"none"}]
    BY <2>1, <2>2 DEF SlotInv, TypeOK, RequestsInOrder
  <2>. QED
    BY <2>1, <2>3 DEF NoSessionMethods, SessionMethods
<1>2. CASE Request
  BY <1>1, <1>2
     DEF Request, ChatSendBusy, ChatSendRefused, ChatSend, ChatCancel, ChatApprove,
         SessionNew, SessionResume, CommandsDispatch, ToolsRun, GatewayShutdown, ReadOnly,
         Malformed
<1>3. CASE ~Request
  <2>1. kind' = kind
    BY <1>3 DEF Next, Work, TurnGoesOn, ChatSendReturns, ChatSendRaises, ToolsRunReturns,
         WriteFrame, TaskEnds, StdinEnds, ShutdownCancels, ServeReturns, vars, serverVars
  <2>. QED
    BY <1>1, <2>1 DEF NoSessionMethods
<1>. QED
  BY <1>1, <1>2, <1>3

(* The prompts of the conversation and of the running turn.                *)
LEMMA SavedInvInductive ==
  /\ Init => SavedInv
  /\ SlotInv /\ TurnsInv /\ SavedInv /\ [Next]_vars => SavedInv'
<1>1. ASSUME Init
      PROVE  SavedInv
  <2>1. /\ messages = <<>> /\ turnCount = 0 /\ phase = "idle"
        /\ \A r \in Ids : reply[r].code \notin Saved
    BY <1>1 DEF Init, TurnInit, NoReply, Saved
  <2>2. UserPositions(messages) = {}
    BY <2>1 DEF UserPositions
  <2>3. PromptRequests(messages) = {} /\ UserTurns(messages) = 0
    BY <2>2, FS_EmptySet DEF PromptRequests, UserTurns
  <2>. QED
    BY <2>1, <2>3 DEF SavedInv, NoTurnIsLost
<1>2. ASSUME SlotInv, TurnsInv, SavedInv, [Next]_vars, NoSessionMethods'
      PROVE  /\ PromptRequests(messages') = {r \in Ids : reply'[r].code \in Saved}
             /\ turnCount' = UserTurns(messages')
             /\ phase' # "idle" =>
                  /\ PromptRequests(history') = PromptRequests(messages') \cup {turnOf'}
                  /\ UserTurns(history') = UserTurns(messages') + 1
  <2>. DEFINE Kept == {r \in Ids : reply[r].code \in Saved}
              Kept2 == {r \in Ids : reply'[r].code \in Saved}
  <2>1. NoSessionMethods /\ \A m \in SessionMethods : ~Receive(m)
    BY <1>2, SessionMethodsStay
  <2>2. /\ PromptRequests(messages) = Kept
        /\ turnCount = UserTurns(messages)
    BY <1>2, <2>1 DEF SavedInv, NoTurnIsLost, NoSessionMethods
  <2>3. phase # "idle" =>
          /\ PromptRequests(history) = PromptRequests(messages) \cup {turnOf}
          /\ UserTurns(history) = UserTurns(messages) + 1
    BY <1>2, <2>1 DEF SavedInv
  <2>4. messages \in Seq(Message) /\ history \in Seq(Message)
    BY <1>2 DEF SlotInv, TypeOK, TurnTypeOK
  <2>5. \A r \in Ids : r \in Kept2 <=> r \in Kept \/ (ChatSendReturns /\ r = turnOf)
    BY <1>2, SavedSteps
  <2>6. ~ChatSendReturns => Kept2 = Kept
    BY <2>5
  <2>. HIDE DEF Kept, Kept2
  <2>7. CASE ChatSendReturns
    <3>1. /\ phase # "idle" /\ messages' = history /\ turnCount' = turnCount + 1
          /\ phase' = "idle"
      BY <2>7 DEF ChatSendReturns, TurnReturns, LoopDropped
    <3>2. turnOf \in Ids
      BY <1>2, <3>1 DEF SlotInv, TurnShape
    <3>3. Kept2 = Kept \cup {turnOf}
      BY <2>5, <2>7, <3>2 DEF Kept, Kept2
    <3>. QED
      BY <2>2, <2>3, <3>1, <3>3 DEF Kept2
  <2>8. CASE ~ChatSendReturns /\ UNCHANGED <<messages, turnCount, loopVars>>
    <3>1. UNCHANGED <<messages, turnCount, phase, history, turnOf>>
      BY <2>8 DEF loopVars
    <3>. QED
      BY <2>2, <2>3, <2>6, <2>8, <3>1 DEF Kept2
  <2>9. CASE ~ChatSendReturns /\ ChatSend
    <3>1. /\ messages' = messages /\ turnCount' = turnCount /\ turnOf' = New
          /\ history' = Append(messages, UserMsg(New))
      BY <2>9 DEF ChatSend, Begin
    <3>2. New \in Nat /\ received \in Nat /\ New = received + 1
      BY <1>2, TurnAssumption DEF SlotInv, TypeOK, New
    <3>3. \A i \in DOMAIN messages : messages[i].req < New
      <4>1. \A i \in DOMAIN messages : messages[i].req \in Nat
        BY <2>4, MessageRequests
      <4>. QED
        BY <1>2, <3>2, <4>1 DEF TurnsInv, KnownRequests
    <3>4. /\ PromptRequests(history') = PromptRequests(messages) \cup {New}
          /\ UserTurns(history') = UserTurns(messages) + 1
      BY <1>2, <2>4, <3>1, <3>2, <3>3, PromptAppended DEF TurnsInv, TurnsInOrder
    <3>. QED
      BY <2>2, <2>6, <2>9, <3>1, <3>4 DEF Kept2
  <2>10. CASE ~ChatSendReturns /\ TurnGoesOn
    <3>1. phase # "idle" /\ turnOf' = turnOf /\ UNCHANGED <<messages, turnCount>>
      BY <1>2, <2>10, HistorySteps
    <3>2. /\ WholeTurns(history) /\ PromptsInOrder(history)
          /\ LastPromptIs(history, turnOf)
      BY <1>2, <3>1 DEF TurnsInv
    <3>3. /\ PromptRequests(history') = PromptRequests(history)
          /\ UserTurns(history') = UserTurns(history)
      <4>1. CASE history' = history
        BY <4>1
      <4>2. ASSUME NEW m \in Message, m.role \in {"assistant", "tool"}, m.req = turnOf,
                   history' = Append(history, m)
            PROVE  /\ PromptRequests(history') = PromptRequests(history)
                   /\ UserTurns(history') = UserTurns(history)
        BY <2>4, <3>2, <4>2, AnswerAppended
      <4>. QED
        BY <1>2, <2>10, <4>1, <4>2, HistorySteps
    <3>. QED
      BY <2>2, <2>3, <2>6, <2>10, <3>1, <3>3 DEF Kept2
  <2>11. CASE ~ChatSendReturns /\ LoopDropped /\ UNCHANGED <<messages, turnCount>>
    <3>1. phase' = "idle"
      BY <2>11 DEF LoopDropped
    <3>. QED
      BY <2>2, <2>6, <2>11, <3>1 DEF Kept2
  <2>. QED
    BY <1>2, <2>1, <2>7, <2>8, <2>9, <2>10, <2>11, ConversationSteps
<1>3. ASSUME SlotInv, TurnsInv, SavedInv, [Next]_vars
      PROVE  SavedInv'
  BY <1>2, <1>3 DEF SavedInv, NoTurnIsLost, NoSessionMethods
<1>. QED
  BY <1>1, <1>3

(* Without session commands the conversation holds the prompts of exactly  *)
(* the turns that were saved, and turn_count counts them: neither an       *)
(* error, a cancel, a refusal nor a shutdown loses or repeats one          *)
(* (run_turn of chat.py, _method_chat_send of server.py).                  *)
THEOREM NoTurnsLost == Spec => []NoTurnIsLost
<1>1. SavedInv => NoTurnIsLost
  BY DEF SavedInv
<1>. QED
  BY <1>1, SlotInvInductive, TurnsInvInductive, SavedInvInductive, PTL DEF Spec

-----------------------------------------------------------------------------
(* Calls without a result.                                                 *)

(* What the running turn may still owe a result to.                        *)
Owed(h, i) ==
  \/ h[i].req = 0 \/ reply[h[i].req].code = "cancelled"
  \/ phase = "stopping" /\ h[i].req = turnOf
  \/ phase \in {"approval", "running"} /\ i = ThisRound

(* A request that was told "cancelled" stays so.                           *)
LEMMA CancelledStays ==
  ASSUME SlotInv, [Next]_vars, NEW h \in Seq(Message), KnownRequests(h),
         NEW i \in DOMAIN h, h[i].req = 0 \/ reply[h[i].req].code = "cancelled"
  PROVE  h[i].req = 0 \/ reply'[h[i].req].code = "cancelled"
<1>. SUFFICES ASSUME h[i].req # 0 PROVE reply'[h[i].req].code = "cancelled"
  OBVIOUS
<1>1. h[i].req \in Nat /\ h[i].req <= received
  BY MessageRequests DEF KnownRequests
<1>2. h[i].req \in Ids
  BY <1>1, TurnAssumption DEF SlotInv, TypeOK, Ids
<1>. QED
  BY <1>2, RepliesKept

(* The message a stream ends with starts the round.                        *)
LEMMA RoundStarts ==
  ASSUME NEW h \in Seq(Message), NEW r \in Nat, NEW k \in Nat
  PROVE  LET g == Append(h, AssistantMsg(r, k))
         IN  /\ Len(g) \in DOMAIN g /\ g[Len(g)] = AssistantMsg(r, k)
             /\ \A i \in Unanswered(g) :
                  \/ i = Len(g) /\ k # 0
                  \/ i \in Unanswered(h) /\ i \in DOMAIN h /\ g[i] = h[i]
<1>. DEFINE m == AssistantMsg(r, k)
            g == Append(h, m)
<1>1. m \in Message /\ m.n = k
  BY TurnMessages
<1>. HIDE DEF m
<1>2. /\ g \in Seq(Message) /\ DOMAIN h = 1..Len(h) /\ Len(h) \in Nat
      /\ Len(g) = Len(h) + 1 /\ DOMAIN g = 1..(Len(h) + 1) /\ g[Len(h) + 1] = m
      /\ \A i \in 1..Len(h) : g[i] = h[i]
      /\ \A i \in Unanswered(g) : i \in Unanswered(h) \/ i = Len(h) + 1
  BY <1>1, Appended
<1>. HIDE DEF g
<1>3. Len(g) \in DOMAIN g /\ g[Len(g)] = m
  BY <1>2
<1>4. k = 0 => Len(g) \notin Unanswered(g)
  BY <1>1, <1>3 DEF Unanswered, Answered
<1>5. Unanswered(h) \in SUBSET DOMAIN h
  BY DEF Unanswered
<1>. QED
  BY <1>2, <1>3, <1>4, <1>5 DEF g, m

(* h ends with the assistant message t of r, which asks for n calls, and   *)
(* the results of the calls before c.                                      *)
InRound(h, t, r, n, c) ==
  /\ t \in DOMAIN h /\ Len(h) + 1 - c = t
  /\ h[t] = AssistantMsg(r, n)
  /\ \A k \in 1..(c - 1) : h[t + k] = ToolMsg(r, k)

(* A result continues the round, and the last one completes it.            *)
LEMMA RoundGoesOn ==
  ASSUME NEW h \in Seq(Message), NEW r \in Nat, NEW n \in Nat, NEW c \in 1..n, NEW t,
         InRound(h, t, r, n, c)
  PROVE  LET g == Append(h, ToolMsg(r, c))
         IN  /\ InRound(g, t, r, n, c + 1)
             /\ \A i \in Unanswered(g) :
                  i \in Unanswered(h) /\ i \in DOMAIN h /\ g[i] = h[i]
             /\ c = n => t \notin Unanswered(g)
<1>. DEFINE m == ToolMsg(r, c)
            g == Append(h, m)
<1>1. m \in Message /\ m.role = "tool"
  BY TurnMessages
<1>. HIDE DEF m
<1>2. /\ g \in Seq(Message) /\ DOMAIN h = 1..Len(h) /\ Len(h) \in Nat
      /\ Len(g) = Len(h) + 1 /\ DOMAIN g = 1..(Len(h) + 1) /\ g[Len(h) + 1] = m
      /\ \A i \in 1..Len(h) : g[i] = h[i]
      /\ \A i \in Unanswered(g) : i \in Unanswered(h) \/ i = Len(h) + 1
  BY <1>1, Appended
<1>. HIDE DEF g
<1>0. /\ t \in DOMAIN h /\ Len(h) + 1 - c = t /\ h[t] = AssistantMsg(r, n)
      /\ \A k \in 1..(c - 1) : h[t + k] = ToolMsg(r, k)
  BY DEF InRound
<1>3. t \in DOMAIN g /\ Len(g) - c = t /\ g[t] = AssistantMsg(r, n)
  BY <1>0, <1>2
<1>4. ASSUME NEW k \in 1..c
      PROVE  t + k \in DOMAIN g /\ g[t + k] = ToolMsg(r, k)
  <2>1. CASE k = c
    <3>1. t + k = Len(h) + 1
      BY <1>0, <1>2, <2>1
    <3>. QED
      BY <1>2, <2>1, <3>1 DEF m
  <2>2. CASE k # c
    <3>1. k \in 1..(c - 1) /\ t + k \in 1..Len(h) /\ t + k \in 1..(Len(h) + 1)
      BY <1>0, <1>2, <2>2
    <3>. QED
      BY <1>0, <1>2, <3>1
  <2>. QED
    BY <2>1, <2>2
<1>5. \A i \in Unanswered(g) : i \in Unanswered(h) /\ i \in DOMAIN h /\ g[i] = h[i]
  <2>1. Len(h) + 1 \notin Unanswered(g)
    BY <1>1, <1>2 DEF Unanswered
  <2>2. Unanswered(h) \in SUBSET DOMAIN h
    BY DEF Unanswered
  <2>. QED
    BY <1>2, <2>1, <2>2
<1>6. c = n => t \notin Unanswered(g)
  BY <1>3, <1>4 DEF Unanswered, Answered, AssistantMsg
<1>7. InRound(g, t, r, n, c + 1)
  <2>1. (c + 1) - 1 = c /\ Len(g) + 1 - (c + 1) = t
    BY <1>0, <1>2
  <2>. QED
    BY <1>3, <1>4, <2>1 DEF InRound
<1>. QED
  BY <1>5, <1>6, <1>7 DEF g, m

(* The calls of a running turn: its history ends with the round under way, *)
(* and what else misses a result is owed to a stop.                        *)
LEMMA RoundSteps ==
  ASSUME SlotInv, OrphansInv, TurnGoesOn
  PROVE  /\ CallsUnderWay'
         /\ \A i \in Unanswered(history') :
              \/ i \in DOMAIN history /\ history'[i] = history[i]
                   /\ (history[i].req = 0 \/ reply[history[i].req].code = "cancelled")
              \/ phase' = "stopping" /\ history'[i].req = turnOf'
              \/ phase' \in {"approval", "running"} /\ i = ThisRound'
<1>. DEFINE Goal == /\ CallsUnderWay'
                    /\ \A i \in Unanswered(history') :
                         \/ i \in DOMAIN history /\ history'[i] = history[i]
                              /\ (history[i].req = 0 \/ reply[history[i].req].code = "cancelled")
                         \/ phase' = "stopping" /\ history'[i].req = turnOf'
                         \/ phase' \in {"approval", "running"} /\ i = ThisRound'
<1>0. /\ phase # "idle" /\ turnOf' = turnOf /\ turnOf \in Nat
      /\ history \in Seq(Message) /\ callNo \in Nat /\ calls \in Seq(Calls)
  <2>1. turnOf \in Ids /\ phase # "idle" /\ turnOf' = turnOf
    BY HistorySteps
  <2>. QED
    BY <2>1, TurnAssumption DEF SlotInv, TypeOK, TurnTypeOK, Ids
<1>1. /\ \A i \in Unanswered(history) : Owed(history, i)
      /\ CallsUnderWay
      /\ Unanswered(history) \in SUBSET DOMAIN history
  BY <1>0 DEF OrphansInv, Owed, Unanswered
<1>2. CASE StreamStopped
  <2>1. phase = "streaming" /\ phase' = "stopping" /\ history' = history
    BY <1>2 DEF StreamStopped
  <2>. QED
    BY <1>1, <2>1 DEF CallsUnderWay, Owed
<1>3. CASE StreamAnswers
  <2>1. /\ phase = "streaming" /\ phase' = "finishing"
        /\ history' = Append(history, AssistantMsg(turnOf, 0))
    BY <1>3 DEF StreamAnswers
  <2>2. \A i \in Unanswered(history') :
          i \in Unanswered(history) /\ i \in DOMAIN history /\ history'[i] = history[i]
    BY <1>0, <2>1, RoundStarts
  <2>. QED
    BY <1>1, <2>1, <2>2 DEF CallsUnderWay, Owed
<1>4. ASSUME NEW cs \in ResponseCalls, StreamCallsTools(cs)
      PROVE  Goal
  <2>1. Len(cs) \in Nat
    BY TurnAssumption, LenProperties DEF ResponseCalls
  <2>2. /\ phase = "streaming" /\ phase' \in {"stopping", "running", "approval"}
        /\ history' = Append(history, AssistantMsg(turnOf, Len(cs)))
        /\ calls' = cs /\ callNo' = 1
    BY <1>4 DEF StreamCallsTools, CallHead
  <2>3. /\ Len(history') \in DOMAIN history'
        /\ history'[Len(history')] = AssistantMsg(turnOf, Len(cs))
        /\ \A i \in Unanswered(history') :
             \/ i = Len(history')
             \/ i \in Unanswered(history) /\ i \in DOMAIN history /\ history'[i] = history[i]
    BY <1>0, <2>1, <2>2, RoundStarts
  <2>4. ThisRound' = Len(history')
    <3>1. history' \in Seq(Message)
      BY <1>0, <2>1, <2>2, TurnMessages, AppendProperties
    <3>2. Len(history') \in Nat
      BY <3>1, LenProperties
    <3>. QED
      BY <2>2, <3>2 DEF ThisRound
  <2>5. CallsUnderWay'
    BY <1>0, <2>2, <2>3, <2>4 DEF CallsUnderWay
  <2>6. history'[Len(history')].req = turnOf'
    BY <1>0, <2>3 DEF AssistantMsg
  <2>. QED
    BY <1>1, <2>2, <2>3, <2>4, <2>5, <2>6 DEF Owed
<1>5. CASE ToolReturns \/ Denied
  <2>1. phase \in {"approval", "running"} /\ \E fut : AfterCall(fut)
    BY <1>5 DEF ToolReturns, Denied
  <2>2. callNo \in 1..Len(calls) /\ Len(calls) \in Nat
    BY <1>0, <2>1, LenProperties DEF SlotInv, TurnShape
  <2>3. InRound(history, ThisRound, turnOf, Len(calls), callNo)
    BY <1>1, <2>1 DEF CallsUnderWay, ThisRound, InRound
  <2>4. /\ history' = Append(history, ToolMsg(turnOf, callNo))
        /\ \/ /\ callNo < Len(calls) /\ callNo' = callNo + 1 /\ calls' = calls
              /\ phase' \in {"stopping", "running", "approval"}
           \/ /\ callNo = Len(calls)
              /\ phase' \notin {"running", "approval"}
    BY <2>1 DEF AfterCall, CallHead, LoopHead
  <2>5. /\ InRound(history', ThisRound, turnOf, Len(calls), callNo + 1)
        /\ \A i \in Unanswered(history') :
             i \in Unanswered(history) /\ i \in DOMAIN history /\ history'[i] = history[i]
        /\ callNo = Len(calls) => ThisRound \notin Unanswered(history')
    BY <1>0, <2>2, <2>3, <2>4, RoundGoesOn
  <2>6. history'[ThisRound].req = turnOf'
    BY <1>0, <2>5 DEF InRound, AssistantMsg
  <2>7. ASSUME callNo < Len(calls)
        PROVE  Goal
    <3>1. callNo' = callNo + 1 /\ calls' = calls /\ phase' \in {"stopping", "running", "approval"}
      BY <2>2, <2>4, <2>7
    <3>2. ThisRound' = ThisRound
      BY <2>5, <3>1 DEF ThisRound, InRound
    <3>3. CallsUnderWay'
      BY <1>0, <2>5, <3>1, <3>2 DEF CallsUnderWay, InRound
    <3>. QED
      BY <1>1, <2>1, <2>5, <2>6, <3>1, <3>2, <3>3 DEF Owed
  <2>8. ASSUME ~(callNo < Len(calls))
        PROVE  Goal
    <3>1. callNo = Len(calls) /\ phase' \notin {"running", "approval"}
      BY <2>2, <2>4, <2>8
    <3>. QED
      BY <1>1, <2>1, <2>5, <3>1 DEF Owed, CallsUnderWay
  <2>. QED
    BY <2>7, <2>8
<1>6. CASE Approved
  <2>1. /\ phase = "approval" /\ phase' = "running"
        /\ UNCHANGED <<turnOf, history, calls, callNo>>
    BY <1>6 DEF Approved
  <2>2. ThisRound' = ThisRound
    BY <2>1 DEF ThisRound
  <2>. QED
    BY <1>1, <2>1, <2>2 DEF CallsUnderWay, Owed
<1>. QED
  BY <1>2, <1>3, <1>4, <1>5, <1>6 DEF TurnGoesOn, TurnStep

(* What is known of calls without a result is inductive.                   *)
LEMMA OrphansInvInductive ==
  /\ Init => OrphansInv
  /\ SlotInv /\ CancelInv /\ TurnsInv /\ OrphansInv /\ [Next]_vars => OrphansInv'
<1>1. Init => OrphansInv
  BY DEF Init, TurnInit, OrphansInv, OrphanCallsAreCancelled, CallsUnderWay, Unanswered
<1>2. ASSUME SlotInv, CancelInv, TurnsInv, OrphansInv, [Next]_vars
      PROVE  OrphansInv'
  <2>1. messages \in Seq(Message) /\ history \in Seq(Message)
    BY <1>2 DEF SlotInv, TypeOK, TurnTypeOK
  <2>2. /\ Unanswered(messages) \in SUBSET DOMAIN messages
        /\ Unanswered(history) \in SUBSET DOMAIN history
    BY DEF Unanswered
  <2>3. \A i \in Unanswered(messages) :
          messages[i].req = 0 \/ reply'[messages[i].req].code = "cancelled"
    BY <1>2, <2>1, <2>2, CancelledStays DEF OrphansInv, OrphanCallsAreCancelled, TurnsInv
  <2>4. phase # "idle" => \A i \in DOMAIN history :
          history[i].req = 0 \/ reply[history[i].req].code = "cancelled" =>
            history[i].req = 0 \/ reply'[history[i].req].code = "cancelled"
    BY <1>2, <2>1, CancelledStays DEF TurnsInv
  <2>5. phase # "idle" => \A i \in Unanswered(history) : Owed(history, i)
    BY <1>2 DEF OrphansInv, Owed
  <2>6. ASSUME UNCHANGED loopVars
        PROVE  /\ CallsUnderWay'
               /\ phase' # "idle" => \A i \in Unanswered(history') : Owed(history, i)'
    <3>1. UNCHANGED <<phase, turnOf, history, calls, callNo>> /\ ThisRound' = ThisRound
      BY <2>6 DEF loopVars, ThisRound
    <3>2. CallsUnderWay'
      BY <1>2, <3>1 DEF OrphansInv, CallsUnderWay
    <3>. QED
      BY <2>2, <2>4, <2>5, <3>1, <3>2 DEF Owed
  <2>7. CASE UNCHANGED <<messages, turnCount, loopVars>>
    BY <2>3, <2>6, <2>7 DEF OrphansInv, OrphanCallsAreCancelled, Owed
  <2>8. CASE SessionStep
    <3>1. UNCHANGED loopVars
      BY <2>8 DEF SessionStep
    <3>2. OrphanCallsAreCancelled'
      BY <1>2, <2>3, <2>8, SessionKeepsShape DEF OrphanCallsAreCancelled
    <3>. QED
      BY <2>6, <3>1, <3>2 DEF OrphansInv, Owed
  <2>9. CASE ChatSend
    <3>1. /\ messages' = messages /\ phase' = "streaming"
          /\ history' = Append(messages, UserMsg(New))
      BY <2>9 DEF ChatSend, Begin
    <3>2. New \in Nat
      BY <1>2, TurnAssumption DEF SlotInv, TypeOK, New
    <3>3. UserMsg(New) \in Message /\ UserMsg(New).role = "user"
      BY <3>2 DEF UserMsg, Message, Roles
    <3>4. /\ \A i \in Unanswered(history') : i \in Unanswered(messages) \/ i = Len(messages) + 1
          /\ \A i \in DOMAIN messages : history'[i] = messages[i]
          /\ history'[Len(messages) + 1] = UserMsg(New)
      BY <2>1, <3>1, <3>3, Appended
    <3>5. Len(messages) + 1 \notin Unanswered(history')
      BY <3>3, <3>4 DEF Unanswered
    <3>6. \A i \in Unanswered(history') :
            history'[i].req = 0 \/ reply'[history'[i].req].code = "cancelled"
      BY <2>2, <2>3, <3>4, <3>5
    <3>. QED
      BY <2>3, <3>1, <3>6 DEF OrphansInv, OrphanCallsAreCancelled, CallsUnderWay
  <2>10. CASE TurnGoesOn
    <3>1. phase # "idle" /\ UNCHANGED <<messages, reply>>
      BY <1>2, <2>10, HistorySteps
    <3>2. /\ CallsUnderWay'
          /\ \A i \in Unanswered(history') :
               \/ i \in DOMAIN history /\ history'[i] = history[i]
                    /\ (history[i].req = 0 \/ reply[history[i].req].code = "cancelled")
               \/ phase' = "stopping" /\ history'[i].req = turnOf'
               \/ phase' \in {"approval", "running"} /\ i = ThisRound'
      BY <1>2, <2>10, RoundSteps
    <3>. QED
      BY <2>3, <3>1, <3>2 DEF OrphansInv, OrphanCallsAreCancelled
  <2>11. CASE ChatSendReturns
    <3>1. /\ phase \in {"finishing", "stopping", "exhausted"} /\ messages' = history
          /\ phase' = "idle"
      BY <2>11 DEF ChatSendReturns, TurnReturns, LoopDropped
    <3>2. phase = "stopping" => reply'[turnOf].code = "cancelled"
      <4>1. ASSUME phase = "stopping"
            PROVE  Reported(LoopStatus) = "cancelled"
        BY <1>2, <4>1 DEF CancelInv, StoppedBySignal, Reported, LoopStatus
      <4>2. reply' = [reply EXCEPT ![turnOf] = Reply(Reported(LoopStatus), <<>>)]
        BY <2>11 DEF ChatSendReturns, Answer
      <4>3. turnOf \in Ids /\ reply \in [Ids -> Replies]
        BY <1>2, <3>1 DEF SlotInv, TypeOK, TurnShape
      <4>. QED
        BY <4>1, <4>2, <4>3 DEF Reply
    <3>3. OrphanCallsAreCancelled'
      BY <2>2, <2>4, <2>5, <3>1, <3>2 DEF OrphanCallsAreCancelled, Owed
    <3>. QED
      BY <3>1, <3>3 DEF OrphansInv, CallsUnderWay
  <2>12. CASE LoopDropped /\ UNCHANGED <<messages, turnCount>>
    <3>1. phase' = "idle" /\ messages' = messages
      BY <2>12 DEF LoopDropped
    <3>. QED
      BY <2>3, <3>1 DEF OrphansInv, OrphanCallsAreCancelled, CallsUnderWay
  <2>. QED
    BY <1>2, <2>7, <2>8, <2>9, <2>10, <2>11, <2>12, ConversationSteps
<1>. QED
  BY <1>1, <1>2

(* What pair_tool_results would reject is saved only by turns that were    *)
(* answered "cancelled": every other turn leaves a result for each of its  *)
(* tool calls, whatever undo and compaction cut away afterwards            *)
(* (_execute_tool_calls of agent_loop.py).                                 *)
THEOREM OrphansCancelled == Spec => []OrphanCallsAreCancelled
<1>1. OrphansInv => OrphanCallsAreCancelled
  BY DEF OrphansInv
<1>. QED
  BY <1>1, SlotInvInductive, CancelInvInductive, TurnsInvInductive, OrphansInvInductive,
     PTL DEF Spec

-----------------------------------------------------------------------------
(* The contract: under the mapping of module Gateway every step of the     *)
(* server is a step of ChatContract or leaves its variables alone.         *)


Told == [r \in Ids |-> VerdictOf(r)]

(* A task that writes has something to write.                              *)
WritersAnswered ==
  \A r \in Ids : status[r] \in {"writing", "written"} => reply[r].code # "none"

ContractInv == SlotInv /\ CancelInv /\ WritersAnswered

ContractStep ==
  Chat!ContractNext \/ UNCHANGED <<busy, Told, AcknowledgedCancels>>

-----------------------------------------------------------------------------
(* What the steps do to what the client was told.                          *)

(* A request whose method and answer stand, and that is not lost meanwhile *)
(* without an answer, was told the same before and after.                  *)
LEMMA ToldStands ==
  ASSUME NEW r \in Ids, kind'[r] = kind[r], reply'[r] = reply[r],
         kind[r] = "chat.send" /\ reply[r].code = "none"
           => (status'[r] = "lost" <=> status[r] = "lost")
  PROVE  VerdictOf(r)' = VerdictOf(r)
BY DEF VerdictOf

(* One request learns its verdict.                                         *)
LEMMA OneIsTold ==
  ASSUME NEW r \in Ids, NEW v, VerdictOf(r)' = v,
         \A q \in Ids : q # r => VerdictOf(q)' = VerdictOf(q)
  PROVE  Told' = [Told EXCEPT ![r] = v]
BY DEF Told

(* Nobody learns a verdict.                                                *)
LEMMA NoneIsTold ==
  ASSUME \A q \in Ids : VerdictOf(q)' = VerdictOf(q)
  PROVE  Told' = Told
BY DEF Told

(* An answer that acknowledges no cancel.                                  *)
LEMMA CancelsStand ==
  ASSUME SlotInv, NEW r \in Ids, reply[r] = NoReply, NEW x, x.code # "cancelling",
         reply' = [reply EXCEPT ![r] = x]
  PROVE  AcknowledgedCancels' = AcknowledgedCancels
<1>1. reply[r].code # "cancelling"
  BY DEF NoReply
<1>2. reply \in [Ids -> Replies]
  BY DEF SlotInv, TypeOK
<1>3. ASSUME NEW q \in Ids, NEW a
      PROVE  reply'[q] = Reply("cancelling", a) <=> reply[q] = Reply("cancelling", a)
  BY <1>1, <1>2 DEF Reply
<1>. QED
  BY <1>3 DEF AcknowledgedCancels

-----------------------------------------------------------------------------

(* Frames are written for answers only.                                    *)
LEMMA WritersAnsweredInductive ==
  /\ Init => WritersAnswered
  /\ SlotInv /\ WritersAnswered /\ [Next]_vars => WritersAnswered'
<1>1. Init => WritersAnswered
  BY DEF Init, WritersAnswered
<1>2. ASSUME SlotInv, WritersAnswered, NEW r \in Ids, NEW x, x.code # "none", Answer(r, x)
      PROVE  WritersAnswered'
  BY <1>2 DEF Answer, WritersAnswered, SlotInv, TypeOK
<1>3. ASSUME NEW code, code # "none", NEW about
      PROVE  Reply(code, about).code # "none"
  BY <1>3 DEF Reply
<1>4. ASSUME SlotInv, WritersAnswered, Request
      PROVE  WritersAnswered'
  <2>0. ASSUME NEW m, Receive(m) PROVE New \in Ids
    BY <1>4, <2>0, ReceiveType DEF SlotInv
  <2>1. CASE ChatSend \/ ToolsRun
    <3>1. status' = [status EXCEPT ![New] = "running"] /\ UNCHANGED reply /\ New \in Ids
      BY <2>0, <2>1 DEF ChatSend, ToolsRun
    <3>. QED
      BY <1>4, <3>1 DEF WritersAnswered, SlotInv, TypeOK
  <2>2. CASE ChatSendBusy \/ GatewayShutdown \/ Malformed
    BY <1>2, <1>3, <1>4, <2>0, <2>2 DEF ChatSendBusy, GatewayShutdown, Malformed
  <2>3. CASE \E code \in Refused : ChatSendRefused(code)
    BY <1>2, <1>3, <1>4, <2>0, <2>3 DEF ChatSendRefused, Refused
  <2>4. CASE \E t \in Targets : ChatCancel(t)
    BY <1>2, <1>3, <1>4, <2>0, <2>4 DEF ChatCancel
  <2>5. CASE \E a \in asked, d \in Decisions : ChatApprove(a.id, d)
    BY <1>2, <1>3, <1>4, <2>0, <2>5 DEF ChatApprove, Decisions
  <2>6. CASE SessionNew \/ SessionResume \/ CommandsDispatch \/ ReadOnly
    BY <1>2, <1>3, <1>4, <2>0, <2>6
       DEF SessionNew, SessionResume, CommandsDispatch, ReadOnly, AnswerOk
  <2>. QED
    BY <1>4, <2>1, <2>2, <2>3, <2>4, <2>5, <2>6 DEF Request
<1>5. ASSUME SlotInv, WritersAnswered, Work
      PROVE  WritersAnswered'
  <2>0. phase # "idle" => turnOf \in Ids
    BY <1>5 DEF SlotInv, TurnShape
  <2>1. CASE ChatSendReturns
    <3>1. Reported(LoopStatus) # "none" /\ turnOf \in Ids
      BY <2>0, <2>1 DEF ChatSendReturns, TurnReturns, Reported, LoopStatus
    <3>. QED
      BY <1>2, <1>3, <1>5, <2>1, <3>1 DEF ChatSendReturns
  <2>2. CASE ChatSendRaises
    BY <1>2, <1>3, <1>5, <2>0, <2>2
       DEF ChatSendRaises, ProviderRaises, AllowAlwaysRaises, Raised
  <2>3. CASE \E r \in Ids : ToolsRunReturns(r)
    BY <1>2, <1>3, <1>5, <2>3 DEF ToolsRunReturns
  <2>4. CASE TurnGoesOn
    BY <1>5, <2>4 DEF TurnGoesOn, serverVars, WritersAnswered
  <2>5. CASE WriteFrame \/ TaskEnds
    <3>1. Head(outbox) \in Ids
      BY <1>5, <2>5, HeadTailProperties DEF WriteFrame, TaskEnds, SlotInv, TypeOK
    <3>. QED
      BY <1>5, <2>5, <3>1 DEF WriteFrame, TaskEnds, WritersAnswered, SlotInv, TypeOK
  <2>. QED
    BY <1>5, <2>1, <2>2, <2>3, <2>4, <2>5 DEF Work
<1>6. ASSUME SlotInv, WritersAnswered, ShutdownCancels
      PROVE  WritersAnswered'
  <2>1. UNCHANGED reply /\ \A r \in Ids : status'[r] \notin {"writing", "written"}
    BY <1>6 DEF ShutdownCancels, SlotInv, TypeOK, InFlight
  <2>. QED
    BY <2>1 DEF WritersAnswered
<1>7. ASSUME WritersAnswered, StdinEnds \/ ServeReturns \/ UNCHANGED vars
      PROVE  WritersAnswered'
  BY <1>7 DEF StdinEnds, ServeReturns, vars, serverVars, WritersAnswered
<1>. QED
  BY <1>1, <1>4, <1>5, <1>6, <1>7 DEF Next

-----------------------------------------------------------------------------
(* The steps of the contract.                                              *)

(* A received line; n is its id.                                           *)
LEMMA ContractRequest ==
  ASSUME ContractInv, Request, NEW n, n = New
  PROVE  ContractStep
<1>0. TypeInv /\ Slots /\ SlotInv
  BY DEF ContractInv, SlotInv, TypeInv, Slots
<1>1. ASSUME NEW m, Receive(m)
      PROVE  /\ n \in Ids /\ kind' = [kind EXCEPT ![n] = m] /\ n # 0
             /\ status[n] = "unsent" /\ reply[n] = NoReply /\ busy # n
             /\ kind[n] = "none" /\ kind'[n] = m
             /\ \A q \in Ids : q # n => kind'[q] = kind[q]
  <2>1. /\ n \in Ids /\ kind' = [kind EXCEPT ![n] = m]
        /\ status[n] = "unsent" /\ reply[n] = NoReply /\ busy # n
    BY <1>0, <1>1, NewIsFresh
  <2>2. n \in Nat /\ n # 0
    BY <2>1, TurnAssumption DEF Ids
  <2>3. kind[n] = "none" /\ kind \in [Ids -> AllMethods \cup {"none"}]
    BY <1>0, <2>1 DEF Slots, RequestsInOrder, TypeInv, TypeOK
  <2>. QED
    BY <2>1, <2>2, <2>3
<1>2. reply \in [Ids -> Replies] /\ status \in [Ids -> Statuses]
  BY <1>0 DEF SlotInv, TypeOK
<1>3. ASSUME NEW m, Receive(m), NEW x, Answer(New, x)
      PROVE  /\ reply' = [reply EXCEPT ![n] = x] /\ reply'[n] = x
             /\ VerdictOf(n) = "none"
             /\ \A q \in Ids : q # n => VerdictOf(q)' = VerdictOf(q)
  <2>1. /\ reply' = [reply EXCEPT ![n] = x] /\ status' = [status EXCEPT ![n] = "writing"]
    BY <1>3 DEF Answer
  <2>2. ASSUME NEW q \in Ids, q # n PROVE VerdictOf(q)' = VerdictOf(q)
    BY <1>1, <1>2, <1>3, <2>1, <2>2, ToldStands
  <2>3. VerdictOf(n) = "none"
    BY <1>1, <1>3 DEF VerdictOf
  <2>. QED
    BY <1>1, <1>2, <1>3, <2>1, <2>2, <2>3
<1>4. ASSUME NEW m, m # "chat.send", Receive(m), NEW x, Answer(New, x), UNCHANGED busy,
             x.code # "cancelling"
      PROVE  ContractStep
  <2>1. VerdictOf(n)' = VerdictOf(n)
    BY <1>1, <1>3, <1>4 DEF VerdictOf
  <2>2. Told' = Told
    BY <1>3, <1>4, <2>1, NoneIsTold
  <2>3. AcknowledgedCancels' = AcknowledgedCancels
    BY <1>0, <1>1, <1>3, <1>4, CancelsStand
  <2>. QED
    BY <1>4, <2>2, <2>3 DEF ContractStep
<1>5. ASSUME NEW code, code # "cancelling", NEW about
      PROVE  Reply(code, about).code # "cancelling"
  BY <1>5 DEF Reply
<1>6. CASE ChatSend
  <2>1. Receive("chat.send") /\ busy = 0 /\ busy' = n /\ reply' = reply
        /\ status' = [status EXCEPT ![n] = "running"]
    BY <1>6 DEF ChatSend
  <2>2. /\ n \in Ids /\ kind[n] = "none" /\ kind'[n] = "chat.send" /\ reply[n] = NoReply
        /\ \A q \in Ids : q # n => kind'[q] = kind[q]
    BY <1>1, <2>1
  <2>3. status'[n] = "running" /\ \A q \in Ids : q # n => status'[q] = status[q]
    BY <1>2, <2>1, <2>2
  <2>4. VerdictOf(n) = "none" /\ VerdictOf(n)' = "none"
    <3>1. NoReply.code = "none"
      BY DEF NoReply
    <3>. QED
      BY <2>1, <2>2, <2>3, <3>1 DEF VerdictOf
  <2>5. ASSUME NEW q \in Ids PROVE VerdictOf(q)' = VerdictOf(q)
    BY <2>1, <2>2, <2>3, <2>4, ToldStands
  <2>6. Told' = Told
    BY <2>5, NoneIsTold
  <2>7. AcknowledgedCancels' = AcknowledgedCancels
    BY <2>1 DEF AcknowledgedCancels
  <2>8. Told[n] = "none"
    BY <2>2, <2>4 DEF Told
  <2>9. Chat!Claim(n)
    BY <2>1, <2>6, <2>7, <2>8 DEF Chat!Claim, Told
  <2>. QED
    BY <2>2, <2>9 DEF ContractStep, Chat!ContractNext
<1>7. ASSUME NEW code \in Refused, ChatSendRefused(code)
      PROVE  ContractStep
  <2>1. /\ Receive("chat.send") /\ busy = 0 /\ busy' = n
        /\ Answer(New, Reply(code, <<>>))
    BY <1>7 DEF ChatSendRefused
  <2>2. Reply(code, <<>>).code = code /\ code \notin {"none", "busy", "cancelled", "cancelling"}
    BY DEF Reply, Refused
  <2>3. VerdictOf(n)' = "over"
    BY <1>1, <1>3, <2>1, <2>2 DEF VerdictOf
  <2>4. Told' = [Told EXCEPT ![n] = "over"] /\ Told[n] = "none"
    <3>1. n \in Ids
      BY <1>1, <2>1
    <3>2. VerdictOf(n) = "none" /\ \A q \in Ids : q # n => VerdictOf(q)' = VerdictOf(q)
      BY <1>3, <2>1
    <3>3. Told[n] = "none"
      BY <3>1, <3>2 DEF Told
    <3>. QED
      BY <2>3, <3>1, <3>2, <3>3, OneIsTold
  <2>5. AcknowledgedCancels' = AcknowledgedCancels
    BY <1>0, <1>1, <1>3, <2>1, <2>2, CancelsStand
  <2>6. Chat!Claim(n)
    BY <2>1, <2>4, <2>5 DEF Chat!Claim, Chat!Tell, Told
  <2>. QED
    BY <1>1, <2>1, <2>6 DEF ContractStep, Chat!ContractNext
<1>8. CASE ChatSendBusy
  <2>1. /\ Receive("chat.send") /\ busy # 0 /\ UNCHANGED busy
        /\ Answer(New, Reply("busy", <<busy>>))
    BY <1>8 DEF ChatSendBusy
  <2>2. Reply("busy", <<busy>>).code = "busy"
    BY DEF Reply
  <2>3. VerdictOf(n)' = "busy"
    BY <1>1, <1>3, <2>1, <2>2 DEF VerdictOf
  <2>4. Told' = [Told EXCEPT ![n] = "busy"] /\ Told[n] = "none"
    <3>1. n \in Ids
      BY <1>1, <2>1
    <3>2. VerdictOf(n) = "none" /\ \A q \in Ids : q # n => VerdictOf(q)' = VerdictOf(q)
      BY <1>3, <2>1
    <3>3. Told[n] = "none"
      BY <3>1, <3>2 DEF Told
    <3>. QED
      BY <2>3, <3>1, <3>2, <3>3, OneIsTold
  <2>5. AcknowledgedCancels' = AcknowledgedCancels
    BY <1>0, <1>1, <1>3, <2>1, <2>2, CancelsStand
  <2>6. n \in Ids /\ busy # n
    BY <1>1, <2>1
  <2>7. Chat!Refuse(n)
    BY <2>1, <2>4, <2>5, <2>6 DEF Chat!Refuse, Chat!Tell, Told
  <2>. QED
    BY <2>6, <2>7 DEF ContractStep, Chat!ContractNext
<1>9. ASSUME NEW t \in Targets, ChatCancel(t)
      PROVE  ContractStep
  <2>1. CASE ~CancelHits(t)
    BY <1>4, <1>5, <1>9, <2>1 DEF ChatCancel
  <2>2. CASE CancelHits(t)
    <3>1. /\ Receive("chat.cancel") /\ busy # 0 /\ UNCHANGED busy
          /\ Answer(New, Reply("cancelling", <<busy>>))
      <4>1. busy # 0 /\ <<busy>> = IF t = <<>> THEN <<busy>> ELSE t
        BY <2>2 DEF CancelHits
      <4>. QED
        BY <1>9, <2>2, <4>1 DEF ChatCancel
    <3>2. VerdictOf(n)' = VerdictOf(n)
      BY <1>1, <1>3, <3>1 DEF VerdictOf
    <3>3. Told' = Told
      BY <1>3, <3>1, <3>2, NoneIsTold
    <3>4. busy \in Ids
      BY <1>0, <3>1 DEF SlotInv, TypeOK
    <3>5. /\ n \in Ids /\ reply[n] = NoReply /\ reply'[n] = Reply("cancelling", <<busy>>)
          /\ \A q \in Ids : q # n => reply'[q] = reply[q]
      BY <1>1, <1>2, <1>3, <3>1
    <3>6. AcknowledgedCancels' = AcknowledgedCancels \cup {busy}
      <4>1. ASSUME NEW r \in Ids
            PROVE  reply[n] # Reply("cancelling", <<r>>)
        BY <3>5 DEF NoReply, Reply
      <4>2. ASSUME NEW r \in Ids
            PROVE  reply'[n] = Reply("cancelling", <<r>>) <=> r = busy
        <5>1. ASSUME reply'[n] = Reply("cancelling", <<r>>) PROVE r = busy
          <6>1. Reply("cancelling", <<r>>).about = Reply("cancelling", <<busy>>).about
            BY <3>5, <5>1
          <6>2. <<r>> = <<busy>>
            BY <6>1, Zenon DEF Reply
          <6>. QED
            BY <6>2
        <5>. QED
          BY <3>5, <5>1
      <4>3. ASSUME NEW r \in Ids
            PROVE  (\E q \in Ids : reply'[q] = Reply("cancelling", <<r>>))
                   <=> (\E q \in Ids : reply[q] = Reply("cancelling", <<r>>)) \/ r = busy
        <5>1. reply[n] # Reply("cancelling", <<r>>)
              /\ (reply'[n] = Reply("cancelling", <<r>>) <=> r = busy)
          BY <4>1, <4>2
        <5>. QED
          BY <3>5, <5>1
      <4>. QED
        BY <3>4, <4>3 DEF AcknowledgedCancels
    <3>7. Chat!AcknowledgeCancel
      BY <3>1, <3>3, <3>6 DEF Chat!AcknowledgeCancel, Told
    <3>. QED
      BY <3>7 DEF ContractStep, Chat!ContractNext
  <2>. QED
    BY <2>1, <2>2
<1>10. CASE \E a \in asked, d \in Decisions : ChatApprove(a.id, d)
  BY <1>4, <1>5, <1>10 DEF ChatApprove, Decisions
<1>11. CASE SessionNew \/ SessionResume \/ CommandsDispatch \/ ReadOnly
  BY <1>4, <1>5, <1>11 DEF SessionNew, SessionResume, CommandsDispatch, ReadOnly, AnswerOk
<1>12. CASE GatewayShutdown \/ Malformed
  BY <1>4, <1>5, <1>12 DEF GatewayShutdown, Malformed
<1>13. CASE ToolsRun
  <2>1. /\ Receive("tools.run") /\ UNCHANGED <<busy, reply>>
        /\ status' = [status EXCEPT ![n] = "running"]
    BY <1>13 DEF ToolsRun
  <2>2. /\ n \in Ids /\ kind[n] = "none" /\ kind'[n] = "tools.run"
        /\ \A q \in Ids : q # n => kind'[q] = kind[q]
    BY <1>1, <2>1
  <2>3. \A q \in Ids : q # n => status'[q] = status[q]
    BY <1>2, <2>1
  <2>4. VerdictOf(n)' = VerdictOf(n)
    BY <2>2 DEF VerdictOf
  <2>5. ASSUME NEW q \in Ids PROVE VerdictOf(q)' = VerdictOf(q)
    BY <2>1, <2>2, <2>3, <2>4, ToldStands
  <2>6. Told' = Told
    BY <2>5, NoneIsTold
  <2>7. AcknowledgedCancels' = AcknowledgedCancels
    BY <2>1 DEF AcknowledgedCancels
  <2>. QED
    BY <2>1, <2>6, <2>7 DEF ContractStep
<1>. QED
  BY <1>6, <1>7, <1>8, <1>9, <1>10, <1>11, <1>12, <1>13 DEF Request

(* The turn of request r ends with an answer.                              *)
LEMMA ContractAnswer ==
  ASSUME ContractInv, NEW r, r = turnOf, phase # "idle", NEW code,
         Answer(r, Reply(code, <<>>)), UNCHANGED <<busy, kind>>,
         code \notin {"none", "busy", "cancelling"},
         code = "cancelled" => cancelFlag
  PROVE  ContractStep
<1>1. /\ r \in Ids /\ busy = r /\ r # 0 /\ kind[r] = "chat.send" /\ status[r] = "running"
      /\ reply[r] = NoReply /\ SlotInv
  BY TurnAssumption
     DEF ContractInv, SlotInv, TurnShape, SingleFlight, RunningUnanswered, Ids
<1>2. /\ reply' = [reply EXCEPT ![r] = Reply(code, <<>>)]
      /\ status' = [status EXCEPT ![r] = "writing"]
      /\ reply \in [Ids -> Replies] /\ status \in [Ids -> Statuses]
  BY <1>1 DEF Answer, SlotInv, TypeOK
<1>3. Reply(code, <<>>).code = code
  BY DEF Reply
<1>. DEFINE v == IF code = "cancelled" THEN "cancelled" ELSE "over"
<1>4. VerdictOf(r)' = v
  BY <1>1, <1>2, <1>3 DEF VerdictOf
<1>5. VerdictOf(r) = "none"
  <2>1. NoReply.code = "none"
    BY DEF NoReply
  <2>. QED
    BY <1>1, <2>1 DEF VerdictOf
<1>6. ASSUME NEW q \in Ids, q # r PROVE VerdictOf(q)' = VerdictOf(q)
  BY <1>2, <1>6, ToldStands
<1>7. Told' = [Told EXCEPT ![r] = v]
  BY <1>1, <1>4, <1>6, OneIsTold
<1>8. Told[r] = "none"
  BY <1>1, <1>5 DEF Told
<1>9. AcknowledgedCancels' = AcknowledgedCancels
  BY <1>1, <1>2, <1>3, CancelsStand
<1>10. v = "cancelled" => r \in AcknowledgedCancels
  BY <1>1 DEF ContractInv, CancelInv, CancelReachesItsTarget, AcknowledgedCancels
<1>11. v \in {"over", "cancelled"} /\ v \in Chat!Verdicts
  BY DEF Chat!Verdicts
<1>. HIDE DEF v
<1>12. Chat!GiveVerdict(v)
  BY <1>1, <1>7, <1>8, <1>9, <1>10, <1>11 DEF Chat!GiveVerdict, Chat!Tell, Told
<1>. QED
  BY <1>11, <1>12 DEF ContractStep, Chat!ContractNext

(* A task that leaves reply and slot alone is not seen by the contract.    *)
LEMMA ContractUnseen ==
  ASSUME UNCHANGED <<busy, kind, reply>>,
         \A r \in Ids : kind[r] = "chat.send" /\ reply[r].code = "none"
                         => (status'[r] = "lost" <=> status[r] = "lost")
  PROVE  ContractStep
<1>1. ASSUME NEW q \in Ids PROVE VerdictOf(q)' = VerdictOf(q)
  BY ToldStands
<1>2. Told' = Told
  BY <1>1, NoneIsTold
<1>3. AcknowledgedCancels' = AcknowledgedCancels
  BY DEF AcknowledgedCancels
<1>. QED
  BY <1>2, <1>3 DEF ContractStep

(* The task of r ends, and gives the slot back when it holds it.           *)
LEMMA ContractTaskEnds ==
  ASSUME ContractInv, TaskEnds, NEW r, r = Head(outbox)
  PROVE  ContractStep
<1>1. /\ r \in Ids /\ status[r] = "written" /\ reply[r].code # "none"
      /\ status' = [status EXCEPT ![r] = "done"] /\ status \in [Ids -> Statuses]
      /\ UNCHANGED <<kind, reply>>
  <2>1. r \in Ids
    BY HeadTailProperties DEF TaskEnds, ContractInv, SlotInv, TypeOK
  <2>. QED
    BY <2>1 DEF TaskEnds, ContractInv, WritersAnswered, SlotInv, TypeOK
<1>2. \A q \in Ids : kind[q] = "chat.send" /\ reply[q].code = "none"
                       => (status'[q] = "lost" <=> status[q] = "lost")
  BY <1>1
<1>3. CASE ~Claimed(r)
  <2>1. UNCHANGED busy
    BY <1>3 DEF TaskEnds
  <2>. QED
    BY <1>1, <1>2, <2>1, ContractUnseen
<1>4. CASE Claimed(r)
  <2>1. busy' = 0 /\ busy = r /\ kind[r] = "chat.send"
    BY <1>1, <1>4 DEF TaskEnds, Claimed, ContractInv, SlotInv, SlotHeld
  <2>2. busy # 0
    BY <1>1, <2>1, TurnAssumption DEF Ids
  <2>3. ASSUME NEW q \in Ids PROVE VerdictOf(q)' = VerdictOf(q)
    BY <1>1, <1>2, ToldStands
  <2>4. Told' = Told
    BY <2>3, NoneIsTold
  <2>5. Told[busy] # "none"
    <3>1. VerdictOf(r) # "none"
      BY <1>1, <2>1 DEF VerdictOf
    <3>. QED
      BY <1>1, <2>1, <3>1 DEF Told
  <2>6. AcknowledgedCancels' = AcknowledgedCancels
    BY <1>1 DEF AcknowledgedCancels
  <2>7. Chat!Release
    BY <2>1, <2>2, <2>4, <2>5, <2>6 DEF Chat!Release, Told
  <2>. QED
    BY <2>7 DEF ContractStep, Chat!ContractNext
<1>. QED
  BY <1>3, <1>4

(* Every step of a task is one of the contract.                            *)
LEMMA ContractWork ==
  ASSUME ContractInv, Work
  PROVE  ContractStep
<1>0. SlotInv
  BY DEF ContractInv
<1>1. CASE TurnGoesOn
  BY <1>1, ContractUnseen DEF TurnGoesOn, serverVars
<1>2. CASE ChatSendReturns
  <2>1. /\ phase \in {"finishing", "stopping", "exhausted"} /\ UNCHANGED <<busy, kind>>
        /\ Answer(turnOf, Reply(Reported(LoopStatus), <<>>))
    BY <1>2 DEF ChatSendReturns, TurnReturns
  <2>2. /\ Reported(LoopStatus) \notin {"none", "busy", "cancelling"}
        /\ Reported(LoopStatus) = "cancelled" => cancelFlag
    BY <2>1 DEF Reported, LoopStatus
  <2>3. PICK r, code : r = turnOf /\ code = Reported(LoopStatus)
    OBVIOUS
  <2>4. /\ Answer(r, Reply(code, <<>>)) /\ code \notin {"none", "busy", "cancelling"}
        /\ code = "cancelled" => cancelFlag
    BY <2>1, <2>2, <2>3
  <2>. QED
    BY <2>1, <2>3, <2>4, ContractAnswer
<1>3. CASE ChatSendRaises
  <2>1. phase # "idle" /\ UNCHANGED <<busy, kind>>
    BY <1>3 DEF ChatSendRaises, ProviderRaises, AllowAlwaysRaises
  <2>2. PICK code \in Raised : Answer(turnOf, Reply(code, <<>>))
    BY <1>3 DEF ChatSendRaises, Raised
  <2>3. PICK r : r = turnOf
    OBVIOUS
  <2>4. code \notin {"none", "busy", "cancelling", "cancelled"}
    BY DEF Raised
  <2>. QED
    BY <2>1, <2>2, <2>3, <2>4, ContractAnswer
<1>4. ASSUME NEW r \in Ids, ToolsRunReturns(r)
      PROVE  ContractStep
  <2>1. /\ kind[r] = "tools.run" /\ UNCHANGED <<busy, kind>>
        /\ reply' = [reply EXCEPT ![r] = Reply("ok", <<>>)]
        /\ status' = [status EXCEPT ![r] = "writing"] /\ reply[r] = NoReply
    BY <1>0, <1>4 DEF ToolsRunReturns, Answer, SlotInv, RunningUnanswered
  <2>2. ASSUME NEW q \in Ids PROVE VerdictOf(q)' = VerdictOf(q)
    <3>1. CASE q = r
      BY <2>1, <3>1 DEF VerdictOf
    <3>2. CASE q # r
      BY <1>0, <2>1, <3>2, ToldStands DEF SlotInv, TypeOK
    <3>. QED
      BY <3>1, <3>2
  <2>3. Told' = Told
    BY <2>2, NoneIsTold
  <2>4. Reply("ok", <<>>).code # "cancelling"
    BY DEF Reply
  <2>5. AcknowledgedCancels' = AcknowledgedCancels
    BY <1>0, <2>1, <2>4, CancelsStand
  <2>. QED
    BY <2>1, <2>3, <2>5 DEF ContractStep
<1>5. CASE WriteFrame
  <2>1. /\ UNCHANGED <<busy, kind, reply>> /\ Head(outbox) \in Ids
        /\ status[Head(outbox)] = "writing" /\ status \in [Ids -> Statuses]
        /\ status' = [status EXCEPT ![Head(outbox)] = "written"]
    BY <1>0, <1>5, HeadTailProperties DEF WriteFrame, SlotInv, TypeOK
  <2>2. \A q \in Ids : status'[q] = "lost" <=> status[q] = "lost"
    BY <2>1
  <2>. QED
    BY <2>1, <2>2, ContractUnseen
<1>6. CASE TaskEnds
  <2>1. PICK r : r = Head(outbox)
    OBVIOUS
  <2>. QED
    BY <1>6, <2>1, ContractTaskEnds
<1>. QED
  BY <1>1, <1>2, <1>3, <1>4, <1>5, <1>6 DEF Work

(* The shutdown takes the slot from request b, or finds it free.           *)
LEMMA ContractShutdown ==
  ASSUME ContractInv, ShutdownCancels, NEW b, b = busy
  PROVE  ContractStep
<1>0. SlotInv /\ UNCHANGED <<kind, reply>> /\ busy' = 0
  BY DEF ContractInv, ShutdownCancels
<1>1. ASSUME NEW q \in Ids
      PROVE  /\ status[q] = "running" => status'[q] = "lost"
             /\ status[q] \notin {"running", "writing"} => (status'[q] = "lost" <=> status[q] = "lost")
             /\ status[q] = "writing" => reply[q].code # "none"
  BY DEF ShutdownCancels, InFlight, ContractInv, WritersAnswered
<1>2. ASSUME NEW q \in Ids, kind[q] = "chat.send", status[q] = "running"
      PROVE  q = b /\ b # 0 /\ reply[q] = NoReply
  BY <1>0, <1>2, TurnAssumption DEF SlotInv, SingleFlight, RunningUnanswered, Ids
<1>3. ASSUME NEW q \in Ids, q # b \/ status[q] # "running"
      PROVE  VerdictOf(q)' = VerdictOf(q)
  <2>1. kind[q] = "chat.send" /\ reply[q].code = "none" => status[q] \notin {"running", "writing"}
    BY <1>1, <1>2, <1>3
  <2>. QED
    BY <1>0, <1>1, <2>1, ToldStands
<1>4. AcknowledgedCancels' = AcknowledgedCancels
  BY <1>0 DEF AcknowledgedCancels
<1>5. CASE b = 0
  <2>1. \A q \in Ids : VerdictOf(q)' = VerdictOf(q)
    BY <1>3, <1>5, TurnAssumption DEF Ids
  <2>2. Told' = Told
    BY <2>1, NoneIsTold
  <2>. QED
    BY <1>0, <1>4, <1>5, <2>2 DEF ContractStep
<1>6. CASE b # 0
  <2>1. /\ b \in Ids /\ kind[b] = "chat.send"
        /\ status[b] \in {"running", "writing", "written"}
    BY <1>0, <1>6 DEF SlotInv, TypeOK, SlotHeld
  <2>2. CASE status[b] = "running"
    <3>1. VerdictOf(b) = "none" /\ VerdictOf(b)' = "dropped"
      <4>1. NoReply.code = "none"
        BY DEF NoReply
      <4>. QED
        BY <1>0, <1>1, <1>2, <2>1, <2>2, <4>1 DEF VerdictOf
    <3>2. Told' = [Told EXCEPT ![b] = "dropped"] /\ Told[b] = "none"
      <4>1. Told' = [Told EXCEPT ![b] = "dropped"]
        BY <1>3, <2>1, <3>1, OneIsTold
      <4>2. Told[b] = "none"
        BY <2>1, <3>1 DEF Told
      <4>. QED
        BY <4>1, <4>2
    <3>3. Chat!Drop
      BY <1>0, <1>4, <1>6, <3>2 DEF Chat!Drop, Chat!Tell, Told
    <3>. QED
      BY <3>3 DEF ContractStep, Chat!ContractNext
  <2>3. CASE status[b] # "running"
    <3>1. \A q \in Ids : VerdictOf(q)' = VerdictOf(q)
      BY <1>3, <2>3
    <3>2. Told' = Told
      BY <3>1, NoneIsTold
    <3>3. Told[b] # "none"
      <4>1. reply[b].code # "none"
        BY <2>1, <2>3 DEF ContractInv, WritersAnswered
      <4>2. VerdictOf(b) # "none"
        BY <2>1, <4>1 DEF VerdictOf
      <4>. QED
        BY <2>1, <4>2 DEF Told
    <3>4. Chat!Drop
      BY <1>0, <1>4, <1>6, <3>2, <3>3 DEF Chat!Drop, Told
    <3>. QED
      BY <3>4 DEF ContractStep, Chat!ContractNext
  <2>. QED
    BY <2>2, <2>3
<1>. QED
  BY <1>5, <1>6

-----------------------------------------------------------------------------

(* The gateway implements the contract of the frontend: one turn holds the *)
(* slot, verdicts are given once, and "cancelled" only after an            *)
(* acknowledged cancel, for any number of requests, through shutdown too.  *)
THEOREM GatewayImplementsChat == Spec => ImplementsChat
<1>1. Init => Chat!ContractInit
  <2>. SUFFICES ASSUME Init PROVE Chat!ContractInit
    OBVIOUS
  <2>1. ASSUME NEW r \in Ids PROVE VerdictOf(r) = "none"
    BY DEF Init, VerdictOf
  <2>2. AcknowledgedCancels = {}
    <3>1. ASSUME NEW q \in Ids, NEW a PROVE reply[q] # Reply("cancelling", a)
      BY DEF Init, NoReply, Reply
    <3>. QED
      BY <3>1 DEF AcknowledgedCancels
  <2>. QED
    BY <2>1, <2>2 DEF Init, Chat!ContractInit
<1>2. ContractInv /\ [Next]_vars => [Chat!ContractNext]_(Chat!contractVars)
  <2>. SUFFICES ASSUME ContractInv, [Next]_vars
                PROVE  ContractStep
    BY DEF ContractStep, Chat!contractVars, Told
  <2>1. CASE StdinEnds \/ ServeReturns \/ UNCHANGED vars
    BY <2>1, ContractUnseen DEF StdinEnds, ServeReturns, vars, serverVars
  <2>2. PICK n, b : n = New /\ b = busy
    OBVIOUS
  <2>3. CASE Request
    BY <2>2, <2>3, ContractRequest
  <2>4. CASE Work
    BY <2>4, ContractWork
  <2>5. CASE ShutdownCancels
    BY <2>2, <2>5, ContractShutdown
  <2>. QED
    BY <2>1, <2>3, <2>4, <2>5 DEF Next
<1>3. Spec => []ContractInv
  <2>1. Init => ContractInv
    BY SlotInvInductive, CancelInvInductive, WritersAnsweredInductive DEF ContractInv
  <2>2. ContractInv /\ [Next]_vars => ContractInv'
    BY SlotInvInductive, CancelInvInductive, WritersAnsweredInductive DEF ContractInv
  <2>. QED
    BY <2>1, <2>2, PTL DEF Spec
<1>. QED
  BY <1>1, <1>2, <1>3, PTL DEF Spec, ImplementsChat, Chat!Contract

=============================================================================
