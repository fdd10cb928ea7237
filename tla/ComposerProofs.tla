---------------------------- MODULE ComposerProofs ----------------------------
(***************************************************************************)
(* Theorems about the text the user writes, for every text, history,       *)
(* number of keys and order in which file searches are answered: the       *)
(* prompt shows the draft, the matches are of the query in it, and what    *)
(* was written is kept.                                                    *)
(***************************************************************************)
EXTENDS Composer, FiniteSetTheorems, SequenceTheorems, TLAPS

UiOK(r) ==
  r \in [draft : Text, buffer : Text, open : SUBSET Dialogs, navigator : BOOLEAN, help : BOOLEAN,
         approval : BOOLEAN, stash : Text \cup {NoText}, index : Int, saved : Text,
         submitted : Text \cup {NoText}]

TypesOK ==
  /\ UiOK(ui)
  /\ entries \in Seq([mode : {"bash", "chat"}, text : Text])
  /\ search \in [found : Text \cup {NoText}, loading : BOOLEAN, timer : Text \cup {NoText},
                 asked : SUBSET [query : Text, live : BOOLEAN]]

(* A timer or a search that is not cancelled is of the query in the draft, *)
(* and so is what was found, once nothing is awaited.                      *)
SearchOfQuery ==
  /\ search.timer \in {NoText, QueryOf(ui)}
  /\ \A request \in search.asked : request.live => request.query = QueryOf(ui)
  /\ ~search.loading => search.found \in {NoText, QueryOf(ui)}

ComposerInv == TypesOK /\ SearchOfQuery /\ DraftIsBuffer

-----------------------------------------------------------------------------
(* Offsets.                                                                *)

LEMMA LargestOffset ==
  ASSUME NEW n \in Nat, NEW P \in SUBSET (0..n), P # {}
  PROVE  \E k \in P : \A j \in P : j <= k
<1>. DEFINE B == {i \in 1..n : \E j \in P : i <= j}
            m == Cardinality(B)
<1>1. IsFiniteSet(1..n) /\ B \in SUBSET (1..n)
  BY FS_Interval
<1>2. IsFiniteSet(B) /\ m \in Nat
  BY <1>1, FS_Subset, FS_CardinalityType
<1>3. \A i \in B : \A j \in 1..i : j \in B
  OBVIOUS
<1>4. ASSUME NEW i \in B PROVE i <= m
  <2>1. 1..i \in SUBSET B /\ i \in Nat
    BY <1>3, <1>4
  <2>2. Cardinality(1..i) = i
    BY <2>1, FS_Interval
  <2>. QED
    BY <1>2, <2>1, <2>2, FS_Subset
<1>5. B \in SUBSET (1..m)
  BY <1>2, <1>4
<1>6. IsFiniteSet(1..m) /\ Cardinality(1..m) = m
  BY <1>2, FS_Interval
<1>7. B = 1..m
  BY <1>5, <1>6, FS_Subset
<1>. HIDE DEF m
<1>8. CASE m = 0
  <2>1. B = {}
    BY <1>7, <1>8
  <2>2. \A j \in P : j = 0
    <3>1. SUFFICES ASSUME NEW j \in P, j # 0 PROVE FALSE
      OBVIOUS
    <3>2. j \in B
      BY <3>1
    <3>. QED
      BY <2>1, <3>2
  <2>3. PICK j \in P : TRUE
    OBVIOUS
  <2>. QED
    BY <2>2, <2>3
<1>9. CASE m # 0
  <2>1. m \in B
    BY <1>2, <1>7, <1>9
  <2>2. PICK k \in P : m <= k
    BY <2>1
  <2>3. \A j \in P : j <= m
    <3>1. SUFFICES ASSUME NEW j \in P PROVE j <= m
      OBVIOUS
    <3>2. CASE j = 0
      BY <3>2, <1>2
    <3>3. CASE j # 0
      <4>1. j \in B
        BY <3>3
      <4>. QED
        BY <4>1, <1>4
    <3>. QED
      BY <3>2, <3>3
  <2>. QED
    BY <2>2, <2>3, <1>2
<1>. QED
  BY <1>8, <1>9

LEMMA LeastOffset ==
  ASSUME NEW n \in Nat, NEW P \in SUBSET (0..n), P # {}
  PROVE  \E k \in P : \A j \in P : k <= j
<1>. DEFINE R == {i \in 0..n : n - i \in P}
<1>1. R \in SUBSET (0..n) /\ \A j \in P : n - j \in R
  OBVIOUS
<1>2. R # {}
  BY <1>1
<1>. HIDE DEF R
<1>3. PICK i \in R : \A j \in R : j <= i
  BY <1>1, <1>2, LargestOffset
<1>4. n - i \in P /\ i \in 0..n
  BY <1>3 DEF R
<1>5. \A j \in P : n - j <= i
  BY <1>1, <1>3
<1>. QED
  BY <1>4, <1>5

LEMMA RunStartIs ==
  ASSUME NEW v, NEW c \in Nat, NEW S
  PROVE  LET i == RunStart(v, c, S)
         IN  i \in 0..c /\ (\A k \in (i + 1)..c : v[k] \in S) /\ (i = 0 \/ v[i] \notin S)
<1>. DEFINE P == {i \in 0..c : \A k \in (i + 1)..c : v[k] \in S}
<1>1. P \in SUBSET (0..c) /\ c \in P
  OBVIOUS
<1>2. PICK i \in P : \A j \in P : i <= j
  BY <1>1, LeastOffset
<1>3. i = 0 \/ v[i] \notin S
  <2>1. SUFFICES ASSUME i # 0, v[i] \in S PROVE FALSE
    OBVIOUS
  <2>2. i - 1 \in 0..c /\ \A k \in ((i - 1) + 1)..c : k = i \/ k \in (i + 1)..c
    BY <2>1
  <2>3. i - 1 \in P
    BY <2>1, <2>2
  <2>. QED
    BY <2>3, <1>2
<1>4. \E j \in 0..c : (\A k \in (j + 1)..c : v[k] \in S) /\ (j = 0 \/ v[j] \notin S)
  BY <1>2, <1>3
<1>. QED
  BY <1>4 DEF RunStart

LEMMA RunEndIs ==
  ASSUME NEW v, Len(v) \in Nat, NEW c \in 0..Len(v), NEW S
  PROVE  LET i == RunEnd(v, c, S)
         IN  /\ i \in c..Len(v) /\ (\A k \in (c + 1)..i : v[k] \in S)
             /\ i = Len(v) \/ v[i + 1] \notin S
<1>. DEFINE n == Len(v)
<1>. DEFINE P == {i \in c..n : \A k \in (c + 1)..i : v[k] \in S}
<1>1. P \in SUBSET (0..n) /\ c \in P /\ n \in Nat
  OBVIOUS
<1>2. PICK i \in P : \A j \in P : j <= i
  BY <1>1, LargestOffset
<1>3. i = n \/ v[i + 1] \notin S
  <2>1. SUFFICES ASSUME i # n, v[i + 1] \in S PROVE FALSE
    OBVIOUS
  <2>2. i + 1 \in c..n /\ \A k \in (c + 1)..(i + 1) : k = i + 1 \/ k \in (c + 1)..i
    BY <2>1, <1>1
  <2>3. i + 1 \in P
    BY <2>1, <2>2
  <2>. QED
    BY <2>3, <1>2, <1>1
<1>4. \E j \in c..n : (\A k \in (c + 1)..j : v[k] \in S) /\ (j = n \/ v[j + 1] \notin S)
  BY <1>2, <1>3
<1>. QED
  BY <1>4 DEF RunEnd

-----------------------------------------------------------------------------
(* Texts.                                                                  *)

LEMMA SliceIsText ==
  ASSUME NEW v \in Text, NEW i \in Nat, NEW j \in Nat
  PROVE  /\ Slice(v, i, j) \in Text
         /\ Len(Slice(v, i, j)) = IF i < AtMost(j, Len(v)) THEN AtMost(j, Len(v)) - i ELSE 0
<1>. DEFINE m == AtMost(j, Len(v))
<1>1. Len(v) \in Nat /\ m \in Nat /\ m <= Len(v)
  BY DEF Text, AtMost
<1>2. \A k \in (i + 1)..m : v[k] \in Chars
  BY <1>1 DEF Text
<1>. HIDE DEF m
<1>3. /\ SubSeq(v, i + 1, m) \in Seq(Chars)
      /\ Len(SubSeq(v, i + 1, m)) = IF i + 1 <= m THEN m - (i + 1) + 1 ELSE 0
  BY <1>1, <1>2, SubSeqProperties
<1>4. Slice(v, i, j) = SubSeq(v, i + 1, m)
  BY DEF Slice, m
<1>. QED
  BY <1>1, <1>3, <1>4 DEF Text, m

LEMMA TrimIsText ==
  ASSUME NEW v \in Text
  PROVE  Trim(v) \in Text /\ (Trim(v) = <<>> => Blank(v))
<1>. DEFINE n == Len(v)
            i == RunEnd(v, 0, SpaceChars)
            j == RunStart(v, n, SpaceChars)
<1>1. n \in Nat /\ DOMAIN v = 1..n
  BY DEF Text
<1>2. i \in 0..n /\ \A k \in 1..i : v[k] \in SpaceChars
  <2>1. (0 + 1)..i = 1..i
    OBVIOUS
  <2>. QED
    BY <1>1, <2>1, RunEndIs
<1>3. j \in 0..n /\ \A k \in (j + 1)..n : v[k] \in SpaceChars
  BY <1>1, RunStartIs
<1>4. Trim(v) = IF i >= j THEN <<>> ELSE Slice(v, i, j)
  BY DEF Trim
<1>. HIDE DEF i, j
<1>5. CASE i >= j
  <2>1. \A k \in DOMAIN v : k \in 1..i \/ k \in (j + 1)..n
    BY <1>1, <1>2, <1>3, <1>5
  <2>2. Blank(v)
    BY <2>1, <1>2, <1>3 DEF Blank, Range
  <2>. QED
    BY <2>2, <1>4, <1>5 DEF Text
<1>6. CASE ~(i >= j)
  <2>0. i \in Nat /\ j \in Nat /\ j <= n /\ i < j
    BY <1>1, <1>2, <1>3, <1>6
  <2>. HIDE DEF n
  <2>1. i \in Nat /\ j \in Nat /\ AtMost(j, n) = j /\ i < j
    BY <1>1, <2>0 DEF AtMost
  <2>2. Slice(v, i, j) \in Text /\ Len(Slice(v, i, j)) = j - i
    BY <2>1, SliceIsText DEF n
  <2>3. Slice(v, i, j) # <<>>
    BY <2>1, <2>2
  <2>. QED
    BY <1>4, <1>6, <2>2, <2>3
<1>. QED
  BY <1>5, <1>6

LEMMA MentionStartIs ==
  ASSUME NEW v \in Text
  PROVE  /\ MentionStart(v) \in 0..Len(v)
         /\ HasMention(v) => \E i \in 1..Len(v) : /\ MentionStart(v) = i - 1 /\ v[i] = At
                                              /\ \A k \in (i + 1)..Len(v) : v[k] \in TokenChars
<1>. DEFINE n == Len(v)
            i == RunStart(v, n, TokenChars)
<1>1. n \in Nat
  BY DEF Text
<1>2. i \in 0..n /\ \A k \in (i + 1)..n : v[k] \in TokenChars
  BY <1>1, RunStartIs
<1>3. MentionStart(v) = IF i > 0 /\ v[i] = At THEN i - 1 ELSE n
  BY DEF MentionStart
<1>. HIDE DEF i
<1>. QED
  BY <1>1, <1>2, <1>3 DEF HasMention

LEMMA OneCharacter ==
  ASSUME NEW ch \in Chars
  PROVE  <<ch>> \in Text
BY DEF Text

LEMMA Letters == {Slash, Bang, At, " ", "?", "y"} \subseteq Chars
  BY CharsAssumption, ComposerAssumption DEF Chars

LEMMA MentionIsText ==
  ASSUME NEW v \in Text
  PROVE  /\ MentionQuery(v) \in Text /\ DropMention(v) \in Text
         /\ ApplyMention(v, Path) \in Text
         /\ HasMention(v) => ApplyMention(v, Path) # v
<1>. DEFINE head == Slice(v, 0, MentionStart(v))
            w == head \o <<At>> \o Path
<1>1. MentionStart(v) \in Nat /\ Len(v) \in Nat
  BY MentionStartIs DEF Text
<1>2. MentionQuery(v) \in Text /\ head \in Text
  BY <1>1, SliceIsText DEF MentionQuery
<1>3. <<At>> \in Text /\ " " \in Chars /\ Path \in Text
  <2>1. At \in Chars /\ " " \in Chars
    BY Letters
  <2>2. <<At>> \in Text
    BY <2>1, OneCharacter
  <2>3. Path \in Text
    BY ComposerAssumption
  <2>. QED
    BY <2>1, <2>2, <2>3
<1>4. ApplyMention(v, Path) = w \o <<" ">>
  BY DEF ApplyMention
<1>5. w \in Text
  BY <1>2, <1>3, ConcatProperties DEF Text
<1>. HIDE DEF w
<1>6. /\ w \o <<" ">> \in Text
      /\ Len(w \o <<" ">>) = Len(w) + 1
      /\ (w \o <<" ">>)[Len(w) + 1] = " "
  <2>1. w \o <<" ">> = Append(w, " ")
    BY <1>3, <1>5, AppendIsConcat DEF Text
  <2>2. /\ Append(w, " ") \in Seq(Chars) /\ Len(Append(w, " ")) = Len(w) + 1
        /\ Append(w, " ")[Len(w) + 1] = " "
    BY <1>3, <1>5, AppendProperties DEF Text
  <2>. QED
    BY <2>1, <2>2 DEF Text
<1>7. HasMention(v) => v[Len(v)] # " "
  <2>1. SUFFICES ASSUME HasMention(v) PROVE v[Len(v)] # " "
    OBVIOUS
  <2>2. PICK i \in 1..Len(v) : v[i] = At /\ \A k \in (i + 1)..Len(v) : v[k] \in TokenChars
    BY <2>1, MentionStartIs
  <2>3. v[Len(v)] = At \/ v[Len(v)] \in TokenChars
    BY <1>1, <2>2
  <2>4. " " \in SpaceChars /\ At \notin SpaceChars
    BY CharsAssumption
  <2>. QED
    BY <2>3, <2>4 DEF TokenChars
<1>8. HasMention(v) => ApplyMention(v, Path) # v
  BY <1>4, <1>5, <1>6, <1>7 DEF Text
<1>. QED
  BY <1>2, <1>4, <1>6, <1>8 DEF DropMention

LEMMA CutIsText ==
  ASSUME NEW v \in Text, NEW i \in Nat, NEW j \in Nat, NEW c
  PROVE  Cut(Buffer(v, c), i, j).value \in Text
<1>1. Slice(v, 0, i) \in Text /\ Slice(v, j, Len(v)) \in Text
  <2>1. Len(v) \in Nat /\ 0 \in Nat
    BY DEF Text
  <2>. QED
    BY <2>1, SliceIsText
<1>2. Slice(v, 0, i) \o Slice(v, j, Len(v)) \in Text
  BY <1>1, ConcatProperties DEF Text
<1>. QED
  BY <1>2 DEF Cut, Buffer

LEMMA EditedIsText ==
  ASSUME NEW v \in Text, NEW c \in 0..Len(v), NEW b \in Edited(Buffer(v, c))
  PROVE  b.value \in Text
<1>. DEFINE s == RunStart(v, c, SpaceChars)
            l == LineStart(v, c)
            e == LineEnd(v, c)
<1>1. Len(v) \in Nat /\ c \in Nat
  BY DEF Text
<1>2. s \in 0..c /\ l \in 0..c
  BY <1>1, RunStartIs DEF LineStart
<1>3. WordLeft(v, c) \in Nat
  <2>. HIDE DEF s
  <2>1. RunStart(v, s, WordChars) \in 0..s
    BY <1>1, <1>2, RunStartIs
  <2>. QED
    BY <1>1, <1>2, <2>1 DEF WordLeft, s
<1>4. e \in c..Len(v)
  BY <1>1, RunEndIs DEF LineEnd
<1>. HIDE DEF s, l, e
<1>5. Buffer(v, c).value = v /\ Buffer(v, c).cursor = c
  BY DEF Buffer
<1>6. ASSUME NEW ch \in Typed PROVE Insert(Buffer(v, c), <<ch>>).value \in Text
  <2>1. Slice(v, 0, c) \in Text /\ Slice(v, c, Len(v)) \in Text
    BY <1>1, SliceIsText
  <2>2. <<ch>> \in Text
    BY ComposerAssumption DEF Text
  <2>3. Slice(v, 0, c) \o <<ch>> \o Slice(v, c, Len(v)) \in Text
    BY <2>1, <2>2, ConcatProperties DEF Text
  <2>. QED
    BY <2>3 DEF Insert, Buffer
<1>7. \/ b = Buffer(v, c)
      \/ \E i, j \in Nat : b = Cut(Buffer(v, c), i, j)
      \/ \E ch \in Typed : b = Insert(Buffer(v, c), <<ch>>)
  <2>1. CASE b = Backspace(Buffer(v, c))
    BY <2>1, <1>1, <1>5 DEF Backspace
  <2>2. CASE b = DeleteForward(Buffer(v, c))
    BY <2>2, <1>1, <1>5 DEF DeleteForward
  <2>3. CASE b = KillWordBack(Buffer(v, c))
    BY <2>3, <1>1, <1>3, <1>5 DEF KillWordBack
  <2>4. CASE b = KillToLineStart(Buffer(v, c))
    BY <2>4, <1>1, <1>2, <1>5 DEF KillToLineStart, l
  <2>5. CASE b = KillToLineEnd(Buffer(v, c))
    BY <2>5, <1>1, <1>4, <1>5 DEF KillToLineEnd, e
  <2>6. CASE \E ch \in Typed : b = Insert(Buffer(v, c), <<ch>>)
    BY <2>6
  <2>. QED
    BY <2>1, <2>2, <2>3, <2>4, <2>5, <2>6 DEF Edited
<1>. QED
  BY <1>5, <1>6, <1>7, CutIsText

-----------------------------------------------------------------------------
(* The history.                                                            *)

(* A set of positions has an i-th element: the first up to which there are *)
(* i of them.                                                              *)
LEMMA NthIs ==
  ASSUME NEW n \in Nat, NEW P \in SUBSET (1..n), NEW i \in 1..Cardinality(P)
  PROVE  Nth(P, i) \in P
<1>. DEFINE upto(k) == {j \in P : j <= k}
            c(k) == Cardinality(upto(k))
            E == {k \in 0..n : c(k) >= i}
<1>0. \A j \in P : j \in 1..n
  OBVIOUS
<1>1. IsFiniteSet(P) /\ Cardinality(P) \in Nat /\ i \in Nat /\ 1 <= i
  <2>1. IsFiniteSet(1..n)
    BY FS_Interval
  <2>2. IsFiniteSet(P) /\ Cardinality(P) \in Nat
    BY <2>1, FS_Subset, FS_CardinalityType
  <2>. QED
    BY <2>2
<1>2. \A k \in 0..n : IsFiniteSet(upto(k)) /\ c(k) \in Nat
  BY <1>1, FS_Subset, FS_CardinalityType
<1>3. n \in E
  <2>1. \A j \in P : j <= n
    BY <1>0
  <2>2. upto(n) = P
    BY <2>1
  <2>. QED
    BY <1>1, <2>2
<1>4. \E k \in E : \A j \in E : k <= j
  <2>1. E \in SUBSET (0..n) /\ E # {}
    BY <1>3
  <2>. HIDE DEF E
  <2>. QED
    BY <2>1, LeastOffset
<1>5. PICK k \in E : \A j \in E : k <= j
  BY <1>4
<1>6. k # 0
  <2>0. \A j \in P : ~(j <= 0)
    BY <1>0
  <2>1. upto(0) = {}
    BY <2>0
  <2>2. c(0) = 0
    BY <2>1, FS_EmptySet
  <2>. QED
    BY <1>5, <2>2
<1>7. k \in 1..n /\ k - 1 \in 0..n /\ c(k) >= i /\ ~(c(k - 1) >= i)
  <2>1. k \in 1..n /\ k - 1 \in 0..n /\ c(k) >= i
    BY <1>5, <1>6
  <2>2. k - 1 \notin E
    <3>. HIDE DEF E
    <3>1. \A j \in E : k <= j
      BY <1>5
    <3>2. ~(k <= k - 1)
      BY <2>1
    <3>. QED
      BY <3>1, <3>2
  <2>. QED
    BY <2>1, <2>2
<1>8. k \in P /\ c(k) = i
  <2>0. \A j \in P : j <= k <=> j <= k - 1 \/ j = k
    BY <1>0, <1>7
  <2>1. upto(k) = IF k \in P THEN upto(k - 1) \cup {k} ELSE upto(k - 1)
    BY <2>0
  <2>2. c(k) = IF k \in P THEN c(k - 1) + 1 ELSE c(k - 1)
    <3>1. k \notin upto(k - 1)
      BY <1>7
    <3>2. IsFiniteSet(upto(k - 1))
      BY <1>2, <1>7
    <3>. HIDE DEF upto
    <3>. QED
      BY <2>1, <3>1, <3>2, FS_AddElement
  <2>3. c(k) \in Nat /\ c(k - 1) \in Nat
    BY <1>2, <1>7
  <2>4. c(k) >= i /\ ~(c(k - 1) >= i)
    BY <1>7
  <2>. HIDE DEF c
  <2>. QED
    BY <1>1, <2>2, <2>3, <2>4
<1>9. \E m \in P : Cardinality({j \in P : j <= m}) = i
  BY <1>8
<1>. QED
  BY <1>9 DEF Nth

LEMMA FilteredAreTexts ==
  ASSUME TypesOK
  PROVE  /\ Len(Filtered) \in Nat /\ DOMAIN Filtered = 1..Len(Filtered)
         /\ \A i \in DOMAIN Filtered : Filtered[i].text \in Text
<1>. DEFINE mode == IF InputMode(ui.draft) = "bash" THEN "bash" ELSE "chat"
            own == {k \in DOMAIN entries : entries[k].mode = mode}
<1>1. Filtered = [i \in 1..Cardinality(own) |-> entries[Nth(own, i)]]
  BY DEF Filtered
<1>2. Len(entries) \in Nat /\ DOMAIN entries = 1..Len(entries)
  BY DEF TypesOK
<1>3. own \in SUBSET (1..Len(entries))
  BY <1>2
<1>4. Cardinality(own) \in Nat
  <2>1. IsFiniteSet(1..Len(entries))
    BY <1>2, FS_Interval
  <2>. HIDE DEF own
  <2>. QED
    BY <1>3, <2>1, FS_Subset, FS_CardinalityType
<1>. HIDE DEF own
<1>5. \A i \in 1..Cardinality(own) : Nth(own, i) \in DOMAIN entries
  BY <1>2, <1>3, NthIs
<1>6. \A k \in DOMAIN entries : entries[k].text \in Text
  <2>1. \A k \in DOMAIN entries : entries[k] \in [mode : {"bash", "chat"}, text : Text]
    <3>. DEFINE R == [mode : {"bash", "chat"}, text : Text]
    <3>1. entries \in Seq(R)
      BY DEF TypesOK
    <3>. HIDE DEF R
    <3>2. \A k \in DOMAIN entries : entries[k] \in R
      BY <3>1
    <3>. QED
      BY <3>2 DEF R
  <2>. QED
    BY <2>1
<1>7. DOMAIN Filtered = 1..Cardinality(own) /\ Len(Filtered) = Cardinality(own)
  <2>1. Filtered \in Seq({entries[Nth(own, i)] : i \in 1..Cardinality(own)})
    BY <1>1, <1>4
  <2>2. DOMAIN Filtered = 1..Cardinality(own)
    BY <1>1
  <2>. QED
    BY <2>1, <2>2, <1>4, LenProperties
<1>. QED
  BY <1>1, <1>4, <1>5, <1>6, <1>7

-----------------------------------------------------------------------------
(* What a key does to the draft and to the prompt.                         *)

(* Only the prompt writes both: an arrow or a character makes them the     *)
(* same, Enter empties the prompt and keeps a draft only if it is blank.   *)
LEMMA RecalledIs ==
  ASSUME TypesOK, NEW r, UiOK(r), NEW i \in Int
  PROVE  LET s == Recalled(r, i)
         IN  /\ UiOK(s)
             /\ (s.draft = r.draft /\ s.buffer = r.buffer) \/ s.buffer = s.draft
<1>1. \A k \in DOMAIN Filtered : Filtered[k].text \in Text
  BY FilteredAreTexts
<1>2. CASE i \in DOMAIN Filtered
  <2>1. Recalled(r, i) = [r EXCEPT !.index = i, !.draft = Filtered[i].text, !.buffer = Filtered[i].text]
    BY <1>2 DEF Recalled
  <2>2. Filtered[i].text \in Text
    BY <1>1, <1>2
  <2>. QED
    BY <2>1, <2>2 DEF UiOK
<1>3. CASE i \notin DOMAIN Filtered
  <2>1. Recalled(r, i) = [r EXCEPT !.index = i]
    BY <1>3 DEF Recalled
  <2>. QED
    BY <2>1 DEF UiOK
<1>. QED
  BY <1>2, <1>3

LEMMA PromptKeyIs ==
  ASSUME TypesOK, NEW key \in Keys, NEW r, UiOK(r)
  PROVE  LET s == PromptKey(key, r)
         IN  /\ UiOK(s)
             /\ \/ s.draft = r.draft /\ s.buffer = r.buffer
                \/ Focus /\ key \in {"up", "shift-up", "down", "?", "y"} /\ s.buffer = s.draft
                \/ /\ Focus /\ key = "enter" /\ s.buffer = <<>>
                   /\ s.draft = <<>> \/ (s.draft = r.draft /\ Blank(ui.buffer))
<1>. DEFINE s == PromptKey(key, r)
<1>1. ui.buffer \in Text /\ ui.draft \in Text /\ ui.saved \in Text /\ ui.index \in Int
  BY DEF TypesOK, UiOK
<1>2. CASE Focus /\ key = "enter"
  <2>1. s = Entered(r)
    BY <1>2 DEF PromptKey
  <2>2. Trim(ui.buffer) \in Text /\ (Trim(ui.buffer) = <<>> => Blank(ui.buffer))
    BY <1>1, TrimIsText
  <2>3. CASE Trim(ui.buffer) = <<>>
    <3>1. s = [r EXCEPT !.buffer = <<>>]
      BY <2>1, <2>3 DEF Entered
    <3>2. UiOK(s) /\ s.buffer = <<>> /\ s.draft = r.draft
      BY <3>1, <2>2, <2>3 DEF UiOK
    <3>. QED
      BY <3>2, <1>2, <2>2, <2>3
  <2>4. CASE Trim(ui.buffer) # <<>>
    <3>1. s = [r EXCEPT !.buffer = <<>>, !.draft = <<>>, !.submitted = Trim(ui.buffer),
                        !.index = NoIndex, !.saved = <<>>]
      BY <2>1, <2>4 DEF Entered
    <3>2. <<>> \in Text /\ NoIndex \in Int
      BY DEF Text, NoIndex
    <3>3. UiOK(s) /\ s.buffer = <<>> /\ s.draft = <<>>
      BY <3>1, <3>2, <2>2 DEF UiOK
    <3>. QED
      BY <3>3, <1>2
  <2>. QED
    BY <2>3, <2>4
<1>3. CASE Focus /\ key \in {"up", "shift-up"} /\ ~Overlay
  <2>1. s = Previous(r)
    BY <1>3 DEF PromptKey
  <2>2. Len(Filtered) \in Int /\ AtLeast(1, ui.index - 1) \in Int
    BY <1>1, FilteredAreTexts DEF AtLeast
  <2>3. UiOK([r EXCEPT !.saved = ui.buffer])
    BY <1>1 DEF UiOK
  <2>4. [r EXCEPT !.saved = ui.buffer].draft = r.draft /\ [r EXCEPT !.saved = ui.buffer].buffer = r.buffer
    BY DEF UiOK
  <2>5. \/ s = r
        \/ s = Recalled([r EXCEPT !.saved = ui.buffer], Len(Filtered))
        \/ s = Recalled(r, AtLeast(1, ui.index - 1))
    BY <2>1 DEF Previous
  <2>6. UiOK(s) /\ ((s.draft = r.draft /\ s.buffer = r.buffer) \/ s.buffer = s.draft)
    <3>1. CASE s = r
      BY <3>1
    <3>2. CASE s = Recalled([r EXCEPT !.saved = ui.buffer], Len(Filtered))
      BY <3>2, <2>2, <2>3, <2>4, RecalledIs
    <3>3. CASE s = Recalled(r, AtLeast(1, ui.index - 1))
      BY <3>3, <2>2, RecalledIs
    <3>. QED
      BY <2>5, <3>1, <3>2, <3>3
  <2>. QED
    BY <1>3, <2>6
<1>4. CASE Focus /\ key = "down" /\ ~Overlay
  <2>1. s = Following(r)
    BY <1>4 DEF PromptKey
  <2>2. \/ s = r
        \/ s = [r EXCEPT !.index = NoIndex, !.draft = ui.saved, !.buffer = ui.saved, !.saved = <<>>]
        \/ s = Recalled(r, ui.index + 1)
    BY <2>1 DEF Following
  <2>3. UiOK(s) /\ ((s.draft = r.draft /\ s.buffer = r.buffer) \/ s.buffer = s.draft)
    <3>1. CASE s = r
      BY <3>1
    <3>2. CASE s = [r EXCEPT !.index = NoIndex, !.draft = ui.saved, !.buffer = ui.saved, !.saved = <<>>]
      <4>1. <<>> \in Text /\ NoIndex \in Int
        BY DEF Text, NoIndex
      <4>. QED
        BY <3>2, <4>1, <1>1 DEF UiOK
    <3>3. CASE s = Recalled(r, ui.index + 1)
      <4>1. ui.index + 1 \in Int
        BY <1>1
      <4>. QED
        BY <3>3, <4>1, RecalledIs
    <3>. QED
      BY <2>2, <3>1, <3>2, <3>3
  <2>. QED
    BY <1>4, <2>3
<1>5. CASE Focus /\ key \in {"?", "y"}
  <2>1. s = [r EXCEPT !.buffer = Append(ui.buffer, key), !.draft = Append(ui.buffer, key)]
    BY <1>5 DEF PromptKey
  <2>2. key \in Chars
    BY <1>5, Letters
  <2>3. Append(ui.buffer, key) \in Text
    BY <1>1, <2>2 DEF Text
  <2>4. UiOK(s) /\ s.buffer = s.draft
    BY <2>1, <2>3 DEF UiOK
  <2>. QED
    BY <1>5, <2>4
<1>6. CASE s = r
  BY <1>6
<1>7. s = r \/ (Focus /\ (\/ key = "enter" \/ (key \in {"up", "shift-up", "down"} /\ ~Overlay)
                           \/ key \in {"?", "y"}))
  BY DEF PromptKey
<1>. QED
  BY <1>2, <1>3, <1>4, <1>5, <1>6, <1>7

LEMMA CompletionKeyIs ==
  ASSUME TypesOK, NEW key \in Keys, NEW r, UiOK(r)
  PROVE  LET s == CompletionKey(key, r)
         IN  /\ UiOK(s) /\ s.buffer = r.buffer
             /\ \/ s.draft = r.draft \/ key \in {"tab", "escape"}
                \/ key = "enter" /\ s.draft # ui.draft
<1>. DEFINE s == CompletionKey(key, r)
            name == CHOOSE name \in Commands : TRUE
<1>1. ui.draft \in Text
  BY DEF TypesOK, UiOK
<1>2. CASE SlashOverlay /\ key = "tab"
  <2>1. s = [r EXCEPT !.draft = <<Slash>> \o name \o <<" ">>]
    BY <1>2 DEF CompletionKey
  <2>2. name \in Commands
    BY <1>2 DEF SlashOverlay, Matches
  <2>3. name \in Text
    BY <2>2, CharsAssumption
  <2>4. Slash \in Chars /\ " " \in Chars
    BY Letters
  <2>5. <<Slash>> \in Text /\ <<" ">> \in Text
    BY <2>4, OneCharacter
  <2>. HIDE DEF name
  <2>6. <<Slash>> \o name \o <<" ">> \in Text
    BY <2>3, <2>5, ConcatProperties DEF Text
  <2>. QED
    BY <2>1, <2>6, <1>2 DEF UiOK
<1>3. CASE ~(SlashOverlay /\ key = "tab") /\ MentionOverlay(ui) /\ key \in {"tab", "enter"} /\ search.found # NoText
  <2>1. s = [r EXCEPT !.draft = ApplyMention(ui.draft, Path)]
    BY <1>3 DEF CompletionKey
  <2>2. HasMention(ui.draft)
    BY <1>3 DEF MentionOverlay, InputMode
  <2>3. ApplyMention(ui.draft, Path) \in Text /\ ApplyMention(ui.draft, Path) # ui.draft
    BY <1>1, <2>2, MentionIsText
  <2>. QED
    BY <2>1, <2>3, <1>3 DEF UiOK
<1>4. CASE s = [r EXCEPT !.draft = DropMention(ui.draft)] /\ key = "escape"
  <2>1. DropMention(ui.draft) \in Text
    BY <1>1, MentionIsText
  <2>. QED
    BY <1>4, <2>1 DEF UiOK
<1>5. CASE s = r
  BY <1>5
<1>6. \/ SlashOverlay /\ key = "tab"
      \/ ~(SlashOverlay /\ key = "tab") /\ MentionOverlay(ui) /\ key \in {"tab", "enter"} /\ search.found # NoText
      \/ s = [r EXCEPT !.draft = DropMention(ui.draft)] /\ key = "escape"
      \/ s = r
  BY DEF CompletionKey
<1>. QED
  BY <1>2, <1>3, <1>4, <1>5, <1>6

(* App writes the draft alone, and never with a key that the prompt takes, *)
(* but for Enter on a mention.                                             *)
LEMMA AppKeyIs ==
  ASSUME TypesOK, NEW key \in Keys, NEW r, UiOK(r)
  PROVE  LET s == AppKey(key, r)
         IN  /\ UiOK(s) /\ s.buffer = r.buffer
             /\ \/ s.draft = r.draft \/ key \in {"ctrl-g", "ctrl-y", "tab", "escape"}
                \/ key = "enter" /\ s.draft # ui.draft
<1>. DEFINE s == AppKey(key, r)
            Changed == s \in [draft : {r.draft}, buffer : {r.buffer}, open : SUBSET Dialogs,
                              navigator : BOOLEAN, help : BOOLEAN, approval : {r.approval},
                              stash : {r.stash}, index : {r.index}, saved : {r.saved},
                              submitted : {r.submitted}]
<1>1. CASE Changed
  BY <1>1 DEF UiOK
<1>2. CASE key = "ctrl-g" /\ s = Stash(r)
  <2>1. ui.draft \in Text /\ <<>> \in Text
    BY DEF TypesOK, UiOK, Text
  <2>. QED
    BY <1>2, <2>1 DEF Stash, UiOK
<1>3. CASE key = "ctrl-y" /\ s = Restore(r)
  <2>1. ui.stash \in Text \cup {NoText} /\ NoText \in Text \cup {NoText}
    BY DEF TypesOK, UiOK
  <2>2. CASE ui.stash # NoText /\ ui.draft = <<>>
    <3>1. s = [r EXCEPT !.draft = ui.stash, !.stash = NoText] /\ ui.stash \in Text
      BY <1>3, <2>1, <2>2 DEF Restore
    <3>. QED
      BY <3>1, <2>1, <1>3 DEF UiOK
  <2>3. CASE ~(ui.stash # NoText /\ ui.draft = <<>>)
    <3>1. s = r
      BY <1>3, <2>3 DEF Restore
    <3>. QED
      BY <3>1
  <2>. QED
    BY <2>2, <2>3
<1>4. CASE s = CompletionKey(key, r)
  BY <1>4, CompletionKeyIs
<1>5. CASE s = r
  BY <1>5
<1>6. CASE s = [r EXCEPT !.open = r.open \cup {"history"}] \/ s = [r EXCEPT !.open = r.open \ {"board"}]
  <2>1. r.open \cup {"history"} \in SUBSET Dialogs /\ r.open \ {"board"} \in SUBSET Dialogs
    BY DEF UiOK, Dialogs
  <2>. QED
    BY <1>6, <2>1 DEF UiOK
<1>7. CASE key \in {"ctrl-p", "ctrl-s", "ctrl-t"} /\ s = [r EXCEPT !.open = {Opened(key)}]
  <2>1. {Opened(key)} \in SUBSET Dialogs
    BY <1>7 DEF Opened, Dialogs
  <2>. QED
    BY <1>7, <2>1 DEF UiOK
<1>8. CASE \E b \in BOOLEAN : s = [r EXCEPT !.help = b] \/ s = [r EXCEPT !.navigator = b]
  BY <1>8 DEF UiOK
<1>9. \/ key = "ctrl-g" /\ s = Stash(r)
      \/ key = "ctrl-y" /\ s = Restore(r)
      \/ s = CompletionKey(key, r) \/ s = r
      \/ s = [r EXCEPT !.open = r.open \cup {"history"}] \/ s = [r EXCEPT !.open = r.open \ {"board"}]
      \/ key \in {"ctrl-p", "ctrl-s", "ctrl-t"} /\ s = [r EXCEPT !.open = {Opened(key)}]
      \/ \E b \in BOOLEAN : s = [r EXCEPT !.help = b] \/ s = [r EXCEPT !.navigator = b]
  BY DEF AppKey
<1>. QED
  BY <1>2, <1>3, <1>4, <1>5, <1>6, <1>7, <1>8, <1>9

(* A dialog writes the draft alone, and only when one is open.             *)
Dialogue(r, s) == UiOK(s) /\ s.buffer = r.buffer /\ (ui.open = {} => s.draft = r.draft)

LEMMA HistoryKeyIs ==
  ASSUME TypesOK, NEW key \in Keys, NEW r, UiOK(r), NEW s \in HistoryKey(key, r)
  PROVE  Dialogue(r, s)
<1>. DEFINE closed == [r EXCEPT !.open = r.open \ {"history"}]
<1>1. r.open \ {"history"} \in SUBSET Dialogs
  BY DEF UiOK
<1>2. Dialogue(r, r) /\ Dialogue(r, closed)
  BY <1>1 DEF Dialogue, UiOK
<1>3. ASSUME "history" \in ui.open, NEW i \in DOMAIN Filtered, s = [closed EXCEPT !.draft = Filtered[i].text]
      PROVE  Dialogue(r, s)
  <2>1. Filtered[i].text \in Text
    BY <1>3, FilteredAreTexts
  <2>. HIDE DEF closed
  <2>2. UiOK(closed) /\ closed.buffer = r.buffer
    BY <1>2 DEF Dialogue
  <2>. QED
    BY <1>3, <2>1, <2>2 DEF Dialogue, UiOK
<1>4. \/ s = r \/ s = closed
      \/ "history" \in ui.open /\ \E i \in DOMAIN Filtered : s = [closed EXCEPT !.draft = Filtered[i].text]
  BY DEF HistoryKey
<1>. QED
  BY <1>2, <1>3, <1>4

LEMMA QuickKeyIs ==
  ASSUME NEW key \in Keys, NEW r, UiOK(r), NEW s \in QuickKey(key, r)
  PROVE  Dialogue(r, s)
<1>. DEFINE closed == [r EXCEPT !.open = r.open \ {"quick"}]
<1>1. r.open \ {"quick"} \in SUBSET Dialogs
  BY DEF UiOK
<1>2. Dialogue(r, r) /\ Dialogue(r, closed) /\ closed.draft = r.draft
  BY <1>1 DEF Dialogue, UiOK
<1>3. Mentioned(r.draft) \in Text
  <2>1. At \in Chars /\ " " \in Chars /\ r.draft \in Text
    BY Letters DEF UiOK
  <2>2. <<At>> \in Text /\ <<" ">> \in Text /\ <<>> \in Text /\ Path \in Text
    <3>1. Path \in Text
      BY ComposerAssumption
    <3>2. <<>> \in Text
      BY DEF Text
    <3>. QED
      BY <2>1, <3>1, <3>2, OneCharacter
  <2>. DEFINE gap == IF r.draft # <<>> /\ r.draft[Len(r.draft)] # " " THEN <<" ">> ELSE <<>>
  <2>3. gap \in Text
    BY <2>2
  <2>. HIDE DEF gap
  <2>4. r.draft \o gap \in Text
    BY <2>1, <2>3, ConcatProperties DEF Text
  <2>5. (r.draft \o gap) \o <<At>> \in Text
    BY <2>2, <2>4, ConcatProperties DEF Text
  <2>6. ((r.draft \o gap) \o <<At>>) \o Path \in Text
    BY <2>2, <2>5, ConcatProperties DEF Text
  <2>7. (((r.draft \o gap) \o <<At>>) \o Path) \o <<" ">> \in Text
    BY <2>2, <2>6, ConcatProperties DEF Text
  <2>. QED
    BY <2>7 DEF Mentioned, gap
<1>4. ASSUME "quick" \in ui.open, s = [closed EXCEPT !.draft = Mentioned(closed.draft)]
      PROVE  Dialogue(r, s)
  <2>1. UiOK(closed) /\ closed.buffer = r.buffer /\ Mentioned(closed.draft) \in Text
    BY <1>2, <1>3 DEF Dialogue
  <2>. HIDE DEF closed
  <2>. QED
    BY <1>4, <2>1 DEF Dialogue, UiOK
<1>5. \/ s = r \/ s = closed
      \/ "quick" \in ui.open /\ s = [closed EXCEPT !.draft = Mentioned(closed.draft)]
  BY DEF QuickKey
<1>. QED
  BY <1>2, <1>4, <1>5

LEMMA DialogKeyIs ==
  ASSUME TypesOK, NEW key \in Keys, NEW r, UiOK(r), NEW s \in DialogKey(key, r)
  PROVE  Dialogue(r, s)
<1>1. CASE \E q \in QuickKey(key, r) : s \in HistoryKey(key, q)
  <2>1. PICK q \in QuickKey(key, r) : s \in HistoryKey(key, q)
    BY <1>1
  <2>2. Dialogue(r, q)
    BY QuickKeyIs
  <2>3. Dialogue(q, s)
    BY <2>1, <2>2, HistoryKeyIs DEF Dialogue
  <2>. QED
    BY <2>2, <2>3 DEF Dialogue
<1>2. CASE \E q \in HistoryKey(key, r) : s \in QuickKey(key, q)
  <2>1. PICK q \in HistoryKey(key, r) : s \in QuickKey(key, q)
    BY <1>2
  <2>2. Dialogue(r, q)
    BY HistoryKeyIs
  <2>3. Dialogue(q, s)
    BY <2>1, <2>2, QuickKeyIs DEF Dialogue
  <2>. QED
    BY <2>2, <2>3 DEF Dialogue
<1>3. \/ s \in UNION {HistoryKey(key, q) : q \in QuickKey(key, r)}
      \/ s \in UNION {QuickKey(key, q) : q \in HistoryKey(key, r)}
  BY Zenon DEF DialogKey
<1>4. ASSUME s \in UNION {HistoryKey(key, q) : q \in QuickKey(key, r)}
      PROVE  \E q \in QuickKey(key, r) : s \in HistoryKey(key, q)
  BY <1>4, Zenon
<1>5. ASSUME s \in UNION {QuickKey(key, q) : q \in HistoryKey(key, r)}
      PROVE  \E q \in HistoryKey(key, r) : s \in QuickKey(key, q)
  BY <1>5, Zenon
<1>. QED
  BY <1>1, <1>2, <1>3, <1>4, <1>5

LEMMA OtherKeysAre ==
  ASSUME NEW key \in Keys, NEW r, UiOK(r)
  PROVE  /\ Dialogue(r, OverlayKey(key, r)) /\ OverlayKey(key, r).draft = r.draft
         /\ \A s \in ListKey(key, r) : Dialogue(r, s) /\ s.draft = r.draft
<1>1. Dialogue(r, OverlayKey(key, r)) /\ OverlayKey(key, r).draft = r.draft
  BY DEF OverlayKey, Dialogue, UiOK
<1>2. ASSUME NEW s \in ListKey(key, r) PROVE Dialogue(r, s) /\ s.draft = r.draft
  <2>. DEFINE closed == [r EXCEPT !.open = r.open \ {"list"}]
  <2>1. r.open \ {"list"} \in SUBSET Dialogs
    BY DEF UiOK
  <2>2. s = r \/ s = closed \/ s = [closed EXCEPT !.navigator = TRUE]
    BY DEF ListKey
  <2>. QED
    BY <2>1, <2>2 DEF Dialogue, UiOK
<1>. QED
  BY <1>1, <1>2

-----------------------------------------------------------------------------
(* A render.                                                               *)

(* What the handlers make of ui: the prompt is as it was, or, where it is  *)
(* on the screen, it agrees with a draft that the render does not copy.    *)
Agrees(r) ==
  \/ r.buffer = ui.buffer
  \/ /\ ui.open = {} /\ Mounted(ui)
     /\ r.draft = ui.draft => r.buffer = r.draft \/ (r.buffer = <<>> /\ Blank(r.draft))

LEMMA HandledIs ==
  ASSUME TypesOK, DraftIsBuffer, NEW key \in Keys, NEW r \in Handled(key)
  PROVE  UiOK(r) /\ Agrees(r)
<1>. DEFINE first == AppKey(key, ui)
            typed == PromptKey(key, ui)
<1>1. UiOK(ui) /\ UiOK(first) /\ UiOK(typed)
  BY AppKeyIs, PromptKeyIs DEF TypesOK
<1>2. Focus => ui.open = {} /\ Mounted(ui)
  BY DEF Focus
<1>3. Focus /\ Blank(ui.buffer) => Blank(ui.draft)
  BY <1>2 DEF DraftIsBuffer
<1>4. CASE r = AppKey(key, typed)
  <2>. HIDE DEF typed
  <2>1. /\ UiOK(r) /\ r.buffer = typed.buffer
        /\ \/ r.draft = typed.draft \/ key \in {"ctrl-g", "ctrl-y", "tab", "escape"}
           \/ key = "enter" /\ r.draft # ui.draft
    BY <1>1, <1>4, AppKeyIs
  <2>2. \/ typed.draft = ui.draft /\ typed.buffer = ui.buffer
        \/ Focus /\ key \in {"up", "shift-up", "down", "?", "y"} /\ typed.buffer = typed.draft
        \/ /\ Focus /\ key = "enter" /\ typed.buffer = <<>>
           /\ typed.draft = <<>> \/ (typed.draft = ui.draft /\ Blank(ui.buffer))
    BY <1>1, PromptKeyIs DEF typed
  <2>3. CASE typed.draft = ui.draft /\ typed.buffer = ui.buffer
    BY <2>1, <2>3 DEF Agrees
  <2>4. CASE Focus /\ key \in {"up", "shift-up", "down", "?", "y"} /\ typed.buffer = typed.draft
    BY <2>1, <2>4, <1>2 DEF Agrees
  <2>5. CASE /\ Focus /\ key = "enter" /\ typed.buffer = <<>>
             /\ typed.draft = <<>> \/ (typed.draft = ui.draft /\ Blank(ui.buffer))
    BY <2>1, <2>5, <1>2, <1>3 DEF Agrees
  <2>. QED
    BY <2>2, <2>3, <2>4, <2>5
<1>5. CASE r = PromptKey(key, first)
  <2>. HIDE DEF first
  <2>1. /\ UiOK(r)
        /\ \/ r.draft = first.draft /\ r.buffer = first.buffer
           \/ Focus /\ key \in {"up", "shift-up", "down", "?", "y"} /\ r.buffer = r.draft
           \/ /\ Focus /\ key = "enter" /\ r.buffer = <<>>
              /\ r.draft = <<>> \/ (r.draft = first.draft /\ Blank(ui.buffer))
    BY <1>1, <1>5, PromptKeyIs
  <2>2. first.buffer = ui.buffer
    BY <1>1, AppKeyIs DEF first
  <2>. QED
    BY <2>1, <2>2, <1>2, <1>3 DEF Agrees
<1>6. CASE r = first
  <2>1. first.buffer = ui.buffer
    BY <1>1, AppKeyIs
  <2>. QED
    BY <1>1, <1>6, <2>1 DEF Agrees
<1>. QED
  BY <1>4, <1>5, <1>6 DEF Handled

LEMMA DialogueAgrees ==
  ASSUME NEW r, Agrees(r), NEW s, Dialogue(r, s)
  PROVE  Agrees(s)
BY DEF Agrees, Dialogue

LEMMA RenderKeeps ==
  ASSUME ComposerInv, NEW r, UiOK(r), Agrees(r), Render(r)
  PROVE  UiOK(ui)' /\ DraftIsBuffer' /\ SearchOfQuery'
         /\ search' \in [found : Text \cup {NoText}, loading : BOOLEAN, timer : Text \cup {NoText},
                         asked : SUBSET [query : Text, live : BOOLEAN]]
<1>1. ui' = Synced(r) /\ search' = Searched(r)
  BY DEF Render
<1>2. /\ UiOK(ui') /\ ui'.draft = r.draft /\ ui'.open = r.open /\ ui'.help = r.help
      /\ \/ ui'.buffer = ui'.draft
         \/ ui' = r /\ Mounted(ui) /\ r.draft = ui.draft
  BY <1>1 DEF Synced, UiOK
<1>3. DraftIsBuffer'
  <2>1. CASE ui'.buffer = ui'.draft
    BY <2>1 DEF DraftIsBuffer
  <2>2. CASE ui' = r /\ Mounted(ui) /\ r.draft = ui.draft
    <3>1. \/ r.buffer = ui.buffer
          \/ r.buffer = r.draft \/ (r.buffer = <<>> /\ Blank(r.draft))
      BY <2>2 DEF Agrees
    <3>2. ui.buffer = ui.draft \/ (ui.buffer = <<>> /\ Blank(ui.draft))
      BY <2>2 DEF ComposerInv, DraftIsBuffer
    <3>3. r.buffer = r.draft \/ (r.buffer = <<>> /\ Blank(r.draft))
      BY <2>2, <3>1, <3>2
    <3>. QED
      BY <2>2, <3>3 DEF DraftIsBuffer, Blank
  <2>. QED
    BY <1>2, <2>1, <2>2
<1>4. QueryOf(ui)' = QueryOf(r) /\ QueryOf(r) \in Text \cup {NoText}
  <2>1. QueryOf(ui') = QueryOf(r)
    BY <1>2 DEF QueryOf, MentionOverlay
  <2>2. r.draft \in Text
    BY DEF UiOK
  <2>3. MentionQuery(r.draft) \in Text
    BY <2>2, MentionIsText
  <2>. QED
    BY <2>1, <2>3 DEF QueryOf
<1>. DEFINE Searches == [found : Text \cup {NoText}, loading : BOOLEAN, timer : Text \cup {NoText},
                         asked : SUBSET [query : Text, live : BOOLEAN]]
<1>5. search \in Searches
  BY DEF ComposerInv, TypesOK
<1>6. CASE QueryOf(r) = QueryOf(ui)
  <2>1. search' = search
    BY <1>1, <1>6 DEF Searched
  <2>2. SearchOfQuery'
    BY <2>1, <1>4, <1>6 DEF ComposerInv, SearchOfQuery
  <2>. QED
    BY <1>2, <1>3, <1>5, <2>1, <2>2
<1>7. CASE QueryOf(r) # QueryOf(ui)
  <2>. DEFINE cancelled == {[request EXCEPT !.live = FALSE] : request \in search.asked}
  <2>1. search' = [found |-> IF QueryOf(r) = NoText THEN NoText ELSE search.found,
                   loading |-> QueryOf(r) # NoText, timer |-> QueryOf(r), asked |-> cancelled]
    BY <1>1, <1>7 DEF Searched
  <2>2. cancelled \in SUBSET [query : Text, live : BOOLEAN] /\ \A request \in cancelled : ~request.live
    BY <1>5
  <2>. HIDE DEF cancelled
  <2>3. search' \in Searches
    BY <1>4, <1>5, <2>1, <2>2
  <2>4. SearchOfQuery'
    BY <2>1, <2>2, <1>4 DEF SearchOfQuery
  <2>. QED
    BY <1>2, <1>3, <2>3, <2>4
<1>. QED
  BY <1>6, <1>7

-----------------------------------------------------------------------------
(* The steps.                                                              *)

LEMMA SubmissionKeepsEntries ==
  ASSUME TypesOK, NEW r, UiOK(r), Submission(r)
  PROVE  entries' \in Seq([mode : {"bash", "chat"}, text : Text])
<1>. DEFINE Items == [mode : {"bash", "chat"}, text : Text]
<1>1. entries \in Seq(Items)
  BY DEF TypesOK
<1>2. CASE r.submitted = NoText
  BY <1>1, <1>2 DEF Submission
<1>3. CASE r.submitted # NoText
  <2>1. r.submitted \in Text
    BY <1>3 DEF UiOK
  <2>2. Entry(r.submitted) \in Items
    BY <2>1 DEF Entry
  <2>3. entries' = Committed(r.submitted)
    BY <1>3 DEF Submission
  <2>. HIDE DEF Items
  <2>4. Append(entries, Entry(r.submitted)) \in Seq(Items)
    BY <1>1, <2>2
  <2>. QED
    BY <1>1, <2>3, <2>4 DEF Committed, Items
<1>. QED
  BY <1>2, <1>3

LEMMA RenderStep ==
  ASSUME ComposerInv, NEW r, UiOK(r), Agrees(r), Render(r),
         entries' \in Seq([mode : {"bash", "chat"}, text : Text])
  PROVE  ComposerInv'
<1>1. UiOK(ui)' /\ DraftIsBuffer' /\ SearchOfQuery'
  BY RenderKeeps
<1>2. search' \in [found : Text \cup {NoText}, loading : BOOLEAN, timer : Text \cup {NoText},
                   asked : SUBSET [query : Text, live : BOOLEAN]]
  BY RenderKeeps
<1>. QED
  BY <1>1, <1>2 DEF ComposerInv, TypesOK, UiOK

LEMMA PressKeeps ==
  ASSUME ComposerInv, NEW key \in Keys, Press(key)
  PROVE  ComposerInv'
<1>1. PICK r \in Handled(key) :
        \E d \in DialogKey(key, OverlayKey(key, r)) : \E s \in ListKey(key, d) :
          Render([s EXCEPT !.submitted = NoText]) /\ Submission(s)
  BY DEF Press
<1>2. PICK d \in DialogKey(key, OverlayKey(key, r)) : \E s \in ListKey(key, d) :
        Render([s EXCEPT !.submitted = NoText]) /\ Submission(s)
  BY <1>1
<1>3. PICK s \in ListKey(key, d) : Render([s EXCEPT !.submitted = NoText]) /\ Submission(s)
  BY <1>2
<1>4. TypesOK /\ DraftIsBuffer
  BY DEF ComposerInv
<1>5. UiOK(r) /\ Agrees(r)
  BY <1>4, HandledIs
<1>6. Dialogue(r, OverlayKey(key, r)) /\ UiOK(OverlayKey(key, r))
  BY <1>5, OtherKeysAre DEF Dialogue
<1>7. Dialogue(OverlayKey(key, r), d) /\ UiOK(d)
  BY <1>2, <1>4, <1>6, DialogKeyIs DEF Dialogue
<1>8. Dialogue(d, s) /\ UiOK(s)
  BY <1>3, <1>7, OtherKeysAre DEF Dialogue
<1>9. Agrees(s)
  BY <1>5, <1>6, <1>7, <1>8, DialogueAgrees
<1>. DEFINE after == [s EXCEPT !.submitted = NoText]
<1>10. UiOK(after) /\ Agrees(after)
  BY <1>8, <1>9 DEF UiOK, Agrees
<1>11. Render(after)
  BY <1>3
<1>12. entries' \in Seq([mode : {"bash", "chat"}, text : Text])
  BY <1>3, <1>4, <1>8, SubmissionKeepsEntries
<1>. HIDE DEF after
<1>. QED
  BY <1>10, <1>11, <1>12, RenderStep

LEMMA EditKeeps ==
  ASSUME ComposerInv, Edit
  PROVE  ComposerInv'
<1>1. PICK c \in 0..Len(ui.buffer) : \E b \in Edited(Buffer(ui.buffer, c)) :
        Render([ui EXCEPT !.buffer = b.value, !.draft = b.value])
  BY DEF Edit
<1>2. PICK b \in Edited(Buffer(ui.buffer, c)) : Render([ui EXCEPT !.buffer = b.value, !.draft = b.value])
  BY <1>1
<1>3. UiOK(ui) /\ entries \in Seq([mode : {"bash", "chat"}, text : Text])
  BY DEF ComposerInv, TypesOK
<1>4. ui.buffer \in Text
  BY <1>3 DEF UiOK
<1>5. b.value \in Text
  BY <1>2, <1>4, EditedIsText
<1>. DEFINE after == [ui EXCEPT !.buffer = b.value, !.draft = b.value]
<1>6. ui.open = {} /\ Mounted(ui)
  BY DEF Edit, Focus
<1>7. UiOK(after) /\ Agrees(after)
  BY <1>3, <1>5, <1>6 DEF UiOK, Agrees
<1>8. entries' = entries /\ Render(after)
  BY <1>2 DEF Edit
<1>. HIDE DEF after
<1>. QED
  BY <1>3, <1>7, <1>8, RenderStep

LEMMA AloneKeeps ==
  ASSUME ComposerInv,
         QueuedPromptSent \/ BoardClosed \/ ApprovalAsked
           \/ (\E kind \in {"chat", "command"} : Settled(kind)) \/ UNCHANGED vars
  PROVE  ComposerInv'
<1>1. UiOK(ui) /\ entries \in Seq([mode : {"bash", "chat"}, text : Text])
  BY DEF ComposerInv, TypesOK
<1>2. CASE QueuedPromptSent
  <2>1. Render([ui EXCEPT !.draft = <<>>]) /\ entries' = entries
    BY <1>2 DEF QueuedPromptSent
  <2>2. <<>> \in Text
    BY DEF Text
  <2>. DEFINE after == [ui EXCEPT !.draft = <<>>]
  <2>3. UiOK(after) /\ Agrees(after)
    BY <1>1, <2>2 DEF UiOK, Agrees
  <2>. HIDE DEF after
  <2>. QED
    BY <1>1, <2>1, <2>3, RenderStep DEF after
<1>3. CASE BoardClosed
  <2>1. Render([ui EXCEPT !.open = ui.open \ {"board"}]) /\ entries' = entries
    BY <1>3 DEF BoardClosed
  <2>2. ui.open \ {"board"} \in SUBSET Dialogs
    BY <1>1 DEF UiOK
  <2>. DEFINE after == [ui EXCEPT !.open = ui.open \ {"board"}]
  <2>3. UiOK(after) /\ Agrees(after)
    BY <1>1, <2>2 DEF UiOK, Agrees
  <2>. HIDE DEF after
  <2>. QED
    BY <1>1, <2>1, <2>3, RenderStep DEF after
<1>4. CASE ApprovalAsked
  <2>1. ui' = [ui EXCEPT !.approval = TRUE] /\ entries' = entries /\ search' = search
    BY <1>4 DEF ApprovalAsked
  <2>2. UiOK(ui') /\ Mounted(ui') = Mounted(ui) /\ QueryOf(ui') = QueryOf(ui)
        /\ ui'.draft = ui.draft /\ ui'.buffer = ui.buffer
    BY <1>1, <2>1 DEF UiOK, Mounted, QueryOf, MentionOverlay
  <2>3. DraftIsBuffer'
    BY <2>2 DEF ComposerInv, DraftIsBuffer, Blank
  <2>4. SearchOfQuery'
    BY <2>1, <2>2 DEF ComposerInv, SearchOfQuery
  <2>5. TypesOK'
    BY <2>1, <2>2 DEF ComposerInv, TypesOK, UiOK
  <2>. QED
    BY <2>3, <2>4, <2>5 DEF ComposerInv
<1>5. CASE (\E kind \in {"chat", "command"} : Settled(kind)) \/ UNCHANGED vars
  <2>1. UNCHANGED <<ui, entries, search>>
    BY <1>5 DEF Settled, vars
  <2>2. DraftIsBuffer'
    BY <2>1 DEF ComposerInv, DraftIsBuffer, Mounted, Blank
  <2>3. SearchOfQuery'
    BY <2>1 DEF ComposerInv, SearchOfQuery, QueryOf, MentionOverlay
  <2>4. TypesOK'
    BY <2>1 DEF ComposerInv, TypesOK, UiOK
  <2>. QED
    BY <2>2, <2>3, <2>4 DEF ComposerInv
<1>. QED
  BY <1>2, <1>3, <1>4, <1>5

LEMMA SearchKeeps ==
  ASSUME ComposerInv, SearchAsked \/ \E request \in search.asked : SearchAnswered(request)
  PROVE  ComposerInv'
<1>. DEFINE Searches == [found : Text \cup {NoText}, loading : BOOLEAN, timer : Text \cup {NoText},
                         asked : SUBSET [query : Text, live : BOOLEAN]]
<1>1. search \in Searches
  BY DEF ComposerInv, TypesOK
<1>2. UNCHANGED <<ui, entries>>
  BY DEF SearchAsked, SearchAnswered
<1>3. search' \in Searches /\ SearchOfQuery'
  <2>1. /\ search.timer \in {NoText, QueryOf(ui)}
        /\ \A request \in search.asked : request.live => request.query = QueryOf(ui)
        /\ ~search.loading => search.found \in {NoText, QueryOf(ui)}
    BY DEF ComposerInv, SearchOfQuery
  <2>2. QueryOf(ui)' = QueryOf(ui)
    BY <1>2 DEF QueryOf, MentionOverlay
  <2>3. CASE SearchAsked
    <3>1. search.timer # NoText /\ search.timer \in Text
      BY <1>1, <2>3 DEF SearchAsked
    <3>2. search' = [search EXCEPT !.timer = NoText,
                       !.asked = search.asked \cup {[query |-> search.timer, live |-> TRUE]}]
      BY <2>3 DEF SearchAsked
    <3>. DEFINE asking == [query |-> search.timer, live |-> TRUE]
    <3>0. asking \in [query : Text, live : BOOLEAN]
      BY <3>1
    <3>. HIDE DEF asking
    <3>3. search' \in Searches
      <4>1. search.asked \cup {asking} \in SUBSET [query : Text, live : BOOLEAN]
        BY <1>1, <3>0
      <4>2. search' = [search EXCEPT !.timer = NoText, !.asked = search.asked \cup {asking}]
        BY <3>2 DEF asking
      <4>. QED
        BY <1>1, <4>1, <4>2
    <3>. USE DEF asking
    <3>4. /\ search'.timer = NoText /\ search'.loading = search.loading /\ search'.found = search.found
          /\ \A request \in search'.asked :
               request \in search.asked \/ request.query = search.timer
      BY <1>1, <3>2
    <3>5. SearchOfQuery'
      BY <2>1, <2>2, <3>1, <3>4 DEF SearchOfQuery
    <3>. QED
      BY <3>3, <3>5
  <2>4. CASE \E request \in search.asked : SearchAnswered(request)
    <3>1. PICK request \in search.asked : SearchAnswered(request)
      BY <2>4
    <3>2. PICK found \in {request.query, NoText} :
            search' = IF request.live
                      THEN [search EXCEPT !.found = found, !.loading = FALSE,
                                          !.asked = search.asked \ {request}]
                      ELSE [search EXCEPT !.asked = search.asked \ {request}]
      BY <3>1 DEF SearchAnswered
    <3>3. request.query \in Text /\ request.live \in BOOLEAN
      BY <1>1
    <3>4. CASE request.live
      <4>1. search' = [search EXCEPT !.found = found, !.loading = FALSE,
                                     !.asked = search.asked \ {request}]
        BY <3>2, <3>4
      <4>2. search' \in Searches
        BY <1>1, <3>3, <4>1
      <4>3. /\ search'.timer = search.timer /\ search'.found = found
            /\ search'.asked = search.asked \ {request}
        BY <1>1, <4>1
      <4>4. found \in {NoText, QueryOf(ui)}
        BY <2>1, <3>4
      <4>5. SearchOfQuery'
        BY <2>1, <2>2, <4>3, <4>4 DEF SearchOfQuery
      <4>. QED
        BY <4>2, <4>5
    <3>5. CASE ~request.live
      <4>1. search' = [search EXCEPT !.asked = search.asked \ {request}]
        BY <3>2, <3>5
      <4>2. search' \in Searches
        BY <1>1, <4>1
      <4>3. /\ search'.timer = search.timer /\ search'.found = search.found
            /\ search'.loading = search.loading
            /\ search'.asked = search.asked \ {request}
        BY <1>1, <4>1
      <4>4. SearchOfQuery'
        BY <2>1, <2>2, <4>3 DEF SearchOfQuery
      <4>. QED
        BY <4>2, <4>4
    <3>. QED
      BY <3>3, <3>4, <3>5
  <2>. QED
    BY <2>3, <2>4
<1>4. DraftIsBuffer'
  BY <1>2 DEF ComposerInv, DraftIsBuffer, Mounted, Blank
<1>5. UiOK(ui)' /\ entries' \in Seq([mode : {"bash", "chat"}, text : Text])
  BY <1>2 DEF ComposerInv, TypesOK, UiOK
<1>. QED
  BY <1>3, <1>4, <1>5 DEF ComposerInv, TypesOK, UiOK

THEOREM ComposerInvHolds == Spec => []ComposerInv
<1>1. Init => ComposerInv
  <2>. SUFFICES ASSUME Init PROVE ComposerInv
    OBVIOUS
  <2>2. <<>> \in Text /\ NoIndex \in Int /\ {} \in SUBSET Dialogs
    BY DEF Text, NoIndex
  <2>3. UiOK(ui)
    BY <2>2 DEF Init, UiOK
  <2>4. TypesOK
    BY <2>3 DEF Init, TypesOK
  <2>5. SearchOfQuery
    BY DEF Init, SearchOfQuery
  <2>6. DraftIsBuffer
    BY DEF Init, DraftIsBuffer
  <2>. QED
    BY <2>4, <2>5, <2>6 DEF ComposerInv
<1>2. ComposerInv /\ [Next]_vars => ComposerInv'
  <2>. SUFFICES ASSUME ComposerInv, [Next]_vars PROVE ComposerInv'
    OBVIOUS
  <2>2. CASE \E key \in Keys : Press(key)
    BY <2>2, PressKeeps
  <2>3. CASE Edit
    BY <2>3, EditKeeps
  <2>4. CASE SearchAsked \/ \E request \in search.asked : SearchAnswered(request)
    BY <2>4, SearchKeeps
  <2>5. CASE QueuedPromptSent \/ BoardClosed \/ ApprovalAsked
               \/ (\E kind \in {"chat", "command"} : Settled(kind)) \/ UNCHANGED vars
    BY <2>5, AloneKeeps
  <2>. QED
    BY <2>2, <2>3, <2>4, <2>5 DEF Next
<1>. QED
  BY <1>1, <1>2, PTL DEF Spec

(* Whatever keys, dialogs, completions, recalls, stashes, remounts and     *)
(* queued prompts that are sent did to either: the text on the screen is   *)
(* the draft from which App derives mode, overlays and Ctrl-G, but for an  *)
(* Enter on a blank text.                                                  *)
THEOREM PromptShowsTheDraft == Spec => []DraftIsBuffer
<1>1. ComposerInv => DraftIsBuffer
  BY DEF ComposerInv
<1>. QED
  BY <1>1, ComposerInvHolds, PTL

(* Whatever order the file searches are answered in, and whenever they are *)
(* cancelled: the matches that are shown as loaded, and that Tab and Enter *)
(* pick from, are of the query in the draft.                               *)
THEOREM MatchesAreOfTheDraft == Spec => []MatchesCurrent
<1>1. ComposerInv => MatchesCurrent
  BY DEF ComposerInv, SearchOfQuery, MatchesCurrent, QueryOf
<1>. QED
  BY <1>1, ComposerInvHolds, PTL

-----------------------------------------------------------------------------
(* What is written.                                                        *)

(* Between keys nothing is being submitted.                                *)
AtRest == ui.submitted = NoText /\ keys \in Nat

Same(r, s) ==
  s.stash = r.stash /\ s.index = r.index /\ s.saved = r.saved /\ s.submitted = r.submitted

(* r and s differ in what the prompt shows.                                *)
SameButText(r, s) ==
  /\ Same(r, s)
  /\ s.open = r.open /\ s.navigator = r.navigator /\ s.help = r.help /\ s.approval = r.approval

LEMMA TextAlone ==
  ASSUME NEW r, UiOK(r), NEW s, UiOK(s), SameButText(r, s)
  PROVE  s = [r EXCEPT !.draft = s.draft, !.buffer = s.buffer]
BY DEF UiOK, SameButText, Same

LEMMA ChoiceAlone ==
  ASSUME NEW r, UiOK(r), NEW s, UiOK(s), Same(r, s)
  PROVE  s = [r EXCEPT !.draft = s.draft, !.buffer = s.buffer, !.open = s.open,
                       !.help = s.help, !.approval = s.approval, !.navigator = s.navigator]
BY DEF UiOK, Same

LEMMA Rendered ==
  ASSUME NEW r, UiOK(r), Render(r)
  PROVE  /\ UiOK(ui') /\ SameButText(r, ui') /\ ui'.draft = r.draft
BY DEF Render, Synced, UiOK, SameButText, Same

(* What the prompt does.                                                   *)
Entering(s) ==
  Focus /\ Trim(ui.buffer) # <<>> /\ s.submitted = Trim(ui.buffer) /\ s.index = NoIndex

Recalling(r, s) ==
  /\ Focus /\ s.submitted = r.submitted
  /\ \/ ui.index = NoIndex /\ s.saved = ui.buffer
     \/ ui.index # NoIndex /\ (s.saved = r.saved \/ s.index = NoIndex)

LEMMA PromptWrites ==
  ASSUME TypesOK, NEW key \in Keys, NEW r, UiOK(r)
  PROVE  LET s == PromptKey(key, r)
         IN  \/ s = r
             \/ key = "enter" /\ s.draft = r.draft /\ Same(r, s)
             \/ key = "enter" /\ Entering(s) /\ s.stash = r.stash
             \/ key \in {"up", "shift-up", "down"} /\ Recalling(r, s) /\ s.stash = r.stash
             \/ Focus /\ key \in {"?", "y"} /\ SameButText(r, s)
<1>. DEFINE s == PromptKey(key, r)
<1>1. CASE Focus /\ key = "enter"
  <2>1. s = Entered(r)
    BY <1>1 DEF PromptKey
  <2>2. CASE Trim(ui.buffer) = <<>>
    BY <1>1, <2>1, <2>2 DEF Entered, UiOK, Same
  <2>3. CASE Trim(ui.buffer) # <<>>
    BY <1>1, <2>1, <2>3 DEF Entered, UiOK, Entering
  <2>. QED
    BY <2>2, <2>3
<1>2. ASSUME NEW q, UiOK(q), NEW i
      PROVE  /\ Recalled(q, i).stash = q.stash /\ Recalled(q, i).saved = q.saved
             /\ Recalled(q, i).submitted = q.submitted
  BY <1>2 DEF Recalled, UiOK
<1>3. CASE Focus /\ key \in {"up", "shift-up"} /\ ~Overlay
  <2>1. s = Previous(r)
    BY <1>3 DEF PromptKey
  <2>. DEFINE q == [r EXCEPT !.saved = ui.buffer]
  <2>2. UiOK(q) /\ q.saved = ui.buffer /\ q.stash = r.stash /\ q.submitted = r.submitted
    BY DEF TypesOK, UiOK
  <2>3. \/ s = r
        \/ ui.index = NoIndex /\ s = Recalled(q, Len(Filtered))
        \/ ui.index # NoIndex /\ s = Recalled(r, AtLeast(1, ui.index - 1))
    BY <2>1 DEF Previous
  <2>. HIDE DEF s, q
  <2>4. s = r \/ (Recalling(r, s) /\ s.stash = r.stash)
    BY <1>2, <1>3, <2>2, <2>3 DEF Recalling
  <2>. QED
    BY <1>3, <2>4 DEF s
<1>4. CASE Focus /\ key = "down" /\ ~Overlay
  <2>1. s = Following(r)
    BY <1>4 DEF PromptKey
  <2>2. \/ s = r
        \/ /\ ui.index # NoIndex
           /\ s = [r EXCEPT !.index = NoIndex, !.draft = ui.saved, !.buffer = ui.saved, !.saved = <<>>]
        \/ ui.index # NoIndex /\ s = Recalled(r, ui.index + 1)
    BY <2>1 DEF Following
  <2>. HIDE DEF s
  <2>3. s = r \/ (Recalling(r, s) /\ s.stash = r.stash)
    BY <1>2, <1>4, <2>2 DEF Recalling, UiOK
  <2>. QED
    BY <1>4, <2>3 DEF s
<1>5. CASE Focus /\ key \in {"?", "y"}
  <2>1. s = [r EXCEPT !.buffer = Append(ui.buffer, key), !.draft = Append(ui.buffer, key)]
    BY <1>5 DEF PromptKey
  <2>. QED
    BY <1>5, <2>1 DEF UiOK, SameButText, Same
<1>6. s = r \/ (Focus /\ (\/ key = "enter" \/ (key \in {"up", "shift-up", "down"} /\ ~Overlay)
                           \/ key \in {"?", "y"}))
  BY DEF PromptKey
<1>. QED
  BY <1>1, <1>3, <1>4, <1>5, <1>6

(* What App does.                                                          *)
LEMMA AppWrites ==
  ASSUME NEW key \in Keys, NEW r, UiOK(r)
  PROVE  LET s == AppKey(key, r)
         IN  /\ s.index = r.index /\ s.saved = r.saved /\ s.submitted = r.submitted
             /\ \/ s.draft = r.draft /\ s.stash = r.stash
                \/ key = "ctrl-g" /\ s.stash = ui.draft
                \/ key = "ctrl-y" /\ ui.draft = <<>> /\ s.draft = ui.stash
                \/ key \in {"tab", "enter", "escape"} /\ Overlay /\ s.stash = r.stash
<1>. DEFINE s == AppKey(key, r)
<1>1. CASE key = "ctrl-g" /\ s = Stash(r)
  BY <1>1 DEF Stash, UiOK
<1>2. CASE key = "ctrl-y" /\ s = Restore(r)
  BY <1>2 DEF Restore, UiOK
<1>3. CASE s = CompletionKey(key, r)
  <2>1. \/ s = r
        \/ key = "tab" /\ SlashOverlay /\ \E text : s = [r EXCEPT !.draft = text]
        \/ key \in {"tab", "enter", "escape"} /\ MentionOverlay(ui) /\ \E text : s = [r EXCEPT !.draft = text]
    BY <1>3 DEF CompletionKey
  <2>. QED
    BY <2>1 DEF UiOK, Overlay
<1>4. CASE s = r
  BY <1>4
<1>5. CASE \E o : s = [r EXCEPT !.open = o] \/ s = [r EXCEPT !.help = o] \/ s = [r EXCEPT !.navigator = o]
  BY <1>5 DEF UiOK
<1>6. \/ key = "ctrl-g" /\ s = Stash(r)
      \/ key = "ctrl-y" /\ s = Restore(r)
      \/ s = CompletionKey(key, r) \/ s = r
      \/ \E o : s = [r EXCEPT !.open = o] \/ s = [r EXCEPT !.help = o] \/ s = [r EXCEPT !.navigator = o]
  BY DEF AppKey
<1>. QED
  BY <1>1, <1>2, <1>3, <1>4, <1>5, <1>6

(* A character in the prompt is not one of App's keys.                     *)
LEMMA AppLeavesCharacters ==
  ASSUME Focus, ui.draft # <<>>, NEW key \in {"?", "y"}, NEW r
  PROVE  AppKey(key, r) = r
BY DEF Focus, AppKey, CompletionKey

(* The dialogs choose text.                                                *)
Chooses(key, r, s) ==
  Same(r, s) /\ (s.draft = r.draft \/ (ui.open # {} /\ key \in {"enter", "tab"}))

LEMMA DialogChooses ==
  ASSUME TypesOK, NEW key \in Keys, NEW r, UiOK(r), NEW s \in DialogKey(key, r)
  PROVE  UiOK(s) /\ Chooses(key, r, s) /\ (key \in {"?", "y"} => s = r)
<1>1. ASSUME NEW p, UiOK(p), NEW q \in HistoryKey(key, p)
      PROVE  UiOK(q) /\ Chooses(key, p, q) /\ (key \in {"?", "y"} => q = p)
  <2>1. UiOK(q)
    BY <1>1, HistoryKeyIs DEF Dialogue
  <2>. DEFINE closed == [p EXCEPT !.open = p.open \ {"history"}]
  <2>2. \/ q = p
        \/ /\ "history" \in ui.open /\ key \in {"enter", "escape"}
           /\ q = closed \/ (key = "enter" /\ \E i \in DOMAIN Filtered : q = [closed EXCEPT !.draft = Filtered[i].text])
    BY <1>1 DEF HistoryKey
  <2>. QED
    BY <1>1, <2>1, <2>2 DEF Chooses, Same, UiOK
<1>2. ASSUME NEW p, UiOK(p), NEW q \in QuickKey(key, p)
      PROVE  UiOK(q) /\ Chooses(key, p, q) /\ (key \in {"?", "y"} => q = p)
  <2>1. UiOK(q)
    BY <1>2, QuickKeyIs DEF Dialogue
  <2>. DEFINE closed == [p EXCEPT !.open = p.open \ {"quick"}]
  <2>2. \/ q = p
        \/ /\ "quick" \in ui.open /\ key \in {"enter", "tab", "escape"}
           /\ \/ q = closed
              \/ key \in {"enter", "tab"} /\ q = [closed EXCEPT !.draft = Mentioned(closed.draft)]
    BY <1>2 DEF QuickKey
  <2>. QED
    BY <1>2, <2>1, <2>2 DEF Chooses, Same, UiOK
<1>3. ASSUME NEW p, NEW q, Chooses(key, r, p), Chooses(key, p, q)
      PROVE  Chooses(key, r, q)
  BY <1>3 DEF Chooses, Same
<1>4. \/ s \in UNION {HistoryKey(key, q) : q \in QuickKey(key, r)}
      \/ s \in UNION {QuickKey(key, q) : q \in HistoryKey(key, r)}
  BY Zenon DEF DialogKey
<1>5. ASSUME s \in UNION {HistoryKey(key, q) : q \in QuickKey(key, r)}
      PROVE  \E q \in QuickKey(key, r) : s \in HistoryKey(key, q)
  BY <1>5, Zenon
<1>6. ASSUME s \in UNION {QuickKey(key, q) : q \in HistoryKey(key, r)}
      PROVE  \E q \in HistoryKey(key, r) : s \in QuickKey(key, q)
  BY <1>6, Zenon
<1>7. CASE \E q \in QuickKey(key, r) : s \in HistoryKey(key, q)
  BY <1>1, <1>2, <1>3, <1>7
<1>8. CASE \E q \in HistoryKey(key, r) : s \in QuickKey(key, q)
  BY <1>1, <1>2, <1>3, <1>8
<1>. QED
  BY <1>4, <1>5, <1>6, <1>7, <1>8

(* What all the handlers make of the texts.                                *)
Outcome(key, s) ==
  \/ Same(ui, s) /\ (s.draft = ui.draft \/ Overlay \/ ui.open # {} \/ ui.draft = <<>>)
  \/ Entering(s) /\ s.stash = ui.stash
  \/ Recalling(ui, s) /\ s.stash = ui.stash
  \/ key \in {"?", "y"} /\ Focus /\ SameButText(ui, s)
  \/ /\ s.index = ui.index /\ s.saved = ui.saved /\ s.submitted = ui.submitted
     /\ \/ key = "ctrl-g" /\ s.stash = ui.draft
        \/ key = "ctrl-y" /\ ui.draft = <<>> /\ s.draft = ui.stash

LEMMA HandledWrites ==
  ASSUME TypesOK, NEW key \in Keys, NEW r \in Handled(key)
  PROVE  Outcome(key, r)
<1>. DEFINE first == AppKey(key, ui)
            typed == PromptKey(key, ui)
<1>1. UiOK(ui) /\ UiOK(first) /\ UiOK(typed)
  BY AppKeyIs, PromptKeyIs DEF TypesOK
<1>2. /\ first.index = ui.index /\ first.saved = ui.saved /\ first.submitted = ui.submitted
      /\ \/ first.draft = ui.draft /\ first.stash = ui.stash
         \/ key = "ctrl-g" /\ first.stash = ui.draft
         \/ key = "ctrl-y" /\ ui.draft = <<>> /\ first.draft = ui.stash
         \/ key \in {"tab", "enter", "escape"} /\ Overlay /\ first.stash = ui.stash
  BY <1>1, AppWrites
<1>3. \/ typed = ui
      \/ key = "enter" /\ typed.draft = ui.draft /\ Same(ui, typed)
      \/ key = "enter" /\ Entering(typed) /\ typed.stash = ui.stash
      \/ key \in {"up", "shift-up", "down"} /\ Recalling(ui, typed) /\ typed.stash = ui.stash
      \/ Focus /\ key \in {"?", "y"} /\ SameButText(ui, typed)
  BY <1>1, PromptWrites
<1>4. CASE r = AppKey(key, typed)
  <2>1. Focus /\ key \in {"?", "y"} /\ ui.draft # <<>> => r = typed
    BY <1>4, AppLeavesCharacters
  <2>. HIDE DEF typed, first
  <2>2. /\ r.index = typed.index /\ r.saved = typed.saved /\ r.submitted = typed.submitted
        /\ \/ r.draft = typed.draft /\ r.stash = typed.stash
           \/ key = "ctrl-g" /\ r.stash = ui.draft
           \/ key = "ctrl-y" /\ ui.draft = <<>> /\ r.draft = ui.stash
           \/ key \in {"tab", "enter", "escape"} /\ Overlay /\ r.stash = typed.stash
    BY <1>1, <1>4, AppWrites
  <2>3. CASE typed = ui
    BY <2>2, <2>3 DEF Outcome, Same
  <2>4. CASE key = "enter" /\ typed.draft = ui.draft /\ Same(ui, typed)
    BY <2>2, <2>4 DEF Outcome, Same
  <2>5. CASE key = "enter" /\ Entering(typed) /\ typed.stash = ui.stash
    BY <2>2, <2>5 DEF Outcome, Entering
  <2>6. CASE key \in {"up", "shift-up", "down"} /\ Recalling(ui, typed) /\ typed.stash = ui.stash
    BY <2>2, <2>6 DEF Outcome, Recalling
  <2>7. CASE Focus /\ key \in {"?", "y"} /\ SameButText(ui, typed)
    BY <2>1, <2>2, <2>7 DEF Outcome, SameButText, Same
  <2>. QED
    BY <1>3, <2>3, <2>4, <2>5, <2>6, <2>7
<1>5. CASE r = PromptKey(key, first)
  <2>1. Focus /\ key \in {"?", "y"} /\ ui.draft # <<>> => first = ui
    BY AppLeavesCharacters
  <2>. HIDE DEF typed, first
  <2>2. \/ r = first
        \/ key = "enter" /\ r.draft = first.draft /\ Same(first, r)
        \/ key = "enter" /\ Entering(r) /\ r.stash = first.stash
        \/ key \in {"up", "shift-up", "down"} /\ Recalling(first, r) /\ r.stash = first.stash
        \/ Focus /\ key \in {"?", "y"} /\ SameButText(first, r)
    BY <1>1, <1>5, PromptWrites
  <2>3. CASE r = first
    BY <1>2, <2>3 DEF Outcome, Same
  <2>4. CASE key = "enter" /\ r.draft = first.draft /\ Same(first, r)
    BY <1>2, <2>4 DEF Outcome, Same
  <2>5. CASE key = "enter" /\ Entering(r) /\ r.stash = first.stash
    BY <1>2, <2>5 DEF Outcome
  <2>6. CASE key \in {"up", "shift-up", "down"} /\ Recalling(first, r) /\ r.stash = first.stash
    BY <1>2, <2>6 DEF Outcome, Recalling
  <2>7. CASE Focus /\ key \in {"?", "y"} /\ SameButText(first, r)
    BY <1>2, <2>1, <2>7 DEF Outcome, SameButText, Same
  <2>. QED
    BY <2>2, <2>3, <2>4, <2>5, <2>6, <2>7
<1>6. CASE r = first
  <2>. HIDE DEF typed, first
  <2>. QED
    BY <1>2, <1>6 DEF Outcome, Same
<1>. QED
  BY <1>4, <1>5, <1>6 DEF Handled

LEMMA ChosenOutcome ==
  ASSUME NEW key, NEW r, Outcome(key, r), NEW s, Chooses(key, r, s),
         key \in {"?", "y"} /\ Focus /\ SameButText(ui, r) => SameButText(ui, s)
  PROVE  Outcome(key, s)
BY DEF Outcome, Chooses, Same, Entering, Recalling

(* What a key leaves is what the render takes.                             *)
LEMMA PressWrites ==
  ASSUME TypesOK, NEW key \in Keys, Press(key)
  PROVE  \E s : /\ UiOK(s) /\ Outcome(key, s) /\ Submission(s) /\ keys' = keys + 1
                /\ Render([s EXCEPT !.submitted = NoText])
<1>1. PICK r \in Handled(key) :
        \E d \in DialogKey(key, OverlayKey(key, r)) : \E s \in ListKey(key, d) :
          Render([s EXCEPT !.submitted = NoText]) /\ Submission(s)
  BY DEF Press
<1>2. PICK d \in DialogKey(key, OverlayKey(key, r)) : \E s \in ListKey(key, d) :
        Render([s EXCEPT !.submitted = NoText]) /\ Submission(s)
  BY <1>1
<1>3. PICK s \in ListKey(key, d) : Render([s EXCEPT !.submitted = NoText]) /\ Submission(s)
  BY <1>2
<1>. DEFINE o == OverlayKey(key, r)
<1>4. UiOK(r) /\ Outcome(key, r)
  <2>1. UiOK(AppKey(key, ui)) /\ UiOK(PromptKey(key, ui))
    BY AppKeyIs, PromptKeyIs DEF TypesOK
  <2>2. UiOK(r)
    BY <2>1, AppKeyIs, PromptKeyIs DEF Handled
  <2>. QED
    BY <2>2, HandledWrites
<1>5. UiOK(o) /\ Outcome(key, o)
  <2>1. o.draft = r.draft /\ UiOK(o) /\ Chooses(key, r, o)
    <3>1. o.draft = r.draft /\ UiOK(o)
      BY <1>4, OtherKeysAre DEF Dialogue
    <3>2. Same(r, o)
      BY <1>4 DEF OverlayKey, UiOK, Same
    <3>. QED
      BY <3>1, <3>2 DEF Chooses
  <2>2. key \in {"?", "y"} /\ Focus /\ SameButText(ui, r) => SameButText(ui, o)
    BY <1>4 DEF OverlayKey, Focus, Mounted, SameButText, Same, UiOK
  <2>. HIDE DEF o
  <2>. QED
    BY <1>4, <2>1, <2>2, ChosenOutcome
<1>. HIDE DEF o
<1>6. d \in DialogKey(key, o)
  BY DEF o
<1>7. UiOK(d) /\ Outcome(key, d)
  BY <1>5, <1>6, DialogChooses, ChosenOutcome
<1>8. UiOK(s) /\ Outcome(key, s)
  <2>1. UiOK(s) /\ s.draft = d.draft
    BY <1>7, OtherKeysAre DEF Dialogue
  <2>2. Same(d, s)
    BY <1>7 DEF ListKey, Same, UiOK
  <2>3. Focus => s = d
    BY DEF Focus, ListKey
  <2>. QED
    BY <1>7, <2>1, <2>2, <2>3, ChosenOutcome DEF Chooses
<1>9. keys' = keys + 1
  BY DEF Press, Pressed
<1>. QED
  BY <1>3, <1>8, <1>9

(* What was submitted is in the history.                                   *)
LEMMA SubmittedIsKept ==
  ASSUME TypesOK, NEW r, UiOK(r), Submission(r), r.submitted # NoText
  PROVE  \E entry \in Range(entries') : entry.text = r.submitted
<1>. DEFINE e == Entry(r.submitted)
            Entries == [mode : {"bash", "chat"}, text : Text]
<1>1. entries' = Committed(r.submitted)
  BY DEF Submission
<1>2. e.text = r.submitted /\ e \in Entries
  BY DEF Entry, UiOK
<1>3. entries \in Seq(Entries)
  BY DEF TypesOK
<1>. HIDE DEF e, Entries
<1>4. CASE entries # <<>> /\ entries[Len(entries)] = e
  <2>1. entries' = entries /\ Len(entries) \in DOMAIN entries
    BY <1>1, <1>3, <1>4 DEF Committed, e
  <2>. QED
    BY <1>2, <1>4, <2>1 DEF Range
<1>5. CASE ~(entries # <<>> /\ entries[Len(entries)] = e)
  <2>1. entries' = Append(entries, e)
    BY <1>1, <1>5 DEF Committed, e
  <2>2. Len(entries) + 1 \in DOMAIN entries' /\ entries'[Len(entries) + 1] = e
    BY <1>2, <1>3, <2>1, AppendProperties, LenProperties
  <2>. QED
    BY <1>2, <2>2 DEF Range
<1>. QED
  BY <1>4, <1>5

(* What was written, is where TextKept says.                               *)
Stays(text) ==
  Kept(text)' \/
    \/ text = ui.draft /\ (Rewritten \/ Chosen \/ QueuedPromptSent)
    \/ text = ui.draft /\ ui.index # NoIndex /\ UNCHANGED <<ui.stash, entries>> /\ keys' # keys
    \/ text = ui.stash /\ ui'.stash = ui.draft
    \/ text = ui.saved /\ ui.index # NoIndex /\ ui'.index = NoIndex

LEMMA PressStays ==
  ASSUME ComposerInv, AtRest, NEW key \in Keys, Press(key), NEW text \in Written
  PROVE  Stays(text)
<1>1. TypesOK /\ UiOK(ui) /\ DraftIsBuffer
  BY DEF ComposerInv, TypesOK
<1>2. PICK s : /\ UiOK(s) /\ Outcome(key, s) /\ Submission(s) /\ keys' = keys + 1
               /\ Render([s EXCEPT !.submitted = NoText])
  BY <1>1, PressWrites
<1>3. ui.submitted = NoText /\ keys' # keys
  BY <1>2 DEF AtRest
<1>4. /\ UiOK(ui') /\ ui'.draft = s.draft /\ ui'.submitted = NoText
      /\ ui'.stash = s.stash /\ ui'.index = s.index /\ ui'.saved = s.saved
      /\ ui'.open = s.open /\ ui'.navigator = s.navigator /\ ui'.help = s.help
      /\ ui'.approval = s.approval
  <2>. DEFINE r == [s EXCEPT !.submitted = NoText]
  <2>1. /\ UiOK(r) /\ r.draft = s.draft /\ r.submitted = NoText
        /\ r.stash = s.stash /\ r.index = s.index /\ r.saved = s.saved
        /\ r.open = s.open /\ r.navigator = s.navigator /\ r.help = s.help
        /\ r.approval = s.approval
    BY <1>2 DEF UiOK
  <2>2. Render(r)
    BY <1>2
  <2>. HIDE DEF r
  <2>. QED
    BY <2>1, <2>2, Rendered DEF SameButText, Same
<1>5. s.submitted = ui.submitted => UNCHANGED <<entries, queue>>
  BY <1>2, <1>3 DEF Submission
<1>6. /\ ~Blank(text) /\ text # NoText /\ text # <<>>
      /\ text = ui.draft \/ text = ui.stash \/ (text = ui.saved /\ ui.index # NoIndex)
  BY DEF Written, Blank, Range
<1>7. ui'.draft = text \/ ui'.stash = text \/ ui'.saved = text => Stays(text)
  BY DEF Stays, Kept
<1>8. CASE Same(ui, s) /\ (s.draft = ui.draft \/ Overlay \/ ui.open # {} \/ ui.draft = <<>>)
  <2>1. Same(ui, ui')
    BY <1>3, <1>4, <1>8 DEF Same
  <2>2. CASE text = ui.draft /\ s.draft # ui.draft
    <3>1. Chosen
      BY <1>1, <1>3, <1>4, <1>6, <1>8, <2>1, <2>2, ChoiceAlone DEF Chosen
    <3>. QED
      BY <2>2, <3>1 DEF Stays
  <2>. QED
    BY <1>4, <1>6, <1>7, <2>1, <2>2 DEF Same
<1>9. CASE Entering(s) /\ s.stash = ui.stash
  <2>1. s.submitted = Trim(ui.buffer) /\ s.index = NoIndex /\ Mounted(ui) /\ s.submitted # <<>>
    BY <1>9 DEF Entering, Focus
  <2>2. s.submitted # NoText
    <3>1. Trim(ui.buffer) \in Text
      BY <1>1, TrimIsText DEF UiOK
    <3>. QED
      BY <2>1, <3>1, ComposerAssumption
  <2>3. CASE text = ui.draft
    <3>1. ui.buffer = ui.draft
      BY <1>1, <1>6, <2>1, <2>3 DEF DraftIsBuffer
    <3>2. \E entry \in Range(entries') : entry.text = s.submitted
      BY <1>1, <1>2, <2>2, SubmittedIsKept
    <3>3. s.submitted = Trim(text)
      BY <2>1, <2>3, <3>1
    <3>4. Kept(text)'
      BY <3>2, <3>3 DEF Kept
    <3>. QED
      BY <3>4 DEF Stays
  <2>. QED
    BY <1>4, <1>6, <1>7, <1>9, <2>1, <2>3 DEF Stays
<1>10. CASE Recalling(ui, s) /\ s.stash = ui.stash
  <2>1. UNCHANGED <<ui.stash, entries>>
    BY <1>4, <1>5, <1>10 DEF Recalling
  <2>2. CASE ui.index = NoIndex
    <3>1. s.saved = ui.buffer /\ Mounted(ui)
      BY <1>10, <2>2 DEF Recalling, Focus
    <3>2. text = ui.draft => ui.buffer = text
      BY <1>1, <1>6, <3>1 DEF DraftIsBuffer
    <3>. QED
      BY <1>4, <1>6, <1>7, <1>10, <2>2, <3>1, <3>2
  <2>3. CASE ui.index # NoIndex
    BY <1>3, <1>4, <1>6, <1>7, <1>10, <2>1, <2>3 DEF Stays, Recalling
  <2>. QED
    BY <2>2, <2>3
<1>11. CASE key \in {"?", "y"} /\ Focus /\ SameButText(ui, s)
  <2>1. SameButText(ui, ui')
    BY <1>3, <1>4, <1>11 DEF SameButText, Same
  <2>2. ui' = [ui EXCEPT !.draft = ui'.draft, !.buffer = ui'.buffer]
    BY <1>1, <1>4, <2>1, TextAlone
  <2>3. Rewritten
    BY <1>3, <1>5, <1>11, <2>2 DEF Rewritten, SameButText, Same
  <2>. QED
    BY <1>6, <1>7, <2>1, <2>3 DEF Stays, SameButText, Same
<1>12. CASE /\ s.index = ui.index /\ s.saved = ui.saved /\ s.submitted = ui.submitted
            /\ \/ key = "ctrl-g" /\ s.stash = ui.draft
               \/ key = "ctrl-y" /\ ui.draft = <<>> /\ s.draft = ui.stash
  BY <1>4, <1>6, <1>7, <1>12 DEF Stays
<1>. QED
  BY <1>2, <1>8, <1>9, <1>10, <1>11, <1>12 DEF Outcome

LEMMA EditStays ==
  ASSUME ComposerInv, AtRest, Edit
  PROVE  AtRest' /\ \A text \in Written : Stays(text)
<1>1. PICK c \in 0..Len(ui.buffer) : \E b \in Edited(Buffer(ui.buffer, c)) :
        Render([ui EXCEPT !.buffer = b.value, !.draft = b.value])
  BY DEF Edit
<1>2. PICK b \in Edited(Buffer(ui.buffer, c)) : Render([ui EXCEPT !.buffer = b.value, !.draft = b.value])
  BY <1>1
<1>3. UiOK(ui) /\ ui.buffer \in Text
  BY DEF ComposerInv, TypesOK, UiOK
<1>4. b.value \in Text
  BY <1>2, <1>3, EditedIsText
<1>. DEFINE after == [ui EXCEPT !.buffer = b.value, !.draft = b.value]
<1>5. UiOK(after) /\ SameButText(ui, after)
  BY <1>3, <1>4 DEF UiOK, SameButText, Same
<1>6. Render(after)
  BY <1>2
<1>. HIDE DEF after
<1>7. UiOK(ui') /\ SameButText(ui, ui')
  BY <1>5, <1>6, Rendered DEF SameButText, Same
<1>8. keys' = keys + 1 /\ UNCHANGED <<entries, queue>>
  BY DEF Edit, Pressed
<1>9. Rewritten
  <2>1. ui' = [ui EXCEPT !.draft = ui'.draft, !.buffer = ui'.buffer]
    BY <1>3, <1>7, TextAlone
  <2>2. keys' # keys
    BY <1>8 DEF AtRest
  <2>. QED
    BY <1>8, <2>1, <2>2 DEF Rewritten
<1>10. AtRest'
  BY <1>7, <1>8 DEF AtRest, SameButText, Same
<1>11. \A text \in Written : Stays(text)
  BY <1>7, <1>9 DEF Stays, Kept, Written, Blank, SameButText, Same
<1>. QED
  BY <1>10, <1>11

LEMMA AloneStays ==
  ASSUME ComposerInv, AtRest,
         QueuedPromptSent \/ BoardClosed \/ ApprovalAsked \/ SearchAsked
           \/ (\E request \in search.asked : SearchAnswered(request))
           \/ (\E kind \in {"chat", "command"} : Settled(kind)) \/ UNCHANGED vars
  PROVE  /\ AtRest'
         /\ \/ \A text \in Written : Stays(text)
            \/ UNCHANGED <<ui.draft, ui.stash, ui.index, ui.saved>>
<1>1. UiOK(ui)
  BY DEF ComposerInv, TypesOK
<1>2. CASE QueuedPromptSent
  <2>. DEFINE after == [ui EXCEPT !.draft = <<>>]
  <2>1. Render(after) /\ keys' = keys
    BY <1>2 DEF QueuedPromptSent
  <2>2. <<>> \in Text
    BY DEF Text
  <2>3. UiOK(after) /\ Same(ui, after)
    BY <1>1, <2>2 DEF UiOK, Same
  <2>. HIDE DEF after
  <2>4. Same(ui, ui')
    BY <2>1, <2>3, Rendered DEF SameButText, Same
  <2>5. AtRest'
    BY <2>1, <2>4 DEF AtRest, Same
  <2>6. \A text \in Written : Stays(text)
    BY <1>2, <2>4 DEF Stays, Kept, Written, Blank, Same
  <2>. QED
    BY <2>5, <2>6
<1>3. CASE BoardClosed
  <2>. DEFINE after == [ui EXCEPT !.open = ui.open \ {"board"}]
  <2>1. Render(after) /\ keys' = keys
    BY <1>3 DEF BoardClosed
  <2>2. ui.open \ {"board"} \in SUBSET Dialogs
    BY <1>1 DEF UiOK
  <2>3. UiOK(after) /\ Same(ui, after) /\ after.draft = ui.draft
    BY <1>1, <2>2 DEF UiOK, Same
  <2>. HIDE DEF after
  <2>4. Same(ui, ui') /\ ui'.draft = ui.draft
    BY <2>1, <2>3, Rendered DEF SameButText, Same
  <2>. QED
    BY <2>1, <2>4 DEF AtRest, Same
<1>4. CASE ApprovalAsked
  BY <1>1, <1>4 DEF ApprovalAsked, UiOK, AtRest
<1>5. CASE SearchAsked \/ \E request \in search.asked : SearchAnswered(request)
  <2>1. UNCHANGED <<ui, keys>>
    BY <1>5 DEF SearchAsked, SearchAnswered
  <2>. QED
    BY <2>1 DEF AtRest
<1>6. CASE (\E kind \in {"chat", "command"} : Settled(kind)) \/ UNCHANGED vars
  <2>1. UNCHANGED <<ui, keys>>
    BY <1>6 DEF Settled, vars
  <2>. QED
    BY <2>1 DEF AtRest
<1>. QED
  BY <1>2, <1>3, <1>4, <1>5, <1>6

LEMMA PressRests ==
  ASSUME ComposerInv, AtRest, NEW key \in Keys, Press(key)
  PROVE  AtRest'
<1>1. PICK s : UiOK(s) /\ keys' = keys + 1 /\ Render([s EXCEPT !.submitted = NoText])
  BY PressWrites DEF ComposerInv
<1>. DEFINE r == [s EXCEPT !.submitted = NoText]
<1>2. UiOK(r) /\ r.submitted = NoText /\ Render(r)
  BY <1>1 DEF UiOK
<1>. HIDE DEF r
<1>3. ui'.submitted = NoText
  BY <1>2, Rendered DEF SameButText, Same
<1>. QED
  BY <1>1, <1>3 DEF AtRest

LEMMA NextStays ==
  ASSUME ComposerInv, AtRest, [Next]_vars
  PROVE  /\ AtRest'
         /\ \/ \A text \in Written : Stays(text)
            \/ UNCHANGED <<ui.draft, ui.stash, ui.index, ui.saved>>
<1>1. CASE \E key \in Keys : Press(key)
  BY <1>1, PressRests, PressStays
<1>2. CASE Edit
  BY <1>2, EditStays
<1>3. CASE \/ QueuedPromptSent \/ BoardClosed \/ ApprovalAsked \/ SearchAsked
           \/ (\E request \in search.asked : SearchAnswered(request))
           \/ (\E kind \in {"chat", "command"} : Settled(kind)) \/ UNCHANGED vars
  BY <1>3, AloneStays
<1>. QED
  BY <1>1, <1>2, <1>3 DEF Next

(* Between keys nothing is being submitted: the prompt that a key submits  *)
(* is sent, queued and committed to the history by the same key.           *)
THEOREM NothingIsHalfSubmitted == Spec => []AtRest
<1>1. Init => AtRest
  BY DEF Init, AtRest
<1>2. ComposerInv /\ AtRest /\ [Next]_vars => AtRest'
  BY NextStays
<1>. QED
  BY <1>1, <1>2, ComposerInvHolds, PTL DEF Spec

(* Whatever the user has written is in the prompt, in the stash, behind a  *)
(* recall or in the history after any step that is not his own choice or   *)
(* one of the four losses that TextKept names: no key, dialog, completion, *)
(* remount, answered search or queued prompt drops it in another way.      *)
THEOREM WrittenTextIsKept == Spec => TextKept
<1>. DEFINE A == \A text \in Written : Kept(text)' \/
                   \/ text = ui.draft /\ (Rewritten \/ Chosen \/ QueuedPromptSent)
                   \/ text = ui.draft /\ ui.index # NoIndex /\ UNCHANGED <<ui.stash, entries>> /\ keys' # keys
                   \/ text = ui.stash /\ ui'.stash = ui.draft
                   \/ text = ui.saved /\ ui.index # NoIndex /\ ui'.index = NoIndex
<1>1. ComposerInv /\ AtRest /\ [Next]_vars => A \/ UNCHANGED <<ui.draft, ui.stash, ui.index, ui.saved>>
  BY NextStays DEF Stays
<1>. QED
  BY <1>1, ComposerInvHolds, NothingIsHalfSubmitted, PTL DEF Spec, TextKept

=============================================================================
