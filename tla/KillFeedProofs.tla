--------------------------- MODULE KillFeedProofs ---------------------------
(***************************************************************************)
(* Proofs about KillFeed, for any number of processes, cards, messages,    *)
(* starts and mishaps, and any sizes of group, window and backlog.         *)
(***************************************************************************)
EXTENDS KillFeed, Integers, FiniteSetTheorems, SequenceTheorems, WellFoundedInduction, TLAPS

-----------------------------------------------------------------------------
(* The inductive invariant.                                                *)

States == {"NONE", "QUEUED", "SHOWN", "REMOVED", "DROPPED"}
Pcs == {"off", "idle", "record", "choose", "send", "end", "exit"}

Windows == Seq([msg : Nat, cards : Nat])

Memory ==
    [pc : Pcs, pending : Seq(Cards), saved : SUBSET Cards, solo : SUBSET Cards,
     window : Windows, orphans : SUBSET Nat, group : Nat, marks : Seq(Cards), msg : Nat,
     gone : SUBSET Nat, drops : SUBSET Cards, final : BOOLEAN]

TypeOK ==
    /\ made \in 0..MaxCards
    /\ mem \in [Processes -> Memory]
    /\ row \in [Cards -> [state : States, msg : Nat]]
    /\ sent \in Seq([cards : Seq(Cards), shown : BOOLEAN])
    /\ forgot \in 0..Len(sent)
    /\ refused \subseteq Cards
    /\ used \in [starts : Nat, mishaps : Nat]
    /\ harm \subseteq {"journal", "overlap", "unrecorded", "crash", "forgot", "overflow", "stale"}

Increasing(s) == \A i, j \in DOMAIN s : i < j => s[i] < s[j]

\* Messages hold cards in the order they were queued, and none that Discord refuses.
Messages ==
    /\ \A i \in DOMAIN sent :
          /\ sent[i].cards # <<>>
          /\ Increasing(sent[i].cards)
          /\ Range(sent[i].cards) \cap refused = {}
    /\ forgot > 0 => "forgot" \in harm

\* A process's memory: its cards wait in order, those it just posted or
\* dropped came before them, and the flagged ones have a row.
Orderly(p) ==
    /\ mem[p].pc = "off" => mem[p] = Off
    /\ Increasing(mem[p].pending) /\ Increasing(mem[p].marks)
    /\ \A c \in Range(mem[p].pending) \cup Range(mem[p].marks) \cup mem[p].drops : c <= made
    /\ \A c \in Range(mem[p].pending), d \in Range(mem[p].marks) \cup mem[p].drops : d < c
    /\ mem[p].marks # <<>> => mem[p].drops = {} /\ mem[p].msg \in DOMAIN sent
    /\ mem[p].pc = "send" => mem[p].group \in 1..Len(mem[p].pending)
    /\ \A c \in mem[p].saved : row[c].state # "NONE"

Waiting ==
    /\ \A c \in Cards : row[c].state # "NONE" => c <= made
    /\ \A p \in Processes : Orderly(p)

\* The journal took every card that was sent, and no other process ran.
Whole == harm \cap {"journal", "overlap", "unrecorded"} = {}

Alone == \A p, q \in Processes : Running(p) /\ Running(q) => p = q

\* What a process holds, against the rows of the journal.
Held(p) ==
    /\ Running(p) => \A c \in Cards : row[c].state = "QUEUED" =>
          c \in Range(mem[p].pending) \cup Range(mem[p].marks) \cup mem[p].drops
    /\ \A c \in Range(mem[p].pending) :
          /\ row[c].state \in {"NONE", "QUEUED"}
          /\ row[c].state = "NONE" => \A d \in Cards : row[d].state # "NONE" => d < c
    /\ mem[p].pc = "send" => \A i \in 1..mem[p].group : mem[p].pending[i] \in mem[p].saved

\* The cards being marked are in their message, and no other waits before its end.
Marking(p) ==
    mem[p].marks # <<>> =>
        /\ \A c \in Range(mem[p].marks) : Holds(mem[p].msg, c)
        /\ \A c \in Range(mem[p].pending) : Last(sent[mem[p].msg].cards) < c

\* A card that still waits is in a message or comes after it; if the first of a
\* message waits, all of it does.
SentRows(i) ==
    /\ \A c \in Range(sent[i].cards) :
          /\ row[c].state # "NONE"
          /\ row[Head(sent[i].cards)].state = "QUEUED" => row[c].state = "QUEUED"
    /\ \A c \in Cards : row[c].state = "QUEUED" => Holds(i, c) \/ Last(sent[i].cards) < c

Journaled ==
    Whole => /\ Alone
             /\ \A p \in Processes : Held(p) /\ Marking(p)
             /\ \A i \in DOMAIN sent : SentRows(i)

\* A card that waits and was sent is in the message that the first card waiting heads.
Unanswered(p) ==
    \A i \in DOMAIN sent : \A c \in Range(mem[p].pending) :
        Holds(i, c) => Head(sent[i].cards) = Head(mem[p].pending)

\* Nothing went wrong: so it is for every process, and between two of them the
\* journal has a message's first card waiting if any card of it waits.
Calm ==
    harm = {} =>
        /\ \A p \in Processes : Unanswered(p)
        /\ (\A p \in Processes : ~Running(p)) =>
              \A i \in DOMAIN sent : \A c \in Range(sent[i].cards) :
                  row[c].state = "QUEUED" => row[Head(sent[i].cards)].state = "QUEUED"

\* What a process marks, drops and closes, against the messages: a card marked
\* heads no other message, one dropped is refused, one closed is out of the channel.
Closing(p) ==
    /\ \A c \in Range(mem[p].marks) : \A i \in DOMAIN sent : c = Head(sent[i].cards) => i = mem[p].msg
    /\ mem[p].marks # <<>> => mem[p].msg \in Ids(mem[p].window)
    /\ mem[p].drops \subseteq refused
    /\ \A i \in mem[p].gone \cap DOMAIN sent : ~sent[i].shown

\* The row of the first card of a message in the channel.
FirstRow(i) ==
    LET first == row[Head(sent[i].cards)]
    IN  first.state = "QUEUED" \/ first = [state |-> "SHOWN", msg |-> i]

\* A process that runs keeps a message whose first card is marked.
Keeping(p, i) ==
    Running(p) /\ row[Head(sent[i].cards)].state = "SHOWN" => i \in Ids(mem[p].window) \cup mem[p].orphans

Kept ==
    harm \subseteq {"crash"} =>
        /\ \A p \in Processes : Closing(p)
        /\ \A i \in DOMAIN sent : sent[i].shown =>
              FirstRow(i) /\ \A p \in Processes : Keeping(p, i)

FeedInv ==
    /\ TypeOK /\ Messages /\ Waiting /\ Journaled
    /\ RowsTrue /\ InOrder /\ SentOnce
    /\ Calm /\ Kept

-----------------------------------------------------------------------------
(* Numbers and ascending sequences.                                        *)

\* A nonempty set of naturals has a least element.
LEMMA Least ==
  ASSUME NEW T \in SUBSET Nat, T # {}
  PROVE  \E x \in T : \A y \in T : x <= y
  <1>1. IsWellFoundedOn(OpToRel(<, Nat), Nat)
    BY NatLessThanWellFounded
  <1>2. PICK x \in T : \A y \in T : ~ (<<y, x>> \in OpToRel(<, Nat))
    BY <1>1, WFMin
  <1>3. \A y \in T : ~(y < x)
    BY <1>2 DEF OpToRel
  <1> QED
    BY <1>3

\* A nonempty bounded set of naturals has a greatest element.
LEMMA Greatest ==
  ASSUME NEW n \in Nat, NEW T \in SUBSET (0..n), T # {}
  PROVE  \E x \in T : \A y \in T : y <= x
  <1> DEFINE U == {n - x : x \in T}
  <1>1. U \in SUBSET Nat /\ U # {}
    <2>1. \A x \in T : n - x \in Nat
      OBVIOUS
    <2>2. \A u \in U : u \in Nat
      BY <2>1
    <2> QED
      BY <2>2
  <1>2. PICK u \in U : \A y \in U : u <= y
    BY <1>1, Least
  <1>3. PICK x \in T : u = n - x
    OBVIOUS
  <1>4. ASSUME NEW y \in T PROVE y <= x
    <2>1. n - y \in U
      OBVIOUS
    <2> QED
      BY <1>2, <1>3, <2>1
  <1> QED
    BY <1>4

LEMMA FiniteNumbers ==
  ASSUME NEW n \in Nat, NEW S \in SUBSET (1..n)
  PROVE  IsFiniteSet(S) /\ Cardinality(S) \in Nat
  <1>1. IsFiniteSet(1..n)
    BY FS_Interval
  <1> QED
    BY <1>1, FS_Subset, FS_CardinalityType

\* Every set of numbers can be written in ascending order.
LEMMA AscendingExists ==
  ASSUME NEW n \in Nat
  PROVE  \A S \in SUBSET (1..n) : \E s \in [1..Cardinality(S) -> S] : Increasing(s)
  <1> DEFINE Fine(m) == \A S \in SUBSET (1..m) : \E s \in [1..Cardinality(S) -> S] : Increasing(s)
             Bad == {m \in Nat : ~Fine(m)}
  <1>1. SUFFICES ASSUME Bad # {} PROVE FALSE
    OBVIOUS
  <1>2. PICK m \in Nat : ~Fine(m) /\ \A k \in Nat : ~Fine(k) => m <= k
    <2> HIDE DEF Fine
    <2>1. PICK m \in Bad : \A k \in Bad : m <= k
      BY <1>1, Least
    <2> QED
      BY <2>1
  <1>3. ASSUME NEW S \in SUBSET (1..m)
        PROVE  \E s \in [1..Cardinality(S) -> S] : Increasing(s)
    <2>1. CASE m = 0
      <3>1. S = {} /\ Cardinality(S) = 0
        <4>1. S = {}
          BY <2>1, <1>3
        <4> QED
          BY <4>1, FS_EmptySet
      <3>2. [i \in {} |-> i] \in [1..Cardinality(S) -> S]
        BY <3>1
      <3>3. Increasing([i \in {} |-> i])
        BY DEF Increasing
      <3> QED
        BY <3>2, <3>3
    <2>2. CASE m # 0
      <3>2. Fine(m - 1)
        <4> HIDE DEF Fine
        <4>1. m - 1 \in Nat /\ ~(m <= m - 1)
          BY <2>2
        <4> QED
          BY <4>1, <1>2
      <3>3. CASE m \notin S
        <4>1. S \in SUBSET (1..(m - 1))
          BY <3>3
        <4> QED
          BY <3>2, <4>1
      <3>4. CASE m \in S
        <4> DEFINE R == S \ {m}
        <4>1. R \in SUBSET (1..(m - 1))
          OBVIOUS
        <4>2. PICK s \in [1..Cardinality(R) -> R] : Increasing(s)
          BY <3>2, <4>1
        <4>3. IsFiniteSet(S)
          BY FiniteNumbers
        <4>4. Cardinality(R) = Cardinality(S) - 1 /\ Cardinality(S) \in Nat /\ Cardinality(S) > 0
          BY <3>4, <4>3, FS_RemoveElement, FS_CardinalityType, FS_EmptySet
        <4> DEFINE k == Cardinality(S)
                   t == [i \in 1..k |-> IF i = k THEN m ELSE s[i]]
        <4> HIDE DEF k
        <4>5. k \in Nat /\ k > 0 /\ s \in [1..(k - 1) -> R]
          BY <4>2, <4>4 DEF k
        <4>6. ASSUME NEW i \in 1..k, i # k PROVE i \in 1..(k - 1) /\ s[i] \in R
          <5>1. i \in 1..(k - 1)
            BY <4>5, <4>6
          <5> QED
            BY <4>5, <5>1
        <4>7. t \in [1..k -> S]
          BY <3>4, <4>6
        <4>8. Increasing(t)
          <5> SUFFICES ASSUME NEW i \in 1..k, NEW j \in 1..k, i < j PROVE t[i] < t[j]
            BY <4>7 DEF Increasing
          <5>0. i # k
            BY <4>5
          <5>1. i \in 1..(k - 1) /\ s[i] \in R
            BY <4>6, <5>0
          <5>2. s[i] < m
            <6>1. s[i] \in 1..(m - 1)
              BY <4>1, <5>1
            <6> QED
              BY <6>1
          <5>3. j # k => j \in 1..(k - 1)
            BY <4>6
          <5>4. t[i] = s[i] /\ (j # k => t[j] = s[j]) /\ (j = k => t[j] = m)
            BY <5>0
          <5>5. j # k => s[i] < s[j]
            BY <4>2, <4>5, <5>1, <5>3 DEF Increasing
          <5> QED
            BY <5>2, <5>4, <5>5
        <4> QED
          BY <4>7, <4>8 DEF k
      <3> QED
        BY <3>3, <3>4
    <2> QED
      BY <2>1, <2>2
  <1> QED
    BY <1>2, <1>3

\* Ascending(S) holds every number of S, smaller ones first.
LEMMA AscendingProps ==
  ASSUME NEW n \in Nat, NEW S \in SUBSET (1..n)
  PROVE  /\ Ascending(S) \in Seq(S)
         /\ Len(Ascending(S)) = Cardinality(S)
         /\ Increasing(Ascending(S))
         /\ Range(Ascending(S)) = S
  <1> DEFINE s == Ascending(S)
  <1>1. s \in [1..Cardinality(S) -> S] /\ Increasing(s)
    BY AscendingExists DEF Ascending, Increasing
  <1>2. IsFiniteSet(S) /\ Cardinality(S) \in Nat
    BY FiniteNumbers
  <1>3. s \in Injection(1..Cardinality(S), S)
    <2>1. \A i, j \in 1..Cardinality(S) : i < j => s[i] < s[j]
      BY <1>1 DEF Increasing
    <2>2. ASSUME NEW i \in 1..Cardinality(S), NEW j \in 1..Cardinality(S), s[i] = s[j] PROVE i = j
      <3>1. s[i] \in 1..n /\ s[j] \in 1..n
        BY <1>1
      <3>2. ~(i < j) /\ ~(j < i)
        BY <2>1, <2>2, <3>1
      <3> QED
        BY <1>2, <3>2
    <2> QED
      BY <1>1, <2>2 DEF Injection, IsInjective
  <1>4. s \in Surjection(1..Cardinality(S), S)
    <2>1. Cardinality(1..Cardinality(S)) = Cardinality(S)
      BY <1>2, FS_Interval
    <2> QED
      BY <1>2, <1>3, <2>1, FS_Injection
  <1>5. Range(s) = S
    BY <1>1, <1>4 DEF Surjection, Range
  <1>6. s \in Seq(S) /\ Len(s) = Cardinality(S)
    BY <1>1, <1>2
  <1> QED
    BY <1>1, <1>5, <1>6

LEMMA IncreasingSeq ==
  ASSUME NEW s \in Seq(Nat), Increasing(s)
  PROVE  \A i, j \in 1..Len(s) : /\ i < j => s[i] < s[j]
                                 /\ s[i] = s[j] => i = j
                                 /\ s[i] < s[j] => i < j
                                 /\ i <= j => s[i] <= s[j]
  <1> SUFFICES ASSUME NEW i \in 1..Len(s), NEW j \in 1..Len(s)
               PROVE  /\ i < j => s[i] < s[j]
                      /\ s[i] = s[j] => i = j
                      /\ s[i] < s[j] => i < j
                      /\ i <= j => s[i] <= s[j]
    OBVIOUS
  <1>1. s[i] \in Nat /\ s[j] \in Nat /\ i \in Int /\ j \in Int /\ DOMAIN s = 1..Len(s)
    OBVIOUS
  <1>2. (i < j => s[i] < s[j]) /\ (j < i => s[j] < s[i])
    BY <1>1 DEF Increasing
  <1> QED
    BY <1>1, <1>2

\* An ascending sequence that holds all of another's numbers up to the last
\* of it, and no others up to there, begins with it.
LEMMA Prefix ==
  ASSUME NEW s \in Seq(Nat), NEW t \in Seq(Nat), Increasing(s), Increasing(t), t # <<>>,
         \A c \in Range(t) : c \in Range(s),
         \A c \in Range(s) : c <= t[Len(t)] => c \in Range(t)
  PROVE  Len(t) <= Len(s) /\ \A i \in 1..Len(t) : s[i] = t[i]
  <1> DEFINE Same(i) == i <= Len(s) /\ s[i] = t[i]
             Bad == {i \in 1..Len(t) : ~Same(i)}
  <1>1. DOMAIN s = 1..Len(s) /\ DOMAIN t = 1..Len(t) /\ Len(t) \in Nat \ {0} /\ Len(s) \in Nat
    OBVIOUS
  <1>2. ASSUME NEW i \in 1..Len(t), \A j \in 1..(i - 1) : Same(j)
        PROVE  Same(i)
    <2>1. \A j \in 1..Len(t) : j < i => j \in 1..(i - 1)
      OBVIOUS
    <2>2. PICK k \in 1..Len(s) : t[i] = s[k]
      BY <1>1 DEF Range
    <2>3. ~(k < i)
      <3> SUFFICES ASSUME k < i PROVE FALSE
        OBVIOUS
      <3>1. k \in 1..Len(t) /\ k \in 1..(i - 1)
        BY <1>1
      <3>2. s[k] = t[k]
        BY <1>2, <3>1
      <3> QED
        BY <2>2, <3>1, <3>2, IncreasingSeq
    <2>4. i \in 1..Len(s) /\ i <= k
      BY <1>1, <2>3
    <2>5. s[i] \in Nat /\ t[i] \in Nat /\ t[Len(t)] \in Nat /\ s[k] \in Nat /\ Len(t) \in 1..Len(t)
      BY <1>1, <2>4
    <2>6. s[i] <= t[i] /\ t[i] <= t[Len(t)]
      BY <2>2, <2>4, <2>5, IncreasingSeq
    <2>7. s[i] \in Range(s) /\ s[i] <= t[Len(t)]
      <3>1. s[i] \in Range(s)
        BY <1>1, <2>4 DEF Range
      <3> QED
        BY <2>5, <2>6, <3>1
    <2>8. s[i] \in Range(t)
      BY <2>7
    <2>9. PICK l \in 1..Len(t) : s[i] = t[l]
      BY <1>1, <2>8 DEF Range
    <2>10. l <= i
      BY <2>5, <2>6, <2>9, IncreasingSeq
    <2>11. ~(l < i)
      <3> SUFFICES ASSUME l < i PROVE FALSE
        OBVIOUS
      <3>1. s[l] = t[l] /\ l \in 1..Len(s)
        BY <1>1, <1>2, <2>1
      <3> QED
        BY <2>4, <2>9, <3>1, IncreasingSeq
    <2> QED
      BY <2>4, <2>9, <2>10, <2>11
  <1>3. Bad = {}
    <2> SUFFICES ASSUME Bad # {} PROVE FALSE
      OBVIOUS
    <2> HIDE DEF Same
    <2>1. Bad \in SUBSET Nat
      BY <1>1
    <2>2. PICK i \in Bad : \A j \in Bad : i <= j
      BY <2>1, Least
    <2>3. \A j \in 1..(i - 1) : j \in 1..Len(t) /\ ~(i <= j)
      BY <1>1
    <2>4. \A j \in 1..(i - 1) : Same(j)
      BY <2>2, <2>3
    <2> QED
      BY <1>2, <2>4
  <1>4. \A i \in 1..Len(t) : Same(i)
    <2> HIDE DEF Same
    <2> QED
      BY <1>3
  <1>5. Len(t) \in 1..Len(t)
    BY <1>1
  <1> QED
    BY <1>4, <1>5

-----------------------------------------------------------------------------
(* Sequences of cards.                                                     *)

LEMMA CardsNat == MaxCards \in Nat /\ Cards \subseteq Nat /\ IsFiniteSet(Cards)
  <1>1. MaxCards \in Nat
    BY FeedAssumption
  <1> QED
    BY <1>1, FS_Interval DEF Cards

LEMMA RangeIs ==
  ASSUME NEW S, NEW s \in Seq(S)
  PROVE  /\ DOMAIN s = 1..Len(s) /\ Len(s) \in Nat
         /\ \A i \in 1..Len(s) : s[i] \in Range(s) /\ s[i] \in S
         /\ \A x \in Range(s) : x \in S /\ \E i \in 1..Len(s) : s[i] = x
         /\ s = <<>> <=> Len(s) = 0
         /\ s = <<>> <=> Range(s) = {}
  <1>1. DOMAIN s = 1..Len(s) /\ Len(s) \in Nat /\ (s = <<>> <=> Len(s) = 0)
    OBVIOUS
  <1>2. \A i \in 1..Len(s) : s[i] \in Range(s) /\ s[i] \in S
    BY <1>1 DEF Range
  <1>3. \A x \in Range(s) : x \in S /\ \E i \in 1..Len(s) : s[i] = x
    BY <1>1 DEF Range
  <1>4. Len(s) = 0 <=> Range(s) = {}
    <2>1. Len(s) # 0 => 1 \in 1..Len(s)
      BY <1>1
    <2> QED
      BY <1>1, <1>2, <1>3, <2>1
  <1> QED
    BY <1>1, <1>2, <1>3, <1>4

\* A sequence cut in two after its first k elements.
LEMMA Cut ==
  ASSUME NEW S, NEW s \in Seq(S), NEW k \in 0..Len(s)
  PROVE  /\ SubSeq(s, 1, k) \in Seq(S) /\ Len(SubSeq(s, 1, k)) = k
         /\ \A i \in 1..k : SubSeq(s, 1, k)[i] = s[i]
         /\ SubSeq(s, k + 1, Len(s)) \in Seq(S) /\ Len(SubSeq(s, k + 1, Len(s))) = Len(s) - k
         /\ \A i \in 1..(Len(s) - k) : SubSeq(s, k + 1, Len(s))[i] = s[k + i]
  <1>1. Len(s) \in Nat /\ k \in Nat /\ \A i \in 1..Len(s) : s[i] \in S
    OBVIOUS
  <1>2. (\A i \in 1..k : s[i] \in S) /\ (\A i \in (k + 1)..Len(s) : s[i] \in S)
    BY <1>1
  <1> DEFINE f == SubSeq(s, 1, k)
             r == SubSeq(s, k + 1, Len(s))
  <1>3. f \in Seq(S) /\ Len(f) = k /\ \A i \in 1..k : f[i] = s[i]
    <2>1. f \in Seq(S) /\ Len(f) = (IF 1 <= k THEN k - 1 + 1 ELSE 0) /\ \A i \in 1..(k - 1 + 1) : f[i] = s[1 + i - 1]
      BY <1>1, <1>2, SubSeqProperties
    <2>2. \A i \in 1..k : i \in 1..(k - 1 + 1) /\ 1 + i - 1 = i
      BY <1>1
    <2>3. Len(f) = k
      BY <1>1, <2>1
    <2> QED
      BY <2>1, <2>2, <2>3
  <1>4. r \in Seq(S) /\ Len(r) = Len(s) - k /\ \A i \in 1..(Len(s) - k) : r[i] = s[k + i]
    <2>1. /\ r \in Seq(S) /\ Len(r) = (IF k + 1 <= Len(s) THEN Len(s) - (k + 1) + 1 ELSE 0)
          /\ \A i \in 1..(Len(s) - (k + 1) + 1) : r[i] = s[k + 1 + i - 1]
      BY <1>1, <1>2, SubSeqProperties
    <2>2. \A i \in 1..(Len(s) - k) : i \in 1..(Len(s) - (k + 1) + 1) /\ k + 1 + i - 1 = k + i
      BY <1>1
    <2>3. Len(r) = Len(s) - k
      BY <1>1, <2>1
    <2> QED
      BY <2>1, <2>2, <2>3
  <1> QED
    BY <1>3, <1>4

\* An ascending sequence cut in two.
LEMMA CutAscending ==
  ASSUME NEW S \in SUBSET Nat, NEW s \in Seq(S), Increasing(s), NEW k \in 0..Len(s)
  PROVE  LET f == SubSeq(s, 1, k)
             r == SubSeq(s, k + 1, Len(s))
         IN  /\ Increasing(f) /\ Increasing(r)
             /\ Range(s) = Range(f) \cup Range(r)
             /\ \A c \in Range(r), d \in Range(f) : d < c
             /\ k > 0 => Range(f) # {} /\ Head(f) = s[1] /\ s[1] \in Range(f)
  <1> DEFINE f == SubSeq(s, 1, k)
             r == SubSeq(s, k + 1, Len(s))
  <1>1. /\ f \in Seq(S) /\ Len(f) = k /\ \A i \in 1..k : f[i] = s[i]
        /\ r \in Seq(S) /\ Len(r) = Len(s) - k /\ \A i \in 1..(Len(s) - k) : r[i] = s[k + i]
    BY Cut
  <1> HIDE DEF f, r
  <1>2. Len(s) \in Nat /\ k \in Nat /\ DOMAIN s = 1..Len(s) /\ DOMAIN f = 1..k /\ DOMAIN r = 1..(Len(s) - k)
    BY <1>1
  <1>3. \A i \in 1..k : i \in 1..Len(s)
    BY <1>2
  <1>4. \A i \in 1..(Len(s) - k) : k + i \in 1..Len(s)
    BY <1>2
  <1>5. \A i, j \in 1..Len(s) : i < j => s[i] < s[j]
    BY <1>2 DEF Increasing
  <1>6. Increasing(f)
    BY <1>1, <1>2, <1>3, <1>5 DEF Increasing
  <1>7. Increasing(r)
    <2> SUFFICES ASSUME NEW i \in 1..(Len(s) - k), NEW j \in 1..(Len(s) - k), i < j PROVE r[i] < r[j]
      BY <1>2 DEF Increasing
    <2>1. k + i < k + j /\ k + i \in 1..Len(s) /\ k + j \in 1..Len(s)
      BY <1>2, <1>4
    <2> QED
      BY <1>1, <1>5, <2>1
  <1>8. Range(f) = {s[i] : i \in 1..k}
    BY <1>1, <1>2 DEF Range
  <1>9. Range(r) = {s[k + i] : i \in 1..(Len(s) - k)}
    <2>1. Range(r) = {r[i] : i \in 1..(Len(s) - k)}
      BY <1>2 DEF Range
    <2>2. \A i \in 1..(Len(s) - k) : r[i] = s[k + i]
      BY <1>1
    <2> HIDE <1>1
    <2>3. {r[i] : i \in 1..(Len(s) - k)} = {s[k + i] : i \in 1..(Len(s) - k)}
      BY <2>2, Zenon
    <2> QED
      BY <2>1, <2>3
  <1>10. Range(s) = {s[i] : i \in 1..Len(s)}
    BY <1>2 DEF Range
  <1>11. Range(s) = Range(f) \cup Range(r)
    <2>1. ASSUME NEW i \in 1..Len(s) PROVE s[i] \in Range(f) \cup Range(r)
      <3>1. CASE i <= k
        <4>1. i \in 1..k
          BY <3>1, <1>2
        <4> QED
          BY <4>1, <1>8
      <3>2. CASE ~(i <= k)
        <4>1. i - k \in 1..(Len(s) - k) /\ k + (i - k) = i
          BY <3>2, <1>2
        <4> QED
          BY <4>1, <1>9
      <3> QED
        BY <3>1, <3>2
    <2> QED
      BY <1>3, <1>4, <1>8, <1>9, <1>10, <2>1
  <1>12. ASSUME NEW c \in Range(r), NEW d \in Range(f) PROVE d < c
    <2>1. PICK i \in 1..(Len(s) - k) : c = s[k + i]
      BY <1>9
    <2>2. PICK j \in 1..k : d = s[j]
      BY <1>8
    <2>3. j < k + i /\ j \in 1..Len(s) /\ k + i \in 1..Len(s)
      BY <1>2, <1>3, <1>4
    <2> QED
      BY <1>5, <2>1, <2>2, <2>3
  <1>13. k > 0 => Range(f) # {} /\ Head(f) = s[1] /\ s[1] \in Range(f)
    <2> SUFFICES ASSUME k > 0 PROVE Range(f) # {} /\ Head(f) = s[1] /\ s[1] \in Range(f)
      OBVIOUS
    <2>1. 1 \in 1..k
      BY <1>2
    <2>2. f[1] = s[1] /\ f # <<>>
      BY <1>1, <1>2, <2>1
    <2>3. Head(f) = f[1]
      BY <1>1, <2>2
    <2> QED
      BY <1>8, <2>1, <2>2, <2>3
  <1> QED
    BY <1>6, <1>7, <1>11, <1>12, <1>13 DEF f, r

\* The head taken off.
LEMMA TailIsCut ==
  ASSUME NEW S, NEW s \in Seq(S), s # <<>>
  PROVE  /\ 1 \in 0..Len(s) /\ Len(s) > 0 /\ Head(s) = s[1] /\ Head(s) \in S /\ Head(s) \in Range(s)
         /\ Tail(s) = SubSeq(s, 1 + 1, Len(s))
         /\ Range(SubSeq(s, 1, 1)) = {Head(s)}
  <1>1. 1 \in 0..Len(s) /\ Len(s) > 0 /\ Head(s) = s[1] /\ Head(s) \in S /\ 1 \in 1..Len(s)
    OBVIOUS
  <1>2. Tail(s) = SubSeq(s, 1 + 1, Len(s))
    BY TailIsSubSeq
  <1>3. Head(s) \in Range(s)
    BY <1>1, RangeIs
  <1>4. SubSeq(s, 1, 1) \in Seq(S) /\ Len(SubSeq(s, 1, 1)) = 1 /\ SubSeq(s, 1, 1)[1] = s[1]
    BY <1>1, Cut
  <1>5. Range(SubSeq(s, 1, 1)) = {Head(s)}
    BY <1>1, <1>4 DEF Range
  <1> QED
    BY <1>1, <1>2, <1>3, <1>5

\* A greater number put at the end.
LEMMA AppendAscending ==
  ASSUME NEW S \in SUBSET Nat, NEW s \in Seq(S), Increasing(s), NEW x \in S,
         \A c \in Range(s) : c < x
  PROVE  /\ Append(s, x) \in Seq(S) /\ Increasing(Append(s, x))
         /\ Range(Append(s, x)) = Range(s) \cup {x}
         /\ Len(Append(s, x)) = Len(s) + 1
         /\ \A i \in 1..Len(s) : Append(s, x)[i] = s[i]
         /\ s # <<>> => Head(Append(s, x)) = Head(s)
  <1> DEFINE t == Append(s, x)
  <1>1. /\ t \in Seq(S) /\ Len(t) = Len(s) + 1 /\ t[Len(s) + 1] = x
        /\ \A i \in 1..Len(s) : t[i] = s[i]
    OBVIOUS
  <1> HIDE DEF t
  <1>2. Len(s) \in Nat /\ DOMAIN s = 1..Len(s) /\ DOMAIN t = 1..(Len(s) + 1)
    BY <1>1
  <1>3. \A i \in 1..(Len(s) + 1) : i \in 1..Len(s) \/ i = Len(s) + 1
    BY <1>2
  <1>4. Range(t) = Range(s) \cup {x}
    <2>1. \A i \in 1..Len(s) : i \in 1..(Len(s) + 1)
      BY <1>2
    <2>2. Len(s) + 1 \in 1..(Len(s) + 1)
      BY <1>2
    <2>3. Range(t) = {t[i] : i \in 1..(Len(s) + 1)} /\ Range(s) = {s[i] : i \in 1..Len(s)}
      BY <1>2 DEF Range
    <2>4. ASSUME NEW y \in Range(t) PROVE y \in Range(s) \cup {x}
      BY <1>1, <1>3, <2>3
    <2>5. ASSUME NEW y \in Range(s) \cup {x} PROVE y \in Range(t)
      BY <1>1, <2>1, <2>2, <2>3
    <2> QED
      BY <2>4, <2>5
  <1>5. Increasing(t)
    <2> SUFFICES ASSUME NEW i \in 1..(Len(s) + 1), NEW j \in 1..(Len(s) + 1), i < j PROVE t[i] < t[j]
      BY <1>2 DEF Increasing
    <2>1. i \in 1..Len(s)
      BY <1>2
    <2>2. s[i] \in Range(s)
      BY <2>1, <1>2 DEF Range
    <2>3. j \in 1..Len(s) => s[i] < s[j]
      BY <1>2, <2>1 DEF Increasing
    <2> QED
      BY <1>1, <1>3, <2>1, <2>2, <2>3
  <1>6. s # <<>> => Head(t) = Head(s)
    <2> SUFFICES ASSUME s # <<>> PROVE Head(t) = Head(s)
      OBVIOUS
    <2>1. 1 \in 1..Len(s) /\ Head(s) = s[1]
      OBVIOUS
    <2>2. t # <<>> /\ Head(t) = t[1]
      BY <1>1, <1>2
    <2> QED
      BY <1>1, <2>1, <2>2
  <1> QED
    BY <1>1, <1>4, <1>5, <1>6 DEF t

\* The first and the last of an ascending sequence bound it.
LEMMA Bounds ==
  ASSUME NEW S \in SUBSET Nat, NEW s \in Seq(S), Increasing(s), s # <<>>
  PROVE  /\ Head(s) \in Range(s) /\ Last(s) \in Range(s) /\ Head(s) \in S /\ Last(s) \in S
         /\ Last(s) = s[Len(s)] /\ Head(s) = s[1]
         /\ \A c \in Range(s) : Head(s) <= c /\ c <= Last(s)
  <1>1. /\ Len(s) \in Nat /\ DOMAIN s = 1..Len(s) /\ 1 \in 1..Len(s) /\ Len(s) \in 1..Len(s)
        /\ Head(s) = s[1] /\ s[1] \in S /\ s[Len(s)] \in S
    OBVIOUS
  <1>2. Last(s) = s[Len(s)]
    BY DEF Last
  <1>3. s \in Seq(Nat)
    BY SeqMonotonic
  <1>4. ASSUME NEW c \in Range(s) PROVE Head(s) <= c /\ c <= Last(s)
    <2>1. PICK i \in 1..Len(s) : c = s[i]
      BY <1>1 DEF Range
    <2>2. 1 <= i /\ i <= Len(s)
      BY <1>1
    <2> QED
      BY <1>1, <1>2, <1>3, <2>1, <2>2, IncreasingSeq
  <1>5. s[1] \in Range(s) /\ s[Len(s)] \in Range(s)
    BY <1>1 DEF Range
  <1> QED
    BY <1>1, <1>2, <1>4, <1>5

LEMMA EmptyIs == Range(<<>>) = {} /\ Increasing(<<>>) /\ <<>> \in Seq(Cards)
  <1>1. <<>> \in Seq(Cards) /\ Len(<<>>) = 0 /\ DOMAIN <<>> = 1..0
    OBVIOUS
  <1>2. Range(<<>>) = {}
    BY <1>1, RangeIs
  <1>3. Increasing(<<>>)
    BY <1>1 DEF Increasing
  <1> QED
    BY <1>1, <1>2, <1>3

-----------------------------------------------------------------------------
(* Windows.                                                                *)

Slots(window) == UNION {{i} \X (1..window[i].cards) : i \in DOMAIN window}

LEMMA WindowIs ==
  ASSUME NEW w \in Windows
  PROVE  /\ Len(w) \in Nat /\ DOMAIN w = 1..Len(w) /\ w \in Seq([msg : Nat, cards : Nat])
         /\ \A i \in 1..Len(w) :
               w[i] \in [msg : Nat, cards : Nat] /\ w[i].msg \in Nat /\ w[i].cards \in Nat
  <1>1. w \in Seq([msg : Nat, cards : Nat])
    BY DEF Windows
  <1>2. Len(w) \in Nat /\ DOMAIN w = 1..Len(w) /\ \A i \in 1..Len(w) : w[i] \in [msg : Nat, cards : Nat]
    BY <1>1, LenProperties, ElementOfSeq
  <1>3. \A x \in [msg : Nat, cards : Nat] : x.msg \in Nat /\ x.cards \in Nat
    OBVIOUS
  <1> QED
    BY <1>1, <1>2, <1>3

LEMMA SlotsFinite ==
  ASSUME NEW w \in Windows
  PROVE  IsFiniteSet(Slots(w)) /\ CardsIn(w) = Cardinality(Slots(w)) /\ CardsIn(w) \in Nat
  <1> DEFINE f == [i \in DOMAIN w |-> {i} \X (1..w[i].cards)]
             T == {{i} \X (1..w[i].cards) : i \in DOMAIN w}
  <1>2. DOMAIN w = 1..Len(w) /\ Len(w) \in Nat /\ \A i \in DOMAIN w : w[i].cards \in Nat
    BY WindowIs
  <1>3. IsFiniteSet(DOMAIN w)
    BY <1>2, FS_Interval
  <1>4. f \in Surjection(DOMAIN w, T)
    BY DEF Surjection
  <1>5. IsFiniteSet(T)
    BY <1>3, <1>4, FS_Surjection
  <1>6. ASSUME NEW i \in DOMAIN w PROVE IsFiniteSet({i} \X (1..w[i].cards))
    <2>1. IsFiniteSet(1..w[i].cards)
      <3>1. w[i].cards \in Int /\ 1 \in Int
        BY <1>2
      <3> QED
        BY <3>1, FS_Interval
    <2>2. IsFiniteSet({i})
      BY FS_Singleton
    <2> QED
      BY <2>1, <2>2, FS_Product
  <1>7. IsFiniteSet(UNION T)
    BY <1>5, <1>6, FS_UNION
  <1>8. IsFiniteSet(Slots(w))
    BY <1>7 DEF Slots
  <1> QED
    BY <1>8, FS_CardinalityType DEF CardsIn, Slots

LEMMA NoCards == CardsIn(<<>>) = 0 /\ Ids(<<>>) = {}
  <1>1. UNION {{i} \X (1..<<>>[i].cards) : i \in DOMAIN <<>>} = {}
    OBVIOUS
  <1> QED
    BY <1>1, FS_EmptySet DEF CardsIn, Ids

LEMMA CutWindow ==
  ASSUME NEW w \in Windows, NEW k \in 0..Len(w)
  PROVE  /\ SubSeq(w, 1, k) \in Windows /\ SubSeq(w, k + 1, Len(w)) \in Windows
         /\ Len(SubSeq(w, k + 1, Len(w))) = Len(w) - k
         /\ Ids(w) = Ids(SubSeq(w, 1, k)) \cup Ids(SubSeq(w, k + 1, Len(w)))
  <1> DEFINE f == SubSeq(w, 1, k)
             r == SubSeq(w, k + 1, Len(w))
  <1>0. w \in Seq([msg : Nat, cards : Nat]) /\ Len(w) \in Nat /\ k \in Nat
    BY DEF Windows
  <1>1. /\ f \in Windows /\ Len(f) = k /\ \A i \in 1..k : f[i] = w[i]
        /\ r \in Windows /\ Len(r) = Len(w) - k /\ \A i \in 1..(Len(w) - k) : r[i] = w[k + i]
    <2>1. k \in 0..Len(w)
      OBVIOUS
    <2>2. /\ f \in Seq([msg : Nat, cards : Nat]) /\ Len(f) = k /\ \A i \in 1..k : f[i] = w[i]
          /\ r \in Seq([msg : Nat, cards : Nat]) /\ Len(r) = Len(w) - k
          /\ \A i \in 1..(Len(w) - k) : r[i] = w[k + i]
      BY <1>0, <2>1, Cut, Zenon
    <2> QED
      BY <2>2 DEF Windows
  <1> HIDE DEF f, r
  <1>2. DOMAIN w = 1..Len(w) /\ DOMAIN f = 1..k /\ DOMAIN r = 1..(Len(w) - k)
    BY <1>0, <1>1 DEF Windows
  <1>3. \A x \in Ids(f) \cup Ids(r) : x \in Ids(w)
    <2>1. \A i \in 1..k : i \in 1..Len(w)
      BY <1>0
    <2>2. \A i \in 1..(Len(w) - k) : k + i \in 1..Len(w)
      BY <1>0
    <2>3. ASSUME NEW x \in Ids(f) PROVE x \in Ids(w)
      <3>1. PICK i \in 1..k : x = f[i].msg
        BY <1>2 DEF Ids
      <3> QED
        BY <1>1, <1>2, <2>1, <3>1 DEF Ids
    <2>4. ASSUME NEW x \in Ids(r) PROVE x \in Ids(w)
      <3>1. PICK i \in 1..(Len(w) - k) : x = r[i].msg
        BY <1>2 DEF Ids
      <3> QED
        BY <1>1, <1>2, <2>2, <3>1 DEF Ids
    <2> QED
      BY <2>3, <2>4
  <1>4. ASSUME NEW x \in Ids(w) PROVE x \in Ids(f) \cup Ids(r)
    <2>1. PICK i \in 1..Len(w) : x = w[i].msg
      BY <1>2 DEF Ids
    <2>2. CASE i <= k
      <3>1. i \in 1..k
        BY <2>2, <1>0
      <3> QED
        BY <3>1, <2>1, <1>1, <1>2 DEF Ids
    <2>3. CASE ~(i <= k)
      <3>1. i - k \in 1..(Len(w) - k) /\ k + (i - k) = i
        BY <2>3, <1>0
      <3>2. r[i - k] = w[i]
        BY <1>1, <3>1
      <3> QED
        BY <3>1, <3>2, <2>1, <1>2 DEF Ids
    <2> QED
      BY <2>2, <2>3
  <1> QED
    BY <1>1, <1>3, <1>4 DEF f, r

\* There is a first place from which on a window holds few enough cards.
LEMMA CutPlace ==
  ASSUME NEW w \in Windows, NEW n \in 0..MaxItems
  PROVE  \E k \in 0..Len(w) :
            /\ n + CardsIn(SubSeq(w, k + 1, Len(w))) <= MaxItems
            /\ k = 0 \/ n + CardsIn(SubSeq(w, k, Len(w))) > MaxItems
  <1> DEFINE Size(k) == CardsIn(SubSeq(w, k + 1, Len(w)))
             T == {k \in 0..Len(w) : n + Size(k) <= MaxItems}
  <1>1. MaxItems \in Nat /\ Len(w) \in Nat /\ n \in Nat /\ n <= MaxItems
    BY FeedAssumption DEF Windows
  <1>2. \A k \in 0..Len(w) : Size(k) \in Nat
    BY CutWindow, SlotsFinite
  <1>3. Size(Len(w)) = 0
    <2>1. SubSeq(w, Len(w) + 1, Len(w)) = <<>>
      BY <1>1, SubSeqEmpty
    <2> QED
      BY <2>1, NoCards
  <1>4. \A k \in 1..Len(w) : k - 1 \in 0..Len(w) /\ Size(k - 1) = CardsIn(SubSeq(w, k, Len(w)))
    <2>1. \A k \in 1..Len(w) : k - 1 + 1 = k /\ k - 1 \in 0..Len(w)
      BY <1>1
    <2> QED
      BY <2>1
  <1> HIDE DEF Size
  <1>5. T \in SUBSET Nat /\ T # {}
    <2>1. Len(w) \in T
      BY <1>1, <1>3
    <2> QED
      BY <2>1
  <1>6. PICK k \in T : \A j \in T : k <= j
    BY <1>5, Least
  <1>7. k \in 0..Len(w) /\ n + Size(k) <= MaxItems
    BY <1>6
  <1>8. ASSUME k # 0 PROVE n + CardsIn(SubSeq(w, k, Len(w))) > MaxItems
    <2>1. k \in 1..Len(w) /\ ~(k <= k - 1)
      BY <1>1, <1>7, <1>8
    <2>2. k - 1 \in 0..Len(w) /\ k - 1 \notin T /\ Size(k - 1) \in Nat
      BY <1>2, <1>4, <1>6, <2>1
    <2>3. ~(n + Size(k - 1) <= MaxItems)
      BY <2>2
    <2> QED
      BY <1>1, <1>4, <2>1, <2>2, <2>3
  <1> QED
    BY <1>7, <1>8 DEF Size

\* Deleted messages leave the window, and only they.
LEMMA WithoutProps ==
  ASSUME NEW w \in Windows, NEW D
  PROVE  Without(w, D) \in Windows /\ Ids(Without(w, D)) = Ids(w) \ D
  <1> DEFINE K == {i \in DOMAIN w : w[i].msg \notin D}
             left == Ascending(K)
             v == [k \in DOMAIN left |-> w[left[k]]]
  <1>0. w \in Seq([msg : Nat, cards : Nat]) /\ Len(w) \in Nat /\ DOMAIN w = 1..Len(w)
    BY DEF Windows
  <1>1. K \in SUBSET (1..Len(w))
    BY <1>0
  <1>2. left \in Seq(K) /\ Range(left) = K
    BY <1>0, <1>1, AscendingProps
  <1> HIDE DEF left
  <1>3. /\ DOMAIN left = 1..Len(left) /\ Len(left) \in Nat
        /\ \A k \in DOMAIN left : left[k] \in K
        /\ \A i \in K : \E k \in DOMAIN left : left[k] = i
    BY <1>2 DEF Range
  <1>4. \A k \in 1..Len(left) : w[left[k]] \in [msg : Nat, cards : Nat]
    <2>1. \A k \in 1..Len(left) : left[k] \in 1..Len(w)
      BY <1>0, <1>3
    <2> QED
      BY <2>1, WindowIs
  <1>5. v \in Windows
    BY <1>3, <1>4 DEF Windows
  <1>6. DOMAIN v = DOMAIN left
    OBVIOUS
  <1>7. ASSUME NEW x PROVE x \in Ids(v) <=> x \in Ids(w) \ D
    <2>1. ASSUME x \in Ids(v) PROVE x \in Ids(w) \ D
      <3>1. PICK k \in DOMAIN left : x = w[left[k]].msg
        BY <2>1 DEF Ids
      <3> QED
        BY <1>3, <3>1 DEF Ids
    <2>2. ASSUME x \in Ids(w), x \notin D PROVE x \in Ids(v)
      <3>1. PICK i \in DOMAIN w : x = w[i].msg
        BY <2>2 DEF Ids
      <3>2. i \in K
        BY <2>2, <3>1
      <3>3. PICK k \in DOMAIN left : left[k] = i
        BY <1>3, <3>2
      <3> QED
        BY <3>1, <3>3 DEF Ids
    <2> QED
      BY <2>1, <2>2
  <1>8. Without(w, D) = v
    BY DEF Without, left
  <1> QED
    BY <1>5, <1>7, <1>8

-----------------------------------------------------------------------------
(* The rows as sequences, and the choices of a pass.                       *)

LEMMA OpenProps ==
  ASSUME NEW st
  PROVE  /\ Open(st) \in Seq(Cards) /\ Increasing(Open(st))
         /\ Range(Open(st)) = {c \in Cards : row[c].state = st}
  <1> DEFINE S == {c \in Cards : row[c].state = st}
  <1>1. S \in SUBSET (1..MaxCards) /\ S \subseteq Cards
    BY DEF Cards
  <1>2. /\ Ascending(S) \in Seq(S) /\ Increasing(Ascending(S)) /\ Range(Ascending(S)) = S
    BY <1>1, CardsNat, AscendingProps
  <1>3. Ascending(S) \in Seq(Cards)
    BY <1>1, <1>2, SeqMonotonic
  <1> QED
    BY <1>2, <1>3 DEF Open

\* The messages of the rows that say they are shown, each once or oftener.
LEMMA ShownProps ==
  ASSUME TypeOK
  PROVE  /\ Shown \in Windows
         /\ Ids(Shown) = {row[c].msg : c \in {d \in Cards : row[d].state = "SHOWN"}}
  <1> DEFINE s == Open("SHOWN")
             K == {i \in DOMAIN s : i = 1 \/ row[s[i]].msg # row[s[i - 1]].msg}
             first == Ascending(K)
             next(j) == IF j < Len(first) THEN first[j + 1] ELSE Len(s) + 1
             v == [j \in DOMAIN first |-> [msg |-> row[s[first[j]]].msg, cards |-> next(j) - first[j]]]
  <1>1. s \in Seq(Cards) /\ Range(s) = {c \in Cards : row[c].state = "SHOWN"}
    BY OpenProps
  <1>2. Shown = v
    BY DEF Shown
  <1> HIDE DEF s
  <1>3. DOMAIN s = 1..Len(s) /\ Len(s) \in Nat /\ \A i \in 1..Len(s) : s[i] \in Cards
    BY <1>1, RangeIs
  <1>4. K \in SUBSET (1..Len(s))
    BY <1>3
  <1>5. first \in Seq(K) /\ Increasing(first) /\ Range(first) = K
    BY <1>3, <1>4, AscendingProps
  <1> HIDE DEF first
  <1>6. /\ DOMAIN first = 1..Len(first) /\ Len(first) \in Nat
        /\ \A j \in 1..Len(first) : first[j] \in K /\ first[j] \in 1..Len(s)
        /\ \A i \in K : \E j \in 1..Len(first) : first[j] = i
    <2>1. \A j \in 1..Len(first) : first[j] \in K
      BY <1>5, RangeIs
    <2>2. \A j \in 1..Len(first) : first[j] \in 1..Len(s)
      BY <1>4, <2>1
    <2>3. \A i \in K : \E j \in 1..Len(first) : first[j] = i
      BY <1>5, RangeIs
    <2> QED
      BY <1>5, <2>1, <2>2, <2>3, RangeIs
  <1>7. \A c \in Cards : row[c].msg \in Nat
    BY DEF TypeOK
  <1>8. ASSUME NEW j \in 1..Len(first)
        PROVE  v[j] \in [msg : Nat, cards : Nat]
    <2>1. row[s[first[j]]].msg \in Nat
      BY <1>3, <1>6, <1>7
    <2>2. next(j) - first[j] \in Nat
      <3>1. CASE j < Len(first)
        <4>1. j + 1 \in 1..Len(first) /\ j < j + 1
          BY <1>6, <3>1
        <4>2. first[j] < first[j + 1] /\ first[j + 1] \in 1..Len(s) /\ first[j] \in 1..Len(s)
          BY <1>5, <1>6, <4>1 DEF Increasing
        <4>3. first[j + 1] - first[j] \in Nat
          BY <1>3, <4>2
        <4> QED
          BY <3>1, <4>3
      <3>2. CASE ~(j < Len(first))
        <4>1. first[j] \in 1..Len(s)
          BY <1>6
        <4>2. (Len(s) + 1) - first[j] \in Nat
          BY <1>3, <4>1
        <4>3. next(j) = Len(s) + 1
          BY <3>2
        <4> HIDE DEF next, v
        <4>4. next(j) - first[j] = (Len(s) + 1) - first[j]
          BY <4>3
        <4> QED
          BY <4>2, <4>4
      <3> QED
        BY <3>1, <3>2
    <2>3. v[j] = [msg |-> row[s[first[j]]].msg, cards |-> next(j) - first[j]]
      BY <1>6
    <2> HIDE DEF next, v
    <2> QED
      BY <2>1, <2>2, <2>3
  <1>9. v \in Windows
    <2>1. v = [j \in 1..Len(first) |-> v[j]]
      BY <1>6
    <2> HIDE DEF v
    <2> QED
      BY <1>6, <1>8, <2>1 DEF Windows
  <1>10. Ids(v) = {row[s[first[j]]].msg : j \in 1..Len(first)}
    BY <1>6 DEF Ids
  <1> DEFINE Found(i) == \E j \in 1..Len(first) : row[s[first[j]]].msg = row[s[i]].msg
  <1>11. \A i \in 1..Len(s) : Found(i)
    <2> DEFINE Bad == {i \in 1..Len(s) : ~Found(i)}
    <2> SUFFICES ASSUME Bad # {} PROVE FALSE
      OBVIOUS
    <2> HIDE DEF Found
    <2>1. Bad \in SUBSET Nat
      BY <1>3
    <2>2. PICK i \in Bad : \A j \in Bad : i <= j
      BY <2>1, Least
    <2>3. CASE i \in K
      BY <1>6, <2>2, <2>3 DEF Found
    <2>4. CASE i \notin K
      <3>1. i # 1 /\ row[s[i]].msg = row[s[i - 1]].msg /\ i \in 1..Len(s)
        BY <1>3, <2>2, <2>4
      <3>2. i - 1 \in 1..Len(s) /\ ~(i <= i - 1)
        BY <1>3, <3>1
      <3>3. Found(i - 1)
        BY <2>2, <3>2
      <3> QED
        BY <2>2, <3>1, <3>3 DEF Found
    <2> QED
      BY <2>3, <2>4
  <1>12. Ids(v) = {row[c].msg : c \in Range(s)}
    <2>1. ASSUME NEW x \in Ids(v) PROVE x \in {row[c].msg : c \in Range(s)}
      <3>1. PICK j \in 1..Len(first) : x = row[s[first[j]]].msg
        BY <1>10, <2>1
      <3>2. s[first[j]] \in Range(s)
        BY <1>1, <1>6, RangeIs
      <3> QED
        BY <3>1, <3>2
    <2>2. ASSUME NEW c \in Range(s) PROVE row[c].msg \in Ids(v)
      <3>1. PICK i \in 1..Len(s) : c = s[i]
        BY <1>1, RangeIs
      <3> QED
        BY <1>10, <1>11, <3>1
    <2> QED
      BY <2>1, <2>2
  <1> QED
    BY <1>1, <1>2, <1>9, <1>12

LEMMA NextGroupProps ==
  ASSUME NEW m \in Memory, m.pending # <<>>
  PROVE  NextGroup(m) \in 1..Len(m.pending) /\ NextGroup(m) <= MaxItems /\ NextGroup(m) <= MaxGroup
  <1> DEFINE limit == CHOOSE n \in {MaxGroup, MaxItems, Len(m.pending)} :
                         n <= MaxGroup /\ n <= MaxItems /\ n <= Len(m.pending)
             fits(n) == n = 1 \/ \A i \in 1..n : m.pending[i] \notin m.solo
             T == {n \in 1..limit : fits(n)}
             G == CHOOSE n \in 1..limit : fits(n) /\ \A k \in (n + 1)..limit : ~fits(k)
  <1>1. MaxGroup \in Nat \ {0} /\ MaxItems \in Nat \ {0} /\ Len(m.pending) \in Nat \ {0}
    BY FeedAssumption DEF Memory
  <1>2. \E n \in {MaxGroup, MaxItems, Len(m.pending)} :
           n <= MaxGroup /\ n <= MaxItems /\ n <= Len(m.pending)
    BY <1>1
  <1>3. limit \in Nat \ {0} /\ limit <= MaxGroup /\ limit <= MaxItems /\ limit <= Len(m.pending)
    BY <1>1, <1>2
  <1>4. NextGroup(m) = G
    BY DEF NextGroup
  <1> HIDE DEF limit
  <1>5. 1 \in T
    BY <1>3
  <1> HIDE DEF fits
  <1>6. T \in SUBSET (0..limit) /\ T # {} /\ T \subseteq 1..limit
    BY <1>3, <1>5
  <1>7. PICK n \in T : \A k \in T : k <= n
    BY <1>3, <1>6, Greatest
  <1>8. n \in 1..limit /\ fits(n) /\ \A k \in (n + 1)..limit : ~fits(k)
    <2>1. n \in 1..limit /\ fits(n)
      BY <1>7
    <2>2. \A k \in (n + 1)..limit : k \in 1..limit /\ ~(k <= n)
      BY <1>3, <2>1
    <2> QED
      BY <1>7, <2>1, <2>2
  <1>9. G \in 1..limit
    BY <1>8
  <1> HIDE DEF G
  <1>10. G \in 1..Len(m.pending) /\ G <= MaxItems /\ G <= MaxGroup
    BY <1>1, <1>3, <1>9
  <1> QED
    BY <1>4, <1>10

LEMMA EvictProps ==
  ASSUME NEW m \in Memory, NEW n \in 0..MaxItems
  PROVE  /\ Evict(m, n) \in 0..Len(m.window)
         /\ n + CardsIn(SubSeq(m.window, Evict(m, n) + 1, Len(m.window))) <= MaxItems
  <1>1. m.window \in Windows
    BY DEF Memory
  <1>2. \E k \in 0..Len(m.window) :
            /\ n + CardsIn(SubSeq(m.window, k + 1, Len(m.window))) <= MaxItems
            /\ k = 0 \/ n + CardsIn(SubSeq(m.window, k, Len(m.window))) > MaxItems
    BY <1>1, CutPlace
  <1> QED
    BY <1>2 DEF Evict

-----------------------------------------------------------------------------
(* What each step does to a process's memory.                              *)

LEMMA MemoryIs ==
  ASSUME TypeOK, NEW p \in Processes
  PROVE  /\ mem[p] \in Memory
         /\ mem[p].pc \in Pcs /\ mem[p].pending \in Seq(Cards) /\ mem[p].saved \subseteq Cards
         /\ mem[p].solo \subseteq Cards /\ mem[p].window \in Windows /\ mem[p].orphans \subseteq Nat
         /\ mem[p].group \in Nat /\ mem[p].marks \in Seq(Cards) /\ mem[p].msg \in Nat
         /\ mem[p].gone \subseteq Nat /\ mem[p].drops \subseteq Cards /\ mem[p].final \in BOOLEAN
  BY DEF TypeOK, Memory

LEMMA HoldIs ==
  ASSUME TypeOK, NEW p \in Processes, NEW m, Hold(p, m)
  PROVE  /\ mem'[p] = m
         /\ \A q \in Processes : q # p => mem'[q] = mem[q]
         /\ m \in Memory => mem' \in [Processes -> Memory]
  BY DEF TypeOK, Hold

\* The other processes are left alone.
Others(p) == \A q \in Processes : q # p => mem'[q] = mem[q]

\* What waits or was just taken from the queue.
SameCards(p) ==
    /\ mem'[p].pending = mem[p].pending /\ mem'[p].marks = mem[p].marks
    /\ mem'[p].drops = mem[p].drops /\ mem'[p].msg = mem[p].msg /\ mem'[p].saved = mem[p].saved

\* What is in the channel.
SameWindow(p) == mem'[p].window = mem[p].window /\ mem'[p].orphans = mem[p].orphans

LEMMA OffIs ==
  /\ Off \in Memory
  /\ Off.pc = "off" /\ Off.pending = <<>> /\ Off.marks = <<>> /\ Off.window = <<>>
  /\ Off.saved = {} /\ Off.orphans = {} /\ Off.drops = {} /\ Off.gone = {} /\ Off.group = 0
  <1>1. <<>> \in Seq(Cards) /\ <<>> \in Windows
    BY DEF Windows
  <1> QED
    BY <1>1 DEF Off, Memory, Pcs

LEMMA EnqueueEffect ==
  ASSUME TypeOK, NEW p \in Processes, EnqueueTimed(p)
  PROVE  /\ Others(p) /\ SameWindow(p) /\ Running(p) /\ Running(p)'
         /\ mem'[p].pc = mem[p].pc /\ mem'[p].pending = Append(mem[p].pending, made + 1)
         /\ mem'[p].saved = mem[p].saved /\ mem'[p].group = mem[p].group
         /\ mem'[p].marks = mem[p].marks /\ mem'[p].msg = mem[p].msg
         /\ mem'[p].gone = mem[p].gone /\ mem'[p].drops = mem[p].drops
         /\ made' = made + 1 /\ made + 1 \in Cards
         /\ mem' \in [Processes -> Memory]
         /\ UNCHANGED <<row, discord, used, harm>>
  <1>1. made + 1 \in Cards /\ made' = made + 1
    BY CardsNat DEF EnqueueTimed, TypeOK, Cards
  <1>2. Append(mem[p].pending, made + 1) \in Seq(Cards)
    BY <1>1, MemoryIs
  <1>3. [mem[p] EXCEPT !.pending = Append(@, made')] \in Memory
    BY <1>1, <1>2, MemoryIs DEF Memory
  <1>4. mem'[p] = [mem[p] EXCEPT !.pending = Append(@, made')]
    BY HoldIs DEF EnqueueTimed
  <1>5. mem[p] \in Memory
    BY MemoryIs
  <1>6. Others(p) /\ mem' \in [Processes -> Memory]
    BY <1>3, HoldIs DEF EnqueueTimed, Others
  <1>7. /\ SameWindow(p) /\ Running(p) /\ Running(p)'
        /\ mem'[p].pc = mem[p].pc /\ mem'[p].pending = Append(mem[p].pending, made + 1)
        /\ mem'[p].saved = mem[p].saved /\ mem'[p].group = mem[p].group
        /\ mem'[p].marks = mem[p].marks /\ mem'[p].msg = mem[p].msg
        /\ mem'[p].gone = mem[p].gone /\ mem'[p].drops = mem[p].drops
    BY <1>1, <1>4, <1>5 DEF EnqueueTimed, SameWindow, Memory, Running
  <1> QED
    BY <1>1, <1>6, <1>7 DEF EnqueueTimed

LEMMA RecordEffect ==
  ASSUME TypeOK, NEW p \in Processes, JournalPending(p)
  PROVE  /\ Others(p) /\ SameWindow(p) /\ At(p, "record")
         /\ mem'[p].pc = "choose" /\ mem'[p].pending = mem[p].pending
         /\ mem'[p].group = mem[p].group
         /\ mem'[p].marks = <<>> /\ mem'[p].msg = mem[p].msg
         /\ mem'[p].gone = {} /\ mem'[p].drops = {}
         /\ mem' \in [Processes -> Memory]
         /\ \/ /\ Record(Range(mem[p].pending) \ mem[p].saved)
               /\ mem'[p].saved = Range(mem[p].pending)
               /\ NoFault
            \/ /\ mem'[p].saved = mem[p].saved
               /\ \E cards \in SUBSET Range(mem[p].pending) : Record(cards)
               /\ Fault
         /\ UNCHANGED <<made, discord>>
  <1>1. mem[p] \in Memory /\ Range(mem[p].pending) \subseteq Cards
    <2>1. \A c \in Range(mem[p].pending) : c \in Cards
      BY MemoryIs, RangeIs
    <2> QED
      BY <2>1, MemoryIs
  <1>2. CASE /\ Record(Range(mem[p].pending) \ mem[p].saved)
             /\ Hold(p, [mem[p] EXCEPT !.pc = "choose", !.saved = Range(mem[p].pending)])
             /\ NoFault
    <2>1. [mem[p] EXCEPT !.pc = "choose", !.saved = Range(mem[p].pending)] \in Memory
      BY <1>1 DEF Memory, Pcs
    <2>2. mem'[p] = [mem[p] EXCEPT !.pc = "choose", !.saved = Range(mem[p].pending)]
      BY <1>2, HoldIs
    <2>3. Others(p) /\ mem' \in [Processes -> Memory]
      BY <1>2, <2>1, HoldIs DEF Others
    <2>4. /\ SameWindow(p) /\ At(p, "record")
          /\ mem'[p].pc = "choose" /\ mem'[p].pending = mem[p].pending /\ mem'[p].group = mem[p].group
          /\ mem'[p].marks = <<>> /\ mem'[p].msg = mem[p].msg /\ mem'[p].gone = {} /\ mem'[p].drops = {}
          /\ mem'[p].saved = Range(mem[p].pending)
      BY <1>1, <2>2 DEF JournalPending, SameWindow, Memory, At
    <2> QED
      BY <1>2, <2>3, <2>4 DEF JournalPending
  <1>3. CASE /\ \E n \in DOMAIN mem[p].pending :
                   /\ mem[p].pending[n] \notin mem[p].saved
                   /\ Record({mem[p].pending[i] : i \in 1..(n - 1)} \ mem[p].saved)
             /\ Hold(p, [mem[p] EXCEPT !.pc = "choose"])
             /\ Fault
    <2>1. [mem[p] EXCEPT !.pc = "choose"] \in Memory
      BY <1>1 DEF Memory, Pcs
    <2>2. mem'[p] = [mem[p] EXCEPT !.pc = "choose"]
      BY <1>3, HoldIs
    <2>3. PICK n \in DOMAIN mem[p].pending : Record({mem[p].pending[i] : i \in 1..(n - 1)} \ mem[p].saved)
      BY <1>3
    <2>4. \A i \in 1..(n - 1) : mem[p].pending[i] \in Range(mem[p].pending)
      <3>1. mem[p].pending \in Seq(Cards)
        BY MemoryIs
      <3>2. \A i \in 1..(n - 1) : i \in 1..Len(mem[p].pending)
        BY <3>1, RangeIs
      <3> QED
        BY <3>1, <3>2, RangeIs
    <2>5. {mem[p].pending[i] : i \in 1..(n - 1)} \ mem[p].saved \in SUBSET Range(mem[p].pending)
      BY <2>4
    <2>6. Others(p) /\ mem' \in [Processes -> Memory]
      BY <1>3, <2>1, HoldIs DEF Others
    <2>7. /\ SameWindow(p) /\ At(p, "record")
          /\ mem'[p].pc = "choose" /\ mem'[p].pending = mem[p].pending /\ mem'[p].group = mem[p].group
          /\ mem'[p].marks = <<>> /\ mem'[p].msg = mem[p].msg /\ mem'[p].gone = {} /\ mem'[p].drops = {}
          /\ mem'[p].saved = mem[p].saved
      BY <1>1, <2>2 DEF JournalPending, SameWindow, Memory, At
    <2> QED
      BY <1>3, <2>3, <2>5, <2>6, <2>7 DEF JournalPending
  <1> QED
    BY <1>2, <1>3 DEF JournalPending

LEMMA PostedEffect ==
  ASSUME TypeOK, NEW p \in Processes, JournalPosted(p)
  PROVE  /\ Others(p) /\ SameWindow(p) /\ mem[p].marks # <<>>
         /\ mem'[p].pc = mem[p].pc /\ mem'[p].pending = mem[p].pending
         /\ mem'[p].saved = mem[p].saved /\ mem'[p].group = mem[p].group
         /\ mem'[p].marks = Tail(mem[p].marks) /\ mem'[p].msg = mem[p].msg
         /\ mem'[p].gone = mem[p].gone /\ mem'[p].drops = mem[p].drops
         /\ mem' \in [Processes -> Memory]
         /\ \/ /\ row' = [row EXCEPT ![Head(mem[p].marks)] =
                              [state |-> IF @.state = "QUEUED" THEN "SHOWN" ELSE @.state,
                               msg |-> IF @.state = "NONE" THEN 0 ELSE mem[p].msg]]
               /\ NoFault
            \/ UNCHANGED row /\ Fault
         /\ UNCHANGED <<made, discord>>
  <1>1. mem[p] \in Memory /\ mem[p].marks # <<>> /\ mem[p].marks \in Seq(Cards)
    BY MemoryIs DEF JournalPosted
  <1>2. Tail(mem[p].marks) \in Seq(Cards)
    BY <1>1, HeadTailProperties
  <1>3. [mem[p] EXCEPT !.marks = Tail(@)] \in Memory
    BY <1>1, <1>2 DEF Memory
  <1>4. mem'[p] = [mem[p] EXCEPT !.marks = Tail(@)]
    BY HoldIs DEF JournalPosted
  <1>5. \/ /\ row' = [row EXCEPT ![Head(mem[p].marks)] =
                              [state |-> IF @.state = "QUEUED" THEN "SHOWN" ELSE @.state,
                               msg |-> IF @.state = "NONE" THEN 0 ELSE mem[p].msg]]
           /\ NoFault
        \/ UNCHANGED row /\ Fault
    BY DEF JournalPosted
  <1> QED
    BY <1>1, <1>3, <1>4, <1>5, HoldIs DEF JournalPosted, Others, SameWindow, Memory

LEMMA RemovedEffect ==
  ASSUME TypeOK, NEW p \in Processes, JournalRemoved(p)
  PROVE  /\ Others(p) /\ SameWindow(p) /\ SameCards(p)
         /\ mem'[p].pc = mem[p].pc /\ mem'[p].group = mem[p].group /\ mem'[p].gone = {}
         /\ mem' \in [Processes -> Memory]
         /\ \/ Close({"SHOWN"}, {c \in Cards : row[c].msg \in mem[p].gone}, "REMOVED") /\ NoFault
            \/ UNCHANGED row /\ Fault
         /\ UNCHANGED <<made, discord>>
  <1>1. mem[p] \in Memory
    BY MemoryIs
  <1>2. [mem[p] EXCEPT !.gone = {}] \in Memory
    BY <1>1 DEF Memory
  <1>3. mem'[p] = [mem[p] EXCEPT !.gone = {}]
    BY HoldIs DEF JournalRemoved
  <1> QED
    BY <1>1, <1>2, <1>3, HoldIs DEF JournalRemoved, Others, SameWindow, SameCards, Memory

LEMMA DroppedEffect ==
  ASSUME TypeOK, NEW p \in Processes, JournalDropped(p)
  PROVE  /\ Others(p) /\ SameWindow(p) /\ mem[p].drops # {}
         /\ mem'[p].pc = mem[p].pc /\ mem'[p].pending = mem[p].pending
         /\ mem'[p].saved = mem[p].saved /\ mem'[p].group = mem[p].group
         /\ mem'[p].marks = mem[p].marks /\ mem'[p].msg = mem[p].msg
         /\ mem'[p].gone = mem[p].gone /\ mem'[p].drops = {}
         /\ mem' \in [Processes -> Memory]
         /\ \/ Close({"QUEUED", "SHOWN"}, mem[p].drops, "DROPPED") /\ NoFault
            \/ UNCHANGED row /\ Fault
         /\ UNCHANGED <<made, discord>>
  <1>1. mem[p] \in Memory
    BY MemoryIs
  <1>2. [mem[p] EXCEPT !.drops = {}] \in Memory
    BY <1>1 DEF Memory
  <1>3. mem'[p] = [mem[p] EXCEPT !.drops = {}]
    BY HoldIs DEF JournalDropped
  <1> QED
    BY <1>1, <1>2, <1>3, HoldIs DEF JournalDropped, Others, SameWindow, Memory

-----------------------------------------------------------------------------
(* Steps that send nothing new.                                            *)

\* No message is created; some may be deleted.
Keeps ==
    /\ sent' \in Seq([cards : Seq(Cards), shown : BOOLEAN])
    /\ Len(sent') = Len(sent) /\ DOMAIN sent' = DOMAIN sent
    /\ \A i \in DOMAIN sent : sent'[i].cards = sent[i].cards /\ (sent'[i].shown => sent[i].shown)

LEMMA KeepsSame ==
  ASSUME TypeOK, UNCHANGED sent
  PROVE  Keeps
  BY DEF TypeOK, Keeps

LEMMA HarmIs ==
  ASSUME TypeOK, NEW kinds, Harm(kinds)
  PROVE  used' \in [starts : Nat, mishaps : Nat] /\ harm' = harm \cup kinds
  <1>1. used \in [starts : Nat, mishaps : Nat]
    BY DEF TypeOK
  <1>2. used' = [used EXCEPT !.mishaps = @ + 1] /\ harm' = harm \cup kinds
    BY DEF Harm
  <1> QED
    BY <1>1, <1>2

LEMMA HideProps ==
  ASSUME TypeOK, NEW ids, Hide(ids)
  PROVE  Keeps /\ \A i \in DOMAIN sent : sent'[i].shown => i \notin ids
  <1>1. /\ sent \in Seq([cards : Seq(Cards), shown : BOOLEAN])
        /\ DOMAIN sent = 1..Len(sent) /\ Len(sent) \in Nat
    BY DEF TypeOK
  <1>2. \A i \in 1..Len(sent) : sent[i] \in [cards : Seq(Cards), shown : BOOLEAN]
    BY <1>1, ElementOfSeq
  <1>3. sent' = [i \in 1..Len(sent) |-> [sent[i] EXCEPT !.shown = @ /\ i \notin ids]]
    BY <1>1 DEF Hide
  <1>4. ASSUME NEW i \in 1..Len(sent)
        PROVE  /\ sent'[i] \in [cards : Seq(Cards), shown : BOOLEAN]
               /\ sent'[i].cards = sent[i].cards
               /\ sent'[i].shown => sent[i].shown /\ i \notin ids
    <2>1. sent[i] \in [cards : Seq(Cards), shown : BOOLEAN]
      BY <1>2
    <2>2. sent'[i] = [sent[i] EXCEPT !.shown = @ /\ i \notin ids]
      BY <1>3
    <2>3. sent'[i].shown = (sent[i].shown /\ i \notin ids) /\ sent'[i].cards = sent[i].cards
      BY <2>1, <2>2
    <2>4. sent'[i] = [cards |-> sent[i].cards, shown |-> sent[i].shown /\ i \notin ids]
      BY <2>1, <2>2
    <2>5. sent[i].cards \in Seq(Cards) /\ sent[i].shown \in BOOLEAN
      BY <2>1
    <2>6. (sent[i].shown /\ i \notin ids) \in BOOLEAN
      OBVIOUS
    <2> QED
      BY <2>3, <2>4, <2>5, <2>6
  <1>5. sent' \in [1..Len(sent) -> [cards : Seq(Cards), shown : BOOLEAN]]
    BY <1>3, <1>4
  <1>6. sent' \in Seq([cards : Seq(Cards), shown : BOOLEAN]) /\ Len(sent') = Len(sent)
    <2> DEFINE M == [cards : Seq(Cards), shown : BOOLEAN]
    <2>1. sent' \in [1..Len(sent) -> M] /\ Len(sent) \in Nat
      BY <1>1, <1>5
    <2> HIDE DEF M
    <2>2. sent' \in Seq(M) /\ Len(sent') = Len(sent)
      BY <2>1
    <2> QED
      BY <2>2 DEF M
  <1> QED
    BY <1>1, <1>4, <1>5, <1>6 DEF Keeps

\* A process goes on at another point of its pass, with the cards it had; what
\* it deletes it has the journal close.
Quiet(p) ==
    /\ Others(p) /\ SameCards(p) /\ At(p, mem[p].pc)
    /\ Running(p) /\ Running(p)'
    /\ mem' \in [Processes -> Memory]
    /\ mem'[p].pc = "send" =>
          \/ mem[p].pc = "send" /\ mem'[p].group = mem[p].group
          \/ /\ mem'[p].group \in 1..Len(mem[p].pending)
             /\ \/ \A i \in 1..mem'[p].group : mem[p].pending[i] \in mem[p].saved
                \/ "unrecorded" \in harm'
    /\ Keeps
    /\ \A i \in DOMAIN sent : sent'[i].shown => i \notin mem'[p].gone
    /\ Ids(mem[p].window) \cup mem[p].orphans
          \subseteq Ids(mem'[p].window) \cup mem'[p].orphans \cup mem'[p].gone
    /\ used' \in [starts : Nat, mishaps : Nat]
    /\ harm \subseteq harm' /\ harm' \subseteq harm \cup {"unrecorded"}
    /\ UNCHANGED <<made, row, forgot, refused>>

LEMMA RetryEffect ==
  ASSUME TypeOK, NEW p \in Processes, NEW final \in BOOLEAN, NEW failed \in SUBSET mem[p].orphans,
         RetryOrphans(p, final, failed)
  PROVE  Quiet(p)
  <1> DEFINE m == [mem[p] EXCEPT !.pc = "record", !.final = final,
                                 !.orphans = failed, !.gone = mem[p].orphans \ failed]
  <1>1. mem[p] \in Memory /\ mem[p].orphans \subseteq Nat
    BY MemoryIs
  <1>2. m \in Memory
    BY <1>1 DEF Memory, Pcs
  <1>3. mem'[p] = m
    BY HoldIs DEF RetryOrphans
  <1>4. Hide(mem[p].orphans \ failed) /\ mem'[p].gone = mem[p].orphans \ failed
    BY <1>1, <1>3 DEF RetryOrphans, Memory
  <1>5. /\ Ids(mem[p].window) \cup mem[p].orphans
             \subseteq Ids(mem'[p].window) \cup mem'[p].orphans \cup (mem[p].orphans \ failed)
    BY <1>1, <1>3 DEF Memory
  <1>6. Running(p) /\ Running(p)' /\ mem'[p].pc # "send" /\ At(p, mem[p].pc)
    BY <1>1, <1>3 DEF RetryOrphans, At, Running, Memory
  <1>7. Keeps /\ \A i \in DOMAIN sent : sent'[i].shown => i \notin mem'[p].gone
    BY <1>4, HideProps
  <1>8. used' \in [starts : Nat, mishaps : Nat] /\ UNCHANGED <<made, row, forgot, refused, used, harm>>
    BY DEF RetryOrphans, TypeOK
  <1>9. Others(p) /\ SameCards(p) /\ mem' \in [Processes -> Memory]
    BY <1>1, <1>2, <1>3, HoldIs DEF RetryOrphans, Others, SameCards, Memory
  <1> QED
    BY <1>4, <1>5, <1>6, <1>7, <1>8, <1>9 DEF Quiet

LEMMA ExpireEffect ==
  ASSUME TypeOK, NEW p \in Processes, NEW n \in 1..Len(mem[p].window), NEW failed,
         ExpireImmediate(p, n, failed)
  PROVE  Quiet(p)
  <1> DEFINE w == mem[p].window
             expired == Ids(SubSeq(w, 1, n))
             m == [mem[p] EXCEPT !.window = SubSeq(@, n + 1, Len(@)),
                                 !.orphans = @ \cup failed, !.gone = expired \ failed]
  <1>1. mem[p] \in Memory /\ w \in Windows /\ mem[p].orphans \subseteq Nat
    BY MemoryIs
  <1>2. n \in 0..Len(w)
    BY <1>1, WindowIs
  <1>3. /\ SubSeq(w, 1, n) \in Windows /\ SubSeq(w, n + 1, Len(w)) \in Windows
        /\ Ids(w) = expired \cup Ids(SubSeq(w, n + 1, Len(w)))
    BY <1>1, <1>2, CutWindow
  <1>4. expired \subseteq Nat
    <2>1. \A i \in DOMAIN SubSeq(w, 1, n) : SubSeq(w, 1, n)[i].msg \in Nat
      BY <1>3, WindowIs
    <2> QED
      BY <2>1 DEF Ids
  <1>5. failed \subseteq expired /\ Hide(expired \ failed)
    BY DEF ExpireImmediate
  <1> HIDE DEF expired
  <1>6. m \in Memory
    BY <1>1, <1>3, <1>4, <1>5 DEF Memory
  <1>7. mem'[p] = m
    BY HoldIs DEF ExpireImmediate, expired
  <1>8. mem'[p].gone = expired \ failed
    BY <1>1, <1>7 DEF Memory
  <1>9. Ids(w) \cup mem[p].orphans
             \subseteq Ids(mem'[p].window) \cup mem'[p].orphans \cup (expired \ failed)
    BY <1>1, <1>3, <1>7 DEF Memory
  <1>10. At(p, "idle") /\ UNCHANGED <<made, row, forgot, refused, used, harm>> /\ Hold(p, m)
    BY DEF ExpireImmediate, expired
  <1>11. Running(p) /\ Running(p)' /\ mem'[p].pc # "send" /\ At(p, mem[p].pc)
    BY <1>1, <1>7, <1>10 DEF At, Running, Memory
  <1>12. Keeps /\ \A i \in DOMAIN sent : sent'[i].shown => i \notin mem'[p].gone
    BY <1>5, <1>8, HideProps
  <1>13. used' \in [starts : Nat, mishaps : Nat]
    BY <1>10 DEF TypeOK
  <1>14. Others(p) /\ SameCards(p) /\ mem' \in [Processes -> Memory]
    BY <1>1, <1>6, <1>7, <1>10, HoldIs DEF Others, SameCards, Memory
  <1> QED
    BY <1>8, <1>9, <1>10, <1>11, <1>12, <1>13, <1>14 DEF Quiet

\* The pass stops, a request or a whole group fails, or an answer is lost of a
\* message that was there: the process only goes on elsewhere.
LEMMA GoesOn ==
  ASSUME TypeOK, NEW p \in Processes, At(p, mem[p].pc), mem[p].pc # "off",
         NEW pc \in Pcs \ {"off", "send"}, NEW group \in Nat, NEW solo \in SUBSET Cards,
         Hold(p, [mem[p] EXCEPT !.pc = pc, !.group = group, !.solo = solo]),
         used' \in [starts : Nat, mishaps : Nat],
         UNCHANGED <<made, row, discord, harm>>
  PROVE  Quiet(p)
  <1> DEFINE m == [mem[p] EXCEPT !.pc = pc, !.group = group, !.solo = solo]
  <1>1. mem[p] \in Memory
    BY MemoryIs
  <1>2. m \in Memory
    BY <1>1 DEF Memory
  <1>3. mem'[p] = m
    BY HoldIs
  <1>4. SameCards(p) /\ SameWindow(p) /\ mem'[p].gone = {} /\ mem'[p].pc = pc
    BY <1>1, <1>3 DEF At, SameCards, SameWindow, Memory
  <1>5. Others(p) /\ mem' \in [Processes -> Memory]
    BY <1>2, HoldIs DEF Others
  <1>6. Keeps
    BY KeepsSame DEF discord
  <1> QED
    BY <1>4, <1>5, <1>6 DEF Quiet, SameWindow, Running, discord

LEMMA StopEffect ==
  ASSUME TypeOK, NEW p \in Processes, StopPass(p)
  PROVE  Quiet(p)
  <1>1. mem[p] \in Memory /\ mem[p].group \in Nat /\ mem[p].solo \in SUBSET Cards
    BY MemoryIs
  <1>2. [mem[p] EXCEPT !.pc = "end"] = [mem[p] EXCEPT !.pc = "end", !.group = mem[p].group, !.solo = mem[p].solo]
    BY <1>1 DEF Memory
  <1>3. At(p, mem[p].pc) /\ mem[p].pc # "off" /\ "end" \in Pcs \ {"off", "send"}
    BY DEF StopPass, At, Pcs
  <1>4. /\ Hold(p, [mem[p] EXCEPT !.pc = "end", !.group = mem[p].group, !.solo = mem[p].solo])
        /\ UNCHANGED <<made, row, discord, harm>> /\ used' \in [starts : Nat, mishaps : Nat]
    BY <1>2 DEF StopPass, TypeOK
  <1> QED
    BY <1>1, <1>3, <1>4, GoesOn

LEMMA FailEffect ==
  ASSUME TypeOK, NEW p \in Processes, SendFails(p)
  PROVE  Quiet(p)
  <1>1. mem[p] \in Memory /\ 0 \in Nat /\ mem[p].solo \in SUBSET Cards
    BY MemoryIs
  <1>2. [mem[p] EXCEPT !.pc = "end", !.group = 0] = [mem[p] EXCEPT !.pc = "end", !.group = 0, !.solo = mem[p].solo]
    BY <1>1 DEF Memory
  <1>3. At(p, mem[p].pc) /\ mem[p].pc # "off" /\ "end" \in Pcs \ {"off", "send"}
    BY DEF SendFails, At, Pcs
  <1>4. /\ Hold(p, [mem[p] EXCEPT !.pc = "end", !.group = 0, !.solo = mem[p].solo])
        /\ UNCHANGED <<made, row, discord, harm>> /\ used' \in [starts : Nat, mishaps : Nat]
    BY <1>2 DEF SendFails, TypeOK
  <1> QED
    BY <1>1, <1>3, <1>4, GoesOn

\* The group of a process is the beginning of what waits.
LEMMA GroupIs ==
  ASSUME TypeOK, NEW p \in Processes, mem[p].group \in 1..Len(mem[p].pending)
  PROVE  /\ Group(p) \in Seq(Cards) /\ Len(Group(p)) = mem[p].group /\ Group(p) # <<>>
         /\ \A i \in 1..mem[p].group : Group(p)[i] = mem[p].pending[i]
         /\ Range(Group(p)) \subseteq Range(mem[p].pending) /\ Range(Group(p)) \subseteq Cards
         /\ Head(Group(p)) = Head(mem[p].pending) /\ mem[p].pending # <<>>
         /\ Head(mem[p].pending) = mem[p].pending[1]
  <1>1. mem[p].pending \in Seq(Cards) /\ mem[p].group \in 0..Len(mem[p].pending) /\ mem[p].group \in Nat \ {0}
    BY MemoryIs
  <1>2. /\ Group(p) \in Seq(Cards) /\ Len(Group(p)) = mem[p].group
        /\ \A i \in 1..mem[p].group : Group(p)[i] = mem[p].pending[i]
    BY <1>1, Cut DEF Group
  <1>3. Group(p) # <<>> /\ mem[p].pending # <<>>
    BY <1>1, <1>2
  <1>4. Head(Group(p)) = Group(p)[1] /\ Head(mem[p].pending) = mem[p].pending[1] /\ 1 \in 1..mem[p].group
    BY <1>1, <1>2, <1>3
  <1>5. ASSUME NEW c \in Range(Group(p)) PROVE c \in Range(mem[p].pending) /\ c \in Cards
    <2>1. PICK i \in 1..mem[p].group : c = Group(p)[i]
      BY <1>2, RangeIs
    <2>2. c = mem[p].pending[i] /\ i \in 1..Len(mem[p].pending)
      BY <1>1, <1>2, <2>1
    <2> QED
      BY <1>1, <2>2, RangeIs
  <1> QED
    BY <1>2, <1>3, <1>4, <1>5

\* A refused group of several cards is left to be tried one by one.
LEMMA RejectGroupEffect ==
  ASSUME TypeOK, Waiting, NEW p \in Processes, Reject(p), mem[p].group > 1
  PROVE  Quiet(p)
  <1>1. /\ At(p, mem[p].pc) /\ mem[p].pc = "send" /\ mem[p].pc # "off"
        /\ "record" \in Pcs \ {"off", "send"} /\ 0 \in Nat
    BY DEF Reject, At, Pcs
  <1>2. mem[p].group \in 1..Len(mem[p].pending)
    BY <1>1 DEF Waiting, Orderly
  <1>3. mem[p].solo \cup Range(Group(p)) \in SUBSET Cards
    BY <1>2, GroupIs, MemoryIs
  <1>4. mem[p] \in Memory
    BY MemoryIs
  <1>5. [mem[p] EXCEPT !.pc = "record", !.group = 0, !.solo = @ \cup Range(Group(p))]
           = [mem[p] EXCEPT !.pc = "record", !.group = 0, !.solo = mem[p].solo \cup Range(Group(p))]
    BY <1>4 DEF Memory
  <1>6. /\ Hold(p, [mem[p] EXCEPT !.pc = "record", !.group = 0, !.solo = mem[p].solo \cup Range(Group(p))])
        /\ UNCHANGED <<made, row, discord, harm>> /\ used' \in [starts : Nat, mishaps : Nat]
    BY <1>5 DEF Reject, TypeOK
  <1> QED
    BY <1>1, <1>3, <1>6, GoesOn

\* An answer is lost, and the message was there before.
LEMMA LoseKnownEffect ==
  ASSUME TypeOK, NEW p \in Processes, LoseAnswer(p), UNCHANGED sent
  PROVE  Quiet(p)
  <1>1. /\ At(p, mem[p].pc) /\ mem[p].pc = "send" /\ mem[p].pc # "off"
        /\ "end" \in Pcs \ {"off", "send"} /\ 0 \in Nat
    BY DEF LoseAnswer, At, Pcs
  <1>2. used' \in [starts : Nat, mishaps : Nat] /\ harm' = harm
    <2>1. Harm({})
      BY DEF LoseAnswer
    <2>2. harm' = harm \cup {}
      BY <2>1, HarmIs
    <2> QED
      BY <2>1, <2>2, HarmIs
  <1>3. UNCHANGED <<made, row, discord, harm>>
    BY <1>2 DEF LoseAnswer, discord
  <1>4. CASE UNCHANGED mem
    <2>1. mem' \in [Processes -> Memory] /\ Others(p) /\ SameCards(p)
      BY <1>4 DEF TypeOK, Others, SameCards
    <2>2. mem'[p].gone = {} /\ mem[p].window = mem'[p].window /\ mem[p].orphans = mem'[p].orphans
      BY <1>1, <1>4 DEF At
    <2>3. Running(p) /\ Running(p)'
      BY <1>1, <1>4 DEF Running
    <2>4. Keeps
      BY KeepsSame
    <2> QED
      BY <1>1, <1>2, <1>3, <1>4, <2>1, <2>2, <2>3, <2>4 DEF Quiet, discord
  <1>5. CASE Hold(p, [mem[p] EXCEPT !.pc = "end", !.group = 0])
    <2>1. mem[p] \in Memory /\ mem[p].solo \in SUBSET Cards
      BY MemoryIs
    <2>2. [mem[p] EXCEPT !.pc = "end", !.group = 0] = [mem[p] EXCEPT !.pc = "end", !.group = 0, !.solo = mem[p].solo]
      BY <2>1 DEF Memory
    <2>3. Hold(p, [mem[p] EXCEPT !.pc = "end", !.group = 0, !.solo = mem[p].solo])
      BY <1>5, <2>2
    <2> QED
      BY <1>1, <1>2, <1>3, <2>1, <2>3, GoesOn
  <1> QED
    BY <1>4, <1>5 DEF LoseAnswer

\* Room is made.
LEMMA MakeRoomEffect ==
  ASSUME TypeOK, NEW p \in Processes, NEW failed, MakeRoom(p, failed)
  PROVE  Quiet(p)
  <1> DEFINE w == mem[p].window
             n == NextGroup(mem[p])
             evicted == Ids(SubSeq(w, 1, Evict(mem[p], n)))
             ids == evicted \ failed
             pc == IF failed = {} THEN "send" ELSE "end"
             m == [mem[p] EXCEPT !.pc = pc, !.group = n, !.gone = ids, !.window = Without(@, ids)]
             flagged == \A i \in 1..n : mem[p].pending[i] \in mem[p].saved
  <1>1. mem[p] \in Memory /\ w \in Windows /\ mem[p].pending # <<>>
    BY MemoryIs DEF MakeRoom
  <1>2. n \in 1..Len(mem[p].pending) /\ n <= MaxItems /\ n \in 0..MaxItems /\ n \in Nat
    <2>1. n \in 1..Len(mem[p].pending) /\ n <= MaxItems /\ Len(mem[p].pending) \in Nat /\ MaxItems \in Nat
      BY <1>1, NextGroupProps, MemoryIs, RangeIs, FeedAssumption
    <2> HIDE DEF n
    <2> QED
      BY <2>1
  <1>3. /\ Hide(ids) /\ Hold(p, m) /\ harm' = harm \cup IF flagged THEN {} ELSE {"unrecorded"}
        /\ UNCHANGED <<made, row, forgot, refused, used>> /\ At(p, "choose")
    BY DEF MakeRoom
  <1> HIDE DEF n
  <1>4. Evict(mem[p], n) \in 0..Len(w)
    BY <1>1, <1>2, EvictProps
  <1>5. evicted \subseteq Ids(w) /\ evicted \subseteq Nat
    <2>1. SubSeq(w, 1, Evict(mem[p], n)) \in Windows /\ evicted \subseteq Ids(w)
      BY <1>1, <1>4, CutWindow
    <2>2. \A i \in DOMAIN w : w[i].msg \in Nat
      BY <1>1, WindowIs
    <2>3. Ids(w) \subseteq Nat
      BY <2>2 DEF Ids
    <2> QED
      BY <2>1, <2>3
  <1> HIDE DEF evicted
  <1>6. Without(w, ids) \in Windows /\ Ids(Without(w, ids)) = Ids(w) \ ids
    BY <1>1, WithoutProps
  <1>7. ids \in SUBSET Nat /\ pc \in Pcs \ {"off"}
    BY <1>5 DEF Pcs
  <1> HIDE DEF ids, flagged
  <1>8. m \in Memory
    BY <1>1, <1>2, <1>6, <1>7 DEF Memory
  <1>9. mem'[p] = m
    BY <1>3, HoldIs
  <1>10. /\ mem'[p].gone = ids /\ mem'[p].window = Without(w, ids) /\ mem'[p].orphans = mem[p].orphans
         /\ mem'[p].group = n /\ mem'[p].pc = pc
    BY <1>1, <1>9 DEF Memory
  <1>11. SameCards(p) /\ Others(p) /\ mem' \in [Processes -> Memory]
    <2>1. SameCards(p)
      BY <1>1, <1>9 DEF SameCards, Memory
    <2> HIDE DEF m
    <2>2. \A q \in Processes : q # p => mem'[q] = mem[q]
      BY <1>3, HoldIs
    <2>3. mem' \in [Processes -> Memory]
      BY <1>3, <1>8, HoldIs
    <2> QED
      BY <2>1, <2>2, <2>3 DEF Others
  <1>12. At(p, mem[p].pc) /\ Running(p) /\ Running(p)'
    BY <1>3, <1>7, <1>10 DEF At, Running
  <1>13. Keeps /\ \A i \in DOMAIN sent : sent'[i].shown => i \notin mem'[p].gone
    BY <1>3, <1>10, HideProps
  <1>14. used' \in [starts : Nat, mishaps : Nat]
    BY <1>3 DEF TypeOK
  <1>15. harm \subseteq harm' /\ harm' \subseteq harm \cup {"unrecorded"} /\ (flagged \/ "unrecorded" \in harm')
    BY <1>3
  <1>16. mem'[p].pc = "send" =>
           /\ mem'[p].group \in 1..Len(mem[p].pending)
           /\ \/ \A i \in 1..mem'[p].group : mem[p].pending[i] \in mem[p].saved
              \/ "unrecorded" \in harm'
    BY <1>2, <1>10, <1>15 DEF flagged
  <1>17. Ids(w) \cup mem[p].orphans \subseteq Ids(mem'[p].window) \cup mem'[p].orphans \cup mem'[p].gone
    BY <1>6, <1>10
  <1> QED
    BY <1>3, <1>11, <1>12, <1>13, <1>14, <1>15, <1>16, <1>17 DEF Quiet

-----------------------------------------------------------------------------
(* What steps of many kinds leave alone.                                   *)

LEMMA SentIs ==
  ASSUME TypeOK
  PROVE  /\ Len(sent) \in Nat /\ DOMAIN sent = 1..Len(sent)
         /\ \A i \in DOMAIN sent : sent[i].cards \in Seq(Cards) /\ sent[i].shown \in BOOLEAN
  <1>1. sent \in Seq([cards : Seq(Cards), shown : BOOLEAN])
    BY DEF TypeOK
  <1>2. Len(sent) \in Nat /\ DOMAIN sent = 1..Len(sent)
    BY <1>1
  <1>3. \A i \in 1..Len(sent) : sent[i] \in [cards : Seq(Cards), shown : BOOLEAN]
    BY <1>1, ElementOfSeq
  <1> QED
    BY <1>2, <1>3

\* The cards of a message, from its first to its last.
LEMMA MessageIs ==
  ASSUME TypeOK, Messages, NEW i \in DOMAIN sent
  PROVE  /\ sent[i].cards \in Seq(Cards) /\ sent[i].cards # <<>> /\ Increasing(sent[i].cards)
         /\ Holds(i, Head(sent[i].cards)) /\ Holds(i, Last(sent[i].cards))
         /\ Head(sent[i].cards) \in Cards /\ Last(sent[i].cards) \in Cards
         /\ Last(sent[i].cards) = sent[i].cards[Len(sent[i].cards)]
         /\ \A c : Holds(i, c) => c \in Cards /\ c \notin refused
                                  /\ Head(sent[i].cards) <= c /\ c <= Last(sent[i].cards)
  <1>1. sent[i].cards \in Seq(Cards) /\ sent[i].cards # <<>> /\ Increasing(sent[i].cards)
        /\ Range(sent[i].cards) \cap refused = {}
    BY SentIs DEF Messages
  <1>2. Cards \in SUBSET Nat
    BY CardsNat
  <1>3. \A c \in Range(sent[i].cards) : c \in Cards /\ c \notin refused
    BY <1>1, RangeIs
  <1> QED
    BY <1>1, <1>2, <1>3, Bounds DEF Holds

LEMMA PendingIs ==
  ASSUME TypeOK, Waiting, NEW p \in Processes
  PROVE  /\ mem[p].pending \in Seq(Cards) /\ Increasing(mem[p].pending)
         /\ mem[p].marks \in Seq(Cards) /\ Increasing(mem[p].marks)
         /\ \A c \in Range(mem[p].pending) : c \in Cards /\ c \in Nat
         /\ \A c \in Range(mem[p].marks) : c \in Cards /\ c \in Nat
         /\ mem[p].drops \subseteq Cards
         /\ mem[p].pending # <<>> =>
               /\ Head(mem[p].pending) \in Range(mem[p].pending)
               /\ \A c \in Range(mem[p].pending) : Head(mem[p].pending) <= c
         /\ mem[p].marks # <<>> =>
               /\ Head(mem[p].marks) \in Range(mem[p].marks)
               /\ \A c \in Range(mem[p].marks) : Head(mem[p].marks) <= c
  <1>1. /\ mem[p].pending \in Seq(Cards) /\ Increasing(mem[p].pending)
        /\ mem[p].marks \in Seq(Cards) /\ Increasing(mem[p].marks) /\ mem[p].drops \subseteq Cards
    BY MemoryIs DEF Waiting, Orderly
  <1>2. Cards \in SUBSET Nat
    BY CardsNat
  <1>3. \A c \in Range(mem[p].pending) : c \in Cards /\ c \in Nat
    BY <1>1, <1>2, RangeIs
  <1>4. \A c \in Range(mem[p].marks) : c \in Cards /\ c \in Nat
    BY <1>1, <1>2, RangeIs
  <1>5. mem[p].pending # <<>> =>
               /\ Head(mem[p].pending) \in Range(mem[p].pending)
               /\ \A c \in Range(mem[p].pending) : Head(mem[p].pending) <= c
    BY <1>1, <1>2, Bounds
  <1>6. mem[p].marks # <<>> =>
               /\ Head(mem[p].marks) \in Range(mem[p].marks)
               /\ \A c \in Range(mem[p].marks) : Head(mem[p].marks) <= c
    BY <1>1, <1>2, Bounds
  <1> QED
    BY <1>1, <1>3, <1>4, <1>5, <1>6

LEMMA RowIs ==
  ASSUME TypeOK, NEW c \in Cards
  PROVE  row[c] \in [state : States, msg : Nat] /\ row[c].state \in States /\ row[c].msg \in Nat
  BY DEF TypeOK

LEMMA KeepsMessages ==
  ASSUME Messages, Keeps, harm \subseteq harm', UNCHANGED <<refused, forgot>>
  PROVE  Messages'
  BY DEF Messages, Keeps

LEMMA KeepsOrder ==
  ASSUME InOrder, SentOnce, Keeps, harm \subseteq harm'
  PROVE  InOrder' /\ SentOnce'
  <1>1. \A i \in DOMAIN sent : \A c : Holds(i, c)' <=> Holds(i, c)
    BY DEF Keeps, Holds
  <1>2. InOrder'
    BY <1>1 DEF InOrder, Keeps
  <1>3. ASSUME harm' \subseteq {"crash"}, NEW i \in DOMAIN sent, NEW j \in DOMAIN sent, NEW c \in Cards,
               i < j, Holds(i, c)', Holds(j, c)'
        PROVE  "crash" \in harm' /\ c # Head(sent'[i].cards)
    <2>1. "crash" \in harm /\ c # Head(sent[i].cards)
      BY <1>1, <1>3 DEF SentOnce
    <2> QED
      BY <2>1 DEF Keeps
  <1>4. SentOnce'
    BY <1>3 DEF SentOnce, Keeps
  <1> QED
    BY <1>2, <1>4

\* The rows that say that a card was shown stay as they were, or are closed.
LEMMA KeepsRows ==
  ASSUME RowsTrue, DOMAIN sent \subseteq DOMAIN sent', harm \subseteq harm',
         \A i \in DOMAIN sent : sent'[i].cards = sent[i].cards,
         \A c \in Cards : row'[c].state = "SHOWN" => row'[c] = row[c]
  PROVE  RowsTrue'
  <1>1. ASSUME harm' \cap {"journal", "overlap", "unrecorded"} = {},
               NEW c \in Cards, row'[c].state = "SHOWN"
        PROVE  row'[c].msg \in DOMAIN sent' /\ Holds(row[c].msg, c)'
    <2>1. row'[c] = row[c] /\ row[c].msg \in DOMAIN sent /\ Holds(row[c].msg, c)
      BY <1>1 DEF RowsTrue
    <2> QED
      BY <2>1 DEF Holds
  <1> QED
    BY <1>1 DEF RowsTrue

LEMMA OthersWait ==
  ASSUME TypeOK, Waiting, NEW p \in Processes, Others(p), made' >= made, made' \in Nat,
         DOMAIN sent \subseteq DOMAIN sent',
         \A c \in Cards : row[c].state # "NONE" => row'[c].state # "NONE"
  PROVE  \A q \in Processes : q # p => Orderly(q)'
  <1> SUFFICES ASSUME NEW q \in Processes, q # p PROVE Orderly(q)'
    OBVIOUS
  <1>1. mem'[q] = mem[q] /\ Orderly(q)
    BY DEF Others, Waiting
  <1>2. \A c \in Range(mem[q].pending) \cup Range(mem[q].marks) \cup mem[q].drops : c <= made'
    <2>1. \A c \in Range(mem[q].pending) \cup Range(mem[q].marks) \cup mem[q].drops : c \in Cards /\ c <= made
      BY <1>1, PendingIs DEF Orderly
    <2>2. made \in Nat /\ Cards \subseteq Nat
      BY CardsNat DEF TypeOK
    <2>3. \A c \in Cards : c <= made => c <= made'
      BY <2>2
    <2> QED
      BY <2>1, <2>3
  <1>3. \A c \in mem[q].saved : row'[c].state # "NONE"
    <2>1. mem[q].saved \subseteq Cards
      BY MemoryIs
    <2> QED
      BY <1>1, <2>1 DEF Orderly
  <1> QED
    BY <1>1, <1>2, <1>3 DEF Orderly

\* While the journal is whole, the other processes are off.
LEMMA OthersOff ==
  ASSUME TypeOK, Waiting, Journaled, Whole, NEW p \in Processes, Running(p), Others(p)
  PROVE  /\ Alone'
         /\ \A q \in Processes : q # p => mem[q] = Off /\ mem'[q] = Off
  <1>1. \A q \in Processes : q # p => mem[q] = Off
    BY DEF Journaled, Alone, Running, Waiting, Orderly
  <1>2. \A q \in Processes : q # p => mem'[q] = Off /\ ~Running(q)'
    BY <1>1, OffIs DEF Others, Running
  <1> QED
    BY <1>1, <1>2 DEF Alone

\* A process that is off holds nothing.
LEMMA OffHolds ==
  ASSUME NEW q \in Processes, mem'[q] = Off
  PROVE  /\ Held(q)' /\ Marking(q)' /\ Unanswered(q)' /\ Closing(q)'
         /\ ~Running(q)' /\ \A i : Keeping(q, i)'
  <1>1. /\ mem'[q].pc = "off" /\ mem'[q].pending = <<>> /\ mem'[q].marks = <<>>
        /\ mem'[q].drops = {} /\ mem'[q].gone = {}
    BY OffIs
  <1>2. Range(mem'[q].pending) = {} /\ Range(mem'[q].marks) = {}
    BY <1>1, EmptyIs
  <1>3. ~Running(q)'
    BY <1>1 DEF Running
  <1> QED
    BY <1>1, <1>2, <1>3 DEF Held, Marking, Unanswered, Closing, Keeping

LEMMA Milder ==
  ASSUME harm \subseteq harm'
  PROVE  /\ Whole' => Whole
         /\ harm' \subseteq {"crash"} => harm \subseteq {"crash"} /\ Whole /\ Whole'
         /\ harm' = {} => harm = {} /\ Whole /\ Whole'
  BY DEF Whole

-----------------------------------------------------------------------------
(* The invariant, step by step.                                            *)

LEMMA QuietStep ==
  ASSUME FeedInv, NEW p \in Processes, Quiet(p)
  PROVE  FeedInv'
  <1>1. /\ TypeOK /\ Messages /\ Waiting /\ Journaled /\ RowsTrue /\ InOrder /\ SentOnce /\ Calm /\ Kept
        /\ Keeps /\ Others(p) /\ SameCards(p) /\ At(p, mem[p].pc) /\ Running(p) /\ Running(p)'
        /\ harm \subseteq harm' /\ UNCHANGED <<made, row, forgot, refused>>
    BY DEF FeedInv, Quiet
  <1>2. TypeOK'
    <2>1. harm' \subseteq harm \cup {"unrecorded"} /\ used' \in [starts : Nat, mishaps : Nat]
          /\ mem' \in [Processes -> Memory]
      BY DEF Quiet
    <2> QED
      BY <1>1, <2>1 DEF TypeOK, Keeps
  <1>3. Messages'
    BY <1>1, KeepsMessages
  <1>4. Waiting'
    <2>1. made' >= made /\ made' \in Nat
      BY <1>1 DEF TypeOK
    <2>2. \A q \in Processes : q # p => Orderly(q)'
      BY <1>1, <2>1, OthersWait DEF Keeps
    <2>3. Orderly(p)'
      <3>1. Orderly(p)
        BY <1>1 DEF Waiting
      <3>2. mem'[p].pc = "send" => mem'[p].group \in 1..Len(mem[p].pending)
        BY <3>1 DEF Quiet, Orderly
      <3> QED
        BY <1>1, <3>1, <3>2 DEF Orderly, SameCards, Running, Keeps
    <2> QED
      BY <1>1, <2>2, <2>3 DEF Waiting
  <1>5. Journaled'
    <2> SUFFICES ASSUME Whole' PROVE Alone' /\ (\A q \in Processes : Held(q)' /\ Marking(q)')
                                     /\ \A i \in DOMAIN sent' : SentRows(i)'
      BY DEF Journaled
    <2>1. Whole /\ Alone' /\ \A q \in Processes : q # p => Held(q)' /\ Marking(q)'
      BY <1>1, Milder, OthersOff, OffHolds
    <2>2. Held(p) /\ \A i \in DOMAIN sent : SentRows(i)
      BY <1>1, <2>1 DEF Journaled
    <2>3. mem'[p].pc = "send" => \A i \in 1..mem'[p].group : mem[p].pending[i] \in mem[p].saved
      <3>1. "unrecorded" \notin harm'
        BY DEF Whole
      <3> QED
        BY <2>2, <3>1 DEF Quiet, Held
    <2>4. Held(p)'
      BY <1>1, <2>2, <2>3 DEF Held, SameCards
    <2>5. Marking(p)'
      BY <1>1 DEF Marking, SameCards, At
    <2>6. \A i \in DOMAIN sent' : SentRows(i)'
      BY <1>1, <2>2 DEF SentRows, Keeps, Holds
    <2> QED
      BY <2>1, <2>4, <2>5, <2>6
  <1>6. RowsTrue'
    BY <1>1, KeepsRows DEF Keeps
  <1>7. InOrder' /\ SentOnce'
    BY <1>1, KeepsOrder
  <1>8. Calm'
    <2> SUFFICES ASSUME harm' = {} PROVE \A q \in Processes : Unanswered(q)'
      BY <1>1 DEF Calm
    <2>1. harm = {} /\ Whole /\ \A q \in Processes : q # p => Unanswered(q)'
      BY <1>1, Milder, OthersOff, OffHolds
    <2>2. Unanswered(p)'
      BY <1>1, <2>1 DEF Calm, Unanswered, SameCards, Keeps, Holds
    <2> QED
      BY <2>1, <2>2
  <1>9. Kept'
    <2> SUFFICES ASSUME harm' \subseteq {"crash"}
                 PROVE  /\ \A q \in Processes : Closing(q)'
                        /\ \A i \in DOMAIN sent' : sent'[i].shown =>
                              FirstRow(i)' /\ \A q \in Processes : Keeping(q, i)'
      BY DEF Kept
    <2>1. harm \subseteq {"crash"} /\ Whole /\ \A q \in Processes : q # p => Closing(q)' /\ \A i : Keeping(q, i)'
      BY <1>1, Milder, OthersOff, OffHolds
    <2>2. Closing(p)'
      <3>1. mem'[p].marks = <<>> /\ mem'[p].drops = {}
        BY <1>1 DEF At, SameCards
      <3>2. Range(mem'[p].marks) = {}
        BY <3>1, EmptyIs
      <3>3. \A i \in mem'[p].gone \cap DOMAIN sent' : ~sent'[i].shown
        BY <1>1 DEF Quiet, Keeps
      <3> QED
        BY <3>1, <3>2, <3>3 DEF Closing
    <2>3. ASSUME NEW i \in DOMAIN sent', sent'[i].shown
          PROVE  FirstRow(i)' /\ Keeping(p, i)'
      <3>1. i \in DOMAIN sent /\ sent[i].shown /\ sent'[i].cards = sent[i].cards /\ i \notin mem'[p].gone
        BY <1>1, <2>3 DEF Keeps, Quiet
      <3>2. FirstRow(i) /\ Keeping(p, i)
        BY <1>1, <2>1, <3>1 DEF Kept
      <3> QED
        BY <1>1, <3>1, <3>2 DEF FirstRow, Keeping, Quiet
    <2> QED
      BY <2>1, <2>2, <2>3
  <1> QED
    BY <1>2, <1>3, <1>4, <1>5, <1>6, <1>7, <1>8, <1>9 DEF FeedInv

LEMMA EnqueueStep ==
  ASSUME FeedInv, NEW p \in Processes, EnqueueTimed(p)
  PROVE  FeedInv'
  <1> DEFINE x == made + 1
  <1>1. /\ TypeOK /\ Messages /\ Waiting /\ Journaled /\ RowsTrue /\ InOrder /\ SentOnce /\ Calm /\ Kept
    BY DEF FeedInv
  <1>2. /\ Others(p) /\ SameWindow(p) /\ Running(p) /\ Running(p)'
        /\ mem'[p].pc = mem[p].pc /\ mem'[p].pending = Append(mem[p].pending, x)
        /\ mem'[p].saved = mem[p].saved /\ mem'[p].group = mem[p].group
        /\ mem'[p].marks = mem[p].marks /\ mem'[p].msg = mem[p].msg
        /\ mem'[p].gone = mem[p].gone /\ mem'[p].drops = mem[p].drops
        /\ made' = x /\ x \in Cards
        /\ mem' \in [Processes -> Memory]
        /\ UNCHANGED <<row, sent, forgot, refused, used, harm>>
    BY <1>1, EnqueueEffect DEF discord
  <1>3. made \in Nat /\ x \in Nat /\ made < x /\ x \in 0..MaxCards
    BY <1>1, <1>2, CardsNat DEF TypeOK, Cards
  <1>4. Keeps
    BY <1>1, <1>2, KeepsSame
  <1>5. row[x].state = "NONE" /\ \A d \in Cards : row[d].state # "NONE" => d < x
    <2>1. \A d \in Cards : row[d].state # "NONE" => d <= made /\ d \in Nat
      BY <1>1, CardsNat DEF Waiting
    <2>2. \A d \in Cards : row[d].state # "NONE" => d < x
      BY <1>3, <2>1
    <2>3. ~(x < x)
      BY <1>3
    <2> QED
      BY <1>2, <2>2, <2>3
  <1>6. /\ mem[p].pending \in Seq(Cards) /\ Increasing(mem[p].pending)
        /\ \A c \in Range(mem[p].pending) : c \in Cards /\ c \in Nat /\ c <= made
    BY <1>1, PendingIs DEF Waiting, Orderly
  <1>7. \A c \in Range(mem[p].pending) : c < x
    BY <1>3, <1>6
  <1>8. /\ Append(mem[p].pending, x) \in Seq(Cards) /\ Increasing(Append(mem[p].pending, x))
        /\ Range(Append(mem[p].pending, x)) = Range(mem[p].pending) \cup {x}
        /\ Len(Append(mem[p].pending, x)) = Len(mem[p].pending) + 1
        /\ \A i \in 1..Len(mem[p].pending) : Append(mem[p].pending, x)[i] = mem[p].pending[i]
        /\ mem[p].pending # <<>> => Head(Append(mem[p].pending, x)) = Head(mem[p].pending)
    <2>1. Cards \in SUBSET Nat
      BY CardsNat
    <2> QED
      BY <1>2, <1>6, <1>7, <2>1, AppendAscending
  <1>9. \A d \in Range(mem[p].marks) \cup mem[p].drops : d < x /\ d <= x
    <2>1. \A d \in Range(mem[p].marks) \cup mem[p].drops : d \in Nat /\ d <= made
      BY <1>1, PendingIs, CardsNat DEF Waiting, Orderly
    <2> QED
      BY <1>3, <2>1
  <1> HIDE DEF x
  <1>10. TypeOK'
    BY <1>1, <1>2, <1>3 DEF TypeOK
  <1>11. Messages' /\ InOrder' /\ SentOnce' /\ RowsTrue'
    BY <1>1, <1>2, <1>4, KeepsMessages, KeepsOrder, KeepsRows
  <1>12. Waiting'
    <2>1. \A c \in Cards : row[c].state # "NONE" => c <= x
      BY <1>1, <1>3, CardsNat DEF Waiting
    <2>2. \A q \in Processes : q # p => Orderly(q)'
      <3>1. made' >= made /\ made' \in Nat
        BY <1>2, <1>3
      <3> QED
        BY <1>1, <1>2, <3>1, OthersWait
    <2>3. Orderly(p)'
      <3>1. Orderly(p)
        BY <1>1 DEF Waiting
      <3>2. \A c \in Range(mem'[p].pending) \cup Range(mem'[p].marks) \cup mem'[p].drops : c <= made'
        <4>1. \A c \in Range(mem[p].pending) : c <= x
          BY <1>3, <1>6
        <4> QED
          BY <1>2, <1>3, <1>8, <1>9, <4>1
      <3>3. \A c \in Range(mem'[p].pending), d \in Range(mem'[p].marks) \cup mem'[p].drops : d < c
        BY <1>2, <1>8, <1>9, <3>1 DEF Orderly
      <3>4. mem'[p].pc = "send" => mem'[p].group \in 1..Len(mem'[p].pending)
        <4>1. Len(mem[p].pending) \in Nat /\ Len(mem'[p].pending) = Len(mem[p].pending) + 1
          BY <1>2, <1>6, <1>8
        <4> QED
          BY <1>2, <3>1, <4>1 DEF Orderly
      <3>5. mem'[p].pc # "off"
        BY <1>2 DEF Running
      <3> QED
        BY <1>2, <1>8, <3>1, <3>2, <3>3, <3>4, <3>5 DEF Orderly
    <2> QED
      BY <1>2, <2>1, <2>2, <2>3 DEF Waiting
  <1>13. Journaled'
    <2> SUFFICES ASSUME Whole' PROVE Alone' /\ (\A q \in Processes : Held(q)' /\ Marking(q)')
                                     /\ \A i \in DOMAIN sent' : SentRows(i)'
      BY DEF Journaled
    <2>1. Whole /\ Alone' /\ \A q \in Processes : q # p => Held(q)' /\ Marking(q)'
      BY <1>1, <1>2, Milder, OthersOff, OffHolds
    <2>2. Held(p) /\ Marking(p) /\ \A i \in DOMAIN sent : SentRows(i)
      BY <1>1, <2>1 DEF Journaled
    <2>3. mem'[p].pc = "send" => \A i \in 1..mem'[p].group : mem'[p].pending[i] \in mem'[p].saved
      <3>1. mem'[p].pc = "send" => mem[p].group \in 1..Len(mem[p].pending)
        BY <1>1, <1>2 DEF Waiting, Orderly
      <3>2. mem'[p].pc = "send" => \A i \in 1..mem[p].group : i \in 1..Len(mem[p].pending)
        BY <1>6, <3>1
      <3> QED
        BY <1>2, <1>8, <2>2, <3>2 DEF Held
    <2>4. Held(p)'
      BY <1>2, <1>5, <1>8, <2>2, <2>3 DEF Held
    <2>5. Marking(p)'
      <3> SUFFICES ASSUME mem[p].marks # <<>> PROVE Last(sent[mem[p].msg].cards) < x
        BY <1>2, <1>8, <2>2 DEF Marking, Holds
      <3>1. mem[p].msg \in DOMAIN sent
        BY <1>1 DEF Waiting, Orderly
      <3>2. row[Last(sent[mem[p].msg].cards)].state # "NONE" /\ Last(sent[mem[p].msg].cards) \in Cards
        BY <1>1, <2>2, <3>1, MessageIs DEF SentRows, Holds
      <3> QED
        BY <1>5, <3>2
    <2>6. \A i \in DOMAIN sent' : SentRows(i)'
      BY <1>2, <2>2 DEF SentRows, Holds
    <2> QED
      BY <2>1, <2>4, <2>5, <2>6
  <1>14. Calm'
    <2> SUFFICES ASSUME harm' = {} PROVE \A q \in Processes : Unanswered(q)'
      BY <1>2 DEF Calm
    <2>1. harm = {} /\ Whole /\ \A q \in Processes : q # p => Unanswered(q)'
      BY <1>1, <1>2, Milder, OthersOff, OffHolds
    <2>2. Unanswered(p)'
      <3> SUFFICES ASSUME NEW i \in DOMAIN sent, NEW c \in Range(mem[p].pending) \cup {x}, Holds(i, c)
                   PROVE  Head(sent[i].cards) = Head(Append(mem[p].pending, x))
        BY <1>2, <1>8 DEF Unanswered, Holds
      <3>1. c # x
        <4>1. SentRows(i)
          BY <1>1, <2>1 DEF Journaled
        <4> QED
          BY <1>5, <4>1 DEF SentRows, Holds
      <3>2. c \in Range(mem[p].pending) /\ mem[p].pending # <<>>
        BY <1>6, <3>1, RangeIs
      <3>3. Unanswered(p)
        BY <1>1, <2>1 DEF Calm
      <3> QED
        BY <1>8, <3>2, <3>3 DEF Unanswered
    <2> QED
      BY <2>1, <2>2
  <1>15. Kept'
    <2> SUFFICES ASSUME harm' \subseteq {"crash"}
                 PROVE  /\ \A q \in Processes : Closing(q)'
                        /\ \A i \in DOMAIN sent' : sent'[i].shown =>
                              FirstRow(i)' /\ \A q \in Processes : Keeping(q, i)'
      BY DEF Kept
    <2>1. harm \subseteq {"crash"} /\ Whole /\ \A q \in Processes : q # p => Closing(q)' /\ \A i : Keeping(q, i)'
      BY <1>1, <1>2, Milder, OthersOff, OffHolds
    <2>2. Closing(p)'
      BY <1>1, <1>2, <2>1 DEF Kept, Closing, SameWindow
    <2>3. ASSUME NEW i \in DOMAIN sent', sent'[i].shown
          PROVE  FirstRow(i)' /\ Keeping(p, i)'
      <3>1. FirstRow(i) /\ Keeping(p, i)
        BY <1>1, <1>2, <2>1, <2>3 DEF Kept
      <3> QED
        BY <1>2, <3>1 DEF FirstRow, Keeping, SameWindow
    <2> QED
      BY <2>1, <2>2, <2>3
  <1> QED
    BY <1>10, <1>11, <1>12, <1>13, <1>14, <1>15 DEF FeedInv

LEMMA RecordIs ==
  ASSUME TypeOK, NEW cards, Record(cards)
  PROVE  /\ row' \in [Cards -> [state : States, msg : Nat]]
         /\ \A c \in Cards : /\ row[c].state # "NONE" => row'[c] = row[c]
                             /\ c \notin cards => row'[c] = row[c]
                             /\ c \in cards => row'[c].state # "NONE"
                             /\ row[c].state = "NONE" /\ c \in cards => row'[c].state = "QUEUED"
  <1>1. \A c \in Cards : row[c] \in [state : States, msg : Nat]
    BY RowIs
  <1>2. [state |-> "QUEUED", msg |-> 0] \in [state : States, msg : Nat]
    BY DEF States
  <1> QED
    BY <1>1, <1>2 DEF Record

LEMMA RecordStep ==
  ASSUME FeedInv, NEW p \in Processes, JournalPending(p)
  PROVE  FeedInv'
  <1>1. /\ TypeOK /\ Messages /\ Waiting /\ Journaled /\ RowsTrue /\ InOrder /\ SentOnce /\ Calm /\ Kept
    BY DEF FeedInv
  <1>2. /\ Others(p) /\ SameWindow(p) /\ At(p, "record")
        /\ mem'[p].pc = "choose" /\ mem'[p].pending = mem[p].pending
        /\ mem'[p].marks = <<>> /\ mem'[p].gone = {} /\ mem'[p].drops = {}
        /\ mem' \in [Processes -> Memory]
        /\ UNCHANGED <<made, sent, forgot, refused>>
    BY <1>1, RecordEffect DEF discord
  <1>3. PICK cards \in SUBSET Range(mem[p].pending) : Record(cards)
    <2>1. Range(mem[p].pending) \ mem[p].saved \in SUBSET Range(mem[p].pending)
      OBVIOUS
    <2> QED
      BY <1>1, <2>1, RecordEffect
  <1>4. /\ row' \in [Cards -> [state : States, msg : Nat]]
        /\ \A c \in Cards : /\ row[c].state # "NONE" => row'[c] = row[c]
                            /\ c \notin cards => row'[c] = row[c]
                            /\ c \in cards => row'[c].state # "NONE"
                            /\ row[c].state = "NONE" /\ c \in cards => row'[c].state = "QUEUED"
    BY <1>1, <1>3, RecordIs
  <1>5. /\ used' \in [starts : Nat, mishaps : Nat]
        /\ \/ harm' = harm /\ mem'[p].saved = Range(mem[p].pending)
              /\ Record(Range(mem[p].pending) \ mem[p].saved)
           \/ harm' = harm \cup {"journal"} /\ mem'[p].saved = mem[p].saved
    <2>1. CASE Record(Range(mem[p].pending) \ mem[p].saved) /\ mem'[p].saved = Range(mem[p].pending) /\ NoFault
      BY <1>1, <2>1 DEF NoFault, TypeOK
    <2>2. CASE mem'[p].saved = mem[p].saved /\ Fault
      BY <1>1, <2>2, HarmIs DEF Fault
    <2> QED
      BY <1>1, <2>1, <2>2, RecordEffect
  <1>6. harm \subseteq harm' /\ harm' \subseteq harm \cup {"journal"} /\ Running(p) /\ Running(p)' /\ Keeps
    BY <1>1, <1>2, <1>5, KeepsSame DEF At, Running
  <1>7. \A c \in Range(mem[p].pending) : c \in Cards /\ c <= made
    BY <1>1, PendingIs DEF Waiting, Orderly
  <1>8. \A c \in Range(mem[p].pending) : mem'[p].saved = Range(mem[p].pending) => row'[c].state # "NONE"
    <2> SUFFICES ASSUME NEW c \in Range(mem[p].pending), mem'[p].saved = Range(mem[p].pending)
                 PROVE  row'[c].state # "NONE"
      OBVIOUS
    <2>1. CASE c \in mem[p].saved
      BY <1>1, <1>4, <1>7, <2>1 DEF Waiting, Orderly
    <2>2. CASE c \notin mem[p].saved
      <3>1. CASE Record(Range(mem[p].pending) \ mem[p].saved)
        BY <1>1, <1>7, <2>2, <3>1, RecordIs
      <3>2. CASE mem'[p].saved = mem[p].saved
        BY <2>2, <3>2
      <3> QED
        BY <1>5, <3>1, <3>2
    <2> QED
      BY <2>1, <2>2
  <1>9. TypeOK'
    <2>1. harm' \subseteq {"journal", "overlap", "unrecorded", "crash", "forgot", "overflow", "stale"}
      BY <1>1, <1>6 DEF TypeOK
    <2> QED
      BY <1>1, <1>2, <1>4, <1>5, <2>1 DEF TypeOK
  <1>10. Messages' /\ InOrder' /\ SentOnce' /\ RowsTrue'
    <2>1. \A c \in Cards : row'[c].state = "SHOWN" => row'[c] = row[c]
      BY <1>4
    <2>2. RowsTrue'
      BY <1>1, <1>6, <2>1, KeepsRows DEF Keeps
    <2> QED
      BY <1>1, <1>2, <1>6, <2>2, KeepsMessages, KeepsOrder
  <1>11. Waiting'
    <2>1. \A c \in Cards : row'[c].state # "NONE" => c <= made
      <3> SUFFICES ASSUME NEW c \in Cards, row'[c].state # "NONE" PROVE c <= made
        OBVIOUS
      <3>1. row[c].state # "NONE" \/ c \in cards
        BY <1>4
      <3> QED
        BY <1>1, <1>3, <1>7, <3>1 DEF Waiting
    <2>2. \A q \in Processes : q # p => Orderly(q)'
      <3>1. made' >= made /\ made' \in Nat
        BY <1>1, <1>2 DEF TypeOK
      <3>2. \A c \in Cards : row[c].state # "NONE" => row'[c].state # "NONE"
        BY <1>4
      <3> QED
        BY <1>1, <1>2, <3>1, <3>2, OthersWait
    <2>3. Orderly(p)'
      <3>1. Orderly(p)
        BY <1>1 DEF Waiting
      <3>2. Range(mem'[p].marks) = {} /\ Range(<<>>) = {} /\ Increasing(<<>>)
        BY <1>2, EmptyIs
      <3>3. \A c \in mem'[p].saved : row'[c].state # "NONE"
        <4>1. CASE mem'[p].saved = Range(mem[p].pending)
          BY <1>8, <4>1
        <4>2. CASE mem'[p].saved = mem[p].saved
          <5>1. mem[p].saved \subseteq Cards
            BY <1>1, MemoryIs
          <5> QED
            BY <1>4, <3>1, <4>2, <5>1 DEF Orderly
        <4> QED
          BY <1>5, <4>1, <4>2
      <3> QED
        BY <1>2, <1>7, <3>1, <3>2, <3>3 DEF Orderly
    <2> QED
      BY <1>2, <2>1, <2>2, <2>3 DEF Waiting
  <1>12. Journaled'
    <2> SUFFICES ASSUME Whole' PROVE Alone' /\ (\A q \in Processes : Held(q)' /\ Marking(q)')
                                     /\ \A i \in DOMAIN sent' : SentRows(i)'
      BY DEF Journaled
    <2>1. Whole /\ Alone' /\ \A q \in Processes : q # p => Held(q)' /\ Marking(q)'
      BY <1>1, <1>2, <1>6, Milder, OthersOff, OffHolds
    <2>2. Held(p) /\ \A i \in DOMAIN sent : SentRows(i)
      BY <1>1, <2>1 DEF Journaled
    <2>3. \A c \in Range(mem[p].pending) : row'[c].state = "QUEUED"
      <3> SUFFICES ASSUME NEW c \in Range(mem[p].pending) PROVE row'[c].state = "QUEUED"
        OBVIOUS
      <3>1. mem'[p].saved = Range(mem[p].pending)
        BY <1>5 DEF Whole
      <3>2. row'[c].state # "NONE"
        BY <1>8, <3>1
      <3>3. row[c].state \in {"NONE", "QUEUED"} /\ c \in Cards
        BY <1>7, <2>2 DEF Held
      <3> QED
        BY <1>4, <3>2, <3>3
    <2>4. Held(p)'
      <3>1. \A c \in Cards : row'[c].state = "QUEUED" => c \in Range(mem[p].pending)
        <4> SUFFICES ASSUME NEW c \in Cards, row'[c].state = "QUEUED", c \notin cards
                     PROVE  c \in Range(mem[p].pending)
          BY <1>3
        <4>1. row[c].state = "QUEUED"
          BY <1>4
        <4>2. Range(mem[p].marks) = {} /\ mem[p].drops = {}
          BY <1>2, EmptyIs DEF At
        <4> QED
          BY <1>6, <2>2, <4>1, <4>2 DEF Held
      <3> QED
        BY <1>2, <2>3, <3>1 DEF Held
    <2>5. Marking(p)'
      BY <1>2 DEF Marking
    <2>6. ASSUME NEW i \in DOMAIN sent PROVE SentRows(i)'
      <3>1. SentRows(i) /\ Head(sent[i].cards) \in Cards /\ Holds(i, Head(sent[i].cards))
            /\ Holds(i, Last(sent[i].cards)) /\ Last(sent[i].cards) \in Cards
            /\ \A c \in Range(sent[i].cards) : c \in Cards
        BY <1>1, <2>2, MessageIs DEF Holds
      <3>2. \A c \in Range(sent[i].cards) : row'[c] = row[c] /\ row[c].state # "NONE"
        BY <1>4, <3>1 DEF SentRows
      <3>3. ASSUME NEW c \in Cards, row'[c].state = "QUEUED" PROVE Holds(i, c) \/ Last(sent[i].cards) < c
        <4>1. CASE row[c].state = "QUEUED"
          BY <3>1, <4>1 DEF SentRows
        <4>2. CASE row[c].state # "QUEUED"
          <5>1. row[c].state = "NONE" /\ c \in Range(mem[p].pending)
            BY <1>3, <1>4, <3>3, <4>2
          <5> QED
            BY <2>2, <3>1, <3>2, <5>1 DEF Held, Holds
        <4> QED
          BY <4>1, <4>2
      <3> QED
        BY <1>2, <3>1, <3>2, <3>3 DEF SentRows, Holds
    <2> QED
      BY <1>2, <2>1, <2>4, <2>5, <2>6
  <1>13. Calm'
    <2> SUFFICES ASSUME harm' = {} PROVE \A q \in Processes : Unanswered(q)'
      BY <1>6 DEF Calm
    <2>1. harm = {} /\ Whole /\ \A q \in Processes : q # p => Unanswered(q)'
      BY <1>1, <1>2, <1>6, Milder, OthersOff, OffHolds
    <2>2. Unanswered(p)'
      BY <1>1, <1>2, <2>1 DEF Calm, Unanswered, Holds
    <2> QED
      BY <2>1, <2>2
  <1>14. Kept'
    <2> SUFFICES ASSUME harm' \subseteq {"crash"}
                 PROVE  /\ \A q \in Processes : Closing(q)'
                        /\ \A i \in DOMAIN sent' : sent'[i].shown =>
                              FirstRow(i)' /\ \A q \in Processes : Keeping(q, i)'
      BY DEF Kept
    <2>1. harm \subseteq {"crash"} /\ Whole /\ \A q \in Processes : q # p => Closing(q)' /\ \A i : Keeping(q, i)'
      BY <1>1, <1>2, <1>6, Milder, OthersOff, OffHolds
    <2>2. Closing(p)'
      <3>1. Range(mem'[p].marks) = {}
        BY <1>2, EmptyIs
      <3> QED
        BY <1>2, <3>1 DEF Closing
    <2>3. ASSUME NEW i \in DOMAIN sent, sent[i].shown
          PROVE  FirstRow(i)' /\ Keeping(p, i)'
      <3>1. FirstRow(i) /\ Keeping(p, i) /\ Head(sent[i].cards) \in Cards
        BY <1>1, <2>1, <2>3, MessageIs DEF Kept
      <3>2. row'[Head(sent[i].cards)] = row[Head(sent[i].cards)]
        <4>1. row[Head(sent[i].cards)].state # "NONE"
          BY <3>1 DEF FirstRow
        <4> QED
          BY <1>4, <3>1, <4>1
      <3> QED
        BY <1>2, <1>6, <3>1, <3>2 DEF FirstRow, Keeping, SameWindow
    <2> QED
      BY <1>2, <2>1, <2>2, <2>3
  <1> QED
    BY <1>9, <1>10, <1>11, <1>12, <1>13, <1>14 DEF FeedInv

LEMMA PostedIs ==
  ASSUME TypeOK, NEW c \in Cards, NEW m \in Nat,
         row' = [row EXCEPT ![c] = [state |-> IF @.state = "QUEUED" THEN "SHOWN" ELSE @.state,
                                    msg |-> IF @.state = "NONE" THEN 0 ELSE m]]
  PROVE  /\ row' \in [Cards -> [state : States, msg : Nat]]
         /\ \A d \in Cards : d # c => row'[d] = row[d]
         /\ row'[c].state = "NONE" <=> row[c].state = "NONE"
         /\ row'[c].state # "QUEUED"
         /\ row'[c].state = "SHOWN" => row'[c].msg = m
         /\ row[c].state \in {"QUEUED", "SHOWN"} => row'[c] = [state |-> "SHOWN", msg |-> m]
  <1>1. row[c] \in [state : States, msg : Nat] /\ row \in [Cards -> [state : States, msg : Nat]]
    BY DEF TypeOK
  <1>2. row'[c] = [state |-> IF row[c].state = "QUEUED" THEN "SHOWN" ELSE row[c].state,
                   msg |-> IF row[c].state = "NONE" THEN 0 ELSE m]
    BY <1>1
  <1>3. (IF row[c].state = "QUEUED" THEN "SHOWN" ELSE row[c].state) \in States
        /\ (IF row[c].state = "NONE" THEN 0 ELSE m) \in Nat
    BY <1>1 DEF States
  <1>4. row'[c] \in [state : States, msg : Nat]
    BY <1>2, <1>3
  <1>5. \A d \in Cards : d # c => row'[d] = row[d]
    BY <1>1
  <1>6. row' \in [Cards -> [state : States, msg : Nat]]
    BY <1>1, <1>4, <1>5
  <1> QED
    BY <1>2, <1>5, <1>6

LEMMA PostedStep ==
  ASSUME FeedInv, NEW p \in Processes, JournalPosted(p)
  PROVE  FeedInv'
  <1> DEFINE c == Head(mem[p].marks)
             m == mem[p].msg
  <1>1. /\ TypeOK /\ Messages /\ Waiting /\ Journaled /\ RowsTrue /\ InOrder /\ SentOnce /\ Calm /\ Kept
    BY DEF FeedInv
  <1>2. /\ Others(p) /\ SameWindow(p) /\ mem[p].marks # <<>>
        /\ mem'[p].pc = mem[p].pc /\ mem'[p].pending = mem[p].pending
        /\ mem'[p].saved = mem[p].saved /\ mem'[p].group = mem[p].group
        /\ mem'[p].marks = Tail(mem[p].marks) /\ mem'[p].msg = m
        /\ mem'[p].gone = mem[p].gone /\ mem'[p].drops = mem[p].drops
        /\ mem' \in [Processes -> Memory]
        /\ UNCHANGED <<made, sent, forgot, refused>>
    BY <1>1, PostedEffect DEF discord
  <1>3. /\ c \in Range(mem[p].marks) /\ c \in Cards /\ m \in Nat /\ m \in DOMAIN sent
        /\ mem[p].drops = {} /\ \A d \in Range(mem[p].marks) : c <= d
        /\ \A d \in Range(mem[p].pending) : d \in Cards /\ c < d
    BY <1>1, <1>2, PendingIs, MemoryIs DEF Waiting, Orderly
  <1>4. /\ mem'[p].marks \in Seq(Cards) /\ Increasing(mem'[p].marks)
        /\ Range(mem[p].marks) = Range(mem'[p].marks) \cup {c}
    <2>1. mem[p].marks \in Seq(Cards) /\ Increasing(mem[p].marks) /\ Cards \in SUBSET Nat
      BY <1>1, PendingIs, CardsNat
    <2>2. /\ 1 \in 0..Len(mem[p].marks) /\ Tail(mem[p].marks) = SubSeq(mem[p].marks, 1 + 1, Len(mem[p].marks))
          /\ Range(SubSeq(mem[p].marks, 1, 1)) = {c}
      BY <1>2, <2>1, TailIsCut
    <2> HIDE DEF c
    <2>3. mem'[p].marks \in Seq(Cards)
      BY <1>2, <2>1, <2>2, Cut
    <2> DEFINE s == mem[p].marks
    <2>4. /\ Increasing(SubSeq(s, 1 + 1, Len(s)))
          /\ Range(s) = Range(SubSeq(s, 1, 1)) \cup Range(SubSeq(s, 1 + 1, Len(s)))
      <3> HIDE DEF s
      <3>1. s \in Seq(Cards) /\ Increasing(s) /\ Cards \in SUBSET Nat /\ 1 \in 0..Len(s)
        BY <2>1, <2>2 DEF s
      <3> QED
        BY <3>1, CutAscending
    <2> QED
      BY <1>2, <2>2, <2>3, <2>4
  <1>5. Running(p) /\ Running(p)' /\ Keeps
    <2>1. mem[p].pc # "off"
      BY <1>1, <1>2, OffIs DEF Waiting, Orderly
    <2> QED
      BY <1>1, <1>2, <2>1, KeepsSame DEF Running
  <1> HIDE DEF c, m
  <1>6. /\ used' \in [starts : Nat, mishaps : Nat] /\ harm \subseteq harm' /\ harm' \subseteq harm \cup {"journal"}
        /\ row' \in [Cards -> [state : States, msg : Nat]]
        /\ \A d \in Cards : d # c => row'[d] = row[d]
        /\ row'[c].state = "NONE" <=> row[c].state = "NONE"
        /\ \/ "journal" \in harm'
           \/ /\ row'[c].state # "QUEUED"
              /\ row'[c].state = "SHOWN" => row'[c].msg = m
              /\ row[c].state \in {"QUEUED", "SHOWN"} => row'[c] = [state |-> "SHOWN", msg |-> m]
    <2>1. CASE /\ row' = [row EXCEPT ![c] = [state |-> IF @.state = "QUEUED" THEN "SHOWN" ELSE @.state,
                                             msg |-> IF @.state = "NONE" THEN 0 ELSE m]]
               /\ NoFault
      <3>1. used' \in [starts : Nat, mishaps : Nat] /\ harm' = harm
        BY <1>1, <2>1 DEF TypeOK, NoFault
      <3> QED
        BY <1>1, <1>3, <2>1, <3>1, PostedIs
    <2>2. CASE UNCHANGED row /\ Fault
      <3>1. used' \in [starts : Nat, mishaps : Nat] /\ harm' = harm \cup {"journal"}
        BY <1>1, <2>2, HarmIs DEF Fault
      <3> QED
        BY <1>1, <2>2, <3>1 DEF TypeOK
    <2> QED
      BY <1>1, <2>1, <2>2, PostedEffect DEF c, m
  <1>7. TypeOK'
    <2>1. harm' \subseteq {"journal", "overlap", "unrecorded", "crash", "forgot", "overflow", "stale"}
      BY <1>1, <1>6 DEF TypeOK
    <2> QED
      BY <1>1, <1>2, <1>6, <2>1 DEF TypeOK
  <1>8. Messages' /\ InOrder' /\ SentOnce'
    BY <1>1, <1>2, <1>5, <1>6, KeepsMessages, KeepsOrder
  <1>9. \A d \in Cards : row'[d].state = "NONE" <=> row[d].state = "NONE"
    BY <1>6
  <1>10. Waiting'
    <2>1. \A d \in Cards : row'[d].state # "NONE" => d <= made'
      BY <1>1, <1>2, <1>9 DEF Waiting
    <2>2. \A q \in Processes : q # p => Orderly(q)'
      <3>1. made' >= made /\ made' \in Nat
        BY <1>1, <1>2 DEF TypeOK
      <3> QED
        BY <1>1, <1>2, <1>9, <3>1, OthersWait
    <2>3. Orderly(p)'
      <3>1. Orderly(p) /\ mem[p].saved \subseteq Cards
        BY <1>1, MemoryIs DEF Waiting
      <3>2. \A d \in mem'[p].saved : row'[d].state # "NONE"
        BY <1>2, <1>9, <3>1 DEF Orderly
      <3> QED
        BY <1>2, <1>3, <1>4, <1>5, <3>1, <3>2 DEF Orderly, Running
    <2> QED
      BY <2>1, <2>2, <2>3 DEF Waiting
  <1>11. Journaled' /\ RowsTrue'
    <2> SUFFICES ASSUME Whole' PROVE /\ Alone' /\ (\A q \in Processes : Held(q)' /\ Marking(q)')
                                     /\ \A i \in DOMAIN sent' : SentRows(i)'
                                     /\ RowsTrue'
      BY DEF Journaled, RowsTrue, Whole
    <2>1. Whole /\ Alone' /\ \A q \in Processes : q # p => Held(q)' /\ Marking(q)'
      BY <1>1, <1>2, <1>5, <1>6, Milder, OthersOff, OffHolds
    <2>2. Held(p) /\ Marking(p) /\ \A i \in DOMAIN sent : SentRows(i)
      BY <1>1, <2>1 DEF Journaled
    <2>3. row'[c].state # "QUEUED" /\ (row'[c].state = "SHOWN" => row'[c].msg = m)
      BY <1>6 DEF Whole
    <2>4. \A d \in Cards : row'[d].state = "QUEUED" => d # c /\ row[d].state = "QUEUED"
      BY <1>6, <2>3
    <2>5. Held(p)'
      <3>1. \A d \in Range(mem[p].pending) : d \in Cards /\ row'[d] = row[d]
        <4>1. \A d \in Range(mem[p].pending) : d \in Cards /\ d \in Nat /\ c < d /\ c \in Nat
          BY <1>3, CardsNat
        <4>2. \A d \in Range(mem[p].pending) : d # c
          BY <4>1
        <4> QED
          BY <1>6, <4>1, <4>2
      <3>2. \A d \in Cards : row'[d].state = "QUEUED" =>
               d \in Range(mem'[p].pending) \cup Range(mem'[p].marks) \cup mem'[p].drops
        BY <1>2, <1>4, <1>5, <2>2, <2>4 DEF Held
      <3> QED
        BY <1>2, <1>9, <2>2, <3>1, <3>2 DEF Held
    <2>6. Marking(p)'
      BY <1>2, <1>4, <2>2 DEF Marking, Holds, m
    <2>7. ASSUME NEW i \in DOMAIN sent PROVE SentRows(i)'
      <3> DEFINE h == Head(sent[i].cards)
      <3>1. SentRows(i) /\ h \in Cards /\ Holds(i, h) /\ \A d \in Range(sent[i].cards) : d \in Cards /\ h <= d
        BY <1>1, <2>2, MessageIs DEF Holds
      <3> HIDE DEF h
      <3>2. ASSUME NEW d \in Range(sent[i].cards), row'[h].state = "QUEUED" PROVE row'[d].state = "QUEUED"
        <4>1. h # c /\ row[h].state = "QUEUED"
          BY <2>4, <3>1, <3>2
        <4>2. row[d].state = "QUEUED"
          BY <3>1, <4>1 DEF SentRows, h
        <4>3. d # c
          <5>1. h \in Range(mem[p].pending) \cup Range(mem[p].marks)
            BY <1>3, <1>5, <2>2, <3>1, <4>1 DEF Held
          <5>2. c <= h /\ c \in Nat /\ h \in Nat /\ d \in Nat
            BY <1>3, <3>1, <5>1, CardsNat
          <5>3. h <= d
            BY <3>1
          <5> QED
            BY <4>1, <5>2, <5>3
        <4> QED
          BY <1>6, <3>1, <4>2, <4>3
      <3>3. \A d \in Range(sent[i].cards) : row'[d].state # "NONE"
        BY <1>9, <3>1 DEF SentRows
      <3>4. \A d \in Cards : row'[d].state = "QUEUED" => Holds(i, d) \/ Last(sent[i].cards) < d
        BY <2>4, <3>1 DEF SentRows
      <3> QED
        BY <1>2, <3>2, <3>3, <3>4 DEF SentRows, Holds, h
    <2>8. ASSUME NEW d \in Cards, row'[d].state = "SHOWN"
          PROVE  row'[d].msg \in DOMAIN sent /\ d \in Range(sent[row'[d].msg].cards)
      <3>1. CASE d = c
        <4>1. Holds(m, c)
          BY <1>2, <1>3, <2>2 DEF Marking, m
        <4> QED
          BY <1>3, <2>3, <2>8, <3>1, <4>1 DEF Holds
      <3>2. CASE d # c
        <4>1. row'[d] = row[d]
          BY <1>6, <3>2
        <4> QED
          BY <1>1, <2>1, <2>8, <4>1 DEF RowsTrue, Whole, Holds
      <3> QED
        BY <3>1, <3>2
    <2>9. RowsTrue'
      BY <1>2, <2>8 DEF RowsTrue, Holds
    <2> QED
      BY <1>2, <2>1, <2>5, <2>6, <2>7, <2>9
  <1>12. Calm'
    <2> SUFFICES ASSUME harm' = {} PROVE \A q \in Processes : Unanswered(q)'
      BY <1>5 DEF Calm
    <2>1. harm = {} /\ Whole /\ \A q \in Processes : q # p => Unanswered(q)'
      BY <1>1, <1>2, <1>5, <1>6, Milder, OthersOff, OffHolds
    <2>2. Unanswered(p)'
      BY <1>1, <1>2, <2>1 DEF Calm, Unanswered, Holds
    <2> QED
      BY <2>1, <2>2
  <1>13. Kept'
    <2> SUFFICES ASSUME harm' \subseteq {"crash"}
                 PROVE  /\ \A q \in Processes : Closing(q)'
                        /\ \A i \in DOMAIN sent' : sent'[i].shown =>
                              FirstRow(i)' /\ \A q \in Processes : Keeping(q, i)'
      BY DEF Kept
    <2>1. harm \subseteq {"crash"} /\ Whole /\ \A q \in Processes : q # p => Closing(q)' /\ \A i : Keeping(q, i)'
      BY <1>1, <1>2, <1>5, <1>6, Milder, OthersOff, OffHolds
    <2>2. Closing(p)
      BY <1>1, <2>1 DEF Kept
    <2>3. Closing(p)'
      BY <1>2, <1>4, <2>2 DEF Closing, SameWindow, m
    <2>4. ASSUME NEW i \in DOMAIN sent, sent[i].shown
          PROVE  FirstRow(i)' /\ Keeping(p, i)'
      <3>1. FirstRow(i) /\ Keeping(p, i) /\ Head(sent[i].cards) \in Cards
        BY <1>1, <2>1, <2>4, MessageIs DEF Kept
      <3>2. CASE Head(sent[i].cards) = c
        <4>1. i = m /\ m \in Ids(mem[p].window)
          BY <1>2, <1>3, <2>2, <3>2 DEF Closing, m
        <4>2. row'[c] = [state |-> "SHOWN", msg |-> m]
          <5>1. "journal" \notin harm'
            OBVIOUS
          <5>2. row[c].state \in {"QUEUED", "SHOWN"}
            BY <3>1, <3>2 DEF FirstRow
          <5> QED
            BY <1>6, <5>1, <5>2
        <4> QED
          BY <1>2, <3>2, <4>1, <4>2 DEF FirstRow, Keeping, SameWindow
      <3>3. CASE Head(sent[i].cards) # c
        <4>1. row'[Head(sent[i].cards)] = row[Head(sent[i].cards)]
          BY <1>6, <3>1, <3>3
        <4> QED
          BY <1>2, <1>5, <3>1, <4>1 DEF FirstRow, Keeping, SameWindow
      <3> QED
        BY <3>2, <3>3
    <2> QED
      BY <1>2, <2>1, <2>3, <2>4
  <1> QED
    BY <1>7, <1>8, <1>10, <1>11, <1>12, <1>13 DEF FeedInv

LEMMA CloseIs ==
  ASSUME TypeOK, NEW states, "NONE" \notin states, NEW cards, NEW to \in {"REMOVED", "DROPPED"},
         Close(states, cards, to)
  PROVE  /\ row' \in [Cards -> [state : States, msg : Nat]]
         /\ \A c \in Cards :
               /\ ~(c \in cards /\ row[c].state \in states) => row'[c] = row[c]
               /\ c \in cards /\ row[c].state \in states => row'[c].state = to
               /\ row'[c].state \in {"NONE", "QUEUED", "SHOWN"} => row'[c] = row[c]
               /\ row'[c].state = "NONE" <=> row[c].state = "NONE"
  <1>1. row' = [c \in Cards |-> IF c \in cards /\ row[c].state \in states
                                  THEN [row[c] EXCEPT !.state = to] ELSE row[c]]
    BY DEF Close
  <1>2. ASSUME NEW c \in Cards
        PROVE  /\ row'[c] \in [state : States, msg : Nat]
               /\ ~(c \in cards /\ row[c].state \in states) => row'[c] = row[c]
               /\ c \in cards /\ row[c].state \in states => row'[c].state = to
    <2>1. row[c] \in [state : States, msg : Nat]
      BY RowIs
    <2>2. CASE c \in cards /\ row[c].state \in states
      <3>1. row'[c] = [row[c] EXCEPT !.state = to]
        BY <1>1, <2>2
      <3>2. to \in States
        BY DEF States
      <3> QED
        BY <2>1, <2>2, <3>1, <3>2
    <2>3. CASE ~(c \in cards /\ row[c].state \in states)
      BY <1>1, <2>1, <2>3
    <2> QED
      BY <2>2, <2>3
  <1>3. row' \in [Cards -> [state : States, msg : Nat]]
    BY <1>1, <1>2
  <1> QED
    BY <1>2, <1>3

LEMMA RemovedStep ==
  ASSUME FeedInv, NEW p \in Processes, JournalRemoved(p)
  PROVE  FeedInv'
  <1>1. /\ TypeOK /\ Messages /\ Waiting /\ Journaled /\ RowsTrue /\ InOrder /\ SentOnce /\ Calm /\ Kept
    BY DEF FeedInv
  <1>2. /\ Others(p) /\ SameWindow(p) /\ SameCards(p)
        /\ mem'[p].pc = mem[p].pc /\ mem'[p].group = mem[p].group /\ mem'[p].gone = {}
        /\ mem' \in [Processes -> Memory]
        /\ UNCHANGED <<made, sent, forgot, refused>>
    BY <1>1, RemovedEffect DEF discord
  <1>3. Running(p) /\ Running(p)' /\ Keeps
    <2>1. mem[p].pc # "off"
      BY <1>1, OffIs DEF Waiting, Orderly, JournalRemoved
    <2> QED
      BY <1>1, <1>2, <2>1, KeepsSame DEF Running
  <1>4. /\ used' \in [starts : Nat, mishaps : Nat] /\ harm \subseteq harm' /\ harm' \subseteq harm \cup {"journal"}
        /\ row' \in [Cards -> [state : States, msg : Nat]]
        /\ \A c \in Cards : /\ row'[c].state \in {"NONE", "QUEUED", "SHOWN"} => row'[c] = row[c]
                            /\ row[c].state \in {"NONE", "QUEUED"} => row'[c] = row[c]
                            /\ row[c].msg \notin mem[p].gone => row'[c] = row[c]
                            /\ row'[c].state = "NONE" <=> row[c].state = "NONE"
    <2>1. CASE Close({"SHOWN"}, {c \in Cards : row[c].msg \in mem[p].gone}, "REMOVED") /\ NoFault
      <3>1. used' \in [starts : Nat, mishaps : Nat] /\ harm' = harm
        BY <1>1, <2>1 DEF TypeOK, NoFault
      <3> DEFINE cards == {c \in Cards : row[c].msg \in mem[p].gone}
      <3>2. \A c \in cards : row[c].msg \in mem[p].gone
        OBVIOUS
      <3>3. Close({"SHOWN"}, cards, "REMOVED")
        BY <2>1
      <3> HIDE DEF cards
      <3>4. /\ row' \in [Cards -> [state : States, msg : Nat]]
            /\ \A c \in Cards :
                  /\ ~(c \in cards /\ row[c].state \in {"SHOWN"}) => row'[c] = row[c]
                  /\ row'[c].state \in {"NONE", "QUEUED", "SHOWN"} => row'[c] = row[c]
                  /\ row'[c].state = "NONE" <=> row[c].state = "NONE"
        BY <1>1, <3>3, CloseIs
      <3> QED
        BY <3>1, <3>2, <3>4
    <2>2. CASE UNCHANGED row /\ Fault
      <3>1. used' \in [starts : Nat, mishaps : Nat] /\ harm' = harm \cup {"journal"}
        BY <1>1, <2>2, HarmIs DEF Fault
      <3> QED
        BY <1>1, <2>2, <3>1 DEF TypeOK
    <2> QED
      BY <1>1, <2>1, <2>2, RemovedEffect
  <1>5. TypeOK'
    <2>1. harm' \subseteq {"journal", "overlap", "unrecorded", "crash", "forgot", "overflow", "stale"}
      BY <1>1, <1>4 DEF TypeOK
    <2> QED
      BY <1>1, <1>2, <1>4, <2>1 DEF TypeOK
  <1>6. Messages' /\ InOrder' /\ SentOnce' /\ RowsTrue'
    <2>1. \A c \in Cards : row'[c].state = "SHOWN" => row'[c] = row[c]
      BY <1>4
    <2>2. RowsTrue'
      BY <1>1, <1>3, <1>4, <2>1, KeepsRows DEF Keeps
    <2> QED
      BY <1>1, <1>2, <1>3, <1>4, <2>2, KeepsMessages, KeepsOrder
  <1>7. Waiting'
    <2>1. \A d \in Cards : row'[d].state # "NONE" => d <= made'
      BY <1>1, <1>2, <1>4 DEF Waiting
    <2>2. \A q \in Processes : q # p => Orderly(q)'
      <3>1. made' >= made /\ made' \in Nat
        BY <1>1, <1>2 DEF TypeOK
      <3> QED
        BY <1>1, <1>2, <1>4, <3>1, OthersWait
    <2>3. Orderly(p)'
      <3>1. Orderly(p) /\ mem[p].saved \subseteq Cards
        BY <1>1, MemoryIs DEF Waiting
      <3> QED
        BY <1>2, <1>3, <1>4, <3>1 DEF Orderly, Running, SameCards
    <2> QED
      BY <2>1, <2>2, <2>3 DEF Waiting
  <1>8. Journaled'
    <2> SUFFICES ASSUME Whole' PROVE /\ Alone' /\ (\A q \in Processes : Held(q)' /\ Marking(q)')
                                     /\ \A i \in DOMAIN sent' : SentRows(i)'
      BY DEF Journaled
    <2>1. Whole /\ Alone' /\ \A q \in Processes : q # p => Held(q)' /\ Marking(q)'
      BY <1>1, <1>2, <1>3, <1>4, Milder, OthersOff, OffHolds
    <2>2. Held(p) /\ Marking(p) /\ \A i \in DOMAIN sent : SentRows(i)
      BY <1>1, <2>1 DEF Journaled
    <2>3. \A c \in Cards : row'[c].state = "QUEUED" <=> row[c].state = "QUEUED"
      BY <1>4
    <2>4. Held(p)'
      <3>1. \A c \in Range(mem[p].pending) : c \in Cards /\ row'[c] = row[c]
        BY <1>1, <1>4, <2>2, PendingIs DEF Held
      <3> QED
        BY <1>2, <1>3, <1>4, <2>2, <2>3, <3>1 DEF Held, SameCards
    <2>5. Marking(p)'
      BY <1>2, <2>2 DEF Marking, Holds, SameCards
    <2>6. ASSUME NEW i \in DOMAIN sent PROVE SentRows(i)'
      <3>1. SentRows(i) /\ Head(sent[i].cards) \in Cards /\ \A d \in Range(sent[i].cards) : d \in Cards
        BY <1>1, <2>2, MessageIs DEF Holds
      <3> QED
        BY <1>2, <1>4, <2>3, <3>1 DEF SentRows, Holds
    <2> QED
      BY <1>2, <2>1, <2>4, <2>5, <2>6
  <1>9. Calm'
    <2> SUFFICES ASSUME harm' = {} PROVE \A q \in Processes : Unanswered(q)'
      BY <1>3 DEF Calm
    <2>1. harm = {} /\ Whole /\ \A q \in Processes : q # p => Unanswered(q)'
      BY <1>1, <1>2, <1>3, <1>4, Milder, OthersOff, OffHolds
    <2>2. Unanswered(p)'
      BY <1>1, <1>2, <2>1 DEF Calm, Unanswered, Holds, SameCards
    <2> QED
      BY <2>1, <2>2
  <1>10. Kept'
    <2> SUFFICES ASSUME harm' \subseteq {"crash"}
                 PROVE  /\ \A q \in Processes : Closing(q)'
                        /\ \A i \in DOMAIN sent' : sent'[i].shown =>
                              FirstRow(i)' /\ \A q \in Processes : Keeping(q, i)'
      BY DEF Kept
    <2>1. harm \subseteq {"crash"} /\ Whole /\ \A q \in Processes : q # p => Closing(q)' /\ \A i : Keeping(q, i)'
      BY <1>1, <1>2, <1>3, <1>4, Milder, OthersOff, OffHolds
    <2>2. Closing(p)
      BY <1>1, <2>1 DEF Kept
    <2>3. Closing(p)'
      BY <1>2, <2>2 DEF Closing, SameWindow, SameCards
    <2>4. ASSUME NEW i \in DOMAIN sent, sent[i].shown
          PROVE  FirstRow(i)' /\ Keeping(p, i)'
      <3>1. FirstRow(i) /\ Keeping(p, i) /\ Head(sent[i].cards) \in Cards
        BY <1>1, <2>1, <2>4, MessageIs DEF Kept
      <3>2. i \notin mem[p].gone
        BY <2>2, <2>4 DEF Closing
      <3>3. row'[Head(sent[i].cards)] = row[Head(sent[i].cards)]
        BY <1>4, <3>1, <3>2 DEF FirstRow
      <3> QED
        BY <1>2, <1>3, <3>1, <3>3 DEF FirstRow, Keeping, SameWindow
    <2> QED
      BY <1>2, <2>1, <2>3, <2>4
  <1> QED
    BY <1>5, <1>6, <1>7, <1>8, <1>9, <1>10 DEF FeedInv

LEMMA DroppedStep ==
  ASSUME FeedInv, NEW p \in Processes, JournalDropped(p)
  PROVE  FeedInv'
  <1>1. /\ TypeOK /\ Messages /\ Waiting /\ Journaled /\ RowsTrue /\ InOrder /\ SentOnce /\ Calm /\ Kept
    BY DEF FeedInv
  <1>2. /\ Others(p) /\ SameWindow(p) /\ mem[p].drops # {}
        /\ mem'[p].pc = mem[p].pc /\ mem'[p].pending = mem[p].pending
        /\ mem'[p].saved = mem[p].saved /\ mem'[p].group = mem[p].group
        /\ mem'[p].marks = mem[p].marks /\ mem'[p].msg = mem[p].msg
        /\ mem'[p].gone = mem[p].gone /\ mem'[p].drops = {}
        /\ mem' \in [Processes -> Memory]
        /\ UNCHANGED <<made, sent, forgot, refused>>
    BY <1>1, DroppedEffect DEF discord
  <1>3. Running(p) /\ Running(p)' /\ Keeps /\ mem[p].marks = <<>> /\ Range(mem[p].marks) = {}
    <2>1. mem[p].pc # "off" /\ mem[p].marks = <<>>
      BY <1>1, <1>2, OffIs DEF Waiting, Orderly
    <2> QED
      BY <1>1, <1>2, <2>1, KeepsSame, EmptyIs DEF Running
  <1>4. /\ used' \in [starts : Nat, mishaps : Nat] /\ harm \subseteq harm' /\ harm' \subseteq harm \cup {"journal"}
        /\ row' \in [Cards -> [state : States, msg : Nat]]
        /\ \A c \in Cards : /\ row'[c].state \in {"NONE", "QUEUED", "SHOWN"} => row'[c] = row[c]
                            /\ c \notin mem[p].drops => row'[c] = row[c]
                            /\ row'[c].state = "NONE" <=> row[c].state = "NONE"
                            /\ row'[c].state = "QUEUED" => c \notin mem[p].drops \/ "journal" \in harm'
    <2>1. CASE Close({"QUEUED", "SHOWN"}, mem[p].drops, "DROPPED") /\ NoFault
      <3>1. used' \in [starts : Nat, mishaps : Nat] /\ harm' = harm
        BY <1>1, <2>1 DEF TypeOK, NoFault
      <3>2. /\ row' \in [Cards -> [state : States, msg : Nat]]
            /\ \A c \in Cards :
                  /\ ~(c \in mem[p].drops /\ row[c].state \in {"QUEUED", "SHOWN"}) => row'[c] = row[c]
                  /\ c \in mem[p].drops /\ row[c].state \in {"QUEUED", "SHOWN"} => row'[c].state = "DROPPED"
                  /\ row'[c].state \in {"NONE", "QUEUED", "SHOWN"} => row'[c] = row[c]
                  /\ row'[c].state = "NONE" <=> row[c].state = "NONE"
        BY <1>1, <2>1, CloseIs
      <3> QED
        BY <3>1, <3>2
    <2>2. CASE UNCHANGED row /\ Fault
      <3>1. used' \in [starts : Nat, mishaps : Nat] /\ harm' = harm \cup {"journal"}
        BY <1>1, <2>2, HarmIs DEF Fault
      <3> QED
        BY <1>1, <2>2, <3>1 DEF TypeOK
    <2> QED
      BY <1>1, <2>1, <2>2, DroppedEffect
  <1>5. TypeOK'
    <2>1. harm' \subseteq {"journal", "overlap", "unrecorded", "crash", "forgot", "overflow", "stale"}
      BY <1>1, <1>4 DEF TypeOK
    <2> QED
      BY <1>1, <1>2, <1>4, <2>1 DEF TypeOK
  <1>6. Messages' /\ InOrder' /\ SentOnce' /\ RowsTrue'
    <2>1. \A c \in Cards : row'[c].state = "SHOWN" => row'[c] = row[c]
      BY <1>4
    <2>2. RowsTrue'
      BY <1>1, <1>3, <1>4, <2>1, KeepsRows DEF Keeps
    <2> QED
      BY <1>1, <1>2, <1>3, <1>4, <2>2, KeepsMessages, KeepsOrder
  <1>7. Waiting'
    <2>1. \A d \in Cards : row'[d].state # "NONE" => d <= made'
      BY <1>1, <1>2, <1>4 DEF Waiting
    <2>2. \A q \in Processes : q # p => Orderly(q)'
      <3>1. made' >= made /\ made' \in Nat
        BY <1>1, <1>2 DEF TypeOK
      <3> QED
        BY <1>1, <1>2, <1>4, <3>1, OthersWait
    <2>3. Orderly(p)'
      <3>1. Orderly(p) /\ mem[p].saved \subseteq Cards
        BY <1>1, MemoryIs DEF Waiting
      <3> QED
        BY <1>2, <1>3, <1>4, <3>1 DEF Orderly, Running
    <2> QED
      BY <2>1, <2>2, <2>3 DEF Waiting
  <1>8. Journaled'
    <2> SUFFICES ASSUME Whole' PROVE /\ Alone' /\ (\A q \in Processes : Held(q)' /\ Marking(q)')
                                     /\ \A i \in DOMAIN sent' : SentRows(i)'
      BY DEF Journaled
    <2>1. Whole /\ Alone' /\ \A q \in Processes : q # p => Held(q)' /\ Marking(q)'
      BY <1>1, <1>2, <1>3, <1>4, Milder, OthersOff, OffHolds
    <2>2. Held(p) /\ \A i \in DOMAIN sent : SentRows(i)
      BY <1>1, <2>1 DEF Journaled
    <2>3. \A c \in Cards : row'[c].state = "QUEUED" => row[c].state = "QUEUED" /\ c \notin mem[p].drops
      <3>1. "journal" \notin harm'
        BY DEF Whole
      <3> QED
        BY <1>4, <3>1
    <2>4. \A c \in Range(mem[p].pending), d \in mem[p].drops : c \in Cards /\ c \in Nat /\ d \in Nat /\ d < c
      BY <1>1, PendingIs, CardsNat DEF Waiting, Orderly
    <2>5. \A c \in Range(mem[p].pending) : c \in Cards /\ c \notin mem[p].drops
      <3>1. \A c \in Range(mem[p].pending), d \in mem[p].drops : c # d
        BY <2>4
      <3> QED
        BY <1>1, <3>1, PendingIs
    <2>6. Held(p)'
      <3>1. \A c \in Cards : row'[c].state = "QUEUED" => c \in Range(mem[p].pending)
        BY <1>3, <2>2, <2>3 DEF Held
      <3> QED
        BY <1>2, <1>4, <2>2, <2>5, <3>1 DEF Held
    <2>7. Marking(p)'
      BY <1>2, <1>3 DEF Marking
    <2>8. ASSUME NEW i \in DOMAIN sent PROVE SentRows(i)'
      <3> DEFINE h == Head(sent[i].cards)
      <3>1. SentRows(i) /\ h \in Cards /\ \A d \in Range(sent[i].cards) : d \in Cards /\ h <= d
        BY <1>1, <2>2, MessageIs DEF Holds
      <3> HIDE DEF h
      <3>2. ASSUME NEW d \in Range(sent[i].cards), row'[h].state = "QUEUED" PROVE row'[d].state = "QUEUED"
        <4>1. row[h].state = "QUEUED" /\ h \notin mem[p].drops
          BY <2>3, <3>1, <3>2
        <4>2. row[d].state = "QUEUED"
          BY <3>1, <4>1 DEF SentRows, h
        <4>3. h \in Range(mem[p].pending)
          BY <1>3, <2>2, <3>1, <4>1 DEF Held
        <4>4. d \notin mem[p].drops
          <5>1. ASSUME d \in mem[p].drops PROVE FALSE
            <6>1. d < h /\ d \in Nat /\ h \in Nat
              BY <2>4, <4>3, <5>1
            <6>2. h <= d
              BY <3>1
            <6> QED
              BY <6>1, <6>2
          <5> QED
            BY <5>1
        <4> QED
          BY <1>4, <3>1, <4>2, <4>4
      <3> QED
        BY <1>2, <1>4, <2>3, <3>1, <3>2 DEF SentRows, Holds, h
    <2> QED
      BY <1>2, <2>1, <2>6, <2>7, <2>8
  <1>9. Calm'
    <2> SUFFICES ASSUME harm' = {} PROVE \A q \in Processes : Unanswered(q)'
      BY <1>3 DEF Calm
    <2>1. harm = {} /\ Whole /\ \A q \in Processes : q # p => Unanswered(q)'
      BY <1>1, <1>2, <1>3, <1>4, Milder, OthersOff, OffHolds
    <2>2. Unanswered(p)'
      BY <1>1, <1>2, <2>1 DEF Calm, Unanswered, Holds
    <2> QED
      BY <2>1, <2>2
  <1>10. Kept'
    <2> SUFFICES ASSUME harm' \subseteq {"crash"}
                 PROVE  /\ \A q \in Processes : Closing(q)'
                        /\ \A i \in DOMAIN sent' : sent'[i].shown =>
                              FirstRow(i)' /\ \A q \in Processes : Keeping(q, i)'
      BY DEF Kept
    <2>1. harm \subseteq {"crash"} /\ Whole /\ \A q \in Processes : q # p => Closing(q)' /\ \A i : Keeping(q, i)'
      BY <1>1, <1>2, <1>3, <1>4, Milder, OthersOff, OffHolds
    <2>2. Closing(p)
      BY <1>1, <2>1 DEF Kept
    <2>3. Closing(p)'
      BY <1>2, <1>3, <2>2 DEF Closing, SameWindow
    <2>4. ASSUME NEW i \in DOMAIN sent, sent[i].shown
          PROVE  FirstRow(i)' /\ Keeping(p, i)'
      <3>1. FirstRow(i) /\ Keeping(p, i) /\ Head(sent[i].cards) \in Cards /\ Head(sent[i].cards) \notin refused
        BY <1>1, <2>1, <2>4, MessageIs DEF Kept
      <3>2. row'[Head(sent[i].cards)] = row[Head(sent[i].cards)]
        BY <1>4, <2>2, <3>1 DEF Closing
      <3> QED
        BY <1>2, <1>3, <3>1, <3>2 DEF FirstRow, Keeping, SameWindow
    <2> QED
      BY <1>2, <2>1, <2>3, <2>4
  <1> QED
    BY <1>5, <1>6, <1>7, <1>8, <1>9, <1>10 DEF FeedInv

\* What waits, cut in two.
LEMMA CutPending ==
  ASSUME TypeOK, Waiting, NEW p \in Processes, NEW k \in 0..Len(mem[p].pending)
  PROVE  LET f == SubSeq(mem[p].pending, 1, k)
             r == SubSeq(mem[p].pending, k + 1, Len(mem[p].pending))
         IN  /\ f \in Seq(Cards) /\ Len(f) = k /\ Increasing(f) /\ r \in Seq(Cards) /\ Increasing(r)
             /\ Range(mem[p].pending) = Range(f) \cup Range(r)
             /\ \A c \in Range(r), d \in Range(f) : d < c
             /\ k = 0 => Range(f) = {} /\ (r # <<>> => Head(r) = Head(mem[p].pending))
             /\ k > 0 => Head(mem[p].pending) \in Range(f) /\ Head(f) = Head(mem[p].pending)
  <1> DEFINE s == mem[p].pending
             f == SubSeq(s, 1, k)
             r == SubSeq(s, k + 1, Len(s))
  <1>1. s \in Seq(Cards) /\ Increasing(s) /\ Cards \in SUBSET Nat /\ Len(s) \in Nat /\ k \in 0..Len(s)
    BY PendingIs, CardsNat
  <1> HIDE DEF s
  <1>2. /\ f \in Seq(Cards) /\ Len(f) = k
        /\ r \in Seq(Cards) /\ Len(r) = Len(s) - k /\ \A i \in 1..(Len(s) - k) : r[i] = s[k + i]
    BY <1>1, Cut
  <1>3. /\ Increasing(f) /\ Increasing(r)
        /\ Range(s) = Range(f) \cup Range(r)
        /\ \A c \in Range(r), d \in Range(f) : d < c
        /\ k > 0 => Head(f) = s[1] /\ s[1] \in Range(f)
    BY <1>1, CutAscending
  <1> HIDE DEF f, r
  <1>4. k = 0 => Range(f) = {} /\ (r # <<>> => Head(r) = Head(s))
    <2> SUFFICES ASSUME k = 0 PROVE Range(f) = {} /\ (r # <<>> => Head(r) = Head(s))
      OBVIOUS
    <2>1. Range(f) = {}
      <3>1. f = <<>>
        BY <1>2
      <3> QED
        BY <3>1, EmptyIs
    <2>2. ASSUME r # <<>> PROVE Head(r) = Head(s)
      <3>1. Head(r) = r[1] /\ 1 \in 1..Len(r) /\ Len(r) = Len(s)
        BY <1>1, <1>2, <2>2
      <3>2. r[1] = s[0 + 1] /\ Head(s) = s[1]
        BY <1>1, <1>2, <3>1
      <3> QED
        BY <3>1, <3>2
    <2> QED
      BY <2>1, <2>2
  <1>5. k > 0 => s # <<>> /\ Head(s) = s[1]
    BY <1>1
  <1> QED
    BY <1>2, <1>3, <1>4, <1>5 DEF s, f, r

\* The oldest k cards that wait are given up.
Cuts(p, k) ==
    /\ Others(p) /\ SameWindow(p) /\ At(p, mem[p].pc) /\ Running(p) /\ Running(p)'
    /\ mem' \in [Processes -> Memory] /\ mem'[p].pc # "send"
    /\ mem'[p].pending = SubSeq(mem[p].pending, k + 1, Len(mem[p].pending))
    /\ mem'[p].drops = Range(SubSeq(mem[p].pending, 1, k))
    /\ mem'[p].saved = mem[p].saved \ mem'[p].drops
    /\ mem'[p].marks = <<>> /\ mem'[p].gone = {}
    /\ \/ mem'[p].drops \subseteq refused /\ harm' = harm
       \/ harm' = harm \cup {"overflow"}
    /\ UNCHANGED <<made, row, sent, forgot, refused, used>>

LEMMA CutsStep ==
  ASSUME FeedInv, NEW p \in Processes, NEW k \in 0..Len(mem[p].pending), Cuts(p, k)
  PROVE  FeedInv'
  <1> DEFINE f == SubSeq(mem[p].pending, 1, k)
             r == SubSeq(mem[p].pending, k + 1, Len(mem[p].pending))
  <1>1. /\ TypeOK /\ Messages /\ Waiting /\ Journaled /\ RowsTrue /\ InOrder /\ SentOnce /\ Calm /\ Kept
    BY DEF FeedInv
  <1>2. /\ Others(p) /\ SameWindow(p) /\ Running(p) /\ Running(p)'
        /\ mem' \in [Processes -> Memory] /\ mem'[p].pc # "send"
        /\ mem[p].marks = <<>> /\ mem[p].drops = {} /\ mem'[p].marks = <<>> /\ mem'[p].gone = {}
        /\ mem'[p].pending = r /\ mem'[p].drops = Range(f) /\ mem'[p].saved = mem[p].saved \ Range(f)
        /\ UNCHANGED <<made, row, sent, forgot, refused, used>>
        /\ Range(mem[p].marks) = {} /\ Range(mem'[p].marks) = {}
    BY EmptyIs DEF Cuts, At
  <1>3. /\ f \in Seq(Cards) /\ Increasing(f) /\ r \in Seq(Cards) /\ Increasing(r)
        /\ Range(mem[p].pending) = Range(f) \cup Range(r)
        /\ \A c \in Range(r), d \in Range(f) : d < c
        /\ k = 0 => Range(f) = {} /\ (r # <<>> => Head(r) = Head(mem[p].pending))
        /\ k > 0 => Head(mem[p].pending) \in Range(f)
    BY <1>1, CutPending
  <1> HIDE DEF f, r
  <1>4. harm \subseteq harm' /\ harm' \subseteq harm \cup {"overflow"}
        /\ (harm' \subseteq {"crash"} => Range(f) \subseteq refused)
    BY <1>2 DEF Cuts
  <1>5. Keeps
    BY <1>1, <1>2, KeepsSame
  <1>6. TypeOK'
    <2>1. harm' \subseteq {"journal", "overlap", "unrecorded", "crash", "forgot", "overflow", "stale"}
      BY <1>1, <1>4 DEF TypeOK
    <2> QED
      BY <1>1, <1>2, <2>1 DEF TypeOK
  <1>7. Messages' /\ InOrder' /\ SentOnce' /\ RowsTrue'
    BY <1>1, <1>2, <1>4, <1>5, KeepsMessages, KeepsOrder, KeepsRows
  <1>8. Waiting'
    <2>1. \A q \in Processes : q # p => Orderly(q)'
      <3>1. made' >= made /\ made' \in Nat
        BY <1>1, <1>2 DEF TypeOK
      <3> QED
        BY <1>1, <1>2, <3>1, OthersWait
    <2>2. Orderly(p)'
      <3>1. Orderly(p)
        BY <1>1 DEF Waiting
      <3>2. Increasing(<<>>)
        BY EmptyIs
      <3> QED
        BY <1>2, <1>3, <3>1, <3>2 DEF Orderly, Running
    <2> QED
      BY <1>1, <1>2, <2>1, <2>2 DEF Waiting
  <1>9. Journaled'
    <2> SUFFICES ASSUME Whole' PROVE /\ Alone' /\ (\A q \in Processes : Held(q)' /\ Marking(q)')
                                     /\ \A i \in DOMAIN sent' : SentRows(i)'
      BY DEF Journaled
    <2>1. Whole /\ Alone' /\ \A q \in Processes : q # p => Held(q)' /\ Marking(q)'
      BY <1>1, <1>2, <1>4, Milder, OthersOff, OffHolds
    <2>2. Held(p) /\ \A i \in DOMAIN sent : SentRows(i)
      BY <1>1, <2>1 DEF Journaled
    <2>3. Held(p)' /\ Marking(p)'
      BY <1>2, <1>3, <2>2 DEF Held, Marking
    <2>4. \A i \in DOMAIN sent' : SentRows(i)'
      BY <1>2, <2>2 DEF SentRows, Holds
    <2> QED
      BY <2>1, <2>3, <2>4
  <1>10. Calm'
    <2> SUFFICES ASSUME harm' = {} PROVE \A q \in Processes : Unanswered(q)'
      BY <1>2 DEF Calm
    <2>1. harm = {} /\ Whole /\ \A q \in Processes : q # p => Unanswered(q)'
      BY <1>1, <1>2, <1>4, Milder, OthersOff, OffHolds
    <2>2. Unanswered(p)'
      <3> SUFFICES ASSUME NEW i \in DOMAIN sent, NEW c \in Range(r), Holds(i, c)
                   PROVE  Head(sent[i].cards) = Head(r)
        BY <1>2 DEF Unanswered, Holds
      <3>1. Head(sent[i].cards) = Head(mem[p].pending)
        BY <1>1, <1>3, <2>1 DEF Calm, Unanswered
      <3>2. ~(k > 0)
        <4>1. Head(sent[i].cards) \notin refused
          BY <1>1, MessageIs
        <4> QED
          BY <1>3, <1>4, <3>1, <4>1
      <3>3. k = 0 /\ r # <<>>
        <4>1. Len(mem[p].pending) \in Nat
          BY <1>1, PendingIs
        <4> QED
          BY <3>2, <4>1, EmptyIs
      <3> QED
        BY <1>3, <3>1, <3>3
    <2> QED
      BY <2>1, <2>2
  <1>11. Kept'
    <2> SUFFICES ASSUME harm' \subseteq {"crash"}
                 PROVE  /\ \A q \in Processes : Closing(q)'
                        /\ \A i \in DOMAIN sent' : sent'[i].shown =>
                              FirstRow(i)' /\ \A q \in Processes : Keeping(q, i)'
      BY DEF Kept
    <2>1. harm \subseteq {"crash"} /\ Whole /\ \A q \in Processes : q # p => Closing(q)' /\ \A i : Keeping(q, i)'
      BY <1>1, <1>2, <1>4, Milder, OthersOff, OffHolds
    <2>2. Closing(p)'
      BY <1>2, <1>4 DEF Closing
    <2>3. ASSUME NEW i \in DOMAIN sent, sent[i].shown
          PROVE  FirstRow(i)' /\ Keeping(p, i)'
      <3>1. FirstRow(i) /\ Keeping(p, i)
        BY <1>1, <2>1, <2>3 DEF Kept
      <3> QED
        BY <1>2, <3>1 DEF FirstRow, Keeping, SameWindow
    <2> QED
      BY <1>2, <2>1, <2>2, <2>3
  <1> QED
    BY <1>6, <1>7, <1>8, <1>9, <1>10, <1>11 DEF FeedInv

\* A card refused alone is dropped.
LEMMA RejectOneEffect ==
  ASSUME TypeOK, Waiting, NEW p \in Processes, Reject(p), ~(mem[p].group > 1)
  PROVE  1 \in 0..Len(mem[p].pending) /\ Cuts(p, 1)
  <1> DEFINE s == mem[p].pending
             m == [mem[p] EXCEPT !.pc = "record", !.group = 0, !.pending = Tail(@),
                                 !.drops = Range(Group(p)),
                                 !.saved = @ \ Range(Group(p)), !.solo = @ \ Range(Group(p))]
  <1>1. /\ At(p, "send") /\ Range(Group(p)) \cap refused # {} /\ Hold(p, m)
        /\ UNCHANGED <<made, row, discord, used, harm>>
    BY DEF Reject
  <1>2. mem[p] \in Memory /\ s \in Seq(Cards) /\ Len(s) \in Nat
    BY MemoryIs, RangeIs
  <1>3. mem[p].group \in 1..Len(s) /\ mem[p].group = 1
    <2>1. mem[p].group \in 1..Len(s)
      BY <1>1 DEF Waiting, Orderly, At
    <2> QED
      BY <1>2, <2>1
  <1>4. s # <<>> /\ 1 \in 0..Len(s) /\ Tail(s) = SubSeq(s, 1 + 1, Len(s)) /\ Range(SubSeq(s, 1, 1)) = {Head(s)}
    <2>1. s # <<>>
      BY <1>2, <1>3
    <2> HIDE DEF s
    <2> QED
      BY <1>2, <2>1, TailIsCut
  <1>5. Group(p) = SubSeq(s, 1, 1)
    BY <1>3 DEF Group
  <1>6. Range(Group(p)) \subseteq refused /\ Range(Group(p)) \subseteq Cards
    <2>1. Range(Group(p)) \subseteq Cards
      BY <1>3, GroupIs
    <2> QED
      BY <1>1, <1>4, <1>5, <2>1
  <1>7. Tail(s) \in Seq(Cards)
    BY <1>2, <1>4
  <1>8. m \in Memory
    BY <1>2, <1>6, <1>7 DEF Memory, Pcs
  <1>9. mem'[p] = m
    BY <1>1, HoldIs
  <1>10. /\ mem'[p].pc = "record" /\ mem'[p].pending = Tail(s) /\ mem'[p].drops = Range(Group(p))
         /\ mem'[p].saved = mem[p].saved \ Range(Group(p)) /\ mem'[p].marks = <<>> /\ mem'[p].gone = {}
         /\ SameWindow(p)
    BY <1>1, <1>2, <1>9 DEF At, SameWindow, Memory
  <1> HIDE DEF m
  <1>11. Others(p) /\ mem' \in [Processes -> Memory]
    BY <1>1, <1>8, HoldIs DEF Others
  <1>12. At(p, mem[p].pc) /\ Running(p) /\ Running(p)' /\ mem'[p].pc # "send"
    BY <1>1, <1>10 DEF At, Running
  <1> QED
    BY <1>1, <1>4, <1>5, <1>6, <1>10, <1>11, <1>12 DEF Cuts, discord

\* A backlog that is too long loses its oldest cards.
LEMMA BoundEffect ==
  ASSUME TypeOK, NEW p \in Processes, BoundPending(p)
  PROVE  \E k \in 0..Len(mem[p].pending) : Cuts(p, k)
  <1> DEFINE s == mem[p].pending
             over == IF Len(s) > MaxPending THEN Len(s) - MaxPending ELSE 0
             lost == Range(SubSeq(s, 1, over))
             pc == IF mem[p].final THEN "exit" ELSE "idle"
             m == [mem[p] EXCEPT !.pc = pc, !.pending = SubSeq(@, over + 1, Len(@)), !.drops = lost,
                                 !.saved = @ \ lost, !.solo = @ \ lost]
  <1>1. /\ At(p, "end") /\ Hold(p, m)
        /\ harm' = IF over > 0 THEN harm \cup {"overflow"} ELSE harm
        /\ UNCHANGED <<made, row, discord, used>>
    BY DEF BoundPending
  <1>2. mem[p] \in Memory /\ s \in Seq(Cards) /\ Len(s) \in Nat /\ MaxPending \in Nat
    BY MemoryIs, RangeIs, FeedAssumption
  <1>3. over \in 0..Len(s) /\ over \in Nat
    BY <1>2
  <1> HIDE DEF over
  <1>4. SubSeq(s, over + 1, Len(s)) \in Seq(Cards) /\ SubSeq(s, 1, over) \in Seq(Cards) /\ Len(SubSeq(s, 1, over)) = over
    <2> HIDE DEF s
    <2> QED
      BY <1>2, <1>3, Cut
  <1>5. lost \subseteq Cards /\ (over = 0 => lost = {})
    <2>1. over = 0 => SubSeq(s, 1, over) = <<>>
      BY <1>3, <1>4
    <2>2. over = 0 => lost = {}
      BY <2>1, EmptyIs
    <2>3. \A c \in lost : c \in Cards
      <3> DEFINE f == SubSeq(s, 1, over)
      <3> HIDE DEF f
      <3>1. f \in Seq(Cards)
        BY <1>4 DEF f
      <3>2. \A c \in Range(f) : c \in Cards
        BY <3>1, RangeIs
      <3> QED
        BY <3>2 DEF f
    <2> QED
      BY <2>2, <2>3
  <1> HIDE DEF lost
  <1>6. pc \in Pcs \ {"off", "send"}
    BY DEF Pcs
  <1> HIDE DEF pc
  <1>7. m \in Memory
    BY <1>2, <1>4, <1>5, <1>6 DEF Memory
  <1>8. mem'[p] = m
    BY <1>1, HoldIs
  <1>9. /\ mem'[p].pc = pc /\ mem'[p].pending = SubSeq(s, over + 1, Len(s)) /\ mem'[p].drops = lost
        /\ mem'[p].saved = mem[p].saved \ lost /\ mem'[p].marks = <<>> /\ mem'[p].gone = {}
        /\ SameWindow(p)
    BY <1>1, <1>2, <1>8 DEF At, SameWindow, Memory
  <1> HIDE DEF m
  <1>10. Others(p) /\ mem' \in [Processes -> Memory]
    BY <1>1, <1>7, HoldIs DEF Others
  <1>11. At(p, mem[p].pc) /\ Running(p) /\ Running(p)' /\ mem'[p].pc # "send"
    BY <1>1, <1>6, <1>9 DEF At, Running
  <1>12. (lost \subseteq refused /\ harm' = harm) \/ harm' = harm \cup {"overflow"}
    BY <1>1, <1>3, <1>5
  <1>13. Cuts(p, over)
    BY <1>1, <1>9, <1>10, <1>11, <1>12 DEF Cuts, discord, lost
  <1> QED
    BY <1>3, <1>13

-----------------------------------------------------------------------------
(* Messages that are sent.                                                 *)

\* While the journal is whole, the first card of a message waits only at the
\* head of the queue.
LEMMA HeadsWait ==
  ASSUME TypeOK, Messages, Waiting, Journaled, Whole, NEW p \in Processes, NEW i \in DOMAIN sent,
         Head(sent[i].cards) \in Range(mem[p].pending)
  PROVE  Head(sent[i].cards) = Head(mem[p].pending)
  <1> DEFINE x == Head(sent[i].cards)
             h == Head(mem[p].pending)
  <1>1. Held(p) /\ SentRows(i)
    BY DEF Journaled
  <1>2. mem[p].pending # <<>> /\ h \in Range(mem[p].pending) /\ h \in Cards /\ h <= x
    <2>1. mem[p].pending # <<>>
      BY EmptyIs
    <2> QED
      BY <2>1, PendingIs
  <1>3. x \in Cards /\ Holds(i, x) /\ Last(sent[i].cards) \in Cards /\ x <= Last(sent[i].cards)
        /\ (Holds(i, h) => x <= h)
    BY MessageIs
  <1>4. x \in Nat /\ h \in Nat /\ Last(sent[i].cards) \in Nat
    BY <1>2, <1>3, CardsNat
  <1>5. row[x].state # "NONE"
    BY <1>1, <1>3 DEF SentRows, Holds
  <1> HIDE DEF x, h
  <1>6. row[h].state = "QUEUED"
    <2>1. row[h].state = "NONE" => x < h
      BY <1>1, <1>2, <1>3, <1>5 DEF Held
    <2>2. ~(x < h)
      BY <1>2, <1>4
    <2> QED
      BY <1>1, <1>2, <2>1, <2>2 DEF Held
  <1>7. Holds(i, h) \/ Last(sent[i].cards) < h
    BY <1>1, <1>2, <1>6 DEF SentRows
  <1>8. x <= h
    BY <1>2, <1>3, <1>4, <1>7
  <1>9. x = h
    BY <1>2, <1>4, <1>8
  <1> QED
    BY <1>9 DEF x, h

\* A group that is about to be sent.
LEMMA SendingIs ==
  ASSUME TypeOK, Waiting, NEW p \in Processes, At(p, "send")
  PROVE  /\ mem[p].group \in 0..Len(mem[p].pending) /\ mem[p].group > 0
         /\ Group(p) \in Seq(Cards) /\ Len(Group(p)) = mem[p].group /\ Group(p) # <<>> /\ Increasing(Group(p))
         /\ Range(Group(p)) \subseteq Range(mem[p].pending)
         /\ Head(Group(p)) = Head(mem[p].pending) /\ mem[p].pending # <<>>
         /\ Last(Group(p)) \in Range(Group(p)) /\ Head(mem[p].pending) \in Range(Group(p))
         /\ \A c \in Range(Group(p)) : Head(mem[p].pending) <= c /\ c <= Last(Group(p))
         /\ \A c \in Range(mem[p].pending) : c \in Range(Group(p)) \/ Last(Group(p)) < c
         /\ mem[p].marks = <<>> /\ mem[p].drops = {} /\ mem[p].gone = {} /\ Running(p)
         /\ Range(mem[p].marks) = {}
  <1> DEFINE g == SubSeq(mem[p].pending, 1, mem[p].group)
  <1>1. mem[p].group \in 1..Len(mem[p].pending) /\ mem[p].group \in Nat /\ Len(mem[p].pending) \in Nat
    BY MemoryIs DEF Waiting, Orderly, At
  <1>2. mem[p].group \in 0..Len(mem[p].pending) /\ mem[p].group > 0
    BY <1>1
  <1>3. /\ Group(p) \in Seq(Cards) /\ Len(Group(p)) = mem[p].group /\ Group(p) # <<>>
        /\ Range(Group(p)) \subseteq Range(mem[p].pending)
        /\ Head(Group(p)) = Head(mem[p].pending) /\ mem[p].pending # <<>>
    BY <1>1, GroupIs
  <1>4. /\ Increasing(Group(p))
        /\ Range(mem[p].pending) = Range(Group(p)) \cup
              Range(SubSeq(mem[p].pending, mem[p].group + 1, Len(mem[p].pending)))
        /\ \A c \in Range(SubSeq(mem[p].pending, mem[p].group + 1, Len(mem[p].pending))),
              d \in Range(Group(p)) : d < c
    BY <1>2, CutPending DEF Group
  <1>5. /\ Last(Group(p)) \in Range(Group(p)) /\ Head(Group(p)) \in Range(Group(p))
        /\ \A c \in Range(Group(p)) : Head(Group(p)) <= c /\ c <= Last(Group(p))
    <2>1. Cards \in SUBSET Nat
      BY CardsNat
    <2> QED
      BY <1>3, <1>4, <2>1, Bounds
  <1>6. mem[p].marks = <<>> /\ mem[p].drops = {} /\ mem[p].gone = {} /\ Running(p)
    BY DEF At, Running
  <1> QED
    BY <1>2, <1>3, <1>4, <1>5, <1>6, EmptyIs

\* While the journal is whole, it has the cards of the group.
LEMMA SendingQueued ==
  ASSUME TypeOK, Waiting, Journaled, Whole, NEW p \in Processes, At(p, "send")
  PROVE  /\ \A c \in Range(Group(p)) : c \in Cards /\ row[c].state = "QUEUED"
         /\ \A c \in Cards : row[c].state = "QUEUED" => c \in Range(mem[p].pending)
  <1>1. Held(p) /\ Orderly(p)
    BY DEF Journaled, Waiting
  <1>2. mem[p].group \in 1..Len(mem[p].pending) /\ mem[p].pc = "send"
    BY <1>1 DEF Orderly, At
  <1>3. ASSUME NEW c \in Range(Group(p)) PROVE c \in Cards /\ row[c].state = "QUEUED"
    <2>1. c \in Cards /\ c \in Range(mem[p].pending)
      BY <1>2, <1>3, GroupIs
    <2>2. PICK j \in 1..mem[p].group : c = mem[p].pending[j]
      <3>1. Group(p) \in Seq(Cards) /\ Len(Group(p)) = mem[p].group
            /\ \A j \in 1..mem[p].group : Group(p)[j] = mem[p].pending[j]
        BY <1>2, GroupIs
      <3>2. PICK j \in 1..mem[p].group : c = Group(p)[j]
        BY <1>3, <3>1, RangeIs
      <3> QED
        BY <3>1, <3>2
    <2>3. c \in mem[p].saved
      BY <1>1, <1>2, <2>2 DEF Held
    <2> QED
      BY <1>1, <2>1, <2>3 DEF Held, Orderly
  <1>4. \A c \in Cards : row[c].state = "QUEUED" => c \in Range(mem[p].pending)
    BY <1>1, SendingIs DEF Held
  <1> QED
    BY <1>3, <1>4

\* A new message.
Adds(p) == Existing(p) = {} /\ sent' = Append(sent, [cards |-> Group(p), shown |-> TRUE])

LEMMA AddsIs ==
  ASSUME TypeOK, Waiting, NEW p \in Processes, At(p, "send"), Adds(p)
  PROVE  /\ sent' \in Seq([cards : Seq(Cards), shown : BOOLEAN])
         /\ Len(sent') = Len(sent) + 1 /\ Len(sent) + 1 \notin DOMAIN sent
         /\ DOMAIN sent' = DOMAIN sent \cup {Len(sent) + 1}
         /\ \A i \in DOMAIN sent : sent'[i] = sent[i] /\ i < Len(sent) + 1
         /\ sent'[Len(sent) + 1] = [cards |-> Group(p), shown |-> TRUE]
         /\ sent'[Len(sent) + 1].cards = Group(p)
  <1> DEFINE M == [cards : Seq(Cards), shown : BOOLEAN]
             x == [cards |-> Group(p), shown |-> TRUE]
  <1>1. sent \in Seq(M) /\ Len(sent) \in Nat /\ DOMAIN sent = 1..Len(sent)
    BY SentIs DEF TypeOK
  <1>2. x \in M
    BY SendingIs
  <1>3. sent' = Append(sent, x) /\ x.cards = Group(p)
    BY DEF Adds
  <1> HIDE DEF M, x
  <1>4. sent' \in Seq(M) /\ Len(sent') = Len(sent) + 1 /\ DOMAIN sent' = 1..(Len(sent) + 1)
        /\ sent'[Len(sent) + 1] = x /\ \A i \in 1..Len(sent) : sent'[i] = sent[i]
    BY <1>1, <1>2, <1>3
  <1>5. 1..(Len(sent) + 1) = 1..Len(sent) \cup {Len(sent) + 1} /\ Len(sent) + 1 \notin 1..Len(sent)
        /\ \A i \in 1..Len(sent) : i < Len(sent) + 1
    BY <1>1
  <1> QED
    BY <1>1, <1>3, <1>4, <1>5 DEF M, x

\* A message that is new has a first card that heads no other.
LEMMA NewHead ==
  ASSUME TypeOK, Messages, Waiting, Journaled, NEW p \in Processes, At(p, "send"), Existing(p) = {},
         harm \subseteq {"crash"}
  PROVE  \A i \in DOMAIN sent : Head(sent[i].cards) \notin Range(mem[p].pending)
  <1> SUFFICES ASSUME NEW i \in DOMAIN sent, Head(sent[i].cards) \in Range(mem[p].pending) PROVE FALSE
    OBVIOUS
  <1>1. Whole
    BY DEF Whole
  <1>2. Head(sent[i].cards) = Head(mem[p].pending)
    BY <1>1, HeadsWait
  <1>3. forgot = 0
    BY DEF Messages, TypeOK
  <1>4. i > forgot
    BY <1>3, SentIs
  <1> QED
    BY <1>2, <1>4 DEF Existing

\* What a new message does to the messages and to what the journal says of them.
LEMMA AddsStep ==
  ASSUME FeedInv, NEW p \in Processes, At(p, "send"), Adds(p), Acceptable(p),
         UNCHANGED <<row, refused, forgot, harm>>
  PROVE  /\ Messages' /\ InOrder' /\ SentOnce' /\ RowsTrue'
         /\ Whole => \A i \in DOMAIN sent' : SentRows(i)'
  <1> DEFINE n == Len(sent) + 1
  <1>1. /\ TypeOK /\ Messages /\ Waiting /\ Journaled /\ RowsTrue /\ InOrder /\ SentOnce /\ Calm
    BY DEF FeedInv
  <1>2. /\ n \notin DOMAIN sent /\ DOMAIN sent' = DOMAIN sent \cup {n}
        /\ \A i \in DOMAIN sent : sent'[i] = sent[i] /\ i < n
        /\ sent'[n].cards = Group(p)
    BY <1>1, AddsIs
  <1>3. DOMAIN sent \subseteq Nat /\ n \in Nat
    BY <1>1, SentIs
  <1>4. /\ Group(p) # <<>> /\ Increasing(Group(p)) /\ Range(Group(p)) \subseteq Range(mem[p].pending)
        /\ Last(Group(p)) \in Range(Group(p)) /\ Head(Group(p)) \in Range(Group(p))
        /\ \A c \in Range(mem[p].pending) : c \in Range(Group(p)) \/ Last(Group(p)) < c
    BY <1>1, SendingIs
  <1> HIDE DEF n
  <1>5. Messages'
    <2>1. Range(Group(p)) \cap refused = {}
      BY DEF Acceptable, Adds
    <2> QED
      BY <1>1, <1>2, <1>4, <2>1 DEF Messages
  <1>6. RowsTrue'
    <2>1. \A i \in DOMAIN sent : sent'[i].cards = sent[i].cards
      BY <1>2
    <2> QED
      BY <1>1, <1>2, <2>1, KeepsRows
  <1>7. Whole => \A c \in Range(Group(p)) : c \in Cards /\ row[c].state = "QUEUED"
    BY <1>1, SendingQueued
  <1>8. ASSUME Whole, NEW i \in DOMAIN sent' PROVE SentRows(i)'
    <2>1. CASE i \in DOMAIN sent
      BY <1>1, <1>2, <1>8, <2>1 DEF Journaled, SentRows, Holds
    <2>2. CASE i = n
      <3>1. \A c \in Cards : row[c].state = "QUEUED" => c \in Range(Group(p)) \/ Last(Group(p)) < c
        BY <1>1, <1>4, <1>8, SendingQueued
      <3> QED
        BY <1>2, <1>4, <1>7, <1>8, <2>2, <3>1 DEF SentRows, Holds
    <2> QED
      BY <1>2, <2>1, <2>2
  <1>9. InOrder'
    <2> SUFFICES ASSUME Whole, NEW i \in DOMAIN sent', NEW j \in DOMAIN sent', i < j,
                        NEW c \in Range(sent'[j].cards)
                 PROVE  c \in Range(sent'[i].cards) \/ Last(sent'[i].cards) < c
      BY DEF InOrder, Whole, Holds
    <2>1. i \in DOMAIN sent
      <3>1. ASSUME i = n PROVE FALSE
        <4>1. (j = n \/ j < n) /\ j \in Nat
          BY <1>2, <1>3
        <4> QED
          BY <1>3, <3>1, <4>1
      <3> QED
        BY <1>2, <3>1
    <2>2. CASE j \in DOMAIN sent
      BY <1>1, <1>2, <2>1, <2>2 DEF InOrder, Whole, Holds
    <2>3. CASE j = n
      <3>1. c \in Cards /\ row[c].state = "QUEUED"
        BY <1>2, <1>7, <2>3
      <3>2. SentRows(i)
        BY <1>1, <2>1 DEF Journaled
      <3> QED
        BY <1>2, <2>1, <3>1, <3>2 DEF SentRows, Holds
    <2> QED
      BY <1>2, <2>2, <2>3
  <1>10. SentOnce'
    <2> SUFFICES ASSUME harm \subseteq {"crash"}, NEW i \in DOMAIN sent', NEW j \in DOMAIN sent', NEW c \in Cards,
                        i < j, c \in Range(sent'[i].cards), c \in Range(sent'[j].cards)
                 PROVE  "crash" \in harm /\ c # Head(sent'[i].cards)
      BY DEF SentOnce, Holds
    <2>1. i \in DOMAIN sent
      <3>1. ASSUME i = n PROVE FALSE
        <4>1. (j = n \/ j < n) /\ j \in Nat
          BY <1>2, <1>3
        <4> QED
          BY <1>3, <3>1, <4>1
      <3> QED
        BY <1>2, <3>1
    <2>2. CASE j \in DOMAIN sent
      BY <1>1, <1>2, <2>1, <2>2 DEF SentOnce, Holds
    <2>3. CASE j = n
      <3>1. c \in Range(mem[p].pending) /\ Holds(i, c)
        BY <1>2, <1>4, <2>1, <2>3 DEF Holds
      <3>2. Head(sent[i].cards) \notin Range(mem[p].pending)
        BY <1>1, <2>1, NewHead DEF Adds
      <3>3. Head(mem[p].pending) \in Range(mem[p].pending)
        BY <1>1, SendingIs
      <3>4. harm # {}
        BY <1>1, <2>1, <3>1, <3>2, <3>3 DEF Calm, Unanswered
      <3> QED
        BY <1>2, <2>1, <3>1, <3>2, <3>4
    <2> QED
      BY <1>2, <2>2, <2>3
  <1> QED
    BY <1>5, <1>6, <1>8, <1>9, <1>10

\* While the journal is whole, a message that Discord knows under the nonce
\* holds the cards at the head of the queue.
LEMMA KnownCards ==
  ASSUME TypeOK, Messages, Waiting, Journaled, Whole, NEW p \in Processes, At(p, "send"),
         NEW i \in DOMAIN sent, Head(sent[i].cards) = Head(mem[p].pending)
  PROVE  /\ Posted(p, sent[i].cards) = Len(sent[i].cards)
         /\ Range(SubSeq(mem[p].pending, 1, Len(sent[i].cards))) = Range(sent[i].cards)
  <1> DEFINE s == mem[p].pending
             t == sent[i].cards
             f == SubSeq(s, 1, Len(t))
  <1>1. Held(p) /\ SentRows(i)
    BY DEF Journaled
  <1>2. /\ s \in Seq(Cards) /\ Increasing(s) /\ \A c \in Range(s) : c \in Cards
        /\ t \in Seq(Cards) /\ Increasing(t) /\ t # <<>> /\ Last(t) = t[Len(t)] /\ Last(t) \in Range(t)
        /\ \A c \in Range(t) : c \in Cards
    BY PendingIs, MessageIs DEF Holds
  <1>3. Head(t) \in Cards /\ row[Head(t)].state = "QUEUED"
    BY SendingIs, SendingQueued
  <1>4. \A c \in Range(t) : row[c].state = "QUEUED"
    BY <1>1, <1>3 DEF SentRows
  <1>5. \A c \in Range(t) : c \in Range(s)
    BY <1>2, <1>4, SendingQueued
  <1>6. ASSUME NEW c \in Range(s), c <= Last(t) PROVE c \in Range(t)
    <2>1. ~(Last(t) < c)
      <3> DEFINE l == Last(t)
      <3>1. c \in Nat /\ l \in Nat
        BY <1>2, CardsNat
      <3> HIDE DEF l
      <3>2. c <= l
        BY <1>6 DEF l
      <3>3. ~(l < c)
        BY <3>1, <3>2
      <3> QED
        BY <3>3 DEF l
    <2>2. row[c].state = "QUEUED"
      <3>1. row[c].state = "NONE" => Last(t) < c
        BY <1>1, <1>2, <1>4 DEF Held
      <3> QED
        BY <1>1, <2>1, <3>1 DEF Held
    <2> QED
      BY <1>1, <1>2, <2>1, <2>2 DEF SentRows, Holds
  <1> HIDE DEF s, t
  <1>7. s \in Seq(Nat) /\ t \in Seq(Nat)
    BY <1>2, CardsNat, SeqMonotonic
  <1>8. Len(t) <= Len(s) /\ \A j \in 1..Len(t) : s[j] = t[j]
    BY <1>2, <1>5, <1>6, <1>7, Prefix
  <1>9. Len(s) \in Nat /\ Len(t) \in Nat /\ Len(t) \in 0..Len(s)
    BY <1>7, <1>8
  <1>10. f \in Seq(Cards) /\ Len(f) = Len(t) /\ \A j \in 1..Len(t) : f[j] = s[j]
    BY <1>2, <1>9, Cut
  <1> HIDE DEF f
  <1>11. Range(f) = Range(t)
    <2>1. \A c \in Range(f) : c \in Range(t)
      <3> SUFFICES ASSUME NEW c \in Range(f) PROVE c \in Range(t)
        OBVIOUS
      <3>1. PICK j \in 1..Len(t) : f[j] = c
        BY <1>10, RangeIs
      <3>2. c = t[j]
        BY <1>8, <1>10, <3>1
      <3> QED
        BY <1>2, <3>2, RangeIs
    <2>2. \A c \in Range(t) : c \in Range(f)
      <3> SUFFICES ASSUME NEW c \in Range(t) PROVE c \in Range(f)
        OBVIOUS
      <3>1. PICK j \in 1..Len(t) : t[j] = c
        BY <1>2, RangeIs
      <3>2. c = f[j]
        BY <1>8, <1>10, <3>1
      <3> QED
        BY <1>10, <3>2, RangeIs
    <2> QED
      BY <2>1, <2>2
  <1>12. Posted(p, t) = Len(t)
    <2>1. ~(Len(t) > Len(s))
      BY <1>8, <1>9
    <2> QED
      BY <2>1 DEF Posted, s
  <1> QED
    BY <1>11, <1>12 DEF s, t, f

\* The same of a message that is new.
LEMMA NewCards ==
  ASSUME TypeOK, Waiting, NEW p \in Processes, At(p, "send")
  PROVE  /\ Posted(p, Group(p)) = Len(Group(p))
         /\ SubSeq(mem[p].pending, 1, Len(Group(p))) = Group(p)
  <1>1. Len(Group(p)) = mem[p].group /\ mem[p].group \in 0..Len(mem[p].pending) /\ Len(mem[p].pending) \in Nat
    BY SendingIs, PendingIs
  <1>2. ~(Len(Group(p)) > Len(mem[p].pending))
    BY <1>1
  <1> QED
    BY <1>1, <1>2 DEF Posted, Group

LEMMA AppendWindow ==
  ASSUME NEW w \in Windows, NEW x \in [msg : Nat, cards : Nat]
  PROVE  Append(w, x) \in Windows /\ Ids(Append(w, x)) = Ids(w) \cup {x.msg}
  <1>1. w \in Seq([msg : Nat, cards : Nat])
    BY DEF Windows
  <1>2. /\ Append(w, x) \in Seq([msg : Nat, cards : Nat]) /\ DOMAIN Append(w, x) = 1..(Len(w) + 1)
        /\ DOMAIN w = 1..Len(w) /\ Len(w) \in Nat
        /\ Append(w, x)[Len(w) + 1] = x /\ \A i \in 1..Len(w) : Append(w, x)[i] = w[i]
    BY <1>1
  <1>3. 1..(Len(w) + 1) = 1..Len(w) \cup {Len(w) + 1}
    BY <1>2
  <1>4. Ids(Append(w, x)) = Ids(w) \cup {x.msg}
    <2> DEFINE y == Append(w, x)
    <2>1. DOMAIN y = DOMAIN w \cup {Len(w) + 1} /\ y[Len(w) + 1] = x /\ \A i \in DOMAIN w : y[i] = w[i]
      BY <1>2, <1>3
    <2> HIDE DEF y
    <2>2. Ids(y) = Ids(w) \cup {x.msg}
      BY <2>1 DEF Ids
    <2> QED
      BY <2>2 DEF y
  <1> QED
    BY <1>2, <1>4 DEF Windows

\* A message stands for the group: its cards leave the queue and are to be marked.
Takes(p, i, n) ==
    /\ Others(p) /\ Running(p)' /\ mem' \in [Processes -> Memory] /\ mem'[p].pc # "send"
    /\ mem'[p].pending = SubSeq(mem[p].pending, n + 1, Len(mem[p].pending))
    /\ mem'[p].marks = SubSeq(mem[p].pending, 1, n) /\ mem'[p].msg = i
    /\ mem'[p].saved \subseteq mem[p].saved
    /\ mem'[p].gone = {} /\ mem'[p].drops = {}
    /\ Ids(mem'[p].window) = Ids(mem[p].window) \cup {i} /\ mem'[p].orphans = mem[p].orphans

LEMMA SendEffect ==
  ASSUME TypeOK, Waiting, NEW p \in Processes, SendGroup(p)
  PROVE  /\ At(p, "send") /\ Acceptable(p)
         /\ UNCHANGED <<made, row, forgot, refused, used, harm>>
         /\ \E i \in DOMAIN sent', n \in 0..Len(mem[p].pending) :
               /\ n = Posted(p, sent'[i].cards) /\ Takes(p, i, n)
               /\ \/ Adds(p) /\ i = Len(sent) + 1
                  \/ i \in Existing(p) /\ UNCHANGED sent
  <1>1. /\ At(p, "send") /\ Acceptable(p) /\ Create(p)
        /\ UNCHANGED <<made, row, forgot, refused, used, harm>>
    BY DEF SendGroup
  <1>2. PICK i \in DOMAIN sent' :
            /\ IF Existing(p) = {} THEN i = Len(sent') ELSE i \in Existing(p)
            /\ LET n == Posted(p, sent'[i].cards)
                   done == SubSeq(mem[p].pending, 1, n)
               IN  Hold(p, [mem[p] EXCEPT !.pc = "record", !.group = 0, !.marks = done, !.msg = i,
                                          !.pending = SubSeq(@, n + 1, Len(@)), !.saved = @ \ Range(done),
                                          !.solo = @ \ Range(done),
                                          !.window = Append(@, [msg |-> i, cards |-> n])])
    BY DEF SendGroup
  <1> DEFINE n == Posted(p, sent'[i].cards)
             done == SubSeq(mem[p].pending, 1, n)
             rest == SubSeq(mem[p].pending, n + 1, Len(mem[p].pending))
             w == Append(mem[p].window, [msg |-> i, cards |-> n])
             m == [mem[p] EXCEPT !.pc = "record", !.group = 0, !.marks = done, !.msg = i,
                                 !.pending = rest, !.saved = @ \ Range(done),
                                 !.solo = @ \ Range(done), !.window = w]
  <1>3. \/ Adds(p) /\ i = Len(sent) + 1
        \/ i \in Existing(p) /\ UNCHANGED sent
    <2>1. CASE Existing(p) = {}
      <3>1. Adds(p)
        BY <1>1, <2>1 DEF Adds, Create
      <3> QED
        BY <1>1, <1>2, <2>1, <3>1, AddsIs
    <2>2. CASE Existing(p) # {}
      BY <1>1, <1>2, <2>2 DEF Create
    <2> QED
      BY <2>1, <2>2
  <1>4. i \in Nat /\ sent'[i].cards \in Seq(Cards)
    <2>1. CASE Adds(p) /\ i = Len(sent) + 1
      <3>1. sent'[Len(sent) + 1].cards = Group(p) /\ Group(p) \in Seq(Cards) /\ Len(sent) \in Nat
        BY <1>1, <2>1, AddsIs, SendingIs, SentIs
      <3> QED
        BY <2>1, <3>1
    <2>2. CASE i \in Existing(p) /\ UNCHANGED sent
      BY <2>2, SentIs DEF Existing
    <2> QED
      BY <1>3, <2>1, <2>2
  <1>5. Hold(p, m)
    BY <1>2
  <1>6. n \in 0..Len(mem[p].pending) /\ n \in Nat
    <2>1. Len(mem[p].pending) \in Nat /\ Len(sent'[i].cards) \in Nat
      BY <1>4, PendingIs
    <2> QED
      BY <2>1 DEF Posted
  <1> HIDE DEF n
  <1>7. done \in Seq(Cards) /\ rest \in Seq(Cards)
    BY <1>6, CutPending
  <1>8. mem[p] \in Memory
    BY MemoryIs
  <1>9. w \in Windows /\ Ids(w) = Ids(mem[p].window) \cup {i}
    <2>1. [msg |-> i, cards |-> n] \in [msg : Nat, cards : Nat] /\ mem[p].window \in Windows
      BY <1>4, <1>6, <1>8 DEF Memory
    <2> QED
      BY <2>1, AppendWindow
  <1> HIDE DEF done, rest, w
  <1>10. m \in Memory
    BY <1>4, <1>7, <1>8, <1>9 DEF Memory, Pcs
  <1>11. mem'[p] = m
    BY <1>5, HoldIs
  <1>12. /\ mem'[p].pc = "record" /\ mem'[p].pending = rest /\ mem'[p].marks = done /\ mem'[p].msg = i
         /\ mem'[p].saved \subseteq mem[p].saved /\ mem'[p].window = w /\ mem'[p].orphans = mem[p].orphans
         /\ mem'[p].gone = {} /\ mem'[p].drops = {}
    BY <1>1, <1>8, <1>11 DEF At, Memory
  <1> HIDE DEF m
  <1>13. Others(p) /\ mem' \in [Processes -> Memory]
    BY <1>5, <1>10, HoldIs DEF Others
  <1>14. Takes(p, i, n)
    BY <1>9, <1>12, <1>13 DEF Takes, Running, done, rest
  <1> QED
    BY <1>1, <1>3, <1>6, <1>14 DEF n

LEMMA SendStep ==
  ASSUME FeedInv, NEW p \in Processes, SendGroup(p)
  PROVE  FeedInv'
  <1>1. /\ TypeOK /\ Messages /\ Waiting /\ Journaled /\ RowsTrue /\ InOrder /\ SentOnce /\ Calm /\ Kept
    BY DEF FeedInv
  <1>2. At(p, "send") /\ Acceptable(p) /\ UNCHANGED <<made, row, forgot, refused, used, harm>>
    BY <1>1, SendEffect
  <1>3. PICK i \in DOMAIN sent', n \in 0..Len(mem[p].pending) :
               /\ n = Posted(p, sent'[i].cards) /\ Takes(p, i, n)
               /\ \/ Adds(p) /\ i = Len(sent) + 1
                  \/ i \in Existing(p) /\ UNCHANGED sent
    BY <1>1, SendEffect
  <1> DEFINE h == Head(mem[p].pending)
             f == SubSeq(mem[p].pending, 1, n)
             r == SubSeq(mem[p].pending, n + 1, Len(mem[p].pending))
             x == Last(sent'[i].cards)
  <1>4. /\ Others(p) /\ Running(p)' /\ mem' \in [Processes -> Memory] /\ mem'[p].pc # "send"
        /\ mem'[p].pending = r /\ mem'[p].marks = f /\ mem'[p].msg = i
        /\ mem'[p].saved \subseteq mem[p].saved /\ mem'[p].gone = {} /\ mem'[p].drops = {}
        /\ Ids(mem'[p].window) = Ids(mem[p].window) \cup {i} /\ mem'[p].orphans = mem[p].orphans
    BY <1>3 DEF Takes
  <1>5. /\ h \in Range(mem[p].pending) /\ h \in Range(Group(p)) /\ h \in Cards
        /\ mem[p].marks = <<>> /\ mem[p].drops = {} /\ Running(p) /\ Range(mem[p].marks) = {}
    <2>1. h \in Range(mem[p].pending)
      BY <1>1, <1>2, SendingIs
    <2> QED
      BY <1>1, <1>2, <2>1, SendingIs, PendingIs
  <1>6. /\ f \in Seq(Cards) /\ Increasing(f) /\ r \in Seq(Cards) /\ Increasing(r)
        /\ Range(mem[p].pending) = Range(f) \cup Range(r)
        /\ \A c \in Range(r), d \in Range(f) : d < c
    BY <1>1, CutPending
  <1>7. /\ sent' \in Seq([cards : Seq(Cards), shown : BOOLEAN]) /\ Len(sent') >= Len(sent)
        /\ DOMAIN sent \subseteq DOMAIN sent' /\ Len(sent') \in Nat
        /\ \A j \in DOMAIN sent : sent'[j] = sent[j]
        /\ \A j \in DOMAIN sent' : j # i => j \in DOMAIN sent
        /\ Head(sent'[i].cards) = h
    <2>1. CASE Adds(p) /\ i = Len(sent) + 1
      <3>1. Len(sent) \in Nat /\ Head(Group(p)) = h
        BY <1>1, <1>2, SentIs, SendingIs
      <3>2. /\ sent' \in Seq([cards : Seq(Cards), shown : BOOLEAN]) /\ Len(sent') = Len(sent) + 1
            /\ DOMAIN sent' = DOMAIN sent \cup {i} /\ sent'[i].cards = Group(p)
            /\ \A j \in DOMAIN sent : sent'[j] = sent[j]
        BY <1>1, <1>2, <2>1, AddsIs
      <3> QED
        BY <3>1, <3>2
    <2>2. CASE i \in Existing(p) /\ UNCHANGED sent
      BY <1>1, <2>2, SentIs DEF Existing, TypeOK
    <2> QED
      BY <1>3, <2>1, <2>2
  <1>8. /\ Messages' /\ InOrder' /\ SentOnce' /\ RowsTrue'
        /\ Whole => \A j \in DOMAIN sent' : SentRows(j)'
    <2>1. CASE Adds(p)
      BY <1>2, <2>1, AddsStep
    <2>2. CASE UNCHANGED sent
      <3>1. Keeps
        BY <1>1, <2>2, KeepsSame
      <3>2. Whole => \A j \in DOMAIN sent' : SentRows(j)'
        BY <1>1, <1>2, <2>2 DEF Journaled, SentRows, Holds
      <3> QED
        BY <1>1, <1>2, <2>2, <3>1, <3>2, KeepsMessages, KeepsOrder, KeepsRows
    <2> QED
      BY <1>3, <2>1, <2>2
  <1>9. Whole => Range(f) = Range(sent'[i].cards)
    <2> SUFFICES ASSUME Whole PROVE Range(f) = Range(sent'[i].cards)
      OBVIOUS
    <2>1. CASE Adds(p) /\ i = Len(sent) + 1
      <3>1. sent'[i].cards = Group(p)
        BY <1>1, <1>2, <2>1, AddsIs
      <3>2. n = Len(Group(p)) /\ f = Group(p)
        BY <1>1, <1>2, <1>3, <3>1, NewCards
      <3> QED
        BY <3>1, <3>2
    <2>2. CASE i \in Existing(p) /\ UNCHANGED sent
      <3>1. i \in DOMAIN sent /\ Head(sent[i].cards) = h
        BY <2>2 DEF Existing
      <3>2. n = Len(sent[i].cards)
        BY <1>1, <1>2, <1>3, <2>2, <3>1, KnownCards
      <3> QED
        BY <1>1, <1>2, <2>2, <3>1, <3>2, KnownCards
    <2> QED
      BY <1>3, <2>1, <2>2
  <1>10. harm \subseteq {"crash"} =>
            \A j \in DOMAIN sent' : j # i => Head(sent'[j].cards) \notin Range(mem[p].pending)
    <2> SUFFICES ASSUME harm \subseteq {"crash"}, NEW j \in DOMAIN sent', j # i,
                        Head(sent'[j].cards) \in Range(mem[p].pending)
                 PROVE  FALSE
      OBVIOUS
    <2>1. j \in DOMAIN sent /\ sent'[j] = sent[j]
      BY <1>7
    <2>2. CASE Adds(p)
      BY <1>1, <1>2, <2>1, <2>2, NewHead DEF Adds
    <2>3. CASE i \in Existing(p) /\ UNCHANGED sent
      <3>1. i \in DOMAIN sent /\ Head(sent[i].cards) = h
        BY <2>3 DEF Existing
      <3>2. Head(sent[j].cards) = h
        <4>1. Whole
          BY DEF Whole
        <4> QED
          BY <1>1, <2>1, <4>1, HeadsWait
      <3>3. Holds(i, h) /\ Holds(j, h)
        BY <1>1, <2>1, <3>1, <3>2, MessageIs
      <3>4. i < j \/ j < i
        BY <1>1, <2>1, <3>1, SentIs
      <3> QED
        BY <1>1, <1>5, <2>1, <3>1, <3>2, <3>3, <3>4 DEF SentOnce
    <2> QED
      BY <1>3, <2>2, <2>3
  <1>11. x \in Range(sent'[i].cards) /\ x \in Cards
    <2>1. /\ sent'[i].cards \in Seq(Cards) /\ sent'[i].cards # <<>> /\ Increasing(sent'[i].cards)
      <3>1. sent'[i] \in [cards : Seq(Cards), shown : BOOLEAN]
        <4>1. sent' \in Seq([cards : Seq(Cards), shown : BOOLEAN]) /\ DOMAIN sent' = 1..Len(sent')
          BY <1>7
        <4>2. i \in 1..Len(sent')
          BY <4>1
        <4> QED
          BY <4>1, <4>2, ElementOfSeq
      <3> QED
        BY <1>3, <1>8, <3>1 DEF Messages
    <2> QED
      BY <2>1, CardsNat, Bounds
  <1> HIDE DEF h, f, r
  <1>12. TypeOK'
    <2>1. forgot' \in 0..Len(sent')
      <3>1. Len(sent) \in Nat /\ forgot \in 0..Len(sent)
        BY <1>1, SentIs DEF TypeOK
      <3> QED
        BY <1>2, <1>7, <3>1
    <2> QED
      BY <1>1, <1>2, <1>4, <1>7, <2>1 DEF TypeOK
  <1>13. Waiting'
    <2>1. \A q \in Processes : q # p => Orderly(q)'
      <3>1. made' >= made /\ made' \in Nat
        BY <1>1, <1>2 DEF TypeOK
      <3> QED
        BY <1>1, <1>2, <1>4, <1>7, <3>1, OthersWait
    <2>2. Orderly(p)'
      <3>1. Orderly(p)
        BY <1>1 DEF Waiting
      <3> QED
        BY <1>2, <1>3, <1>4, <1>6, <3>1 DEF Orderly, Running
    <2> QED
      BY <1>1, <1>2, <2>1, <2>2 DEF Waiting
  <1>14. Journaled'
    <2> SUFFICES ASSUME Whole' PROVE /\ Alone' /\ (\A q \in Processes : Held(q)' /\ Marking(q)')
                                     /\ \A j \in DOMAIN sent' : SentRows(j)'
      BY DEF Journaled
    <2>1. Whole /\ Alone' /\ \A q \in Processes : q # p => Held(q)' /\ Marking(q)'
      BY <1>1, <1>2, <1>4, <1>5, Milder, OthersOff, OffHolds
    <2>2. Held(p)
      BY <1>1, <2>1 DEF Journaled
    <2>3. Held(p)'
      BY <1>2, <1>4, <1>5, <1>6, <2>2 DEF Held
    <2>4. Marking(p)'
      <3>1. \A c \in Range(f) : c \in Range(sent'[i].cards)
        BY <1>9, <2>1
      <3>2. \A c \in Range(r) : x < c
        BY <1>6, <1>9, <1>11, <2>1
      <3> QED
        BY <1>4, <3>1, <3>2 DEF Marking, Holds
    <2> QED
      BY <1>8, <2>1, <2>3, <2>4
  <1>15. Calm'
    <2> SUFFICES ASSUME harm' = {} PROVE \A q \in Processes : Unanswered(q)'
      BY <1>4 DEF Calm
    <2>1. harm = {} /\ Whole /\ \A q \in Processes : q # p => Unanswered(q)'
      BY <1>1, <1>2, <1>4, <1>5, Milder, OthersOff, OffHolds
    <2>2. Unanswered(p)'
      <3> SUFFICES ASSUME NEW j \in DOMAIN sent', NEW c \in Range(r), c \in Range(sent'[j].cards)
                   PROVE  FALSE
        BY <1>4 DEF Unanswered, Holds
      <3>1. CASE j = i
        <4>1. c \in Range(f) /\ c \in Nat
          <5>1. c \in Cards
            BY <1>6, RangeIs
          <5> QED
            BY <1>9, <2>1, <3>1, <5>1, CardsNat
        <4> QED
          BY <1>6, <4>1
      <3>2. CASE j # i
        <4>1. j \in DOMAIN sent /\ sent'[j] = sent[j] /\ c \in Range(mem[p].pending)
          BY <1>6, <1>7, <3>2
        <4>2. Head(sent[j].cards) = h
          BY <1>1, <2>1, <4>1 DEF Calm, Unanswered, Holds, h
        <4> QED
          BY <1>5, <1>10, <2>1, <3>2, <4>1, <4>2
      <3> QED
        BY <3>1, <3>2
    <2> QED
      BY <2>1, <2>2
  <1>16. Kept'
    <2> SUFFICES ASSUME harm' \subseteq {"crash"}
                 PROVE  /\ \A q \in Processes : Closing(q)'
                        /\ \A j \in DOMAIN sent' : sent'[j].shown =>
                              FirstRow(j)' /\ \A q \in Processes : Keeping(q, j)'
      BY DEF Kept
    <2>1. harm \subseteq {"crash"} /\ Whole /\ \A q \in Processes : q # p => Closing(q)' /\ \A j : Keeping(q, j)'
      BY <1>1, <1>2, <1>4, <1>5, Milder, OthersOff, OffHolds
    <2>2. Closing(p)'
      <3>1. \A c \in Range(f) : \A j \in DOMAIN sent' : c = Head(sent'[j].cards) => j = i
        BY <1>6, <1>10, <2>1
      <3> QED
        BY <1>4, <3>1 DEF Closing
    <2>3. ASSUME NEW j \in DOMAIN sent', sent'[j].shown
          PROVE  FirstRow(j)' /\ Keeping(p, j)'
      <3>1. CASE j = i
        <4>1. row[h].state = "QUEUED"
          BY <1>1, <1>2, <1>5, <2>1, SendingQueued
        <4> QED
          BY <1>2, <1>4, <1>7, <3>1, <4>1 DEF FirstRow, Keeping
      <3>2. CASE j # i
        <4>1. j \in DOMAIN sent /\ sent'[j] = sent[j]
          BY <1>7, <3>2
        <4>2. FirstRow(j) /\ Keeping(p, j)
          BY <1>1, <2>1, <2>3, <4>1 DEF Kept
        <4> QED
          BY <1>2, <1>4, <1>5, <4>1, <4>2 DEF FirstRow, Keeping
      <3> QED
        BY <3>1, <3>2
    <2> QED
      BY <2>1, <2>2, <2>3
  <1> QED
    BY <1>8, <1>12, <1>13, <1>14, <1>15, <1>16 DEF FeedInv

\* A new message whose answer is lost.
LEMMA LoseNewStep ==
  ASSUME FeedInv, NEW p \in Processes, LoseAnswer(p), Existing(p) = {}
  PROVE  FeedInv'
  <1> DEFINE n == Len(sent) + 1
             h == Head(mem[p].pending)
  <1>1. /\ TypeOK /\ Messages /\ Waiting /\ Journaled /\ RowsTrue /\ InOrder /\ SentOnce /\ Calm /\ Kept
    BY DEF FeedInv
  <1>2. /\ At(p, "send") /\ Acceptable(p) /\ Adds(p) /\ UNCHANGED <<made, row, forgot, refused>>
    BY DEF LoseAnswer, Create, Adds
  <1>3. used' \in [starts : Nat, mishaps : Nat] /\ harm' = harm
    <2>1. Harm({})
      BY DEF LoseAnswer
    <2>2. harm' = harm \cup {}
      BY <1>1, <2>1, HarmIs
    <2> QED
      BY <1>1, <2>1, <2>2, HarmIs
  <1>4. /\ Others(p) /\ SameCards(p) /\ SameWindow(p) /\ mem'[p].gone = {}
        /\ Running(p) /\ Running(p)' /\ mem' \in [Processes -> Memory]
        /\ mem'[p].pc = "send" => mem'[p].group = mem[p].group
        /\ mem[p].marks = <<>> /\ mem[p].drops = {} /\ Range(mem[p].marks) = {}
    <2>1. mem[p] \in Memory /\ mem[p].gone = {} /\ Running(p) /\ mem[p].marks = <<>> /\ mem[p].drops = {}
      BY <1>1, <1>2, MemoryIs DEF At, Running
    <2>2. CASE UNCHANGED mem
      BY <1>1, <2>1, <2>2, EmptyIs DEF Others, SameCards, SameWindow, Running, TypeOK
    <2>3. CASE Hold(p, [mem[p] EXCEPT !.pc = "end", !.group = 0])
      <3> DEFINE m == [mem[p] EXCEPT !.pc = "end", !.group = 0]
      <3>1. m \in Memory
        BY <2>1 DEF Memory, Pcs
      <3>2. mem'[p] = m
        BY <1>1, <2>3, HoldIs
      <3>3. SameCards(p) /\ SameWindow(p) /\ mem'[p].gone = {} /\ mem'[p].pc = "end"
        BY <2>1, <3>2 DEF SameCards, SameWindow, Memory
      <3>4. Others(p) /\ mem' \in [Processes -> Memory]
        BY <1>1, <2>3, <3>1, HoldIs DEF Others
      <3> QED
        BY <2>1, <3>3, <3>4, EmptyIs DEF Running
    <2> QED
      BY <2>2, <2>3 DEF LoseAnswer
  <1>5. /\ sent' \in Seq([cards : Seq(Cards), shown : BOOLEAN])
        /\ Len(sent') = n /\ n \notin DOMAIN sent
        /\ DOMAIN sent' = DOMAIN sent \cup {n} /\ \A i \in DOMAIN sent : sent'[i] = sent[i]
        /\ sent'[n].cards = Group(p) /\ Head(Group(p)) = h /\ h \in Range(mem[p].pending)
        /\ h \in Range(Group(p))
    BY <1>1, <1>2, AddsIs, SendingIs
  <1>6. Len(sent) \in Nat
    BY <1>1, SentIs
  <1>7. Messages' /\ InOrder' /\ SentOnce' /\ RowsTrue' /\ (Whole => \A i \in DOMAIN sent' : SentRows(i)')
    BY <1>2, <1>3, AddsStep
  <1>8. TypeOK'
    <2>1. forgot' \in 0..Len(sent')
      BY <1>1, <1>2, <1>5, <1>6 DEF TypeOK
    <2> QED
      BY <1>1, <1>2, <1>3, <1>4, <1>5, <2>1 DEF TypeOK
  <1> HIDE DEF n, h
  <1>9. Waiting'
    <2>1. \A q \in Processes : q # p => Orderly(q)'
      <3>1. made' >= made /\ made' \in Nat
        BY <1>1, <1>2 DEF TypeOK
      <3> QED
        BY <1>1, <1>2, <1>4, <1>5, <3>1, OthersWait
    <2>2. Orderly(p)'
      <3>1. Orderly(p)
        BY <1>1 DEF Waiting
      <3> QED
        BY <1>2, <1>4, <1>5, <3>1 DEF Orderly, Running, SameCards, At
    <2> QED
      BY <1>1, <1>2, <2>1, <2>2 DEF Waiting
  <1>10. Journaled'
    <2> SUFFICES ASSUME Whole' PROVE /\ Alone' /\ (\A q \in Processes : Held(q)' /\ Marking(q)')
                                     /\ \A i \in DOMAIN sent' : SentRows(i)'
      BY DEF Journaled
    <2>1. Whole /\ Alone' /\ \A q \in Processes : q # p => Held(q)' /\ Marking(q)'
      BY <1>1, <1>2, <1>3, <1>4, Milder, OthersOff, OffHolds
    <2>2. Held(p)
      BY <1>1, <2>1 DEF Journaled
    <2>3. Held(p)'
      BY <1>2, <1>4, <2>2 DEF Held, SameCards, At
    <2>4. Marking(p)'
      BY <1>4 DEF Marking, SameCards
    <2> QED
      BY <1>7, <2>1, <2>3, <2>4
  <1>11. Calm'
    <2> SUFFICES ASSUME harm' = {} PROVE \A q \in Processes : Unanswered(q)'
      BY <1>4 DEF Calm
    <2>1. harm = {} /\ Whole /\ \A q \in Processes : q # p => Unanswered(q)'
      BY <1>1, <1>2, <1>3, <1>4, Milder, OthersOff, OffHolds
    <2>2. Unanswered(p)
      BY <1>1, <2>1 DEF Calm
    <2>3. Unanswered(p)'
      BY <1>4, <1>5, <2>2 DEF Unanswered, SameCards, Holds, h
    <2> QED
      BY <2>1, <2>3
  <1>12. Kept'
    <2> SUFFICES ASSUME harm' \subseteq {"crash"}
                 PROVE  /\ \A q \in Processes : Closing(q)'
                        /\ \A i \in DOMAIN sent' : sent'[i].shown =>
                              FirstRow(i)' /\ \A q \in Processes : Keeping(q, i)'
      BY DEF Kept
    <2>1. harm \subseteq {"crash"} /\ Whole /\ \A q \in Processes : q # p => Closing(q)' /\ \A i : Keeping(q, i)'
      BY <1>1, <1>2, <1>3, <1>4, Milder, OthersOff, OffHolds
    <2>2. Closing(p)'
      BY <1>4 DEF Closing, SameCards
    <2>3. ASSUME NEW i \in DOMAIN sent', sent'[i].shown
          PROVE  FirstRow(i)' /\ Keeping(p, i)'
      <3>1. CASE i = n
        <4>1. row[h].state = "QUEUED"
          BY <1>1, <1>2, <1>5, <2>1, SendingQueued
        <4> QED
          BY <1>2, <1>5, <3>1, <4>1 DEF FirstRow, Keeping
      <3>2. CASE i \in DOMAIN sent
        <4>1. FirstRow(i) /\ Keeping(p, i)
          BY <1>1, <1>5, <2>1, <2>3, <3>2 DEF Kept
        <4> QED
          BY <1>2, <1>4, <1>5, <3>2, <4>1 DEF FirstRow, Keeping, SameWindow
      <3> QED
        BY <1>5, <3>1, <3>2
    <2> QED
      BY <2>1, <2>2, <2>3
  <1> QED
    BY <1>7, <1>8, <1>9, <1>10, <1>11, <1>12 DEF FeedInv

LEMMA LoseStep ==
  ASSUME FeedInv, NEW p \in Processes, LoseAnswer(p)
  PROVE  FeedInv'
  <1>1. TypeOK
    BY DEF FeedInv
  <1>2. CASE Existing(p) = {}
    BY <1>2, LoseNewStep
  <1>3. CASE Existing(p) # {}
    <2>1. UNCHANGED sent
      BY <1>3 DEF LoseAnswer, Create
    <2> QED
      BY <1>1, <2>1, LoseKnownEffect, QuietStep
  <1> QED
    BY <1>2, <1>3

-----------------------------------------------------------------------------
(* Processes that end and start.                                           *)

\* A process ends: in order, when nothing is left to close, or in a crash.
LEMMA LeaveStep ==
  ASSUME FeedInv, NEW p \in Processes, Exit(p) \/ Crash(p)
  PROVE  FeedInv'
  <1>1. /\ TypeOK /\ Messages /\ Waiting /\ Journaled /\ RowsTrue /\ InOrder /\ SentOnce /\ Calm /\ Kept
    BY DEF FeedInv
  <1>2. /\ Running(p) /\ Hold(p, Off) /\ UNCHANGED <<made, row, sent, forgot, refused>>
    BY DEF Exit, Crash, At, Running, discord
  <1>3. /\ used' \in [starts : Nat, mishaps : Nat]
        /\ \/ harm' = harm /\ Exit(p)
           \/ harm' = harm \cup {"crash"}
    <2>1. CASE Exit(p)
      BY <1>1, <2>1 DEF Exit, TypeOK
    <2>2. CASE Crash(p)
      <3>1. Harm({"crash"})
        BY <2>2 DEF Crash
      <3> QED
        BY <1>1, <3>1, HarmIs
    <2> QED
      BY <2>1, <2>2
  <1>4. Others(p) /\ mem'[p] = Off /\ mem' \in [Processes -> Memory] /\ ~Running(p)'
    BY <1>1, <1>2, HoldIs, OffIs DEF Others, Running
  <1>5. Keeps /\ harm \subseteq harm'
    BY <1>1, <1>2, <1>3, KeepsSame
  <1>6. TypeOK'
    <2>1. harm' \subseteq {"journal", "overlap", "unrecorded", "crash", "forgot", "overflow", "stale"}
      BY <1>1, <1>3 DEF TypeOK
    <2> QED
      BY <1>1, <1>2, <1>3, <1>4, <2>1 DEF TypeOK
  <1>7. Messages' /\ InOrder' /\ SentOnce' /\ RowsTrue'
    BY <1>1, <1>2, <1>5, KeepsMessages, KeepsOrder, KeepsRows
  <1>8. Waiting'
    <2>1. \A q \in Processes : q # p => Orderly(q)'
      <3>1. made' >= made /\ made' \in Nat
        BY <1>1, <1>2 DEF TypeOK
      <3> QED
        BY <1>1, <1>2, <1>4, <3>1, OthersWait
    <2>2. Orderly(p)'
      BY <1>4, OffIs, EmptyIs DEF Orderly
    <2> QED
      BY <1>1, <1>2, <2>1, <2>2 DEF Waiting
  <1>9. Journaled'
    <2> SUFFICES ASSUME Whole' PROVE /\ Alone' /\ (\A q \in Processes : Held(q)' /\ Marking(q)')
                                     /\ \A i \in DOMAIN sent' : SentRows(i)'
      BY DEF Journaled
    <2>1. Whole /\ Alone' /\ \A q \in Processes : Held(q)' /\ Marking(q)'
      BY <1>1, <1>2, <1>4, <1>5, Milder, OthersOff, OffHolds
    <2>2. \A i \in DOMAIN sent' : SentRows(i)'
      BY <1>1, <1>2, <2>1 DEF Journaled, SentRows, Holds
    <2> QED
      BY <2>1, <2>2
  <1>10. Calm'
    <2> SUFFICES ASSUME harm' = {}
                 PROVE  /\ \A q \in Processes : Unanswered(q)'
                        /\ \A i \in DOMAIN sent : \A c \in Range(sent[i].cards) :
                              row[c].state = "QUEUED" => row[Head(sent[i].cards)].state = "QUEUED"
      BY <1>2 DEF Calm
    <2>1. harm = {} /\ Whole /\ \A q \in Processes : Unanswered(q)'
      BY <1>1, <1>2, <1>4, <1>5, Milder, OthersOff, OffHolds
    <2>2. ASSUME NEW i \in DOMAIN sent, NEW c \in Range(sent[i].cards), row[c].state = "QUEUED"
          PROVE  row[Head(sent[i].cards)].state = "QUEUED"
      <3>1. Exit(p)
        BY <1>3
      <3>2. mem[p].marks = <<>> /\ mem[p].drops = {} /\ Range(mem[p].marks) = {}
        BY <3>1, EmptyIs DEF Exit, At
      <3>3. c \in Cards /\ Holds(i, c) /\ Holds(i, Head(sent[i].cards))
        BY <1>1, <2>2, MessageIs DEF Holds
      <3>4. Held(p) /\ SentRows(i) /\ Unanswered(p)
        BY <1>1, <2>1 DEF Journaled, Calm
      <3>5. c \in Range(mem[p].pending)
        BY <1>2, <2>2, <3>2, <3>3, <3>4 DEF Held
      <3>6. Head(sent[i].cards) = Head(mem[p].pending)
        BY <3>3, <3>4, <3>5 DEF Unanswered
      <3>7. Head(mem[p].pending) \in Range(mem[p].pending)
        BY <1>1, <3>5, PendingIs, EmptyIs
      <3>8. row[Head(sent[i].cards)].state \in {"NONE", "QUEUED"}
        BY <3>4, <3>6, <3>7 DEF Held
      <3> QED
        BY <3>3, <3>4, <3>8 DEF SentRows, Holds
    <2> QED
      BY <2>1, <2>2
  <1>11. Kept'
    <2> SUFFICES ASSUME harm' \subseteq {"crash"}
                 PROVE  /\ \A q \in Processes : Closing(q)'
                        /\ \A i \in DOMAIN sent' : sent'[i].shown =>
                              FirstRow(i)' /\ \A q \in Processes : Keeping(q, i)'
      BY DEF Kept
    <2>1. harm \subseteq {"crash"} /\ \A q \in Processes : Closing(q)' /\ \A i : Keeping(q, i)'
      BY <1>1, <1>2, <1>4, <1>5, Milder, OthersOff, OffHolds
    <2>2. \A i \in DOMAIN sent' : sent'[i].shown => FirstRow(i)'
      BY <1>1, <1>2, <2>1 DEF Kept, FirstRow
    <2> QED
      BY <2>1, <2>2
  <1> QED
    BY <1>6, <1>7, <1>8, <1>9, <1>10, <1>11 DEF FeedInv

\* Discord forgets a nonce.
LEMMA ForgetStep ==
  ASSUME FeedInv, Forget
  PROVE  FeedInv'
  <1>1. /\ TypeOK /\ Messages /\ Waiting /\ Journaled /\ RowsTrue /\ InOrder /\ SentOnce /\ Calm /\ Kept
    BY DEF FeedInv
  <1>2. /\ UNCHANGED <<made, mem, row, sent, refused>> /\ forgot < Len(sent) /\ forgot' = forgot + 1
        /\ used' \in [starts : Nat, mishaps : Nat] /\ harm' = harm \cup {"forgot"}
    BY <1>1, HarmIs DEF Forget
  <1>3. Keeps /\ harm \subseteq harm' /\ "forgot" \in harm'
    BY <1>1, <1>2, KeepsSame
  <1>4. TypeOK'
    <2>1. forgot' \in 0..Len(sent')
      <3>1. Len(sent) \in Nat /\ forgot \in 0..Len(sent)
        BY <1>1, SentIs DEF TypeOK
      <3> QED
        BY <1>2, <3>1
    <2> QED
      BY <1>1, <1>2, <2>1 DEF TypeOK
  <1>5. Messages' /\ InOrder' /\ SentOnce' /\ RowsTrue'
    <2>1. Messages'
      BY <1>1, <1>2, <1>3 DEF Messages
    <2> QED
      BY <1>1, <1>2, <1>3, <2>1, KeepsOrder, KeepsRows
  <1>6. Waiting'
    BY <1>1, <1>2 DEF Waiting, Orderly
  <1>7. Journaled'
    <2>1. Whole' => Whole
      BY <1>3, Milder
    <2> QED
      BY <1>1, <1>2, <2>1 DEF Journaled, Alone, Held, Marking, SentRows, Holds, Running
  <1>8. Calm' /\ Kept'
    BY <1>3 DEF Calm, Kept
  <1> QED
    BY <1>4, <1>5, <1>6, <1>7, <1>8 DEF FeedInv

\* A process starts with what the journal has: cards waiting and messages
\* shown, or with nothing if the journal cannot be read.
Starts(p) ==
    /\ ~Running(p) /\ Others(p)
    /\ mem' \in [Processes -> Memory] /\ mem'[p].pc = "idle" /\ mem'[p].marks = <<>>
    /\ Increasing(mem'[p].pending) /\ mem'[p].saved \subseteq Range(mem'[p].pending)
    /\ \A c \in Range(mem'[p].pending) \cup mem'[p].drops : row[c].state = "QUEUED"
    /\ \A c \in Range(mem'[p].pending), d \in mem'[p].drops : d < c
    /\ Keeps /\ \A i \in DOMAIN sent : sent'[i].shown => i \notin mem'[p].gone
    /\ \/ "journal" \in harm'
       \/ /\ \A c \in Cards : row[c].state = "QUEUED" => c \in Range(mem'[p].pending) \cup mem'[p].drops
          /\ \A c \in Cards : row[c].state = "SHOWN" =>
                row[c].msg \in Ids(mem'[p].window) \cup mem'[p].orphans \cup mem'[p].gone
          /\ mem'[p].drops = {} \/ "stale" \in harm'

LEMMA TrimIs ==
  ASSUME NEW w \in Windows
  PROVE  (CHOOSE k \in 0..Len(w) :
            /\ CardsIn(SubSeq(w, k + 1, Len(w))) <= MaxItems
            /\ k = 0 \/ CardsIn(SubSeq(w, k, Len(w))) > MaxItems) \in 0..Len(w)
  <1>1. MaxItems \in Nat /\ 0 \in 0..MaxItems /\ Len(w) \in Nat
    BY FeedAssumption, WindowIs
  <1>2. PICK k \in 0..Len(w) :
             /\ 0 + CardsIn(SubSeq(w, k + 1, Len(w))) <= MaxItems
             /\ k = 0 \/ 0 + CardsIn(SubSeq(w, k, Len(w))) > MaxItems
    BY <1>1, CutPlace
  <1>3. CardsIn(SubSeq(w, k + 1, Len(w))) \in Nat
    BY CutWindow, SlotsFinite
  <1>4. k = 0 \/ CardsIn(SubSeq(w, k, Len(w))) \in Nat
    <2> SUFFICES ASSUME k # 0 PROVE CardsIn(SubSeq(w, k, Len(w))) \in Nat
      OBVIOUS
    <2>1. k - 1 \in 0..Len(w) /\ (k - 1) + 1 = k
      BY <1>1
    <2>2. SubSeq(w, (k - 1) + 1, Len(w)) \in Windows
      BY <2>1, CutWindow
    <2> QED
      BY <2>1, <2>2, SlotsFinite
  <1>5. /\ CardsIn(SubSeq(w, k + 1, Len(w))) <= MaxItems
        /\ k = 0 \/ CardsIn(SubSeq(w, k, Len(w))) > MaxItems
    BY <1>2, <1>3, <1>4
  <1> QED
    BY <1>5

LEMMA RestoreEffect ==
  ASSUME TypeOK, NEW p \in Processes, ~Running(p), NEW stale, NEW expired, NEW failed,
         Restore(p, stale, expired, failed), stale = 0 \/ "stale" \in harm'
  PROVE  Starts(p)
  <1> DEFINE queued == Open("QUEUED")
             f == SubSeq(queued, 1, stale)
             r == SubSeq(queued, stale + 1, Len(queued))
             keep == SubSeq(Shown, expired + 1, Len(Shown))
             trim == CHOOSE k \in 0..Len(keep) :
                         /\ CardsIn(SubSeq(keep, k + 1, Len(keep))) <= MaxItems
                         /\ k = 0 \/ CardsIn(SubSeq(keep, k, Len(keep))) > MaxItems
             w == SubSeq(keep, trim + 1, Len(keep))
             remove == Ids(Shown) \ Ids(w)
             m == [Off EXCEPT !.pc = "idle", !.window = w, !.pending = r, !.saved = Range(r),
                              !.drops = Range(f), !.orphans = failed, !.gone = remove \ failed]
  <1>1. /\ stale \in 0..Len(queued) /\ expired \in 0..Len(Shown) /\ failed \subseteq remove
        /\ Hide(remove \ failed) /\ Hold(p, m)
    BY DEF Restore
  <1>2. /\ queued \in Seq(Cards) /\ Increasing(queued)
        /\ Range(queued) = {c \in Cards : row[c].state = "QUEUED"}
    BY OpenProps
  <1>3. Shown \in Windows /\ Ids(Shown) = {row[c].msg : c \in {d \in Cards : row[d].state = "SHOWN"}}
    BY ShownProps
  <1>4. keep \in Windows
    BY <1>1, <1>3, CutWindow
  <1>5. trim \in 0..Len(keep)
    <2> HIDE DEF keep
    <2> QED
      BY <1>4, TrimIs
  <1> HIDE DEF trim
  <1>6. w \in Windows
    BY <1>4, <1>5, CutWindow
  <1> HIDE DEF queued, keep
  <1>7. /\ f \in Seq(Cards) /\ r \in Seq(Cards) /\ Increasing(r)
        /\ Range(queued) = Range(f) \cup Range(r) /\ \A c \in Range(r), d \in Range(f) : d < c
    BY <1>1, <1>2, CardsNat, Cut, CutAscending
  <1>8. stale = 0 => Range(f) = {}
    <2>1. Len(f) = stale
      BY <1>1, <1>2, Cut
    <2> QED
      BY <1>7, <2>1, RangeIs
  <1>9. remove \subseteq Nat
    <2>1. \A i \in 1..Len(Shown) : Shown[i].msg \in Nat
      BY <1>3, WindowIs
    <2>2. DOMAIN Shown = 1..Len(Shown)
      BY <1>3, WindowIs
    <2> QED
      BY <2>1, <2>2 DEF Ids
  <1> HIDE DEF f, r, w
  <1>10. Range(f) \subseteq Cards /\ Range(r) \subseteq Cards
    BY <1>7, RangeIs
  <1>11. Range(f) \cup Range(r) = {c \in Cards : row[c].state = "QUEUED"}
    BY <1>2, <1>7
  <1> HIDE DEF remove
  <1>12. m \in Memory
    BY <1>1, <1>6, <1>7, <1>9, <1>10, OffIs DEF Memory, Pcs
  <1>13. mem'[p] = m /\ Others(p) /\ mem' \in [Processes -> Memory]
    BY <1>1, <1>12, HoldIs DEF Others
  <1>14. /\ mem'[p].pc = "idle" /\ mem'[p].marks = <<>> /\ mem'[p].pending = r /\ mem'[p].saved = Range(r)
         /\ mem'[p].drops = Range(f) /\ mem'[p].window = w /\ mem'[p].orphans = failed
         /\ mem'[p].gone = remove \ failed
    BY <1>13 DEF Off
  <1>15. Keeps /\ \A i \in DOMAIN sent : sent'[i].shown => i \notin mem'[p].gone
    BY <1>1, <1>14, HideProps
  <1>16. \A c \in Cards : row[c].state = "SHOWN" =>
                row[c].msg \in Ids(w) \cup failed \cup (remove \ failed)
    BY <1>1, <1>3 DEF remove
  <1> QED
    BY <1>7, <1>8, <1>11, <1>13, <1>14, <1>15, <1>16 DEF Starts

LEMMA StartEffect ==
  ASSUME TypeOK, NEW p \in Processes, Start(p)
  PROVE  /\ Starts(p) /\ UNCHANGED <<made, row, forgot, refused>>
         /\ used' \in [starts : Nat, mishaps : Nat] /\ harm \subseteq harm'
         /\ harm' \subseteq harm \cup {"journal", "stale", "overlap"}
         /\ (\E q \in Processes : Running(q)) => "overlap" \in harm'
  <1>1. used \in [starts : Nat, mishaps : Nat]
    BY DEF TypeOK
  <1>2. ASSUME NEW kinds \in SUBSET {"journal", "stale", "overlap"}, NEW mishaps \in Nat, Started(kinds, mishaps)
        PROVE  /\ used' \in [starts : Nat, mishaps : Nat] /\ harm \subseteq harm' /\ kinds \subseteq harm'
               /\ harm' \subseteq harm \cup {"journal", "stale", "overlap"}
               /\ (\E q \in Processes : Running(q)) => "overlap" \in harm'
    <2>1. used.starts \in Nat /\ used.mishaps \in Nat
      BY <1>1
    <2>2. used.starts + 1 \in Nat /\ used.mishaps + mishaps \in Nat
      BY <2>1
    <2>3. used' \in [starts : Nat, mishaps : Nat]
      BY <1>2, <2>2 DEF Started
    <2> QED
      BY <1>2, <2>3 DEF Started
  <1>3. CASE /\ \E expired \in 0..MaxCards, failed \in SUBSET DOMAIN sent : Restore(p, 0, expired, failed)
             /\ Started({}, 0)
    <2>1. PICK expired, failed : Restore(p, 0, expired, failed)
      BY <1>3
    <2>2. Starts(p)
      BY <2>1, RestoreEffect DEF Start
    <2> QED
      BY <1>2, <1>3, <2>2 DEF Start
  <1>4. CASE /\ \E stale \in 1..MaxCards, expired \in 0..MaxCards, failed \in SUBSET DOMAIN sent :
                   Restore(p, stale, expired, failed)
             /\ Started({"stale"}, 1)
    <2>1. PICK stale, expired, failed : Restore(p, stale, expired, failed)
      BY <1>4
    <2>2. "stale" \in harm'
      BY <1>4 DEF Started
    <2>3. Starts(p)
      BY <2>1, <2>2, RestoreEffect DEF Start
    <2> QED
      BY <1>2, <1>4, <2>3 DEF Start
  <1>5. CASE Hold(p, [Off EXCEPT !.pc = "idle"]) /\ UNCHANGED sent /\ Started({"journal"}, 1)
    <2> DEFINE m == [Off EXCEPT !.pc = "idle"]
    <2>1. m \in Memory
      BY OffIs DEF Memory, Pcs
    <2>2. mem'[p] = m /\ Others(p) /\ mem' \in [Processes -> Memory]
      BY <1>5, <2>1, HoldIs DEF Others
    <2>3. /\ mem'[p].pc = "idle" /\ mem'[p].marks = <<>> /\ mem'[p].pending = <<>> /\ mem'[p].saved = {}
          /\ mem'[p].drops = {} /\ mem'[p].gone = {}
      BY <2>2 DEF Off
    <2>4. Range(mem'[p].pending) = {} /\ Increasing(mem'[p].pending)
      BY <2>3, EmptyIs
    <2>5. Keeps
      BY <1>5, KeepsSame
    <2>6. "journal" \in harm'
      BY <1>5 DEF Started
    <2>7. Starts(p)
      BY <2>2, <2>3, <2>4, <2>5, <2>6 DEF Starts, Start
    <2> QED
      BY <1>2, <1>5, <2>7 DEF Start
  <1> QED
    BY <1>3, <1>4, <1>5 DEF Start

LEMMA StartStep ==
  ASSUME FeedInv, NEW p \in Processes, Start(p)
  PROVE  FeedInv'
  <1>1. /\ TypeOK /\ Messages /\ Waiting /\ Journaled /\ RowsTrue /\ InOrder /\ SentOnce /\ Calm /\ Kept
    BY DEF FeedInv
  <1>2. /\ Starts(p) /\ UNCHANGED <<made, row, forgot, refused>>
        /\ used' \in [starts : Nat, mishaps : Nat] /\ harm \subseteq harm'
        /\ harm' \subseteq harm \cup {"journal", "stale", "overlap"}
        /\ (\E q \in Processes : Running(q)) => "overlap" \in harm'
    BY <1>1, StartEffect
  <1>3. /\ Keeps /\ Others(p) /\ mem' \in [Processes -> Memory]
        /\ mem'[p].pc = "idle" /\ mem'[p].marks = <<>> /\ Range(mem'[p].marks) = {} /\ Increasing(mem'[p].marks)
        /\ mem'[p].pending \in Seq(Cards) /\ mem'[p].saved \subseteq Cards /\ mem'[p].drops \subseteq Cards
    <2>1. mem' \in [Processes -> Memory] /\ mem'[p].marks = <<>>
      BY <1>2 DEF Starts
    <2>2. mem'[p] \in Memory
      BY <2>1
    <2> QED
      BY <1>2, <2>1, <2>2, EmptyIs DEF Starts, Memory
  <1>4. \A c \in Range(mem'[p].pending) \cup mem'[p].drops : c \in Cards /\ row[c].state = "QUEUED"
    BY <1>2, <1>3, RangeIs DEF Starts
  <1>5. TypeOK'
    BY <1>1, <1>2, <1>3 DEF TypeOK, Keeps
  <1>6. Messages' /\ InOrder' /\ SentOnce' /\ RowsTrue'
    BY <1>1, <1>2, <1>3, KeepsMessages, KeepsOrder, KeepsRows DEF Keeps
  <1>7. Waiting'
    <2>1. \A q \in Processes : q # p => Orderly(q)'
      <3>1. made' >= made /\ made' \in Nat
        BY <1>1, <1>2 DEF TypeOK
      <3> QED
        BY <1>1, <1>2, <1>3, <3>1, OthersWait DEF Keeps
    <2>2. Orderly(p)'
      <3>1. \A c \in Range(mem'[p].pending) \cup Range(mem'[p].marks) \cup mem'[p].drops : c <= made'
        BY <1>1, <1>2, <1>3, <1>4 DEF Waiting
      <3>2. \A c \in mem'[p].saved : row'[c].state # "NONE"
        BY <1>2, <1>4 DEF Starts
      <3> QED
        BY <1>2, <1>3, <3>1, <3>2 DEF Starts, Orderly
    <2> QED
      BY <1>1, <1>2, <2>1, <2>2 DEF Waiting
  <1>8. Whole' => /\ Whole /\ "journal" \notin harm'
                  /\ \A q \in Processes : ~Running(q) /\ mem[q] = Off
                  /\ \A q \in Processes : q # p => mem'[q] = Off
    <2> SUFFICES ASSUME Whole'
                 PROVE  /\ Whole /\ "journal" \notin harm'
                        /\ \A q \in Processes : ~Running(q) /\ mem[q] = Off
                        /\ \A q \in Processes : q # p => mem'[q] = Off
      OBVIOUS
    <2>1. \A q \in Processes : ~Running(q)
      BY <1>2 DEF Whole
    <2>2. \A q \in Processes : mem[q] = Off
      BY <1>1, <2>1 DEF Waiting, Orderly, Running
    <2>3. \A q \in Processes : q # p => mem'[q] = Off
      BY <1>3, <2>2 DEF Others
    <2> QED
      BY <1>2, <2>1, <2>2, <2>3, Milder DEF Whole
  <1>9. Journaled'
    <2> SUFFICES ASSUME Whole' PROVE /\ Alone' /\ (\A q \in Processes : Held(q)' /\ Marking(q)')
                                     /\ \A i \in DOMAIN sent' : SentRows(i)'
      BY DEF Journaled
    <2>1. Alone' /\ \A q \in Processes : q # p => Held(q)' /\ Marking(q)'
      BY <1>8, OffHolds DEF Alone
    <2>2. Held(p)'
      BY <1>2, <1>3, <1>4, <1>8 DEF Starts, Held
    <2>3. Marking(p)'
      BY <1>3 DEF Marking
    <2>4. ASSUME NEW i \in DOMAIN sent' PROVE SentRows(i)'
      <3>1. i \in DOMAIN sent /\ sent'[i].cards = sent[i].cards
        BY <1>3 DEF Keeps
      <3>2. SentRows(i)
        BY <1>1, <1>8, <3>1 DEF Journaled
      <3> QED
        BY <1>2, <3>1, <3>2 DEF SentRows, Holds
    <2> QED
      BY <2>1, <2>2, <2>3, <2>4
  <1>10. Calm'
    <2>1. Running(p)'
      BY <1>3 DEF Running
    <2> SUFFICES ASSUME harm' = {} PROVE \A q \in Processes : Unanswered(q)'
      BY <2>1 DEF Calm
    <2>2. /\ harm = {} /\ Whole /\ Whole' /\ (\A q \in Processes : ~Running(q))
          /\ \A q \in Processes : q # p => Unanswered(q)'
      BY <1>2, <1>8, Milder, OffHolds
    <2>3. /\ mem'[p].drops = {}
          /\ \A c \in Cards : row[c].state = "QUEUED" => c \in Range(mem'[p].pending)
      BY <1>2 DEF Starts
    <2>4. ASSUME NEW i \in DOMAIN sent, NEW c \in Range(mem'[p].pending), Holds(i, c)
          PROVE  Head(sent[i].cards) = Head(mem'[p].pending)
      <3> DEFINE x == Head(sent[i].cards)
                 y == Head(mem'[p].pending)
      <3>1. row[c].state = "QUEUED" /\ c \in Range(sent[i].cards)
        BY <1>4, <2>4 DEF Holds
      <3>2. row[x].state = "QUEUED"
        BY <1>1, <2>2, <3>1 DEF Calm
      <3>3. x \in Cards /\ Holds(i, x) /\ x \in Range(mem'[p].pending)
            /\ Last(sent[i].cards) \in Cards /\ x <= Last(sent[i].cards)
            /\ \A d : Holds(i, d) => x <= d
        BY <1>1, <2>3, <3>2, MessageIs
      <3>4. mem'[p].pending # <<>> /\ y \in Range(mem'[p].pending) /\ y <= x
        <4>1. mem'[p].pending # <<>>
          BY <3>3, EmptyIs
        <4>2. Increasing(mem'[p].pending)
          BY <1>2 DEF Starts
        <4> QED
          BY <1>3, <3>3, <4>1, <4>2, CardsNat, Bounds
      <3>5. y \in Cards /\ row[y].state = "QUEUED"
        BY <1>4, <3>4
      <3>6. Holds(i, y) \/ Last(sent[i].cards) < y
        BY <1>1, <2>2, <3>5 DEF Journaled, SentRows
      <3>7. x \in Nat /\ y \in Nat /\ Last(sent[i].cards) \in Nat
        BY <3>3, <3>5, CardsNat
      <3>8. x <= y
        BY <3>3, <3>6, <3>7
      <3> QED
        BY <3>4, <3>7, <3>8
    <2>5. Unanswered(p)'
      BY <1>3, <2>4 DEF Unanswered, Keeps, Holds
    <2> QED
      BY <2>2, <2>5
  <1>11. Kept'
    <2> SUFFICES ASSUME harm' \subseteq {"crash"}
                 PROVE  /\ \A q \in Processes : Closing(q)'
                        /\ \A i \in DOMAIN sent' : sent'[i].shown =>
                              FirstRow(i)' /\ \A q \in Processes : Keeping(q, i)'
      BY DEF Kept
    <2>1. /\ harm \subseteq {"crash"} /\ Whole /\ Whole' /\ "journal" \notin harm' /\ "stale" \notin harm'
          /\ \A q \in Processes : q # p => Closing(q)' /\ \A i : Keeping(q, i)'
      BY <1>2, <1>8, Milder, OffHolds
    <2>2. Closing(p)'
      <3>1. mem'[p].drops = {}
        BY <1>2, <2>1 DEF Starts
      <3>2. \A i \in mem'[p].gone \cap DOMAIN sent' : ~sent'[i].shown
        BY <1>2 DEF Starts, Keeps
      <3> QED
        BY <1>3, <3>1, <3>2 DEF Closing
    <2>3. ASSUME NEW i \in DOMAIN sent', sent'[i].shown
          PROVE  FirstRow(i)' /\ Keeping(p, i)'
      <3>1. i \in DOMAIN sent /\ sent[i].shown /\ sent'[i].cards = sent[i].cards /\ i \notin mem'[p].gone
        BY <1>2, <2>3 DEF Starts, Keeps
      <3>2. FirstRow(i) /\ Head(sent[i].cards) \in Cards
        BY <1>1, <2>1, <3>1, MessageIs DEF Kept
      <3>3. row[Head(sent[i].cards)].state = "SHOWN" =>
               row[Head(sent[i].cards)].msg = i /\ i \in Ids(mem'[p].window) \cup mem'[p].orphans
        BY <1>2, <2>1, <3>1, <3>2 DEF Starts, FirstRow
      <3> QED
        BY <1>2, <3>1, <3>2, <3>3 DEF FirstRow, Keeping
    <2> QED
      BY <2>1, <2>2, <2>3
  <1> QED
    BY <1>5, <1>6, <1>7, <1>9, <1>10, <1>11 DEF FeedInv

-----------------------------------------------------------------------------
(* The theorems.                                                           *)

LEMMA InitInv == Init => FeedInv
  <1> SUFFICES ASSUME Init PROVE FeedInv
    OBVIOUS
  <1>1. /\ made = 0 /\ sent = <<>> /\ forgot = 0 /\ harm = {} /\ refused \in Refusals
        /\ used = [starts |-> 0, mishaps |-> 0]
        /\ mem = [p \in Processes |-> Off] /\ row = [c \in Cards |-> [state |-> "NONE", msg |-> 0]]
    BY DEF Init
  <1>2. Len(sent) = 0 /\ DOMAIN sent = {} /\ sent \in Seq([cards : Seq(Cards), shown : BOOLEAN])
    BY <1>1
  <1>3. \A c \in Cards : row[c].state = "NONE"
    BY <1>1
  <1>4. TypeOK
    <2>1. made \in 0..MaxCards /\ refused \subseteq Cards
      BY <1>1, CardsNat, FeedAssumption DEF Cards
    <2>2. mem \in [Processes -> Memory]
      BY <1>1, OffIs
    <2>3. row \in [Cards -> [state : States, msg : Nat]]
      BY <1>1 DEF States
    <2>4. forgot \in 0..Len(sent) /\ used \in [starts : Nat, mishaps : Nat]
      BY <1>1, <1>2
    <2> QED
      BY <1>1, <1>2, <2>1, <2>2, <2>3, <2>4 DEF TypeOK
  <1>5. Messages /\ InOrder /\ SentOnce /\ RowsTrue
    BY <1>1, <1>2, <1>3 DEF Messages, InOrder, SentOnce, RowsTrue
  <1>6. Waiting
    <2>1. \A p \in Processes : Orderly(p)
      BY <1>1, OffIs, EmptyIs DEF Orderly
    <2> QED
      BY <1>3, <2>1 DEF Waiting
  <1>7. ASSUME NEW p \in Processes
        PROVE  Held(p) /\ Marking(p) /\ Unanswered(p) /\ Closing(p) /\ ~Running(p)
    <2>1. /\ mem[p].pc = "off" /\ mem[p].pending = <<>> /\ mem[p].marks = <<>>
          /\ mem[p].drops = {} /\ mem[p].gone = {}
      BY <1>1, OffIs
    <2>2. Range(mem[p].pending) = {} /\ Range(mem[p].marks) = {}
      BY <2>1, EmptyIs
    <2> QED
      BY <2>1, <2>2 DEF Held, Marking, Unanswered, Closing, Running
  <1>8. Journaled /\ Calm /\ Kept
    BY <1>2, <1>7 DEF Journaled, Alone, Calm, Kept
  <1> QED
    BY <1>4, <1>5, <1>6, <1>8 DEF FeedInv

LEMMA PassStep ==
  ASSUME FeedInv, NEW p \in Processes, Pass(p)
  PROVE  FeedInv'
  <1>1. TypeOK /\ Waiting
    BY DEF FeedInv
  <1>2. ASSUME NEW final \in BOOLEAN, NEW failed \in SUBSET mem[p].orphans, RetryOrphans(p, final, failed)
        PROVE  FeedInv'
    BY <1>1, <1>2, RetryEffect, QuietStep
  <1>3. ASSUME NEW n \in 1..Len(mem[p].window), NEW failed \in SUBSET Ids(mem[p].window),
               ExpireImmediate(p, n, failed)
        PROVE  FeedInv'
    BY <1>1, <1>3, ExpireEffect, QuietStep
  <1>4. CASE JournalPending(p)
    BY <1>4, RecordStep
  <1>5. CASE JournalPosted(p)
    BY <1>5, PostedStep
  <1>6. CASE JournalRemoved(p)
    BY <1>6, RemovedStep
  <1>7. CASE JournalDropped(p)
    BY <1>7, DroppedStep
  <1>8. CASE StopPass(p)
    BY <1>1, <1>8, StopEffect, QuietStep
  <1>9. ASSUME NEW failed \in SUBSET Ids(mem[p].window), MakeRoom(p, failed)
        PROVE  FeedInv'
    BY <1>1, <1>9, MakeRoomEffect, QuietStep
  <1>10. CASE SendGroup(p)
    BY <1>10, SendStep
  <1>11. CASE LoseAnswer(p)
    BY <1>11, LoseStep
  <1>12. CASE SendFails(p)
    BY <1>1, <1>12, FailEffect, QuietStep
  <1>13. CASE Reject(p)
    <2>1. CASE mem[p].group > 1
      BY <1>1, <1>13, <2>1, RejectGroupEffect, QuietStep
    <2>2. CASE ~(mem[p].group > 1)
      BY <1>1, <1>13, <2>2, RejectOneEffect, CutsStep
    <2> QED
      BY <2>1, <2>2
  <1>14. CASE BoundPending(p)
    BY <1>1, <1>14, BoundEffect, CutsStep
  <1> QED
    BY <1>2, <1>3, <1>4, <1>5, <1>6, <1>7, <1>8, <1>9, <1>10, <1>11, <1>12, <1>13, <1>14 DEF Pass

LEMMA StepInv == FeedInv /\ [Next]_vars => FeedInv'
  <1> SUFFICES ASSUME FeedInv, [Next]_vars PROVE FeedInv'
    OBVIOUS
  <1>1. ASSUME NEW p \in Processes, EnqueueTimed(p) \/ Pass(p) \/ Start(p) \/ Exit(p) \/ Crash(p)
        PROVE  FeedInv'
    BY <1>1, EnqueueStep, PassStep, StartStep, LeaveStep
  <1>2. CASE Forget
    BY <1>2, ForgetStep
  <1>3. CASE UNCHANGED vars
    <2>1. UNCHANGED <<made, mem, row, sent, forgot, refused, used, harm>>
      BY <1>3 DEF vars
    <2>2. TypeOK' /\ Messages' /\ Waiting'
      BY <2>1 DEF FeedInv, TypeOK, Messages, Waiting, Orderly
    <2>3. Journaled'
      BY <2>1 DEF FeedInv, Journaled, Whole, Alone, Held, Marking, SentRows, Running, Holds
    <2>4. RowsTrue' /\ InOrder' /\ SentOnce'
      BY <2>1 DEF FeedInv, RowsTrue, InOrder, SentOnce, Holds
    <2>5. Calm' /\ Kept'
      BY <2>1 DEF FeedInv, Calm, Unanswered, Kept, Closing, FirstRow, Keeping, Running, Holds
    <2> QED
      BY <2>2, <2>3, <2>4, <2>5 DEF FeedInv
  <1> QED
    BY <1>1, <1>2, <1>3 DEF Next

\* The feed's inductive invariant holds in every state.
THEOREM FeedSafe == Spec => []FeedInv
  BY InitInv, StepInv, PTL DEF Spec

\* Every variable keeps its type: a process holds cards and messages, rows are
\* in one of the journal's states, and what was forgotten is among the messages
\* sent (RotatingFeed, FeedJournal and the discord_feed_cards table).
THEOREM FeedTypes == Spec => []TypeOK
  <1>1. FeedInv => TypeOK
    BY DEF FeedInv
  <1> QED
    BY <1>1, FeedSafe, PTL

\* A card goes out once while nothing worse than a crash happens, and after a
\* crash only a card that did not head its message goes out again (sendGroup,
\* its nonce, and the replay by restoreJournal).
THEOREM SentOnceSafe == Spec => []SentOnce
  <1>1. FeedInv => SentOnce
    BY DEF FeedInv
  <1> QED
    BY <1>1, FeedSafe, PTL

\* While the journal took every card that was sent and no two processes ran, a
\* row that says that its card was shown names a message that holds it
\* (journalPosted, MarkPosted).
THEOREM RowsSafe == Spec => []RowsTrue
  <1>1. FeedInv => RowsTrue
    BY DEF FeedInv
  <1> QED
    BY <1>1, FeedSafe, PTL

\* Cards appear for the first time in the order they were queued, whatever was
\* lost, crashed, forgotten or dropped (postImmediate, Open).
THEOREM OrderSafe == Spec => []InOrder
  <1>1. FeedInv => InOrder
    BY DEF FeedInv
  <1> QED
    BY <1>1, FeedSafe, PTL

\* The invariant keeps every message of the channel within reach.
LEMMA Reached == FeedInv => Tracked
  <1> SUFFICES ASSUME FeedInv, harm \subseteq {"crash"}, NEW i \in DOMAIN sent, sent[i].shown
               PROVE  \/ \E p \in Processes : i \in Ids(mem[p].window) \cup mem[p].orphans
                      \/ \E p \in Processes : /\ mem[p].pending # <<>>
                                              /\ Head(mem[p].pending) = Head(sent[i].cards)
                      \/ /\ \A p \in Processes : ~Running(p)
                         /\ \E c \in Range(sent[i].cards) :
                              \/ row[c] = [state |-> "SHOWN", msg |-> i]
                              \/ row[c].state = "QUEUED" /\ c = Head(sent[i].cards)
    BY DEF Tracked
  <1> DEFINE x == Head(sent[i].cards)
  <1>1. TypeOK /\ Messages /\ Waiting /\ Journaled /\ Kept
    BY DEF FeedInv
  <1>2. FirstRow(i) /\ \A p \in Processes : Keeping(p, i) /\ Closing(p)
    BY <1>1 DEF Kept
  <1>3. Whole /\ \A p \in Processes : Held(p)
    BY <1>1 DEF Whole, Journaled
  <1>4. x \in Range(sent[i].cards) /\ x \in Cards /\ x \notin refused
    BY <1>1, MessageIs DEF Holds
  <1>5. CASE \A p \in Processes : ~Running(p)
    BY <1>2, <1>4, <1>5 DEF FirstRow
  <1>6. ASSUME NEW p \in Processes, Running(p)
        PROVE  \/ i \in Ids(mem[p].window) \cup mem[p].orphans
               \/ mem[p].pending # <<>> /\ Head(mem[p].pending) = x
    <2>1. CASE row[x].state = "SHOWN"
      BY <1>2, <1>6, <2>1 DEF Keeping
    <2>2. CASE row[x].state = "QUEUED"
      <3>1. x \in Range(mem[p].pending) \cup Range(mem[p].marks) \cup mem[p].drops
        BY <1>3, <1>4, <1>6, <2>2 DEF Held
      <3>2. CASE x \in Range(mem[p].pending)
        BY <1>1, <1>3, <3>2, HeadsWait, EmptyIs
      <3>3. CASE x \in Range(mem[p].marks)
        <4>1. mem[p].marks # <<>>
          BY <3>3, EmptyIs
        <4> QED
          BY <1>2, <3>3, <4>1 DEF Closing
      <3>4. x \notin mem[p].drops
        BY <1>2, <1>4 DEF Closing
      <3> QED
        BY <3>1, <3>2, <3>3, <3>4
    <2> QED
      BY <1>2, <2>1, <2>2 DEF FirstRow
  <1> QED
    BY <1>5, <1>6

\* While nothing worse than a crash happens, every message in the channel is one
\* the feed will delete: a process holds it or will get it as the answer to the
\* nonce of its next card, or the journal leads the next process to it
\* (restoreJournal, postImmediate, makeRoom).
THEOREM TrackedSafe == Spec => []Tracked
  BY FeedSafe, Reached, PTL

-----------------------------------------------------------------------------
(* The channel's capacity.                                                 *)

\* The room a process has made, and what its window counts for a message.
RoomFor(p) ==
    /\ mem[p].pc = "send" => mem[p].orphans = {} /\ mem[p].group + CardsIn(mem[p].window) <= MaxItems
    /\ \A w \in Range(mem[p].window) :
          w.msg \in DOMAIN sent /\ (sent[w.msg].shown => Len(sent[w.msg].cards) <= w.cards)
    /\ \A c \in Range(mem[p].marks) : row[c].state = "QUEUED"

\* All the cards of a message are marked, but for those that are being marked,
\* or none is.
Marked(i) ==
    \A c \in Range(sent[i].cards) :
        \/ row[c] = [state |-> "SHOWN", msg |-> i]
        \/ /\ row[c].state = "QUEUED"
           /\ \/ row[Head(sent[i].cards)].state = "QUEUED"
              \/ \E p \in Processes : c \in Range(mem[p].marks)

Room ==
    harm = {} =>
        /\ VisibleCards <= MaxItems
        /\ \A p \in Processes : RoomFor(p)
        /\ \A i \in DOMAIN sent : sent[i].shown => Marked(i)

\* The cards that are seen in the channel.
Seen == UNION {{i} \X DOMAIN sent[i].cards : i \in {n \in DOMAIN sent : sent[n].shown}}

SeenFacts ==
    /\ IsFiniteSet(Seen) /\ VisibleCards = Cardinality(Seen) /\ VisibleCards \in Nat
    /\ \A i, t : <<i, t>> \in Seen <=> i \in DOMAIN sent /\ sent[i].shown /\ t \in 1..Len(sent[i].cards)
    /\ \A x \in Seen : x = <<x[1], x[2]>>

LEMMA SeenIs == TypeOK => SeenFacts
  <1> SUFFICES ASSUME TypeOK PROVE SeenFacts
    OBVIOUS
  <1> DEFINE I == {n \in DOMAIN sent : sent[n].shown}
             f == [i \in I |-> {i} \X DOMAIN sent[i].cards]
             T == {{i} \X DOMAIN sent[i].cards : i \in I}
  <1>1. /\ Len(sent) \in Nat /\ DOMAIN sent = 1..Len(sent)
        /\ \A i \in DOMAIN sent : sent[i].cards \in Seq(Cards)
    BY SentIs
  <1>2. \A i \in DOMAIN sent : DOMAIN sent[i].cards = 1..Len(sent[i].cards) /\ Len(sent[i].cards) \in Nat
    BY <1>1, RangeIs
  <1>3. IsFiniteSet(I)
    <2>1. IsFiniteSet(DOMAIN sent)
      BY <1>1, FS_Interval
    <2>2. I \in SUBSET DOMAIN sent
      OBVIOUS
    <2> QED
      BY <2>1, <2>2, FS_Subset
  <1>4. f \in Surjection(I, T)
    BY DEF Surjection
  <1>5. IsFiniteSet(T)
    BY <1>3, <1>4, FS_Surjection
  <1>6. ASSUME NEW i \in I PROVE IsFiniteSet({i} \X DOMAIN sent[i].cards)
    <2>1. IsFiniteSet(DOMAIN sent[i].cards)
      <3>1. DOMAIN sent[i].cards = 1..Len(sent[i].cards) /\ Len(sent[i].cards) \in Int /\ 1 \in Int
        BY <1>2
      <3> QED
        BY <3>1, FS_Interval
    <2> QED
      BY <2>1, FS_Singleton, FS_Product
  <1>7. IsFiniteSet(UNION T)
    BY <1>5, <1>6, FS_UNION
  <1>8. IsFiniteSet(Seen) /\ VisibleCards = Cardinality(Seen)
    BY <1>7 DEF Seen, VisibleCards
  <1>9. \A x \in Seen : x = <<x[1], x[2]>>
    BY DEF Seen
  <1>10. ASSUME NEW i, NEW t
         PROVE  <<i, t>> \in Seen <=> i \in DOMAIN sent /\ sent[i].shown /\ t \in 1..Len(sent[i].cards)
    BY <1>2 DEF Seen
  <1> QED
    BY <1>8, <1>9, <1>10, FS_CardinalityType DEF SeenFacts

\* Deletions only make room.
LEMMA SeenLess ==
  ASSUME TypeOK, TypeOK', Keeps
  PROVE  VisibleCards' <= VisibleCards
  <1>1. /\ IsFiniteSet(Seen) /\ VisibleCards = Cardinality(Seen)
        /\ \A i, t : <<i, t>> \in Seen <=> i \in DOMAIN sent /\ sent[i].shown /\ t \in 1..Len(sent[i].cards)
    BY SeenIs DEF SeenFacts
  <1>2. /\ VisibleCards' = Cardinality(Seen')
        /\ \A i, t : <<i, t>> \in Seen' => i \in DOMAIN sent' /\ sent'[i].shown /\ t \in 1..Len(sent'[i].cards)
        /\ \A x \in Seen' : x = <<x[1], x[2]>>
    <2>1. SeenFacts'
      BY SeenIs, PTL
    <2> QED
      BY <2>1 DEF SeenFacts
  <1>3. ASSUME NEW x \in Seen' PROVE x \in Seen
    <2>1. x = <<x[1], x[2]>> /\ x[1] \in DOMAIN sent' /\ sent'[x[1]].shown /\ x[2] \in 1..Len(sent'[x[1]].cards)
      BY <1>2, <1>3
    <2>2. x[1] \in DOMAIN sent /\ sent[x[1]].shown /\ sent'[x[1]].cards = sent[x[1]].cards
      BY <2>1 DEF Keeps
    <2> QED
      BY <1>1, <2>1, <2>2
  <1> QED
    <2>1. Seen' \in SUBSET Seen
      BY <1>3
    <2> QED
      BY <1>1, <1>2, <2>1, FS_Subset

\* One more message.
LEMMA SeenMore ==
  ASSUME TypeOK, TypeOK', Waiting, NEW p \in Processes, At(p, "send"), Adds(p)
  PROVE  VisibleCards' <= VisibleCards + mem[p].group
  <1> DEFINE n == Len(sent) + 1
             G == {n} \X (1..mem[p].group)
  <1>1. /\ IsFiniteSet(Seen) /\ VisibleCards = Cardinality(Seen) /\ VisibleCards \in Nat
        /\ \A i, t : <<i, t>> \in Seen <=> i \in DOMAIN sent /\ sent[i].shown /\ t \in 1..Len(sent[i].cards)
    BY SeenIs DEF SeenFacts
  <1>2. /\ IsFiniteSet(Seen') /\ VisibleCards' = Cardinality(Seen')
        /\ \A i, t : <<i, t>> \in Seen' => i \in DOMAIN sent' /\ sent'[i].shown /\ t \in 1..Len(sent'[i].cards)
        /\ \A x \in Seen' : x = <<x[1], x[2]>>
    <2>1. SeenFacts'
      BY SeenIs, PTL
    <2> QED
      BY <2>1 DEF SeenFacts
  <1>3. /\ DOMAIN sent' = DOMAIN sent \cup {n}
        /\ \A i \in DOMAIN sent : sent'[i] = sent[i]
        /\ sent'[n].cards = Group(p)
    BY AddsIs
  <1>4. Len(Group(p)) = mem[p].group /\ mem[p].group \in Nat
    BY SendingIs, MemoryIs
  <1>5. IsFiniteSet(G) /\ Cardinality(G) = mem[p].group
    <2>1. IsFiniteSet(1..mem[p].group) /\ Cardinality(1..mem[p].group) = mem[p].group
      <3> DEFINE g == mem[p].group
      <3>1. g \in Nat /\ g \in Int /\ 1 \in Int
        BY <1>4
      <3> HIDE DEF g
      <3>2. IsFiniteSet(1..g) /\ Cardinality(1..g) = IF 1 > g THEN 0 ELSE g - 1 + 1
        BY <3>1, FS_Interval
      <3>3. Cardinality(1..g) = g
        BY <3>1, <3>2
      <3> QED
        BY <3>2, <3>3 DEF g
    <2>2. IsFiniteSet({n}) /\ Cardinality({n}) = 1
      BY FS_Singleton
    <2> HIDE DEF n
    <2>3. IsFiniteSet(G) /\ Cardinality(G) = Cardinality({n}) * Cardinality(1..mem[p].group)
      BY <2>1, <2>2, FS_Product
    <2> QED
      BY <1>4, <2>1, <2>2, <2>3
  <1> HIDE DEF n
  <1>6. Seen' \in SUBSET (Seen \cup G)
    BY <1>1, <1>2, <1>3, <1>4
  <1> HIDE DEF G
  <1>7. /\ IsFiniteSet(Seen \cup G)
        /\ Cardinality(Seen \cup G) = Cardinality(Seen) + Cardinality(G) - Cardinality(Seen \cap G)
    BY <1>1, <1>5, FS_Union
  <1>8. Cardinality(Seen \cap G) \in Nat
    <2>1. Seen \cap G \in SUBSET Seen
      OBVIOUS
    <2>2. IsFiniteSet(Seen \cap G)
      BY <1>1, <2>1, FS_Subset
    <2> QED
      BY <2>2, FS_CardinalityType
  <1>9. Cardinality(Seen') <= Cardinality(Seen \cup G)
    BY <1>6, <1>7, FS_Subset
  <1>10. Cardinality(Seen') \in Nat
    BY <1>2, FS_CardinalityType
  <1> QED
    BY <1>1, <1>2, <1>4, <1>5, <1>7, <1>8, <1>9, <1>10

\* What a window counts is enough for the messages it holds.
LEMMA SeenCounted ==
  ASSUME TypeOK, NEW w \in Windows,
         \A i \in DOMAIN sent : sent[i].shown =>
            \E k \in 1..Len(w) : w[k].msg = i /\ Len(sent[i].cards) <= w[k].cards
  PROVE  VisibleCards <= CardsIn(w)
  <1> DEFINE place(i) == CHOOSE k \in 1..Len(w) : w[k].msg = i /\ Len(sent[i].cards) <= w[k].cards
             f == [x \in Seen |-> <<place(x[1]), x[2]>>]
  <1>1. /\ VisibleCards = Cardinality(Seen)
        /\ \A i, t : <<i, t>> \in Seen => i \in DOMAIN sent /\ sent[i].shown /\ t \in 1..Len(sent[i].cards)
        /\ \A x \in Seen : x = <<x[1], x[2]>>
    BY SeenIs DEF SeenFacts
  <1>2. IsFiniteSet(Slots(w)) /\ CardsIn(w) = Cardinality(Slots(w))
    BY SlotsFinite
  <1>3. \A i \in DOMAIN sent : sent[i].shown =>
           place(i) \in 1..Len(w) /\ w[place(i)].msg = i /\ Len(sent[i].cards) <= w[place(i)].cards
    OBVIOUS
  <1> HIDE DEF place
  <1>4. DOMAIN w = 1..Len(w) /\ \A k \in 1..Len(w) : w[k].cards \in Nat
    BY WindowIs
  <1>5. \A i \in DOMAIN sent : Len(sent[i].cards) \in Nat
    BY SentIs, RangeIs
  <1>6. ASSUME NEW x \in Seen PROVE f[x] \in Slots(w) /\ f[x][1] = place(x[1]) /\ w[f[x][1]].msg = x[1] /\ f[x][2] = x[2]
    <2>1. x[1] \in DOMAIN sent /\ sent[x[1]].shown /\ x[2] \in 1..Len(sent[x[1]].cards)
      BY <1>1, <1>6
    <2>2. /\ place(x[1]) \in 1..Len(w) /\ w[place(x[1])].msg = x[1]
          /\ Len(sent[x[1]].cards) <= w[place(x[1])].cards
      BY <1>3, <2>1
    <2>3. x[2] \in 1..w[place(x[1])].cards
      BY <1>4, <1>5, <2>1, <2>2
    <2>4. f[x] = <<place(x[1]), x[2]>>
      OBVIOUS
    <2>5. f[x] \in {place(x[1])} \X (1..w[place(x[1])].cards)
      BY <2>3, <2>4
    <2> QED
      BY <1>4, <2>2, <2>4, <2>5 DEF Slots
  <1>7. f \in [Seen -> Slots(w)]
    BY <1>6
  <1>8. ASSUME NEW x \in Seen, NEW y \in Seen, f[x] = f[y] PROVE x = y
    BY <1>1, <1>6, <1>8
  <1> HIDE DEF f
  <1>9. f \in Injection(Seen, Slots(w))
    BY <1>7, <1>8 DEF Injection, IsInjective
  <1> QED
    BY <1>1, <1>2, <1>9, FS_Injection

-----------------------------------------------------------------------------
(* Windows and the steps that leave the rows alone.                        *)

LEMMA CutEntries ==
  ASSUME NEW w \in Windows, NEW k \in 0..Len(w)
  PROVE  Range(SubSeq(w, k + 1, Len(w))) \subseteq Range(w)
  <1> DEFINE r == SubSeq(w, k + 1, Len(w))
  <1>1. w \in Seq([msg : Nat, cards : Nat]) /\ k \in Nat /\ Len(w) \in Nat /\ DOMAIN w = 1..Len(w)
    BY WindowIs
  <1>2. /\ r \in Seq([msg : Nat, cards : Nat]) /\ Len(r) = Len(w) - k
        /\ \A i \in 1..(Len(w) - k) : r[i] = w[k + i]
    BY <1>1, Cut
  <1> HIDE DEF r
  <1>3. ASSUME NEW x \in Range(r) PROVE x \in Range(w)
    <2>1. PICK i \in 1..Len(r) : r[i] = x
      BY <1>2, <1>3, RangeIs
    <2>2. i \in 1..(Len(w) - k) /\ w[k + i] = x
      BY <1>2, <2>1
    <2>3. k + i \in 1..Len(w)
      BY <1>1, <2>2
    <2> QED
      BY <1>1, <2>2, <2>3 DEF Range
  <1> QED
    BY <1>3 DEF r

LEMMA AppendEntries ==
  ASSUME NEW w \in Windows, NEW x \in [msg : Nat, cards : Nat]
  PROVE  Range(Append(w, x)) = Range(w) \cup {x}
  <1>1. w \in Seq([msg : Nat, cards : Nat]) /\ Len(w) \in Nat /\ DOMAIN w = 1..Len(w)
    BY WindowIs
  <1>2. /\ DOMAIN Append(w, x) = 1..(Len(w) + 1) /\ Append(w, x)[Len(w) + 1] = x
        /\ \A i \in 1..Len(w) : Append(w, x)[i] = w[i]
    BY <1>1
  <1>3. 1..(Len(w) + 1) = 1..Len(w) \cup {Len(w) + 1}
    BY <1>1
  <1> QED
    BY <1>1, <1>2, <1>3 DEF Range

\* The window without some messages, and how many cards it counts when the
\* first k are among them.
LEMMA WithoutEntries ==
  ASSUME NEW w \in Windows, NEW D
  PROVE  /\ Range(Without(w, D)) \subseteq Range(w)
         /\ \A k \in 0..Len(w) : Ids(SubSeq(w, 1, k)) \subseteq D =>
               CardsIn(Without(w, D)) <= CardsIn(SubSeq(w, k + 1, Len(w)))
  <1> DEFINE K == {i \in DOMAIN w : w[i].msg \notin D}
             left == Ascending(K)
             v == [j \in DOMAIN left |-> w[left[j]]]
  <1>0. w \in Seq([msg : Nat, cards : Nat]) /\ Len(w) \in Nat /\ DOMAIN w = 1..Len(w)
    BY WindowIs
  <1>1. K \in SUBSET (1..Len(w)) /\ \A i \in K : w[i].msg \notin D
    BY <1>0
  <1>2. left \in Seq(K) /\ Increasing(left)
    BY <1>0, <1>1, AscendingProps
  <1>3. Without(w, D) = v
    BY DEF Without
  <1> HIDE DEF left, K
  <1>4. /\ DOMAIN left = 1..Len(left) /\ Len(left) \in Nat
        /\ \A j \in 1..Len(left) : left[j] \in K /\ left[j] \in 1..Len(w)
    BY <1>1, <1>2, RangeIs
  <1>5. \A i, j \in 1..Len(left) : left[i] = left[j] => i = j
    <2>1. left \in Seq(Nat)
      <3>1. \A j \in 1..Len(left) : left[j] \in Nat
        BY <1>0, <1>4
      <3> QED
        BY <1>2, <1>4, <3>1
    <2> QED
      BY <1>2, <2>1, IncreasingSeq
  <1>6. Range(v) \subseteq Range(w)
    BY <1>0, <1>4 DEF Range
  <1>7. v \in Windows
    BY <1>3, WithoutProps
  <1>8. ASSUME NEW k \in 0..Len(w), Ids(SubSeq(w, 1, k)) \subseteq D
        PROVE  CardsIn(v) <= CardsIn(SubSeq(w, k + 1, Len(w)))
    <2> DEFINE r == SubSeq(w, k + 1, Len(w))
               f == [x \in Slots(v) |-> <<left[x[1]] - k, x[2]>>]
    <2>0. k \in Nat /\ k <= Len(w)
      BY <1>0, <1>8
    <2>1. \A i \in 1..k : w[i].msg \in D
      <3>1. /\ SubSeq(w, 1, k) \in Seq([msg : Nat, cards : Nat]) /\ Len(SubSeq(w, 1, k)) = k
            /\ \A i \in 1..k : SubSeq(w, 1, k)[i] = w[i]
        BY <1>0, Cut
      <3>2. DOMAIN SubSeq(w, 1, k) = 1..k
        BY <3>1
      <3> QED
        BY <1>8, <3>1, <3>2 DEF Ids
    <2>2. ASSUME NEW j \in 1..Len(left) PROVE left[j] > k
      <3>1. left[j] \in K /\ left[j] \in 1..Len(w) /\ left[j] \in Nat
        BY <1>0, <1>4
      <3>2. left[j] \notin 1..k
        BY <1>1, <2>1, <3>1
      <3> QED
        BY <2>0, <3>1, <3>2
    <2>3. r \in Windows /\ Len(r) = Len(w) - k /\ \A i \in 1..(Len(w) - k) : r[i] = w[k + i]
      BY <1>0, Cut DEF Windows
    <2> HIDE DEF r
    <2>4. DOMAIN v = 1..Len(left) /\ \A j \in 1..Len(left) : v[j] = w[left[j]]
      BY <1>4
    <2> HIDE DEF v
    <2>5. \A x \in Slots(v) : x = <<x[1], x[2]>> /\ x[1] \in 1..Len(left) /\ x[2] \in 1..v[x[1]].cards
      BY <2>4 DEF Slots
    <2>6. ASSUME NEW x \in Slots(v)
          PROVE  f[x] \in Slots(r) /\ f[x] = <<left[x[1]] - k, x[2]>>
      <3>1. x[1] \in 1..Len(left) /\ x[2] \in 1..v[x[1]].cards
        BY <2>5
      <3>2. left[x[1]] \in 1..Len(w) /\ left[x[1]] > k
        BY <1>4, <2>2, <3>1
      <3>3. left[x[1]] - k \in 1..(Len(w) - k) /\ k + (left[x[1]] - k) = left[x[1]]
        BY <1>0, <2>0, <3>2
      <3>4. r[left[x[1]] - k] = v[x[1]]
        BY <2>3, <2>4, <3>1, <3>3
      <3>5. DOMAIN r = 1..(Len(w) - k)
        BY <2>3, WindowIs
      <3>6. <<left[x[1]] - k, x[2]>> \in {left[x[1]] - k} \X (1..r[left[x[1]] - k].cards)
        BY <3>1, <3>4
      <3> QED
        BY <3>3, <3>5, <3>6 DEF Slots
    <2>7. f \in [Slots(v) -> Slots(r)]
      BY <2>6
    <2>8. ASSUME NEW x \in Slots(v), NEW y \in Slots(v), f[x] = f[y] PROVE x = y
      <3>1. /\ x = <<x[1], x[2]>> /\ y = <<y[1], y[2]>> /\ x[1] \in 1..Len(left) /\ y[1] \in 1..Len(left)
            /\ x[2] = y[2] /\ left[x[1]] - k = left[y[1]] - k
        BY <2>5, <2>6, <2>8
      <3>2. left[x[1]] \in Nat /\ left[y[1]] \in Nat
        BY <1>0, <1>4, <3>1
      <3>3. left[x[1]] = left[y[1]]
        BY <2>0, <3>1, <3>2
      <3> QED
        BY <1>5, <3>1, <3>3
    <2> HIDE DEF f
    <2>9. f \in Injection(Slots(v), Slots(r))
      BY <2>7, <2>8 DEF Injection, IsInjective
    <2>10. IsFiniteSet(Slots(r)) /\ CardsIn(r) = Cardinality(Slots(r)) /\ CardsIn(v) = Cardinality(Slots(v))
      BY <1>7, <2>3, SlotsFinite
    <2>11. CardsIn(v) <= CardsIn(r)
      BY <2>9, <2>10, FS_Injection
    <2> QED
      BY <2>11 DEF r
  <1> QED
    BY <1>3, <1>6, <1>8

\* A step of p that neither marks a card nor sends one.
Eases(p) ==
    /\ Others(p) /\ Keeps /\ UNCHANGED row /\ harm \subseteq harm'
    /\ mem'[p].marks = mem[p].marks
    /\ Range(mem'[p].window) \subseteq Range(mem[p].window)
    /\ mem'[p].pc = "send" =>
          \/ /\ mem[p].pc = "send" /\ SameWindow(p)
             /\ mem'[p].group = mem[p].group
          \/ mem'[p].orphans = {} /\ mem'[p].group + CardsIn(mem'[p].window) <= MaxItems

LEMMA EasesRoom ==
  ASSUME TypeOK, TypeOK', Room, NEW p \in Processes, Eases(p)
  PROVE  Room'
  <1> SUFFICES ASSUME harm' = {}
               PROVE  /\ (VisibleCards <= MaxItems)'
                      /\ \A q \in Processes : RoomFor(q)'
                      /\ \A i \in DOMAIN sent' : sent'[i].shown => Marked(i)'
    BY DEF Room
  <1>1. /\ Others(p) /\ Keeps /\ UNCHANGED row /\ harm = {}
        /\ mem'[p].marks = mem[p].marks
        /\ Range(mem'[p].window) \subseteq Range(mem[p].window)
    BY DEF Eases
  <1>2. /\ VisibleCards <= MaxItems
        /\ \A q \in Processes : RoomFor(q)
        /\ \A i \in DOMAIN sent : sent[i].shown => Marked(i)
    BY <1>1 DEF Room
  <1>3. (VisibleCards <= MaxItems)'
    <2>1. VisibleCards' <= VisibleCards
      BY <1>1, SeenLess
    <2>2. VisibleCards \in Nat /\ VisibleCards' \in Nat
      <3>1. SeenFacts /\ SeenFacts'
        BY SeenIs, PTL
      <3> QED
        BY <3>1 DEF SeenFacts
    <2>3. MaxItems \in Nat
      BY FeedAssumption
    <2> QED
      BY <1>2, <2>1, <2>2, <2>3
  <1>4. \A q \in Processes : mem'[q].marks = mem[q].marks /\ Range(mem'[q].window) \subseteq Range(mem[q].window)
    BY <1>1 DEF Others
  <1>5. ASSUME NEW q \in Processes PROVE RoomFor(q)'
    <2>1. mem'[q].pc = "send" => mem'[q].orphans = {} /\ mem'[q].group + CardsIn(mem'[q].window) <= MaxItems
      <3>1. CASE q = p
        BY <1>2, <3>1 DEF Eases, SameWindow, RoomFor
      <3>2. CASE q # p
        <4>1. mem'[q] = mem[q]
          BY <1>1, <3>2 DEF Others
        <4> QED
          BY <1>2, <4>1 DEF RoomFor
      <3> QED
        BY <3>1, <3>2
    <2>2. \A w \in Range(mem'[q].window) :
             w.msg \in DOMAIN sent' /\ (sent'[w.msg].shown => Len(sent'[w.msg].cards) <= w.cards)
      BY <1>1, <1>2, <1>4 DEF RoomFor, Keeps
    <2>3. \A c \in Range(mem'[q].marks) : row'[c].state = "QUEUED"
      BY <1>1, <1>2, <1>4 DEF RoomFor
    <2> QED
      BY <2>1, <2>2, <2>3 DEF RoomFor, CardsIn
  <1>6. ASSUME NEW i \in DOMAIN sent', sent'[i].shown PROVE Marked(i)'
    <2>1. i \in DOMAIN sent /\ sent[i].shown /\ sent'[i].cards = sent[i].cards
      BY <1>1, <1>6 DEF Keeps
    <2> QED
      BY <1>1, <1>2, <1>4, <2>1 DEF Marked
  <1> QED
    BY <1>3, <1>5, <1>6

LEMMA SameEntries ==
  ASSUME NEW p \in Processes, SameWindow(p)
  PROVE  Range(mem'[p].window) \subseteq Range(mem[p].window)
  BY DEF SameWindow

LEMMA QuietIs ==
  ASSUME TypeOK, NEW p \in Processes, Quiet(p)
  PROVE  /\ Others(p) /\ Keeps /\ UNCHANGED row /\ harm \subseteq harm' /\ mem'[p].marks = mem[p].marks
  BY DEF Quiet, SameCards

LEMMA EnqueueEases ==
  ASSUME TypeOK, NEW p \in Processes, EnqueueTimed(p)
  PROVE  Eases(p)
  <1>1. /\ Others(p) /\ SameWindow(p) /\ mem'[p].pc = mem[p].pc /\ mem'[p].group = mem[p].group
        /\ mem'[p].marks = mem[p].marks /\ UNCHANGED <<row, discord, used, harm>>
    BY EnqueueEffect
  <1>2. Keeps
    BY <1>1, KeepsSame DEF discord
  <1> QED
    BY <1>1, <1>2, SameEntries DEF Eases

LEMMA RetryEases ==
  ASSUME TypeOK, NEW p \in Processes, NEW final \in BOOLEAN, NEW failed \in SUBSET mem[p].orphans,
         RetryOrphans(p, final, failed)
  PROVE  Eases(p)
  <1>1. Quiet(p)
    BY RetryEffect
  <1>2. mem'[p].pc = "record" /\ mem'[p].window = mem[p].window
    <2>1. mem'[p] = [mem[p] EXCEPT !.pc = "record", !.final = final,
                                   !.orphans = failed, !.gone = mem[p].orphans \ failed]
      BY HoldIs DEF RetryOrphans
    <2> QED
      BY <2>1, MemoryIs DEF Memory
  <1> QED
    BY <1>1, <1>2, QuietIs DEF Eases

LEMMA ExpireEases ==
  ASSUME TypeOK, NEW p \in Processes, NEW n \in 1..Len(mem[p].window), NEW failed,
         ExpireImmediate(p, n, failed)
  PROVE  Eases(p)
  <1>1. Quiet(p)
    BY ExpireEffect
  <1>2. /\ mem'[p].pc = mem[p].pc /\ mem[p].pc = "idle"
        /\ mem'[p].window = SubSeq(mem[p].window, n + 1, Len(mem[p].window))
    <2> DEFINE expired == Ids(SubSeq(mem[p].window, 1, n))
               m == [mem[p] EXCEPT !.window = SubSeq(@, n + 1, Len(@)),
                                   !.orphans = @ \cup failed, !.gone = expired \ failed]
    <2>1. Hold(p, m) /\ mem[p].pc = "idle"
      BY DEF ExpireImmediate, At
    <2>2. mem'[p] = m
      BY <2>1, HoldIs
    <2> QED
      BY <2>1, <2>2, MemoryIs DEF Memory
  <1>3. Range(mem'[p].window) \subseteq Range(mem[p].window)
    <2>1. n \in 0..Len(mem[p].window) /\ mem[p].window \in Windows
      BY MemoryIs, WindowIs
    <2> QED
      BY <1>2, <2>1, CutEntries
  <1> QED
    BY <1>1, <1>2, <1>3, QuietIs DEF Eases

LEMMA StopEases ==
  ASSUME TypeOK, Waiting, NEW p \in Processes,
         StopPass(p) \/ SendFails(p) \/ (LoseAnswer(p) /\ UNCHANGED sent) \/ Reject(p) \/ BoundPending(p)
  PROVE  Eases(p)
  <1> DEFINE Same == /\ Others(p) /\ Keeps /\ UNCHANGED row /\ harm \subseteq harm'
                     /\ mem'[p].marks = mem[p].marks
  <1> SUFFICES /\ Same /\ SameWindow(p)
               /\ mem'[p].pc = "send" => mem[p].pc = "send" /\ mem'[p].group = mem[p].group
    BY SameEntries DEF Eases
  <1>0. mem[p] \in Memory
    BY MemoryIs
  <1>1. CASE StopPass(p)
    <2>1. Same
      BY <1>1, StopEffect, QuietIs
    <2>2. mem'[p] = [mem[p] EXCEPT !.pc = "end"]
      BY <1>1, HoldIs DEF StopPass
    <2> QED
      BY <1>0, <2>1, <2>2 DEF SameWindow, Memory
  <1>2. CASE SendFails(p)
    <2>1. Same
      BY <1>2, FailEffect, QuietIs
    <2>2. mem'[p] = [mem[p] EXCEPT !.pc = "end", !.group = 0]
      BY <1>2, HoldIs DEF SendFails
    <2> QED
      BY <1>0, <2>1, <2>2 DEF SameWindow, Memory
  <1>3. CASE LoseAnswer(p) /\ UNCHANGED sent
    <2>1. Same
      BY <1>3, LoseKnownEffect, QuietIs
    <2>2. mem'[p] = mem[p] \/ mem'[p] = [mem[p] EXCEPT !.pc = "end", !.group = 0]
      BY <1>3, HoldIs DEF LoseAnswer
    <2> QED
      BY <1>0, <2>1, <2>2 DEF SameWindow, Memory
  <1>4. CASE Reject(p)
    <2>1. CASE mem[p].group > 1
      <3>1. Same
        BY <1>4, <2>1, RejectGroupEffect, QuietIs
      <3>2. mem'[p] = [mem[p] EXCEPT !.pc = "record", !.group = 0, !.solo = @ \cup Range(Group(p))]
        BY <1>4, <2>1, HoldIs DEF Reject
      <3> QED
        BY <1>0, <3>1, <3>2 DEF SameWindow, Memory
    <2>2. CASE ~(mem[p].group > 1)
      <3>1. Cuts(p, 1) /\ mem[p].marks = <<>>
        BY <1>4, <2>2, RejectOneEffect DEF Reject, At
      <3> QED
        BY <3>1, KeepsSame DEF Cuts
    <2> QED
      BY <2>1, <2>2
  <1>5. CASE BoundPending(p)
    <2>1. PICK k \in 0..Len(mem[p].pending) : Cuts(p, k)
      BY <1>5, BoundEffect
    <2>2. mem[p].marks = <<>>
      BY <1>5 DEF BoundPending, At
    <2> QED
      BY <2>1, <2>2, KeepsSame DEF Cuts
  <1> QED
    BY <1>1, <1>2, <1>3, <1>4, <1>5

LEMMA ExitEases ==
  ASSUME TypeOK, NEW p \in Processes, Exit(p)
  PROVE  Eases(p)
  <1>1. mem'[p] = Off /\ Others(p) /\ UNCHANGED <<row, sent, harm>> /\ mem[p].marks = <<>>
    BY HoldIs DEF Exit, Others, discord, At
  <1>2. mem'[p].marks = <<>> /\ mem'[p].window = <<>> /\ mem'[p].pc = "off" /\ Range(mem'[p].window) = {}
    BY <1>1, OffIs, EmptyIs
  <1> QED
    BY <1>1, <1>2, KeepsSame DEF Eases

LEMMA MakeRoomEases ==
  ASSUME TypeOK, NEW p \in Processes, NEW failed, MakeRoom(p, failed)
  PROVE  Eases(p)
  <1> DEFINE w == mem[p].window
             n == NextGroup(mem[p])
             k == Evict(mem[p], n)
             ids == Ids(SubSeq(w, 1, k)) \ failed
             pc == IF failed = {} THEN "send" ELSE "end"
             m == [mem[p] EXCEPT !.pc = pc, !.group = n, !.gone = ids, !.window = Without(@, ids)]
  <1>1. Quiet(p)
    BY MakeRoomEffect
  <1>2. mem[p] \in Memory /\ w \in Windows /\ mem[p].pending # <<>> /\ mem[p].orphans = {}
    BY MemoryIs DEF MakeRoom
  <1>3. n \in Nat /\ n \in 0..MaxItems
    <2>1. n \in 1..Len(mem[p].pending) /\ n <= MaxItems /\ Len(mem[p].pending) \in Nat /\ MaxItems \in Nat
      BY <1>2, NextGroupProps, MemoryIs, RangeIs, FeedAssumption
    <2> HIDE DEF n
    <2> QED
      BY <2>1
  <1>4. Hold(p, m)
    BY DEF MakeRoom
  <1> HIDE DEF n
  <1>5. k \in 0..Len(w) /\ n + CardsIn(SubSeq(w, k + 1, Len(w))) <= MaxItems
    BY <1>2, <1>3, EvictProps
  <1>6. mem'[p] = m
    BY <1>4, HoldIs
  <1> HIDE DEF k
  <1>7. /\ mem'[p].pc = pc /\ mem'[p].group = n /\ mem'[p].window = Without(w, ids)
        /\ mem'[p].orphans = {}
    BY <1>2, <1>6 DEF Memory
  <1>8. Range(mem'[p].window) \subseteq Range(w)
    BY <1>2, <1>7, WithoutEntries
  <1>9. pc = "send" => n + CardsIn(Without(w, ids)) <= MaxItems
    <2> SUFFICES ASSUME failed = {} PROVE n + CardsIn(Without(w, ids)) <= MaxItems
      OBVIOUS
    <2>1. Ids(SubSeq(w, 1, k)) \subseteq ids
      OBVIOUS
    <2> HIDE DEF ids
    <2>2. CardsIn(Without(w, ids)) <= CardsIn(SubSeq(w, k + 1, Len(w)))
      BY <1>2, <1>5, <2>1, WithoutEntries
    <2>3. CardsIn(Without(w, ids)) \in Nat
      BY <1>2, WithoutProps, SlotsFinite
    <2>4. CardsIn(SubSeq(w, k + 1, Len(w))) \in Nat
      BY <1>2, <1>5, CutWindow, SlotsFinite
    <2>5. MaxItems \in Nat
      BY FeedAssumption
    <2> QED
      BY <1>3, <1>5, <2>2, <2>3, <2>4, <2>5
  <1> QED
    BY <1>1, <1>7, <1>8, <1>9, QuietIs DEF Eases

-----------------------------------------------------------------------------
(* The journal's steps.                                                    *)

\* A step of p that changes rows only.
LEMMA RowsRoom ==
  ASSUME TypeOK, TypeOK', Room, NEW p \in Processes, Others(p), SameWindow(p),
         mem'[p].pc = "send" => mem[p].pc = "send" /\ mem'[p].group = mem[p].group,
         UNCHANGED sent, harm \subseteq harm',
         harm = {} => /\ \A q \in Processes : \A c \in Range(mem'[q].marks) : row'[c].state = "QUEUED"
                      /\ \A i \in DOMAIN sent : sent[i].shown => Marked(i)'
  PROVE  Room'
  <1> SUFFICES ASSUME harm' = {}
               PROVE  /\ (VisibleCards <= MaxItems)'
                      /\ \A q \in Processes : RoomFor(q)'
                      /\ \A i \in DOMAIN sent' : sent'[i].shown => Marked(i)'
    BY DEF Room
  <1>1. /\ harm = {} /\ VisibleCards <= MaxItems
        /\ \A q \in Processes : RoomFor(q)
    BY DEF Room
  <1>2. (VisibleCards <= MaxItems)'
    BY <1>1 DEF VisibleCards
  <1>3. ASSUME NEW q \in Processes PROVE RoomFor(q)'
    <2>1. /\ mem'[q].window = mem[q].window /\ mem'[q].orphans = mem[q].orphans
          /\ mem'[q].pc = "send" => mem[q].pc = "send" /\ mem'[q].group = mem[q].group
      BY DEF Others, SameWindow
    <2>2. RoomFor(q)
      BY <1>1
    <2>3. mem'[q].pc = "send" => mem'[q].orphans = {} /\ mem'[q].group + CardsIn(mem'[q].window) <= MaxItems
      BY <2>1, <2>2 DEF RoomFor
    <2>4. \A w \in Range(mem'[q].window) :
             w.msg \in DOMAIN sent' /\ (sent'[w.msg].shown => Len(sent'[w.msg].cards) <= w.cards)
      BY <2>1, <2>2 DEF RoomFor
    <2>5. \A c \in Range(mem'[q].marks) : row'[c].state = "QUEUED"
      BY <1>1
    <2> QED
      BY <2>3, <2>4, <2>5 DEF RoomFor, CardsIn
  <1> QED
    BY <1>1, <1>2, <1>3

LEMMA RecordRoom ==
  ASSUME FeedInv, TypeOK', Room, NEW p \in Processes, JournalPending(p)
  PROVE  Room'
  <1>1. /\ Others(p) /\ SameWindow(p) /\ mem'[p].pc = "choose" /\ mem'[p].marks = <<>> /\ mem[p].marks = <<>>
        /\ UNCHANGED sent /\ TypeOK /\ harm \subseteq harm'
        /\ \E cards : Record(cards)
    BY RecordEffect DEF FeedInv, At, discord, NoFault, Fault, Harm
  <1>2. \A c \in Cards : row[c].state # "NONE" => row'[c] = row[c]
    BY <1>1, RecordIs
  <1>3. \A q \in Processes : mem'[q].marks = mem[q].marks
    BY <1>1 DEF Others
  <1>4. ASSUME harm = {}
        PROVE  /\ \A q \in Processes : \A c \in Range(mem'[q].marks) : row'[c].state = "QUEUED"
               /\ \A i \in DOMAIN sent : sent[i].shown => Marked(i)'
    <2>1. /\ \A q \in Processes : \A c \in Range(mem[q].marks) : c \in Cards /\ row[c].state = "QUEUED"
          /\ \A i \in DOMAIN sent : sent[i].shown => Marked(i)
      BY <1>4, PendingIs DEF Room, RoomFor, FeedInv
    <2>2. ASSUME NEW i \in DOMAIN sent, sent[i].shown PROVE Marked(i)'
      <3>1. /\ \A c \in Range(sent[i].cards) : c \in Cards
            /\ Head(sent[i].cards) \in Cards
        BY <1>1, MessageIs DEF FeedInv, Holds
      <3>2. ASSUME NEW c \in Range(sent[i].cards)
            PROVE  \/ row'[c] = [state |-> "SHOWN", msg |-> i]
                   \/ /\ row'[c].state = "QUEUED"
                      /\ \/ row'[Head(sent[i].cards)].state = "QUEUED"
                         \/ \E q \in Processes : c \in Range(mem'[q].marks)
        BY <1>2, <1>3, <2>1, <2>2, <3>1, <3>2 DEF Marked
      <3> QED
        BY <1>1, <3>2 DEF Marked
    <2> QED
      BY <1>2, <1>3, <2>1, <2>2
  <1> QED
    BY <1>1, <1>4, RowsRoom

LEMMA PostedRoom ==
  ASSUME FeedInv, TypeOK', Room, NEW p \in Processes, JournalPosted(p)
  PROVE  Room'
  <1> DEFINE c == Head(mem[p].marks)
  <1>1. /\ Others(p) /\ SameWindow(p) /\ mem[p].marks # <<>>
        /\ mem'[p].pc = mem[p].pc /\ mem'[p].group = mem[p].group
        /\ mem'[p].marks = Tail(mem[p].marks) /\ mem'[p].msg = mem[p].msg
        /\ UNCHANGED sent
        /\ \/ /\ row' = [row EXCEPT ![c] =
                              [state |-> IF @.state = "QUEUED" THEN "SHOWN" ELSE @.state,
                               msg |-> IF @.state = "NONE" THEN 0 ELSE mem[p].msg]]
              /\ harm' = harm
           \/ UNCHANGED row /\ harm' = harm \cup {"journal"}
    BY PostedEffect DEF FeedInv, discord, NoFault, Fault, Harm
  <1>2. TypeOK /\ Messages /\ Waiting /\ Journaled /\ SentOnce
    BY DEF FeedInv
  <1>3. CASE harm' # {}
    BY <1>3 DEF Room
  <1>4. CASE harm' = {}
    <2>1. /\ harm = {} /\ Whole
          /\ row' = [row EXCEPT ![c] =
                              [state |-> IF @.state = "QUEUED" THEN "SHOWN" ELSE @.state,
                               msg |-> IF @.state = "NONE" THEN 0 ELSE mem[p].msg]]
      BY <1>1, <1>4 DEF Whole
    <2>2. /\ \A q \in Processes : RoomFor(q)
          /\ \A i \in DOMAIN sent : sent[i].shown => Marked(i)
          /\ Held(p) /\ Marking(p) /\ \A i \in DOMAIN sent : SentRows(i)
          /\ \A q \in Processes : Closing(q)
      BY <1>2, <2>1 DEF Room, Journaled, Kept, FeedInv
    <2>3. /\ mem[p].marks \in Seq(Cards) /\ Increasing(mem[p].marks) /\ c \in Range(mem[p].marks) /\ c \in Cards
          /\ mem[p].msg \in Nat /\ mem[p].drops = {} /\ mem[p].msg \in DOMAIN sent
      BY <1>1, <1>2, PendingIs, MemoryIs DEF Waiting, Orderly
    <2>4. /\ Range(mem[p].marks) = {c} \cup Range(mem'[p].marks)
          /\ \A d \in Range(mem'[p].marks) : c < d
      <3>1. /\ 1 \in 0..Len(mem[p].marks) /\ Tail(mem[p].marks) = SubSeq(mem[p].marks, 1 + 1, Len(mem[p].marks))
            /\ Range(SubSeq(mem[p].marks, 1, 1)) = {c}
        BY <1>1, <2>3, TailIsCut
      <3> HIDE DEF c
      <3> DEFINE s == mem[p].marks
      <3>2. /\ Range(s) = Range(SubSeq(s, 1, 1)) \cup Range(SubSeq(s, 1 + 1, Len(s)))
            /\ \A e \in Range(SubSeq(s, 1 + 1, Len(s))), d \in Range(SubSeq(s, 1, 1)) : d < e
        <4> HIDE DEF s
        <4>1. s \in Seq(Cards) /\ Increasing(s) /\ Cards \in SUBSET Nat /\ 1 \in 0..Len(s)
          BY <2>3, <3>1, CardsNat DEF s
        <4> QED
          BY <4>1, CutAscending
      <3> QED
        BY <1>1, <3>1, <3>2
    <2>5. row[c].state = "QUEUED"
      BY <2>2, <2>3 DEF RoomFor
    <2>6. /\ row'[c] = [state |-> "SHOWN", msg |-> mem[p].msg]
          /\ \A d \in Cards : d # c => row'[d] = row[d]
      BY <1>2, <2>1, <2>3, <2>5, PostedIs
    <2> HIDE DEF c
    <2>7. Running(p)
      BY <1>1, <1>2, OffIs DEF Running, Waiting, Orderly
    <2>8. \A q \in Processes : q # p => mem[q] = Off /\ mem'[q] = Off
      BY <1>1, <1>2, <2>1, <2>7, OthersOff
    <2>9. \A q \in Processes : q # p => Range(mem'[q].marks) = {} /\ Range(mem[q].marks) = {}
      BY <2>8, OffIs, EmptyIs
    <2>10. ASSUME NEW q \in Processes, NEW d \in Range(mem'[q].marks)
           PROVE  row'[d].state = "QUEUED"
      <3>1. q = p /\ d \in Range(mem[p].marks) /\ c < d
        BY <2>4, <2>9, <2>10
      <3>2. d \in Cards /\ d \in Nat /\ c \in Nat
        BY <1>2, <2>3, <3>1, PendingIs
      <3>3. d # c
        BY <3>1, <3>2
      <3> QED
        BY <2>2, <2>6, <3>1, <3>2, <3>3 DEF RoomFor
    <2>11. ASSUME NEW i \in DOMAIN sent, sent[i].shown PROVE Marked(i)'
      <3> DEFINE h == Head(sent[i].cards)
      <3>1. \A d \in Range(sent[i].cards) : d \in Cards /\ d <= Last(sent[i].cards)
        BY <1>2, MessageIs DEF Holds
      <3>2. h \in Cards /\ Holds(i, h)
        BY <1>2, MessageIs
      <3>3. ASSUME NEW d \in Range(sent[i].cards)
            PROVE  \/ row'[d] = [state |-> "SHOWN", msg |-> i]
                   \/ /\ row'[d].state = "QUEUED"
                      /\ \/ row'[h].state = "QUEUED"
                         \/ \E q \in Processes : d \in Range(mem'[q].marks)
        <4>1. CASE d = c
          <5>1. Holds(mem[p].msg, c) /\ Holds(i, c)
            BY <1>1, <2>2, <2>3, <3>3, <4>1 DEF Marking, Holds
          <5>2. i = mem[p].msg
            <6>1. i \in Nat /\ mem[p].msg \in Nat
              BY <1>2, <2>3, SentIs
            <6>2. ~(i < mem[p].msg) /\ ~(mem[p].msg < i)
              BY <1>2, <2>1, <2>3, <5>1 DEF SentOnce
            <6> QED
              BY <6>1, <6>2
          <5> QED
            BY <2>6, <4>1, <5>2
        <4>2. CASE d # c
          <5>1. d \in Cards /\ row'[d] = row[d]
            BY <2>6, <3>1, <3>3, <4>2
          <5>2. CASE row[d] = [state |-> "SHOWN", msg |-> i]
            BY <5>1, <5>2
          <5>3. CASE row[d].state = "QUEUED" /\ \E q \in Processes : d \in Range(mem[q].marks)
            <6>1. d \in Range(mem'[p].marks)
              BY <2>4, <2>9, <4>2, <5>3
            <6> QED
              BY <5>1, <5>3, <6>1
          <5>4. CASE row[d].state = "QUEUED" /\ row[h].state = "QUEUED"
            <6>1. CASE h # c
              BY <2>6, <3>2, <5>1, <5>4, <6>1
            <6>2. CASE h = c
              <7>1. i = mem[p].msg
                BY <2>2, <2>3, <6>2 DEF Closing
              <7>2. d \in Range(mem[p].pending) \cup Range(mem[p].marks)
                BY <2>2, <2>3, <2>7, <5>1, <5>4 DEF Held
              <7>3. d \notin Range(mem[p].pending)
                <8> SUFFICES ASSUME d \in Range(mem[p].pending) PROVE FALSE
                  OBVIOUS
                <8>1. Last(sent[i].cards) < d /\ d <= Last(sent[i].cards)
                  BY <1>1, <2>2, <3>1, <7>1 DEF Marking
                <8>2. d \in Nat /\ Last(sent[i].cards) \in Nat
                  BY <1>2, <5>1, MessageIs, CardsNat
                <8> QED
                  BY <8>1, <8>2
              <7>4. d \in Range(mem'[p].marks)
                BY <2>4, <4>2, <7>2, <7>3
              <7> QED
                BY <5>1, <5>4, <7>4
            <6> QED
              BY <6>1, <6>2
          <5> QED
            BY <2>2, <2>11, <3>3, <5>2, <5>3, <5>4 DEF Marked
        <4> QED
          BY <4>1, <4>2
      <3> QED
        BY <1>1, <3>3 DEF Marked
    <2> QED
      BY <1>1, <1>2, <2>1, <2>10, <2>11, RowsRoom
  <1> QED
    BY <1>3, <1>4

\* Rows that wait and rows of messages in the channel are left alone.
LEMMA ClosedRoom ==
  ASSUME FeedInv, TypeOK', Room, NEW p \in Processes, Others(p), SameWindow(p),
         mem'[p].pc = mem[p].pc, mem'[p].group = mem[p].group, mem'[p].marks = mem[p].marks,
         UNCHANGED sent, harm \subseteq harm',
         harm = {} => /\ \A q \in Processes : \A c \in Range(mem[q].marks) : row'[c] = row[c]
                      /\ \A i \in DOMAIN sent : sent[i].shown => \A c \in Range(sent[i].cards) :
                            row[c].state = "QUEUED" \/ row[c] = [state |-> "SHOWN", msg |-> i] => row'[c] = row[c]
  PROVE  Room'
  <1>1. \A q \in Processes : mem'[q].marks = mem[q].marks
    BY DEF Others
  <1>2. ASSUME harm = {}
        PROVE  /\ \A q \in Processes : \A c \in Range(mem'[q].marks) : row'[c].state = "QUEUED"
               /\ \A i \in DOMAIN sent : sent[i].shown => Marked(i)'
    <2>1. /\ \A q \in Processes : \A c \in Range(mem[q].marks) : row[c].state = "QUEUED"
          /\ \A i \in DOMAIN sent : sent[i].shown => Marked(i)
      BY <1>2 DEF Room, RoomFor
    <2>2. ASSUME NEW i \in DOMAIN sent, sent[i].shown PROVE Marked(i)'
      <3>1. Head(sent[i].cards) \in Range(sent[i].cards)
        BY MessageIs DEF FeedInv, Holds
      <3>2. ASSUME NEW c \in Range(sent[i].cards)
            PROVE  \/ row'[c] = [state |-> "SHOWN", msg |-> i]
                   \/ /\ row'[c].state = "QUEUED"
                      /\ \/ row'[Head(sent[i].cards)].state = "QUEUED"
                         \/ \E q \in Processes : c \in Range(mem'[q].marks)
        BY <1>1, <1>2, <2>1, <2>2, <3>1, <3>2 DEF Marked
      <3> QED
        BY <3>2 DEF Marked
    <2> QED
      BY <1>1, <1>2, <2>1, <2>2
  <1> QED
    BY <1>2, RowsRoom DEF FeedInv

LEMMA RemovedRoom ==
  ASSUME FeedInv, TypeOK', Room, NEW p \in Processes, JournalRemoved(p)
  PROVE  Room'
  <1>1. /\ Others(p) /\ SameWindow(p) /\ UNCHANGED sent /\ harm \subseteq harm' /\ TypeOK
        /\ mem'[p].pc = mem[p].pc /\ mem'[p].group = mem[p].group /\ mem'[p].marks = mem[p].marks
        /\ \/ Close({"SHOWN"}, {c \in Cards : row[c].msg \in mem[p].gone}, "REMOVED")
           \/ UNCHANGED row
    BY RemovedEffect DEF FeedInv, SameCards, discord, NoFault, Fault, Harm
  <1>2. \A c \in Cards : row'[c] = row[c] \/ (row[c].state = "SHOWN" /\ row[c].msg \in mem[p].gone)
    BY <1>1, CloseIs
  <1>3. ASSUME harm = {}
        PROVE  /\ \A q \in Processes : \A c \in Range(mem[q].marks) : row'[c] = row[c]
               /\ \A i \in DOMAIN sent : sent[i].shown => \A c \in Range(sent[i].cards) :
                     row[c].state = "QUEUED" \/ row[c] = [state |-> "SHOWN", msg |-> i] => row'[c] = row[c]
    <2>1. \A q \in Processes : \A c \in Range(mem[q].marks) : c \in Cards /\ row[c].state = "QUEUED"
      BY <1>3, PendingIs DEF Room, RoomFor, FeedInv
    <2>2. \A i \in DOMAIN sent : sent[i].shown => i \notin mem[p].gone
      BY <1>3 DEF FeedInv, Kept, Closing
    <2>3. \A i \in DOMAIN sent : \A c \in Range(sent[i].cards) : c \in Cards
      BY MessageIs DEF FeedInv, Holds
    <2> QED
      BY <1>2, <2>1, <2>2, <2>3
  <1> QED
    BY <1>1, <1>3, ClosedRoom

LEMMA DroppedRoom ==
  ASSUME FeedInv, TypeOK', Room, NEW p \in Processes, JournalDropped(p)
  PROVE  Room'
  <1>1. /\ Others(p) /\ SameWindow(p) /\ UNCHANGED sent /\ harm \subseteq harm' /\ TypeOK /\ mem[p].drops # {}
        /\ mem'[p].pc = mem[p].pc /\ mem'[p].group = mem[p].group /\ mem'[p].marks = mem[p].marks
        /\ \/ Close({"QUEUED", "SHOWN"}, mem[p].drops, "DROPPED")
           \/ UNCHANGED row
    BY DroppedEffect DEF FeedInv, discord, NoFault, Fault, Harm
  <1>2. \A c \in Cards : row'[c] = row[c] \/ c \in mem[p].drops
    <2>1. CASE Close({"QUEUED", "SHOWN"}, mem[p].drops, "DROPPED")
      <3>1. \A c \in Cards : ~(c \in mem[p].drops /\ row[c].state \in {"QUEUED", "SHOWN"}) => row'[c] = row[c]
        BY <1>1, <2>1, CloseIs
      <3> QED
        BY <3>1
    <2>2. CASE UNCHANGED row
      BY <2>2
    <2> QED
      BY <1>1, <2>1, <2>2
  <1>3. ASSUME harm = {}
        PROVE  /\ \A q \in Processes : \A c \in Range(mem[q].marks) : row'[c] = row[c]
               /\ \A i \in DOMAIN sent : sent[i].shown => \A c \in Range(sent[i].cards) :
                     row[c].state = "QUEUED" \/ row[c] = [state |-> "SHOWN", msg |-> i] => row'[c] = row[c]
    <2>1. mem[p].marks = <<>> /\ Running(p)
      BY <1>1, OffIs DEF FeedInv, Waiting, Orderly, Running
    <2>2. Whole
      BY <1>3 DEF Whole
    <2>3. \A q \in Processes : Range(mem[q].marks) = {}
      BY <1>1, <2>1, <2>2, OthersOff, OffIs, EmptyIs DEF FeedInv
    <2>4. mem[p].drops \subseteq refused
      BY <1>3 DEF FeedInv, Kept, Closing
    <2>5. \A i \in DOMAIN sent : \A c \in Range(sent[i].cards) : c \in Cards /\ c \notin refused
      BY MessageIs DEF FeedInv, Holds
    <2> QED
      BY <1>2, <2>3, <2>4, <2>5
  <1> QED
    BY <1>1, <1>3, ClosedRoom

-----------------------------------------------------------------------------
(* Messages that are sent.                                                 *)

\* A process that sends with nothing known under its nonce holds every message
\* in the channel, so there is room for one more.
LEMMA AddsFits ==
  ASSUME FeedInv, TypeOK', Room, NEW p \in Processes, At(p, "send"), Adds(p), harm = {}
  PROVE  VisibleCards' <= MaxItems
  <1>1. TypeOK /\ Messages /\ Waiting /\ Journaled /\ Kept /\ Whole
    BY DEF FeedInv, Whole
  <1>2. RoomFor(p)
    BY DEF Room
  <1>3. mem[p].orphans = {} /\ mem[p].group + CardsIn(mem[p].window) <= MaxItems
    BY <1>2 DEF RoomFor, At
  <1>4. mem[p].window \in Windows /\ mem[p].group \in Nat
    BY <1>1, MemoryIs
  <1>5. ASSUME NEW i \in DOMAIN sent, sent[i].shown
        PROVE  \E k \in 1..Len(mem[p].window) :
                  mem[p].window[k].msg = i /\ Len(sent[i].cards) <= mem[p].window[k].cards
    <2> DEFINE h == Head(sent[i].cards)
    <2>1. h \in Cards /\ h \notin Range(mem[p].pending)
      <3>1. harm \subseteq {"crash"} /\ Existing(p) = {}
        BY DEF Adds
      <3> QED
        BY <1>1, <3>1, MessageIs, NewHead
    <2>2. row[h].state # "QUEUED"
      BY <1>1, <2>1, SendingQueued
    <2>3. row[h].state = "SHOWN" /\ Keeping(p, i)
      <3>1. FirstRow(i) /\ Keeping(p, i)
        BY <1>1, <1>5 DEF Kept
      <3> QED
        BY <2>2, <3>1 DEF FirstRow
    <2>4. i \in Ids(mem[p].window)
      BY <1>1, <1>3, <2>3, SendingIs DEF Keeping
    <2>5. PICK k \in DOMAIN mem[p].window : mem[p].window[k].msg = i
      BY <2>4 DEF Ids
    <2>6. k \in 1..Len(mem[p].window) /\ mem[p].window[k] \in Range(mem[p].window)
      BY <1>4, <2>5, WindowIs DEF Range
    <2> QED
      BY <1>2, <1>5, <2>5, <2>6 DEF RoomFor
  <1>6. VisibleCards <= CardsIn(mem[p].window)
    <2> DEFINE w == mem[p].window
    <2>1. w \in Windows /\ \A i \in DOMAIN sent : sent[i].shown =>
            \E k \in 1..Len(w) : w[k].msg = i /\ Len(sent[i].cards) <= w[k].cards
      BY <1>4, <1>5
    <2> HIDE DEF w
    <2>2. VisibleCards <= CardsIn(w)
      BY <1>1, <2>1, SeenCounted
    <2> QED
      BY <2>2 DEF w
  <1>7. VisibleCards' <= VisibleCards + mem[p].group
    BY <1>1, SeenMore
  <1>8. VisibleCards \in Nat /\ VisibleCards' \in Nat
    <2>1. SeenFacts /\ SeenFacts'
      BY <1>1, SeenIs, PTL
    <2> QED
      BY <2>1 DEF SeenFacts
  <1>9. CardsIn(mem[p].window) \in Nat /\ MaxItems \in Nat
    BY <1>4, SlotsFinite, FeedAssumption
  <1> QED
    BY <1>3, <1>4, <1>6, <1>7, <1>8, <1>9

\* Rows of messages sent before, and the rows of one more.
LEMMA AddsMarked ==
  ASSUME FeedInv, Room, NEW p \in Processes, At(p, "send"), Adds(p) \/ UNCHANGED sent, harm = {}, UNCHANGED row
  PROVE  \A i \in DOMAIN sent' : sent'[i].shown => Marked(i)'
  <1>1. TypeOK /\ Messages /\ Waiting /\ Journaled /\ Whole
    BY DEF FeedInv, Whole
  <1>2. \A q \in Processes : Range(mem[q].marks) = {}
    <2>1. Range(mem[p].marks) = {} /\ Running(p)
      BY <1>1, SendingIs
    <2>2. ASSUME NEW q \in Processes, q # p PROVE mem[q].pc = "off"
      BY <1>1, <2>1, <2>2 DEF Journaled, Alone, Running
    <2> QED
      BY <1>1, <2>1, <2>2, OffIs, EmptyIs DEF Waiting, Orderly
  <1>3. ASSUME NEW i \in DOMAIN sent, sent[i].shown, sent'[i] = sent[i] PROVE Marked(i)'
    <2>1. Marked(i)
      BY <1>3 DEF Room
    <2> QED
      BY <1>2, <1>3, <2>1 DEF Marked
  <1>4. CASE Adds(p)
    <2>1. /\ DOMAIN sent' = DOMAIN sent \cup {Len(sent) + 1}
          /\ \A i \in DOMAIN sent : sent'[i] = sent[i]
          /\ sent'[Len(sent) + 1].cards = Group(p)
      BY <1>1, <1>4, AddsIs
    <2>2. \A c \in Range(Group(p)) : row[c].state = "QUEUED"
      BY <1>1, SendingQueued
    <2>3. Head(Group(p)) \in Range(Group(p))
      BY <1>1, SendingIs
    <2>4. ASSUME NEW i, i = Len(sent) + 1 PROVE Marked(i)'
      <3>1. sent'[i].cards = Group(p)
        BY <2>1, <2>4
      <3> QED
        BY <2>2, <2>3, <3>1 DEF Marked
    <2>5. ASSUME NEW i \in DOMAIN sent', sent'[i].shown PROVE Marked(i)'
      <3>1. CASE i = Len(sent) + 1
        BY <2>4, <3>1
      <3>2. CASE i \in DOMAIN sent
        BY <1>3, <2>1, <2>5, <3>2
      <3> QED
        BY <2>1, <3>1, <3>2
    <2> QED
      BY <2>5
  <1>5. CASE UNCHANGED sent
    BY <1>3, <1>5
  <1> QED
    BY <1>4, <1>5

LEMMA SendRoom ==
  ASSUME FeedInv, TypeOK', Room, NEW p \in Processes, SendGroup(p)
  PROVE  Room'
  <1> SUFFICES ASSUME harm' = {}
               PROVE  /\ (VisibleCards <= MaxItems)'
                      /\ \A q \in Processes : RoomFor(q)'
                      /\ \A i \in DOMAIN sent' : sent'[i].shown => Marked(i)'
    BY DEF Room
  <1>1. TypeOK /\ Messages /\ Waiting /\ Journaled
    BY DEF FeedInv
  <1>2. /\ At(p, "send") /\ Acceptable(p)
        /\ UNCHANGED <<made, row, forgot, refused, used, harm>>
        /\ \E i \in DOMAIN sent', n \in 0..Len(mem[p].pending) :
               /\ n = Posted(p, sent'[i].cards) /\ Takes(p, i, n)
               /\ \/ Adds(p) /\ i = Len(sent) + 1
                  \/ i \in Existing(p) /\ UNCHANGED sent
    BY <1>1, SendEffect
  <1>3. /\ harm = {} /\ Whole /\ VisibleCards <= MaxItems
        /\ \A q \in Processes : RoomFor(q)
    BY <1>2 DEF Room, Whole
  <1>4. PICK i \in DOMAIN sent' :
           /\ IF Existing(p) = {} THEN i = Len(sent') ELSE i \in Existing(p)
           /\ LET n == Posted(p, sent'[i].cards)
                  done == SubSeq(mem[p].pending, 1, n)
              IN  Hold(p, [mem[p] EXCEPT !.pc = "record", !.group = 0, !.marks = done, !.msg = i,
                                      !.pending = SubSeq(@, n + 1, Len(@)), !.saved = @ \ Range(done),
                                      !.solo = @ \ Range(done),
                                      !.window = Append(@, [msg |-> i, cards |-> n])])
    BY DEF SendGroup
  <1> DEFINE n == Posted(p, sent'[i].cards)
             done == SubSeq(mem[p].pending, 1, n)
             w == Append(mem[p].window, [msg |-> i, cards |-> n])
             m == [mem[p] EXCEPT !.pc = "record", !.group = 0, !.marks = done, !.msg = i,
                                 !.pending = SubSeq(@, n + 1, Len(@)), !.saved = @ \ Range(done),
                                 !.solo = @ \ Range(done), !.window = w]
  <1>5. mem'[p] = m /\ Others(p)
    <2>1. Hold(p, m)
      BY <1>4
    <2> HIDE DEF m
    <2> QED
      BY <1>1, <2>1, HoldIs DEF Others
  <1>6. mem'[p].pc = "record" /\ mem'[p].marks = done /\ mem'[p].window = w
    <2>1. mem[p] \in Memory
      BY <1>1, MemoryIs
    <2> HIDE DEF n, done, w
    <2> QED
      BY <1>5, <2>1 DEF Memory
  <1>7. mem[p].window \in Windows /\ DOMAIN sent' \subseteq Nat
    BY <1>1, MemoryIs DEF TypeOK
  <1>8. Existing(p) = {} => Adds(p) /\ i = Len(sent) + 1
    <2> SUFFICES ASSUME Existing(p) = {} PROVE Adds(p) /\ i = Len(sent) + 1
      OBVIOUS
    <2>1. Adds(p)
      BY DEF SendGroup, Create, Adds
    <2> QED
      BY <1>1, <1>2, <1>4, <2>1, AddsIs
  <1>9. Existing(p) # {} => UNCHANGED sent /\ i \in Existing(p)
    BY <1>4 DEF SendGroup, Create
  <1>10. /\ n \in Nat /\ Len(sent'[i].cards) <= n
         /\ \A c \in Range(done) : row[c].state = "QUEUED"
    <2>1. CASE Existing(p) = {}
      <3>1. sent'[i].cards = Group(p)
        BY <1>1, <1>2, <1>8, <2>1, AddsIs
      <3>2. n = Len(Group(p)) /\ done = Group(p) /\ Len(Group(p)) \in Nat
        BY <1>1, <1>2, <3>1, NewCards, SendingIs, MemoryIs
      <3>3. \A c \in Range(Group(p)) : row[c].state = "QUEUED"
        BY <1>1, <1>2, <1>3, SendingQueued
      <3> HIDE DEF n, done
      <3> QED
        BY <3>1, <3>2, <3>3
    <2>2. CASE Existing(p) # {}
      <3>1. sent' = sent /\ i \in DOMAIN sent /\ Head(sent[i].cards) = Head(mem[p].pending)
        BY <1>9, <2>2 DEF Existing
      <3>2. n = Len(sent[i].cards) /\ Range(done) = Range(sent[i].cards)
        BY <1>1, <1>2, <1>3, <3>1, KnownCards
      <3>3. Len(sent[i].cards) \in Nat
        BY <1>1, <3>1, SentIs
      <3>4. row[Head(sent[i].cards)].state = "QUEUED"
        BY <1>1, <1>2, <1>3, <3>1, SendingIs, SendingQueued
      <3>5. \A c \in Range(sent[i].cards) : row[c].state = "QUEUED"
        BY <1>1, <1>3, <3>1, <3>4 DEF Journaled, SentRows
      <3> HIDE DEF n, done
      <3> QED
        BY <3>1, <3>2, <3>3, <3>5
    <2> QED
      BY <2>1, <2>2
  <1> HIDE DEF n, done
  <1>11. Range(mem'[p].window) = Range(mem[p].window) \cup {[msg |-> i, cards |-> n]}
    BY <1>6, <1>7, <1>10, AppendEntries
  <1>12. DOMAIN sent \subseteq DOMAIN sent' /\ \A j \in DOMAIN sent : sent'[j] = sent[j]
    BY <1>1, <1>2, <1>8, <1>9, AddsIs
  <1>13. (VisibleCards <= MaxItems)'
    <2>1. CASE Existing(p) = {}
      BY <1>2, <1>3, <1>8, <2>1, AddsFits
    <2>2. CASE Existing(p) # {}
      BY <1>3, <1>9, <2>2 DEF VisibleCards
    <2> QED
      BY <2>1, <2>2
  <1>14. ASSUME NEW q \in Processes PROVE RoomFor(q)'
    <2>1. CASE q = p
      <3>1. ASSUME NEW x \in Range(mem'[p].window)
            PROVE  x.msg \in DOMAIN sent' /\ (sent'[x.msg].shown => Len(sent'[x.msg].cards) <= x.cards)
        <4>1. CASE x \in Range(mem[p].window)
          <5>1. x.msg \in DOMAIN sent /\ (sent[x.msg].shown => Len(sent[x.msg].cards) <= x.cards)
            BY <1>3, <4>1 DEF RoomFor
          <5> QED
            BY <1>12, <5>1
        <4>2. CASE x = [msg |-> i, cards |-> n]
          BY <1>10, <4>2
        <4> QED
          BY <1>11, <3>1, <4>1, <4>2
      <3>2. \A c \in Range(mem'[p].marks) : row'[c].state = "QUEUED"
        BY <1>2, <1>6, <1>10
      <3> QED
        BY <1>6, <2>1, <3>1, <3>2 DEF RoomFor
    <2>2. CASE q # p
      <3>1. mem'[q] = mem[q]
        BY <1>5, <2>2 DEF Others
      <3>2. RoomFor(q)
        BY <1>3
      <3> QED
        BY <1>2, <1>12, <3>1, <3>2 DEF RoomFor, CardsIn
    <2> QED
      BY <2>1, <2>2
  <1>15. \A j \in DOMAIN sent' : sent'[j].shown => Marked(j)'
    BY <1>2, <1>3, <1>8, <1>9, AddsMarked
  <1> QED
    BY <1>13, <1>14, <1>15

LEMMA LoseRoom ==
  ASSUME FeedInv, TypeOK', Room, NEW p \in Processes, LoseAnswer(p)
  PROVE  Room'
  <1>1. TypeOK /\ Waiting
    BY DEF FeedInv
  <1>2. CASE Existing(p) # {}
    <2>1. UNCHANGED sent
      BY <1>2 DEF LoseAnswer, Create
    <2> QED
      BY <1>1, <2>1, StopEases, EasesRoom
  <1>3. CASE Existing(p) = {}
    <2> SUFFICES ASSUME harm' = {}
                 PROVE  /\ (VisibleCards <= MaxItems)'
                        /\ \A q \in Processes : RoomFor(q)'
                        /\ \A i \in DOMAIN sent' : sent'[i].shown => Marked(i)'
      BY DEF Room
    <2>1. At(p, "send") /\ Adds(p) /\ UNCHANGED row /\ harm = {}
      BY <1>3 DEF LoseAnswer, Create, Adds, Harm
    <2>2. \A q \in Processes : RoomFor(q)
      BY <2>1 DEF Room
    <2>3. /\ Others(p) /\ SameWindow(p) /\ mem'[p].marks = mem[p].marks
          /\ mem'[p].pc = "send" => mem[p].pc = "send" /\ mem'[p].group = mem[p].group
      <3>1. CASE UNCHANGED mem
        BY <3>1 DEF Others, SameWindow
      <3>2. CASE Hold(p, [mem[p] EXCEPT !.pc = "end", !.group = 0])
        <4>1. mem'[p] = [mem[p] EXCEPT !.pc = "end", !.group = 0] /\ Others(p)
          BY <1>1, <3>2, HoldIs DEF Others
        <4> QED
          BY <1>1, <4>1, MemoryIs DEF SameWindow, Memory
      <3> QED
        BY <3>1, <3>2 DEF LoseAnswer
    <2>4. DOMAIN sent \subseteq DOMAIN sent' /\ \A j \in DOMAIN sent : sent'[j] = sent[j]
      BY <1>1, <2>1, AddsIs
    <2>5. (VisibleCards <= MaxItems)'
      BY <2>1, AddsFits
    <2>6. ASSUME NEW q \in Processes PROVE RoomFor(q)'
      <3>1. /\ mem'[q].window = mem[q].window /\ mem'[q].orphans = mem[q].orphans
            /\ mem'[q].marks = mem[q].marks
            /\ mem'[q].pc = "send" => mem[q].pc = "send" /\ mem'[q].group = mem[q].group
        BY <2>3 DEF Others, SameWindow
      <3>2. RoomFor(q)
        BY <2>2
      <3>3. mem'[q].pc = "send" => mem'[q].orphans = {} /\ mem'[q].group + CardsIn(mem'[q].window) <= MaxItems
        BY <3>1, <3>2 DEF RoomFor
      <3>4. \A x \in Range(mem'[q].window) :
               x.msg \in DOMAIN sent' /\ (sent'[x.msg].shown => Len(sent'[x.msg].cards) <= x.cards)
        BY <2>4, <3>1, <3>2 DEF RoomFor
      <3>5. \A c \in Range(mem'[q].marks) : row'[c].state = "QUEUED"
        BY <2>1, <3>1, <3>2 DEF RoomFor
      <3> QED
        BY <3>3, <3>4, <3>5 DEF RoomFor, CardsIn
    <2>7. \A j \in DOMAIN sent' : sent'[j].shown => Marked(j)'
      BY <2>1, AddsMarked
    <2> QED
      BY <2>5, <2>6, <2>7
  <1> QED
    BY <1>2, <1>3

-----------------------------------------------------------------------------
(* A process that starts.                                                  *)

LEMMA Enough ==
  ASSUME NEW S, NEW s \in Seq(S), NEW t \in Seq(Nat), Increasing(t), NEW a \in Nat, NEW b \in Nat, a <= b,
         \A x \in 1..Len(t) : \E k \in a..(b - 1) : s[k] = t[x]
  PROVE  Len(t) <= b - a
  <1> DEFINE f == [x \in 1..Len(t) |-> CHOOSE k \in a..(b - 1) : s[k] = t[x]]
  <1>1. \A x \in 1..Len(t) : f[x] \in a..(b - 1) /\ s[f[x]] = t[x]
    OBVIOUS
  <1>2. f \in [1..Len(t) -> a..(b - 1)]
    BY <1>1
  <1> HIDE DEF f
  <1>3. ASSUME NEW x \in 1..Len(t), NEW y \in 1..Len(t), f[x] = f[y] PROVE x = y
    <2>1. \A i, j \in 1..Len(t) : t[i] = t[j] => i = j
      BY IncreasingSeq
    <2>2. t[x] = s[f[x]] /\ t[y] = s[f[y]]
      BY <1>1
    <2>3. t[x] = t[y]
      BY <1>3, <2>2
    <2> QED
      BY <2>1, <2>3
  <1>4. f \in Injection(1..Len(t), a..(b - 1))
    BY <1>2, <1>3 DEF Injection, IsInjective
  <1>5. Len(t) \in Nat /\ Len(t) \in Int /\ a \in Int /\ b - 1 \in Int /\ 1 \in Int
    OBVIOUS
  <1> DEFINE n == Len(t)
             e == b - 1
  <1>6. /\ IsFiniteSet(a..e) /\ Cardinality(a..e) = b - a
        /\ Cardinality(1..n) = n
    <2>1. n \in Nat /\ n \in Int /\ a \in Int /\ e \in Int /\ e = b - 1 /\ 1 \in Int
      BY <1>5
    <2> HIDE DEF n, e
    <2>2. /\ IsFiniteSet(a..e) /\ Cardinality(a..e) = IF a > e THEN 0 ELSE e - a + 1
          /\ Cardinality(1..n) = IF 1 > n THEN 0 ELSE n - 1 + 1
      BY <2>1, FS_Interval
    <2> QED
      BY <2>1, <2>2
  <1>7. Cardinality(1..n) <= Cardinality(a..e)
    BY <1>4, <1>6, FS_Injection
  <1> QED
    BY <1>6, <1>7

\* A card shown between two cards of a message is in that message.
LEMMA Between ==
  ASSUME FeedInv, harm = {}, NEW i \in DOMAIN sent, NEW c, NEW e, NEW d \in Cards,
         Holds(i, c), Holds(i, e), row[d].state = "SHOWN", c <= d, d <= e
  PROVE  row[d].msg = i
  <1>1. TypeOK /\ Messages /\ RowsTrue /\ InOrder /\ SentOnce
    BY DEF FeedInv
  <1> DEFINE k == row[d].msg
  <1>2. k \in DOMAIN sent /\ Holds(k, d)
    BY <1>1 DEF RowsTrue
  <1> HIDE DEF k
  <1>3. /\ c \in Cards /\ e \in Cards /\ e <= Last(sent[i].cards) /\ d <= Last(sent[k].cards)
        /\ Last(sent[i].cards) \in Cards /\ Last(sent[k].cards) \in Cards
    BY <1>1, <1>2, MessageIs
  <1>4. \A x \in Cards : x \in Nat
    BY CardsNat
  <1>5. ~(i < k)
    <2> SUFFICES ASSUME i < k PROVE FALSE
      OBVIOUS
    <2>1. Holds(i, d) \/ Last(sent[i].cards) < d
      BY <1>1, <1>2 DEF InOrder, Holds
    <2>2. Holds(i, d)
      BY <1>3, <1>4, <2>1
    <2> QED
      BY <1>1, <1>2, <2>2 DEF SentOnce
  <1>6. ~(k < i)
    <2> SUFFICES ASSUME k < i PROVE FALSE
      OBVIOUS
    <2>1. Holds(k, c) \/ Last(sent[k].cards) < c
      BY <1>1, <1>2 DEF InOrder, Holds
    <2>2. Holds(k, c)
      BY <1>3, <1>4, <2>1
    <2> QED
      BY <1>1, <1>2, <1>3, <2>2 DEF SentOnce
  <1>7. i \in Nat /\ k \in Nat
    BY <1>1, <1>2, SentIs
  <1> QED
    BY <1>5, <1>6, <1>7 DEF k

\* The cards of a message that the journal has as shown are all marked.
LEMMA AllMarked ==
  ASSUME FeedInv, Room, harm = {}, \A p \in Processes : ~Running(p),
         NEW i \in DOMAIN sent, sent[i].shown, NEW e, Holds(i, e), row[e].state = "SHOWN"
  PROVE  \A c : Holds(i, c) => c \in Cards /\ row[c] = [state |-> "SHOWN", msg |-> i]
  <1>1. TypeOK /\ Messages /\ Waiting /\ SentRows(i)
    BY DEF FeedInv, Journaled, Whole
  <1>2. \A p \in Processes : Range(mem[p].marks) = {}
    BY <1>1, OffIs, EmptyIs DEF Waiting, Orderly, Running
  <1>3. row[Head(sent[i].cards)].state # "QUEUED"
    BY <1>1 DEF SentRows, Holds
  <1>4. Marked(i)
    BY DEF Room
  <1> QED
    BY <1>1, <1>2, <1>3, <1>4, MessageIs DEF Marked, Holds

\* What the journal answers counts all the cards of each message.
LEMMA ShownCounts ==
  ASSUME FeedInv, Room, harm = {}, \A p \in Processes : ~Running(p), NEW w \in Range(Shown)
  PROVE  w.msg \in DOMAIN sent /\ (sent[w.msg].shown => Len(sent[w.msg].cards) <= w.cards)
  <1> DEFINE s == Open("SHOWN")
             K == {i \in DOMAIN s : i = 1 \/ row[s[i]].msg # row[s[i - 1]].msg}
             first == Ascending(K)
             next(j) == IF j < Len(first) THEN first[j + 1] ELSE Len(s) + 1
             v == [j \in DOMAIN first |-> [msg |-> row[s[first[j]]].msg, cards |-> next(j) - first[j]]]
  <1>1. /\ s \in Seq(Cards) /\ Increasing(s) /\ Range(s) = {c \in Cards : row[c].state = "SHOWN"}
    BY OpenProps
  <1>2. PICK j \in DOMAIN v : w = v[j]
    BY DEF Shown, Range
  <1> HIDE DEF s
  <1>3. /\ DOMAIN s = 1..Len(s) /\ Len(s) \in Nat /\ s \in Seq(Nat)
        /\ \A i \in 1..Len(s) : s[i] \in Cards /\ s[i] \in Nat /\ row[s[i]].state = "SHOWN"
        /\ \A c \in Cards : row[c].state = "SHOWN" => \E i \in 1..Len(s) : s[i] = c
    <2>1. /\ DOMAIN s = 1..Len(s) /\ Len(s) \in Nat /\ \A i \in 1..Len(s) : s[i] \in Cards /\ s[i] \in Range(s)
          /\ \A c \in Range(s) : \E i \in 1..Len(s) : s[i] = c
      BY <1>1, RangeIs
    <2>2. \A i \in 1..Len(s) : s[i] \in Nat
      BY <2>1, CardsNat
    <2>3. s \in Seq(Nat)
      BY <1>1, <2>1, <2>2
    <2> QED
      BY <1>1, <2>1, <2>2, <2>3
  <1>4. K \in SUBSET (1..Len(s))
    BY <1>3
  <1>5. first \in Seq(K) /\ Increasing(first)
    BY <1>3, <1>4, AscendingProps
  <1>6. DOMAIN v = DOMAIN first /\ w.msg = row[s[first[j]]].msg /\ w.cards = next(j) - first[j]
    BY <1>2
  <1> HIDE DEF first, v
  <1>7. /\ DOMAIN first = 1..Len(first) /\ Len(first) \in Nat
        /\ \A k \in 1..Len(first) : first[k] \in K /\ first[k] \in 1..Len(s)
    BY <1>4, <1>5, RangeIs
  <1>8. \A k \in K : k \in 1..Len(s) /\ (k = 1 \/ row[s[k]].msg # row[s[k - 1]].msg)
    BY <1>4
  <1> HIDE DEF K
  <1> DEFINE a == first[j]
             b == next(j)
  <1>9. /\ a \in K /\ a \in 1..Len(s) /\ b \in Nat /\ a < b
        /\ b = Len(s) + 1 \/ (b \in K /\ b \in 1..Len(s))
    <2>0. j \in 1..Len(first)
      BY <1>2, <1>6, <1>7
    <2>1. a \in K /\ a \in 1..Len(s)
      BY <1>7, <2>0
    <2>2. CASE j < Len(first)
      <3>1. j + 1 \in 1..Len(first) /\ j < j + 1
        BY <1>7, <2>0, <2>2
      <3>2. b = first[j + 1]
        BY <2>2
      <3>3. b \in K /\ b \in 1..Len(s) /\ a < b
        BY <1>5, <1>7, <2>0, <3>1, <3>2 DEF Increasing
      <3> QED
        BY <1>3, <2>1, <3>3
    <2>3. CASE ~(j < Len(first))
      <3>1. b = Len(s) + 1
        BY <2>3
      <3> HIDE DEF a, b
      <3> QED
        BY <1>3, <2>1, <3>1
    <2> QED
      BY <2>2, <2>3
  <1>10. w.msg = row[s[a]].msg /\ w.cards = b - a
    BY <1>6
  <1> HIDE DEF a, b
  <1> DEFINE i == row[s[a]].msg
  <1>11. i \in DOMAIN sent /\ Holds(i, s[a])
    BY <1>3, <1>9 DEF FeedInv, RowsTrue
  <1> HIDE DEF i
  <1>12. ASSUME sent[i].shown PROVE Len(sent[i].cards) <= b - a
    <2>1. \A c : Holds(i, c) => c \in Cards /\ row[c] = [state |-> "SHOWN", msg |-> i]
      BY <1>3, <1>9, <1>11, <1>12, AllMarked
    <2>2. sent[i].cards \in Seq(Cards) /\ Increasing(sent[i].cards)
      BY <1>11, MessageIs DEF FeedInv
    <2>3. ASSUME NEW c, Holds(i, c) PROVE \E t \in a..(b - 1) : s[t] = c
      <3>1. PICK t \in 1..Len(s) : s[t] = c
        BY <1>3, <2>1, <2>3
      <3>2. t \in Nat /\ a \in Nat /\ a >= 1 /\ b \in Nat
        BY <1>3, <1>9
      <3>3. ~(t < a)
        <4> SUFFICES ASSUME t < a PROVE FALSE
          OBVIOUS
        <4> DEFINE d == a - 1
        <4>1. d \in 1..Len(s) /\ t <= d /\ d < a /\ a # 1
          BY <1>3, <1>9, <3>2
        <4>2. row[s[a]].msg # row[s[d]].msg
          BY <1>8, <1>9, <4>1
        <4> HIDE DEF d
        <4>3. s[t] <= s[d] /\ s[d] <= s[a]
          <5>1. d <= a
            BY <3>2, <4>1
          <5> QED
            BY <1>1, <1>3, <1>9, <3>1, <4>1, <5>1, IncreasingSeq
        <4>4. row[s[d]].msg = i
          BY <1>3, <1>11, <2>3, <3>1, <4>1, <4>3, Between
        <4> QED
          BY <4>2, <4>4 DEF i
      <3>4. t < b
        <4> SUFFICES ASSUME ~(t < b) PROVE FALSE
          OBVIOUS
        <4>1. b \in K /\ b \in 1..Len(s) /\ b <= t
          BY <1>3, <1>9, <3>1, <3>2
        <4> DEFINE d == b - 1
        <4>2. d \in 1..Len(s) /\ a <= d /\ d <= t /\ b # 1
          BY <1>3, <1>9, <3>2, <4>1
        <4>3. row[s[b]].msg # row[s[d]].msg
          BY <1>8, <4>1, <4>2
        <4> HIDE DEF d
        <4>4. s[a] <= s[d] /\ s[d] <= s[t] /\ s[a] <= s[b] /\ s[b] <= s[t]
          <5>1. a <= b
            BY <1>9, <3>2
          <5> QED
            BY <1>1, <1>3, <1>9, <3>1, <4>1, <4>2, <5>1, IncreasingSeq
        <4>5. row[s[d]].msg = i /\ row[s[b]].msg = i
          BY <1>3, <1>11, <2>3, <3>1, <4>1, <4>2, <4>4, Between
        <4> QED
          BY <4>3, <4>5
      <3>5. t \in a..(b - 1)
        BY <3>2, <3>3, <3>4
      <3> QED
        BY <3>1, <3>5
    <2> DEFINE q == sent[i].cards
    <2>4. q \in Seq(Nat) /\ Increasing(q) /\ \A x \in 1..Len(q) : \E k \in a..(b - 1) : s[k] = q[x]
      <3>1. DOMAIN q = 1..Len(q) /\ \A x \in 1..Len(q) : q[x] \in Cards /\ q[x] \in Range(q)
        BY <2>2, RangeIs
      <3>2. \A x \in 1..Len(q) : q[x] \in Nat
        BY <3>1, CardsNat
      <3>3. q \in Seq(Nat)
        BY <2>2, <3>1, <3>2
      <3> QED
        BY <2>2, <2>3, <3>1, <3>3 DEF Holds
    <2>5. a \in Nat /\ b \in Nat /\ a <= b
      BY <1>3, <1>9
    <2> HIDE DEF q
    <2>6. Len(q) <= b - a
      BY <1>1, <2>4, <2>5, Enough
    <2> QED
      BY <2>6 DEF q
  <1>13. w.msg = i /\ w.cards = b - a
    BY <1>10 DEF i
  <1> QED
    BY <1>11, <1>12, <1>13

LEMMA RestoreWindow ==
  ASSUME TypeOK, NEW p \in Processes, NEW stale, NEW expired, NEW failed,
         Restore(p, stale, expired, failed)
  PROVE  Range(mem'[p].window) \subseteq Range(Shown)
  <1> DEFINE queued == Open("QUEUED")
             keep == SubSeq(Shown, expired + 1, Len(Shown))
             trim == CHOOSE k \in 0..Len(keep) :
                         /\ CardsIn(SubSeq(keep, k + 1, Len(keep))) <= MaxItems
                         /\ k = 0 \/ CardsIn(SubSeq(keep, k, Len(keep))) > MaxItems
             w == SubSeq(keep, trim + 1, Len(keep))
             remove == Ids(Shown) \ Ids(w)
             m == [Off EXCEPT !.pc = "idle", !.window = w,
                              !.pending = SubSeq(queued, stale + 1, Len(queued)),
                              !.saved = Range(SubSeq(queued, stale + 1, Len(queued))),
                              !.drops = Range(SubSeq(queued, 1, stale)),
                              !.orphans = failed, !.gone = remove \ failed]
  <1>1. expired \in 0..Len(Shown) /\ Hold(p, m)
    <2>1. expired \in 0..Len(Shown)
      BY DEF Restore
    <2>2. Hold(p, m)
      BY ZenonT(30) DEF Restore
    <2> QED
      BY <2>1, <2>2
  <1>2. Shown \in Windows
    BY ShownProps
  <1>3. keep \in Windows /\ Range(keep) \subseteq Range(Shown)
    BY <1>1, <1>2, CutWindow, CutEntries
  <1> HIDE DEF keep
  <1>4. trim \in 0..Len(keep)
    BY <1>3, TrimIs
  <1> HIDE DEF trim
  <1>5. Range(w) \subseteq Range(keep)
    BY <1>3, <1>4, CutEntries
  <1>6. mem'[p] = m
    <2> HIDE DEF m
    <2> QED
      BY <1>1, HoldIs
  <1>7. mem'[p].window = w
    <2> HIDE DEF w, queued
    <2> QED
      BY <1>6 DEF Off
  <1> QED
    BY <1>3, <1>5, <1>7

LEMMA StartRoom ==
  ASSUME FeedInv, TypeOK', Room, NEW p \in Processes, Start(p)
  PROVE  Room'
  <1> SUFFICES ASSUME harm' = {}
               PROVE  /\ (VisibleCards <= MaxItems)'
                      /\ \A q \in Processes : RoomFor(q)'
                      /\ \A i \in DOMAIN sent' : sent'[i].shown => Marked(i)'
    BY DEF Room
  <1>1. TypeOK
    BY DEF FeedInv
  <1>2. /\ Starts(p) /\ UNCHANGED row /\ harm = {}
        /\ \A q \in Processes : ~Running(q)
    BY <1>1, StartEffect
  <1>3. /\ Others(p) /\ mem'[p].pc = "idle" /\ mem'[p].marks = <<>> /\ Keeps
    BY <1>2 DEF Starts
  <1>4. /\ VisibleCards <= MaxItems
        /\ \A q \in Processes : RoomFor(q)
        /\ \A i \in DOMAIN sent : sent[i].shown => Marked(i)
    BY <1>2 DEF Room
  <1>5. \A q \in Processes : mem[q] = Off
    BY <1>2 DEF FeedInv, Waiting, Orderly, Running
  <1>6. Range(mem'[p].window) \subseteq Range(Shown)
    <2>1. \E stale, expired, failed : Restore(p, stale, expired, failed)
      BY DEF Start, Started
    <2> QED
      BY <1>1, <2>1, RestoreWindow
  <1>7. (VisibleCards <= MaxItems)'
    <2>1. VisibleCards' <= VisibleCards
      BY <1>1, <1>3, SeenLess
    <2>2. VisibleCards \in Nat /\ VisibleCards' \in Nat
      <3>1. SeenFacts /\ SeenFacts'
        BY <1>1, SeenIs, PTL
      <3> QED
        BY <3>1 DEF SeenFacts
    <2>3. MaxItems \in Nat
      BY FeedAssumption
    <2> QED
      BY <1>4, <2>1, <2>2, <2>3
  <1>8. ASSUME NEW q \in Processes PROVE RoomFor(q)'
    <2>1. CASE q = p
      <3>1. \A w \in Range(mem'[p].window) :
               w.msg \in DOMAIN sent' /\ (sent'[w.msg].shown => Len(sent'[w.msg].cards) <= w.cards)
        <4>1. \A w \in Range(Shown) :
                 w.msg \in DOMAIN sent /\ (sent[w.msg].shown => Len(sent[w.msg].cards) <= w.cards)
          BY <1>2, ShownCounts
        <4> QED
          BY <1>3, <1>6, <4>1 DEF Keeps
      <3> QED
        BY <1>3, <2>1, <3>1, EmptyIs DEF RoomFor
    <2>2. CASE q # p
      <3>1. mem'[q] = Off
        BY <1>3, <1>5, <2>2 DEF Others
      <3> QED
        BY <3>1, OffIs, EmptyIs DEF RoomFor
    <2> QED
      BY <2>1, <2>2
  <1>9. ASSUME NEW i \in DOMAIN sent', sent'[i].shown PROVE Marked(i)'
    <2>1. i \in DOMAIN sent /\ sent[i].shown /\ sent'[i].cards = sent[i].cards
      BY <1>3, <1>9 DEF Keeps
    <2>2. \A q \in Processes : Range(mem[q].marks) = {}
      BY <1>5, OffIs, EmptyIs
    <2> QED
      BY <1>2, <1>4, <2>1, <2>2 DEF Marked
  <1> QED
    BY <1>7, <1>8, <1>9

LEMMA InitRoom == Init => Room
  <1> SUFFICES ASSUME Init PROVE Room
    OBVIOUS
  <1>1. sent = <<>> /\ DOMAIN sent = {} /\ mem = [p \in Processes |-> Off]
    BY DEF Init
  <1>2. VisibleCards = 0
    <2>1. UNION {{i} \X DOMAIN sent[i].cards : i \in {n \in DOMAIN sent : sent[n].shown}} = {}
      BY <1>1
    <2> QED
      BY <2>1, FS_EmptySet DEF VisibleCards
  <1>3. 0 <= MaxItems
    BY FeedAssumption
  <1>4. ASSUME NEW p \in Processes PROVE RoomFor(p)
    <2>1. mem[p].pc = "off" /\ mem[p].window = <<>> /\ mem[p].marks = <<>>
      BY <1>1, OffIs
    <2> QED
      BY <2>1, EmptyIs DEF RoomFor
  <1> QED
    BY <1>1, <1>2, <1>3, <1>4 DEF Room

LEMMA StepRoom ==
  ASSUME FeedInv, FeedInv', Room, [Next]_vars
  PROVE  Room'
  <1>1. TypeOK /\ TypeOK' /\ Waiting
    BY DEF FeedInv
  <1>2. ASSUME NEW p \in Processes, Pass(p) PROVE Room'
    <2>1. ASSUME NEW final \in BOOLEAN, NEW failed \in SUBSET mem[p].orphans, RetryOrphans(p, final, failed)
          PROVE  Room'
      BY <1>1, <2>1, RetryEases, EasesRoom
    <2>2. ASSUME NEW n \in 1..Len(mem[p].window), NEW failed \in SUBSET Ids(mem[p].window),
                 ExpireImmediate(p, n, failed)
          PROVE  Room'
      BY <1>1, <2>2, ExpireEases, EasesRoom
    <2>3. CASE JournalPending(p)
      BY <1>1, <2>3, RecordRoom
    <2>4. CASE JournalPosted(p)
      BY <1>1, <2>4, PostedRoom
    <2>5. CASE JournalRemoved(p)
      BY <1>1, <2>5, RemovedRoom
    <2>6. CASE JournalDropped(p)
      BY <1>1, <2>6, DroppedRoom
    <2>7. CASE StopPass(p) \/ SendFails(p) \/ Reject(p) \/ BoundPending(p)
      BY <1>1, <2>7, StopEases, EasesRoom
    <2>8. ASSUME NEW failed \in SUBSET Ids(mem[p].window), MakeRoom(p, failed)
          PROVE  Room'
      BY <1>1, <2>8, MakeRoomEases, EasesRoom
    <2>9. CASE SendGroup(p)
      BY <1>1, <2>9, SendRoom
    <2>10. CASE LoseAnswer(p)
      BY <1>1, <2>10, LoseRoom
    <2> QED
      BY <1>2, <2>1, <2>2, <2>3, <2>4, <2>5, <2>6, <2>7, <2>8, <2>9, <2>10 DEF Pass
  <1>3. ASSUME NEW p \in Processes, EnqueueTimed(p) PROVE Room'
    BY <1>1, <1>3, EnqueueEases, EasesRoom
  <1>4. ASSUME NEW p \in Processes, Start(p) PROVE Room'
    BY <1>1, <1>4, StartRoom
  <1>5. ASSUME NEW p \in Processes, Exit(p) PROVE Room'
    BY <1>1, <1>5, ExitEases, EasesRoom
  <1>6. ASSUME NEW p \in Processes, Crash(p) PROVE Room'
    BY <1>6 DEF Crash, Harm, Room
  <1>7. CASE Forget
    BY <1>7 DEF Forget, Harm, Room
  <1>8. CASE UNCHANGED vars
    <2>1. UNCHANGED <<mem, row, sent, harm>>
      BY <1>8 DEF vars
    <2>2. VisibleCards' = VisibleCards
      BY <2>1 DEF VisibleCards
    <2>3. \A p \in Processes : RoomFor(p) => RoomFor(p)'
      BY <2>1 DEF RoomFor, CardsIn
    <2>4. \A i \in DOMAIN sent : Marked(i) => Marked(i)'
      BY <2>1 DEF Marked
    <2> QED
      BY <2>1, <2>2, <2>3, <2>4 DEF Room
  <1> QED
    BY <1>2, <1>3, <1>4, <1>5, <1>6, <1>7, <1>8 DEF Next

LEMMA RoomSafe == Spec => []Room
  BY InitRoom, StepRoom, FeedSafe, PTL DEF Spec

\* While nothing goes wrong the channel never shows more cards than it may,
\* however many processes come and go: a group is sent only by a process whose
\* window counts every message shown and leaves room for it (makeRoom,
\* postImmediate, restoreJournal).
THEOREM CapacitySafe == Spec => []Capacity
  <1>1. Room => Capacity
    BY DEF Room, Capacity
  <1> QED
    BY <1>1, RoomSafe, PTL
=============================================================================
