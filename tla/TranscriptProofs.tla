--------------------------- MODULE TranscriptProofs ---------------------------
(***************************************************************************)
(* What the ordering of a transcript's entries gives: the two entries of   *)
(* every round, which may have been argued in either order, come out with  *)
(* the proponent first, so that entries argued in different orders make    *)
(* the same structure.  Cited by the proofs about the service, which       *)
(* renders the structure, and about the readers of what it rendered.       *)
(***************************************************************************)
EXTENDS Transcript, FiniteSetTheorems, TLAPS

\* The round, and the side, that the ordered structure has at a place, and the
\* place of the other entry of that round.
RoundAt(k) == (k + 1) \div 2
SideAt(k) == IF k % 2 = 1 THEN "proponent" ELSE "skeptic"
Mate(k) == IF k % 2 = 1 THEN k + 1 ELSE k - 1

\* Entries of one round after another, the two sides of a round in any order.
InTurn(rounds) ==
  /\ \A i \in DOMAIN rounds :
       rounds[i].side \in Sides /\ rounds[i].round = RoundAt(i)
  /\ \A i, j \in DOMAIN rounds :
       i # j /\ rounds[i].round = rounds[j].round => rounds[i].side # rounds[j].side

LEMMA IntervalSize == ASSUME NEW n \in Nat
                      PROVE  IsFiniteSet(1..n) /\ Cardinality(1..n) = n
BY FS_Interval

\* A round has two places, the odd one for the proponent.
LEMMA TwoPlaces ==
  ASSUME NEW n \in Nat, NEW k \in 1..(2 * n)
  PROVE  /\ RoundAt(k) \in 1..n
         /\ k % 2 = 1 => k = 2 * RoundAt(k) - 1 /\ Mate(k) = 2 * RoundAt(k)
         /\ k % 2 # 1 => k = 2 * RoundAt(k) /\ Mate(k) = 2 * RoundAt(k) - 1
         /\ Mate(k) \in 1..(2 * n) /\ Mate(k) # k
         /\ RoundAt(Mate(k)) = RoundAt(k)
<1> DEFINE r == RoundAt(k)
<1>1. CASE k % 2 = 1
  <2>1. k = 2 * r - 1 /\ r \in 1..n
    BY <1>1 DEF RoundAt
  <2>2. Mate(k) = 2 * r
    BY <1>1, <2>1 DEF Mate
  <2>3. RoundAt(2 * r) = r
    BY <2>1 DEF RoundAt
  <2> QED  BY <1>1, <2>1, <2>2, <2>3
<1>2. CASE k % 2 # 1
  <2>1. k = 2 * r /\ r \in 1..n
    BY <1>2 DEF RoundAt
  <2>2. Mate(k) = 2 * r - 1
    BY <1>2, <2>1 DEF Mate
  <2>3. RoundAt(2 * r - 1) = r
    BY <2>1 DEF RoundAt
  <2> QED  BY <1>2, <2>1, <2>2, <2>3
<1> QED  BY <1>1, <1>2

LEMMA PlacesOfRound ==
  ASSUME NEW r \in Nat, NEW k \in Nat \ {0}
  PROVE  RoundAt(k) = r + 1 <=> k \in {2 * r + 1, 2 * r + 2}
BY DEF RoundAt

\* An entry comes last of its round when the skeptic wrote it, else last but one.
LEMMA PlaceInTurn ==
  ASSUME NEW n \in Nat, NEW rounds, DOMAIN rounds = 1..(2 * n), InTurn(rounds),
         NEW i \in 1..(2 * n)
  PROVE  Place(rounds, i) =
           IF rounds[i].side = "skeptic" THEN 2 * rounds[i].round ELSE 2 * rounds[i].round - 1
<1> DEFINE r == rounds[i].round
           Before == {j \in 1..(2 * n) :
                        \/ Earlier(rounds[j], rounds[i])
                        \/ j <= i /\ ~Earlier(rounds[i], rounds[j])}
           p == Mate(i)
<1>1. /\ p \in 1..(2 * n) /\ p # i
      /\ rounds[i].round = r /\ rounds[p].round = r
      /\ r \in 1..n
      /\ (i = 2 * r - 1 /\ p = 2 * r) \/ (i = 2 * r /\ p = 2 * r - 1)
  <2>1. /\ RoundAt(i) \in 1..n /\ p \in 1..(2 * n) /\ p # i /\ RoundAt(p) = RoundAt(i)
        /\ \/ i = 2 * RoundAt(i) - 1 /\ p = 2 * RoundAt(i)
           \/ i = 2 * RoundAt(i) /\ p = 2 * RoundAt(i) - 1
    BY TwoPlaces
  <2>2. r = RoundAt(i) /\ rounds[p].round = RoundAt(p)
    BY <2>1 DEF InTurn
  <2> QED  BY <2>1, <2>2
<1>2. \A j \in 1..(2 * n) : rounds[j].round = RoundAt(j)
  BY DEF InTurn
<1>3. /\ rounds[i].side \in Sides /\ rounds[p].side \in Sides
      /\ rounds[i].side # rounds[p].side
  BY <1>1 DEF InTurn
<1> HIDE DEF r, p
<1>4. \A j \in 1..(2 * n) : /\ j < 2 * r - 1 => rounds[j].round < r
                            /\ j > 2 * r => rounds[j].round > r
                            /\ j = i \/ j = p \/ j < 2 * r - 1 \/ j > 2 * r
                            /\ rounds[j].round \in Int
  <2> SUFFICES ASSUME NEW j \in 1..(2 * n)
               PROVE  /\ j < 2 * r - 1 => RoundAt(j) < r
                      /\ j > 2 * r => RoundAt(j) > r
                      /\ j = i \/ j = p \/ j < 2 * r - 1 \/ j > 2 * r
                      /\ RoundAt(j) \in Int
    BY <1>2
  <2>1. RoundAt(j) \in 1..n /\ (j = 2 * RoundAt(j) - 1 \/ j = 2 * RoundAt(j))
    BY TwoPlaces
  <2> QED  BY <1>1, <2>1
<1>5. Place(rounds, i) = Cardinality(Before)
  BY DEF Place
<1>6. CASE rounds[i].side = "skeptic"
  <2>1. Before = 1..(2 * r)
    BY <1>1, <1>3, <1>4, <1>6 DEF Earlier, Sides
  <2> HIDE DEF Before
  <2>2. 2 * r \in Nat
    BY <1>1
  <2>3. Cardinality(Before) = 2 * r
    BY <2>1, <2>2, IntervalSize
  <2> QED  BY <1>1, <1>5, <1>6, <2>3
<1>7. CASE rounds[i].side = "proponent"
  <2>1. Before = 1..(2 * r - 2) \cup {i} /\ i \notin 1..(2 * r - 2)
    BY <1>1, <1>3, <1>4, <1>7 DEF Earlier, Sides
  <2> HIDE DEF Before
  <2> DEFINE m == 2 * r - 2
  <2>2. m \in Nat /\ m + 1 = 2 * r - 1
    BY <1>1
  <2> HIDE DEF m
  <2>3. Before = 1..m \cup {i} /\ i \notin 1..m
    BY <2>1 DEF m
  <2>4. IsFiniteSet(1..m) /\ Cardinality(1..m) = m
    BY <2>2, IntervalSize
  <2>5. Cardinality(Before) = m + 1
    BY <2>3, <2>4, FS_AddElement
  <2> QED  BY <1>1, <1>5, <1>7, <2>2, <2>5
<1> QED  BY <1>3, <1>6, <1>7 DEF Sides

\* The ordered structure holds the entries, round by round, the proponent first.
RoundByRound(rounds, n) ==
  /\ DOMAIN BuildRoundsStruct(rounds) = 1..(2 * n)
  /\ \A k \in 1..(2 * n) : \E j \in 1..(2 * n) :
       /\ BuildRoundsStruct(rounds)[k] = rounds[j]
       /\ rounds[j].round = RoundAt(k)
       /\ rounds[j].side = SideAt(k)

LEMMA StructInOrder ==
  ASSUME NEW n \in Nat, NEW rounds, DOMAIN rounds = 1..(2 * n), InTurn(rounds)
  PROVE  RoundByRound(rounds, n)
<1>1. DOMAIN BuildRoundsStruct(rounds) = 1..(2 * n)
  BY DEF BuildRoundsStruct
<1>2. SUFFICES ASSUME NEW k \in 1..(2 * n)
      PROVE  \E j \in 1..(2 * n) : /\ BuildRoundsStruct(rounds)[k] = rounds[j]
                                   /\ rounds[j].round = RoundAt(k)
                                   /\ rounds[j].side = SideAt(k)
  BY <1>1 DEF RoundByRound
<1> DEFINE r == RoundAt(k)
           p == Mate(k)
           i == IF rounds[k].side = SideAt(k) THEN k ELSE p
<1>3. /\ p \in 1..(2 * n) /\ p # k
      /\ rounds[k].round = r /\ rounds[p].round = r
      /\ r \in 1..n /\ k = (IF k % 2 = 1 THEN 2 * r - 1 ELSE 2 * r)
  BY TwoPlaces DEF InTurn
<1>4. /\ rounds[k].side \in Sides /\ rounds[p].side \in Sides
      /\ rounds[k].side # rounds[p].side
  BY <1>3 DEF InTurn
<1> HIDE DEF r, p
<1>5. i \in 1..(2 * n) /\ rounds[i].round = r /\ rounds[i].side = SideAt(k)
  BY <1>3, <1>4 DEF Sides, SideAt
<1> HIDE DEF i
<1>6. Place(rounds, i) = k
  BY <1>3, <1>5, PlaceInTurn DEF SideAt
<1> DEFINE j == CHOOSE m \in 1..(2 * n) : Place(rounds, m) = k
<1>7. j \in 1..(2 * n) /\ Place(rounds, j) = k
  BY <1>5, <1>6
<1>8. BuildRoundsStruct(rounds)[k] = rounds[j]
  BY DEF BuildRoundsStruct
<1> HIDE DEF j
<1>9. rounds[j].side \in Sides /\ rounds[j].round \in 1..n
  BY <1>7, TwoPlaces DEF InTurn
<1>10. rounds[j].round = r /\ rounds[j].side = SideAt(k)
  <2>1. k = IF rounds[j].side = "skeptic" THEN 2 * rounds[j].round
                                          ELSE 2 * rounds[j].round - 1
    BY <1>7, PlaceInTurn
  <2> DEFINE at == rounds[j].round
  <2>2. at \in Int /\ r \in Int
    BY <1>3, <1>9
  <2>3. CASE rounds[j].side = "skeptic"
    <3>1. k = 2 * at
      BY <2>1, <2>3
    <3> HIDE DEF at
    <3>2. k % 2 # 1
      BY <2>2, <3>1
    <3>3. k = 2 * r
      BY <1>3, <3>2
    <3>4. at = r
      BY <2>2, <3>1, <3>3
    <3> QED  BY <2>3, <3>2, <3>4 DEF SideAt, at
  <2>4. CASE rounds[j].side = "proponent"
    <3>1. k = 2 * at - 1
      BY <2>1, <2>4
    <3> HIDE DEF at
    <3>2. k % 2 = 1
      BY <2>2, <3>1
    <3>3. k = 2 * r - 1
      BY <1>3, <3>2
    <3>4. at = r
      BY <2>2, <3>1, <3>3
    <3> QED  BY <2>4, <3>2, <3>4 DEF SideAt, at
  <2> QED  BY <1>9, <2>3, <2>4 DEF Sides
<1> QED  BY <1>7, <1>8, <1>10 DEF r

\* Two entries of a round, each written on the whole of the earlier rounds, are
\* determined by their place: whatever the order they were argued in, the
\* ordered structure is the same.
Blind(rounds) == \A i \in DOMAIN rounds : rounds[i].argument = 2 * (rounds[i].round - 1)
InOrder(n) == [k \in 1..(2 * n) |-> [side |-> SideAt(k), round |-> RoundAt(k),
                                     argument |-> 2 * (RoundAt(k) - 1)]]

LEMMA BlindStruct ==
  ASSUME NEW n \in Nat, NEW rounds, DOMAIN rounds = 1..(2 * n), InTurn(rounds), Blind(rounds)
  PROVE  /\ DOMAIN BuildRoundsStruct(rounds) = 1..(2 * n)
         /\ \A k \in 1..(2 * n) :
              /\ BuildRoundsStruct(rounds)[k].round = RoundAt(k)
              /\ BuildRoundsStruct(rounds)[k].side = SideAt(k)
              /\ BuildRoundsStruct(rounds)[k].argument = 2 * (RoundAt(k) - 1)
              /\ \E j \in 1..(2 * n) : BuildRoundsStruct(rounds)[k] = rounds[j]
<1>1. RoundByRound(rounds, n)
  BY StructInOrder
<1>2. \A j \in 1..(2 * n) : rounds[j].argument = 2 * (rounds[j].round - 1)
  BY DEF Blind
<1> QED  BY <1>1, <1>2 DEF RoundByRound

LEMMA StructOfBlindRounds ==
  ASSUME NEW n \in Nat, NEW rounds \in Seq(Entry), Len(rounds) = 2 * n,
         InTurn(rounds), Blind(rounds)
  PROVE  BuildRoundsStruct(rounds) = InOrder(n)
<1> DEFINE struct == BuildRoundsStruct(rounds)
<1>1. DOMAIN rounds = 1..(2 * n)
  OBVIOUS
<1>2. /\ DOMAIN struct = 1..(2 * n)
      /\ \A k \in 1..(2 * n) :
           /\ struct[k].round = RoundAt(k) /\ struct[k].side = SideAt(k)
           /\ struct[k].argument = 2 * (RoundAt(k) - 1)
           /\ \E j \in 1..(2 * n) : struct[k] = rounds[j]
  BY <1>1, BlindStruct
<1>3. struct = [k \in 1..(2 * n) |-> struct[k]]
  BY <1>1 DEF BuildRoundsStruct
<1> HIDE DEF struct
<1>4. ASSUME NEW k \in 1..(2 * n)
      PROVE  struct[k] = [side |-> SideAt(k), round |-> RoundAt(k),
                          argument |-> 2 * (RoundAt(k) - 1)]
  <2>1. struct[k] \in Entry
    BY <1>1, <1>2
  <2> QED  BY <1>2, <2>1 DEF Entry
<1> QED  BY <1>3, <1>4 DEF InOrder, struct

\* The places of whole rounds, in order, are entries of one round after another.
LEMMA InOrderIsInTurn ==
  ASSUME NEW n \in Nat
  PROVE  /\ InOrder(n) \in Seq(Entry) /\ Len(InOrder(n)) = 2 * n
         /\ InTurn(InOrder(n)) /\ Blind(InOrder(n))
<1>1. \A k \in 1..(2 * n) : RoundAt(k) \in 1..n /\ SideAt(k) \in Sides
  BY TwoPlaces DEF SideAt, Sides
<1>2. \A k \in 1..(2 * n) : InOrder(n)[k] =
         [side |-> SideAt(k), round |-> RoundAt(k), argument |-> 2 * (RoundAt(k) - 1)]
  BY DEF InOrder
<1>3. ASSUME NEW k \in 1..(2 * n) PROVE InOrder(n)[k] \in Entry
  <2> DEFINE r == RoundAt(k)
  <2>1. r \in 1..n /\ SideAt(k) \in Sides
        /\ InOrder(n)[k] = [side |-> SideAt(k), round |-> r, argument |-> 2 * (r - 1)]
    BY <1>1, <1>2
  <2> HIDE DEF r
  <2> QED  BY <2>1 DEF Entry
<1>4. DOMAIN InOrder(n) = 1..(2 * n) /\ InOrder(n) \in [1..(2 * n) -> Entry]
  BY <1>3 DEF InOrder
<1>5. InOrder(n) \in Seq(Entry) /\ Len(InOrder(n)) = 2 * n
  <2> DEFINE m == 2 * n
             f == InOrder(n)
  <2>1. m \in Nat /\ f \in [1..m -> Entry]
    BY <1>4
  <2> HIDE DEF m, f
  <2>2. f \in Seq(Entry) /\ Len(f) = m
    BY <2>1
  <2> QED  BY <2>2 DEF m, f
<1>6. ASSUME NEW i \in 1..(2 * n), NEW j \in 1..(2 * n), i # j, RoundAt(i) = RoundAt(j)
      PROVE  SideAt(i) # SideAt(j)
  <2>1. /\ i % 2 = 1 => i = 2 * RoundAt(i) - 1
        /\ i % 2 # 1 => i = 2 * RoundAt(i)
        /\ j % 2 = 1 => j = 2 * RoundAt(i) - 1
        /\ j % 2 # 1 => j = 2 * RoundAt(i)
    BY <1>6, TwoPlaces
  <2> QED  BY <1>6, <2>1 DEF SideAt
<1>7. InTurn(InOrder(n)) /\ Blind(InOrder(n))
  BY <1>1, <1>2, <1>4, <1>6 DEF InTurn, Blind
<1> QED  BY <1>5, <1>7

-----------------------------------------------------------------------------
(* The markdown, which groups by round and sorts by side on its own.        *)

LEMMA PairSize ==
  ASSUME NEW a, NEW b, a # b
  PROVE  Cardinality({a, b}) = 2
<1>1. IsFiniteSet({a}) /\ Cardinality({a}) = 1 /\ b \notin {a}
  BY FS_Singleton
<1>2. Cardinality({a} \cup {b}) = 2
  BY <1>1, FS_AddElement
<1>3. {a} \cup {b} = {a, b}
  OBVIOUS
<1> QED  BY <1>2, <1>3

\* A round has its two places, and its number is one of 1..n.
LEMMA RoundsAre ==
  ASSUME NEW n \in Nat, NEW rounds, DOMAIN rounds = 1..(2 * n), InTurn(rounds)
  PROVE  /\ RoundNumbers(rounds) = 1..n
         /\ \A r \in 1..n : OfRound(rounds, r) = {2 * r - 1, 2 * r}
<1>1. \A i \in 1..(2 * n) : rounds[i].round = RoundAt(i)
  BY DEF InTurn
<1>2. ASSUME NEW r \in 1..n
      PROVE  /\ 2 * r - 1 \in 1..(2 * n) /\ 2 * r \in 1..(2 * n)
             /\ \A i \in 1..(2 * n) : RoundAt(i) = r <=> i \in {2 * r - 1, 2 * r}
  <2> DEFINE q == r - 1
  <2>1. /\ 2 * r - 1 \in 1..(2 * n) /\ 2 * r \in 1..(2 * n)
        /\ q \in Nat /\ q + 1 = r
        /\ 2 * q + 1 = 2 * r - 1 /\ 2 * q + 2 = 2 * r
    OBVIOUS
  <2> HIDE DEF q
  <2>2. \A i \in 1..(2 * n) : i \in Nat \ {0}
    OBVIOUS
  <2>3. \A i \in 1..(2 * n) : RoundAt(i) = q + 1 <=> i \in {2 * q + 1, 2 * q + 2}
    BY <2>1, <2>2, PlacesOfRound
  <2> QED  BY <2>1, <2>3
<1>3. \A r \in 1..n : OfRound(rounds, r) = {2 * r - 1, 2 * r}
  BY <1>1, <1>2 DEF OfRound
<1>4. RoundNumbers(rounds) = 1..n
  <2>1. \A i \in 1..(2 * n) : RoundAt(i) \in 1..n
    BY TwoPlaces
  <2>2. \A r \in 1..n : \E i \in 1..(2 * n) : RoundAt(i) = r
    BY <1>2
  <2> QED  BY <1>1, <2>1, <2>2 DEF RoundNumbers
<1> QED  BY <1>3, <1>4

\* Of consecutive numbers the k-th is k.
LEMMA KthRound ==
  ASSUME NEW n \in Nat, NEW rounds, RoundNumbers(rounds) = 1..n, NEW k \in 1..n
  PROVE  NthRound(rounds, k) = k
<1>1. ASSUME NEW m \in 1..n
      PROVE  Cardinality({l \in 1..n : l < m}) = m - 1
  <2> DEFINE p == m - 1
  <2>1. p \in Nat /\ {l \in 1..n : l < m} = 1..p
    OBVIOUS
  <2> HIDE DEF p
  <2>2. Cardinality({l \in 1..n : l < m}) = p
    BY <2>1, IntervalSize
  <2> QED  BY <2>2 DEF p
<1> DEFINE N == CHOOSE m \in 1..n : Cardinality({l \in 1..n : l < m}) = k - 1
<1>2. N \in 1..n /\ Cardinality({l \in 1..n : l < N}) = k - 1
  BY <1>1
<1>3. NthRound(rounds, k) = N
  BY DEF NthRound
<1> HIDE DEF N
<1>4. N - 1 = k - 1
  BY <1>1, <1>2
<1>5. N = k
  BY <1>2, <1>4
<1> QED  BY <1>3, <1>5

\* Sorted by side, the proponent's entry of a round is the first.
LEMMA PlaceOfSide ==
  ASSUME NEW n \in Nat, NEW rounds, DOMAIN rounds = 1..(2 * n), InTurn(rounds),
         NEW i \in 1..(2 * n)
  PROVE  PlaceBySide(rounds, i) = IF rounds[i].side = "skeptic" THEN 2 ELSE 1
<1> DEFINE r == rounds[i].round
           p == Mate(i)
           before(a, b) == a.side = "proponent" /\ b.side = "skeptic"
           Before == {j \in OfRound(rounds, r) :
                        \/ before(rounds[j], rounds[i])
                        \/ j <= i /\ ~before(rounds[i], rounds[j])}
<1>1. /\ p \in 1..(2 * n) /\ p # i /\ r \in 1..n
      /\ OfRound(rounds, r) = {i, p}
      /\ rounds[p].round = r
  <2>1. /\ RoundAt(i) \in 1..n /\ p \in 1..(2 * n) /\ p # i /\ RoundAt(p) = RoundAt(i)
        /\ \/ i = 2 * RoundAt(i) - 1 /\ p = 2 * RoundAt(i)
           \/ i = 2 * RoundAt(i) /\ p = 2 * RoundAt(i) - 1
    BY TwoPlaces
  <2>2. r = RoundAt(i) /\ rounds[p].round = RoundAt(p)
    BY <2>1 DEF InTurn
  <2>3. OfRound(rounds, r) = {2 * r - 1, 2 * r}
    BY <2>1, <2>2, RoundsAre
  <2> QED  BY <2>1, <2>2, <2>3
<1>2. /\ rounds[i].side \in Sides /\ rounds[p].side \in Sides
      /\ rounds[i].side # rounds[p].side
  BY <1>1 DEF InTurn
<1>3. PlaceBySide(rounds, i) = Cardinality(Before)
  BY DEF PlaceBySide
<1> HIDE DEF r, p
<1>4. CASE rounds[i].side = "skeptic"
  <2>1. Before = {i, p}
    BY <1>1, <1>2, <1>4 DEF Sides
  <2> HIDE DEF Before
  <2> QED  BY <1>1, <1>3, <1>4, <2>1, PairSize
<1>5. CASE rounds[i].side = "proponent"
  <2>1. Before = {i}
    BY <1>1, <1>2, <1>5 DEF Sides
  <2> HIDE DEF Before
  <2> QED  BY <1>3, <1>5, <2>1, FS_Singleton
<1> QED  BY <1>2, <1>4, <1>5 DEF Sides

\* Whole rounds make the same section each, whoever argued first, and so the
\* same markdown.
SectionInOrder(r) ==
  [round |-> r,
   entries |-> [k \in 1..2 |-> [side |-> IF k = 1 THEN "proponent" ELSE "skeptic",
                                argument |-> 2 * (r - 1)]]]

LEMMA SectionOfBlindRounds ==
  ASSUME NEW n \in Nat, NEW rounds, DOMAIN rounds = 1..(2 * n), InTurn(rounds),
         Blind(rounds), NEW r \in 1..n
  PROVE  Section(rounds, r) = SectionInOrder(r)
<1> DEFINE at(k) == CHOOSE i \in OfRound(rounds, r) : PlaceBySide(rounds, i) = k
           side(k) == IF k = 1 THEN "proponent" ELSE "skeptic"
<1>1. OfRound(rounds, r) = {2 * r - 1, 2 * r}
  BY RoundsAre
<1>2. /\ 2 * r - 1 \in 1..(2 * n) /\ 2 * r \in 1..(2 * n) /\ 2 * r - 1 # 2 * r
      /\ rounds[2 * r - 1].round = r /\ rounds[2 * r].round = r
  BY <1>1 DEF OfRound
<1>3. /\ rounds[2 * r - 1].side \in Sides /\ rounds[2 * r].side \in Sides
      /\ rounds[2 * r - 1].side # rounds[2 * r].side
  BY <1>2 DEF InTurn
<1>4. Cardinality(OfRound(rounds, r)) = 2
  BY <1>1, <1>2, PairSize
<1>5. \A i \in OfRound(rounds, r) :
        /\ PlaceBySide(rounds, i) = IF rounds[i].side = "skeptic" THEN 2 ELSE 1
        /\ rounds[i].side \in Sides /\ rounds[i].argument = 2 * (r - 1)
  BY <1>1, <1>2, <1>3, PlaceOfSide DEF Blind
<1>6. ASSUME NEW k \in 1..2
      PROVE  rounds[at(k)].side = side(k) /\ rounds[at(k)].argument = 2 * (r - 1)
  <2>1. \E i \in OfRound(rounds, r) : PlaceBySide(rounds, i) = k
    BY <1>1, <1>3, <1>5 DEF Sides
  <2>2. at(k) \in OfRound(rounds, r) /\ PlaceBySide(rounds, at(k)) = k
    BY <2>1
  <2> HIDE DEF at
  <2> QED  BY <1>5, <2>2 DEF Sides
<1>7. Section(rounds, r) =
        [round |-> r,
         entries |-> [k \in 1..2 |-> [side |-> rounds[at(k)].side,
                                      argument |-> rounds[at(k)].argument]]]
  BY <1>4 DEF Section
<1> HIDE DEF at
<1> QED  BY <1>6, <1>7 DEF SectionInOrder

LEMMA MarkdownOfBlindRounds ==
  ASSUME NEW n \in Nat, NEW rounds, DOMAIN rounds = 1..(2 * n), InTurn(rounds),
         Blind(rounds), NEW v, NEW c
  PROVE  Markdown(rounds, v, c) =
           [sections |-> [k \in 1..n |-> SectionInOrder(k)], verdict |-> v, confidence |-> c]
<1>1. RoundNumbers(rounds) = 1..n /\ Cardinality(RoundNumbers(rounds)) = n
  BY RoundsAre, IntervalSize
<1>2. \A k \in 1..n : Section(rounds, NthRound(rounds, k)) = SectionInOrder(k)
  BY <1>1, KthRound, SectionOfBlindRounds
<1>3. [k \in 1..n |-> Section(rounds, NthRound(rounds, k))] = [k \in 1..n |-> SectionInOrder(k)]
  BY <1>2
<1> QED  BY <1>1, <1>3 DEF Markdown
=============================================================================
