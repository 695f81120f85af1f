---------------------------- MODULE EvidenceProofs ----------------------------
(***************************************************************************)
(* Proofs that a plan does not show the order its calls returned in, keeps *)
(* texts with their URLs and reports every failure, and that an argument's *)
(* citations are the sources it names: for any hits, pools, arguments and  *)
(* numbers of calls.                                                       *)
(*                                                                         *)
(* They rest on what the operators of Evidence and Citations give, which   *)
(* in turn rests on OrderedLists: to take each element at its rank lists a *)
(* finite set once and in order.  That is a matter of counting, as is that *)
(* n calls that returned once each are all of them, and needs no induction.*)
(***************************************************************************)
EXTENDS Evidence, FiniteSetTheorems, TLAPS

(* Listing a set in order                                                   *)

\* A relation that orders the elements of S one after the other.
OrdersAll(S, before) ==
  /\ \A x \in S : <<x, x>> \notin before
  /\ \A x, y \in S : x = y \/ <<x, y>> \in before \/ <<y, x>> \in before
  /\ \A x, y, z \in S : <<x, y>> \in before /\ <<y, z>> \in before => <<x, z>> \in before

\* s lists S, each element once, in the order before.
Lists(s, S, before) ==
  /\ s \in [1..Cardinality(S) -> S]
  /\ \A x \in S : \E k \in 1..Cardinality(S) : s[k] = x
  /\ \A k, l \in 1..Cardinality(S) : k < l => <<s[k], s[l]>> \in before
  /\ \A k \in 1..Cardinality(S) : Cardinality({x \in S : <<x, s[k]>> \in before}) = k - 1

\* What comes before x comes before y as well, and so does x.
LEMMA FewerBefore ==
  ASSUME NEW S, NEW before, IsFiniteSet(S), OrdersAll(S, before),
         NEW x \in S, NEW y \in S, <<x, y>> \in before
  PROVE  Cardinality({z \in S : <<z, x>> \in before}) < Cardinality({z \in S : <<z, y>> \in before})
<1> DEFINE X == {z \in S : <<z, x>> \in before}
           Y == {z \in S : <<z, y>> \in before}
<1>1. X \in SUBSET Y /\ x \in Y /\ x \notin X
  BY DEF OrdersAll
<1>2. IsFiniteSet(Y)
  BY FS_Subset
<1>3. Cardinality(X) <= Cardinality(Y) /\ Cardinality(Y) # Cardinality(X)
  BY <1>1, <1>2, FS_Subset
<1>4. Cardinality(X) \in Nat /\ Cardinality(Y) \in Nat
  BY <1>1, <1>2, FS_Subset, FS_CardinalityType
<1> QED
  BY <1>3, <1>4

\* Ranks are distinct, so every place has its element.
LEMMA OrderedLists ==
  ASSUME NEW S, NEW before, IsFiniteSet(S), OrdersAll(S, before)
  PROVE  Cardinality(S) \in Nat /\ Lists(Ordered(S, before), S, before)
<1> DEFINE n == Cardinality(S)
           rank == [x \in S |-> Cardinality({y \in S : <<y, x>> \in before}) + 1]
           f == Ordered(S, before)
<1>1. n \in Nat
  BY FS_CardinalityType
<1>2. \A x \in S : rank[x] \in 1..n
  <2> SUFFICES ASSUME NEW x \in S PROVE rank[x] \in 1..n
    OBVIOUS
  <2> DEFINE X == {y \in S : <<y, x>> \in before}
  <2>1. X \in SUBSET S /\ X # S
    BY DEF OrdersAll
  <2>2. Cardinality(X) \in Nat /\ Cardinality(X) <= n /\ Cardinality(X) # n
    BY <2>1, FS_Subset, FS_CardinalityType
  <2>3. rank[x] = Cardinality(X) + 1
    OBVIOUS
  <2> HIDE DEF X, n, rank
  <2> QED
    BY <1>1, <2>2, <2>3
<1>3. \A x, y \in S : <<x, y>> \in before => rank[x] < rank[y]
  <2> SUFFICES ASSUME NEW x \in S, NEW y \in S, <<x, y>> \in before PROVE rank[x] < rank[y]
    OBVIOUS
  <2> DEFINE X == {z \in S : <<z, x>> \in before}
             Y == {z \in S : <<z, y>> \in before}
  <2>1. Cardinality(X) < Cardinality(Y)
    BY FewerBefore
  <2>2. rank[x] = Cardinality(X) + 1 /\ rank[y] = Cardinality(Y) + 1
    OBVIOUS
  <2>3. Cardinality(X) \in Nat /\ Cardinality(Y) \in Nat
    BY FS_Subset, FS_CardinalityType
  <2> HIDE DEF X, Y, rank
  <2> QED
    BY <2>1, <2>2, <2>3
<1>4. rank \in Injection(S, 1..n)
  <2>1. \A x, y \in S : rank[x] = rank[y] => x = y
    <3> SUFFICES ASSUME NEW x \in S, NEW y \in S, rank[x] = rank[y], x # y
                 PROVE  FALSE
      OBVIOUS
    <3>1. <<x, y>> \in before \/ <<y, x>> \in before
      BY DEF OrdersAll
    <3>2. rank[x] < rank[y] \/ rank[y] < rank[x]
      BY <1>3, <3>1
    <3>3. rank[x] \in 1..n /\ rank[y] \in 1..n
      BY <1>2
    <3> HIDE DEF rank, n
    <3> QED
      BY <1>1, <3>2, <3>3
  <2>2. rank \in [S -> 1..n]
    BY <1>2
  <2>3. DOMAIN rank = S
    OBVIOUS
  <2> HIDE DEF rank
  <2> QED
    BY <2>1, <2>2, <2>3 DEF Injection, IsInjective
<1>5. \A k \in 1..n : \E x \in S : rank[x] = k
  <2>1. IsFiniteSet(1..n) /\ Cardinality(1..n) = n
    BY <1>1, FS_Interval
  <2>2. rank \in Surjection(S, 1..n)
    <3> HIDE DEF rank
    <3> QED
      BY <1>4, <2>1, FS_Injection
  <2> HIDE DEF rank
  <2> QED
    BY <2>2 DEF Surjection
<1>6. \A k \in 1..n : f[k] \in S /\ rank[f[k]] = k
  <2> SUFFICES ASSUME NEW k \in 1..n PROVE f[k] \in S /\ rank[f[k]] = k
    OBVIOUS
  <2> DEFINE before_(x) == Cardinality({y \in S : <<y, x>> \in before})
  <2>1. \A x \in S : rank[x] = before_(x) + 1 /\ before_(x) \in Nat
    <3> SUFFICES ASSUME NEW x \in S PROVE before_(x) \in Nat
      OBVIOUS
    <3> QED
      BY FS_Subset, FS_CardinalityType
  <2>2. f[k] = CHOOSE x \in S : before_(x) = k - 1
    BY DEF Ordered
  <2> HIDE DEF before_, rank, f, n
  <2>3. \E x \in S : before_(x) = k - 1
    <3>1. PICK x \in S : rank[x] = k
      BY <1>5
    <3> QED
      BY <1>1, <2>1, <3>1
  <2>4. f[k] \in S /\ before_(f[k]) = k - 1
    BY <2>2, <2>3
  <2> QED
    BY <1>1, <2>1, <2>4
<1>7. f \in [1..n -> S]
  <2> DEFINE e(k) == CHOOSE x \in S : Cardinality({y \in S : <<y, x>> \in before}) = k - 1
  <2>0. f = [k \in 1..n |-> e(k)]
    BY DEF Ordered
  <2> HIDE DEF e
  <2>1. f = [k \in 1..n |-> f[k]]
    BY <2>0
  <2> HIDE DEF f, rank
  <2> QED
    BY <2>1, <1>6
<1> HIDE DEF rank, f
<1>8. \A x \in S : \E k \in 1..n : f[k] = x
  <2> SUFFICES ASSUME NEW x \in S PROVE f[rank[x]] = x
    BY <1>2
  <2> QED
    BY <1>2, <1>4, <1>6 DEF Injection, IsInjective
<1>9. \A k, l \in 1..n : k < l => <<f[k], f[l]>> \in before
  <2> SUFFICES ASSUME NEW k \in 1..n, NEW l \in 1..n, k < l, <<f[k], f[l]>> \notin before
               PROVE  FALSE
    OBVIOUS
  <2>1. f[k] \in S /\ f[l] \in S /\ rank[f[k]] = k /\ rank[f[l]] = l
    BY <1>6
  <2>2. f[k] = f[l] \/ <<f[l], f[k]>> \in before
    BY <2>1 DEF OrdersAll
  <2>3. f[k] = f[l] \/ l < k
    BY <2>1, <2>2, <1>3
  <2> QED
    BY <1>1, <2>1, <2>3
<1>10. \A k \in 1..n : Cardinality({x \in S : <<x, f[k]>> \in before}) = k - 1
  <2> SUFFICES ASSUME NEW k \in 1..n
               PROVE  Cardinality({x \in S : <<x, f[k]>> \in before}) = k - 1
    OBVIOUS
  <2> DEFINE c == Cardinality({x \in S : <<x, f[k]>> \in before})
  <2>1. f[k] \in S /\ rank[f[k]] = k
    BY <1>6
  <2>2. rank[f[k]] = c + 1
    BY <2>1 DEF rank
  <2>3. c \in Nat
    BY FS_Subset, FS_CardinalityType
  <2> HIDE DEF c
  <2>4. c = k - 1
    BY <1>1, <2>1, <2>2, <2>3
  <2> QED
    BY <2>4 DEF c
<1> QED
  BY <1>1, <1>7, <1>8, <1>9, <1>10 DEF Lists, f

\* Ascending lists a finite set of naturals in increasing order.
LEMMA AscendingIs ==
  ASSUME NEW S \in SUBSET Nat, IsFiniteSet(S)
  PROVE  /\ Cardinality(S) \in Nat
         /\ Ascending(S) \in [1..Cardinality(S) -> S]
         /\ \A i \in S : \E k \in 1..Cardinality(S) : Ascending(S)[k] = i
         /\ \A k, l \in 1..Cardinality(S) : k < l => Ascending(S)[k] < Ascending(S)[l]
<1> DEFINE before == {p \in S \X S : p[1] < p[2]}
<1>1. \A i, j \in S : <<i, j>> \in before <=> i < j
  OBVIOUS
<1> HIDE DEF before
<1>2. OrdersAll(S, before)
  BY <1>1 DEF OrdersAll
<1>3. Cardinality(S) \in Nat /\ Lists(Ordered(S, before), S, before)
  BY <1>2, OrderedLists
<1>4. Ascending(S) = Ordered(S, before)
  BY DEF Ascending, before
<1> QED
  BY <1>1, <1>3, <1>4 DEF Lists

\* c is what seq has at the places S, in their order.
Selects(c, seq, S) ==
  \E place \in [DOMAIN c -> S] :
    /\ \A k \in DOMAIN c : c[k] = seq[place[k]]
    /\ \A i \in S : \E k \in DOMAIN c : place[k] = i
    /\ \A k, l \in DOMAIN c : k < l => place[k] < place[l]

\* What a loop collects is what the sequence has at the places it stops at.
LEMMA CollectedSelects ==
  ASSUME NEW T, NEW seq \in Seq(T), NEW S \in SUBSET DOMAIN seq
  PROVE  Collected(seq, S) \in Seq(T) /\ Selects(Collected(seq, S), seq, S)
<1> DEFINE c == Collected(seq, S)
           place == Ascending(S)
<1>1. S \in SUBSET Nat /\ IsFiniteSet(S) /\ \A i \in S : seq[i] \in T
  <2>1. IsFiniteSet(1..Len(seq)) /\ DOMAIN seq = 1..Len(seq)
    BY FS_Interval
  <2> QED
    BY <2>1, FS_Subset
<1>2. /\ Cardinality(S) \in Nat
      /\ place \in [1..Cardinality(S) -> S]
      /\ \A i \in S : \E k \in 1..Cardinality(S) : place[k] = i
      /\ \A k, l \in 1..Cardinality(S) : k < l => place[k] < place[l]
  BY <1>1, AscendingIs
<1>3. c = [k \in 1..Cardinality(S) |-> seq[place[k]]]
  BY DEF Collected
<1> HIDE DEF c, place
<1>4. c \in Seq(T) /\ DOMAIN c = 1..Cardinality(S)
  <2>1. \A k \in 1..Cardinality(S) : seq[place[k]] \in T
    BY <1>1, <1>2
  <2>2. c \in [1..Cardinality(S) -> T]
    BY <1>3, <2>1
  <2> QED
    BY <1>2, <2>2
<1>5. Selects(c, seq, S)
  BY <1>2, <1>3, <1>4 DEF Selects
<1> QED
  BY <1>4, <1>5 DEF c

\* c is s and then t.
IsJoin(c, s, t) ==
  /\ \A i \in DOMAIN s : i \in DOMAIN c /\ c[i] = s[i]
  /\ \A i \in DOMAIN t : Len(s) + i \in DOMAIN c /\ c[Len(s) + i] = t[i]
  /\ \A i \in DOMAIN c : i \notin DOMAIN s => \E j \in DOMAIN t : i = Len(s) + j

LEMMA Joined ==
  ASSUME NEW S, NEW T, NEW s \in Seq(S), NEW t \in Seq(T)
  PROVE  IsJoin(s \o t, s, t)
<1> DEFINE c == s \o t
<1>1. /\ Len(s) \in Nat /\ Len(t) \in Nat
      /\ DOMAIN s = 1..Len(s) /\ DOMAIN t = 1..Len(t)
  OBVIOUS
<1>2. DOMAIN c = 1..(Len(s) + Len(t))
  OBVIOUS
<1>3. \A i \in DOMAIN s : i \in DOMAIN c /\ c[i] = s[i]
  OBVIOUS
<1>4. \A i \in DOMAIN t : Len(s) + i \in DOMAIN c /\ c[Len(s) + i] = t[i]
  OBVIOUS
<1> HIDE DEF c
<1>5. \A i \in DOMAIN c : i \notin DOMAIN s => \E j \in DOMAIN t : i = Len(s) + j
  <2> SUFFICES ASSUME NEW i \in DOMAIN c, i \notin DOMAIN s
               PROVE  \E j \in DOMAIN t : i = Len(s) + j
    OBVIOUS
  <2>1. i - Len(s) \in 1..Len(t) /\ i = Len(s) + (i - Len(s))
    BY <1>1, <1>2
  <2> QED
    BY <1>1, <2>1
<1>6. IsJoin(c, s, t)
  BY <1>3, <1>4, <1>5 DEF IsJoin
<1> QED
  BY <1>6 DEF c

LEMMA JoinedElements ==
  ASSUME NEW c, NEW s, NEW t, IsJoin(c, s, t)
  PROVE  ToSet(c) = ToSet(s) \cup ToSet(t)
  BY DEF IsJoin, ToSet

-----------------------------------------------------------------------------
(* Calls that return in any order.                                          *)

\* Each of as many calls has returned, once.
AllReturned(done) ==
  /\ \A k \in DOMAIN done : done[k].call \in DOMAIN done
  /\ \A k, l \in DOMAIN done : done[k].call = done[l].call => k = l

\* As many results as calls, and no two of one call: all calls have returned.
LEMMA EveryCallReturned ==
  ASSUME NEW T, NEW done \in Seq(T), AllReturned(done)
  PROVE  \A i \in DOMAIN done : \E k \in DOMAIN done : done[k].call = i
<1> DEFINE n == Len(done)
           g == [k \in 1..n |-> done[k].call]
<1>1. DOMAIN done = 1..n /\ n \in Nat
  OBVIOUS
<1>2. g \in [1..n -> 1..n]
  BY <1>1 DEF AllReturned
<1>3. g \in Injection(1..n, 1..n)
  BY <1>1, <1>2 DEF AllReturned, Injection, IsInjective
<1>4. IsFiniteSet(1..n)
  BY <1>1, FS_Interval
<1> HIDE DEF n
<1>5. g \in Surjection(1..n, 1..n)
  <2> HIDE DEF g
  <2> QED
    BY <1>3, <1>4, FS_Injection
<1> QED
  BY <1>1, <1>5 DEF Surjection

\* gather gives call i's result at place i, and nothing but results.
LEMMA GatheredIs ==
  ASSUME NEW T, NEW done \in Seq(T), AllReturned(done)
  PROVE  /\ Gathered(done) \in Seq(T) /\ DOMAIN Gathered(done) = DOMAIN done
         /\ \A i \in DOMAIN done : /\ Gathered(done)[i] \in ToSet(done)
                                   /\ Gathered(done)[i].call = i
         /\ \A r \in ToSet(done) : r.call \in DOMAIN done /\ Gathered(done)[r.call] = r
<1> DEFINE place(i) == CHOOSE k \in DOMAIN done : done[k].call = i
           f == Gathered(done)
<1>1. \A i \in DOMAIN done : place(i) \in DOMAIN done /\ done[place(i)].call = i
  BY EveryCallReturned
<1>2. f = [i \in DOMAIN done |-> done[place(i)]]
  BY DEF Gathered
<1> HIDE DEF place, f
<1>3. f \in Seq(T)
  <2>1. Len(done) \in Nat /\ DOMAIN done = 1..Len(done) /\ \A k \in DOMAIN done : done[k] \in T
    OBVIOUS
  <2>2. f \in [1..Len(done) -> T]
    BY <1>1, <1>2, <2>1
  <2> QED
    BY <2>1, <2>2
<1>4. \A i \in DOMAIN done : f[i] \in ToSet(done) /\ f[i].call = i
  BY <1>1, <1>2 DEF ToSet
<1>5. \A r \in ToSet(done) : r.call \in DOMAIN done /\ f[r.call] = r
  <2> SUFFICES ASSUME NEW k \in DOMAIN done
               PROVE  done[k].call \in DOMAIN done /\ f[done[k].call] = done[k]
    BY DEF ToSet
  <2>1. done[k].call \in DOMAIN done
    BY DEF AllReturned
  <2>2. place(done[k].call) = k
    <3> DEFINE j == place(done[k].call)
    <3>1. j \in DOMAIN done /\ done[j].call = done[k].call
      BY <1>1, <2>1
    <3> HIDE DEF j
    <3>2. j = k
      BY <3>1 DEF AllReturned
    <3> QED
      BY <3>2 DEF j
  <2> QED
    BY <1>2, <2>1, <2>2
<1> QED
  BY <1>2, <1>3, <1>4, <1>5 DEF f

\* So it gives the results in the order of their calls.
LEMMA GatheredInOrder ==
  ASSUME NEW T, NEW done \in Seq(T), AllReturned(done)
  PROVE  Gathered(done) =
           Ordered(ToSet(done), {p \in ToSet(done) \X ToSet(done) : p[1].call < p[2].call})
<1> DEFINE S == ToSet(done)
           before == {p \in S \X S : p[1].call < p[2].call}
           n == Len(done)
           f == Gathered(done)
           s == Ordered(S, before)
<1>1. DOMAIN done = 1..n /\ n \in Nat /\ IsFiniteSet(1..n) /\ Cardinality(1..n) = n
  <2>1. DOMAIN done = 1..n /\ n \in Nat
    OBVIOUS
  <2> HIDE DEF n
  <2> QED
    BY <2>1, FS_Interval
<1>2. /\ f \in Seq(T) /\ DOMAIN f = 1..n
      /\ \A i \in 1..n : f[i] \in S /\ f[i].call = i
      /\ \A r \in S : r.call \in 1..n /\ f[r.call] = r
  BY <1>1, GatheredIs
<1>3. \A x, y \in S : <<x, y>> \in before <=> x.call < y.call
  OBVIOUS
<1> HIDE DEF S, before, n, f, s
<1>4. f \in [1..n -> S] /\ f \in Surjection(1..n, S) /\ f \in Injection(1..n, S)
  <2>1. f \in [1..n -> S]
    BY <1>1, <1>2
  <2>2. f \in Surjection(1..n, S)
    BY <1>2, <2>1 DEF Surjection
  <2>3. f \in Injection(1..n, S)
    BY <1>2, <2>1 DEF Injection, IsInjective
  <2> QED
    BY <2>1, <2>2, <2>3
<1>5. IsFiniteSet(S) /\ Cardinality(S) = n
  BY <1>1, <1>4, FS_Surjection
<1>6. OrdersAll(S, before)
  <2>1. \A x \in S : x.call \in Nat
    BY <1>1, <1>2
  <2>2. \A x, y \in S : x.call = y.call => x = y
    BY <1>2
  <2> QED
    BY <1>3, <2>1, <2>2 DEF OrdersAll
<1>7. Lists(s, S, before)
  BY <1>5, <1>6, OrderedLists DEF s
<1>8. \A x \in S : Cardinality({y \in S : <<y, x>> \in before}) = x.call - 1
  <2> SUFFICES ASSUME NEW x \in S
               PROVE  Cardinality({y \in S : <<y, x>> \in before}) = x.call - 1
    OBVIOUS
  <2> DEFINE X == {y \in S : <<y, x>> \in before}
             m == x.call - 1
             g == [i \in 1..m |-> f[i]]
  <2>1. m \in Nat /\ x.call = m + 1 /\ m < n
    BY <1>1, <1>2
  <2>2. \A y \in S : y \in X <=> y.call \in 1..m
    <3> HIDE DEF m
    <3>1. \A y \in S : y.call < x.call <=> y.call \in 1..m
      BY <1>1, <1>2, <2>1
    <3> QED
      BY <1>3, <3>1
  <2>3. X \subseteq S
    OBVIOUS
  <2> HIDE DEF X, m
  <2>4. \A i \in 1..m : i \in 1..n
    BY <1>1, <2>1
  <2>5. g \in [1..m -> X]
    BY <1>2, <2>2, <2>4
  <2>6. g \in Surjection(1..m, X) /\ g \in Injection(1..m, X)
    <3>1. \A y \in X : y.call \in 1..m /\ g[y.call] = y
      BY <1>2, <2>2, <2>3
    <3>2. \A i, j \in 1..m : g[i] = g[j] => i = j
      BY <1>2, <2>4
    <3> QED
      BY <2>5, <3>1, <3>2 DEF Surjection, Injection, IsInjective
  <2>7. IsFiniteSet(1..m) /\ Cardinality(1..m) = m
    BY <2>1, FS_Interval
  <2>8. Cardinality(X) = m
    <3> HIDE DEF g
    <3> QED
      BY <2>6, <2>7, FS_Surjection
  <2> QED
    BY <2>8 DEF X, m
<1>9. \A k \in 1..n : s[k] = f[k]
  <2> SUFFICES ASSUME NEW k \in 1..n PROVE s[k] = f[k]
    OBVIOUS
  <2>1. s[k] \in S /\ Cardinality({x \in S : <<x, s[k]>> \in before}) = k - 1
    BY <1>5, <1>7 DEF Lists
  <2>2. s[k].call - 1 = k - 1 /\ s[k].call \in 1..n
    BY <1>2, <1>8, <2>1
  <2>3. s[k].call = k
    BY <1>1, <2>2
  <2> QED
    BY <1>2, <2>1, <2>3
<1>10. s \in [1..n -> S]
  BY <1>5, <1>7 DEF Lists
<1>11. s = f
  <2>1. s = [k \in 1..n |-> s[k]]
    BY <1>10
  <2>2. f = [k \in 1..n |-> f[k]]
    BY <1>4
  <2>3. [k \in 1..n |-> s[k]] = [k \in 1..n |-> f[k]]
    BY <1>9
  <2> QED
    BY <2>1, <2>2, <2>3
<1> QED
  BY <1>11 DEF s, f, S, before

-----------------------------------------------------------------------------
(* What the node makes of the results.                                      *)

\* A hit as an item of the plan, before and after the fetches; their results.
Found == [title : Titles \cup {Blank}, url : Urls \cup {Blank}, text : {None}]
Search == [call : Nat, ok : BOOLEAN, hits : Seq(Hits)]
Item == [title : Titles \cup {Blank}, url : Urls \cup {Blank}, text : Urls \cup {Blank, None}]
Fetch == [call : Nat, ok : BOOLEAN, url : Urls]

\* The reports of the calls among S that failed.
Reports(kind, S) == {<<kind, r.call>> : r \in {q \in S : ~q.ok}}

\* Every failed call is reported, and nothing else.
LEMMA FailuresAre ==
  ASSUME NEW T, NEW results \in Seq(T), NEW kind, \A r \in T : r.call \in Nat
  PROVE  /\ Failures(kind, results) \in Seq({kind} \X Nat)
         /\ ToSet(Failures(kind, results)) = Reports(kind, ToSet(results))
<1> DEFINE S == {i \in DOMAIN results : ~results[i].ok}
           failing == Collected(results, S)
           f == Failures(kind, results)
<1>1. failing \in Seq(T) /\ Selects(failing, results, S)
  BY CollectedSelects
<1>2. f = [i \in DOMAIN failing |-> <<kind, failing[i].call>>]
  BY DEF Failures
<1>3. DOMAIN failing = 1..Len(failing) /\ Len(failing) \in Nat
  BY <1>1
<1>4. \A k \in DOMAIN failing : failing[k] \in T
  BY <1>1
<1>5. PICK place \in [DOMAIN failing -> S] :
        /\ \A k \in DOMAIN failing : failing[k] = results[place[k]]
        /\ \A i \in S : \E k \in DOMAIN failing : place[k] = i
  BY <1>1 DEF Selects
<1> HIDE DEF failing, f
<1>6. f \in Seq({kind} \X Nat)
  BY <1>2, <1>3, <1>4
<1>7. \A k \in DOMAIN f : \E r \in {q \in ToSet(results) : ~q.ok} : f[k] = <<kind, r.call>>
  BY <1>2, <1>5 DEF ToSet
<1>8. \A r \in {q \in ToSet(results) : ~q.ok} : \E k \in DOMAIN f : f[k] = <<kind, r.call>>
  <2> SUFFICES ASSUME NEW i \in DOMAIN results, ~results[i].ok
               PROVE  \E k \in DOMAIN f : f[k] = <<kind, results[i].call>>
    BY DEF ToSet
  <2>1. PICK k \in DOMAIN failing : place[k] = i
    BY <1>5
  <2> QED
    BY <1>2, <1>5, <2>1
<1>9. ToSet(f) = Reports(kind, ToSet(results))
  <2> DEFINE F == {q \in ToSet(results) : ~q.ok}
  <2> HIDE DEF F
  <2>1. \A k \in DOMAIN f : \E r \in F : f[k] = <<kind, r.call>>
    BY <1>7 DEF F
  <2>2. \A r \in F : \E k \in DOMAIN f : f[k] = <<kind, r.call>>
    BY <1>8 DEF F
  <2>3. ToSet(f) = {<<kind, r.call>> : r \in F}
    BY <2>1, <2>2 DEF ToSet
  <2> QED
    BY <2>3 DEF F, Reports
<1> QED
  BY <1>6, <1>9 DEF f

\* The hits of all searches, each at a place of its own; none is lost.
LEMMA ItemsAre ==
  ASSUME NEW results \in Seq(Search)
  PROVE  /\ Items(results, DOMAIN results) \in Seq(Found)
         /\ \A i \in DOMAIN results : \A k \in DOMAIN results[i].hits :
              \E n \in DOMAIN Items(results, DOMAIN results) :
                 /\ Items(results, DOMAIN results)[n].title = results[i].hits[k].title
                 /\ Items(results, DOMAIN results)[n].url = results[i].hits[k].url
<1> DEFINE found == UNION {{i} \X DOMAIN results[i].hits : i \in DOMAIN results}
           before == {p \in found \X found : \/ p[1][1] < p[2][1]
                                             \/ p[1][1] = p[2][1] /\ p[1][2] < p[2][2]}
           order == Ordered(found, before)
           hit(n) == results[order[n][1]].hits[order[n][2]]
           c == Items(results, DOMAIN results)
<1>1. \A i \in DOMAIN results : results[i].hits \in Seq(Hits)
  <2> SUFFICES ASSUME NEW i \in DOMAIN results PROVE results[i].hits \in Seq(Hits)
    OBVIOUS
  <2>1. results[i] \in Search
    OBVIOUS
  <2> QED
    BY <2>1 DEF Search
<1>2. IsFiniteSet(found)
  <2> DEFINE of(i) == {i} \X DOMAIN results[i].hits
             F == [i \in DOMAIN results |-> of(i)]
             U == {of(i) : i \in DOMAIN results}
  <2>1. DOMAIN results = 1..Len(results) /\ Len(results) \in Nat
    OBVIOUS
  <2>2. IsFiniteSet(DOMAIN results)
    BY <2>1, FS_Interval
  <2>3. \A i \in DOMAIN results : IsFiniteSet(of(i))
    <3> SUFFICES ASSUME NEW i \in DOMAIN results
                 PROVE  IsFiniteSet({i} \X DOMAIN results[i].hits)
      OBVIOUS
    <3>1. DOMAIN results[i].hits = 1..Len(results[i].hits) /\ Len(results[i].hits) \in Nat
      BY <1>1
    <3>2. IsFiniteSet(DOMAIN results[i].hits)
      BY <3>1, FS_Interval
    <3> QED
      BY <3>2, FS_Singleton, FS_Product
  <2> HIDE DEF of
  <2>4. F \in Surjection(DOMAIN results, U)
    BY DEF Surjection
  <2>5. IsFiniteSet(U)
    <3> HIDE DEF F, U
    <3> QED
      BY <2>2, <2>4, FS_Surjection
  <2>6. \A T \in U : IsFiniteSet(T)
    BY <2>3
  <2>7. IsFiniteSet(UNION U)
    <3> HIDE DEF U
    <3> QED
      BY <2>5, <2>6, FS_UNION
  <2> QED
    BY <2>7 DEF of
<1>3. \A p \in found : /\ p = <<p[1], p[2]>> /\ p[1] \in DOMAIN results
                       /\ p[2] \in DOMAIN results[p[1]].hits
                       /\ p[1] \in Nat /\ p[2] \in Nat
  BY <1>1
<1>4. \A i \in DOMAIN results : \A k \in DOMAIN results[i].hits : <<i, k>> \in found
  OBVIOUS
<1>5. \A p, q \in found : <<p, q>> \in before <=> (p[1] < q[1] \/ (p[1] = q[1] /\ p[2] < q[2]))
  <2> HIDE DEF found
  <2> QED
    OBVIOUS
<1>6. c = [n \in 1..Cardinality(found) |->
             [title |-> hit(n).title, url |-> hit(n).url, text |-> None]]
  BY DEF Items
<1> HIDE DEF found, before, order, c
<1>7. OrdersAll(found, before)
  <2>1. \A p \in found : <<p, p>> \notin before
    BY <1>3, <1>5
  <2>2. \A p, q \in found : p = q \/ <<p, q>> \in before \/ <<q, p>> \in before
    <3> SUFFICES ASSUME NEW p \in found, NEW q \in found
                 PROVE  p = q \/ <<p, q>> \in before \/ <<q, p>> \in before
      OBVIOUS
    <3>1. p[1] \in Nat /\ p[2] \in Nat /\ q[1] \in Nat /\ q[2] \in Nat
      BY <1>3
    <3>2. p[1] = q[1] /\ p[2] = q[2] => p = q
      BY <1>3
    <3>3. \/ p[1] = q[1] /\ p[2] = q[2]
          \/ p[1] < q[1] \/ (p[1] = q[1] /\ p[2] < q[2])
          \/ q[1] < p[1] \/ (q[1] = p[1] /\ q[2] < p[2])
      BY <3>1
    <3> QED
      BY <1>5, <3>2, <3>3
  <2>3. \A p, q, r \in found :
           <<p, q>> \in before /\ <<q, r>> \in before => <<p, r>> \in before
    <3> SUFFICES ASSUME NEW p \in found, NEW q \in found, NEW r \in found,
                        <<p, q>> \in before, <<q, r>> \in before
                 PROVE  <<p, r>> \in before
      OBVIOUS
    <3>1. /\ p[1] < q[1] \/ (p[1] = q[1] /\ p[2] < q[2])
          /\ q[1] < r[1] \/ (q[1] = r[1] /\ q[2] < r[2])
      BY <1>5
    <3>2. /\ p[1] \in Nat /\ p[2] \in Nat /\ q[1] \in Nat /\ q[2] \in Nat
          /\ r[1] \in Nat /\ r[2] \in Nat
      BY <1>3
    <3>3. p[1] < r[1] \/ (p[1] = r[1] /\ p[2] < r[2])
      BY <3>1, <3>2
    <3> QED
      BY <1>5, <3>3
  <2> QED
    BY <2>1, <2>2, <2>3 DEF OrdersAll
<1>8. Cardinality(found) \in Nat /\ Lists(order, found, before)
  BY <1>2, <1>7, OrderedLists DEF order
<1>9. \A n \in 1..Cardinality(found) : hit(n) \in Hits
  <2> SUFFICES ASSUME NEW n \in 1..Cardinality(found) PROVE hit(n) \in Hits
    OBVIOUS
  <2>1. order[n] \in found
    BY <1>8 DEF Lists
  <2>2. order[n][1] \in DOMAIN results /\ order[n][2] \in DOMAIN results[order[n][1]].hits
    BY <1>3, <2>1
  <2> QED
    BY <1>1, <2>2
<1>10. c \in Seq(Found)
  <2> HIDE DEF hit
  <2>1. \A n \in 1..Cardinality(found) :
           [title |-> hit(n).title, url |-> hit(n).url, text |-> None] \in Found
    BY <1>9, EvidenceAssumption DEF Found
  <2>2. c \in [1..Cardinality(found) -> Found]
    BY <1>6, <2>1
  <2> QED
    BY <1>8, <2>2
<1>11. \A i \in DOMAIN results : \A k \in DOMAIN results[i].hits :
         \E n \in DOMAIN c : c[n].title = results[i].hits[k].title
                             /\ c[n].url = results[i].hits[k].url
  <2> SUFFICES ASSUME NEW i \in DOMAIN results, NEW k \in DOMAIN results[i].hits
               PROVE  \E n \in DOMAIN c : c[n].title = results[i].hits[k].title
                                          /\ c[n].url = results[i].hits[k].url
    OBVIOUS
  <2>1. PICK n \in 1..Cardinality(found) : order[n] = <<i, k>>
    BY <1>4, <1>8 DEF Lists
  <2>2. hit(n) = results[i].hits[k]
    BY <2>1
  <2> HIDE DEF hit
  <2> QED
    BY <1>6, <2>2
<1> QED
  BY <1>10, <1>11 DEF c

\* What is fetched are at most TopN places, no two with one URL.
LEMMA ToFetchIs ==
  ASSUME NEW evidence \in Seq(Item)
  PROVE  /\ ToFetch(evidence) \in Seq(DOMAIN evidence)
         /\ Len(ToFetch(evidence)) <= TopN
         /\ \A n \in DOMAIN ToFetch(evidence) : evidence[ToFetch(evidence)[n]].url # Blank
         /\ \A n, m \in DOMAIN ToFetch(evidence) :
              evidence[ToFetch(evidence)[n]].url = evidence[ToFetch(evidence)[m]].url => n = m
<1> DEFINE S == {i \in DOMAIN evidence : NewUrl(evidence, i)}
           all == Ascending(S)
           size == IF Len(all) < TopN THEN Len(all) ELSE TopN
           f == ToFetch(evidence)
<1>1. DOMAIN evidence = 1..Len(evidence) /\ Len(evidence) \in Nat /\ TopN \in Nat
  BY EvidenceAssumption
<1>2. S \in SUBSET Nat /\ IsFiniteSet(S)
  <2>1. IsFiniteSet(DOMAIN evidence)
    BY <1>1, FS_Interval
  <2>2. S \in SUBSET DOMAIN evidence
    OBVIOUS
  <2> HIDE DEF S
  <2> QED
    BY <1>1, <2>1, <2>2, FS_Subset
<1>3. f = SubSeq(all, 1, size)
  BY DEF ToFetch
<1>4. \A i, j \in S : i < j => evidence[i].url # evidence[j].url /\ evidence[i].url # Blank
  <2> SUFFICES ASSUME NEW i \in S, NEW j \in S, i < j
               PROVE  evidence[i].url # evidence[j].url /\ evidence[i].url # Blank
    OBVIOUS
  <2>1. i \in 1..(j - 1)
    BY <1>1
  <2>2. NewUrl(evidence, i) /\ NewUrl(evidence, j)
    OBVIOUS
  <2> QED
    BY <2>1, <2>2 DEF NewUrl
<1>5. \A i \in S : i \in DOMAIN evidence /\ evidence[i].url # Blank
  BY DEF NewUrl
<1> HIDE DEF S, all, f, size
<1>6. /\ Cardinality(S) \in Nat /\ all \in [1..Cardinality(S) -> S]
      /\ \A k, l \in 1..Cardinality(S) : k < l => all[k] < all[l]
  BY <1>2, AscendingIs DEF all
<1>7. all \in Seq(S) /\ Len(all) = Cardinality(S)
  BY <1>6
<1>8. size \in Nat /\ size <= TopN /\ size <= Cardinality(S)
  BY <1>1, <1>6, <1>7 DEF size
<1>9. f = [k \in 1..size |-> all[k]]
  BY <1>3, <1>7, <1>8
<1>10. f \in Seq(DOMAIN evidence) /\ Len(f) = size /\ DOMAIN f = 1..size
  <2>1. \A k \in 1..size : k \in 1..Cardinality(S)
    BY <1>6, <1>8
  <2>2. \A k \in 1..size : all[k] \in DOMAIN evidence
    BY <1>5, <1>6, <2>1
  <2>3. f \in [1..size -> DOMAIN evidence]
    BY <1>9, <2>2
  <2> QED
    BY <1>8, <2>3
<1>11. \A k \in 1..size : f[k] \in S
  BY <1>6, <1>8, <1>9
<1>12. \A n, m \in 1..size : evidence[f[n]].url = evidence[f[m]].url => n = m
  <2> SUFFICES ASSUME NEW n \in 1..size, NEW m \in 1..size,
                      evidence[f[n]].url = evidence[f[m]].url, n # m
               PROVE  FALSE
    OBVIOUS
  <2>1. f[n] \in S /\ f[m] \in S
    BY <1>11
  <2>2. f[n] < f[m] \/ f[m] < f[n]
    <3>1. n \in 1..Cardinality(S) /\ m \in 1..Cardinality(S)
      BY <1>6, <1>8
    <3>2. n < m \/ m < n
      BY <1>8
    <3> QED
      BY <1>6, <1>9, <3>1, <3>2
  <2> QED
    BY <1>4, <2>1, <2>2
<1> QED
  BY <1>5, <1>8, <1>10, <1>11, <1>12 DEF f

\* The results of the fetches, by call: each has the URL it was asked for.
Answers(results, evidence) ==
  /\ results \in Seq(Fetch) /\ DOMAIN results = DOMAIN ToFetch(evidence)
  /\ \A n \in DOMAIN results : /\ results[n].call = n
                               /\ results[n].url = evidence[ToFetch(evidence)[n]].url

\* A fetched text is attached to the item it was fetched for, and to no other.
LEMMA TextsAre ==
  ASSUME NEW gathered, gathered.evidence \in Seq(Found),
         NEW results, Answers(results, gathered.evidence)
  PROVE  LET evidence == gathered.evidence
             places == ToFetch(evidence)
             after == AfterFetches(gathered, results).evidence
         IN /\ after \in Seq(Item) /\ DOMAIN after = DOMAIN evidence
            /\ \A i \in DOMAIN evidence : /\ after[i].title = evidence[i].title
                                          /\ after[i].url = evidence[i].url
                                          /\ after[i].text \in {None, evidence[i].url}
            /\ \A i \in DOMAIN evidence :
                 after[i].text # None =>
                   \E n \in DOMAIN places : places[n] = i /\ results[n].ok
            /\ \A n \in DOMAIN places :
                 results[n].ok => after[places[n]].text = evidence[places[n]].url
<1> DEFINE evidence == gathered.evidence
           places == ToFetch(evidence)
           after == AfterFetches(gathered, results).evidence
           got(i) == \E n \in DOMAIN places : places[n] = i /\ results[n].ok
           result(i) == results[CHOOSE n \in DOMAIN places : places[n] = i]
<1>1. evidence \in Seq(Item) /\ evidence \in Seq(Found)
  <2>1. Found \subseteq Item
    BY DEF Found, Item
  <2> QED
    BY <2>1
<1>2. /\ places \in Seq(DOMAIN evidence)
      /\ \A n, m \in DOMAIN places :
           evidence[places[n]].url = evidence[places[m]].url => n = m
  BY <1>1, ToFetchIs
<1>3. after = [i \in DOMAIN evidence |-> IF got(i)
                 THEN [evidence[i] EXCEPT !.text = result(i).url] ELSE evidence[i]]
  BY DEF AfterFetches
<1>4. \A n \in DOMAIN places : n \in DOMAIN results /\ results[n].url = evidence[places[n]].url
  BY DEF Answers
<1>5. \A i \in DOMAIN evidence : got(i) => result(i).url = evidence[i].url
  <2> SUFFICES ASSUME NEW i \in DOMAIN evidence, NEW n \in DOMAIN places, places[n] = i
               PROVE  result(i).url = evidence[i].url
    OBVIOUS
  <2> DEFINE m == CHOOSE k \in DOMAIN places : places[k] = i
  <2>1. m \in DOMAIN places /\ places[m] = i
    OBVIOUS
  <2>2. result(i) = results[m]
    OBVIOUS
  <2> HIDE DEF m, result
  <2> QED
    BY <1>4, <2>1, <2>2
<1> HIDE DEF evidence, places, after, got, result
<1>6. \A i \in DOMAIN evidence :
        /\ evidence[i] \in Found
        /\ got(i) => after[i] = [evidence[i] EXCEPT !.text = evidence[i].url]
        /\ ~got(i) => after[i] = evidence[i]
  BY <1>1, <1>3, <1>5
<1>7. \A i \in DOMAIN evidence :
        /\ after[i] \in Item
        /\ after[i].title = evidence[i].title /\ after[i].url = evidence[i].url
        /\ got(i) => after[i].text = evidence[i].url
        /\ ~got(i) => after[i].text = None
  BY <1>6 DEF Found, Item
<1>8. after \in Seq(Item) /\ DOMAIN after = DOMAIN evidence
  <2>1. Len(evidence) \in Nat /\ DOMAIN evidence = 1..Len(evidence)
    BY <1>1
  <2>2. DOMAIN after = DOMAIN evidence /\ after = [i \in DOMAIN evidence |-> after[i]]
    BY <1>3
  <2>3. after \in [1..Len(evidence) -> Item]
    BY <1>7, <2>1, <2>2
  <2> QED
    BY <2>1, <2>2, <2>3
<1>9. \A n \in DOMAIN places : results[n].ok => got(places[n]) /\ places[n] \in DOMAIN evidence
  BY <1>2 DEF got
<1>10. \A i \in DOMAIN evidence :
         after[i].text # None => \E n \in DOMAIN places : places[n] = i /\ results[n].ok
  BY <1>7 DEF got
<1>11. \A n \in DOMAIN places : results[n].ok => after[places[n]].text = evidence[places[n]].url
  BY <1>7, <1>9
<1>12. \A i \in DOMAIN evidence : after[i].text \in {None, evidence[i].url}
  BY <1>7
<1> QED
  BY <1>7, <1>8, <1>10, <1>11, <1>12 DEF evidence, places, after

-----------------------------------------------------------------------------
(* The node, step by step.                                                  *)

\* What the searches that have returned amount to.
Gained(done) == AfterSearches(Gathered(done))

\* done are results of n calls, at most one of each.
Once(done, n) ==
  /\ \A k \in DOMAIN done : done[k].call \in 1..n
  /\ \A k, l \in DOMAIN done : done[k].call = done[l].call => k = l

\* done are fetches of evidence's places to fetch, each with its place's URL.
Fetched(done, evidence) ==
  /\ done \in Seq(Fetch) /\ Once(done, Len(ToFetch(evidence)))
  /\ \A k \in DOMAIN done : done[k].url = evidence[ToFetch(evidence)[done[k].call]].url

\* What the node has at each stage follows from what has returned: the fetches
\* are of what the searches found, and the plan is made of both.
EvidenceInv ==
  /\ pool \in Pools /\ queries \in Nat
  /\ searches \in Seq(Search) /\ Once(searches, queries)
  /\ Fetched(fetches, Gained(searches).evidence)
  /\ at \in {"decompose", "raised"} => searches = <<>>
  /\ at \in {"decompose", "raised", "searching"} => fetches = <<>>
  /\ at \in {"fetching", "planned", "argued"} \/ fetches # <<>> => Len(searches) = queries
  /\ at = "fetching" => plan = Gained(searches)
  /\ Planned => /\ Len(fetches) = Len(ToFetch(Gained(searches).evidence))
                /\ plan = AfterFetches(Gained(searches), Gathered(fetches))
  /\ at = "argued" =>
       /\ transcript.argument \in Arguments
       /\ transcript.citations =
            InTranscript(BuildRoundCitations(transcript.argument, pool, plan.evidence))

\* n results of n calls: all have returned.
LEMMA AllOnce ==
  ASSUME NEW T, NEW done \in Seq(T), NEW n \in Nat, Once(done, n), Len(done) = n
  PROVE  AllReturned(done)
  BY DEF Once, AllReturned

\* The result of a call that had not returned.
LEMMA OnceMore ==
  ASSUME NEW T, NEW done \in Seq(T), NEW n \in Nat, Once(done, n),
         NEW r \in T, r.call \in 1..n, \A q \in ToSet(done) : q.call # r.call
  PROVE  Append(done, r) \in Seq(T) /\ Once(Append(done, r), n)
<1> DEFINE more == Append(done, r)
           m == Len(done)
<1>1. /\ m \in Nat /\ more \in Seq(T) /\ DOMAIN done = 1..m /\ DOMAIN more = 1..(m + 1)
      /\ more[m + 1] = r /\ \A k \in 1..m : more[k] = done[k]
  OBVIOUS
<1>2. \A k \in 1..m : done[k].call # r.call
  BY <1>1 DEF ToSet
<1> HIDE DEF more, m
<1>3. \A k \in 1..(m + 1) : k \in 1..m \/ k = m + 1
  BY <1>1
<1>4. \A k \in 1..m : done[k].call \in 1..n
  BY <1>1 DEF Once
<1>5. \A k \in DOMAIN more : more[k].call \in 1..n
  BY <1>1, <1>3, <1>4
<1>6. \A k, l \in DOMAIN more : more[k].call = more[l].call => k = l
  <2>1. \A k, l \in 1..m : done[k].call = done[l].call => k = l
    BY <1>1 DEF Once
  <2> QED
    BY <1>1, <1>2, <1>3, <2>1
<1>7. Once(more, n)
  BY <1>5, <1>6 DEF Once
<1> QED
  BY <1>1, <1>7 DEF more

\* Once all searches have returned, what they gained is their hits and failures.
LEMMA GainedIs ==
  ASSUME NEW done \in Seq(Search), AllReturned(done)
  PROVE  /\ Gained(done).evidence \in Seq(Found)
         /\ \A r \in ToSet(done) : \A k \in DOMAIN r.hits :
              \E n \in DOMAIN Gained(done).evidence :
                 /\ Gained(done).evidence[n].title = r.hits[k].title
                 /\ Gained(done).evidence[n].url = r.hits[k].url
         /\ Gained(done).failed \in Seq({"search"} \X Nat)
         /\ ToSet(Gained(done).failed) = Reports("search", ToSet(done))
<1> DEFINE g == Gathered(done)
<1>1. /\ g \in Seq(Search) /\ DOMAIN g = DOMAIN done
      /\ \A i \in DOMAIN done : g[i] \in ToSet(done)
      /\ \A r \in ToSet(done) : r.call \in DOMAIN done /\ g[r.call] = r
  BY GatheredIs
<1>2. /\ Gained(done).evidence = Items(g, DOMAIN g)
      /\ Gained(done).failed = Failures("search", g)
  BY DEF Gained, AfterSearches
<1> HIDE DEF g
<1>3. /\ Items(g, DOMAIN g) \in Seq(Found)
      /\ \A i \in DOMAIN g : \A k \in DOMAIN g[i].hits :
           \E n \in DOMAIN Items(g, DOMAIN g) : /\ Items(g, DOMAIN g)[n].title = g[i].hits[k].title
                                                /\ Items(g, DOMAIN g)[n].url = g[i].hits[k].url
  BY <1>1, ItemsAre
<1>4. /\ Failures("search", g) \in Seq({"search"} \X Nat)
      /\ ToSet(Failures("search", g)) = Reports("search", ToSet(g))
  <2>1. \A r \in Search : r.call \in Nat
    BY DEF Search
  <2> QED
    BY <1>1, <2>1, FailuresAre
<1>5. ToSet(g) = ToSet(done)
  BY <1>1 DEF ToSet
<1>6. \A r \in ToSet(done) : \A k \in DOMAIN r.hits :
        \E n \in DOMAIN Items(g, DOMAIN g) :
           /\ Items(g, DOMAIN g)[n].title = r.hits[k].title
           /\ Items(g, DOMAIN g)[n].url = r.hits[k].url
  <2> SUFFICES ASSUME NEW r \in ToSet(done), NEW k \in DOMAIN r.hits
               PROVE  \E n \in DOMAIN Items(g, DOMAIN g) :
                         /\ Items(g, DOMAIN g)[n].title = r.hits[k].title
                         /\ Items(g, DOMAIN g)[n].url = r.hits[k].url
    OBVIOUS
  <2>1. r.call \in DOMAIN g /\ g[r.call] = r
    BY <1>1
  <2> QED
    BY <1>3, <2>1
<1> QED
  BY <1>2, <1>3, <1>4, <1>5, <1>6

LEMMA EvidenceInit == PlanInit => EvidenceInv
<1> SUFFICES ASSUME PlanInit PROVE EvidenceInv
  OBVIOUS
<1>1. /\ at = "decompose" /\ pool \in Pools /\ queries = 0
      /\ searches = <<>> /\ fetches = <<>>
  BY DEF PlanInit
<1>2. <<>> \in Seq(Search) /\ <<>> \in Seq(Fetch) /\ \A n : Once(<<>>, n)
  BY DEF Once
<1>3. Fetched(fetches, Gained(searches).evidence)
  BY <1>1, <1>2 DEF Fetched
<1> QED
  BY <1>1, <1>2, <1>3 DEF EvidenceInv, Planned

LEMMA DecomposeKeeps == EvidenceInv /\ Decompose => EvidenceInv'
<1> SUFFICES ASSUME EvidenceInv, Decompose PROVE EvidenceInv'
  OBVIOUS
<1>1. /\ searches = <<>> /\ fetches = <<>> /\ at' \in {"searching", "raised"}
      /\ queries' \in Nat /\ UNCHANGED <<pool, searches, fetches, plan, transcript>>
  BY EvidenceAssumption DEF EvidenceInv, Decompose
<1>2. Once(searches, queries)'
  BY <1>1 DEF Once
<1>3. Fetched(fetches', Gained(searches').evidence)
  BY <1>1 DEF EvidenceInv
<1> QED
  BY <1>1, <1>2, <1>3 DEF EvidenceInv, Planned

LEMMA SearchReturnsKeeps ==
  ASSUME EvidenceInv, NEW i \in 1..queries, SearchReturns(i)
  PROVE  EvidenceInv'
<1>1. /\ at = "searching" /\ fetches = <<>> /\ queries \in Nat
      /\ searches \in Seq(Search) /\ Once(searches, queries)
      /\ \A r \in ToSet(searches) : r.call # i
      /\ UNCHANGED <<at, pool, queries, fetches, plan, transcript>>
  BY DEF EvidenceInv, SearchReturns
<1>2. PICK out \in Outcomes :
        searches' = Append(searches, [call |-> i, ok |-> out.ok, hits |-> out.hits])
  BY DEF SearchReturns
<1>3. [call |-> i, ok |-> out.ok, hits |-> out.hits] \in Search
  <2>1. \A h \in BoundedSeq(Hits, MaxHits) : h \in Seq(Hits)
    BY EvidenceAssumption DEF BoundedSeq, SeqOf
  <2>2. out.ok \in BOOLEAN /\ out.hits \in Seq(Hits)
    <3>1. CASE out \in [ok : {TRUE}, hits : BoundedSeq(Hits, MaxHits)]
      BY <2>1, <3>1
    <3>2. CASE out = [ok |-> FALSE, hits |-> <<>>]
      BY <3>2
    <3> QED
      BY <3>1, <3>2 DEF Outcomes
  <2> QED
    BY <1>1, <2>2 DEF Search
<1>4. searches' \in Seq(Search) /\ Once(searches', queries)
  BY <1>1, <1>2, <1>3, OnceMore
<1>5. Fetched(fetches', Gained(searches').evidence)
  BY <1>1 DEF Fetched, Once
<1> QED
  BY <1>1, <1>4, <1>5 DEF EvidenceInv, Planned

LEMMA CollectHitsKeeps == EvidenceInv /\ CollectHits => EvidenceInv'
  BY DEF EvidenceInv, CollectHits, Planned, Gained

\* The places to fetch and their URLs, once the searches are all in.
LEMMA PlacesToFetch ==
  ASSUME EvidenceInv, Len(searches) = queries
  PROVE  LET evidence == Gained(searches).evidence
             places == ToFetch(evidence)
         IN /\ AllReturned(searches) /\ evidence \in Seq(Found) /\ evidence \in Seq(Item)
            /\ places \in Seq(DOMAIN evidence) /\ Len(places) \in Nat /\ Len(places) <= TopN
            /\ \A n \in DOMAIN places : evidence[places[n]].url \in Urls
            /\ \A n, m \in DOMAIN places :
                 evidence[places[n]].url = evidence[places[m]].url => n = m
<1> DEFINE evidence == Gained(searches).evidence
           places == ToFetch(evidence)
<1>1. AllReturned(searches) /\ searches \in Seq(Search)
  BY AllOnce DEF EvidenceInv
<1>2. evidence \in Seq(Found)
  BY <1>1, GainedIs
<1>3. evidence \in Seq(Item)
  <2>1. Found \subseteq Item
    BY DEF Found, Item
  <2> HIDE DEF evidence
  <2> QED
    BY <1>2, <2>1
<1> HIDE DEF evidence
<1>4. /\ places \in Seq(DOMAIN evidence) /\ Len(places) <= TopN
      /\ \A n \in DOMAIN places : evidence[places[n]].url # Blank
      /\ \A n, m \in DOMAIN places : evidence[places[n]].url = evidence[places[m]].url => n = m
  BY <1>3, ToFetchIs
<1> HIDE DEF places
<1>5. \A n \in DOMAIN places : evidence[places[n]].url \in Urls
  <2>1. \A n \in DOMAIN places : evidence[places[n]] \in Item
    BY <1>3, <1>4
  <2> QED
    BY <1>4, <2>1 DEF Item
<1> QED
  BY <1>1, <1>2, <1>3, <1>4, <1>5 DEF evidence, places

LEMMA FetchReturnsKeeps ==
  ASSUME EvidenceInv, NEW i \in 1..Len(ToFetch(plan.evidence)), FetchReturns(i)
  PROVE  EvidenceInv'
<1> DEFINE evidence == Gained(searches).evidence
           places == ToFetch(evidence)
<1>1. /\ at = "fetching" /\ plan = Gained(searches) /\ Len(searches) = queries
      /\ Fetched(fetches, evidence)
      /\ \A r \in ToSet(fetches) : r.call # i
      /\ UNCHANGED <<at, pool, queries, searches, plan, transcript>>
  BY DEF EvidenceInv, FetchReturns
<1>2. PICK ok \in BOOLEAN :
        fetches' = Append(fetches, [call |-> i, ok |-> ok, url |-> evidence[places[i]].url])
  BY <1>1 DEF FetchReturns
<1>3. /\ places \in Seq(DOMAIN evidence) /\ Len(places) \in Nat
      /\ \A n \in DOMAIN places : evidence[places[n]].url \in Urls
  BY <1>1, PlacesToFetch
<1>4. i \in 1..Len(places) /\ i \in Nat /\ evidence[places[i]].url \in Urls
  BY <1>1, <1>3
<1> DEFINE r == [call |-> i, ok |-> ok, url |-> evidence[places[i]].url]
<1>5. r \in Fetch /\ r.call = i /\ r.url = evidence[places[i]].url
  BY <1>4 DEF Fetch
<1>6. fetches' = Append(fetches, r)
  BY <1>2
<1> HIDE DEF evidence, places, r
<1>7. /\ fetches \in Seq(Fetch) /\ Once(fetches, Len(places))
      /\ \A k \in DOMAIN fetches : fetches[k].url = evidence[places[fetches[k].call]].url
  BY <1>1 DEF Fetched, places
<1>8. fetches' \in Seq(Fetch) /\ Once(fetches', Len(places))
  BY <1>1, <1>3, <1>4, <1>5, <1>6, <1>7, OnceMore
<1>9. \A k \in DOMAIN fetches' : fetches'[k].url = evidence[places[fetches'[k].call]].url
  BY <1>5, <1>6, <1>7
<1>10. Fetched(fetches', Gained(searches').evidence)
  BY <1>1, <1>8, <1>9 DEF Fetched, evidence, places
<1> QED
  BY <1>1, <1>10 DEF EvidenceInv, Planned

LEMMA AttachTextsKeeps == EvidenceInv /\ AttachTexts => EvidenceInv'
  BY DEF EvidenceInv, AttachTexts, Planned

LEMMA CancelKeeps == EvidenceInv /\ Cancel => EvidenceInv'
  BY DEF EvidenceInv, Cancel, Planned

LEMMA ArgueKeeps ==
  ASSUME EvidenceInv, NEW argument \in Arguments, Argue(argument)
  PROVE  EvidenceInv'
  BY DEF EvidenceInv, Argue, Planned

LEMMA EvidenceNext == EvidenceInv /\ [PlanNext]_vars => EvidenceInv'
<1> SUFFICES ASSUME EvidenceInv, [PlanNext]_vars PROVE EvidenceInv'
  OBVIOUS
<1>1. CASE Decompose
  BY <1>1, DecomposeKeeps
<1>2. CASE Gather
  BY <1>2, SearchReturnsKeeps, CollectHitsKeeps, FetchReturnsKeeps, AttachTextsKeeps DEF Gather
<1>3. CASE Cancel
  BY <1>3, CancelKeeps
<1>4. CASE \E argument \in Arguments : Argue(argument)
  BY <1>4, ArgueKeeps
<1>5. CASE UNCHANGED vars
  BY <1>5 DEF vars, EvidenceInv, Planned
<1> QED
  BY <1>1, <1>2, <1>3, <1>4, <1>5 DEF PlanNext

LEMMA EvidenceInvariant == PlanSpec => []EvidenceInv
  BY EvidenceInit, EvidenceNext, PTL DEF PlanSpec

-----------------------------------------------------------------------------
(* The plan                                                                 *)

\* What the fetches have brought when the plan is made.
LEMMA AnswersAre ==
  ASSUME EvidenceInv, Planned
  PROVE  /\ Len(searches) = queries /\ AllReturned(searches) /\ AllReturned(fetches)
         /\ fetches \in Seq(Fetch)
         /\ DOMAIN fetches = DOMAIN ToFetch(Gained(searches).evidence)
         /\ Answers(Gathered(fetches), Gained(searches).evidence)
         /\ \A r \in ToSet(fetches) : r.call \in DOMAIN fetches /\ Gathered(fetches)[r.call] = r
         /\ plan = AfterFetches(Gained(searches), Gathered(fetches))
<1> DEFINE evidence == Gained(searches).evidence
           places == ToFetch(evidence)
           g == Gathered(fetches)
<1>1. /\ Len(searches) = queries /\ Fetched(fetches, evidence)
      /\ Len(fetches) = Len(places) /\ plan = AfterFetches(Gained(searches), g)
  BY DEF EvidenceInv, Planned
<1>2. AllReturned(searches) /\ places \in Seq(DOMAIN evidence) /\ Len(places) \in Nat
  BY <1>1, PlacesToFetch
<1> HIDE DEF evidence, places, g
<1>3. /\ fetches \in Seq(Fetch) /\ Once(fetches, Len(places))
      /\ \A k \in DOMAIN fetches : fetches[k].url = evidence[places[fetches[k].call]].url
  BY <1>1 DEF Fetched, places
<1>4. AllReturned(fetches) /\ DOMAIN fetches = DOMAIN places
  BY <1>1, <1>2, <1>3, AllOnce
<1>5. /\ g \in Seq(Fetch) /\ DOMAIN g = DOMAIN fetches
      /\ \A n \in DOMAIN fetches : g[n] \in ToSet(fetches) /\ g[n].call = n
      /\ \A r \in ToSet(fetches) : r.call \in DOMAIN fetches /\ g[r.call] = r
  BY <1>3, <1>4, GatheredIs DEF g
<1>6. \A n \in DOMAIN g : g[n].call = n /\ g[n].url = evidence[places[n]].url
  <2>1. \A r \in ToSet(fetches) : r.url = evidence[places[r.call]].url
    BY <1>3 DEF ToSet
  <2> QED
    BY <1>5, <2>1
<1>7. Answers(g, evidence)
  BY <1>4, <1>5, <1>6 DEF Answers, places
<1> QED
  BY <1>1, <1>2, <1>3, <1>4, <1>5, <1>7 DEF evidence, places, g

LEMMA PlanShowsNoOrder == EvidenceInv => OrderDoesNotShow
<1> SUFFICES ASSUME EvidenceInv, Planned PROVE OrderDoesNotShow
  BY DEF OrderDoesNotShow
<1> DEFINE inOrder(done) ==
      Ordered(ToSet(done), {p \in ToSet(done) \X ToSet(done) : p[1].call < p[2].call})
<1>1. searches \in Seq(Search) /\ fetches \in Seq(Fetch)
  BY AnswersAre DEF EvidenceInv
<1>2. Gathered(searches) = inOrder(searches) /\ Gathered(fetches) = inOrder(fetches)
  BY <1>1, AnswersAre, GatheredInOrder
<1>3. plan = AfterFetches(AfterSearches(Gathered(searches)), Gathered(fetches))
  BY AnswersAre DEF Gained
<1> HIDE DEF inOrder
<1>4. plan = AfterFetches(AfterSearches(inOrder(searches)), inOrder(fetches))
  BY <1>2, <1>3
<1> QED
  BY <1>4 DEF OrderDoesNotShow, inOrder

\* However the searches and the fetches interleave, the plan is the one that
\* calls made one after the other would have given.
THEOREM PlanIsSequential == PlanSpec => []OrderDoesNotShow
  BY EvidenceInvariant, PlanShowsNoOrder, PTL

\* In the plan, an article's text is with the first hit of its URL, and with no
\* other.
LEMMA TextsStay ==
  ASSUME EvidenceInv, Planned
  PROVE  /\ Len(fetches) <= TopN
         /\ plan.evidence \in Seq(Item)
         /\ \A i \in DOMAIN plan.evidence : plan.evidence[i].text \in {None, plan.evidence[i].url}
         /\ \A r \in ToSet(fetches) : \A i \in DOMAIN plan.evidence :
              plan.evidence[i].text = r.url
                <=> r.ok /\ i = ToFetch(Gained(searches).evidence)[r.call]
         /\ \A r \in ToSet(fetches) :
              ToFetch(Gained(searches).evidence)[r.call] \in DOMAIN plan.evidence
<1> DEFINE evidence == Gained(searches).evidence
           places == ToFetch(evidence)
           g == Gathered(fetches)
           after == plan.evidence
<1>1. /\ Len(searches) = queries /\ fetches \in Seq(Fetch) /\ DOMAIN fetches = DOMAIN places
      /\ Answers(g, evidence)
      /\ \A r \in ToSet(fetches) : r.call \in DOMAIN fetches /\ g[r.call] = r
      /\ plan = AfterFetches(Gained(searches), g)
  BY AnswersAre
<1>2. /\ evidence \in Seq(Found) /\ places \in Seq(DOMAIN evidence)
      /\ Len(places) \in Nat /\ Len(places) <= TopN
      /\ \A n \in DOMAIN places : evidence[places[n]].url \in Urls
      /\ \A n, m \in DOMAIN places :
           evidence[places[n]].url = evidence[places[m]].url => n = m
  BY <1>1, PlacesToFetch
<1>3. /\ after \in Seq(Item) /\ DOMAIN after = DOMAIN evidence
      /\ \A i \in DOMAIN evidence : /\ after[i].title = evidence[i].title
                                    /\ after[i].url = evidence[i].url
                                    /\ after[i].text \in {None, evidence[i].url}
      /\ \A i \in DOMAIN evidence :
           after[i].text # None => \E n \in DOMAIN places : places[n] = i /\ g[n].ok
      /\ \A n \in DOMAIN places : g[n].ok => after[places[n]].text = evidence[places[n]].url
  BY <1>1, <1>2, TextsAre
<1> HIDE DEF evidence, places, g, after
<1>4. Len(fetches) <= TopN
  BY <1>1, <1>2
<1>5. \A n \in DOMAIN places : g[n].url = evidence[places[n]].url
  BY <1>1 DEF Answers, places
<1>6. \A r \in ToSet(fetches) : \A i \in DOMAIN after :
         after[i].text = r.url <=> r.ok /\ i = places[r.call]
  <2> SUFFICES ASSUME NEW r \in ToSet(fetches), NEW i \in DOMAIN after
               PROVE  after[i].text = r.url <=> r.ok /\ i = places[r.call]
    OBVIOUS
  <2>1. /\ r.call \in DOMAIN places /\ g[r.call] = r
        /\ r.url = evidence[places[r.call]].url /\ r.url \in Urls
    BY <1>1, <1>2, <1>5
  <2>2. ASSUME after[i].text = r.url PROVE r.ok /\ i = places[r.call]
    <3>1. after[i].text # None
      BY <2>1, <2>2, EvidenceAssumption
    <3>2. PICK n \in DOMAIN places : places[n] = i /\ g[n].ok
      BY <1>3, <3>1
    <3>3. evidence[places[n]].url = evidence[places[r.call]].url
      BY <1>3, <2>1, <2>2, <3>1, <3>2
    <3>4. n = r.call
      BY <1>2, <2>1, <3>3
    <3> QED
      BY <2>1, <3>2, <3>4
  <2>3. ASSUME r.ok, i = places[r.call] PROVE after[i].text = r.url
    BY <1>3, <2>1, <2>3
  <2> QED
    BY <2>2, <2>3
<1>7. \A r \in ToSet(fetches) : places[r.call] \in DOMAIN after
  BY <1>1, <1>2, <1>3
<1>8. \A i \in DOMAIN after : after[i].text \in {None, after[i].url}
  BY <1>3
<1> QED
  BY <1>3, <1>4, <1>6, <1>7, <1>8 DEF evidence, places, after

\* What is fetched has a URL that nothing else that is fetched has.
LEMMA FetchesDiffer ==
  ASSUME EvidenceInv
  PROVE  /\ \A r, q \in ToSet(fetches) : r.url = q.url => r.call = q.call
         /\ \A r \in ToSet(fetches) : r.url # Blank
<1>1. CASE fetches = <<>>
  BY <1>1 DEF ToSet
<1>2. CASE fetches # <<>>
  <2> DEFINE evidence == Gained(searches).evidence
             places == ToFetch(evidence)
  <2>1. Len(searches) = queries /\ Fetched(fetches, evidence)
    BY <1>2 DEF EvidenceInv
  <2>2. /\ places \in Seq(DOMAIN evidence) /\ Len(places) \in Nat
        /\ \A n \in DOMAIN places : evidence[places[n]].url \in Urls
        /\ \A n, m \in DOMAIN places :
             evidence[places[n]].url = evidence[places[m]].url => n = m
    BY <2>1, PlacesToFetch
  <2>3. \A r \in ToSet(fetches) : r.call \in 1..Len(places) /\ r.url = evidence[places[r.call]].url
    BY <2>1 DEF Fetched, Once, ToSet
  <2> HIDE DEF evidence, places
  <2>4. DOMAIN places = 1..Len(places)
    BY <2>2
  <2>5. \A r \in ToSet(fetches) : r.call \in DOMAIN places /\ r.url \in Urls
    BY <2>2, <2>3, <2>4
  <2>6. \A r, q \in ToSet(fetches) : r.url = q.url => r.call = q.call
    BY <2>2, <2>3, <2>5
  <2> QED
    BY <2>5, <2>6, CitationsAssumption
<1> QED
  BY <1>1, <1>2

LEMMA TextsAreOfTheirUrls == EvidenceInv => TextOfItsOwnUrl
<1> SUFFICES ASSUME EvidenceInv PROVE TextOfItsOwnUrl
  OBVIOUS
<1>1. ASSUME Planned
      PROVE  /\ Len(fetches) <= TopN
             /\ \A i \in 1..Len(plan.evidence) :
                  plan.evidence[i].text \in {None, plan.evidence[i].url}
             /\ \A r \in ToSet(fetches) :
                  r.ok <=> Cardinality({i \in 1..Len(plan.evidence) :
                                          plan.evidence[i].text = r.url}) = 1
  <2> DEFINE after == plan.evidence
             place(r) == ToFetch(Gained(searches).evidence)[r.call]
  <2>1. /\ Len(fetches) <= TopN /\ after \in Seq(Item)
        /\ \A i \in DOMAIN after : after[i].text \in {None, after[i].url}
        /\ \A r \in ToSet(fetches) : \A i \in DOMAIN after :
             after[i].text = r.url <=> r.ok /\ i = place(r)
        /\ \A r \in ToSet(fetches) : place(r) \in DOMAIN after
    BY <1>1, TextsStay
  <2> HIDE DEF after, place
  <2>2. DOMAIN after = 1..Len(after)
    BY <2>1
  <2>3. \A r \in ToSet(fetches) :
           r.ok <=> Cardinality({i \in 1..Len(after) : after[i].text = r.url}) = 1
    <3> SUFFICES ASSUME NEW r \in ToSet(fetches)
                 PROVE  r.ok <=> Cardinality({i \in 1..Len(after) : after[i].text = r.url}) = 1
      OBVIOUS
    <3> DEFINE I == {i \in 1..Len(after) : after[i].text = r.url}
    <3>1. CASE r.ok
      <4>1. I = {place(r)}
        BY <2>1, <2>2, <3>1
      <4> QED
        BY <3>1, <4>1, FS_Singleton
    <3>2. CASE ~r.ok
      <4>1. I = {}
        BY <2>1, <2>2, <3>2
      <4>2. Cardinality(I) = 0
        BY <4>1, FS_EmptySet
      <4> QED
        BY <3>2, <4>2
    <3> QED
      BY <3>1, <3>2
  <2> QED
    BY <2>1, <2>2, <2>3 DEF after
<1> QED
  BY <1>1, FetchesDiffer DEF TextOfItsOwnUrl

\* No URL is fetched twice and every text is with a hit of its own URL, for any
\* hits, any number of articles to fetch and any order of their arrival.
THEOREM TextsStayWithTheirUrls == PlanSpec => []TextOfItsOwnUrl
  BY EvidenceInvariant, TextsAreOfTheirUrls, PTL

\* The plan's items are the hits, under their titles and URLs, and its failures
\* those of the searches and of the fetches.
LEMMA PlanHolds ==
  ASSUME EvidenceInv, Planned
  PROVE  /\ ToSet(plan.failed) =
              Reports("search", ToSet(searches)) \cup Reports("fetch", ToSet(fetches))
         /\ \A r \in ToSet(searches) : \A k \in DOMAIN r.hits :
              \E i \in DOMAIN plan.evidence : /\ plan.evidence[i].title = r.hits[k].title
                                              /\ plan.evidence[i].url = r.hits[k].url
<1> DEFINE gained == Gained(searches)
           g == Gathered(fetches)
           s == gained.failed
           f == Failures("fetch", g)
<1>1. /\ Len(searches) = queries /\ AllReturned(searches) /\ AllReturned(fetches)
      /\ fetches \in Seq(Fetch) /\ Answers(g, gained.evidence)
      /\ plan = AfterFetches(gained, g)
  BY AnswersAre
<1>2. /\ gained.evidence \in Seq(Found)
      /\ \A r \in ToSet(searches) : \A k \in DOMAIN r.hits :
           \E n \in DOMAIN gained.evidence : /\ gained.evidence[n].title = r.hits[k].title
                                             /\ gained.evidence[n].url = r.hits[k].url
      /\ s \in Seq({"search"} \X Nat) /\ ToSet(s) = Reports("search", ToSet(searches))
  BY <1>1, GainedIs DEF EvidenceInv
<1>3. /\ g \in Seq(Fetch) /\ DOMAIN g = DOMAIN fetches
      /\ \A i \in DOMAIN fetches : g[i] \in ToSet(fetches)
      /\ \A r \in ToSet(fetches) : r.call \in DOMAIN fetches /\ g[r.call] = r
  BY <1>1, GatheredIs
<1>4. ToSet(g) = ToSet(fetches)
  <2> HIDE DEF g
  <2> QED
    BY <1>3 DEF ToSet
<1>5. f \in Seq({"fetch"} \X Nat) /\ ToSet(f) = Reports("fetch", ToSet(g))
  <2>1. \A r \in Fetch : r.call \in Nat
    BY DEF Fetch
  <2> HIDE DEF g
  <2> QED
    BY <1>3, <2>1, FailuresAre
<1>6. plan.failed = s \o f
  BY <1>1 DEF AfterFetches
<1>7. /\ DOMAIN plan.evidence = DOMAIN gained.evidence
      /\ \A i \in DOMAIN gained.evidence : /\ plan.evidence[i].title = gained.evidence[i].title
                                           /\ plan.evidence[i].url = gained.evidence[i].url
  <2> HIDE DEF gained, g
  <2> QED
    BY <1>1, <1>2, TextsAre
<1> HIDE DEF gained, g, s, f
<1>8. ToSet(plan.failed) = ToSet(s) \cup ToSet(f)
  <2> DEFINE S == {"search"} \X Nat
             T == {"fetch"} \X Nat
  <2>1. s \in Seq(S) /\ f \in Seq(T)
    BY <1>2, <1>5
  <2> HIDE DEF S, T
  <2> QED
    BY <1>6, <2>1, Joined, JoinedElements
<1> QED
  BY <1>2, <1>4, <1>5, <1>6, <1>7, <1>8

LEMMA FailuresAreReported == EvidenceInv => EveryFailureIsReported
<1> SUFFICES ASSUME EvidenceInv PROVE EveryFailureIsReported
  OBVIOUS
<1>1. at = "raised" => searches = <<>>
  BY DEF EvidenceInv
<1>2. ASSUME Planned
      PROVE  /\ ToSet(plan.failed) =
                  Reports("search", ToSet(searches)) \cup Reports("fetch", ToSet(fetches))
             /\ \A r \in ToSet(searches), k \in 1..MaxHits :
                  k <= Len(r.hits) =>
                    \E i \in 1..Len(plan.evidence) : /\ plan.evidence[i].title = r.hits[k].title
                                                     /\ plan.evidence[i].url = r.hits[k].url
  <2>1. plan.evidence \in Seq(Item)
    BY <1>2, TextsStay
  <2>2. DOMAIN plan.evidence = 1..Len(plan.evidence)
    BY <2>1
  <2>3. \A r \in ToSet(searches), k \in 1..MaxHits : k <= Len(r.hits) => k \in DOMAIN r.hits
    <3> SUFFICES ASSUME NEW r \in ToSet(searches), NEW k \in 1..MaxHits, k <= Len(r.hits)
                 PROVE  k \in DOMAIN r.hits
      OBVIOUS
    <3>1. r \in Search
      BY DEF EvidenceInv, ToSet
    <3>2. r.hits \in Seq(Hits)
      BY <3>1 DEF Search
    <3> QED
      BY <3>2, EvidenceAssumption
  <2> QED
    BY <1>2, <2>2, <2>3, PlanHolds
<1> QED
  BY <1>1, <1>2 DEF EveryFailureIsReported, Reports

\* Every search or fetch that failed is reported, and none costs the plan a hit
\* of another, for any number of calls and failures in any order.
THEOREM FailuresOnlyDegrade == PlanSpec => []EveryFailureIsReported
  BY EvidenceInvariant, FailuresAreReported, PTL

-----------------------------------------------------------------------------
(* The citations                                                            *)

PoolItem == [cert : Uuids, url : Urls, title : Titles \cup {Blank}]
Argument == [markers : Seq(Uuids \cup {Junk}), mentions : SUBSET Urls]

\* A set of places has a first and a last.
LEMMA FirstAndLast ==
  ASSUME NEW S \in SUBSET Nat, IsFiniteSet(S), S # {}
  PROVE  /\ \E i \in S : \A j \in S : i <= j
         /\ \E i \in S : \A j \in S : j <= i
<1> DEFINE n == Cardinality(S)
           a == Ascending(S)
<1>1. /\ n \in Nat /\ a \in [1..n -> S]
      /\ \A i \in S : \E k \in 1..n : a[k] = i
      /\ \A k, l \in 1..n : k < l => a[k] < a[l]
  BY AscendingIs
<1> HIDE DEF n, a
<1>2. 1 \in 1..n /\ n \in 1..n
  <2>1. PICK i \in S : TRUE
    OBVIOUS
  <2>2. PICK k \in 1..n : a[k] = i
    BY <1>1, <2>1
  <2> QED
    BY <1>1, <2>2
<1>3. \A j \in S : a[1] <= j /\ j <= a[n]
  <2> SUFFICES ASSUME NEW j \in S PROVE a[1] <= j /\ j <= a[n]
    OBVIOUS
  <2>1. PICK k \in 1..n : a[k] = j
    BY <1>1
  <2>2. (k = 1 \/ 1 < k) /\ (k = n \/ k < n)
    BY <1>1
  <2>3. a[1] \in Nat /\ a[n] \in Nat /\ a[k] \in Nat
    BY <1>1, <1>2
  <2>4. (k = 1 \/ a[1] < a[k]) /\ (k = n \/ a[k] < a[n])
    BY <1>1, <1>2, <2>2
  <2> QED
    BY <2>1, <2>3, <2>4
<1> QED
  BY <1>1, <1>2, <1>3

\* Places of a sequence are finitely many naturals.
LEMMA PlacesAreFinite ==
  ASSUME NEW T, NEW seq \in Seq(T), NEW S \in SUBSET DOMAIN seq
  PROVE  IsFiniteSet(S) /\ S \in SUBSET Nat
<1>1. DOMAIN seq = 1..Len(seq) /\ Len(seq) \in Nat
  OBVIOUS
<1>2. IsFiniteSet(1..Len(seq))
  BY <1>1, FS_Interval
<1> QED
  BY <1>1, <1>2, FS_Subset

\* Where an id is first mentioned.
First(markers, uid) == Min({i \in DOMAIN markers : markers[i] = uid})

\* extract_cert_markers gives the ids among the markers, by first appearance.
LEMMA MarkersAre ==
  ASSUME NEW markers \in Seq(Uuids \cup {Junk})
  PROVE  LET found == ExtractCertMarkers(markers)
         IN /\ found \in Seq(Uuids)
            /\ ToSet(found) = ToSet(markers) \cap Uuids
            /\ \A k \in DOMAIN found : First(markers, found[k]) \in Nat
            /\ \A k, l \in DOMAIN found : k < l =>
                 First(markers, found[k]) < First(markers, found[l])
<1> DEFINE S == {i \in DOMAIN markers : /\ markers[i] \in Uuids
                                        /\ \A j \in 1..(i - 1) : markers[j] # markers[i]}
           found == ExtractCertMarkers(markers)
<1>1. found = Collected(markers, S) /\ S \in SUBSET DOMAIN markers
  BY DEF ExtractCertMarkers
<1>2. DOMAIN markers = 1..Len(markers) /\ Len(markers) \in Nat
  OBVIOUS
<1>3. \A i \in S : markers[i] \in Uuids /\ First(markers, markers[i]) = i /\ i \in Nat
  <2> SUFFICES ASSUME NEW i \in S PROVE First(markers, markers[i]) = i /\ i \in Nat
    OBVIOUS
  <2> DEFINE I == {j \in DOMAIN markers : markers[j] = markers[i]}
  <2>1. i \in I /\ I \in SUBSET Nat
    BY <1>2
  <2>2. \A j \in I : i <= j
    BY <1>2
  <2> HIDE DEF I, S
  <2>3. Min(I) = i
    <3> DEFINE least(x) == \A y \in I : x =< y
    <3>1. least(i)
      BY <2>2
    <3>2. \A x \in I : least(x) => x = i
      <4> SUFFICES ASSUME NEW x \in I, least(x) PROVE x = i
        OBVIOUS
      <4>1. x <= i /\ i <= x /\ x \in Nat /\ i \in Nat
        BY <2>1, <2>2
      <4> QED
        BY <4>1
    <3>3. Min(I) = CHOOSE x \in I : least(x)
      BY DEF Min
    <3> HIDE DEF least
    <3> QED
      BY <2>1, <3>1, <3>2, <3>3
  <2> QED
    BY <2>1, <2>3 DEF First, I
<1>4. \A m \in ToSet(markers) \cap Uuids : \E i \in S : markers[i] = m
  <2> SUFFICES ASSUME NEW m \in ToSet(markers), m \in Uuids
               PROVE  \E i \in S : markers[i] = m
    OBVIOUS
  <2> DEFINE I == {j \in DOMAIN markers : markers[j] = m}
  <2>1. I # {} /\ I \in SUBSET DOMAIN markers
    BY DEF ToSet
  <2>2. IsFiniteSet(I) /\ I \in SUBSET Nat
    <3> HIDE DEF I
    <3> QED
      BY <2>1, PlacesAreFinite
  <2>3. PICK i \in I : \A j \in I : i <= j
    <3> HIDE DEF I
    <3> QED
      BY <2>1, <2>2, FirstAndLast
  <2>4. \A j \in 1..(i - 1) : markers[j] # m
    BY <1>2, <2>3
  <2> QED
    BY <2>3, <2>4
<1> HIDE DEF S, found
<1>5. found \in Seq(Uuids \cup {Junk}) /\ Selects(found, markers, S)
  BY <1>1, CollectedSelects
<1>6. PICK place \in [DOMAIN found -> S] :
        /\ \A k \in DOMAIN found : found[k] = markers[place[k]]
        /\ \A i \in S : \E k \in DOMAIN found : place[k] = i
        /\ \A k, l \in DOMAIN found : k < l => place[k] < place[l]
  BY <1>5 DEF Selects
<1>7. found \in Seq(Uuids)
  <2>1. DOMAIN found = 1..Len(found) /\ Len(found) \in Nat /\ found = [k \in DOMAIN found |-> found[k]]
    BY <1>5
  <2>2. \A k \in DOMAIN found : found[k] \in Uuids
    BY <1>3, <1>6
  <2>3. found \in [1..Len(found) -> Uuids]
    BY <2>1, <2>2
  <2> QED
    BY <2>1, <2>3
<1>8. ToSet(found) = ToSet(markers) \cap Uuids
  <2>1. \A k \in DOMAIN found : found[k] \in ToSet(markers) \cap Uuids
    BY <1>1, <1>3, <1>6 DEF ToSet
  <2>2. \A m \in ToSet(markers) \cap Uuids : \E k \in DOMAIN found : found[k] = m
    BY <1>4, <1>6
  <2> QED
    BY <2>1, <2>2 DEF ToSet
<1>9. \A k, l \in DOMAIN found : k < l => First(markers, found[k]) < First(markers, found[l])
  BY <1>3, <1>6
<1>10. \A k \in DOMAIN found : First(markers, found[k]) \in Nat
  BY <1>3, <1>6
<1> QED
  BY <1>7, <1>8, <1>9, <1>10 DEF found

\* What a citation of each type has to do with the argument and the sources.
CertCited(c, argument, items) ==
  /\ c.type = "cert" /\ c.ref \in Uuids /\ c.ref \in ToSet(argument.markers)
  /\ \E it \in ToSet(items) : it.cert = c.ref /\ it.title = c.title

UrlCited(c, argument, evidence) ==
  /\ c.type = "url" /\ c.ref # Blank /\ Mentions(argument, c.ref) /\ c.title # Blank
  /\ \E h \in ToSet(evidence) : h.url = c.ref /\ c.title \in {h.title, h.url}

\* The ids among the markers that the pool has, each under one of its titles.
LEMMA CertCitationsAre ==
  ASSUME NEW argument \in Argument, NEW items \in Seq(PoolItem)
  PROVE  LET cited == CertCitations(argument, items)
         IN /\ cited \in Seq({c \in [type : {"cert"}, ref : Uuids, title : Titles \cup {Blank}] :
                                CertCited(c, argument, items)})
            /\ \A i \in DOMAIN items : items[i].cert \in ToSet(argument.markers) =>
                 \E k \in DOMAIN cited : cited[k].ref = items[i].cert
            /\ \A k \in DOMAIN cited : First(argument.markers, cited[k].ref) \in Nat
            /\ \A k, l \in DOMAIN cited : k < l =>
                 First(argument.markers, cited[k].ref) < First(argument.markers, cited[l].ref)
<1> DEFINE markers == argument.markers
           placesOf(uid) == {i \in DOMAIN items : items[i].cert = uid}
           item(uid) == items[CHOOSE i \in placesOf(uid) : \A j \in placesOf(uid) : j <= i]
           found == ExtractCertMarkers(markers)
           S == {i \in DOMAIN found : placesOf(found[i]) # {}}
           ids == Collected(found, S)
           cited == CertCitations(argument, items)
           Cert == {c \in [type : {"cert"}, ref : Uuids, title : Titles \cup {Blank}] :
                      CertCited(c, argument, items)}
           citation(uid) == [type |-> "cert", ref |-> uid, title |-> item(uid).title]
<1>1. cited = [k \in DOMAIN ids |-> citation(ids[k])]
  BY DEF CertCitations
<1>2. markers \in Seq(Uuids \cup {Junk})
  BY DEF Argument
<1>3. \A uid : placesOf(uid) # {} => item(uid) \in PoolItem /\ item(uid).cert = uid /\ item(uid) \in ToSet(items)
  <2> SUFFICES ASSUME NEW uid, placesOf(uid) # {}
               PROVE  item(uid) \in PoolItem /\ item(uid).cert = uid /\ item(uid) \in ToSet(items)
    OBVIOUS
  <2> DEFINE I == placesOf(uid)
             i == CHOOSE i \in I : \A j \in I : j <= i
  <2>1. I \in SUBSET DOMAIN items /\ I # {}
    OBVIOUS
  <2>2. \E k \in I : \A j \in I : j <= k
    <3> HIDE DEF I
    <3>1. IsFiniteSet(I) /\ I \in SUBSET Nat
      BY <2>1, PlacesAreFinite
    <3> QED
      BY <2>1, <3>1, FirstAndLast
  <2>3. i \in I
    <3> HIDE DEF I
    <3> QED
      BY <2>2
  <2>4. item(uid) = items[i]
    OBVIOUS
  <2>5. i \in DOMAIN items /\ items[i].cert = uid
    BY <2>3
  <2> HIDE DEF i, item
  <2> QED
    BY <2>4, <2>5 DEF ToSet
<1> HIDE DEF markers, item, found
<1>4. /\ found \in Seq(Uuids) /\ ToSet(found) = ToSet(markers) \cap Uuids
      /\ \A k \in DOMAIN found : First(markers, found[k]) \in Nat
      /\ \A k, l \in DOMAIN found : k < l => First(markers, found[k]) < First(markers, found[l])
  BY <1>2, MarkersAre DEF found
<1>5. ids \in Seq(Uuids) /\ Selects(ids, found, S)
  BY <1>4, CollectedSelects
<1>6. PICK place \in [DOMAIN ids -> S] :
        /\ \A k \in DOMAIN ids : ids[k] = found[place[k]]
        /\ \A i \in S : \E k \in DOMAIN ids : place[k] = i
        /\ \A k, l \in DOMAIN ids : k < l => place[k] < place[l]
  <2> HIDE DEF ids, S
  <2> QED
    BY <1>5 DEF Selects
<1> HIDE DEF ids, cited, Cert
<1>7. \A k \in DOMAIN ids : ids[k] \in ToSet(markers) /\ ids[k] \in Uuids /\ placesOf(ids[k]) # {}
  <2>1. \A k \in DOMAIN ids : place[k] \in DOMAIN found /\ placesOf(found[place[k]]) # {}
    BY <1>6
  <2> HIDE DEF placesOf, S
  <2>2. \A k \in DOMAIN ids : ids[k] \in ToSet(found)
    BY <1>6, <2>1 DEF ToSet
  <2> QED
    BY <1>4, <1>6, <2>1, <2>2
<1>8. \A k \in DOMAIN ids : citation(ids[k]) \in Cert
  <2> SUFFICES ASSUME NEW k \in DOMAIN ids PROVE citation(ids[k]) \in Cert
    OBVIOUS
  <2> DEFINE it == item(ids[k])
  <2>1. it \in PoolItem /\ it.cert = ids[k] /\ it \in ToSet(items)
    BY <1>3, <1>7
  <2> HIDE DEF it
  <2>2. it.title \in Titles \cup {Blank}
    BY <2>1 DEF PoolItem
  <2> DEFINE c == [type |-> "cert", ref |-> ids[k], title |-> it.title]
  <2>3. c \in [type : {"cert"}, ref : Uuids, title : Titles \cup {Blank}]
    BY <1>7, <2>2
  <2>4. CertCited(c, argument, items)
    BY <1>7, <2>1, <2>2 DEF CertCited, markers
  <2>5. citation(ids[k]) = c
    BY DEF it
  <2> HIDE DEF c
  <2> QED
    BY <2>3, <2>4, <2>5 DEF Cert
<1>9. cited \in Seq(Cert) /\ DOMAIN cited = DOMAIN ids
  <2> HIDE DEF citation
  <2>1. DOMAIN ids = 1..Len(ids) /\ Len(ids) \in Nat
    BY <1>5
  <2>2. cited \in [1..Len(ids) -> Cert]
    BY <1>1, <1>8, <2>1
  <2> QED
    BY <2>1, <2>2
<1>10. \A k \in DOMAIN ids : cited[k].ref = ids[k]
  BY <1>1
<1>11. \A i \in DOMAIN items : items[i].cert \in ToSet(markers) =>
         \E k \in DOMAIN cited : cited[k].ref = items[i].cert
  <2> SUFFICES ASSUME NEW i \in DOMAIN items, items[i].cert \in ToSet(markers)
               PROVE  \E k \in DOMAIN ids : ids[k] = items[i].cert
    BY <1>9, <1>10
  <2>1. items[i] \in PoolItem
    OBVIOUS
  <2>2. items[i].cert \in ToSet(found)
    BY <1>4, <2>1 DEF PoolItem
  <2>3. PICK j \in DOMAIN found : found[j] = items[i].cert
    BY <2>2 DEF ToSet
  <2>4. j \in S
    BY <2>3
  <2>5. PICK k \in DOMAIN ids : place[k] = j
    BY <1>6, <2>4
  <2> QED
    BY <1>6, <2>3, <2>5
<1>12. /\ \A k \in DOMAIN cited : First(markers, cited[k].ref) \in Nat
       /\ \A k, l \in DOMAIN cited : k < l =>
            First(markers, cited[k].ref) < First(markers, cited[l].ref)
  <2> HIDE DEF placesOf
  <2>1. \A k \in DOMAIN ids : place[k] \in DOMAIN found
    BY <1>6
  <2> HIDE DEF S
  <2> QED
    BY <1>4, <1>6, <1>9, <1>10, <2>1
<1> QED
  BY <1>9, <1>11, <1>12 DEF cited, Cert, markers

\* The URLs among the hits that the argument mentions, each once.
LEMMA UrlCitationsAre ==
  ASSUME NEW argument \in Argument, NEW evidence \in Seq(Item)
  PROVE  LET cited == UrlCitations(argument, evidence)
         IN /\ cited \in Seq({c \in [type : {"url"}, ref : Urls, title : Titles \cup Urls] :
                                UrlCited(c, argument, evidence)})
            /\ \A i \in DOMAIN evidence :
                 evidence[i].url # Blank /\ Mentions(argument, evidence[i].url) =>
                   \E k \in DOMAIN cited : cited[k].ref = evidence[i].url
            /\ \A k, l \in DOMAIN cited : k < l => cited[k].ref # cited[l].ref
<1> DEFINE S == {i \in DOMAIN evidence : /\ NewUrl(evidence, i)
                                         /\ Mentions(argument, evidence[i].url)}
           hits == Collected(evidence, S)
           cited == UrlCitations(argument, evidence)
           Url == {c \in [type : {"url"}, ref : Urls, title : Titles \cup Urls] :
                     UrlCited(c, argument, evidence)}
           citation(h) == [type |-> "url", ref |-> h.url, title |-> TitleOf(h)]
<1>1. cited = [k \in DOMAIN hits |-> citation(hits[k])]
  BY DEF UrlCitations
<1>2. DOMAIN evidence = 1..Len(evidence) /\ Len(evidence) \in Nat
  OBVIOUS
<1>3. hits \in Seq(Item) /\ Selects(hits, evidence, S)
  BY CollectedSelects
<1>4. \A i \in S : /\ i \in DOMAIN evidence /\ i \in Nat /\ evidence[i] \in Item
                   /\ NewUrl(evidence, i) /\ evidence[i].url # Blank
                   /\ Mentions(argument, evidence[i].url)
  BY <1>2 DEF NewUrl
<1>5. \A i, j \in S : i < j => evidence[i].url # evidence[j].url
  <2> SUFFICES ASSUME NEW i \in S, NEW j \in S, i < j
               PROVE  evidence[i].url # evidence[j].url
    OBVIOUS
  <2>1. i \in 1..(j - 1)
    BY <1>2
  <2> QED
    BY <2>1, <1>4 DEF NewUrl
<1>6. \A i \in DOMAIN evidence :
        evidence[i].url # Blank /\ Mentions(argument, evidence[i].url) =>
          \E j \in S : evidence[j].url = evidence[i].url
  <2> SUFFICES ASSUME NEW i \in DOMAIN evidence, evidence[i].url # Blank,
                      Mentions(argument, evidence[i].url)
               PROVE  \E j \in S : evidence[j].url = evidence[i].url
    OBVIOUS
  <2> DEFINE I == {j \in DOMAIN evidence : evidence[j].url = evidence[i].url}
  <2>1. I # {} /\ I \in SUBSET DOMAIN evidence
    OBVIOUS
  <2>2. PICK j \in I : \A k \in I : j <= k
    <3> HIDE DEF I, S
    <3>1. IsFiniteSet(I) /\ I \in SUBSET Nat
      BY <2>1, PlacesAreFinite
    <3> QED
      BY <2>1, <3>1, FirstAndLast
  <2>3. \A k \in 1..(j - 1) : evidence[k].url # evidence[j].url
    BY <1>2, <2>2
  <2>4. NewUrl(evidence, j)
    BY <2>2, <2>3 DEF NewUrl
  <2> QED
    BY <2>2, <2>4
<1> HIDE DEF hits, cited, Url
<1>7. PICK place \in [DOMAIN hits -> S] :
        /\ \A k \in DOMAIN hits : hits[k] = evidence[place[k]]
        /\ \A i \in S : \E k \in DOMAIN hits : place[k] = i
        /\ \A k, l \in DOMAIN hits : k < l => place[k] < place[l]
  <2> HIDE DEF S
  <2> QED
    BY <1>3 DEF Selects
<1> HIDE DEF S
<1>8. \A k \in DOMAIN hits : /\ hits[k] \in Item /\ hits[k] \in ToSet(evidence)
                             /\ hits[k].url # Blank /\ Mentions(argument, hits[k].url)
  BY <1>4, <1>7 DEF ToSet
<1>9. \A k \in DOMAIN hits : citation(hits[k]) \in Url
  <2> SUFFICES ASSUME NEW k \in DOMAIN hits PROVE citation(hits[k]) \in Url
    OBVIOUS
  <2> DEFINE h == hits[k]
             c == citation(h)
  <2>1. /\ h \in Item /\ h \in ToSet(evidence)
        /\ h.url # Blank /\ Mentions(argument, h.url)
    BY <1>8
  <2> HIDE DEF h
  <2>2. h.url \in Urls /\ h.title \in Titles \cup {Blank}
    BY <2>1 DEF Item
  <2>3. TitleOf(h) \in {h.title, h.url} /\ TitleOf(h) # Blank /\ TitleOf(h) \in Titles \cup Urls
    BY <2>1, <2>2 DEF TitleOf
  <2>4. c.type = "url" /\ c.ref = h.url /\ c.title = TitleOf(h)
    OBVIOUS
  <2>5. c \in [type : {"url"}, ref : Urls, title : Titles \cup Urls]
    BY <2>2, <2>3
  <2> HIDE DEF c
  <2>6. UrlCited(c, argument, evidence)
    BY <2>1, <2>3, <2>4 DEF UrlCited
  <2> QED
    BY <2>5, <2>6 DEF Url, c, h
<1>10. cited \in Seq(Url) /\ DOMAIN cited = DOMAIN hits
  <2> HIDE DEF citation
  <2>1. DOMAIN hits = 1..Len(hits) /\ Len(hits) \in Nat
    BY <1>3
  <2>2. cited \in [1..Len(hits) -> Url]
    BY <1>1, <1>9, <2>1
  <2> QED
    BY <2>1, <2>2
<1>11. \A k \in DOMAIN hits : cited[k].ref = hits[k].url
  BY <1>1
<1>12. \A i \in DOMAIN evidence :
         evidence[i].url # Blank /\ Mentions(argument, evidence[i].url) =>
           \E k \in DOMAIN cited : cited[k].ref = evidence[i].url
  <2> SUFFICES ASSUME NEW i \in DOMAIN evidence, evidence[i].url # Blank,
                      Mentions(argument, evidence[i].url)
               PROVE  \E k \in DOMAIN hits : hits[k].url = evidence[i].url
    BY <1>10, <1>11
  <2>1. PICK j \in S : evidence[j].url = evidence[i].url
    BY <1>6
  <2>2. PICK k \in DOMAIN hits : place[k] = j
    BY <1>7
  <2> QED
    BY <1>7, <2>1, <2>2
<1>13. \A k, l \in DOMAIN cited : k < l => cited[k].ref # cited[l].ref
  BY <1>5, <1>7, <1>10, <1>11
<1> QED
  BY <1>10, <1>12, <1>13 DEF cited, Url

\* Citations name sources of the argument, all of those it names, each once,
\* and the certificates first, in the order of their first mention.
CitesWell(cited, argument, items, evidence) ==
  /\ \A k \in DOMAIN cited :
       CertCited(cited[k], argument, items) \/ UrlCited(cited[k], argument, evidence)
  /\ \A i \in DOMAIN items : items[i].cert \in ToSet(argument.markers) =>
       \E k \in DOMAIN cited : cited[k].type = "cert" /\ cited[k].ref = items[i].cert
  /\ \A i \in DOMAIN evidence :
       evidence[i].url # Blank /\ Mentions(argument, evidence[i].url) =>
         \E k \in DOMAIN cited : cited[k].type = "url" /\ cited[k].ref = evidence[i].url
  /\ \A k, l \in DOMAIN cited : k < l =>
       /\ cited[k].type # cited[l].type \/ cited[k].ref # cited[l].ref
       /\ cited[l].type = "cert" =>
            /\ cited[k].type = "cert"
            /\ First(argument.markers, cited[k].ref) < First(argument.markers, cited[l].ref)

\* Certificates and then URLs: no mention is lost and none comes twice.
LEMMA BuiltCiteWell ==
  ASSUME NEW argument \in Argument, NEW items \in Seq(PoolItem), NEW evidence \in Seq(Item)
  PROVE  LET cited == BuildRoundCitations(argument, items, evidence)
         IN \E T : cited \in Seq(T) /\ CitesWell(cited, argument, items, evidence)
<1> DEFINE s == CertCitations(argument, items)
           t == UrlCitations(argument, evidence)
           c == BuildRoundCitations(argument, items, evidence)
           Cert == {r \in [type : {"cert"}, ref : Uuids, title : Titles \cup {Blank}] :
                      CertCited(r, argument, items)}
           Url == {r \in [type : {"url"}, ref : Urls, title : Titles \cup Urls] :
                     UrlCited(r, argument, evidence)}
           first(uid) == First(argument.markers, uid)
<1>1. /\ s \in Seq(Cert)
      /\ \A i \in DOMAIN items : items[i].cert \in ToSet(argument.markers) =>
           \E k \in DOMAIN s : s[k].ref = items[i].cert
      /\ \A k \in DOMAIN s : first(s[k].ref) \in Nat
      /\ \A k, l \in DOMAIN s : k < l => first(s[k].ref) < first(s[l].ref)
  BY CertCitationsAre
<1>2. /\ t \in Seq(Url)
      /\ \A i \in DOMAIN evidence :
           evidence[i].url # Blank /\ Mentions(argument, evidence[i].url) =>
             \E k \in DOMAIN t : t[k].ref = evidence[i].url
      /\ \A k, l \in DOMAIN t : k < l => t[k].ref # t[l].ref
  BY UrlCitationsAre
<1>3. \A r \in Cert : r.type = "cert" /\ CertCited(r, argument, items)
  OBVIOUS
<1>4. \A r \in Url : r.type = "url" /\ UrlCited(r, argument, evidence)
  OBVIOUS
<1>5. c = s \o t
  BY DEF BuildRoundCitations
<1> HIDE DEF s, t, c, Cert, Url, first
<1>6. IsJoin(c, s, t)
  BY <1>1, <1>2, <1>5, Joined
<1>7. c \in Seq(Cert \cup Url)
  BY <1>1, <1>2, <1>5
<1>8. \A k \in DOMAIN s : k \in DOMAIN c /\ c[k] = s[k] /\ s[k] \in Cert
  BY <1>1, <1>6 DEF IsJoin
<1>9. \A k \in DOMAIN t : Len(s) + k \in DOMAIN c /\ c[Len(s) + k] = t[k] /\ t[k] \in Url
  BY <1>2, <1>6 DEF IsJoin
<1>10. \A k \in DOMAIN c : k \in DOMAIN s \/ \E j \in DOMAIN t : k = Len(s) + j
  BY <1>6 DEF IsJoin
<1>11. /\ Len(s) \in Nat /\ Len(t) \in Nat
       /\ DOMAIN s = 1..Len(s) /\ DOMAIN t = 1..Len(t)
  BY <1>1, <1>2
<1>12. \A k \in DOMAIN c : CertCited(c[k], argument, items) \/ UrlCited(c[k], argument, evidence)
  BY <1>3, <1>4, <1>8, <1>9, <1>10
<1>13. \A i \in DOMAIN items : items[i].cert \in ToSet(argument.markers) =>
         \E k \in DOMAIN c : c[k].type = "cert" /\ c[k].ref = items[i].cert
  BY <1>1, <1>3, <1>8
<1>14. \A i \in DOMAIN evidence :
         evidence[i].url # Blank /\ Mentions(argument, evidence[i].url) =>
           \E k \in DOMAIN c : c[k].type = "url" /\ c[k].ref = evidence[i].url
  BY <1>2, <1>4, <1>9
<1>15. \A k, l \in DOMAIN c : k < l =>
         /\ c[k].type # c[l].type \/ c[k].ref # c[l].ref
         /\ c[l].type = "cert" => c[k].type = "cert" /\ first(c[k].ref) < first(c[l].ref)
  <2> SUFFICES ASSUME NEW k \in DOMAIN c, NEW l \in DOMAIN c, k < l
               PROVE  /\ c[k].type # c[l].type \/ c[k].ref # c[l].ref
                      /\ c[l].type = "cert" =>
                           c[k].type = "cert" /\ first(c[k].ref) < first(c[l].ref)
    OBVIOUS
  <2>1. CASE l \in DOMAIN s
    <3>1. k \in DOMAIN s
      <4>1. k \in Nat /\ k # 0
        BY <1>7
      <4> QED
        BY <1>11, <2>1, <4>1
    <3>2. c[k].type = "cert" /\ first(c[k].ref) < first(c[l].ref) /\ first(c[l].ref) \in Nat
      BY <1>1, <1>3, <1>8, <2>1, <3>1
    <3>3. c[k].ref # c[l].ref
      <4> SUFFICES ASSUME c[k].ref = c[l].ref PROVE FALSE
        OBVIOUS
      <4>1. first(c[l].ref) < first(c[l].ref) /\ first(c[l].ref) \in Nat
        BY <3>2
      <4> QED
        BY <4>1
    <3> QED
      BY <3>2, <3>3
  <2>2. CASE l \notin DOMAIN s
    <3>1. PICK j \in DOMAIN t : l = Len(s) + j
      BY <1>10, <2>2
    <3>2. c[l] = t[j] /\ c[l].type = "url"
      BY <1>4, <1>9, <3>1
    <3>3. CASE k \in DOMAIN s
      BY <1>3, <1>8, <3>2, <3>3
    <3>4. CASE k \notin DOMAIN s
      <4>1. PICK i \in DOMAIN t : k = Len(s) + i
        BY <1>10, <3>4
      <4>2. i < j /\ c[k] = t[i]
        BY <1>9, <1>11, <3>1, <4>1
      <4> QED
        BY <1>2, <3>2, <4>2
    <3> QED
      BY <3>3, <3>4
  <2> QED
    BY <2>1, <2>2
<1>16. CitesWell(c, argument, items, evidence)
  BY <1>12, <1>13, <1>14, <1>15 DEF CitesWell, first
<1> QED
  BY <1>7, <1>16 DEF c

\* The transcript shows all of them: each has a known type and a ref.
LEMMA ShownCiteWell ==
  ASSUME NEW argument \in Argument, NEW items \in Seq(PoolItem), NEW evidence \in Seq(Item)
  PROVE  LET shown == InTranscript(BuildRoundCitations(argument, items, evidence))
         IN \E T : shown \in Seq(T) /\ CitesWell(shown, argument, items, evidence)
<1> DEFINE c == BuildRoundCitations(argument, items, evidence)
           shown == InTranscript(c)
           S == {i \in DOMAIN c : c[i].type \in {"cert", "url"} /\ c[i].ref # Blank}
           first(uid) == First(argument.markers, uid)
<1>1. PICK T : c \in Seq(T) /\ CitesWell(c, argument, items, evidence)
  BY BuiltCiteWell
<1>2. shown = Collected(c, S)
  BY DEF InTranscript
<1> HIDE DEF c
<1>3. \A k \in DOMAIN c :
        CertCited(c[k], argument, items) \/ UrlCited(c[k], argument, evidence)
  BY <1>1 DEF CitesWell
<1>4. S = DOMAIN c
  BY <1>3, CitationsAssumption DEF CertCited, UrlCited
<1> HIDE DEF S, shown
<1>5. shown \in Seq(T) /\ Selects(shown, c, DOMAIN c)
  BY <1>1, <1>2, <1>4, CollectedSelects
<1>6. PICK place \in [DOMAIN shown -> DOMAIN c] :
        /\ \A k \in DOMAIN shown : shown[k] = c[place[k]]
        /\ \A i \in DOMAIN c : \E k \in DOMAIN shown : place[k] = i
        /\ \A k, l \in DOMAIN shown : k < l => place[k] < place[l]
  BY <1>5 DEF Selects
<1>7. \A k \in DOMAIN shown :
        CertCited(shown[k], argument, items) \/ UrlCited(shown[k], argument, evidence)
  BY <1>3, <1>6
<1>8. \A i \in DOMAIN c : \E k \in DOMAIN shown : shown[k] = c[i]
  BY <1>6
<1>9. \A i \in DOMAIN items : items[i].cert \in ToSet(argument.markers) =>
        \E k \in DOMAIN shown : shown[k].type = "cert" /\ shown[k].ref = items[i].cert
  <2>1. \A i \in DOMAIN items : items[i].cert \in ToSet(argument.markers) =>
          \E k \in DOMAIN c : c[k].type = "cert" /\ c[k].ref = items[i].cert
    BY <1>1 DEF CitesWell
  <2> QED
    BY <1>8, <2>1
<1>10. \A i \in DOMAIN evidence :
         evidence[i].url # Blank /\ Mentions(argument, evidence[i].url) =>
           \E k \in DOMAIN shown : shown[k].type = "url" /\ shown[k].ref = evidence[i].url
  <2>1. \A i \in DOMAIN evidence :
          evidence[i].url # Blank /\ Mentions(argument, evidence[i].url) =>
            \E k \in DOMAIN c : c[k].type = "url" /\ c[k].ref = evidence[i].url
    BY <1>1 DEF CitesWell
  <2> QED
    BY <1>8, <2>1
<1> HIDE DEF first
<1>11. \A k, l \in DOMAIN shown : k < l =>
         /\ shown[k].type # shown[l].type \/ shown[k].ref # shown[l].ref
         /\ shown[l].type = "cert" =>
              shown[k].type = "cert" /\ first(shown[k].ref) < first(shown[l].ref)
  <2>1. \A k, l \in DOMAIN c : k < l =>
          /\ c[k].type # c[l].type \/ c[k].ref # c[l].ref
          /\ c[l].type = "cert" => c[k].type = "cert" /\ first(c[k].ref) < first(c[l].ref)
    BY <1>1 DEF CitesWell, first
  <2> SUFFICES ASSUME NEW k \in DOMAIN shown, NEW l \in DOMAIN shown, k < l
               PROVE  /\ shown[k].type # shown[l].type \/ shown[k].ref # shown[l].ref
                      /\ shown[l].type = "cert" =>
                           shown[k].type = "cert" /\ first(shown[k].ref) < first(shown[l].ref)
    OBVIOUS
  <2>2. /\ place[k] \in DOMAIN c /\ place[l] \in DOMAIN c /\ place[k] < place[l]
        /\ shown[k] = c[place[k]] /\ shown[l] = c[place[l]]
    BY <1>6
  <2> QED
    BY <2>1, <2>2
<1>12. CitesWell(shown, argument, items, evidence)
  BY <1>7, <1>9, <1>10, <1>11 DEF CitesWell, first
<1> QED
  BY <1>5, <1>12 DEF shown, c

LEMMA SourcesTyped ==
  ASSUME EvidenceInv, Planned
  PROVE  pool \in Seq(PoolItem) /\ plan.evidence \in Seq(Item)
<1>1. pool \in Seq(PoolItem)
  BY EvidenceAssumption DEF EvidenceInv, PoolItem
<1> QED
  BY <1>1, TextsStay

LEMMA CitationsCiteSources == EvidenceInv => CitationsAreTheSources
<1> SUFFICES ASSUME EvidenceInv, at = "argued" PROVE CitationsAreTheSources
  BY DEF CitationsAreTheSources
<1> DEFINE cited == transcript.citations
           argument == transcript.argument
           evidence == plan.evidence
           refs(type) == {cited[i].ref : i \in {j \in 1..Len(cited) : cited[j].type = type}}
           first(uid) == First(argument.markers, uid)
<1>1. argument \in Argument /\ cited = InTranscript(BuildRoundCitations(argument, pool, evidence))
  BY EvidenceAssumption DEF EvidenceInv, Argument
<1>2. pool \in Seq(PoolItem) /\ evidence \in Seq(Item)
  BY SourcesTyped DEF Planned
<1> HIDE DEF cited, argument, evidence
<1>3. PICK T : cited \in Seq(T) /\ CitesWell(cited, argument, pool, evidence)
  BY <1>1, <1>2, ShownCiteWell
<1>4. DOMAIN cited = 1..Len(cited) /\ DOMAIN pool = 1..Len(pool) /\ DOMAIN evidence = 1..Len(evidence)
  BY <1>2, <1>3
<1>5. \A k \in 1..Len(cited) :
        CertCited(cited[k], argument, pool) \/ UrlCited(cited[k], argument, evidence)
  BY <1>3, <1>4 DEF CitesWell
<1>6. refs("cert") = {pool[i].cert : i \in 1..Len(pool)} \cap ToSet(argument.markers)
  <2>1. \A k \in 1..Len(cited) : cited[k].type = "cert" =>
           cited[k].ref \in {pool[i].cert : i \in 1..Len(pool)} \cap ToSet(argument.markers)
    <3> SUFFICES ASSUME NEW k \in 1..Len(cited), cited[k].type = "cert"
                 PROVE  /\ \E i \in 1..Len(pool) : cited[k].ref = pool[i].cert
                        /\ cited[k].ref \in ToSet(argument.markers)
      OBVIOUS
    <3>1. CertCited(cited[k], argument, pool)
      BY <1>5 DEF UrlCited
    <3>2. PICK i \in DOMAIN pool : pool[i].cert = cited[k].ref
      BY <3>1 DEF CertCited, ToSet
    <3> QED
      BY <1>4, <3>1, <3>2 DEF CertCited
  <2>2. \A i \in 1..Len(pool) : pool[i].cert \in ToSet(argument.markers) =>
           \E k \in 1..Len(cited) : cited[k].type = "cert" /\ cited[k].ref = pool[i].cert
    BY <1>3, <1>4 DEF CitesWell
  <2> QED
    BY <2>1, <2>2
<1>7. refs("url") = {u \in {evidence[i].url : i \in 1..Len(evidence)} \ {Blank} :
                       Mentions(argument, u)}
  <2>1. \A k \in 1..Len(cited) : cited[k].type = "url" =>
           /\ \E i \in 1..Len(evidence) : cited[k].ref = evidence[i].url
           /\ cited[k].ref # Blank /\ Mentions(argument, cited[k].ref)
    <3> SUFFICES ASSUME NEW k \in 1..Len(cited), cited[k].type = "url"
                 PROVE  /\ \E i \in 1..Len(evidence) : cited[k].ref = evidence[i].url
                        /\ cited[k].ref # Blank /\ Mentions(argument, cited[k].ref)
      OBVIOUS
    <3>1. UrlCited(cited[k], argument, evidence)
      BY <1>5 DEF CertCited
    <3> QED
      BY <1>4, <3>1 DEF UrlCited, ToSet
  <2>2. \A i \in 1..Len(evidence) :
           evidence[i].url # Blank /\ Mentions(argument, evidence[i].url) =>
             \E k \in 1..Len(cited) : cited[k].type = "url" /\ cited[k].ref = evidence[i].url
    BY <1>3, <1>4 DEF CitesWell
  <2> QED
    BY <2>1, <2>2
<1>8. \A c \in ToSet(cited) :
        \/ /\ c.type = "cert"
           /\ \E item \in ToSet(pool) : item.cert = c.ref /\ item.title = c.title
        \/ /\ c.type = "url" /\ c.title # Blank
           /\ \E h \in ToSet(evidence) : h.url = c.ref /\ c.title \in {h.title, h.url}
  <2> SUFFICES ASSUME NEW k \in 1..Len(cited)
               PROVE  \/ /\ cited[k].type = "cert"
                         /\ \E item \in ToSet(pool) :
                              item.cert = cited[k].ref /\ item.title = cited[k].title
                      \/ /\ cited[k].type = "url" /\ cited[k].title # Blank
                         /\ \E h \in ToSet(evidence) :
                              h.url = cited[k].ref /\ cited[k].title \in {h.title, h.url}
    BY <1>4 DEF ToSet
  <2> QED
    BY <1>5 DEF CertCited, UrlCited
<1> HIDE DEF first, refs
<1>9. \A i, j \in 1..Len(cited) : i < j =>
        /\ <<cited[i].type, cited[i].ref>> # <<cited[j].type, cited[j].ref>>
        /\ cited[j].type = "cert" =>
             cited[i].type = "cert" /\ first(cited[i].ref) < first(cited[j].ref)
  BY <1>3, <1>4 DEF CitesWell, first
<1> QED
  BY <1>6, <1>7, <1>8, <1>9 DEF CitationsAreTheSources, cited, argument, evidence, refs, first, First

\* An argument's citations are what it names of the pool and of the hits, once
\* each and in order, for any pool, hits and argument.
THEOREM CitationsNameTheSources == PlanSpec => []CitationsAreTheSources
  BY EvidenceInvariant, CitationsCiteSources, PTL
=============================================================================
