--------------------------- MODULE LlmCascadeProofs ---------------------------
(***************************************************************************)
(* Theorems about LlmCascade for every value of its constants: the types,  *)
(* the bound on the whole call's time, the order of the tiers, and that    *)
(* without a late timer every one of them is asked.                        *)
(***************************************************************************)
EXTENDS LlmCascade, TLAPS

\* A share of what is left is no more than what is left, and none of nothing.
LEMMA ShareOfWhatIsLeft ==
  ASSUME NEW left \in Int, NEW n \in Nat \ {0}
  PROVE  /\ left \div n \in Int
         /\ left >= 0 => left \div n <= left
         /\ left < 0 => left \div n <= 0
  <1>1. CASE left >= 0  BY <1>1
  <1>2. CASE left < 0   BY <1>2
  <1> QED  BY <1>1, <1>2

LEMMA OrderIsTiers ==
  ASSUME NEW requested \in Tiers, NEW m
  PROVE  CascadeOrder(requested, m) \in Seq(Tiers)
  <1> DEFINE second == Others[requested][1]
             third == Others[requested][2]
  <1>1. second \in Tiers /\ third \in Tiers  BY DEF Tiers, Others
  <1> HIDE DEF second, third
  <1>2. \A s \in Seq(Tiers), t \in Tiers : Add(s, t, m) \in Seq(Tiers)  BY DEF Add
  <1>3. <<requested>> \in Seq(Tiers)  OBVIOUS
  <1>4. Add(<<requested>>, second, m) \in Seq(Tiers)  BY <1>1, <1>2, <1>3
  <1>5. Add(Add(<<requested>>, second, m), third, m) \in Seq(Tiers)  BY <1>1, <1>2, <1>4
  <1> QED  BY <1>5 DEF CascadeOrder, second, third

LEMMA DelaysAreIntegers ==
  ASSUME attempt \in Nat PROVE Delays \subseteq Int
  BY CascadeSettings DEF Delays

-----------------------------------------------------------------------------
(* Types                                                                    *)

\* The record of a tier that was given up.
LEMMA GiveUpTyped ==
  ASSUME TypeOK, index > 0,
         NEW stage \in Transient \cup Permanent,
         NEW why \in {"no_time", "permanent", "attempts", "backoff"},
         NEW n \in 0..Attempts, GiveUp(stage, why, n)
  PROVE  /\ failures' \in Seq([tier : Tiers, stage : Transient \cup Permanent,
                               why : {"no_time", "permanent", "attempts", "backoff"},
                               calls : 0..Attempts])
         /\ pc' = "tier"
  <1>1. order[index] \in Tiers  BY DEF TypeOK
  <1> QED  BY <1>1 DEF TypeOK, GiveUp

LEMMA RetryTyped ==
  ASSUME TypeOK, index > 0, NEW stage \in Transient, RetryOrGiveUp(stage)
  PROVE  /\ failures' \in Seq([tier : Tiers, stage : Transient \cup Permanent,
                               why : {"no_time", "permanent", "attempts", "backoff"},
                               calls : 0..Attempts])
         /\ wake' \in Int
         /\ \/ pc' = "tier"
            \/ pc' = "sleeping" /\ wake' < until /\ attempt < Attempts - 1
  <1> USE CascadeSettings
  <1>1. attempt + 1 \in 0..Attempts  BY DEF TypeOK
  <1>2. CASE /\ attempt = Attempts - 1
             /\ GiveUp(stage, "attempts", attempt + 1)
             /\ UNCHANGED wake
    BY <1>1, <1>2, GiveUpTyped DEF TypeOK
  <1>3. CASE \E delay \in Delays :
               now + delay >= until /\ GiveUp(stage, "backoff", attempt + 1) /\ UNCHANGED wake
    BY <1>1, <1>3, GiveUpTyped DEF TypeOK
  <1>4. ASSUME attempt < Attempts - 1, NEW delay \in Delays, now + delay < until,
               pc' = "sleeping", wake' = now + delay, UNCHANGED failures
        PROVE  wake' \in Int /\ wake' < until
    <2>1. attempt \in Nat  BY DEF TypeOK
    <2>2. delay \in Int  BY <2>1, DelaysAreIntegers
    <2> QED  BY <1>4, <2>2 DEF TypeOK
  <1> QED  BY <1>2, <1>3, <1>4 DEF RetryOrGiveUp, TypeOK

LEMMA TypesStep ==
  ASSUME TypeOK, SharesNest, FailuresFollowTheOrder, [Next]_vars
  PROVE  TypeOK'
  <1> USE CascadeSettings
  <1>1. CASE StartTier
    <2>1. Len(order) - index \in Nat \ {0} /\ NodeDeadline - now \in Int
      BY <1>1 DEF StartTier, TypeOK
    <2>2. Share \in Int  BY <2>1, ShareOfWhatIsLeft DEF Share
    <2> HIDE DEF Share
    <2> QED  BY <1>1, <2>2 DEF StartTier, TypeOK, Ended, Transient
  <1>2. CASE Exhaust  BY <1>2 DEF Exhaust, TypeOK, Ended
  <1>3. CASE BeginAttempt
    <2>1. CASE until <= now /\ GiveUp(last, "no_time", attempt)
      <3>1. attempt \in 0..Attempts /\ index > 0
        BY <1>3 DEF BeginAttempt, TypeOK, FailuresFollowTheOrder
      <3>2. failures' \in Seq([tier : Tiers, stage : Transient \cup Permanent,
                               why : {"no_time", "permanent", "attempts", "backoff"},
                               calls : 0..Attempts]) /\ pc' = "tier"
        BY <2>1, <3>1, GiveUpTyped DEF TypeOK
      <3> QED  BY <1>3, <3>2 DEF BeginAttempt, TypeOK
    <2>2. CASE pc' = "calling" /\ UNCHANGED failures
      BY <1>3, <2>2 DEF BeginAttempt, TypeOK
    <2> QED  BY <1>3, <2>1, <2>2 DEF BeginAttempt
  <1>4. CASE Answer  BY <1>4 DEF Answer, TypeOK, Ended
  <1>5. CASE FailForGood
    <2>1. attempt + 1 \in 0..Attempts /\ index > 0
      BY <1>5 DEF FailForGood, TypeOK, FailuresFollowTheOrder
    <2>2. failures' \in Seq([tier : Tiers, stage : Transient \cup Permanent,
                             why : {"no_time", "permanent", "attempts", "backoff"},
                             calls : 0..Attempts]) /\ pc' = "tier"
      BY <1>5, <2>1, GiveUpTyped DEF FailForGood
    <2> QED  BY <1>5, <2>2 DEF FailForGood, TypeOK
  <1>6. ASSUME NEW stage \in Transient, pc = "calling", last' = stage, RetryOrGiveUp(stage),
               UNCHANGED <<models, order, now, index, until, attempt, late>>
        PROVE  TypeOK'
    <2>1. index > 0  BY <1>6 DEF FailuresFollowTheOrder
    <2> QED  BY <1>6, <2>1, RetryTyped DEF TypeOK
  <1>7. CASE FailForNow  BY <1>6, <1>7 DEF FailForNow
  <1>8. CASE Cut  BY <1>6, <1>8 DEF Cut, Transient
  <1>9. CASE Wake
    <2>1. attempt + 1 \in 0..Attempts - 1  BY <1>9 DEF Wake, SharesNest, TypeOK
    <2> QED  BY <1>9, <2>1 DEF Wake, TypeOK
  <1>10. CASE Tick
    <2>1. (late \/ now >= Due) \in BOOLEAN  OBVIOUS
    <2>2. now + 1 \in Nat  BY DEF TypeOK
    <2>3. late' \in BOOLEAN  BY <1>10, <2>1 DEF Tick
    <2>4. UNCHANGED <<models, order, pc, index, until, attempt, last, wake, failures>>
          /\ now' = now + 1
      BY <1>10 DEF Tick
    <2> QED  BY <2>2, <2>3, <2>4 DEF TypeOK
  <1>11. CASE Cancel  BY <1>11 DEF Cancel, TypeOK, Ended
  <1>12. CASE UNCHANGED vars  BY <1>12 DEF vars, TypeOK
  <1> QED
    BY <1>1, <1>2, <1>3, <1>4, <1>5, <1>7, <1>8, <1>9, <1>10, <1>11, <1>12
    DEF Next, Step, Returned

-----------------------------------------------------------------------------
(* The bound on time                                                        *)

\* What a failed attempt leads to keeps the share's end and the backoff's apart.
LEMMA RetrySharesNest ==
  ASSUME TypeOK, SharesNest, pc = "calling", index > 0,
         NEW stage \in Transient, RetryOrGiveUp(stage),
         UNCHANGED <<models, order, now, index, until, attempt, late>>
  PROVE  SharesNest'
  <1>1. \/ pc' = "tier"
        \/ pc' = "sleeping" /\ wake' < until /\ attempt < Attempts - 1
    BY RetryTyped
  <1> QED  BY <1>1 DEF SharesNest

LEMMA SharesStep ==
  ASSUME TypeOK, WithinDeadline, SharesNest, FailuresFollowTheOrder, [Next]_vars
  PROVE  WithinDeadline' /\ SharesNest'
  <1> USE CascadeSettings
  <1>1. CASE StartTier
    <2> DEFINE n == Len(order) - index
               left == NodeDeadline - now
    <2>1. n \in Nat \ {0} /\ left \in Int
      BY <1>1 DEF StartTier, TypeOK
    <2>2. /\ left \div n \in Int
          /\ left >= 0 => left \div n <= left
          /\ left < 0 => left \div n <= 0
      BY <2>1, ShareOfWhatIsLeft
    <2>3. until' = now + left \div n  BY <1>1 DEF StartTier, Share
    <2> HIDE DEF n
    <2>4. until' <= NodeDeadline \/ until' <= now
      BY <2>2, <2>3 DEF TypeOK
    <2>5. pc' = "attempt" /\ now' = now  BY <1>1 DEF StartTier
    <2> QED  BY <2>4, <2>5 DEF WithinDeadline, SharesNest
  <1>2. CASE Exhaust  BY <1>2 DEF Exhaust, WithinDeadline, SharesNest
  <1>3. CASE BeginAttempt
    <2>1. UNCHANGED <<now, until, wake, attempt>> /\ pc = "attempt"
      BY <1>3 DEF BeginAttempt
    <2>2. CASE until <= now /\ pc' = "tier"
      BY <2>1, <2>2 DEF WithinDeadline, SharesNest
    <2>3. CASE ~(until <= now) /\ pc' = "calling"
      BY <2>1, <2>3 DEF WithinDeadline, SharesNest
    <2> QED  BY <1>3, <2>2, <2>3 DEF BeginAttempt, GiveUp
  <1>4. CASE Answer  BY <1>4 DEF Answer, WithinDeadline, SharesNest
  <1>5. CASE FailForGood
    BY <1>5 DEF FailForGood, GiveUp, WithinDeadline, SharesNest
  <1>6. ASSUME NEW stage \in Transient, pc = "calling", RetryOrGiveUp(stage),
               UNCHANGED <<models, order, now, index, until, attempt, late>>
        PROVE  WithinDeadline' /\ SharesNest'
    <2>1. index > 0  BY <1>6 DEF FailuresFollowTheOrder
    <2>2. SharesNest'  BY <1>6, <2>1, RetrySharesNest
    <2> QED  BY <1>6, <2>2 DEF WithinDeadline
  <1>7. CASE FailForNow  BY <1>6, <1>7 DEF FailForNow
  <1>8. CASE Cut  BY <1>6, <1>8 DEF Cut, Transient
  <1>9. CASE Wake
    BY <1>9 DEF Wake, WithinDeadline, SharesNest, TypeOK
  <1>10. CASE Tick
    <2>1. now < Due + Lag /\ Due \in Int /\ Due <= NodeDeadline
      BY <1>10 DEF Tick, Due, SharesNest, TypeOK
    <2>2. now + 1 <= NodeDeadline + Lag
      BY <2>1 DEF TypeOK
    <2>3. UNCHANGED <<pc, until, wake, attempt>> /\ now' = now + 1 /\ pc # "attempt"
      BY <1>10 DEF Tick
    <2> QED  BY <2>2, <2>3 DEF WithinDeadline, SharesNest
  <1>11. CASE Cancel  BY <1>11 DEF Cancel, Ended, WithinDeadline, SharesNest
  <1>12. CASE UNCHANGED vars  BY <1>12 DEF vars, WithinDeadline, SharesNest
  <1> QED
    BY <1>1, <1>2, <1>3, <1>4, <1>5, <1>7, <1>8, <1>9, <1>10, <1>11, <1>12
    DEF Next, Step, Returned

-----------------------------------------------------------------------------
(* The order of the tiers                                                   *)

\* However a tier is given up, one record is added, with its name.
LEMMA RetryFollowsTheOrder ==
  ASSUME NEW stage, RetryOrGiveUp(stage)
  PROVE  \/ /\ pc' = "tier"
            /\ \E r : failures' = Append(failures, r) /\ r.tier = order[index]
         \/ pc' = "sleeping" /\ UNCHANGED failures
  BY DEF RetryOrGiveUp, GiveUp

LEMMA OrderStep ==
  ASSUME TypeOK, FailuresFollowTheOrder, [Next]_vars
  PROVE  FailuresFollowTheOrder'
  <1>1. ASSUME pc \in {"attempt", "calling"}, UNCHANGED <<models, order, index>>,
               pc' = "tier",
               NEW r, failures' = Append(failures, r), r.tier = order[index]
        PROVE  FailuresFollowTheOrder'
    <2>1. index > 0 /\ Len(failures) = index - 1
      BY <1>1 DEF FailuresFollowTheOrder
    <2>2. /\ Len(failures') = index
          /\ \A i \in DOMAIN failures' :
               failures'[i] = IF i = index THEN r ELSE failures[i]
          /\ \A i \in DOMAIN failures' : i # index => i \in DOMAIN failures
      BY <1>1, <2>1 DEF TypeOK
    <2> QED  BY <1>1, <2>2 DEF FailuresFollowTheOrder
  <1>2. CASE StartTier  BY <1>2 DEF StartTier, FailuresFollowTheOrder, TypeOK
  <1>3. CASE Exhaust  BY <1>3 DEF Exhaust, FailuresFollowTheOrder
  <1>4. CASE BeginAttempt
    <2>1. CASE until <= now /\ GiveUp(last, "no_time", attempt)
      BY <1>1, <1>4, <2>1 DEF BeginAttempt, GiveUp
    <2>2. CASE pc' = "calling" /\ UNCHANGED failures
      BY <1>4, <2>2 DEF BeginAttempt, FailuresFollowTheOrder
    <2> QED  BY <1>4, <2>1, <2>2 DEF BeginAttempt
  <1>5. CASE Answer  BY <1>5 DEF Answer, FailuresFollowTheOrder
  <1>6. CASE FailForGood  BY <1>1, <1>6 DEF FailForGood, GiveUp
  <1>7. ASSUME NEW stage, pc = "calling", RetryOrGiveUp(stage),
               UNCHANGED <<models, order, now, index, until, attempt, late>>
        PROVE  FailuresFollowTheOrder'
    <2>1. CASE /\ pc' = "tier"
               /\ \E r : failures' = Append(failures, r) /\ r.tier = order[index]
      BY <1>1, <1>7, <2>1
    <2>2. CASE pc' = "sleeping" /\ UNCHANGED failures
      BY <1>7, <2>2 DEF FailuresFollowTheOrder
    <2> QED  BY <1>7, <2>1, <2>2, RetryFollowsTheOrder
  <1>8. CASE FailForNow  BY <1>7, <1>8 DEF FailForNow
  <1>9. CASE Cut  BY <1>7, <1>9 DEF Cut
  <1>10. CASE Wake  BY <1>10 DEF Wake, FailuresFollowTheOrder
  <1>11. CASE Tick  BY <1>11 DEF Tick, FailuresFollowTheOrder
  <1>12. CASE Cancel  BY <1>12 DEF Cancel, Ended, FailuresFollowTheOrder
  <1>13. CASE UNCHANGED vars  BY <1>13 DEF vars, FailuresFollowTheOrder
  <1> QED
    BY <1>2, <1>3, <1>4, <1>5, <1>6, <1>8, <1>9, <1>10, <1>11, <1>12, <1>13
    DEF Next, Step, Returned

\* cascade_order names every model once.
LEMMA OrderNamesAModelOnce ==
  ASSUME NEW requested \in Tiers, NEW m
  PROVE  LET o == CascadeOrder(requested, m)
         IN \A i, j \in DOMAIN o : i # j => m[o[i]] # m[o[j]]
  <1> DEFINE Once(o) == \A i, j \in DOMAIN o : i # j => m[o[i]] # m[o[j]]
             second == Others[requested][1]
             third == Others[requested][2]
  <1>1. second \in Tiers /\ third \in Tiers  BY DEF Tiers, Others
  <1>2. CascadeOrder(requested, m) = Add(Add(<<requested>>, second, m), third, m)
    BY DEF CascadeOrder
  <1> HIDE DEF second, third
  <1>3. ASSUME NEW o \in Seq(Tiers), NEW t \in Tiers, Once(o)
        PROVE  Add(o, t, m) \in Seq(Tiers) /\ Once(Add(o, t, m))
    <2>1. CASE \E i \in DOMAIN o : m[o[i]] = m[t]  BY <1>3, <2>1 DEF Add
    <2>2. CASE \A i \in DOMAIN o : m[o[i]] # m[t]
      <3>1. Add(o, t, m) = Append(o, t)  BY <2>2 DEF Add
      <3>2. \A i \in DOMAIN Append(o, t) :
              \/ i \in DOMAIN o /\ Append(o, t)[i] = o[i]
              \/ i = Len(o) + 1 /\ Append(o, t)[i] = t
        OBVIOUS
      <3>3. Once(Append(o, t))  BY <1>3, <2>2, <3>2
      <3> QED  BY <3>1, <3>3
    <2> QED  BY <2>1, <2>2
  <1>4. <<requested>> \in Seq(Tiers) /\ Once(<<requested>>)  OBVIOUS
  <1> HIDE DEF Once
  <1>5. Once(Add(Add(<<requested>>, second, m), third, m))
    BY <1>1, <1>3, <1>4
  <1> QED  BY <1>2, <1>5 DEF Once

-----------------------------------------------------------------------------
(* The theorems                                                             *)

LEMMA Start == Init => TypeOK /\ CascadeInv
  <1> USE CascadeSettings
  <1> SUFFICES ASSUME Init PROVE TypeOK /\ CascadeInv  OBVIOUS
  <1>1. PICK requested \in Tiers : order = CascadeOrder(requested, models)  BY DEF Init
  <1>2. order \in Seq(Tiers)  BY <1>1, OrderIsTiers
  <1>3. \A i, j \in DOMAIN order : i # j => models[order[i]] # models[order[j]]
    BY <1>1, OrderNamesAModelOnce
  <1>4. TypeOK
    <2>1. failures \in Seq([tier : Tiers, stage : Transient \cup Permanent,
                            why : {"no_time", "permanent", "attempts", "backoff"},
                            calls : 0..Attempts])
      BY DEF Init
    <2>2. index \in 0..Len(order) /\ attempt \in 0..Attempts - 1  BY <1>2 DEF Init
    <2>3. last \in Transient  BY DEF Init, Transient
    <2>4. now \in Nat /\ until \in Int /\ wake \in Int  BY DEF Init
    <2>7. late \in BOOLEAN  BY Zenon DEF Init
    <2>6. pc \in {"tier", "attempt", "calling", "sleeping"} \cup Ended  BY DEF Init
    <2>5. models \in Configurations  BY DEF Init
    <2> QED  BY <1>2, <2>1, <2>2, <2>3, <2>4, <2>5, <2>6, <2>7, Zenon
         DEF TypeOK
  <1> QED
    BY <1>3, <1>4 DEF Init, CascadeInv, WithinDeadline, SharesNest, FailuresFollowTheOrder

LEMMA Steps == TypeOK /\ CascadeInv /\ [Next]_vars => TypeOK' /\ CascadeInv'
  BY TypesStep, SharesStep, OrderStep DEF CascadeInv

\* The variables keep their types, and the inductive invariant holds, for any
\* settings of the cascade.
THEOREM CascadeInvariant == Spec => [](TypeOK /\ CascadeInv)
  BY Start, Steps, PTL DEF Spec

THEOREM CascadeTypes == Spec => []TypeOK
  BY CascadeInvariant, PTL

\* Spec 04, rule 5, for any deadline, number of attempts, backoff and lag.
THEOREM CallWithinDeadline == Spec => []WithinDeadline
  <1>1. TypeOK /\ CascadeInv => WithinDeadline  BY DEF CascadeInv
  <1> QED  BY <1>1, CascadeInvariant, PTL

\* No configuration of the tiers makes the cascade ask a model it has given up.
THEOREM ModelsAskedOnce == Spec => []GivenUpModelNotAsked
  <1>1. TypeOK /\ CascadeInv => GivenUpModelNotAsked
    <2> SUFFICES ASSUME TypeOK, FailuresFollowTheOrder, pc = "calling",
                        NEW i \in DOMAIN failures
                 PROVE  models[failures[i].tier] # models[order[index]]
      BY DEF CascadeInv, GivenUpModelNotAsked
    <2>1. i \in DOMAIN order /\ index \in DOMAIN order /\ i # index
      BY DEF TypeOK, FailuresFollowTheOrder
    <2> QED  BY <2>1 DEF FailuresFollowTheOrder
  <1> QED  BY <1>1, CascadeInvariant, PTL

-----------------------------------------------------------------------------
(* Every tier has its turn                                                  *)

\* While no timer has fired late, a tier starts with a tick left for it and for
\* each one after it, its share ends with as many left for those, and a wait
\* ends in time for what it was for.
Unhurried ==
  /\ Len(order) <= 3
  /\ ~late =>
       /\ pc = "tier" => NodeDeadline - now >= Len(order) - index
       /\ pc \in {"attempt", "calling", "sleeping"} =>
            /\ NodeDeadline - until >= Len(order) - index
            /\ now <= until
       /\ pc = "attempt" => now < until
       /\ pc = "sleeping" => now <= wake

TurnsInv == TypeOK /\ CascadeInv /\ Unhurried /\ ExhaustedAfterEveryTier

\* A share of at least a tick for each of at most three tiers leaves as much to
\* the others.
LEMMA ShareLeavesTheOthers ==
  ASSUME NEW left \in Int, NEW n \in 1..3, left >= n
  PROVE  left \div n \in Int /\ left \div n >= 1 /\ left - (left \div n) >= n - 1
  <1>1. CASE n = 1  BY <1>1
  <1>2. CASE n = 2  BY <1>2
  <1>3. CASE n = 3  BY <1>3
  <1> QED  BY <1>1, <1>2, <1>3

LEMMA OrderIsShort ==
  ASSUME NEW requested \in Tiers, NEW m
  PROVE  Len(CascadeOrder(requested, m)) <= 3
  <1> DEFINE second == Others[requested][1]
             third == Others[requested][2]
             first == <<requested>>
  <1>1. second \in Tiers /\ third \in Tiers  BY DEF Tiers, Others
  <1>2. \A s \in Seq(Tiers), t \in Tiers :
          Add(s, t, m) \in Seq(Tiers) /\ Len(Add(s, t, m)) <= Len(s) + 1
    BY DEF Add
  <1>3. first \in Seq(Tiers) /\ Len(first) = 1  OBVIOUS
  <1> HIDE DEF first, second, third
  <1>4. Add(first, second, m) \in Seq(Tiers) /\ Len(Add(first, second, m)) <= 2
    <2>1. /\ Add(first, second, m) \in Seq(Tiers)
          /\ Len(Add(first, second, m)) <= Len(first) + 1
      BY <1>1, <1>2, <1>3, Zenon
    <2>2. Len(Add(first, second, m)) \in Nat  BY <2>1
    <2> QED  BY <1>3, <2>1, <2>2
  <1>5. Len(Add(Add(first, second, m), third, m)) <= 3
    <2>1. /\ Add(Add(first, second, m), third, m) \in Seq(Tiers)
          /\ Len(Add(Add(first, second, m), third, m)) <= Len(Add(first, second, m)) + 1
      BY <1>1, <1>2, <1>4, Zenon
    <2>2. /\ Len(Add(Add(first, second, m), third, m)) \in Nat
          /\ Len(Add(first, second, m)) \in Nat
      BY <1>4, <2>1
    <2> QED  BY <1>4, <2>1, <2>2
  <1> QED  BY <1>5 DEF CascadeOrder, first, second, third

\* A record that tells of a call adds nothing that looks out of time.
LEMMA GiveUpAfterACall ==
  ASSUME TypeOK, ExhaustedAfterEveryTier, NEW stage, NEW why, NEW n, GiveUp(stage, why, n),
         ~late' => ~late /\ why # "no_time" /\ n > 0
  PROVE  ExhaustedAfterEveryTier'
  <1>1. failures' = Append(failures, [tier |-> order[index], stage |-> stage,
                                      why |-> why, calls |-> n]) /\ pc' = "tier"
    BY DEF GiveUp
  <1>2. ASSUME ~late', NEW i \in DOMAIN failures'
        PROVE  failures'[i].why # "no_time" /\ failures'[i].calls > 0
    <2>1. CASE i \in DOMAIN failures
      BY <1>1, <1>2, <2>1 DEF TypeOK, ExhaustedAfterEveryTier
    <2>2. CASE i = Len(failures) + 1
      BY <1>1, <1>2, <2>2 DEF TypeOK
    <2> QED  BY <1>1, <1>2, <2>1, <2>2 DEF TypeOK
  <1> QED  BY <1>1, <1>2 DEF ExhaustedAfterEveryTier

LEMMA RetryKeepsTurns ==
  ASSUME TurnsInv, pc = "calling", NEW stage \in Transient, RetryOrGiveUp(stage),
         UNCHANGED <<models, order, now, index, until, attempt, late>>
  PROVE  Unhurried' /\ ExhaustedAfterEveryTier'
  <1> USE CascadeSettings
  <1>0. attempt + 1 > 0 /\ now \in Int /\ until \in Int /\ Len(order) \in Nat /\ index \in Nat
    BY DEF TurnsInv, TypeOK
  <1>1. ASSUME NEW why \in {"attempts", "backoff"}, GiveUp(stage, why, attempt + 1)
        PROVE  Unhurried' /\ ExhaustedAfterEveryTier'
    <2>1. ExhaustedAfterEveryTier'
      BY <1>0, <1>1, GiveUpAfterACall DEF TurnsInv
    <2>2. pc' = "tier"
      BY <1>1 DEF GiveUp
    <2> QED  BY <1>0, <2>1, <2>2 DEF TurnsInv, Unhurried
  <1>2. ASSUME NEW delay \in Delays, pc' = "sleeping", wake' = now + delay, now + delay < until,
               UNCHANGED failures
        PROVE  Unhurried' /\ ExhaustedAfterEveryTier'
    <2>1. delay \in Nat
      <3>1. attempt \in 0..Attempts  BY DEF TurnsInv, TypeOK
      <3>2. 2^attempt \in Nat  BY <3>1, PowersOfTwo
      <3> DEFINE power == 2^attempt
      <3> HIDE DEF power
      <3>3. Base * power \in Nat  BY <3>2 DEF power
      <3> QED  BY <1>2, <3>3 DEF Delays, power
    <2>2. now <= wake'
      BY <1>0, <1>2, <2>1
    <2> QED  BY <1>0, <1>2, <2>2 DEF TurnsInv, Unhurried, ExhaustedAfterEveryTier
  <1> QED  BY <1>1, <1>2 DEF RetryOrGiveUp

LEMMA TurnsStep ==
  ASSUME TurnsInv, [Next]_vars PROVE Unhurried' /\ ExhaustedAfterEveryTier'
  <1> USE CascadeSettings
  <1>0. /\ now \in Int /\ until \in Int /\ wake \in Int /\ Len(order) \in Nat
        /\ index \in 0..Len(order) /\ failures \in Seq([tier : Tiers,
             stage : Transient \cup Permanent,
             why : {"no_time", "permanent", "attempts", "backoff"}, calls : 0..Attempts])
    BY DEF TurnsInv, TypeOK
  <1>1. CASE StartTier
    <2> DEFINE n == Len(order) - index
               left == NodeDeadline - now
    <2>1. /\ pc = "tier" /\ index' = index + 1 /\ until' = now + left \div n /\ pc' = "attempt"
          /\ UNCHANGED <<order, now, failures, late>> /\ index < Len(order)
      BY <1>1 DEF StartTier, Share
    <2>2. CASE late
      BY <2>1, <2>2 DEF TurnsInv, Unhurried, ExhaustedAfterEveryTier
    <2>3. CASE ~late
      <3>1. n \in 1..3 /\ left \in Int /\ left >= n
        BY <1>0, <2>1, <2>3 DEF TurnsInv, Unhurried
      <3>2. left \div n \in Int /\ left \div n >= 1 /\ left - (left \div n) >= n - 1
        BY <3>1, ShareLeavesTheOthers
      <3> DEFINE share == left \div n
      <3>3. until' = now + share /\ share \in Int /\ share >= 1 /\ left - share >= n - 1
        BY <2>1, <3>2
      <3> HIDE DEF share
      <3>4. /\ NodeDeadline - until' >= Len(order) - (index + 1)
            /\ now < until'
        BY <1>0, <3>3
      <3> QED
        BY <1>0, <2>1, <3>3, <3>4 DEF TurnsInv, Unhurried, ExhaustedAfterEveryTier
    <2> QED  BY <2>2, <2>3
  <1>2. CASE Exhaust
    <2>1. /\ pc = "tier" /\ pc' = "exhausted" /\ index = Len(order)
          /\ UNCHANGED <<order, failures, late>>
      BY <1>2 DEF Exhaust
    <2>2. Len(failures) = Len(order) /\ \A i \in DOMAIN failures : failures[i].tier = order[i]
      BY <2>1 DEF TurnsInv, CascadeInv, FailuresFollowTheOrder
    <2>3. [i \in DOMAIN failures |-> failures[i].tier] = order
      <3>1. order \in Seq(Tiers)  BY DEF TurnsInv, TypeOK
      <3>2. DOMAIN failures = DOMAIN order /\ order = [i \in DOMAIN order |-> order[i]]
        BY <1>0, <2>2, <3>1
      <3> QED  BY <2>2, <3>2
    <2> QED  BY <2>1, <2>3 DEF TurnsInv, Unhurried, ExhaustedAfterEveryTier
  <1>3. CASE BeginAttempt
    <2>1. UNCHANGED <<order, now, index, until, wake, late>> /\ pc = "attempt"
      BY <1>3 DEF BeginAttempt
    <2>2. CASE until <= now /\ GiveUp(last, "no_time", attempt)
      <3>1. late /\ late'
        BY <1>0, <2>1, <2>2 DEF TurnsInv, Unhurried
      <3>2. ExhaustedAfterEveryTier'
        BY <2>2, <3>1, GiveUpAfterACall DEF TurnsInv
      <3> QED  BY <2>1, <3>1, <3>2 DEF TurnsInv, Unhurried
    <2>3. CASE ~(until <= now) /\ pc' = "calling" /\ UNCHANGED failures
      BY <2>1, <2>3 DEF TurnsInv, Unhurried, ExhaustedAfterEveryTier
    <2> QED  BY <1>3, <2>2, <2>3 DEF BeginAttempt
  <1>4. CASE FailForGood
    <2>1. PICK stage \in Permanent : GiveUp(stage, "permanent", attempt + 1)
      BY <1>4 DEF FailForGood
    <2>2. attempt + 1 > 0 /\ pc = "calling" /\ pc' = "tier"
          /\ UNCHANGED <<order, now, index, until, late>>
      BY <1>4, <2>1 DEF FailForGood, GiveUp, TurnsInv, TypeOK
    <2>3. ExhaustedAfterEveryTier'
      BY <2>1, <2>2, GiveUpAfterACall DEF TurnsInv
    <2> QED  BY <1>0, <2>2, <2>3 DEF TurnsInv, Unhurried
  <1>5. CASE FailForNow
    BY <1>5, RetryKeepsTurns DEF FailForNow
  <1>6. CASE Cut
    BY <1>6, RetryKeepsTurns DEF Cut, Transient
  <1>7. CASE Wake
    <2>1. /\ pc = "sleeping" /\ now >= wake /\ pc' = "attempt" /\ wake < until
          /\ UNCHANGED <<order, now, index, until, late, failures>>
      BY <1>7 DEF Wake, TurnsInv, CascadeInv, SharesNest
    <2> QED  BY <1>0, <2>1 DEF TurnsInv, Unhurried, ExhaustedAfterEveryTier
  <1>8. CASE Tick
    <2>1. /\ pc \in {"calling", "sleeping"} /\ now' = now + 1
          /\ late' <=> late \/ now >= Due
          /\ UNCHANGED <<order, pc, index, until, wake, failures>>
      BY <1>8, Zenon DEF Tick
    <2>2. ~late' => ~late /\ now' <= Due
      BY <1>0, <2>1 DEF Due
    <2>3. pc = "sleeping" => wake < until
      BY DEF TurnsInv, CascadeInv, SharesNest
    <2> QED  BY <1>0, <2>1, <2>2, <2>3 DEF Due, TurnsInv, Unhurried, ExhaustedAfterEveryTier
  <1>9. CASE Answer \/ Cancel
    BY <1>9 DEF Answer, Cancel, Ended, TurnsInv, Unhurried, ExhaustedAfterEveryTier
  <1>10. CASE UNCHANGED vars
    BY <1>10 DEF vars, TurnsInv, Unhurried, ExhaustedAfterEveryTier
  <1> QED
    BY <1>1, <1>2, <1>3, <1>4, <1>5, <1>6, <1>7, <1>8, <1>9, <1>10
    DEF Next, Step, Returned

\* A call fails only after every tier did, and while no timer is late each of
\* them was asked.
THEOREM EveryTierHadItsTurn == Spec => []ExhaustedAfterEveryTier
  <1>1. Init => Unhurried /\ ExhaustedAfterEveryTier
    <2> SUFFICES ASSUME Init PROVE Unhurried /\ ExhaustedAfterEveryTier  OBVIOUS
    <2>1. Len(order) \in Nat /\ Len(order) <= 3
      BY OrderIsShort, OrderIsTiers DEF Init
    <2> QED  BY <2>1, CascadeSettings DEF Init, Unhurried, ExhaustedAfterEveryTier
  <1>2. /\ TypeOK /\ CascadeInv /\ Unhurried /\ ExhaustedAfterEveryTier /\ [Next]_vars
        => Unhurried' /\ ExhaustedAfterEveryTier'
    BY TurnsStep DEF TurnsInv
  <1> QED  BY <1>1, <1>2, CascadeInvariant, PTL DEF Spec
=============================================================================
