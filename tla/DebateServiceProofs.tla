------------------------- MODULE DebateServiceProofs -------------------------
(***************************************************************************)
(* What TLAPS proves of DebateService for every set of verdicts, scores    *)
(* and round limits, and for any number of failing database operations.    *)
(***************************************************************************)
EXTENDS DebateService, TranscriptProofs, TLAPS

-----------------------------------------------------------------------------
(* Types: what each kind of update keeps well-typed, then the theorem.      *)

\* An argument is an entry of the round after the last one judged.
LEMMA ArgumentIsEntry ==
  ASSUME TypeOK, NEW side \in Sides
  PROVE  /\ Argument(side) \in Entry
         /\ Argument(side).argument = Len(state.rounds)
         /\ Argument(side).round = state.round + 1
BY DEF TypeOK, IsState, Argument, Entry

\* The judge's update keeps the channels well-typed and leaves the rounds alone.
LEMMA JudgedIsState ==
  ASSUME TypeOK, NEW v \in Verdicts, NEW c \in Confidences
  PROVE  /\ IsState(Judged(v, c))
         /\ Judged(v, c).round = state.round + 1
         /\ Judged(v, c).rounds = state.rounds
<1> DEFINE next == state.round + 1
           more == c < Threshold /\ next < row.max_rounds
<1>1. next \in Nat /\ more \in BOOLEAN
  BY DEF TypeOK, IsState
<1>2. Judged(v, c) = [state EXCEPT !.verdict = v, !.confidence = c,
                                   !.round = next, !.need_more = more]
  BY Zenon DEF Judged
<1>3. next = state.round + 1
  OBVIOUS
<1> HIDE DEF more, next
<1>4. IsState(Judged(v, c))
  BY <1>1, <1>2 DEF TypeOK, IsState
<1>5. Judged(v, c).round = next /\ Judged(v, c).rounds = state.rounds
  BY <1>1, <1>2 DEF TypeOK, IsState
<1> QED
  BY <1>3, <1>4, <1>5

\* Appending an entry to the rounds collected so far keeps the result typed.
LEMMA AppendedResult ==
  ASSUME TypeOK, NEW e \in Entry
  PROVE  IsResult([result EXCEPT !.rounds = Append(@, e)])
<1> DEFINE r == Append(result.rounds, e)
<1>1. r \in Seq(Entry)
  BY DEF TypeOK, IsResult
<1> HIDE DEF r
<1>2. IsResult([result EXCEPT !.rounds = r])
  BY <1>1 DEF TypeOK, IsResult
<1> QED
  BY <1>2 DEF r

\* The rows that the loop, inside the try, may write.
LEMMA ProgressRows ==
  ASSUME TypeOK
  PROVE  IsRow(RowWithRounds) /\ IsRow(RowWithScore)
<1> DEFINE v == IF result.verdict = None THEN row.verdict ELSE result.verdict
           c == IF result.confidence = None THEN row.confidence ELSE result.confidence
           n == Len(row.rounds)
<1>1. v \in Verdicts \cup {None} /\ c \in Confidences \cup {None} /\ n \in Nat
  BY DEF TypeOK, IsRow, IsResult
<1>2. RowWithScore = [row EXCEPT !.verdict = v, !.confidence = c, !.scored = n]
  BY Zenon DEF RowWithScore
<1> HIDE DEF v, c, n
<1>3. IsRow(RowWithScore)
  BY <1>1, <1>2 DEF TypeOK, IsRow
<1>4. IsRow(RowWithRounds)
  BY DEF TypeOK, IsRow, IsResult, RowWithRounds
<1> QED
  BY <1>3, <1>4

\* update_result's row: its defaults are a verdict and a score like any other.
LEMMA FinalRowTyped ==
  ASSUME TypeOK
  PROVE  /\ IsRow(FinalRow)
         /\ FinalRow.status = "done"
         /\ FinalRow.verdict # None /\ FinalRow.confidence # None
<1> DEFINE v == IF result.verdict = None THEN Inconclusive ELSE result.verdict
           c == IF result.confidence = None THEN 0 ELSE result.confidence
           r == IF result.receipt = NoReceipt THEN row.receipt ELSE result.receipt
<1>1. v \in Verdicts /\ c \in Confidences /\ v # None /\ c # None
  BY ZeroIsAScore, InconclusiveIsAVerdict, NoneIsNoScore DEF TypeOK, IsResult
<1>2. FinalRow = [row EXCEPT !.verdict = v, !.confidence = c,
                             !.rounds = result.rounds, !.receipt = r,
                             !.status = "done"]
  BY Zenon DEF FinalRow
<1> HIDE DEF v, c, r
<1> QED
  BY <1>1, <1>2 DEF TypeOK, IsRow, IsResult

\* A session that writes a well-typed row leaves every variable well-typed,
\* whether its commit succeeds, is lost, or is applied and then reported lost.
LEMMA WriteKeepsTypes ==
  ASSUME TypeOK, NEW newRow, IsRow(newRow),
         NEW next \in Places, NEW handler \in Places,
         Write(newRow, next, handler), Outside
  PROVE  TypeOK'
<1>1. IsRow(row)' /\ run' \in Places /\ faults' \in Nat
  BY DEF Write, TypeOK, IsRow
<1>2. IsResult(result)' /\ IsState(state)'
  BY DEF Outside, graphVars, TypeOK, IsResult, IsState
<1> QED
  BY <1>1, <1>2 DEF Outside, graphVars, TypeOK, Places, InTry, Over

\* Type correctness: every reachable state satisfies TypeOK.
THEOREM TypeCorrect == Spec => []TypeOK
<1>1. Init => TypeOK
  <2> SUFFICES ASSUME Init PROVE TypeOK
    OBVIOUS
  <2>1. IsRow(row)
    BY DEF Init, NoRow, IsRow
  <2>2. IsResult(result) /\ IsState(state)
    BY DEF Init, EmptyResult, InitialState, IsResult, IsState
  <2>3. run \in Places /\ faults \in Nat /\ failed \in BOOLEAN
    BY DEF Init, Places
  <2>4. /\ step \in {"none", "plan", "argue", "judge", "render"}
        /\ working \subseteq Tasks[step]
        /\ chunks \in Seq(Sides \cup {"plan", "judge", "render"})
    BY DEF Init, Tasks
  <2> QED
    BY <2>1, <2>2, <2>3, <2>4, Zenon DEF Init, TypeOK
<1>2. TypeOK /\ [Next]_vars => TypeOK'
  <2> SUFFICES ASSUME TypeOK, [Next]_vars PROVE TypeOK'
    OBVIOUS
  <2> USE DEF Places, InTry, Over
  <2>1. CASE Create
    <3> PICK asked \in MaxRoundsAsked, blank \in BOOLEAN :
          Write([NoRow EXCEPT !.status = "pending", !.blank = blank,
                              !.max_rounds = Capped(asked)], "load", "raised")
      BY <2>1 DEF Create
    <3>1. Capped(asked) \in Nat \ {0}
      BY RequestsAreValid DEF Capped
    <3>2. IsRow([NoRow EXCEPT !.status = "pending", !.blank = blank,
                              !.max_rounds = Capped(asked)])
      <4>1. IsRow(NoRow)
        BY DEF NoRow, IsRow
      <4> QED
        BY <3>1, <4>1 DEF IsRow
    <3> QED
      BY <2>1, <3>2, WriteKeepsTypes DEF Create
  <2>2. CASE LoadRow
    BY <2>2, WriteKeepsTypes DEF TypeOK, LoadRow, Read
  <2>3. CASE MarkRunning
    <3>1. IsRow([row EXCEPT !.status = "running"])
      BY DEF TypeOK, IsRow
    <3> QED
      BY <2>3, <3>1, WriteKeepsTypes DEF MarkRunning
  <2>4. CASE SeedState
    BY <2>4 DEF TypeOK, SeedState, Tasks, IsRow, IsResult, IsState
  <2>5. ASSUME NEW node \in working, NodeFinishes(node) PROVE TypeOK'
    <3>1. IsState(state)'
      BY <2>5, JudgedIsState DEF TypeOK, NodeFinishes, IsState
    <3>2. chunks' \in Seq(Sides \cup {"plan", "judge", "render"})
      BY <2>5 DEF TypeOK, NodeFinishes, Tasks
    <3> QED
      BY <2>5, <3>1, <3>2 DEF TypeOK, NodeFinishes, IsRow, IsResult
  <2>6. ASSUME NEW node \in working, NodeFails(node) PROVE TypeOK'
    BY <2>6 DEF TypeOK, NodeFails, IsRow, IsResult, IsState
  <2>7. CASE NextSuperstep
    <3>1. Route \in {"argue", "judge", "render"}
      BY DEF Route, RouteAfterJudge
    <3>2. IsState(state)'
      <4> DEFINE r == state.rounds \o <<Argument("proponent"), Argument("skeptic")>>
      <4>1. r \in Seq(Entry)
        BY ArgumentIsEntry DEF TypeOK, IsState, Sides
      <4>2. state' = [state EXCEPT !.rounds = r] \/ state' = state
        BY <2>7 DEF NextSuperstep, RoundsReduced
      <4> HIDE DEF r
      <4> QED
        BY <4>1, <4>2 DEF TypeOK, IsState
    <3> QED
      BY <2>7, <3>1, <3>2 DEF TypeOK, NextSuperstep, RoundsReduced, IsRow, IsResult
  <2>8. CASE Pull
    <3>1. Head(chunks) \in Sides \cup {"plan", "judge", "render"}
          /\ chunks' \in Seq(Sides \cup {"plan", "judge", "render"})
      BY <2>8 DEF TypeOK, Pull
    <3>2. CASE Head(chunks) \in Sides
      <4>1. result' = [result EXCEPT !.rounds = Append(@, Argument(Head(chunks)))]
        BY <2>8, <3>2 DEF Pull, Sides
      <4>2. IsResult(result)'
        BY <3>2, <4>1, ArgumentIsEntry, AppendedResult DEF IsResult
      <4> QED
        BY <2>8, <3>1, <4>2 DEF TypeOK, Pull, IsRow, IsState
    <3>3. CASE Head(chunks) \notin Sides
      <4>1. IsResult(result)'
        BY <2>8, <3>3 DEF TypeOK, Pull, IsResult, IsState
      <4> QED
        BY <2>8, <3>1, <4>1 DEF TypeOK, Pull, IsRow, IsState
    <3> QED
      BY <3>2, <3>3
  <2>9. IsRow(RowWithRounds) /\ IsRow(RowWithScore)
    BY ProgressRows
  <2>10. CASE SaveRounds
    BY <2>9, <2>10, WriteKeepsTypes DEF SaveRounds
  <2>11. CASE SaveScore
    BY <2>9, <2>11, WriteKeepsTypes DEF SaveScore
  <2>12. CASE GraphRaises
    BY <2>12 DEF TypeOK, GraphRaises, graphVars, IsRow, IsResult, IsState
  <2>13. CASE DeadlineExpires
    <3>1. row' \in {row, RowWithRounds, RowWithScore}
      BY <2>13 DEF DeadlineExpires
    <3>2. IsRow(row)'
      BY <2>9, <3>1 DEF TypeOK, IsRow
    <3> QED
      BY <2>13, <3>2 DEF TypeOK, DeadlineExpires, graphVars, IsResult, IsState
  <2>14. CASE MarkError
    <3>1. IsRow([row EXCEPT !.status = "error"])
      BY DEF TypeOK, IsRow
    <3> QED
      BY <2>14, <3>1, WriteKeepsTypes DEF MarkError
  <2>15. CASE GraphEnds
    BY <2>15 DEF TypeOK, GraphEnds, graphVars, IsRow, IsResult, IsState
  <2>16. CASE SaveResult
    BY <2>16, FinalRowTyped, WriteKeepsTypes DEF SaveResult
  <2>17. CASE Reload
    BY <2>17, WriteKeepsTypes DEF TypeOK, Reload, Read
  <2>18. CASE Reply
    BY <2>18 DEF TypeOK, Reply, Read, Write, graphVars, IsRow, IsResult, IsState
  <2>19. CASE Crash
    BY <2>19 DEF TypeOK, Crash, graphVars, IsRow, IsResult, IsState
  <2>20. CASE UNCHANGED vars
    BY <2>20 DEF TypeOK, vars, IsRow, IsResult, IsState
  <2> QED
    BY <2>1, <2>2, <2>3, <2>4, <2>5, <2>6, <2>7, <2>8, <2>10, <2>11, <2>12,
       <2>13, <2>14, <2>15, <2>16, <2>17, <2>18, <2>19, <2>20 DEF Next, Stopped
<1> QED
  BY <1>1, <1>2, PTL DEF Spec

-----------------------------------------------------------------------------
(* The inductive invariant, one lemma per conjunct.                         *)

\* A final row is written only by the steps that leave run with nothing to
\* write: set_status(error) and update_result.
LEMMA RowAndRunStep ==
  ASSUME TypeOK, RowAndRunAgree, [Next]_vars
  PROVE  RowAndRunAgree'
<1> USE DEF RowAndRunAgree, InTry, Over
<1>1. CASE Create
  <2>1. PICK asked \in MaxRoundsAsked, blank \in BOOLEAN :
          Write([NoRow EXCEPT !.status = "pending", !.blank = blank,
                              !.max_rounds = Capped(asked)], "load", "raised")
    BY <1>1 DEF Create
  <2>2. run' \in {"load", "raised"}
    BY <2>1 DEF Write
  <2> QED
    BY <1>1, <2>1, <2>2 DEF Create, Write, Outside, NoRow
<1>2. CASE LoadRow
  BY <1>2 DEF LoadRow, Read, Write, Outside
<1>3. CASE MarkRunning
  BY <1>3 DEF TypeOK, IsRow, MarkRunning, Write, Outside
<1>4. CASE SeedState
  BY <1>4 DEF SeedState
<1>5. ASSUME NEW node \in working, NodeFinishes(node) \/ NodeFails(node)
      PROVE  RowAndRunAgree'
  BY <1>5 DEF NodeFinishes, NodeFails
<1>6. CASE NextSuperstep
  BY <1>6 DEF NextSuperstep
<1>7. CASE Pull
  BY <1>7 DEF Pull
<1>8. /\ RowWithRounds.status = row.status
      /\ RowWithScore.status = row.status
  BY DEF TypeOK, IsRow, RowWithRounds, RowWithScore
<1>9. CASE SaveRounds
  BY <1>8, <1>9 DEF SaveRounds, Write, Outside
<1>10. CASE SaveScore
  BY <1>8, <1>10 DEF SaveScore, Write, Outside
<1>11. CASE GraphRaises
  BY <1>11 DEF GraphRaises
<1>12. CASE DeadlineExpires
  <2>1. row' \in {row, RowWithRounds, RowWithScore}
    BY <1>12 DEF DeadlineExpires
  <2> QED
    BY <1>8, <1>12, <2>1 DEF DeadlineExpires
<1>13. CASE MarkError
  BY <1>13 DEF MarkError, Write, Outside
<1>14. CASE GraphEnds
  BY <1>14 DEF GraphEnds
<1>15. CASE SaveResult
  BY <1>15, FinalRowTyped DEF SaveResult, Write, Outside
<1>16. CASE Reload
  BY <1>16 DEF Reload, Read, Write, Outside
<1>17. CASE Reply
  BY <1>17 DEF Reply, Read, Write
<1>18. CASE Crash
  BY <1>18 DEF Crash
<1>19. CASE UNCHANGED vars
  BY <1>19 DEF vars
<1> QED
  BY <1>1, <1>2, <1>3, <1>4, <1>5, <1>6, <1>7, <1>9, <1>10, <1>11, <1>12, <1>13,
     <1>14, <1>15, <1>16, <1>17, <1>18, <1>19 DEF Next, Stopped

\* run raises without having marked the row only for a blank claim or after a
\* database operation raised.
LEMMA FailsClosedStep ==
  ASSUME TypeOK, FailsClosed, [Next]_vars
  PROVE  FailsClosed'
<1> USE DEF FailsClosed
<1>1. CASE Create
  <2>1. PICK asked \in MaxRoundsAsked, blank \in BOOLEAN :
          Write([NoRow EXCEPT !.status = "pending", !.blank = blank,
                              !.max_rounds = Capped(asked)], "load", "raised")
    BY <1>1 DEF Create
  <2>2. run' = "raised" => faults' # 0
    BY <2>1 DEF TypeOK, Write
  <2> QED
    BY <2>2
<1>2. CASE LoadRow \/ MarkRunning \/ SaveRounds \/ SaveScore \/ SaveResult \/ Reload \/ Reply
  <2>1. run' = "raised" => faults' # 0
    BY <1>2 DEF TypeOK, Write, Read, LoadRow, MarkRunning, SaveRounds, SaveScore,
                SaveResult, Reload, Reply
  <2> QED
    BY <2>1
<1>3. CASE SeedState
  BY <1>3 DEF SeedState
<1>4. CASE MarkError
  <2>1. faults' # 0 \/ row' = [row EXCEPT !.status = "error"]
    BY <1>4 DEF TypeOK, MarkError, Write
  <2> QED
    BY <2>1 DEF TypeOK, IsRow
<1>5. ASSUME NEW node \in working, NodeFinishes(node) \/ NodeFails(node)
      PROVE  FailsClosed'
  BY <1>5 DEF NodeFinishes, NodeFails
<1>6. CASE NextSuperstep \/ Pull \/ GraphRaises \/ GraphEnds \/ Crash
  BY <1>6 DEF NextSuperstep, Pull, GraphRaises, GraphEnds, Crash
<1>7. CASE DeadlineExpires
  BY <1>7 DEF DeadlineExpires
<1>8. CASE UNCHANGED vars
  BY <1>8 DEF vars
<1> QED
  BY <1>1, <1>2, <1>3, <1>4, <1>5, <1>6, <1>7, <1>8 DEF Next, Stopped

\* The platform's answer is read from a row that can no longer change.
LEMMA ReplyStep ==
  ASSUME TypeOK, RowAndRunAgree, ReplyIsTheFinalRow, [Next]_vars
  PROVE  ReplyIsTheFinalRow'
<1> USE DEF ReplyIsTheFinalRow, RowAndRunAgree
<1>1. CASE Reply
  BY <1>1 DEF Reply, Read, Write
<1>2. CASE UNCHANGED vars
  BY <1>2 DEF vars
<1>3. CASE ~Reply /\ ~UNCHANGED vars
  <2>1. run # "replied"
    BY <1>3 DEF Next, Create, LoadRow, MarkRunning, SeedState, NodeFinishes, NodeFails,
                NextSuperstep, Pull, SaveRounds, SaveScore, GraphRaises,
                DeadlineExpires, MarkError, GraphEnds, SaveResult, Reload, Crash,
                Stopped, InTry, Over
  <2>2. reply' = reply
    BY <1>3 DEF Next, Create, LoadRow, MarkRunning, SeedState, NodeFinishes, NodeFails,
                NextSuperstep, Pull, SaveRounds, SaveScore, GraphRaises,
                DeadlineExpires, MarkError, GraphEnds, SaveResult, Reload, Crash,
                Stopped, Outside
  <2> QED
    BY <2>1, <2>2
<1> QED
  BY <1>1, <1>2, <1>3

\* The channels grow by one entry a side at the barrier and the round number
\* follows when the judge answers; nothing else moves either.
LEMMA ChannelsStep ==
  ASSUME TypeOK, ChannelsAdvanceByRounds, [Next]_vars
  PROVE  ChannelsAdvanceByRounds'
<1> USE DEF InTry, Over
<1>1. CASE SeedState
  <2>1. /\ step = "none" /\ chunks = <<>> /\ failed = FALSE
        /\ chunks' = chunks /\ failed' = failed /\ state' = state
        /\ step' \in {"none", "plan"} /\ run' \in {"raised", "pull"}
    BY <1>1 DEF TypeOK, SeedState, ChannelsAdvanceByRounds
  <2> QED
    BY <2>1 DEF ChannelsAdvanceByRounds
<1>2. ASSUME NEW node \in working, NodeFinishes(node)
      PROVE  ChannelsAdvanceByRounds'
  <2>1. /\ node \in Tasks[step] /\ step' = step /\ run' = run /\ run \in InTry
        /\ failed = FALSE /\ failed' = FALSE
    BY <1>2 DEF TypeOK, NodeFinishes, ChannelsAdvanceByRounds
  <2>2. \A i \in DOMAIN chunks' : chunks'[i] \in Tasks[step']
    BY <1>2, <2>1 DEF TypeOK, NodeFinishes, ChannelsAdvanceByRounds
  <2>3. CASE node = "judge"
    <3>1. step = "judge"
      BY <2>1, <2>3 DEF TypeOK, Tasks, Sides
    <3>2. PICK v \in Verdicts, c \in Confidences : state' = Judged(v, c)
      BY <1>2, <2>3 DEF NodeFinishes
    <3>3. state'.round = state.round + 1 /\ state'.rounds = state.rounds
      BY <3>2, JudgedIsState
    <3>4. "judge" \notin working'
      BY <1>2, <2>3 DEF NodeFinishes
    <3> QED
      BY <1>2, <2>1, <2>2, <2>3, <3>1, <3>3, <3>4 DEF ChannelsAdvanceByRounds
  <2>4. CASE node # "judge"
    <3>1. state' = state
      BY <1>2, <2>4 DEF NodeFinishes
    <3>2. step # "judge"
      BY <2>1, <2>4 DEF Tasks
    <3> QED
      BY <2>1, <2>2, <3>1, <3>2 DEF ChannelsAdvanceByRounds
  <2> QED
    BY <2>3, <2>4
<1>3. ASSUME NEW node \in working, NodeFails(node)
      PROVE  ChannelsAdvanceByRounds'
  <2>1. CASE step = "judge"
    <3>1. node = "judge"
      BY <2>1 DEF TypeOK, Tasks
    <3> QED
      BY <1>3, <2>1, <3>1 DEF NodeFails, ChannelsAdvanceByRounds
  <2>2. CASE step # "judge"
    BY <1>3, <2>2 DEF NodeFails, ChannelsAdvanceByRounds
  <2> QED
    BY <2>1, <2>2
<1>4. CASE NextSuperstep
  <2>1. /\ Len(state.rounds) = 2 * state.round
        /\ failed = FALSE /\ failed' = FALSE /\ chunks' = <<>> /\ run' = "pull"
        /\ step' = Route /\ working' = Tasks[Route]
    BY <1>4 DEF TypeOK, NextSuperstep, RoundsReduced, ChannelsAdvanceByRounds
  <2>2. CASE step = "argue"
    <3>1. Len(state'.rounds) = Len(state.rounds) + 2 /\ state'.round = state.round
      BY <1>4, <2>2, ArgumentIsEntry DEF TypeOK, IsState, NextSuperstep, RoundsReduced, Sides
    <3>2. Route = "judge"
      BY <2>2 DEF Route
    <3>3. step' = "judge" /\ "judge" \in working'
      BY <2>1, <3>2 DEF Tasks
    <3> QED
      BY <2>1, <3>1, <3>3 DEF TypeOK, IsState, ChannelsAdvanceByRounds
  <2>3. CASE step # "argue"
    <3>1. Route # "judge"
      BY <2>3 DEF Route, RouteAfterJudge
    <3>2. state' = state
      BY <1>4, <2>3 DEF NextSuperstep, RoundsReduced
    <3> QED
      BY <2>1, <3>1, <3>2 DEF ChannelsAdvanceByRounds
  <2> QED
    BY <2>2, <2>3
<1>5. CASE Pull
  <2>1. \A i \in DOMAIN chunks' : chunks'[i] \in Tasks[step]
    BY <1>5 DEF TypeOK, Pull, ChannelsAdvanceByRounds
  <2>2. run' \in {"pull", "save_rounds", "save_score"}
    BY <1>5 DEF Pull
  <2> QED
    BY <1>5, <2>1, <2>2 DEF Pull, ChannelsAdvanceByRounds
<1>6. ASSUME UNCHANGED graphVars,
             run' \in {"load", "mark", "seed"} =>
               run \in {"request", "load", "mark", "seed"},
             run' # "request" \/ run' = run
      PROVE  ChannelsAdvanceByRounds'
  BY <1>6 DEF graphVars, ChannelsAdvanceByRounds
<1>7. CASE Create
  <2>1. run = "request" /\ run' \in {"load", "raised"}
    BY <1>7 DEF Create, Write
  <2> QED
    BY <1>6, <1>7, <2>1 DEF Create, Outside
<1>8. CASE LoadRow \/ MarkRunning
  BY <1>6, <1>8 DEF LoadRow, MarkRunning, Read, Write, Outside
<1>9. CASE SaveRounds \/ SaveScore \/ MarkError \/ SaveResult \/ Reload
  BY <1>6, <1>9 DEF SaveRounds, SaveScore, MarkError, SaveResult, Reload, Read, Write,
                    Outside
<1>10. CASE GraphRaises \/ DeadlineExpires \/ GraphEnds \/ Reply \/ Crash
  BY <1>6, <1>10 DEF GraphRaises, DeadlineExpires, GraphEnds, Reply, Crash, Read, Write
<1>11. CASE UNCHANGED vars
  BY <1>6, <1>11 DEF vars, graphVars
<1> QED
  BY <1>1, <1>2, <1>3, <1>4, <1>5, <1>7, <1>8, <1>9, <1>10, <1>11 DEF Next, Stopped

\* An entry is collected only from a side of the round in progress, and the
\* channels then hold exactly the earlier rounds.
LEMMA CollectedStep ==
  ASSUME TypeOK, ChannelsAdvanceByRounds, CollectedArgueBlind, [Next]_vars
  PROVE  CollectedArgueBlind'
<1> USE DEF CollectedArgueBlind
<1>1. CASE Pull
  <2>1. CASE Head(chunks) \in Sides
    <3>1. step = "argue"
      <4>1. Head(chunks) \in Tasks[step]
        BY <1>1 DEF TypeOK, Pull, ChannelsAdvanceByRounds
      <4> QED
        BY <2>1, <4>1 DEF TypeOK, Tasks, Sides
    <3> DEFINE e == Argument(Head(chunks))
    <3>2. e \in Entry /\ e.argument = 2 * (e.round - 1)
      BY <2>1, <3>1, ArgumentIsEntry DEF TypeOK, IsState, ChannelsAdvanceByRounds
    <3>3. result'.rounds = Append(result.rounds, e)
      BY <1>1, <2>1 DEF TypeOK, IsResult, Pull, Sides
    <3> HIDE DEF e
    <3> QED
      BY <3>2, <3>3 DEF TypeOK, IsResult
  <2>2. CASE Head(chunks) \notin Sides
    <3>1. result'.rounds = result.rounds
      BY <1>1, <2>2 DEF TypeOK, IsResult, Pull
    <3> QED
      BY <3>1
  <2> QED
    BY <2>1, <2>2
<1>2. CASE ~Pull
  <2>1. result' = result
    BY <1>2 DEF Next, vars, Create, LoadRow, MarkRunning, SeedState, NodeFinishes,
                NodeFails, NextSuperstep, SaveRounds, SaveScore, GraphRaises,
                DeadlineExpires, MarkError, GraphEnds, SaveResult, Reload, Reply,
                Crash, Stopped, Outside
  <2> QED
    BY <2>1
<1> QED
  BY <1>1, <1>2

\* The row's rounds are always a copy that run took of those it collected.
LEMMA BlindStep ==
  ASSUME TypeOK, CollectedArgueBlind, SidesArgueBlind, [Next]_vars
  PROVE  SidesArgueBlind'
<1>1. row'.rounds \in {row.rounds, result.rounds, <<>>}
  <2>1. CASE Create
    BY <2>1 DEF TypeOK, IsRow, Create, Write, NoRow
  <2>2. CASE MarkRunning \/ MarkError
    BY <2>2 DEF TypeOK, IsRow, MarkRunning, MarkError, Write
  <2>3. RowWithRounds.rounds = result.rounds /\ RowWithScore.rounds = row.rounds
        /\ FinalRow.rounds = result.rounds
    BY DEF TypeOK, IsRow, RowWithRounds, RowWithScore, FinalRow
  <2>4. CASE SaveRounds \/ SaveScore \/ SaveResult
    BY <2>3, <2>4 DEF SaveRounds, SaveScore, SaveResult, Write
  <2>5. CASE DeadlineExpires
    <3>1. row' \in {row, RowWithRounds, RowWithScore}
      BY <2>5 DEF DeadlineExpires, InTry
    <3> QED
      BY <2>3, <3>1
  <2>6. CASE ~(Create \/ MarkRunning \/ MarkError \/ SaveRounds \/ SaveScore
               \/ SaveResult \/ DeadlineExpires)
    BY <2>6 DEF Next, vars, LoadRow, SeedState, NodeFinishes, NodeFails, NextSuperstep,
                Pull, GraphRaises, GraphEnds, Reload, Reply, Crash, Stopped, Read, Write
  <2> QED
    BY <2>1, <2>2, <2>4, <2>5, <2>6
<1> QED
  BY <1>1 DEF CollectedArgueBlind, SidesArgueBlind

-----------------------------------------------------------------------------
(* The theorems.                                                            *)

\* The invariant holds in every reachable state.
THEOREM Invariance == Spec => []IInv
<1>1. Init => IInv
  <2> SUFFICES ASSUME Init PROVE IInv
    OBVIOUS
  <2>1. RowAndRunAgree
    BY DEF Init, NoRow, RowAndRunAgree
  <2>2. ChannelsAdvanceByRounds
    BY DEF Init, InitialState, ChannelsAdvanceByRounds
  <2>3. CollectedArgueBlind /\ SidesArgueBlind
    BY DEF Init, NoRow, EmptyResult, CollectedArgueBlind, SidesArgueBlind
  <2>4. FailsClosed /\ ReplyIsTheFinalRow
    BY DEF Init, FailsClosed, ReplyIsTheFinalRow
  <2> QED
    BY <2>1, <2>2, <2>3, <2>4 DEF IInv
<1>2. TypeOK /\ IInv /\ [Next]_vars => IInv'
  BY RowAndRunStep, ChannelsStep, CollectedStep, BlindStep, FailsClosedStep, ReplyStep
  DEF IInv
<1> QED
  BY <1>1, <1>2, TypeCorrect, PTL DEF Spec

\* Neither side's saved argument was ever written on the other's argument of
\* the same round (agents/graph.py: Send hands both the same snapshot).
THEOREM SidesAlwaysArgueBlind == Spec => []SidesArgueBlind
BY Invariance, PTL DEF IInv

\* A run that raises has marked its row error, unless the claim was blank or
\* the database failed (services/debates.py: the except clause).
THEOREM AlwaysFailsClosed == Spec => []FailsClosed
BY Invariance, PTL DEF IInv

\* POST /platform/debate answers with the finished row and nothing else.
THEOREM ReplyAlwaysFinal == Spec => []ReplyIsTheFinalRow
BY Invariance, PTL DEF IInv

\* A final row leaves run with nothing to write.
LEMMA FrozenStep ==
  ASSUME TypeOK, IInv, [Next]_vars, row.status \in {"done", "error"}
  PROVE  row' = row
<1>1. run \in Over \cup {"reload"}
  BY DEF IInv, RowAndRunAgree
<1> QED
  BY <1>1 DEF Over, InTry, vars, Next, Create, LoadRow, MarkRunning, SeedState,
     NodeFinishes, NodeFails, NextSuperstep, Pull, SaveRounds, SaveScore, GraphRaises,
     DeadlineExpires, MarkError, GraphEnds, SaveResult, Reload, Reply, Crash, Stopped,
     Read, Write

\* No step of the program changes a row that is done or in error: a transcript
\* that was served once, or an error a stream reported, is never taken back.
THEOREM TerminalRowsFrozen == Spec => TerminalRowFrozen
<1>1. TypeOK /\ IInv /\ [Next]_vars => [row.status \in {"done", "error"} => row' = row]_vars
  BY FrozenStep
<1> QED
  BY <1>1, TypeCorrect, Invariance, PTL DEF Spec, TerminalRowFrozen

-----------------------------------------------------------------------------
(* How the row keeps up with the graph: the invariant behind the complete   *)
(* row and the refinement of DebateRecord.  run is Alive while the graph's  *)
(* updates may still reach the row.                                         *)

Preparing == {"request", "load", "mark", "seed"}
Alive == InTry \cup {"finish"}

Unread(node) == \E i \in DOMAIN chunks : chunks[i] = node
Collected(side) ==
  \E i \in DOMAIN result.rounds :
    result.rounds[i].round = state.round + 1 /\ result.rounds[i].side = side

\* The status says how far run is, and nothing is written before the seed.
StatusFollowsRun ==
  /\ run = "request" => row = NoRow
  /\ run \in {"load", "mark"} => row.status = "pending"
  /\ run \in {"seed", "fail"} \cup Alive => row.status = "running"
  /\ row.status \notin {"done", "error"} => row.receipt = NoReceipt
  /\ run \in Preparing =>
       /\ state = InitialState /\ result = EmptyResult
       /\ row.rounds = <<>> /\ row.scored = 0
       /\ row.verdict = None /\ row.confidence = None

\* The channels are ordered and hold what each side writes.
ChannelsOrdered ==
  \A i \in DOMAIN state.rounds :
    state.rounds[i] = [side |-> SideAt(i), round |-> RoundAt(i),
                       argument |-> 2 * (RoundAt(i) - 1)]

\* Each node's update is emitted once and read once.
UpdatesOnce ==
  /\ \A i, j \in DOMAIN chunks : i # j => chunks[i] # chunks[j]
  /\ \A i \in DOMAIN chunks : chunks[i] \notin working
  /\ step = "judge" /\ failed => ~Unread("judge")
  /\ step = "argue" =>
       \A side \in Sides :
         /\ Collected(side) => side \notin working /\ ~Unread(side)
         /\ failed \/ side \in working \/ Unread(side) \/ Collected(side)

\* The entries collected are those of the channels, round by round, and while
\* the sides argue, those of the round in progress.
CollectedInTurn ==
  /\ InTurn(result.rounds)
  /\ step # "argue" => Len(result.rounds) = Len(state.rounds)
  /\ step = "argue" => Len(result.rounds) \in Len(state.rounds)..(Len(state.rounds) + 2)

\* The row has every entry collected, but for the one being saved.
RoundsKeepUp ==
  IF run = "save_rounds"
  THEN /\ step = "argue" /\ Len(result.rounds) > Len(state.rounds)
       /\ result.rounds = Append(row.rounds, result.rounds[Len(result.rounds)])
  ELSE row.rounds = result.rounds

\* The row is scored up to the round that the judge has still to answer for.
ScoreKeepsUp ==
  /\ row.scored =
       IF step = "judge" /\ ("judge" \in working \/ failed \/ Unread("judge") \/ run = "save_score")
       THEN Len(state.rounds) - 2 ELSE Len(state.rounds)
  /\ step = "judge" => Len(state.rounds) >= 2
  /\ ~Unread("judge") =>
       result.verdict = state.verdict /\ result.confidence = state.confidence
  /\ run # "save_score" =>
       row.verdict = result.verdict /\ row.confidence = result.confidence
  /\ run = "save_score" => step = "judge" /\ working = {} /\ ~failed /\ chunks = <<>>

\* More rounds are argued only while the judge has not settled the debate.
Undecided ==
  state.round < row.max_rounds /\ (state.round > 0 => state.confidence < Threshold)
Decided ==
  state.round > 0 /\ (state.round >= row.max_rounds \/ state.confidence >= Threshold)

JudgeDecides ==
  /\ state.round <= row.max_rounds
  /\ state.round > 0 =>
       /\ state.verdict \in Verdicts /\ state.confidence \in Confidences
       /\ state.need_more = (state.confidence < Threshold /\ state.round < row.max_rounds)
  /\ step \in {"plan", "argue"} \/ (step = "judge" /\ "judge" \in working) => Undecided
  /\ step = "judge" /\ "judge" \notin working /\ ~failed => state.round > 0
  /\ step = "plan" => state.round = 0
  /\ step = "render" => Decided
  /\ step # "none"

\* Once the render node's update is read, the result holds its receipt.
RenderedLast ==
  /\ step = "render" /\ working = {} /\ ~failed /\ chunks = <<>> => result.receipt = Rendered
  /\ run = "finish" => step = "render" /\ working = {} /\ ~failed /\ chunks = <<>>

RowKeepsUp ==
  /\ ChannelsOrdered /\ UpdatesOnce /\ CollectedInTurn /\ RoundsKeepUp
  /\ ScoreKeepsUp /\ JudgeDecides /\ RenderedLast

KeepsUp == StatusFollowsRun /\ (run \in Alive => RowKeepsUp)

\* The status, step by step.
LEMMA StatusStep ==
  ASSUME TypeOK, StatusFollowsRun, [Next]_vars
  PROVE  StatusFollowsRun'
<1> USE DEF StatusFollowsRun, Preparing, Alive, InTry, Over
<1>1. CASE Create
  <2>1. PICK asked \in MaxRoundsAsked, blank \in BOOLEAN :
          Write([NoRow EXCEPT !.status = "pending", !.blank = blank,
                              !.max_rounds = Capped(asked)], "load", "raised")
    BY <1>1 DEF Create
  <2> DEFINE r == [NoRow EXCEPT !.status = "pending", !.blank = blank,
                                !.max_rounds = Capped(asked)]
  <2>2. /\ r.status = "pending" /\ r.receipt = NoReceipt /\ r.rounds = <<>>
        /\ r.scored = 0 /\ r.verdict = None /\ r.confidence = None
    BY DEF NoRow
  <2> HIDE DEF r
  <2>3. row' \in {row, r} /\ ((run' = "load" /\ row' = r) \/ run' = "raised")
    BY <2>1 DEF Write, r
  <2>4. row = NoRow /\ NoRow.receipt = NoReceipt
    BY <1>1 DEF Create, NoRow
  <2> QED
    BY <1>1, <2>2, <2>3, <2>4 DEF Create, Outside, graphVars
<1>2. CASE LoadRow
  BY <1>2 DEF LoadRow, Read, Write, Outside, graphVars
<1>3. CASE MarkRunning
  BY <1>3 DEF TypeOK, IsRow, MarkRunning, Write, Outside, graphVars
<1>4. CASE SeedState
  BY <1>4 DEF SeedState
<1>5. ASSUME NEW node \in working, NodeFinishes(node) \/ NodeFails(node)
      PROVE  StatusFollowsRun'
  BY <1>5 DEF NodeFinishes, NodeFails
<1>6. CASE NextSuperstep
  BY <1>6 DEF NextSuperstep
<1>7. CASE Pull
  BY <1>7 DEF Pull
<1>8. /\ RowWithRounds.status = row.status /\ RowWithRounds.receipt = row.receipt
      /\ RowWithScore.status = row.status /\ RowWithScore.receipt = row.receipt
  BY DEF TypeOK, IsRow, RowWithRounds, RowWithScore
<1>9. CASE SaveRounds
  BY <1>8, <1>9 DEF SaveRounds, Write, Outside
<1>10. CASE SaveScore
  BY <1>8, <1>10 DEF SaveScore, Write, Outside
<1>11. CASE GraphRaises
  BY <1>11 DEF GraphRaises
<1>12. CASE DeadlineExpires
  <2>1. row' \in {row, RowWithRounds, RowWithScore}
    BY <1>12 DEF DeadlineExpires
  <2> QED
    BY <1>8, <1>12, <2>1 DEF DeadlineExpires
<1>13. CASE MarkError
  BY <1>13 DEF TypeOK, IsRow, MarkError, Write, Outside
<1>14. CASE GraphEnds
  BY <1>14 DEF GraphEnds
<1>15. CASE SaveResult
  BY <1>15, FinalRowTyped DEF SaveResult, Write, Outside
<1>16. CASE Reload
  BY <1>16 DEF Reload, Read, Write, Outside
<1>17. CASE Reply
  BY <1>17 DEF Reply, Read, Write
<1>18. CASE Crash
  BY <1>18 DEF Crash
<1>19. CASE UNCHANGED vars
  BY <1>19 DEF vars
<1> QED
  BY <1>1, <1>2, <1>3, <1>4, <1>5, <1>6, <1>7, <1>9, <1>10, <1>11, <1>12, <1>13,
     <1>14, <1>15, <1>16, <1>17, <1>18, <1>19 DEF Next, Stopped

\* The graph starts with nothing argued, collected or scored.
LEMMA SeedKeepsUp ==
  ASSUME TypeOK, ChannelsAdvanceByRounds, StatusFollowsRun, SeedState, run' \in Alive
  PROVE  RowKeepsUp'
<1>1. /\ step' = "plan" /\ working' = {"plan"} /\ run' = "pull"
      /\ chunks' = <<>> /\ failed' = FALSE /\ row' = row /\ state' = state /\ result' = result
      /\ state = InitialState /\ result = EmptyResult
      /\ row.rounds = <<>> /\ row.scored = 0 /\ row.verdict = None /\ row.confidence = None
  BY DEF TypeOK, SeedState, StatusFollowsRun, Preparing, Alive, InTry, Over, Tasks,
         ChannelsAdvanceByRounds
<1>2. /\ state.rounds = <<>> /\ state.round = 0 /\ result.rounds = <<>>
      /\ state.verdict = None /\ state.confidence = None
      /\ result.verdict = None /\ result.confidence = None
  BY <1>1 DEF InitialState, EmptyResult
<1>3. row.max_rounds \in Nat \ {0}
  BY DEF TypeOK, IsRow
<1>4. ChannelsOrdered' /\ UpdatesOnce' /\ CollectedInTurn' /\ RoundsKeepUp'
  BY <1>1, <1>2 DEF ChannelsOrdered, UpdatesOnce, CollectedInTurn, RoundsKeepUp, InTurn
<1>5. ScoreKeepsUp' /\ JudgeDecides' /\ RenderedLast'
  BY <1>1, <1>2, <1>3 DEF ScoreKeepsUp, JudgeDecides, Undecided, RenderedLast
<1> QED  BY <1>4, <1>5 DEF RowKeepsUp

\* A node's update joins the unread ones; the judge's is in the channels too.
LEMMA FinishKeepsUp ==
  ASSUME TypeOK, ChannelsAdvanceByRounds, RowKeepsUp, NEW node \in working, NodeFinishes(node)
  PROVE  RowKeepsUp'
<1>1. /\ node \in Tasks[step] /\ failed = FALSE /\ working' = working \ {node}
      /\ chunks' = Append(chunks, node) /\ run \in InTry
      /\ UNCHANGED <<row, run, result, step, failed>>
  BY DEF TypeOK, NodeFinishes, ChannelsAdvanceByRounds
<1>2. /\ chunks \in Seq(Sides \cup {"plan", "judge", "render"})
      /\ node \in Sides \cup {"plan", "judge", "render"}
  BY <1>1 DEF TypeOK, Tasks
<1>3. /\ Len(chunks') = Len(chunks) + 1 /\ Len(chunks) \in Nat
      /\ DOMAIN chunks = 1..Len(chunks) /\ DOMAIN chunks' = 1..(Len(chunks) + 1)
      /\ \A i \in 1..Len(chunks) : chunks'[i] = chunks[i]
      /\ chunks'[Len(chunks) + 1] = node
  BY <1>1, <1>2
<1>4. \A other : Unread(other)' <=> Unread(other) \/ other = node
  BY <1>3 DEF Unread
<1>5. ~Unread(node)
  BY DEF RowKeepsUp, UpdatesOnce, Unread
<1>6. chunks' # <<>> /\ run # "save_score"
  <2>1. chunks' # <<>>
    BY <1>3
  <2> QED  BY <2>1 DEF RowKeepsUp, ScoreKeepsUp
<1>7. /\ state'.rounds = state.rounds
      /\ node # "judge" => state' = state
      /\ node = "judge" =>
           \E v \in Verdicts, c \in Confidences : state' = Judged(v, c)
  BY JudgedIsState DEF NodeFinishes
<1>8. state'.round = IF node = "judge" THEN state.round + 1 ELSE state.round
  BY <1>7, JudgedIsState
<1>9. node = "judge" <=> step = "judge"
  BY <1>1 DEF TypeOK, Tasks, Sides
<1>10. ChannelsOrdered'
  BY <1>7 DEF RowKeepsUp, ChannelsOrdered
<1>11. UpdatesOnce'
  <2>1. \A i, j \in DOMAIN chunks' : i # j => chunks'[i] # chunks'[j]
    BY <1>3, <1>5 DEF RowKeepsUp, UpdatesOnce, Unread
  <2>2. \A i \in DOMAIN chunks' : chunks'[i] \notin working'
    BY <1>1, <1>3 DEF RowKeepsUp, UpdatesOnce
  <2>3. ASSUME step = "argue"
        PROVE  \A side \in Sides :
                 /\ Collected(side)' => side \notin working' /\ ~Unread(side)'
                 /\ failed \/ side \in working' \/ Unread(side)' \/ Collected(side)'
    <3>1. \A side : Collected(side)' <=> Collected(side)
      BY <1>1, <1>7, <1>9, <2>3 DEF Collected
    <3> QED  BY <1>1, <1>4, <2>3, <3>1 DEF RowKeepsUp, UpdatesOnce
  <2>4. failed' = FALSE
    BY <1>1
  <2> QED  BY <1>1, <2>1, <2>2, <2>3, <2>4 DEF UpdatesOnce
<1>12. CollectedInTurn' /\ RoundsKeepUp'
  BY <1>1, <1>7 DEF RowKeepsUp, CollectedInTurn, RoundsKeepUp
<1>13. ScoreKeepsUp'
  BY <1>1, <1>4, <1>6, <1>7, <1>9 DEF RowKeepsUp, ScoreKeepsUp
<1>14. JudgeDecides'
  <2>1. CASE node = "judge"
    <3>1. PICK v \in Verdicts, c \in Confidences : state' = Judged(v, c)
      BY <1>7, <2>1
    <3>2. /\ state'.verdict = v /\ state'.confidence = c
          /\ state'.need_more = (c < Threshold /\ state.round + 1 < row.max_rounds)
      BY <3>1 DEF Judged, TypeOK, IsState
    <3>3. Undecided /\ state.round \in Nat /\ row.max_rounds \in Nat
      BY <1>9, <2>1 DEF RowKeepsUp, JudgeDecides, TypeOK, IsState, IsRow
    <3>4. state'.round = state.round + 1 /\ step' = "judge" /\ "judge" \notin working'
      BY <1>1, <1>8, <1>9, <2>1
    <3> QED  BY <1>1, <3>2, <3>3, <3>4 DEF JudgeDecides, Undecided
  <2>2. CASE node # "judge"
    BY <1>1, <1>7, <1>9, <2>2 DEF RowKeepsUp, JudgeDecides, Undecided, Decided
  <2> QED  BY <2>1, <2>2
<1>15. RenderedLast'
  <2>1. run # "finish"
    BY <1>1 DEF InTry
  <2> QED  BY <1>1, <1>6, <2>1 DEF RenderedLast
<1> QED  BY <1>10, <1>11, <1>12, <1>13, <1>14, <1>15 DEF RowKeepsUp

\* A node that raises cancels the others; what was emitted may still be read.
LEMMA FailKeepsUp ==
  ASSUME TypeOK, ChannelsAdvanceByRounds, RowKeepsUp, NEW node \in working, NodeFails(node)
  PROVE  RowKeepsUp'
<1>1. /\ node \in Tasks[step] /\ working' = {} /\ failed' = TRUE /\ run \in InTry
      /\ UNCHANGED <<row, run, result, state, step, chunks>>
  BY DEF TypeOK, NodeFails
<1>2. \A n : (Unread(n)' <=> Unread(n)) /\ (Collected(n)' <=> Collected(n))
  BY <1>1 DEF Unread, Collected
<1>3. ChannelsOrdered' /\ CollectedInTurn' /\ RoundsKeepUp'
  BY <1>1 DEF RowKeepsUp, ChannelsOrdered, CollectedInTurn, RoundsKeepUp
<1>4. UpdatesOnce'
  <2>1. step = "judge" => ~Unread("judge")
    BY <1>1 DEF RowKeepsUp, UpdatesOnce, Unread, TypeOK, Tasks
  <2> QED  BY <1>1, <1>2, <2>1 DEF RowKeepsUp, UpdatesOnce
<1>5. ScoreKeepsUp'
  <2>1. run # "save_score"
    BY <1>1 DEF RowKeepsUp, ScoreKeepsUp
  <2>2. step = "judge" => "judge" \in working
    BY <1>1 DEF Tasks, TypeOK
  <2> QED  BY <1>1, <1>2, <2>1, <2>2 DEF RowKeepsUp, ScoreKeepsUp
<1>6. JudgeDecides'
  BY <1>1 DEF RowKeepsUp, JudgeDecides, Undecided, Decided
<1>7. RenderedLast'
  BY <1>1 DEF RenderedLast, InTry
<1> QED  BY <1>3, <1>4, <1>5, <1>6, <1>7 DEF RowKeepsUp

\* The barrier: the sides' entries reach the channels in order, once both have
\* been collected, or the judge's answer decides what is next.
LEMMA BarrierKeepsUp ==
  ASSUME TypeOK, ChannelsAdvanceByRounds, RowKeepsUp, NextSuperstep
  PROVE  RowKeepsUp'
<1>1. /\ run = "pull" /\ run' = "pull" /\ step # "render" /\ working = {} /\ failed = FALSE
      /\ chunks = <<>> /\ step' = Route /\ working' = Tasks[Route]
      /\ state'.round = state.round /\ state'.verdict = state.verdict
      /\ state'.confidence = state.confidence /\ state'.need_more = state.need_more
      /\ step # "argue" => state' = state
      /\ step = "argue" => state'.rounds = RoundsReduced
      /\ UNCHANGED <<row, result, failed, chunks>>
  BY DEF TypeOK, IsState, NextSuperstep
<1>2. /\ Len(state.rounds) = 2 * state.round /\ state.round \in Nat
      /\ state.rounds \in Seq(Entry) /\ result.rounds \in Seq(Entry)
  BY <1>1 DEF TypeOK, IsState, IsResult, ChannelsAdvanceByRounds
<1>3. \A n : ~Unread(n)' /\ ~Unread(n)
  BY <1>1 DEF Unread
<1>4. RoundsKeepUp' /\ RenderedLast'
  <2>1. ~(step' = "render" /\ working' = {})
    BY <1>1 DEF Tasks
  <2> QED  BY <1>1, <2>1 DEF RowKeepsUp, RoundsKeepUp, RenderedLast
<1>5. CASE step = "argue"
  <2>1. step' = "judge" /\ working' = {"judge"}
    BY <1>1, <1>5 DEF Route, Tasks
  <2>2. /\ Len(state'.rounds) = Len(state.rounds) + 2
        /\ \A i \in 1..Len(state.rounds) : state'.rounds[i] = state.rounds[i]
        /\ state'.rounds[2 * state.round + 1] = Argument("proponent")
        /\ state'.rounds[2 * state.round + 2] = Argument("skeptic")
    BY <1>1, <1>2, <1>5, ArgumentIsEntry DEF RoundsReduced, Sides
  <2>3. Len(result.rounds) = Len(state.rounds) + 2
    <3>1. Collected("proponent") /\ Collected("skeptic")
      BY <1>1, <1>3, <1>5 DEF RowKeepsUp, UpdatesOnce, Sides
    <3>2. PICK i \in 1..Len(result.rounds) :
            result.rounds[i].round = state.round + 1 /\ result.rounds[i].side = "proponent"
      BY <1>2, <3>1 DEF Collected
    <3>3. PICK j \in 1..Len(result.rounds) :
            result.rounds[j].round = state.round + 1 /\ result.rounds[j].side = "skeptic"
      BY <1>2, <3>1 DEF Collected
    <3>4. i # j
      BY <3>2, <3>3
    <3>5. RoundAt(i) = state.round + 1 /\ RoundAt(j) = state.round + 1
      BY <1>2, <3>2, <3>3 DEF RowKeepsUp, CollectedInTurn, InTurn
    <3>6. i \in {2 * state.round + 1, 2 * state.round + 2}
          /\ j \in {2 * state.round + 1, 2 * state.round + 2}
      <4> DEFINE r == state.round
      <4>1. r \in Nat /\ i \in Nat \ {0} /\ j \in Nat \ {0}
            /\ RoundAt(i) = r + 1 /\ RoundAt(j) = r + 1
        BY <1>2, <3>5
      <4> HIDE DEF r
      <4>2. i \in {2 * r + 1, 2 * r + 2} /\ j \in {2 * r + 1, 2 * r + 2}
        BY <4>1, PlacesOfRound
      <4> QED  BY <4>2 DEF r
    <3>7. Len(result.rounds) \in Len(state.rounds)..(Len(state.rounds) + 2)
      BY <1>5 DEF RowKeepsUp, CollectedInTurn
    <3> QED  BY <1>2, <3>4, <3>6, <3>7
  <2>4. ChannelsOrdered'
    <3>1. DOMAIN state'.rounds = 1..(2 * state.round + 2)
      BY <1>1, <1>2, <1>5, ArgumentIsEntry DEF RoundsReduced, Sides
    <3>2. SUFFICES ASSUME NEW i \in 1..(2 * state.round + 2)
          PROVE  state'.rounds[i] = [side |-> SideAt(i), round |-> RoundAt(i),
                                     argument |-> 2 * (RoundAt(i) - 1)]
      BY <3>1 DEF ChannelsOrdered
    <3>3. CASE i <= 2 * state.round
      BY <1>2, <2>2, <3>3 DEF RowKeepsUp, ChannelsOrdered
    <3>4. CASE i = 2 * state.round + 1
      <4>1. SideAt(i) = "proponent" /\ RoundAt(i) = state.round + 1
        BY <1>2, <3>4 DEF SideAt, RoundAt
      <4> QED  BY <1>2, <2>2, <3>4, <4>1 DEF Argument
    <3>5. CASE i = 2 * state.round + 2
      <4>1. SideAt(i) = "skeptic" /\ RoundAt(i) = state.round + 1
        BY <1>2, <3>5 DEF SideAt, RoundAt
      <4> QED  BY <1>2, <2>2, <3>5, <4>1 DEF Argument
    <3>6. i <= 2 * state.round \/ i = 2 * state.round + 1 \/ i = 2 * state.round + 2
      <4> DEFINE r == state.round
      <4>1. r \in Nat /\ i \in 1..(2 * r + 2)
        BY <1>2
      <4> HIDE DEF r
      <4>2. i <= 2 * r \/ i = 2 * r + 1 \/ i = 2 * r + 2
        BY <4>1
      <4> QED  BY <4>2 DEF r
    <3> QED  BY <3>3, <3>4, <3>5, <3>6
  <2>5. UpdatesOnce' /\ CollectedInTurn'
    BY <1>1, <2>1, <2>2, <2>3 DEF RowKeepsUp, UpdatesOnce, CollectedInTurn
  <2>6. ScoreKeepsUp'
    BY <1>1, <1>2, <1>3, <1>5, <2>1, <2>2 DEF RowKeepsUp, ScoreKeepsUp
  <2>7. JudgeDecides'
    BY <1>1, <1>5, <2>1 DEF RowKeepsUp, JudgeDecides, Undecided
  <2> QED  BY <1>4, <2>4, <2>5, <2>6, <2>7 DEF RowKeepsUp
<1>6. CASE step # "argue"
  <2>1. state' = state /\ step' \in {"argue", "render"}
    BY <1>1, <1>6 DEF Route, RouteAfterJudge
  <2>2. ChannelsOrdered' /\ CollectedInTurn'
    BY <1>1, <1>2, <1>6, <2>1 DEF RowKeepsUp, ChannelsOrdered, CollectedInTurn
  <2>3. UpdatesOnce'
    <3>1. \A side \in Sides : ~Collected(side)'
      <4>1. Len(result.rounds) = 2 * state.round
        BY <1>2, <1>6 DEF RowKeepsUp, CollectedInTurn
      <4>2. \A i \in 1..(2 * state.round) : result.rounds[i].round # state.round + 1
        <5> SUFFICES ASSUME NEW i \in 1..(2 * state.round)
                     PROVE  result.rounds[i].round # state.round + 1
          OBVIOUS
        <5>1. result.rounds[i].round = RoundAt(i)
          BY <1>2, <4>1 DEF RowKeepsUp, CollectedInTurn, InTurn
        <5> QED  BY <1>2, <5>1, PlacesOfRound
      <4>3. DOMAIN result.rounds = 1..(2 * state.round)
        BY <1>2, <4>1
      <4>4. ~\E i \in DOMAIN result.rounds : result.rounds[i].round = state.round + 1
        BY <4>2, <4>3
      <4>5. result' = result /\ state' = state
        BY <1>1, <2>1
      <4> QED  BY <4>4, <4>5 DEF Collected
    <3>2. step' = "argue" => working' = Sides
      BY <1>1 DEF Tasks
    <3> QED  BY <1>1, <1>3, <3>1, <3>2 DEF RowKeepsUp, UpdatesOnce
  <2>4. ScoreKeepsUp'
    BY <1>1, <1>3, <1>6, <2>1 DEF RowKeepsUp, ScoreKeepsUp
  <2>5. JudgeDecides'
    <3>1. CASE step = "plan"
      <4>1. step' = "argue"
        BY <1>1, <3>1 DEF Route
      <4> QED  BY <1>1, <2>1, <3>1, <4>1 DEF RowKeepsUp, JudgeDecides, Undecided, Decided
    <3>2. CASE step = "judge"
      <4>1. /\ state.round > 0 /\ state.round <= row.max_rounds
            /\ state.confidence \in Confidences /\ state.verdict \in Verdicts
            /\ state.need_more = (state.confidence < Threshold /\ state.round < row.max_rounds)
        BY <1>1, <3>2 DEF RowKeepsUp, JudgeDecides
      <4>2. state.confidence # None /\ state.confidence \in Nat /\ Threshold \in Nat
            /\ row.max_rounds \in Nat
        BY <4>1, NoneIsNoScore, ScoresAreNumbers DEF TypeOK, IsRow
      <4>3. step' = IF Decided THEN "render" ELSE "argue"
        <5>1. step' = IF IsConverged(state.round, row.max_rounds, state.confidence)
                          \/ ~state.need_more THEN "render" ELSE "argue"
          BY <1>1, <3>2 DEF Route, RouteAfterJudge
        <5>2. IsConverged(state.round, row.max_rounds, state.confidence) <=> Decided
          BY <4>1, <4>2 DEF IsConverged, Decided
        <5>3. ~state.need_more => Decided
          <6>1. ~state.need_more => ~(state.confidence < Threshold /\ state.round < row.max_rounds)
            BY <4>1, Zenon
          <6> QED  BY <1>2, <4>1, <4>2, <6>1 DEF Decided
        <5> QED  BY <5>1, <5>2, <5>3
      <4>4. CASE Decided
        BY <1>1, <2>1, <4>1, <4>3, <4>4 DEF JudgeDecides, Decided
      <4>5. CASE ~Decided
        BY <1>1, <1>2, <2>1, <4>1, <4>2, <4>3, <4>5 DEF JudgeDecides, Decided, Undecided
      <4> QED  BY <4>4, <4>5
    <3> QED  BY <1>1, <1>6, <3>1, <3>2 DEF RowKeepsUp, JudgeDecides, TypeOK
  <2> QED  BY <1>4, <2>2, <2>3, <2>4, <2>5 DEF RowKeepsUp
<1> QED  BY <1>5, <1>6

\* One update read: an entry joins those collected, or the judge's answer is
\* taken from the channels, or the receipt.
LEMMA PullKeepsUp ==
  ASSUME TypeOK, ChannelsAdvanceByRounds, RowKeepsUp, Pull
  PROVE  RowKeepsUp'
<1> DEFINE node == Head(chunks)
<1>1. /\ run = "pull" /\ Len(chunks) \in Nat \ {0} /\ DOMAIN chunks = 1..Len(chunks)
      /\ node = chunks[1] /\ chunks' = Tail(chunks)
      /\ Len(chunks') = Len(chunks) - 1 /\ DOMAIN chunks' = 1..(Len(chunks) - 1)
      /\ \A i \in 1..(Len(chunks) - 1) : chunks'[i] = chunks[i + 1]
      /\ node \in Tasks[step]
      /\ UNCHANGED <<row, state, step, working, failed>>
  BY DEF TypeOK, Pull, ChannelsAdvanceByRounds
<1>2. /\ state.round \in Nat /\ result.rounds \in Seq(Entry) /\ row.rounds \in Seq(Entry)
      /\ step # "judge" => Len(state.rounds) = 2 * state.round
  BY DEF TypeOK, IsState, IsResult, IsRow, ChannelsAdvanceByRounds
<1>3. \A n : Unread(n)' <=> Unread(n) /\ n # node
  <2> SUFFICES ASSUME NEW n PROVE Unread(n)' <=> Unread(n) /\ n # node
    OBVIOUS
  <2>1. ASSUME Unread(n)' PROVE Unread(n) /\ n # node
    <3>1. PICK i \in 1..(Len(chunks) - 1) : chunks'[i] = n
      BY <1>1, <2>1 DEF Unread
    <3>2. i + 1 \in 1..Len(chunks) /\ chunks[i + 1] = n /\ i + 1 # 1 /\ 1 \in 1..Len(chunks)
      BY <1>1, <3>1
    <3> QED  BY <1>1, <3>2 DEF RowKeepsUp, UpdatesOnce, Unread
  <2>2. ASSUME Unread(n), n # node PROVE Unread(n)'
    <3>1. PICK i \in 1..Len(chunks) : chunks[i] = n
      BY <1>1, <2>2 DEF Unread
    <3>2. i # 1 /\ i - 1 \in 1..(Len(chunks) - 1) /\ (i - 1) + 1 = i
      BY <1>1, <2>2, <3>1
    <3>3. chunks'[i - 1] = n
      BY <1>1, <3>1, <3>2
    <3> QED  BY <1>1, <3>2, <3>3 DEF Unread
  <2> QED  BY <2>1, <2>2
<1>4. Unread(node) /\ node \notin working
  BY <1>1 DEF Unread, RowKeepsUp, UpdatesOnce
<1>5. ChannelsOrdered' /\ JudgeDecides'
  BY <1>1 DEF RowKeepsUp, ChannelsOrdered, JudgeDecides, Undecided, Decided
<1>6. /\ \A i, j \in DOMAIN chunks' : i # j => chunks'[i] # chunks'[j]
      /\ \A i \in DOMAIN chunks' : chunks'[i] \notin working
  <2>1. \A i \in 1..(Len(chunks) - 1) : i + 1 \in 1..Len(chunks)
    BY <1>1
  <2>2. \A i, j \in 1..(Len(chunks) - 1) : i # j => i + 1 # j + 1
    OBVIOUS
  <2> QED  BY <1>1, <2>1, <2>2 DEF RowKeepsUp, UpdatesOnce
<1>7. /\ row.rounds = result.rounds
      /\ row.verdict = result.verdict /\ row.confidence = result.confidence
  BY <1>1 DEF RowKeepsUp, RoundsKeepUp, ScoreKeepsUp
<1>8. CASE node \in Sides
  <2>1. step = "argue" /\ node \notin {"judge", "render", "plan"}
    BY <1>1, <1>8 DEF TypeOK, Tasks, Sides
  <2> DEFINE e == Argument(node)
  <2>2. e \in Entry /\ e.round = state.round + 1 /\ e.side = node
    BY <1>8, ArgumentIsEntry DEF Argument
  <2>3. /\ result' = [result EXCEPT !.rounds = Append(@, e)] /\ run' = "save_rounds"
    BY <1>8, <2>1 DEF Pull, Sides
  <2> HIDE DEF e
  <2>4. /\ result'.rounds = Append(result.rounds, e)
        /\ result'.verdict = result.verdict /\ result'.confidence = result.confidence
    BY <2>3 DEF TypeOK, IsResult
  <2> DEFINE n == Len(result.rounds)
  <2>5. /\ n \in Nat /\ DOMAIN result.rounds = 1..n
        /\ DOMAIN result'.rounds = 1..(n + 1) /\ Len(result'.rounds) = n + 1
        /\ \A i \in 1..n : result'.rounds[i] = result.rounds[i]
        /\ result'.rounds[n + 1] = e
    BY <1>2, <2>2, <2>4
  <2>6. ~Collected(node)
    BY <1>4, <1>8, <2>1 DEF RowKeepsUp, UpdatesOnce
  <2>7. n \in (2 * state.round)..(2 * state.round + 1)
    <3>1. n \in (2 * state.round)..(2 * state.round + 2)
      BY <1>2, <2>1 DEF RowKeepsUp, CollectedInTurn
    <3>2. SUFFICES ASSUME n = 2 * state.round + 2 PROVE FALSE
      <4> HIDE DEF n
      <4> QED  BY <1>2, <3>1
    <3> DEFINE i == 2 * state.round + 1
               j == 2 * state.round + 2
    <3>3. i \in 1..n /\ j \in 1..n /\ i # j /\ i \in Nat \ {0} /\ j \in Nat \ {0}
      BY <1>2, <3>2
    <3>4. RoundAt(i) = state.round + 1 /\ RoundAt(j) = state.round + 1
      BY <1>2, <3>3, PlacesOfRound
    <3> HIDE DEF i, j, n
    <3>5. /\ result.rounds[i].round = state.round + 1
          /\ result.rounds[j].round = state.round + 1
          /\ result.rounds[i].side \in Sides /\ result.rounds[j].side \in Sides
          /\ result.rounds[i].side # result.rounds[j].side
      BY <2>5, <3>3, <3>4 DEF RowKeepsUp, CollectedInTurn, InTurn
    <3>6. result.rounds[i].side = node \/ result.rounds[j].side = node
      BY <1>8, <3>5 DEF Sides
    <3> QED  BY <2>5, <2>6, <3>3, <3>5, <3>6 DEF Collected
  <2>8. RoundAt(n + 1) = state.round + 1
    <3> DEFINE r == state.round
    <3>1. r \in Nat /\ n \in (2 * r)..(2 * r + 1)
      BY <1>2, <2>7
    <3> HIDE DEF r, n
    <3>2. n + 1 \in Nat \ {0} /\ n + 1 \in {2 * r + 1, 2 * r + 2}
      BY <3>1
    <3> QED  BY <3>1, <3>2, PlacesOfRound DEF r
  <2> HIDE DEF n
  <2>9. InTurn(result'.rounds)
    <3>1. \A i \in 1..(n + 1) : i \in 1..n \/ i = n + 1
      BY <2>5
    <3>2. InTurn(result.rounds)
      BY DEF RowKeepsUp, CollectedInTurn
    <3>3. \A i \in 1..n : result.rounds[i].round = state.round + 1 =>
                            result.rounds[i].side # node
      BY <2>5, <2>6 DEF Collected
    <3>4. \A i \in 1..(n + 1) : result'.rounds[i].side \in Sides
                                 /\ result'.rounds[i].round = RoundAt(i)
      BY <1>8, <2>2, <2>5, <2>8, <3>1, <3>2 DEF InTurn
    <3>5. \A i, j \in 1..(n + 1) : i # j /\ result'.rounds[i].round = result'.rounds[j].round
             => result'.rounds[i].side # result'.rounds[j].side
      <4> SUFFICES ASSUME NEW i \in 1..(n + 1), NEW j \in 1..(n + 1), i # j,
                          result'.rounds[i].round = result'.rounds[j].round
                   PROVE  result'.rounds[i].side # result'.rounds[j].side
        OBVIOUS
      <4>1. CASE i \in 1..n /\ j \in 1..n
        BY <2>5, <3>2, <4>1 DEF InTurn
      <4>2. CASE i = n + 1 /\ j \in 1..n
        BY <2>2, <2>5, <3>3, <4>2
      <4>3. CASE j = n + 1 /\ i \in 1..n
        BY <2>2, <2>5, <3>3, <4>3
      <4> QED  BY <3>1, <4>1, <4>2, <4>3
    <3> QED  BY <2>5, <3>4, <3>5 DEF InTurn
  <2>10. CollectedInTurn'
    <3>1. n + 1 \in (2 * state.round)..(2 * state.round + 2)
      BY <1>2, <2>5, <2>7
    <3> QED  BY <1>1, <1>2, <2>1, <2>5, <2>9, <3>1 DEF CollectedInTurn
  <2>11. UpdatesOnce'
    <3>1. \A side : Collected(side)' <=> Collected(side) \/ side = node
      <4> SUFFICES ASSUME NEW side
                   PROVE  Collected(side)' <=> Collected(side) \/ side = node
        OBVIOUS
      <4>1. \A i \in 1..(n + 1) : i \in 1..n \/ i = n + 1
        BY <2>5
      <4>2. n + 1 \in 1..(n + 1) /\ \A i \in 1..n : i \in 1..(n + 1)
        BY <2>5
      <4> QED  BY <1>1, <2>2, <2>5, <4>1, <4>2 DEF Collected
    <3> QED  BY <1>1, <1>3, <1>4, <1>6, <2>1, <3>1 DEF RowKeepsUp, UpdatesOnce
  <2>12. RoundsKeepUp'
    <3>1. /\ Len(result'.rounds) > Len(state.rounds)
          /\ result'.rounds[Len(result'.rounds)] = e
      BY <1>2, <2>1, <2>5, <2>7
    <3>2. result'.rounds = Append(row.rounds, e)
      BY <1>7, <2>4
    <3> QED  BY <1>1, <2>1, <2>3, <3>1, <3>2 DEF RoundsKeepUp
  <2>13. ScoreKeepsUp' /\ RenderedLast'
    BY <1>1, <1>3, <1>7, <2>1, <2>3, <2>4 DEF RowKeepsUp, ScoreKeepsUp, RenderedLast
  <2> QED  BY <1>5, <2>10, <2>11, <2>12, <2>13 DEF RowKeepsUp
<1>9. CASE node \notin Sides
  <2>1. /\ result'.rounds = result.rounds /\ run' \in {"pull", "save_score"}
        /\ step # "argue" /\ working = {}
        /\ step = "judge" <=> node = "judge"
        /\ step = "render" <=> node = "render"
    <3>1. result'.rounds = result.rounds /\ run' \in {"pull", "save_score"}
      BY <1>1, <1>9 DEF TypeOK, IsResult, Pull
    <3>2. \/ step = "plan" /\ node = "plan"
          \/ step = "judge" /\ node = "judge"
          \/ step = "render" /\ node = "render"
      BY <1>1, <1>9 DEF TypeOK, Tasks
    <3>3. working \subseteq {node}
      BY <3>2 DEF TypeOK, Tasks
    <3> QED  BY <1>4, <3>1, <3>2, <3>3
  <2>2. chunks' = <<>>
    <3>1. \A i \in DOMAIN chunks : chunks[i] = node
      BY <1>1, <2>1 DEF TypeOK, Tasks, ChannelsAdvanceByRounds, Sides
    <3>2. Len(chunks) = 1
      <4>1. SUFFICES ASSUME Len(chunks) # 1 PROVE FALSE
        OBVIOUS
      <4>2. 1 \in 1..Len(chunks) /\ 2 \in 1..Len(chunks)
        BY <1>1, <4>1
      <4> QED  BY <1>1, <3>1, <4>2 DEF RowKeepsUp, UpdatesOnce
    <3> QED  BY <1>1, <3>2 DEF TypeOK
  <2>3. CollectedInTurn' /\ RoundsKeepUp'
    BY <1>1, <2>1 DEF RowKeepsUp, CollectedInTurn, RoundsKeepUp
  <2>4. UpdatesOnce'
    BY <1>1, <1>3, <1>6, <2>1 DEF RowKeepsUp, UpdatesOnce
  <2>5. ScoreKeepsUp'
    <3>1. CASE node = "judge"
      <4>1. /\ result'.verdict = state.verdict /\ result'.confidence = state.confidence
            /\ run' = "save_score"
        BY <3>1 DEF Pull, TypeOK, IsResult, Sides
      <4>2. failed = FALSE
        BY <1>4, <2>1, <3>1 DEF RowKeepsUp, UpdatesOnce, TypeOK
      <4> QED  BY <1>1, <1>4, <2>1, <2>2, <3>1, <4>1, <4>2 DEF RowKeepsUp, ScoreKeepsUp
    <3>2. CASE node # "judge"
      <4>1. /\ result'.verdict = result.verdict /\ result'.confidence = result.confidence
            /\ run' = "pull"
        BY <1>1, <1>9, <3>2 DEF Pull, TypeOK, IsResult
      <4> QED  BY <1>1, <1>3, <2>1, <3>2, <4>1 DEF RowKeepsUp, ScoreKeepsUp
    <3> QED  BY <3>1, <3>2
  <2>6. RenderedLast'
    <3>1. node = "render" => result'.receipt = Rendered
      BY DEF Pull, TypeOK, IsResult, Sides
    <3>2. Rendered' = Rendered
      BY <1>1 DEF Rendered
    <3> QED  BY <1>1, <2>1, <3>1, <3>2 DEF RenderedLast
  <2> QED  BY <1>5, <2>3, <2>4, <2>5, <2>6 DEF RowKeepsUp
<1> QED  BY <1>8, <1>9

\* The entry is saved: the row has caught up with what was collected.
LEMMA SaveRoundsKeepsUp ==
  ASSUME TypeOK, RowKeepsUp, SaveRounds, run' = "pull"
  PROVE  RowKeepsUp'
<1>1. /\ run = "save_rounds" /\ row' = RowWithRounds
      /\ UNCHANGED <<result, state, step, working, failed, chunks>>
  BY DEF SaveRounds, Write, Outside, graphVars
<1>2. /\ row'.rounds = result.rounds /\ row'.max_rounds = row.max_rounds
      /\ row'.verdict = row.verdict /\ row'.confidence = row.confidence
      /\ row'.scored = row.scored
  BY <1>1 DEF TypeOK, IsRow, RowWithRounds
<1>3. ChannelsOrdered' /\ UpdatesOnce' /\ CollectedInTurn' /\ RoundsKeepUp' /\ RenderedLast'
  BY <1>1, <1>2 DEF RowKeepsUp, ChannelsOrdered, UpdatesOnce, CollectedInTurn, RoundsKeepUp,
                    RenderedLast, Rendered, Unread, Collected
<1>4. ScoreKeepsUp'
  BY <1>1, <1>2 DEF RowKeepsUp, RoundsKeepUp, ScoreKeepsUp, Unread
<1>5. JudgeDecides'
  BY <1>1, <1>2 DEF RowKeepsUp, JudgeDecides, Undecided, Decided
<1> QED  BY <1>3, <1>4, <1>5 DEF RowKeepsUp

\* The score is saved: it covers every entry, and it is what the judge said.
LEMMA SaveScoreKeepsUp ==
  ASSUME TypeOK, RowKeepsUp, SaveScore, run' = "pull"
  PROVE  RowKeepsUp'
<1>1. /\ run = "save_score" /\ row' = RowWithScore
      /\ UNCHANGED <<result, state, step, working, failed, chunks>>
  BY DEF SaveScore, Write, Outside, graphVars
<1>2. step = "judge" /\ working = {} /\ failed = FALSE /\ chunks = <<>> /\ ~Unread("judge")
  BY <1>1 DEF RowKeepsUp, ScoreKeepsUp, Unread, TypeOK
<1>3. /\ result.verdict = state.verdict /\ result.confidence = state.confidence
      /\ result.verdict # None /\ result.confidence # None
  BY <1>2, NoneIsNoScore DEF RowKeepsUp, ScoreKeepsUp, JudgeDecides
<1>4. /\ row'.rounds = row.rounds /\ row'.max_rounds = row.max_rounds
      /\ row'.verdict = result.verdict /\ row'.confidence = result.confidence
      /\ row'.scored = Len(row.rounds)
  BY <1>1, <1>3 DEF TypeOK, IsRow, RowWithScore
<1>5. row.rounds = result.rounds /\ Len(result.rounds) = Len(state.rounds)
  BY <1>1, <1>2 DEF RowKeepsUp, RoundsKeepUp, CollectedInTurn
<1>6. ChannelsOrdered' /\ UpdatesOnce' /\ CollectedInTurn' /\ RoundsKeepUp' /\ RenderedLast'
  BY <1>1, <1>2, <1>4, <1>5
  DEF RowKeepsUp, ChannelsOrdered, UpdatesOnce, CollectedInTurn, RoundsKeepUp, RenderedLast,
      Unread, Collected
<1>7. ScoreKeepsUp'
  BY <1>1, <1>2, <1>3, <1>4, <1>5 DEF RowKeepsUp, ScoreKeepsUp, Unread
<1>8. JudgeDecides'
  BY <1>1, <1>4 DEF RowKeepsUp, JudgeDecides, Undecided, Decided
<1> QED  BY <1>6, <1>7, <1>8 DEF RowKeepsUp

\* The loop ends when the graph has: there is nothing left to read.
LEMMA EndKeepsUp ==
  ASSUME TypeOK, RowKeepsUp, GraphEnds
  PROVE  RowKeepsUp'
<1>1. /\ run = "pull" /\ run' = "finish" /\ step = "render" /\ working = {} /\ failed = FALSE
      /\ chunks = <<>>
      /\ UNCHANGED <<row, result, state, step, working, failed, chunks>>
  BY DEF GraphEnds, graphVars, TypeOK
<1>2. Rendered' = Rendered
  BY <1>1 DEF Rendered
<1>3. ChannelsOrdered' /\ UpdatesOnce' /\ CollectedInTurn' /\ RoundsKeepUp' /\ RenderedLast'
  BY <1>1, <1>2 DEF RowKeepsUp, ChannelsOrdered, UpdatesOnce, CollectedInTurn, RoundsKeepUp,
                    RenderedLast, Unread, Collected
<1>4. ScoreKeepsUp' /\ JudgeDecides'
  BY <1>1 DEF RowKeepsUp, ScoreKeepsUp, JudgeDecides, Undecided, Decided, Unread
<1> QED  BY <1>3, <1>4 DEF RowKeepsUp

\* The steps that leave the graph able to reach the row.
LEMMA AliveSteps ==
  ASSUME TypeOK, [Next]_vars, run' \in Alive
  PROVE  \/ SeedState
         \/ /\ run \in Alive
            /\ \/ \E node \in working : NodeFinishes(node) \/ NodeFails(node)
               \/ NextSuperstep \/ Pull \/ GraphEnds
               \/ (SaveRounds \/ SaveScore) /\ run' = "pull"
               \/ UNCHANGED vars
<1> USE DEF Alive, InTry, Over
<1>1. CASE Create \/ LoadRow \/ MarkRunning \/ SaveResult \/ Reload \/ Reply \/ MarkError
  <2>1. run' \in {"load", "mark", "seed", "reload", "returned", "replied", "raised"}
    BY <1>1 DEF Create, LoadRow, MarkRunning, SaveResult, Reload, Reply, MarkError, Read, Write
  <2> QED  BY <2>1
<1>2. CASE GraphRaises \/ DeadlineExpires \/ Crash
  BY <1>2 DEF GraphRaises, DeadlineExpires, Crash
<1>3. CASE SaveRounds \/ SaveScore
  BY <1>3 DEF SaveRounds, SaveScore, Write
<1>4. ASSUME NEW node \in working, NodeFinishes(node) \/ NodeFails(node)
      PROVE  run \in Alive
  BY <1>4 DEF NodeFinishes, NodeFails
<1>5. NextSuperstep \/ Pull \/ GraphEnds => run \in Alive
  BY DEF NextSuperstep, Pull, GraphEnds
<1>6. UNCHANGED vars => run \in Alive
  BY DEF vars
<1> QED  BY <1>1, <1>2, <1>3, <1>4, <1>5, <1>6 DEF Next, Stopped

LEMMA KeepsUpStep ==
  ASSUME TypeOK, ChannelsAdvanceByRounds, KeepsUp, [Next]_vars
  PROVE  KeepsUp'
<1>1. StatusFollowsRun'
  BY StatusStep DEF KeepsUp
<1>2. SUFFICES ASSUME run' \in Alive PROVE RowKeepsUp'
  BY <1>1 DEF KeepsUp
<1>3. CASE SeedState
  BY <1>2, <1>3, SeedKeepsUp DEF KeepsUp
<1>4. CASE ~SeedState
  <2>1. RowKeepsUp
    BY <1>2, <1>4, AliveSteps DEF KeepsUp
  <2>2. ASSUME NEW node \in working, NodeFinishes(node) \/ NodeFails(node)
        PROVE  RowKeepsUp'
    BY <2>1, <2>2, FinishKeepsUp, FailKeepsUp
  <2>3. CASE NextSuperstep \/ Pull \/ GraphEnds
    BY <2>1, <2>3, BarrierKeepsUp, PullKeepsUp, EndKeepsUp
  <2>4. CASE (SaveRounds \/ SaveScore) /\ run' = "pull"
    BY <2>1, <2>4, SaveRoundsKeepsUp, SaveScoreKeepsUp
  <2>5. CASE UNCHANGED vars
    <3>1. UNCHANGED <<row, run, result, state, step, working, failed, chunks>>
      BY <2>5 DEF vars
    <3>2. /\ ChannelsOrdered' /\ UpdatesOnce' /\ CollectedInTurn' /\ RoundsKeepUp'
          /\ RenderedLast'
      BY <2>1, <3>1 DEF RowKeepsUp, ChannelsOrdered, UpdatesOnce, CollectedInTurn,
                        RoundsKeepUp, RenderedLast, Rendered, Unread, Collected
    <3>3. ScoreKeepsUp' /\ JudgeDecides'
      BY <2>1, <3>1 DEF RowKeepsUp, ScoreKeepsUp, JudgeDecides, Undecided, Decided, Unread
    <3> QED  BY <3>2, <3>3 DEF RowKeepsUp
  <2> QED  BY <1>2, <1>4, <2>2, <2>3, <2>4, <2>5, AliveSteps
<1> QED  BY <1>3, <1>4

\* While the graph's updates can reach the row, the row follows what the graph
\* has emitted, write by write (services/debates.py: the loop over astream).
THEOREM RowKeepsUpWithGraph == Spec => []KeepsUp
<1>1. Init => KeepsUp
  BY DEF Init, KeepsUp, StatusFollowsRun, Preparing, Alive, InTry, Over, NoRow
<1>2. TypeOK /\ IInv /\ KeepsUp /\ [Next]_vars => KeepsUp'
  BY KeepsUpStep DEF IInv
<1> QED  BY <1>1, <1>2, TypeCorrect, Invariance, PTL DEF Spec

-----------------------------------------------------------------------------
(* The row a reader gets: complete when done, and at every step what        *)
(* DebateRecord promises.                                                   *)

\* The steps that write the row, where they are taken and what they write.
RequestedRow(max, blank) ==
  [NoRow EXCEPT !.status = "pending", !.blank = blank, !.max_rounds = max]

LEMMA RowSteps ==
  ASSUME TypeOK, [Next]_vars, row' # row
  PROVE  \/ /\ run = "request"
            /\ \E max \in MaxRoundsAsked \cup {PlatformCap}, blank \in BOOLEAN :
                 row' = RequestedRow(max, blank)
         \/ run = "mark" /\ row' = [row EXCEPT !.status = "running"]
         \/ run = "save_rounds" /\ row' = RowWithRounds
         \/ run = "save_score" /\ row' = RowWithScore
         \/ run = "fail" /\ row' = [row EXCEPT !.status = "error"]
         \/ run = "finish" /\ row' = FinalRow
<1>1. CASE Create
  <2>1. PICK asked \in MaxRoundsAsked, blank \in BOOLEAN :
          Write(RequestedRow(Capped(asked), blank), "load", "raised")
    BY <1>1 DEF Create, RequestedRow
  <2>2. row' = RequestedRow(Capped(asked), blank)
    BY <2>1 DEF Write
  <2>3. Capped(asked) \in MaxRoundsAsked \cup {PlatformCap}
    BY DEF Capped
  <2> QED  BY <1>1, <2>2, <2>3 DEF Create
<1>2. CASE MarkRunning \/ SaveRounds \/ SaveScore \/ MarkError \/ SaveResult
  BY <1>2 DEF MarkRunning, SaveRounds, SaveScore, MarkError, SaveResult, Write
<1>3. CASE DeadlineExpires
  BY <1>3 DEF DeadlineExpires, InTry
<1>4. CASE ~(Create \/ MarkRunning \/ SaveRounds \/ SaveScore \/ MarkError \/ SaveResult
             \/ DeadlineExpires)
  BY <1>4 DEF Next, vars, LoadRow, SeedState, NodeFinishes, NodeFails, NextSuperstep,
              Pull, GraphRaises, GraphEnds, Reload, Reply, Crash, Stopped, Read, Write
<1> QED  BY <1>1, <1>2, <1>3, <1>4

\* What the row holds when run leaves the loop: whole rounds, fewer than the
\* limit only if the judge was confident, and the receipt to come covers them.
LEMMA AtTheEnd ==
  ASSUME TypeOK, ChannelsAdvanceByRounds, CollectedArgueBlind, KeepsUp, run = "finish"
  PROVE  /\ row.status = "running"
         /\ state.round \in 1..row.max_rounds
         /\ row.rounds = result.rounds /\ Len(row.rounds) = 2 * state.round
         /\ row.scored = 2 * state.round
         /\ InTurn(row.rounds) /\ Blind(row.rounds)
         /\ row.verdict \in Verdicts /\ row.confidence \in Confidences
         /\ row.confidence = state.confidence /\ Decided
         /\ FinalRow = [row EXCEPT
              !.status = "done",
              !.receipt = Receipt(row.rounds, row.verdict, row.confidence)]
<1>1. /\ row.status = "running" /\ row.receipt = NoReceipt
      /\ step = "render" /\ working = {} /\ failed = FALSE /\ chunks = <<>>
      /\ RowKeepsUp
  BY DEF KeepsUp, StatusFollowsRun, Alive, RowKeepsUp, RenderedLast, TypeOK
<1>2. /\ state.rounds \in Seq(Entry) /\ result.rounds \in Seq(Entry)
      /\ state.round \in Nat /\ row.max_rounds \in Nat
      /\ Len(state.rounds) = 2 * state.round
  BY <1>1 DEF TypeOK, IsState, IsResult, IsRow, ChannelsAdvanceByRounds
<1>3. /\ row.rounds = result.rounds /\ Len(result.rounds) = 2 * state.round
      /\ InTurn(result.rounds) /\ Blind(result.rounds)
  BY <1>1, <1>2 DEF RowKeepsUp, CollectedInTurn, RoundsKeepUp, CollectedArgueBlind, Blind
<1>4. ~Unread("judge")
  BY <1>1 DEF Unread
<1>5. /\ row.scored = 2 * state.round
      /\ row.verdict = result.verdict /\ row.confidence = result.confidence
      /\ result.verdict = state.verdict /\ result.confidence = state.confidence
  BY <1>1, <1>2, <1>4 DEF RowKeepsUp, ScoreKeepsUp
<1>6. Decided /\ state.round \in 1..row.max_rounds
  BY <1>1, <1>2 DEF RowKeepsUp, JudgeDecides, Decided
<1>7. /\ state.verdict \in Verdicts /\ state.confidence \in Confidences
      /\ state.verdict # None /\ state.confidence # None
  BY <1>1, <1>6, NoneIsNoScore DEF RowKeepsUp, JudgeDecides, Decided
<1>8. /\ BuildRoundsStruct(state.rounds) = BuildRoundsStruct(row.rounds)
      /\ Markdown(state.rounds, row.verdict, row.confidence) =
           Markdown(row.rounds, row.verdict, row.confidence)
  <2>1. InTurn(state.rounds) /\ Blind(state.rounds)
    <3> DEFINE r == state.round
               s == state.rounds
    <3>1. DOMAIN s = 1..(2 * r) /\ r \in Nat
      BY <1>2
    <3>2. \A i \in 1..(2 * r) :
            s[i] = [side |-> SideAt(i), round |-> RoundAt(i), argument |-> 2 * (RoundAt(i) - 1)]
      BY <1>1, <3>1 DEF RowKeepsUp, ChannelsOrdered
    <3> HIDE DEF r, s
    <3>3. InTurn(InOrder(r)) /\ Blind(InOrder(r))
      BY <3>1, InOrderIsInTurn
    <3>4. \A i \in 1..(2 * r) : s[i] = InOrder(r)[i]
      BY <3>2 DEF InOrder
    <3>5. DOMAIN InOrder(r) = 1..(2 * r)
      BY DEF InOrder
    <3>6. InTurn(s) /\ Blind(s)
      BY <3>1, <3>3, <3>4, <3>5 DEF InTurn, Blind
    <3> QED  BY <3>6 DEF s
  <2>2. BuildRoundsStruct(state.rounds) = InOrder(state.round)
    BY <1>2, <2>1, StructOfBlindRounds
  <2>3. BuildRoundsStruct(row.rounds) = InOrder(state.round)
    BY <1>2, <1>3, StructOfBlindRounds
  <2>4. /\ DOMAIN state.rounds = 1..(2 * state.round) /\ state.round \in Nat
        /\ DOMAIN row.rounds = 1..(2 * state.round)
        /\ InTurn(row.rounds) /\ Blind(row.rounds)
    BY <1>2, <1>3
  <2>5. Markdown(state.rounds, row.verdict, row.confidence) =
          Markdown(row.rounds, row.verdict, row.confidence)
    BY <2>1, <2>4, MarkdownOfBlindRounds
  <2> QED  BY <2>2, <2>3, <2>5
<1>9. result.receipt = Receipt(row.rounds, row.verdict, row.confidence)
  <2>1. result.receipt = Rendered
    BY <1>1 DEF RowKeepsUp, RenderedLast
  <2>2. Rendered = Receipt(state.rounds, row.verdict, row.confidence)
    BY <1>5 DEF Rendered
  <2> QED  BY <1>8, <2>1, <2>2 DEF Receipt
<1>10. FinalRow = [row EXCEPT
         !.status = "done",
         !.receipt = Receipt(row.rounds, row.verdict, row.confidence)]
  <2> DEFINE receipt == Receipt(row.rounds, row.verdict, row.confidence)
  <2>1. /\ (IF result.verdict = None THEN Inconclusive ELSE result.verdict) = row.verdict
        /\ (IF result.confidence = None THEN 0 ELSE result.confidence) = row.confidence
        /\ (IF result.receipt = NoReceipt THEN row.receipt ELSE result.receipt) = receipt
    BY <1>1, <1>5, <1>7, <1>9
  <2> HIDE DEF receipt
  <2> DEFINE v == IF result.verdict = None THEN Inconclusive ELSE result.verdict
             c == IF result.confidence = None THEN 0 ELSE result.confidence
             t == IF result.receipt = NoReceipt THEN row.receipt ELSE result.receipt
  <2>2. FinalRow = [row EXCEPT !.verdict = v, !.confidence = c, !.rounds = result.rounds,
                               !.receipt = t, !.status = "done"]
    BY Zenon DEF FinalRow
  <2>3. v = row.verdict /\ c = row.confidence /\ t = receipt
    BY <2>1
  <2> HIDE DEF v, c, t
  <2>4. FinalRow = [row EXCEPT !.status = "done", !.receipt = receipt]
    BY <1>3, <2>2, <2>3 DEF TypeOK, IsRow
  <2> QED  BY <2>4 DEF receipt
<1> QED  BY <1>1, <1>3, <1>5, <1>6, <1>7, <1>10

\* Rounds that are whole and in turn make a complete row once they are rendered.
LEMMA CompleteWhenFinal ==
  ASSUME TypeOK, ChannelsAdvanceByRounds, CollectedArgueBlind, KeepsUp, run = "finish",
         row' = FinalRow
  PROVE  DoneRowComplete'
<1> DEFINE receipt == Receipt(row.rounds, row.verdict, row.confidence)
           struct == BuildRoundsStruct(row.rounds)
           n == state.round
<1>1. /\ n \in 1..row.max_rounds /\ row.max_rounds \in Nat /\ row.rounds \in Seq(Entry)
      /\ Len(row.rounds) = 2 * n /\ row.scored = 2 * n
      /\ InTurn(row.rounds) /\ Blind(row.rounds)
      /\ row.verdict # None /\ row.confidence # None
  BY AtTheEnd, NoneIsNoScore DEF TypeOK, IsRow
<1>2. /\ row'.verdict = row.verdict /\ row'.confidence = row.confidence
      /\ row'.rounds = row.rounds /\ row'.scored = row.scored
      /\ row'.max_rounds = row.max_rounds /\ row'.receipt = receipt
  <2>1. row' = [row EXCEPT !.status = "done", !.receipt = receipt]
    BY AtTheEnd
  <2> HIDE DEF receipt
  <2> QED  BY <2>1 DEF TypeOK, IsRow
<1>3. /\ receipt.rounds_struct = struct
      /\ receipt.transcript_hash = HashTranscript(row.verdict, row.confidence, struct)
  BY <1>1 DEF Receipt
<1> HIDE DEF receipt, struct, n
<1>4. struct = InOrder(n) /\ Len(struct) = 2 * n
  <2>1. n \in Nat
    BY <1>1
  <2>2. BuildRoundsStruct(row.rounds) = InOrder(n)
    BY <1>1, <2>1, StructOfBlindRounds
  <2>3. Len(InOrder(n)) = 2 * n
    BY <2>1, InOrderIsInTurn
  <2> QED  BY <2>2, <2>3 DEF struct
<1>5. DOMAIN row.rounds = 1..(2 * n) /\ n \in Nat
  BY <1>1
<1>6. \A i \in 1..(2 * n) :
        /\ struct[i].round = RoundAt(i) /\ struct[i].side = SideAt(i)
        /\ \E j \in 1..(2 * n) : row.rounds[j] = struct[i]
  <2>1. RoundByRound(row.rounds, n)
    BY <1>1, <1>5, StructInOrder
  <2> QED  BY <2>1 DEF RoundByRound, struct
<1>7. \A i \in DOMAIN row'.rounds :
        /\ struct[i].round = (i + 1) \div 2
        /\ struct[i].side = IF i % 2 = 1 THEN "proponent" ELSE "skeptic"
        /\ \E j \in DOMAIN row'.rounds : row'.rounds[j] = struct[i]
  <2> DEFINE rounds == row.rounds
  <2>1. row'.rounds = rounds /\ DOMAIN rounds = 1..(2 * n)
    BY <1>2, <1>5
  <2>2. \A i \in 1..(2 * n) :
          /\ struct[i].round = (i + 1) \div 2
          /\ struct[i].side = IF i % 2 = 1 THEN "proponent" ELSE "skeptic"
          /\ \E j \in 1..(2 * n) : rounds[j] = struct[i]
    BY <1>6 DEF RoundAt, SideAt
  <2> HIDE DEF rounds
  <2> QED  BY <2>1, <2>2
<1>8. row'.scored = Len(row'.rounds) /\ row'.scored \in 2..(2 * row'.max_rounds)
  BY <1>1, <1>2
<1>9. Len(row'.receipt.rounds_struct) = Len(row'.rounds)
  BY <1>1, <1>2, <1>3, <1>4
<1> QED  BY <1>1, <1>2, <1>3, <1>7, <1>8, <1>9 DEF DoneRowComplete

\* A row turns done only by update_result after the graph has ended, and it is
\* never written again.
LEMMA DoneRowStep ==
  ASSUME TypeOK, IInv, KeepsUp, DoneRowComplete, [Next]_vars
  PROVE  DoneRowComplete'
<1>1. CASE row' = row
  BY <1>1 DEF DoneRowComplete
<1>2. CASE row' # row
  <2>1. row.status \notin {"done", "error"}
    BY <1>2, FrozenStep
  <2>2. (run = "finish" /\ row' = FinalRow) \/ row'.status # "done"
    <3>1. /\ RowWithRounds.status = row.status /\ RowWithScore.status = row.status
          /\ [row EXCEPT !.status = "running"].status = "running"
          /\ [row EXCEPT !.status = "error"].status = "error"
      BY DEF TypeOK, IsRow, RowWithRounds, RowWithScore
    <3>2. \A max, blank : RequestedRow(max, blank).status = "pending"
      BY DEF RequestedRow, NoRow
    <3> QED  BY <1>2, <2>1, <3>1, <3>2, RowSteps
  <2>3. CASE row'.status # "done"
    BY <2>3 DEF DoneRowComplete
  <2> QED  BY <2>2, <2>3, CompleteWhenFinal DEF IInv
<1> QED  BY <1>1, <1>2

\* Whatever the branches, the database, the deadline and the process do, a row
\* that says done holds a whole debate: what get_transcript_json serves.
THEOREM DoneRowsComplete == Spec => []DoneRowComplete
<1>1. Init => DoneRowComplete
  BY DEF Init, NoRow, DoneRowComplete
<1>2. TypeOK /\ IInv /\ KeepsUp /\ DoneRowComplete /\ [Next]_vars => DoneRowComplete'
  BY DoneRowStep
<1> QED  BY <1>1, <1>2, TypeCorrect, Invariance, RowKeepsUpWithGraph, PTL DEF Spec

-----------------------------------------------------------------------------
(* The refinement of DebateRecord.                                          *)

\* What readers see of a row.
Seen(r) == [status |-> r.status, max_rounds |-> r.max_rounds, verdict |-> r.verdict,
            confidence |-> r.confidence, rounds |-> r.rounds, scored |-> r.scored,
            receipt |-> r.receipt]

\* A record is known by its fields.
Columns(status, max, v, c, rounds, scored, receipt) ==
  [status : {status}, max_rounds : {max}, verdict : {v}, confidence : {c},
   rounds : {rounds}, scored : {scored}, receipt : {receipt}]

LEMMA SeenColumns ==
  ASSUME NEW r
  PROVE  Seen(r) \in Columns(r.status, r.max_rounds, r.verdict, r.confidence,
                            r.rounds, r.scored, r.receipt)
BY DEF Seen, Columns

LEMMA SameColumns ==
  ASSUME NEW s, NEW m, NEW v, NEW c, NEW rounds, NEW n, NEW t,
         NEW a \in Columns(s, m, v, c, rounds, n, t),
         NEW b \in Columns(s, m, v, c, rounds, n, t)
  PROVE  a = b
BY DEF Columns

\* DebateRecord's copy of the markdown is the one that render builds.
LEMMA SameMarkdown ==
  ASSUME NEW rounds, NEW v, NEW c
  PROVE  PublicRow!Markdown(rounds, v, c) = Markdown(rounds, v, c)
<1>1. \A S : PublicRow!Cardinality(S) = Cardinality(S)
  BY DEF PublicRow!Cardinality, Cardinality
<1>2. /\ PublicRow!RoundNumbers(rounds) = RoundNumbers(rounds)
      /\ \A n : PublicRow!OfRound(rounds, n) = OfRound(rounds, n)
  BY DEF PublicRow!RoundNumbers, RoundNumbers, PublicRow!OfRound, OfRound
<1>3. ASSUME NEW k PROVE PublicRow!NthRound(rounds, k) = NthRound(rounds, k)
  BY <1>1, <1>2 DEF PublicRow!NthRound, NthRound
<1>4. ASSUME NEW i PROVE PublicRow!PlaceBySide(rounds, i) = PlaceBySide(rounds, i)
  BY <1>1, <1>2 DEF PublicRow!PlaceBySide, PlaceBySide
<1>5. ASSUME NEW n PROVE PublicRow!Section(rounds, n) = Section(rounds, n)
  <2> DEFINE theirs(k) ==
               CHOOSE i \in PublicRow!OfRound(rounds, n) : PublicRow!PlaceBySide(rounds, i) = k
             ours(k) == CHOOSE i \in OfRound(rounds, n) : PlaceBySide(rounds, i) = k
             size == Cardinality(OfRound(rounds, n))
             size2 == PublicRow!Cardinality(PublicRow!OfRound(rounds, n))
  <2>1. ASSUME NEW k PROVE theirs(k) = ours(k)
    BY <1>2, <1>4
  <2>2. size2 = size
    BY <1>1, <1>2
  <2>3. PublicRow!Section(rounds, n) =
          [round |-> n,
           entries |-> [k \in 1..size2 |-> [side |-> rounds[theirs(k)].side,
                                            argument |-> rounds[theirs(k)].argument]]]
    BY DEF PublicRow!Section
  <2>4. Section(rounds, n) =
          [round |-> n,
           entries |-> [k \in 1..size |-> [side |-> rounds[ours(k)].side,
                                           argument |-> rounds[ours(k)].argument]]]
    BY DEF Section
  <2> HIDE DEF theirs, ours, size, size2
  <2> QED  BY <2>1, <2>2, <2>3, <2>4
<1> QED
  BY <1>1, <1>2, <1>3, <1>5 DEF PublicRow!Markdown, Markdown

\* DebateRecord's copy of the receipt is the one that render builds.
LEMMA SameReceipt ==
  ASSUME NEW rounds, NEW v, NEW c
  PROVE  PublicRow!Receipt(rounds, v, c) = Receipt(rounds, v, c)
<1>1. ASSUME NEW i PROVE PublicRow!Place(rounds, i) = Place(rounds, i)
  <2> DEFINE Before == {j \in DOMAIN rounds :
                          \/ Earlier(rounds[j], rounds[i])
                          \/ j <= i /\ ~Earlier(rounds[i], rounds[j])}
  <2>1. PublicRow!Cardinality(Before) = Cardinality(Before)
    BY DEF PublicRow!Cardinality, Cardinality
  <2> QED  BY <2>1 DEF PublicRow!Place, Place, PublicRow!Earlier, Earlier
<1>2. PublicRow!BuildRoundsStruct(rounds) = BuildRoundsStruct(rounds)
  <2> DEFINE theirs(k) == CHOOSE i \in DOMAIN rounds : PublicRow!Place(rounds, i) = k
             ours(k) == CHOOSE i \in DOMAIN rounds : Place(rounds, i) = k
  <2>1. ASSUME NEW k PROVE theirs(k) = ours(k)
    BY <1>1
  <2>2. /\ PublicRow!BuildRoundsStruct(rounds) = [k \in DOMAIN rounds |-> rounds[theirs(k)]]
        /\ BuildRoundsStruct(rounds) = [k \in DOMAIN rounds |-> rounds[ours(k)]]
    BY DEF PublicRow!BuildRoundsStruct, BuildRoundsStruct
  <2> HIDE DEF theirs, ours
  <2> QED  BY <2>1, <2>2
<1>3. PublicRow!Markdown(rounds, v, c) = Markdown(rounds, v, c)
  BY SameMarkdown
<1> QED
  BY <1>2, <1>3 DEF PublicRow!Receipt, Receipt, PublicRow!HashTranscript, HashTranscript

\* What the row holds at each place that writes it, as a reader's step needs it.
LEMMA RequestIsCreate ==
  ASSUME row = NoRow, NEW max \in MaxRoundsAsked \cup {PlatformCap}, NEW blank \in BOOLEAN,
         row' = RequestedRow(max, blank)
  PROVE  PublicRow!Create
<1>1. Seen(row) = PublicRow!Absent
  BY DEF Seen, NoRow, PublicRow!Absent, PublicRow!NoReceipt, NoReceipt
<1>2. /\ row'.status = "pending" /\ row'.max_rounds = max /\ row'.verdict = None
      /\ row'.confidence = None /\ row'.rounds = <<>> /\ row'.scored = 0
      /\ row'.receipt = NoReceipt
  BY DEF NoRow, RequestedRow
<1>3. Seen(row') = [PublicRow!Absent EXCEPT !.status = "pending", !.max_rounds = max]
  <2>1. PublicRow!Absent \in Columns("absent", 1, None, None, <<>>, 0, NoReceipt)
    BY DEF Columns, PublicRow!Absent, PublicRow!NoReceipt, NoReceipt
  <2>2. [PublicRow!Absent EXCEPT !.status = "pending", !.max_rounds = max]
          \in Columns("pending", max, None, None, <<>>, 0, NoReceipt)
    BY <2>1 DEF Columns
  <2>3. Seen(row') \in Columns("pending", max, None, None, <<>>, 0, NoReceipt)
    BY <1>2, SeenColumns
  <2> QED  BY <2>2, <2>3, SameColumns
<1> QED  BY <1>1, <1>3 DEF PublicRow!Create, Seen, PublicRow!Absent

LEMMA MarkIsStart ==
  ASSUME TypeOK, row.status = "pending", row' = [row EXCEPT !.status = "running"]
  PROVE  PublicRow!Start
BY DEF TypeOK, IsRow, PublicRow!Start

LEMMA MarkIsFail ==
  ASSUME TypeOK, row.status = "running", row' = [row EXCEPT !.status = "error"]
  PROVE  PublicRow!Fail
BY DEF TypeOK, IsRow, PublicRow!Fail

\* Once the channels hold every entry the row is scored on, the debate is
\* settled exactly when the judge has decided.
LEMMA SettledWhenDecided ==
  ASSUME TypeOK, row.scored = 2 * state.round, row.confidence = state.confidence,
         state.round > 0 => state.confidence \in Confidences
  PROVE  /\ Decided /\ Len(row.rounds) = 2 * state.round => PublicRow!Settled
         /\ Undecided => ~PublicRow!Settled
<1> DEFINE r == state.round
           s == row.scored
           l == Len(row.rounds)
<1>1. r \in Nat /\ l \in Nat /\ s = 2 * r /\ row.max_rounds \in Nat
      /\ (l = 0 <=> row.rounds = <<>>)
  BY DEF TypeOK, IsState, IsRow
<1>2. r > 0 => state.confidence \in Nat /\ Threshold \in Nat
  BY ScoresAreNumbers
<1>3. PublicRow!Settled <=> /\ row.rounds # <<>> /\ s = l
                            /\ s \div 2 >= row.max_rounds \/ state.confidence >= Threshold
  BY DEF PublicRow!Settled
<1>4. /\ Decided <=> r > 0 /\ (r >= row.max_rounds \/ state.confidence >= Threshold)
      /\ Undecided <=> r < row.max_rounds /\ (r > 0 => state.confidence < Threshold)
  BY DEF Decided, Undecided
<1> HIDE DEF r, s, l
<1>5. s \div 2 = r
  BY <1>1
<1>6. Decided /\ l = 2 * r => PublicRow!Settled
  BY <1>1, <1>3, <1>4, <1>5
<1>7. Undecided => ~PublicRow!Settled
  BY <1>1, <1>2, <1>3, <1>4, <1>5
<1> QED  BY <1>6, <1>7 DEF r, l

\* A side's entry is saved: the first or the second of the round in progress.
LEMMA SaveIsArgue ==
  ASSUME TypeOK, ChannelsAdvanceByRounds, CollectedArgueBlind, KeepsUp,
         run = "save_rounds", row' = RowWithRounds
  PROVE  PublicRow!Argue
<1> DEFINE l == Len(row.rounds)
           r == state.round
           e == result.rounds[Len(result.rounds)]
<1>1. RowKeepsUp /\ row.status = "running"
  BY DEF KeepsUp, StatusFollowsRun, Alive, InTry
<1>2. /\ step = "argue" /\ Len(result.rounds) > Len(state.rounds)
      /\ result.rounds = Append(row.rounds, e)
      /\ Len(result.rounds) \in Len(state.rounds)..(Len(state.rounds) + 2)
      /\ InTurn(result.rounds)
      /\ row.scored = Len(state.rounds)
      /\ row.verdict = result.verdict /\ row.confidence = result.confidence
      /\ Undecided
  BY <1>1 DEF RowKeepsUp, RoundsKeepUp, CollectedInTurn, ScoreKeepsUp, JudgeDecides
<1>3. ~Unread("judge")
  <2>1. \A i \in DOMAIN chunks : chunks[i] \in Sides
    BY <1>2 DEF ChannelsAdvanceByRounds, Tasks
  <2> QED  BY <2>1 DEF Unread, Sides
<1>4. /\ row.rounds \in Seq(Entry) /\ result.rounds \in Seq(Entry) /\ r \in Nat
      /\ Len(state.rounds) = 2 * r
  BY <1>2 DEF TypeOK, IsRow, IsResult, IsState, ChannelsAdvanceByRounds
<1>5. /\ l \in Nat /\ Len(result.rounds) = l + 1 /\ DOMAIN row.rounds = 1..l
      /\ result.rounds[l + 1] = e /\ e \in Entry
      /\ \A i \in 1..l : result.rounds[i] = row.rounds[i]
  <2>1. Len(result.rounds) \in Nat \ {0}
    BY <1>2, <1>4
  <2>2. e \in Entry
    BY <1>4, <2>1
  <2> HIDE DEF e
  <2> QED  BY <1>2, <1>4, <2>2
<1>6. l \in (2 * r)..(2 * r + 1)
  BY <1>2, <1>4, <1>5
<1>7. /\ e.side \in Sides /\ e.round = RoundAt(l + 1)
      /\ \A i \in 1..l : row.rounds[i].round = e.round => row.rounds[i].side # e.side
  <2>1. \A i \in 1..(l + 1) :
          result.rounds[i].side \in Sides /\ result.rounds[i].round = RoundAt(i)
    BY <1>2, <1>4, <1>5 DEF InTurn
  <2>2. \A i, j \in 1..(l + 1) : i # j /\ result.rounds[i].round = result.rounds[j].round
          => result.rounds[i].side # result.rounds[j].side
    <3>1. DOMAIN result.rounds = 1..(l + 1)
      BY <1>4, <1>5
    <3> HIDE DEF l
    <3> QED  BY <1>2, <3>1 DEF InTurn
  <2>3. \A i \in 1..l : i \in 1..(l + 1) /\ i # l + 1
    BY <1>5
  <2>4. l + 1 \in 1..(l + 1)
    BY <1>5
  <2> HIDE DEF e, l
  <2> QED  BY <1>5, <2>1, <2>2, <2>3, <2>4
<1>8. e.argument = 2 * (e.round - 1)
  <2>1. l + 1 \in DOMAIN result.rounds
    BY <1>4, <1>5
  <2> HIDE DEF e, l
  <2> QED  BY <1>5, <2>1 DEF CollectedArgueBlind
<1>9. row'.rounds = Append(row.rounds, e)
  BY <1>2 DEF RowWithRounds, TypeOK, IsRow
<1>10. row.scored = 2 * r /\ ~PublicRow!Settled
  <2>1. row.confidence = state.confidence
    BY <1>1, <1>2, <1>3 DEF RowKeepsUp, ScoreKeepsUp
  <2>2. state.round > 0 => state.confidence \in Confidences
    BY <1>1 DEF RowKeepsUp, JudgeDecides
  <2> QED  BY <1>2, <1>4, <2>1, <2>2, SettledWhenDecided
<1> HIDE DEF e, l, r
<1>11. e.round = l \div 2 + 1
  <2>1. e.round = (l + 2) \div 2
    BY <1>5, <1>7 DEF RoundAt
  <2> QED  BY <1>5, <2>1
<1>12. l % 2 = 0 => l = 2 * r
  BY <1>4, <1>6
<1>13. PublicRow!NewEntry(e.side) = e
  <2>1. PublicRow!NewEntry(e.side) =
          [side |-> e.side, round |-> l \div 2 + 1, argument |-> 2 * ((l \div 2 + 1) - 1)]
    BY DEF PublicRow!NewEntry, l
  <2> QED  BY <1>5, <1>8, <1>11, <2>1 DEF Entry
<1>14. PublicRow!RoundsWhole => row.scored = Len(row.rounds)
  BY <1>10, <1>12 DEF PublicRow!RoundsWhole, l
<1>15. Seen(row') = [Seen(row) EXCEPT !.rounds = Append(@, e)]
  <2>1. row' = [row EXCEPT !.rounds = Append(row.rounds, e)]
    BY <1>2 DEF RowWithRounds
  <2>2. /\ row'.status = row.status /\ row'.max_rounds = row.max_rounds
        /\ row'.verdict = row.verdict /\ row'.confidence = row.confidence
        /\ row'.rounds = Append(row.rounds, e) /\ row'.scored = row.scored
        /\ row'.receipt = row.receipt
    BY <2>1 DEF TypeOK, IsRow
  <2> DEFINE rounds == Append(row.rounds, e)
             old == Seen(row)
  <2>3. /\ old \in Columns(row.status, row.max_rounds, row.verdict, row.confidence,
                           row.rounds, row.scored, row.receipt)
        /\ old.rounds = row.rounds
    BY SeenColumns DEF Seen
  <2> HIDE DEF old
  <2>4. [old EXCEPT !.rounds = Append(@, e)]
          \in Columns(row.status, row.max_rounds, row.verdict, row.confidence,
                     rounds, row.scored, row.receipt)
    BY <2>3 DEF Columns
  <2>5. Seen(row') \in Columns(row.status, row.max_rounds, row.verdict, row.confidence,
                              rounds, row.scored, row.receipt)
    BY <2>2, SeenColumns
  <2> QED  BY <2>4, <2>5, SameColumns DEF old
<1>16. /\ Seen(row).status = "running"
       /\ PublicRow!RoundsWhole => Seen(row).scored = Len(Seen(row).rounds)
       /\ \A i \in DOMAIN Seen(row).rounds :
            Seen(row).rounds[i].round = PublicRow!NewEntry(e.side).round =>
              Seen(row).rounds[i].side # e.side
       /\ e.side \in PublicRow!Sides
  BY <1>1, <1>5, <1>7, <1>13, <1>14 DEF Seen, PublicRow!Sides, Sides
<1>17. Seen(row') = [Seen(row) EXCEPT !.rounds = Append(@, PublicRow!NewEntry(e.side))]
  BY <1>13, <1>15
<1> QED  BY <1>10, <1>16, <1>17, Zenon DEF PublicRow!Argue, Seen

\* The judge's score is saved: it covers the round just argued.
LEMMA SaveIsScore ==
  ASSUME TypeOK, ChannelsAdvanceByRounds, KeepsUp, run = "save_score", row' = RowWithScore
  PROVE  PublicRow!Score
<1> DEFINE l == Len(row.rounds)
           r == state.round
           v == result.verdict
           c == result.confidence
<1>1. RowKeepsUp /\ row.status = "running"
  BY DEF KeepsUp, StatusFollowsRun, Alive, InTry
<1>2. /\ step = "judge" /\ working = {} /\ failed = FALSE /\ chunks = <<>>
      /\ row.scored = Len(state.rounds) - 2
      /\ row.rounds = result.rounds /\ Len(result.rounds) = Len(state.rounds)
  BY <1>1 DEF RowKeepsUp, RoundsKeepUp, CollectedInTurn, ScoreKeepsUp, TypeOK
<1>3. ~Unread("judge")
  BY <1>2 DEF Unread
<1>4. v \in Verdicts /\ c \in Confidences /\ v # None /\ c # None
  BY <1>1, <1>2, <1>3, NoneIsNoScore DEF RowKeepsUp, ScoreKeepsUp, JudgeDecides
<1>5. l = 2 * r /\ r \in Nat /\ row.scored < l
  BY <1>2 DEF TypeOK, IsState, ChannelsAdvanceByRounds
<1>6. Seen(row') = [Seen(row) EXCEPT !.verdict = v, !.confidence = c, !.scored = l]
  <2>1. row' = [row EXCEPT !.verdict = v, !.confidence = c, !.scored = l]
    BY <1>4 DEF RowWithScore
  <2> HIDE DEF v, c, l
  <2> DEFINE old == Seen(row)
  <2>2. /\ row'.status = row.status /\ row'.max_rounds = row.max_rounds
        /\ row'.verdict = v /\ row'.confidence = c
        /\ row'.rounds = row.rounds /\ row'.scored = l
        /\ row'.receipt = row.receipt
    BY <2>1 DEF TypeOK, IsRow
  <2>3. old \in Columns(row.status, row.max_rounds, row.verdict, row.confidence,
                       row.rounds, row.scored, row.receipt)
    BY SeenColumns
  <2> HIDE DEF old
  <2>4. [old EXCEPT !.verdict = v, !.confidence = c, !.scored = l]
          \in Columns(row.status, row.max_rounds, v, c, row.rounds, l, row.receipt)
    BY <2>3 DEF Columns
  <2>5. Seen(row') \in Columns(row.status, row.max_rounds, v, c, row.rounds, l, row.receipt)
    BY <2>2, SeenColumns
  <2> QED  BY <2>4, <2>5, SameColumns DEF old
<1>7. PublicRow!RoundsWhole
  <2>1. l % 2 = 0
    <3> HIDE DEF l, r
    <3> QED  BY <1>5
  <2> QED  BY <2>1 DEF PublicRow!RoundsWhole
<1> HIDE DEF v, c, l
<1>8. /\ Seen(row).status = "running"
      /\ Seen(row).scored < Len(Seen(row).rounds)
      /\ l = Len(Seen(row).rounds)
  BY <1>1, <1>5 DEF Seen, l
<1>9. Seen(row') = [Seen(row) EXCEPT !.verdict = v, !.confidence = c,
                                     !.scored = Len(Seen(row).rounds)]
  BY <1>6, <1>8
<1>10. \E verdict \in Verdicts, confidence \in Confidences :
         Seen(row') = [Seen(row) EXCEPT !.verdict = verdict, !.confidence = confidence,
                                        !.scored = Len(Seen(row).rounds)]
  BY <1>4, <1>9
<1> QED  BY <1>7, <1>8, <1>10, Zenon DEF PublicRow!Score, Seen

\* The result is saved: it publishes what the settled row already shows.
LEMMA SaveIsFinish ==
  ASSUME TypeOK, ChannelsAdvanceByRounds, CollectedArgueBlind, KeepsUp,
         run = "finish", row' = FinalRow
  PROVE  PublicRow!Finish
<1> DEFINE receipt == Receipt(row.rounds, row.verdict, row.confidence)
<1>1. row.status = "running" /\ row' = [row EXCEPT !.status = "done", !.receipt = receipt]
  BY AtTheEnd
<1>2. PublicRow!Settled
  <2>1. /\ row.scored = 2 * state.round /\ row.confidence = state.confidence /\ Decided
        /\ state.confidence \in Confidences /\ Len(row.rounds) = 2 * state.round
    BY AtTheEnd
  <2> QED  BY <2>1, SettledWhenDecided
<1>3. receipt = PublicRow!Receipt(row.rounds, row.verdict, row.confidence)
  BY SameReceipt
<1> HIDE DEF receipt
<1>4. Seen(row') = [Seen(row) EXCEPT !.status = "done", !.receipt = receipt]
  <2> DEFINE old == Seen(row)
  <2>1. /\ row'.status = "done" /\ row'.max_rounds = row.max_rounds
        /\ row'.verdict = row.verdict /\ row'.confidence = row.confidence
        /\ row'.rounds = row.rounds /\ row'.scored = row.scored
        /\ row'.receipt = receipt
    BY <1>1 DEF TypeOK, IsRow
  <2>2. old \in Columns(row.status, row.max_rounds, row.verdict, row.confidence,
                       row.rounds, row.scored, row.receipt)
    BY SeenColumns
  <2> HIDE DEF old
  <2>3. [old EXCEPT !.status = "done", !.receipt = receipt]
          \in Columns("done", row.max_rounds, row.verdict, row.confidence,
                     row.rounds, row.scored, receipt)
    BY <2>2 DEF Columns
  <2>4. Seen(row') \in Columns("done", row.max_rounds, row.verdict, row.confidence,
                              row.rounds, row.scored, receipt)
    BY <2>1, SeenColumns
  <2> QED  BY <2>3, <2>4, SameColumns DEF old
<1> QED  BY <1>1, <1>2, <1>3, <1>4 DEF PublicRow!Finish, Seen

\* Every write of the row is a step its readers expect; every other step of the
\* system leaves what they see alone.
LEMMA RowStepIsPublic ==
  ASSUME TypeOK, IInv, KeepsUp, [Next]_vars
  PROVE  PublicRow!Next \/ Seen(row') = Seen(row)
<1>1. CASE row' = row
  BY <1>1 DEF Seen
<1>2. CASE row' # row
  <2> USE DEF IInv, KeepsUp, StatusFollowsRun
  <2>1. CASE run = "request"
    BY <1>2, <2>1, RowSteps, RequestIsCreate DEF PublicRow!Next
  <2>2. CASE run = "mark"
    BY <1>2, <2>2, RowSteps, MarkIsStart DEF PublicRow!Next
  <2>3. CASE run = "save_rounds"
    BY <1>2, <2>3, RowSteps, SaveIsArgue DEF PublicRow!Next
  <2>4. CASE run = "save_score"
    BY <1>2, <2>4, RowSteps, SaveIsScore DEF PublicRow!Next
  <2>5. CASE run = "fail"
    BY <1>2, <2>5, RowSteps, MarkIsFail DEF PublicRow!Next
  <2>6. CASE run = "finish"
    BY <1>2, <2>6, RowSteps, SaveIsFinish DEF PublicRow!Next
  <2> QED  BY <1>2, <2>1, <2>2, <2>3, <2>4, <2>5, <2>6, RowSteps
<1> QED  BY <1>1, <1>2

\* The service implements the record that the stream, the endpoints and the
\* platform caller rely on.
THEOREM ServiceImplementsRecord == Spec => RowIsPublicRecord
<1>1. Init => PublicRow!Init
  BY DEF Init, PublicRow!Init, NoRow, PublicRow!Absent, PublicRow!NoReceipt, NoReceipt
<1>2. TypeOK /\ IInv /\ KeepsUp /\ [Next]_vars => PublicRow!Next \/ Seen(row') = Seen(row)
  BY RowStepIsPublic
<1>3. TypeOK /\ IInv /\ KeepsUp /\ [Next]_vars =>
        [PublicRow!Next]_[status |-> row.status, max_rounds |-> row.max_rounds,
                          verdict |-> row.verdict, confidence |-> row.confidence,
                          rounds |-> row.rounds, scored |-> row.scored,
                          receipt |-> row.receipt]
  BY <1>2 DEF Seen
<1> QED
  BY <1>1, <1>3, TypeCorrect, Invariance, RowKeepsUpWithGraph, PTL
  DEF Spec, RowIsPublicRecord, PublicRow!Spec
=============================================================================
