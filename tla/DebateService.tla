---------------------------- MODULE DebateService ----------------------------
(***************************************************************************)
(* One debate from its POST to the end of its run: DebateService.create    *)
(* and DebateService.run, the LangGraph graph whose node updates run       *)
(* consumes, and the row that every write commits in a session of its own. *)
(*                                                                         *)
(* The graph's tasks and the service's loop are concurrent: while the loop *)
(* waits for the database, the other branch may finish or fail; the        *)
(* deadline may expire at any await inside the try; any session may raise, *)
(* before or after its commit took effect; the process may die anywhere.   *)
(***************************************************************************)
EXTENDS Transcript

CONSTANTS
  MaxRoundsAsked,  \* the max_rounds a request may carry
  PlatformCap,     \* PLATFORM_MAX_ROUNDS_CAP
  DbFaults         \* bound: how many database operations may raise

ASSUME RequestsAreValid ==
  MaxRoundsAsked \subseteq Nat \ {0} /\ PlatformCap \in Nat \ {0} /\ DbFaults \in Nat

VARIABLES
  caller,   \* who created the debate: "api" (background task) or "platform"
  row,      \* the committed row of table debates
  run,      \* where DebateService.run is
  result,   \* run's dict of what the graph has emitted so far
  state,    \* the graph's channels, as the nodes of this superstep read them
  step,     \* the superstep in progress
  working,  \* its tasks that are still running
  failed,   \* a task of it raised
  chunks,   \* node updates the graph has emitted and run has not read
  faults,   \* database operations that raised so far
  reply     \* what POST /platform/debate answered

vars == <<caller, row, run, result, state, step, working, failed, chunks, faults, reply>>
graphVars == <<state, step, working, failed, chunks>>

InTry == {"pull", "save_rounds", "save_score"}   \* under asyncio.timeout
Over == {"returned", "replied", "raised", "crashed"}

Tasks == [none |-> {}, plan |-> {"plan"}, argue |-> Sides,
          judge |-> {"judge"}, render |-> {"render"}]

NoRow == [status |-> "absent", blank |-> FALSE, max_rounds |-> 1,
          verdict |-> None, confidence |-> None, rounds |-> <<>>,
          scored |-> 0,  \* history: Len(rounds) when the score was last written
          receipt |-> NoReceipt]

\* initial_state's channels; the claim and max_rounds are read from the row.
InitialState == [round |-> 0, rounds |-> <<>>, verdict |-> None,
                 confidence |-> None, need_more |-> TRUE]

EmptyResult == [verdict |-> None, confidence |-> None, rounds |-> <<>>,
                receipt |-> NoReceipt]

Init ==
  /\ caller \in {"api", "platform"}
  /\ row = NoRow /\ run = "request" /\ result = EmptyResult
  /\ state = InitialState /\ step = "none" /\ working = {} /\ failed = FALSE
  /\ chunks = <<>> /\ faults = 0 /\ reply = None

-----------------------------------------------------------------------------
(* One session_scope: the write commits and run goes on, or the session     *)
(* raises, with the commit applied or not (its acknowledgement may be what  *)
(* was lost), and control goes to the handler.                              *)

Write(newRow, next, handler) ==
  \/ row' = newRow /\ run' = next /\ UNCHANGED faults
  \/ /\ faults < DbFaults
     /\ faults' = faults + 1
     /\ row' \in {row, newRow}
     /\ run' = handler

Read(next, handler) == Write(row, next, handler)

Outside == UNCHANGED <<caller, result, reply>> /\ UNCHANGED graphVars

-----------------------------------------------------------------------------
(* create_debate / platform_debate: validate, cap, insert a pending row.    *)

Capped(asked) ==
  IF caller = "platform" /\ asked > PlatformCap THEN PlatformCap ELSE asked

Create ==
  /\ run = "request"
  /\ \E asked \in MaxRoundsAsked, blank \in BOOLEAN :
       Write([NoRow EXCEPT !.status = "pending", !.blank = blank,
                           !.max_rounds = Capped(asked)], "load", "raised")
  /\ Outside

LoadRow ==
  /\ run = "load"
  /\ Read("mark", "raised")
  /\ Outside

MarkRunning ==
  /\ run = "mark"
  /\ Write([row EXCEPT !.status = "running"], "seed", "raised")
  /\ Outside

\* initial_state rejects a claim that strips to nothing, outside the try.
SeedState ==
  /\ run = "seed"
  /\ IF row.blank
     THEN run' = "raised" /\ UNCHANGED <<step, working>>
     ELSE run' = "pull" /\ step' = "plan" /\ working' = Tasks["plan"]
  /\ UNCHANGED <<caller, row, result, state, failed, chunks, faults, reply>>

-----------------------------------------------------------------------------
(* The graph.  Its tasks run whenever run is inside the try, at any speed.  *)

\* Mutant of Argument: the side is handed the rounds collected so far.
ArgumentOnLiveRounds(side) ==
  [side |-> side, round |-> state.round + 1, argument |-> Len(result.rounds)]

\* What a side writes: its prompt holds the rounds of the state Send gave it.
Argument(side) ==
  [side |-> side, round |-> state.round + 1, argument |-> Len(state.rounds)]

\* judge: the score, the next round number, and whether another is needed.
Judged(v, c) ==
  LET next == state.round + 1
  IN [state EXCEPT !.verdict = v, !.confidence = c, !.round = next,
                   !.need_more = c < Threshold /\ next < row.max_rounds]

Rendered == Receipt(state.rounds, state.verdict, state.confidence)

NodeFinishes(node) ==
  /\ run \in InTry
  /\ node \in working
  /\ working' = working \ {node}
  /\ chunks' = Append(chunks, node)
  /\ IF node = "judge"
     THEN \E v \in Verdicts, c \in Confidences : state' = Judged(v, c)
     ELSE UNCHANGED state
  /\ UNCHANGED <<caller, row, run, result, step, failed, faults, reply>>

\* A node raises (all models exhausted, a bug): the other branch is cancelled.
NodeFails(node) ==
  /\ run \in InTry
  /\ node \in working
  /\ working' = {}
  /\ failed' = TRUE
  /\ UNCHANGED <<caller, row, run, result, state, step, chunks, faults, reply>>

RouteAfterJudge ==
  IF IsConverged(state.round, row.max_rounds, state.confidence) \/ ~state.need_more
  THEN "render" ELSE "argue"

Route == CASE step = "plan"  -> "argue"
           [] step = "argue" -> "judge"
           [] OTHER           -> RouteAfterJudge

\* Mutant of RoundsReduced: the channel keeps the latest round only.
RoundsReplaced == <<Argument("proponent"), Argument("skeptic")>>

\* The append reducer of the rounds channel, in task order.
RoundsReduced == state.rounds \o <<Argument("proponent"), Argument("skeptic")>>

\* The barrier: once every task is done and its update read, the writes are
\* applied in task order and the next tasks start, when run asks for more.
NextSuperstep ==
  /\ run = "pull"
  /\ step # "render" /\ working = {} /\ ~failed /\ chunks = <<>>
  /\ step' = Route
  /\ working' = Tasks[Route]
  /\ IF step = "argue"
     THEN state' = [state EXCEPT !.rounds = RoundsReduced]
     ELSE UNCHANGED state
  /\ UNCHANGED <<caller, row, run, result, failed, chunks, faults, reply>>

-----------------------------------------------------------------------------
(* The loop over the graph's updates.                                       *)

\* One chunk: new rounds and a score are written before the next is read.
Pull ==
  /\ run = "pull"
  /\ chunks # <<>>
  /\ LET node == Head(chunks)
     IN \/ /\ node \in Sides
           /\ result' = [result EXCEPT !.rounds = Append(@, Argument(node))]
           /\ run' = "save_rounds"
        \/ /\ node = "judge"
           /\ result' = [result EXCEPT !.verdict = state.verdict,
                                       !.confidence = state.confidence]
           /\ run' = "save_score"
        \/ /\ node = "render"
           /\ result' = [result EXCEPT !.receipt = Rendered]
           /\ run' = "pull"
        \/ /\ node = "plan"
           /\ UNCHANGED <<result, run>>
  /\ chunks' = Tail(chunks)
  /\ UNCHANGED <<caller, row, state, step, working, failed, faults, reply>>

RowWithRounds == [row EXCEPT !.rounds = result.rounds]

RowWithScore ==
  [row EXCEPT
     !.verdict = IF result.verdict = None THEN @ ELSE result.verdict,
     !.confidence = IF result.confidence = None THEN @ ELSE result.confidence,
     !.scored = Len(row.rounds)]

SaveRounds ==
  /\ run = "save_rounds"
  /\ Write(RowWithRounds, "pull", "fail")
  /\ Outside

SaveScore ==
  /\ run = "save_score"
  /\ Write(RowWithScore, "pull", "fail")
  /\ Outside

\* The exception reaches the loop when it asks for the next update; updates
\* emitted before it and not read yet may be dropped.
GraphRaises ==
  /\ run = "pull" /\ failed
  /\ run' = "fail"
  /\ UNCHANGED <<caller, row, result, faults, reply>> /\ UNCHANGED graphVars

\* Mutants of DeadlineExpires: the handler does not catch it (as if TimeoutError
\* were no Exception); the clock is looked at only when an update arrives.
DeadlineEscapes ==
  /\ run \in InTry
  /\ run' = "raised"
  /\ UNCHANGED <<caller, row, result, faults, reply>> /\ UNCHANGED graphVars
DeadlineOnUpdate ==
  /\ run \in InTry /\ chunks # <<>>
  /\ run' = "fail"
  /\ UNCHANGED <<caller, row, result, faults, reply>> /\ UNCHANGED graphVars

\* asyncio.timeout cancels whatever the loop awaits, a commit included.
DeadlineExpires ==
  /\ run \in InTry
  /\ run' = "fail"
  /\ row' \in CASE run = "pull"        -> {row}
                [] run = "save_rounds" -> {row, RowWithRounds}
                [] run = "save_score"  -> {row, RowWithScore}
  /\ UNCHANGED <<caller, result, faults, reply>> /\ UNCHANGED graphVars

\* Mutant of MarkError: the handler does not raise again.
MarkErrorAndGoOn ==
  /\ run = "fail"
  /\ Write([row EXCEPT !.status = "error"], "finish", "raised")
  /\ Outside

MarkError ==
  /\ run = "fail"
  /\ Write([row EXCEPT !.status = "error"], "raised", "raised")
  /\ Outside

GraphEnds ==
  /\ run = "pull"
  /\ step = "render" /\ working = {} /\ ~failed /\ chunks = <<>>
  /\ run' = "finish"
  /\ UNCHANGED <<caller, row, result, faults, reply>> /\ UNCHANGED graphVars

\* update_result, after the try: run's own defaults, then status done.
FinalRow ==
  [row EXCEPT
     !.verdict = IF result.verdict = None THEN Inconclusive ELSE result.verdict,
     !.confidence = IF result.confidence = None THEN 0 ELSE result.confidence,
     !.rounds = result.rounds,
     !.receipt = IF result.receipt = NoReceipt THEN @ ELSE result.receipt,
     !.status = "done"]

\* Mutant of SaveResult: a failure to save is swallowed.
SaveResultIfPossible ==
  /\ run = "finish"
  /\ Write(FinalRow, "reload", "reload")
  /\ Outside

SaveResult ==
  /\ run = "finish"
  /\ Write(FinalRow, "reload", "raised")
  /\ Outside

Reload ==
  /\ run = "reload"
  /\ Read("returned", "raised")
  /\ Outside

\* platform_debate reads the row once more and answers from it.
Reply ==
  /\ run = "returned" /\ caller = "platform"
  /\ Read("replied", "raised")
  /\ reply' = IF run' = "replied"
              THEN [verdict |-> IF row.verdict = None THEN Inconclusive ELSE row.verdict,
                    confidence |-> IF row.confidence = None THEN 0 ELSE row.confidence,
                    rounds_run |-> Len(row.rounds)]
              ELSE reply
  /\ UNCHANGED <<caller, result>> /\ UNCHANGED graphVars

\* The process dies between two awaits, or its shutdown cancels the task, which
\* except Exception does not catch; nothing resumes a debate at boot.
Crash ==
  /\ run \notin Over
  /\ run' = "crashed"
  /\ UNCHANGED <<caller, row, result, faults, reply>> /\ UNCHANGED graphVars

\* The run is over: only then may the system stop.
Stopped == run \in Over /\ UNCHANGED vars

Next ==
  \/ Create \/ LoadRow \/ MarkRunning \/ SeedState
  \/ \E node \in working : NodeFinishes(node) \/ NodeFails(node)
  \/ NextSuperstep \/ Pull \/ SaveRounds \/ SaveScore
  \/ GraphRaises \/ DeadlineExpires \/ MarkError
  \/ GraphEnds \/ SaveResult \/ Reload \/ Reply
  \/ Crash \/ Stopped

\* The service's own steps end: asyncio runs it, its database calls return or
\* raise (connect, pool and statement timeouts), and the deadline's timer fires.
\* Nothing is assumed of the graph's nodes, of the client or of a crash.
ServiceStep ==
  \/ LoadRow \/ MarkRunning \/ SeedState \/ DeadlineExpires
  \/ MarkError \/ SaveResult \/ Reload \/ Reply

Spec == Init /\ [][Next]_vars /\ WF_vars(ServiceStep)

-----------------------------------------------------------------------------
(* Properties                                                               *)

IsRow(r) ==
  r \in [status : {"absent", "pending", "running", "done", "error"},
         blank : BOOLEAN, max_rounds : Nat \ {0},
         verdict : Verdicts \cup {None}, confidence : Confidences \cup {None},
         rounds : Seq(Entry), scored : Nat, receipt : {r.receipt}]

IsResult(r) ==
  r \in [verdict : Verdicts \cup {None}, confidence : Confidences \cup {None},
         rounds : Seq(Entry), receipt : {r.receipt}]

IsState(s) ==
  s \in [round : Nat, rounds : Seq(Entry), verdict : Verdicts \cup {None},
         confidence : Confidences \cup {None}, need_more : BOOLEAN]

Places == InTry \cup Over \cup
            {"request", "load", "mark", "seed", "fail", "finish", "reload"}

\* Every variable holds a value the program can put there (what a receipt may
\* be is the subject of DoneRowComplete).
TypeOK ==
  /\ caller \in {"api", "platform"}
  /\ IsRow(row) /\ IsResult(result) /\ IsState(state)
  /\ run \in Places
  /\ step \in {"none", "plan", "argue", "judge", "render"}
  /\ working \subseteq Tasks[step] /\ failed \in BOOLEAN
  /\ chunks \in Seq(Sides \cup {"plan", "judge", "render"})
  /\ faults \in Nat

\* A done row is never a junk transcript: it has a verdict and a confidence, two
\* entries of every judged round and nothing else, ordered rounds that do not
\* depend on which branch finished first, and a hash of exactly what it shows.
\* get_transcript_json answers 500 where this fails ("verdict missing").
DoneRowComplete ==
  row.status = "done" =>
    /\ row.verdict # None /\ row.confidence # None
    /\ row.scored = Len(row.rounds) /\ row.scored \in 2..2 * row.max_rounds
    /\ row.receipt.transcript_hash =
         HashTranscript(row.verdict, row.confidence, row.receipt.rounds_struct)
    /\ Len(row.receipt.rounds_struct) = Len(row.rounds)
    /\ \A i \in DOMAIN row.rounds :
         LET e == row.receipt.rounds_struct[i]
         IN /\ e.round = (i + 1) \div 2
            /\ e.side = IF i % 2 = 1 THEN "proponent" ELSE "skeptic"
            /\ \E j \in DOMAIN row.rounds : row.rounds[j] = e

\* Neither side reads the other's argument of the same round, however their
\* tasks and the saving of the first one interleave (spec 01: they argue from
\* the same snapshot): an entry of round r was written on 2(r-1) entries.
SidesArgueBlind ==
  \A i \in DOMAIN row.rounds :
    row.rounds[i].argument = 2 * (row.rounds[i].round - 1)

\* Unless the database itself fails, a run of a claim with some text that
\* raises has marked its row error first (a node failed, the deadline expired).
FailsClosed ==
  run = "raised" /\ faults = 0 /\ ~row.blank => row.status = "error"

\* The platform's caller is never told a verdict of a debate that has not
\* finished, nor one that differs from the row it can fetch afterwards.
ReplyIsTheFinalRow ==
  reply # None =>
    /\ row.status = "done"
    /\ reply = [verdict |-> row.verdict, confidence |-> row.confidence,
                rounds_run |-> Len(row.rounds)]

-----------------------------------------------------------------------------
(* Why these hold: the invariant that every step keeps.                     *)

\* The row is final only where run has nothing left to write, and it is
\* complete wherever run is about to hand it to a caller.
RowAndRunAgree ==
  /\ row.status \in {"done", "error"} => run \in Over \cup {"reload"}
  /\ run \in {"reload", "returned", "replied"} =>
       row.status = "done" /\ row.verdict # None /\ row.confidence # None
  /\ reply # None => run = "replied"

\* The channels hold two entries for each judged round, two more from the
\* barrier after both sides have spoken until the judge has answered; updates
\* still unread belong to the superstep in progress, and there is none before
\* the graph starts.
ChannelsAdvanceByRounds ==
  /\ run \in {"request", "load", "mark", "seed"} =>
       step = "none" /\ chunks = <<>> /\ ~failed
  /\ failed => working = {}
  /\ \A i \in DOMAIN chunks : chunks[i] \in Tasks[step]
  /\ Len(state.rounds) =
       2 * (IF step = "judge" /\ ("judge" \in working \/ failed)
            THEN state.round + 1 ELSE state.round)

\* Every entry collected, saved or not, was written on whole earlier rounds.
CollectedArgueBlind ==
  \A i \in DOMAIN result.rounds :
    result.rounds[i].argument = 2 * (result.rounds[i].round - 1)

\* The inductive invariant: every step of the service, the graph, the database
\* and the deadline keeps all of these together.
IInv ==
  /\ RowAndRunAgree
  /\ ChannelsAdvanceByRounds
  /\ CollectedArgueBlind
  /\ SidesArgueBlind
  /\ FailsClosed
  /\ ReplyIsTheFinalRow

\* A row whose status says it is over is never written again: what a stream or
\* a transcript served once is what it serves for ever.
TerminalRowFrozen == [][row.status \in {"done", "error"} => row' = row]_vars

\* REL-3: whatever the graph's nodes do, hang included, a started run ends.
RunEnds == run = "load" ~> run \in Over

\* Spec 06, invariants: "pending -> running -> (done|error)": a run that raised
\* with the database working has left its row in one of the two final states.
RaisedRunIsFinal ==
  run = "raised" /\ faults = 0 => row.status \in {"done", "error"}

\* What the row goes through is what DebateRecord promises its readers.
PublicRow ==
  INSTANCE DebateRecord WITH
    RoundLimits <- MaxRoundsAsked \cup {PlatformCap},
    record <- [status |-> row.status, max_rounds |-> row.max_rounds,
               verdict |-> row.verdict, confidence |-> row.confidence,
               rounds |-> row.rounds, scored |-> row.scored,
               receipt |-> row.receipt]

RowIsPublicRecord == PublicRow!Spec
=============================================================================
