------------------------------ MODULE SessionPool ------------------------------
(***************************************************************************)
(* The database connections the whole process shares, and the tasks that   *)
(* compete for them: the runs of debates, the event streams that poll and  *)
(* the health probe.  Every unit of work opens a session of its own        *)
(* (session_scope), whose first statement checks a connection out of the   *)
(* pool and whose end gives it back.                                       *)
(*                                                                         *)
(* Waiters are served in no particular order and give up after             *)
(* pool_timeout; an idle connection may be dropped by the server; any      *)
(* statement may raise; a run's deadline and a reader's disconnection      *)
(* cancel their task at whatever it awaits.                                *)
(***************************************************************************)
EXTENDS Naturals, FiniteSets

CONSTANTS
  Runs,         \* executions of DebateService.run
  Viewers,      \* open event streams
  Probes,       \* requests of GET /health
  PoolSize,     \* db_pool_size
  MaxOverflow,  \* db_max_overflow
  Nobody        \* holder of a connection that is in the pool

ASSUME PoolAssumption ==
  /\ PoolSize \in Nat /\ MaxOverflow \in Nat /\ PoolSize + MaxOverflow > 0
  /\ Nobody \notin Runs \cup Viewers \cup Probes
  /\ Runs \cap Viewers = {} /\ Runs \cap Probes = {} /\ Viewers \cap Probes = {}

VARIABLES
  at,     \* where each task is with respect to its session
  stage,  \* which session of its run a run is at
  conn    \* the pool's connections

vars == <<at, stage, conn>>

Tasks == Runs \cup Viewers \cup Probes
Slots == 1..(PoolSize + MaxOverflow)

InSession == {"open", "commit", "undo", "close"}
Places == {"away",    \* a run awaits its graph, a viewer sleeps, no probe
           "wait",    \* a session's first statement awaits a connection
           "open",    \* its statements are executed
           "commit",  \* the body is done, session.commit() is awaited
           "undo",    \* the body raised, session.rollback() is awaited
           "close",   \* cancelled: the session is closed under a shield
           "ok", "down",  \* what the probe answered
           "over"}    \* the task returned or raised
Stages == {"load", "mark", "graph", "save", "reload", "mark_error", "none"}

Idle == {c \in Slots : conn[c].by = Nobody}
Exhausted == Idle = {}

PoolInit ==
  /\ at = [t \in Tasks |-> IF t \in Runs THEN "wait" ELSE "away"]
  /\ stage = [t \in Tasks |-> IF t \in Runs THEN "load" ELSE "none"]
  /\ conn = [c \in Slots |-> [link |-> "closed", by |-> Nobody]]

-----------------------------------------------------------------------------
(* The pool.                                                                *)

\* pool_pre_ping: a connection is tested, and replaced if dead, as it is taken.
CheckedOut(c, t) == [conn EXCEPT ![c] = [link |-> "live", by |-> t]]

Pooled == {c \in Idle : conn[c].link # "closed"}

\* The pool keeps pool_size idle connections; what overflows is closed.
Released(t) ==
  [c \in Slots |->
     IF conn[c].by # t THEN conn[c]
     ELSE [link |-> IF Cardinality(Pooled) < PoolSize THEN conn[c].link ELSE "closed",
           by |-> Nobody]]

\* The server drops an idle connection.
Dropped(c) ==
  /\ c \in Pooled
  /\ conn[c].link = "live"
  /\ conn' = [conn EXCEPT ![c].link = "dead"]
  /\ UNCHANGED <<at, stage>>

-----------------------------------------------------------------------------
(* What follows a session: the next step of the task it belongs to.         *)

Goes(t, place) == at' = [at EXCEPT ![t] = place]
GoesOn(t, next, place) == Goes(t, place) /\ stage' = [stage EXCEPT ![t] = next]

RunSucceeds(r) ==
  \/ stage[r] \in {"load", "mark"} /\ GoesOn(r, stage[r], "over")  \* no row, a blank claim
  \/ stage[r] = "load" /\ GoesOn(r, "mark", "wait")
  \/ stage[r] \in {"mark", "graph"} /\ GoesOn(r, "graph", "away")
  \/ stage[r] = "save" /\ GoesOn(r, "reload", "wait")
  \/ stage[r] \in {"reload", "mark_error"} /\ GoesOn(r, stage[r], "over")

\* Inside the try the handler marks the debate, in a session like any other.
RunRaises(r) ==
  IF stage[r] = "graph" THEN GoesOn(r, "mark_error", "wait")
                        ELSE GoesOn(r, stage[r], "over")

Succeeds(t) ==
  \/ t \in Runs /\ RunSucceeds(t)
  \/ t \in Viewers /\ Goes(t, "away") /\ UNCHANGED stage
  \/ t \in Viewers /\ Goes(t, "over") /\ UNCHANGED stage  \* a final row, or none
  \/ t \in Probes /\ Goes(t, "ok") /\ UNCHANGED stage

Raises(t) ==
  \/ t \in Runs /\ RunRaises(t)
  \/ t \in Viewers /\ Goes(t, "over") /\ UNCHANGED stage
  \/ t \in Probes /\ Goes(t, "down") /\ UNCHANGED stage

-----------------------------------------------------------------------------
(* A session, from its first statement to its end.                          *)

\* A connection is tested or opened as it is taken; either may raise.
Acquire(t) ==
  /\ at[t] = "wait"
  /\ \E c \in Idle :
       \/ conn' = CheckedOut(c, t) /\ Goes(t, "open") /\ UNCHANGED stage
       \/ conn' = [conn EXCEPT ![c].link = "closed"] /\ Raises(t)

\* Mutant of PoolTimeout: the engine is made without pool_timeout.
PoolTimeoutNever(t) == FALSE

PoolTimeout(t) ==
  /\ at[t] = "wait" /\ Exhausted
  /\ Raises(t)
  /\ UNCHANGED conn

Execute(t) ==
  /\ at[t] = "open"
  /\ Goes(t, "commit") \/ Goes(t, "undo")   \* a statement may raise
  /\ UNCHANGED <<stage, conn>>

\* Mutant of Commit: the session of a run lives as long as the run.
CommitPinned(t) ==
  /\ at[t] = "commit"
  /\ Succeeds(t)
  /\ conn' = IF t \in Runs /\ stage'[t] = "graph" THEN conn ELSE Released(t)

\* The commit, or its failure, ends the transaction and frees the connection.
Commit(t) ==
  /\ at[t] = "commit"
  /\ \/ Succeeds(t) /\ conn' = Released(t)
     \/ Goes(t, "undo") /\ UNCHANGED <<stage, conn>>

Rollback(t) ==
  /\ at[t] = "undo"
  /\ Raises(t)
  /\ conn' = Released(t)

\* Mutant of Close: a cancelled task leaves its connection behind.
CloseNothing(t) ==
  /\ at[t] = "close"
  /\ Raises(t)
  /\ UNCHANGED conn

\* The close runs in a task of its own; what was cancelled goes on after it.
Close(t) ==
  /\ at[t] = "close"
  /\ Raises(t)
  /\ conn' = Released(t)

\* Cancelled where it is: a session that holds a connection closes first.
Cancelled(t) ==
  /\ IF at[t] \in {"open", "commit", "undo"}
     THEN Goes(t, "close") /\ UNCHANGED stage
     ELSE at[t] \in {"away", "wait"} /\ Raises(t)
  /\ UNCHANGED conn

-----------------------------------------------------------------------------
(* The tasks.                                                               *)

\* A node's update must be written; the graph is done; a node raised.
GraphYields(r) ==
  /\ at[r] = "away" /\ stage[r] = "graph"
  /\ \E next \in {"graph", "save", "mark_error"} : GoesOn(r, next, "wait")
  /\ UNCHANGED conn

DeadlineExpires(r) == stage[r] = "graph" /\ Cancelled(r)

Poll(v) == at[v] = "away" /\ Goes(v, "wait") /\ UNCHANGED <<stage, conn>>

Disconnect(v) == Cancelled(v)

AskHealth(p) ==
  /\ at[p] \in {"away", "ok", "down"}
  /\ Goes(p, "wait")
  /\ UNCHANGED <<stage, conn>>

Session(t) == Execute(t) \/ Commit(t) \/ Rollback(t) \/ Close(t)

PoolNext ==
  \/ \E c \in Slots : Dropped(c)
  \/ \E t \in Tasks : Acquire(t) \/ PoolTimeout(t) \/ Session(t)
  \/ \E r \in Runs : GraphYields(r) \/ DeadlineExpires(r)
  \/ \E v \in Viewers : Poll(v) \/ Disconnect(v)
  \/ \E p \in Probes : AskHealth(p)

PoolSpec == PoolInit /\ [][PoolNext]_vars

\* The database answers what it is asked, a wait for a connection ends with one
\* or with pool_timeout, and asyncio.timeout fires.  Nothing is assumed of the
\* graph, which may never yield, nor of the readers.
FairPoolSpec ==
  /\ PoolSpec
  /\ \A t \in Tasks : WF_vars(Session(t)) /\ WF_vars(Acquire(t) \/ PoolTimeout(t))
  /\ \A r \in Runs : WF_vars(DeadlineExpires(r))

-----------------------------------------------------------------------------

\* Types of the variables; a run is never "away" outside its graph.
PoolTypeOK ==
  /\ at \in [Tasks -> Places]
  /\ stage \in [Tasks -> Stages]
  /\ conn \in [Slots -> [link : {"closed", "live", "dead"}, by : Tasks \cup {Nobody}]]
  /\ \A t \in Tasks : t \in Runs <=> stage[t] # "none"
  /\ \A r \in Runs : at[r] = "away" => stage[r] = "graph"

\* However its session ends - a commit, an exception, a deadline, a disconnected
\* reader - a task holds a connection exactly while it is in a session, and one,
\* that the server has not dropped while it lay idle (REL-2).
NothingLeaks ==
  /\ \A c \in Slots : conn[c].by # Nobody =>
       at[conn[c].by] \in InSession /\ conn[c].link = "live"
  /\ \A t \in Tasks : at[t] \in InSession => \E c \in Slots : conn[c].by = t
  /\ \A b, c \in Slots : conn[b].by = conn[c].by => b = c \/ conn[b].by = Nobody

\* However many runs await models that never answer, the pool does not stay
\* exhausted (REL-1): nobody keeps a connection while it awaits anything but
\* the database.
ExhaustionPasses == Exhausted ~> ~Exhausted

\* Although the pool is shared with readers who poll for ever, a run ends - the
\* mark its failure needs is itself a session, past the run's deadline - and
\* GET /health is answered, up or down.
EveryoneIsServed ==
  /\ \A r \in Runs : <>(at[r] = "over")
  /\ \A p \in Probes : at[p] = "wait" ~> at[p] \in {"ok", "down"}
=============================================================================
