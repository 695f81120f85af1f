--------------------------- MODULE SessionPoolProofs ---------------------------
(***************************************************************************)
(* For any number of tasks and any size of the pool, no connection leaks   *)
(* and none that the server has dropped is used.  The inductive invariant  *)
(* is the property together with the types.                                *)
(***************************************************************************)
EXTENDS SessionPool, TLAPS

Connections == [link : {"closed", "live", "dead"}, by : Tasks \cup {Nobody}]

\* What PoolTypeOK says of the tasks.
TasksTyped ==
  /\ at \in [Tasks -> Places]
  /\ stage \in [Tasks -> Stages]
  /\ \A t \in Tasks : t \in Runs <=> stage[t] # "none"
  /\ \A r \in Runs : at[r] = "away" => stage[r] = "graph"

PoolInv == PoolTypeOK /\ NothingLeaks

LEMMA TypeParts == PoolTypeOK <=> TasksTyped /\ conn \in [Slots -> Connections]
BY DEF PoolTypeOK, TasksTyped, Connections

LEMMA TypePartsNext == PoolTypeOK' <=> TasksTyped' /\ conn' \in [Slots -> Connections]
BY DEF PoolTypeOK, TasksTyped, Connections, Tasks, Slots

\* A task whose body raised leaves its session.
LEMMA RaisesLeaves ==
  ASSUME TasksTyped, NEW t \in Tasks, Raises(t)
  PROVE  /\ TasksTyped'
         /\ \E p \in Places \ InSession : at' = [at EXCEPT ![t] = p]
<1>1. CASE t \in Runs /\ RunRaises(t)
  BY <1>1 DEF RunRaises, GoesOn, Goes, TasksTyped, Tasks, Places, InSession, Stages
<1>2. CASE t \in Viewers /\ Goes(t, "over") /\ UNCHANGED stage
  BY <1>2, PoolAssumption DEF Goes, TasksTyped, Tasks, Places, InSession, Stages
<1>3. CASE t \in Probes /\ Goes(t, "down") /\ UNCHANGED stage
  BY <1>3, PoolAssumption DEF Goes, TasksTyped, Tasks, Places, InSession, Stages
<1> QED BY <1>1, <1>2, <1>3 DEF Raises

\* So does one whose session has committed.
LEMMA SucceedsLeaves ==
  ASSUME TasksTyped, NEW t \in Tasks, Succeeds(t)
  PROVE  /\ TasksTyped'
         /\ \E p \in Places \ InSession : at' = [at EXCEPT ![t] = p]
<1>1. CASE t \in Runs /\ RunSucceeds(t)
  BY <1>1 DEF RunSucceeds, GoesOn, Goes, TasksTyped, Tasks, Places, InSession, Stages
<1>2. CASE t \in Viewers /\ (Goes(t, "away") \/ Goes(t, "over")) /\ UNCHANGED stage
  BY <1>2, PoolAssumption DEF Goes, TasksTyped, Tasks, Places, InSession, Stages
<1>3. CASE t \in Probes /\ Goes(t, "ok") /\ UNCHANGED stage
  BY <1>3, PoolAssumption DEF Goes, TasksTyped, Tasks, Places, InSession, Stages
<1> QED BY <1>1, <1>2, <1>3 DEF Succeeds

\* Leaving a session without a connection keeps the pool as it is.
LEMMA LeavesWithout ==
  ASSUME NothingLeaks, TasksTyped, NEW t \in Tasks, at[t] \notin InSession,
         NEW p \in Places \ InSession, at' = [at EXCEPT ![t] = p], UNCHANGED conn
  PROVE  NothingLeaks'
BY PoolAssumption DEF NothingLeaks, TasksTyped, Slots, Tasks

\* Leaving it by releasing its connection frees that one and touches no other.
LEMMA LeavesReleasing ==
  ASSUME PoolInv, NEW t \in Tasks,
         NEW p \in Places \ InSession, at' = [at EXCEPT ![t] = p], conn' = Released(t)
  PROVE  conn' \in [Slots -> Connections] /\ NothingLeaks'
<1>1. conn \in [Slots -> Connections] /\ at \in [Tasks -> Places]
  BY TypeParts DEF PoolInv, TasksTyped
<1>2. Nobody \notin Tasks
  BY PoolAssumption DEF Tasks
<1>3. \A c \in Slots :
        /\ conn[c].by # t => conn'[c] = conn[c]
        /\ conn[c].by = t => conn'[c].by = Nobody /\ conn'[c] \in Connections
  BY <1>1 DEF Released, Connections
<1>4. conn' \in [Slots -> Connections]
  <2>1. conn' = [c \in Slots |-> conn'[c]]
    BY DEF Released
  <2>2. \A c \in Slots : conn'[c] \in Connections
    BY <1>1, <1>3
  <2> QED BY <2>1, <2>2
<1>5. \A c \in Slots : conn'[c].by # Nobody =>
        conn'[c] = conn[c] /\ conn[c].by # t /\ conn[c].by \in Tasks
  BY <1>1, <1>3, <1>2 DEF Connections
<1>6. (\A c \in Slots : conn[c].by # Nobody =>
         at[conn[c].by] \in InSession /\ conn[c].link = "live")'
  <2> SUFFICES ASSUME NEW c \in Slots, conn'[c].by # Nobody
               PROVE  at'[conn'[c].by] \in InSession /\ conn'[c].link = "live"
    BY DEF Slots
  <2>1. at[conn[c].by] \in InSession /\ conn[c].link = "live"
    BY <1>5 DEF PoolInv, NothingLeaks
  <2> QED BY <2>1, <1>5, <1>1
<1>7. (\A u \in Tasks : at[u] \in InSession => \E c \in Slots : conn[c].by = u)'
  <2> SUFFICES ASSUME NEW u \in Tasks, at'[u] \in InSession
               PROVE  \E c \in Slots : conn'[c].by = u
    BY DEF Slots, Tasks
  <2>1. u # t /\ at[u] \in InSession
    BY <1>1
  <2>2. PICK c \in Slots : conn[c].by = u
    BY <2>1 DEF PoolInv, NothingLeaks
  <2> QED BY <2>1, <2>2, <1>3
<1>8. (\A b, c \in Slots : conn[b].by = conn[c].by => b = c \/ conn[b].by = Nobody)'
  <2> SUFFICES ASSUME NEW b \in Slots, NEW c \in Slots, conn'[b].by = conn'[c].by,
                      conn'[b].by # Nobody
               PROVE  b = c
    BY DEF Slots
  <2>1. conn[b].by = conn[c].by /\ conn[b].by # Nobody
    BY <1>5
  <2> QED BY <2>1 DEF PoolInv, NothingLeaks
<1> QED BY <1>4, <1>6, <1>7, <1>8 DEF NothingLeaks

LEMMA InitKeeps == PoolInit => PoolInv
<1> SUFFICES ASSUME PoolInit PROVE PoolInv
  OBVIOUS
<1>1. TasksTyped
  BY PoolAssumption DEF PoolInit, TasksTyped, Places, Stages, Tasks
<1>2. conn \in [Slots -> Connections]
  BY DEF PoolInit, Connections
<1>3. NothingLeaks
  BY DEF PoolInit, NothingLeaks, InSession
<1> QED BY <1>1, <1>2, <1>3, TypeParts DEF PoolInv

\* A connection is taken while it is idle, by a task that holds none.
LEMMA AcquireKeeps == ASSUME PoolInv, NEW t \in Tasks, Acquire(t) PROVE PoolInv'
<1> USE TypeParts
<1>0. /\ TasksTyped /\ conn \in [Slots -> Connections] /\ NothingLeaks
      /\ at[t] = "wait" /\ Nobody \notin Tasks
  BY PoolAssumption DEF PoolInv, Acquire, Tasks
<1>1. PICK c \in Idle :
        \/ conn' = CheckedOut(c, t) /\ Goes(t, "open") /\ UNCHANGED stage
        \/ conn' = [conn EXCEPT ![c].link = "closed"] /\ Raises(t)
  BY DEF Acquire
<1>2. c \in Slots /\ conn[c].by = Nobody
  BY DEF Idle
<1>3. \A b \in Slots : conn[b].by # t
  BY <1>0 DEF NothingLeaks, InSession
<1>4. CASE conn' = CheckedOut(c, t) /\ Goes(t, "open") /\ UNCHANGED stage
  <2>1. TasksTyped'
    BY <1>0, <1>4 DEF Goes, TasksTyped, Places, Tasks
  <2>2. conn' \in [Slots -> Connections]
    BY <1>0, <1>2, <1>4 DEF CheckedOut, Connections
  <2>3. \A b \in Slots : conn'[b] = IF b = c THEN [link |-> "live", by |-> t] ELSE conn[b]
    BY <1>0, <1>2, <1>4 DEF CheckedOut
  <2>4. \A u \in Tasks : at'[u] = IF u = t THEN "open" ELSE at[u]
    BY <1>0, <1>4 DEF Goes, TasksTyped
  <2>5. NothingLeaks'
    <3>1. (\A b \in Slots : conn[b].by # Nobody =>
             at[conn[b].by] \in InSession /\ conn[b].link = "live")'
      <4> SUFFICES ASSUME NEW b \in Slots, conn'[b].by # Nobody
                   PROVE  at'[conn'[b].by] \in InSession /\ conn'[b].link = "live"
        BY DEF Slots
      <4>1. CASE b = c
        BY <4>1, <2>3, <2>4 DEF InSession
      <4>2. CASE b # c
        <5>1. conn[b].by \in Tasks /\ conn[b].by # t /\ conn'[b] = conn[b]
          BY <4>2, <2>3, <1>0, <1>3 DEF Connections
        <5>2. at[conn[b].by] \in InSession /\ conn[b].link = "live"
          BY <5>1, <1>0 DEF NothingLeaks
        <5> QED BY <5>1, <5>2, <2>4
      <4> QED BY <4>1, <4>2
    <3>2. (\A u \in Tasks : at[u] \in InSession => \E b \in Slots : conn[b].by = u)'
      <4> SUFFICES ASSUME NEW u \in Tasks, at'[u] \in InSession
                   PROVE  \E b \in Slots : conn'[b].by = u
        BY DEF Slots, Tasks
      <4>1. CASE u = t
        BY <4>1, <1>2, <2>3
      <4>2. CASE u # t
        <5>1. PICK b \in Slots : conn[b].by = u
          BY <4>2, <2>4, <1>0 DEF NothingLeaks
        <5>2. b # c
          BY <5>1, <1>2, <1>0
        <5> QED BY <5>1, <5>2, <2>3
      <4> QED BY <4>1, <4>2
    <3>3. (\A a, b \in Slots : conn[a].by = conn[b].by => a = b \/ conn[a].by = Nobody)'
      <4> SUFFICES ASSUME NEW a \in Slots, NEW b \in Slots, conn'[a].by = conn'[b].by,
                          conn'[a].by # Nobody
                   PROVE  a = b
        BY DEF Slots
      <4> QED BY <1>3, <2>3, <1>0 DEF NothingLeaks
    <3> QED BY <3>1, <3>2, <3>3 DEF NothingLeaks
  <2> QED BY <2>1, <2>2, <2>5, TypePartsNext DEF PoolInv
<1>5. CASE conn' = [conn EXCEPT ![c].link = "closed"] /\ Raises(t)
  <2>1. /\ TasksTyped'
        /\ \E p \in Places \ InSession : at' = [at EXCEPT ![t] = p]
    BY <1>5, <1>0, RaisesLeaves
  <2>2. conn' \in [Slots -> Connections]
    BY <1>0, <1>2, <1>5 DEF Connections
  <2>3. \A b \in Slots : conn'[b].by = conn[b].by /\ (b # c => conn'[b] = conn[b])
    BY <1>0, <1>2, <1>5 DEF Connections
  <2>4. PICK p \in Places \ InSession : at' = [at EXCEPT ![t] = p]
    BY <2>1
  <2>5. \A u \in Tasks : at'[u] = IF u = t THEN p ELSE at[u]
    BY <2>4, <1>0 DEF TasksTyped
  <2>6. \A b \in Slots : conn[b].by # Nobody => conn[b].by \in Tasks /\ conn[b].by # t /\ b # c
    BY <1>0, <1>2, <1>3 DEF Connections
  <2>7. NothingLeaks'
    BY <1>0, <1>2, <2>3, <2>5, <2>6 DEF NothingLeaks, Slots, Tasks
  <2> QED BY <2>1, <2>2, <2>7, TypePartsNext DEF PoolInv
<1> QED BY <1>1, <1>4, <1>5

\* A step inside a session keeps the task in it, and its connection.
LEMMA StaysKeeps ==
  ASSUME PoolInv, NEW t \in Tasks, at[t] \in InSession,
         NEW p \in InSession, Goes(t, p), UNCHANGED <<stage, conn>>
  PROVE  PoolInv'
<1>1. TasksTyped /\ conn \in [Slots -> Connections] /\ NothingLeaks
  BY TypeParts DEF PoolInv
<1>2. TasksTyped'
  BY <1>1 DEF Goes, TasksTyped, Places, InSession, Tasks
<1>3. NothingLeaks'
  BY <1>1, PoolAssumption DEF Goes, TasksTyped, NothingLeaks, Slots, Tasks, Connections
<1> QED BY <1>1, <1>2, <1>3, TypePartsNext DEF PoolInv

LEMMA RaisesWithoutKeeps ==
  ASSUME PoolInv, NEW t \in Tasks, at[t] \notin InSession, Raises(t), UNCHANGED conn
  PROVE  PoolInv'
BY RaisesLeaves, LeavesWithout, TypeParts, TypePartsNext DEF PoolInv

LEMMA SessionKeeps == ASSUME PoolInv, NEW t \in Tasks, Session(t) PROVE PoolInv'
<1>0. TasksTyped /\ NothingLeaks
  BY TypeParts DEF PoolInv
<1>1. CASE Execute(t)
  BY <1>1, StaysKeeps DEF Execute, InSession
<1>2. CASE Commit(t)
  <2>1. CASE Succeeds(t) /\ conn' = Released(t)
    BY <2>1, <1>0, SucceedsLeaves, LeavesReleasing, TypePartsNext DEF PoolInv
  <2>2. CASE Goes(t, "undo") /\ UNCHANGED <<stage, conn>>
    BY <1>2, <2>2, StaysKeeps DEF Commit, InSession
  <2> QED BY <1>2, <2>1, <2>2 DEF Commit
<1>3. CASE Rollback(t) \/ Close(t)
  BY <1>3, <1>0, RaisesLeaves, LeavesReleasing, TypePartsNext DEF PoolInv, Rollback, Close
<1> QED BY <1>1, <1>2, <1>3 DEF Session

LEMMA CancelledKeeps == ASSUME PoolInv, NEW t \in Tasks, Cancelled(t) PROVE PoolInv'
<1>1. CASE at[t] \in {"open", "commit", "undo"}
  BY <1>1, StaysKeeps DEF Cancelled, InSession
<1>2. CASE at[t] \in {"away", "wait"}
  BY <1>2, RaisesWithoutKeeps DEF Cancelled, InSession
<1> QED BY <1>1, <1>2 DEF Cancelled

\* A task outside its session moves on outside it, to an allowed place.
LEMMA MovesKeeps ==
  ASSUME PoolInv, NEW t \in Tasks, at[t] \notin InSession, Goes(t, "wait"),
         stage' \in [Tasks -> Stages], \A u \in Tasks : u \in Runs <=> stage'[u] # "none",
         \A u \in Tasks \ {t} : stage'[u] = stage[u], UNCHANGED conn
  PROVE  PoolInv'
<1>1. TasksTyped /\ conn \in [Slots -> Connections] /\ NothingLeaks
  BY TypeParts DEF PoolInv
<1>2. TasksTyped'
  BY <1>1 DEF Goes, TasksTyped, Places, Tasks
<1>3. "wait" \in Places \ InSession
  BY DEF Places, InSession
<1>4. NothingLeaks'
  BY <1>1, <1>3, LeavesWithout DEF Goes
<1> QED BY <1>1, <1>2, <1>4, TypePartsNext DEF PoolInv

LEMMA TasksKeep ==
  ASSUME PoolInv,
         \/ \E r \in Runs : GraphYields(r)
         \/ \E v \in Viewers : Poll(v)
         \/ \E p \in Probes : AskHealth(p)
  PROVE  PoolInv'
<1>0. TasksTyped
  BY TypeParts DEF PoolInv
<1>1. ASSUME NEW r \in Runs, GraphYields(r) PROVE PoolInv'
  <2>1. PICK next \in {"graph", "save", "mark_error"} : GoesOn(r, next, "wait") /\ UNCHANGED conn
    BY <1>1 DEF GraphYields
  <2>2. r \in Tasks /\ at[r] \notin InSession
    BY <1>1 DEF GraphYields, Tasks, InSession
  <2>3. stage' = [stage EXCEPT ![r] = next]
    BY <2>1 DEF GoesOn
  <2>4. /\ stage' \in [Tasks -> Stages]
        /\ \A u \in Tasks : u \in Runs <=> stage'[u] # "none"
        /\ \A u \in Tasks \ {r} : stage'[u] = stage[u]
    BY <2>2, <2>3, <1>0 DEF TasksTyped, Stages
  <2> QED BY <2>1, <2>2, <2>4, MovesKeeps DEF GoesOn
<1>2. ASSUME NEW t \in Viewers \cup Probes, at[t] \in {"away", "ok", "down"},
             Goes(t, "wait"), UNCHANGED <<stage, conn>>
      PROVE  PoolInv'
  <2>1. t \in Tasks /\ at[t] \notin InSession
    BY <1>2 DEF Tasks, InSession
  <2>2. /\ stage' \in [Tasks -> Stages]
        /\ \A u \in Tasks : u \in Runs <=> stage'[u] # "none"
        /\ \A u \in Tasks \ {t} : stage'[u] = stage[u]
    BY <1>2, <1>0 DEF TasksTyped
  <2> QED BY <1>2, <2>1, <2>2, MovesKeeps
<1> QED BY <1>1, <1>2 DEF Poll, AskHealth

LEMMA StepKeeps == PoolInv /\ [PoolNext]_vars => PoolInv'
<1> SUFFICES ASSUME PoolInv, [PoolNext]_vars PROVE PoolInv'
  OBVIOUS
<1>1. ASSUME NEW c \in Slots, Dropped(c) PROVE PoolInv'
  <2>1. TasksTyped /\ conn \in [Slots -> Connections] /\ NothingLeaks
    BY TypeParts DEF PoolInv
  <2>2. TasksTyped' /\ conn' \in [Slots -> Connections]
    BY <1>1, <2>1 DEF Dropped, TasksTyped, Connections
  <2>3. /\ conn[c].by = Nobody
        /\ \A b \in Slots : conn'[b].by = conn[b].by /\ (b # c => conn'[b] = conn[b])
    BY <1>1, <2>1 DEF Dropped, Pooled, Idle, Connections
  <2>4. NothingLeaks'
    BY <1>1, <2>1, <2>3 DEF Dropped, NothingLeaks, Slots
  <2> QED BY <2>2, <2>4, TypePartsNext DEF PoolInv
<1>2. ASSUME NEW t \in Tasks, PoolTimeout(t) PROVE PoolInv'
  BY <1>2, RaisesWithoutKeeps DEF PoolTimeout, InSession
<1>3. ASSUME NEW r \in Runs, DeadlineExpires(r) PROVE PoolInv'
  BY <1>3, CancelledKeeps DEF DeadlineExpires, Tasks
<1>4. ASSUME NEW v \in Viewers, Disconnect(v) PROVE PoolInv'
  BY <1>4, CancelledKeeps DEF Disconnect, Tasks
<1>5. CASE UNCHANGED vars
  BY <1>5 DEF vars, PoolInv, PoolTypeOK, NothingLeaks, Slots, Tasks
<1> QED
  BY <1>1, <1>2, <1>3, <1>4, <1>5, AcquireKeeps, SessionKeeps, TasksKeep DEF PoolNext

\* Of the whole process's sessions and connections: their types, and that every
\* connection handed out belongs to one session in progress.
THEOREM PoolInvariant == PoolSpec => []PoolInv
<1>1. PoolInit => PoolInv
  BY InitKeeps
<1>2. PoolInv /\ [PoolNext]_vars => PoolInv'
  BY StepKeeps
<1> QED BY <1>1, <1>2, PTL DEF PoolSpec

\* Whatever is cancelled, raises or is dropped by the server, sessions hold live
\* connections, one each, and nobody else holds any (core/db.py, session_scope).
THEOREM ConnectionsNeverLeak == PoolSpec => []NothingLeaks
<1>1. PoolInv => NothingLeaks
  BY DEF PoolInv
<1> QED BY <1>1, PoolInvariant, PTL
=============================================================================
