---------------------------- MODULE DebateStream ----------------------------
(***************************************************************************)
(* GET /debates/{id}/stream: each viewer's generator polls the row in a    *)
(* session of its own and turns what it reads into SSE events.  The row is *)
(* the one DebateRecord describes, which DebateService implements, and it  *)
(* moves on while a viewer's events are being sent or its loop sleeps.     *)
(*                                                                         *)
(* Left out: the pings of an idle stream, which carry no state.            *)
(***************************************************************************)
EXTENDS DebateRecord, SequencesExt

CONSTANT Viewers

VARIABLES
  at,      \* where each viewer's event_gen is
  d,       \* the row it read in this iteration
  last,    \* last_snapshot
  shown,   \* the last "state" event it sent
  ending   \* how its stream ended, and the state its last event carried

streamVars == <<at, d, last, shown, ending>>
vars == <<record, at, d, last, shown, ending>>

\* What a row that is there can be.
Status == {"pending", "running"} \cup Terminal

\* Mutant of Event: only the latest round's entry is inlined.
EventWithLatestRound(r) ==
  [status |-> r.status, verdict |-> r.verdict, confidence |-> r.confidence,
   rounds |-> IF r.rounds = <<>> THEN <<>> ELSE <<Last(r.rounds)>>]

\* The payload of a "state" event, and of the "done" event on a final row.
Event(r) == [status |-> r.status, verdict |-> r.verdict,
             confidence |-> r.confidence, rounds |-> r.rounds]

\* A stream that is not over, or that ended without a final state.
Ending(kind) == [kind |-> kind, event |-> None]

\* Mutant of Snapshot: the score is not part of the fingerprint.
SnapshotWithoutScore(r) == [status |-> r.status, rounds_count |-> Len(r.rounds)]

\* What decides whether there is news.  The length of the latest argument
\* tells nothing once there is one: two arguments may be equally long.
Snapshot(r) == [status |-> r.status, verdict |-> r.verdict,
                confidence |-> r.confidence, rounds_count |-> Len(r.rounds),
                latest_len |-> IF r.rounds = <<>> THEN 0 ELSE 1]

\* last_snapshot starts as None, which no fingerprint equals.
ASSUME NoneIsNoSnapshot ==
  None \notin [status : Status, verdict : Verdicts \cup {None},
               confidence : Confidences \cup {None}, rounds_count : Nat, latest_len : 0..1]

StreamInit ==
  /\ Init
  /\ at = [v \in Viewers |-> "closed"]
  /\ d = [v \in Viewers |-> None]
  /\ last = [v \in Viewers |-> None]
  /\ shown = [v \in Viewers |-> None]
  /\ ending = [v \in Viewers |-> Ending("open")]

\* A request starts a generator with nothing shown; a viewer whose stream has
\* ended may open another.
Connect(v) ==
  /\ at[v] = "closed"
  /\ at' = [at EXCEPT ![v] = "poll"]
  /\ d' = [d EXCEPT ![v] = None]
  /\ last' = [last EXCEPT ![v] = None]
  /\ shown' = [shown EXCEPT ![v] = None]
  /\ ending' = [ending EXCEPT ![v] = Ending("open")]

Poll(v) ==
  /\ at[v] = "poll"
  /\ IF record.status = "absent"
     THEN /\ at' = [at EXCEPT ![v] = "closed"]
          /\ ending' = [ending EXCEPT ![v] = Ending("not_found")]
          /\ UNCHANGED d
     ELSE /\ d' = [d EXCEPT ![v] = record]
          /\ at' = [at EXCEPT ![v] = "emit"]
          /\ UNCHANGED ending
  /\ UNCHANGED <<last, shown>>

EmitStateThen(v, over) ==
  /\ at[v] = "emit"
  /\ IF Snapshot(d[v]) # last[v]
     THEN /\ last' = [last EXCEPT ![v] = Snapshot(d[v])]
          /\ shown' = [shown EXCEPT ![v] = Event(d[v])]
     ELSE UNCHANGED <<last, shown>>
  /\ at' = [at EXCEPT ![v] = IF over THEN "done" ELSE "sleep"]
  /\ UNCHANGED <<d, ending>>

\* Mutants of EmitState: a verdict is taken for the end; error is not.
EmitStateOverAtVerdict(v) == EmitStateThen(v, d[v].verdict # None)
EmitStateErrorNotOver(v) == EmitStateThen(v, d[v].status \in {"done", "failed"})

\* A changed snapshot is sent as a "state" event; then a final row, changed or
\* not, is sent once more as the "done" event.
EmitState(v) == EmitStateThen(v, d[v].status \in Terminal)

EmitDone(v) ==
  /\ at[v] = "done"
  /\ ending' = [ending EXCEPT ![v] = [kind |-> "done", event |-> Event(d[v])]]
  /\ at' = [at EXCEPT ![v] = "closed"]
  /\ UNCHANGED <<d, last, shown>>

Wake(v) ==
  /\ at[v] = "sleep"
  /\ at' = [at EXCEPT ![v] = "poll"]
  /\ UNCHANGED <<d, last, shown, ending>>

\* Mutant of StreamTimeout: only a debate that never started is given up.
StreamTimeoutWhilePending(v) ==
  /\ at[v] = "sleep"
  /\ d[v].status = "pending"
  /\ at' = [at EXCEPT ![v] = "closed"]
  /\ ending' = [ending EXCEPT ![v] = Ending("timeout")]
  /\ UNCHANGED <<d, last, shown>>

\* The loop finds STREAM_MAX_SECONDS spent: "done" with a reason, no state.
StreamTimeout(v) ==
  /\ at[v] = "sleep"
  /\ at' = [at EXCEPT ![v] = "closed"]
  /\ ending' = [ending EXCEPT ![v] = Ending("timeout")]
  /\ UNCHANGED <<d, last, shown>>

\* The client goes away, or service.get raises inside the generator.
Break(v) ==
  /\ at[v] # "closed"
  /\ at' = [at EXCEPT ![v] = "closed"]
  /\ ending' = [ending EXCEPT ![v] = Ending("broken")]
  /\ UNCHANGED <<d, last, shown>>

StreamNext ==
  \/ \E v \in Viewers :
       /\ \/ Connect(v) \/ Break(v)
          \/ Poll(v) \/ EmitState(v) \/ EmitDone(v) \/ Wake(v) \/ StreamTimeout(v)
       /\ UNCHANGED record
  \/ /\ Create \/ Start \/ Argue \/ Score \/ Finish \/ Fail
     /\ UNCHANGED streamVars

\* The generator's own steps happen, and since each turn of the loop sleeps for
\* a quarter of a second, the clock passes the stream's deadline after finitely
\* many turns.  Nothing is assumed of the debate, which may stay as it is.
StreamSpec ==
  /\ StreamInit /\ [][StreamNext]_vars
  /\ \A v \in Viewers :
       /\ WF_vars((Poll(v) \/ EmitState(v) \/ EmitDone(v) \/ Wake(v)) /\ UNCHANGED record)
       /\ SF_vars(StreamTimeout(v) /\ UNCHANGED record)

-----------------------------------------------------------------------------
(* Properties                                                               *)

\* While a viewer waits for the next poll, and when its stream ends on a final
\* row, it has been shown exactly what the generator last read, to the entry:
\* an unchanged fingerprint never hides a changed row.
NothingHeldBack ==
  \A v \in Viewers :
    at[v] \in {"sleep", "done"} => shown[v] = Event(d[v])

\* The "done" event on a final row is the final row: nothing that the debate
\* still had to say was lost between the read and the end of the stream.
DoneIsTheFinalRow ==
  \A v \in Viewers :
    ending[v].kind = "done" =>
      /\ record.status \in Terminal
      /\ ending[v].event = Event(record) /\ shown[v] = Event(record)

Rank == [pending |-> 1, running |-> 2, done |-> 3, error |-> 3]

\* Within one stream the events only move forward: no entry shown is taken
\* back or reordered, no status goes back, no score disappears.
NeverBackwards ==
  [][\A v \in Viewers :
       shown[v] # None /\ shown'[v] # None =>
         /\ IsPrefix(shown[v].rounds, shown'[v].rounds)
         /\ Rank[shown[v].status] <= Rank[shown'[v].status]
         /\ shown[v].verdict # None => shown'[v].verdict # None]_vars

\* Every stream ends, even when its debate is stuck for ever (crashed, hung).
StreamEnds == \A v \in Viewers : at[v] = "poll" ~> at[v] = "closed"

\* A poll made once the debate is over ends the stream with the final state,
\* never with the safety timeout, unless the connection or the read breaks.
EndReported ==
  \A v \in Viewers :
    record.status \in Terminal /\ at[v] = "poll"
      ~> ending[v].kind \in {"done", "broken"}
=============================================================================
