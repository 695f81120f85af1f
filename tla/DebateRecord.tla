---------------------------- MODULE DebateRecord ----------------------------
(***************************************************************************)
(* What a debate's database row promises to everyone who reads it (the SSE *)
(* stream, GET /debates/{id}, the transcripts, the platform caller):       *)
(* it starts pending, runs, argues whole rounds that it only ever appends, *)
(* is scored between rounds, and ends done, with the receipt of exactly    *)
(* the rounds and the score it shows, or in error.  Nothing here knows of  *)
(* the graph, the deadline or the database sessions; DebateService         *)
(* implements it.                                                          *)
(***************************************************************************)
EXTENDS Transcript

CONSTANT RoundLimits  \* the max_rounds values a request may end up with

ASSUME LimitsArePositive == RoundLimits \subseteq Nat \ {0}

VARIABLE record  \* the columns of the row that readers use

\* scored is history: how many entries the row held when it was last scored.
Absent == [status |-> "absent", max_rounds |-> 1, verdict |-> None,
           confidence |-> None, rounds |-> <<>>, scored |-> 0,
           receipt |-> NoReceipt]

\* What set_status and update_result leave for good.
Terminal == {"done", "error"}

RoundsWhole == Len(record.rounds) % 2 = 0

\* The judge's last score covers every entry and calls for no more rounds.
Settled ==
  /\ record.rounds # <<>>
  /\ record.scored = Len(record.rounds)
  /\ \/ record.scored \div 2 >= record.max_rounds
     \/ record.confidence >= Threshold

Create ==
  /\ record.status = "absent"
  /\ \E m \in RoundLimits :
       record' = [Absent EXCEPT !.status = "pending", !.max_rounds = m]

Start ==
  /\ record.status = "pending"
  /\ record' = [record EXCEPT !.status = "running"]

\* A side's entry for the round in progress, written by one who has read the
\* whole of the earlier, scored rounds and nothing of this one.
NewEntry(side) ==
  LET round == Len(record.rounds) \div 2 + 1
  IN [side |-> side, round |-> round, argument |-> 2 * (round - 1)]

\* Each side argues once in each round.
Argue ==
  /\ record.status = "running"
  /\ RoundsWhole => record.scored = Len(record.rounds)
  /\ ~Settled
  /\ \E side \in Sides :
       /\ \A i \in DOMAIN record.rounds :
            record.rounds[i].round = NewEntry(side).round => record.rounds[i].side # side
       /\ record' = [record EXCEPT !.rounds = Append(@, NewEntry(side))]

\* The judge scores a round once, when both sides have finished it.
Score ==
  /\ record.status = "running"
  /\ RoundsWhole
  /\ record.scored < Len(record.rounds)
  /\ \E v \in Verdicts, c \in Confidences :
       record' = [record EXCEPT !.verdict = v, !.confidence = c,
                                !.scored = Len(record.rounds)]

\* The result publishes what was already shown: no entry, verdict or
\* confidence changes in the step that ends the debate.
Finish ==
  /\ record.status = "running"
  /\ Settled
  /\ record' = [record EXCEPT
       !.status = "done",
       !.receipt = Receipt(record.rounds, record.verdict, record.confidence)]

Fail ==
  /\ record.status = "running"
  /\ record' = [record EXCEPT !.status = "error"]

Init == record = Absent

Next == Create \/ Start \/ Argue \/ Score \/ Finish \/ Fail

Spec == Init /\ [][Next]_record
=============================================================================
