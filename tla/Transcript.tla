----------------------------- MODULE Transcript -----------------------------
(***************************************************************************)
(* The data a debate produces: round entries, the judge's scores, and the *)
(* transcript artifacts the render node builds from them.  An argument is *)
(* abstracted to the number of earlier entries its author was shown; the   *)
(* SHA-256 over the canonical JSON is abstracted to the record it digests, *)
(* which is as injective as a hash is assumed to be.                       *)
(***************************************************************************)
EXTENDS Integers, Sequences, FiniteSets

CONSTANTS
  Verdicts,      \* what the judge may answer
  Inconclusive,  \* the verdict used when the judge gave none
  Confidences,   \* the scores the judge may give, in steps of the scale
  Threshold,     \* CONFIDENCE_THRESHOLD (0.85) on that scale
  None           \* Python's None, SQL's NULL

ASSUME ScoresAreNumbers == Confidences \subseteq Nat /\ Threshold \in Nat
ASSUME ZeroIsAScore == 0 \in Confidences
ASSUME InconclusiveIsAVerdict == Inconclusive \in Verdicts
ASSUME NoneIsNoScore == None \notin Confidences /\ None \notin Verdicts

Sides == {"proponent", "skeptic"}

\* RoundEntry: who argued, in which round, having read how many entries.
Entry == [side : Sides, round : Nat \ {0}, argument : Nat]

\* sorted() on (round, side): "proponent" < "skeptic" as strings.
Earlier(a, b) ==
  \/ a.round < b.round
  \/ a.round = b.round /\ a.side = "proponent" /\ b.side = "skeptic"

\* Mutant of BuildRoundsStruct: the branches' finishing order shows.
UnsortedStruct(rounds) == rounds

\* Where sorted() puts an entry: after those that come earlier, and, since it is
\* stable, after those before it that do not come later.
Place(rounds, i) ==
  Cardinality({j \in DOMAIN rounds :
                 \/ Earlier(rounds[j], rounds[i])
                 \/ j <= i /\ ~Earlier(rounds[i], rounds[j])})

\* _build_rounds_struct: the entries in (round, side) order, whatever the
\* order the parallel branches finished in.
BuildRoundsStruct(rounds) ==
  [k \in DOMAIN rounds |->
     rounds[CHOOSE i \in DOMAIN rounds : Place(rounds, i) = k]]

\* hash_transcript over {verdict, confidence, rounds}; the claim is fixed.
HashTranscript(verdict, confidence, struct) ==
  [verdict |-> verdict, confidence |-> confidence, rounds |-> struct]

-----------------------------------------------------------------------------
(* The markdown, which groups and sorts the entries on its own.             *)

RoundNumbers(rounds) == {rounds[i].round : i \in DOMAIN rounds}

\* by_round[n]: the places of its entries.
OfRound(rounds, n) == {i \in DOMAIN rounds : rounds[i].round = n}

\* sorted(by_round): the k-th round number.
NthRound(rounds, k) ==
  CHOOSE n \in RoundNumbers(rounds) :
    Cardinality({m \in RoundNumbers(rounds) : m < n}) = k - 1

\* Mutant of PlaceBySide: a round's entries are left as they were argued.
PlaceAsArgued(rounds, i) ==
  Cardinality({j \in OfRound(rounds, rounds[i].round) : j <= i})

\* Where sorted() by the side alone puts an entry of its round.
PlaceBySide(rounds, i) ==
  LET before(a, b) == a.side = "proponent" /\ b.side = "skeptic"
  IN Cardinality({j \in OfRound(rounds, rounds[i].round) :
                    \/ before(rounds[j], rounds[i])
                    \/ j <= i /\ ~before(rounds[i], rounds[j])})

\* "## Round n" and, under it, who argued and what.
Section(rounds, n) ==
  LET at(k) == rounds[CHOOSE i \in OfRound(rounds, n) : PlaceBySide(rounds, i) = k]
  IN [round |-> n,
      entries |-> [k \in 1..Cardinality(OfRound(rounds, n)) |->
                     [side |-> at(k).side, argument |-> at(k).argument]]]

\* The markdown shows the verdict and the score as the state has them, None
\* included; the claim, the reasoning and the evidence links are left out.
Markdown(rounds, verdict, confidence) ==
  [sections |-> [k \in 1..Cardinality(RoundNumbers(rounds)) |->
                   Section(rounds, NthRound(rounds, k))],
   verdict |-> verdict, confidence |-> confidence]

-----------------------------------------------------------------------------

NoReceipt == [rounds_struct |-> None, transcript_hash |-> None, transcript_md |-> None]

\* render: the markdown, the ordered rounds, and the hash of these, which takes
\* a verdict and a score also when the state has none.
Receipt(rounds, verdict, confidence) ==
  LET struct == BuildRoundsStruct(rounds)
      hash_verdict == IF verdict = None THEN Inconclusive ELSE verdict
      hash_confidence == IF confidence = None THEN 0 ELSE confidence
  IN [rounds_struct |-> struct,
      transcript_hash |-> HashTranscript(hash_verdict, hash_confidence, struct),
      transcript_md |-> Markdown(rounds, verdict, confidence)]

\* is_converged: the round limit, or a confident judge.
IsConverged(round, maxRounds, confidence) ==
  \/ round >= maxRounds
  \/ confidence # None /\ confidence >= Threshold
=============================================================================
