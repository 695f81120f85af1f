------------------------- MODULE DebateReadersProofs -------------------------
(***************************************************************************)
(* What the readers of the debates can rely on, for any verdicts, scores   *)
(* and round limits: the viewers of a debate's stream, however many, those *)
(* who verify its transcripts, whatever the keys and the redeployments,    *)
(* and who walks the list, for any clocks, ids and page sizes.  The first  *)
(* two rest on what DebateRecord's steps keep: everything a viewer holds   *)
(* is an earlier state of the row, and a row only grows; everything a      *)
(* verifier holds is of a done row, whose rounds are whole.                *)
(***************************************************************************)
EXTENDS DebateStream, TranscriptReceipt, DebateListing, TranscriptProofs, SequenceTheorems,
        TLAPS

\* The row has the columns of DebateRecord, and those shown have their types.
RowTyped ==
  /\ record = [status |-> record.status, max_rounds |-> record.max_rounds,
               verdict |-> record.verdict, confidence |-> record.confidence,
               rounds |-> record.rounds, scored |-> record.scored,
               receipt |-> record.receipt]
  /\ record.status = "absent" \/ record.status \in Status
  /\ record.verdict \in Verdicts \cup {None}
  /\ record.confidence \in Confidences \cup {None}
  /\ record.rounds \in Seq(Entry)

-----------------------------------------------------------------------------
(* The stream                                                               *)

\* A row that is there, as far as events show it; an event is one too.
Readable(r) ==
  /\ r.status \in Status
  /\ r.verdict \in Verdicts \cup {None} /\ r.confidence \in Confidences \cup {None}
  /\ r.rounds \in Seq(Entry)

\* r shows what e shows, and perhaps more.
Precedes(e, r) ==
  /\ Readable(e) /\ Readable(r)
  /\ Len(e.rounds) <= Len(r.rounds)
  /\ \A i \in 1..Len(e.rounds) : e.rounds[i] = r.rounds[i]
  /\ Rank[e.status] <= Rank[r.status]
  /\ e.verdict # None => r.verdict # None

\* Each viewer has its own of everything.
PerViewer ==
  /\ at = [v \in Viewers |-> at[v]] /\ d = [v \in Viewers |-> d[v]]
  /\ last = [v \in Viewers |-> last[v]] /\ shown = [v \in Viewers |-> shown[v]]
  /\ ending = [v \in Viewers |-> ending[v]]

\* What was read is an earlier state of the row; a final one is the row.
ReadIsPast(v) ==
  at[v] \in {"emit", "done", "sleep"} =>
    /\ Precedes(d[v], record)
    /\ d[v].status \in Terminal => d[v] = record
    /\ at[v] = "done" => d[v].status \in Terminal

\* So is what was shown, and last is its fingerprint; what was read since is
\* not older.
ShownIsPast(v) ==
  /\ last[v] = None => shown[v] = None
  /\ last[v] # None =>
       /\ last[v] = Snapshot(shown[v]) /\ shown[v] = Event(shown[v])
       /\ Precedes(shown[v], record)
       /\ at[v] = "emit" => Precedes(shown[v], d[v])

Places == {"closed", "poll", "emit", "done", "sleep"}

\* NothingHeldBack and DoneIsTheFinalRow for one viewer.
EndsTrue(v) ==
  /\ at[v] \in Places
  /\ at[v] \in {"sleep", "done"} => shown[v] = Event(d[v])
  /\ at[v] # "closed" => ending[v].kind = "open"
  /\ ending[v].kind = "done" =>
       /\ record.status \in Terminal
       /\ ending[v].event = Event(record) /\ shown[v] = Event(record)

ViewerInv(v) == ReadIsPast(v) /\ ShownIsPast(v) /\ EndsTrue(v)

StreamInv == RowTyped /\ PerViewer /\ \A v \in Viewers : ViewerInv(v)

-----------------------------------------------------------------------------
(* The order of what is shown                                               *)

LEMMA Ranks == \A s \in Status : Rank[s] \in 1..3
BY DEF Status, Terminal, Rank

LEMMA PrecedesItself == ASSUME NEW r, Readable(r) PROVE Precedes(r, r)
<1>1. Rank[r.status] \in 1..3 /\ Len(r.rounds) \in Nat
  BY Ranks, LenProperties DEF Readable
<1> QED BY <1>1 DEF Precedes

LEMMA PrecedesOn ==
  ASSUME NEW a, NEW b, NEW c, Precedes(a, b), Precedes(b, c) PROVE Precedes(a, c)
<1>1. /\ Rank[a.status] \in 1..3 /\ Rank[b.status] \in 1..3 /\ Rank[c.status] \in 1..3
      /\ Len(a.rounds) \in Nat /\ Len(b.rounds) \in Nat /\ Len(c.rounds) \in Nat
  BY Ranks, LenProperties DEF Precedes, Readable
<1>2. \A i \in 1..Len(a.rounds) : i \in 1..Len(b.rounds)
  BY <1>1 DEF Precedes
<1> QED BY <1>1, <1>2 DEF Precedes

LEMMA PrecedesIsPrefix ==
  ASSUME NEW e, NEW r, Precedes(e, r) PROVE IsPrefix(e.rounds, r.rounds)
<1> DEFINE n == Len(e.rounds)
<1>1. /\ n \in Nat /\ Len(r.rounds) \in Nat /\ n <= Len(r.rounds)
      /\ e.rounds \in Seq(Entry) /\ r.rounds \in Seq(Entry)
  BY LenProperties DEF Precedes, Readable
<1>2. \A i \in 1..n : e.rounds[i] \in Entry /\ r.rounds[i] \in Entry
  BY <1>1, ElementOfSeq
<1>3. \A i \in 1..n : e.rounds[i] = r.rounds[i]
  BY DEF Precedes
<1> HIDE DEF n
<1>4. /\ SubSeq(e.rounds, 1, n) \in Seq(Entry) /\ SubSeq(r.rounds, 1, n) \in Seq(Entry)
      /\ Len(SubSeq(e.rounds, 1, n)) = n /\ Len(SubSeq(r.rounds, 1, n)) = n
      /\ \A i \in 1..n : /\ SubSeq(e.rounds, 1, n)[i] = e.rounds[i]
                         /\ SubSeq(r.rounds, 1, n)[i] = r.rounds[i]
  BY <1>1, <1>2, SubSeqProperties
<1>5. SubSeq(e.rounds, 1, n) = SubSeq(r.rounds, 1, n)
  BY <1>1, <1>3, <1>4, SeqEqual
<1> QED BY <1>1, <1>5 DEF IsPrefix, n

\* A row with the fingerprint of one it grew from shows the same.
LEMMA SameSnapshotSameEvent ==
  ASSUME NEW e, NEW r, Precedes(e, r), Snapshot(e) = Snapshot(r)
  PROVE  Event(e) = Event(r)
<1>1. /\ e.status = r.status /\ e.verdict = r.verdict /\ e.confidence = r.confidence
      /\ Len(e.rounds) = Len(r.rounds)
  BY DEF Snapshot
<1>2. e.rounds = r.rounds
  BY <1>1, SeqEqual DEF Precedes, Readable
<1> QED BY <1>1, <1>2 DEF Event

LEMMA SnapshotIsOne == ASSUME NEW r, Readable(r) PROVE Snapshot(r) # None
<1>1. Len(r.rounds) \in Nat
  BY LenProperties DEF Readable
<1> QED BY <1>1, NoneIsNoSnapshot DEF Readable, Snapshot

LEMMA EventShowsTheSame ==
  ASSUME NEW r
  PROVE  /\ Snapshot(Event(r)) = Snapshot(r) /\ Event(Event(r)) = Event(r)
         /\ \A e : Precedes(r, e) => Precedes(Event(r), e)
BY DEF Snapshot, Event, Precedes, Readable

-----------------------------------------------------------------------------
(* Steps of the debate                                                      *)

LEMMA RowStep ==
  ASSUME RowTyped, Next
  PROVE  /\ RowTyped' /\ record.status \notin Terminal
         /\ Readable(record) => Precedes(record, record')
<1> USE NoneIsNoScore DEF Terminal, Status
<1>0. /\ Len(record.rounds) \in Nat
      /\ Readable(record) => Precedes(record, record)
  BY LenProperties, PrecedesItself DEF RowTyped
<1>1. CASE Create
  <2>1. PICK m \in RoundLimits :
          record' = [Absent EXCEPT !.status = "pending", !.max_rounds = m]
    BY <1>1 DEF Create
  <2>2. record' = [status |-> "pending", max_rounds |-> m, verdict |-> None,
                   confidence |-> None, rounds |-> <<>>, scored |-> 0,
                   receipt |-> NoReceipt]
    BY <2>1 DEF Absent
  <2>3. <<>> \in Seq(Entry)
    OBVIOUS
  <2>4. record.status = "absent"
    BY <1>1 DEF Create
  <2> QED
    BY <2>2, <2>3, <2>4 DEF RowTyped, Readable
<1>2. CASE Start
  <2>1. RowTyped' /\ record.status = "pending" /\ record'.status = "running"
    BY <1>2 DEF Start, RowTyped
  <2>2. record'.rounds = record.rounds /\ record'.verdict = record.verdict
    BY <1>2 DEF Start, RowTyped
  <2> QED BY <1>0, <2>1, <2>2 DEF RowTyped, Readable, Precedes, Rank
<1>3. CASE Argue
  <2>1. PICK side \in Sides :
          record' = [record EXCEPT !.rounds = Append(@, NewEntry(side))]
    BY <1>3 DEF Argue
  <2>2. \A n \in Nat : n \div 2 \in Nat
    OBVIOUS
  <2>3. NewEntry(side) \in Entry
    <3> DEFINE half == Len(record.rounds) \div 2
    <3>1. half \in Nat
      BY <1>0, <2>2
    <3>2. NewEntry(side) =
            [side |-> side, round |-> half + 1, argument |-> 2 * ((half + 1) - 1)]
      BY DEF NewEntry
    <3> HIDE DEF half
    <3>3. half + 1 \in Nat \ {0} /\ 2 * ((half + 1) - 1) \in Nat
      BY <3>1
    <3> QED
      BY <3>2, <3>3 DEF Entry
  <2>4. /\ Append(record.rounds, NewEntry(side)) \in Seq(Entry)
        /\ Len(Append(record.rounds, NewEntry(side))) = Len(record.rounds) + 1
        /\ \A i \in 1..Len(record.rounds) :
             Append(record.rounds, NewEntry(side))[i] = record.rounds[i]
    BY <2>3 DEF RowTyped
  <2>5. /\ RowTyped' /\ record'.rounds = Append(record.rounds, NewEntry(side))
        /\ record'.status = record.status /\ record'.verdict = record.verdict
    BY <2>1, <2>4 DEF RowTyped
  <2>6. record.status = "running"
    BY <1>3 DEF Argue
  <2> QED BY <1>0, <2>4, <2>5, <2>6 DEF RowTyped, Readable, Precedes
<1>4. CASE Score
  <2>1. /\ RowTyped' /\ record'.verdict \in Verdicts /\ record.status = "running"
        /\ record'.status = record.status /\ record'.rounds = record.rounds
    BY <1>4 DEF Score, RowTyped
  <2> QED BY <1>0, <2>1 DEF RowTyped, Readable, Precedes
<1>5. CASE Finish
  <2>1. /\ RowTyped' /\ record.status = "running" /\ record'.status = "done"
        /\ record'.rounds = record.rounds /\ record'.verdict = record.verdict
    BY <1>5 DEF Finish, RowTyped
  <2> QED BY <1>0, <2>1 DEF RowTyped, Readable, Precedes, Rank
<1>6. CASE Fail
  <2>1. /\ RowTyped' /\ record.status = "running" /\ record'.status = "error"
        /\ record'.rounds = record.rounds /\ record'.verdict = record.verdict
    BY <1>6 DEF Fail, RowTyped
  <2> QED BY <1>0, <2>1 DEF RowTyped, Readable, Precedes, Rank
<1> QED
  BY <1>1, <1>2, <1>3, <1>4, <1>5, <1>6 DEF Next

\* A row that only grows stays later than all that was read of it.
LEMMA DebateStepKeepsStream == ASSUME StreamInv, Next, UNCHANGED streamVars PROVE StreamInv'
<1>1. RowTyped' /\ record.status \notin Terminal
  BY RowStep DEF StreamInv
<1>2. PerViewer'
  BY DEF StreamInv, PerViewer, streamVars
<1>3. ASSUME NEW v \in Viewers PROVE ViewerInv(v)'
  <2>1. ViewerInv(v)
    BY DEF StreamInv
  <2>2. ASSUME NEW e, Precedes(e, record) PROVE Precedes(e, record')
    <3>1. Precedes(record, record')
      BY <2>2, RowStep DEF StreamInv, Precedes
    <3> QED BY <2>2, <3>1, PrecedesOn
  <2>3. ReadIsPast(v)'
    BY <1>1, <2>1, <2>2 DEF ViewerInv, ReadIsPast, streamVars
  <2>4. ShownIsPast(v)'
    BY <2>1, <2>2 DEF ViewerInv, ShownIsPast, streamVars
  <2>5. EndsTrue(v)'
    BY <1>1, <2>1 DEF ViewerInv, EndsTrue, streamVars
  <2> QED BY <2>3, <2>4, <2>5 DEF ViewerInv
<1> QED BY <1>1, <1>2, <1>3 DEF StreamInv

-----------------------------------------------------------------------------
(* Steps of a viewer                                                        *)

\* A step of one viewer leaves the others as they are.
LEMMA OneViewerMoves ==
  ASSUME StreamInv, UNCHANGED record, PerViewer', NEW u \in Viewers, ViewerInv(u)',
         \A v \in Viewers \ {u} :
           /\ at'[v] = at[v] /\ d'[v] = d[v] /\ last'[v] = last[v]
           /\ shown'[v] = shown[v] /\ ending'[v] = ending[v]
  PROVE  StreamInv'
<1>1. RowTyped'
  BY DEF StreamInv, RowTyped
<1>2. ASSUME NEW v \in Viewers \ {u} PROVE ViewerInv(v)'
  BY <1>2 DEF StreamInv, ViewerInv, ReadIsPast, ShownIsPast, EndsTrue
<1> QED BY <1>1, <1>2 DEF StreamInv

LEMMA ConnectKeeps ==
  ASSUME StreamInv, NEW u \in Viewers, Connect(u), UNCHANGED record PROVE StreamInv'
<1>1. PerViewer'
  BY DEF StreamInv, PerViewer, Connect
<1>2. /\ at'[u] = "poll" /\ last'[u] = None /\ shown'[u] = None /\ ending'[u] = Ending("open")
      /\ \A v \in Viewers \ {u} :
           /\ at'[v] = at[v] /\ d'[v] = d[v] /\ last'[v] = last[v]
           /\ shown'[v] = shown[v] /\ ending'[v] = ending[v]
  BY DEF StreamInv, PerViewer, Connect
<1>3. ViewerInv(u)'
  BY <1>2 DEF ViewerInv, ReadIsPast, ShownIsPast, EndsTrue, Ending, Places
<1> QED BY <1>1, <1>2, <1>3, OneViewerMoves

\* A stream that ends before a final row has shown nothing for one.
LEMMA ClosedKeeps ==
  ASSUME StreamInv, NEW u \in Viewers, UNCHANGED <<record, d, last, shown>>,
         at' = [at EXCEPT ![u] = "closed"],
         NEW kind \in {"not_found", "timeout", "broken"},
         ending' = [ending EXCEPT ![u] = Ending(kind)]
  PROVE  StreamInv'
<1>1. PerViewer'
  BY DEF StreamInv, PerViewer
<1>2. /\ at'[u] = "closed" /\ ending'[u].kind # "done"
      /\ \A v \in Viewers \ {u} :
           /\ at'[v] = at[v] /\ d'[v] = d[v] /\ last'[v] = last[v]
           /\ shown'[v] = shown[v] /\ ending'[v] = ending[v]
  BY DEF StreamInv, PerViewer, Ending
<1>3. ViewerInv(u)'
  BY <1>2 DEF StreamInv, ViewerInv, ReadIsPast, ShownIsPast, EndsTrue, Places
<1> QED BY <1>1, <1>2, <1>3, OneViewerMoves

\* What a poll reads is the row itself.
LEMMA PollKeeps ==
  ASSUME StreamInv, NEW u \in Viewers, Poll(u), UNCHANGED record PROVE StreamInv'
<1>1. CASE record.status = "absent"
  BY <1>1, ClosedKeeps DEF Poll
<1>2. CASE record.status # "absent"
  <2>1. PerViewer'
    BY <1>2 DEF StreamInv, PerViewer, Poll
  <2>2. /\ at[u] = "poll" /\ at'[u] = "emit" /\ d'[u] = record /\ last'[u] = last[u]
        /\ shown'[u] = shown[u] /\ ending'[u] = ending[u]
        /\ \A v \in Viewers \ {u} :
             /\ at'[v] = at[v] /\ d'[v] = d[v] /\ last'[v] = last[v]
             /\ shown'[v] = shown[v] /\ ending'[v] = ending[v]
    BY <1>2 DEF StreamInv, PerViewer, Poll
  <2>3. Precedes(record, record)
    BY <1>2, PrecedesItself DEF StreamInv, RowTyped, Readable
  <2>4. ViewerInv(u)'
    BY <2>2, <2>3 DEF StreamInv, ViewerInv, ReadIsPast, ShownIsPast, EndsTrue, Places
  <2> QED BY <2>1, <2>2, <2>4, OneViewerMoves
<1> QED BY <1>1, <1>2

\* What is shown next, changed or not, is what was read.
LEMMA EmitStateShows ==
  ASSUME StreamInv, NEW u \in Viewers, EmitState(u)
  PROVE  /\ shown'[u] = Event(d[u]) /\ last'[u] = Snapshot(d[u])
         /\ Precedes(d[u], record) /\ Precedes(shown'[u], record)
         /\ shown[u] # None => Precedes(shown[u], shown'[u])
<1>1. Precedes(d[u], record) /\ ShownIsPast(u) /\ at[u] = "emit"
  BY DEF StreamInv, ViewerInv, ReadIsPast, EmitState, EmitStateThen
<1>2. Readable(d[u])
  BY <1>1 DEF Precedes
<1>3. last[u] # None => Precedes(shown[u], d[u])
  BY <1>1 DEF ShownIsPast
<1>4. \A e : Precedes(e, d[u]) => Precedes(e, Event(d[u]))
  BY DEF Event, Precedes, Readable
<1>5. CASE Snapshot(d[u]) # last[u]
  <2>1. shown'[u] = Event(d[u]) /\ last'[u] = Snapshot(d[u])
    BY <1>5 DEF StreamInv, PerViewer, EmitState, EmitStateThen
  <2> QED BY <1>1, <1>3, <1>4, <2>1, EventShowsTheSame DEF ShownIsPast
<1>6. CASE Snapshot(d[u]) = last[u]
  <2>1. shown'[u] = shown[u] /\ last'[u] = last[u]
    BY <1>6 DEF EmitState, EmitStateThen
  <2>2. last[u] # None
    BY <1>2, <1>6, SnapshotIsOne
  <2>3. Event(shown[u]) = Event(d[u])
    BY <1>1, <1>3, <1>6, <2>2, SameSnapshotSameEvent DEF ShownIsPast
  <2>4. shown[u] = Event(d[u])
    BY <1>1, <2>2, <2>3 DEF ShownIsPast
  <2> QED BY <1>1, <1>3, <1>4, <1>6, <2>1, <2>2, <2>4, EventShowsTheSame
<1> QED BY <1>5, <1>6

LEMMA EmitStateKeeps ==
  ASSUME StreamInv, NEW u \in Viewers, EmitState(u), UNCHANGED record PROVE StreamInv'
<1>1. PerViewer'
  BY DEF StreamInv, PerViewer, EmitState, EmitStateThen
<1>2. /\ at'[u] = IF d[u].status \in Terminal THEN "done" ELSE "sleep"
      /\ at[u] = "emit" /\ d'[u] = d[u] /\ ending'[u] = ending[u]
      /\ \A v \in Viewers \ {u} :
           /\ at'[v] = at[v] /\ d'[v] = d[v] /\ last'[v] = last[v]
           /\ shown'[v] = shown[v] /\ ending'[v] = ending[v]
  BY DEF StreamInv, PerViewer, EmitState, EmitStateThen
<1>3. ViewerInv(u)
  BY DEF StreamInv
<1>4. ReadIsPast(u)'
  BY <1>2, <1>3, EmitStateShows DEF ViewerInv, ReadIsPast
<1>5. ShownIsPast(u)'
  <2>1. Snapshot(d[u]) # None
    BY EmitStateShows, SnapshotIsOne DEF Precedes
  <2> QED BY <1>2, <2>1, EmitStateShows, EventShowsTheSame DEF ShownIsPast
<1>6. EndsTrue(u)'
  BY <1>2, <1>3, EmitStateShows DEF ViewerInv, EndsTrue, Places
<1> QED BY <1>1, <1>2, <1>4, <1>5, <1>6, OneViewerMoves DEF ViewerInv

LEMMA EmitDoneKeeps ==
  ASSUME StreamInv, NEW u \in Viewers, EmitDone(u), UNCHANGED record PROVE StreamInv'
<1>1. PerViewer'
  BY DEF StreamInv, PerViewer, EmitDone
<1>2. /\ at[u] = "done" /\ at'[u] = "closed"
      /\ ending'[u] = [kind |-> "done", event |-> Event(d[u])]
      /\ last'[u] = last[u] /\ shown'[u] = shown[u]
      /\ \A v \in Viewers \ {u} :
           /\ at'[v] = at[v] /\ d'[v] = d[v] /\ last'[v] = last[v]
           /\ shown'[v] = shown[v] /\ ending'[v] = ending[v]
  BY DEF StreamInv, PerViewer, EmitDone
<1>3. d[u].status \in Terminal /\ d[u] = record /\ shown[u] = Event(d[u])
  BY <1>2 DEF StreamInv, ViewerInv, ReadIsPast, EndsTrue
<1>4. ViewerInv(u)'
  BY <1>2, <1>3 DEF StreamInv, ViewerInv, ReadIsPast, ShownIsPast, EndsTrue, Places
<1> QED BY <1>1, <1>2, <1>4, OneViewerMoves

LEMMA WakeKeeps ==
  ASSUME StreamInv, NEW u \in Viewers, Wake(u), UNCHANGED record PROVE StreamInv'
<1>1. PerViewer'
  BY DEF StreamInv, PerViewer, Wake
<1>2. /\ at[u] = "sleep" /\ at'[u] = "poll"
      /\ last'[u] = last[u] /\ shown'[u] = shown[u] /\ ending'[u] = ending[u]
      /\ \A v \in Viewers \ {u} :
           /\ at'[v] = at[v] /\ d'[v] = d[v] /\ last'[v] = last[v]
           /\ shown'[v] = shown[v] /\ ending'[v] = ending[v]
  BY DEF StreamInv, PerViewer, Wake
<1>3. ViewerInv(u)'
  BY <1>2 DEF StreamInv, ViewerInv, ReadIsPast, ShownIsPast, EndsTrue, Places
<1> QED BY <1>1, <1>2, <1>3, OneViewerMoves

-----------------------------------------------------------------------------
(* The theorems                                                             *)

LEMMA StreamInitKeeps == ASSUME StreamInit PROVE StreamInv
<1>1. RowTyped
  <2>1. <<>> \in Seq(Entry)
    OBVIOUS
  <2> QED BY <2>1 DEF StreamInit, Init, Absent, RowTyped
<1>2. PerViewer
  BY DEF StreamInit, PerViewer
<1>3. \A v \in Viewers : ViewerInv(v)
  BY DEF StreamInit, ViewerInv, ReadIsPast, ShownIsPast, EndsTrue, Ending, Places
<1> QED BY <1>1, <1>2, <1>3 DEF StreamInv

LEMMA NextKeeps == ASSUME StreamInv, [StreamNext]_vars PROVE StreamInv'
<1>1. ASSUME NEW v \in Viewers, UNCHANGED record,
             Connect(v) \/ Break(v) \/ Poll(v) \/ EmitState(v) \/ EmitDone(v)
               \/ Wake(v) \/ StreamTimeout(v)
      PROVE  StreamInv'
  <2>1. CASE Break(v) \/ StreamTimeout(v)
    BY <1>1, <2>1, ClosedKeeps DEF Break, StreamTimeout
  <2> QED
    BY <1>1, <2>1, ConnectKeeps, PollKeeps, EmitStateKeeps, EmitDoneKeeps, WakeKeeps
<1>2. CASE Next /\ UNCHANGED streamVars
  BY <1>2, DebateStepKeepsStream
<1>3. CASE UNCHANGED vars
  BY <1>3 DEF vars, StreamInv, RowTyped, PerViewer, ViewerInv, ReadIsPast, ShownIsPast, EndsTrue
<1> QED
  BY <1>1, <1>2, <1>3 DEF StreamNext, Next

\* Whatever the debate does meanwhile, all that a generator holds is an earlier
\* state of the row.
THEOREM StreamInvariant == StreamSpec => []StreamInv
<1>1. StreamInit => StreamInv
  BY StreamInitKeeps
<1>2. StreamInv /\ [StreamNext]_vars => StreamInv'
  BY NextKeeps
<1> QED BY <1>1, <1>2, PTL DEF StreamSpec

\* An unchanged fingerprint never hides a changed row.
THEOREM NothingIsHeldBack == StreamSpec => []NothingHeldBack
<1>1. StreamInv => NothingHeldBack
  BY DEF StreamInv, ViewerInv, EndsTrue, NothingHeldBack
<1> QED BY <1>1, StreamInvariant, PTL

\* A stream that ends with "done" on a final row has shown that row, and the
\* row stays as shown.
THEOREM DoneIsAlwaysFinal == StreamSpec => []DoneIsTheFinalRow
<1>1. StreamInv => DoneIsTheFinalRow
  BY DEF StreamInv, ViewerInv, EndsTrue, DoneIsTheFinalRow
<1> QED BY <1>1, StreamInvariant, PTL

\* Within one stream no entry is taken back, no status goes back, no score
\* disappears.
THEOREM EventsMoveForward == StreamSpec => NeverBackwards
<1> DEFINE Forward ==
      \A v \in Viewers :
        shown[v] # None /\ shown'[v] # None =>
          /\ IsPrefix(shown[v].rounds, shown'[v].rounds)
          /\ Rank[shown[v].status] <= Rank[shown'[v].status]
          /\ shown[v].verdict # None => shown'[v].verdict # None
<1>1. ASSUME StreamInv, [StreamNext]_vars PROVE Forward \/ UNCHANGED vars
  <2>1. SUFFICES ASSUME NEW v \in Viewers, shown[v] # None, shown'[v] # None
                 PROVE  Precedes(shown[v], shown'[v])
    BY PrecedesIsPrefix DEF Precedes
  <2>2. Precedes(shown[v], shown[v])
    <3>1. Readable(shown[v])
      BY <1>1, <2>1 DEF StreamInv, ViewerInv, ShownIsPast, Precedes
    <3> QED BY <3>1, PrecedesItself
  <2>3. CASE \E u \in Viewers : EmitState(u)
    <3>1. PICK u \in Viewers : EmitState(u)
      BY <2>3
    <3>2. CASE u = v
      BY <1>1, <2>1, <3>1, <3>2, EmitStateShows
    <3>3. CASE u # v
      <4>1. shown'[v] = shown[v]
        BY <3>1, <3>3, <1>1 DEF EmitState, EmitStateThen, StreamInv, PerViewer
      <4> QED BY <2>2, <4>1
    <3> QED BY <3>2, <3>3
  <2>4. CASE \E u \in Viewers : Connect(u)
    BY <1>1, <2>1, <2>2, <2>4 DEF Connect, StreamInv, PerViewer
  <2>5. CASE UNCHANGED shown
    BY <2>2, <2>5
  <2> QED
    BY <1>1, <2>3, <2>4, <2>5
       DEF StreamNext, Break, Poll, EmitDone, Wake, StreamTimeout, streamVars, vars
<1>2. StreamInv /\ [StreamNext]_vars => [Forward]_vars
  BY <1>1
<1> QED BY <1>2, StreamInvariant, PTL DEF StreamSpec, NeverBackwards

-----------------------------------------------------------------------------
(* The transcripts                                                          *)

Settings == SigningKeys \cup NotAKey

\* What render told of a debate, in the row: all of it, or, in a legacy row, the
\* markdown only.
Told(r) ==
  /\ r.receipt.transcript_md = Markdown(r.rounds, r.verdict, r.confidence)
  /\ \/ /\ r.receipt.rounds_struct = BuildRoundsStruct(r.rounds)
        /\ r.receipt.transcript_hash =
             HashTranscript(r.verdict, r.confidence, BuildRoundsStruct(r.rounds))
     \/ r.receipt.rounds_struct = None /\ r.receipt.transcript_hash = None

\* The row's entries are of one round after another, it is scored between rounds
\* only, and it is done only when its last round is scored and told.
RowWhole ==
  /\ InTurn(record.rounds) /\ Blind(record.rounds)
  /\ \E n \in Nat : record.scored = 2 * n
  /\ record.scored # 0 => record.verdict # None /\ record.confidence # None
  /\ record.status = "done" =>
       /\ record.scored # 0 /\ Len(record.rounds) = record.scored
       /\ Told(record)

\* A receipt once served is the row's, which is done, under the setting that was
\* in force.
JsonIsOfTheRow ==
  Served(json) =>
    /\ record.status = "done"
    /\ json.under \in Settings /\ json.body = ReceiptBody(record, json.under)

\* A public key once served is that of the key that was in force.
PemIsOfTheKey ==
  Served(pem) => pem.body = LoadPrivateKey(pem.under) /\ pem.body # None

\* Markdown once served is the row's.
MdIsOfTheRow ==
  Served(md) => record.status = "done" /\ md.body = record.receipt.transcript_md

RInv ==
  /\ ReceiptTypeOK
  /\ RowTyped
  /\ RowWhole
  /\ JsonIsOfTheRow
  /\ MdIsOfTheRow
  /\ PemIsOfTheKey
  /\ NoVerdictMissing

USE DEF Served

\* The row of a debate not yet asked for, or the one a predecessor left.
LEMMA RowInit ==
  ASSUME ReceiptInit PROVE RowTyped /\ RowWhole
<1> USE NoneIsNoScore DEF Status, Terminal
<1>1. CASE Init
  <2>1. <<>> \in Seq(Entry) /\ InTurn(<<>>) /\ Blind(<<>>) /\ 0 = 2 * 0
    BY DEF InTurn, Blind
  <2> QED  BY <1>1, <2>1 DEF Init, Absent, RowTyped, RowWhole
<1>2. ASSUME NEW v \in Verdicts, NEW c \in Confidences,
             NEW first \in Sides, NEW second \in Sides, first # second,
             record = LegacyRow(first, second, v, c)
      PROVE  RowTyped /\ RowWhole
  <2> DEFINE e(side) == [side |-> side, round |-> 1, argument |-> 0]
             rounds == <<e(first), e(second)>>
             told == Markdown(rounds, v, c)
  <2>1. e(first) \in Entry /\ e(second) \in Entry
    BY DEF Entry
  <2>2. /\ e(first).side = first /\ e(second).side = second
        /\ e(first).round = 1 /\ e(second).round = 1
        /\ e(first).argument = 0 /\ e(second).argument = 0
    OBVIOUS
  <2>3. record = [Absent EXCEPT
                    !.status = "done", !.verdict = v, !.confidence = c, !.rounds = rounds,
                    !.scored = 2, !.receipt.transcript_md = told]
    BY <1>2, Zenon DEF LegacyRow
  <2> HIDE DEF e
  <2>4. /\ rounds \in Seq(Entry) /\ Len(rounds) = 2 /\ DOMAIN rounds = 1..2
        /\ rounds[1] = e(first) /\ rounds[2] = e(second)
    BY <2>1
  <2> HIDE DEF rounds, told
  <2>5. /\ record.status = "done" /\ record.verdict = v /\ record.confidence = c
        /\ record.rounds = rounds /\ record.scored = 2
        /\ record.receipt.rounds_struct = None /\ record.receipt.transcript_hash = None
        /\ record.receipt.transcript_md = told
    BY <2>3 DEF Absent, NoReceipt
  <2>6. record = [status |-> record.status, max_rounds |-> record.max_rounds,
                  verdict |-> record.verdict, confidence |-> record.confidence,
                  rounds |-> record.rounds, scored |-> record.scored,
                  receipt |-> record.receipt]
    BY <2>3 DEF Absent
  <2>7. RowTyped
    BY <2>4, <2>5, <2>6 DEF RowTyped
  <2>8. InTurn(rounds) /\ Blind(rounds)
    <3>1. RoundAt(1) = 1 /\ RoundAt(2) = 1
      BY DEF RoundAt
    <3> QED  BY <1>2, <2>2, <2>4, <3>1 DEF InTurn, Blind
  <2>9. Told(record)
    BY <2>5 DEF Told, told
  <2>10. \E n \in Nat : record.scored = 2 * n
    <3>1. 2 = 2 * 1
      OBVIOUS
    <3> QED  BY <2>5, <3>1
  <2>11. /\ record.verdict # None /\ record.confidence # None
         /\ record.scored # 0 /\ Len(record.rounds) = record.scored
    BY <2>4, <2>5
  <2>12. InTurn(record.rounds) /\ Blind(record.rounds)
    BY <2>5, <2>8
  <2> QED  BY <2>7, <2>9, <2>10, <2>11, <2>12, Zenon DEF RowWhole
<1> QED
  BY <1>1, <1>2 DEF ReceiptInit

\* The debate has no step left once its row is done.
LEMMA DoneIsFinal == ASSUME Next PROVE record.status # "done"
BY DEF Next, Create, Start, Argue, Score, Finish, Fail

\* A side joins the round in progress, or begins the next.
LEMMA ArgueKeepsTurns ==
  ASSUME RowTyped, RowWhole, Argue
  PROVE  InTurn(record.rounds)' /\ Blind(record.rounds)'
<1> DEFINE n == Len(record.rounds)
<1>1. PICK side \in Sides :
        /\ \A i \in DOMAIN record.rounds :
             record.rounds[i].round = NewEntry(side).round => record.rounds[i].side # side
        /\ record' = [record EXCEPT !.rounds = Append(@, NewEntry(side))]
  BY DEF Argue
<1> DEFINE e == NewEntry(side)
<1>2. n \in Nat /\ DOMAIN record.rounds = 1..n
  BY LenProperties DEF RowTyped
<1>3. e = [side |-> side, round |-> n \div 2 + 1, argument |-> 2 * ((n \div 2 + 1) - 1)]
  BY DEF NewEntry
<1>4. /\ record'.rounds = Append(record.rounds, e)
      /\ \A i \in 1..n : record.rounds[i].round = e.round => record.rounds[i].side # side
  BY <1>1, <1>2 DEF RowTyped
<1>5. RoundAt(n + 1) = n \div 2 + 1
  <2> HIDE DEF n
  <2>1. (n + 2) \div 2 = n \div 2 + 1
    BY <1>2
  <2> QED  BY <1>2, <2>1 DEF RoundAt
<1> HIDE DEF e
<1>6. e.side = side /\ e.round = RoundAt(n + 1) /\ e.argument = 2 * (e.round - 1)
  BY <1>3, <1>5
<1>7. /\ DOMAIN record'.rounds = 1..(n + 1) /\ record'.rounds[n + 1] = e
      /\ \A i \in 1..n : record'.rounds[i] = record.rounds[i]
  <2>1. record.rounds \in Seq(Entry)
    BY DEF RowTyped
  <2> QED  BY <1>2, <1>4, <2>1
<1>8. \A i \in 1..(n + 1) : i \in 1..n \/ i = n + 1
  BY <1>2
<1>9. \A i \in 1..n : i # n + 1
  BY <1>2
<1> HIDE DEF n
<1>10. InTurn(record.rounds) /\ Blind(record.rounds)
  BY DEF RowWhole
<1>11. \A i, j \in 1..(n + 1) : i # j /\ record'.rounds[i].round = record'.rounds[j].round
         => record'.rounds[i].side # record'.rounds[j].side
  <2> SUFFICES ASSUME NEW i \in 1..(n + 1), NEW j \in 1..(n + 1), i # j,
                      record'.rounds[i].round = record'.rounds[j].round
               PROVE  record'.rounds[i].side # record'.rounds[j].side
    OBVIOUS
  <2>1. CASE i \in 1..n /\ j \in 1..n
    BY <1>2, <1>7, <1>10, <2>1 DEF InTurn
  <2>2. CASE i = n + 1 /\ j \in 1..n
    BY <1>4, <1>6, <1>7, <2>2
  <2>3. CASE j = n + 1 /\ i \in 1..n
    BY <1>4, <1>6, <1>7, <2>3
  <2> QED  BY <1>8, <2>1, <2>2, <2>3
<1>12. \A i \in 1..(n + 1) :
         /\ record'.rounds[i].side \in Sides /\ record'.rounds[i].round = RoundAt(i)
         /\ record'.rounds[i].argument = 2 * (record'.rounds[i].round - 1)
  BY <1>2, <1>6, <1>7, <1>8, <1>10 DEF InTurn, Blind
<1> QED  BY <1>7, <1>11, <1>12 DEF InTurn, Blind

\* A step of the debate keeps the rounds whole, scored and told in that order.
LEMMA WholeStep ==
  ASSUME RowTyped, RowWhole, Next
  PROVE  RowTyped' /\ RowWhole'
<1> USE NoneIsNoScore
<1>1. RowTyped'
  BY RowStep
<1>2. CASE Create
  <2>1. PICK m \in RoundLimits :
          record' = [Absent EXCEPT !.status = "pending", !.max_rounds = m]
    BY <1>2 DEF Create
  <2>2. record'.rounds = <<>> /\ record'.scored = 0 /\ record'.status = "pending"
    BY <2>1 DEF Absent
  <2>3. InTurn(<<>>) /\ Blind(<<>>) /\ 0 = 2 * 0
    BY DEF InTurn, Blind
  <2> QED  BY <1>1, <2>2, <2>3 DEF RowWhole
<1>3. CASE Start \/ Fail
  <2>1. /\ record'.rounds = record.rounds /\ record'.scored = record.scored
        /\ record'.verdict = record.verdict /\ record'.confidence = record.confidence
        /\ record'.status \in {"running", "error"}
    BY <1>3 DEF Start, Fail, RowTyped
  <2> QED  BY <1>1, <2>1 DEF RowWhole
<1>4. CASE Argue
  <2>1. /\ record'.scored = record.scored /\ record'.verdict = record.verdict
        /\ record'.confidence = record.confidence /\ record'.status = "running"
    BY <1>4 DEF Argue, RowTyped
  <2>2. InTurn(record.rounds)' /\ Blind(record.rounds)'
    BY <1>4, ArgueKeepsTurns
  <2> QED  BY <1>1, <2>1, <2>2 DEF RowWhole
<1>5. CASE Score
  <2>1. /\ record'.rounds = record.rounds /\ record'.scored = Len(record.rounds)
        /\ record'.verdict \in Verdicts /\ record'.confidence \in Confidences
        /\ record'.status = "running" /\ Len(record.rounds) % 2 = 0
    BY <1>5 DEF Score, RoundsWhole, RowTyped
  <2>2. \E n \in Nat : Len(record.rounds) = 2 * n
    <3> DEFINE l == Len(record.rounds)
    <3>1. l \in Nat /\ l % 2 = 0
      BY <2>1, LenProperties DEF RowTyped
    <3> HIDE DEF l
    <3>2. l \div 2 \in Nat /\ l = 2 * (l \div 2)
      BY <3>1
    <3> QED  BY <3>2 DEF l
  <2> QED  BY <1>1, <2>1, <2>2 DEF RowWhole
<1>6. CASE Finish
  <2> DEFINE receipt == Receipt(record.rounds, record.verdict, record.confidence)
  <2>1. /\ record' = [record EXCEPT !.status = "done", !.receipt = receipt]
        /\ record.scored = Len(record.rounds) /\ record.rounds # <<>>
    BY <1>6 DEF Finish, Settled
  <2>2. record.scored # 0 /\ record.verdict # None /\ record.confidence # None
    BY <2>1 DEF RowTyped, RowWhole
  <2>3. /\ receipt.rounds_struct = BuildRoundsStruct(record.rounds)
        /\ receipt.transcript_hash =
             HashTranscript(record.verdict, record.confidence, BuildRoundsStruct(record.rounds))
        /\ receipt.transcript_md = Markdown(record.rounds, record.verdict, record.confidence)
    BY <2>2 DEF Receipt
  <2> HIDE DEF receipt
  <2>4. /\ record'.rounds = record.rounds /\ record'.scored = record.scored
        /\ record'.verdict = record.verdict /\ record'.confidence = record.confidence
        /\ record'.receipt = receipt
    BY <2>1 DEF RowTyped
  <2>5. Told(record')
    BY <2>3, <2>4 DEF Told
  <2> QED  BY <1>1, <2>1, <2>2, <2>4, <2>5 DEF RowWhole
<1> QED
  BY <1>1, <1>2, <1>3, <1>4, <1>5, <1>6 DEF Next

-----------------------------------------------------------------------------
(* The answers                                                              *)

\* A receipt is signed with the setting it is given under, if that is a key, and
\* verifies for what it shows with that key and no other.
LEMMA KeyVerifies ==
  ASSUME NEW r, NEW s \in Settings
  PROVE  LET body == ReceiptBody(r, s)
         IN IF s \in SigningKeys
            THEN \A key \in SigningKeys :
                   Verifies(Rebuilt(body), body.signature, key) <=> s = key
            ELSE body.signature = None
<1> DEFINE confidence == IF r.confidence # None THEN r.confidence ELSE 0
           canonical == HashTranscript(r.verdict, confidence, CoerceRounds(r))
           stored == r.receipt.transcript_hash
           hash == IF stored # None THEN stored ELSE canonical
           body == ReceiptBody(r, s)
<1>1. body = [verdict |-> r.verdict, confidence |-> confidence,
              rounds |-> CoerceRounds(r), transcript_hash |-> hash,
              signature |-> SignTranscript(s, canonical)]
  BY DEF ReceiptBody
<1> HIDE DEF body, confidence, hash
<1>2. Rebuilt(body) = canonical
  BY <1>1 DEF Rebuilt
<1> HIDE DEF canonical
<1>3. body.signature = SignTranscript(s, canonical)
  BY <1>1
<1>4. CASE s \notin SigningKeys
  BY <1>3, <1>4 DEF SignTranscript, LoadPrivateKey, body
<1>5. CASE s \in SigningKeys
  <2>1. LoadPrivateKey(s) = s /\ s # None
    BY <1>5, KeysAreKeys DEF LoadPrivateKey
  <2>2. body.signature = [key |-> s, signed |-> canonical]
    BY <1>3, <2>1 DEF SignTranscript
  <2>3. \A key \in SigningKeys : Verifies(canonical, body.signature, key) <=> s = key
    BY <2>2 DEF Verifies
  <2> QED
    BY <1>2, <1>5, <2>3 DEF body
<1> QED
  BY <1>4, <1>5

-----------------------------------------------------------------------------
(* The invariant                                                            *)

LEMMA InitEstablishes == ASSUME ReceiptInit PROVE RInv
<1>1. RowTyped /\ RowWhole
  BY RowInit
<1> QED
  BY <1>1, SomeDeploys
  DEF ReceiptInit, NotAsked, RInv, ReceiptTypeOK, RowTyped, Status, Terminal, JsonIsOfTheRow,
      MdIsOfTheRow, PemIsOfTheKey, NoVerdictMissing

\* The debate moves on: no receipt can have been served of a row that moves.
LEMMA DebateStepKeeps == ASSUME RInv, DebateStep PROVE RInv'
<1>1. RowTyped' /\ RowWhole'
  BY WholeStep DEF DebateStep, RInv
<1>2. ~Served(json) /\ ~Served(md)
  BY DoneIsFinal DEF DebateStep, RInv, JsonIsOfTheRow, MdIsOfTheRow
<1> QED
  BY <1>1, <1>2
  DEF DebateStep, RInv, ReceiptTypeOK, RowTyped, Status, Terminal, JsonIsOfTheRow,
      MdIsOfTheRow, PemIsOfTheKey, NoVerdictMissing

\* A redeployment: what was answered keeps the setting it was answered under.
LEMMA DeployKeeps == ASSUME RInv, Deploy PROVE RInv'
<1>1. ReceiptTypeOK'
  BY SomeDeploys DEF RInv, ReceiptTypeOK, Deploy
<1>2. JsonIsOfTheRow' /\ MdIsOfTheRow' /\ PemIsOfTheKey'
  BY DEF RInv, JsonIsOfTheRow, MdIsOfTheRow, PemIsOfTheKey, Deploy
<1>3. RowTyped' /\ RowWhole' /\ NoVerdictMissing'
  BY DEF RInv, Deploy, RowTyped, RowWhole, NoVerdictMissing
<1> QED
  BY <1>1, <1>2, <1>3 DEF RInv

\* What GET transcript.json answers on a typed row with a verdict when done.
LEMMA JsonAnswers ==
  ASSUME RInv
  PROVE  /\ JsonAnswer.code \in {200, 404, 409}
         /\ JsonAnswer.under = signing_key
         /\ record.status = "done" <=> JsonAnswer.code = 200
         /\ record.status = "done" => JsonAnswer.body = ReceiptBody(record, signing_key)
<1>1. record.status = "done" => record.verdict # None
  BY DEF RInv, RowTyped, RowWhole
<1>2. CASE record.status = "absent"
  BY <1>2 DEF JsonAnswer, Answer
<1>3. CASE record.status \notin {"absent", "done"}
  BY <1>3 DEF JsonAnswer, Answer
<1>4. CASE record.status = "done"
  BY <1>1, <1>4 DEF JsonAnswer, Answer
<1> QED
  BY <1>2, <1>3, <1>4

LEMMA GetTranscriptJsonKeeps == ASSUME RInv, GetTranscriptJson PROVE RInv'
<1>1. /\ json' = JsonAnswer
      /\ UNCHANGED <<record, signing_key, deploys, md, pem>>
  BY DEF GetTranscriptJson
<1>2. ReceiptTypeOK'
  BY <1>1, JsonAnswers, SomeDeploys DEF RInv, ReceiptTypeOK
<1>3. JsonIsOfTheRow'
  BY <1>1, JsonAnswers DEF RInv, ReceiptTypeOK, JsonIsOfTheRow, Settings
<1>4. NoVerdictMissing'
  BY <1>1, JsonAnswers DEF NoVerdictMissing
<1>5. RowTyped' /\ RowWhole' /\ PemIsOfTheKey' /\ MdIsOfTheRow'
  BY <1>1 DEF RInv, RowTyped, RowWhole, PemIsOfTheKey, MdIsOfTheRow
<1> QED
  BY <1>2, <1>3, <1>4, <1>5 DEF RInv

LEMMA GetTranscriptKeeps == ASSUME RInv, GetTranscript PROVE RInv'
<1>1. /\ md'.code \in {200, 404, 409} /\ md'.under = signing_key
      /\ md'.code = 200 => record.status = "done" /\ md'.body = record.receipt.transcript_md
  <2>1. CASE record.status = "absent"
    BY <2>1 DEF GetTranscript, Answer
  <2>2. CASE record.status \notin {"absent", "done"}
    BY <2>2 DEF GetTranscript, Answer
  <2>3. CASE record.status = "done" /\ record.receipt.transcript_md = None
    BY <2>3 DEF GetTranscript, Answer
  <2>4. CASE record.status = "done" /\ record.receipt.transcript_md # None
    BY <2>4 DEF GetTranscript, Answer
  <2> QED
    BY <2>1, <2>2, <2>3, <2>4
<1>2. UNCHANGED <<record, signing_key, deploys, json, pem>>
  BY DEF GetTranscript
<1>3. ReceiptTypeOK'
  BY <1>1, <1>2, SomeDeploys DEF RInv, ReceiptTypeOK
<1>4. MdIsOfTheRow'
  BY <1>1, <1>2 DEF MdIsOfTheRow
<1> QED
  BY <1>2, <1>3, <1>4 DEF RInv, RowTyped, RowWhole, JsonIsOfTheRow,
      PemIsOfTheKey, NoVerdictMissing

LEMMA ReceiptPublicKeyKeeps == ASSUME RInv, ReceiptPublicKey PROVE RInv'
<1> DEFINE key == LoadPrivateKey(signing_key)
<1>1. /\ pem' = [code |-> IF key = None THEN 404 ELSE 200, body |-> key, under |-> signing_key]
      /\ UNCHANGED <<record, signing_key, deploys, json, md>>
  BY DEF ReceiptPublicKey, Answer
<1>2. key \in SigningKeys \cup {None}
  BY DEF LoadPrivateKey
<1> HIDE DEF key
<1>3. ReceiptTypeOK'
  BY <1>1, <1>2, SomeDeploys DEF RInv, ReceiptTypeOK
<1>4. PemIsOfTheKey'
  BY <1>1 DEF PemIsOfTheKey, key
<1>5. RowTyped' /\ RowWhole' /\ JsonIsOfTheRow' /\ MdIsOfTheRow' /\ NoVerdictMissing'
  BY <1>1 DEF RInv, RowTyped, RowWhole, JsonIsOfTheRow, MdIsOfTheRow, NoVerdictMissing
<1> QED
  BY <1>3, <1>4, <1>5 DEF RInv

LEMMA StutterKeeps == ASSUME RInv, UNCHANGED receiptVars PROVE RInv'
BY DEF receiptVars, RInv, ReceiptTypeOK, RowTyped, RowWhole, JsonIsOfTheRow,
       MdIsOfTheRow, PemIsOfTheKey, NoVerdictMissing

-----------------------------------------------------------------------------
(* The theorems                                                             *)

\* The inductive invariant: every answer held is traced to the row and to the
\* setting of the deployment that gave it.
THEOREM ReceiptInvariant == ReceiptSpec => []RInv
<1>1. RInv /\ [ReceiptNext]_receiptVars => RInv'
  BY DebateStepKeeps, DeployKeeps, GetTranscriptJsonKeeps, GetTranscriptKeeps,
     ReceiptPublicKeyKeeps, StutterKeeps DEF ReceiptNext
<1> QED
  BY InitEstablishes, <1>1, PTL DEF ReceiptSpec

\* A receipt and a public key verify if and only if one key was in force for
\* both requests, whatever happened in between: the README's recipe for
\* verifying a debate.
THEOREM ReceiptsVerify == ReceiptSpec => []ReceiptVerifies
<1>1. RInv => ReceiptVerifies
  <2> SUFFICES ASSUME RInv, Served(json)
               PROVE  IF json.under \in SigningKeys
                      THEN Served(pem) =>
                             (Verifies(Rebuilt(json.body), json.body.signature, pem.body)
                                <=> json.under = pem.under)
                      ELSE json.body.signature = None
    BY DEF ReceiptVerifies
  <2>1. json.under \in Settings /\ json.body = ReceiptBody(record, json.under)
    BY DEF RInv, JsonIsOfTheRow
  <2>2. Served(pem) => pem.body = pem.under /\ pem.body \in SigningKeys
    BY DEF RInv, PemIsOfTheKey, LoadPrivateKey
  <2> QED
    BY <2>1, <2>2, KeyVerifies
<1> QED
  BY <1>1, ReceiptInvariant, PTL

\* The 500 of transcript.json, "done" without a verdict, is out of reach.
THEOREM VerdictNeverMissing == ReceiptSpec => []NoVerdictMissing
<1>1. RInv => NoVerdictMissing
  BY DEF RInv
<1> QED
  BY <1>1, ReceiptInvariant, PTL

\* Two receipts of one row differ at most in the signature.
LEMMA SettingOnlySigns ==
  ASSUME NEW r, NEW s, NEW t,
         NEW field \in {"verdict", "confidence", "rounds", "transcript_hash"}
  PROVE  ReceiptBody(r, s)[field] = ReceiptBody(r, t)[field]
BY DEF ReceiptBody

\* A receipt once served is served for ever with the same verdict, rounds and
\* hash, across redeployments and changes of the key.
THEOREM ReceiptsNeverChange == ReceiptSpec => ReceiptNeverChanges
<1> DEFINE Same == Served(json) =>
       /\ Served(json')
       /\ \A field \in {"verdict", "confidence", "rounds", "transcript_hash"} :
            json'.body[field] = json.body[field]
<1>1. RInv /\ [ReceiptNext]_receiptVars => [Same]_receiptVars
  <2> SUFFICES ASSUME RInv, ReceiptNext PROVE Same
    OBVIOUS
  <2>1. CASE GetTranscriptJson
    <3> SUFFICES ASSUME Served(json) PROVE Same
      OBVIOUS
    <3>1. record.status = "done" /\ json.body = ReceiptBody(record, json.under)
      BY DEF RInv, JsonIsOfTheRow
    <3>2. Served(json') /\ json'.body = ReceiptBody(record, signing_key)
      BY <2>1, <3>1, JsonAnswers DEF GetTranscriptJson
    <3> QED
      BY <3>1, <3>2, SettingOnlySigns
  <2>2. CASE UNCHANGED json
    BY <2>2
  <2> QED
    BY <2>1, <2>2 DEF ReceiptNext, DebateStep, Deploy, GetTranscript, ReceiptPublicKey
<1> QED
  BY <1>1, ReceiptInvariant, PTL DEF ReceiptSpec, ReceiptNeverChanges

-----------------------------------------------------------------------------
(* What the transcripts tell                                                *)

\* The rounds of whole debates, typed or not: as many as 2 * n, in turn, each
\* written on the earlier rounds.
Whole(rounds, n) == DOMAIN rounds = 1..(2 * n) /\ InTurn(rounds) /\ Blind(rounds)

\* Two lists of entries show the same.
SameShown(a, b) ==
  /\ DOMAIN a = DOMAIN b
  /\ \A i \in DOMAIN b :
       a[i].side = b[i].side /\ a[i].round = b[i].round /\ a[i].argument = b[i].argument

\* The coercion keeps what the model shows of a persisted entry.
LEMMA TypedShowsTheSame ==
  ASSUME NEW e \in Entry
  PROVE  /\ TypedRound(e).side = e.side /\ TypedRound(e).round = e.round
         /\ TypedRound(e).argument = e.argument
<1>1. e.side \in Sides /\ e.round \in Nat \ {0}
  BY DEF Entry
<1> QED  BY <1>1 DEF TypedRound

\* Rounds in turn stay so when they are shown the same.
LEMMA SameShownWhole ==
  ASSUME NEW n, NEW a, NEW b, Whole(b, n), SameShown(a, b)
  PROVE  Whole(a, n)
BY DEF Whole, SameShown, InTurn, Blind

\* The ordering of whole rounds is whole.
LEMMA StructWhole ==
  ASSUME NEW n \in Nat, NEW rounds \in Seq(Entry), Whole(rounds, n)
  PROVE  /\ BuildRoundsStruct(rounds) \in Seq(Entry)
         /\ Whole(BuildRoundsStruct(rounds), n)
<1>1. Len(rounds) = 2 * n
  BY DEF Whole
<1>2. BuildRoundsStruct(rounds) = InOrder(n)
  BY <1>1, StructOfBlindRounds DEF Whole
<1>3. /\ InOrder(n) \in Seq(Entry) /\ Len(InOrder(n)) = 2 * n
      /\ InTurn(InOrder(n)) /\ Blind(InOrder(n))
  BY InOrderIsInTurn
<1>4. DOMAIN InOrder(n) = 1..(2 * n)
  BY DEF InOrder
<1> QED  BY <1>2, <1>3, <1>4 DEF Whole

\* A list of entries, coerced, shows the same.
LEMMA CoercedShowsTheSame ==
  ASSUME NEW src \in Seq(Entry)
  PROVE  SameShown([i \in DOMAIN src |-> TypedRound(src[i])], src)
<1> DEFINE typed == [i \in DOMAIN src |-> TypedRound(src[i])]
<1>1. \A i \in DOMAIN src : src[i] \in Entry
  OBVIOUS
<1>2. \A i \in DOMAIN src : typed[i] = TypedRound(src[i])
  OBVIOUS
<1>3. DOMAIN typed = DOMAIN src
  OBVIOUS
<1> HIDE DEF typed
<1>4. \A i \in DOMAIN src :
        typed[i].side = src[i].side /\ typed[i].round = src[i].round
        /\ typed[i].argument = src[i].argument
  BY <1>1, <1>2, TypedShowsTheSame
<1> QED  BY <1>3, <1>4 DEF SameShown, typed

\* A done row: its verdict and its score are there, its rounds are whole, and a
\* stored structure is told by the markdown and by the stored hash.
LEMMA DoneRow ==
  ASSUME RInv, record.status = "done"
  PROVE  /\ record.verdict # None /\ record.confidence # None
         /\ record.rounds \in Seq(Entry)
         /\ \E n \in Nat : Whole(record.rounds, n)
         /\ Told(record)
<1>1. /\ record.scored # 0 /\ Len(record.rounds) = record.scored
      /\ record.verdict # None /\ record.confidence # None /\ Told(record)
      /\ InTurn(record.rounds) /\ Blind(record.rounds)
      /\ record.rounds \in Seq(Entry)
  BY DEF RInv, RowTyped, RowWhole
<1>2. PICK n \in Nat : record.scored = 2 * n
  BY DEF RInv, RowWhole
<1>3. DOMAIN record.rounds = 1..(2 * n)
  BY <1>1, <1>2
<1> QED  BY <1>1, <1>3 DEF Whole

\* The body of a receipt: the row's verdict and score, the coerced rounds, and a
\* hash of these or of the structure they were coerced from.
LEMMA BodyOfDone ==
  ASSUME RInv, record.status = "done", NEW s
  PROVE  LET body == ReceiptBody(record, s)
         IN /\ body.verdict = record.verdict /\ body.confidence = record.confidence
            /\ \E n \in Nat : Whole(body.rounds, n) /\ Whole(record.rounds, n)
            /\ body.transcript_hash.verdict = record.verdict
            /\ body.transcript_hash.confidence = record.confidence
            /\ SameShown(body.transcript_hash.rounds, body.rounds)
<1> DEFINE body == ReceiptBody(record, s)
           struct == BuildRoundsStruct(record.rounds)
           typed == CoerceRounds(record)
<1>1. /\ record.confidence # None /\ record.rounds \in Seq(Entry) /\ Told(record)
  BY DoneRow
<1>2. PICK n \in Nat : Whole(record.rounds, n)
  BY DoneRow
<1>3. struct \in Seq(Entry) /\ Whole(struct, n)
  BY <1>1, <1>2, StructWhole
<1>4. body = [verdict |-> record.verdict, confidence |-> record.confidence, rounds |-> typed,
              transcript_hash |->
                IF record.receipt.transcript_hash # None THEN record.receipt.transcript_hash
                ELSE HashTranscript(record.verdict, record.confidence, typed),
              signature |->
                SignTranscript(s, HashTranscript(record.verdict, record.confidence, typed))]
  BY <1>1 DEF ReceiptBody
<1> DEFINE src == IF record.receipt.rounds_struct # None THEN record.receipt.rounds_struct
                                                         ELSE record.rounds
<1>5. typed = [i \in DOMAIN src |-> TypedRound(src[i])]
  BY DEF CoerceRounds
<1> HIDE DEF struct, typed, body
<1>6. /\ src \in Seq(Entry) /\ Whole(src, n)
      /\ record.receipt.transcript_hash # None => src = struct
  BY <1>1, <1>2, <1>3, NoneIsNoStruct DEF Told, struct
<1>7. record.receipt.transcript_hash # None =>
        record.receipt.transcript_hash =
          HashTranscript(record.verdict, record.confidence, struct)
  BY <1>1 DEF Told, struct
<1> HIDE DEF src
<1>8. SameShown(typed, src)
  BY <1>5, <1>6, CoercedShowsTheSame
<1>9. Whole(typed, n)
  BY <1>6, <1>8, SameShownWhole
<1>10. \E rounds \in {typed, src} :
         body.transcript_hash = HashTranscript(record.verdict, record.confidence, rounds)
  BY <1>4, <1>6, <1>7
<1>11. SameShown(typed, typed) /\ SameShown(src, typed)
  BY <1>8 DEF SameShown
<1>12. /\ body.transcript_hash.verdict = record.verdict
       /\ body.transcript_hash.confidence = record.confidence
       /\ body.transcript_hash.rounds \in {typed, src}
  BY <1>10 DEF HashTranscript
<1>13. body.verdict = record.verdict /\ body.confidence = record.confidence
       /\ body.rounds = typed
  BY <1>4
<1> QED  BY <1>2, <1>9, <1>11, <1>12, <1>13 DEF body

\* A receipt's hash is of what the receipt shows, for a row of any number of
\* rounds, whether render stored the hash or the endpoint computed it.
THEOREM HashesCover == ReceiptSpec => []HashCoversWhatIsShown
<1>1. RInv => HashCoversWhatIsShown
  <2> SUFFICES ASSUME RInv, Served(json) PROVE HashCoversWhatIsShown
    BY DEF HashCoversWhatIsShown
  <2>1. record.status = "done" /\ json.body = ReceiptBody(record, json.under)
    BY DEF RInv, JsonIsOfTheRow
  <2>2. /\ json.body.verdict = record.verdict /\ json.body.confidence = record.confidence
        /\ json.body.transcript_hash.verdict = record.verdict
        /\ json.body.transcript_hash.confidence = record.confidence
        /\ SameShown(json.body.transcript_hash.rounds, json.body.rounds)
    BY <2>1, BodyOfDone
  <2> QED  BY <2>2 DEF HashCoversWhatIsShown, SameShown
<1> QED  BY <1>1, ReceiptInvariant, PTL

\* Of whole rounds, each has an entry of each side.
LEMMA EachSideArgued ==
  ASSUME NEW n \in Nat, NEW rounds, Whole(rounds, n), NEW k \in 1..n, NEW side \in Sides
  PROVE  \E i \in 1..(2 * n) : rounds[i].round = k /\ rounds[i].side = side
<1>1. DOMAIN rounds = 1..(2 * n) /\ InTurn(rounds)
  BY DEF Whole
<1>2. OfRound(rounds, k) = {2 * k - 1, 2 * k}
  BY <1>1, RoundsAre
<1>3. /\ 2 * k - 1 \in 1..(2 * n) /\ 2 * k \in 1..(2 * n) /\ 2 * k - 1 # 2 * k
      /\ rounds[2 * k - 1].round = k /\ rounds[2 * k].round = k
  BY <1>1, <1>2 DEF OfRound
<1>4. /\ rounds[2 * k - 1].side \in Sides /\ rounds[2 * k].side \in Sides
      /\ rounds[2 * k - 1].side # rounds[2 * k].side
  BY <1>1, <1>3 DEF InTurn
<1> QED  BY <1>3, <1>4 DEF Sides

\* The markdown and the receipt of a debate tell the same verdict and the same
\* rounds, though render groups the one by round and sorts the other as a whole,
\* and also when the receipt of a legacy row lists them in the order the sides
\* finished in.
THEOREM TranscriptsAgree == ReceiptSpec => []MarkdownTellsTheSame
<1>1. RInv => MarkdownTellsTheSame
  <2> SUFFICES ASSUME RInv, Served(json), Served(md) PROVE MarkdownTellsTheSame
    BY DEF MarkdownTellsTheSame
  <2>1. record.status = "done" /\ json.body = ReceiptBody(record, json.under)
    BY DEF RInv, JsonIsOfTheRow
  <2>2. PICK n \in Nat : Whole(json.body.rounds, n) /\ Whole(record.rounds, n)
    BY <2>1, BodyOfDone
  <2>3. json.body.verdict = record.verdict /\ json.body.confidence = record.confidence
    BY <2>1, BodyOfDone
  <2>4. md.body = Markdown(record.rounds, record.verdict, record.confidence)
    BY <2>1, DoneRow DEF RInv, MdIsOfTheRow, Told
  <2>5. md.body = [sections |-> [k \in 1..n |-> SectionInOrder(k)],
                   verdict |-> record.verdict, confidence |-> record.confidence]
    BY <2>2, <2>4, MarkdownOfBlindRounds DEF Whole
  <2>6. /\ md.body.verdict = record.verdict /\ md.body.confidence = record.confidence
        /\ DOMAIN md.body.sections = 1..n
        /\ \A k \in 1..n : md.body.sections[k] = SectionInOrder(k)
    BY <2>5
  <2> DEFINE sideOf(j) == IF j = 1 THEN "proponent" ELSE "skeptic"
             lineOf(k, j) == [round |-> k, side |-> sideOf(j), argument |-> 2 * (k - 1)]
             rounds == json.body.rounds
             entryOf(i) == [round |-> rounds[i].round, side |-> rounds[i].side,
                            argument |-> rounds[i].argument]
  <2>7. \A k \in 1..n : /\ DOMAIN md.body.sections[k].entries = 1..2
                        /\ \A j \in 1..2 : Line(<<k, j>>) = lineOf(k, j)
    <3> SUFFICES ASSUME NEW k \in 1..n
                 PROVE  /\ DOMAIN md.body.sections[k].entries = 1..2
                        /\ \A j \in 1..2 : Line(<<k, j>>) = lineOf(k, j)
      OBVIOUS
    <3> DEFINE section == SectionInOrder(k)
    <3>1. md.body.sections[k] = section
      BY <2>6
    <3>2. /\ section.round = k /\ DOMAIN section.entries = 1..2
          /\ \A j \in 1..2 : /\ section.entries[j].side = sideOf(j)
                             /\ section.entries[j].argument = 2 * (k - 1)
      BY DEF SectionInOrder
    <3> HIDE DEF section, sideOf
    <3>3. \A j \in 1..2 :
            Line(<<k, j>>) = [round |-> section.round, side |-> section.entries[j].side,
                              argument |-> section.entries[j].argument]
      BY <3>1 DEF Line
    <3>4. \A j \in 1..2 : Line(<<k, j>>) = lineOf(k, j)
      BY <3>2, <3>3
    <3> QED  BY <3>1, <3>2, <3>4
  <2>8. Listed = UNION {{k} \X (1..2) : k \in 1..n}
    <3> DEFINE places(k) == {k} \X DOMAIN md.body.sections[k].entries
    <3>1. \A k \in 1..n : places(k) = {k} \X (1..2)
      BY <2>7
    <3>2. Listed = UNION {places(k) : k \in 1..n}
      BY <2>6 DEF Listed
    <3> HIDE DEF places
    <3> QED  BY <3>1, <3>2
  <2>9. ASSUME NEW p \in Listed
        PROVE  \E k \in 1..n, j \in 1..2 : p = <<k, j>> /\ Line(p) = lineOf(k, j)
    <3>1. PICK k \in 1..n : p \in {k} \X (1..2)
      BY <2>8
    <3>2. PICK j \in 1..2 : p = <<k, j>>
      BY <3>1
    <3> HIDE DEF lineOf
    <3> QED  BY <2>7, <3>2
  <2>10. \A k \in 1..n, j \in 1..2 : <<k, j>> \in Listed
    BY <2>8
  <2>11. /\ DOMAIN rounds = 1..(2 * n)
         /\ \A i \in 1..(2 * n) :
              /\ rounds[i].side \in Sides /\ rounds[i].round \in 1..n
              /\ rounds[i].argument = 2 * (rounds[i].round - 1)
    <3>1. DOMAIN rounds = 1..(2 * n) /\ InTurn(rounds) /\ Blind(rounds)
      BY <2>2 DEF Whole
    <3> HIDE DEF rounds
    <3>2. \A i \in 1..(2 * n) : RoundAt(i) \in 1..n
      BY TwoPlaces
    <3>3. \A i \in 1..(2 * n) : rounds[i].side \in Sides /\ rounds[i].round = RoundAt(i)
      BY <3>1 DEF InTurn
    <3>4. \A i \in 1..(2 * n) : rounds[i].argument = 2 * (rounds[i].round - 1)
      BY <3>1 DEF Blind
    <3> QED  BY <3>1, <3>2, <3>3, <3>4
  <2>12. \A k \in 1..n, j \in 1..2 : \E i \in 1..(2 * n) : entryOf(i) = lineOf(k, j)
    <3> SUFFICES ASSUME NEW k \in 1..n, NEW j \in 1..2
                 PROVE  \E i \in 1..(2 * n) : entryOf(i) = lineOf(k, j)
      OBVIOUS
    <3>1. PICK i \in 1..(2 * n) : rounds[i].round = k /\ rounds[i].side = sideOf(j)
      BY <2>2, EachSideArgued DEF Sides
    <3> QED  BY <2>11, <3>1
  <2>13. \A i \in 1..(2 * n) : \E k \in 1..n, j \in 1..2 : entryOf(i) = lineOf(k, j)
    <3> SUFFICES ASSUME NEW i \in 1..(2 * n)
                 PROVE  \E k \in 1..n, j \in 1..2 : entryOf(i) = lineOf(k, j)
      OBVIOUS
    <3> HIDE DEF rounds
    <3>1. \E j \in 1..2 : rounds[i].side = sideOf(j)
      BY <2>11 DEF Sides
    <3>2. PICK j \in 1..2 : rounds[i].side = sideOf(j)
      BY <3>1
    <3>3. entryOf(i) = lineOf(rounds[i].round, j) /\ rounds[i].round \in 1..n
      BY <2>11, <3>2
    <3> QED  BY <3>3
  <2>14. \A p, q \in Listed :
           p[1] < q[1] \/ (p[1] = q[1] /\ p[2] < q[2]) => Earlier(Line(p), Line(q))
    <3> SUFFICES ASSUME NEW p \in Listed, NEW q \in Listed,
                        p[1] < q[1] \/ (p[1] = q[1] /\ p[2] < q[2])
                 PROVE  Earlier(Line(p), Line(q))
      OBVIOUS
    <3>1. PICK k \in 1..n, j \in 1..2 : p = <<k, j>> /\ Line(p) = lineOf(k, j)
      BY <2>9
    <3>2. PICK l \in 1..n, m \in 1..2 : q = <<l, m>> /\ Line(q) = lineOf(l, m)
      BY <2>9
    <3>3. k < l \/ (k = l /\ j = 1 /\ m = 2)
      BY <3>1, <3>2
    <3> QED  BY <3>1, <3>2, <3>3 DEF Earlier
  <2> HIDE DEF lineOf, rounds, entryOf
  <2>15. {Line(p) : p \in Listed} = {entryOf(i) : i \in DOMAIN rounds}
    <3>1. \A p \in Listed : \E i \in 1..(2 * n) : Line(p) = entryOf(i)
      BY <2>9, <2>12
    <3>2. \A i \in 1..(2 * n) : \E p \in Listed : Line(p) = entryOf(i)
      BY <2>7, <2>10, <2>13
    <3>3. DOMAIN rounds = 1..(2 * n)
      BY <2>11
    <3> QED  BY <3>1, <3>2, <3>3
  <2> QED  BY <2>3, <2>6, <2>14, <2>15 DEF MarkdownTellsTheSame, entryOf, rounds
<1> QED  BY <1>1, ReceiptInvariant, PTL

-----------------------------------------------------------------------------
(* The listing.  What makes its two safety properties inductive is Passed:  *)
(* whatever the walk has returned is at the cursor or newer, and nothing is *)
(* returned before the first cursor.                                        *)

Passed ==
  /\ walk = "idle" \/ (walk = "walking" /\ cursor = NoCursor) =>
       page = {} /\ returned = {}
  /\ walk = "idle" => cursor = NoCursor
  /\ walk = "walking" /\ cursor # NoCursor =>
       \A x \in page \cup returned : x = cursor \/ Older(cursor, x)

ListingInv == ListingTypeOK /\ Passed /\ NewestFirst /\ NothingSkipped

\* The order of the list is transitive.
LEMMA OlderTransitive ==
  ASSUME NEW a \in Debates, NEW b \in Debates, NEW c \in Debates,
         Older(a, b), Older(b, c)
  PROVE  Older(a, c)
<1>1. /\ a.created_at \in Nat /\ b.created_at \in Nat /\ c.created_at \in Nat
      /\ a.id \in Nat /\ b.id \in Nat /\ c.id \in Nat
  BY ListingAssumption DEF Debates
<1> QED
  BY <1>1 DEF Older

\* Past the first page, the WHERE keeps what is older than the cursor.
LEMMA AheadIsOlder ==
  ASSUME NEW x \in Debates, cursor # NoCursor
  PROVE  Ahead(x) <=> Older(x, cursor)
  BY DEF Ahead, Older

\* The rows a query returns are the newest of those it may return, and all of
\* them when fewer than the limit are returned.
LEMMA NewestProperties ==
  ASSUME NEW S, NEW n \in Nat, NEW R \in Newest(S, n)
  PROVE  /\ R \subseteq S
         /\ \A r \in R, s \in S \ R : Older(s, r)
         /\ \A m \in Nat : m < n /\ Cardinality(R) <= m => R = S
<1>1. R \subseteq S /\ \A r \in R, s \in S \ R : Older(s, r)
  BY DEF Newest
<1>2. Cardinality(R) = n \/ R = S
  BY DEF Newest
<1> QED
  BY <1>1, <1>2

LEMMA ListingInit == WalkInit => ListingInv
  BY DEF WalkInit, ListingInv, ListingTypeOK, Passed, NewestFirst, NothingSkipped

\* Creating a debate moves no cursor and returns nothing; only a commit makes
\* a debate due, and only ahead of the cursor.
LEMMA FlushKeeps ==
  ASSUME ListingInv, NEW id \in Ids, NEW time \in Times, Flush(id, time)
  PROVE  ListingInv'
<1> USE DEF ListingInv, Flush, walkVars
<1>1. ListingTypeOK'
  <2>1. [created_at |-> time, id |-> id] \in Debates
    BY DEF Debates
  <2> QED
    BY <2>1 DEF ListingTypeOK
<1>2. Passed' /\ NewestFirst' /\ NothingSkipped'
  BY DEF Passed, NewestFirst, NothingSkipped, Ahead
<1> QED
  BY <1>1, <1>2

LEMMA CommitKeeps ==
  ASSUME ListingInv, NEW x \in inflight, Commit(x)
  PROVE  ListingInv'
<1> USE DEF ListingInv, Commit, walkVars
<1>1. ListingTypeOK'
  BY DEF ListingTypeOK
<1>2. Passed' /\ NewestFirst'
  BY DEF Passed, NewestFirst
<1>3. NothingSkipped'
  <2>1. CASE walk = "walking" /\ Ahead(x)
    BY <2>1 DEF NothingSkipped, Ahead
  <2>2. CASE ~(walk = "walking" /\ Ahead(x))
    BY <2>2 DEF NothingSkipped, Ahead
  <2> QED
    BY <2>1, <2>2
<1> QED
  BY <1>1, <1>2, <1>3

LEMMA RollbackKeeps ==
  ASSUME ListingInv, NEW x \in inflight, Rollback(x)
  PROVE  ListingInv'
  BY DEF ListingInv, Rollback, walkVars, ListingTypeOK, Passed, NewestFirst,
         NothingSkipped, Ahead

LEMMA BeginKeeps ==
  ASSUME ListingInv, Begin
  PROVE  ListingInv'
  BY DEF ListingInv, Begin, ListingTypeOK, Passed, NewestFirst, NothingSkipped,
         Ahead

\* A page: what it holds is ahead of the cursor, so older than what came before
\* it; what it leaves out is older than its last row, so ahead of the new cursor.
LEMMA NextPageKeeps ==
  ASSUME ListingInv, NEW limit \in Limits, NextPage(limit)
  PROVE  ListingInv'
<1> DEFINE Matching == {x \in committed : Ahead(x)}
<1> USE DEF ListingInv
<1>0. limit \in Nat /\ limit + 1 \in Nat /\ limit < limit + 1
  BY ListingAssumption
<1>1. PICK rows \in Newest(Matching, limit + 1) :
        IF Cardinality(rows) <= limit
        THEN page' = rows /\ walk' = "done" /\ UNCHANGED cursor
        ELSE /\ page' \in Newest(rows, limit)
             /\ cursor' \in LastOf(page', rows)
             /\ UNCHANGED walk
  BY DEF NextPage
<1>2. /\ walk = "walking" /\ returned' = returned \cup page
      /\ UNCHANGED <<inflight, committed, due>>
  BY DEF NextPage
<1>3. /\ rows \subseteq Matching
      /\ \A r \in rows, s \in Matching \ rows : Older(s, r)
      /\ Cardinality(rows) <= limit => rows = Matching
  BY <1>0, NewestProperties
<1>4. Matching \subseteq committed /\ committed \subseteq Debates
  BY DEF ListingTypeOK
<1>5. \A newer \in returned \cup page, older \in Matching :
        /\ cursor # NoCursor /\ cursor \in Debates
        /\ Older(older, cursor) /\ Older(older, newer)
  <2> SUFFICES ASSUME NEW newer \in returned \cup page, NEW older \in Matching
               PROVE  /\ cursor # NoCursor /\ cursor \in Debates
                      /\ Older(older, cursor) /\ Older(older, newer)
    OBVIOUS
  <2>1. cursor # NoCursor /\ cursor \in Debates
    BY <1>2 DEF Passed, ListingTypeOK
  <2>2. older \in Debates /\ newer \in Debates
    BY <1>4 DEF ListingTypeOK
  <2>3. Older(older, cursor)
    BY <2>1, <2>2, AheadIsOlder
  <2>4. newer = cursor \/ Older(cursor, newer)
    BY <1>2, <2>1 DEF Passed
  <2> QED
    BY <2>1, <2>2, <2>3, <2>4, OlderTransitive
<1>6. CASE Cardinality(rows) <= limit
  <2>1. page' = Matching /\ walk' = "done" /\ cursor' = cursor
    BY <1>1, <1>3, <1>6
  <2>2. ListingTypeOK'
    BY <1>2, <1>4, <2>1 DEF ListingTypeOK
  <2>3. Passed'
    BY <2>1 DEF Passed
  <2>4. NewestFirst'
    BY <1>2, <1>5, <2>1 DEF NewestFirst
  <2>5. NothingSkipped'
    <3>1. \A x \in due : x \in returned \cup page \/ x \in Matching
      BY <1>2, <1>4 DEF NothingSkipped, ListingTypeOK
    <3> QED
      BY <1>2, <2>1, <3>1 DEF NothingSkipped
  <2> QED
    BY <2>2, <2>3, <2>4, <2>5
<1>7. CASE ~(Cardinality(rows) <= limit)
  <2>1. /\ page' \subseteq rows /\ UNCHANGED walk
        /\ \A r \in page', s \in rows \ page' : Older(s, r)
    <3>1. page' \in Newest(rows, limit) /\ UNCHANGED walk
      BY <1>1, <1>7
    <3> QED
      BY <3>1, <1>0 DEF Newest
  <2>2. cursor' \in page' /\ \A r \in page' : r = cursor' \/ Older(cursor', r)
    <3>1. cursor' \in LastOf(page', rows)
      BY <1>1, <1>7
    <3> QED
      BY <3>1 DEF LastOf
  <2>3. page' \subseteq Matching /\ cursor' \in Matching /\ cursor' \in Debates
    BY <1>3, <1>4, <2>1, <2>2
  <2>4. cursor' # NoCursor
    BY <2>3, ListingAssumption DEF Debates
  <2>5. ListingTypeOK'
    BY <1>2, <1>4, <2>1, <2>3 DEF ListingTypeOK
  <2>6. Passed'
    <3>1. \A x \in returned \cup page : Older(cursor', x)
      BY <1>5, <2>3
    <3> QED
      BY <1>2, <2>1, <2>2, <2>4, <3>1 DEF Passed
  <2>7. NewestFirst'
    BY <1>2, <1>5, <2>3 DEF NewestFirst
  <2>8. NothingSkipped'
    <3> SUFFICES ASSUME NEW x \in due, x \notin returned', x \notin page'
                 PROVE  Ahead(x)'
      BY <1>2, <2>1 DEF NothingSkipped
    <3>1. x \in Matching /\ x \in Debates
      BY <1>2, <1>4 DEF NothingSkipped, ListingTypeOK
    <3>2. Older(x, cursor')
      BY <1>3, <2>1, <2>2, <3>1
    <3> QED
      BY <3>2 DEF Ahead, Older
  <2> QED
    BY <2>5, <2>6, <2>7, <2>8
<1> QED
  BY <1>6, <1>7

LEMMA ListingNext == ListingInv /\ [WalkNext]_listingVars => ListingInv'
<1> SUFFICES ASSUME ListingInv, [WalkNext]_listingVars
             PROVE  ListingInv'
  OBVIOUS
<1>1. CASE \E id \in Ids, time \in Times : Flush(id, time)
  BY <1>1, FlushKeeps
<1>2. CASE \E x \in inflight : Commit(x) \/ Rollback(x)
  BY <1>2, CommitKeeps, RollbackKeeps
<1>3. CASE Begin
  BY <1>3, BeginKeeps
<1>4. CASE \E limit \in Limits : NextPage(limit)
  BY <1>4, NextPageKeeps
<1>5. CASE UNCHANGED listingVars
  BY <1>5 DEF listingVars, ListingInv, ListingTypeOK, Passed, NewestFirst,
              NothingSkipped, Ahead
<1> QED
  BY <1>1, <1>2, <1>3, <1>4, <1>5 DEF WalkNext

LEMMA ListingInvariant == WalkSpec => []ListingInv
  BY ListingInit, ListingNext, PTL DEF WalkSpec

\* The types of the listing's state hold, and an id names one debate.
THEOREM ListingTypeCorrect == WalkSpec => []ListingTypeOK
  BY ListingInvariant, PTL DEF ListingInv

\* No debate comes twice and none comes out of order, whatever is created
\* between two pages and whatever page sizes the client asks for.
THEOREM WalkIsNewestFirst == WalkSpec => []NewestFirst
  BY ListingInvariant, PTL DEF ListingInv

\* No debate that was committed ahead of the cursor is ever skipped.
THEOREM WalkSkipsNothing == WalkSpec => []NothingSkipped
  BY ListingInvariant, PTL DEF ListingInv
=============================================================================
