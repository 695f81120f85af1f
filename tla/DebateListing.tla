---------------------------- MODULE DebateListing ----------------------------
(***************************************************************************)
(* GET /debates: a client walks the debates page by page, newest first,    *)
(* with the cursor each page hands it, while others create debates.        *)
(*                                                                         *)
(* A debate takes its created_at when its insert is flushed and can be     *)
(* seen only when its session commits, so it may appear behind the cursor. *)
(* Pages that fail (a garbled cursor is answered 422, a session may raise) *)
(* read and change nothing: they are stuttering steps and the client asks  *)
(* again.                                                                  *)
(***************************************************************************)
EXTENDS Naturals, FiniteSets

CONSTANTS
  Times,   \* the readings of the clocks of the processes that create debates
  Ids,     \* the debates' UUIDs, in their order
  Limits,  \* the page sizes a request may ask for (1..100 in the code)
  NoCursor  \* no cursor in the request

ASSUME ListingAssumption ==
  /\ Times \subseteq Nat /\ Ids \subseteq Nat /\ Limits \subseteq Nat \ {0}
  /\ NoCursor \notin [created_at : Times, id : Ids]

VARIABLES
  inflight,   \* debates whose insert is flushed and not committed
  committed,  \* the debates every other session sees
  walk,       \* "idle", "walking" or "done"
  cursor,     \* the key the next page starts after, or NoCursor
  page,       \* the page returned last
  returned,   \* the debates of the pages before it
  due         \* history: debates committed while the walk had not passed them

listingVars == <<inflight, committed, walk, cursor, page, returned, due>>
walkVars == <<walk, cursor, page, returned>>

Debates == [created_at : Times, id : Ids]

WalkInit ==
  /\ inflight = {} /\ committed = {}
  /\ walk = "idle" /\ cursor = NoCursor /\ page = {} /\ returned = {} /\ due = {}

-----------------------------------------------------------------------------
(* The order of the list, and what the WHERE and the LIMIT make of it.      *)

\* ORDER BY created_at DESC, id DESC, seen from its end.
Older(a, b) ==
  \/ a.created_at < b.created_at
  \/ a.created_at = b.created_at /\ a.id < b.id

\* Mutants of Ahead: the cursor is not passed on; the debate it names is
\* included.
AheadOfNothing(d) == TRUE
AheadInclusive(d) ==
  \/ cursor = NoCursor
  \/ d.created_at < cursor.created_at
  \/ d.created_at = cursor.created_at /\ d.id <= cursor.id

\* The WHERE: the debates the next page may hold.
Ahead(d) ==
  \/ cursor = NoCursor
  \/ d.created_at < cursor.created_at
  \/ d.created_at = cursor.created_at /\ d.id < cursor.id

\* ORDER BY ... DESC LIMIT n over S: the n newest, or all when there are fewer.
Newest(S, n) ==
  {R \in SUBSET S : /\ Cardinality(R) = n \/ (R = S /\ Cardinality(S) <= n)
                    /\ \A r \in R, s \in S \ R : Older(s, r)}

\* Mutant of LastOf: the cursor is taken from the row the page does not show.
LastOfRows(shown, rows) == {d \in rows : \A r \in rows \ {d} : Older(d, r)}

LastOf(shown, rows) == {d \in shown : \A r \in shown \ {d} : Older(d, r)}

-----------------------------------------------------------------------------
(* create: the insert is flushed, then its session commits or rolls back.   *)

Flush(id, time) ==
  /\ \A d \in committed \cup inflight : d.id # id
  /\ inflight' = inflight \cup {[created_at |-> time, id |-> id]}
  /\ UNCHANGED <<committed, due>> /\ UNCHANGED walkVars

Commit(d) ==
  /\ inflight' = inflight \ {d}
  /\ committed' = committed \cup {d}
  /\ due' = IF walk = "walking" /\ Ahead(d) THEN due \cup {d} ELSE due
  /\ UNCHANGED walkVars

Rollback(d) ==
  /\ inflight' = inflight \ {d}
  /\ UNCHANGED <<committed, due>> /\ UNCHANGED walkVars

-----------------------------------------------------------------------------
(* The walk.                                                                *)

Begin ==
  /\ walk = "idle"
  /\ walk' = "walking"
  /\ due' = committed
  /\ UNCHANGED <<inflight, committed, cursor, page, returned>>

\* list_page asks for one row more than the page shows, to know if it is last.
NextPage(limit) ==
  /\ walk = "walking"
  /\ \E rows \in Newest({d \in committed : Ahead(d)}, limit + 1) :
       IF Cardinality(rows) <= limit
       THEN page' = rows /\ walk' = "done" /\ UNCHANGED cursor
       ELSE /\ page' \in Newest(rows, limit)
            /\ cursor' \in LastOf(page', rows)
            /\ UNCHANGED walk
  /\ returned' = returned \cup page
  /\ UNCHANGED <<inflight, committed, due>>

WalkNext ==
  \/ \E id \in Ids, time \in Times : Flush(id, time)
  \/ \E d \in inflight : Commit(d) \/ Rollback(d)
  \/ Begin
  \/ \E limit \in Limits : NextPage(limit)

WalkSpec == WalkInit /\ [][WalkNext]_listingVars

\* A client that started a walk goes on asking; nobody has to create debates.
FairWalkSpec == WalkSpec /\ WF_listingVars(\E limit \in Limits : NextPage(limit))

-----------------------------------------------------------------------------

\* Types of the variables, and that an id names one debate: the order is total.
ListingTypeOK ==
  /\ inflight \subseteq Debates /\ committed \subseteq Debates
  /\ walk \in {"idle", "walking", "done"}
  /\ cursor \in Debates \cup {NoCursor}
  /\ page \subseteq committed /\ returned \subseteq committed
  /\ due \subseteq committed
  /\ \A a, b \in committed \cup inflight : a.id = b.id => a = b

\* The pages, put one after the other, are strictly newest first, whatever was
\* committed between them: no debate comes twice and none out of order.
NewestFirst ==
  \A newer \in returned, older \in page : Older(older, newer)

\* A debate that was committed while the walk had not yet passed its place has
\* been returned or is still ahead: when the walk is done, none is missing.
NothingSkipped ==
  \A d \in due : d \in returned \cup page \/ (walk = "walking" /\ Ahead(d))

\* Whatever is created meanwhile, a client that goes on asking comes to the end.
WalkEnds == walk = "walking" ~> walk = "done"
=============================================================================
