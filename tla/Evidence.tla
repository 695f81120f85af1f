------------------------------- MODULE Evidence --------------------------------
(***************************************************************************)
(* The evidence of a debate, from the plan node that gathers it to the     *)
(* citations an argument built on it ends with.                            *)
(*                                                                         *)
(* plan asks the model for search queries, runs the searches concurrently, *)
(* then fetches the first articles concurrently.  Any search or fetch may  *)
(* fail or time out, they may return in any order, and the run's deadline  *)
(* may cancel the node while it awaits them.                               *)
(***************************************************************************)
EXTENDS Citations, SequencesExt

CONSTANTS
  Titles,      \* titles of hits and of pool items
  Hits,        \* what a search may find: a title and a URL, or none
  MaxQueries,  \* bound: search queries of one plan
  MaxHits,     \* bound: hits of one search
  TopN,        \* evidence_fetch_top_n
  Pools,       \* the evidence pools a debate may be created with
  Arguments,   \* what a side may write
  None         \* no text, no result

ASSUME EvidenceAssumption ==
  /\ MaxQueries \in Nat /\ MaxHits \in Nat /\ TopN \in Nat
  /\ Hits \subseteq [title : Titles \cup {Blank}, url : Urls \cup {Blank}]
  /\ Pools \subseteq Seq([cert : Uuids, url : Urls, title : Titles \cup {Blank}])
  /\ Arguments \subseteq [markers : Seq(Uuids \cup {Junk}), mentions : SUBSET Urls]
  /\ None \notin Urls \cup {Blank}

VARIABLES
  at,         \* where the node is
  pool,       \* the debate's evidence_pool
  queries,    \* how many search queries the model wrote
  searches,   \* the searches that have returned, in that order
  fetches,    \* the fetches that have returned, in that order
  plan,       \* what the node has gathered so far
  transcript  \* the citations of one argument, as transcript.json shows them

vars == <<at, pool, queries, searches, fetches, plan, transcript>>

Outcomes == [ok : {TRUE}, hits : BoundedSeq(Hits, MaxHits)] \cup {[ok |-> FALSE, hits |-> <<>>]}
NoPlan == [evidence |-> <<>>, failed |-> <<>>]

PlanInit ==
  /\ at = "decompose" /\ pool \in Pools /\ queries = 0
  /\ searches = <<>> /\ fetches = <<>> /\ plan = NoPlan /\ transcript = None

-----------------------------------------------------------------------------
(* Pure steps of the node.                                                  *)

\* Mutant of Gathered: results are taken as they complete.
GatheredAsCompleted(done) == done

\* asyncio.gather: the results in the order of the calls.
Gathered(done) ==
  [i \in DOMAIN done |-> done[CHOOSE k \in DOMAIN done : done[k].call = i]]

Failures(kind, results) ==
  LET failing == Collected(results, {i \in DOMAIN results : ~results[i].ok})
  IN [i \in DOMAIN failing |-> <<kind, failing[i].call>>]

\* The hits of the searches at the places S, as items: in the order of the
\* searches, and of each in its own.
Items(results, S) ==
  LET found == UNION {{i} \X DOMAIN results[i].hits : i \in S}
      order == Ordered(found, {p \in found \X found :
                 \/ p[1][1] < p[2][1]
                 \/ p[1][1] = p[2][1] /\ p[1][2] < p[2][2]})
      hit(n) == results[order[n][1]].hits[order[n][2]]
  IN [n \in 1..Cardinality(found) |-> [title |-> hit(n).title, url |-> hit(n).url, text |-> None]]

\* Mutant of AfterSearches: a failed search ends the collection.
AfterSearchesUpToFailure(results) ==
  LET used == {i \in DOMAIN results : \A j \in 1..(i - 1) : results[j].ok}
  IN [evidence |-> Items(results, used), failed |-> Failures("search", Collected(results, used))]

AfterSearches(results) ==
  [evidence |-> Items(results, DOMAIN results), failed |-> Failures("search", results)]

\* The places of the first TopN distinct URLs.
ToFetch(evidence) ==
  LET places == Ascending({i \in DOMAIN evidence : NewUrl(evidence, i)})
  IN SubSeq(places, 1, IF Len(places) < TopN THEN Len(places) ELSE TopN)

\* Mutant of AfterFetches: articles are zipped with the hits, not with to_fetch.
AfterFetchesByHit(gathered, results) ==
  [evidence |-> [i \in 1..Len(gathered.evidence) |->
      IF i <= Len(results) /\ results[i].ok
      THEN [gathered.evidence[i] EXCEPT !.text = results[i].url]
      ELSE gathered.evidence[i]],
   failed |-> gathered.failed \o Failures("fetch", results)]

AfterFetches(gathered, results) ==
  LET places == ToFetch(gathered.evidence)
      got(i) == \E n \in DOMAIN places : places[n] = i /\ results[n].ok
      result(i) == results[CHOOSE n \in DOMAIN places : places[n] = i]
  IN [evidence |-> [i \in DOMAIN gathered.evidence |->
        IF got(i) THEN [gathered.evidence[i] EXCEPT !.text = result(i).url]
                  ELSE gathered.evidence[i]],
      failed |-> gathered.failed \o Failures("fetch", results)]

-----------------------------------------------------------------------------
(* The node.                                                                *)

Decompose ==
  /\ at = "decompose"
  /\ \/ at' = "searching" /\ queries' \in 0..MaxQueries
     \/ at' = "raised" /\ UNCHANGED queries    \* every model failed
  /\ UNCHANGED <<pool, searches, fetches, plan, transcript>>

\* A search returns its hits, or raises: a bad status, a timeout, an empty query.
SearchReturns(i) ==
  /\ at = "searching"
  /\ \A r \in ToSet(searches) : r.call # i
  /\ \E out \in Outcomes :
       searches' = Append(searches, [call |-> i, ok |-> out.ok, hits |-> out.hits])
  /\ UNCHANGED <<at, pool, queries, fetches, plan, transcript>>

CollectHits ==
  /\ at = "searching" /\ Len(searches) = queries
  /\ plan' = AfterSearches(Gathered(searches))
  /\ at' = "fetching"
  /\ UNCHANGED <<pool, queries, searches, fetches, transcript>>

\* An article is fetched and its text extracted, or not.
FetchReturns(i) ==
  /\ at = "fetching"
  /\ \A r \in ToSet(fetches) : r.call # i
  /\ \E ok \in BOOLEAN :
       fetches' = Append(fetches, [call |-> i, ok |-> ok,
                    url |-> plan.evidence[ToFetch(plan.evidence)[i]].url])
  /\ UNCHANGED <<at, pool, queries, searches, plan, transcript>>

AttachTexts ==
  /\ at = "fetching" /\ Len(fetches) = Len(ToFetch(plan.evidence))
  /\ plan' = AfterFetches(plan, Gathered(fetches))
  /\ at' = "planned"
  /\ UNCHANGED <<pool, queries, searches, fetches, transcript>>

\* The run's deadline cancels the node and, with it, what it gathers.
Cancel ==
  /\ at \in {"decompose", "searching", "fetching"}
  /\ at' = "cancelled"
  /\ UNCHANGED <<pool, queries, searches, fetches, plan, transcript>>

\* A side argues on the plan; its entry is rendered and served.
Argue(argument) ==
  /\ at = "planned"
  /\ at' = "argued"
  /\ transcript' = [argument |-> argument,
       citations |-> InTranscript(BuildRoundCitations(argument, pool, plan.evidence))]
  /\ UNCHANGED <<pool, queries, searches, fetches, plan>>

Gather ==
  \/ \E i \in 1..queries : SearchReturns(i)
  \/ CollectHits
  \/ \E i \in 1..Len(ToFetch(plan.evidence)) : FetchReturns(i)
  \/ AttachTexts

PlanNext ==
  Decompose \/ Gather \/ Cancel \/ \E argument \in Arguments : Argue(argument)

PlanSpec == PlanInit /\ [][PlanNext]_vars

-----------------------------------------------------------------------------

Planned == at \in {"planned", "argued"}

\* The plan is the one that sequential calls would have made: the order in
\* which the concurrent searches and fetches return does not show in it.
OrderDoesNotShow ==
  LET byCall(S) == Ordered(S, {p \in S \X S : p[1].call < p[2].call})
      inOrder(done) == byCall(ToSet(done))
  IN Planned => plan = AfterFetches(AfterSearches(inOrder(searches)), inOrder(fetches))

\* No URL is fetched twice, whichever searches found it, and no hit without one;
\* each article's text is attached to a hit of its own URL, once, and none that
\* was fetched is lost.
TextOfItsOwnUrl ==
  /\ \A r, q \in ToSet(fetches) : r.url = q.url => r.call = q.call
  /\ \A r \in ToSet(fetches) : r.url # Blank
  /\ Planned =>
       /\ Len(fetches) <= TopN
       /\ \A i \in 1..Len(plan.evidence) :
            plan.evidence[i].text \in {None, plan.evidence[i].url}
       /\ \A r \in ToSet(fetches) :
            r.ok <=> Cardinality({i \in 1..Len(plan.evidence) : plan.evidence[i].text = r.url}) = 1

\* Dead tools degrade the evidence and never end the debate: however many calls
\* fail, in whatever order, each is reported and costs the plan nothing but its
\* own hits or text.
EveryFailureIsReported ==
  /\ at = "raised" => searches = <<>>
  /\ Planned =>
       /\ ToSet(plan.failed) =
            {<<"search", r.call>> : r \in {q \in ToSet(searches) : ~q.ok}} \cup
            {<<"fetch", r.call>> : r \in {q \in ToSet(fetches) : ~q.ok}}
       /\ \A r \in ToSet(searches), k \in 1..MaxHits :
            k <= Len(r.hits) =>
              \E i \in 1..Len(plan.evidence) : /\ plan.evidence[i].title = r.hits[k].title
                                               /\ plan.evidence[i].url = r.hits[k].url

\* What the transcript cites is in the pool or among the hits and is named by
\* the argument, under its source's title (a page without one: its URL); all of
\* that is cited, once, certificates first, in order.  A URL that only the pool
\* has is never cited, although the prompt lists it.
CitationsAreTheSources ==
  at = "argued" =>
    LET cited == transcript.citations
        refs(type) == {cited[i].ref : i \in {j \in 1..Len(cited) : cited[j].type = type}}
        marked == ToSet(transcript.argument.markers)
        first(uid) == Min({i \in DOMAIN transcript.argument.markers :
                             transcript.argument.markers[i] = uid})
    IN /\ refs("cert") = {pool[i].cert : i \in 1..Len(pool)} \cap marked
       /\ refs("url") = {u \in {plan.evidence[i].url : i \in 1..Len(plan.evidence)} \ {Blank} :
                           Mentions(transcript.argument, u)}
       /\ \A c \in ToSet(cited) :
            \/ /\ c.type = "cert"
               /\ \E item \in ToSet(pool) : item.cert = c.ref /\ item.title = c.title
            \/ /\ c.type = "url" /\ c.title # Blank
               /\ \E h \in ToSet(plan.evidence) :
                    h.url = c.ref /\ c.title \in {h.title, h.url}
       /\ \A i, j \in 1..Len(cited) : i < j =>
            /\ <<cited[i].type, cited[i].ref>> # <<cited[j].type, cited[j].ref>>
            /\ cited[j].type = "cert" =>
                 cited[i].type = "cert" /\ first(cited[i].ref) < first(cited[j].ref)
=============================================================================
