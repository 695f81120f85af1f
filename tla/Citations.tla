------------------------------- MODULE Citations -------------------------------
(***************************************************************************)
(* Which evidence an argument cites: extract_cert_markers and              *)
(* build_round_citations, and the filter citations pass on their way into  *)
(* the transcript.                                                         *)
(*                                                                         *)
(* A certificate id, a URL and a title are values; an argument is the      *)
(* markers it holds, in order, and the URLs it mentions.  A URL is found   *)
(* in an argument as a substring, so also inside a longer one.             *)
(***************************************************************************)
EXTENDS Naturals, Sequences, FiniteSets

CONSTANTS
  Uuids,        \* certificate ids a marker may name
  Junk,         \* a marker whose body matches the pattern and is no UUID
  Urls,         \* URLs of hits and of pool items
  Blank,        \* a missing URL or title
  PartOf        \* pairs of URLs, the first a substring of the second

ASSUME CitationsAssumption ==
  /\ Junk \notin Uuids /\ Blank \notin Urls \cup Uuids
  /\ PartOf \subseteq Urls \X Urls

Mentions(argument, url) ==
  \E m \in argument.mentions : url = m \/ <<url, m>> \in PartOf

\* The elements of S in an order, a set of pairs: k - 1 come before the k-th.
Ordered(S, before) ==
  [k \in 1..Cardinality(S) |->
     CHOOSE x \in S : Cardinality({y \in S : <<y, x>> \in before}) = k - 1]

Ascending(S) == Ordered(S, {p \in S \X S : p[1] < p[2]})

\* What a loop over seq collects when it passes over all places but those of S.
Collected(seq, S) == [k \in 1..Cardinality(S) |-> seq[Ascending(S)[k]]]

\* Mutant of ExtractCertMarkers: the last appearance decides the order.
LastCertMarkers(markers) ==
  Collected(markers, {i \in DOMAIN markers :
    markers[i] \in Uuids /\ \A j \in (i + 1)..Len(markers) : markers[j] # markers[i]})

\* extract_cert_markers: the UUIDs, each at its first appearance.
ExtractCertMarkers(markers) ==
  Collected(markers, {i \in DOMAIN markers :
    markers[i] \in Uuids /\ \A j \in 1..(i - 1) : markers[j] # markers[i]})

\* The pool's index keeps the last item of an id; markers it lacks are dropped.
\* An item's URL, which the prompt lists as well, plays no part.
CertCitations(argument, pool) ==
  LET at(uid) == {i \in DOMAIN pool : pool[i].cert = uid}
      item(uid) == pool[CHOOSE i \in at(uid) : \A j \in at(uid) : j <= i]
      found == ExtractCertMarkers(argument.markers)
      cited == Collected(found, {i \in DOMAIN found : at(found[i]) # {}})
  IN [i \in DOMAIN cited |-> [type |-> "cert", ref |-> cited[i], title |-> item(cited[i]).title]]

\* A hit without a title is cited under its URL.
TitleOf(hit) == IF hit.title = Blank THEN hit.url ELSE hit.title

\* A place of evidence whose URL no earlier place has.
NewUrl(evidence, i) ==
  evidence[i].url # Blank /\ \A j \in 1..(i - 1) : evidence[j].url # evidence[i].url

\* A URL is cited once, under the title of its first hit.
UrlCitations(argument, evidence) ==
  LET cited == Collected(evidence, {i \in DOMAIN evidence :
                 NewUrl(evidence, i) /\ Mentions(argument, evidence[i].url)})
  IN [i \in DOMAIN cited |-> [type |-> "url", ref |-> cited[i].url, title |-> TitleOf(cited[i])]]

BuildRoundCitations(argument, pool, evidence) ==
  CertCitations(argument, pool) \o UrlCitations(argument, evidence)

\* _build_rounds_struct and _coerce_rounds_struct: known types with a ref.
InTranscript(citations) ==
  Collected(citations, {i \in DOMAIN citations :
    citations[i].type \in {"cert", "url"} /\ citations[i].ref # Blank})
=============================================================================
