------------------------------ MODULE MCEvidence ------------------------------
(* Evidence with two queries of up to two hits, two articles to fetch of three *)
(* URLs, one of them inside another, and a pool that holds an id twice and     *)
(* URLs the searches may find or not.                                          *)
EXTENDS Evidence

CONSTANTS c1, c2, junk, short, long, other, blank, t1, t2

MCUuids == {c1, c2}
MCTitles == {t1, t2}
MCUrls == {short, long, other}
MCPartOf == {<<short, long>>}
MCHits ==
  {[title |-> t1, url |-> short], [title |-> t2, url |-> short],
   [title |-> t1, url |-> long], [title |-> blank, url |-> other],
   [title |-> t1, url |-> blank]}
MCPools ==
  {<<>>,
   <<[cert |-> c1, url |-> short, title |-> t1], [cert |-> c2, url |-> other, title |-> t2],
     [cert |-> c1, url |-> other, title |-> t2]>>}
MCArguments ==
  [markers : {<<>>, <<c2, c1>>, <<c1, c1, junk>>, <<c1, c2, c1>>},
   mentions : {{}, {short}, {long, other}}]
=============================================================================
