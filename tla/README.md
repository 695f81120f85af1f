# paper-trail-backend: TLA+ models and proofs

paper-trail-backend runs debates about a claim. A POST inserts a row, a background task (or, for
the platform, the request itself) drives a LangGraph graph of LLM nodes (plan, proponent and skeptic
in parallel, judge, render), every step is committed to Postgres as it happens, and clients follow
the row through a server-sent event stream or fetch the finished, hashed transcript.

Paths below are relative to the repository's root.

## Inventory

| Part | State | Operations | What is hard |
|---|---|---|---|
| Debate service, `services/debates.py` | `result`, `running_rounds` of one run | `create`, `run`, `get`, `list` | a commit per write, interleaved with the graph; a deadline that cancels any await; an error handler that can fail; code before and after the `try`; crashes |
| Graph and nodes, `agents/` | the channels of `DebateState` | five nodes, two routers, the `rounds` reducer | the two sides run in parallel and finish in any order; a node may fail or hang |
| Row and repository, `repositories/debates.py`, `models/debate.py`, `core/db.py` | table `debates` | `create`, `get`, `set_status`, `update_rounds`, `update_judge_progress`, `update_result`, `list_page` | readers between any two writes; commits whose acknowledgement is lost; rows that appear behind a page already shown |
| Sessions and pool, `core/db.py` | the engine's connections | `session_scope`: check out, commit, roll back, close | runs, streams and probes share a few connections; cancellation at any await; connections the server has dropped |
| Event stream, `api/routers/debates.py` | `last_snapshot`, `deadline` per connection | poll, emit, time out | stale fingerprints, coalesced updates, a timeout shorter than a debate |
| Debate endpoints, `api/routers/debates.py` | none | POST, GET, list, `transcript.md`, `transcript.json` | legacy rows without `rounds_struct` or hash; answers of one debate at different times |
| Platform endpoint, `api/routers/platform.py` | none | POST `/platform/debate` | reads the row once more after the run |
| LLM router, `core/llm.py` | one call's tiers, shares, attempts | `chat`, `chat_json` | retries and backoffs inside shares of a deadline; hung models; late timers |
| Rate limiter, `core/rate_limit.py` | one Redis counter per caller | `enforce_rate_limit`, `bucket_key` | INCR and EXPIRE are two calls; concurrent requests; failing open; an EXPIRE that comes late |
| Platform token gate, `platform/platform_token.py`, `token_verifier.py` | `_url_key_cache` | the middleware's chain of checks | concurrent refreshes of the cached key |
| Planning and citations, `agents/nodes/plan.py`, `_format.py`, `_citations.py`, `agents/tools/` | what one node gathers | gathered searches and fetches, citation resolution | partial failures, each result with its own query; citations a model invents, repeats or nests |
| Transcript and signing, `agents/tools/transcript.py`, `core/signing.py` | the signing key | canonical JSON, hash, signature | the bytes hashed and the bytes signed |
| Tracing, metrics, logging, health, configuration, migrations | counters | observe | no influence on the debates |

How they interact: the routers call the service; the service consumes the graph's update stream and
writes through the repository, one `session_scope` per write; the nodes call the LLM router; the
event stream and the other readers share nothing with a run but the committed row; the rate limiter
stands before both POST endpoints and shares only Redis between requests.

The correctness of each part, in a sentence: the **service** must leave a row that is consistent at
every commit, final once, and ended whatever happens; the **graph** must argue whole rounds on equal
terms and stop at the limit or on a confident verdict; the **stream** must show what it reads, only
forward, and end; the **router** must answer or fail within its bound having asked everyone once;
the **limiter** must admit at most the limit per window, end the window on time and lift the limit
then; the
**receipts** must verify, agree with each other and never change; the **gate** must fail closed and
forget a key that bastion has replaced; the **listing** must show every debate once, newest first,
while debates are created; the **pool** must get every connection back and never stay exhausted; the
**plan** must be the one sequential calls would have made, whatever fails; **citations** must name
what the author was given.

## Modules

| Module | Models | Proved about in |
|---|---|---|
| `Transcript` | the data: entries, scores, `_build_rounds_struct`, render's markdown, the hash, `is_converged` | `TranscriptProofs` |
| `DebateRecord` | abstract: what a row promises to everyone who reads it | |
| `DebateService` | `create` and `run`, the graph, the row, the platform's reply | `DebateServiceProofs` |
| `DebateStream` | the event generator of `GET /debates/{id}/stream`, over `DebateRecord` | `DebateReadersProofs` |
| `DebateListing` | a client's walk over `list_page`'s pages while debates are created | `DebateReadersProofs` |
| `SessionPool` | the sessions of runs, streams and the health probe on the engine's pool | `SessionPoolProofs` |
| `Citations` | operators: what an argument cites, what the transcript keeps of it | `EvidenceProofs` |
| `Evidence` | the plan node and its concurrent tools, over `Citations` | `EvidenceProofs` |
| `RateLimit` | `enforce_rate_limit` on one bucket | `RateLimitProofs` |
| `LlmCascade` | `_cascade`, `_call_tier` | `LlmCascadeProofs` |
| `TranscriptReceipt` | `transcript.json`, `transcript.md`, the public key, over `DebateRecord` | `DebateReadersProofs` |
| `TokenGate` | the token middleware, `verify_token`, `require_bastion`, the cached bastion key | `TokenGateProofs` |
| `MC*` | bounds for the runs | |

**Transcript.** An argument is the number of earlier entries its author was shown
(`format_prior_rounds(state["rounds"])`), the only thing about its text that the properties tell
apart. The SHA-256 is the record it digests. Scores are natural numbers with a threshold. Python's
`sorted` is stable: an entry's place (`Place`) is after those that come earlier by round and side,
and after those before it that do not come later. Said this way, and not by a recursive sort, the
order is within the provers' reach. `render` puts the entries in order twice: once for the structure
that is hashed (`BuildRoundsStruct`, one sort by round and side), and once for the markdown, which
it groups by round number (`OfRound`), takes in the order of the numbers (`NthRound`) and sorts by
side within a round (`PlaceBySide`). Both are modelled, each from its own lines, and nothing in the
model makes them agree. The markdown shows the verdict and the score as the state has them, the hash
takes defaults for a missing one.

**DebateRecord** has one variable, the columns readers use, and six actions: a row is created
pending, runs, takes one entry of each side for each round, is scored when a round is whole, and
ends done, with the receipt of exactly what it shows, or in error. `DebateService` refines it
(`RowIsPublicRecord`); `DebateStream` composes it with its readers, so the stream is checked against
everything a run can do to its row and not only against one schedule of it.

**DebateService.** `run` is the place in `DebateService.run`; each session is one action (`Write`),
which commits and goes on, or raises with the commit applied or not. `result` mirrors the dict of
that name; `running_rounds` is its `rounds`. The graph's side is `state` (the channels, as LangGraph
applies the writes at the end of a superstep in task order), `step`, `working` (tasks in progress),
`failed` and `chunks` (updates emitted in completion order, not yet read). LangGraph itself is
external: it is modelled from the edges of `build_graph`, the reducer, and `astream(stream_mode=
"updates")`; a failing task cancels the others and the exception reaches the loop when it asks for
the next update. Tasks go on while the loop waits for the database. The deadline may expire at any
await of the `try` (time is not modelled here: it may expire early or late, but does expire); a
commit it interrupts may have taken effect. A crash, and a shutdown's `CancelledError`, which
`except Exception` does not catch, ends the run without the error mark.

**DebateStream.** One control location per connection; `d` is the row read in this turn, `last` the
fingerprint, `shown` the last state event, `ending` how the stream ended. The latest argument's
length is taken as telling nothing: two arguments may be equally long, so the model does not rely on
it.

**DebateListing.** A debate is its key `(created_at, id)`; the order is the `ORDER BY`, `Ahead` the
`WHERE`, `Newest` the `LIMIT` (one row more than the page shows, as in the code). A creation is two
steps, `Flush`, which takes the time from its process's clock and the id, and `Commit`, after which
others see it: so a debate may appear behind the cursor, where no walk can show it, and `due` holds
those committed while the walk had not passed their place. The cursor's encoding round-trips and is
the key itself; a garbled one is answered 422 and changes nothing.

**SessionPool.** `at` is where a task is with respect to its session, `stage` which session of
`DebateService.run` a run is at, `conn` the pool's slots. `CheckedOut` is the pre-ping, `Released`
keeps `pool_size` connections and closes the overflow, a waiter takes any idle slot (SQLAlchemy's
queue is external and no order of waiters is promised) or gives up when none is. A statement, a
commit or a checkout may raise. Cancellation comes from the run's deadline, inside its `try`, and
from viewers who leave; `session_scope` catches `Exception`, which a `CancelledError` is not, so a
cancelled session is closed by `AsyncSession.__aexit__` under its shield. The debates themselves are
in `DebateService`, where a session that fails is one of the failing operations.

**Citations, Evidence.** `Evidence` is the plan node: it awaits its searches, then its fetches, each
of which returns or raises in any order (`searches`, `fetches` are in order of return), and may be
cancelled by the run's deadline. What it makes of the results, and what a side cites, is pure
(`AfterSearches`, `ToFetch`, `AfterFetches`, `BuildRoundCitations`) and composed with `InTranscript`,
the filter that `_build_rounds_struct` and `_coerce_rounds_struct` both apply. An article's text is
known by the URL it was fetched from; an argument is the markers it holds, in order, and the URLs it
mentions. A pool item has a URL too, which `format_evidence_pool` lists and
`build_round_citations` never looks up: it resolves URLs among the hits alone, and so does the model.
`url in argument` is a test for a substring, so a URL that is part of a mentioned one is
cited as well (`PartOf`). The code's loops append or skip; each is stated by the places it does not
skip (`Collected`), in the order of the loop: the k-th of a set of places is the one with k - 1
before it (`Ordered`), by number, or by search and hit for the two nested loops of the plan (`Items`).

**RateLimit.** Whoever the requests are of, they meet on one key. The key (`count`, `ttl`) is
external, modelled from INCR and EXPIRE. A call may raise before or after it took effect; a worker
may die between the two. A call takes effect once at most: a client that sent a command again on its
own account, after an answer was lost, is outside the model. `stale` and `admitted` are history:
they attribute an admission to the key it was counted on.

**LlmCascade.** Time is counted in ticks, one step of `Tick` each; it passes only while the call
waits for OpenRouter or for a backoff. A timer fires at most `Lag` ticks late, which is what makes
"no time left for this tier" reachable. A share is rounded down to a tick. The stages that are
retried and differ only in their name are one ("upstream").

**TranscriptReceipt.** Composes `DebateRecord`, or a row that was done before migration 0002, with a
reader's three requests and with redeployments under another `TRANSCRIPT_SIGNING_KEY`. `json`, `md`
and `pem` are the last answers, each with the setting of the key it was given under (history). A
handler awaits its row and then runs without another await, so an answer is one step. The canonical
JSON is the payload it serialises, a signature the pair of a key and such a payload; `confidence:
null`, which `TranscriptRound.model_dump` adds to every round, is kept, because it makes the bytes
differ.

**TokenGate.** A request loads the keys (`KeyFromEnv`, `KeyFromCache`, or `StartFetch`,
`BastionAnswers`/`FetchFails`, `StoreKey`, as the fetch runs in a thread that writes the module's
variable itself), and is then decided in one step, since nothing is awaited after
`load_trusted_keys`. Code 200 stands for "handed to the route". `asof` and `slack` are history: when
bastion gave a value, and how long its holder has had it. An empty or unusable answer of bastion's is
cached like a key (`Garbage`), as in the code. `decided` tells of the last step only.

Definitions named "Mutant of ..." are not part of the models: each is a plausible bug that the
property named in `PROJECT.json` has been seen to catch.

## Runs

| Run | Bounds | Shows |
|---|---|---|
| `service` | asked rounds 1 or 3, cap 2 for the platform, scores 0..3 with threshold 2, two failing database operations | `DoneRowComplete`, `SidesArgueBlind`, `FailsClosed`, `ReplyIsTheFinalRow`, `TerminalRowFrozen`, `RunEnds`, and the refinement `RowIsPublicRecord`; 24 thousand states |
| `stream` | debates of up to two rounds, one viewer who may reconnect | `NothingHeldBack`, `DoneIsTheFinalRow`, `NeverBackwards`, `StreamEnds`, `EndReported`; 14 thousand states |
| `rate_limit` | three requests, limit 2, window of two ticks, two failures | `AtMostLimitPerWindow`, `FixedWindow`, `LimitIsTemporary`; 312 thousand states |
| `cascade` | three tiers over three or two models, 15 ticks, three attempts, backoffs of 1-2 and 2-3 ticks, one tick of lag | `WithinDeadline`, `GivenUpModelNotAsked`, `ExhaustedAfterEveryTier`, `CallEnds`; 554 thousand states |
| `receipt` | a debate of up to two rounds or a legacy one, two keys and an unusable setting, two redeployments | `ReceiptVerifies`, `HashCoversWhatIsShown`, `MarkdownTellsTheSame`, `NoVerdictMissing`, `ReceiptNeverChanges`; 132 thousand states |
| `token_gate` | two requests, five environments, five ticks, a cache lifetime of two, one tick of delay | `KeyWasRecent`, `PrincipalFollowsKey`, `FailsClosed`, `ConfiguredStaysConfigured`, `RequestDecided`; 199 thousand states |
| `listing` | four debates, two clock readings, pages of one or two | `NewestFirst`, `NothingSkipped`, `WalkEnds`; 5 thousand states |
| `pool` | two runs, a viewer, a probe; one pooled connection and one overflow | `NothingLeaks`, `ExhaustionPasses`, `EveryoneIsServed`; 98 thousand states |
| `evidence` | two searches of up to two hits among five, two fetches; three URLs, one inside another; one hit without a title; a pool with an id twice and URLs of its own; twelve arguments | `OrderDoesNotShow`, `TextOfItsOwnUrl`, `EveryFailureIsReported`, `CitationsAreTheSources`; 429 thousand states |

Why the bounds are enough. *Service*: a debate's rounds repeat the same superstep pattern; with
three rounds there is a first, a middle and a last one, and the limit is met both by the cap and by
the request. Two failures let the handler's own write fail after the write it handles. *Stream*:
viewers share only the row, so one stands for all; two rounds give every kind of difference between
two polls, including several updates between them. *Rate limit*: three requests against a limit of
two exceed it with one still between its two calls; which
caller's requests they are does not matter to the key. The counter stops at 4: the code only tells
apart 1, at most the limit, and more. *Cascade*: a share of five ticks has room for all three
attempts with short backoffs, and not with long ones or a slow attempt; one tick of lag per timer
adds up to more than a share would forgive if the shares were not recomputed.

*Receipt*: two rounds and a legacy row of one; two redeployments put none, one or two
changes of the key between a receipt and the key it is verified with, the key coming back included. *Token
gate*: two threads are enough to overtake each other; five ticks with a lifetime of two let a key
expire and be fetched again; an age does not depend on which key it is of, so one bastion key and one
unusable answer stand for all.

*Listing*: two readings and four ids give equal times, clocks that run apart, and pages that end
between equal times; the theorems hold for all sizes. *Pool*: four tasks on two connections, one of
them overflow, meet an exhausted pool in every place; the pool has no other state. *Evidence*: two
calls of each kind are enough to return in the wrong order and to fail separately; two hits of one
URL with different titles, in one search or in both, and more distinct URLs than fetches; the arguments
mention a URL inside another, the hit without a title and a URL that only the pool has.

### Disagreements between the code and what is written about it

Each of these runs checks one statement of a doc, a comment or a docstring and finds it violated.

| Run | Statement | What happens |
|---|---|---|
| `blank_claim` | `docs/specs/06-persistence.md:58`: running goes to done or error | a claim of blanks passes the request schema, is marked running, and `initial_state` raises before the `try`: the row stays running |
| `eternal_key` | docstring of `core/rate_limit.py`: fails open, no new point of failure | a failure between INCR and EXPIRE leaves a key nothing deletes; its caller is refused for good after `limit` requests |
| `signed_bytes` | comment at `schemas/debates.py:94`: the signature is over the same JSON that the hash digests | the signature covers the rounds as returned, with a null confidence each, the stored hash the rounds as rendered, without: hashing the response does not give `transcript_hash` |

Smaller ones met on the way, which change only what is reported and have no run of their own:
`rounds_run` counts entries, two per round (`api/routers/platform.py:64`), where
`docs/specs/99-platform-integration.md:43` expects at most 3; the event of the stream's safety
timeout holds only a reason, where the comment above it (`api/routers/debates.py:339`) says "emit
done with last known state"; a tier whose backoff does not fit reports its last failure, for example
`rate_limited`, where `docs/specs/04-llm-router.md:102` says it is given up as `timeout`.

## Fairness

* `DebateService`: weak fairness of the service's own steps outside the graph and of the deadline
  (`ServiceStep`). asyncio runs the task, database calls return or raise (connect, pool and statement
  timeouts), and `asyncio.timeout` fires. Nothing is assumed of the nodes: `RunEnds` holds with all
  of them hanging.
* `DebateStream`: weak fairness of the generator's steps, strong fairness of its timeout, because
  every turn of the loop sleeps a quarter of a second and the monotonic clock passes the deadline
  after finitely many turns. Nothing is assumed of the debate or of the viewer.
* `RateLimit`: Redis's clock runs, and a request goes on after its INCR. Nothing makes requests come.
* `TokenGate`: asyncio runs every request, and a fetch ends within its httpx timeout. Nothing is
  assumed of bastion. `Lag` bounds the clock, not the requests: between bastion's answer and the
  store, and between reading the cache and the decision, at most `Lag` ticks pass. The code does not
  enforce this; without it no age could be bounded.
* `DebateListing`: a client that has begun a walk goes on asking. Nobody has to create debates.
* `SessionPool`: the database answers, so sessions go on; a wait for a connection ends with one or
  with `pool_timeout`; the deadline fires. No order among waiters, so a waiter may always be passed
  over and time out: the properties hold all the same. Nothing is assumed of graphs and readers.
* `TranscriptReceipt`, `Evidence`: safety only.
* `LlmCascade`: the router's own steps and the clock. Nothing is assumed of OpenRouter.

## Proofs

All theorems hold for every value of the constants under the `ASSUME`s of the modules: positive
round limits, numeric scores with zero among them, `None` outside the verdicts, the scores and the
lists of entries (it stands for SQL's NULL, which a row's `rounds_struct` is when it is no list); for
the evidence, that a pool's ids and the markers of an argument are UUIDs or junk
(`EvidencePoolItem.certificate_id` is a `UUID`, and `extract_cert_markers` keeps what parses as one), a
missing URL or title (`Blank`) is no id and no URL, and `None`, no text, is neither; for
the cascade, a deadline of at least a tick for each tier, positive attempts and backoff base, settings
that name a model for each tier, and `PowersOfTwo`, that a power of two is a
natural number (the provers have no rules for powers; TLC evaluates it for the run's attempts).

**TranscriptProofs.** What `_build_rounds_struct` makes of whole rounds. If the entries are of one
round after another, the two sides of each in any order (`InTurn`), an entry's place is the last or
the last but one of its round (`PlaceInTurn`), so the structure lists round after round, the
proponent first (`StructInOrder`). If each entry also was written on the earlier rounds alone
(`Blind`), place determines the entry, and any two finishing orders make the same structure
(`BlindStruct`, `StructOfBlindRounds`). The markdown's own grouping and sorting are followed
separately: the round numbers of such entries are 1 to n (`RoundsAre`, `KthRound`), an entry's place
in its round is its side's (`PlaceOfSide`), so each section lists the proponent and then the skeptic
(`SectionOfBlindRounds`, `MarkdownOfBlindRounds`). No induction over the rounds is needed: the sets
of places counted are intervals. The other two modules cite these lemmas.

**DebateServiceProofs** has two inductive invariants. `IInv` ties together what can be said without
following the updates. The properties are not inductive alone: `SidesArgueBlind` is about saved
entries, which come from `result`, whose entries were written on `state.rounds`; so the channels must
hold exactly two entries per judged round whenever a side's update can be read
(`ChannelsAdvanceByRounds`), and the collected entries must have the property too
(`CollectedArgueBlind`). `FailsClosed`, `ReplyIsTheFinalRow` and `TerminalRowFrozen` follow from
where `run` can be when the row has which status (`RowAndRunAgree`). One lemma per conjunct shows
that every action keeps it; `Invariance` combines them.

That a done row is complete, and that every step of the service is one of `DebateRecord`, depends on
how far the loop has read. `KeepsUp` says so: as long as the graph's updates can reach the row (`run`
in the `try` or in front of the final write), the channels hold whole rounds in order
(`ChannelsOrdered`), each node's update of a superstep is read once (`UpdatesOnce`), the collected
entries are the earlier rounds and those of this round whose update was read, in the order read
(`CollectedInTurn`, `RoundsKeepUp`), the score follows the judge's update (`ScoreKeepsUp`), the next
superstep is the one the scores call for (`JudgeDecides`), and the receipt is of the channels when
the render node's update is read (`RenderedLast`). A run that leaves the `try`, by the deadline, a
failure or a crash, leaves the row behind its updates, never ahead, and no longer adds to it; so the
condition on `run` loses nothing. `KeepsUpStep` has one lemma per action. `DoneRowComplete` then holds at
the final write (`CompleteWhenFinal`), where the sorted structure of the channels and that of the
row's entries, which are in completion order, are the same by `StructOfBlindRounds`, and likewise the
markdown of the two by `MarkdownOfBlindRounds` (`SameMarkdown`, `SameReceipt`). For
`RowIsPublicRecord`, `RowSteps` lists the steps that write a column readers see; the writes that
publish entries, a score or the result are an `Argue`, a `Score` and a `Finish` (`SaveIsArgue`,
`SaveIsScore`, `SaveIsFinish`); everything else stutters.
Theorems: `TypeCorrect`, `Invariance`, `SidesAlwaysArgueBlind`, `AlwaysFailsClosed`,
`ReplyAlwaysFinal`, `TerminalRowsFrozen`, `RowKeepsUpWithGraph`, `DoneRowsComplete`,
`ServiceImplementsRecord`.

**LlmCascadeProofs.** `CascadeInv`: a tier in which calls are made ends within the deadline, and a
backoff within its tier (`SharesNest`), so the time can pass the deadline only by the lag of the
timer that is due; the tiers given up are the first ones of an order that names no model twice
(`FailuresFollowTheOrder`). The arithmetic is one lemma about integer division. For
`ExhaustedAfterEveryTier`, `Unhurried` adds that while no timer is late a tier starts, and its share
ends, with a tick left for each tier after it (`ShareLeavesTheOthers`). Theorems: `CascadeTypes`,
`CascadeInvariant`, `CallWithinDeadline`, `ModelsAskedOnce`, `EveryTierHadItsTurn`.

**DebateReadersProofs** is about the readers of the table: of one row, over the steps of
`DebateRecord`, which the refinement says are all the service makes, and of the list.

*The stream.* `StreamInv`: what a generator has read or shown is an earlier state of the row
(`Precedes`, which is transitive and which every step of `DebateRecord` extends), `last` is the
fingerprint of what was shown, and a final row that was read is the row. A row with the fingerprint
of one it grew from shows the same (`SameSnapshotSameEvent`), so an unchanged fingerprint hides
nothing. Assumed besides: a fingerprint is never `None`. Theorems: `StreamInvariant`,
`NothingIsHeldBack`, `DoneIsAlwaysFinal`, `EventsMoveForward`.

*The transcripts.* `RInv` traces every answer to the row and the setting: a receipt or a markdown
was served of a done row, which has no step left (`DoneIsFinal`), under the setting it records, and
a public key is that setting's (`JsonIsOfTheRow`, `PemIsOfTheKey`); redeployments leave both as they
are, so a receipt and a key verify exactly when their settings are one key (`KeyVerifies`). Of the
row it says that its entries are in turn and blind, that it is scored between rounds only, and that
a done row was told by render: markdown, structure and hash, or, in a legacy row, the markdown alone
(`RowWhole`). So a receipt's rounds are whole in either case, the hash is of them or of the
structure they were coerced from, which shows the same (`BodyOfDone`). The markdown's k-th section
holds the two entries of round k, the proponent's first, and a receipt's entries are the same two
for each round (`EachSideArgued`), so the two transcripts agree although each is put in order on its
own. Theorems: `ReceiptInvariant`, `ReceiptsVerify`, `VerdictNeverMissing`, `ReceiptsNeverChange`,
`HashesCover`, `TranscriptsAgree`.

*The listing.* `ListingInv` adds to the three invariants what a page means for those before
it (`Passed`): everything the walk has returned is the cursor's debate or newer, so the `WHERE` keeps
it out of the next page. That a page is the newest part of what is ahead, and the last of it the
cursor, are lemmas about `Newest` and `LastOf` for any page size. The assumption is only that times
and ids are ordered (numbers) and limits positive. Theorems: `ListingTypeCorrect`,
`WalkIsNewestFirst`, `WalkSkipsNothing`.

**EvidenceProofs.** Nothing here needs an induction, because the loops are stated by place. A finite
set that an order compares without ties has, for each k, exactly one element with k - 1 before it; so
`Ordered` lists each element once and in order (`OrderedLists`). `AscendingIs`
and `CollectedSelects` say it of places: what a loop collects are the elements at the places it does
not skip, each place once, in order. `Joined` and `JoinedElements` do the same for two lists behind
each other, the certificates and the URLs of an argument.

The inductive invariant, `EvidenceInv`, says of the calls that have returned that each is one of
those made and has returned once; of the fetches, that each is of the URL it was started for; and of
the plan, what it was made of: of the gathered searches while the node fetches, and also of the
gathered fetches once it is planned; of the transcript, that it is of an argument made on that plan.
When as many calls have returned as were made, all have (`EveryCallReturned`, by counting), so the
calls are ordered by number without ties, and what `gather` returns is that order
(`GatheredInOrder`); the invariant thus gives `OrderDoesNotShow`. For `TextOfItsOwnUrl`, the places
fetched have different URLs, so a text names one place (`FetchesDiffer`, `TextsAre`, `GainedIs`).
`CitationsAreTheSources` is what `EvidenceInv` makes of lemmas about the citations of any pool,
evidence and argument. Theorems: `PlanIsSequential`, `TextsStayWithTheirUrls`,
`FailuresOnlyDegrade`, `CitationsNameTheSources`.

**TokenGateProofs.** `GInv` bounds the age of every value where it is: the cache's stamp is at most
`Lag` later than its answer, however threads interleave, and a request's value at most the lifetime
and its slack older (`AgesBounded`). What decisions need is proved from the types of the trusted keys
(`TrustedKeys`). For `ConfiguredStaysConfigured`, `EnvironmentWins` adds that a request holds the
environment's value when there is one. Theorems: `GateInvariant`, `KeysAreRecent`,
`PrincipalsFollowKeys`, `GateFailsClosed`, `StaysConfigured`.

**SessionPoolProofs.** The types and `NothingLeaks` are inductive together (`PoolInv`); the lemmas say
what taking, releasing and leaving does to the slots, for any tasks and sizes. Theorems:
`PoolInvariant`, `ConnectionsNeverLeak`.

**RateLimitProofs.** `AtMostLimitPerWindow` is not inductive: requests that have counted and are not
told yet will be admitted. `RateInv` counts them in (`CountedOnce`: the admitted and the `Pending`
together are at most the count, and the limit), and says whose task a missing time to live is
(`OneExpirer`). That no step prolongs a window (`FixedWindow`) follows from `OneExpirer` as well: whoever
is about to set the time to live is the only one, and the key has none yet, so neither a late EXPIRE
nor one whose call raised meets a window that runs.
Theorems: `RateInvariant`, `NeverMoreThanLimit`, `WindowsAreFixed`, `KeysWillExpire`.

Types are proved in these modules, as a part of each inductive invariant, and are not checked again
by the runs; likewise the inductive invariants themselves.

Every invariant and every action property of the runs, and the refinement, is proved. Only
model-checked is liveness (`RunEnds`, `StreamEnds`, `EndReported`, `LimitIsTemporary`, `CallEnds`,
`RequestDecided`, `WalkEnds`, `ExhaustionPasses`, `EveryoneIsServed`), which is beyond the prover
together with fairness.

## Not modelled

* The text of prompts, arguments and markdown: data no property tells apart. So are queries,
  snippets, dates, and what `_format.py` lists of the pool and of the hits for a prompt. Of the
  markdown, the claim, the reasoning and the evidence links are left out; its sections, their order and
  the verdict are modelled.
* `bucket_key` and `client_identifier`, which decide from one request's headers and token which key it
  is counted on: a pure function of strings that callers and proxies may choose.
* What `pool_pre_ping` does to a dead connection is SQLAlchemy's and assumed (`CheckedOut`); how long
  `trafilatura.extract` holds the event loop is only the constant `Lag` of the cascade.
* LangGraph, Redis, Postgres, OpenRouter: external, modelled from the calls the code makes.
* Tracing, metrics, logging, request ids, the version routes: they observe.
* Configuration and prompts: constants of the models. Migrations and the entrypoint run before the
  service does, alone.
* `evals/run_eval.py`: a sequential script run by hand against the same graph; it stores nothing and
  asks a failed claim once more.
* The rate limiter switched off or without a client, where it does nothing.
* The claims of a platform token other than its issuer and role, and the clock they are compared with:
  one fact, in order or not.
* `_build_rounds_struct` sorts what LangGraph's task order has already put in that order; in
  `DebateService` the sort matters only for the comparison with the saved row, whose entries are in
  completion order.

## Plan

Ordered by what matters most to a debate.

1. `Transcript`, `DebateRecord`, `DebateService`: done, with their run and the violations above.
2. `DebateServiceProofs`: types, the inductive invariant, four consequences: done.
3. `DebateStream` over `DebateRecord`, and its part of `DebateReadersProofs`: done.
4. `RateLimit` and `RateLimitProofs`: done.
5. `LlmCascade` and `LlmCascadeProofs`: done.
6. `TokenGate` and `TokenGateProofs`: done.
7. `TranscriptReceipt` over `DebateRecord`, and its part of `DebateReadersProofs`: done.
8. `DebateListing`, and its part of `DebateReadersProofs`: done.
9. `SessionPool` and `SessionPoolProofs`: done.
10. `Citations` and `Evidence`: done.
11. `TranscriptProofs`; with them `DoneRowComplete`, the refinement of `DebateRecord` step by step,
    `HashCoversWhatIsShown` and `MarkdownTellsTheSame`: done.
12. `FixedWindow`, and render's markdown put in order on its own, with `MarkdownTellsTheSame` about the
    two orders: done.
13. `EvidenceProofs`, about `Evidence` and `Citations` with their loops stated by place: done.
