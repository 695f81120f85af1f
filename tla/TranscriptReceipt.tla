-------------------------- MODULE TranscriptReceipt --------------------------
(***************************************************************************)
(* The read side of a finished debate: GET transcript.json with its hash   *)
(* and signature, GET transcript.md, and GET /platform/receipt-public-key, *)
(* asked by somebody who wants to verify the debate, in any order and any  *)
(* number of times, while the debate goes on and while the service is      *)
(* redeployed with other settings.  The row is DebateRecord's, or a legacy *)
(* one, written before rounds_struct and transcript_hash were columns.     *)
(*                                                                         *)
(* Each handler awaits the row and is synchronous from there on, so each   *)
(* answer is one step.  A signature is the pair of the key and the bytes   *)
(* signed.  Left out: the claim and the citations, which render and the    *)
(* coercion treat alike.                                                   *)
(***************************************************************************)
EXTENDS DebateRecord

CONSTANTS
  SigningKeys,  \* Ed25519 key pairs
  NotAKey,      \* other values of TRANSCRIPT_SIGNING_KEY: unset, garbage, RSA
  MaxDeploys    \* bound on redeployments

ASSUME KeysAreKeys == None \notin SigningKeys /\ SigningKeys \cap NotAKey = {}
ASSUME SomeDeploys == MaxDeploys \in Nat
\* A row without a structure is known by its NULL, which no list of rounds is.
ASSUME NoneIsNoStruct == None \notin Seq(Entry)

VARIABLES
  signing_key,  \* settings.transcript_signing_key of the running process
  deploys,      \* how often it has been replaced
  json,         \* the last answer to GET transcript.json
  md,           \* the last answer to GET transcript.md
  pem           \* the last answer to GET receipt-public-key

answers == <<json, md, pem>>
receiptVars == <<record, signing_key, deploys, json, md, pem>>

-----------------------------------------------------------------------------
(* The payloads                                                             *)

\* One persisted entry as a TranscriptRound: a side that is not known is read
\* as the proponent, a round below 1 as 1, and the optional confidence, which
\* nothing persists, is null.
TypedRound(e) ==
  [side |-> IF e.side \in Sides \cup {"judge"} THEN e.side ELSE "proponent",
   round |-> IF e.round < 1 THEN 1 ELSE e.round,
   argument |-> e.argument,
   confidence |-> None]

\* Mutant of CoerceRounds: the raw rounds are taken also when there is a struct.
CoerceRawRounds(r) == [i \in DOMAIN r.rounds |-> TypedRound(r.rounds[i])]

\* _coerce_rounds_struct: the persisted structure, or the raw rounds of a row
\* without one, in the order they are stored in.
CoerceRounds(r) ==
  LET src == IF r.receipt.rounds_struct # None THEN r.receipt.rounds_struct
                                               ELSE r.rounds
  IN [i \in DOMAIN src |-> TypedRound(src[i])]

\* No key, and a warning, when the setting is not an Ed25519 private key.
LoadPrivateKey(setting) == IF setting \in SigningKeys THEN setting ELSE None

\* The canonical JSON is abstracted to the payload that it serialises, as the
\* hash is in Transcript.
SignTranscript(setting, canonical) ==
  IF LoadPrivateKey(setting) = None THEN None
  ELSE [key |-> LoadPrivateKey(setting), signed |-> canonical]

Verifies(canonical, signature, public) ==
  signature.key = public /\ signature.signed = canonical

\* Mutant of ReceiptBody: what is signed is the structure as it was rendered.
ReceiptBodySignedAsStored(r, setting) ==
  LET typed == CoerceRounds(r)
      stored == r.receipt.transcript_hash
      hash == IF stored # None THEN stored
              ELSE HashTranscript(r.verdict, r.confidence, typed)
  IN [verdict |-> r.verdict, confidence |-> r.confidence, rounds |-> typed,
      transcript_hash |-> hash, signature |-> SignTranscript(setting, hash)]

\* TranscriptJsonOut of a done row: the hash stored by render if there is one,
\* else that of the rounds returned; the signature over the rounds returned.
ReceiptBody(r, setting) ==
  LET confidence == IF r.confidence # None THEN r.confidence ELSE 0
      typed == CoerceRounds(r)
      canonical == HashTranscript(r.verdict, confidence, typed)
      stored == r.receipt.transcript_hash
  IN [verdict |-> r.verdict, confidence |-> confidence, rounds |-> typed,
      transcript_hash |-> IF stored # None THEN stored ELSE canonical,
      signature |-> SignTranscript(setting, canonical)]

\* An answer, with the setting it was given under (history).
Answer(code, body) == [code |-> code, body |-> body, under |-> signing_key]
NotAsked == [code |-> 0, body |-> None, under |-> None]

-----------------------------------------------------------------------------
(* The endpoints                                                            *)

\* Mutants of JsonAnswer: the status is not looked at; a verdict is enough.
JsonAnswerAtAnyStatus ==
  CASE record.status = "absent" -> Answer(404, None)
    [] record.status # "absent" /\ record.verdict = None -> Answer(500, None)
    [] OTHER -> Answer(200, ReceiptBody(record, signing_key))
JsonAnswerAtVerdict ==
  CASE record.status = "absent" -> Answer(404, None)
    [] record.status # "absent" /\ record.verdict = None -> Answer(409, None)
    [] OTHER -> Answer(200, ReceiptBody(record, signing_key))

JsonAnswer ==
  CASE record.status = "absent" -> Answer(404, None)
    [] record.status \notin {"absent", "done"} -> Answer(409, None)
    [] record.status = "done" /\ record.verdict = None -> Answer(500, None)
    [] OTHER -> Answer(200, ReceiptBody(record, signing_key))

GetTranscriptJson ==
  /\ json' = JsonAnswer
  /\ UNCHANGED <<record, signing_key, deploys, md, pem>>

GetTranscript ==
  /\ md' = CASE record.status = "absent" -> Answer(404, None)
             [] record.status \notin {"absent", "done"} -> Answer(409, None)
             [] record.status = "done" /\ record.receipt.transcript_md = None ->
                  Answer(404, None)
             [] OTHER -> Answer(200, record.receipt.transcript_md)
  /\ UNCHANGED <<record, signing_key, deploys, json, pem>>

ReceiptPublicKey ==
  /\ pem' = Answer(IF LoadPrivateKey(signing_key) = None THEN 404 ELSE 200,
                   LoadPrivateKey(signing_key))
  /\ UNCHANGED <<record, signing_key, deploys, json, md>>

\* The service restarts, with the same or another TRANSCRIPT_SIGNING_KEY.
Deploy ==
  /\ deploys < MaxDeploys
  /\ deploys' = deploys + 1
  /\ signing_key' \in SigningKeys \cup NotAKey
  /\ UNCHANGED <<record, json, md, pem>>

\* The debate moves on under its readers.
DebateStep == Next /\ UNCHANGED <<signing_key, deploys, json, md, pem>>

-----------------------------------------------------------------------------

\* A debate of one round that ended before revision 0002: its entries are in
\* the order its sides finished in, and only the markdown was rendered.
LegacyRow(first, second, verdict, confidence) ==
  LET entry(side) == [side |-> side, round |-> 1, argument |-> 0]
      rounds == <<entry(first), entry(second)>>
  IN [Absent EXCEPT
        !.status = "done", !.verdict = verdict, !.confidence = confidence,
        !.rounds = rounds, !.scored = 2,
        !.receipt.transcript_md = Markdown(rounds, verdict, confidence)]

ReceiptInit ==
  /\ \/ Init
     \/ \E v \in Verdicts, c \in Confidences, first, second \in Sides :
          first # second /\ record = LegacyRow(first, second, v, c)
  /\ signing_key \in SigningKeys \cup NotAKey
  /\ deploys = 0
  /\ json = NotAsked /\ md = NotAsked /\ pem = NotAsked

ReceiptNext ==
  \/ DebateStep \/ Deploy
  \/ GetTranscriptJson \/ GetTranscript \/ ReceiptPublicKey

ReceiptSpec == ReceiptInit /\ [][ReceiptNext]_receiptVars

-----------------------------------------------------------------------------
(* Properties                                                               *)

Served(answer) == answer.code = 200

\* What a verifier rebuilds from the fields of an answer (README, receipts).
Rebuilt(body) == HashTranscript(body.verdict, body.confidence, body.rounds)

ReceiptTypeOK ==
  /\ record.status \in {"absent", "pending", "running"} \cup Terminal
  /\ signing_key \in SigningKeys \cup NotAKey
  /\ deploys \in 0..MaxDeploys
  /\ json.code \in {0, 200, 404, 409, 500} /\ md.code \in {0, 200, 404, 409}
  /\ pem.code \in {0, 200, 404}
  /\ \A answer \in {json, md, pem} :
       answer.under \in SigningKeys \cup NotAKey \cup {None}
  /\ pem.body \in SigningKeys \cup {None}

\* The README's recipe works, and no better than it can: a receipt and a public
\* key, asked for in either order and whatever was deployed in between, verify
\* for what the receipt itself shows if and only if they were given under one
\* key, for new and for legacy rows; a receipt given under no usable key is
\* unsigned.
ReceiptVerifies ==
  Served(json) =>
    IF json.under \in SigningKeys
    THEN Served(pem) => (Verifies(Rebuilt(json.body), json.body.signature, pem.body)
                           <=> json.under = pem.under)
    ELSE json.body.signature = None

\* Whichever way the hash was come by, it is of the verdict, the confidence and
\* the entries that the same answer shows, in the order it shows them; at most
\* the null confidence of each round is missing from it.
HashCoversWhatIsShown ==
  Served(json) =>
    LET hash == json.body.transcript_hash
        shown == json.body.rounds
    IN /\ hash.verdict = json.body.verdict /\ hash.confidence = json.body.confidence
       /\ DOMAIN hash.rounds = DOMAIN shown
       /\ \A i \in DOMAIN shown :
            /\ hash.rounds[i].side = shown[i].side
            /\ hash.rounds[i].round = shown[i].round
            /\ hash.rounds[i].argument = shown[i].argument

\* Where the markdown lists an entry, as <<section, place in it>>, and what it
\* lists there.
Listed == UNION {{k} \X DOMAIN md.body.sections[k].entries : k \in DOMAIN md.body.sections}
Line(p) ==
  LET section == md.body.sections[p[1]]
  IN [round |-> section.round, side |-> section.entries[p[2]].side,
      argument |-> section.entries[p[2]].argument]

\* The two transcripts of a debate tell the same story, though each is put in
\* order in its own way: the markdown shows the verdict and the score of the
\* receipt, and the receipt's entries, each once, by round and then by side.
MarkdownTellsTheSame ==
  Served(json) /\ Served(md) =>
    /\ md.body.verdict = json.body.verdict /\ md.body.confidence = json.body.confidence
    /\ {Line(p) : p \in Listed} =
         {[round |-> json.body.rounds[i].round, side |-> json.body.rounds[i].side,
           argument |-> json.body.rounds[i].argument] : i \in DOMAIN json.body.rounds}
    /\ \A p, q \in Listed :
         p[1] < q[1] \/ (p[1] = q[1] /\ p[2] < q[2]) => Earlier(Line(p), Line(q))

\* "A done debate without a verdict is an internal invariant violation": no
\* row that the service or its predecessor can leave behind is answered 500.
NoVerdictMissing == json.code # 500

\* Once a receipt has been served, every later request is served the same
\* verdict, rounds and hash, across redeployments; only the signature follows
\* the key.
ReceiptNeverChanges ==
  [][Served(json) =>
       /\ Served(json')
       /\ \A field \in {"verdict", "confidence", "rounds", "transcript_hash"} :
            json'.body[field] = json.body[field]]_receiptVars

\* The comment on TranscriptJsonOut.signature: it is made "over the same
\* canonical transcript JSON that transcript_hash digests".
HashIsOfTheSignedBytes ==
  Served(json) /\ json.body.signature # None =>
    json.body.transcript_hash = json.body.signature.signed
=============================================================================
