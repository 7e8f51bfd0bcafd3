---------------------------- MODULE WebRetrieval ----------------------------
(***************************************************************************)
(* Read-only retrieval and what it proves: WebRetrievalRuntime.search of   *)
(* src/intelligence/retrieval.py with the ranking of                       *)
(* src/intelligence/retrieval_query.py, and the evidence of                *)
(* src/intelligence/evidence.py.                                           *)
(*                                                                         *)
(* What comes over the network is a reply with a status and, when it is    *)
(* "ok", results.  Their text is abstracted to a weight: how much of it    *)
(* the significant terms of the query, and its preferred sites, make up.   *)
(***************************************************************************)
EXTENDS FiniteSets, Naturals, Sequences, SequencesExt, Subsequences

CONSTANTS
  Url,         \* addresses of documents
  NoUrl,       \* what is left of a link that leads nowhere
  MaxResults   \* max_results

ASSUME ResultAssumption == MaxResults \in Nat \ {0} /\ NoUrl \notin Url

\* A reply of another status than 200..299 is "refused".
Status == {"ok", "refused", "malformed", "unreachable"}

\* A page of the first engine: its links and, apart from them, its snippets.
Page == [status : Status,
         links : Seq([url : Url \cup {NoUrl}, weight : Nat]),
         snippets : Seq(Nat)]

\* What the second engine finds; the extracts [status, texts : address ->
\* weight] come in another reply.
Finding == [status : Status, results : Seq([url : Url, weight : Nat,
                                            snippet : Nat])]

\* What is kept of a document is its address.
Document == Url

NeverSearched == [attempted |-> FALSE, succeeded |-> FALSE]

NoDocuments == [success |-> FALSE, documents |-> <<>>]

-----------------------------------------------------------------------------
(* WebRetrievalRuntime                                                     *)

Raised == [raised |-> TRUE, documents |-> <<>>]
Returned(documents) == [raised |-> FALSE, documents |-> documents]

\* More candidates than results are taken, for the ranking to choose from.
CandidateLimit == IF 4 * MaxResults > 8 THEN 4 * MaxResults ELSE 8

\* The parser keeps links and snippets apart and never fails; the i-th link
\* is given the i-th snippet, and one that leads nowhere is passed over.
DuckDuckGo(page) ==
  LET snippet(i) == IF i \in DOMAIN page.snippets THEN page.snippets[i] ELSE 0
      candidates == [i \in DOMAIN page.links |->
                       [url |-> page.links[i].url,
                        score |-> page.links[i].weight + snippet(i)]]
      usable == Picked(candidates, {i \in DOMAIN candidates :
                                      candidates[i].url # NoUrl})
  IN IF page.status \in {"refused", "unreachable"} THEN Raised
     ELSE IF page.status = "malformed" THEN Returned(<<>>)
     ELSE Returned([k \in {i \in DOMAIN usable : i <= CandidateLimit} |->
                      usable[k]])

\* Two calls: what is found, then the extracts, which replace the snippets
\* and which a refusal leaves out.
Wikipedia(finding, extract) ==
  LET text(r) == IF extract.status = "ok" /\ r.url \in DOMAIN extract.texts
                   THEN extract.texts[r.url] ELSE r.snippet
  IN IF finding.status # "ok" THEN Raised
     ELSE IF finding.results = <<>> THEN Returned(<<>>)
     ELSE IF extract.status \in {"malformed", "unreachable"} THEN Raised
     ELSE Returned([k \in DOMAIN finding.results |->
            LET r == finding.results[k]
            IN [url |-> r.url, score |-> r.weight + text(r)]])

\* The best MaxResults of the documents of some weight, those of one weight in
\* the engine's order; of all of them when the query has no significant term.
Ranked(documents, terms) ==
  LET relevant == {i \in DOMAIN documents :
                     ~terms \/ documents[i].score > 0}
      before(i, j) == \/ documents[i].score > documents[j].score
                      \/ documents[i].score = documents[j].score /\ i <= j
      order == InOrder(relevant, {p \in relevant \X relevant :
                                    before(p[1], p[2])})
  IN [k \in {i \in DOMAIN order : i <= MaxResults} |-> documents[order[k]].url]

\* One engine after the other; the first that leaves a relevant document ends
\* the search, and an engine that raises is passed over.
Search(terms, page, finding, extract) ==
  LET answers == <<DuckDuckGo(page), Wikipedia(finding, extract)>>
      ranked == [i \in DOMAIN answers |-> Ranked(answers[i].documents, terms)]
      useful == {i \in DOMAIN answers : ~answers[i].raised /\ ranked[i] # <<>>}
      first == CHOOSE i \in useful : \A j \in useful : i <= j
  IN IF useful = {} THEN NoDocuments
     ELSE [success |-> TRUE, documents |-> ranked[first]]

\* What the search leaves behind for the capability snapshot.
Observed(result) == [attempted |-> TRUE, succeeded |-> result.success]

Succeeded(result) == result.success /\ result.documents # <<>>

-----------------------------------------------------------------------------
(* FactualEvidence and ClaimEvidenceBundle                                 *)

SourceType == {"user_assertion", "runtime_observation", "retrieval",
               "provider_citation", "model_generation", "unknown"}
Stance == {"supports", "contradicts", "neutral"}

IndependentlyVerifiable(item) ==
  item.source_type \in {"runtime_observation", "retrieval"}

Independent(item, stance) ==
  IndependentlyVerifiable(item) /\ item.stance = stance

\* Evidence on both sides settles nothing.
Evaluate(evidence) ==
  LET supported == \E item \in evidence : Independent(item, "supports")
      contradicted == \E item \in evidence : Independent(item, "contradicts")
  IN IF evidence = {} THEN "unverified"
     ELSE IF supported = contradicted THEN "insufficient"
     ELSE IF contradicted THEN "contradicted"
     ELSE "supported"

\* Mutant of RetrievalEvidence: what was found is taken for a proof.
ProvingEvidence(result) ==
  {[source |-> d, source_type |-> "retrieval", stance |-> "supports"] :
     d \in Range(result.documents)}

\* The bundle the orchestrator makes of a search: every document is neutral.
RetrievalEvidence(result) ==
  {[source |-> d, source_type |-> "retrieval", stance |-> "neutral"] :
     d \in Range(result.documents)}
=============================================================================
