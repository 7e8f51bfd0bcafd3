--------------------------- MODULE OutputBoundary ---------------------------
(***************************************************************************)
(* What may leave the model: the three sanitizers of                       *)
(* src/core/orchestrator.py.  A text is a sequence of pieces [kind, of]:   *)
(* an opening or a closing tag of an internal section, the section's       *)
(* content, a leading "Cauvis:" label, words that claim a former session,  *)
(* their correction, and any other words.                                  *)
(***************************************************************************)
EXTENDS Naturals, Sequences, SequencesExt, Subsequences

InternalSections == <<"verified_capability_truth", "grounded_factual_context",
                      "retrieved_evidence", "conversation_history">>

Open(section) == [kind |-> "open", of |-> section]
Close(section) == [kind |-> "close", of |-> section]
Inner(section) == [kind |-> "inner", of |-> section]
Piece(kind) == [kind |-> kind, of |-> "text"]

Withheld == <<Piece("withheld")>>
NothingSaid == <<Piece("nothingSaid")>>

\* The sections of a system prompt, in its order.
SectionsOf(shown) ==
  FlattenSeq([k \in DOMAIN InternalSections |->
                LET section == InternalSections[k]
                IN IF section \in shown
                     THEN <<Open(section), Inner(section), Close(section)>>
                   ELSE <<>>])

\* A block runs from its opening tag to the next closing tag, or to the end.
InBlock(text, section, i) ==
  \E j \in 1..i : /\ text[j] = Open(section)
                  /\ \A k \in j..(i - 1) : text[k] # Close(section)

\* Mutant of BeforeStrayClose: a closing tag alone is only a tag.
StrayCloseOnly(text, section, i) == text[i] = Close(section)

\* A closing tag outside every block means the text began inside one.
BeforeStrayClose(text, section, i) ==
  \E j \in i..Len(text) :
    text[j] = Close(section) /\ ~InBlock(text, section, j)

Strip(text, section) ==
  Picked(text, {i \in DOMAIN text : /\ ~InBlock(text, section, i)
                                    /\ ~BeforeStrayClose(text, section, i)})

\* _sanitize_model_output: the sections one after the other.
Sanitized(text) ==
  LET left[k \in 0..Len(InternalSections)] ==
        IF k = 0 THEN text ELSE Strip(left[k - 1], InternalSections[k])
      rest == left[Len(InternalSections)]
  IN IF rest = <<>> THEN Withheld ELSE rest

\* _sanitize_session_memory_provenance.
ThisSession(text) ==
  [i \in DOMAIN text |-> IF text[i] = Piece("formerSession")
                         THEN Piece("earlier") ELSE text[i]]

\* _sanitize_response_presentation: leading labels only.
Unlabelled(text) ==
  LET words == {i \in DOMAIN text : text[i] # Piece("label")}
      first == CHOOSE i \in words : \A j \in words : i <= j
  IN IF words = {} THEN NothingSaid ELSE SubSeq(text, first, Len(text))

\* The model's words as they reach the user and the transcript.
Presented(text, history) ==
  Unlabelled(IF history THEN ThisSession(Sanitized(text))
             ELSE Sanitized(text))
=============================================================================
