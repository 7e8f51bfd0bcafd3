---------------------------- MODULE SessionMemory ----------------------------
(***************************************************************************)
(* What a session remembers: the bounded transcript of                     *)
(* src/core/conversation.py and the grounded facts of                      *)
(* src/core/factual_context.py.  An entry is [role, turn, size]: its words *)
(* are those of that turn, and size stands for their length.               *)
(***************************************************************************)
EXTENDS Integers, Sequences, SequencesExt

CONSTANTS
  MaxEntries,   \* max_turns of the conversation
  MaxContext    \* max_context_characters, in the unit of `size'

ASSUME MemoryAssumption == MaxEntries \in Nat \ {0} /\ MaxContext \in Nat \ {0}

Entry == [role : {"user", "assistant"}, turn : Nat, size : Nat \ {0}]

\* Mutant of Remember: the newest entry is dropped when the transcript is full.
AppendUnlessFull(transcript, entry) ==
  IF Len(transcript) = MaxEntries THEN transcript
  ELSE transcript \o <<entry>>

\* Mutant of Remember: nothing is dropped.
AppendAlways(transcript, entry) == transcript \o <<entry>>

\* ConversationRuntime.append drops the oldest entries beyond max_turns.
Remember(transcript, entry) ==
  LET longer == transcript \o <<entry>>
  IN IF Len(longer) <= MaxEntries THEN longer
     ELSE SubSeq(longer, Len(longer) - MaxEntries + 1, Len(longer))

\* The length of the entries from the i-th on, with a line break between two.
LengthFrom(transcript, i) ==
  FoldLeft(LAMBDA sum, entry : sum + entry.size + 1, -1,
           SubSeq(transcript, i, Len(transcript)))

\* ConversationRuntime.render_context: the newest entries that fit; the last
\* one, shortened, when not even it fits.
Rendered(transcript) ==
  LET fits == {i \in DOMAIN transcript :
                 LengthFrom(transcript, i) <= MaxContext}
      last == Len(transcript)
      first == IF fits = {} THEN last
               ELSE CHOOSE i \in fits : \A j \in fits : i <= j
  IN IF transcript = <<>> THEN <<>> ELSE SubSeq(transcript, first, last)

-----------------------------------------------------------------------------
(* FactualContextRuntime                                                   *)

Priority == [unverified |-> 0, inferred |-> 1, user_asserted |-> 2,
             retrieval_verified |-> 3, runtime_verified |-> 4]

\* What the user said is replaced only by what the user says.
CanReplace(existing, incoming) ==
  IF existing = "user_asserted" THEN incoming = "user_asserted"
  ELSE Priority[incoming] >= Priority[existing]

\* set_fact: facts is a function from keys to [value, provenance].
SetFact(facts, key, value, provenance) ==
  IF key \in DOMAIN facts /\ ~CanReplace(facts[key].provenance, provenance)
    THEN facts
  ELSE [k \in DOMAIN facts \cup {key} |->
          IF k = key THEN [value |-> value, provenance |-> provenance]
          ELSE facts[k]]

SetUserFact(facts, key, value) == SetFact(facts, key, value, "user_asserted")
=============================================================================
