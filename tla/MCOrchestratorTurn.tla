------------------------- MODULE MCOrchestratorTurn -------------------------
(* Sessions of three turns with every kind of message: the clauses below    *)
(* are what the classifiers of the repository find in the sentence quoted   *)
(* above each.                                                              *)
EXTENDS OrchestratorTurn

C(joint, starter, opens, says) ==
  [joint |-> joint, starter |-> starter, opens |-> opens, says |-> says]

\* "hello"
Hello ==
  <<C("none", FALSE, {"greeting", "salutation"}, {})>>

\* "quit"
Quit ==
  <<C("none", FALSE, {"shutdown"}, {})>>

\* "Explain photosynthesis"
Explain ==
  <<C("none", TRUE, {}, {})>>

\* "What is a mathematical model? How do engineers use it?"
Phantom ==
  <<C("none", TRUE, {"asking", "interrogative"},
      {"model", "questionMark", "what"}),
    C("question", TRUE, {"asking", "interrogative"},
      {"inUse", "questionMark"})>>

\* "look up the history of Rome"
LookUp ==
  <<C("none", TRUE, {"asking", "webCommand"}, {})>>

\* "Explain photosynthesis, and open Notepad"
ExplainAndOpen ==
  <<C("none", TRUE, {}, {}),
    C("and", TRUE, {"open"}, {})>>

\* "Who is the current president and what is the latest python version?"
CurrentFacts ==
  <<C("none", TRUE, {"asking", "interrogative"}, {"current", "currentThing"}),
    C("and", TRUE, {"asking", "interrogative"},
      {"questionMark", "temporal", "what"})>>

\* "search the web for python and verify that python is fast"
SearchAndVerify ==
  <<C("none", TRUE, {"asking", "webCommand"},
      {"capability", "searchOnline", "web"}),
    C("and", TRUE, {"asking", "interrogative", "verify"}, {})>>

\* "look up the history of Rome and verify that python is fast"
LookUpAndVerify ==
  <<C("none", TRUE, {"asking", "webCommand"}, {}),
    C("and", TRUE, {"asking", "interrogative", "verify"}, {})>>

\* "Who are you and what model are you using?"
WhoAndWhich ==
  <<C("none", TRUE, {"asking", "identity", "interrogative"}, {}),
    C("and", TRUE, {"asking", "interrogative"},
      {"inUse", "model", "questionMark", "what"})>>

\* "What model are you using, and explain photosynthesis."
ModelAndExplain ==
  <<C("none", TRUE, {"asking", "interrogative"}, {"inUse", "model", "what"}),
    C("and", TRUE, {}, {})>>

\* "Can you set reminders?"
CanYou ==
  <<C("none", TRUE, {"asking", "canYou", "capabilityAlone", "interrogative"},
      {"capability", "questionMark", "reminders"})>>

\* "What can you do?"
WhatCanYouDo ==
  <<C("none", TRUE, {"asking", "interrogative", "whatCanYouDo"},
      {"questionMark", "what"})>>

\* "I live in Paris. How far is Rome?"
LiveHere ==
  <<C("none", FALSE, {"location"}, {}),
    C("stop", TRUE, {"asking", "interrogative"}, {"questionMark"})>>

\* "I live in Columbus, and what is photosynthesis?"
LiveThere ==
  <<C("none", FALSE, {"location"}, {}),
    C("and", TRUE, {"asking", "interrogative"}, {"questionMark", "what"})>>

\* "close Notepad; send a letter"
CloseAndSend ==
  <<C("none", TRUE, {"close"}, {}),
    C("semicolon", TRUE, {"send"}, {})>>

\* "create a file named notes.txt"
Create ==
  <<C("none", TRUE, {"create", "drafts"}, {"fileObject"})>>

AllMessages ==
  {Hello, Quit, Explain, Phantom, LookUp, ExplainAndOpen, CurrentFacts,
   SearchAndVerify, LookUpAndVerify, WhoAndWhich, ModelAndExplain, CanYou,
   WhatCanYouDo, LiveHere, CloseAndSend, Create}

FewMessages == {Explain, Phantom, LookUp, LiveHere, LiveThere}

\* The offline foundation, a brain that failed to start, and the beta with
\* and without its runtimes.
Instances ==
  {[ai |-> FALSE, router |-> FALSE, brain |-> FALSE, retrieval |-> FALSE,
    execution |-> FALSE],
   [ai |-> TRUE, router |-> FALSE, brain |-> FALSE, retrieval |-> FALSE,
    execution |-> FALSE],
   [ai |-> TRUE, router |-> TRUE, brain |-> TRUE, retrieval |-> FALSE,
    execution |-> FALSE],
   [ai |-> TRUE, router |-> TRUE, brain |-> TRUE, retrieval |-> TRUE,
    execution |-> TRUE]}

Beta == {i \in Instances : i.retrieval}

CONSTANTS ollama, ollama_fast, openai, u1, u2, u3

\* As the program registers them.
Order == <<ollama, ollama_fast, openai>>
LocalProviders == {ollama, ollama_fast}
ConfiguredProviders == {ollama, ollama_fast, openai}
Urls == {u1, u2, u3}

Link(u, n) == [url |-> u, weight |-> n]
Result(u, n, m) == [url |-> u, weight |-> n, snippet |-> m]

\* The first engine is unreachable, finds nothing to the point, one document,
\* or more than may be kept: the second is the best, a link leads nowhere, and
\* the snippets are one short.
SomePages ==
  {[status |-> "unreachable", links |-> <<>>, snippets |-> <<>>],
   [status |-> "ok", links |-> <<Link(u1, 0)>>, snippets |-> <<>>],
   [status |-> "ok", links |-> <<Link(u1, 1)>>, snippets |-> <<0>>],
   [status |-> "ok",
    links |-> <<Link(u1, 1), Link(u2, 1), Link(NoUrl, 3), Link(u3, 1)>>,
    snippets |-> <<0, 1, 0>>]}

\* The second engine fails, finds nothing, or finds a document that its
\* snippet makes relevant and its extract does not.
SomeFindings ==
  {[status |-> "malformed", results |-> <<>>],
   [status |-> "ok", results |-> <<>>],
   [status |-> "ok", results |-> <<Result(u1, 0, 1)>>]}

SomeExtracts ==
  {[status |-> "refused", texts |-> <<>>],
   [status |-> "ok", texts |-> u1 :> 0],
   [status |-> "unreachable", texts |-> <<>>]}
=============================================================================
