------------------------------ MODULE Launches ------------------------------
(***************************************************************************)
(* What a request to open something asks for: _execute_system of           *)
(* src/execution/action_bridge.py with its extractors and the aliases of   *)
(* src/tools/windows_actions.py.  The words of a request are               *)
(*   names      the application aliases that occur in them, as a set       *)
(*   addresses  the addresses in the order in which they are said          *)
(***************************************************************************)
EXTENDS Naturals, Sequences, FiniteSets

CONSTANTS
  Alias,      \* _APP_ALIASES, in order: longer ones first
  Shorter,    \* an alias that occurs in every longer name of its program
  Address,    \* addresses, each of which begins with its scheme
  Unnamed,    \* the rest of the words, when they hold no known name
  NoAddress   \* url = None

Aliases == {Alias[i] : i \in DOMAIN Alias}

ASSUME AliasAssumption ==
  /\ Alias \in Seq(Aliases)
  /\ \A i, j \in DOMAIN Alias : Alias[i] = Alias[j] => i = j
  /\ DOMAIN Shorter \subseteq Aliases
  /\ \A a \in DOMAIN Shorter : Shorter[a] \in Aliases
  /\ Unnamed \notin Aliases /\ NoAddress \notin Aliases \cup {Unnamed}
  /\ Address \cap (Aliases \cup {Unnamed, NoAddress}) = {}

\* What is handed to a tool, one after the other.
Launched == [action : {"application.launch", "web.open_url"},
             target : Aliases \cup {Unnamed} \cup Address,
             url : Address \cup {NoAddress}]

\* The members of seq at the places in S, one after the other: the k-th is
\* the one that k - 1 of them come before.
Chosen(seq, S) ==
  [k \in 1 .. Cardinality(S) |->
     seq[CHOOSE i \in S : Cardinality({j \in S : j < i}) = k - 1]]

\* The known names, in the order of the list and not of the words, without
\* the one that only occurs as a part of a longer name.
Applications(words) ==
  Chosen(Alias, {i \in DOMAIN Alias :
                   /\ Alias[i] \in words.names
                   /\ \A a \in words.names \cap DOMAIN Shorter :
                        Shorter[a] # Alias[i]})

\* Each address once.
Addresses(words) ==
  Chosen(words.addresses,
         {i \in DOMAIN words.addresses :
            \A j \in 1..(i - 1) : words.addresses[j] # words.addresses[i]})

Launch(application, address) ==
  [action |-> "application.launch", target |-> application, url |-> address]

OpenUrl(address) ==
  [action |-> "web.open_url", target |-> address, url |-> address]

\* Mutant of Batch: the address given to the application is opened as well.
BatchTwice(words) ==
  LET apps == Applications(words)
      urls == Addresses(words)
      first == IF Len(apps) = 1 /\ Len(urls) = 1 THEN urls[1] ELSE NoAddress
  IN [i \in DOMAIN apps |-> Launch(apps[i], first)]
     \o [i \in DOMAIN urls |-> OpenUrl(urls[i])]

\* One application and one address are opened together; otherwise the
\* applications come first, then the addresses, and when nothing is
\* recognised the words themselves are taken for an application.
Batch(words) ==
  LET apps == Applications(words)
      urls == Addresses(words)
  IN IF Len(apps) = 1 /\ Len(urls) = 1
       THEN <<Launch(apps[1], urls[1])>>
     ELSE IF apps = <<>> /\ urls = <<>>
       THEN <<Launch(Unnamed, NoAddress)>>
     ELSE [i \in DOMAIN apps |-> Launch(apps[i], NoAddress)]
          \o [i \in DOMAIN urls |-> OpenUrl(urls[i])]
=============================================================================
