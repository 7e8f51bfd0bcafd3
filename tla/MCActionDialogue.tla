-------------------------- MODULE MCActionDialogue --------------------------
(* Instances of ActionDialogue for TLC. *)
EXTENDS ActionDialogue, TLC

CONSTANTS here, there, file, hello, reply, desk, outside,
          googleChrome, notepad, chrome, site, page

Asked(mode, filename, folder, content, overwrite) ==
  [mode |-> mode, filename |-> filename, folder |-> folder,
   content |-> content, overwrite |-> overwrite]

\* Requests that say everything, with and without "overwrite", one for a
\* folder outside the allowed roots, and requests that leave something out.
SomeRequests ==
  {Asked("read", file, desk, None, FALSE),
   Asked("read", file, None, None, FALSE),
   Asked("write", file, desk, hello, FALSE),
   Asked("write", file, desk, hello, TRUE),
   Asked("write", file, outside, hello, FALSE),
   Asked("write", file, None, hello, FALSE),
   Asked("write", None, None, None, FALSE)}

Said(words, filename, folder) ==
  [words |-> words, filename |-> filename, folder |-> folder,
   content |-> reply]

\* Every kind of answer; a name or a folder may come alone or together.
EveryReply ==
  {Said(words, None, None) : words \in {"cancel", "yes", "no", "other"}}
    \cup {Said("other", name, folder) : name \in {file, None},
                                        folder \in {desk, outside, None}}

\* Two programs, one of which goes by two names, and two addresses.
ThreeNames == <<googleChrome, notepad, chrome>>
BothSites == {site, page}
ChromeToo == googleChrome :> chrome

Words(names, addresses) == [names |-> names, addresses |-> addresses]

\* One application, both, one with an address, both with an address, one
\* with two addresses, addresses alone, and nothing that is known.
SomeOpenings ==
  {Words({notepad}, <<>>), Words({googleChrome, chrome, notepad}, <<>>),
   Words({googleChrome, chrome}, <<site, site>>),
   Words({chrome, notepad}, <<site>>), Words({chrome}, <<site, page>>),
   Words({}, <<page, site, page>>), Words({}, <<>>)}

\* The defaults, and one action registered at a higher level.
SomePolicies ==
  LET default == [action \in Managed |-> "approval_required"]
  IN {default, [default EXCEPT !["filesystem.write"] = "high_risk"],
      [default EXCEPT !["web.open_url"] = "high_risk"]}

Symmetry == Permutations(Session)
=============================================================================
