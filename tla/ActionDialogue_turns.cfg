\* Two sessions, one file name in two folders, one of them outside, two
\* programs and two addresses.
SPECIFICATION Spec
CONSTANTS
  here = here  there = there  file = file
  hello = hello  reply = reply  desk = desk  outside = outside
  Session = {here, there}
  FileName = {file}
  Folder = {desk, outside}
  Inside = {desk}
  Text = {hello, reply}
  None = None
  Junk = Junk
  Requests <- SomeRequests
  Replies <- EveryReply
  googleChrome = googleChrome  notepad = notepad  chrome = chrome
  site = site  page = page
  Alias <- ThreeNames
  Shorter <- ChromeToo
  Address <- BothSites
  Unnamed = Unnamed
  NoAddress = NoAddress
  Openings <- SomeOpenings
  Policies <- SomePolicies
SYMMETRY Symmetry
INVARIANTS
  DialogueSound
  ActedOnce
PROPERTIES
  WritesWarranted
  AnswerTruthful
  LaunchAnswered
