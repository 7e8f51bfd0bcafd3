------------------------- MODULE ActionDialogueProofs -------------------------
(***************************************************************************)
(* Proofs about ActionDialogue, for every set of sessions, names, folders, *)
(* texts, requests, replies, openings and policies.                        *)
(***************************************************************************)
EXTENDS ActionDialogue, SequenceTheorems, FiniteSetTheorems, TLAPS

\* The session has said the parameters, and that a file may be replaced.
Covered(s, job) ==
  /\ job.filename \in said[s].filename \cup {None}
  /\ job.folder \in said[s].folder \cup {None}
  /\ job.content \in said[s].content \cup {None}
  /\ job.overwrite => said[s].consent

Complete(job) ==
  /\ job.filename # None /\ job.folder # None
  /\ job.mode = "write" => job.content # None

Busy(s) == turn # Idle /\ turn.session = s

\* A pending action was said by its session, which has not written yet,
\* unless this turn is just completing it.
PendingCovered ==
  \A s \in Session : pending[s] # None =>
    /\ Covered(s, pending[s].data)
    /\ Busy(s) \/ said[s].writes = 0

OnFile == turn # Idle /\ turn.stage # "opening"

Wrote == turn.stage \in {"verifying", "measuring"}

\* A turn on a file has complete parameters its session has said, and is at
\* a stage of its mode.
TurnCovered ==
  OnFile =>
    /\ Covered(turn.session, turn.job) /\ Complete(turn.job)
    /\ turn.stage \in {"looking", "writing", "verifying", "measuring"}
         => turn.job.mode = "write"
    /\ turn.stage \in {"reading", "rechecking"} => turn.job.mode = "read"
    /\ said[turn.session].writes = IF Wrote THEN 1 ELSE 0

\* write_text has admitted the path it is about to open.
WriteAdmitted ==
  turn.stage = "writing" =>
    /\ turn.job.folder \in Inside
    /\ Exists(PathOf(turn.job)) => turn.job.overwrite \/ late

\* A request to open something neither finds nor leaves a question, and
\* what was opened and what is left are what was asked for.
OpeningSound ==
  turn.stage = "opening" =>
    /\ pending[turn.session] = None
    /\ turn.results \o turn.left = Batch(turn.words)

IInv ==
  /\ TypeOK
  /\ PendingExplained
  /\ PendingCovered
  /\ TurnCovered
  /\ WriteAdmitted
  /\ OpeningSound
  /\ ActedOnce

-----------------------------------------------------------------------------
(* What is said, asked and filled in.                                      *)

\* The fields a request lacks, and what is asked about it.
Lacking(job) == {f \in Needed(job.mode) : job[f] = None}

Explained(q) ==
  IF Lacking(q.data) # {} THEN q.missing = Lacking(q.data)
  ELSE q.missing = {"overwrite"} /\ ~ q.data.overwrite

\* The words have said the parameters.
SaidBy(words, job) ==
  /\ job.filename \in words.filename \cup {None}
  /\ job.folder \in words.folder \cup {None}
  /\ job.content \in words.content \cup {None}
  /\ job.overwrite => words.consent

AnswerExplained ==
  turn = Idle /\ answer # None =>
    /\ answer.status = "clarification_required"
         => pending[answer.session] # None
    /\ answer.status \in {"success", "error", "blocked"}
         => pending[answer.session] = None

LEMMA ExplainedMeans ==
  PendingExplained <=>
    /\ \A s \in Session : pending[s] # None => Explained(pending[s])
    /\ AnswerExplained
BY DEF PendingExplained, Explained, Lacking, AnswerExplained

LEMMA CoveredMeans ==
  \A s, job : Covered(s, job) <=> SaidBy(said[s], job)
BY DEF Covered, SaidBy

LEMMA ParametersType ==
  ASSUME NEW job \in Parameters
  PROVE  /\ job.mode \in {"read", "write"}
         /\ job.filename \in FileName \cup {None}
         /\ job.folder \in Folder \cup {None}
         /\ job.content \in Text \cup {None}
         /\ job.overwrite \in BOOLEAN
BY DEF Parameters

LEMMA LackingMeans ==
  ASSUME NEW job \in Parameters
  PROVE  /\ Complete(job) <=> Lacking(job) = {}
         /\ "filename" \in Lacking(job) <=> job.filename = None
         /\ "folder" \in Lacking(job) <=> job.folder = None
         /\ "content" \in Lacking(job) <=>
              job.mode = "write" /\ job.content = None
         /\ Lacking(job) \subseteq {"filename", "folder", "content"}
         /\ job.mode = "write" => Missing(job) = Lacking(job)
<1>1. job.mode \in {"read", "write"}
  BY ParametersType
<1>2. Needed("read") = {"filename", "folder"}
  BY DEF Needed
<1>3. Needed("write") = {"filename", "folder", "content"}
  BY DEF Needed
<1>4. job["filename"] = job.filename /\ job["folder"] = job.folder
      /\ job["content"] = job.content
  OBVIOUS
<1>5. CASE job.mode = "read"
  BY <1>2, <1>4, <1>5 DEF Lacking, Complete
<1>6. CASE job.mode = "write"
  BY <1>3, <1>4, <1>6 DEF Lacking, Complete, Missing
<1> QED
  BY <1>1, <1>5, <1>6

LEMMA BlankAsks ==
  /\ Blank \in Parameters
  /\ Lacking(Blank) = {"filename", "folder"}
  /\ \A words : SaidBy(words, Blank)
<1>1. Blank \in Parameters
  BY DEF Blank, Parameters
<1>2. Lacking(Blank) = {"filename", "folder"}
  BY DEF Blank, Lacking, Needed
<1>3. \A words : SaidBy(words, Blank)
  BY DEF Blank, SaidBy
<1> QED
  BY <1>1, <1>2, <1>3

\* A request is said by its words.
LEMMA HeardSays ==
  ASSUME NEW q \in Parameters
  PROVE  Heard(q) \in Speech /\ Heard(q).writes = 0 /\ SaidBy(Heard(q), q)
<1>1. /\ Heard(q).filename = {q.filename} \ {None}
      /\ Heard(q).folder = {q.folder} \ {None}
      /\ Heard(q).content = {q.content} \ {None}
      /\ Heard(q).consent = q.overwrite
      /\ Heard(q).writes = 0
  BY DEF Heard
<1>2. Heard(q) \in Speech
  BY ParametersType DEF Heard, Speech
<1>3. SaidBy(Heard(q), q)
  BY <1>1 DEF SaidBy
<1> QED
  BY <1>1, <1>2, <1>3

LEMMA ReplyType ==
  ASSUME NEW reply \in Replies
  PROVE  /\ reply.words \in {"cancel", "yes", "no", "other"}
         /\ reply.filename \in FileName \cup {None}
         /\ reply.folder \in Folder \cup {None}
         /\ reply.content \in Text
BY DialogueAssumption

\* The answer to a question is said as well, and a question that is left
\* is explained by what is still lacking.
LEMMA ReplySays ==
  ASSUME NEW s \in Session, NEW p \in Question, NEW reply \in Replies,
         said[s] \in Speech, SaidBy(said[s], p.data), Explained(p),
         ~ Withdrawn(p, reply)
  PROVE  LET job == Filled(p, reply)
             heard == HeardAlso(s, p, reply)
         IN  /\ job \in Parameters /\ heard \in Speech
             /\ heard.writes = said[s].writes
             /\ SaidBy(heard, job) /\ SaidBy(heard, p.data)
             /\ job.mode = p.data.mode
             /\ Left(p, reply) # {} =>
                  Explained([missing |-> Left(p, reply), data |-> job])
             /\ Left(p, reply) = {} => Complete(job)
<1> DEFINE job == Filled(p, reply)
           heard == HeardAlso(s, p, reply)
<1>1. p.data \in Parameters /\ p.missing \subseteq Field
  BY DEF Question
<1>2. /\ job.mode = p.data.mode
      /\ job.filename = Given("filename", p.data.filename, reply, p.missing)
      /\ job.folder = Given("folder", p.data.folder, reply, p.missing)
      /\ job.content = Given("content", p.data.content, reply, p.missing)
      /\ job.overwrite <=>
           \/ p.data.overwrite
           \/ "overwrite" \in p.missing /\ reply.words = "yes"
  BY <1>1 DEF Filled, Parameters
<1>3. /\ heard.filename = said[s].filename \cup ({reply.filename} \ {None})
      /\ heard.folder = said[s].folder \cup ({reply.folder} \ {None})
      /\ heard.content = said[s].content \cup {reply.content}
      /\ heard.writes = said[s].writes
      /\ heard.consent <=>
           said[s].consent \/ (p.missing = {"overwrite"} /\ reply.words = "yes")
  BY DEF HeardAlso, Speech
<1>4. job \in Parameters
  BY <1>1, ReplyType DEF Filled, Given, Parameters
<1>5. heard \in Speech
  BY ReplyType DEF HeardAlso, Speech
<1> HIDE DEF job, heard
<1>6. SaidBy(heard, p.data)
  BY <1>3 DEF SaidBy
<1>7. /\ job.filename \in heard.filename \cup {None}
      /\ job.folder \in heard.folder \cup {None}
      /\ job.content \in heard.content \cup {None}
  <2>1. /\ job.filename \in {p.data.filename, reply.filename}
        /\ job.folder \in {p.data.folder, reply.folder}
        /\ job.content \in {p.data.content, reply.content}
    BY <1>2 DEF Given
  <2> QED
    BY <1>3, <1>6, <2>1 DEF SaidBy
<1>8. "overwrite" \in p.missing <=> Lacking(p.data) = {}
  BY <1>1, LackingMeans DEF Explained
<1>9. SaidBy(heard, job)
  <2>1. ASSUME job.overwrite
        PROVE  heard.consent
    BY <1>2, <1>3, <1>6, <1>8, <2>1 DEF Explained, SaidBy
  <2> QED
    BY <1>7, <2>1 DEF SaidBy
<1>10. CASE Lacking(p.data) = {}
  <2>1. /\ p.missing = {"overwrite"} /\ ~ p.data.overwrite
        /\ Complete(p.data)
    BY <1>1, <1>10, LackingMeans DEF Explained
  <2>2. /\ job.filename = p.data.filename /\ job.folder = p.data.folder
        /\ job.content = p.data.content
    BY <1>2, <2>1 DEF Given
  <2>3. Complete(job)
    BY <1>2, <2>1, <2>2 DEF Complete
  <2>4. Left(p, reply) # {} => Left(p, reply) = {"overwrite"} /\ ~ job.overwrite
    BY <1>2, <2>1 DEF Left
  <2>5. Lacking(job) = {}
    BY <1>4, <2>3, LackingMeans
  <2>6. Left(p, reply) # {} =>
          Explained([missing |-> Left(p, reply), data |-> job])
    BY <2>4, <2>5 DEF Explained
  <2> QED
    BY <1>2, <1>3, <1>4, <1>5, <1>6, <1>9, <2>3, <2>6 DEF job, heard
<1>11. CASE Lacking(p.data) # {}
  <2>1. p.missing = Lacking(p.data)
    BY <1>11 DEF Explained
  <2>2. /\ "overwrite" \notin p.missing
        /\ p.missing \subseteq {"filename", "folder", "content"}
    BY <1>1, <2>1, LackingMeans
  <2>3. \A f \in {"filename", "folder", "content"} :
          f \in Left(p, reply) <=> f \in p.missing /\ reply[f] = None
    BY <2>2 DEF Left
  <2>4. /\ "filename" \in Left(p, reply) <=> job.filename = None
        /\ "folder" \in Left(p, reply) <=> job.folder = None
        /\ "content" \in Left(p, reply) <=>
             job.mode = "write" /\ job.content = None
    BY <1>1, <1>2, <2>1, <2>3, LackingMeans DEF Given
  <2>5. Left(p, reply) \subseteq {"filename", "folder", "content"}
    BY <2>2 DEF Left
  <2>6. Left(p, reply) = Lacking(job)
    BY <1>4, <2>4, <2>5, LackingMeans
  <2>7. Left(p, reply) = {} => Complete(job)
    BY <1>4, <2>6, LackingMeans
  <2>8. Left(p, reply) # {} =>
          Explained([missing |-> Left(p, reply), data |-> job])
    BY <2>6 DEF Explained
  <2> QED
    BY <1>2, <1>3, <1>4, <1>5, <1>6, <1>9, <2>7, <2>8 DEF job, heard
<1> QED
  BY <1>10, <1>11

-----------------------------------------------------------------------------
(* How a step changes the turn.                                            *)

LEMMA TurnCases ==
  ASSUME TypeOK
  PROVE  /\ turn = Idle <=> turn.stage = "idle"
         /\ OnFile => /\ turn \in FileTurn /\ turn.session \in Session
                      /\ turn.job \in Parameters
                      /\ turn.stage \in Stages \ {"idle", "opening"}
         /\ turn.stage = "opening" =>
              /\ turn \in OpeningTurn /\ turn.session \in Session
              /\ turn # Idle
BY DEF TypeOK, Idle, FileTurn, OpeningTurn, OnFile

LEMMA NothingSaid == Nothing \in Speech /\ Nothing.writes = 0
BY DEF Nothing, Speech

\* A question is asked, and the turn ends with it.
LEMMA AskStep ==
  ASSUME IInv, NEW s \in Session, NEW missing \in SUBSET Field,
         NEW job \in Parameters, NEW heard \in Speech, heard.writes = 0,
         SaidBy(heard, job), Explained([missing |-> missing, data |-> job]),
         turn = Idle \/ turn.session = s,
         AskFor(s, missing, job, heard)
  PROVE  IInv'
<1> DEFINE q == [missing |-> missing, data |-> job]
<1>1. q \in Question /\ q # None /\ q.data = job
  BY QuestionAssumption DEF Question
<1> HIDE DEF q
<1>2. /\ pending \in [Session -> {None} \cup Question]
      /\ said \in [Session -> Speech]
  BY DEF IInv, TypeOK
<1>3. /\ pending' = [pending EXCEPT ![s] = q]
      /\ answer' = [session |-> s, status |-> "clarification_required",
                    performed |-> FALSE]
      /\ turn' = Idle
      /\ UNCHANGED <<files, level, late>>
  BY DEF AskFor, Answered, q
<1>4. pending'[s] = q /\ \A t \in Session \ {s} : pending'[t] = pending[t]
  BY <1>2, <1>3
<1>5. said' = [said EXCEPT ![s] = heard]
  BY <1>1, <1>4 DEF AskFor, Remembered
<1>6. said'[s] = heard /\ \A t \in Session \ {s} : said'[t] = said[t]
  BY <1>2, <1>5
<1>7. TypeOK'
  <2>1. /\ pending' \in [Session -> {None} \cup Question]
        /\ said' \in [Session -> Speech]
    BY <1>1, <1>2, <1>3, <1>5
  <2>2. answer' \in [session : Session, status : Statuses, performed : BOOLEAN]
    BY <1>3 DEF Statuses
  <2> QED
    BY <1>3, <2>1, <2>2 DEF IInv, TypeOK
<1>8. PendingExplained'
  <2>1. \A t \in Session : pending'[t] # None => Explained(pending'[t])
    BY <1>4, ExplainedMeans DEF IInv, q
  <2>2. AnswerExplained'
    <3>1. answer'.session = s /\ answer'.status = "clarification_required"
      BY <1>3
    <3> QED
      BY <1>1, <1>4, <3>1 DEF AnswerExplained
  <2> QED
    BY <2>1, <2>2, ExplainedMeans DEF PendingExplained, Explained, Lacking,
                                      AnswerExplained
<1>9. PendingCovered'
  <2>1. ASSUME NEW t \in Session, pending'[t] # None
        PROVE  SaidBy(said'[t], pending'[t].data) /\ said'[t].writes = 0
    <3>1. CASE t = s
      BY <1>1, <1>4, <1>6, <3>1
    <3>2. CASE t # s
      BY <1>4, <1>6, <2>1, <3>2, CoveredMeans DEF IInv, PendingCovered, Busy
    <3> QED
      BY <3>1, <3>2
  <2> QED
    BY <2>1 DEF PendingCovered, Covered, SaidBy
<1>10. TurnCovered' /\ WriteAdmitted' /\ OpeningSound'
  BY <1>3 DEF TurnCovered, OnFile, WriteAdmitted, OpeningSound, Idle
<1>11. ActedOnce'
  BY <1>6 DEF IInv, ActedOnce
<1> QED
  BY <1>7, <1>8, <1>9, <1>10, <1>11 DEF IInv

\* The turn ends otherwise: no question is left, and nothing of what was
\* said is kept.
LEMMA EndStep ==
  ASSUME IInv, turn # Idle, NEW status \in {"success", "error", "blocked"},
         NEW performed \in BOOLEAN, NEW heard \in Speech,
         files' \in [Path -> Text \cup {None, Junk}],
         End(status, performed, heard)
  PROVE  IInv'
<1> DEFINE s == turn.session
<1>1. s \in Session
  BY DEF IInv, TypeOK, FileTurn, OpeningTurn
<1>2. /\ pending \in [Session -> {None} \cup Question]
      /\ said \in [Session -> Speech]
  BY DEF IInv, TypeOK
<1>3. /\ pending' = [pending EXCEPT ![s] = None]
      /\ answer' = [session |-> s, status |-> status, performed |-> performed]
      /\ turn' = Idle /\ level' = level /\ late' = FALSE
  BY DEF End, Settled, Answered
<1>4. pending'[s] = None /\ \A t \in Session \ {s} : pending'[t] = pending[t]
  BY <1>1, <1>2, <1>3
<1>5. said' = [said EXCEPT ![s] = Nothing]
  BY <1>4 DEF End, Remembered
<1>6. said'[s] = Nothing /\ \A t \in Session \ {s} : said'[t] = said[t]
  BY <1>1, <1>2, <1>5
<1>7. TypeOK'
  <2>1. /\ pending' \in [Session -> {None} \cup Question]
        /\ said' \in [Session -> Speech]
    BY <1>2, <1>3, <1>5, NothingSaid
  <2>2. answer' \in [session : Session, status : Statuses, performed : BOOLEAN]
    BY <1>1, <1>3 DEF Statuses
  <2> QED
    BY <1>3, <2>1, <2>2 DEF IInv, TypeOK
<1> HIDE DEF s
<1>8. PendingExplained'
  <2>1. \A t \in Session : pending'[t] # None => Explained(pending'[t])
    BY <1>4, ExplainedMeans DEF IInv
  <2>2. AnswerExplained'
    <3>1. answer'.session = s /\ answer'.status # "clarification_required"
      BY <1>3
    <3> QED
      BY <1>4, <3>1 DEF AnswerExplained
  <2> QED
    BY <2>1, <2>2 DEF PendingExplained, Explained, Lacking, AnswerExplained
<1>9. PendingCovered'
  <2>1. ASSUME NEW t \in Session, pending'[t] # None
        PROVE  SaidBy(said'[t], pending'[t].data) /\ said'[t].writes = 0
    BY <1>4, <1>6, <2>1, CoveredMeans DEF IInv, PendingCovered, Busy, s
  <2> QED
    BY <2>1 DEF PendingCovered, Covered, SaidBy
<1>10. TurnCovered' /\ WriteAdmitted' /\ OpeningSound'
  BY <1>3 DEF TurnCovered, OnFile, WriteAdmitted, OpeningSound, Idle
<1>11. ActedOnce'
  BY <1>6, NothingSaid DEF IInv, ActedOnce
<1> QED
  BY <1>7, <1>8, <1>9, <1>10, <1>11 DEF IInv

LEMMA StopStep ==
  ASSUME IInv, turn # Idle, NEW status \in {"success", "error", "blocked"},
         NEW performed \in BOOLEAN, Stop(status, performed)
  PROVE  IInv'
<1>1. said[turn.session] \in Speech
  BY TurnCases DEF IInv, TypeOK, OnFile
<1>2. files' \in [Path -> Text \cup {None, Junk}]
  BY DEF Stop, IInv, TypeOK
<1> QED
  BY <1>1, <1>2, EndStep DEF Stop

\* A turn on a file begins with complete parameters.
LEMMA BeginStep ==
  ASSUME IInv, turn = Idle, NEW s \in Session, NEW job \in Parameters,
         NEW heard \in Speech, NEW stage \in {"deciding", "looking"},
         heard.writes = 0, SaidBy(heard, job), Complete(job),
         pending[s] # None => SaidBy(heard, pending[s].data),
         stage = "looking" => job.mode = "write",
         Begin(s, stage, job), said' = [said EXCEPT ![s] = heard]
  PROVE  IInv'
<1>1. /\ turn' = [stage |-> stage, session |-> s, job |-> job]
      /\ UNCHANGED <<files, level, pending, answer, late>>
  BY DEF Begin
<1>2. said'[s] = heard /\ \A t \in Session \ {s} : said'[t] = said[t]
  BY DEF IInv, TypeOK
<1>3. turn' \in FileTurn
  BY <1>1 DEF FileTurn, Stages
<1>4. TypeOK'
  BY <1>1, <1>3 DEF IInv, TypeOK
<1>5. /\ turn'.stage = stage /\ turn'.session = s /\ turn'.job = job
      /\ turn' # Idle
  BY <1>1 DEF Idle
<1>6. PendingExplained'
  BY <1>1, <1>5 DEF IInv, PendingExplained
<1>7. PendingCovered'
  <2>1. ASSUME NEW t \in Session, pending[t] # None
        PROVE  /\ SaidBy(said'[t], pending[t].data)
               /\ t = s \/ said'[t].writes = 0
    <3>1. CASE t = s
      BY <1>2, <2>1, <3>1
    <3>2. CASE t # s
      BY <1>2, <2>1, <3>2, CoveredMeans DEF IInv, PendingCovered, Busy
    <3> QED
      BY <3>1, <3>2
  <2> QED
    BY <1>1, <1>5, <2>1 DEF PendingCovered, Covered, SaidBy, Busy
<1>8. TurnCovered'
  BY <1>2, <1>5 DEF TurnCovered, Covered, SaidBy, Wrote
<1>9. WriteAdmitted' /\ OpeningSound'
  BY <1>5 DEF WriteAdmitted, OpeningSound
<1>10. ActedOnce'
  BY <1>2 DEF IInv, ActedOnce
<1> QED
  BY <1>4, <1>6, <1>7, <1>8, <1>9, <1>10 DEF IInv

\* A turn on a file goes on to another stage.
LEMMA EnterStep ==
  ASSUME IInv, OnFile, NEW stage \in Stages \ {"idle", "opening"},
         Enter(stage), UNCHANGED <<level, pending, answer>>,
         files' \in [Path -> Text \cup {None, Junk}], late' \in BOOLEAN,
         said' \in [Session -> Speech],
         \A t \in Session \ {turn.session} : said'[t] = said[t],
         said'[turn.session].filename = said[turn.session].filename,
         said'[turn.session].folder = said[turn.session].folder,
         said'[turn.session].content = said[turn.session].content,
         said'[turn.session].consent = said[turn.session].consent,
         said'[turn.session].writes =
           IF stage \in {"verifying", "measuring"} THEN 1 ELSE 0,
         stage \in {"looking", "writing", "verifying", "measuring"}
           => turn.job.mode = "write",
         stage \in {"reading", "rechecking"} => turn.job.mode = "read",
         WriteAdmitted'
  PROVE  IInv'
<1> DEFINE s == turn.session
<1>1. turn \in FileTurn /\ s \in Session
  BY TurnCases DEF IInv
<1>2. /\ turn' \in FileTurn /\ turn'.stage = stage /\ turn' # Idle
      /\ turn'.session = s /\ turn'.job = turn.job
  BY <1>1 DEF Enter, FileTurn, Idle
<1>3. TypeOK'
  BY <1>2 DEF IInv, TypeOK
<1>4. \A t \in Session : \A job : SaidBy(said'[t], job) <=> SaidBy(said[t], job)
  BY <1>1 DEF SaidBy
<1>5. PendingExplained'
  BY <1>2 DEF IInv, PendingExplained
<1>6. PendingCovered'
  <2>1. ASSUME NEW t \in Session, pending[t] # None
        PROVE  /\ SaidBy(said'[t], pending[t].data)
               /\ t = s \/ said'[t].writes = 0
    BY <1>4, <2>1, CoveredMeans DEF IInv, PendingCovered, Busy
  <2> QED
    BY <1>2, <2>1 DEF PendingCovered, Covered, SaidBy, Busy
<1>7. TurnCovered'
  <2>1. SaidBy(said'[s], turn.job) /\ Complete(turn.job)
    BY <1>1, <1>4, CoveredMeans DEF IInv, TurnCovered
  <2> QED
    BY <1>2, <2>1 DEF TurnCovered, Covered, SaidBy, Wrote
<1>8. OpeningSound'
  BY <1>2 DEF OpeningSound
<1>9. ActedOnce'
  BY <1>1 DEF IInv, ActedOnce
<1> QED
  BY <1>3, <1>5, <1>6, <1>7, <1>8, <1>9 DEF IInv

-----------------------------------------------------------------------------
(* The messages.                                                           *)

LEMMA RequestStep ==
  ASSUME IInv, NEW s \in Session,
         RequestRead(s) \/ RequestWrite(s)
  PROVE  IInv'
<1>1. turn = Idle /\ pending[s] = None
  BY DEF RequestRead, RequestWrite
<1>2. CASE RequestRead(s)
  <2>1. PICK q \in Requests :
          /\ q.mode = "read"
          /\ \/ /\ None \in {q.filename, q.folder}
                /\ AskFor(s, {"filename", "folder"}, Blank, Heard(q))
             \/ /\ None \notin {q.filename, q.folder}
                /\ Begin(s, "deciding", q)
                /\ said' = [said EXCEPT ![s] = Heard(q)]
    BY <1>2 DEF RequestRead
  <2>2. q \in Parameters
    BY DialogueAssumption
  <2>3. CASE AskFor(s, {"filename", "folder"}, Blank, Heard(q))
    <3>1. Explained([missing |-> {"filename", "folder"}, data |-> Blank])
      BY BlankAsks DEF Explained
    <3>2. {"filename", "folder"} \in SUBSET Field
      BY DEF Field
    <3> QED
      BY <1>1, <2>2, <2>3, <3>1, <3>2, BlankAsks, HeardSays, AskStep
  <2>4. CASE /\ None \notin {q.filename, q.folder}
             /\ Begin(s, "deciding", q)
             /\ said' = [said EXCEPT ![s] = Heard(q)]
    <3>1. Complete(q)
      BY <2>1, <2>4 DEF Complete
    <3> QED
      BY <1>1, <2>2, <2>4, <3>1, HeardSays, BeginStep
  <2> QED
    BY <2>1, <2>3, <2>4
<1>3. CASE RequestWrite(s)
  <2>1. PICK q \in Requests :
          /\ q.mode = "write"
          /\ \/ /\ Missing(q) # {}
                /\ AskFor(s, Missing(q), q, Heard(q))
             \/ /\ Missing(q) = {}
                /\ Begin(s, "looking", q)
                /\ said' = [said EXCEPT ![s] = Heard(q)]
    BY <1>3 DEF RequestWrite
  <2>2. q \in Parameters
    BY DialogueAssumption
  <2>3. Missing(q) = Lacking(q)
    BY <2>1, <2>2, LackingMeans
  <2>4. CASE Missing(q) # {} /\ AskFor(s, Missing(q), q, Heard(q))
    <3>1. Explained([missing |-> Missing(q), data |-> q])
      BY <2>3, <2>4 DEF Explained
    <3>2. Missing(q) \in SUBSET Field
      BY DEF Missing, Field
    <3> QED
      BY <1>1, <2>2, <2>4, <3>1, <3>2, HeardSays, AskStep
  <2>5. CASE /\ Missing(q) = {}
             /\ Begin(s, "looking", q)
             /\ said' = [said EXCEPT ![s] = Heard(q)]
    <3>1. Complete(q)
      BY <2>2, <2>3, <2>5, LackingMeans
    <3> QED
      BY <1>1, <2>1, <2>2, <2>5, <3>1, HeardSays, BeginStep
  <2> QED
    BY <2>1, <2>4, <2>5
<1> QED
  BY <1>2, <1>3

LEMMA ResumeStep ==
  ASSUME IInv, NEW s \in Session, Resume(s)
  PROVE  IInv'
<1> DEFINE p == pending[s]
<1>1. turn = Idle /\ p # None
  BY DEF Resume
<1>2. PICK reply \in Replies :
        /\ ~ Withdrawn(p, reply)
        /\ \/ /\ Left(p, reply) # {}
              /\ AskFor(s, Left(p, reply), Filled(p, reply),
                        HeardAlso(s, p, reply))
           \/ /\ Left(p, reply) = {}
              /\ Begin(s, IF Filled(p, reply).mode = "read" THEN "deciding"
                          ELSE "looking", Filled(p, reply))
              /\ said' = [said EXCEPT ![s] = HeardAlso(s, p, reply)]
  BY DEF Resume
<1>3. p \in Question /\ said[s] \in Speech /\ Explained(p)
  BY <1>1, ExplainedMeans DEF IInv, TypeOK
<1>4. SaidBy(said[s], p.data) /\ said[s].writes = 0
  BY <1>1, CoveredMeans DEF IInv, PendingCovered, Busy
<1> HIDE DEF p
<1> DEFINE job == Filled(p, reply)
           heard == HeardAlso(s, p, reply)
<1>5. /\ job \in Parameters /\ heard \in Speech
      /\ heard.writes = 0
      /\ SaidBy(heard, job) /\ SaidBy(heard, p.data)
      /\ Left(p, reply) # {} =>
           Explained([missing |-> Left(p, reply), data |-> job])
      /\ Left(p, reply) = {} => Complete(job)
  BY <1>2, <1>3, <1>4, ReplySays
<1>6. Left(p, reply) \in SUBSET Field
  BY <1>3 DEF Left, Question
<1> HIDE DEF job, heard
<1>7. CASE /\ Left(p, reply) # {}
           /\ AskFor(s, Left(p, reply), job, heard)
  BY <1>1, <1>5, <1>6, <1>7, AskStep
<1>8. CASE /\ Left(p, reply) = {}
           /\ Begin(s, IF job.mode = "read" THEN "deciding"
                       ELSE "looking", job)
           /\ said' = [said EXCEPT ![s] = heard]
  <2> DEFINE stage == IF job.mode = "read" THEN "deciding" ELSE "looking"
  <2>1. /\ stage \in {"deciding", "looking"}
        /\ stage = "looking" => job.mode = "write"
    BY <1>5, ParametersType
  <2> HIDE DEF stage
  <2>2. Begin(s, stage, job)
    BY <1>8 DEF stage
  <2> QED
    BY <1>1, <1>5, <1>8, <2>1, <2>2, BeginStep DEF p
<1> QED
  BY <1>2, <1>7, <1>8 DEF job, heard

LEMMA WithdrawStep ==
  ASSUME IInv, NEW s \in Session, Withdraw(s)
  PROVE  IInv'
<1>1. /\ pending \in [Session -> {None} \cup Question]
      /\ said \in [Session -> Speech] /\ turn = Idle
  BY DEF IInv, TypeOK, Withdraw
<1>2. /\ pending' = [pending EXCEPT ![s] = None]
      /\ answer' = [session |-> s, status |-> "success", performed |-> FALSE]
      /\ UNCHANGED <<files, level, turn, late>>
  BY DEF Withdraw, Settled, Answered
<1>3. pending'[s] = None /\ \A t \in Session \ {s} : pending'[t] = pending[t]
  BY <1>1, <1>2
<1>4. said' = [said EXCEPT ![s] = Nothing]
  BY <1>3 DEF Withdraw, Remembered
<1>5. said'[s] = Nothing /\ \A t \in Session \ {s} : said'[t] = said[t]
  BY <1>1, <1>4
<1>6. TypeOK'
  <2>1. /\ pending' \in [Session -> {None} \cup Question]
        /\ said' \in [Session -> Speech]
    BY <1>1, <1>2, <1>4, NothingSaid
  <2>2. answer' \in [session : Session, status : Statuses, performed : BOOLEAN]
    BY <1>2 DEF Statuses
  <2> QED
    BY <1>2, <2>1, <2>2 DEF IInv, TypeOK
<1>7. PendingExplained'
  <2>1. \A t \in Session : pending'[t] # None => Explained(pending'[t])
    BY <1>3, ExplainedMeans DEF IInv
  <2>2. AnswerExplained'
    <3>1. answer'.session = s /\ answer'.status # "clarification_required"
      BY <1>2
    <3> QED
      BY <1>3, <3>1 DEF AnswerExplained
  <2> QED
    BY <2>1, <2>2 DEF PendingExplained, Explained, Lacking, AnswerExplained
<1>8. PendingCovered'
  <2>1. ASSUME NEW t \in Session, pending'[t] # None
        PROVE  SaidBy(said'[t], pending'[t].data) /\ said'[t].writes = 0
    BY <1>1, <1>3, <1>5, <2>1, CoveredMeans DEF IInv, PendingCovered, Busy
  <2> QED
    BY <2>1 DEF PendingCovered, Covered, SaidBy
<1>9. TurnCovered' /\ WriteAdmitted' /\ OpeningSound'
  BY <1>1, <1>2 DEF TurnCovered, OnFile, WriteAdmitted, OpeningSound, Idle
<1>10. ActedOnce'
  BY <1>5, NothingSaid DEF IInv, ActedOnce
<1> QED
  BY <1>6, <1>7, <1>8, <1>9, <1>10 DEF IInv

\* A request that is answered at once, or an opening that ends.
LEMMA AnswerStep ==
  ASSUME IInv, NEW s \in Session, pending[s] = None, turn' = Idle,
         turn = Idle \/ (turn.stage = "opening" /\ turn.session = s),
         NEW status \in {"success", "error", "blocked"},
         NEW performed \in BOOLEAN,
         answer' = [session |-> s, status |-> status, performed |-> performed],
         UNCHANGED <<files, level, pending, said, late>>
  PROVE  IInv'
<1>1. answer' = [session |-> s, status |-> status, performed |-> performed]
  OBVIOUS
<1>2. TypeOK'
  <2>1. answer' \in [session : Session, status : Statuses, performed : BOOLEAN]
    BY <1>1 DEF Statuses
  <2> QED
    BY <2>1 DEF IInv, TypeOK
<1>3. PendingExplained'
  <2>1. answer'.session = s /\ answer'.status # "clarification_required"
    BY <1>1
  <2>2. AnswerExplained'
    BY <2>1 DEF AnswerExplained
  <2>3. \A t \in Session : pending'[t] # None => Explained(pending'[t])
    BY ExplainedMeans DEF IInv
  <2> QED
    BY <2>2, <2>3 DEF PendingExplained, Explained, Lacking, AnswerExplained
<1>4. PendingCovered'
  BY DEF IInv, PendingCovered, Covered, Busy
<1>5. TurnCovered' /\ WriteAdmitted' /\ OpeningSound'
  BY DEF TurnCovered, OnFile, WriteAdmitted, OpeningSound, Idle
<1>6. ActedOnce'
  BY DEF IInv, ActedOnce
<1> QED
  BY <1>2, <1>3, <1>4, <1>5, <1>6 DEF IInv

LEMMA ProtectedStep ==
  ASSUME IInv, NEW s \in Session, RequestProtected(s)
  PROVE  IInv'
<1>1. /\ turn = Idle /\ turn' = Idle /\ pending[s] = None
      /\ Answered(s, "blocked", FALSE)
      /\ UNCHANGED <<files, level, pending, said, late>>
  BY DEF RequestProtected
<1> QED
  BY <1>1, AnswerStep DEF Answered

LEMMA DiagnoseStep ==
  ASSUME IInv, NEW s \in Session, Diagnose(s)
  PROVE  IInv'
<1>1. /\ turn = Idle /\ turn' = Idle /\ pending[s] = None
      /\ UNCHANGED <<files, level, pending, said, late>>
  BY DEF Diagnose
<1>2. PICK taken \in BOOLEAN :
        Answered(s, IF taken THEN "success" ELSE "error", taken)
  BY DEF Diagnose
<1>3. (IF taken THEN "success" ELSE "error") \in {"success", "error", "blocked"}
  OBVIOUS
<1> QED
  BY <1>1, <1>2, <1>3, AnswerStep DEF Answered

-----------------------------------------------------------------------------
(* The stages of a turn on a file.                                         *)

\* What is known of a turn on a file at any stage.
LEMMA FileTurnFacts ==
  ASSUME IInv, OnFile
  PROVE  /\ turn \in FileTurn /\ turn.session \in Session
         /\ turn.job \in Parameters /\ Complete(turn.job)
         /\ SaidBy(said[turn.session], turn.job)
         /\ said[turn.session] \in Speech
         /\ said[turn.session].writes = IF Wrote THEN 1 ELSE 0
         /\ PathOf(turn.job) \in Path
<1>1. /\ TypeOK /\ turn \in FileTurn /\ turn.session \in Session
      /\ turn.job \in Parameters
  BY TurnCases DEF IInv
<1>2. Complete(turn.job) /\ SaidBy(said[turn.session], turn.job)
  BY <1>1, CoveredMeans DEF IInv, TurnCovered
<1>3. PathOf(turn.job) \in Path
  BY <1>1, <1>2, ParametersType DEF Complete, PathOf, Path
<1>4. said[turn.session].writes = IF Wrote THEN 1 ELSE 0
  BY DEF IInv, TurnCovered
<1> QED
  BY <1>1, <1>2, <1>3, <1>4 DEF TypeOK

LEMMA AtStage ==
  ASSUME IInv, turn.stage # "idle", turn.stage # "opening"
  PROVE  OnFile /\ turn # Idle
BY TurnCases DEF IInv, OnFile

LEMMA LookStep ==
  ASSUME IInv, Look
  PROVE  IInv'
<1>1. turn.stage = "looking" /\ ~ Wrote
  BY DEF Look, Wrote
<1>2. OnFile
  BY <1>1, AtStage
<1>3. /\ turn.job.mode = "write" /\ Complete(turn.job)
      /\ turn.job \in Parameters /\ turn.session \in Session
      /\ SaidBy(said[turn.session], turn.job)
      /\ said[turn.session] \in Speech /\ said[turn.session].writes = 0
  BY <1>1, <1>2, FileTurnFacts DEF IInv, TurnCovered
<1>4. CASE /\ ~ Clear(turn.job)
           /\ AskFor(turn.session, {"overwrite"}, turn.job,
                     said[turn.session])
  <2>1. Explained([missing |-> {"overwrite"}, data |-> turn.job])
    BY <1>3, <1>4, LackingMeans DEF Explained, Clear
  <2>2. {"overwrite"} \in SUBSET Field
    BY DEF Field
  <2> QED
    BY <1>3, <1>4, <2>1, <2>2, AskStep
<1>5. CASE /\ Enter("deciding")
           /\ UNCHANGED <<files, level, pending, answer, said, late>>
  <2>1. WriteAdmitted'
    BY <1>5, <1>2, FileTurnFacts DEF WriteAdmitted, Enter, FileTurn
  <2> QED
    BY <1>2, <1>3, <1>5, <2>1, EnterStep DEF IInv, TypeOK, Stages
<1> QED
  BY <1>4, <1>5 DEF Look

LEMMA LookRaisesStep ==
  ASSUME IInv, LookRaises
  PROVE  IInv'
<1> DEFINE s == turn.session
<1>1. turn.stage = "looking" /\ ~ Wrote
  BY DEF LookRaises, Wrote
<1>2. OnFile
  BY <1>1, AtStage
<1>3. s \in Session /\ said[s] \in Speech /\ said[s].writes = 0
  BY <1>1, <1>2, FileTurnFacts
<1>4. /\ turn' = Idle /\ UNCHANGED <<files, level, pending, late>>
      /\ answer' = [session |-> s, status |-> "raised", performed |-> FALSE]
      /\ said' = [said EXCEPT ![s] = IF pending[s] = None THEN Nothing
                                     ELSE said[s]]
  BY DEF LookRaises, Answered, Remembered
<1>5. said \in [Session -> Speech]
  BY DEF IInv, TypeOK
<1> HIDE DEF s
<1>6. /\ said'[s] = IF pending[s] = None THEN Nothing ELSE said[s]
      /\ \A t \in Session \ {s} : said'[t] = said[t]
      /\ said' \in [Session -> Speech]
  BY <1>3, <1>4, <1>5, NothingSaid
<1>7. TypeOK'
  <2>1. answer' \in [session : Session, status : Statuses, performed : BOOLEAN]
    BY <1>3, <1>4 DEF Statuses
  <2> QED
    BY <1>4, <1>6, <2>1 DEF IInv, TypeOK
<1>8. PendingExplained'
  <2>1. answer'.status = "raised"
    BY <1>4
  <2>2. AnswerExplained'
    BY <2>1 DEF AnswerExplained
  <2>3. \A t \in Session : pending'[t] # None => Explained(pending'[t])
    BY <1>4, ExplainedMeans DEF IInv
  <2> QED
    BY <2>2, <2>3 DEF PendingExplained, Explained, Lacking, AnswerExplained
<1>9. PendingCovered'
  <2>1. ASSUME NEW t \in Session, pending[t] # None
        PROVE  SaidBy(said'[t], pending[t].data) /\ said'[t].writes = 0
    <3>1. SaidBy(said[t], pending[t].data) /\ (Busy(t) \/ said[t].writes = 0)
      BY <2>1, CoveredMeans DEF IInv, PendingCovered
    <3>2. said'[t] = said[t]
      BY <1>6, <2>1
    <3> QED
      BY <1>3, <3>1, <3>2 DEF Busy, s
  <2> QED
    BY <1>4, <2>1 DEF PendingCovered, Covered, SaidBy
<1>10. TurnCovered' /\ WriteAdmitted' /\ OpeningSound'
  BY <1>4 DEF TurnCovered, OnFile, WriteAdmitted, OpeningSound, Idle
<1>11. ActedOnce'
  BY <1>3, <1>6, NothingSaid DEF IInv, ActedOnce
<1> QED
  BY <1>7, <1>8, <1>9, <1>10, <1>11 DEF IInv

LEMMA DecideStep ==
  ASSUME IInv, Decide
  PROVE  IInv'
<1>1. turn.stage = "deciding" /\ ~ Wrote
  BY DEF Decide, Wrote
<1>2. OnFile /\ turn # Idle
  BY <1>1, AtStage
<1>3. CASE Stop("blocked", FALSE)
  BY <1>2, <1>3, StopStep
<1>4. CASE /\ Enter("tool")
           /\ UNCHANGED <<files, level, pending, answer, said, late>>
  <2>1. WriteAdmitted'
    BY <1>4, <1>2, FileTurnFacts DEF WriteAdmitted, Enter, FileTurn
  <2>2. said[turn.session].writes = 0
    BY <1>1, <1>2, FileTurnFacts
  <2> QED
    BY <1>2, <1>4, <2>1, <2>2, EnterStep DEF IInv, TypeOK, Stages
<1> QED
  BY <1>3, <1>4 DEF Decide

LEMMA AdmitStep ==
  ASSUME IInv, Admit
  PROVE  IInv'
<1> DEFINE stage == IF turn.job.mode = "read" THEN "reading" ELSE "writing"
<1>1. /\ turn.stage = "tool" /\ ~ Wrote /\ Admitted(turn.job)
      /\ Enter(stage) /\ late' = FALSE
      /\ UNCHANGED <<files, level, pending, answer, said>>
  BY DEF Admit, Wrote
<1>2. OnFile
  BY <1>1, AtStage
<1>3. /\ turn.job \in Parameters /\ turn \in FileTurn
      /\ said[turn.session].writes = 0
  BY <1>1, <1>2, FileTurnFacts
<1>4. /\ stage \in {"reading", "writing"}
      /\ stage = "writing" => turn.job.mode = "write"
      /\ stage = "reading" => turn.job.mode = "read"
  BY <1>3, ParametersType
<1> HIDE DEF stage
<1>5. turn'.stage = stage /\ turn'.job = turn.job
  BY <1>1, <1>3 DEF Enter, FileTurn
<1>6. WriteAdmitted'
  BY <1>1, <1>4, <1>5 DEF WriteAdmitted, Admitted, Clear, Exists, PathOf
<1> QED
  BY <1>1, <1>2, <1>3, <1>4, <1>6, EnterStep DEF IInv, TypeOK, Stages

LEMMA WriteFileStep ==
  ASSUME IInv, WriteFile
  PROVE  IInv'
<1> DEFINE s == turn.session
<1>1. /\ turn.stage = "writing" /\ ~ Wrote
      /\ files' = [files EXCEPT ![PathOf(turn.job)] = turn.job.content]
      /\ said' = [said EXCEPT ![s] = Counted(s)]
      /\ Enter("verifying") /\ late' = FALSE
      /\ UNCHANGED <<level, pending, answer>>
  BY DEF WriteFile, Wrote
<1>2. OnFile
  BY <1>1, AtStage
<1>3. /\ turn.job \in Parameters /\ turn \in FileTurn /\ s \in Session
      /\ said[s] \in Speech /\ said[s].writes = 0
      /\ turn.job.mode = "write" /\ Complete(turn.job)
  BY <1>1, <1>2, FileTurnFacts DEF IInv, TurnCovered
<1>4. /\ said \in [Session -> Speech]
      /\ files \in [Path -> Text \cup {None, Junk}]
  BY DEF IInv, TypeOK
<1>5. files' \in [Path -> Text \cup {None, Junk}]
  BY <1>1, <1>3, <1>4, ParametersType
<1>6. /\ Counted(s) \in Speech /\ Counted(s).writes = 1
      /\ Counted(s).filename = said[s].filename
      /\ Counted(s).folder = said[s].folder
      /\ Counted(s).content = said[s].content
      /\ Counted(s).consent = said[s].consent
  BY <1>3 DEF Counted, Speech
<1>7. /\ said' \in [Session -> Speech] /\ said'[s] = Counted(s)
      /\ \A t \in Session \ {s} : said'[t] = said[t]
  BY <1>1, <1>3, <1>4, <1>6
<1>8. WriteAdmitted'
  BY <1>1, <1>3 DEF WriteAdmitted, Enter, FileTurn
<1> QED
  BY <1>1, <1>2, <1>3, <1>5, <1>6, <1>7, <1>8, EnterStep DEF Stages

LEMMA WriteFailsStep ==
  ASSUME IInv, WriteFails
  PROVE  IInv'
<1> DEFINE s == turn.session
<1>1. turn.stage = "writing"
  BY DEF WriteFails
<1>2. OnFile /\ turn # Idle
  BY <1>1, AtStage
<1>3. CASE Stop("error", FALSE)
  BY <1>2, <1>3, StopStep
<1>4. CASE /\ files' = [files EXCEPT ![PathOf(turn.job)] = Junk]
           /\ End("error", FALSE, Counted(s))
  <2>1. files' \in [Path -> Text \cup {None, Junk}]
    BY <1>4 DEF IInv, TypeOK
  <2>2. Counted(s) \in Speech
    BY <1>2, FileTurnFacts DEF Counted, Speech
  <2> QED
    BY <1>2, <1>4, <2>1, <2>2, EndStep
<1> QED
  BY <1>3, <1>4 DEF WriteFails

\* The stages that only look at the file.
LEMMA LookingStages ==
  ASSUME IInv, ToolFails \/ VerifyWrite \/ Measure \/ ReadFile \/ Recheck
  PROVE  IInv'
<1>1. /\ turn.stage \in {"tool", "reading", "verifying", "measuring",
                          "rechecking"}
  BY DEF ToolFails, VerifyWrite, Measure, ReadFile, Recheck
<1>2. OnFile /\ turn # Idle
  BY <1>1, AtStage
<1>3. CASE \E status \in {"success", "error"}, performed \in BOOLEAN :
             Stop(status, performed)
  BY <1>2, <1>3, StopStep
<1>4. CASE \E stage \in {"measuring", "rechecking"} :
             /\ turn.stage = IF stage = "measuring" THEN "verifying"
                                                    ELSE "reading"
             /\ Enter(stage)
             /\ UNCHANGED <<files, level, pending, answer, said, late>>
  <2>1. PICK stage \in {"measuring", "rechecking"} :
             /\ turn.stage = IF stage = "measuring" THEN "verifying"
                                                    ELSE "reading"
             /\ Enter(stage)
             /\ UNCHANGED <<files, level, pending, answer, said, late>>
    BY <1>4
  <2>2. WriteAdmitted'
    BY <2>1, <1>2, FileTurnFacts DEF WriteAdmitted, Enter, FileTurn
  <2>3. /\ said[turn.session].writes =
             IF stage \in {"verifying", "measuring"} THEN 1 ELSE 0
        /\ stage = "measuring" => turn.job.mode = "write"
        /\ stage = "rechecking" => turn.job.mode = "read"
    BY <2>1, <1>2, FileTurnFacts DEF Wrote, IInv, TurnCovered
  <2> QED
    BY <1>2, <2>1, <2>2, <2>3, EnterStep DEF IInv, TypeOK, Stages
<1>5. CASE ToolFails \/ Measure \/ Recheck
  BY <1>3, <1>5 DEF ToolFails, Measure, Recheck
<1>6. CASE VerifyWrite
  <2>1. \/ Stop("error", FALSE)
        \/ /\ turn.stage = "verifying" /\ Enter("measuring")
           /\ UNCHANGED <<files, level, pending, answer, said, late>>
    BY <1>6 DEF VerifyWrite
  <2> QED
    BY <1>3, <1>4, <2>1
<1>7. CASE ReadFile
  <2>1. /\ turn.stage = "reading" /\ Enter("rechecking")
        /\ UNCHANGED <<files, level, pending, answer, said, late>>
    BY <1>7 DEF ReadFile
  <2> QED
    BY <1>4, <2>1
<1> QED
  BY <1>5, <1>6, <1>7

LEMMA OtherProgramStep ==
  ASSUME IInv, OtherProgram
  PROVE  IInv'
<1>1. PICK path \in Path, content \in {None, Junk} :
        /\ files[path] # content
        /\ files' = [files EXCEPT ![path] = content]
        /\ late' = (\/ late
                    \/ /\ turn.stage = "writing" /\ path = PathOf(turn.job)
                       /\ ~Exists(path))
        /\ UNCHANGED <<level, pending, turn, answer, said>>
  BY DEF OtherProgram
<1>2. files \in [Path -> Text \cup {None, Junk}] /\ late \in BOOLEAN
  BY DEF IInv, TypeOK
<1>3. /\ files' \in [Path -> Text \cup {None, Junk}] /\ late' \in BOOLEAN
      /\ \A q \in Path \ {path} : files'[q] = files[q]
  BY <1>1, <1>2
<1>4. TypeOK'
  BY <1>1, <1>3 DEF IInv, TypeOK
<1>5. WriteAdmitted'
  <2> DEFINE there == PathOf(turn.job)
  <2>1. SUFFICES ASSUME turn.stage = "writing"
                 PROVE  /\ turn.job.folder \in Inside
                        /\ files'[there] # None => turn.job.overwrite \/ late'
    <3>1. turn' = turn
      BY <1>1
    <3> QED
      BY <3>1 DEF WriteAdmitted, Exists, PathOf
  <2>2. /\ turn.job.folder \in Inside
        /\ Exists(PathOf(turn.job)) => turn.job.overwrite \/ late
    BY <2>1 DEF IInv, WriteAdmitted
  <2>3. there \in Path
    BY <2>1, AtStage, FileTurnFacts
  <2> HIDE DEF there
  <2>4. files'[there] # None => Exists(there) \/ late'
    BY <1>1, <1>3, <2>1, <2>3 DEF Exists, there
  <2> QED
    BY <1>1, <2>2, <2>4 DEF there
<1>6. PendingExplained' /\ PendingCovered' /\ TurnCovered'
  BY <1>1 DEF IInv, PendingExplained, PendingCovered, Covered, Busy,
              TurnCovered, OnFile, Wrote
<1>7. OpeningSound' /\ ActedOnce'
  BY <1>1 DEF IInv, OpeningSound, ActedOnce
<1> QED
  BY <1>4, <1>5, <1>6, <1>7 DEF IInv

LEMMA RegisterStep ==
  ASSUME IInv, Register
  PROVE  IInv'
<1>1. /\ level' \in [Managed -> Level]
      /\ UNCHANGED <<files, pending, turn, answer, said, late>>
  BY DialogueAssumption DEF Register
<1>2. TypeOK'
  BY <1>1 DEF IInv, TypeOK
<1>3. PendingExplained' /\ PendingCovered' /\ TurnCovered'
  BY <1>1 DEF IInv, PendingExplained, PendingCovered, Covered, Busy,
              TurnCovered, OnFile, Wrote
<1>4. WriteAdmitted' /\ OpeningSound' /\ ActedOnce'
  BY <1>1 DEF IInv, WriteAdmitted, Exists, PathOf, OpeningSound, ActedOnce
<1> QED
  BY <1>2, <1>3, <1>4 DEF IInv

-----------------------------------------------------------------------------
(* What a request to open something asks for.                              *)

(***************************************************************************)
(* The members of a sequence chosen by their places are taken from all of  *)
(* these places, each once.                                                *)
(***************************************************************************)
LEMMA ChosenPlaces ==
  ASSUME NEW seq, NEW S \in SUBSET Nat, IsFiniteSet(S)
  PROVE  LET n == Cardinality(S)
         IN  /\ n \in Nat
             /\ \E place \in [1 .. n -> S] :
                  /\ Chosen(seq, S) = [k \in 1 .. n |-> seq[place[k]]]
                  /\ \A k, l \in 1 .. n : place[k] = place[l] => k = l
                  /\ \A i \in S : \E k \in 1 .. n : place[k] = i
<1> DEFINE n == Cardinality(S)
           before(i) == {j \in S : j < i}
           rank == [i \in S |-> Cardinality(before(i)) + 1]
           place == [k \in 1 .. n |->
                       CHOOSE i \in S : Cardinality(before(i)) = k - 1]
<1>1. n \in Nat
  BY FS_CardinalityType
<1>2. ASSUME NEW i \in S
      PROVE  /\ IsFiniteSet(before(i)) /\ Cardinality(before(i)) \in Nat
             /\ Cardinality(before(i)) < n
  <2>1. before(i) \in SUBSET S /\ before(i) # S
    OBVIOUS
  <2> HIDE DEF before
  <2>2. /\ IsFiniteSet(before(i)) /\ Cardinality(before(i)) <= n
        /\ Cardinality(before(i)) # n
    BY <2>1, FS_Subset
  <2>3. Cardinality(before(i)) \in Nat
    BY <2>2, FS_CardinalityType
  <2> QED
    BY <1>1, <2>2, <2>3
<1>3. ASSUME NEW i \in S, NEW j \in S, i < j
      PROVE  Cardinality(before(i)) < Cardinality(before(j))
  <2>1. before(i) \in SUBSET before(j) /\ before(i) # before(j)
    <3>1. \A k \in S : k < i => k < j
      BY <1>3
    <3>2. i \in before(j) /\ i \notin before(i)
      BY <1>3
    <3> QED
      BY <3>1, <3>2
  <2> HIDE DEF before
  <2>2. /\ Cardinality(before(i)) <= Cardinality(before(j))
        /\ Cardinality(before(i)) # Cardinality(before(j))
    BY <1>2, <2>1, FS_Subset
  <2> QED
    BY <1>2, <2>2
<1> HIDE DEF n
<1>4. rank \in [S -> 1 .. n]
  <2> HIDE DEF before
  <2> QED
    BY <1>1, <1>2
<1>5. \A i, j \in S : rank[i] = rank[j] => i = j
  <2> HIDE DEF before
  <2>1. \A i, j \in S : i < j => rank[i] # rank[j]
    BY <1>2, <1>3
  <2> QED
    BY <2>1
<1>6. \A k \in 1 .. n : \E i \in S : rank[i] = k
  <2> HIDE DEF rank
  <2>1. rank \in Injection(S, 1 .. n)
    BY <1>4, <1>5 DEF Injection, IsInjective
  <2>2. IsFiniteSet(1 .. n) /\ Cardinality(1 .. n) = n
    BY <1>1, FS_Interval
  <2>3. rank \in Surjection(S, 1 .. n)
    BY <2>1, <2>2, FS_Injection DEF n
  <2> QED
    BY <2>3 DEF Surjection
<1>7. \A k \in 1 .. n : place[k] \in S /\ rank[place[k]] = k
  <2>1. ASSUME NEW k \in 1 .. n
        PROVE  \E i \in S : Cardinality(before(i)) = k - 1
    <3> HIDE DEF before
    <3>1. PICK i \in S : rank[i] = k
      BY <1>6
    <3>2. Cardinality(before(i)) + 1 = k /\ Cardinality(before(i)) \in Nat
      BY <1>2, <3>1
    <3>3. Cardinality(before(i)) = k - 1
      BY <1>1, <3>2
    <3> QED
      BY <3>3
  <2>2. ASSUME NEW k \in 1 .. n
        PROVE  place[k] \in S /\ Cardinality(before(place[k])) = k - 1
    <3> HIDE DEF before
    <3> QED
      BY <2>1
  <2> HIDE DEF before, place
  <2> QED
    BY <1>1, <2>2
<1>8. Chosen(seq, S) = [k \in 1 .. n |-> seq[place[k]]]
  BY DEF Chosen, n
<1> HIDE DEF rank, place
<1>9. \A k, l \in 1 .. n : place[k] = place[l] => k = l
  BY <1>7
<1>10. \A i \in S : \E k \in 1 .. n : place[k] = i
  BY <1>4, <1>5, <1>7
<1>11. place \in [1 .. n -> S]
  BY <1>7 DEF place
<1> QED
  BY <1>1, <1>8, <1>9, <1>10, <1>11 DEF n

LEMMA LeastPlace ==
  ASSUME NEW T \in SUBSET Nat, T # {}
  PROVE  \E m \in T : \A k \in T : m <= k
<1> DEFINE less == {ss \in Nat \X Nat : ss[1] < ss[2]}
<1>1. IsWellFoundedOn(less, Nat)
  BY NatLessThanWellFounded DEF OpToRel
<1> HIDE DEF less
<1>2. PICK m \in T : \A k \in T : ~ (<<k, m>> \in less)
  BY <1>1, WFMin
<1>3. \A k \in T : ~ (k < m)
  BY <1>2 DEF less
<1> QED
  BY <1>3

\* The applications of a request are the known names in its words, without
\* the shorter names of programs that are named in full.
Known(words) ==
  {a \in words.names :
     \A b \in words.names \cap DOMAIN Shorter : Shorter[b] # a}

LEMMA ApplicationsMean ==
  ASSUME NEW words, words.names \subseteq Aliases
  PROVE  LET apps == Applications(words)
         IN  /\ apps \in Seq(Aliases)
             /\ \A k, l \in 1 .. Len(apps) : apps[k] = apps[l] => k = l
             /\ \A k \in 1 .. Len(apps) : apps[k] \in Known(words)
             /\ \A a \in Known(words) : \E k \in 1 .. Len(apps) : apps[k] = a
<1> DEFINE S == {i \in DOMAIN Alias :
                   /\ Alias[i] \in words.names
                   /\ \A a \in words.names \cap DOMAIN Shorter :
                        Shorter[a] # Alias[i]}
           n == Cardinality(S)
           apps == Applications(words)
<1>1. /\ DOMAIN Alias = 1 .. Len(Alias) /\ Len(Alias) \in Nat
      /\ \A i, j \in DOMAIN Alias : Alias[i] = Alias[j] => i = j
  BY AliasAssumption, LenProperties
<1>2. S \in SUBSET Nat /\ IsFiniteSet(S)
  <2>1. IsFiniteSet(1 .. Len(Alias)) /\ S \in SUBSET (1 .. Len(Alias))
    BY <1>1, FS_Interval
  <2> QED
    BY <2>1, FS_Subset
<1>3. apps = Chosen(Alias, S)
  BY DEF Applications
<1>4. /\ \A i \in S : i \in DOMAIN Alias /\ Alias[i] \in Known(words)
      /\ \A a \in Known(words) : \E i \in S : Alias[i] = a
  BY DEF Known, Aliases
<1> HIDE DEF S, n, apps
<1>5. n \in Nat
  BY <1>2, ChosenPlaces DEF n
<1>6. PICK place \in [1 .. n -> S] :
        /\ apps = [k \in 1 .. n |-> Alias[place[k]]]
        /\ \A k, l \in 1 .. n : place[k] = place[l] => k = l
        /\ \A i \in S : \E k \in 1 .. n : place[k] = i
  BY <1>2, <1>3, ChosenPlaces DEF n
<1>7. \A k \in 1 .. n : apps[k] \in Known(words) /\ apps[k] \in Aliases
  BY <1>4, <1>6 DEF Known
<1>8. apps \in Seq(Aliases) /\ Len(apps) = n
  <2>1. apps \in [1 .. n -> Aliases]
    BY <1>6, <1>7
  <2> QED
    BY <1>5, <2>1
<1>9. \A k, l \in 1 .. n : apps[k] = apps[l] => k = l
  BY <1>1, <1>4, <1>6
<1>10. \A a \in Known(words) : \E k \in 1 .. n : apps[k] = a
  BY <1>4, <1>6
<1> QED
  BY <1>7, <1>8, <1>9, <1>10 DEF apps

LEMMA AddressesMean ==
  ASSUME NEW words, words.addresses \in Seq(Address)
  PROVE  LET urls == Addresses(words)
             spoken == {words.addresses[i] : i \in DOMAIN words.addresses}
         IN  /\ urls \in Seq(Address)
             /\ \A k, l \in 1 .. Len(urls) : urls[k] = urls[l] => k = l
             /\ \A k \in 1 .. Len(urls) : urls[k] \in spoken
             /\ \A u \in spoken : \E k \in 1 .. Len(urls) : urls[k] = u
<1> DEFINE seq == words.addresses
           S == {i \in DOMAIN seq : \A j \in 1..(i - 1) : seq[j] # seq[i]}
           n == Cardinality(S)
           urls == Addresses(words)
           spoken == {seq[i] : i \in DOMAIN seq}
<1>1. DOMAIN seq = 1 .. Len(seq) /\ Len(seq) \in Nat
  BY LenProperties
<1>2. S \in SUBSET Nat /\ IsFiniteSet(S)
  <2>1. IsFiniteSet(1 .. Len(seq)) /\ S \in SUBSET (1 .. Len(seq))
    BY <1>1, FS_Interval
  <2> QED
    BY <2>1, FS_Subset
<1>3. urls = Chosen(seq, S)
  BY DEF Addresses
<1>4. \A i, j \in S : seq[i] = seq[j] => i = j
  <2>1. ASSUME NEW i \in S, NEW j \in S, i < j
        PROVE  seq[i] # seq[j]
    <3>1. i \in 1 .. (j - 1)
      BY <1>1, <2>1
    <3> QED
      BY <3>1
  <2> QED
    BY <1>2, <2>1
<1>5. \A u \in spoken : \E i \in S : seq[i] = u
  <2>1. SUFFICES ASSUME NEW u \in spoken
                 PROVE  \E i \in S : seq[i] = u
    OBVIOUS
  <2> DEFINE T == {i \in DOMAIN seq : seq[i] = u}
  <2>2. T \in SUBSET Nat /\ T # {}
    BY <1>1
  <2>3. PICK m \in T : \A k \in T : m <= k
    <3> HIDE DEF T
    <3> QED
      BY <2>2, LeastPlace
  <2>4. ASSUME NEW j \in 1 .. (m - 1)
        PROVE  seq[j] # seq[m]
    <3>1. j \in DOMAIN seq /\ ~ (m <= j)
      BY <1>1, <2>3
    <3> QED
      BY <2>3, <3>1
  <2> QED
    BY <2>3, <2>4
<1>6. \A i \in S : seq[i] \in spoken /\ seq[i] \in Address
  BY <1>1, ElementOfSeq
<1> HIDE DEF S, n, urls, spoken, seq
<1>7. n \in Nat
  BY <1>2, ChosenPlaces DEF n
<1>8. PICK place \in [1 .. n -> S] :
        /\ urls = [k \in 1 .. n |-> seq[place[k]]]
        /\ \A k, l \in 1 .. n : place[k] = place[l] => k = l
        /\ \A i \in S : \E k \in 1 .. n : place[k] = i
  BY <1>2, <1>3, ChosenPlaces DEF n
<1>9. \A k \in 1 .. n : urls[k] \in spoken /\ urls[k] \in Address
  BY <1>6, <1>8
<1>10. urls \in Seq(Address) /\ Len(urls) = n
  <2>1. urls \in [1 .. n -> Address]
    BY <1>8, <1>9
  <2> QED
    BY <1>7, <2>1
<1>11. \A k, l \in 1 .. n : urls[k] = urls[l] => k = l
  BY <1>4, <1>8
<1>12. \A u \in spoken : \E k \in 1 .. n : urls[k] = u
  BY <1>5, <1>8
<1> QED
  BY <1>9, <1>10, <1>11, <1>12 DEF urls, spoken, seq

\* What a launch opens.
Opens(launch, x) == x \in {launch.target, launch.url}

\* What the words ask for: their names, or all of them when they name nothing.
Wanted(words) == IF Meant(words) = {} THEN {Unnamed} ELSE Meant(words)

(***************************************************************************)
(* The batch of _execute_system opens what the words mean, and each of it  *)
(* exactly once.                                                           *)
(***************************************************************************)
LEMMA BatchMeans ==
  ASSUME NEW words \in Openings
  PROVE  LET b == Batch(words)
         IN  /\ b \in Seq(Launched)
             /\ \A i \in 1 .. Len(b) : b[i].target \in Wanted(words)
             /\ \A x \in Wanted(words) :
                  \E i \in 1 .. Len(b) :
                    /\ Opens(b[i], x)
                    /\ \A j \in 1 .. Len(b) : Opens(b[j], x) => j = i
<1> DEFINE b == Batch(words)
           apps == Applications(words)
           urls == Addresses(words)
           spoken == {words.addresses[i] : i \in DOMAIN words.addresses}
<1>1. words.names \subseteq Aliases /\ words.addresses \in Seq(Address)
  BY DialogueAssumption
<1>2. /\ apps \in Seq(Aliases)
      /\ \A k, l \in 1 .. Len(apps) : apps[k] = apps[l] => k = l
      /\ \A k \in 1 .. Len(apps) : apps[k] \in Known(words)
      /\ \A a \in Known(words) : \E k \in 1 .. Len(apps) : apps[k] = a
  BY <1>1, ApplicationsMean
<1>3. /\ urls \in Seq(Address)
      /\ \A k, l \in 1 .. Len(urls) : urls[k] = urls[l] => k = l
      /\ \A k \in 1 .. Len(urls) : urls[k] \in spoken
      /\ \A u \in spoken : \E k \in 1 .. Len(urls) : urls[k] = u
  BY <1>1, AddressesMean
<1>4. /\ Len(apps) \in Nat /\ Len(urls) \in Nat
      /\ DOMAIN apps = 1 .. Len(apps) /\ DOMAIN urls = 1 .. Len(urls)
      /\ \A k \in 1 .. Len(apps) : apps[k] \in Aliases
      /\ \A k \in 1 .. Len(urls) : urls[k] \in Address
  BY <1>2, <1>3, LenProperties, ElementOfSeq
<1>5. /\ Meant(words) = Known(words) \cup spoken
      /\ Known(words) \subseteq Aliases
  BY <1>1 DEF Meant, Known
<1>7. /\ b = IF Len(apps) = 1 /\ Len(urls) = 1
              THEN <<Launch(apps[1], urls[1])>>
            ELSE IF apps = <<>> /\ urls = <<>>
              THEN <<Launch(Unnamed, NoAddress)>>
            ELSE [i \in DOMAIN apps |-> Launch(apps[i], NoAddress)]
                 \o [i \in DOMAIN urls |-> OpenUrl(urls[i])]
  BY DEF Batch
<1> HIDE DEF apps, urls, spoken, b
<1>6. ASSUME NEW u \in spoken
      PROVE  u \in Address
  <2>1. PICK k \in 1 .. Len(urls) : urls[k] = u
    BY <1>3
  <2> QED
    BY <1>4, <2>1
<1>8. ASSUME NEW t \in Aliases \cup {Unnamed},
             NEW u \in Address \cup {NoAddress}
      PROVE  /\ Launch(t, u) \in Launched
             /\ Launch(t, u).target = t /\ Launch(t, u).url = u
  BY DEF Launch, Launched
<1>9. ASSUME NEW u \in Address
      PROVE  /\ OpenUrl(u) \in Launched
             /\ OpenUrl(u).target = u /\ OpenUrl(u).url = u
  BY DEF OpenUrl, Launched
<1>10. /\ \A a \in Aliases : a \notin Address \cup {NoAddress, Unnamed}
       /\ NoAddress \notin Address /\ Unnamed \notin Address
       /\ NoAddress # Unnamed
  BY AliasAssumption
<1>11. CASE Len(apps) = 1 /\ Len(urls) = 1
  <2>1. /\ apps[1] \in Aliases /\ urls[1] \in Address
        /\ b = <<Launch(apps[1], urls[1])>>
    BY <1>4, <1>7, <1>11
  <2>2. b \in Seq(Launched) /\ Len(b) = 1 /\ b[1] = Launch(apps[1], urls[1])
    BY <1>8, <2>1
  <2>3. Meant(words) = {apps[1], urls[1]}
    BY <1>2, <1>3, <1>4, <1>5, <1>11
  <2>4. Wanted(words) = {apps[1], urls[1]}
    BY <2>3 DEF Wanted
  <2>5. b[1].target = apps[1] /\ b[1].url = urls[1]
    BY <1>8, <2>1, <2>2
  <2> QED
    BY <2>2, <2>4, <2>5 DEF Opens, b
<1>12. CASE apps = <<>> /\ urls = <<>>
  <2>1. Len(apps) = 0 /\ Len(urls) = 0
    BY <1>12
  <2>2. b = <<Launch(Unnamed, NoAddress)>>
    BY <1>7, <1>12, <2>1
  <2>3. /\ b \in Seq(Launched) /\ Len(b) = 1
        /\ b[1] = Launch(Unnamed, NoAddress)
    BY <1>8, <2>2
  <2>4. Meant(words) = {}
    BY <1>2, <1>3, <1>5, <2>1
  <2>5. Wanted(words) = {Unnamed} /\ b[1].target = Unnamed
    BY <1>8, <2>3, <2>4 DEF Wanted
  <2> QED
    BY <2>3, <2>5 DEF Opens, b
<1>13. CASE /\ ~ (Len(apps) = 1 /\ Len(urls) = 1)
            /\ ~ (apps = <<>> /\ urls = <<>>)
  <2> DEFINE m == Len(apps)
             n == Len(urls)
             s == [i \in 1 .. m |-> Launch(apps[i], NoAddress)]
             t == [i \in 1 .. n |-> OpenUrl(urls[i])]
  <2>1. b = s \o t
    BY <1>4, <1>7, <1>13
  <2>2. s \in Seq(Launched) /\ Len(s) = m
    <3>1. s \in [1 .. m -> Launched]
      BY <1>4, <1>8
    <3> QED
      BY <1>4, <3>1
  <2>3. t \in Seq(Launched) /\ Len(t) = n
    <3>1. t \in [1 .. n -> Launched]
      BY <1>4, <1>9
    <3> QED
      BY <1>4, <3>1
  <2>4. \A i \in 1 .. m : s[i].target = apps[i] /\ s[i].url = NoAddress
    BY <1>4, <1>8
  <2>5. \A i \in 1 .. n : t[i].target = urls[i] /\ t[i].url = urls[i]
    BY <1>4, <1>9
  <2> HIDE DEF s, t
  <2>6. /\ b \in Seq(Launched) /\ Len(b) = m + n
        /\ \A i \in 1 .. m + n : b[i] = IF i <= m THEN s[i] ELSE t[i - m]
    <3>1. /\ s \o t \in Seq(Launched)
          /\ Len(s \o t) = Len(s) + Len(t)
          /\ \A i \in 1 .. Len(s) + Len(t) :
               (s \o t)[i] = IF i <= Len(s) THEN s[i] ELSE t[i - Len(s)]
      BY <2>2, <2>3, ConcatProperties
    <3> HIDE DEF m, n
    <3> QED
      BY <2>1, <2>2, <2>3, <3>1
  <2>7. m \in Nat /\ n \in Nat
    BY <1>4
  <2>8. /\ \A i \in 1 .. m : b[i].target = apps[i] /\ b[i].url = NoAddress
        /\ \A i \in 1 .. n :
             b[m + i].target = urls[i] /\ b[m + i].url = urls[i]
    BY <2>4, <2>5, <2>6, <2>7
  <2>9. \A j \in 1 .. m + n : j \in 1 .. m \/ \E i \in 1 .. n : j = m + i
    <3>1. ASSUME NEW j \in 1 .. m + n, j \notin 1 .. m
          PROVE  j - m \in 1 .. n /\ j = m + (j - m)
      BY <2>7, <3>1
    <3> QED
      BY <3>1
  <2>10. Meant(words) # {} /\ Wanted(words) = Known(words) \cup spoken
    <3>1. apps # << >> => m # 0
      BY <1>2
    <3>2. urls # << >> => n # 0
      BY <1>3
    <3>3. 1 \in 1 .. m \/ 1 \in 1 .. n
      BY <1>13, <2>7, <3>1, <3>2
    <3>4. Meant(words) # {}
      BY <1>2, <1>3, <1>5, <3>3
    <3> QED
      BY <1>5, <3>4 DEF Wanted
  <2>11. \A i \in 1 .. m + n : b[i].target \in Wanted(words)
    <3>1. ASSUME NEW i \in 1 .. m
          PROVE  b[i].target \in Wanted(words)
      BY <1>2, <2>8, <2>10
    <3>2. ASSUME NEW i \in 1 .. n
          PROVE  b[m + i].target \in Wanted(words)
      BY <1>3, <2>8, <2>10
    <3> HIDE DEF m, n
    <3> QED
      BY <2>9, <3>1, <3>2
  <2> HIDE DEF m, n
  <2>12. ASSUME NEW x \in Known(words)
         PROVE  \E i \in 1 .. m + n :
                  /\ Opens(b[i], x)
                  /\ \A j \in 1 .. m + n : Opens(b[j], x) => j = i
    <3>1. PICK i \in 1 .. m : apps[i] = x
      BY <1>2 DEF m
    <3>2. x \notin Address /\ x # NoAddress
      BY <1>5, <1>10
    <3>3. \A j \in 1 .. m : Opens(b[j], x) => j = i
      BY <1>2, <2>8, <3>1, <3>2 DEF Opens, m
    <3>4. \A j \in 1 .. n : ~ Opens(b[m + j], x)
      BY <1>4, <2>8, <3>2 DEF Opens, n
    <3>5. Opens(b[i], x) /\ i \in 1 .. m + n
      BY <2>7, <2>8, <3>1 DEF Opens
    <3> QED
      BY <2>9, <3>3, <3>4, <3>5
  <2>13. ASSUME NEW x \in spoken
         PROVE  \E i \in 1 .. m + n :
                  /\ Opens(b[i], x)
                  /\ \A j \in 1 .. m + n : Opens(b[j], x) => j = i
    <3>1. PICK i \in 1 .. n : urls[i] = x
      BY <1>3 DEF n
    <3>2. x \notin Aliases /\ x # NoAddress
      BY <1>6, <1>10
    <3>3. \A j \in 1 .. m : ~ Opens(b[j], x)
      BY <1>4, <2>8, <3>2 DEF Opens, m
    <3>4. \A j \in 1 .. n : Opens(b[m + j], x) => j = i
      BY <1>3, <2>8, <3>1 DEF Opens, n
    <3>5. Opens(b[m + i], x) /\ m + i \in 1 .. m + n
      BY <2>7, <2>8, <3>1 DEF Opens
    <3> QED
      BY <2>9, <3>3, <3>4, <3>5
  <2> QED
    BY <2>6, <2>10, <2>11, <2>12, <2>13 DEF b
<1> QED
  BY <1>11, <1>12, <1>13

-----------------------------------------------------------------------------
(* Opening what was asked for.                                             *)

\* What is taken from the front of the one joins the end of the other.
LEMMA PassedOn ==
  ASSUME NEW S, NEW s \in Seq(S), NEW t \in Seq(S), t # << >>
  PROVE  /\ Head(t) \in S /\ Tail(t) \in Seq(S)
         /\ Append(s, Head(t)) \in Seq(S)
         /\ Append(s, Head(t)) \o Tail(t) = s \o t
<1> DEFINE h == Head(t)
           u == Tail(t)
<1>1. /\ h \in S /\ u \in Seq(S) /\ Len(u) = Len(t) - 1 /\ h = t[1]
      /\ \A i \in 1 .. Len(u) : u[i] = t[i + 1]
  BY HeadTailProperties
<1>2. Len(t) \in Nat \ {0}
  BY EmptySeq
<1> HIDE DEF h, u
<1>3. /\ <<h>> \in Seq(S) /\ Len(<<h>>) = 1 /\ <<h>>[1] = h
  BY <1>1
<1>4. <<h>> \o u = t
  <2>1. /\ <<h>> \o u \in Seq(S)
        /\ Len(<<h>> \o u) = 1 + Len(u)
        /\ \A i \in 1 .. 1 + Len(u) :
             (<<h>> \o u)[i] = IF i <= 1 THEN <<h>>[i] ELSE u[i - 1]
    BY <1>1, <1>3, ConcatProperties
  <2> DEFINE v == <<h>> \o u
  <2> HIDE DEF v
  <2>2. v \in Seq(S) /\ Len(v) = Len(t)
    BY <1>1, <1>2, <2>1 DEF v
  <2>3. ASSUME NEW i \in 1 .. Len(t)
        PROVE  v[i] = t[i]
    <3>1. CASE i = 1
      BY <1>1, <1>2, <1>3, <2>1, <3>1 DEF v
    <3>2. CASE i # 1
      <4>1. /\ i - 1 \in 1 .. Len(u) /\ i \in 1 .. 1 + Len(u)
            /\ ~ i <= 1 /\ (i - 1) + 1 = i
        BY <1>1, <1>2, <3>2
      <4> QED
        BY <1>1, <2>1, <4>1 DEF v
    <3> QED
      BY <3>1, <3>2
  <2>4. v = t
    BY <2>2, <2>3, SeqEqual
  <2> QED
    BY <2>4 DEF v
<1>5. Append(s, h) = s \o <<h>> /\ Append(s, h) \in Seq(S)
  BY <1>1, AppendIsConcat, AppendProperties
<1>6. (s \o <<h>>) \o u = s \o (<<h>> \o u)
  BY <1>1, <1>3, ConcatAssociative
<1> QED
  BY <1>1, <1>4, <1>5, <1>6 DEF h, u

\* What is known of a request to open something before any of its steps.
LEMMA OpeningFacts ==
  ASSUME IInv, turn.stage = "opening"
  PROVE  /\ turn \in OpeningTurn /\ turn # Idle
         /\ turn.session \in Session /\ turn.words \in Openings
         /\ turn.results \in Seq(Launched) /\ turn.left \in Seq(Launched)
         /\ pending[turn.session] = None
         /\ turn.results \o turn.left = Batch(turn.words)
BY TurnCases DEF IInv, OpeningSound, OpeningTurn

\* The turn on what is opened begins or goes on.
LEMMA OpeningStep ==
  ASSUME IInv, turn' \in OpeningTurn, pending[turn'.session] = None,
         turn = Idle \/ turn.stage = "opening",
         turn'.results \o turn'.left = Batch(turn'.words),
         UNCHANGED <<files, level, pending, answer, said, late>>
  PROVE  IInv'
<1>1. turn'.stage = "opening" /\ turn' # Idle
  BY DEF OpeningTurn, Idle
<1>2. TypeOK'
  BY DEF IInv, TypeOK
<1>3. PendingExplained'
  BY <1>1 DEF IInv, PendingExplained
<1>4. PendingCovered'
  <2>1. ASSUME NEW t \in Session, pending[t] # None
        PROVE  Covered(t, pending[t].data) /\ said[t].writes = 0
    <3>1. ~ Busy(t)
      BY <2>1, OpeningFacts DEF Busy
    <3> QED
      BY <2>1, <3>1 DEF IInv, PendingCovered
  <2> QED
    BY <2>1 DEF PendingCovered, Covered
<1>5. TurnCovered' /\ WriteAdmitted' /\ OpeningSound'
  BY <1>1 DEF TurnCovered, OnFile, WriteAdmitted, OpeningSound
<1>6. ActedOnce'
  BY DEF IInv, ActedOnce
<1> QED
  BY <1>2, <1>3, <1>4, <1>5, <1>6 DEF IInv

LEMMA RequestOpenStep ==
  ASSUME IInv, NEW s \in Session, RequestOpen(s)
  PROVE  IInv'
<1>1. /\ turn = Idle /\ pending[s] = None
      /\ UNCHANGED <<files, level, pending, answer, said, late>>
  BY DEF RequestOpen
<1>2. PICK words \in Openings :
        turn' = [stage |-> "opening", session |-> s, job |-> Blank,
                 words |-> words, left |-> Batch(words), results |-> <<>>]
  BY DEF RequestOpen
<1>3. Batch(words) \in Seq(Launched) /\ << >> \in Seq(Launched)
  BY BatchMeans, EmptySeq
<1>4. << >> \o Batch(words) = Batch(words)
  BY <1>3, ConcatEmptySeq
<1>5. /\ turn'.session = s /\ turn'.words = words
      /\ turn'.left = Batch(words) /\ turn'.results = <<>>
      /\ turn' \in OpeningTurn
  BY <1>2, <1>3 DEF OpeningTurn
<1> QED
  BY <1>1, <1>4, <1>5, OpeningStep

LEMMA LaunchSucceedsStep ==
  ASSUME IInv, LaunchSucceeds
  PROVE  IInv'
<1>1. /\ turn.stage = "opening" /\ turn.left # << >>
      /\ turn' = [turn EXCEPT !.left = Tail(@),
                              !.results = Append(@, Head(turn.left))]
      /\ UNCHANGED <<files, level, pending, answer, said, late>>
  BY DEF LaunchSucceeds, NextLaunch
<1>2. /\ turn \in OpeningTurn /\ turn.words \in Openings
      /\ turn.results \in Seq(Launched) /\ turn.left \in Seq(Launched)
      /\ pending[turn.session] = None
      /\ turn.results \o turn.left = Batch(turn.words)
  BY <1>1, OpeningFacts
<1>3. /\ Tail(turn.left) \in Seq(Launched)
      /\ Append(turn.results, Head(turn.left)) \in Seq(Launched)
      /\ Append(turn.results, Head(turn.left)) \o Tail(turn.left)
           = turn.results \o turn.left
  BY <1>1, <1>2, PassedOn
<1>4. /\ turn'.session = turn.session /\ turn'.words = turn.words
      /\ turn'.left = Tail(turn.left)
      /\ turn'.results = Append(turn.results, Head(turn.left))
      /\ turn' \in OpeningTurn
  BY <1>1, <1>2, <1>3 DEF OpeningTurn
<1> QED
  BY <1>1, <1>2, <1>3, <1>4, OpeningStep

\* How a request to open something ends.
LEMMA OpeningEnd ==
  ASSUME IInv, LaunchRefused \/ LaunchFails \/ AllOpened
  PROVE  \E status \in {"success", "error", "blocked"}, performed \in BOOLEAN :
           /\ turn.stage = "opening"
           /\ OpeningEnds(status, performed)
           /\ status = "success" <=> turn.left = << >>
           /\ performed <=> turn.left = << >>
<1>1. CASE LaunchRefused
  BY <1>1 DEF LaunchRefused, NextLaunch
<1>2. CASE LaunchFails
  BY <1>2 DEF LaunchFails, NextLaunch
<1>3. CASE AllOpened
  BY <1>3 DEF AllOpened
<1> QED
  BY <1>1, <1>2, <1>3

LEMMA OpeningEndStep ==
  ASSUME IInv, LaunchRefused \/ LaunchFails \/ AllOpened
  PROVE  IInv'
<1>1. PICK status \in {"success", "error", "blocked"}, performed \in BOOLEAN :
        turn.stage = "opening" /\ OpeningEnds(status, performed)
  BY OpeningEnd
<1>2. turn.session \in Session /\ pending[turn.session] = None
  BY <1>1, OpeningFacts
<1>3. /\ turn' = Idle
      /\ answer' = [session |-> turn.session, status |-> status,
                    performed |-> performed]
      /\ UNCHANGED <<files, level, pending, said, late>>
  BY <1>1 DEF OpeningEnds, Answered
<1> QED
  BY <1>1, <1>2, <1>3, AnswerStep

-----------------------------------------------------------------------------
(* The inductive invariant.                                                *)

LEMMA InitInvariant == Init => IInv
<1> SUFFICES ASSUME Init
             PROVE  IInv
  OBVIOUS
<1>1. TypeOK
  <2>1. level \in [Managed -> Level]
    BY DEF Init, Level
  <2> QED
    BY <2>1, NothingSaid DEF Init, TypeOK
<1>2. PendingExplained /\ PendingCovered
  BY DEF Init, PendingExplained, PendingCovered
<1>3. TurnCovered /\ WriteAdmitted /\ OpeningSound
  BY DEF Init, Idle, TurnCovered, OnFile, WriteAdmitted, OpeningSound
<1>4. ActedOnce
  BY NothingSaid DEF Init, ActedOnce
<1> QED
  BY <1>1, <1>2, <1>3, <1>4 DEF IInv

LEMMA NextInvariant ==
  ASSUME IInv, [Next]_vars
  PROVE  IInv'
<1>1. CASE \E s \in Session : Message(s)
  <2>1. PICK s \in Session : Message(s)
    BY <1>1
  <2> QED
    BY <2>1, RequestStep, ProtectedStep, WithdrawStep, ResumeStep DEF Message
<1>2. CASE Look \/ LookRaises \/ Decide
  BY <1>2, LookStep, LookRaisesStep, DecideStep
<1>3. CASE Tool
  <2>1. CASE ToolFails \/ VerifyWrite \/ Measure \/ ReadFile \/ Recheck
    BY <2>1, LookingStages
  <2> QED
    BY <1>3, <2>1, AdmitStep, WriteFileStep, WriteFailsStep DEF Tool
<1>4. CASE Opening
  <2>1. ASSUME NEW s \in Session, RequestOpen(s) \/ Diagnose(s)
        PROVE  IInv'
    BY <2>1, RequestOpenStep, DiagnoseStep
  <2> QED
    BY <1>4, <2>1, OpeningEndStep, LaunchSucceedsStep DEF Opening
<1>5. CASE OtherProgram \/ Register
  BY <1>5, OtherProgramStep, RegisterStep
<1>6. CASE UNCHANGED vars
  <2>1. UNCHANGED <<files, level, pending, turn, answer, said, late>>
    BY <1>6 DEF vars
  <2>2. TypeOK'
    BY <2>1 DEF IInv, TypeOK
  <2>3. PendingExplained' /\ PendingCovered' /\ TurnCovered'
    BY <2>1 DEF IInv, PendingExplained, PendingCovered, Covered, Busy,
                TurnCovered, OnFile, Wrote
  <2>4. WriteAdmitted' /\ OpeningSound' /\ ActedOnce'
    BY <2>1 DEF IInv, WriteAdmitted, Exists, PathOf, OpeningSound, ActedOnce
  <2> QED
    BY <2>2, <2>3, <2>4 DEF IInv
<1> QED
  BY <1>1, <1>2, <1>3, <1>4, <1>5, <1>6 DEF Next

LEMMA Inductive == Spec => []IInv
<1>1. IInv /\ [Next]_vars => IInv'
  BY NextInvariant
<1> QED
  BY InitInvariant, <1>1, PTL DEF Spec

-----------------------------------------------------------------------------
(* What holds of every dialogue.                                           *)

\* Between any two steps of the bridge its pending actions, its turn and its
\* files are well formed, every question that PendingActionManager keeps asks
\* for exactly what its action lacks, and it is kept if and only if the
\* session's last answer asked it: resume_pending never takes a new request
\* for a reply, however turns of several sessions follow each other.
THEOREM DialogueAlwaysSound == Spec => []DialogueSound
<1>1. IInv => DialogueSound
  BY DEF IInv, DialogueSound
<1> QED
  BY Inductive, <1>1, PTL

\* A request to write a file writes at most once, although the turns that
\* complete it may ask, fail, raise and be resumed in any order.
THEOREM ActsOnce == Spec => []ActedOnce
<1>1. IInv => ActedOnce
  BY DEF IInv
<1> QED
  BY Inductive, <1>1, PTL

\* The only step that both changes a file and moves its turn on is the
\* opening of the file by write_text.
LEMMA ChangeIsWrite ==
  ASSUME TypeOK, Next, Changes
  PROVE  WriteFile \/ WriteFails
<1>1. turn.stage = "writing" /\ turn # Idle /\ turn' # turn
  BY DEF Changes, Idle
<1>2. ~ \E s \in Session : Message(s)
  BY <1>1 DEF Message, RequestRead, RequestWrite, RequestProtected, Withdraw,
              Resume
<1>3. ~ Look /\ ~ LookRaises /\ ~ Decide
  BY <1>1 DEF Look, LookRaises, Decide
<1>4. ~ Opening
  BY <1>1 DEF Opening, RequestOpen, Diagnose, LaunchRefused, LaunchFails,
              LaunchSucceeds, AllOpened, NextLaunch
<1>5. ~ OtherProgram /\ ~ Register
  BY <1>1 DEF OtherProgram, Register
<1>6. Tool => WriteFile \/ WriteFails
  BY <1>1 DEF Tool, Admit, ToolFails, VerifyWrite, Measure, ReadFile, Recheck
<1> QED
  BY <1>2, <1>3, <1>4, <1>5, <1>6 DEF Next

\* What write_text opens is what was said, where it was said, and what is
\* lost there was given up.
LEMMA WriteWarranted ==
  ASSUME IInv, WriteFile \/ WriteFails, files' # files
  PROVE  LET job == turn.job
             words == said[turn.session]
         IN /\ Exists(PathOf(job)) => words.consent \/ late
            /\ job.filename \in words.filename /\ job.folder \in words.folder
            /\ job.folder \in Inside
            /\ files'[PathOf(job)] \in words.content \cup {Junk}
            /\ \A path \in Path \ {PathOf(job)} :
                 files'[path] = files[path]
<1>1. turn.stage = "writing" /\ OnFile
  BY AtStage DEF WriteFile, WriteFails
<1>2. /\ turn.job \in Parameters /\ Complete(turn.job)
      /\ SaidBy(said[turn.session], turn.job)
      /\ PathOf(turn.job) \in Path /\ turn.job.mode = "write"
  BY <1>1, FileTurnFacts DEF IInv, TurnCovered
<1>3. /\ turn.job.folder \in Inside
      /\ Exists(PathOf(turn.job)) => turn.job.overwrite \/ late
  BY <1>1 DEF IInv, WriteAdmitted
<1>4. PICK content \in {turn.job.content, Junk} :
        files' = [files EXCEPT ![PathOf(turn.job)] = content]
  BY DEF WriteFile, WriteFails, Stop
<1>5. /\ files'[PathOf(turn.job)] = content
      /\ \A path \in Path \ {PathOf(turn.job)} : files'[path] = files[path]
  BY <1>2, <1>4 DEF IInv, TypeOK
<1>6. turn.job.content \in said[turn.session].content
  BY <1>2 DEF SaidBy, Complete
<1>7. /\ turn.job.filename \in said[turn.session].filename
      /\ turn.job.folder \in said[turn.session].folder
      /\ turn.job.overwrite => said[turn.session].consent
  BY <1>2 DEF SaidBy, Complete
<1> QED
  BY <1>3, <1>4, <1>5, <1>6, <1>7

\* Whatever another session or another program does between two steps of a
\* turn, write_text changes only the file that this session named, in an
\* allowed directory, to the content it dictated, and replaces a file only
\* with its consent, but for one that appeared after the tool had looked.
THEOREM WritesAlwaysWarranted == Spec => WritesWarranted
<1>1. ASSUME IInv, [Next]_vars
      PROVE  [Changes =>
               LET job == turn.job
                   words == said[turn.session]
               IN /\ Exists(PathOf(job)) => words.consent \/ late
                  /\ job.filename \in words.filename
                  /\ job.folder \in words.folder
                  /\ job.folder \in Inside
                  /\ files'[PathOf(job)] \in words.content \cup {Junk}
                  /\ \A path \in Path \ {PathOf(job)} :
                       files'[path] = files[path]]_vars
  <2>1. CASE UNCHANGED vars
    BY <2>1
  <2>2. CASE Next /\ Changes
    <3>1. WriteFile \/ WriteFails
      BY <1>1, <2>2, ChangeIsWrite DEF IInv
    <3>2. files' # files
      BY <2>2 DEF Changes
    <3> QED
      BY <1>1, <3>1, <3>2, WriteWarranted
  <2> QED
    BY <1>1, <2>1, <2>2
<1> QED
  BY Inductive, <1>1, PTL DEF Spec, WritesWarranted

\* The steps with which a turn on a file ends, and their answers.
LEMMA FileTurnEnds ==
  ASSUME IInv, Next, turn # Idle, turn' = Idle, turn.stage # "opening"
  PROVE  \/ /\ turn.stage \in {"looking", "deciding"} /\ ~ answer'.performed
            /\ answer'.status \in {"blocked", "raised",
                                   "clarification_required"}
         \/ answer'.status = "error"
         \/ /\ turn.stage \in {"measuring", "rechecking"}
            /\ Exists(PathOf(turn.job))
            /\ answer'.status = "success" /\ answer'.performed
<1>1. ~ \E s \in Session : Message(s)
  BY DEF Message, RequestRead, RequestWrite, RequestProtected, Withdraw,
         Resume
<1>2. ~ Opening
  BY DEF Opening, RequestOpen, Diagnose, LaunchRefused, LaunchFails,
         LaunchSucceeds, AllOpened, NextLaunch
<1>3. ~ OtherProgram /\ ~ Register
  BY DEF OtherProgram, Register
<1>4. OnFile /\ turn \in FileTurn
  BY TurnCases DEF IInv, OnFile
<1>5. ASSUME NEW stage \in Stages \ {"idle"}
      PROVE  ~ Enter(stage)
  BY <1>4, <1>5 DEF Enter, FileTurn, Idle
<1>6. CASE Look
  BY <1>5, <1>6 DEF Look, AskFor, Answered, Stages
<1>7. CASE LookRaises
  BY <1>7 DEF LookRaises, Answered
<1>8. CASE Decide
  BY <1>5, <1>8 DEF Decide, Stop, End, Answered, Stages
<1>9. CASE Tool
  <2>1. CASE ToolFails \/ WriteFails
    BY <2>1 DEF ToolFails, WriteFails, Stop, End, Answered
  <2>2. CASE Admit \/ WriteFile \/ ReadFile
    <3>1. \E stage \in {"reading", "writing", "verifying", "rechecking"} :
            Enter(stage)
      BY <2>2 DEF Admit, WriteFile, ReadFile
    <3> QED
      BY <1>5, <3>1 DEF Stages
  <2>3. CASE VerifyWrite
    BY <1>5, <2>3 DEF VerifyWrite, Stop, End, Answered, Stages
  <2>4. CASE Measure
    BY <2>4 DEF Measure, Stop, End, Answered
  <2>5. CASE Recheck
    BY <2>5 DEF Recheck, Stop, End, Answered
  <2> QED
    BY <1>9, <2>1, <2>2, <2>3, <2>4, <2>5 DEF Tool
<1> QED
  BY <1>1, <1>2, <1>3, <1>6, <1>7, <1>8, <1>9 DEF Next

\* The result that execute_completed_file_request returns is what happened:
\* success is one write that was read back, or a read, of a file that is
\* there, and a turn that was blocked, raised or asked wrote nothing.
THEOREM AnswersTruthful == Spec => AnswerTruthful
<1>1. ASSUME IInv, [Next]_vars
      PROVE  [turn # Idle /\ turn' = Idle /\ turn.stage # "opening" =>
               LET wrote == said[turn.session].writes
                              + (IF Changes THEN 1 ELSE 0)
               IN /\ answer'.status = "success" =>
                       /\ answer'.performed
                       /\ Exists(PathOf(turn.job))
                       /\ turn.job.mode = "write" => wrote = 1
                  /\ answer'.status \in {"blocked", "raised",
                                         "clarification_required"}
                       => ~answer'.performed /\ wrote = 0]_vars
  <2>1. CASE UNCHANGED vars
    BY <2>1
  <2>2. CASE Next /\ turn # Idle /\ turn' = Idle /\ turn.stage # "opening"
    <3>1. OnFile
      BY <2>2 DEF OnFile
    <3>2. said[turn.session].writes = IF Wrote THEN 1 ELSE 0
      BY <1>1, <3>1, FileTurnFacts
    <3>3. turn.stage = "rechecking" => turn.job.mode = "read"
      BY <1>1, <3>1 DEF IInv, TurnCovered
    <3>4. turn.job.mode \in {"read", "write"}
      BY <1>1, <3>1, FileTurnFacts, ParametersType
    <3>5. CASE /\ turn.stage \in {"looking", "deciding"}
               /\ ~ answer'.performed
               /\ answer'.status \in {"blocked", "raised",
                                      "clarification_required"}
      <4>1. ~ Wrote /\ ~ Changes
        BY <3>5 DEF Wrote, Changes
      <4> QED
        BY <3>2, <3>5, <4>1
    <3>6. CASE answer'.status = "error"
      BY <3>6
    <3>7. CASE /\ turn.stage \in {"measuring", "rechecking"}
               /\ Exists(PathOf(turn.job))
               /\ answer'.status = "success" /\ answer'.performed
      <4>1. ~ Changes
        BY <3>7 DEF Changes
      <4>2. turn.stage = "measuring" => Wrote
        BY DEF Wrote
      <4> QED
        BY <3>2, <3>3, <3>7, <4>1, <4>2
    <3> QED
      BY <1>1, <2>2, <3>5, <3>6, <3>7, FileTurnEnds
  <2> QED
    BY <1>1, <2>1, <2>2
<1> QED
  BY Inductive, <1>1, PTL DEF Spec, AnswerTruthful

\* Of what was asked for nothing was opened twice, and all of it was opened
\* if and only if nothing is left.
LEMMA OpeningCounts ==
  ASSUME IInv, turn.stage = "opening"
  PROVE  LET times(x) == Cardinality({i \in DOMAIN turn.results :
                                        x \in {turn.results[i].target,
                                               turn.results[i].url}})
         IN /\ \A i \in DOMAIN turn.results :
                 turn.results[i].target \in Wanted(turn.words)
            /\ \A x \in Wanted(turn.words) : times(x) <= 1
            /\ turn.left = << >>
                 <=> \A x \in Wanted(turn.words) : times(x) = 1
<1> DEFINE r == turn.results
           l == turn.left
           b == Batch(turn.words)
           W == Wanted(turn.words)
           Places(x) == {i \in DOMAIN r : x \in {r[i].target, r[i].url}}
<1>1. /\ turn.words \in Openings /\ r \in Seq(Launched) /\ l \in Seq(Launched)
      /\ r \o l = b
  BY OpeningFacts
<1>2. /\ b \in Seq(Launched)
      /\ \A i \in 1 .. Len(b) : b[i].target \in W
      /\ \A x \in W :
           \E i \in 1 .. Len(b) :
             /\ Opens(b[i], x)
             /\ \A j \in 1 .. Len(b) : Opens(b[j], x) => j = i
  BY <1>1, BatchMeans
<1> HIDE DEF r, l, b, W
<1>3. /\ Len(b) = Len(r) + Len(l)
      /\ \A i \in 1 .. Len(r) + Len(l) :
           b[i] = IF i <= Len(r) THEN r[i] ELSE l[i - Len(r)]
  BY <1>1, ConcatProperties
<1>4. /\ Len(r) \in Nat /\ Len(l) \in Nat /\ DOMAIN r = 1 .. Len(r)
      /\ l = << >> <=> Len(l) = 0
  BY <1>1, LenProperties, EmptySeq
<1>5. \A i \in 1 .. Len(r) : i \in 1 .. Len(b) /\ b[i] = r[i]
  BY <1>3, <1>4
<1>6. \A i \in DOMAIN r : r[i].target \in W
  BY <1>2, <1>4, <1>5
<1>7. ASSUME NEW x \in W
      PROVE  \E i \in 1 .. Len(b) :
               /\ Opens(b[i], x)
               /\ \A j \in 1 .. Len(b) : Opens(b[j], x) => j = i
               /\ Places(x) = IF i \in DOMAIN r THEN {i} ELSE {}
  <2>1. PICK i \in 1 .. Len(b) :
               /\ Opens(b[i], x)
               /\ \A j \in 1 .. Len(b) : Opens(b[j], x) => j = i
    BY <1>2
  <2>2. \A j \in DOMAIN r : j \in Places(x) <=> Opens(b[j], x)
    BY <1>4, <1>5 DEF Opens
  <2>3. \A j \in DOMAIN r : j \in Places(x) <=> j = i
    BY <1>4, <1>5, <2>1, <2>2
  <2>4. Places(x) = IF i \in DOMAIN r THEN {i} ELSE {}
    BY <2>3
  <2> QED
    BY <2>1, <2>4
<1>8. \A i : Cardinality({i}) = 1
  BY FS_Singleton
<1>9. Cardinality({}) = 0
  BY FS_EmptySet
<1>10. ASSUME NEW x \in W
       PROVE  Cardinality(Places(x)) <= 1
  <2>1. PICK i : Places(x) = IF i \in DOMAIN r THEN {i} ELSE {}
    BY <1>7
  <2> HIDE DEF Places
  <2> QED
    BY <1>8, <1>9, <2>1
<1>11. ASSUME l = << >>, NEW x \in W
       PROVE  Cardinality(Places(x)) = 1
  <2>1. PICK i \in 1 .. Len(b) :
          Places(x) = IF i \in DOMAIN r THEN {i} ELSE {}
    BY <1>7
  <2>2. i \in DOMAIN r
    BY <1>3, <1>4, <1>11
  <2> HIDE DEF Places
  <2> QED
    BY <1>8, <2>1, <2>2
<1>12. ASSUME l # << >>
       PROVE  \E x \in W : Cardinality(Places(x)) # 1
  <2> DEFINE k == Len(r) + 1
  <2>1. k \in 1 .. Len(b) /\ k \notin DOMAIN r
    BY <1>3, <1>4, <1>12
  <2>2. b[k].target \in W
    BY <1>2, <2>1
  <2>3. PICK i \in 1 .. Len(b) :
          /\ Opens(b[i], b[k].target)
          /\ \A j \in 1 .. Len(b) : Opens(b[j], b[k].target) => j = i
          /\ Places(b[k].target) = IF i \in DOMAIN r THEN {i} ELSE {}
    BY <1>7, <2>2
  <2>4. k = i
    BY <2>1, <2>3 DEF Opens
  <2>5. Places(b[k].target) = {}
    BY <2>1, <2>3, <2>4
  <2>6. Cardinality(Places(b[k].target)) # 1
    <3> HIDE DEF Places
    <3> QED
      BY <1>9, <2>5
  <2> QED
    BY <2>2, <2>6
<1> QED
  BY <1>6, <1>10, <1>11, <1>12 DEF r, l, W

\* A request to open something ends by one of three steps.
LEMMA LastLaunch ==
  ASSUME IInv, Next, turn.stage = "opening", turn' = Idle
  PROVE  LaunchRefused \/ LaunchFails \/ AllOpened
<1>1. turn # Idle /\ turn \in OpeningTurn
  BY OpeningFacts
<1>2. ~ \E s \in Session : Message(s)
  BY <1>1 DEF Message, RequestRead, RequestWrite, RequestProtected, Withdraw,
              Resume
<1>3. ~ Look /\ ~ LookRaises /\ ~ Decide
  BY DEF Look, LookRaises, Decide
<1>4. ~ Tool
  BY DEF Tool, Admit, ToolFails, WriteFile, WriteFails, VerifyWrite, Measure,
         ReadFile, Recheck
<1>5. ~ OtherProgram /\ ~ Register
  BY <1>1 DEF OtherProgram, Register
<1>6. ~ LaunchSucceeds
  BY <1>1 DEF LaunchSucceeds, OpeningTurn, Idle
<1> QED
  BY <1>1, <1>2, <1>3, <1>4, <1>5, <1>6 DEF Next, Opening, RequestOpen, Diagnose

\* Everything that the words of a request name is opened exactly once before
\* _execute_system says success, and whatever it opened before a failure or a
\* refusal was asked for and opened once: for any list of aliases, any words,
\* any number of addresses, said once or several times.
THEOREM LaunchesAnswered == Spec => LaunchAnswered
<1>1. ASSUME IInv, [Next]_vars
      PROVE  [turn.stage = "opening" /\ turn' = Idle =>
               LET meant == IF Meant(turn.words) = {} THEN {Unnamed}
                            ELSE Meant(turn.words)
                   times(x) == Cardinality({i \in DOMAIN turn.results :
                                              x \in {turn.results[i].target,
                                                     turn.results[i].url}})
               IN /\ \A i \in DOMAIN turn.results :
                       turn.results[i].target \in meant
                  /\ \A x \in meant : times(x) <= 1
                  /\ answer'.status = "success"
                       <=> \A x \in meant : times(x) = 1
                  /\ answer'.performed <=> answer'.status = "success"]_vars
  <2>1. CASE UNCHANGED vars
    BY <2>1
  <2>2. CASE Next /\ turn.stage = "opening" /\ turn' = Idle
    <3>1. LaunchRefused \/ LaunchFails \/ AllOpened
      BY <1>1, <2>2, LastLaunch
    <3>2. PICK status \in {"success", "error", "blocked"},
               performed \in BOOLEAN :
            /\ OpeningEnds(status, performed)
            /\ status = "success" <=> turn.left = << >>
            /\ performed <=> turn.left = << >>
      BY <1>1, <3>1, OpeningEnd
    <3>3. /\ answer'.status = "success" <=> turn.left = << >>
          /\ answer'.performed <=> answer'.status = "success"
      BY <3>2 DEF OpeningEnds, Answered
    <3> QED
      BY <1>1, <2>2, <3>3, OpeningCounts DEF Wanted
  <2> QED
    BY <1>1, <2>1, <2>2
<1> QED
  BY Inductive, <1>1, PTL DEF Spec, LaunchAnswered
=============================================================================
