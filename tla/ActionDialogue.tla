--------------------------- MODULE ActionDialogue ---------------------------
(***************************************************************************)
(* The file dialogue of src/execution/action_bridge.py: a request to read  *)
(* or write a file, the questions asked for what it leaves out, kept per   *)
(* session by src/execution/pending_actions.py, the permission policy of   *)
(* src/security/permissions.py and the file tools of                       *)
(* src/tools/filesystem_actions.py behind the tool registry; and the       *)
(* requests to open applications and addresses, one after the other, or to *)
(* look at the machine's performance.                                      *)
(* Turns run one at a time on the caller's thread; other programs of the   *)
(* machine create, change and delete files between any two of their steps. *)
(***************************************************************************)
EXTENDS FiniteSets, Launches

CONSTANTS
  Session,      \* conversations sharing the bridge
  FileName,     \* names a user may give a file
  Folder,       \* folders a user may name
  Inside,       \* the folders under the home or the project directory
  Text,         \* contents a user may dictate
  None,         \* what was not said; also the content of an absent file
  Junk,         \* content nobody dictated: another program's, or cut short
  Requests,     \* what a first message may ask for
  Replies,      \* what an answer to a question may give
  Openings,     \* what a request to open something may say
  Policies      \* the policies PermissionManager.register may lead to

Field == {"filename", "folder", "content", "overwrite"}
Path == FileName \X Folder

\* The actions that require approval unless they are registered again.
Managed == {"filesystem.write", "application.launch", "web.open_url"}

Level == {"safe", "approval_required", "high_risk", "denied"}

Parameters == [mode : {"read", "write"},
               filename : FileName \cup {None},
               folder : Folder \cup {None},
               content : Text \cup {None},
               overwrite : BOOLEAN]

\* An unfinished action: the fields it asks for, and what it has of others.
Question == [missing : SUBSET Field, data : Parameters]

\* No unfinished action is none.
ASSUME QuestionAssumption == None \notin Question

ASSUME DialogueAssumption ==
  /\ Inside \subseteq Folder
  /\ None \notin FileName \cup Folder \cup Text /\ Junk \notin Text \cup {None}
  /\ Requests \subseteq Parameters
  /\ Replies \subseteq [words : {"cancel", "yes", "no", "other"},
                        filename : FileName \cup {None},
                        folder : Folder \cup {None},
                        content : Text]
  /\ Openings \subseteq [names : SUBSET Aliases, addresses : Seq(Address)]
  /\ Policies \subseteq [Managed -> Level]

VARIABLES
  files,    \* path -> content
  level,    \* PermissionManager._permissions of the managed actions
  pending,  \* PendingActionManager._pending: session -> unfinished action
  turn,     \* the turn in progress
  answer,   \* the last answer given
  said,     \* history: what each session said since its request
  late      \* history: the file appeared after the tool looked for it

vars == <<files, level, pending, turn, answer, said, late>>

Idle == [stage |-> "idle"]

Nothing == [filename |-> {}, folder |-> {}, content |-> {},
            consent |-> FALSE, writes |-> 0]

\* The path a complete set of parameters names.
PathOf(job) == <<job.filename, job.folder>>

Blank == [mode |-> "read", filename |-> None, folder |-> None,
          content |-> None, overwrite |-> FALSE]

----------------------------------------------------------------------------
(* Filling in the parameters. *)

\* What a write request leaves out.
Missing(job) == {f \in {"filename", "folder", "content"} : job[f] = None}

\* A field that is missing takes what the reply gives for it.
Given(field, value, reply, missing) ==
  IF field \in missing /\ reply[field] # None THEN reply[field] ELSE value

Filled(p, reply) ==
  [p.data EXCEPT
     !.filename = Given("filename", @, reply, p.missing),
     !.folder = Given("folder", @, reply, p.missing),
     !.content = Given("content", @, reply, p.missing),
     !.overwrite = @ \/ ("overwrite" \in p.missing /\ reply.words = "yes")]

\* Mutant of Left: the content is filled in but stays missing.
LeftContent(p, reply) ==
  {f \in p.missing : CASE f = "overwrite" -> reply.words # "yes"
                       [] f = "content" -> p.missing # {"content"}
                       [] OTHER -> reply[f] = None}

\* What is still missing after the reply.
Left(p, reply) ==
  {f \in p.missing : IF f = "overwrite" THEN reply.words # "yes"
                                        ELSE reply[f] = None}

\* resume_pending gives up on these replies, in this order.
Withdrawn(p, reply) ==
  \/ reply.words = "cancel"
  \/ "overwrite" \in p.missing /\ reply.words = "no"

----------------------------------------------------------------------------
(* Ending a turn. *)

Answered(s, status, performed) ==
  answer' = [session |-> s, status |-> status, performed |-> performed]

\* What was said is kept while the request is unfinished.
Remembered(s, heard) ==
  said' = [said EXCEPT ![s] = IF pending'[s] = None THEN Nothing ELSE heard]

\* Mutant of AskFor: the unfinished action is not kept by session.
AskForAnyone(s, missing, job, heard) ==
  /\ pending' = [t \in Session |-> [missing |-> missing, data |-> job]]
  /\ Answered(s, "clarification_required", FALSE)
  /\ turn' = Idle
  /\ Remembered(s, heard)
  /\ UNCHANGED <<files, level, late>>

\* A question leaves its pending action for the next message.
AskFor(s, missing, job, heard) ==
  /\ pending' = [pending EXCEPT ![s] = [missing |-> missing, data |-> job]]
  /\ Answered(s, "clarification_required", FALSE)
  /\ turn' = Idle
  /\ Remembered(s, heard)
  /\ UNCHANGED <<files, level, late>>

\* resume_pending clears what it resumed after any result but a question.
Settled(s) == [pending EXCEPT ![s] = None]

\* Mutant of End: only a success clears the pending action.
EndUncleared(status, performed, heard) ==
  /\ pending' = IF status = "success" THEN Settled(turn.session) ELSE pending
  /\ Answered(turn.session, status, performed)
  /\ turn' = Idle
  /\ Remembered(turn.session, heard)
  /\ late' = FALSE
  /\ UNCHANGED level

\* The turn's result is returned; the file may have changed on the way.
End(status, performed, heard) ==
  /\ pending' = Settled(turn.session)
  /\ Answered(turn.session, status, performed)
  /\ turn' = Idle
  /\ Remembered(turn.session, heard)
  /\ late' = FALSE
  /\ UNCHANGED level

Stop(status, performed) ==
  /\ End(status, performed, said[turn.session])
  /\ UNCHANGED files

Enter(stage) == turn' = [turn EXCEPT !.stage = stage]

----------------------------------------------------------------------------
(* One message of a user. *)

Begin(s, stage, job) ==
  /\ turn' = [stage |-> stage, session |-> s, job |-> job]
  /\ UNCHANGED <<files, level, pending, answer, late>>

\* orchestrator.handle offers a message to resume_pending before anything
\* else, so a request is taken as one only when nothing is pending.
Heard(q) == [filename |-> {q.filename} \ {None},
             folder |-> {q.folder} \ {None}, content |-> {q.content} \ {None},
             consent |-> q.overwrite, writes |-> 0]

RequestRead(s) ==
  /\ turn = Idle /\ pending[s] = None
  /\ \E q \in Requests :
       /\ q.mode = "read"
       /\ \/ /\ None \in {q.filename, q.folder}
             /\ AskFor(s, {"filename", "folder"}, Blank, Heard(q))
          \/ /\ None \notin {q.filename, q.folder}
             /\ Begin(s, "deciding", q)
             /\ said' = [said EXCEPT ![s] = Heard(q)]

RequestWrite(s) ==
  /\ turn = Idle /\ pending[s] = None
  /\ \E q \in Requests :
       /\ q.mode = "write"
       /\ \/ /\ Missing(q) # {}
             /\ AskFor(s, Missing(q), q, Heard(q))
          \/ /\ Missing(q) = {}
             /\ Begin(s, "looking", q)
             /\ said' = [said EXCEPT ![s] = Heard(q)]

\* Deleting, moving, copying and renaming are refused outright.
RequestProtected(s) ==
  /\ turn = Idle /\ pending[s] = None
  /\ Answered(s, "blocked", FALSE)
  /\ UNCHANGED <<files, level, pending, turn, said, late>>

HeardAlso(s, p, reply) ==
  [said[s] EXCEPT !.filename = @ \cup ({reply.filename} \ {None}),
                  !.folder = @ \cup ({reply.folder} \ {None}),
                  !.content = @ \cup {reply.content},
                  !.consent = @ \/ (p.missing = {"overwrite"}
                                      /\ reply.words = "yes")]

Withdraw(s) ==
  /\ turn = Idle /\ pending[s] # None
  /\ \E reply \in Replies : Withdrawn(pending[s], reply)
  /\ pending' = Settled(s)
  /\ Answered(s, "success", FALSE)
  /\ Remembered(s, Nothing)
  /\ UNCHANGED <<files, level, turn, late>>

Resume(s) ==
  /\ turn = Idle /\ pending[s] # None
  /\ \E reply \in Replies :
       LET p == pending[s]
           job == Filled(p, reply)
           left == Left(p, reply)
           heard == HeardAlso(s, p, reply)
       IN /\ ~Withdrawn(p, reply)
          /\ \/ left # {} /\ AskFor(s, left, job, heard)
             \/ /\ left = {}
                /\ Begin(s, IF job.mode = "read" THEN "deciding"
                            ELSE "looking", job)
                /\ said' = [said EXCEPT ![s] = heard]

----------------------------------------------------------------------------
(* _execute_completed_file_request and _run_tool. *)

Exists(path) == files[path] # None

\* Nothing is there, or the user said it may be replaced.
Clear(job) == ~Exists(PathOf(job)) \/ job.overwrite

\* path.exists() before a write that may not replace anything.
Look ==
  /\ turn.stage = "looking"
  /\ \/ /\ ~Clear(turn.job)
        /\ AskFor(turn.session, {"overwrite"}, turn.job, said[turn.session])
     \/ /\ Clear(turn.job)
        /\ Enter("deciding")
        /\ UNCHANGED <<files, level, pending, answer, said, late>>

\* A directory that may not be searched makes exists() raise: the error
\* leaves the bridge, and an action that was pending stays as it was.
LookRaises ==
  /\ turn.stage = "looking"
  /\ turn' = Idle
  /\ UNCHANGED <<files, level, pending, late>>
  /\ Answered(turn.session, "raised", FALSE)
  /\ Remembered(turn.session, said[turn.session])

\* The request is the approval of an action that requires one.
Permitted(action) == level[action] \in {"safe", "approval_required"}

Allowed(job) == job.mode = "read" \/ Permitted("filesystem.write")

Decide ==
  /\ turn.stage = "deciding"
  /\ \/ ~Allowed(turn.job) /\ Stop("blocked", FALSE)
     \/ /\ Allowed(turn.job)
        /\ Enter("tool")
        /\ UNCHANGED <<files, level, pending, answer, said, late>>

\* Mutant of ToolFails: an exception is reported as a success.
ToolFailsQuietly ==
  /\ turn.stage \in {"tool", "reading", "verifying", "measuring"}
  /\ Stop("success", TRUE)

\* The registry has no such tool, it is disabled, the path is outside, the
\* file or its directory is missing, there is a file that may not be replaced
\* or one too large to read, or the operating system refuses: the executor
\* turns every failure into an error result.
ToolFails ==
  /\ turn.stage \in {"tool", "reading", "verifying", "measuring"}
  /\ Stop("error", FALSE)

\* Mutant of Admitted: the tool trusts the bridge's check.
AdmittedUnchecked(job) == job.folder \in Inside

\* write_text up to its own check for an existing file; read_text takes
\* the same roots.
Admitted(job) ==
  job.folder \in Inside /\ (job.mode = "write" => Clear(job))

Admit ==
  /\ turn.stage = "tool" /\ Admitted(turn.job)
  /\ turn.job.mode = "read" => Exists(PathOf(turn.job))
  /\ Enter(IF turn.job.mode = "read" THEN "reading" ELSE "writing")
  /\ late' = FALSE
  /\ UNCHANGED <<files, level, pending, answer, said>>

Counted(s) == [said[s] EXCEPT !.writes = @ + 1]

\* target.write_text() opens the file for truncation and writes it.
WriteFile ==
  /\ turn.stage = "writing"
  /\ files' = [files EXCEPT ![PathOf(turn.job)] = turn.job.content]
  /\ said' = [said EXCEPT ![turn.session] = Counted(turn.session)]
  /\ Enter("verifying")
  /\ late' = FALSE
  /\ UNCHANGED <<level, pending, answer>>

\* It may fail before the file is opened or after it was truncated.
WriteFails ==
  /\ turn.stage = "writing"
  /\ \/ Stop("error", FALSE)
     \/ /\ files' = [files EXCEPT ![PathOf(turn.job)] = Junk]
        /\ End("error", FALSE, Counted(turn.session))

\* The file is read back; anything but the text written is an error.
VerifyWrite ==
  /\ turn.stage = "verifying"
  /\ \/ /\ files[PathOf(turn.job)] = turn.job.content
        /\ Enter("measuring")
        /\ UNCHANGED <<files, level, pending, answer, said, late>>
     \/ /\ files[PathOf(turn.job)] # turn.job.content
        /\ Stop("error", FALSE)

\* stat() for the size that is reported; a file that is gone raises.
Measure ==
  /\ turn.stage = "measuring" /\ Exists(PathOf(turn.job))
  /\ Stop("success", TRUE)

ReadFile ==
  /\ turn.stage = "reading" /\ Exists(PathOf(turn.job))
  /\ Enter("rechecking")
  /\ UNCHANGED <<files, level, pending, answer, said, late>>

\* verified_exists is looked up after the read: a file deleted in between
\* was read, and the answer is that the outcome could not be verified.
Recheck ==
  /\ turn.stage = "rechecking"
  /\ \/ Exists(PathOf(turn.job)) /\ Stop("success", TRUE)
     \/ ~Exists(PathOf(turn.job)) /\ Stop("error", TRUE)

----------------------------------------------------------------------------
(* _execute_system: a request to open something is never left pending.  The *)
(* clarification it could ask for needs words without any target, and those *)
(* are no request.                                                          *)

RequestOpen(s) ==
  /\ turn = Idle /\ pending[s] = None
  /\ \E words \in Openings :
       turn' = [stage |-> "opening", session |-> s, job |-> Blank,
                words |-> words, left |-> Batch(words), results |-> <<>>]
  /\ UNCHANGED <<files, level, pending, answer, said, late>>

NextLaunch == turn.stage = "opening" /\ turn.left # <<>>

OpeningEnds(status, performed) ==
  /\ Answered(turn.session, status, performed)
  /\ turn' = Idle
  /\ UNCHANGED <<files, level, pending, said, late>>

LaunchRefused ==
  /\ NextLaunch /\ ~Permitted(Head(turn.left).action)
  /\ OpeningEnds("blocked", FALSE)

\* Mutant of LaunchFails: what cannot be opened is passed over.
LaunchSkipped ==
  /\ NextLaunch /\ Permitted(Head(turn.left).action)
  /\ turn' = [turn EXCEPT !.left = Tail(@)]
  /\ UNCHANGED <<files, level, pending, answer, said, late>>

\* The application is not found, the operating system refuses, the browser
\* does not accept: the first failure is the answer.
LaunchFails ==
  /\ NextLaunch /\ Permitted(Head(turn.left).action)
  /\ OpeningEnds("error", FALSE)

LaunchSucceeds ==
  /\ NextLaunch /\ Permitted(Head(turn.left).action)
  /\ turn' = [turn EXCEPT !.left = Tail(@),
                          !.results = Append(@, Head(turn.left))]
  /\ UNCHANGED <<files, level, pending, answer, said, late>>

\* One result is returned as it is, several as one success.
AllOpened ==
  /\ turn.stage = "opening" /\ turn.left = <<>>
  /\ OpeningEnds("success", TRUE)

\* _execute_diagnostic only looks: a snapshot of the machine is taken within
\* its time limit, which the policy allows, or the tool fails.
Diagnose(s) ==
  /\ turn = Idle /\ pending[s] = None
  /\ \E taken \in BOOLEAN :
       Answered(s, IF taken THEN "success" ELSE "error", taken)
  /\ UNCHANGED <<files, level, pending, turn, said, late>>

----------------------------------------------------------------------------
(* Around the turns. *)

\* Any other program of the machine changes, creates or deletes a file.
OtherProgram ==
  \E path \in Path, content \in {None, Junk} :
    /\ files[path] # content
    /\ files' = [files EXCEPT ![path] = content]
    /\ late' = (\/ late
                \/ /\ turn.stage = "writing" /\ path = PathOf(turn.job)
                   /\ ~Exists(path))
    /\ UNCHANGED <<level, pending, turn, answer, said>>

\* PermissionManager.register between two turns.
Register ==
  /\ turn = Idle
  /\ level' \in Policies \ {level}
  /\ UNCHANGED <<files, pending, turn, answer, said, late>>

Init ==
  /\ files \in [Path -> {None, Junk}]
  /\ level = [action \in Managed |-> "approval_required"]
  /\ pending = [s \in Session |-> None]
  /\ turn = Idle
  /\ answer = None
  /\ said = [s \in Session |-> Nothing]
  /\ late = FALSE

Message(s) == \/ RequestRead(s) \/ RequestWrite(s) \/ RequestProtected(s)
              \/ Withdraw(s) \/ Resume(s)

Opening == \/ \E s \in Session : RequestOpen(s) \/ Diagnose(s)
           \/ LaunchRefused \/ LaunchFails \/ LaunchSucceeds \/ AllOpened

Tool == \/ Admit \/ ToolFails \/ WriteFile \/ WriteFails
        \/ VerifyWrite \/ Measure \/ ReadFile \/ Recheck

Next == \/ \E s \in Session : Message(s)
        \/ Look \/ LookRaises \/ Decide \/ Tool
        \/ Opening \/ OtherProgram \/ Register

Spec == Init /\ [][Next]_vars

----------------------------------------------------------------------------
(* Correctness. *)

Stages == {"idle", "looking", "deciding", "tool", "writing", "verifying",
           "measuring", "reading", "rechecking", "opening"}

Statuses == {"success", "error", "blocked", "raised", "clarification_required"}

FileTurn == [stage : Stages \ {"idle", "opening"}, session : Session,
             job : Parameters]

OpeningTurn == [stage : {"opening"}, session : Session, job : {Blank},
                words : Openings, left : Seq(Launched), results : Seq(Launched)]

Speech == [filename : SUBSET FileName, folder : SUBSET Folder,
           content : SUBSET Text, consent : BOOLEAN, writes : Nat]

\* The states of the bridge, its pending actions and the turn in progress.
TypeOK ==
  /\ files \in [Path -> Text \cup {None, Junk}]
  /\ level \in [Managed -> Level]
  /\ pending \in [Session -> {None} \cup Question]
  /\ turn \in {Idle} \cup FileTurn \cup OpeningTurn
  /\ answer \in {None} \cup [session : Session, status : Statuses,
                             performed : BOOLEAN]
  /\ said \in [Session -> Speech]
  /\ late \in BOOLEAN

\* What an action needs before it may run.
Needed(mode) == IF mode = "read" THEN {"filename", "folder"}
                                 ELSE {"filename", "folder", "content"}

\* A pending action asks for exactly what its data lacks, so that the reply
\* that completes it leaves nothing unsaid, and it is there if and only if
\* the session's last answer was a question (or the error of exists(), which
\* leaves it as it was): no later message is swallowed as a reply.
PendingExplained ==
  /\ \A s \in Session : pending[s] # None =>
       LET p == pending[s]
           lacking == {f \in Needed(p.data.mode) : p.data[f] = None}
       IN IF lacking # {} THEN p.missing = lacking
          ELSE p.missing = {"overwrite"} /\ ~p.data.overwrite
  /\ turn = Idle /\ answer # None =>
       /\ answer.status = "clarification_required"
            => pending[answer.session] # None
       /\ answer.status \in {"success", "error", "blocked"}
            => pending[answer.session] = None

\* The bridge between two messages: typed, and with every question it keeps
\* explained by the answer it gave.
DialogueSound == TypeOK /\ PendingExplained

\* The bridge changes a file.
Changes == turn.stage = "writing" /\ turn' # turn /\ files' # files

\* What is written, and where, was said by this session about this request,
\* and lies under an allowed directory: nothing of another session's
\* dialogue or of an earlier request ends up in a file.  And a file is
\* replaced only after its user said so, in the request or as the answer to
\* the question: whatever was created since the question, since the bridge
\* looked and until the tool's own check is caught by the second check; only
\* a file created between that check and the opening of the file may be lost.
WritesWarranted ==
  [][Changes =>
       LET job == turn.job
           words == said[turn.session]
       IN /\ Exists(PathOf(job)) => words.consent \/ late
          /\ job.filename \in words.filename /\ job.folder \in words.folder
          /\ job.folder \in Inside
          /\ files'[PathOf(job)] \in words.content \cup {Junk}
          /\ \A path \in Path \ {PathOf(job)} :
               files'[path] = files[path]]_vars

\* One request writes at most once, however its turns ended: a failed or
\* unverified write is not repeated by the next message.
ActedOnce == \A s \in Session : said[s].writes <= 1

\* An answer says what the turn did: success is a write that was made (or a
\* read), and a turn that was blocked, asked or raised changed nothing.
AnswerTruthful ==
  [][turn # Idle /\ turn' = Idle /\ turn.stage # "opening" =>
       LET wrote == said[turn.session].writes + (IF Changes THEN 1 ELSE 0)
       IN /\ answer'.status = "success" =>
               /\ answer'.performed
               /\ Exists(PathOf(turn.job))
               /\ turn.job.mode = "write" => wrote = 1
          /\ answer'.status \in {"blocked", "raised", "clarification_required"}
               => ~answer'.performed /\ wrote = 0]_vars

\* The programs and addresses that the words of a request name.
Meant(words) ==
  {a \in words.names :
     \A b \in words.names \cap DOMAIN Shorter : Shorter[b] # a}
  \cup {words.addresses[i] : i \in DOMAIN words.addresses}

\* _execute_system opens things one after the other and returns the first
\* failure alone: everything asked for is opened exactly once before it says
\* success, and after a failure or a refusal nothing more is opened, so that
\* what was opened is a proper beginning of what was asked for.
LaunchAnswered ==
  [][turn.stage = "opening" /\ turn' = Idle =>
       LET meant == IF Meant(turn.words) = {} THEN {Unnamed}
                    ELSE Meant(turn.words)
           times(x) == Cardinality({i \in DOMAIN turn.results :
                                      x \in {turn.results[i].target,
                                             turn.results[i].url}})
       IN /\ \A i \in DOMAIN turn.results : turn.results[i].target \in meant
          /\ \A x \in meant : times(x) <= 1
          /\ answer'.status = "success" <=> \A x \in meant : times(x) = 1
          /\ answer'.performed <=> answer'.status = "success"]_vars
============================================================================
