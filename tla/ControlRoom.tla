----------------------------- MODULE ControlRoom -----------------------------
(***************************************************************************)
(* The control room in the browser (public/app.js).  A gesture starts a    *)
(* handler (a task), which asks the server, awaits the answer, writes it   *)
(* into the page's one state and asks on; several handlers and the polling *)
(* of deployments are under way at once, and what a handler reads after an *)
(* await is the state of then.  Between two awaits a handler is not        *)
(* interrupted.                                                            *)
(*                                                                         *)
(* A project has two runs, one file (of the same path in all) and at most  *)
(* one deployment, which bears its name.  Rendering is left out but for    *)
(* what it lets the user do.                                               *)
(***************************************************************************)
EXTENDS Naturals, Sequences, FiniteSets

CONSTANTS
  Projects,
  Null,
  MaxGestures, \* bound: handlers that the user starts
  MaxMissed   \* bound: polls and calls that fail on their way, together

ASSUME RoomAssumption ==
  /\ Projects # {} /\ Null \notin Projects \cup (Projects \X {1, 2})
  /\ MaxGestures \in Nat /\ MaxMissed \in Nat

VARIABLES
  page,    \* state of app.js, with the timer
  task, \* gesture -> its handler: calls under way, and what it does after them
  backend, \* what the server has of runs, files, deployments and the session
  awry     \* ghost: gestures that overlapped, calls that failed, answers to a poll
           \* for another project, a list or its logs that failed, deployments made

roomVars == <<page, task, backend, awry>>

ProjectRun == Projects \X {1, 2}
Gesture == 1..MaxGestures
Poll == 0
Task == Gesture \cup {Poll}

Row(status, verdict) == [status |-> status, verdict |-> verdict]
Eligible(row) == row = Row("complete", "passed")

\* One workspace has the projects, the other has none.
ProjectsOf(workspace) == IF workspace = 1 THEN Projects ELSE {}

NoneShown == [p \in Projects |-> "none"]

\* clearSession
SignedOut ==
  [user |-> FALSE, workspace |-> 0, listed |-> {}, project |-> Null, file |-> Null,
   runs |-> Null, run |-> Null, detail |-> Null, validation |-> Null,
   shown |-> NoneShown, logOf |-> Null, timer |-> FALSE]

\* The page of a user who has loaded project p, of which nothing is deployed yet.
Loaded(p, b) ==
  [user |-> TRUE, workspace |-> 1, listed |-> Projects, project |-> p, file |-> Null,
   runs |-> p, run |-> <<p, 1>>,
   detail |-> [of |-> <<p, 1>>, row |-> b.row[<<p, 1>>]], validation |-> Null,
   shown |-> NoneShown, logOf |-> Null, timer |-> FALSE]

Idle == [pc |-> "none", kind |-> "none", calls |-> {}, todo |-> <<>>]
-----------------------------------------------------------------------------
(* Calls.  A call holds what the handler put into it; a read may be        *)
(* answered with what was so when it was made.                             *)

Lists == {"deployments", "deployments only", "logs"}

\* What the server answers to the reads of a file and of a run.
FileOf(p) == backend.content[p]
RowOf(r) == backend.row[r]

\* What the server has for a read.
Now(op, p, arg) ==
  CASE op \in {"deployments", "deployments only"} -> backend.deploy[p]
    [] op = "logs" /\ arg = p -> backend.deploy[p]
    [] op = "detail" /\ arg[1] = p -> RowOf(arg)
    [] OTHER -> Null

Make(op, p, arg) ==
  [op |-> op, of |-> p, arg |-> arg, signed |-> backend.signed, old |-> Now(op, p, arg)]

\* loadDeployments, loadAgentRuns, loadAgentRunDetail and loadFile ask
\* nothing without a project.
ReadsOf(pg, ops) ==
  IF pg.project = Null THEN {}
  ELSE {Make(op, pg.project, IF op = "detail" THEN pg.run ELSE Null) :
          op \in IF pg.run = Null THEN ops \ {"detail"} ELSE ops}

\* syncDeploymentPolling
Synced(pg) ==
  [pg EXCEPT !.timer = pg.project # Null /\ \E p \in Projects : pg.shown[p] = "queued"]

\* Faulty variant: what was open stays open.
OpenedOnTop(pg, p) == [pg EXCEPT !.project = p, !.run = Null, !.detail = Null, !.validation = Null]

\* selectProject, as far as its first answer takes it.
Opened(pg, p) ==
  [pg EXCEPT !.project = p, !.file = Null, !.run = Null, !.detail = Null, !.validation = Null]

\* loadProjects: a project that is not listed any more is closed.
Listed(pg, workspace) ==
  LET all == ProjectsOf(workspace)
      kept == [pg EXCEPT !.listed = all]
  IN  IF pg.project \in all \cup {Null} THEN kept
      ELSE [SignedOut EXCEPT !.user = pg.user, !.workspace = pg.workspace, !.listed = all]

\* loadDeployments: the list, and a deployment of it whose logs are shown.
WithDeployments(pg, p, status) ==
  [pg EXCEPT !.shown = [NoneShown EXCEPT ![p] = status],
             !.logOf = IF status = "none" THEN Null ELSE p]

\* loadAgentRuns: a run that is not in the list is not selected any more.
WithRuns(pg, p) ==
  IF pg.run # Null /\ pg.run[1] = p THEN [pg EXCEPT !.runs = p]
  ELSE [pg EXCEPT !.runs = p, !.run = <<p, 1>>, !.detail = Null, !.validation = Null]

\* loadAgentRunDetail
WithDetail(pg, r, row) ==
  [pg EXCEPT !.run = r, !.detail = [of |-> r, row |-> row],
             !.validation = IF @ # Null /\ @.of = r THEN @ ELSE Null]

\* What the answer to c makes of the page.  A validation is put down to the run
\* that is selected when it comes (handleValidateRunOutput).
Applied(pg, c, answer) ==
  CASE c.op = "project" -> Opened(pg, c.of)
    [] c.op = "projects" -> Listed(pg, c.arg)
    [] c.op \in {"file", "reopen"} -> [pg EXCEPT !.file = FileOf(c.of)]
    [] c.op = "deployments" ->
         LET with == WithDeployments(pg, c.of, answer)
         IN  IF with.logOf = Null \/ with.project = Null THEN Synced(with) ELSE with
    [] c.op = "deployments only" -> Synced(WithDeployments(pg, c.of, answer))
    [] c.op = "logs" -> Synced([pg EXCEPT !.logOf = c.arg, !.shown[c.arg] = answer])
    [] c.op = "runs" -> WithRuns(pg, c.of)
    [] c.op = "detail" -> WithDetail(pg, c.arg, answer)
    [] c.op = "validate" -> [pg EXCEPT !.validation = [of |-> pg.run, about |-> c.arg]]
    [] c.op = "resume" -> [pg EXCEPT !.detail = [of |-> c.arg, row |-> backend'.row[c.arg]],
                                     !.validation = Null]
    [] c.op = "deploy" -> [pg EXCEPT !.logOf = c.of]
    [] c.op = "logout" -> SignedOut
    [] c.op = "auth" -> [pg EXCEPT !.user = TRUE, !.workspace = 1]
    [] OTHER -> pg

\* What the handler asks next of the page as it is then, before it goes on.
Follow(pg, c) ==
  CASE c.op = "project" -> ReadsOf(pg, {"deployments", "runs"})
    [] c.op = "projects" -> ReadsOf(pg, {"deployments only"})
    [] c.op = "deployments" ->
         IF pg.project = Null \/ pg.logOf = Null THEN {} ELSE {Make("logs", pg.project, pg.logOf)}
    [] c.op = "runs" -> ReadsOf(pg, {"detail"})
    [] OTHER -> {}
-----------------------------------------------------------------------------
\* The first gesture was to open the project's file, and is under way.
RoomInit ==
  /\ backend = [row |-> [r \in ProjectRun |-> IF r[2] = 1 THEN Row("complete", "passed")
                                              ELSE Row("failed", "none")],
                content |-> [p \in Projects |-> p], deploy |-> NoneShown, signed |-> TRUE]
  /\ page = Loaded(CHOOSE p \in Projects : TRUE, backend)
  /\ task = [h \in Task |->
               IF h = 1 THEN [pc |-> "on", kind |-> "read", todo |-> <<>>,
                              calls |-> {Make("file", page.project, Null)}]
               ELSE Idle]
  /\ awry = [mishaps |-> 0, overlap |-> FALSE, cut |-> FALSE, unsettled |-> FALSE, promoted |-> {}]

(* A handler is over when nothing is under way of it and nothing is left.  *)

\* What a handler asks next of the page as it is then; "first" is the project
\* that a sign-in opens.
Asks(pg, item, first) ==
  CASE item = "projects" -> {Make("projects", Null, pg.workspace)}
    [] item = "refresh" -> IF pg.project = Null THEN {} ELSE {Make("project", pg.project, Null)}
    [] item = "first" -> IF first = Null THEN {} ELSE {Make("project", first, Null)}
    [] item = "open" -> IF pg.file = Null THEN ReadsOf(pg, {"file"}) ELSE {}
    [] OTHER -> ReadsOf(pg, {item})

\* Handler h, when t is left of it: it goes on where there is something to ask.
GoesOn(h, t, pg, first) ==
  LET asking == {i \in DOMAIN t.todo : Asks(pg, t.todo[i], first) # {}}
      i == CHOOSE j \in asking : \A k \in asking : j <= k
      reopen == t.todo[i] = "refresh" /\ pg.file # Null
  IN  IF t.calls # {} THEN t
      ELSE IF asking = {} THEN [Idle EXCEPT !.pc = IF h = Poll THEN "none" ELSE "done"]
      ELSE [t EXCEPT !.calls = Asks(pg, t.todo[i], first),
                     !.todo = (IF reopen THEN <<"reopen">> ELSE <<>>) \o SubSeq(@, i + 1, Len(@))]

\* loadDeployments without a project shows none.
Emptied(t, pg) ==
  IF t.calls = {} /\ t.todo = <<"deployments">> /\ pg.project = Null
  THEN [pg EXCEPT !.timer = FALSE, !.shown = NoneShown, !.logOf = Null] ELSE pg

\* The handler goes on, or ends, in the page it has made.
Resumes(h, t, pg) ==
  /\ page' = Emptied(t, pg)
  /\ \E first \in IF t.calls = {} /\ t.todo = <<"first">> /\ pg.listed # {}
                  THEN pg.listed ELSE {Null} :
       task' = [task EXCEPT ![h] = GoesOn(h, t, pg, first)]

Busy == \E h \in Task : task[h].pc = "on" /\ task[h].kind \in {"build", "deploy"}

\* A gesture starts its handler with a call, or with what has to be done first.
Begins(kind, calls, todo, pg) ==
  /\ \E h \in Gesture :
       /\ task[h].pc = "none" /\ \A g \in 1..(h - 1) : task[g].pc # "none"
       /\ Resumes(h, [pc |-> "on", kind |-> kind, calls |-> calls, todo |-> todo], pg)
  /\ awry' = [awry EXCEPT !.overlap = @ \/ \E g \in Gesture : task[g].pc = "on"]
  /\ UNCHANGED backend

Start(kind, calls, todo) == Begins(kind, calls, todo, page)

SelectProject == \E p \in page.listed :
  Start("select", {Make("project", p, Null)}, <<>>)

SwitchWorkspace ==
  /\ page.user
  /\ \E w \in {1, 2} \ {page.workspace} :
       Begins("workspace", {Make("projects", Null, w)}, <<>>, [page EXCEPT !.workspace = w])

\* A file of the tree, a run of the list.
OpenFile ==
  page.project # Null /\ Start("read", ReadsOf(page, {"file"}), <<>>)

OpenRun ==
  /\ page.project # Null /\ page.runs # Null
  /\ \E i \in {1, 2} : Start("read", {Make("detail", page.project, <<page.runs, i>>)}, <<>>)

\* The buttons that load again.
Refresh ==
  /\ page.project # Null
  /\ \/ \E op \in {"deployments", "runs"} : Start("read", ReadsOf(page, {op}), <<>>)
     \/ Start("read", {}, <<"refresh">>)
     \/ Start("read", {Make("projects", Null, page.workspace)}, <<>>)

SaveFile ==
  /\ page.project # Null /\ page.file # Null /\ ~Busy
  /\ Start("save", {Make("save", page.project, page.file)}, <<"projects", "refresh">>)

ManualCommit ==
  /\ page.project # Null
  /\ Start("commit", {Make("commit", page.project, Null)}, <<"refresh">>)

RunBuilder ==
  /\ page.project # Null /\ ~Busy
  /\ Start("build", {Make("build", page.project, Null)}, <<"projects", "refresh", "open">>)

\* The buttons of the run's detail.
DetailShown == page.project # Null /\ page.run # Null /\ page.detail # Null

ValidateRun ==
  /\ DetailShown
  /\ Start("validate", {Make("validate", page.project, page.run)}, <<"runs", "detail">>)

\* canResumeRun
ResumeRun ==
  /\ DetailShown
  /\ page.detail.row.status = "failed"
  /\ Start("resume", {Make("resume", page.project, page.run)}, <<"runs", "detail">>)

\* getDeployEligibility; of a run without detail the list may have said anything.
Deploy ==
  /\ page.project # Null /\ page.run # Null /\ ~Busy
  /\ page.detail # Null /\ page.detail.of = page.run => Eligible(page.detail.row)
  /\ Start("deploy", {Make("deploy", page.project, page.run)}, <<"deployments">>)

Logout ==
  page.user /\ Start("logout", {Make("logout", Null, Null)}, <<>>)

SignInAgain ==
  ~page.user /\ Start("auth", {Make("auth", Null, Null)}, <<"projects", "first">>)

\* The interval of syncDeploymentPolling; one poll at a time.
PollDeployments ==
  /\ page.timer /\ page.project # Null /\ task[Poll].pc = "none"
  /\ task' = [task EXCEPT ![Poll] = [Idle EXCEPT !.pc = "on", !.kind = "poll",
                                             !.calls = ReadsOf(page, {"deployments"})]]
  /\ awry.mishaps < MaxMissed /\ awry' = [awry EXCEPT !.mishaps = @ + 1]
  /\ UNCHANGED <<page, backend>>
-----------------------------------------------------------------------------
\* The server does what a call asks for, which is seen in its answer and in
\* later ones: what it has then.  POST /deployments looks at the run once more
\* (server.ts), and may turn it down for what the page does not know of.
Served(c) ==
  LET r == c.arg
      own == r # Null /\ r[1] = c.of
  IN
  CASE c.op = "save" -> {[backend EXCEPT !.content[c.of] = r]}
    [] c.op = "validate" -> IF ~own THEN {}
         ELSE {[backend EXCEPT !.row[r].verdict = v] : v \in {"passed", "failed"}}
    [] c.op = "resume" -> IF ~own \/ backend.row[r].status # "failed" THEN {}
         ELSE {[backend EXCEPT !.row[r] = Row(s, "none")] : s \in {"failed", "complete"}}
    [] c.op = "deploy" ->
         IF ~own \/ ~Eligible(backend.row[r]) \/ backend.deploy[c.of] = "queued" THEN {}
         ELSE {[backend EXCEPT !.deploy[c.of] = "queued"]}
    [] c.op = "logout" -> {[backend EXCEPT !.signed = FALSE]}
    [] c.op = "auth" -> {[backend EXCEPT !.signed = TRUE]}
    [] c.op = "logs" -> IF r = c.of THEN {backend} ELSE {}
    [] c.op = "detail" -> IF own THEN {backend} ELSE {}
    [] OTHER -> {backend}

\* An answer arrives: it is written into the page, and what follows is asked.
Answered(h, c) ==
  /\ c.op # "auth" => c.signed \/ backend.signed
  /\ backend' \in Served(c)
  /\ \E pg \in {Applied(page, c, answer) : answer \in {c.old, Now(c.op, c.of, c.arg)}} :
       /\ Resumes(h, [task[h] EXCEPT !.calls = (@ \ {c}) \cup Follow(pg, c)], pg)
       /\ awry' = [awry EXCEPT
            !.cut = @ \/ (h = Poll /\ c.of # page.project),
            !.promoted = IF c.op = "deploy" THEN @ \cup {<<c.of, c.arg, backend.row[c.arg]>>} ELSE @,
            !.unsettled = @ /\ ~(c.op \in Lists /\ pg = Synced(pg))]

\* What is left of handler h, if it ends with call c.
EndedBy(h, c) ==
  [task[h] EXCEPT !.calls = @ \ {c}, !.todo = <<>>, !.kind = "ended"]

\* A call is refused by the server, or lost: its handler ends there, but for the
\* catch of refreshActiveProject around its file, and for a logout.
Failed(h, c) ==
  /\ \/ /\ awry.mishaps < MaxMissed
        /\ awry' = [awry EXCEPT !.mishaps = @ + 1, !.cut = TRUE, !.unsettled = @ \/ c.op \in Lists]
        /\ backend' \in Served(c) \cup {backend}
     \/ /\ c.op \in {"save", "commit", "build", "validate", "resume", "deploy"} \/ Served(c) = {}
        /\ awry' = [awry EXCEPT !.cut = TRUE, !.unsettled = @ \/ c.op \in Lists]
        /\ UNCHANGED backend
  /\ Resumes(h, IF c.op = "reopen" THEN [task[h] EXCEPT !.calls = @ \ {c}] ELSE EndedBy(h, c),
             CASE c.op = "logout" -> SignedOut
               [] c.op = "reopen" -> [page EXCEPT !.file = Null]
               [] OTHER -> page)

\* The session is over and cannot be refreshed: the page signs out (api).
Denied(h, c) ==
  /\ ~backend.signed /\ c.op \notin {"auth", "logout"}
  /\ Resumes(h, EndedBy(h, c), SignedOut)
  /\ awry' = [awry EXCEPT !.cut = TRUE]
  /\ UNCHANGED backend

\* The pipeline of a deployment comes to its end.
DeploymentEnds(p) ==
  /\ backend.deploy[p] = "queued"
  /\ backend' = [backend EXCEPT !.deploy[p] = "over"]
  /\ UNCHANGED <<page, task, awry>>

RoomNext ==
  \/ SelectProject \/ SwitchWorkspace \/ OpenFile \/ OpenRun
  \/ Refresh \/ SaveFile \/ ManualCommit \/ RunBuilder
  \/ ValidateRun \/ ResumeRun \/ Deploy
  \/ Logout \/ SignInAgain \/ PollDeployments
  \/ \E h \in Task : \E c \in task[h].calls :
       Answered(h, c) \/ Failed(h, c) \/ Denied(h, c)
  \/ \E p \in Projects : DeploymentEnds(p)

RoomSpec == RoomInit /\ [][RoomNext]_roomVars
-----------------------------------------------------------------------------
AtRest == \A h \in Task : task[h].pc # "on"

RoomTypeOK ==
  /\ page.project \in Projects \cup {Null} /\ page.listed \subseteq Projects
  /\ page.run \in ProjectRun \cup {Null}
  /\ page.shown \in [Projects -> {"none", "queued", "over"}]
  /\ backend.content \in [Projects -> Projects]
  /\ \A h \in Task : Len(task[h].todo) \in 0..4

\* All that is shown is about one project and one of its runs.
ShowsOneProject ==
  page.project # Null =>
    /\ page.file \in {Null, page.project}
    /\ page.runs = page.project
    /\ page.run # Null /\ page.run[1] = page.project
    /\ page.detail # Null => page.detail.of = page.run
    /\ page.validation # Null => page.validation.about = page.run
    /\ \A p \in Projects \ {page.project} : page.shown[p] = "none"

\* A user who waits for each gesture to end sees one project, unless a call
\* failed or a poll was answered for the project before.  A file is never saved
\* into another project, and a verdict never shown of another run, but by
\* gestures that overlap.  Whatever overlaps or fails, what is deployed is a run
\* of the project that is complete and passed when the server looks, and
\* deployments in progress are polled, unless the list or its logs could not be read
\* (app.js selectProject, handleValidateRunOutput, syncDeploymentPolling).
PageKept ==
  /\ AtRest /\ ~awry.overlap /\ ~awry.cut => ShowsOneProject
  /\ ~awry.overlap => \A p \in Projects : backend.content[p] = p
  /\ ~awry.overlap /\ page.validation # Null => page.validation.of = page.validation.about
  /\ \A d \in awry.promoted : d[2][1] = d[1] /\ Eligible(d[3])
  /\ AtRest /\ ~awry.unsettled => page = Synced(page)
=============================================================================
