--------------------------- MODULE ReadinessChecks ---------------------------
(***************************************************************************)
(* The checks that execute a generated project: heavy validation and the   *)
(* strict readiness verdict built on it (agent/validation), and the        *)
(* preview container of the agent's tools (agent/tools).  A readiness      *)
(* check and a preview run at once on one host; what they share are its    *)
(* ports, handed out by listening on port 0 and closing again, and what    *)
(* they must give back are worktrees, containers and images.               *)
(***************************************************************************)
EXTENDS Naturals, FiniteSets

CONSTANTS Port,        \* the host's ephemeral ports
          NoPort,      \* no port was handed out
          ScriptSets,  \* the sets of npm scripts a target may have
          MayFail,     \* bound: the commands of heavy validation that may fail,
          MaxFailing,  \*   how many checks before the boot at a time, and
                       \*   how many kinds of stub debt
          MaxMishaps   \* bound: commands cut or failing, images kept

ASSUME ReadinessAssumption == NoPort \notin Port

VARIABLES
  debt,      \* the stub debt found in the target: "markers", "artifacts", or
             \*   that it could not be scanned
  rpc,       \* the next statement of the readiness check
  ppc,       \* the next statement of the preview tool
  failedChecks,    \* heavy validation: the checks that failed, and
  blocking,  \*   the count its verdict is read from
  report,    \* readiness: check id -> status
  verdict,
  previewStatus, \* the preview tool's runtimeStatus
  port,      \* attempt -> the port handed out to it
  app,       \* attempt -> the application started for it
  listener,  \* port -> the attempt whose application listens
  answered,  \* attempt -> whose application answered the probe that passed
  worktrees, images, containers,   \* what exists on the host, by owner
  mishaps    \* what a failed or cut command left, or a setting told to keep

readinessVars == <<debt, rpc, ppc, failedChecks, blocking, report, verdict,
                   previewStatus, port, app, listener, answered, worktrees,
                   images, containers, mishaps>>

\* Three times an application is started and probed on a fresh port.
Attempt == {"boot", "docker_boot", "preview"}
CheckId == {"heavy_validation", "stub_markers", "stub_debt",
            "docker_build", "docker_migration", "docker_boot"}
HeavyCheck == {"architecture", "production_config", "install", "migration",
               "seed", "typecheck", "build", "tests", "boot"}
-----------------------------------------------------------------------------
(* Heavy validation's checks, from the project and the commands' outcomes. *)

\* The npm script behind each check, as resolveScript finds it.
ScriptOf == [migration |-> "migrate", seed |-> "seed", typecheck |-> "check",
             build |-> "build", tests |-> "test"]

Project == {p \in [package : BOOLEAN, schema : BOOLEAN, scripts : ScriptSets] :
              p.package \/ p.scripts = {}}

PrismaRequired(project) ==
  project.schema \/ project.scripts \cap {"migrate", "seed"} # {}

\* A script's check fails when its command does.  A migration or seed script
\* that the schema calls for must be there.
ScriptCheckFails(project, c, ok) ==
  \/ ScriptOf[c] \in project.scripts /\ c \notin ok
  \/ /\ c \in {"migration", "seed"}
     /\ PrismaRequired(project) /\ ScriptOf[c] \notin project.scripts

\* The failed checks of one pass over a project, when the checks in ok succeed.
FailedOf(project, ok) ==
  LET static == {"architecture", "production_config"} \ ok
  IN  IF ~project.package THEN static
      ELSE static \cup ({"install"} \ ok)
             \cup {c \in DOMAIN ScriptOf : ScriptCheckFails(project, c, ok)}

\* Faulty variant: the architecture check is counted beside its violations.
BlockingTwice(failures, light) ==
  Cardinality(failures) + IF "architecture" \in failures THEN light ELSE 0

\* blockingCount: one for each failed check, the light validation's own count
\* for the architecture.
BlockingOf(failures, light) ==
  Cardinality(failures \ {"architecture"})
    + IF "architecture" \in failures THEN light ELSE 0
-----------------------------------------------------------------------------
ReadinessInit ==
  /\ debt = {}
  /\ rpc = "heavyTree"
  /\ ppc = "port"
  /\ failedChecks = {} /\ blocking = 0
  /\ report = [c \in {} |-> "none"]
  /\ verdict = "none" /\ previewStatus = "none"
  /\ port = [a \in Attempt |-> NoPort]
  /\ app = [a \in Attempt |-> "none"]
  /\ listener = [p \in Port |-> "nobody"]
  /\ answered = [a \in Attempt |-> "nobody"]
  /\ worktrees = {} /\ images = {} /\ containers = {} /\ mishaps = {}

Reported(s) == [c \in DOMAIN report \cup DOMAIN s |->
                  IF c \in DOMAIN s THEN s[c] ELSE report[c]]

tally == <<failedChecks, blocking>>
tool == <<ppc, previewStatus>>
host == <<port, app, listener, answered>>
store == <<worktrees, images, containers, mishaps>>

Mishap(name) ==
  /\ Cardinality(mishaps) < MaxMishaps
  /\ mishaps' = mishaps \cup {name}

\* acquireFreePort: bind port 0, read the port, close.  Nothing holds the port
\* afterwards.
AcquireFreePort(a) ==
  \E p \in Port : /\ listener[p] = "nobody"
                  /\ port' = [port EXCEPT ![a] = p]

\* The probe of the attempt's own port is answered with 200 (connected to, for
\* the preview), by whichever application listens there.
ProbeAnswered(a) ==
  LET who == listener[port[a]]
  IN  /\ who # "nobody"
      /\ a # "preview" => app[who] = "up"
      /\ answered' = [answered EXCEPT ![a] = who]

\* The application of an attempt no longer runs.
Gone(a) ==
  /\ app' = [app EXCEPT ![a] = "gone"]
  /\ listener' = [p \in Port |-> IF listener[p] = a THEN "nobody" ELSE listener[p]]

\* withIsolatedWorktree's finally block.  Its git commands may fail; what they
\* leave the removal of the directory takes, and that may fail too: an error
\* that no retry mends is thrown over the result, reported as then thrown.
RemoveWorktree(tree, result, thrown) ==
  \/ worktrees' = worktrees \ {tree} /\ report' = result /\ UNCHANGED mishaps
  \/ UNCHANGED worktrees /\ Mishap(tree) /\ report' \in {result, Reported(thrown)}
-----------------------------------------------------------------------------
(* runHeavyProjectValidation, as the readiness check calls it.             *)

HeavyStart ==
  /\ rpc = "heavyTree"
  /\ worktrees' = worktrees \cup {"heavy"}
  /\ rpc' = "heavy"
  /\ UNCHANGED <<debt, tool, tally, report, verdict, host, images, containers,
                mishaps>>

\* Everything up to the boot check: it touches nothing outside the worktree.
HeavyCommands ==
  /\ rpc = "heavy"
  /\ \E project \in Project, failing \in SUBSET MayFail, light \in 1..2 :
       LET failures == FailedOf(project, HeavyCheck \ failing)
       IN
       /\ Cardinality(failures) <= MaxFailing
       /\ failedChecks' = failures
       /\ blocking' = BlockingOf(failures, light)
       /\ rpc' = IF "start" \in project.scripts THEN "bootPort" ELSE "heavyEnd"
  /\ UNCHANGED <<debt, tool, report, verdict, host, store>>

BootPort ==
  /\ rpc = "bootPort"
  /\ AcquireFreePort("boot")
  /\ app' = [app EXCEPT !["boot"] = "starting"]
  /\ rpc' = "bootProbe"
  /\ UNCHANGED <<debt, tool, tally, report, verdict, listener, answered, store>>

\* The loop of runBootCheck: an answer passes the check; the exit of the
\* application or the time limit fails it.  Either way the group is terminated.
BootProbe ==
  /\ rpc = "bootProbe"
  /\ \/ ProbeAnswered("boot") /\ UNCHANGED <<tally>>
     \/ /\ failedChecks' = failedChecks \cup {"boot"}
        /\ blocking' = blocking + 1
        /\ UNCHANGED answered
  /\ app' = [app EXCEPT !["boot"] = IF @ = "gone" THEN @ ELSE "stopping"]
  /\ rpc' = "heavyEnd"
  /\ UNCHANGED <<debt, tool, report, verdict, port, listener, store>>

\* An error thrown in the worktree (a command that cannot be spawned, a
\* package.json that does not parse, no port) leaves through the finally block.
HeavyThrows ==
  /\ rpc \in {"heavy", "bootPort"}
  /\ rpc' = "heavyThrew"
  /\ UNCHANGED <<debt, tool, tally, report, verdict, host, store>>

HeavyEnd ==
  /\ rpc \in {"heavyEnd", "heavyThrew"}
  /\ RemoveWorktree("heavy",
       Reported([heavy_validation |->
                  IF rpc = "heavyEnd" /\ blocking = 0 THEN "pass" ELSE "fail"]),
       [heavy_validation |-> "fail"])
  /\ rpc' = "debt"
  /\ UNCHANGED <<debt, tool, tally, verdict, host, images, containers>>

\* runStubDebtIntegrityChecks; a scan that throws fails both checks.
DebtChecks ==
  /\ rpc = "debt"
  /\ debt' \in {found \in SUBSET {"markers", "artifacts"} :
                 Cardinality(found) <= MaxFailing} \cup {{"unscanned"}}
  /\ report' = LET StatusOf(kind) ==
                     IF debt' \cap {kind, "unscanned"} = {} THEN "pass" ELSE "fail"
               IN  Reported([stub_markers |-> StatusOf("markers"),
                             stub_debt |-> StatusOf("artifacts")])
  /\ rpc' = "dockerVersion"
  /\ failedChecks' = {} /\ blocking' = 0
  /\ UNCHANGED <<tool, verdict, host, store>>
-----------------------------------------------------------------------------
(* runDockerValidationChecks.                                              *)

\* Faulty variant: a host without docker has nothing to check.
NothingToBuild == [docker_build |-> "skip", docker_migration |-> "skip",
                   docker_boot |-> "skip"]

\* What is reported when docker is missing, the worktree or the Dockerfile is,
\* the build fails, or an error is thrown at any later point.
NoImageBuilt == [docker_build |-> "fail", docker_migration |-> "skip",
                 docker_boot |-> "skip"]

DockerVersion ==
  /\ rpc = "dockerVersion"
  /\ \/ /\ report' = Reported(NoImageBuilt)
        /\ rpc' = "verdict"
        /\ UNCHANGED worktrees
     \/ /\ worktrees' = worktrees \cup {"docker"}
        /\ rpc' = "dockerBuild"
        /\ UNCHANGED report
  /\ UNCHANGED <<debt, tool, tally, verdict, host, images, containers, mishaps>>

\* docker build.  A build cut by its timeout may still produce its image.
DockerBuild ==
  /\ rpc = "dockerBuild"
  /\ \/ /\ images' = images \cup {"docker_boot"}
        /\ \E migration \in {"pass", "fail", "skip"} :
             report' = Reported([docker_build |-> "pass",
                                 docker_migration |-> migration])
        /\ rpc' = "dockerPort"
        /\ UNCHANGED mishaps
     \/ /\ report' = Reported(NoImageBuilt)
        /\ rpc' = "dockerTreeEnd"
        /\ \/ UNCHANGED <<images, mishaps>>
           \/ /\ images' = images \cup {"docker_boot"}
              /\ Mishap("docker_image")
  /\ UNCHANGED <<debt, tool, tally, verdict, host, worktrees, containers>>

\* The port, or an error that discards the checks made so far and the image.
DockerPort ==
  /\ rpc = "dockerPort"
  /\ \/ /\ AcquireFreePort("docker_boot")
        /\ rpc' = "dockerRun"
        /\ UNCHANGED <<report, mishaps>>
     \/ /\ report' = Reported(NoImageBuilt)
        /\ Mishap("docker_image")
        /\ rpc' = "dockerTreeEnd"
        /\ UNCHANGED port
  /\ UNCHANGED <<debt, tool, tally, verdict, app, listener, answered, worktrees,
                images, containers>>

\* docker run -d -p: it binds the port or fails.  Cut by its timeout it may
\* leave a container nobody stops.
StartContainer(a, running, notRunning, pc) ==
  \/ /\ listener[port[a]] = "nobody"
     /\ containers' = containers \cup {a}
     /\ listener' = [listener EXCEPT ![port[a]] = a]
     /\ \E health \in {"up", "mute"} : app' = [app EXCEPT ![a] = health]
     /\ \/ pc' = running /\ UNCHANGED mishaps
        \/ /\ pc' = notRunning
           /\ IF a = "preview" THEN UNCHANGED mishaps ELSE Mishap(a)
  \/ pc' = notRunning /\ UNCHANGED <<containers, listener, app, mishaps>>

DockerRun ==
  /\ rpc = "dockerRun"
  /\ StartContainer("docker_boot", "dockerProbe", "dockerImage", rpc)
  /\ report' = IF rpc' = "dockerImage" THEN Reported([docker_boot |-> "fail"])
                                        ELSE report
  /\ UNCHANGED <<debt, tool, tally, verdict, port, answered, worktrees, images>>

DockerProbe ==
  /\ rpc = "dockerProbe"
  /\ \/ /\ ProbeAnswered("docker_boot")
        /\ report' = Reported([docker_boot |-> "pass"])
     \/ /\ report' = Reported([docker_boot |-> "fail"])
        /\ UNCHANGED answered
  /\ rpc' = "dockerStop"
  /\ UNCHANGED <<debt, tool, tally, verdict, port, app, listener, store>>

\* docker stop, and rm -f of the preview: the container goes, or the command fails.
RemoveContainer(a) ==
  \/ containers' = containers \ {a} /\ Gone(a) /\ UNCHANGED mishaps
  \/ /\ a \in containers
     /\ Mishap(a)
     /\ UNCHANGED <<containers, app, listener>>

\* The image goes, the command fails, or a setting tells to keep images.
RemoveImage(a, name) ==
  \/ images' = images \ {a} /\ UNCHANGED mishaps
  \/ UNCHANGED images /\ Mishap(name)

DockerStop ==
  /\ rpc = "dockerStop"
  /\ RemoveContainer("docker_boot")
  /\ rpc' = "dockerImage"
  /\ UNCHANGED <<debt, tool, tally, report, verdict, port, answered, worktrees,
                images>>

DockerImage ==
  /\ rpc = "dockerImage"
  /\ RemoveImage("docker_boot", "docker_image")
  /\ rpc' = "dockerTreeEnd"
  /\ UNCHANGED <<debt, tool, tally, report, verdict, host, worktrees,
                containers>>

DockerTreeEnd ==
  /\ rpc = "dockerTreeEnd"
  /\ RemoveWorktree("docker", report, NoImageBuilt)
  /\ rpc' = "verdict"
  /\ UNCHANGED <<debt, tool, tally, verdict, host, images, containers>>

\* The verdict of runV1ReadinessCheck: no check has failed.
GiveVerdict ==
  /\ rpc = "verdict"
  /\ verdict' = IF \E c \in DOMAIN report : report[c] = "fail" THEN "NO" ELSE "YES"
  /\ rpc' = "done"
  /\ UNCHANGED <<debt, tool, tally, report, host, store>>
-----------------------------------------------------------------------------
(* run_preview_container.                                                  *)

readiness == <<debt, rpc, failedChecks, blocking, report, verdict>>

\* The port comes before the try block: without one the tool throws.
PreviewPort ==
  /\ ppc = "port"
  /\ \/ AcquireFreePort("preview") /\ ppc' = "build" /\ UNCHANGED previewStatus
     \/ ppc' = "done" /\ previewStatus' = "threw" /\ UNCHANGED port
  /\ UNCHANGED <<readiness, app, listener, answered, store>>

\* The Dockerfile, found or generated, and the build.  An error in the try
\* block is caught; the finally block removes container and image whatever
\* happened, those of a build or a start cut by its timeout too.
PreviewBuild ==
  /\ ppc = "build"
  /\ previewStatus' = "failed"
  /\ \/ images' = images \cup {"preview"} /\ ppc' \in {"run", "container"}
     \/ ppc' = "container" /\ UNCHANGED images
  /\ UNCHANGED <<readiness, host, worktrees, containers, mishaps>>

PreviewRun ==
  /\ ppc = "run"
  /\ StartContainer("preview", "watch", "container", ppc)
  /\ UNCHANGED <<readiness, previewStatus, port, answered, worktrees, images>>

\* Faulty variant: a healthy preview is returned at once, past the clean-up.
PreviewWatchReturns ==
  /\ ppc = "watch"
  /\ \/ /\ app["preview"] # "gone"
        /\ ProbeAnswered("preview")
        /\ previewStatus' = "healthy"
        /\ ppc' = "done"
     \/ UNCHANGED <<answered, previewStatus>> /\ ppc' = "container"
  /\ UNCHANGED <<readiness, port, app, listener, store>>

\* The loop until the deadline: the status first, then a connection.
PreviewWatch ==
  /\ ppc = "watch"
  /\ \/ /\ app["preview"] # "gone"
        /\ ProbeAnswered("preview")
        /\ previewStatus' = "healthy"
     \/ UNCHANGED <<answered, previewStatus>>
  /\ ppc' = "container"
  /\ UNCHANGED <<readiness, port, app, listener, store>>

PreviewContainer ==
  /\ ppc = "container"
  /\ RemoveContainer("preview")
  /\ ppc' = "image"
  /\ UNCHANGED <<readiness, previewStatus, port, answered, worktrees, images>>

PreviewImage ==
  /\ ppc = "image"
  /\ RemoveImage("preview", "preview_image")
  /\ ppc' = "done"
  /\ UNCHANGED <<readiness, previewStatus, host, worktrees, containers>>
-----------------------------------------------------------------------------
(* The applications.                                                       *)

\* The application of the boot check binds its port, or finds it taken and exits.
AppListens ==
  /\ app["boot"] = "starting"
  /\ IF listener[port["boot"]] = "nobody"
     THEN /\ listener' = [listener EXCEPT ![port["boot"]] = "boot"]
          /\ \E health \in {"up", "mute"} : app' = [app EXCEPT !["boot"] = health]
     ELSE Gone("boot")
  /\ UNCHANGED <<readiness, tool, port, answered, store>>

\* An application exits by itself, or on the signals of terminateBootProcess.
\* A container of the readiness check is removed with it (--rm).
AppExits(a) ==
  /\ app[a] \in {"starting", "up", "mute", "stopping"}
  /\ Gone(a)
  /\ containers' = IF a = "docker_boot" THEN containers \ {a} ELSE containers
  /\ UNCHANGED <<readiness, tool, port, answered, worktrees, images, mishaps>>

ReadinessStep ==
  \/ HeavyStart \/ HeavyCommands \/ BootPort \/ BootProbe \/ HeavyThrows \/ HeavyEnd
  \/ DebtChecks \/ DockerVersion \/ DockerBuild \/ DockerPort \/ DockerRun
  \/ DockerProbe \/ DockerStop \/ DockerImage \/ DockerTreeEnd \/ GiveVerdict

PreviewStep ==
  \/ PreviewPort \/ PreviewBuild \/ PreviewRun \/ PreviewWatch
  \/ PreviewContainer \/ PreviewImage

ReadinessNext ==
  \/ ReadinessStep
  \/ PreviewStep
  \/ AppListens
  \/ \E a \in Attempt : AppExits(a)

ReadinessSpec == ReadinessInit /\ [][ReadinessNext]_readinessVars
-----------------------------------------------------------------------------
ReadinessTypeOK ==
  /\ failedChecks \subseteq HeavyCheck
  /\ blocking \in 0..(Cardinality(failedChecks) + 1)
  /\ DOMAIN report \subseteq CheckId
  /\ \A c \in DOMAIN report : report[c] \in {"pass", "fail", "skip"}
  /\ verdict \in {"none", "YES", "NO"}
  /\ previewStatus \in {"none", "threw", "failed", "healthy"}
  /\ \A a \in Attempt : /\ port[a] \in Port \cup {NoPort}
                        /\ app[a] \in {"none", "starting", "up", "mute",
                                      "stopping", "gone"}
                        /\ answered[a] \in Attempt \cup {"nobody"}
  /\ \A p \in Port : listener[p] \in Attempt \cup {"nobody"}
  /\ worktrees \subseteq {"heavy", "docker"}
  /\ images \cup containers \subseteq Attempt

\* A port may be handed out a second time before its first holder listens.
SharesPort(a) == \E b \in Attempt \ {a} : port[b] = port[a]

\* The readiness verdict (check-v1-ready.ts:668-743, heavy-validator.ts:437-911).
\* Heavy validation's count is 0 exactly when none of its checks failed.  A YES
\* is given only with all six checks made, heavy validation passed, a container
\* that booted (a skipped boot never comes without a failure elsewhere) and no
\* stub debt left.  And whatever passed a probe was answered by the application
\* under test, unless its port had been handed out twice.
VerdictIsEarned ==
  /\ rpc \in {"bootPort", "bootProbe", "heavyEnd"} =>
       (blocking = 0 <=> failedChecks = {})
  /\ verdict = "YES" =>
       /\ DOMAIN report = CheckId
       /\ report["heavy_validation"] = "pass" /\ report["docker_boot"] = "pass"
       /\ answered["docker_boot"] # "nobody"
       /\ debt = {}
  /\ \A a \in Attempt : answered[a] \in {"nobody", a} \/ SharesPort(a)

\* The worktrees, containers and images of both (git-versioning.ts:368-398,
\* check-v1-ready.ts:543-665, run-preview-container.ts:283-409).  What a finished
\* check leaves on the host is an image it was told to keep, or what a command
\* that was to remove it did not remove; the readiness check, which has no
\* finally block around its container, also leaves what a build or a start that
\* was cut had made, or the image when no port could be had.
GivenBack ==
  /\ rpc = "done" =>
       /\ worktrees \subseteq mishaps
       /\ "docker_boot" \in containers => "docker_boot" \in mishaps
       /\ "docker_boot" \in images => "docker_image" \in mishaps
  /\ ppc = "done" =>
       /\ "preview" \in containers => "preview" \in mishaps
       /\ "preview" \in images => "preview_image" \in mishaps
=============================================================================
