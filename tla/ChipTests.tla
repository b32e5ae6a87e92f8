------------------------------ MODULE ChipTests ------------------------------
(***************************************************************************)
(* The runner of the CHIP certification tests (run-chip-tests.mjs) and the *)
(* docker container in which Matterbridge, the plugin and the tests run.   *)
(*                                                                         *)
(* The script is sequential: pc is the command it waits for.  Around it    *)
(* the plugin starts in its own time, the container's process can die and  *)
(* is then restarted by docker (--restart always), and a command can fail. *)
(*                                                                         *)
(* A test may leave residue on the device, in the storage that             *)
(* resetClusterGlobs match (stored) or in memory only (held).  The logs    *)
(* are what waitForContainerReady reads of them: whether readyLogMarker    *)
(* was printed since restartedAt.                                          *)
(***************************************************************************)
EXTENDS Naturals, Sequences

CONSTANT AllTests  \* the entries of chipTests.json: yamlTests, then phytonTests

TestEntry ==
    [skip : BOOLEAN, comment : BOOLEAN, resetBefore : BOOLEAN, resetAfter : BOOLEAN]

ASSUME ChipTestsAssumption == AllTests \in Seq(TestEntry)

VARIABLES
    pc,            \* what the script does
    command,       \* the last invocation: "start", "stop" or "tests"
    step,          \* of --start or --stop
    selected,      \* the tests of the last run
    results,       \* of those that were run or skipped
    resume,        \* where the script goes on once the container is ready
    globs,         \* resetClusterGlobs is not empty
    summarized,    \* chipTestsSummary.log is of the last invocation
    exitCode,      \* of the last invocation
    deleteFailed   \* a find of this run failed, which resetContainerState ignores

scriptVars == <<pc, command, step, selected, results, resume, globs, summarized, exitCode, deleteFailed>>

VARIABLES
    container,     \* "absent", "stopped", "running", or "restarting" by docker
    added,         \* the plugin is registered in the container
    config,        \* the config file of the plugin in the container
    stored,        \* tests whose residue is in the storage of the node
    loaded,        \* the config the process was started with, if it has the plugin
    configured,    \* the process printed readyLogMarker
    held,          \* tests whose residue is in the memory of the process
    marked,        \* readyLogMarker was printed since restartedAt
    prepared       \* auxiliary: "building" since docker run, "ready" since --start
                   \* ended, "no" once the process died or stopped or a wait timed out

processVars == <<loaded, configured, held>>
storageVars == <<added, config, stored>>
containerVars == <<container, storageVars, processVars, marked, prepared>>
chipVars == <<scriptVars, containerVars>>

Tests == DOMAIN AllTests

(***************************************************************************)
(* The container                                                           *)
(***************************************************************************)

NoProcess ==
    /\ loaded' = "none"
    /\ configured' = FALSE
    /\ held' = {}

\* A new process of the container reads what is in it.
NewProcess ==
    /\ loaded' = IF added THEN config ELSE "none"
    /\ configured' = FALSE
    /\ held' = {}

PluginConfigured ==
    /\ container = "running" /\ loaded # "none" /\ ~configured
    /\ configured' = TRUE
    /\ marked' = TRUE
    /\ UNCHANGED <<scriptVars, container, storageVars, loaded, held, prepared>>

ProcessDies ==
    /\ container = "running"
    /\ container' = "restarting"
    /\ NoProcess
    /\ prepared' = "no"
    /\ UNCHANGED <<scriptVars, storageVars, marked>>

DockerRestartsProcess ==
    /\ container = "restarting"
    /\ container' = "running"
    /\ NewProcess
    /\ UNCHANGED <<scriptVars, storageVars, marked, prepared>>

(***************************************************************************)
(* Ends of an invocation: main returns, or an ExitError sets the code 1.   *)
(***************************************************************************)

Exit(code) ==
    /\ pc' = "idle"
    /\ exitCode' = code

Fail ==
    /\ Exit(1)
    /\ UNCHANGED <<command, step, selected, results, resume, globs, summarized, deleteFailed>>
    /\ UNCHANGED containerVars

(***************************************************************************)
(* Invocations, each with variables of its own.  loadChipTestsFile comes   *)
(* first and may fail; as far as resetClusterGlobs goes the file may have  *)
(* been edited since.  filterTests selects some of the tests or fails.     *)
(***************************************************************************)

LoadChipTestsFile(c) ==
    /\ pc = "idle"
    /\ command' = c
    /\ globs' \in BOOLEAN
    /\ step' = 1 /\ results' = {} /\ resume' = "started"
    /\ summarized' = FALSE /\ deleteFailed' = FALSE
    /\ UNCHANGED containerVars

InvalidInvocation ==
    /\ \E c \in {"start", "stop", "tests"} : LoadChipTestsFile(c)
    /\ selected' = {} /\ exitCode' = 1
    /\ UNCHANGED pc

InvokeStart ==
    /\ LoadChipTestsFile("start")
    /\ pc' = "starting" /\ selected' = {} /\ exitCode' = 0

InvokeStop ==
    /\ LoadChipTestsFile("stop")
    /\ pc' = "stopping" /\ selected' = {} /\ exitCode' = 0

RunTests ==
    /\ LoadChipTestsFile("tests")
    /\ pc' = "choosing" /\ selected' \in SUBSET Tests \ {{}} /\ exitCode' = 0

(***************************************************************************)
(* docker restart and waitForContainerReady                                *)
(***************************************************************************)

\* Mutant: the logs are read from the beginning.
AllLogs == UNCHANGED marked

SinceRestart == marked' = FALSE

\* restartedAt is taken before docker restart: the old process still runs.
TakeRestartedAt(next) ==
    /\ pc' = "restarting"
    /\ resume' = next
    /\ SinceRestart

RestartContainer ==
    /\ pc = "restarting"
    /\ container # "absent"
    /\ pc' = "waiting"
    /\ container' = "running"
    /\ NewProcess
    /\ UNCHANGED <<command, step, selected, results, resume, globs, summarized, exitCode, deleteFailed>>
    /\ UNCHANGED <<storageVars, marked, prepared>>

Resume ==
    /\ pc' = CASE resume = "started" -> "idle"
               [] resume = "run" -> "testing"
               [] resume = "advance" -> "choosing"
    /\ UNCHANGED <<command, step, selected, results, resume, globs, summarized, exitCode, deleteFailed>>
    /\ UNCHANGED <<container, storageVars, processVars, marked>>

ContainerReady ==
    /\ pc = "waiting"
    /\ marked
    /\ prepared' = IF resume = "started" /\ prepared = "building" THEN "ready" ELSE prepared
    /\ Resume

\* Mutant: only the marker ends the wait.
NeverTimesOut == FALSE

TimesOut == pc = "waiting"

\* "continuing anyway"
WaitTimesOut ==
    /\ TimesOut
    /\ prepared' = "no"
    /\ Resume

Abort ==
    /\ Exit(1)
    /\ prepared' = "no"
    /\ UNCHANGED <<command, step, selected, results, resume, globs, summarized, deleteFailed>>
    /\ UNCHANGED <<storageVars, marked>>

\* docker restart fails, having stopped the container or not.
RestartFails ==
    /\ pc = "restarting"
    /\ \/ UNCHANGED <<container, processVars>>
       \/ container = "running" /\ container' = "stopped" /\ NoProcess
    /\ Abort

\* docker logs cannot be run.
LogsFail ==
    /\ pc = "waiting"
    /\ UNCHANGED <<container, processVars>>
    /\ Abort

(***************************************************************************)
(* --start and --stop.  The statuses of docker rm, network inspect and     *)
(* docker stop are ignored.                                                *)
(***************************************************************************)

\* Mutant: the container is restarted before it has its config.
RestartFirst ==
    <<"rm", "pull", "network", "run", "install", "link", "build", "unlink", "add", "restart">>

StartSteps ==
    <<"rm", "pull", "network", "run", "install", "link", "build", "unlink", "add", "config", "restart">>

StopSteps == <<"stop", "install", "link", "build">>

OnHost == {"pull", "network", "install", "link", "build", "unlink"}

RemoveContainer ==
    /\ \/ container' = "absent" /\ NoProcess /\ marked' = FALSE
       \/ UNCHANGED <<container, processVars, marked>>
    /\ prepared' = "no"
    /\ UNCHANGED storageVars

CreateContainer ==
    /\ container = "absent"
    /\ container' = "running"
    /\ added' = FALSE /\ config' = "none" /\ stored' = {}
    /\ prepared' = "building"
    /\ UNCHANGED <<processVars, marked>>

\* matterbridge --add also creates the default config of the plugin.
AddPlugin ==
    /\ container = "running"
    /\ added' = TRUE
    /\ config' = IF added THEN config ELSE "defaults"
    /\ UNCHANGED <<container, stored, processVars, marked, prepared>>

WritePluginConfig ==
    /\ container = "running"
    /\ config' = "chipTests"
    /\ UNCHANGED <<container, added, stored, processVars, marked, prepared>>

StopContainer ==
    /\ \/ container # "absent" /\ container' = "stopped" /\ NoProcess
       \/ UNCHANGED <<container, processVars>>
    /\ prepared' = "no"
    /\ UNCHANGED <<storageVars, marked>>

StepSucceeds(s) ==
    \/ s = "rm" /\ RemoveContainer
    \/ s = "run" /\ CreateContainer
    \/ s = "add" /\ AddPlugin
    \/ s = "config" /\ WritePluginConfig
    \/ s = "stop" /\ StopContainer
    \/ s \in OnHost /\ UNCHANGED containerVars

NextStep ==
    /\ step' = step + 1
    /\ UNCHANGED <<pc, command, selected, results, resume, globs, summarized, exitCode, deleteFailed>>

StartStep ==
    /\ pc = "starting"
    /\ \/ StepSucceeds(StartSteps[step]) /\ NextStep
       \/ StartSteps[step] # "restart" /\ Fail

StartRestart ==
    /\ pc = "starting"
    /\ StartSteps[step] = "restart"
    /\ TakeRestartedAt("started")
    /\ UNCHANGED <<command, step, selected, results, globs, summarized, exitCode, deleteFailed>>
    /\ UNCHANGED <<container, storageVars, processVars, prepared>>

StopStep ==
    /\ pc = "stopping" /\ step \in DOMAIN StopSteps
    /\ \/ StepSucceeds(StopSteps[step]) /\ NextStep
       \/ Fail

Stopped ==
    /\ pc = "stopping" /\ step \notin DOMAIN StopSteps
    /\ Exit(0)
    /\ UNCHANGED <<command, step, selected, results, resume, globs, summarized, deleteFailed>>
    /\ UNCHANGED containerVars

(***************************************************************************)
(* resetContainerState                                                     *)
(***************************************************************************)

BeginReset(next) ==
    \/ globs /\ pc' = "resetting" /\ resume' = next /\ UNCHANGED exitCode
    \/ ~globs /\ Exit(1) /\ UNCHANGED resume

\* find -delete, run by docker exec, empties the storage or fails.
Find ==
    \/ container = "running" /\ stored' = {} /\ UNCHANGED deleteFailed
    \/ UNCHANGED stored /\ deleteFailed' = TRUE

\* Mutant: the process is not restarted, what it holds in memory survives.
ResetStorageOnly ==
    /\ pc = "resetting"
    /\ Find
    /\ pc' = "waiting"
    /\ UNCHANGED <<command, step, selected, results, resume, globs, summarized, exitCode>>
    /\ UNCHANGED <<container, added, config, processVars, marked, prepared>>

ResetStorage ==
    /\ pc = "resetting"
    /\ Find
    /\ TakeRestartedAt(resume)
    /\ UNCHANGED <<command, step, selected, results, globs, summarized, exitCode>>
    /\ UNCHANGED <<container, added, config, processVars, prepared>>

(***************************************************************************)
(* runTests                                                                *)
(***************************************************************************)

Remaining == selected \ {r.test : r \in results}

\* The test the loop is at.
CurrentTest == CHOOSE t \in Remaining : \A other \in Remaining : t <= other

SkipTest ==
    /\ pc = "choosing" /\ Remaining # {}
    /\ AllTests[CurrentTest].skip
    /\ results' = results \cup {[test |-> CurrentTest, outcome |-> "skipped"]}
    /\ UNCHANGED <<pc, command, step, selected, resume, globs, summarized, exitCode, deleteFailed>>
    /\ UNCHANGED containerVars

BeginTest ==
    /\ pc = "choosing" /\ Remaining # {}
    /\ ~AllTests[CurrentTest].skip
    /\ \/ AllTests[CurrentTest].resetBefore /\ BeginReset("run")
       \/ ~AllTests[CurrentTest].resetBefore /\ pc' = "testing" /\ UNCHANGED <<resume, exitCode>>
    /\ UNCHANGED <<command, step, selected, results, globs, summarized, deleteFailed, containerVars>>

\* Mutant: a test that fails is not cleaned up after.
ResetIfPassed(t, outcome) == AllTests[t].resetAfter /\ outcome = "passed"

ResetAfterwards(t, outcome) == AllTests[t].resetAfter

\* docker exec fails unless the container runs; a test may leave residue however
\* it ends.
TestEnds ==
    /\ pc = "testing"
    /\ \E outcome \in IF container = "running" THEN {"passed", "failed"} ELSE {"failed"} :
           /\ results' = results \cup {[test |-> CurrentTest, outcome |-> outcome]}
           /\ \/ ResetAfterwards(CurrentTest, outcome) /\ BeginReset("advance")
              \/ /\ ~ResetAfterwards(CurrentTest, outcome)
                 /\ pc' = "choosing"
                 /\ UNCHANGED <<resume, exitCode>>
    /\ IF container = "running"
       THEN /\ stored' \in {stored, stored \cup {CurrentTest}}
            /\ held' \in {held, held \cup {CurrentTest}}
       ELSE UNCHANGED <<stored, held>>
    /\ UNCHANGED <<command, step, selected, globs, summarized, deleteFailed>>
    /\ UNCHANGED <<container, added, config, loaded, configured, marked, prepared>>

\* Mutant: a failed test without a comment is excused by one that has it.
UnexpectedUnlessExplained ==
    IF \E r \in results : r.outcome = "failed" /\ AllTests[r.test].comment
    THEN {}
    ELSE {r \in results : r.outcome = "failed"}

UnexpectedFailures == {r \in results : r.outcome = "failed" /\ ~AllTests[r.test].comment}

WriteSummary ==
    /\ pc = "choosing" /\ Remaining = {}
    /\ summarized' = TRUE
    /\ Exit(IF UnexpectedFailures # {} THEN 1 ELSE 0)
    /\ UNCHANGED <<command, step, selected, results, resume, globs, deleteFailed, containerVars>>

(***************************************************************************)
(* The specification                                                       *)
(***************************************************************************)

ChipInit ==
    /\ pc = "idle" /\ command = "stop" /\ step = 1
    /\ selected = {} /\ results = {} /\ summarized = FALSE
    /\ resume = "started" /\ globs = FALSE
    /\ exitCode = 0 /\ deleteFailed = FALSE
    /\ container = "absent" /\ added = FALSE /\ config = "none" /\ stored = {}
    /\ loaded = "none" /\ configured = FALSE /\ held = {}
    /\ marked = FALSE /\ prepared = "no"

Invocation == InvalidInvocation \/ InvokeStart \/ InvokeStop \/ RunTests

ScriptStep ==
    \/ StartStep \/ StartRestart \/ StopStep \/ Stopped
    \/ RestartContainer \/ ContainerReady \/ WaitTimesOut \/ RestartFails
    \/ ResetStorage
    \/ SkipTest \/ BeginTest \/ TestEnds \/ WriteSummary

ChipNext ==
    \/ Invocation
    \/ ScriptStep
    \/ LogsFail
    \/ PluginConfigured \/ ProcessDies \/ DockerRestartsProcess

ChipSpec == ChipInit /\ [][ChipNext]_chipVars

\* Every command the script runs ends: spawnSync waits for it, a certification
\* test has a timeout of its own and reads the end of its input.
ChipFairSpec == ChipSpec /\ WF_chipVars(ScriptStep)

(***************************************************************************)
(* Properties                                                              *)
(***************************************************************************)

\* In a container that --start prepared, as long as no wait has timed out and the
\* process has not died, no test "races a not-yet-ready device": the plugin is
\* configured, with the config of chipTests.json, whenever a test runs, through
\* any number of resets and runs.
PreparedMeansReady ==
    pc = "testing" /\ prepared = "ready" => configured /\ loaded = "chipTests"

\* The tests of this run whose residue must be gone: all of them before a test
\* with resetBefore, and those with resetAfter before any other test.
Cleaned ==
    IF AllTests[CurrentTest].resetBefore THEN Tests
    ELSE {r.test : r \in {x \in results : x.outcome # "skipped" /\ AllTests[x.test].resetAfter}}

\* The residue a test leaves never "leaks into whichever test runs next" when one
\* of the two asks for a reset: what was only in memory went with the process, and
\* what was stored was deleted unless find failed.
ResidueContained ==
    pc = "testing" =>
        /\ held \cap Cleaned = {}
        /\ ~deleteFailed => stored \cap Cleaned = {}

\* A run that exits with 0 has a result for every test it selected, has passed
\* each of them that has no comment and is not skipped, and has written the
\* summary of its own results, not left that of an earlier run.
ExitZeroMeansPassed ==
    pc = "idle" /\ command = "tests" /\ exitCode = 0 =>
        /\ {r.test : r \in results} = selected
        /\ summarized
        /\ \A r \in results : \/ r.outcome = "passed"
                              \/ AllTests[r.test].comment
                              \/ AllTests[r.test].skip

\* Every invocation ends, even if the plugin never gets configured and whatever
\* dies or fails meanwhile.
EveryInvocationEnds == pc # "idle" ~> pc = "idle"
=============================================================================
