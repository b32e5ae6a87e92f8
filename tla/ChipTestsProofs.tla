--------------------------- MODULE ChipTestsProofs ---------------------------
(***************************************************************************)
(* What a run of certification tests can rely on, for every list of tests  *)
(* and however often the process dies, a command fails or a wait times     *)
(* out.  That every invocation ends is left to TLC.                        *)
(***************************************************************************)
EXTENDS ChipTests, FilteringProofs

(***************************************************************************)
(* Readiness.  The process that --start builds has no plugin until docker  *)
(* restarts it with the config of chipTests.json, so that the marker seen  *)
(* since then is of that process; and the process of a prepared container  *)
(* has printed its marker before each reset, so that the marker seen since *)
(* is of the process that replaced it.                                     *)
(***************************************************************************)

NoProcessNoPlugin == container # "running" => loaded = "none" /\ ~configured

StepsInOrder ==
    /\ pc = "starting" => step \in 1..11
    /\ pc \in {"starting", "stopping"} /\ prepared = "ready" => step = 1

BuildingProgress ==
    /\ pc = "starting" /\ step > 4 /\ prepared = "building" =>
           /\ container = "running" /\ loaded = "none"
           /\ step > 9 => added
           /\ step > 10 => config = "chipTests"
    /\ pc = "restarting" /\ resume = "started" /\ prepared = "building" =>
           container = "running" /\ loaded = "none" /\ added /\ config = "chipTests" /\ ~marked
    /\ pc = "waiting" /\ resume = "started" /\ prepared = "building" =>
           /\ container = "running" /\ loaded = "chipTests" /\ added /\ config = "chipTests"
           /\ marked => configured

ReadyStays ==
    prepared = "ready" =>
        /\ container = "running" /\ loaded = "chipTests" /\ added /\ config = "chipTests"
        /\ pc = "restarting" => ~marked
        /\ IF pc = "waiting" THEN marked => configured ELSE configured

Resumes ==
    /\ resume \in {"started", "run", "advance"}
    /\ pc = "resetting" => resume # "started"

ReadyInvariant == NoProcessNoPlugin /\ StepsInOrder /\ BuildingProgress /\ ReadyStays /\ Resumes

\* An invocation begins with its first step.
LEMMA InvocationReady == ASSUME ReadyInvariant, Invocation PROVE ReadyInvariant'
  BY DEF ReadyInvariant, NoProcessNoPlugin, StepsInOrder, BuildingProgress, ReadyStays, Resumes,
     Invocation, InvalidInvocation, InvokeStart, InvokeStop, RunTests, LoadChipTestsFile,
     containerVars, storageVars, processVars

\* A step of --start before the restart, done or failed.
LEMMA StartReady == ASSUME ReadyInvariant, StartStep PROVE ReadyInvariant'
<1> USE DEF ReadyInvariant, NoProcessNoPlugin, StepsInOrder, BuildingProgress, ReadyStays, Resumes,
    containerVars, storageVars, processVars
<1>1. pc = "starting" /\ step \in 1..11
  BY DEF StartStep
<1>2. CASE Fail
  BY <1>1, <1>2 DEF Fail, Exit
<1>3. ASSUME StepSucceeds(StartSteps[step]), NextStep PROVE ReadyInvariant'
  <2>1. CASE step = 1
    BY <1>1, <1>3, <2>1 DEF NextStep, StepSucceeds, StartSteps, OnHost, RemoveContainer, NoProcess
  <2>2. CASE step = 4
    BY <1>1, <1>3, <2>2 DEF NextStep, StepSucceeds, StartSteps, OnHost, CreateContainer
  <2>3. CASE step = 9
    BY <1>1, <1>3, <2>3 DEF NextStep, StepSucceeds, StartSteps, OnHost, AddPlugin
  <2>4. CASE step = 10
    BY <1>1, <1>3, <2>4 DEF NextStep, StepSucceeds, StartSteps, OnHost, WritePluginConfig
  <2>5. CASE step \in {2, 3, 5, 6, 7, 8}
    <3>1. StartSteps[step] \in OnHost
      BY <2>5 DEF StartSteps, OnHost
    <3>2. UNCHANGED containerVars
      BY <1>3, <3>1 DEF StepSucceeds, OnHost
    <3> QED BY <1>1, <1>3, <2>5, <3>2 DEF NextStep
  <2>6. step # 11
    BY <1>3 DEF StepSucceeds, StartSteps, OnHost
  <2> QED BY <1>1, <2>1, <2>2, <2>3, <2>4, <2>5, <2>6
<1> QED BY <1>2, <1>3 DEF StartStep

\* A step of --stop: the container of a prepared process is stopped first.
LEMMA StopReady == ASSUME ReadyInvariant, StopStep \/ Stopped PROVE ReadyInvariant'
<1> USE DEF ReadyInvariant, NoProcessNoPlugin, StepsInOrder, BuildingProgress, ReadyStays, Resumes,
    containerVars, storageVars, processVars
<1>1. CASE Stopped \/ Fail
  BY <1>1 DEF Stopped, StopStep, Fail, Exit
<1>2. ASSUME pc = "stopping", step \in DOMAIN StopSteps, StepSucceeds(StopSteps[step]), NextStep
      PROVE  ReadyInvariant'
  <2>1. step \in 1..4
    BY <1>2 DEF StopSteps
  <2>2. CASE step = 1
    BY <1>2, <2>2 DEF NextStep, StepSucceeds, StopSteps, OnHost, StopContainer, NoProcess
  <2>3. CASE step # 1
    <3>1. StopSteps[step] \in OnHost
      BY <2>1, <2>3 DEF StopSteps, OnHost
    <3>2. UNCHANGED containerVars
      BY <1>2, <3>1 DEF StepSucceeds, OnHost
    <3> QED BY <1>2, <2>3, <3>2 DEF NextStep
  <2> QED BY <2>2, <2>3
<1> QED BY <1>1, <1>2 DEF StopStep

\* The restart of the container and the wait for it.
LEMMA RestartReady ==
    ASSUME ReadyInvariant,
           StartRestart \/ RestartContainer \/ ContainerReady \/ WaitTimesOut
               \/ RestartFails \/ LogsFail
    PROVE  ReadyInvariant'
<1> USE DEF ReadyInvariant, NoProcessNoPlugin, StepsInOrder, BuildingProgress, ReadyStays, Resumes,
    containerVars, storageVars, processVars
<1>1. CASE StartRestart
  <2>1. step = 11
    BY <1>1 DEF StartRestart, StartSteps
  <2> QED BY <1>1, <2>1 DEF StartRestart, TakeRestartedAt, SinceRestart
<1>2. CASE RestartContainer
  BY <1>2 DEF RestartContainer, NewProcess
<1>3. CASE ContainerReady
  <2>1. CASE prepared' = "ready"
    <3>1. marked /\ pc = "waiting" /\ pc' \notin {"restarting", "waiting", "starting", "stopping"}
      BY <1>3 DEF ContainerReady, Resume
    <3> QED BY <1>3, <2>1, <3>1 DEF ContainerReady, Resume
  <2>2. CASE prepared' # "ready"
    BY <1>3, <2>2 DEF ContainerReady, Resume
  <2> QED BY <2>1, <2>2
<1>4. CASE WaitTimesOut
  BY <1>4 DEF WaitTimesOut, TimesOut, Resume
<1>5. CASE RestartFails \/ LogsFail
  BY <1>5 DEF RestartFails, LogsFail, Abort, Exit, NoProcess
<1> QED BY <1>1, <1>2, <1>3, <1>4, <1>5

\* The resets and the tests leave the process alone.
LEMMA TestsReady ==
    ASSUME ReadyInvariant, ResetStorage \/ SkipTest \/ BeginTest \/ TestEnds \/ WriteSummary
    PROVE  ReadyInvariant'
<1>1. UNCHANGED <<container, added, config, loaded, configured, prepared>>
  BY DEF ResetStorage, SkipTest, BeginTest, TestEnds, WriteSummary, containerVars, storageVars,
     processVars
<1>2. pc' \in {"restarting", "choosing", "resetting", "idle", "testing"} /\ pc # "waiting"
  BY DEF ResetStorage, SkipTest, BeginTest, TestEnds, WriteSummary, BeginReset, TakeRestartedAt,
     Exit
<1>3. pc' = "restarting" => marked' = FALSE /\ resume' # "started"
  BY DEF ResetStorage, SkipTest, BeginTest, TestEnds, WriteSummary, BeginReset, TakeRestartedAt,
     SinceRestart, Exit, ReadyInvariant, Resumes
<1>4. Resumes'
  BY DEF ResetStorage, SkipTest, BeginTest, TestEnds, WriteSummary, BeginReset, TakeRestartedAt,
     Exit, ReadyInvariant, Resumes
<1> QED BY <1>1, <1>2, <1>3, <1>4
    DEF ReadyInvariant, NoProcessNoPlugin, StepsInOrder, BuildingProgress, ReadyStays, Resumes

\* The plugin and the process in their own time.
LEMMA ProcessReady ==
    ASSUME ReadyInvariant, PluginConfigured \/ ProcessDies \/ DockerRestartsProcess
    PROVE  ReadyInvariant'
  BY DEF ReadyInvariant, NoProcessNoPlugin, StepsInOrder, BuildingProgress, ReadyStays, Resumes,
     PluginConfigured, ProcessDies, DockerRestartsProcess, NoProcess, NewProcess,
     scriptVars, storageVars

\* A test in a container that --start prepared finds the plugin configured, as
\* long as no wait timed out and the process has not died.
THEOREM PreparedAlwaysMeansReady == ChipSpec => []PreparedMeansReady
<1>1. ChipInit => ReadyInvariant
  BY DEF ChipInit, ReadyInvariant, NoProcessNoPlugin, StepsInOrder, BuildingProgress, ReadyStays, Resumes
<1>2. ReadyInvariant /\ [ChipNext]_chipVars => ReadyInvariant'
  <2> SUFFICES ASSUME ReadyInvariant, [ChipNext]_chipVars PROVE ReadyInvariant'
    OBVIOUS
  <2>1. CASE UNCHANGED chipVars
    BY <2>1 DEF chipVars, scriptVars, containerVars, storageVars, processVars, ReadyInvariant,
       NoProcessNoPlugin, StepsInOrder, BuildingProgress, ReadyStays, Resumes
  <2> QED BY <2>1, InvocationReady, StartReady, StopReady, RestartReady, TestsReady, ProcessReady
          DEF ChipNext, ScriptStep
<1>3. ReadyInvariant => PreparedMeansReady
  BY DEF ReadyInvariant, ReadyStays, PreparedMeansReady
<1> QED BY <1>1, <1>2, <1>3, PTL DEF ChipSpec

(***************************************************************************)
(* Residue.  It is bounded by what ran since the last reset: a reset       *)
(* empties the storage before the restart empties the memory, and nothing  *)
(* runs in between.                                                        *)
(***************************************************************************)

\* The tests of this run that ask for a reset after them.
ResetAfter == {r.test : r \in {x \in results : x.outcome # "skipped" /\ AllTests[x.test].resetAfter}}

NoResidueOf(tests) == held \cap tests = {} /\ (~deleteFailed => stored \cap tests = {})

ResidueInvariant ==
    /\ Resumes
    /\ pc \in {"choosing", "testing"} => NoResidueOf(ResetAfter)
    /\ pc \in {"restarting", "waiting"} /\ resume # "started" => deleteFailed \/ stored = {}
    /\ pc = "waiting" /\ resume # "started" => held = {}
    /\ ResidueContained

\* The steps that neither run a test nor begin one.
LEMMA ResidueOutside ==
    ASSUME ResidueInvariant, results' = results \/ pc' \notin {"choosing", "testing"},
           pc' \notin {"choosing", "testing"} \/ pc' = pc, Resumes',
           UNCHANGED <<selected, deleteFailed>> \/ pc' \notin {"choosing", "testing"},
           \/ pc' \notin {"choosing", "testing", "restarting", "waiting"}
           \/ resume' = "started" /\ pc' \notin {"choosing", "testing"}
           \/ /\ UNCHANGED <<pc, resume, deleteFailed, stored>>
              /\ held' = held \/ held' = {}
    PROVE  ResidueInvariant'
  BY DEF ResidueInvariant, Resumes, NoResidueOf, ResetAfter, ResidueContained, Cleaned, Remaining,
     CurrentTest

\* The loop of runTests: the residue of a test that is not followed by a reset is
\* of no test that asks for one.
LEMMA ResidueOfTests ==
    ASSUME ResidueInvariant, SkipTest \/ BeginTest \/ TestEnds \/ WriteSummary
    PROVE  ResidueInvariant'
<1> USE DEF ResidueInvariant, Resumes, NoResidueOf
<1>1. CASE SkipTest
  <2>1. ResetAfter' = ResetAfter
    BY <1>1 DEF SkipTest, ResetAfter
  <2> QED BY <1>1, <2>1 DEF SkipTest, containerVars, storageVars, processVars, ResidueContained
<1>2. CASE BeginTest
  <2>1. UNCHANGED <<stored, held, deleteFailed>> /\ pc = "choosing"
    BY <1>2 DEF BeginTest, containerVars, storageVars, processVars
  <2>2. ResetAfter' = ResetAfter /\ CurrentTest' = CurrentTest
    BY <1>2 DEF BeginTest, ResetAfter, CurrentTest, Remaining
  <2>3. CASE pc' = "testing"
    <3>1. ~AllTests[CurrentTest].resetBefore
      BY <1>2, <2>3 DEF BeginTest, BeginReset, Exit
    <3>2. Cleaned' = ResetAfter'
      BY <2>2, <3>1 DEF Cleaned, ResetAfter
    <3>3. resume' = resume
      BY <1>2, <3>1 DEF BeginTest
    <3> QED BY <2>1, <2>2, <2>3, <3>2, <3>3 DEF ResidueContained
  <2>4. CASE pc' # "testing"
    <3>1. pc' \in {"resetting", "idle"} /\ resume' \in {"run", resume}
      BY <1>2, <2>4 DEF BeginTest, BeginReset, Exit
    <3>2. pc' = "resetting" => resume' = "run"
      BY <1>2, <2>4 DEF BeginTest, BeginReset, Exit
    <3> QED BY <3>1, <3>2 DEF ResidueContained
  <2> QED BY <2>3, <2>4
<1>3. CASE TestEnds
  <2>1. PICK outcome \in {"passed", "failed"} :
            /\ results' = results \cup {[test |-> CurrentTest, outcome |-> outcome]}
            /\ \/ ResetAfterwards(CurrentTest, outcome) /\ BeginReset("advance")
               \/ /\ ~ResetAfterwards(CurrentTest, outcome)
                  /\ pc' = "choosing"
                  /\ UNCHANGED <<resume, exitCode>>
    BY <1>3 DEF TestEnds
  <2>2. CASE BeginReset("advance")
    BY <2>2 DEF BeginReset, Exit, ResidueContained
  <2>3. CASE ~AllTests[CurrentTest].resetAfter /\ pc' = "choosing" /\ UNCHANGED resume
    <3>1. ResetAfter' = ResetAfter
      BY <2>1, <2>3 DEF ResetAfter
    <3>2. CurrentTest \notin ResetAfter
      BY <2>3 DEF ResetAfter
    <3>3. /\ stored' = stored \/ stored' = stored \cup {CurrentTest}
          /\ held' = held \/ held' = held \cup {CurrentTest}
          /\ deleteFailed' = deleteFailed /\ pc = "testing"
      BY <1>3 DEF TestEnds
    <3> QED BY <2>3, <3>1, <3>2, <3>3 DEF ResidueContained
  <2> QED BY <2>1, <2>2, <2>3 DEF ResetAfterwards
<1>4. CASE WriteSummary
  BY <1>4 DEF WriteSummary, Exit, ResidueContained
<1> QED BY <1>1, <1>2, <1>3, <1>4

\* The reset and the restart after it.
LEMMA ResidueOfResets ==
    ASSUME ResidueInvariant, ResetStorage \/ RestartContainer \/ ContainerReady \/ WaitTimesOut
    PROVE  ResidueInvariant'
<1> USE DEF ResidueInvariant, Resumes, NoResidueOf
<1>1. CASE ResetStorage
  BY <1>1 DEF ResetStorage, Find, TakeRestartedAt, ResidueContained
<1>2. CASE RestartContainer
  BY <1>2 DEF RestartContainer, NewProcess, storageVars, ResidueContained
<1>3. CASE ContainerReady \/ WaitTimesOut
  <2>1. /\ pc = "waiting" /\ UNCHANGED <<stored, held, deleteFailed, resume>>
        /\ pc' \in {"idle", "testing", "choosing"}
        /\ pc' # "idle" => resume # "started"
    BY <1>3 DEF ContainerReady, WaitTimesOut, TimesOut, Resume, storageVars, processVars
  <2>2. pc' # "idle" => held' = {} /\ (deleteFailed' \/ stored' = {})
    BY <2>1
  <2> QED BY <2>1, <2>2 DEF ResidueContained
<1> QED BY <1>1, <1>2, <1>3

\* No residue leaks into a test that asks for a clean device, nor out of one that
\* asks to be cleaned up after.
THEOREM ResidueAlwaysContained == ChipSpec => []ResidueContained
<1>1. ChipInit => ResidueInvariant
  BY DEF ChipInit, ResidueInvariant, Resumes, ResidueContained
<1>2. ResidueInvariant /\ [ChipNext]_chipVars => ResidueInvariant'
  <2> SUFFICES ASSUME ResidueInvariant, [ChipNext]_chipVars PROVE ResidueInvariant'
    OBVIOUS
  <2>1. CASE UNCHANGED chipVars
    BY <2>1, ResidueOutside DEF chipVars, scriptVars, containerVars, storageVars, ResidueInvariant,
       processVars, Resumes
  <2>2. CASE InvalidInvocation
    BY <2>2, ResidueOutside DEF InvalidInvocation, LoadChipTestsFile, Resumes
  <2>3. CASE InvokeStart \/ InvokeStop
    BY <2>3, ResidueOutside DEF InvokeStart, InvokeStop, LoadChipTestsFile, Resumes
  <2>4. CASE RunTests
    <3>1. ResetAfter' = {}
      BY <2>4 DEF RunTests, LoadChipTestsFile, ResetAfter
    <3> QED BY <2>4, <3>1 DEF RunTests, LoadChipTestsFile, ResidueInvariant, Resumes, NoResidueOf,
            ResidueContained
  <2>5. CASE StartStep \/ StopStep \/ Stopped \/ StartRestart \/ RestartFails \/ LogsFail
    <3>1. \/ pc' \in {"starting", "stopping", "idle"}
          \/ pc' = "restarting" /\ resume' = "started"
      BY <2>5 DEF StartStep, StopStep, Stopped, StartRestart, RestartFails, LogsFail, Fail, Abort,
         Exit, NextStep, TakeRestartedAt
    <3>2. Resumes'
      BY <2>5 DEF StartStep, StopStep, Stopped, StartRestart, RestartFails, LogsFail, Fail, Abort,
         Exit, NextStep, TakeRestartedAt, ResidueInvariant, Resumes
    <3> QED BY <3>1, <3>2, ResidueOutside
  <2>6. CASE PluginConfigured \/ ProcessDies \/ DockerRestartsProcess
    <3>1. UNCHANGED <<scriptVars, stored>> /\ (held' = held \/ held' = {})
      BY <2>6 DEF PluginConfigured, ProcessDies, DockerRestartsProcess, NoProcess, NewProcess,
         storageVars
    <3> QED BY <3>1, ResidueOutside DEF scriptVars, ResidueInvariant, Resumes
  <2> QED BY <2>1, <2>2, <2>3, <2>4, <2>5, <2>6, ResidueOfTests, ResidueOfResets
          DEF ChipNext, Invocation, ScriptStep
<1>3. ResidueInvariant => ResidueContained
  BY DEF ResidueInvariant
<1> QED BY <1>1, <1>2, <1>3, PTL DEF ChipSpec

(***************************************************************************)
(* The exit code.  Every result is of a selected test, since the loop      *)
(* always has one left when it runs or skips one, and only the loop's end  *)
(* lets an invocation of tests exit with 0: not the end of a wait, which   *)
(* returns to the loop.                                                    *)
(***************************************************************************)

TestsLeft ==
    /\ selected \subseteq Tests
    /\ pc = "testing" => Remaining # {}
    /\ pc \in {"resetting", "restarting", "waiting"} /\ resume = "run" => Remaining # {}

ResultsOfSelected ==
    \A r \in results :
        /\ r.test \in selected
        /\ r.outcome \in {"passed", "failed"} \/ AllTests[r.test].skip

TestsReturnToLoop ==
    /\ pc = "starting" => command = "start"
    /\ pc = "stopping" => command = "stop"
    /\ pc \in {"restarting", "waiting"} /\ command = "tests" => resume # "started"

ResultsInvariant ==
    Resumes /\ TestsLeft /\ ResultsOfSelected /\ TestsReturnToLoop /\ ExitZeroMeansPassed

\* While a test is left, the loop is at one of them.
LEMMA CurrentTestRemains ==
    ASSUME TestsLeft, Remaining # {} PROVE CurrentTest \in Remaining /\ CurrentTest \in selected
<1>1. Remaining \subseteq Nat
  BY ChipTestsAssumption DEF TestsLeft, Remaining, Tests
<1>2. \E t \in Remaining : \A other \in Remaining : t <= other
  <2> HIDE DEF Remaining
  <2> QED BY <1>1, LeastElement
<1>3. CurrentTest \in Remaining
  BY <1>2 DEF CurrentTest
<1> QED BY <1>3 DEF Remaining

\* The steps that leave the results alone and do not exit with 0 after tests.
LEMMA ResultsStay ==
    ASSUME ResultsInvariant, UNCHANGED <<selected, results, command, summarized>>, Resumes',
           pc' \in {"testing", "resetting"} => Remaining # {},
           \/ pc' \notin {"restarting", "waiting"}
           \/ UNCHANGED resume /\ pc \in {"resetting", "restarting", "waiting"}
           \/ resume' = "started" /\ command = "start",
           pc' \in {"starting", "stopping"} => pc' = pc,
           pc' = "idle" => exitCode' = 1 \/ command # "tests" \/ UNCHANGED <<pc, exitCode>>
    PROVE  ResultsInvariant'
<1> USE DEF ResultsInvariant
<1>1. TestsLeft'
  BY DEF TestsLeft, Remaining
<1>2. ResultsOfSelected'
  BY DEF ResultsOfSelected
<1>3. TestsReturnToLoop'
  BY DEF TestsReturnToLoop, Resumes
<1>4. ExitZeroMeansPassed'
  BY DEF ExitZeroMeansPassed
<1> QED BY <1>1, <1>2, <1>3, <1>4

\* The loop of runTests.
LEMMA ResultsOfLoop ==
    ASSUME ResultsInvariant, SkipTest \/ BeginTest \/ TestEnds \/ WriteSummary
    PROVE  ResultsInvariant'
<1> USE DEF ResultsInvariant
<1>1. CASE SkipTest
  <2>1. CurrentTest \in selected
    BY <1>1, CurrentTestRemains DEF SkipTest
  <2>2. ResultsOfSelected'
    BY <1>1, <2>1 DEF SkipTest, ResultsOfSelected
  <2> QED BY <1>1, <2>2 DEF SkipTest, TestsLeft, TestsReturnToLoop, ExitZeroMeansPassed, Resumes
<1>2. CASE BeginTest
  <2>1. /\ UNCHANGED <<selected, results, command, summarized>> /\ Remaining # {}
        /\ pc' \in {"testing", "resetting", "idle"}
        /\ pc' = "idle" => exitCode' = 1
    BY <1>2 DEF BeginTest, BeginReset, Exit
  <2>2. Resumes'
    BY <1>2 DEF BeginTest, BeginReset, Exit, Resumes
  <2> QED BY <2>1, <2>2, ResultsStay
<1>3. CASE TestEnds
  <2>1. PICK outcome \in {"passed", "failed"} :
            /\ results' = results \cup {[test |-> CurrentTest, outcome |-> outcome]}
            /\ \/ BeginReset("advance")
               \/ pc' = "choosing" /\ UNCHANGED resume
    BY <1>3 DEF TestEnds
  <2>2. UNCHANGED <<selected, command, summarized>> /\ CurrentTest \in selected
    BY <1>3, CurrentTestRemains DEF TestEnds, TestsLeft
  <2>3. ResultsOfSelected'
    BY <2>1, <2>2 DEF ResultsOfSelected
  <2>4. \/ pc' = "choosing" /\ UNCHANGED resume
        \/ pc' = "resetting" /\ resume' = "advance"
        \/ pc' = "idle" /\ exitCode' = 1 /\ UNCHANGED resume
    BY <2>1 DEF BeginReset, Exit
  <2> QED BY <2>2, <2>3, <2>4 DEF TestsLeft, TestsReturnToLoop, ExitZeroMeansPassed, Resumes
<1>4. CASE WriteSummary
  <2>1. /\ pc' = "idle" /\ summarized' = TRUE /\ Remaining = {}
        /\ UNCHANGED <<selected, results, command, resume>>
        /\ exitCode' = 0 => UnexpectedFailures = {}
    BY <1>4 DEF WriteSummary, Exit
  <2>2. {r.test : r \in results} = selected
    BY <2>1 DEF Remaining, ResultsOfSelected
  <2>3. ASSUME exitCode' = 0, NEW r \in results
        PROVE  r.outcome = "passed" \/ AllTests[r.test].comment \/ AllTests[r.test].skip
    BY <2>1, <2>3 DEF UnexpectedFailures, ResultsOfSelected
  <2>4. ExitZeroMeansPassed'
    BY <2>1, <2>2, <2>3 DEF ExitZeroMeansPassed
  <2>5. ResultsOfSelected'
    BY <2>1 DEF ResultsOfSelected
  <2> QED BY <2>1, <2>4, <2>5 DEF TestsLeft, TestsReturnToLoop, Resumes
<1> QED BY <1>1, <1>2, <1>3, <1>4

\* A run that exits with 0 has a result for every test it selected, and none of an
\* unexpected failure.
THEOREM ExitZeroAlwaysMeansPassed == ChipSpec => []ExitZeroMeansPassed
<1>1. ChipInit => ResultsInvariant
  BY DEF ChipInit, ResultsInvariant, Resumes, TestsLeft, ResultsOfSelected, TestsReturnToLoop,
     ExitZeroMeansPassed
<1>2. ResultsInvariant /\ [ChipNext]_chipVars => ResultsInvariant'
  <2> SUFFICES ASSUME ResultsInvariant, [ChipNext]_chipVars PROVE ResultsInvariant'
    OBVIOUS
  <2> USE DEF ResultsInvariant
  <2>1. CASE UNCHANGED scriptVars
    BY <2>1 DEF scriptVars, Resumes, TestsLeft, Remaining, ResultsOfSelected, TestsReturnToLoop,
       ExitZeroMeansPassed
  <2>2. CASE Invocation
    <3>1. results' = {} /\ selected' \subseteq Tests /\ resume' = "started"
      BY <2>2 DEF Invocation, InvalidInvocation, InvokeStart, InvokeStop, RunTests,
         LoadChipTestsFile
    <3>2. \/ pc' = "idle" /\ exitCode' = 1
          \/ pc' = "starting" /\ command' = "start"
          \/ pc' = "stopping" /\ command' = "stop"
          \/ pc' = "choosing"
      BY <2>2 DEF Invocation, InvalidInvocation, InvokeStart, InvokeStop, RunTests,
         LoadChipTestsFile
    <3> QED BY <3>1, <3>2 DEF Resumes, TestsLeft, ResultsOfSelected, TestsReturnToLoop,
            ExitZeroMeansPassed
  <2>3. CASE StartStep \/ StopStep \/ Stopped \/ StartRestart
    <3>1. UNCHANGED <<selected, results, command, summarized>> /\ command # "tests"
      BY <2>3 DEF StartStep, StopStep, Stopped, StartRestart, Fail, Exit, NextStep, TakeRestartedAt,
         TestsReturnToLoop
    <3>2. /\ pc' \in {pc, "idle", "restarting"} /\ pc \in {"starting", "stopping"}
          /\ pc' = "restarting" => resume' = "started" /\ command = "start"
          /\ Resumes'
      BY <2>3 DEF StartStep, StopStep, Stopped, StartRestart, Fail, Exit, NextStep, TakeRestartedAt,
         TestsReturnToLoop, Resumes
    <3> QED BY <3>1, <3>2, ResultsStay
  <2>4. CASE RestartContainer \/ RestartFails \/ LogsFail \/ ResetStorage
    <3>1. UNCHANGED <<selected, results, command, summarized, resume>> /\ Resumes'
      BY <2>4 DEF RestartContainer, RestartFails, LogsFail, ResetStorage, Abort, Exit,
         TakeRestartedAt, Resumes
    <3>2. \/ pc' = "idle" /\ exitCode' = 1
          \/ pc' = "waiting" /\ pc = "restarting"
          \/ pc' = "restarting" /\ pc = "resetting"
      BY <2>4 DEF RestartContainer, RestartFails, LogsFail, ResetStorage, Abort, Exit,
         TakeRestartedAt
    <3> QED BY <3>1, <3>2, ResultsStay
  <2>5. CASE ContainerReady \/ WaitTimesOut
    <3>1. /\ pc = "waiting" /\ UNCHANGED <<selected, results, command, summarized, resume>>
          /\ \/ pc' = "idle" /\ resume = "started"
             \/ pc' = "testing" /\ resume = "run"
             \/ pc' = "choosing"
          /\ Resumes'
      BY <2>5 DEF ContainerReady, WaitTimesOut, TimesOut, Resume, Resumes
    <3> QED BY <3>1, ResultsStay DEF TestsReturnToLoop, TestsLeft
  <2> QED BY <2>1, <2>2, <2>3, <2>4, <2>5, ResultsOfLoop DEF ChipNext, ScriptStep, chipVars,
          PluginConfigured, ProcessDies, DockerRestartsProcess
<1>3. ResultsInvariant => ExitZeroMeansPassed
  BY DEF ResultsInvariant
<1> QED BY <1>1, <1>2, <1>3, PTL DEF ChipSpec
=============================================================================
