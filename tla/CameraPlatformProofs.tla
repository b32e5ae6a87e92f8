------------------------ MODULE CameraPlatformProofs ------------------------
(***************************************************************************)
(* The safety properties of CameraPlatform, for any devices the lists let  *)
(* pass, any cameras and any number of commands in flight.                 *)
(***************************************************************************)
EXTENDS CameraPlatform, TLAPS

\* The platform holds the handle of the only interval there is.
IntervalHeld == timers = IF animationInterval THEN 1 ELSE 0

\* Without a process, or after a shutdown, there is no interval to hold.
IntervalGone == stage \in {"down", "exited"} => ~animationInterval

\* Nothing of the platform is left when its process has ended.
NothingLeft == stage = "exited" => devices = {} /\ animations = {}

\* Sessions belong to devices of the platform until it forgets them.
SessionsOfDevices == stage \notin {"clearing", "down"} => sessions \subseteq devices

\* onShutdown still has to close every session that was open at its call, and
\* has none left to close when it goes on.
EarlySessionsListed == early \subseteq closing /\ (stage # "closing" => closing = {})

\* Only a plugin configured with the animation has an interval or a command.
AnimatedByConfig == ~config.animated => ~animationInterval /\ animations = {}

\* From the second step of onConfigure on, nothing has disabled the chime.
ChimeEnabledFromArming ==
    stage \in {"arming", "configured"} /\ ~config.animated /\ "ServerChime" \in devices
        => ~silenced

\* The type invariant in the parts the provers take best.
SetsTypeOK ==
    /\ stage \in Stages /\ config \in Configs
    /\ devices \subseteq config.validated
    /\ installing \subseteq {"onStart", "onAction"}
    /\ animations \subseteq 1..10
    /\ sessions \subseteq Cameras /\ closing \subseteq Cameras /\ early \subseteq sessions

CountersTypeOK == added \in 0..Len(Devices) /\ timers \in Nat /\ animationPhase \in 0..10

FlagsTypeOK ==
    /\ ffmpeg \in BOOLEAN /\ animationInterval \in BOOLEAN
    /\ bound \in BOOLEAN /\ silenced \in BOOLEAN

PlatformInvariant ==
    /\ SetsTypeOK
    /\ CountersTypeOK
    /\ FlagsTypeOK
    /\ IntervalHeld
    /\ IntervalGone
    /\ NothingLeft
    /\ SessionsOfDevices
    /\ EarlySessionsListed
    /\ AnimatedByConfig
    /\ ChimeEnabledFromArming

\* The number of the devices onStart adds.
LEMMA DevicesLength == Len(Devices) \in Nat
  BY DEF Devices

\* Every state onStart can begin in satisfies the invariant.
LEMMA PlatformInit == Init => PlatformInvariant
  <1> SUFFICES ASSUME Init PROVE PlatformInvariant
    OBVIOUS
  <1>1. SetsTypeOK
    BY DEF Init, SetsTypeOK, Stages
  <1>2. CountersTypeOK
    BY DevicesLength DEF Init, CountersTypeOK
  <1>3. FlagsTypeOK
    BY DEF Init, FlagsTypeOK
  <1>4. IntervalHeld /\ IntervalGone /\ NothingLeft /\ AnimatedByConfig
    BY DEF Init, IntervalHeld, IntervalGone, NothingLeft, AnimatedByConfig
  <1>5. SessionsOfDevices /\ EarlySessionsListed /\ ChimeEnabledFromArming
    BY DEF Init, SessionsOfDevices, EarlySessionsListed, ChimeEnabledFromArming
  <1> QED
    BY <1>1, <1>2, <1>3, <1>4, <1>5 DEF PlatformInvariant

\* Every step of the platform and of its environment preserves the invariant.
LEMMA PlatformNext == PlatformInvariant /\ [Next]_vars => PlatformInvariant'
  <1> SUFFICES ASSUME PlatformInvariant, [Next]_vars PROVE PlatformInvariant'
    OBVIOUS
  <1> USE DEF PlatformInvariant, vars, startVars, ffmpegVars, timerVars, animationVars,
             chimeVars, sessionVars
  <1> USE DEF SetsTypeOK, CountersTypeOK, FlagsTypeOK, IntervalHeld, IntervalGone, NothingLeft,
     SessionsOfDevices, EarlySessionsListed, AnimatedByConfig, ChimeEnabledFromArming, Stages
  <1>1. CASE OnStart
    BY <1>1 DEF OnStart
  <1>2. CASE AddDevice
    BY <1>2, DevicesLength DEF AddDevice
  <1>3. CASE FinishStart
    BY <1>3 DEF FinishStart, CallsAddRootNodeCamera, HasServerNode
  <1>4. CASE OnConfigure
    BY <1>4 DEF OnConfigure
  <1>5. CASE EnableServerChime
    BY <1>5 DEF EnableServerChime, SilencedAfterConfigure
  <1>6. CASE ArmAnimation
    <2>1. SetsTypeOK' /\ CountersTypeOK'
      BY <1>6 DEF ArmAnimation, TimersAfterArming, TimersAfterClear
    <2>2. FlagsTypeOK'
      BY <1>6 DEF ArmAnimation
    <2>3. IntervalHeld' /\ IntervalGone' /\ NothingLeft' /\ AnimatedByConfig'
      BY <1>6 DEF ArmAnimation, TimersAfterArming, TimersAfterClear
    <2>4. SessionsOfDevices' /\ EarlySessionsListed' /\ ChimeEnabledFromArming'
      BY <1>6 DEF ArmAnimation, TimersAfterArming, TimersAfterClear
    <2> QED
      BY <2>1, <2>2, <2>3, <2>4
  <1>7. CASE AnimationHandler
    BY <1>7 DEF AnimationHandler, NextPhase
  <1>8. ASSUME NEW phase \in 1..10, CommandArrives(phase) PROVE PlatformInvariant'
    BY <1>8 DEF CommandArrives, Disables, Enables
  <1>9. CASE OnAction
    BY <1>9 DEF OnAction
  <1>10. ASSUME NEW success \in BOOLEAN, FfmpegInstalledOnStart(success) PROVE PlatformInvariant'
    BY <1>10 DEF FfmpegInstalledOnStart
  <1>11. ASSUME NEW success \in BOOLEAN, FfmpegInstalledOnAction(success) PROVE PlatformInvariant'
    BY <1>11 DEF FfmpegInstalledOnAction
  <1>12. CASE OnShutdown
    BY <1>12 DEF OnShutdown, ToClose
  <1>13. CASE SuperOnShutdown
    BY <1>13 DEF SuperOnShutdown
  <1>14. CASE FinishShutdown
    <2>1. SetsTypeOK' /\ CountersTypeOK'
      BY <1>14 DEF FinishShutdown, TimersAfterClear
    <2>2. FlagsTypeOK'
      BY <1>14 DEF FinishShutdown
    <2>3. IntervalHeld' /\ IntervalGone' /\ NothingLeft' /\ AnimatedByConfig'
      BY <1>14 DEF FinishShutdown, TimersAfterClear
    <2>4. SessionsOfDevices' /\ EarlySessionsListed' /\ ChimeEnabledFromArming'
      BY <1>14 DEF FinishShutdown, TimersAfterClear
    <2> QED
      BY <2>1, <2>2, <2>3, <2>4
  <1>15. ASSUME NEW camera \in Cameras, CloseWebRtcSessions(camera) PROVE PlatformInvariant'
    BY <1>15 DEF CloseWebRtcSessions
  <1>16. ASSUME NEW camera \in Cameras, OpenSession(camera) PROVE PlatformInvariant'
    BY <1>16 DEF OpenSession, Running
  <1>17. ASSUME NEW camera \in Cameras, CloseSession(camera) PROVE PlatformInvariant'
    BY <1>17 DEF CloseSession
  <1>18. CASE ChangeBinding
    BY <1>18 DEF ChangeBinding
  <1>19. CASE Exit
    <2>1. SetsTypeOK' /\ CountersTypeOK'
      BY <1>19, DevicesLength DEF Exit
    <2>2. FlagsTypeOK'
      BY <1>19 DEF Exit
    <2>3. IntervalHeld' /\ IntervalGone' /\ NothingLeft' /\ AnimatedByConfig'
      BY <1>19 DEF Exit
    <2>4. SessionsOfDevices' /\ EarlySessionsListed' /\ ChimeEnabledFromArming'
      BY <1>19 DEF Exit
    <2> QED
      BY <2>1, <2>2, <2>3, <2>4
  <1>20. CASE InitializePlugin
    BY <1>20 DEF InitializePlugin
  <1>21. CASE UNCHANGED vars
    BY <1>21
  <1> QED
    BY <1>1, <1>2, <1>3, <1>4, <1>5, <1>6, <1>7, <1>8, <1>9, <1>10, <1>11, <1>12, <1>13,
       <1>14, <1>15, <1>16, <1>17, <1>18, <1>19, <1>20, <1>21 DEF Next

\* The invariant holds in every behaviour.
THEOREM PlatformInvariantAlways == Spec => []PlatformInvariant
  BY PlatformInit, PlatformNext, PTL DEF Spec

\* The type invariant in all its parts; stage is never "failed", so onStart does
\* not throw.
THEOREM PlatformTypeCorrect == Spec => []PlatformTypeOK
  <1>1. PlatformInvariant => PlatformTypeOK
    BY Zenon DEF PlatformInvariant, PlatformTypeOK, SetsTypeOK, CountersTypeOK, FlagsTypeOK
  <1> QED
    BY <1>1, PlatformInvariantAlways, PTL

\* No interval fires after onShutdown returned: by IntervalHeld it is the one
\* whose handle the platform cleared.
THEOREM TimersNeverOutlivePlatform == Spec => []NoTimerOutlivesPlatform
  <1>1. PlatformInvariant => NoTimerOutlivesPlatform
    BY DEF PlatformInvariant, NoTimerOutlivesPlatform, IntervalHeld, IntervalGone
  <1> QED
    BY <1>1, PlatformInvariantAlways, PTL

\* A plugin configured without the animation leaves the chime enabled, whatever
\* earlier processes did.
THEOREM ChimeAlwaysEnabled == Spec => []ChimeEnabledWithoutAnimation
  <1>1. PlatformInvariant => ChimeEnabledWithoutAnimation
    BY DEF PlatformInvariant, ChimeEnabledWithoutAnimation, ChimeEnabledFromArming
  <1> QED
    BY <1>1, PlatformInvariantAlways, PTL

\* The sessions open at the call of onShutdown are closed when the devices go,
\* for nothing is left to close.
THEOREM SessionsAlwaysClosed == Spec => []SessionsClosedBeforeDevices
  <1>1. PlatformInvariant => SessionsClosedBeforeDevices
    BY DEF PlatformInvariant, SessionsClosedBeforeDevices, EarlySessionsListed
  <1> QED
    BY <1>1, PlatformInvariantAlways, PTL
=============================================================================
