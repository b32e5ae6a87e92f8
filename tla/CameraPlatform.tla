--------------------------- MODULE CameraPlatform ---------------------------
(***************************************************************************)
(* The lifecycle of the camera plugin (module.ts): start, configuration,   *)
(* animation, the ffmpeg button and shutdown.  The code between two awaits *)
(* is one action, so the timer, the user and the controllers act at every  *)
(* await.                                                                  *)
(*                                                                         *)
(* External, as module.ts uses it: the host calls onStart, onConfigure and *)
(* onShutdown one after the other and may start the plugin again in a new  *)
(* process; registerDevice creates the server node of a device of mode     *)
(* 'server'; super.onShutdown() forgets the devices; controllers open      *)
(* WebRTC sessions and bind the Chime client of the Server Doorbell to the *)
(* Server Chime.  The select list and the versions of a device only affect *)
(* the frontend and are left out.                                          *)
(***************************************************************************)
EXTENDS Integers, Sequences, FiniteSets

CONSTANTS
    Validated,     \* the sets of devices a pair of white and black list lets pass
    Cameras,       \* the devices whose WebRTC sessions are followed
    MaxAnimations  \* bound: animation commands in flight

ASSUME CameraPlatformAssumption ==
    /\ \A names \in Validated : names \subseteq STRING
    /\ MaxAnimations \in Nat \ {0}

VARIABLES
    stage,          \* how far the host has called the plugin
    config,         \* of this process
    added,          \* how many devices addDevice was called for
    devices,        \* the devices of the platform, by name
    ffmpeg,         \* ffmpeg is installed
    installing,     \* the callers of installFfmpeg that await it
    timers,         \* the number of intervals that fire
    animationInterval,  \* the platform holds the handle of one of them
    animationPhase,
    animations,     \* the phases whose command to the chime is in flight
    bound,          \* the Server Doorbell is bound to a reachable Server Chime
    silenced,       \* the last write of the chime's enabled was the animation's false
    sessions,       \* the cameras with an open WebRTC session
    closing,        \* the devices onShutdown has still to close the sessions of
    early           \* auxiliary: the sessions open since before onShutdown

startVars == <<config, added, devices>>
ffmpegVars == <<ffmpeg, installing>>
timerVars == <<timers, animationInterval>>
animationVars == <<animationPhase, animations>>
chimeVars == <<bound, silenced>>
sessionVars == <<sessions, closing, early>>
vars == <<stage, startVars, ffmpegVars, timerVars, animationVars, chimeVars, sessionVars>>

Devices == <<"Chime", "Doorbell", "AudioDoorbell", "SnapshotCamera", "Camera",
             "PTZCamera", "FloodlightCamera", "Intercom", "VideoDoorbell",
             "ServerChime", "ServerDoorbell", "ServerIntercom1",
             "ServerIntercom2", "ServerCamera">>

Configs == [validated : Validated, container : BOOLEAN, autoInstallFfmpeg : BOOLEAN,
            animated : BOOLEAN]

(***************************************************************************)
(* onStart                                                                 *)
(***************************************************************************)

MustInstallFfmpeg == config.container /\ config.autoInstallFfmpeg /\ ~ffmpeg

OnStart ==
    /\ stage = "constructed"
    /\ IF MustInstallFfmpeg
       THEN stage' = "installing" /\ installing' = installing \cup {"onStart"}
       ELSE stage' = "adding" /\ UNCHANGED installing
    /\ UNCHANGED <<startVars, ffmpeg, timerVars, animationVars, chimeVars, sessionVars>>

\* Mutant: a failed installation ends onStart.
FfmpegInstalledOnStartReturnsOnFailure(success) ==
    /\ stage = "installing"
    /\ stage' = IF success THEN "adding" ELSE "failed"
    /\ ffmpeg' = (ffmpeg \/ success)
    /\ installing' = installing \ {"onStart"}
    /\ UNCHANGED <<startVars, timerVars, animationVars, chimeVars, sessionVars>>

\* installFfmpeg answers onStart, which goes on whatever the answer.
FfmpegInstalledOnStart(success) ==
    /\ stage = "installing"
    /\ stage' = "adding"
    /\ ffmpeg' = (ffmpeg \/ success)
    /\ installing' = installing \ {"onStart"}
    /\ UNCHANGED <<startVars, timerVars, animationVars, chimeVars, sessionVars>>

AddDevice ==
    /\ stage = "adding" /\ added < Len(Devices)
    /\ added' = added + 1
    /\ devices' = devices \cup ({Devices[added + 1]} \cap config.validated)
    /\ UNCHANGED <<stage, config, ffmpegVars, timerVars, animationVars, chimeVars, sessionVars>>

HasServerNode(name) == name \in devices

\* Mutant: the call does not depend on the lists having let the device pass.
CallsAddRootNodeCameraAlways == TRUE

CallsAddRootNodeCamera == HasServerNode("ServerCamera")

\* addRootNodeCamera throws for a device without a server node.
FinishStart ==
    /\ stage = "adding" /\ added = Len(Devices)
    /\ stage' = IF CallsAddRootNodeCamera /\ ~HasServerNode("ServerCamera")
                THEN "failed" ELSE "started"
    /\ UNCHANGED <<startVars, ffmpegVars, timerVars, animationVars, chimeVars, sessionVars>>

(***************************************************************************)
(* onConfigure: enables the chimes, then replaces the interval.            *)
(***************************************************************************)

OnConfigure ==
    /\ stage \in {"started", "configured"}
    /\ stage' = "enabling"
    /\ UNCHANGED <<startVars, ffmpegVars, timerVars, animationVars, chimeVars, sessionVars>>

\* Mutant: onConfigure leaves the chime as it is.
SilencedAsBefore == silenced

\* setCluster writes enabled: true to the chime, if the platform has it.
SilencedAfterConfigure == silenced /\ "ServerChime" \notin devices

EnableServerChime ==
    /\ stage = "enabling"
    /\ stage' = "arming"
    /\ silenced' = SilencedAfterConfigure
    /\ UNCHANGED <<startVars, ffmpegVars, timerVars, animationVars, bound, sessionVars>>

TimersAfterClear == IF animationInterval THEN timers - 1 ELSE timers

\* Mutant: the interval of an earlier onConfigure keeps firing.
TimersKeptAndArmed == timers + 1

TimersAfterArming == TimersAfterClear + 1

ArmAnimation ==
    /\ stage = "arming"
    /\ stage' = "configured"
    /\ IF config.animated
       THEN timers' = TimersAfterArming /\ animationInterval' = TRUE
       ELSE UNCHANGED timerVars
    /\ UNCHANGED <<startVars, ffmpegVars, animationVars, chimeVars, sessionVars>>

(***************************************************************************)
(* The animation.  A command travels to the Server Chime while later ticks *)
(* start the next ones; it takes effect if the binding still leads there.  *)
(***************************************************************************)

Disables(phase) == phase \in {1, 6}
Enables(phase) == phase \in {2, 7}

\* Mutant: the phase stays at its last value.
NextPhaseSaturates == IF animationPhase + 1 > 10 THEN 10 ELSE animationPhase + 1

NextPhase == IF animationPhase + 1 > 10 THEN 0 ELSE animationPhase + 1

AnimationHandler ==
    /\ timers > 0 /\ Cardinality(animations) < MaxAnimations
    /\ animationPhase' = NextPhase
    /\ animations' = IF {"ServerDoorbell", "ServerChime"} \subseteq devices
                        /\ animationPhase' > 0 /\ bound
                     THEN animations \cup {animationPhase'}
                     ELSE animations
    /\ UNCHANGED <<stage, startVars, ffmpegVars, timerVars, chimeVars, sessionVars>>

CommandArrives(phase) ==
    /\ phase \in animations
    /\ animations' = animations \ {phase}
    /\ silenced' = IF ~bound THEN silenced
                   ELSE IF Disables(phase) THEN TRUE
                   ELSE IF Enables(phase) THEN FALSE
                   ELSE silenced
    /\ UNCHANGED <<stage, startVars, ffmpegVars, timerVars, animationPhase, bound, sessionVars>>

(***************************************************************************)
(* onAction: the ffmpeg button.  The test for ffmpeg and the end of the    *)
(* installation are separate steps, so two callers may install at once.    *)
(***************************************************************************)

Running == stage \notin {"exited", "failed"}

OnAction ==
    /\ Running
    /\ ~ffmpeg
    /\ "onAction" \notin installing  \* bound: one press awaited
    /\ installing' = installing \cup {"onAction"}
    /\ UNCHANGED <<stage, startVars, ffmpeg, timerVars, animationVars, chimeVars, sessionVars>>

FfmpegInstalledOnAction(success) ==
    /\ "onAction" \in installing
    /\ ffmpeg' = (ffmpeg \/ success)
    /\ installing' = installing \ {"onAction"}
    /\ UNCHANGED <<stage, startVars, timerVars, animationVars, chimeVars, sessionVars>>

(***************************************************************************)
(* onShutdown.  getDevices() is read once, before super.onShutdown().      *)
(***************************************************************************)

\* Mutant: the sessions are closed after super.onShutdown() forgot the devices.
NothingToClose == {}

ToClose == devices \cap Cameras

OnShutdown ==
    /\ stage \in {"started", "configured"}
    /\ stage' = "closing"
    /\ closing' = ToClose
    /\ early' = sessions
    /\ UNCHANGED <<startVars, ffmpegVars, timerVars, animationVars, chimeVars, sessions>>

CloseWebRtcSessions(camera) ==
    /\ stage = "closing" /\ camera \in closing
    /\ closing' = closing \ {camera}
    /\ sessions' = sessions \ {camera}
    /\ early' = early \ {camera}
    /\ UNCHANGED <<stage, startVars, ffmpegVars, timerVars, animationVars, chimeVars>>

SuperOnShutdown ==
    /\ stage = "closing" /\ closing = {}
    /\ stage' = "clearing"
    /\ devices' = {}
    /\ UNCHANGED <<config, added, ffmpegVars, timerVars, animationVars, chimeVars, sessionVars>>

\* unregisterAllDevices may follow; it changes nothing of the platform.
FinishShutdown ==
    /\ stage = "clearing"
    /\ stage' = "down"
    /\ timers' = TimersAfterClear
    /\ animationInterval' = FALSE
    /\ UNCHANGED <<startVars, ffmpegVars, animationVars, chimeVars, sessionVars>>

(***************************************************************************)
(* The environment                                                         *)
(***************************************************************************)

OpenSession(camera) ==
    /\ Running /\ camera \in devices \ sessions
    /\ sessions' = sessions \cup {camera}
    /\ UNCHANGED <<stage, startVars, ffmpegVars, timerVars, animationVars, chimeVars, closing, early>>

CloseSession(camera) ==
    /\ camera \in sessions
    /\ sessions' = sessions \ {camera}
    /\ early' = early \ {camera}
    /\ UNCHANGED <<stage, startVars, ffmpegVars, timerVars, animationVars, chimeVars, closing>>

ChangeBinding ==
    /\ bound' = ~bound
    /\ UNCHANGED <<stage, startVars, ffmpegVars, timerVars, animationVars, silenced, sessionVars>>

\* Orderly after onShutdown, at any other time a crash.
Exit ==
    /\ stage # "exited"
    /\ stage' = "exited"
    /\ installing' = {}
    /\ devices' = {} /\ added' = 0
    /\ timers' = 0 /\ animationInterval' = FALSE
    /\ animationPhase' = 0 /\ animations' = {}
    /\ sessions' = {} /\ closing' = {} /\ early' = {}
    /\ UNCHANGED <<config, ffmpeg, chimeVars>>

\* The constructor in a new process, with the configuration stored by then.
InitializePlugin ==
    /\ stage = "exited"
    /\ stage' = "constructed"
    /\ config' \in Configs
    /\ UNCHANGED <<added, devices, ffmpegVars, timerVars, animationVars, chimeVars, sessionVars>>

Init ==
    /\ stage = "constructed"
    /\ config \in Configs
    /\ added = 0 /\ devices = {}
    /\ ffmpeg \in BOOLEAN /\ installing = {}
    /\ timers = 0 /\ animationInterval = FALSE
    /\ animationPhase = 0 /\ animations = {}
    /\ bound = FALSE /\ silenced = FALSE
    /\ sessions = {} /\ closing = {} /\ early = {}

Next ==
    \/ OnStart \/ AddDevice \/ FinishStart
    \/ OnConfigure \/ EnableServerChime \/ ArmAnimation
    \/ AnimationHandler
    \/ \E phase \in 1..10 : CommandArrives(phase)
    \/ OnAction
    \/ \E success \in BOOLEAN :
           FfmpegInstalledOnStart(success) \/ FfmpegInstalledOnAction(success)
    \/ OnShutdown \/ SuperOnShutdown \/ FinishShutdown
    \/ \E camera \in Cameras :
           CloseWebRtcSessions(camera) \/ OpenSession(camera) \/ CloseSession(camera)
    \/ ChangeBinding \/ Exit \/ InitializePlugin

Spec == Init /\ [][Next]_vars

\* An awaited call answers, the host calls onStart on the plugin it made, an
\* interval fires and a command to the chime ends.
Fairness ==
    /\ WF_vars(OnStart) /\ WF_vars(AddDevice) /\ WF_vars(FinishStart)
    /\ WF_vars(\E success \in BOOLEAN : FfmpegInstalledOnStart(success))
    /\ WF_vars(AnimationHandler)
    /\ \A phase \in 1..10 : WF_vars(CommandArrives(phase))

FairSpec == Spec /\ Fairness

(***************************************************************************)
(* Properties                                                              *)
(***************************************************************************)

Stages == {"constructed", "installing", "adding", "started", "enabling", "arming",
           "configured", "closing", "clearing", "down", "exited"}

\* onStart never throws, and the variables have their types.
PlatformTypeOK ==
    /\ stage \in Stages
    /\ config \in Configs
    /\ added \in 0..Len(Devices)
    /\ devices \subseteq config.validated
    /\ ffmpeg \in BOOLEAN /\ installing \subseteq {"onStart", "onAction"}
    /\ timers \in Nat /\ animationInterval \in BOOLEAN
    /\ animationPhase \in 0..10 /\ animations \subseteq 1..10
    /\ bound \in BOOLEAN /\ silenced \in BOOLEAN
    /\ sessions \subseteq Cameras /\ closing \subseteq Cameras /\ early \subseteq sessions

\* However often the plugin was configured, no interval fires once onShutdown
\* has returned.
NoTimerOutlivesPlatform == stage = "down" => timers = 0

\* A plugin configured without the animation leaves the chime enabled: not even
\* a process that stopped in mid animation silences it for good.
ChimeEnabledWithoutAnimation ==
    stage = "configured" /\ ~config.animated /\ "ServerChime" \in devices => ~silenced

\* When super.onShutdown() forgets the devices, every WebRTC session that was
\* open at the call of onShutdown is closed.
SessionsClosedBeforeDevices == stage \in {"clearing", "down"} => early = {}

\* onStart ends with every device tried, whatever the lists keep out and whether
\* or not ffmpeg could be installed, unless the process ends.
StartCompletes == stage = "constructed" ~> stage \in {"started", "exited"}

\* While the plugin stays configured and the binding stays in place, the chime is
\* enabled again and again, although commands overtake each other.
AnimationReenablesChime ==
    <>[](stage = "configured" /\ bound /\ "ServerChime" \in devices) => []<>~silenced
=============================================================================
