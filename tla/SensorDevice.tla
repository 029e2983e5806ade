---------------------------- MODULE SensorDevice ----------------------------
(***************************************************************************)
(* The sensors: a SensorDevice reports to the guest's HAL, at every tick of *)
(* its timer, the values of the sensors that the HAL enabled; callers of    *)
(* gRPC threads override and read sensors and move the PhysicalModel        *)
(* towards new targets.  The device's own steps are those of one thread     *)
(* (QEMU's lock is held in onReceive() and in the timer); every section     *)
(* under PhysicalModel::mMutex is a step.                                   *)
(*                                                                          *)
(* A value is put into text only if its measurement id is not the one of    *)
(* the text, and ids are only compared: `sameId' says that they are equal.  *)
(* The polynomials of InertialModel are a value that changes with time      *)
(* until the model is stable.  Delays, time stamps, list-sensors and wake   *)
(* are left out, and so are the hinges, whose value no call changes.        *)
(***************************************************************************)
EXTENDS Integers, FiniteSets

CONSTANTS Sensors,       \* numbers of the sensors
          Available,     \* sensors that the AVD has
          Inertial,      \* sensors whose target is reached with time
          Ignored,       \* parameters that are not implemented: hinges, postures
          Readings,      \* values of a sensor
          Callers        \* threads that use the model

ASSUME SensorAssumption ==
    /\ Available \cup Inertial \subseteq Sensors /\ Ignored \cap Sensors = {}
    /\ Readings # {} /\ 0 \notin Readings

None == 0   \* not a reading

VARIABLES plugged,       \* mSocket is there
          armed,         \* mTimer is
          mEnabledMask,
          tickAt,        \* "idle" "settled" "reporting" "crashed"
          toReport,      \* sensors whose turn in this tick is to come
          mIsPhysicalStateChanging,
          physical,      \* values of the models
          moving,        \* InertialModel is not stable
          override,      \* per sensor: mUseOverride and m...Override
          sameId, text,  \* per sensor: Sensor::serialized, which the HAL was told last
          call,          \* per caller: the call in progress
          overtaken      \* history: a tick called the state stable in the middle of setTarget...()

modelVars == <<mIsPhysicalStateChanging, physical, moving, override>>
cacheVars == <<sameId, text>>
sdVars == <<plugged, armed, mEnabledMask, tickAt, toReport, modelVars, cacheVars, call, overtaken>>

NoCall == [kind |-> "none"]

\* The constructor sets pressure and proximity, so the state is changing.
SDInit ==
    /\ plugged = TRUE /\ armed = FALSE /\ mEnabledMask = Available
    /\ tickAt = "idle" /\ toReport = {}
    /\ mIsPhysicalStateChanging = TRUE /\ moving = FALSE
    /\ physical = [s \in Sensors |-> CHOOSE r \in Readings : TRUE] /\ override = [s \in Sensors |-> None]
    /\ sameId = [s \in Sensors |-> TRUE]
    /\ text = [s \in Sensors |-> None]
    /\ call = [c \in Callers |-> NoCall] /\ overtaken = FALSE

Reading(s) == IF override[s] # None THEN override[s] ELSE physical[s]

\* The id getSensorData() returns for s is the one of its text.
UpToDate(s) == sameId[s] /\ (override[s] # None \/ ~mIsPhysicalStateChanging)

\* The polynomials of InertialModel have any value.
InertialMoves ==
    \E v \in [Inertial -> Readings] :
        physical' = [s \in Sensors |-> IF s \in Inertial THEN v[s] ELSE physical[s]]

TargetCalls == {c \in Callers : call[c].kind \in {"target", "stored"}}

-----------------------------------------------------------------------------
(* Callers.                                                                  *)

PhysicalStateChanging(c, kind, s, v) ==
    /\ call[c] = NoCall
    /\ call' = [call EXCEPT ![c] = [kind |-> kind, sensor |-> s, value |-> v]]
    /\ mIsPhysicalStateChanging' = TRUE
    /\ UNCHANGED <<plugged, armed, mEnabledMask, tickAt, toReport, physical, moving, override, cacheVars, overtaken>>

\* overrideSensor() of a sensor, not of a hinge.
OverrideSensor(c, s, v) == s \in Available /\ PhysicalStateChanging(c, "override", s, v)

\* Mutant: an override keeps the measurement id.
SetOverrideSameId(c) ==
    /\ call[c].kind = "override"
    /\ override' = [override EXCEPT ![call[c].sensor] = call[c].value]
    /\ call' = [call EXCEPT ![c] = NoCall]
    /\ UNCHANGED <<plugged, armed, mEnabledMask, tickAt, toReport, mIsPhysicalStateChanging, physical, moving, cacheVars, overtaken>>

\* The second half of setOverride().
SetOverride(c) ==
    /\ call[c].kind = "override"
    /\ sameId' = [sameId EXCEPT ![call[c].sensor] = FALSE]
    /\ override' = [override EXCEPT ![call[c].sensor] = call[c].value]
    /\ call' = [call EXCEPT ![c] = NoCall]
    /\ UNCHANGED <<plugged, armed, mEnabledMask, tickAt, toReport, mIsPhysicalStateChanging, physical, moving, text, overtaken>>

\* setTarget...(), and overrideSensor() of a hinge.
SetTarget(c, s, v) == PhysicalStateChanging(c, "target", s, v)

TargetIsStored(c) ==
    /\ call[c].kind = "target"
    /\ call' = [call EXCEPT ![c] = [kind |-> "stored"]]
    /\ \/ call[c].sensor \in Inertial /\ moving' = TRUE /\ InertialMoves
       \/ call[c].sensor \in Ignored /\ UNCHANGED <<moving, physical>>
       \/ /\ call[c].sensor \in Sensors \ Inertial
          /\ physical' = [physical EXCEPT ![call[c].sensor] = call[c].value]
          /\ UNCHANGED moving
    /\ UNCHANGED <<plugged, armed, mEnabledMask, tickAt, toReport, mIsPhysicalStateChanging, override, cacheVars, overtaken>>

\* targetStateChanged(): the overrides end.
TargetStateChanged(c) ==
    /\ call[c].kind = "stored"
    /\ call' = [call EXCEPT ![c] = NoCall]
    /\ override' = [s \in Sensors |-> None]
    /\ UNCHANGED <<plugged, armed, mEnabledMask, tickAt, toReport, mIsPhysicalStateChanging, physical, moving, cacheVars, overtaken>>

\* getSensorData(), which gives a changing value a new measurement id.
GetSensorData(s) ==
    /\ s \in Available
    /\ sameId' = [sameId EXCEPT ![s] = UpToDate(s)]
    /\ UNCHANGED <<plugged, armed, mEnabledMask, tickAt, toReport, modelVars, text, call, overtaken>>

-----------------------------------------------------------------------------
(* The device.                                                               *)

\* tick() up to the first half of setCurrentTime(): what moves has moved on, and
\* may have come to rest.
BeginTick(mask) ==
    /\ tickAt = "idle"
    /\ toReport' = mask
    /\ \/ ~moving /\ UNCHANGED <<moving, physical>>
       \/ moving /\ moving' \in BOOLEAN /\ InertialMoves
    /\ tickAt' = IF mIsPhysicalStateChanging /\ ~moving' THEN "settled" ELSE "reporting"
    /\ UNCHANGED <<plugged, mIsPhysicalStateChanging, override, cacheVars, call, overtaken>>

\* physicalStateStabilized().
PhysicalStateStabilized ==
    /\ tickAt = "settled"
    /\ tickAt' = "reporting"
    /\ sameId' = [s \in Sensors |-> FALSE]
    /\ mIsPhysicalStateChanging' = FALSE
    /\ overtaken' = (TargetCalls # {} \/ moving)
    /\ UNCHANGED <<plugged, armed, mEnabledMask, toReport, physical, moving, override, text, call>>

\* serializeSensorValue() and send() of the next sensor that is enabled.
Report(s) ==
    LET now == IF UpToDate(s) THEN text[s] ELSE Reading(s)
    IN  /\ tickAt = "reporting" /\ s \in toReport /\ \A r \in toReport : s <= r
        /\ toReport' = toReport \ {s}
        /\ text' = [text EXCEPT ![s] = now]
        /\ sameId' = [sameId EXCEPT ![s] = TRUE]
        /\ UNCHANGED <<plugged, armed, mEnabledMask, tickAt, modelVars, call, overtaken>>

\* Mutant: the timer is not started again.
EndTickOnce ==
    /\ tickAt = "reporting" /\ toReport = {}
    /\ tickAt' = "idle"
    /\ UNCHANGED <<plugged, armed, mEnabledMask, toReport, modelVars, cacheVars, call, overtaken>>

\* The end of tick(): the timer is started unless no sensor is enabled.
EndTick ==
    /\ tickAt = "reporting" /\ toReport = {}
    /\ tickAt' = "idle"
    /\ armed' = (armed \/ mEnabledMask # {})
    /\ UNCHANGED <<plugged, mEnabledMask, toReport, modelVars, cacheVars, call, overtaken>>

\* The timer, which goes on without the socket and then follows a null pointer.
TimerFires ==
    /\ armed
    /\ armed' = FALSE
    /\ UNCHANGED mEnabledMask
    /\ \/ plugged /\ BeginTick(mEnabledMask)
       \/ /\ ~plugged /\ tickAt = "idle"
          /\ tickAt' = "crashed"
          /\ UNCHANGED <<plugged, toReport, modelVars, cacheVars, call, overtaken>>

\* "set:<sensor>:<flag>".
SetSensor(s, enable) ==
    /\ plugged /\ s \in Available
    /\ mEnabledMask' = IF enable THEN mEnabledMask \cup {s} ELSE mEnabledMask \ {s}
    /\ BeginTick(mEnabledMask')
    /\ UNCHANGED armed

\* "set-delay:<delay>" while a sensor is enabled.
SetDelay ==
    /\ plugged /\ mEnabledMask # {}
    /\ BeginTick(mEnabledMask)
    /\ UNCHANGED <<armed, mEnabledMask>>

\* onUnplug(): the timer is left as it is.
Unplug ==
    /\ plugged /\ tickAt = "idle"
    /\ plugged' = FALSE
    /\ UNCHANGED <<armed, mEnabledMask, tickAt, toReport, modelVars, cacheVars, call, overtaken>>

TickSteps == PhysicalStateStabilized \/ EndTick \/ \E s \in Sensors : Report(s)
CallSteps(c) == SetOverride(c) \/ TargetIsStored(c) \/ TargetStateChanged(c)

SDNext ==
    \/ TimerFires \/ TickSteps \/ SetDelay \/ Unplug
    \/ \E s \in Sensors : GetSensorData(s) \/ \E enable \in BOOLEAN : SetSensor(s, enable)
    \/ \E c \in Callers : CallSteps(c)
          \/ \E s \in Sensors \cup Ignored, v \in Readings :
                OverrideSensor(c, s, v) \/ SetTarget(c, s, v)

SDSpec == SDInit /\ [][SDNext]_sdVars

-----------------------------------------------------------------------------
\* Every variable has its type, and physicalStateStabilized() finds the state
\* changing, as it asserts (PhysicalModel.cpp:564).
SDTypeOK ==
    /\ {plugged, armed, mIsPhysicalStateChanging, moving, overtaken} \subseteq BOOLEAN
    /\ mEnabledMask \subseteq Available /\ toReport \subseteq mEnabledMask
    /\ tickAt \in {"idle", "settled", "reporting", "crashed"}
    /\ tickAt = "settled" => mIsPhysicalStateChanging
    /\ physical \in [Sensors -> Readings] /\ sameId \in [Sensors -> BOOLEAN]
    /\ {text, override} \subseteq [Sensors -> Readings \cup {None}]
    /\ call \in [Callers -> [kind : {"override", "target"}, sensor : Sensors \cup Ignored, value : Readings]
                                \cup [kind : {"none", "stored"}]]

\* A text that the next tick will send as it is, because its measurement id is
\* the sensor's, has the sensor's value: no override, no end of an override and
\* no change of the physical state gets past the comparison of the ids, wherever
\* the steps of a tick fall between those of setOverride() and setTarget...().
\* Not promised after a tick that called the state stable before a target was
\* stored and its call had ended the overrides, or before what it set in motion
\* was at rest: the code lets that happen, although "all public methods are
\* thread-safe" (PhysicalModel.h:74), and the guest keeps the old value until the
\* state stabilizes again.
TextsAreFresh ==
    ~overtaken => \A s \in Sensors : UpToDate(s) => text[s] = Reading(s)

\* "Once at least one sensor is enabled, this code should periodically send
\* information about the corresponding enabled sensors" (SensorDevice.cpp:267):
\* while ticks go on the HAL is told the current value of a sensor that is
\* enabled, sooner or later, unless a tick overtakes setTarget...() (see above).
ReadingsAreReported ==
    \A s \in Sensors :
        (plugged /\ s \in mEnabledMask /\ (armed \/ tickAt # "idle"))
            ~> (text[s] = Reading(s) \/ s \notin mEnabledMask \/ ~plugged \/ overtaken)
=============================================================================
