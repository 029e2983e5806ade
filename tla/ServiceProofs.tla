--------------------------- MODULE ServiceProofs ----------------------------
(*****************************************************************************)
(* Safety of the services behind the emulator's gRPC calls and of the devices *)
(* that the guest finds, for any number of users, streams, callers and       *)
(* devices: TextsAreFresh of the sensors, StreamsAreUpToDate of the clipboard *)
(* and NoMissedDevice of the connector registry.  And the signed numbers of  *)
(* their snapshots, at every width.                                          *)
(*****************************************************************************)
EXTENDS SensorDevice, ClipboardService, DeviceRegistry, Archive, TLAPS

-----------------------------------------------------------------------------
(* The sensors.                                                              *)

\* Until a tick overtakes setTarget...(), the state is changing while a target is
\* being set and while anything moves.
MovingIsChanging ==
    ~overtaken /\ (TargetCalls # {} \/ moving) => mIsPhysicalStateChanging

SDInv == SDTypeOK /\ MovingIsChanging /\ TextsAreFresh

\* A call that begins makes the state a changing one and touches no value.
LEMMA CallBeginsKeeps ==
  ASSUME SDTypeOK, NEW c \in Callers, NEW kind \in {"override", "target"},
         NEW s \in Sensors \cup Ignored, NEW v \in Readings,
         PhysicalStateChanging(c, kind, s, v)
  PROVE  SDTypeOK' /\ MovingIsChanging' /\ (TextsAreFresh => TextsAreFresh')
<1> USE DEF PhysicalStateChanging
<1>1. call' \in [Callers -> [kind : {"override", "target"}, sensor : Sensors \cup Ignored, value : Readings]
                              \cup [kind : {"none", "stored"}]]
  BY DEF SDTypeOK
<1>2. SDTypeOK'
  BY <1>1 DEF SDTypeOK, cacheVars
<1>3. TextsAreFresh => TextsAreFresh'
  BY DEF TextsAreFresh, UpToDate, Reading, cacheVars
<1>4. MovingIsChanging'
  BY DEF MovingIsChanging
<1> QED
  BY <1>2, <1>3, <1>4

\* The values of the inertial sensors are readings, whatever they are.
LEMMA InertialType ==
  ASSUME SDTypeOK, InertialMoves
  PROVE  physical' \in [Sensors -> Readings]
  BY DEF InertialMoves, SDTypeOK

\* Texts stay fresh when no text, no id and no override changes and the physical
\* values do only while the state is changing.
LEMMA FreshWhileChanging ==
  ASSUME TextsAreFresh, UNCHANGED <<sameId, text, override, mIsPhysicalStateChanging, overtaken>>,
         physical' = physical \/ overtaken \/ mIsPhysicalStateChanging
  PROVE  TextsAreFresh'
  BY DEF TextsAreFresh, UpToDate, Reading

\* The end of a call: an override gives its sensor a new id, a target is stored
\* and ends the overrides while the state is changing.
LEMMA CallStepsKeep ==
  ASSUME SDInv, NEW c \in Callers, CallSteps(c)
  PROVE  SDInv'
<1> USE DEF SDInv
<1>0. call[c] \in [kind : {"override", "target"}, sensor : Sensors \cup Ignored, value : Readings]
                    \cup [kind : {"none", "stored"}]
  BY DEF SDTypeOK
<1>1. CASE SetOverride(c)
  <2> USE <1>1 DEF SetOverride
  <2>1. call[c].sensor \in Sensors \cup Ignored /\ call[c].value \in Readings
    BY <1>0
  <2>2. SDTypeOK'
    BY <2>1 DEF SDTypeOK, NoCall
  <2>3. TargetCalls' \subseteq TargetCalls
    BY DEF TargetCalls, SDTypeOK, NoCall
  <2>4. TextsAreFresh'
    BY DEF TextsAreFresh, UpToDate, Reading, SDTypeOK
  <2> QED
    BY <2>2, <2>3, <2>4 DEF MovingIsChanging
<1>2. CASE TargetIsStored(c)
  <2> USE <1>2 DEF TargetIsStored
  <2>0. c \in TargetCalls
    BY DEF TargetCalls
  <2>1. ~overtaken => mIsPhysicalStateChanging
    BY <2>0 DEF MovingIsChanging
  <2>2. physical' \in [Sensors -> Readings] /\ moving' \in BOOLEAN
    BY <1>0, InertialType DEF SDTypeOK
  <2>3. SDTypeOK'
    BY <2>2 DEF SDTypeOK, cacheVars
  <2>4. TextsAreFresh'
    BY <2>1, FreshWhileChanging DEF cacheVars
  <2> QED
    BY <2>1, <2>3, <2>4 DEF MovingIsChanging
<1>3. CASE TargetStateChanged(c)
  <2> USE <1>3 DEF TargetStateChanged
  <2>0. c \in TargetCalls
    BY DEF TargetCalls
  <2>1. ~overtaken => mIsPhysicalStateChanging
    BY <2>0 DEF MovingIsChanging
  <2>2. SDTypeOK'
    BY DEF SDTypeOK, NoCall, cacheVars
  <2>4. TextsAreFresh'
    BY <2>1 DEF TextsAreFresh, UpToDate, cacheVars
  <2> QED
    BY <2>1, <2>2, <2>4 DEF MovingIsChanging
<1> QED
  BY <1>1, <1>2, <1>3 DEF CallSteps

\* The first half of a tick moves what moves, which is changing then.
LEMMA BeginTickKeeps ==
  ASSUME SDInv, NEW mask, BeginTick(mask), mask = mEnabledMask',
         mEnabledMask' \subseteq Available, armed' \in BOOLEAN
  PROVE  SDInv'
<1> USE DEF SDInv, BeginTick
<1>1. /\ physical' \in [Sensors -> Readings] /\ moving' \in BOOLEAN
      /\ moving' => moving
      /\ physical' = physical \/ moving
  BY InertialType DEF SDTypeOK
<1>2. SDTypeOK'
  BY <1>1 DEF SDTypeOK, cacheVars
<1>3. MovingIsChanging'
  BY <1>1 DEF MovingIsChanging, TargetCalls
<1>5. TextsAreFresh'
  BY <1>1, FreshWhileChanging DEF MovingIsChanging, cacheVars
<1> QED
  BY <1>2, <1>3, <1>5

\* The rest of a tick: a text is written when its id is not the sensor's.
LEMMA TickStepsKeep ==
  ASSUME SDInv, TickSteps
  PROVE  SDInv'
<1> USE DEF SDInv
<1>1. CASE PhysicalStateStabilized
  <2> USE <1>1 DEF PhysicalStateStabilized
  <2>1. SDTypeOK'
    BY DEF SDTypeOK
  <2>2. TextsAreFresh'
    BY DEF TextsAreFresh, UpToDate
  <2>3. MovingIsChanging'
    BY DEF MovingIsChanging, TargetCalls
  <2> QED
    BY <2>1, <2>2, <2>3
<1>2. CASE EndTick
  <2> USE <1>2 DEF EndTick, modelVars, cacheVars
  <2>1. SDTypeOK'
    BY DEF SDTypeOK
  <2>2. TextsAreFresh'
    BY FreshWhileChanging
  <2>3. MovingIsChanging'
    BY DEF MovingIsChanging, TargetCalls
  <2> QED
    BY <2>1, <2>2, <2>3
<1>3. ASSUME NEW s \in Sensors, Report(s)
      PROVE  SDInv'
  <2> USE <1>3 DEF Report, modelVars
  <2>1. Reading(s) \in Readings /\ text[s] \in Readings \cup {None}
    BY SensorAssumption DEF Reading, SDTypeOK
  <2>2. SDTypeOK'
    BY <2>1 DEF SDTypeOK
  <2>3. TextsAreFresh'
    <3> SUFFICES ASSUME NEW r \in Sensors, UpToDate(r)', ~overtaken PROVE text'[r] = Reading(r)'
      BY DEF TextsAreFresh
    <3>1. Reading(r)' = Reading(r)
      BY DEF Reading
    <3>2. CASE r = s
      BY <3>1, <3>2 DEF TextsAreFresh, SDTypeOK
    <3>3. CASE r # s
      BY <3>1, <3>3 DEF TextsAreFresh, UpToDate, SDTypeOK
    <3> QED
      BY <3>2, <3>3
  <2>4. MovingIsChanging'
    BY DEF MovingIsChanging, TargetCalls
  <2> QED
    BY <2>2, <2>3, <2>4
<1> QED
  BY <1>1, <1>2, <1>3 DEF TickSteps

\* The invariant is one, wherever the ticks fall.
LEMMA SDInvariant == SDSpec => []SDInv
<1>1. SDInit => SDInv
  <2> SUFFICES ASSUME SDInit PROVE SDInv
    OBVIOUS
  <2>1. (CHOOSE r \in Readings : TRUE) \in Readings
    BY SensorAssumption
  <2>2. SDTypeOK
    BY <2>1, SensorAssumption DEF SDInit, SDTypeOK, NoCall
  <2>3. TargetCalls = {}
    BY DEF SDInit, TargetCalls, NoCall
  <2> QED
    BY <2>2, <2>3 DEF SDInit, SDInv, MovingIsChanging, TextsAreFresh, UpToDate
<1>2. SDInv /\ [SDNext]_sdVars => SDInv'
  <2> SUFFICES ASSUME SDInv, [SDNext]_sdVars PROVE SDInv'
    OBVIOUS
  <2>1. ASSUME TimerFires PROVE SDInv'
    <3>1. CASE plugged /\ BeginTick(mEnabledMask)
      BY <2>1, <3>1, BeginTickKeeps DEF TimerFires, SDInv, SDTypeOK
    <3>2. CASE /\ ~plugged /\ tickAt = "idle"
               /\ tickAt' = "crashed"
               /\ UNCHANGED <<plugged, toReport, modelVars, cacheVars, call, overtaken>>
      <4>1. SDTypeOK'
        BY <2>1, <3>2 DEF TimerFires, SDInv, SDTypeOK, modelVars, cacheVars
      <4>2. TextsAreFresh'
        BY <3>2, FreshWhileChanging DEF SDInv, modelVars, cacheVars
      <4>3. MovingIsChanging'
        BY <3>2 DEF SDInv, MovingIsChanging, TargetCalls, modelVars
      <4> QED
        BY <4>1, <4>2, <4>3 DEF SDInv
    <3> QED
      BY <2>1, <3>1, <3>2 DEF TimerFires
  <2>2. CASE TickSteps
    BY <2>2, TickStepsKeep
  <2>3. CASE SetDelay
    BY <2>3, BeginTickKeeps DEF SetDelay, SDInv, SDTypeOK
  <2>4. CASE Unplug
    <3> USE <2>4 DEF Unplug, SDInv, modelVars, cacheVars
    <3>1. SDTypeOK'
      BY DEF SDTypeOK
    <3>2. TextsAreFresh'
      BY FreshWhileChanging
    <3>3. MovingIsChanging'
      BY DEF MovingIsChanging, TargetCalls
    <3> QED
      BY <3>1, <3>2, <3>3
  <2>5. ASSUME NEW s \in Sensors, GetSensorData(s) PROVE SDInv'
    <3> USE <2>5 DEF GetSensorData, SDInv, modelVars
    <3>1. SDTypeOK'
      BY DEF SDTypeOK, UpToDate
    <3>2. TextsAreFresh'
      BY DEF TextsAreFresh, UpToDate, Reading, SDTypeOK
    <3>3. MovingIsChanging'
      BY DEF MovingIsChanging, TargetCalls
    <3> QED
      BY <3>1, <3>2, <3>3
  <2>6. ASSUME NEW s \in Sensors, NEW enable \in BOOLEAN, SetSensor(s, enable) PROVE SDInv'
    <3>1. mEnabledMask' \subseteq Available /\ armed' \in BOOLEAN
      BY <2>6 DEF SetSensor, SDInv, SDTypeOK
    <3> QED
      BY <2>6, <3>1, BeginTickKeeps DEF SetSensor
  <2>7. ASSUME NEW c \in Callers, CallSteps(c) PROVE SDInv'
    BY <2>7, CallStepsKeep
  <2>8. ASSUME NEW c \in Callers, NEW s \in Sensors \cup Ignored, NEW v \in Readings,
               OverrideSensor(c, s, v)
        PROVE  SDInv'
    <3>1. PhysicalStateChanging(c, "override", s, v)
      BY <2>8 DEF OverrideSensor
    <3> QED
      BY <3>1, CallBeginsKeeps DEF SDInv
  <2>9. ASSUME NEW c \in Callers, NEW s \in Sensors \cup Ignored, NEW v \in Readings,
               SetTarget(c, s, v)
        PROVE  SDInv'
    BY <2>9, CallBeginsKeeps DEF SDInv, SetTarget
  <2>10. CASE UNCHANGED sdVars
    BY <2>10 DEF sdVars, modelVars, cacheVars, SDInv, SDTypeOK, TargetCalls,
                 MovingIsChanging, TextsAreFresh, UpToDate, Reading
  <2> QED
    BY <2>1, <2>2, <2>3, <2>4, <2>5, <2>6, <2>7, <2>8, <2>9, <2>10 DEF SDNext
<1> QED
  BY <1>1, <1>2, PTL DEF SDSpec

\* A text that the next tick sends again is the sensor's value, for any sensors,
\* readings and callers of PhysicalModel and wherever the ticks fall, until one of
\* them overtakes setTarget...().
THEOREM TextsAreFreshTheorem == SDSpec => []TextsAreFresh
<1>1. SDInv => TextsAreFresh
  BY DEF SDInv
<1> QED
  BY <1>1, SDInvariant, PTL

-----------------------------------------------------------------------------
(* The clipboard.                                                            *)

\* A stream that is not unserved has its forwarder on the connected device; it was
\* told what is due once it is open, and is going to be told that before.
Served(c) ==
    /\ device > 0 /\ listenerOn = device
    /\ phase[c] = "open" => mLastEvent[c] = due[c]
    /\ phase[c] \in {"read", "built"} => initial[c] = due[c]

\* A stream is a listener as soon as it is built.
StreamsKnow ==
    \A c \in Clients :
        /\ phase[c] \in {"built", "open"} => c \in subscribed
        /\ phase[c] # "none" /\ c \notin unserved => Served(c)

CSInv == CSTypeOK /\ StreamsKnow

\* An event is remembered by every stream it reaches, and queued for those that
\* did not know.
LEMMA EventArrivesType ==
  ASSUME CSTypeOK, NEW copied \in Contents, NEW source, NEW to \in SUBSET Clients,
         EventArrives(copied, source, to)
  PROVE  /\ mLastEvent' = [c \in Clients |-> IF c \in to THEN copied ELSE mLastEvent[c]]
         /\ mLastEvent' \in [Clients -> Contents]
         /\ mWriteQueue' \in [Clients -> Seq(Contents)] /\ nextWrites' \subseteq Clients
         /\ mWriting' = mWriting
         /\ \A c \in Clients : mWriting'[c] => mWriteQueue'[c] # <<>>
<1> DEFINE told == to \ ({c \in to : mLastEvent[c] = copied} \cup {source})
<1>1. /\ mLastEvent' = [c \in Clients |-> IF c \in to THEN copied ELSE mLastEvent[c]]
      /\ mWriteQueue' = [c \in Clients |-> IF c \in told THEN Append(mWriteQueue[c], copied) ELSE mWriteQueue[c]]
      /\ nextWrites' = nextWrites \cup told
      /\ mWriting' = mWriting
  BY DEF EventArrives
<1>2. told \subseteq Clients
  OBVIOUS
<1> HIDE DEF told
<1>3. mLastEvent' \in [Clients -> Contents]
  BY <1>1 DEF CSTypeOK
<1>4. ASSUME NEW c \in Clients
      PROVE  mWriteQueue'[c] \in Seq(Contents) /\ (mWriting'[c] => mWriteQueue'[c] # <<>>)
  <2>1. mWriteQueue[c] \in Seq(Contents) /\ (mWriting[c] => mWriteQueue[c] # <<>>)
    BY DEF CSTypeOK
  <2>2. Append(mWriteQueue[c], copied) \in Seq(Contents) /\ Append(mWriteQueue[c], copied) # <<>>
    BY <2>1
  <2> QED
    BY <1>1, <2>1, <2>2
<1>5. mWriteQueue' \in [Clients -> Seq(Contents)]
  BY <1>1, <1>4
<1> QED
  BY <1>1, <1>2, <1>3, <1>4, <1>5 DEF CSTypeOK

\* Every action keeps the types: a write in progress has its message at the head
\* of the queue.
LEMMA CSTypeStep ==
  ASSUME CSTypeOK, [CSNext]_csVars
  PROVE  CSTypeOK'
<1> USE DEF deviceVars, writerVars, historyVars
<1>0. subscribed \in SUBSET Clients
  BY DEF CSTypeOK
<1>1. CASE Connect
  BY <1>1, ClipboardAssumption DEF Connect, CSTypeOK, Contents
<1>2. CASE DeviceFires
  <2> PICK copied \in guestFires :
        /\ guestFires' = {}
        /\ IF listenerOn = device THEN Fire(copied, Android)
           ELSE UNCHANGED <<mLastEvent, writerVars>>
        /\ Changed(copied)
        /\ UNCHANGED <<deviceVars, updates, setting, phase, initial, subscribed>>
    BY <1>2 DEF DeviceFires
  <2>0. copied \in Contents
    BY DEF CSTypeOK, Contents
  <2>a. due' \in [Clients -> Contents] /\ unserved' \subseteq Clients
    BY <2>0 DEF Changed, CSTypeOK
  <2>1. CASE listenerOn = device
    <3>1. EventArrives(copied, Android, subscribed)
      BY <2>1 DEF Fire
    <3>2. /\ mLastEvent' \in [Clients -> Contents]
          /\ mWriteQueue' \in [Clients -> Seq(Contents)] /\ nextWrites' \subseteq Clients
          /\ mWriting' = mWriting
          /\ \A c \in Clients : mWriting'[c] => mWriteQueue'[c] # <<>>
      BY <1>0, <2>0, <3>1, EventArrivesType
    <3> QED
      BY <2>0, <2>a, <3>2 DEF CSTypeOK
  <2>2. CASE listenerOn # device
    BY <2>2, <2>a DEF CSTypeOK
  <2> QED
    BY <2>1, <2>2
<1>3. ASSUME NEW copied \in Texts, GuestUpdates(copied) PROVE CSTypeOK'
  BY <1>3, ClipboardAssumption DEF GuestUpdates, CSTypeOK, Contents
<1>4. ASSUME NEW copied \in Texts, NEW c \in Clients, SetClipboard(c, copied) PROVE CSTypeOK'
  BY <1>4, ClipboardAssumption DEF SetClipboard, CSTypeOK
<1>5. ASSUME NEW c \in Clients, SetClipboardFires(c) PROVE CSTypeOK'
  <2> PICK copied \in setting[c] :
        /\ setting' = [setting EXCEPT ![c] = {}]
        /\ Fire(copied, c) /\ Changed(copied)
        /\ UNCHANGED <<deviceVars, updates, guestFires, phase, initial, subscribed>>
    BY <1>5 DEF SetClipboardFires
  <2>0. copied \in Contents
    BY DEF CSTypeOK, Contents
  <2>1. EventArrives(copied, c, subscribed) /\ due' \in [Clients -> Contents] /\ unserved' \subseteq Clients
    BY <2>0 DEF Fire, Changed, CSTypeOK
  <2>2. /\ mLastEvent' \in [Clients -> Contents]
        /\ mWriteQueue' \in [Clients -> Seq(Contents)] /\ nextWrites' \subseteq Clients
        /\ mWriting' = mWriting
        /\ \A d \in Clients : mWriting'[d] => mWriteQueue'[d] # <<>>
    BY <1>0, <2>0, <2>1, EventArrivesType
  <2> QED
    BY <2>0, <2>1, <2>2 DEF CSTypeOK
<1>6. ASSUME NEW c \in Clients, StreamReads(c) PROVE CSTypeOK'
  <2>1. /\ phase' = [phase EXCEPT ![c] = "read"]
        /\ initial' = [initial EXCEPT ![c] = IF device > 0 THEN mClipboardData ELSE Empty]
        /\ due' = [due EXCEPT ![c] = initial'[c]]
        /\ UNCHANGED <<device, connects, mClipboardData, updates, guestFires, setting, subscribed, mLastEvent, writerVars>>
    BY <1>6 DEF StreamReads
  <2>2. initial' \in [Clients -> Contents] /\ due' \in [Clients -> Contents]
    BY <2>1 DEF CSTypeOK, Contents
  <2>3. unserved' \subseteq Clients
    BY <1>6 DEF StreamReads, CSTypeOK
  <2>4. mClipboardListenerRegistered' \in BOOLEAN
    BY <1>6, Zenon DEF StreamReads, CSTypeOK
  <2>5. listenerOn' \in 0..connects
    BY <1>6 DEF StreamReads, CSTypeOK
  <2> QED
    BY <2>1, <2>2, <2>3, <2>4, <2>5 DEF CSTypeOK
<1>7. ASSUME NEW c \in Clients, StreamConstructs(c) PROVE CSTypeOK'
  BY <1>7 DEF StreamConstructs, CSTypeOK, Contents
<1>8. ASSUME NEW c \in Clients, StreamFirstEvent(c) PROVE CSTypeOK'
  <2>1. initial[c] \in Contents /\ EventArrives(initial[c], Android, {c})
    BY <1>8 DEF StreamFirstEvent, CSTypeOK
  <2>2. /\ mLastEvent' \in [Clients -> Contents]
        /\ mWriteQueue' \in [Clients -> Seq(Contents)] /\ nextWrites' \subseteq Clients
        /\ mWriting' = mWriting
        /\ \A d \in Clients : mWriting'[d] => mWriteQueue'[d] # <<>>
    BY <2>1, EventArrivesType
  <2> QED
    BY <1>8, <2>2 DEF StreamFirstEvent, CSTypeOK, Contents
<1>9. ASSUME NEW c \in Clients, NextWrite(c) PROVE CSTypeOK'
  <2>1. mWriting' \in [Clients -> BOOLEAN] /\ \A d \in Clients : mWriting'[d] => mWriteQueue'[d] # <<>>
    BY <1>9 DEF NextWrite, CSTypeOK
  <2> QED
    BY <1>9, <2>1 DEF NextWrite, CSTypeOK
<1>10. ASSUME NEW c \in Clients, OnWriteDone(c) PROVE CSTypeOK'
  <2>1. Tail(mWriteQueue[c]) \in Seq(Contents)
    BY <1>10 DEF OnWriteDone, CSTypeOK
  <2>2. /\ mWriteQueue' \in [Clients -> Seq(Contents)] /\ mWriting' \in [Clients -> BOOLEAN]
        /\ \A d \in Clients : mWriting'[d] => mWriteQueue'[d] # <<>>
    BY <1>10, <2>1 DEF OnWriteDone, CSTypeOK
  <2> QED
    BY <1>10, <2>2 DEF OnWriteDone, CSTypeOK
<1>11. ASSUME NEW c \in Clients, OnCancel(c) PROVE CSTypeOK'
  BY <1>11 DEF OnCancel, CSTypeOK
<1>12. ASSUME NEW c \in Clients, OnDone(c) PROVE CSTypeOK'
  <2>1. /\ mLastEvent' \in [Clients -> Contents] /\ due' \in [Clients -> Contents] /\ unserved' \subseteq Clients
        /\ mWriteQueue' \in [Clients -> Seq(Contents)]
    BY <1>12 DEF OnDone, CSTypeOK, Contents
  <2>2. \A d \in Clients : mWriting'[d] => mWriteQueue'[d] # <<>>
    BY <1>12 DEF OnDone, CSTypeOK
  <2> QED
    BY <1>12, <2>1, <2>2 DEF OnDone, CSTypeOK
<1>13. CASE UNCHANGED csVars
  BY <1>13 DEF csVars, CSTypeOK
<1> QED
  BY <1>1, <1>2, <1>3, <1>4, <1>5, <1>6, <1>7, <1>8, <1>9, <1>10, <1>11, <1>12, <1>13
     DEF CSNext, StreamSteps, WriterSteps

\* No stream is open at first.
LEMMA CSInitially == CSInit => CSInv
<1> SUFFICES ASSUME CSInit PROVE CSInv
  OBVIOUS
<1>a. /\ device \in 0..connects /\ connects \in 0..MaxConnects /\ updates \in 0..MaxUpdates
      /\ listenerOn \in 0..connects
  BY ClipboardAssumption DEF CSInit
<1>b. /\ {initial, mLastEvent, due} \subseteq [Clients -> Contents]
      /\ setting \in [Clients -> SUBSET Texts]
      /\ phase \in [Clients -> {"none", "read", "built", "open", "finished"}]
      /\ mClipboardData \in Contents
  BY DEF CSInit, Contents
<1>c. mWriteQueue \in [Clients -> Seq(Contents)]
  BY DEF CSInit
<1>d. mWriting \in [Clients -> BOOLEAN] /\ \A c \in Clients : ~mWriting[c]
  BY Zenon DEF CSInit
<1>1. CSTypeOK
  BY <1>a, <1>b, <1>c, <1>d DEF CSInit, CSTypeOK
<1>2. StreamsKnow
  BY DEF CSInit, StreamsKnow
<1> QED
  BY <1>1, <1>2 DEF CSInv

\* A device that fires has the forwarder or serves nobody; every other event
\* reaches all streams that are open.
LEMMA FiresKeepKnowledge ==
  ASSUME CSInv, CSTypeOK',
         DeviceFires \/ \E c \in Clients : SetClipboardFires(c)
  PROVE  CSInv'
<1> USE DEF CSInv, deviceVars, writerVars
<1>0. subscribed \in SUBSET Clients
  BY DEF CSTypeOK
<1>1. UNCHANGED <<deviceVars, updates, phase, initial, subscribed>>
  BY DEF DeviceFires, SetClipboardFires
<1>2. PICK copied \in Contents :
         /\ Changed(copied)
         /\ (\E source : Fire(copied, source)) \/ (listenerOn # device /\ UNCHANGED mLastEvent)
  <2>1. CASE DeviceFires
    <3> PICK copied \in guestFires : /\ IF listenerOn = device THEN Fire(copied, Android)
                                        ELSE UNCHANGED <<mLastEvent, writerVars>>
                                     /\ Changed(copied)
      BY <2>1 DEF DeviceFires
    <3>1. copied \in Contents
      BY DEF CSTypeOK, Contents
    <3> QED
      BY <3>1
  <2>2. ASSUME NEW c \in Clients, SetClipboardFires(c)
        PROVE  \E copied \in Contents : Changed(copied) /\ \E source : Fire(copied, source)
    <3> PICK copied \in setting[c] : Fire(copied, c) /\ Changed(copied)
      BY <2>2 DEF SetClipboardFires
    <3>1. copied \in Contents
      BY DEF CSTypeOK, Contents
    <3> QED
      BY <3>1
  <2> QED
    BY <2>1, <2>2
<1>3. listenerOn = device => \A c \in subscribed : mLastEvent'[c] = copied
  <2> HAVE listenerOn = device
  <2>1. PICK source : EventArrives(copied, source, subscribed)
    BY <1>2 DEF Fire
  <2>2. mLastEvent' = [c \in Clients |-> IF c \in subscribed THEN copied ELSE mLastEvent[c]]
    BY <1>0, <2>1, EventArrivesType
  <2> QED
    BY <1>0, <2>2
<1>4. ASSUME NEW c \in Clients, phase'[c] # "none", c \notin unserved'  PROVE  Served(c)'
  <2>1. c \notin unserved /\ due'[c] = copied /\ (phase[c] \in {"read", "built"} => initial[c] = copied)
    BY <1>1, <1>2, <1>4 DEF Changed
  <2>2. Served(c) /\ (phase[c] = "open" => c \in subscribed)
    BY <1>1, <1>4, <2>1 DEF StreamsKnow
  <2> QED
    BY <1>1, <1>3, <2>1, <2>2 DEF Served
<1>5. StreamsKnow'
  BY <1>1, <1>4 DEF StreamsKnow
<1> QED
  BY <1>5

\* A guest that connects its clipboard leaves no stream served; what the guest or
\* a client changes is going to be fired.
LEMMA ChangesKeepKnowledge ==
  ASSUME CSInv, CSTypeOK',
         \/ Connect
         \/ \E copied \in Texts : GuestUpdates(copied) \/ \E c \in Clients : SetClipboard(c, copied)
  PROVE  CSInv'
<1> USE DEF CSInv, deviceVars, writerVars, historyVars
<1>1. CASE Connect
  BY <1>1 DEF Connect, StreamsKnow
<1>2. ASSUME NEW copied \in Texts, GuestUpdates(copied) PROVE CSInv'
  BY <1>2 DEF GuestUpdates, StreamsKnow, Served
<1>3. ASSUME NEW copied \in Texts, NEW c \in Clients, SetClipboard(c, copied) PROVE CSInv'
  BY <1>3 DEF SetClipboard, StreamsKnow, Served
<1> QED
  BY <1>1, <1>2, <1>3

\* A stream is opened with what the device holds.
LEMMA StreamsKeepKnowledge ==
  ASSUME CSInv, CSTypeOK', NEW c \in Clients,
         \/ StreamReads(c) \/ StreamConstructs(c) \/ StreamFirstEvent(c)
         \/ WriterSteps(c) \/ OnCancel(c) \/ OnDone(c)
  PROVE  CSInv'
<1> USE DEF CSInv, deviceVars, writerVars, historyVars
<1>1. CASE StreamReads(c)
  <2>1. /\ UNCHANGED <<device, subscribed, mLastEvent>>
        /\ device > 0 /\ listenerOn = device => listenerOn' = device
        /\ c \notin unserved' => device > 0 /\ listenerOn' = device
    BY <1>1 DEF StreamReads
  <2>2. ASSUME NEW d \in Clients, d # c
        PROVE  /\ phase'[d] = phase[d] /\ initial'[d] = initial[d] /\ due'[d] = due[d]
               /\ d \in unserved' <=> d \in unserved
    BY <1>1, <2>2 DEF StreamReads, CSTypeOK
  <2>3. phase'[c] = "read" /\ initial'[c] = due'[c]
    BY <1>1 DEF StreamReads, CSTypeOK
  <2> QED
    BY <2>1, <2>2, <2>3 DEF StreamsKnow, Served
<1>2. CASE StreamConstructs(c)
  BY <1>2 DEF StreamConstructs, StreamsKnow, Served, CSTypeOK
<1>3. CASE StreamFirstEvent(c)
  <2>1. /\ mLastEvent' = [d \in Clients |-> IF d \in {c} THEN initial[c] ELSE mLastEvent[d]]
        /\ phase' = [phase EXCEPT ![c] = "open"] /\ phase[c] = "built"
        /\ initial' = [initial EXCEPT ![c] = Empty]
        /\ UNCHANGED <<device, listenerOn, subscribed, due, unserved>>
    BY <1>3 DEF StreamFirstEvent, EventArrives
  <2>2. ASSUME NEW d \in Clients, d # c
        PROVE  phase'[d] = phase[d] /\ initial'[d] = initial[d] /\ mLastEvent'[d] = mLastEvent[d]
    BY <2>1, <2>2 DEF CSTypeOK
  <2>3. phase'[c] = "open" /\ mLastEvent'[c] = initial[c]
    BY <2>1 DEF CSTypeOK
  <2> QED
    BY <2>1, <2>2, <2>3 DEF StreamsKnow, Served
<1>4. CASE WriterSteps(c)
  BY <1>4 DEF WriterSteps, NextWrite, OnWriteDone, StreamsKnow, Served
<1>5. CASE OnCancel(c)
  BY <1>5 DEF OnCancel, StreamsKnow, Served, CSTypeOK
<1>6. CASE OnDone(c)
  BY <1>6 DEF OnDone, StreamsKnow, Served, CSTypeOK
<1> QED
  BY <1>1, <1>2, <1>3, <1>4, <1>5, <1>6

\* A write in progress has its message in the queue, whatever the threads of
\* Write() and OnWriteDone() do, for any number of clients, devices and changes.
THEOREM ClipboardTypeTheorem == CSSpec => []CSTypeOK
<1>1. CSInit => CSTypeOK
  BY CSInitially DEF CSInv
<1>2. CSTypeOK /\ [CSNext]_csVars => CSTypeOK'
  BY CSTypeStep
<1> QED
  BY <1>1, <1>2, PTL DEF CSSpec

\* For any clients, contents and changes, and however streams are opened and the
\* guest reconnects its clipboard: an open stream was told last of the last change
\* since it was opened, or of what the device held then, unless it was opened
\* without a forwarder on the device, the guest has connected its clipboard since,
\* or a change overtook its opening.
THEOREM StreamsTheorem == CSSpec => []StreamsAreUpToDate
<1>1. CSInv /\ [CSNext]_csVars => CSInv'
  <2> SUFFICES ASSUME CSInv, [CSNext]_csVars PROVE CSInv'
    OBVIOUS
  <2>0. CSTypeOK'
    BY CSTypeStep DEF CSInv
  <2>1. CASE CSNext
    BY <2>0, <2>1, FiresKeepKnowledge, ChangesKeepKnowledge, StreamsKeepKnowledge
       DEF CSNext, StreamSteps
  <2>2. CASE UNCHANGED csVars
    BY <2>0, <2>2 DEF csVars, deviceVars, historyVars, CSInv, StreamsKnow, Served
  <2> QED
    BY <2>1, <2>2
<1>2. CSInv => StreamsAreUpToDate
  BY DEF CSInv, StreamsKnow, Served, StreamsAreUpToDate
<1> QED
  BY <1>1, <1>2, CSInitially, PTL DEF CSSpec

-----------------------------------------------------------------------------
(* The connector registry.  A device that is alive has been told to a callback *)
(* or a thread is on the way to tell it; and a thread on the way finds the   *)
(* internal listener, or the one who adds it has still to tell.              *)

Adds(t) == pc[t] = "add listener"
Removes(t) == pc[t] = "remove listener"

\* The two calls that change the internal listener hold mCallbackLock and know
\* which callbacks there are; the listener is there whenever callbacks are, but
\* for the call that is adding it.
ListenerInv ==
    /\ \A u \in Users : Adds(u) => lock["mCallbackLockD"] = u /\ mCallbacks = {u}
    /\ \A u \in Users : Removes(u) => lock["mCallbackLockD"] = u /\ mCallbacks = {}
    /\ mCallbacks # {} => mListening \/ \E u \in Users : Adds(u)
    /\ pc[Guest] \notin {"add listener", "remove listener"}

\* Thread t is going to fire an event for the active device.
Telling(t) ==
    \/ pc[t] \in {"fire R", "notify R", "active", "add listener"}
    \/ pc[t] \in {"fire D", "notify D"} /\ event[t] = mActivePlug

\* A callback has been given the device that is alive, or the guest or the call
\* that added the callback is going to.
ToldOrTelling ==
    mActivePlug \notin expired \cup {0} =>
        \A u \in mCallbacks : mActivePlug \in seen[u] \/ Telling(Guest) \/ Telling(u)

DRInv == DRTypeOK /\ ListenerInv /\ ToldOrTelling

\* The threads are the users and the guest, and no thread is nobody.
LEMMA ThreadsDiffer == /\ Guest \notin Users /\ Free \notin Threads /\ Users \subseteq Threads
                       /\ Guest \in Threads
  BY RegistryAssumption DEF Threads, Guest, Free

\* At first there are no callbacks.
LEMMA DRInitially == DRInit => DRInv
<1> SUFFICES ASSUME DRInit PROVE DRInv
  OBVIOUS
<1>1. DRTypeOK
  <2>1. /\ created \in 0..MaxDevices /\ mActivePlug \in 0..created /\ expired \subseteq 1..created
        /\ event \in [Threads -> 0..MaxDevices]
    BY RegistryAssumption DEF DRInit
  <2>2. /\ lock \in [Locks -> Threads \cup {Free}] /\ seen \in [Users -> SUBSET (0..MaxDevices)]
        /\ pc \in [Threads -> {"idle", "fire R", "notify R", "active", "fire D", "notify D",
                               "add listener", "remove listener"}]
    BY DEF DRInit
  <2> QED
    BY <2>1, <2>2, Zenon DEF DRInit, DRTypeOK
<1>2. ListenerInv /\ ToldOrTelling
  BY ThreadsDiffer DEF DRInit, ListenerInv, ToldOrTelling, Adds, Removes
<1> QED
  BY <1>1, <1>2 DEF DRInv

\* What releasing does: only the thread's own locks become free.
LEMMA ReleaseType ==
  ASSUME DRTypeOK, NEW t \in Threads, ReleaseAll(t)
  PROVE  /\ lock' \in [Locks -> Threads \cup {Free}]
         /\ \A l \in Locks : lock[l] # t => lock'[l] = lock[l]
  BY DEF DRTypeOK, ReleaseAll

\* What acquiring does.
LEMMA AcquireType ==
  ASSUME DRTypeOK, NEW t \in Threads, NEW l \in Locks, Acquire(t, l)
  PROVE  /\ lock' \in [Locks -> Threads \cup {Free}] /\ lock[l] = Free
         /\ lock'[l] = t /\ \A k \in Locks : lock[k] # Free => lock'[k] = lock[k]
  BY DEF DRTypeOK, Acquire

\* Nobody changes the internal listener while mCallbackLock is free.
LEMMA NobodyChangesListener ==
  ASSUME DRInv, lock["mCallbackLockD"] = Free
  PROVE  \A u \in Users : ~Adds(u) /\ ~Removes(u)
  BY ThreadsDiffer DEF DRInv, ListenerInv

\* The registry and its devices.
LEMMA RegistryStepsKeep ==
  ASSUME DRInv, RegisterDevice \/ Listen \/ RegisterInternal \/ \E d \in 1..MaxDevices : OnUnplug(d)
  PROVE  DRInv'
<1> USE DEF DRInv, registryVars
<1>1. CASE RegisterDevice \/ Listen
  BY <1>1 DEF RegisterDevice, Listen, DRTypeOK, ListenerInv, ToldOrTelling, Telling, Adds, Removes
<1>2. CASE RegisterInternal
  <2> USE <1>2, ThreadsDiffer DEF RegisterInternal, Moves
  <2>0. created \in 0..MaxDevices /\ MaxDevices \in Nat /\ expired \subseteq 1..created
        /\ created < MaxDevices /\ created' = created + 1 /\ mActivePlug' = created + 1
        /\ expired' = expired
    BY RegistryAssumption DEF DRTypeOK
  <2>a. created' \in 0..MaxDevices /\ mActivePlug' \in 0..created' /\ expired' \subseteq 1..created'
    BY ONLY <2>0
  <2>b. pc' \in [Threads -> {"idle", "fire R", "notify R", "active", "fire D", "notify D",
                             "add listener", "remove listener"}]
    BY DEF DRTypeOK
  <2>1. DRTypeOK'
    BY <2>a, <2>b DEF DRTypeOK
  <2>2. pc'[Guest] = "fire R" /\ \A u \in Users : pc'[u] = pc[u]
    BY DEF DRTypeOK
  <2>3. ListenerInv'
    BY <2>2 DEF ListenerInv, Adds, Removes
  <2>4. ToldOrTelling'
    BY <2>2 DEF ToldOrTelling, Telling
  <2> QED
    BY <2>1, <2>3, <2>4
<1>3. ASSUME NEW d \in 1..MaxDevices, OnUnplug(d) PROVE DRInv'
  BY <1>3 DEF OnUnplug, DRTypeOK, ListenerInv, ToldOrTelling, Telling, Adds, Removes
<1> QED
  BY <1>1, <1>2, <1>3

\* The steps of a thread that fires an event.
LEMMA FiringKeeps ==
  ASSUME DRInv, NEW t \in Threads,
         ReadActiveDevice(t) \/ FireListener(t) \/ NotifyCallbacks(t) \/ (t = Guest /\ FireRegistry)
  PROVE  DRInv'
<1> USE ThreadsDiffer DEF DRInv, registryVars, Moves
<1>a. pc' \in [Threads -> {"idle", "fire R", "notify R", "active", "fire D", "notify D",
                           "add listener", "remove listener"}]
  BY DEF DRTypeOK, ReadActiveDevice, FireListener, NotifyCallbacks, FireRegistry
<1>b. /\ pc[t] \notin {"add listener", "remove listener"}
      /\ pc'[t] \notin {"add listener", "remove listener"}
      /\ \A r \in Threads \ {t} : pc'[r] = pc[r]
  BY DEF DRTypeOK, ReadActiveDevice, FireListener, NotifyCallbacks, FireRegistry
<1>c. /\ lock' \in [Locks -> Threads \cup {Free}]
      /\ \A u \in Users : u # t /\ lock["mCallbackLockD"] = u => lock'["mCallbackLockD"] = u
  <2>1. "mCallbackLockD" \in Locks /\ "mListenerLockD" \in Locks /\ "mListenerLockR" \in Locks
        /\ "mCallbackLockR" \in Locks
    BY DEF Locks
  <2>2. \/ lock' = lock \/ ReleaseAll(t)
        \/ \E l \in Locks : Acquire(t, l)
    BY <2>1 DEF ReadActiveDevice, FireListener, NotifyCallbacks, FireRegistry
  <2>3. CASE lock' = lock
    BY <2>3 DEF DRTypeOK
  <2>4. CASE ReleaseAll(t)
    BY <2>1, <2>4, ReleaseType
  <2>5. ASSUME NEW l \in Locks, Acquire(t, l) 
        PROVE  /\ lock' \in [Locks -> Threads \cup {Free}]
               /\ \A u \in Users : u # t /\ lock["mCallbackLockD"] = u => lock'["mCallbackLockD"] = u
    BY <2>1, <2>5, AcquireType
  <2> QED
    BY <2>2, <2>3, <2>4, <2>5
<1>d. UNCHANGED <<registryVars, expired, created, mListening, mCallbacks>>
  BY DEF ReadActiveDevice, FireListener, NotifyCallbacks, FireRegistry
<1>e. /\ mActivePlug' \in 0..created' /\ event' \in [Threads -> 0..MaxDevices]
      /\ seen' \in [Users -> SUBSET (0..MaxDevices)]
  <2>0. /\ created \in 0..MaxDevices /\ MaxDevices \in Nat /\ created' = created
        /\ mActivePlug \in 0..created /\ ActiveDevice \in {0, mActivePlug}
    BY <1>d, RegistryAssumption, Zenon DEF DRTypeOK, ActiveDevice
  <2>1. mActivePlug' \in 0..created'
    <3>1. mActivePlug' \in {0, mActivePlug}
      BY <2>0 DEF ReadActiveDevice, FireListener, NotifyCallbacks, FireRegistry
    <3> QED
      BY ONLY <2>0, <3>1
  <2>2. ActiveDevice \in 0..MaxDevices
    BY ONLY <2>0
  <2>3. event' \in [Threads -> 0..MaxDevices]
    <3>1. event' = event \/ event' = [event EXCEPT ![t] = ActiveDevice]
      BY DEF ReadActiveDevice, FireListener, NotifyCallbacks, FireRegistry
    <3> QED
      BY <2>2, <3>1 DEF DRTypeOK
  <2>4. seen' \in [Users -> SUBSET (0..MaxDevices)]
    <3>1. \/ seen' = seen
          \/ seen' = [u \in Users |-> IF u \in mCallbacks THEN seen[u] \cup {event[t]} ELSE seen[u]]
      BY DEF ReadActiveDevice, FireListener, NotifyCallbacks, FireRegistry
    <3>2. event[t] \in 0..MaxDevices /\ \A u \in Users : seen[u] \subseteq 0..MaxDevices
      BY DEF DRTypeOK
    <3>3. CASE seen' = seen
      BY <3>3 DEF DRTypeOK
    <3>4. CASE seen' = [u \in Users |-> IF u \in mCallbacks THEN seen[u] \cup {event[t]} ELSE seen[u]]
      <4>1. \A u \in Users : (IF u \in mCallbacks THEN seen[u] \cup {event[t]} ELSE seen[u])
                             \in SUBSET (0..MaxDevices)
        BY <3>2, Zenon
      <4> QED
        BY ONLY <3>4, <4>1, Zenon
    <3> QED
      BY <3>1, <3>3, <3>4
  <2> QED
    BY <2>1, <2>3, <2>4
<1>1. DRTypeOK'
  BY <1>a, <1>c, <1>d, <1>e DEF DRTypeOK
<1>2. ListenerInv'
  <2>1. \A u \in Users : /\ Adds(u)' = Adds(u) /\ Removes(u)' = Removes(u)
                         /\ Adds(u) \/ Removes(u) => u # t
    BY <1>b DEF Adds, Removes
  <2> QED
    BY <1>b, <1>c, <1>d, <2>1 DEF ListenerInv
<1>3. ToldOrTelling'
  <2> SUFFICES ASSUME mActivePlug' \notin expired \cup {0}, NEW u \in mCallbacks
               PROVE  mActivePlug' \in seen'[u] \/ Telling(Guest)' \/ Telling(u)'
    BY <1>d DEF ToldOrTelling
  <2>0. u \in Users
    BY DEF DRTypeOK
  <2>1. mActivePlug' = mActivePlug
    BY DEF ReadActiveDevice, ActiveDevice, FireListener, NotifyCallbacks, FireRegistry
  <2>2. mActivePlug \in seen[u] \/ Telling(Guest) \/ Telling(u)
    BY <2>1 DEF ToldOrTelling
  <2>3. mActivePlug \in seen[u] => mActivePlug' \in seen'[u]
    BY <2>0, <2>1 DEF ReadActiveDevice, FireListener, NotifyCallbacks, FireRegistry
  <2>4. ASSUME NEW r \in Threads, r # t, Telling(r) PROVE Telling(r)'
    <3>1. pc'[r] = pc[r]
      BY <1>b, <2>4
    <3>2. event'[r] = event[r]
      BY <2>4 DEF ReadActiveDevice, FireListener, NotifyCallbacks, FireRegistry, DRTypeOK
    <3> QED
      BY <2>1, <2>4, <3>1, <3>2 DEF Telling
  <2>5. ASSUME t \in {Guest, u}, Telling(t)
        PROVE  mActivePlug' \in seen'[u] \/ Telling(t)' \/ Telling(u)'
    <3>1. CASE ReadActiveDevice(t)
      <4>1. ActiveDevice = mActivePlug /\ mActivePlug # 0
        BY <2>1, <3>1 DEF ReadActiveDevice, ActiveDevice
      <4>2. pc'[t] = "fire D" /\ event'[t] = mActivePlug
        BY <3>1, <4>1 DEF ReadActiveDevice, DRTypeOK
      <4> QED
        BY <2>1, <4>2 DEF Telling
    <3>2. CASE FireListener(t)
      <4>1. CASE mListening
        <5>1. pc'[t] = "notify D" /\ event' = event /\ event[t] = mActivePlug
          BY <2>5, <3>2, <4>1 DEF FireListener, Telling, DRTypeOK
        <5> QED
          BY <2>1, <5>1 DEF Telling
      <4>2. CASE ~mListening
        <5>1. PICK v \in Users : Adds(v)
          BY <4>2 DEF ListenerInv
        <5>2. v = u
          BY <5>1 DEF ListenerInv
        <5>3. pc[u] = "add listener"
          BY <5>1, <5>2 DEF Adds
        <5>4. u # t
          BY <3>2, <5>3 DEF FireListener
        <5>5. Telling(u)
          BY <5>3 DEF Telling
        <5> QED
          BY <2>0, <2>4, <5>4, <5>5
      <4> QED
        BY <4>1, <4>2
    <3>3. CASE NotifyCallbacks(t)
      <4>1. event[t] = mActivePlug
        BY <2>5, <3>3 DEF NotifyCallbacks, Telling
      <4>2. event[t] \in seen'[u]
        BY <2>0, <3>3 DEF NotifyCallbacks
      <4> QED
        BY <2>1, <4>1, <4>2
    <3>4. CASE t = Guest /\ FireRegistry
      <4>1. pc'[t] \in {"notify R", "active"}
        BY <3>4 DEF FireRegistry, DRTypeOK
      <4> QED
        BY <4>1 DEF Telling
    <3> QED
      BY <3>1, <3>2, <3>3, <3>4
  <2> QED
    BY <2>0, <2>2, <2>3, <2>4, <2>5
<1> QED
  BY <1>1, <1>2, <1>3

\* Where a thread goes leaves its type and the other threads alone.
LEMMA GoingTo ==
  ASSUME DRTypeOK, NEW t \in Threads, NEW from,
         NEW to \in {"idle", "fire R", "notify R", "active", "fire D", "notify D",
                     "add listener", "remove listener"},
         Moves(t, from, to)
  PROVE  /\ pc' \in [Threads -> {"idle", "fire R", "notify R", "active", "fire D", "notify D",
                                 "add listener", "remove listener"}]
         /\ pc[t] = from /\ pc'[t] = to /\ \A r \in Threads \ {t} : pc'[r] = pc[r]
  BY DEF DRTypeOK, Moves

\* A user adds its callback.
LEMMA AddCallbackKeeps ==
  ASSUME DRInv, NEW u \in Users, AddCallback(u)
  PROVE  DRInv'
<1> USE ThreadsDiffer DEF DRInv, registryVars, AddCallback
<1>1. \A v \in Users : ~Adds(v) /\ ~Removes(v)
  BY NobodyChangesListener
<1>2. "mCallbackLockD" \in Locks
  BY DEF Locks
<1>3. /\ pc' \in [Threads -> {"idle", "fire R", "notify R", "active", "fire D", "notify D",
                              "add listener", "remove listener"}]
      /\ pc[u] = "idle" /\ pc'[u] = (IF mCallbacks = {} THEN "add listener" ELSE "active")
      /\ \A r \in Threads \ {u} : pc'[r] = pc[r]
  BY GoingTo
<1>4. /\ lock' \in [Locks -> Threads \cup {Free}]
      /\ mCallbacks = {} => lock'["mCallbackLockD"] = u
  BY <1>2, AcquireType DEF DRTypeOK
<1>5. /\ seen' \in [Users -> SUBSET (0..MaxDevices)]
      /\ \A v \in Users \ {u} : seen'[v] = seen[v]
  BY DEF DRTypeOK
<1>6. DRTypeOK'
  <2>1. mCallbacks' \subseteq Users
    BY DEF DRTypeOK
  <2> QED
    BY <1>3, <1>4, <1>5, <2>1 DEF DRTypeOK
<1>7. ListenerInv'
  BY <1>1, <1>3, <1>4 DEF ListenerInv, Adds, Removes, DRTypeOK
<1>8. ToldOrTelling'
  <2> SUFFICES ASSUME mActivePlug \notin expired \cup {0}, NEW v \in mCallbacks'
               PROVE  mActivePlug \in seen'[v] \/ Telling(Guest)' \/ Telling(v)'
    BY DEF ToldOrTelling
  <2>1. CASE v = u
    BY <1>3, <2>1 DEF Telling
  <2>2. CASE v # u
    <3>1. v \in mCallbacks /\ v \in Users
      BY <2>2 DEF DRTypeOK
    <3>2. /\ seen'[v] = seen[v] /\ pc'[v] = pc[v] /\ pc'[Guest] = pc[Guest]
          /\ event' = event /\ mActivePlug' = mActivePlug
      BY <1>3, <1>5, <2>2, <3>1
    <3> QED
      BY <3>1, <3>2 DEF ToldOrTelling, Telling
  <2> QED
    BY <2>1, <2>2
<1> QED
  BY <1>6, <1>7, <1>8

\* A user removes its callback.
LEMMA RemoveCallbackKeeps ==
  ASSUME DRInv, NEW u \in Users, RemoveCallback(u)
  PROVE  DRInv'
<1> USE ThreadsDiffer DEF DRInv, registryVars, RemoveCallback
<1>1. \A v \in Users : ~Adds(v) /\ ~Removes(v)
  BY NobodyChangesListener
<1>2. "mCallbackLockD" \in Locks
  BY DEF Locks
<1>3. /\ pc' \in [Threads -> {"idle", "fire R", "notify R", "active", "fire D", "notify D",
                              "add listener", "remove listener"}]
      /\ pc[u] = "idle" /\ pc'[u] = (IF mCallbacks = {u} THEN "remove listener" ELSE "idle")
      /\ \A r \in Threads \ {u} : pc'[r] = pc[r]
  BY GoingTo
<1>4. /\ lock' \in [Locks -> Threads \cup {Free}]
      /\ mCallbacks = {u} => lock'["mCallbackLockD"] = u
  BY <1>2, AcquireType DEF DRTypeOK
<1>6. DRTypeOK'
  BY <1>3, <1>4 DEF DRTypeOK
<1>7. ListenerInv'
  BY <1>1, <1>3, <1>4 DEF ListenerInv, Adds, Removes, DRTypeOK
<1>8. ToldOrTelling'
  <2> SUFFICES ASSUME mActivePlug \notin expired \cup {0}, NEW v \in mCallbacks \ {u}
               PROVE  mActivePlug \in seen[v] \/ Telling(Guest)' \/ Telling(v)'
    BY DEF ToldOrTelling
  <2>1. v \in Users
    BY DEF DRTypeOK
  <2>2. pc'[v] = pc[v] /\ pc'[Guest] = pc[Guest] /\ event' = event /\ mActivePlug' = mActivePlug
    BY <1>3, <2>1
  <2> QED
    BY <2>2 DEF ToldOrTelling, Telling
<1> QED
  BY <1>6, <1>7, <1>8

\* A user adds or removes the internal listener, and lets mCallbackLock go.
LEMMA ListenerKeeps ==
  ASSUME DRInv, NEW u \in Users, AddListener(u) \/ RemoveListener(u)
  PROVE  DRInv'
<1> USE ThreadsDiffer DEF DRInv, registryVars
<1>1. /\ ReleaseAll(u)
      /\ UNCHANGED <<registryVars, mActivePlug, expired, created, mCallbacks, seen, event>>
      /\ mListening' \in BOOLEAN
      /\ pc[u] \in {"add listener", "remove listener"}
      /\ pc[u] = "add listener" => mListening' = TRUE
  BY DEF AddListener, RemoveListener, Moves
<1>2. /\ pc' \in [Threads -> {"idle", "fire R", "notify R", "active", "fire D", "notify D",
                              "add listener", "remove listener"}]
      /\ pc'[u] = (IF pc[u] = "add listener" THEN "active" ELSE "idle")
      /\ \A r \in Threads \ {u} : pc'[r] = pc[r]
  <2>1. CASE AddListener(u)
    <3>1. Moves(u, "add listener", "active")
      BY <2>1 DEF AddListener
    <3> QED
      BY <3>1, GoingTo
  <2>2. CASE RemoveListener(u)
    <3>1. Moves(u, "remove listener", "idle")
      BY <2>2 DEF RemoveListener
    <3>2. pc[u] = "remove listener" /\ pc'[u] = "idle"
      BY <3>1, GoingTo
    <3>3. pc[u] # "add listener"
      BY <3>2
    <3> QED
      BY <3>1, <3>2, <3>3, GoingTo
  <2> QED
    BY <2>1, <2>2
<1>3. lock["mCallbackLockD"] = u /\ mCallbacks = (IF pc[u] = "add listener" THEN {u} ELSE {})
  BY <1>1 DEF ListenerInv, Adds, Removes
<1>4. \A v \in Users \ {u} : ~Adds(v) /\ ~Removes(v)
  BY <1>3 DEF ListenerInv
<1>6. DRTypeOK'
  <2>1. lock' \in [Locks -> Threads \cup {Free}]
    BY <1>1, ReleaseType
  <2> QED
    BY <1>1, <1>2, <2>1 DEF DRTypeOK
<1>7. ListenerInv'
  BY <1>1, <1>2, <1>3, <1>4 DEF ListenerInv, Adds, Removes
<1>8. ToldOrTelling'
  BY <1>1, <1>2, <1>3 DEF ToldOrTelling, Telling
<1> QED
  BY <1>6, <1>7, <1>8

\* A step that changes nothing.
LEMMA RegistryStutters == ASSUME DRInv, UNCHANGED drVars PROVE DRInv'
  BY DEF drVars, registryVars, DRInv, DRTypeOK, ListenerInv, ToldOrTelling, Telling, Adds, Removes

\* NoMissedDevice holds for any users and any number of devices: however adding
\* and removing callbacks interleaves with a device's registration, a callback
\* has been given the live device once all calls have returned.
THEOREM NoMissedDeviceTheorem == DRSpec => []NoMissedDevice
<1>1. DRInv /\ [DRNext]_drVars => DRInv'
  <2> SUFFICES ASSUME DRInv, [DRNext]_drVars PROVE DRInv'
    OBVIOUS
  <2>1. CASE RegisterDevice \/ Listen \/ RegisterInternal \/ \E d \in 1..MaxDevices : OnUnplug(d)
    BY <2>1, RegistryStepsKeep
  <2>2. ASSUME NEW u \in Users, AddCallback(u) \/ RemoveCallback(u) PROVE DRInv'
    BY <2>2, AddCallbackKeeps, RemoveCallbackKeeps
  <2>3. ASSUME NEW t \in Threads, CallStep(t) PROVE DRInv'
    <3>1. CASE t # Guest /\ (AddListener(t) \/ RemoveListener(t))
      <4>1. t \in Users
        BY <3>1 DEF Threads
      <4> QED
        BY <3>1, <4>1, ListenerKeeps
    <3>2. CASE ReadActiveDevice(t) \/ FireListener(t) \/ NotifyCallbacks(t) \/ (t = Guest /\ FireRegistry)
      BY <3>2, FiringKeeps
    <3> QED
      BY <2>3, <3>1, <3>2 DEF CallStep
  <2>4. CASE UNCHANGED drVars
    BY <2>4, RegistryStutters
  <2> QED
    BY <2>1, <2>2, <2>3, <2>4 DEF DRNext
<1>2. DRInv => NoMissedDevice
  <2> SUFFICES ASSUME DRInv, mActivePlug \notin expired \cup {0},
                      \A t \in Threads : pc[t] = "idle", NEW u \in mCallbacks
               PROVE  mActivePlug \in seen[u]
    BY DEF NoMissedDevice
  <2>1. u \in Threads /\ Guest \in Threads
    BY ThreadsDiffer DEF DRInv, DRTypeOK
  <2> QED
    BY <2>1 DEF DRInv, ToldOrTelling, Telling
<1> QED
  BY DRInitially, <1>1, <1>2, PTL DEF DRSpec

-----------------------------------------------------------------------------
(* The archive streams.                                                      *)

\* zigzag::decode() undoes zigzag::encode() at every width, the smallest number
\* included, and what encode() returns is a number that operator<< can write.
\* The provers know no powers: that the width doubles with a bit is a hypothesis.
THEOREM ZigzagTheorem ==
  ASSUME 2^(Bits - 1) \in Nat, 2^Bits = 2 * 2^(Bits - 1)
  PROVE  \A x \in Signed : ZigzagEncode(x) \in Unsigned /\ ZigzagDecode(ZigzagEncode(x)) = x
<1> SUFFICES ASSUME NEW x \in Signed
             PROVE  ZigzagEncode(x) \in Unsigned /\ ZigzagDecode(ZigzagEncode(x)) = x
  OBVIOUS
<1> DEFINE h == 2^(Bits - 1)
           m == 2^Bits
           twice == (2 * x) % m
           code == ZigzagEncode(x)
<1>1. h \in Nat /\ m = 2 * h /\ x \in (-h)..(h - 1) /\ Unsigned = 0..(m - 1)
  BY DEF Signed, Unsigned
<1>2. code = IF x < 0 THEN m - 1 - twice ELSE twice
  BY DEF ZigzagEncode
<1>3. ZigzagDecode(code) = IF code % 2 = 1 THEN -(code \div 2) - 1 ELSE code \div 2
  BY DEF ZigzagDecode
<1>4. twice = (2 * x) % m
  OBVIOUS
<1> HIDE DEF h, m, twice, code
<1>5. CASE x >= 0
  <2>1. twice = 2 * x /\ 2 * x \in 0..(m - 1)
    BY <1>1, <1>4, <1>5
  <2>2. code = 2 * x
    BY <1>1, <1>2, <1>5, <2>1
  <2>3. (2 * x) % 2 = 0 /\ (2 * x) \div 2 = x
    BY <1>1, <1>5
  <2> QED
    BY <1>1, <1>3, <2>1, <2>2, <2>3 DEF code
<1>6. CASE x < 0
  <2>1. twice = 2 * x + m
    BY <1>1, <1>4, <1>6
  <2>2. code = 2 * (-x - 1) + 1
    BY <1>1, <1>2, <1>6, <2>1
  <2>3. (2 * (-x - 1) + 1) % 2 = 1 /\ (2 * (-x - 1) + 1) \div 2 = -x - 1
    BY <1>1, <1>6
  <2>4. code \in 0..(m - 1) /\ code % 2 = 1 /\ code \div 2 = -x - 1
    BY <1>1, <1>6, <2>2, <2>3
  <2>5. -(code \div 2) - 1 = x
    BY <1>1, <2>4
  <2> QED
    BY <1>1, <1>3, <2>4, <2>5 DEF code
<1> QED
  BY <1>1, <1>5, <1>6
=============================================================================
