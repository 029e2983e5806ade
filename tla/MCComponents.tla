---------------------------- MODULE MCComponents ----------------------------
(***************************************************************************)
(* The components that share no state, side by side for TLC: `part' says   *)
(* which of them a behaviour is about, and the variables of the others     *)
(* keep their initial values.                                              *)
(***************************************************************************)
EXTENDS HangDetector, FileLock, DefaultLooper, AsyncSocket, Topic, Archive, PlugProtocol,
        PortForward, QemuLooper, DeviceRegistry, ClipboardService, TouchInput, SensorDevice

CONSTANTS Parts,  \* components that the run is about
          u1, u2  \* the members of Users

ASSUME UsersAssumption == Users = {u1, u2}

VARIABLE part

partsVars == <<part, hdVars, flVars, dlVars, asVars, tpVars, arVars, ppVars, pfVars, qlVars, drVars, csVars, tiVars, sdVars>>

InHangs(A) == part = "hangs" /\ A /\ UNCHANGED <<part, flVars, dlVars, asVars, tpVars, arVars, ppVars, pfVars, qlVars, drVars, csVars, tiVars, sdVars>>
InLocks(A) == part = "locks" /\ A /\ UNCHANGED <<part, hdVars, dlVars, asVars, tpVars, arVars, ppVars, pfVars, qlVars, drVars, csVars, tiVars, sdVars>>
InLooper(A) == part = "looper" /\ A /\ UNCHANGED <<part, hdVars, flVars, asVars, tpVars, arVars, ppVars, pfVars, qlVars, drVars, csVars, tiVars, sdVars>>
InSocket(A) == part = "socket" /\ A /\ UNCHANGED <<part, hdVars, flVars, dlVars, tpVars, arVars, ppVars, pfVars, qlVars, drVars, csVars, tiVars, sdVars>>
InTopic(A) == part = "topic" /\ A /\ UNCHANGED <<part, hdVars, flVars, dlVars, asVars, arVars, ppVars, pfVars, qlVars, drVars, csVars, tiVars, sdVars>>
InArchive(A) == part = "archive" /\ A /\ UNCHANGED <<part, hdVars, flVars, dlVars, asVars, tpVars, ppVars, pfVars, qlVars, drVars, csVars, tiVars, sdVars>>
InPlugs(A) == part = "plugs" /\ A /\ UNCHANGED <<part, hdVars, flVars, dlVars, asVars, tpVars, arVars, pfVars, qlVars, drVars, csVars, tiVars, sdVars>>
InForward(A) == part = "forward" /\ A /\ UNCHANGED <<part, hdVars, flVars, dlVars, asVars, tpVars, arVars, ppVars, qlVars, drVars, csVars, tiVars, sdVars>>
InMainLoop(A) == part = "main loop" /\ A /\ UNCHANGED <<part, hdVars, flVars, dlVars, asVars, tpVars, arVars, ppVars, pfVars, drVars, csVars, tiVars, sdVars>>
InRegistry(A) == part = "registry" /\ A /\ UNCHANGED <<part, hdVars, flVars, dlVars, asVars, tpVars, arVars, ppVars, pfVars, qlVars, csVars, tiVars, sdVars>>
InClipboard(A) == part = "clipboard" /\ A /\ UNCHANGED <<part, hdVars, flVars, dlVars, asVars, tpVars, arVars, ppVars, pfVars, qlVars, drVars, tiVars, sdVars>>
InPointers(A) == part = "pointers" /\ A /\ UNCHANGED <<part, hdVars, flVars, dlVars, asVars, tpVars, arVars, ppVars, pfVars, qlVars, drVars, csVars, sdVars>>
InSensors(A) == part = "sensors" /\ A /\ UNCHANGED <<part, hdVars, flVars, dlVars, asVars, tpVars, arVars, ppVars, pfVars, qlVars, drVars, csVars, tiVars>>

PartsInit ==
    /\ part \in Parts
    /\ HDInit /\ FLInit /\ DLInit /\ ASInit /\ TPInit /\ ARInit /\ PPInit /\ PFInit
    /\ QLInit /\ DRInit /\ CSInit /\ TIInit /\ SDInit
    /\ part # "locks" => lockFile = NoFile
    /\ part # "plugs" => sending = CHOOSE s \in Sendings : TRUE
    /\ part # "pointers" => sources = CHOOSE s \in SourceSets : TRUE

PartsNext ==
    \/ InHangs(HDNext) \/ InLocks(FLNext) \/ InLooper(DLNext) \/ InSocket(ASNext)
    \/ InTopic(TPNext) \/ InArchive(ARNext) \/ InPlugs(PPNext) \/ InForward(PFNext)
    \/ InMainLoop(QLNext) \/ InRegistry(DRNext) \/ InClipboard(CSNext)
    \/ InPointers(TINext) \/ InSensors(SDNext)

PartsSpec == PartsInit /\ [][PartsNext]_partsVars

-----------------------------------------------------------------------------
\* Threads go on and callbacks return: the worker of the hang detector and a
\* looper that is not hung, a process in filelock_create_timeout(), the thread
\* of a DefaultLooper and its clock, the owner of a socket and its two threads,
\* the retries of a ConnectionAwaiter and the queues of the vsock device, QEMU's
\* main loop and those who post to it, gRPC, and the device and callers of the
\* sensors.
ThreadsGoOn ==
    /\ WF_hdVars(part = "hangs" /\ WorkerStep)
    /\ \A l \in Loopers : WF_hdVars(part = "hangs" /\ LooperStep(l))
    /\ \A p \in Procs : WF_flVars(part = "locks" /\ LockStep(p))
    /\ WF_dlVars(part = "looper" /\ LooperSteps) /\ WF_dlVars(part = "looper" /\ DLTick)
    /\ WF_asVars(part = "socket" /\ OwnerSteps) /\ WF_asVars(part = "socket" /\ ConnectSteps)
    /\ WF_asVars(part = "socket" /\ LooperRuns)
    /\ WF_pfVars(part = "forward" /\ AttemptConnection) /\ WF_pfVars(part = "forward" /\ DeviceTakesPacket)
    /\ WF_pfVars(part = "forward" /\ GuestTakesPacket)
    /\ WF_qlVars(part = "main loop" /\ (FireNext \/ EndBottomHalf)) /\ WF_qlVars(part = "main loop" /\ RunClosure)
    /\ \A p \in Posters : WF_qlVars(part = "main loop" /\ PosterStep(p))
    /\ \A c \in Clients :
          WF_csVars(part = "clipboard" /\ NextWrite(c)) /\ WF_csVars(part = "clipboard" /\ OnWriteDone(c))
    /\ WF_sdVars(part = "sensors" /\ TickSteps)
    /\ \A c \in Callers : WF_sdVars(part = "sensors" /\ CallSteps(c))

\* What is possible again and again happens: the host is not suspended, and the
\* worker not paused, in every iteration; I/O does not keep a looper or QEMU's
\* main loop from callbacks, bottom halves and timers; the posters do not keep
\* runClosures() busy for ever, nor callers the sensors' timer; a thread gets a
\* lock that is free again and again.  A behaviour is about one part, so the
\* steps of several parts may share a condition.
NotForEverElsewhere ==
    /\ SF_partsVars(InHangs(Tick) \/ InSocket(RunCallback) \/ InMainLoop(BeginBottomHalf) \/ InRegistry(CallStep(Guest)))
    /\ SF_partsVars(InHangs(WorkerIterates) \/ InMainLoop(TimerCallback) \/ InRegistry(CallStep(u1)))
    /\ SF_partsVars(InMainLoop(EndClosures) \/ InRegistry(CallStep(u2)) \/ InSensors(TimerFires))

FairPartsSpec == PartsSpec /\ ThreadsGoOn /\ NotForEverElsewhere

-----------------------------------------------------------------------------
\* The type invariants of the components, with what each says of its counters,
\* queues and pointers: mInflight counts the callbacks of a socket, a write has its
\* message, a stream has its owner, mPendingClosures keeps its capacity.
PartsTypeOK ==
    /\ part = "hangs" => HDTypeOK
    /\ part = "locks" => FLTypeOK
    /\ part = "looper" => DLTypeOK
    /\ part = "socket" => ASTypeOK
    /\ part = "topic" => TPTypeOK
    /\ part = "archive" => ARTypeOK
    /\ part = "plugs" => PPTypeOK
    /\ part = "forward" => PFTypeOK
    /\ part = "main loop" => QLTypeOK
    /\ part = "registry" => DRTypeOK
    /\ part = "clipboard" => CSTypeOK
    /\ part = "pointers" => TITypeOK
    /\ part = "sensors" => SDTypeOK

\* The clients of the port forwarding are alike, and so are those of the clipboard,
\* the callers of the sensors, the users of the registry and the timers of the
\* default looper, which a cfg names the same.
Alike == Permutations(TcpClients)

\* Strings of Archive: empty, one byte, and one longer than a digit can say.
MCStrings ==
    {<<>>, <<[low |-> 1, more |-> TRUE]>>,
     [i \in 1..5 |-> [low |-> i % 4, more |-> i # 1]]}
=============================================================================
