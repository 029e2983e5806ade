--------------------------- MODULE DeviceRegistry ---------------------------
(***************************************************************************)
(* The connector registry and a DeviceRegistrationListener on it: the      *)
(* guest's thread registers devices and fires events while users add and   *)
(* remove callbacks.  Both objects are a WithCallbacks: fireEvent() holds  *)
(* mListenerLock while the listeners run, and the internal listener takes  *)
(* mCallbackLock to call the callbacks; addCallback() and removeCallback() *)
(* take the two locks the other way round.  One step per acquired lock;    *)
(* the locks of a call are released together.                              *)
(*                                                                         *)
(* One device type; the devices of that type are numbered in the order in  *)
(* which the guest creates them.                                           *)
(***************************************************************************)
EXTENDS Integers, FiniteSets

CONSTANTS Users,         \* threads that add and remove callbacks
          MaxDevices     \* bound on devices created

Guest == "guest"
Free == "free"   \* no thread

ASSUME RegistryAssumption == MaxDevices \in Nat /\ Users \cap {Guest, Free} = {}

\* The locks of the registry (R) and of the listener object (D).
Locks == {"mListenerLockR", "mCallbackLockR", "mListenerLockD", "mCallbackLockD"}

VARIABLES mAcceptingRegistries, mEntries, mDevices,  \* is the device type registered, offered
          mActivePlug,   \* number of the device in mActivePlugs, 0 for none
          expired,       \* devices that are gone
          created,       \* devices created so far
          lock,          \* per lock: who holds it
          mListening,    \* the internal listener of D is in its mListeners
          mCallbacks,    \* users with a callback in D
          seen,          \* per user: devices its callback was called with
          pc,            \* per thread: the lock it takes next, or where it is
          event          \* per thread: device of the event that it fires

registryVars == <<mAcceptingRegistries, mEntries, mDevices>>
drVars == <<registryVars, mActivePlug, expired, created, lock, mListening, mCallbacks, seen, pc, event>>

Threads == Users \cup {Guest}

DRInit ==
    /\ mAcceptingRegistries = TRUE /\ mEntries = FALSE /\ mDevices = FALSE
    /\ mActivePlug = 0 /\ expired = {} /\ created = 0
    /\ lock = [l \in Locks |-> Free]
    /\ mListening = FALSE /\ mCallbacks = {}
    /\ seen = [u \in Users |-> {}]
    /\ pc = [t \in Threads |-> "idle"]
    /\ event = [t \in Threads |-> 0]

Acquire(t, l) == lock[l] = Free /\ lock' = [lock EXCEPT ![l] = t]
ReleaseAll(t) == lock' = [l \in Locks |-> IF lock[l] = t THEN Free ELSE lock[l]]
Moves(t, from, to) == pc[t] = from /\ pc' = [pc EXCEPT ![t] = to]

RegisterDevice ==
    /\ mEntries' = (mEntries \/ mAcceptingRegistries)
    /\ UNCHANGED <<mAcceptingRegistries, mDevices, mActivePlug, expired, created, lock, mListening, mCallbacks, seen, pc, event>>

\* listen() closes the registry and offers what was registered.  It may be
\* called again.
Listen ==
    /\ mAcceptingRegistries' = FALSE /\ mDevices' = mEntries
    /\ UNCHANGED <<mEntries, mActivePlug, expired, created, lock, mListening, mCallbacks, seen, pc, event>>

\* The guest connects to a device: its factory, and mActivePlugs[name] = plug.
RegisterInternal ==
    /\ mDevices /\ created < MaxDevices
    /\ Moves(Guest, "idle", "fire R")
    /\ created' = created + 1 /\ mActivePlug' = created + 1
    /\ UNCHANGED <<registryVars, expired, lock, mListening, mCallbacks, seen, event>>

\* The plug of a device is dropped.
OnUnplug(d) ==
    /\ d \in 1..created \ expired
    /\ expired' = expired \cup {d}
    /\ UNCHANGED <<registryVars, mActivePlug, created, lock, mListening, mCallbacks, seen, pc, event>>

\* activeDevice(): a stale entry is erased.
ActiveDevice == IF mActivePlug \in expired THEN 0 ELSE mActivePlug

\* fireEvent() of the registry, whose only callback is the listener object's.
FireRegistry ==
    \/ Moves(Guest, "fire R", "notify R") /\ Acquire(Guest, "mListenerLockR")
       /\ UNCHANGED <<registryVars, mActivePlug, expired, created, mListening, mCallbacks, seen, event>>
    \/ Moves(Guest, "notify R", "active") /\ Acquire(Guest, "mCallbackLockR")
       /\ UNCHANGED <<registryVars, mActivePlug, expired, created, mListening, mCallbacks, seen, event>>

\* The device for the event.  The registry's callback fires it in any case,
\* addCallback() only if there is a device.
ReadActiveDevice(t) ==
    /\ Moves(t, "active", IF t # Guest /\ ActiveDevice = 0 THEN "idle" ELSE "fire D")
    /\ event' = [event EXCEPT ![t] = ActiveDevice]
    /\ mActivePlug' = ActiveDevice
    /\ UNCHANGED <<registryVars, expired, created, lock, mListening, mCallbacks, seen>>

\* fireEvent() of the listener object.
FireListener(t) ==
    /\ IF mListening THEN Moves(t, "fire D", "notify D") /\ Acquire(t, "mListenerLockD")
       ELSE Moves(t, "fire D", "idle") /\ lock["mListenerLockD"] = Free /\ ReleaseAll(t)
    /\ UNCHANGED <<registryVars, mActivePlug, expired, created, mListening, mCallbacks, seen, event>>

\* notifyCallbacks(): every callback, under mCallbackLock.
NotifyCallbacks(t) ==
    /\ Moves(t, "notify D", "idle")
    /\ lock["mCallbackLockD"] = Free /\ ReleaseAll(t)
    /\ seen' = [u \in Users |-> IF u \in mCallbacks THEN seen[u] \cup {event[t]} ELSE seen[u]]
    /\ UNCHANGED <<registryVars, mActivePlug, expired, created, mListening, mCallbacks, event>>

\* DeviceRegistrationListener::addCallback(); the first one adds the listener.
AddCallback(u) ==
    /\ u \notin mCallbacks
    /\ lock["mCallbackLockD"] = Free
    /\ mCallbacks' = mCallbacks \cup {u}
    /\ seen' = [seen EXCEPT ![u] = {}]
    /\ IF mCallbacks = {} THEN Moves(u, "idle", "add listener") /\ Acquire(u, "mCallbackLockD")
       ELSE Moves(u, "idle", "active") /\ UNCHANGED lock
    /\ UNCHANGED <<registryVars, mActivePlug, expired, created, mListening, event>>

\* Mutant: the first callback is not told of the active device.
AddListenerSilently(u) ==
    /\ Moves(u, "add listener", "idle")
    /\ lock["mListenerLockD"] = Free /\ ReleaseAll(u)
    /\ mListening' = TRUE
    /\ UNCHANGED <<registryVars, mActivePlug, expired, created, mCallbacks, seen, event>>

\* Mutant: mCallbackLock is not released before the event is fired.
AddListenerLocked(u) ==
    /\ Moves(u, "add listener", "active")
    /\ lock["mListenerLockD"] = Free /\ UNCHANGED lock
    /\ mListening' = TRUE
    /\ UNCHANGED <<registryVars, mActivePlug, expired, created, mCallbacks, seen, event>>

AddListener(u) ==
    /\ Moves(u, "add listener", "active")
    /\ lock["mListenerLockD"] = Free /\ ReleaseAll(u)
    /\ mListening' = TRUE
    /\ UNCHANGED <<registryVars, mActivePlug, expired, created, mCallbacks, seen, event>>

\* removeCallback(); the last one removes the listener.
RemoveCallback(u) ==
    /\ u \in mCallbacks
    /\ lock["mCallbackLockD"] = Free
    /\ mCallbacks' = mCallbacks \ {u}
    /\ IF mCallbacks = {u} THEN Moves(u, "idle", "remove listener") /\ Acquire(u, "mCallbackLockD")
       ELSE Moves(u, "idle", "idle") /\ UNCHANGED lock
    /\ UNCHANGED <<registryVars, mActivePlug, expired, created, mListening, seen, event>>

RemoveListener(u) ==
    /\ Moves(u, "remove listener", "idle")
    /\ lock["mListenerLockD"] = Free /\ ReleaseAll(u)
    /\ mListening' = FALSE
    /\ UNCHANGED <<registryVars, mActivePlug, expired, created, mCallbacks, seen, event>>

CallStep(t) ==
    \/ ReadActiveDevice(t) \/ FireListener(t) \/ NotifyCallbacks(t)
    \/ t = Guest /\ FireRegistry
    \/ t # Guest /\ (AddListener(t) \/ RemoveListener(t))

DRNext ==
    \/ RegisterDevice \/ Listen \/ RegisterInternal
    \/ \E d \in 1..MaxDevices : OnUnplug(d)
    \/ \E u \in Users : AddCallback(u) \/ RemoveCallback(u)
    \/ \E t \in Threads : CallStep(t)

DRSpec == DRInit /\ [][DRNext]_drVars

-----------------------------------------------------------------------------
\* Every variable has its type; a lock has one holder.
DRTypeOK ==
    /\ {mAcceptingRegistries, mEntries, mDevices, mListening} \subseteq BOOLEAN
    /\ created \in 0..MaxDevices /\ mActivePlug \in 0..created /\ expired \subseteq 1..created
    /\ lock \in [Locks -> Threads \cup {Free}]
    /\ mCallbacks \subseteq Users
    /\ seen \in [Users -> SUBSET (0..MaxDevices)] /\ event \in [Threads -> 0..MaxDevices]
    /\ pc \in [Threads -> {"idle", "fire R", "notify R", "active", "fire D", "notify D",
                           "add listener", "remove listener"}]

\* "If a device of the specified type is already active when a new callback or
\* listener is added, an event will be fired immediately" and every later one
\* triggers the callbacks (connector_registry.h:228-236): when a device is
\* alive and all calls have returned, every callback has been given it,
\* however adding the callback and registering the device interleaved.
NoMissedDevice ==
    (mActivePlug \notin expired \cup {0} /\ \A t \in Threads : pc[t] = "idle")
        => \A u \in mCallbacks : mActivePlug \in seen[u]

\* removeCallback() of the last callback holds mCallbackLock and waits for the
\* mListenerLock of a thread that fires an event.
LockInversion ==
    \E u \in Users : pc[u] = "remove listener" /\ lock["mListenerLockD"] # Free

\* Every call returns: nobody waits for a lock for ever, unless the removal of
\* the last callback meets an event (CallbackEventSupport.h:76), which is the
\* only order of calls in which the two locks deadlock.
CallsReturn == \A t \in Threads : (pc[t] # "idle") ~> (pc[t] = "idle" \/ LockInversion)

=============================================================================
