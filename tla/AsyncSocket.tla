----------------------------- MODULE AsyncSocket -----------------------------
(***************************************************************************)
(* A client AsyncSocket: the owner's thread connects, sends, closes,       *)
(* disposes and destroys it, a thread of its own makes the connection, and *)
(* the looper's thread runs callbacks and the events of the fd.  A step    *)
(* ends where a thread takes or releases mWatchLock, or where another one  *)
(* can see what it wrote.  The owner is not the looper's thread.           *)
(* mListenerLock, which onRead() holds, is taken by nothing else in the    *)
(* repository: setSocketEventListener() is the base class's, an external   *)
(* header, and is not relied on to wait for it.                            *)
(***************************************************************************)
EXTENDS Integers, Sequences

CONSTANTS PeerCloses,        \* the peer may close the connection
          WRITE_BUFFER_SIZE, \* capacity of mWriteQueue
          MaxReceived,       \* bound on what the peer sends
          MaxCloses,         \* bound on the calls of close()
          MaxCallbacks       \* bound on the callbacks that wait when send() is called

ASSUME AsyncSocketAssumption ==
    PeerCloses \in BOOLEAN /\ {WRITE_BUFFER_SIZE, MaxReceived, MaxCloses, MaxCallbacks} \subseteq Nat

NoThread == "none"

VARIABLES mFdWatch,      \* there is an fd watch
          wants,         \* events it is armed for
          mListener,     \* a listener is set
          mConnecting,
          mWatchLock,    \* thread that holds it
          callbacks,     \* what the looper will run: "wantRead", "wantWrite", "close", "notify"
          mInflight,     \* callbacks scheduled by scheduleCallback() and not finished
          looperAt,      \* "idle", "onRead", "recv", "close", "onClose", "inOnClose", "closed", or
                         \* "null" when onRead() has called a listener that is gone
          counted,       \* the close() that the looper runs is one of mInflight
          connectAt,     \* mConnectThread: "none", "try", "connected", "locked", "waiting", "done"
          notified,      \* the notification has been sent out
          ownerAt,       \* "idle", "dispose", "wait", "unlisten", "disposed", "destroy", "join",
                         \* "inflight", "destroyed"
          destroying,    \* this dispose() is the destructor's
          lateWatch,     \* history: a watch was made after dispose() had seen that there was none
          closes, writeQueue, toRead, peerOpen

watchVars_ == <<mFdWatch, wants, mListener, mConnecting>>
looperVars_ == <<callbacks, mInflight, looperAt, counted>>
disposeVars == <<destroying, lateWatch>>
threadVars == <<connectAt, notified, ownerAt, closes, disposeVars>>
ioVars == <<writeQueue, toRead, peerOpen>>
asVars == <<watchVars_, mWatchLock, looperVars_, threadVars, ioVars>>

ASInit ==
    /\ mFdWatch = FALSE /\ wants = {} /\ mListener = TRUE /\ mConnecting = FALSE
    /\ mWatchLock = NoThread
    /\ callbacks = <<>> /\ mInflight = 0 /\ looperAt = "idle" /\ counted = FALSE
    /\ connectAt = "none" /\ notified = FALSE /\ ownerAt = "idle" /\ closes = 0
    /\ destroying = FALSE /\ lateWatch = FALSE
    /\ writeQueue = 0 /\ toRead = 0 /\ peerOpen = TRUE

\* Mutant: mInflight++ is skipped.
ScheduleUncounted(cb) == callbacks' = Append(callbacks, cb) /\ UNCHANGED mInflight

\* scheduleCallback() off the looper's thread.
Schedule(cb) == callbacks' = Append(callbacks, cb) /\ mInflight' = mInflight + 1

-----------------------------------------------------------------------------
\* The owner's thread.
ConnectCall ==
    /\ ownerAt = "idle" /\ connectAt = "none"
    /\ mConnecting' = TRUE /\ connectAt' = "try"
    /\ UNCHANGED <<mFdWatch, wants, mListener, mWatchLock, looperVars_, notified, ownerAt, closes, disposeVars, ioVars>>

\* send(): into the queue if it has room, and wantWrite().
SendCall ==
    /\ ownerAt = "idle" /\ mFdWatch /\ writeQueue < WRITE_BUFFER_SIZE
    /\ Len(callbacks) < MaxCallbacks
    /\ writeQueue' = writeQueue + 1
    /\ Schedule("wantWrite")
    /\ UNCHANGED <<watchVars_, mWatchLock, looperAt, counted, threadVars, toRead, peerOpen>>

CloseCall ==
    /\ ownerAt = "idle" /\ mFdWatch /\ closes < MaxCloses
    /\ closes' = closes + 1
    /\ Schedule("close")
    /\ UNCHANGED <<watchVars_, mWatchLock, looperAt, counted, connectAt, notified, ownerAt, disposeVars, ioVars>>

\* dispose(), by itself or first thing in the destructor: close() ...
DisposeCloses ==
    /\ ownerAt = "idle" /\ connectAt # "none"
    /\ ownerAt' = "dispose" /\ destroying' \in BOOLEAN
    /\ IF mFdWatch THEN Schedule("close") ELSE UNCHANGED <<callbacks, mInflight>>
    /\ UNCHANGED <<watchVars_, mWatchLock, looperAt, counted, connectAt, notified, closes, lateWatch, ioVars>>

\* ... then, if there is a watch, wait ...
DisposeChecks ==
    /\ ownerAt = "dispose"
    /\ ownerAt' = IF mFdWatch THEN "wait" ELSE "unlisten"
    /\ UNCHANGED <<watchVars_, mWatchLock, looperVars_, connectAt, notified, closes, disposeVars, ioVars>>

\* ... until it is gone ...
DisposeWaits ==
    /\ ownerAt = "wait" /\ ~mFdWatch /\ mWatchLock = NoThread
    /\ ownerAt' = "unlisten"
    /\ UNCHANGED <<watchVars_, mWatchLock, looperVars_, connectAt, notified, closes, disposeVars, ioVars>>

\* ... and setSocketEventListener(nullptr).
DisposeReturns ==
    /\ ownerAt = "unlisten"
    /\ ownerAt' = IF destroying THEN "destroy" ELSE "disposed"
    /\ mListener' = FALSE
    /\ UNCHANGED <<mFdWatch, wants, mConnecting, mWatchLock, looperVars_, connectAt, notified, closes, disposeVars, ioVars>>

\* ~AsyncSocket() of a socket that was disposed of calls dispose() again ...
DestroyCloses ==
    /\ ownerAt = "disposed"
    /\ ownerAt' = "dispose" /\ destroying' = TRUE
    /\ IF mFdWatch THEN Schedule("close") ELSE UNCHANGED <<callbacks, mInflight>>
    /\ UNCHANGED <<watchVars_, mWatchLock, looperAt, counted, connectAt, notified, closes, lateWatch, ioVars>>

\* ... joins the thread ...
DestroyJoins ==
    /\ ownerAt = "destroy"
    /\ ownerAt' = "join" /\ mConnecting' = FALSE
    /\ UNCHANGED <<mFdWatch, wants, mListener, mWatchLock, looperVars_, connectAt, notified, closes, disposeVars, ioVars>>

\* Mutant: mConnectThread is not joined.
DestroyDetaches ==
    /\ ownerAt = "join"
    /\ ownerAt' = "inflight"
    /\ UNCHANGED <<watchVars_, mWatchLock, looperVars_, connectAt, notified, closes, disposeVars, ioVars>>

DestroyJoined ==
    /\ ownerAt = "join" /\ connectAt \in {"none", "done"}
    /\ ownerAt' = "inflight"
    /\ UNCHANGED <<watchVars_, mWatchLock, looperVars_, connectAt, notified, closes, disposeVars, ioVars>>

\* ... and waits for the callbacks in flight.
DestroyEnds ==
    /\ ownerAt = "inflight" /\ mInflight = 0
    /\ ownerAt' = "destroyed" /\ mFdWatch' = FALSE /\ wants' = {}
    /\ UNCHANGED <<mListener, mConnecting, mWatchLock, looperVars_, connectAt, notified, closes, disposeVars, ioVars>>

\* dispose() has returned.
Disposed == ownerAt \in {"disposed", "destroy", "join", "inflight", "destroyed"}

-----------------------------------------------------------------------------
\* connectToPort(), with a thread of its own.
ConnectTries ==
    /\ connectAt = "try"
    /\ connectAt' \in IF mConnecting THEN {"try", "connected"} ELSE {"done"}
    /\ UNCHANGED <<watchVars_, mWatchLock, looperVars_, notified, ownerAt, closes, disposeVars, ioVars>>

ConnectWatches ==
    /\ connectAt = "connected" /\ mWatchLock = NoThread
    /\ connectAt' = "locked" /\ mWatchLock' = "connect" /\ mFdWatch' = TRUE
    /\ Schedule("wantRead")
    /\ lateWatch' = (lateWatch \/ ownerAt = "unlisten" \/ Disposed)
    /\ UNCHANGED <<wants, mListener, mConnecting, looperAt, counted, notified, ownerAt, closes, destroying, ioVars>>

\* The notification is scheduled past mInflight; the thread waits for it with
\* mWatchLock held.
ConnectNotifies ==
    /\ connectAt = "locked"
    /\ connectAt' = "waiting"
    /\ callbacks' = Append(callbacks, "notify")
    /\ UNCHANGED <<watchVars_, mWatchLock, mInflight, looperAt, counted, notified, ownerAt, closes, disposeVars, ioVars>>

\* Mutant: mWatchLock is not released.
ConnectEndsLocked ==
    /\ connectAt = "waiting" /\ notified
    /\ connectAt' = "done" /\ mConnecting' = FALSE
    /\ UNCHANGED <<mFdWatch, wants, mListener, mWatchLock, looperVars_, notified, ownerAt, closes, disposeVars, ioVars>>

ConnectEnds ==
    /\ connectAt = "waiting" /\ notified
    /\ connectAt' = "done" /\ mWatchLock' = NoThread /\ mConnecting' = FALSE
    /\ UNCHANGED <<mFdWatch, wants, mListener, looperVars_, notified, ownerAt, closes, disposeVars, ioVars>>

-----------------------------------------------------------------------------
\* The looper's thread: a callback ...
RunCallback ==
    /\ looperAt = "idle" /\ callbacks # <<>>
    /\ LET cb == Head(callbacks)
       IN  /\ callbacks' = Tail(callbacks)
           /\ mInflight' = mInflight - (IF cb \in {"wantRead", "wantWrite"} THEN 1 ELSE 0)
           /\ wants' = IF mFdWatch /\ cb \in {"wantRead", "wantWrite"} THEN wants \cup {cb} ELSE wants
           /\ looperAt' = IF cb = "close" THEN "close" ELSE "idle"
           /\ counted' = (cb = "close")
           /\ notified' = (notified \/ cb = "notify")
    /\ UNCHANGED <<mFdWatch, mListener, mConnecting, mWatchLock, connectAt, ownerAt, closes, disposeVars, ioVars>>

\* ... or the fd is readable: onRead() looks for a watch and a listener ...
Readable == "wantRead" \in wants /\ (toRead > 0 \/ ~peerOpen)

OnRead ==
    /\ looperAt = "idle" /\ mFdWatch /\ Readable /\ mListener
    /\ looperAt' = "onRead"
    /\ UNCHANGED <<watchVars_, mWatchLock, callbacks, mInflight, counted, threadVars, ioVars>>

\* ... and calls it, if it is still there ...
OnReadCalls ==
    /\ looperAt = "onRead"
    /\ looperAt' = IF mListener THEN "recv" ELSE "null"
    /\ UNCHANGED <<watchVars_, mWatchLock, callbacks, mInflight, counted, threadVars, ioVars>>

\* ... which calls recv(): it takes mWatchLock to look at the watch, and then
\* reads, fails, or finds the connection closed and calls close().
Recv ==
    /\ looperAt = "recv" /\ mWatchLock = NoThread
    /\ \/ toRead > 0 /\ toRead' = toRead - 1 /\ looperAt' = "idle"
       \/ toRead = 0 /\ looperAt' = "close" /\ UNCHANGED toRead
       \/ looperAt' = "idle" /\ UNCHANGED toRead
    /\ counted' = FALSE
    /\ UNCHANGED <<watchVars_, mWatchLock, callbacks, mInflight, threadVars, writeQueue, peerOpen>>

\* onWrite(), only if the fd is not readable: the writer is done with a message
\* and takes the next one.
OnWrite ==
    /\ looperAt = "idle" /\ mFdWatch /\ "wantWrite" \in wants /\ ~Readable
    /\ IF writeQueue > 0 THEN writeQueue' = writeQueue - 1 /\ UNCHANGED wants
       ELSE wants' = wants \ {"wantWrite"} /\ UNCHANGED writeQueue
    /\ UNCHANGED <<mFdWatch, mListener, mConnecting, mWatchLock, looperVars_, threadVars, toRead, peerOpen>>

\* close() on the looper's thread: the watch goes, with mWatchLock held ...
CloseResets ==
    /\ looperAt = "close" /\ mWatchLock = NoThread
    /\ looperAt' = "onClose" /\ mWatchLock' = "looper"
    /\ mFdWatch' = FALSE /\ wants' = {} /\ mConnecting' = FALSE
    /\ UNCHANGED <<mListener, callbacks, mInflight, counted, threadVars, ioVars>>

\* ... the listener is called if there is one ...
CloseCallsListener ==
    /\ looperAt = "onClose"
    /\ looperAt' = IF mListener THEN "inOnClose" ELSE "closed"
    /\ UNCHANGED <<watchVars_, mWatchLock, callbacks, mInflight, counted, threadVars, ioVars>>

\* ... and whoever waits is told.
CloseEnds ==
    /\ looperAt \in {"inOnClose", "closed"}
    /\ looperAt' = "idle" /\ mWatchLock' = NoThread /\ counted' = FALSE
    /\ mInflight' = mInflight - (IF counted THEN 1 ELSE 0)
    /\ UNCHANGED <<watchVars_, callbacks, threadVars, ioVars>>

\* The peer.
PeerSends ==
    /\ mFdWatch /\ peerOpen /\ toRead < MaxReceived
    /\ toRead' = toRead + 1
    /\ UNCHANGED <<watchVars_, mWatchLock, looperVars_, threadVars, writeQueue, peerOpen>>

PeerEnds ==
    /\ PeerCloses /\ mFdWatch /\ peerOpen
    /\ peerOpen' = FALSE
    /\ UNCHANGED <<watchVars_, mWatchLock, looperVars_, threadVars, writeQueue, toRead>>

OwnerCalls == ConnectCall \/ SendCall \/ CloseCall \/ DisposeCloses
OwnerSteps ==
    \/ DisposeChecks \/ DisposeWaits \/ DisposeReturns
    \/ DestroyCloses \/ DestroyJoins \/ DestroyJoined \/ DestroyEnds
ConnectSteps == ConnectTries \/ ConnectWatches \/ ConnectNotifies \/ ConnectEnds
LooperRuns == RunCallback \/ OnReadCalls \/ Recv \/ CloseResets \/ CloseCallsListener \/ CloseEnds

ASNext == OwnerCalls \/ OwnerSteps \/ ConnectSteps \/ LooperRuns \/ OnRead \/ OnWrite \/ PeerSends \/ PeerEnds

ASSpec == ASInit /\ [][ASNext]_asVars

-----------------------------------------------------------------------------
\* Every variable has its type, and mInflight counts the callbacks.
ASTypeOK ==
    /\ {mFdWatch, mListener, mConnecting, counted, notified, destroying, lateWatch, peerOpen} \subseteq BOOLEAN
    /\ wants \subseteq {"wantRead", "wantWrite"}
    /\ mWatchLock \in {NoThread, "connect", "looper"}
    /\ callbacks \in Seq({"wantRead", "wantWrite", "close", "notify"})
    /\ mInflight = Len(SelectSeq(callbacks, LAMBDA cb : cb # "notify")) + (IF counted THEN 1 ELSE 0)
    /\ looperAt \in {"idle", "onRead", "recv", "close", "onClose", "inOnClose", "closed", "null"}
    /\ connectAt \in {"none", "try", "connected", "locked", "waiting", "done"}
    /\ ownerAt \in {"idle", "dispose", "wait", "unlisten", "disposed", "destroy", "join", "inflight", "destroyed"}
    /\ closes \in 0..MaxCloses /\ writeQueue \in 0..WRITE_BUFFER_SIZE /\ toRead \in 0..MaxReceived

\* "Make sure we clean up any outstanding events" (vsock_port_fwd.cpp:103): when
\* dispose() has returned the looper is not in onRead(), and onRead() never calls
\* a listener that dispose() has taken away (AsyncSocket.cpp:124-128), unless
\* connectToPort() made the watch after dispose() had found none.  When the
\* destructor has returned no callback, no thread and no close() that mInflight
\* counts refers to the socket (:54-56).  A close() that recv() runs on the
\* looper's thread is not counted and may still be running.
NothingOutlivesSocket ==
    /\ (Disposed /\ looperAt \in {"onRead", "recv"}) => lateWatch
    /\ looperAt = "null" => lateWatch
    /\ ownerAt = "destroyed" =>
           callbacks = <<>> /\ connectAt = "done" /\ (looperAt = "idle" \/ ~counted)

\* A connection that was made is announced, "we now wait until the notification
\* has been sent out" (AsyncSocket.cpp:280), and the thread ends.  It does not if
\* recv() or close() waits on the looper's thread for mWatchLock, which
\* connectToPort() holds while it waits for the looper.
ConnectIsAnnounced == (connectAt \in {"connected", "locked", "waiting"}) ~> (connectAt = "done")

CloseIsComing == looperAt = "close" \/ \E i \in 1..Len(callbacks) : callbacks[i] = "close"

\* A socket that is disposed of after its connection was announced is destroyed:
\* close(), dispose() and the destructor wait for what still comes.  close() must
\* have found the watch: one that is made between close() and the check in
\* dispose() (AsyncSocket.cpp:190-191) is waited for and never closed.  One that is
\* made later still is closed by the second dispose(), in the destructor.
DisposalEnds ==
    (ownerAt = "dispose" /\ connectAt = "done" /\ (mFdWatch => CloseIsComing))
        ~> (ownerAt = "destroyed" \/ looperAt = "null")
=============================================================================
