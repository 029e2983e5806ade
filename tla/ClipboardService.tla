-------------------------- MODULE ClipboardService --------------------------
(***************************************************************************)
(* The clipboard service: gRPC clients that set the clipboard or stream    *)
(* its changes, and the clipboard device of the guest.  A stream is a      *)
(* ClipDataEventStreamWriter: an event listener of the service on top of a *)
(* WithSimpleQueueWriter.  fireEvent() holds mListenerLock while the       *)
(* listeners run, so an event reaches all of them in one step; every other *)
(* access to what threads share is a step of its own.                      *)
(***************************************************************************)
EXTENDS Integers, Sequences

CONSTANTS Clients,       \* peers; each has at most one stream and one setClipboard() call
          Texts,         \* clipboard contents
          MaxConnects,   \* bound on connections of the guest's clipboard device
          MaxUpdates     \* bound on changes of the clipboard

ASSUME ClipboardAssumption == {MaxConnects, MaxUpdates} \subseteq Nat

Empty == "empty"
Android == "android"
Contents == Texts \cup {Empty}

VARIABLES device,       \* number of the connected device, 0 for none
          connects, updates,
          mClipboardData,                \* of the connected device
          listenerOn,                    \* device with the service's callback
          mClipboardListenerRegistered,
          guestFires,   \* texts that the device stored and will fire next
          setting,      \* per client: text that setClipboard() will fire, or {}
          phase,        \* per client: its stream, "none" "read" "built" "open" "finished"
          initial,      \* per client: contents read for the first event
          subscribed,   \* clients whose stream is in the service's mListeners
          mLastEvent, mWriteQueue, mWriting,
          nextWrites,   \* clients with a NextWrite() call to come
          due,          \* history, per client: what its stream read, then the text of every change
          unserved      \* history: clients whose stream the service may leave behind

deviceVars == <<device, connects, mClipboardData, listenerOn, mClipboardListenerRegistered>>
writerVars == <<mWriteQueue, mWriting, nextWrites>>
historyVars == <<due, unserved>>
csVars == <<deviceVars, updates, guestFires, setting, phase, initial, subscribed, mLastEvent, writerVars, historyVars>>

CSInit ==
    /\ device = 0 /\ connects = 0 /\ updates = 0 /\ listenerOn = 0
    /\ mClipboardData = Empty /\ mClipboardListenerRegistered = FALSE
    /\ guestFires = {} /\ setting = [c \in Clients |-> {}]
    /\ phase = [c \in Clients |-> "none"] /\ subscribed = {} /\ nextWrites = {}
    /\ initial = [c \in Clients |-> Empty] /\ mLastEvent = initial
    /\ due = initial /\ unserved = {}
    /\ mWriteQueue = [c \in Clients |-> <<>>] /\ mWriting = [c \in Clients |-> FALSE]

\* The guest connects its clipboard again, or for the first time: the streams
\* there are were opened without a forwarder on this device.
Connect ==
    /\ connects < MaxConnects /\ guestFires = {}
    /\ connects' = connects + 1 /\ device' = connects + 1
    /\ mClipboardData' = Empty
    /\ unserved' = {c \in Clients : phase[c] # "none"}
    /\ UNCHANGED <<listenerOn, mClipboardListenerRegistered, updates, guestFires, setting, phase, initial,
                   subscribed, mLastEvent, writerVars, due>>

\* Mutant: a client's own event is not remembered.
EventArrivesForgetful(text, source, to) ==
    LET told == {c \in to : mLastEvent[c] # text} \ {source}
    IN  /\ mLastEvent' = [c \in Clients |-> IF c \in told THEN text ELSE mLastEvent[c]]
        /\ mWriteQueue' = [c \in Clients |-> IF c \in told THEN Append(mWriteQueue[c], text) ELSE mWriteQueue[c]]
        /\ nextWrites' = nextWrites \cup told
        /\ UNCHANGED mWriting

\* ClipDataEventStreamWriter::eventArrived() of the streams in `to': an event
\* that the client knows is ignored, its own event is only remembered.
EventArrives(text, source, to) ==
    LET aware == {c \in to : mLastEvent[c] = text}
        told == to \ (aware \cup {source})
    IN  /\ mLastEvent' = [c \in Clients |-> IF c \in to THEN text ELSE mLastEvent[c]]
        /\ mWriteQueue' = [c \in Clients |-> IF c \in told THEN Append(mWriteQueue[c], text) ELSE mWriteQueue[c]]
        /\ nextWrites' = nextWrites \cup told
        /\ UNCHANGED mWriting

\* ClipboardServiceImpl::fireEvent().
Fire(text, source) == EventArrives(text, source, subscribed)

\* History: the clipboard has changed, whoever is told; a stream that is being
\* opened with something else is overtaken.
Changed(text) ==
    /\ due' = [c \in Clients |-> IF phase[c] = "none" THEN due[c] ELSE text]
    /\ unserved' = unserved \cup {c \in Clients : phase[c] \in {"read", "built"} /\ initial[c] # text}

\* The guest's update is complete: the device stores it ...
GuestUpdates(text) ==
    /\ device > 0 /\ guestFires = {} /\ updates < MaxUpdates
    /\ updates' = updates + 1
    /\ mClipboardData' = text /\ guestFires' = {text}
    /\ UNCHANGED <<device, connects, listenerOn, mClipboardListenerRegistered, setting, phase, initial,
                   subscribed, mLastEvent, writerVars, historyVars>>

\* ... and fires its event, which the callback forwards.
DeviceFires ==
    \E text \in guestFires :
        /\ guestFires' = {}
        /\ IF listenerOn = device THEN Fire(text, Android)
           ELSE UNCHANGED <<mLastEvent, writerVars>>
        /\ Changed(text)
        /\ UNCHANGED <<deviceVars, updates, setting, phase, initial, subscribed>>

\* setClipboard(): setContents() sends the text to the guest ...
SetClipboard(c, text) ==
    /\ device > 0 /\ setting[c] = {} /\ updates < MaxUpdates
    /\ updates' = updates + 1
    /\ setting' = [setting EXCEPT ![c] = {text}]
    /\ UNCHANGED <<deviceVars, guestFires, phase, initial, subscribed, mLastEvent, writerVars, historyVars>>

\* ... and the service fires an event of its own.
SetClipboardFires(c) ==
    \E text \in setting[c] :
        /\ setting' = [setting EXCEPT ![c] = {}]
        /\ Fire(text, c) /\ Changed(text)
        /\ UNCHANGED <<deviceVars, updates, guestFires, phase, initial, subscribed>>

\* streamClipboard(): the contents are read and the forwarder registered, once.
StreamReads(c) ==
    /\ phase[c] = "none"
    /\ phase' = [phase EXCEPT ![c] = "read"]
    /\ initial' = [initial EXCEPT ![c] = IF device > 0 THEN mClipboardData ELSE Empty]
    /\ IF device > 0 /\ ~mClipboardListenerRegistered
       THEN mClipboardListenerRegistered' = TRUE /\ listenerOn' = device
       ELSE UNCHANGED <<mClipboardListenerRegistered, listenerOn>>
    /\ due' = [due EXCEPT ![c] = initial'[c]]
    /\ unserved' = IF device > 0 /\ listenerOn' = device THEN unserved \ {c} ELSE unserved \cup {c}
    /\ UNCHANGED <<device, connects, mClipboardData, updates, guestFires, setting, subscribed, mLastEvent, writerVars>>

\* The writer is made, and its base class adds it to the listeners.
StreamConstructs(c) ==
    /\ phase[c] = "read"
    /\ phase' = [phase EXCEPT ![c] = "built"]
    /\ subscribed' = subscribed \cup {c}
    /\ mLastEvent' = [mLastEvent EXCEPT ![c] = Empty]
    /\ UNCHANGED <<deviceVars, updates, guestFires, setting, initial, writerVars, historyVars>>

\* stream->eventArrived(event) with what was read.
StreamFirstEvent(c) ==
    /\ phase[c] = "built"
    /\ phase' = [phase EXCEPT ![c] = "open"]
    /\ EventArrives(initial[c], Android, {c})
    /\ initial' = [initial EXCEPT ![c] = Empty]
    /\ UNCHANGED <<deviceVars, updates, guestFires, setting, subscribed, historyVars>>

\* NextWrite(): StartWrite() of the first message unless one is being written.
NextWrite(c) ==
    /\ c \in nextWrites
    /\ nextWrites' = nextWrites \ {c}
    /\ mWriting' = [mWriting EXCEPT ![c] = @ \/ mWriteQueue[c] # <<>>]
    /\ UNCHANGED <<deviceVars, updates, guestFires, setting, phase, initial, subscribed, mLastEvent, mWriteQueue, historyVars>>

\* Mutant: the next message waits for another Write().
OnWriteDoneStops(c) ==
    /\ mWriting[c]
    /\ mWriteQueue' = [mWriteQueue EXCEPT ![c] = Tail(@)]
    /\ mWriting' = [mWriting EXCEPT ![c] = FALSE]
    /\ UNCHANGED <<nextWrites, deviceVars, updates, guestFires, setting, phase, initial, subscribed, mLastEvent, historyVars>>

\* OnWriteDone(), before its NextWrite().
OnWriteDone(c) ==
    /\ mWriting[c]
    /\ mWriteQueue' = [mWriteQueue EXCEPT ![c] = Tail(@)]
    /\ mWriting' = [mWriting EXCEPT ![c] = FALSE]
    /\ nextWrites' = nextWrites \cup {c}
    /\ UNCHANGED <<deviceVars, updates, guestFires, setting, phase, initial, subscribed, mLastEvent, historyVars>>

\* OnCancel(): unsubscribe() and Finish().
OnCancel(c) ==
    /\ phase[c] = "open"
    /\ phase' = [phase EXCEPT ![c] = "finished"]
    /\ subscribed' = subscribed \ {c}
    /\ UNCHANGED <<deviceVars, updates, guestFires, setting, initial, mLastEvent, writerVars, historyVars>>

\* OnDone(): no operation is outstanding, the writer is deleted.
OnDone(c) ==
    /\ phase[c] = "finished" /\ ~mWriting[c] /\ c \notin nextWrites
    /\ phase' = [phase EXCEPT ![c] = "none"]
    /\ mWriteQueue' = [mWriteQueue EXCEPT ![c] = <<>>]
    /\ mLastEvent' = [mLastEvent EXCEPT ![c] = Empty]
    /\ due' = [due EXCEPT ![c] = Empty] /\ unserved' = unserved \ {c}
    /\ UNCHANGED <<deviceVars, updates, guestFires, setting, initial, subscribed, mWriting, nextWrites>>

StreamSteps(c) == StreamConstructs(c) \/ StreamFirstEvent(c) \/ SetClipboardFires(c)
WriterSteps(c) == NextWrite(c) \/ OnWriteDone(c)

CSNext ==
    \/ Connect \/ DeviceFires
    \/ \E text \in Texts : GuestUpdates(text) \/ \E c \in Clients : SetClipboard(c, text)
    \/ \E c \in Clients : StreamReads(c) \/ StreamSteps(c) \/ WriterSteps(c) \/ OnCancel(c) \/ OnDone(c)

CSSpec == CSInit /\ [][CSNext]_csVars

-----------------------------------------------------------------------------
\* Every variable has its type, and a write has its message in the queue.
CSTypeOK ==
    /\ device \in 0..connects /\ connects \in 0..MaxConnects /\ updates \in 0..MaxUpdates
    /\ listenerOn \in 0..connects /\ mClipboardListenerRegistered \in BOOLEAN
    /\ mClipboardData \in Contents /\ guestFires \subseteq Texts
    /\ setting \in [Clients -> SUBSET Texts] /\ {initial, mLastEvent, due} \subseteq [Clients -> Contents]
    /\ phase \in [Clients -> {"none", "read", "built", "open", "finished"}]
    /\ subscribed \subseteq Clients /\ nextWrites \subseteq Clients /\ unserved \subseteq Clients
    /\ mWriteQueue \in [Clients -> Seq(Contents)] /\ mWriting \in [Clients -> BOOLEAN]
    /\ \A c \in Clients : mWriting[c] => mWriteQueue[c] # <<>>

\* "Each change triggers a new ClipData message to be sent through the stream"
\* (ClipboardService.cpp:97-98): an open stream was told last of the last change
\* since it was opened, whether the guest or a client made it, or of what the
\* device held then.  Not promised to `unserved' streams, which the code does leave
\* behind: those opened while no device is connected or after the guest has
\* reconnected its clipboard (the forwarder is registered once, and only with a
\* device that is there), those open when it connects, and those that a change
\* overtook between the two halves of streamClipboard().
StreamsAreUpToDate ==
    \A c \in Clients : (phase[c] = "open" /\ c \notin unserved) => mLastEvent[c] = due[c]

\* Every message queued for an open stream is written: Write() on one thread
\* and OnWriteDone() on another never leave the queue without a writer.
MessagesAreWritten ==
    \A c \in Clients : (mWriteQueue[c] # <<>>) ~> (mWriteQueue[c] = <<>>)
=============================================================================
