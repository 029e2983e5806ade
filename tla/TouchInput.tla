----------------------------- MODULE TouchInput -----------------------------
(***************************************************************************)
(* Pointer input of a display: gRPC clients send mouse, touch and raw evdev *)
(* events, QEMU sends multi-touch events, and all of them become evdev      *)
(* events of one virtio-input-android device.  Mouse buttons are pointers   *)
(* that the device tracks; touches get their slots from a SlotRegistry,     *)
(* which knows nothing of the device's current_slot.  A call is a step: the *)
(* registry has no lock, and one client at a time is what it is written     *)
(* for.  A pen is a finger with an identifier of its own.  Pressure, tool   *)
(* and the ellipse of a touch are left out: the pressure of a pointer that  *)
(* moves is always that of its press.                                       *)
(***************************************************************************)
EXTENDS Integers, FiniteSets, SequencesExt

CONSTANTS Fingers,         \* identifiers of touches
          NumPointers,     \* MTS_POINTERS_NUM of SlotRegistry.h
          NumButtons,      \* INPUT_BUTTON__MAX
          Wheels,          \* buttons of the wheel, if wheel_axis is set
          Axes, Positions, \* axes, and values on an axis
          SlotExpiration,  \* mSlotExpiration
          SourceSets,      \* sets of kinds of input that may be mixed
          MaxTouches,      \* bound on the touches of one event
          MaxClock         \* bound on time

Buttons == 0..(NumButtons - 1)
GuestSlots == 0..NumButtons    \* ABS_MT_SLOT of virtio_android_config
NoSlot == -1

ASSUME TouchInputAssumption ==
    /\ NumPointers \in 1..NumButtons /\ Wheels \subseteq Buttons /\ SlotExpiration \in Nat

VARIABLES sources,         \* kinds of input of this behaviour
          guest,           \* what the guest's driver holds: slot, on, at
          tracked_pointers, keymap_button_down, current_slot,
          mlast_bmask,     \* QemuDisplay's
          mIdMap,          \* identifiers that have a slot
          mUsedSlots, mIdLastUsedEpoch,
          clock,
          crowded          \* two touches were down at the same time

deviceOf == <<tracked_pointers, keymap_button_down, current_slot, mlast_bmask>>
registryOf == <<mIdMap, mUsedSlots, mIdLastUsedEpoch, crowded>>
tiVars == <<sources, guest, deviceOf, registryOf, clock>>

Places == [Axes -> Positions]
Origin == [a \in Axes |-> CHOOSE p \in Positions : \A q \in Positions : p <= q]

TIInit ==
    /\ sources \in SourceSets
    /\ guest = [slot |-> 0, on |-> {}, at |-> [s \in GuestSlots |-> Origin]]
    /\ tracked_pointers = [b \in Buttons |-> Origin]
    /\ keymap_button_down = {} /\ current_slot = 0 /\ mlast_bmask = {}
    /\ mIdMap = <<>> /\ mUsedSlots = {} /\ mIdLastUsedEpoch = <<>>
    /\ clock = 0 /\ crowded = FALSE

-----------------------------------------------------------------------------
(* The guest's multi-touch driver: ABS_MT_SLOT selects, if there is such a   *)
(* slot, and the other events are about the slot selected.                   *)

Select(g, slot) == IF slot \in GuestSlots THEN [g EXCEPT !.slot = slot] ELSE g
TrackingId(g, id) == [g EXCEPT !.on = IF id < 0 THEN @ \ {g.slot} ELSE @ \cup {g.slot}]
Position(g, axis, value) == [g EXCEPT !.at[g.slot][axis] = value]
PlaceAt(g, place) == [g EXCEPT !.at[g.slot] = place]

-----------------------------------------------------------------------------
(* The virtio-input-android device; d holds its state and the guest's.       *)

TheDevice == [tracked |-> tracked_pointers, down |-> keymap_button_down,
              slot |-> current_slot, guest |-> guest]

SelectFor(d, slot) == IF slot # d.slot THEN Select(d.guest, slot) ELSE d.guest

\* _mts_pointer_down(), where the button was last.
PointerDown(d, b) ==
    [d EXCEPT !.down = @ \cup {b}, !.slot = b,
              !.guest = PlaceAt(TrackingId(SelectFor(d, b), b), d.tracked[b])]

\* Mutant: the slot of a pointer that went up is taken to be the old one.
PointerUpKeepsSlot(d, b) ==
    [d EXCEPT !.down = @ \ {b}, !.guest = TrackingId(SelectFor(d, b), NoSlot)]

\* _mts_pointer_up().
PointerUp(d, b) ==
    [d EXCEPT !.down = @ \ {b}, !.slot = NoSlot,
              !.guest = TrackingId(SelectFor(d, b), NoSlot)]

\* _mts_pointer_move() of one axis.
PointerMove(d, b, axis, value) ==
    IF d.tracked[b][axis] = value THEN d
    ELSE [d EXCEPT !.slot = b, !.guest = Position(SelectFor(d, b), axis, value)]

\* INPUT_EVENT_KIND_BTN: turning the wheel is ignored, its end is not.
HandleButton(d, b, down) ==
    IF down THEN IF b \in Wheels THEN d ELSE PointerDown(d, b) ELSE PointerUp(d, b)

\* INPUT_EVENT_KIND_ABS: every button that is down moves, and all remember.
HandleAbs(d, axis, value) ==
    LET OneButton(e, b) ==
            [(IF b \in e.down THEN PointerMove(e, b, axis, value) ELSE e)
                EXCEPT !.tracked[b][axis] = value]
    IN  FoldLeft(OneButton, d, [i \in 1..NumButtons |-> i - 1])

\* qemu_input_update_buttons(): an event for every button that changed.
UpdateButtons(d, old, new) ==
    LET OneButton(e, b) == IF (b \in old) = (b \in new) THEN e ELSE HandleButton(e, b, b \in new)
    IN  FoldLeft(OneButton, d, [i \in 1..NumButtons |-> i - 1])

\* QemuDisplay::sendMouseEvent().
SendMouseEvent(place, mask) ==
    LET Move(d, axis) == HandleAbs(d, axis, place[axis])
        after == FoldLeft(Move, UpdateButtons(TheDevice, mlast_bmask, mask), SetToSeq(Axes))
    IN  /\ "mouse" \in sources
        /\ mlast_bmask' = mask
        /\ tracked_pointers' = after.tracked /\ keymap_button_down' = after.down
        /\ current_slot' = after.slot /\ guest' = after.guest
        /\ UNCHANGED <<sources, registryOf, clock>>

\* INPUT_EVENT_KIND_MTT: data for the slot selected, or a slot and its tracking id.
MultiTouchData(axis, value) ==
    /\ "multi-touch" \in sources
    /\ guest' = Position(guest, axis, value)
    /\ UNCHANGED <<sources, deviceOf, registryOf, clock>>

MultiTouchSlot(slot, id) ==
    /\ "multi-touch" \in sources
    /\ guest' = TrackingId(Select(guest, slot), id)
    /\ UNCHANGED <<sources, deviceOf, registryOf, clock>>

\* InputEventSender::send(AndroidEvent): any event, straight to the guest.
SendEvDevEvent(event) ==
    /\ "evdev" \in sources
    /\ guest' = event
    /\ UNCHANGED <<sources, deviceOf, registryOf, clock>>

-----------------------------------------------------------------------------
(* Touches; t holds the registry and the guest's state.                      *)

TheTouches == [ids |-> mIdMap, used |-> mUsedSlots, until |-> mIdLastUsedEpoch,
               crowded |-> crowded, guest |-> guest]

\* findNextFreeSlot().
FreeSlot(used) ==
    LET free == (0..(NumPointers - 1)) \ used
    IN  IF free = {} THEN NoSlot ELSE CHOOSE s \in free : \A r \in free : s <= r

Forget(f, keys) == [k \in DOMAIN f \ keys |-> f[k]]

\* acquireSlot(): of an identifier that has none, with the time it expires at.
AcquireSlot(t, id) ==
    LET slot == FreeSlot(t.used)
    IN  IF id \in DOMAIN t.ids \/ slot = NoSlot THEN t
        ELSE [t EXCEPT !.ids = (id :> slot) @@ @, !.used = @ \cup {slot},
                       !.until = (id :> clock + SlotExpiration) @@ @,
                       !.crowded = @ \/ t.used # {}]

\* releaseSlot(), and what expireOldSlots() removes.
ReleaseSlots(t, ids) ==
    [t EXCEPT !.ids = Forget(@, ids), !.until = Forget(@, ids),
              !.used = @ \ {t.ids[id] : id \in ids}]

\* Touch::toEvDevEvents() and the events sent.  The tracking id of a new touch
\* comes before its slot is selected.  `slot < 0' is never true of a uint32_t, so
\* a touch that got no slot goes on with 0xffffffff: its tracking id is that of
\* a pointer that is up, and no slot is selected.
HandleTouch(t, touch) ==
    LET new == touch.id \notin DOMAIN t.ids
        acquired == AcquireSlot(t, touch.id)
        slot == IF touch.id \in DOMAIN acquired.ids THEN acquired.ids[touch.id] ELSE NoSlot
        registered == IF new THEN TrackingId(t.guest, slot) ELSE t.guest
        placed == PlaceAt(Select(registered, slot), touch.place)
    IN  IF ~touch.pressed
        THEN IF new THEN t
             ELSE ReleaseSlots([acquired EXCEPT !.guest = TrackingId(placed, NoSlot)], {touch.id})
        ELSE [acquired EXCEPT !.guest = placed]

\* expireOldSlots(): one slot after the other goes up, in the order of a hash map.
ExpireOldSlots(t, last) ==
    LET old == {id \in DOMAIN t.until : t.until[id] < clock}
        up == {t.ids[id] : id \in old}
    IN  [ReleaseSlots(t, old) EXCEPT !.guest = [@ EXCEPT !.on = @ \ up, !.slot = IF up = {} THEN @ ELSE last]]

LastExpired(t) ==
    LET old == {id \in DOMAIN t.until : t.until[id] < clock}
    IN  IF old = {} THEN {NoSlot} ELSE {t.ids[id] : id \in old}

\* PointerEventDispatcher::sendEvents() of the touches or strokes of an event.
SendTouches(touches) ==
    LET touched == FoldLeft(HandleTouch, TheTouches, touches)
    IN  /\ "touch" \in sources
        /\ \E last \in LastExpired(touched) :
              LET after == ExpireOldSlots(touched, last)
              IN  /\ guest' = after.guest /\ crowded' = after.crowded
                  /\ mIdMap' = after.ids /\ mUsedSlots' = after.used /\ mIdLastUsedEpoch' = after.until
        /\ UNCHANGED <<sources, deviceOf, clock>>

TimePasses ==
    /\ "touch" \in sources /\ clock < MaxClock
    /\ clock' = clock + 1
    /\ UNCHANGED <<sources, guest, deviceOf, registryOf>>

Touches == [id : Fingers, pressed : BOOLEAN, place : Places]

EvDevEvents ==
    {Select(guest, s) : s \in GuestSlots \cup {NoSlot}} \cup {TrackingId(guest, id) : id \in {NoSlot, 0}}
        \cup {Position(guest, a, p) : a \in Axes, p \in Positions}

TINext ==
    \/ \E place \in Places, mask \in SUBSET Buttons : SendMouseEvent(place, mask)
    \/ \E a \in Axes, p \in Positions : MultiTouchData(a, p)
    \/ \E s \in GuestSlots, id \in {NoSlot, 0} : MultiTouchSlot(s, id)
    \/ \E event \in EvDevEvents : SendEvDevEvent(event)
    \/ \E n \in 0..MaxTouches : \E touches \in [1..n -> Touches] : SendTouches(touches)
    \/ TimePasses

-----------------------------------------------------------------------------
\* Every variable has its type, a slot in use has one identifier, which has a
\* time to expire at.
TITypeOK ==
    /\ sources \subseteq {"mouse", "touch", "multi-touch", "evdev"}
    /\ guest \in [slot : GuestSlots, on : SUBSET GuestSlots, at : [GuestSlots -> Places]]
    /\ tracked_pointers \in [Buttons -> Places] /\ keymap_button_down \subseteq Buttons
    /\ current_slot \in Buttons \cup {NoSlot} /\ mlast_bmask \subseteq Buttons
    /\ DOMAIN mIdMap \subseteq Fingers /\ DOMAIN mIdLastUsedEpoch = DOMAIN mIdMap
    /\ mUsedSlots = Range(mIdMap) /\ mUsedSlots \subseteq 0..(NumPointers - 1)
    /\ Cardinality(mUsedSlots) = Cardinality(DOMAIN mIdMap)
    /\ clock \in 0..MaxClock /\ crowded \in BOOLEAN

\* The guest sees the pointers of the host.  With a mouse alone, the contacts of
\* the guest are the buttons that are down, each where the mouse is: the device
\* selects "the right slot" (virtio-input-android.c:427) before it moves one.
\* With touches of one finger at a time, there is a contact exactly while a slot
\* is in use, whether the finger was lifted or its slot expired.
GuestSeesPointers ==
    /\ sources = {"mouse"} =>
          /\ guest.on = keymap_button_down
          /\ \A b \in keymap_button_down : guest.at[b] = tracked_pointers[b]
    /\ (sources = {"touch"} /\ ~crowded) => guest.on = mUsedSlots

\* "Only register slot in guest if it as not yet registered"
\* (PointerEventDispatcher.cpp:111): every slot in use is registered in the
\* guest, and no other.  Not so with a second finger, whose tracking id goes to
\* the slot of the first.
SlotsAreRegistered == sources = {"touch"} => guest.on = mUsedSlots
=============================================================================
