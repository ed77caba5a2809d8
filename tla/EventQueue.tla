----------------------------- MODULE EventQueue -----------------------------
(***************************************************************************)
(* The skin event queue of EmulatorQtWindow (emulator-qt-window.cpp):      *)
(* mSkinEventQueue, filled by slot_queueEvent and drained by               *)
(* slot_pollEvent.  Both slots run on the Qt UI thread, so each call is    *)
(* one atomic step here; the QEMU thread reaches slot_pollEvent through a  *)
(* queued signal and a semaphore (modelled in EmulatorEventLoop).          *)
(*                                                                         *)
(* An event is a record [id, type, slot]: id numbers the push that created *)
(* it, type is its SkinEventType, and slot is a ghost field naming the     *)
(* push that first took the queue position the event sits in (a           *)
(* coalescing push takes over the position of an older event).  Event     *)
(* payloads are abstracted to the push id.                                 *)
(***************************************************************************)
EXTENDS Naturals, Sequences, SequencesExt

CONSTANTS
    Types,        \* the SkinEventType values pushed in the model
    Coalescing,   \* kEventScrollBarChanged and kEventZoomedWindowResized
    MaxPush       \* bound on the number of pushes of a behaviour

ASSUME /\ Coalescing \subseteq Types
       /\ MaxPush \in Nat \ {0}

VARIABLES
    mSkinEventQueue,  \* QQueue<SkinEvent*> of EmulatorQtWindow
    pushed,           \* history: pushed[i] is the type of the i-th push
    polled            \* history: the events slot_pollEvent handed out

qvars == <<mSkinEventQueue, pushed, polled>>

Event == [id : 1..MaxPush, type : Types, slot : 1..MaxPush]

-----------------------------------------------------------------------------
(* The first queued event of the same type as t, or 0 (the loop with       *)
(* `break` in slot_queueEvent).                                            *)
SameTypeIndex(q, t) == SelectInSeq(q, LAMBDA e : e.type = t)

(* Mutant: every type coalesces, the kEventScrollBarChanged /              *)
(* kEventZoomedWindowResized test dropped.                                 *)
ReplacesAnyType(q, t) == SameTypeIndex(q, t) # 0

(* Whether a push of type t replaces a queued event instead of appending. *)
Replaces(q, t) == t \in Coalescing /\ SameTypeIndex(q, t) # 0

(* Mutant: the replacing event is deleted instead of the replaced one.     *)
QueueAfterPushKeepOld(q, ev) ==
    IF Replaces(q, ev.type) THEN q ELSE Append(q, ev)

(* The queue after slot_queueEvent(ev): a coalescing event replaces the    *)
(* first queued event of its type in place, every other event goes to the *)
(* tail.                                                                   *)
QueueAfterPush(q, ev) ==
    IF Replaces(q, ev.type)
    THEN LET i == SameTypeIndex(q, ev.type)
         IN  [q EXCEPT ![i] = [ev EXCEPT !.slot = q[i].slot]]
    ELSE Append(q, ev)

(* slot_queueEvent: push an event of type t.  The call of the ui agent's  *)
(* onNewUserEvent when the queue was empty and the agent is installed      *)
(* (lines 771, 801-803) changes no state of this code: the QEMU thread     *)
(* drains the queue from its periodic refresh whether or not it is told.  *)
slot_queueEvent(t) ==
    LET ev == [id |-> Len(pushed) + 1, type |-> t, slot |-> Len(pushed) + 1]
    IN  /\ Len(pushed) < MaxPush
        /\ mSkinEventQueue' = QueueAfterPush(mSkinEventQueue, ev)
        /\ pushed' = Append(pushed, t)
        /\ UNCHANGED polled

(* Mutant: the newest event is taken instead of the oldest.               *)
slot_pollEventNewest ==
    /\ mSkinEventQueue # <<>>
    /\ polled' = Append(polled, Last(mSkinEventQueue))
    /\ mSkinEventQueue' = Front(mSkinEventQueue)
    /\ UNCHANGED pushed

(* slot_pollEvent with a queued event: dequeue the head and hand it out.   *)
slot_pollEvent ==
    /\ mSkinEventQueue # <<>>
    /\ polled' = Append(polled, Head(mSkinEventQueue))
    /\ mSkinEventQueue' = Tail(mSkinEventQueue)
    /\ UNCHANGED pushed

(* Mutant: an empty poll reports *hasEvent = true with a zeroed event.    *)
slot_pollEventEmptyHasEvent ==
    /\ mSkinEventQueue = <<>>
    /\ polled' = Append(polled, [id |-> 0, type |-> CHOOSE t \in Types : TRUE, slot |-> 0])
    /\ UNCHANGED <<mSkinEventQueue, pushed>>

(* slot_pollEvent on an empty queue: *hasEvent = false.                    *)
slot_pollEventEmpty ==
    /\ mSkinEventQueue = <<>>
    /\ UNCHANGED <<mSkinEventQueue, pushed, polled>>

Init ==
    /\ mSkinEventQueue = <<>>
    /\ pushed = <<>>
    /\ polled = <<>>

Next ==
    \/ \E t \in Types : slot_queueEvent(t)
    \/ slot_pollEvent
    \/ slot_pollEventEmpty

Spec == Init /\ [][Next]_qvars

-----------------------------------------------------------------------------
(* Properties                                                              *)

TypeOK ==
    /\ mSkinEventQueue \in Seq(Event)
    /\ pushed \in Seq(Types)
    /\ polled \in Seq(Event)

(* Position order: the consumer receives the queue positions in the order *)
(* they were first taken, so two non-coalescing events come out in push   *)
(* order, and a coalescing event comes out where its oldest predecessor   *)
(* stood (slot_queueEvent replaces in place, slot_pollEvent dequeues the  *)
(* head).                                                                  *)
PollOrderIsSlotOrder ==
    \A i, j \in 1..Len(polled) : i < j => polled[i].slot < polled[j].slot

(* Latest wins: a queued coalescing event always carries the payload of   *)
(* the most recent push of its type, and at most one event of a           *)
(* coalescing type is ever queued.                                        *)
CoalescedIsLatest ==
    \A i \in 1..Len(mSkinEventQueue) :
        LET e == mSkinEventQueue[i]
        IN  e.type \in Coalescing =>
                /\ \A k \in 1..Len(pushed) : pushed[k] = e.type => k <= e.id
                /\ \A j \in 1..Len(mSkinEventQueue) :
                       mSkinEventQueue[j].type = e.type => j = i

(* No loss, no duplicate: every push is queued or handed out exactly once, *)
(* unless a later push of the same coalescing type superseded it.         *)
NoLossNoDuplicate ==
    \A k \in 1..Len(pushed) :
        LET live == {i \in 1..Len(mSkinEventQueue) : mSkinEventQueue[i].id = k}
            out  == {i \in 1..Len(polled) : polled[i].id = k}
            superseded == /\ pushed[k] \in Coalescing
                          /\ \E m \in (k + 1)..Len(pushed) : pushed[m] = pushed[k]
        IN  \/ Cardinality(live) + Cardinality(out) = 1
            \/ /\ superseded
               /\ live = {} /\ out = {}

=============================================================================
