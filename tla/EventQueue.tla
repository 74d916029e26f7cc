----------------------------- MODULE EventQueue -----------------------------
(***************************************************************************)
(* The ring buffer between the two threads of a client: read_msg reads     *)
(* events from the server and enqueues them, the GTK timer handle_cmd      *)
(* dequeues one per tick.  They share event_arry, rear, front, the mutex   *)
(* mutx and the condition variable cond.                                   *)
(*                                                                         *)
(* The ring keeps one slot free: rear is the last slot written and front   *)
(* the last slot read, equal when the ring is empty.                       *)
(***************************************************************************)
EXTENDS Integers, Sequences

CONSTANTS
    Event,        \* what the server may send
    EndEvent,     \* Model.max_user * 4: handle_cmd stops the timer on it
    QueueSize,    \* queue_size, 20 in the code
    MaxReads,     \* bound: how many events the server sends
    None          \* nobody holds the mutex; a slot not written yet

ASSUME QueueAssumption ==
    /\ QueueSize \in Nat /\ QueueSize >= 2
    /\ MaxReads \in Nat
    /\ EndEvent \in Event
    /\ None \notin Event \cup {"reader", "timer"}

VARIABLES
    event_arry, rear, front,
    mutx,         \* the thread that holds the mutex, or None
    rpc,          \* where read_msg is
    read_cmd,     \* its local: the event to enqueue
    tpc,          \* where the timer is
    event,        \* handle_cmd's local: the event it dequeued
    received,     \* history: every event enqueued
    handled       \* history: every event dequeued

ringVars == <<event_arry, rear, front>>
readerVars == <<rpc, read_cmd>>
timerVars == <<tpc, event>>
vars == <<event_arry, rear, front, mutx, rpc, read_cmd, tpc, event,
          received, handled>>

Slots == 0 .. QueueSize - 1

\* Fault: the ring is never taken for full.
Full_Never == FALSE

Full == (rear + 1) % QueueSize = front
Empty == rear = front

Init ==
    /\ event_arry = [s \in Slots |-> None]
    /\ rear = 0
    /\ front = 0
    /\ mutx = None
    /\ rpc = "read" /\ read_cmd = None
    /\ tpc = "idle" /\ event = None
    /\ received = <<>>
    /\ handled = <<>>

-----------------------------------------------------------------------------
(* read_msg                                                                *)

\* read_bytes returns an event.
ReadEvent(e) ==
    /\ rpc = "read"
    /\ Len(received) < MaxReads
    /\ read_cmd' = e
    /\ rpc' = "lock"
    /\ UNCHANGED <<ringVars, mutx, timerVars, received, handled>>

\* read_bytes returns -1 on end of file or error: the thread ends.
ReadFails ==
    /\ rpc = "read"
    /\ rpc' = "ended"
    /\ UNCHANGED <<ringVars, mutx, read_cmd, timerVars, received, handled>>

\* pthread_mutex_lock, or the lock that pthread_cond_wait takes on return.
ReaderLock ==
    /\ rpc \in {"lock", "woken"}
    /\ mutx = None
    /\ mutx' = "reader"
    /\ rpc' = "test"
    /\ UNCHANGED <<ringVars, read_cmd, timerVars, received, handled>>

\* The ring is full: pthread_cond_wait releases the mutex and sleeps.
ReaderWait ==
    /\ rpc = "test"
    /\ Full
    /\ rpc' = "waiting"
    /\ mutx' = None
    /\ UNCHANGED <<ringVars, read_cmd, timerVars, received, handled>>

\* POSIX lets pthread_cond_wait return without a signal.
SpuriousWakeup ==
    /\ rpc = "waiting"
    /\ rpc' = "woken"
    /\ UNCHANGED <<ringVars, mutx, read_cmd, timerVars, received, handled>>

\* There is room.  The signal that follows wakes nobody: the timer never waits.
Enqueue ==
    /\ rpc = "test"
    /\ ~Full
    /\ rear' = (rear + 1) % QueueSize
    /\ event_arry' = [event_arry EXCEPT ![rear'] = read_cmd]
    /\ received' = Append(received, read_cmd)
    /\ rpc' = "unlock"
    /\ UNCHANGED <<front, mutx, read_cmd, timerVars, handled>>

\* Fault: the reader keeps the mutex.
ReaderUnlock_Keeps ==
    /\ rpc = "unlock"
    /\ rpc' = "read"
    /\ UNCHANGED <<ringVars, mutx, read_cmd, timerVars, received, handled>>

ReaderUnlock ==
    /\ rpc = "unlock"
    /\ mutx' = None
    /\ rpc' = "read"
    /\ UNCHANGED <<ringVars, read_cmd, timerVars, received, handled>>

-----------------------------------------------------------------------------
(* handle_cmd, one call per tick of the timer                              *)

TimerLock ==
    /\ tpc = "idle"
    /\ mutx = None
    /\ mutx' = "timer"
    /\ tpc' = "test"
    /\ UNCHANGED <<ringVars, readerVars, event, received, handled>>

\* Fault: the early return keeps the mutex.
TimerEmpty_Keeps ==
    /\ tpc = "test"
    /\ Empty
    /\ tpc' = "idle"
    /\ UNCHANGED <<ringVars, mutx, readerVars, event, received, handled>>

\* Nothing to do: unlock and return TRUE.
TimerEmpty ==
    /\ tpc = "test"
    /\ Empty
    /\ mutx' = None
    /\ tpc' = "idle"
    /\ UNCHANGED <<ringVars, readerVars, event, received, handled>>

\* Fault: the reader is not signalled.
Dequeue_NoSignal ==
    /\ tpc = "test"
    /\ ~Empty
    /\ front' = (front + 1) % QueueSize
    /\ event' = event_arry[front']
    /\ handled' = Append(handled, event')
    /\ tpc' = "unlock"
    /\ UNCHANGED <<event_arry, rear, mutx, readerVars, received>>

\* Take the oldest event and signal the reader if it sleeps.
Dequeue ==
    /\ tpc = "test"
    /\ ~Empty
    /\ front' = (front + 1) % QueueSize
    /\ event' = event_arry[front']
    /\ handled' = Append(handled, event')
    /\ rpc' = IF rpc = "waiting" THEN "woken" ELSE rpc
    /\ tpc' = "unlock"
    /\ UNCHANGED <<event_arry, rear, mutx, read_cmd, received>>

\* Unlock, then return FALSE on the end event: GTK drops the timer.  For any
\* other event the game is updated (PushGame) and the timer stays.
TimerUnlock ==
    /\ tpc = "unlock"
    /\ mutx' = None
    /\ tpc' = IF event = EndEvent THEN "stopped" ELSE "idle"
    /\ UNCHANGED <<ringVars, readerVars, event, received, handled>>

-----------------------------------------------------------------------------
Reader == ReaderLock \/ ReaderWait \/ Enqueue \/ ReaderUnlock
Timer == TimerLock \/ TimerEmpty \/ Dequeue \/ TimerUnlock

Next ==
    \/ \E e \in Event : ReadEvent(e)
    \/ ReadFails
    \/ SpuriousWakeup
    \/ Reader
    \/ Timer

Spec == Init /\ [][Next]_vars

-----------------------------------------------------------------------------
TypeOK ==
    /\ event_arry \in [Slots -> Event \cup {None}]
    /\ rear \in Slots
    /\ front \in Slots
    /\ mutx \in {None, "reader", "timer"}
    /\ rpc \in {"read", "lock", "test", "waiting", "woken", "unlock", "ended"}
    /\ read_cmd \in Event \cup {None}
    /\ tpc \in {"idle", "test", "unlock", "stopped"}
    /\ event \in Event \cup {None}
    /\ received \in Seq(Event)
    /\ handled \in Seq(Event)

\* No wakeup is lost: a reader that sleeps on the condition variable does so
\* on a full ring, whichever way lock, test, wait and signal interleave.
SleepsOnlyWhenFull == rpc = "waiting" => Full

\* The queue is the first-in first-out channel the game relies on.
Fifo == INSTANCE BoundedFifo WITH
    Capacity <- QueueSize - 1,
    sent <- received,
    got <- handled,
    open <- tpc # "stopped" /\ ~(tpc = "unlock" /\ event = EndEvent)

ImplementsFifo == Fifo!FifoSpec
=============================================================================
