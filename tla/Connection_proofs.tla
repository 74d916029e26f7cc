------------------------- MODULE Connection_proofs -------------------------
(***************************************************************************)
(* Proofs about EventQueue and about Connection, which is made of it.      *)
(*                                                                         *)
(* The ring, for every size, set of events and number of reads, holds the  *)
(* events received and not yet handled, the oldest in the slot after       *)
(* front: from that the queue is a first-in first-out channel, and a       *)
(* thread that sleeps does so on a full ring.                              *)
(*                                                                         *)
(* The connection, for ints and names of any size, any number of users and *)
(* of events, and any way to cut the bytes: what read_msg takes off the    *)
(* wire are the events that the server has written, and the names come as  *)
(* the server's memory holds them.  The invariant says of each direction   *)
(* that the bytes on their way, behind those that the reader has of its    *)
(* message, are the messages from the reader's to the writer's.            *)
(***************************************************************************)
EXTENDS Connection, WellFoundedInduction, FiniteSetTheorems, TLAPS

(* The ring.                                                               *)

\* The slot j places after f, 0 <= j < QueueSize.
Slot(f, j) == IF f + j >= QueueSize THEN f + j - QueueSize ELSE f + j

Waiting == Len(received) - Len(handled)

RingInv ==
    /\ Waiting \in 0 .. QueueSize - 1
    /\ rear = Slot(front, Waiting)
    /\ \A j \in 1 .. Waiting : event_arry[Slot(front, j)] = received[Len(handled) + j]

LockInv ==
    /\ rpc \in {"test", "unlock"} <=> mutx = "reader"
    /\ tpc \in {"test", "unlock"} <=> mutx = "timer"

\* The reader has an event in its hands, and so has the timer.
InHand ==
    /\ rpc \in {"lock", "test", "waiting", "woken"} => read_cmd \in Event

Inv == TypeOK /\ RingInv /\ LockInv /\ InHand /\ SleepsOnlyWhenFull

LEMMA NextSlot ==
    ASSUME NEW s \in Slots
    PROVE  (s + 1) % QueueSize = Slot(s, 1) /\ Slot(s, 1) \in Slots
BY QueueAssumption, SMT DEF Slots, Slot

LEMMA SlotType ==
    ASSUME NEW f \in Slots, NEW j \in 0 .. QueueSize
    PROVE  Slot(f, j) \in Slots
BY QueueAssumption, SMT DEF Slots, Slot

LEMMA SlotNext ==
    ASSUME NEW f \in Slots, NEW j \in 0 .. QueueSize - 1
    PROVE  Slot(Slot(f, j), 1) = Slot(f, j + 1) /\ Slot(Slot(f, 1), j) = Slot(f, j + 1)
BY QueueAssumption, SMT DEF Slots, Slot

LEMMA SlotInjective ==
    ASSUME NEW f \in Slots, NEW j \in 0 .. QueueSize - 1, NEW k \in 0 .. QueueSize - 1,
           Slot(f, j) = Slot(f, k)
    PROVE  j = k
BY QueueAssumption, SMT DEF Slots, Slot

\* The tests on the indices say how many events wait.
LEMMA FullEmpty ==
    ASSUME TypeOK, RingInv
    PROVE  /\ Full <=> Waiting = QueueSize - 1
           /\ Empty <=> Waiting = 0
<1>1. front \in Slots /\ rear \in Slots /\ Waiting \in 0 .. QueueSize - 1
  BY DEF TypeOK, RingInv
<1>2. (rear + 1) % QueueSize = Slot(front, Waiting + 1)
  BY <1>1, NextSlot, SlotNext DEF RingInv
<1>3. Slot(front, 0) = front /\ Slot(front, QueueSize) = front
  BY <1>1, QueueAssumption DEF Slot, Slots
<1>4. Waiting + 1 = QueueSize <=> Slot(front, Waiting + 1) = front
  <2>1. CASE Waiting + 1 = QueueSize
    BY <1>3, <2>1
  <2>2. CASE Waiting + 1 # QueueSize
    BY <1>1, <1>3, <2>2, QueueAssumption, SlotInjective
  <2> QED BY <2>1, <2>2
<1>5. Waiting = 0 <=> Slot(front, Waiting) = front
  BY <1>1, <1>3, QueueAssumption, SlotInjective
<1>6. Full <=> Waiting = QueueSize - 1
  BY <1>1, <1>2, <1>4, QueueAssumption DEF Full
<1> QED BY <1>5, <1>6 DEF Empty, RingInv

-----------------------------------------------------------------------------
LEMMA InitInv == Init => Inv
BY QueueAssumption
   DEF Init, Inv, TypeOK, RingInv, LockInv, InHand, SleepsOnlyWhenFull, Slots, Slot, Waiting

\* Enqueue writes the slot after the last one used.
LEMMA EnqueueInv == Inv /\ Enqueue => Inv'
<1> SUFFICES ASSUME Inv, Enqueue PROVE Inv'
  OBVIOUS
<1> DEFINE n == Waiting
<1>1. TypeOK /\ RingInv /\ LockInv /\ read_cmd \in Event
  BY DEF Inv, InHand, Enqueue
<1>2. front \in Slots /\ rear \in Slots /\ rear = Slot(front, n)
  BY <1>1 DEF TypeOK, RingInv
<1>3. n \in 0 .. QueueSize - 2
  BY <1>1, FullEmpty, QueueAssumption DEF Enqueue, RingInv
<1>4. rear' = Slot(front, n + 1) /\ rear' \in Slots
  BY <1>2, <1>3, NextSlot, SlotNext, QueueAssumption DEF Enqueue
<1>5. /\ received' = Append(received, read_cmd) /\ received \in Seq(Event)
      /\ handled' = handled /\ handled \in Seq(Event) /\ front' = front
      /\ event_arry' = [event_arry EXCEPT ![rear'] = read_cmd]
      /\ event_arry \in [Slots -> Event \cup {None}]
  BY <1>1 DEF Enqueue, TypeOK
<1>6. Len(received') = Len(received) + 1 /\ Waiting' = n + 1
  BY <1>5 DEF Waiting
<1>7. RingInv'
  <2>1. ASSUME NEW j \in 1 .. n + 1
        PROVE  event_arry'[Slot(front, j)] = received'[Len(handled) + j]
    <3>1. Slot(front, j) \in Slots
      BY <1>2, <1>3, SlotType, QueueAssumption
    <3>2. CASE j = n + 1
      <4>1. Len(handled) + j = Len(received) + 1
        BY <1>5, <3>2 DEF Waiting
      <4> QED BY <1>4, <1>5, <3>2, <4>1
    <3>3. CASE j # n + 1
      <4>1. j \in 1 .. n /\ Slot(front, j) # rear'
        BY <1>2, <1>3, <1>4, <3>3, SlotInjective, QueueAssumption
      <4>2. event_arry'[Slot(front, j)] = received[Len(handled) + j]
        BY <1>1, <1>5, <3>1, <4>1 DEF RingInv
      <4>3. Len(handled) + j \in 1 .. Len(received)
        BY <1>5, <1>3, <4>1 DEF Waiting
      <4> QED BY <1>1, <1>5, <4>2, <4>3
    <3> QED BY <3>2, <3>3
  <2>2. Waiting' \in 0 .. QueueSize - 1 /\ rear' = Slot(front', Waiting')
    BY <1>3, <1>4, <1>5, <1>6, QueueAssumption
  <2>3. \A j \in 1 .. Waiting' : event_arry'[Slot(front', j)] = received'[Len(handled') + j]
    BY <1>5, <1>6, <2>1
  <2> QED BY <2>2, <2>3 DEF RingInv
<1>8. TypeOK'
  BY <1>1, <1>4, <1>5 DEF Enqueue, TypeOK, timerVars
<1>9. LockInv' /\ InHand' /\ SleepsOnlyWhenFull'
  BY <1>1 DEF Enqueue, LockInv, InHand, SleepsOnlyWhenFull, timerVars
<1> QED BY <1>7, <1>8, <1>9 DEF Inv

\* Dequeue hands out the oldest event that waits.
LEMMA DequeueOldest ==
    ASSUME Inv, Dequeue
    PROVE  /\ Waiting > 0
           /\ front' = Slot(front, 1) /\ front' \in Slots
           /\ event' = received[Len(handled) + 1] /\ event' \in Event
<1>1. TypeOK /\ RingInv /\ front \in Slots
  BY DEF Inv, TypeOK
<1>2. Waiting \in 1 .. QueueSize - 1
  BY <1>1, FullEmpty DEF Dequeue, RingInv
<1>3. front' = Slot(front, 1) /\ front' \in Slots
  BY <1>1, NextSlot DEF Dequeue
<1>4. event' = received[Len(handled) + 1]
  BY <1>1, <1>2, <1>3 DEF Dequeue, RingInv
<1>5. Len(handled) + 1 \in 1 .. Len(received)
  BY <1>1, <1>2 DEF TypeOK, Waiting
<1> QED BY <1>1, <1>2, <1>3, <1>4, <1>5 DEF TypeOK

LEMMA DequeueInv == Inv /\ Dequeue => Inv'
<1> SUFFICES ASSUME Inv, Dequeue PROVE Inv'
  OBVIOUS
<1> DEFINE n == Waiting
<1>1. TypeOK /\ RingInv /\ LockInv /\ InHand /\ front \in Slots
  BY DEF Inv, TypeOK
<1>2. /\ n \in 1 .. QueueSize - 1 /\ front' = Slot(front, 1) /\ front' \in Slots
      /\ event' \in Event
  BY <1>1, DequeueOldest DEF RingInv
<1>3. /\ handled' = Append(handled, event') /\ handled \in Seq(Event)
      /\ received' = received /\ received \in Seq(Event)
      /\ event_arry' = event_arry /\ rear' = rear
  BY <1>1 DEF Dequeue, TypeOK
<1>4. Len(handled') = Len(handled) + 1 /\ Waiting' = n - 1
  BY <1>2, <1>3 DEF Waiting
<1>5. \A j \in 0 .. n - 1 : Slot(front', j) = Slot(front, j + 1)
  BY <1>1, <1>2, SlotNext, QueueAssumption
<1>6. RingInv'
  <2>1. rear' = Slot(front', Waiting')
    BY <1>1, <1>2, <1>3, <1>4, <1>5 DEF RingInv
  <2>2. ASSUME NEW j \in 1 .. n - 1
        PROVE  event_arry'[Slot(front', j)] = received'[Len(handled') + j]
    <3>1. Slot(front', j) = Slot(front, j + 1) /\ j + 1 \in 1 .. n
      BY <1>2, <1>5
    <3>2. Len(handled') + j = Len(handled) + (j + 1)
      BY <1>3, <1>4
    <3> QED BY <1>1, <1>3, <3>1, <3>2 DEF RingInv
  <2>3. Waiting' \in 0 .. QueueSize - 1
    BY <1>2, <1>4, QueueAssumption
  <2>4. \A j \in 1 .. Waiting' : event_arry'[Slot(front', j)] = received'[Len(handled') + j]
    BY <1>4, <2>2
  <2> QED BY <2>1, <2>3, <2>4 DEF RingInv
<1>7. TypeOK'
  BY <1>1, <1>2, <1>3 DEF Dequeue, TypeOK
<1>8. LockInv' /\ InHand' /\ SleepsOnlyWhenFull'
  BY <1>1 DEF Dequeue, LockInv, InHand, SleepsOnlyWhenFull, TypeOK
<1> QED BY <1>6, <1>7, <1>8 DEF Inv

\* The other steps leave the ring and its histories alone.
LEMMA RingUnchanged ==
    ASSUME Inv, UNCHANGED <<ringVars, received, handled>>
    PROVE  RingInv' /\ Full' = Full
BY DEF Inv, RingInv, ringVars, Waiting, Full

LEMMA NextInv == Inv /\ [Next]_vars => Inv'
<1> SUFFICES ASSUME Inv, [Next]_vars PROVE Inv'
  OBVIOUS
<1> USE DEF Inv
<1>1. ASSUME NEW e \in Event, ReadEvent(e) PROVE Inv'
  BY <1>1, RingUnchanged
     DEF ReadEvent, TypeOK, LockInv, InHand, SleepsOnlyWhenFull, ringVars, timerVars
<1>2. CASE ReadFails
  BY <1>2, RingUnchanged
     DEF ReadFails, TypeOK, LockInv, InHand, SleepsOnlyWhenFull, ringVars, timerVars
<1>3. CASE SpuriousWakeup
  BY <1>3, RingUnchanged
     DEF SpuriousWakeup, TypeOK, LockInv, InHand, SleepsOnlyWhenFull, ringVars, timerVars
<1>4. CASE ReaderLock
  BY <1>4, RingUnchanged, QueueAssumption
     DEF ReaderLock, TypeOK, LockInv, InHand, SleepsOnlyWhenFull, ringVars, timerVars
<1>5. CASE ReaderWait
  BY <1>5, RingUnchanged, QueueAssumption
     DEF ReaderWait, TypeOK, LockInv, InHand, SleepsOnlyWhenFull, ringVars, timerVars
<1>6. CASE Enqueue
  BY <1>6, EnqueueInv
<1>7. CASE ReaderUnlock
  BY <1>7, RingUnchanged, QueueAssumption
     DEF ReaderUnlock, TypeOK, LockInv, InHand, SleepsOnlyWhenFull, ringVars, timerVars
<1>8. CASE TimerLock
  BY <1>8, RingUnchanged, QueueAssumption
     DEF TimerLock, TypeOK, LockInv, InHand, SleepsOnlyWhenFull, ringVars, readerVars
<1>9. CASE TimerEmpty
  BY <1>9, RingUnchanged, QueueAssumption
     DEF TimerEmpty, TypeOK, LockInv, InHand, SleepsOnlyWhenFull, ringVars, readerVars
<1>10. CASE Dequeue
  BY <1>10, DequeueInv
<1>11. CASE TimerUnlock
  BY <1>11, RingUnchanged, QueueAssumption
     DEF TimerUnlock, TypeOK, LockInv, InHand, SleepsOnlyWhenFull, ringVars, readerVars
<1>12. CASE UNCHANGED vars
  BY <1>12, RingUnchanged
     DEF vars, TypeOK, LockInv, InHand, SleepsOnlyWhenFull, ringVars
<1> QED BY <1>1, <1>2, <1>3, <1>4, <1>5, <1>6, <1>7, <1>8, <1>9, <1>10, <1>11, <1>12
        DEF Next, Reader, Timer

LEMMA InvAlways == Spec => []Inv
BY InitInv, NextInv, PTL DEF Spec

-----------------------------------------------------------------------------
\* The ring, its indices and both threads' locals are well typed: read_msg and
\* handle_cmd never index event_arry outside its slots.
THEOREM TypeCorrect == Spec => []TypeOK
<1>1. Inv => TypeOK
  BY DEF Inv
<1> QED BY <1>1, InvAlways, PTL

\* read_msg sleeps on the condition variable only while the ring is full: the
\* signal of handle_cmd cannot be lost.
THEOREM NoLostWakeup == Spec => []SleepsOnlyWhenFull
<1>1. Inv => SleepsOnlyWhenFull
  BY DEF Inv
<1> QED BY <1>1, InvAlways, PTL

\* The events that handle_cmd takes are the first of those that read_msg put in.
\* Every step of the ring is a step of the first-in first-out channel or a
\* step that the channel does not see.
THEOREM RingIsFifo == Spec => ImplementsFifo
<1>1. Init => Fifo!FifoInit
  BY DEF Init, Fifo!FifoInit
<1>2. Inv /\ [Next]_vars => [Fifo!FifoNext]_(Fifo!fifoVars)
  <2> SUFFICES ASSUME Inv, [Next]_vars
               PROVE  Fifo!FifoNext \/ UNCHANGED Fifo!fifoVars
    OBVIOUS
  <2>1. CASE Enqueue
    <3>1. TypeOK /\ RingInv /\ LockInv /\ read_cmd \in Event
      BY <2>1 DEF Inv, InHand, Enqueue
    <3>2. Waiting < QueueSize - 1
      BY <2>1, <3>1, FullEmpty, QueueAssumption DEF Enqueue, RingInv
    <3>3. Fifo!Put(read_cmd)
      BY <2>1, <3>2 DEF Enqueue, Fifo!Put, Waiting, timerVars
    <3> QED BY <3>1, <3>3 DEF Fifo!FifoNext
  <2>2. CASE Dequeue
    <3>1. /\ Waiting > 0 /\ event' = received[Len(handled) + 1]
          /\ tpc = "test" /\ tpc' = "unlock"
      BY <2>2, DequeueOldest DEF Dequeue
    <3>2. Len(handled) < Len(received)
      BY <3>1 DEF Inv, TypeOK, Waiting
    <3>3. Fifo!Get
      BY <2>2, <3>1, <3>2 DEF Dequeue, Fifo!Get
    <3> QED BY <3>3 DEF Fifo!FifoNext
  <2>3. CASE TimerUnlock
    BY <2>3 DEF TimerUnlock, Fifo!fifoVars
  <2>4. CASE TimerLock \/ TimerEmpty
    BY <2>4 DEF TimerLock, TimerEmpty, Fifo!fifoVars
  <2>5. CASE \/ ReadFails \/ SpuriousWakeup \/ ReaderLock \/ ReaderWait \/ ReaderUnlock
             \/ \E e \in Event : ReadEvent(e)
    BY <2>5 DEF ReadFails, SpuriousWakeup, ReaderLock, ReaderWait, ReaderUnlock,
                ReadEvent, timerVars, Fifo!fifoVars
  <2>6. CASE UNCHANGED vars
    BY <2>6 DEF vars, Fifo!fifoVars
  <2> QED BY <2>1, <2>2, <2>3, <2>4, <2>5, <2>6 DEF Next, Reader, Timer
<1> QED BY <1>1, <1>2, InvAlways, PTL DEF Spec, ImplementsFifo, Fifo!FifoSpec

-----------------------------------------------------------------------------
(* The wire.                                                               *)

\* flow is made of the messages from m to s - 1, and of last.
IsFlow(flow, msg, m, s, last) ==
    \E cut \in [m .. s -> 0 .. Len(flow)] :
        /\ m <= s /\ cut[m] = 0
        /\ \A j, k \in m .. s : j <= k => cut[j] <= cut[k]
        /\ \A k \in m .. s - 1 : SubSeq(flow, cut[k] + 1, cut[k + 1]) = msg[k]
        /\ SubSeq(flow, cut[s] + 1, Len(flow)) = last

\* The events that read_msg has read, the one in its hands included.
EventsRead ==
    IF rpc \in {"lock", "test", "waiting", "woken"} THEN Append(received, read_cmd)
    ELSE received

\* The messages, an event after the other behind the names, and the places
\* of client and server in them.
Msg == [k \in Nat |-> IF k < EVENTS THEN Message(k) ELSE IntBytes(sent[k - EVENTS + 1])]
MainAt == main.at + Len(EventsRead)
ServerAt == server.at + Len(sent)

Ints == Nat \cup Event
Letters == Bytes \cup (Ints \X (1 .. IntSize))

WireTypes ==
    /\ given \in [Users -> Names] /\ before \in Heap
    /\ server.at \in STARTED .. EVENTS /\ server.buf \in Seq(Letters)
    /\ server = [at |-> server.at, buf |-> server.buf, size |-> server.size]
    /\ main.at \in STARTED .. EVENTS + 2 /\ main.buf \in Seq(Letters)
    /\ main = [at |-> main.at, buf |-> main.buf, size |-> main.size]
    /\ up \in Seq(Letters) /\ down \in Seq(Letters)
    /\ open \in BOOLEAN
    /\ sent \in Seq(Event)

\* What is written of a message is its beginning, and not all of it.
Begun(buf, message) ==
    buf = <<>> \/ (Len(buf) < Len(message) /\ buf = SubSeq(message, 1, Len(buf)))

WriterInv ==
    /\ server.at \notin {SIZE, NAME, EVENTS} => Begun(server.buf, Message(server.at))
    /\ server.at = EVENTS => \E e \in Event : Begun(server.buf, IntBytes(e))
    /\ main.at \in {SIZE, NAME} => Begun(main.buf, Message(main.at))

\* Who waits for a text knows its size.
SizeInv ==
    /\ main.at = JSON \/ IsName(main.at) => main.size = Len(Message(main.at))
    /\ server.at = NAME => server.size = Len(given[Me])

\* The server's memory for the names.
MemoryInv ==
    user_name = [u \in Users |->
        IF u # Me \/ server.at > NAME THEN Stored(before, 0, given[u])
        ELSE IF server.at = NAME THEN Stored(before, 0, server.buf)
        ELSE before]

\* The first int, from the server.
HelloInv ==
    main.at = STARTED =>
        /\ server.at <= SIZE /\ up = <<>>
        /\ server.at = STARTED => main.buf \o down = server.buf
        /\ server.at = SIZE => main.buf \o down = IntBytes(0) /\ server.buf = <<>>

\* The client's name and its size.
UpInv ==
    /\ main.at > STARTED =>
          /\ server.at > STARTED
          /\ server.at <= NAME =>
                IsFlow(server.buf \o up, Msg, server.at,
                       IF main.at <= NAME THEN main.at ELSE ID,
                       IF main.at <= NAME THEN main.buf ELSE <<>>)
          /\ server.at > NAME => main.at > NAME /\ up = <<>>
    /\ main.at \in {SIZE, NAME} => down = <<>>

\* All that follows, from the server.
DownInv ==
    main.at > NAME =>
        /\ server.at <= NAME => main.at = ID /\ main.buf = <<>> /\ down = <<>>
        /\ server.at > NAME => IsFlow(main.buf \o down, Msg, MainAt, ServerAt, server.buf)

\* The client's memory for the names.
NamesInv ==
    users = [u \in Users |-> Stored(UserMemory[u], 0,
        IF main.at > 8 + 2 * u THEN Append(CString(user_name[u]), NUL)
        ELSE IF main.at = 8 + 2 * u THEN main.buf ELSE <<>>)]

EventsInv ==
    /\ server.at < EVENTS => sent = <<>>
    /\ main.at # EVENTS => rpc = "read" /\ received = <<>>
    /\ Len(EventsRead) <= Len(sent) /\ EventsRead = SubSeq(sent, 1, Len(EventsRead))

ConnectionInv ==
    /\ Inv /\ WireTypes /\ WriterInv /\ MemoryInv /\ EventsInv
    /\ main.at <= EVENTS => SizeInv /\ HelloInv /\ UpInv /\ DownInv /\ NamesInv
    /\ main.at = GONE => ~open
    /\ main.at = WILD => server.at > NAME

\* A nonempty set of numbers has a smallest member.
LEMMA SmallestNumber ==
    ASSUME NEW S \in SUBSET Nat, S # {}
    PROVE  \E x \in S : \A y \in S : x <= y
<1> DEFINE Less == {p \in Nat \X Nat : p[1] < p[2]}
<1>1. IsWellFoundedOn(Less, Nat)
  BY NatLessThanWellFounded DEF OpToRel
<1>2. PICK x \in S : \A y \in S : <<y, x>> \notin Less
  <2> HIDE DEF Less
  <2> QED BY <1>1, WFMin
<1>3. ASSUME NEW y \in S PROVE x <= y
  <2>1. <<y, x>> \in Less <=> y < x
    OBVIOUS
  <2> QED BY <1>2, <2>1
<1> QED BY <1>3

-----------------------------------------------------------------------------
(* Parts of sequences.                                                     *)

LEMMA SubSeqParts ==
    ASSUME NEW S, NEW s \in Seq(S), NEW a \in Nat, NEW b \in Nat, a <= b, b <= Len(s)
    PROVE  /\ SubSeq(s, a + 1, b) \in Seq(S)
           /\ Len(SubSeq(s, a + 1, b)) = b - a
           /\ \A k \in 1 .. b - a : SubSeq(s, a + 1, b)[k] = s[a + k]
OBVIOUS

LEMMA SameSeq ==
    ASSUME NEW S, NEW s \in Seq(S), NEW t \in Seq(S), Len(s) = Len(t),
           \A k \in 1 .. Len(s) : s[k] = t[k]
    PROVE  s = t
OBVIOUS

LEMMA JoinParts ==
    ASSUME NEW S, NEW s \in Seq(S), NEW t \in Seq(S)
    PROVE  /\ s \o t \in Seq(S)
           /\ Len(s \o t) = Len(s) + Len(t)
           /\ \A k \in 1 .. Len(s) : (s \o t)[k] = s[k]
           /\ \A k \in 1 .. Len(t) : (s \o t)[Len(s) + k] = t[k]
OBVIOUS

LEMMA WholePart ==
    ASSUME NEW S, NEW s \in Seq(S)
    PROVE  SubSeq(s, 0 + 1, Len(s)) = s
OBVIOUS

LEMMA JoinThree ==
    ASSUME NEW S, NEW s \in Seq(S), NEW t \in Seq(S), NEW u \in Seq(S)
    PROVE  (s \o t) \o u = s \o (t \o u)
<1>1. PICK l \in Nat : l = Len(s)
  OBVIOUS
<1>2. PICK m \in Nat : m = Len(t)
  OBVIOUS
<1>3. PICK n \in Nat : n = Len(u)
  OBVIOUS
<1>4. /\ s \o t \in Seq(S) /\ Len(s \o t) = l + m
      /\ \A k \in 1 .. l : (s \o t)[k] = s[k]
      /\ \A k \in 1 .. m : (s \o t)[l + k] = t[k]
  BY <1>1, <1>2, JoinParts
<1>5. /\ t \o u \in Seq(S) /\ Len(t \o u) = m + n
      /\ \A k \in 1 .. m : (t \o u)[k] = t[k]
      /\ \A k \in 1 .. n : (t \o u)[m + k] = u[k]
  BY <1>2, <1>3, JoinParts
<1> QED BY <1>1, <1>2, <1>3, <1>4, <1>5

LEMMA JoinAppend ==
    ASSUME NEW S, NEW s \in Seq(S), NEW t \in Seq(S), NEW e \in S
    PROVE  s \o Append(t, e) = Append(s \o t, e)
OBVIOUS

\* A sequence is put together from its parts.
LEMMA PartsJoin ==
    ASSUME NEW S, NEW s \in Seq(S), NEW l \in Nat, NEW n \in Nat, l <= n, n <= Len(s)
    PROVE  SubSeq(s, 1, l) \o SubSeq(s, l + 1, n) = SubSeq(s, 1, n)
OBVIOUS

\* Parts of a sequence that is joined with another one.
LEMMA PartOfFirst ==
    ASSUME NEW S, NEW s \in Seq(S), NEW t \in Seq(S),
           NEW a \in Nat, NEW b \in Nat, a <= b, b <= Len(s)
    PROVE  SubSeq(s \o t, a + 1, b) = SubSeq(s, a + 1, b)
<1>1. s \o t \in Seq(S) /\ Len(s \o t) = Len(s) + Len(t) /\ b <= Len(s \o t)
  BY JoinParts
<1>2. \A k \in 1 .. b - a : (s \o t)[a + k] = s[a + k]
  BY JoinParts
<1> QED BY <1>1, <1>2, SubSeqParts, SameSeq

LEMMA PartOfSecond ==
    ASSUME NEW S, NEW s \in Seq(S), NEW t \in Seq(S),
           NEW a \in Nat, NEW b \in Nat, Len(s) <= a, a <= b, b <= Len(s) + Len(t)
    PROVE  SubSeq(s \o t, a + 1, b) = SubSeq(t, (a - Len(s)) + 1, b - Len(s))
<1>1. s \o t \in Seq(S) /\ Len(s \o t) = Len(s) + Len(t)
  BY JoinParts
<1>2. PICK n \in Nat : n = Len(s)
  OBVIOUS
<1>3. a - n \in Nat /\ b - n \in Nat /\ a - n <= b - n /\ b - n <= Len(t)
  BY <1>2
<1>4. /\ SubSeq(s \o t, a + 1, b) \in Seq(S)
      /\ Len(SubSeq(s \o t, a + 1, b)) = b - a
      /\ \A k \in 1 .. b - a : SubSeq(s \o t, a + 1, b)[k] = (s \o t)[a + k]
  BY <1>1, SubSeqParts
<1>5. /\ SubSeq(t, (a - n) + 1, b - n) \in Seq(S)
      /\ Len(SubSeq(t, (a - n) + 1, b - n)) = b - a
      /\ \A k \in 1 .. b - a : SubSeq(t, (a - n) + 1, b - n)[k] = t[(a - n) + k]
  <2>1. (b - n) - (a - n) = b - a
    BY <1>2
  <2> QED BY <1>3, <2>1, SubSeqParts
<1>6. ASSUME NEW k \in 1 .. b - a PROVE (s \o t)[a + k] = t[(a - n) + k]
  <2>1. (a - n) + k \in 1 .. Len(t) /\ n + ((a - n) + k) = a + k
    BY <1>2
  <2> QED BY <1>2, <2>1, JoinParts
<1> QED BY <1>2, <1>4, <1>5, <1>6, SameSeq

LEMMA TailOfJoin ==
    ASSUME NEW S, NEW s \in Seq(S), NEW t \in Seq(S), NEW a \in Nat, a <= Len(s)
    PROVE  SubSeq(s \o t, a + 1, Len(s \o t)) = SubSeq(s, a + 1, Len(s)) \o t
<1> DEFINE p == SubSeq(s, a + 1, Len(s))
           q == SubSeq(s \o t, a + 1, Len(s \o t))
<1>1. s \o t \in Seq(S) /\ Len(s \o t) = Len(s) + Len(t) /\ Len(s) \in Nat /\ Len(t) \in Nat
  BY JoinParts
<1>2. /\ p \in Seq(S) /\ Len(p) = Len(s) - a
      /\ \A k \in 1 .. Len(s) - a : p[k] = s[a + k]
  BY <1>1, SubSeqParts
<1>3. /\ q \in Seq(S) /\ Len(q) = Len(s) + Len(t) - a
      /\ \A k \in 1 .. Len(s) + Len(t) - a : q[k] = (s \o t)[a + k]
  BY <1>1, SubSeqParts
<1> HIDE DEF p, q
<1>4. p \o t \in Seq(S) /\ Len(p \o t) = Len(s) + Len(t) - a
  <2>1. p \o t \in Seq(S) /\ Len(p \o t) = Len(p) + Len(t)
    BY <1>2, JoinParts
  <2> QED BY <1>1, <1>2, <2>1
<1>5. ASSUME NEW k \in 1 .. Len(s) + Len(t) - a PROVE q[k] = (p \o t)[k]
  <2>1. CASE k <= Len(s) - a
    <3>1. (s \o t)[a + k] = s[a + k]
      BY <1>1, <2>1, JoinParts
    <3>2. (p \o t)[k] = p[k]
      BY <1>1, <1>2, <2>1, JoinParts
    <3> QED BY <1>1, <1>2, <1>3, <2>1, <3>1, <3>2
  <2>2. CASE ~(k <= Len(s) - a)
    <3> DEFINE j == k - (Len(s) - a)
    <3>1. j \in 1 .. Len(t) /\ j + (Len(s) - a) = k /\ k \in Int
      BY <1>1, <2>2
    <3> HIDE DEF j
    <3>2. (s \o t)[Len(s) + j] = t[j] /\ (p \o t)[Len(p) + j] = t[j]
      BY <1>2, <3>1, JoinParts
    <3>3. Len(s) + j = a + k /\ Len(p) + j = k
      BY <1>1, <1>2, <3>1
    <3> QED BY <1>3, <3>2, <3>3
  <2> QED BY <2>1, <2>2
<1>6. q = p \o t
  BY <1>3, <1>4, <1>5, SameSeq
<1> QED BY <1>6 DEF p, q

-----------------------------------------------------------------------------
(* Bytes on their way: what a turn of a loop does to them.                 *)

LEMMA FlowEmpty ==
    ASSUME NEW msg, NEW m \in Nat
    PROVE  IsFlow(<<>>, msg, m, m, <<>>)
<1> DEFINE cut == [k \in m .. m |-> 0]
<1>1. cut \in [m .. m -> 0 .. Len(<<>>)] /\ cut[m] = 0
  OBVIOUS
<1>2. SubSeq(<<>>, cut[m] + 1, Len(<<>>)) = <<>>
  BY <1>1
<1>3. m .. m - 1 = {} /\ \A j, k \in m .. m : j <= k => cut[j] <= cut[k]
  OBVIOUS
<1> HIDE DEF cut
<1> QED BY <1>1, <1>2, <1>3 DEF IsFlow

\* A flow of no message is the one that is being written.
LEMMA FlowOfNone ==
    ASSUME NEW S, NEW flow \in Seq(S), NEW msg, NEW m \in Nat, NEW last,
           IsFlow(flow, msg, m, m, last)
    PROVE  flow = last
<1>1. SubSeq(flow, 0 + 1, Len(flow)) = last
  BY DEF IsFlow
<1>2. SubSeq(flow, 0 + 1, Len(flow)) = flow
  BY WholePart
<1> QED BY <1>1, <1>2

LEMMA FlowSame ==
    ASSUME NEW flow, NEW msg, NEW nsg, NEW m \in Nat, NEW s \in Nat, NEW last,
           IsFlow(flow, msg, m, s, last), \A k \in m .. s - 1 : nsg[k] = msg[k]
    PROVE  IsFlow(flow, nsg, m, s, last)
BY DEF IsFlow

\* Bytes are written.
LEMMA FlowWritten ==
    ASSUME NEW S, NEW flow \in Seq(S), NEW more \in Seq(S), NEW msg,
           NEW m \in Nat, NEW s \in Nat, NEW last, IsFlow(flow, msg, m, s, last)
    PROVE  IsFlow(flow \o more, msg, m, s, last \o more)
<1>1. PICK cut \in [m .. s -> 0 .. Len(flow)] :
        /\ m <= s /\ cut[m] = 0
        /\ \A j, k \in m .. s : j <= k => cut[j] <= cut[k]
        /\ \A k \in m .. s - 1 : SubSeq(flow, cut[k] + 1, cut[k + 1]) = msg[k]
        /\ SubSeq(flow, cut[s] + 1, Len(flow)) = last
  BY DEF IsFlow
<1>2. Len(flow) \in Nat /\ Len(flow \o more) \in Nat /\ Len(flow) <= Len(flow \o more)
  BY JoinParts
<1>3. cut \in [m .. s -> 0 .. Len(flow \o more)]
  BY <1>2
<1>4. ASSUME NEW k \in m .. s - 1
      PROVE  SubSeq(flow \o more, cut[k] + 1, cut[k + 1]) = msg[k]
  <2>1. k \in m .. s /\ k + 1 \in m .. s /\ k <= k + 1
    OBVIOUS
  <2>2. cut[k] \in Nat /\ cut[k + 1] \in Nat /\ cut[k] <= cut[k + 1] /\ cut[k + 1] <= Len(flow)
    BY <1>1, <1>2, <2>1
  <2>3. SubSeq(flow \o more, cut[k] + 1, cut[k + 1]) = SubSeq(flow, cut[k] + 1, cut[k + 1])
    BY <2>2, PartOfFirst
  <2> QED BY <1>1, <2>3
<1>5. SubSeq(flow \o more, cut[s] + 1, Len(flow \o more)) = last \o more
  <2>1. cut[s] \in Nat /\ cut[s] <= Len(flow)
    BY <1>1, <1>2
  <2> QED BY <1>1, <2>1, TailOfJoin
<1> QED BY <1>1, <1>3, <1>4, <1>5 DEF IsFlow

\* The last byte of a message is written.
LEMMA FlowDone ==
    ASSUME NEW S, NEW flow \in Seq(S), NEW msg,
           NEW m \in Nat, NEW s \in Nat, IsFlow(flow, msg, m, s, msg[s])
    PROVE  IsFlow(flow, msg, m, s + 1, <<>>)
<1>1. PICK cut \in [m .. s -> 0 .. Len(flow)] :
        /\ m <= s /\ cut[m] = 0
        /\ \A j, k \in m .. s : j <= k => cut[j] <= cut[k]
        /\ \A k \in m .. s - 1 : SubSeq(flow, cut[k] + 1, cut[k + 1]) = msg[k]
        /\ SubSeq(flow, cut[s] + 1, Len(flow)) = msg[s]
  BY DEF IsFlow
<1> DEFINE tuc == [k \in m .. s + 1 |-> IF k <= s THEN cut[k] ELSE Len(flow)]
<1>2. Len(flow) \in Nat
  OBVIOUS
<1>3. tuc \in [m .. s + 1 -> 0 .. Len(flow)] /\ m <= s + 1
  BY <1>1, <1>2
<1>4. tuc[s + 1] = Len(flow) /\ \A k \in m .. s : tuc[k] = cut[k]
  BY <1>1
<1> HIDE DEF tuc
<1>5. tuc[m] = 0
  BY <1>1, <1>4
<1>6. \A j, k \in m .. s + 1 : j <= k => tuc[j] <= tuc[k]
  <2> SUFFICES ASSUME NEW j \in m .. s + 1, NEW k \in m .. s + 1, j <= k
               PROVE  tuc[j] <= tuc[k]
    OBVIOUS
  <2>1. CASE k = s + 1
    BY <1>2, <1>3, <1>4, <2>1
  <2>2. CASE k # s + 1
    <3>1. j \in m .. s /\ k \in m .. s
      BY <2>2
    <3> QED BY <1>1, <1>4, <3>1
  <2> QED BY <2>1, <2>2
<1>7. ASSUME NEW k \in m .. (s + 1) - 1
      PROVE  SubSeq(flow, tuc[k] + 1, tuc[k + 1]) = msg[k]
  <2>1. CASE k = s
    BY <1>1, <1>4, <2>1
  <2>2. CASE k # s
    <3>1. k \in m .. s - 1 /\ k \in m .. s /\ k + 1 \in m .. s
      BY <2>2
    <3> QED BY <1>1, <1>4, <3>1
  <2> QED BY <2>1, <2>2
<1>8. SubSeq(flow, tuc[s + 1] + 1, Len(flow)) = <<>>
  BY <1>2, <1>4
<1> QED BY <1>3, <1>5, <1>6, <1>7, <1>8 DEF IsFlow

\* The last byte of a message is read: the bytes read are the message.
LEMMA FlowRead ==
    ASSUME NEW S, NEW read \in Seq(S), NEW wire \in Seq(S), NEW msg,
           NEW m \in Nat, NEW s \in Nat, NEW last, IsFlow(read \o wire, msg, m, s, last),
           m < s, Len(read) = Len(msg[m])
    PROVE  read = msg[m] /\ IsFlow(wire, msg, m + 1, s, last)
<1> DEFINE r == read \o wire
<1>a. r \in Seq(S) /\ Len(r) = Len(read) + Len(wire)
  BY JoinParts
<1>b. IsFlow(r, msg, m, s, last)
  OBVIOUS
<1> HIDE DEF r
<1>c. PICK flow \in Seq(S) : flow = r
  BY <1>a
<1>d. PICK n \in Nat : n = Len(read)
  OBVIOUS
<1>0. /\ IsFlow(flow, msg, m, s, last) /\ flow = read \o wire
      /\ flow \in Seq(S) /\ Len(flow) = n + Len(wire) /\ n \in Nat /\ Len(wire) \in Nat
      /\ n = Len(read) /\ n <= Len(flow)
  BY <1>a, <1>b, <1>c, <1>d DEF r
<1>1. PICK cut \in [m .. s -> 0 .. Len(flow)] :
        /\ m <= s /\ cut[m] = 0
        /\ \A j, k \in m .. s : j <= k => cut[j] <= cut[k]
        /\ \A k \in m .. s - 1 : SubSeq(flow, cut[k] + 1, cut[k + 1]) = msg[k]
        /\ SubSeq(flow, cut[s] + 1, Len(flow)) = last
  BY <1>0 DEF IsFlow
<1>2. \A k \in m .. s : cut[k] \in Nat /\ cut[k] <= Len(flow)
  BY <1>0, <1>1
<1>3. m \in m .. s - 1 /\ m + 1 \in m .. s
  BY <1>1
<1>4. SubSeq(flow, 0 + 1, cut[m + 1]) = msg[m] /\ cut[m + 1] = n
  <2>1. SubSeq(flow, 0 + 1, cut[m + 1]) = msg[m]
    BY <1>1, <1>3
  <2>2. Len(SubSeq(flow, 0 + 1, cut[m + 1])) = cut[m + 1] - 0
    BY <1>0, <1>2, <1>3, SubSeqParts
  <2>3. n = Len(msg[m])
    BY <1>0
  <2>4. cut[m + 1] \in Nat
    BY <1>2, <1>3
  <2>5. cut[m + 1] - 0 = cut[m + 1]
    BY <2>4
  <2> QED BY <2>1, <2>2, <2>3, <2>5
<1>5. read = msg[m]
  <2>0. 0 <= Len(read) /\ Len(read) \in Nat
    OBVIOUS
  <2>1. SubSeq(read \o wire, 0 + 1, Len(read)) = SubSeq(read, 0 + 1, Len(read))
    BY <2>0, PartOfFirst
  <2>2. SubSeq(read, 0 + 1, Len(read)) = read
    BY WholePart
  <2> QED BY <1>0, <1>4, <2>1, <2>2
<1> DEFINE tuc == [k \in m + 1 .. s |-> cut[k] - n]
<1>6. \A k \in m + 1 .. s : cut[k] \in Nat /\ n <= cut[k] /\ cut[k] <= n + Len(wire)
  <2> SUFFICES ASSUME NEW k \in m + 1 .. s PROVE cut[k] \in Nat /\ n <= cut[k] /\ cut[k] <= n + Len(wire)
    OBVIOUS
  <2>1. k \in m .. s /\ m + 1 <= k
    BY <1>3
  <2> QED BY <1>0, <1>1, <1>2, <1>3, <1>4, <2>1
<1>7. tuc \in [m + 1 .. s -> 0 .. Len(wire)]
  BY <1>0, <1>6
<1>8. \A k \in m + 1 .. s : tuc[k] = cut[k] - n
  OBVIOUS
<1> HIDE DEF tuc
<1>9. tuc[m + 1] = 0 /\ m + 1 <= s
  BY <1>0, <1>3, <1>4, <1>8
<1>10. \A j, k \in m + 1 .. s : j <= k => tuc[j] <= tuc[k]
  <2> SUFFICES ASSUME NEW j \in m + 1 .. s, NEW k \in m + 1 .. s, j <= k
               PROVE  tuc[j] <= tuc[k]
    OBVIOUS
  <2>1. cut[j] <= cut[k]
    <3>1. j \in m .. s /\ k \in m .. s
      BY <1>3
    <3> QED BY <1>1, <3>1
  <2> QED BY <1>0, <1>6, <1>8, <2>1
<1>11. ASSUME NEW a \in Nat, NEW b \in Nat, n <= a, a <= b, b <= n + Len(wire)
       PROVE  SubSeq(flow, a + 1, b) = SubSeq(wire, (a - n) + 1, b - n)
  <2>1. Len(read) <= a /\ b <= Len(read) + Len(wire)
    BY <1>0, <1>11
  <2>2. SubSeq(read \o wire, a + 1, b) = SubSeq(wire, (a - Len(read)) + 1, b - Len(read))
    BY <1>11, <2>1, PartOfSecond
  <2> QED BY <1>0, <2>2
<1>12. ASSUME NEW k \in m + 1 .. s - 1
       PROVE  SubSeq(wire, tuc[k] + 1, tuc[k + 1]) = msg[k]
  <2>1. k \in m + 1 .. s /\ k + 1 \in m + 1 .. s /\ k \in m .. s - 1
        /\ k \in m .. s /\ k + 1 \in m .. s /\ k <= k + 1
    BY <1>3
  <2>2. cut[k] <= cut[k + 1]
    BY <1>1, <2>1
  <2>3. SubSeq(flow, cut[k] + 1, cut[k + 1]) = SubSeq(wire, (cut[k] - n) + 1, cut[k + 1] - n)
    BY <1>6, <1>11, <2>1, <2>2
  <2> QED BY <1>1, <1>8, <2>1, <2>3
<1>13. SubSeq(wire, tuc[s] + 1, Len(wire)) = last
  <2>1. s \in m + 1 .. s /\ s \in m .. s
    BY <1>1, <1>3
  <2>0. PICK l \in Nat : l = n + Len(wire)
    BY <1>0
  <2>a. cut[s] \in Nat /\ n <= cut[s] /\ cut[s] <= l /\ l <= n + Len(wire)
    BY <1>6, <2>0, <2>1
  <2>b. SubSeq(flow, cut[s] + 1, l) = SubSeq(wire, (cut[s] - n) + 1, l - n)
    BY <1>11, <2>a
  <2>2. SubSeq(flow, cut[s] + 1, n + Len(wire)) = SubSeq(wire, (cut[s] - n) + 1, (n + Len(wire)) - n)
    BY <2>0, <2>b
  <2>3. (n + Len(wire)) - n = Len(wire)
    BY <1>0
  <2> QED BY <1>0, <1>1, <1>8, <2>1, <2>2, <2>3
<1> QED BY <1>5, <1>7, <1>9, <1>10, <1>12, <1>13 DEF IsFlow

\* Nobody reads a message to its end that is not written to its end.
LEMMA FlowAhead ==
    ASSUME NEW S, NEW read \in Seq(S), NEW wire \in Seq(S), NEW msg,
           NEW m \in Nat, NEW s \in Nat, NEW last, IsFlow(read \o wire, msg, m, s, last),
           read # <<>>, Len(read) = Len(msg[m]),
           last = <<>> \/ (Len(last) < Len(msg[s]))
    PROVE  m < s
<1>1. m <= s
  BY DEF IsFlow
<1>2. CASE m = s
  <2>0. read \o wire \in Seq(S) /\ Len(read \o wire) = Len(read) + Len(wire)
    BY JoinParts
  <2>a. IsFlow(read \o wire, msg, m, m, last)
    BY <1>2
  <2>b. read \o wire = last
    BY <2>0, <2>a, FlowOfNone
  <2>1. read \o wire = last /\ Len(read \o wire) = Len(read) + Len(wire)
        /\ Len(read) \in Nat /\ Len(wire) \in Nat /\ Len(read) # 0
    BY <2>0, <2>b
  <2>2. last # <<>>
    BY <2>1
  <2> QED BY <1>2, <2>1, <2>2
<1> QED BY <1>1, <1>2

LEMMA FlowWhole ==
    ASSUME NEW S, NEW read \in Seq(S), NEW wire \in Seq(S), NEW msg,
           NEW m \in Nat, NEW s \in Nat, NEW last, IsFlow(read \o wire, msg, m, s, last),
           read # <<>>, Len(read) = Len(msg[m]),
           last = <<>> \/ Len(last) < Len(msg[s])
    PROVE  m < s /\ read = msg[m] /\ IsFlow(wire, msg, m + 1, s, last)
<1>1. m < s
  BY FlowAhead
<1>2. read = msg[m] /\ IsFlow(wire, msg, m + 1, s, last)
  BY <1>1, FlowRead
<1> QED BY <1>1, <1>2

-----------------------------------------------------------------------------
(* Ints, memories and names.                                               *)

LEMMA IntBytesType ==
    ASSUME NEW v \in Ints
    PROVE  /\ IntBytes(v) \in Seq(Letters) /\ Len(IntBytes(v)) = IntSize
           /\ IntBytes(v) # <<>>
<1>1. IntSize \in Nat \ {0}
  BY ConnectionAssumption
<1>2. \A k \in 1 .. IntSize : <<v, k>> \in Letters
  BY DEF Letters
<1> QED BY <1>1, <1>2 DEF IntBytes

\* An int has as many bytes, whatever it is.
LEMMA IntBytesLen ==
    ASSUME NEW v
    PROVE  Len(IntBytes(v)) = IntSize
<1>1. IntSize \in Nat
  BY ConnectionAssumption
<1>2. IntBytes(v) \in Seq({v} \X (1 .. IntSize))
  BY <1>1 DEF IntBytes
<1> QED BY <1>1, <1>2 DEF IntBytes

\* The value comes out of an int's bytes again, and out of its first byte.
LEMMA IntBytesValue ==
    ASSUME NEW v \in Ints
    PROVE  Head(IntBytes(v))[1] = v /\ ValueOf(IntBytes(v)) = v
<1>1. IntSize \in Nat \ {0}
  BY ConnectionAssumption
<1>2. IntBytes(v)[1] = <<v, 1>>
  BY <1>1 DEF IntBytes
<1>3. Head(IntBytes(v)) = IntBytes(v)[1]
  BY IntBytesType
<1>4. Head(IntBytes(v))[1] = v
  BY <1>2, <1>3
<1> QED BY <1>4 DEF ValueOf

LEMMA HeapType ==
    /\ IntSize \in Nat /\ IntSize > 0 /\ NAME_SIZE \in Nat
    /\ \A m \in Heap : m \in Seq(Letters) /\ Len(m) > NAME_SIZE /\ m[Len(m)] = NUL
    /\ \A n \in Names : /\ n \in Seq(Letters) /\ n \in Seq(Bytes \ {NUL})
                        /\ Len(n) \in Nat /\ Len(n) > 0 /\ Len(n) <= NAME_SIZE
    /\ JsonText \in Seq(Letters) /\ NUL \in Letters
    /\ UserSize \in Nat /\ UserSize > NAME_SIZE
    /\ \A u \in Users : /\ UserMemory[u] \in Seq(Letters)
                        /\ Len(UserMemory[u]) = UserSize
                        /\ UserMemory[u][NAME_SIZE + 1] = NUL
<1>1. Bytes \subseteq Letters
  BY DEF Letters
<1>2. \A t : (t \in Seq(Bytes) => t \in Seq(Letters))
             /\ (t \in Seq(Bytes \ {NUL}) => t \in Seq(Letters))
  BY <1>1
<1>3. ASSUME NEW u \in Users
      PROVE  /\ UserMemory[u] \in Seq(Letters) /\ Len(UserMemory[u]) = UserSize
             /\ UserMemory[u][NAME_SIZE + 1] = NUL /\ NUL \in Letters
             /\ UserSize \in Nat /\ UserSize > NAME_SIZE
  <2>1. /\ IntSize \in Nat \ {0} /\ NAME_SIZE \in Nat
        /\ UserSize \in Nat /\ NAME_SIZE + IntSize <= UserSize
        /\ UserMemory[u] \in Seq(Bytes) /\ Len(UserMemory[u]) = UserSize
        /\ \A k \in NAME_SIZE + 1 .. NAME_SIZE + IntSize : UserMemory[u][k] = NUL
    BY ConnectionAssumption
  <2>2. NAME_SIZE + 1 \in NAME_SIZE + 1 .. NAME_SIZE + IntSize
        /\ NAME_SIZE + 1 \in 1 .. UserSize
    BY <2>1
  <2>3. UserMemory[u][NAME_SIZE + 1] \in Bytes
    BY <2>1, <2>2
  <2> QED BY <1>1, <1>2, <2>1, <2>2, <2>3
<1>4. Me \in Users
  BY ConnectionAssumption
<1> QED BY <1>2, <1>3, <1>4, ConnectionAssumption

\* What a memory is after bytes are stored.
IsStored(after, memory, at, bytes) ==
    /\ after \in Seq(Letters)
    /\ Len(after) = Len(memory)
    /\ \A k \in 1 .. Len(memory) : k <= at \/ k > at + Len(bytes) => after[k] = memory[k]
    /\ \A j \in 1 .. Len(bytes) : at + j <= Len(memory) => after[at + j] = bytes[j]

LEMMA StoredType ==
    ASSUME NEW memory \in Seq(Letters), NEW at \in Nat, NEW bytes \in Seq(Letters)
    PROVE  IsStored(Stored(memory, at, bytes), memory, at, bytes)
<1>1. DOMAIN memory = 1 .. Len(memory) /\ Len(memory) \in Nat /\ Len(bytes) \in Nat
  OBVIOUS
<1> DEFINE of(k) == IF k \in at + 1 .. at + Len(bytes) THEN bytes[k - at] ELSE memory[k]
<1>2. ASSUME NEW k \in 1 .. Len(memory) PROVE of(k) \in Letters
  <2>1. CASE k \in at + 1 .. at + Len(bytes)
    <3>1. k - at \in 1 .. Len(bytes)
      BY <2>1
    <3> QED BY <2>1, <3>1
  <2>2. CASE k \notin at + 1 .. at + Len(bytes)
    BY <2>2
  <2> QED BY <2>1, <2>2
<1>3. ASSUME NEW k \in 1 .. Len(memory), k <= at \/ k > at + Len(bytes)
      PROVE  of(k) = memory[k]
  BY <1>1, <1>3
<1>4. ASSUME NEW j \in 1 .. Len(bytes), at + j <= Len(memory)
      PROVE  at + j \in 1 .. Len(memory) /\ of(at + j) = bytes[j]
  <2>1. (at + j) - at = j /\ at + j \in at + 1 .. at + Len(bytes)
    BY <1>1
  <2> QED BY <1>1, <1>4, <2>1
<1>5. Stored(memory, at, bytes) = [k \in 1 .. Len(memory) |-> of(k)]
  BY <1>1 DEF Stored
<1> HIDE DEF of
<1> QED BY <1>1, <1>2, <1>3, <1>4, <1>5 DEF IsStored

LEMMA StoredNone ==
    ASSUME NEW memory \in Seq(Letters)
    PROVE  Stored(memory, 0, <<>>) = memory
<1>1. <<>> \in Seq(Letters) /\ Len(<<>>) = 0 /\ 0 \in Nat
  OBVIOUS
<1>2. /\ Stored(memory, 0, <<>>) \in Seq(Letters)
      /\ Len(Stored(memory, 0, <<>>)) = Len(memory)
      /\ \A k \in 1 .. Len(memory) : k <= 0 \/ k > 0 + Len(<<>>) =>
            Stored(memory, 0, <<>>)[k] = memory[k]
  BY <1>1, StoredType DEF IsStored
<1>3. \A k \in 1 .. Len(memory) : Stored(memory, 0, <<>>)[k] = memory[k]
  BY <1>1, <1>2
<1> QED BY <1>2, <1>3, SameSeq

\* A name that comes in two parts.
LEMMA StoredTwice ==
    ASSUME NEW memory \in Seq(Letters), NEW s \in Seq(Letters), NEW t \in Seq(Letters),
           NEW first, IsStored(first, memory, 0, s),
           NEW second, IsStored(second, first, Len(s), t),
           NEW whole, IsStored(whole, memory, 0, s \o t)
    PROVE  second = whole
<1>0. PICK n \in Nat : n = Len(s)
  OBVIOUS
<1>a. PICK both \in Seq(Letters) : both = s \o t
  BY JoinParts
<1>1. /\ Len(both) = n + Len(t) /\ Len(t) \in Nat /\ Len(memory) \in Nat
      /\ \A k \in 1 .. n : both[k] = s[k]
      /\ \A k \in 1 .. Len(t) : both[n + k] = t[k]
  BY <1>0, <1>a, JoinParts
<1>2. /\ first \in Seq(Letters) /\ Len(first) = Len(memory)
      /\ \A k \in 1 .. Len(memory) : k <= 0 \/ k > 0 + n => first[k] = memory[k]
      /\ \A j \in 1 .. n : 0 + j <= Len(memory) => first[0 + j] = s[j]
  BY <1>0 DEF IsStored
<1>3. /\ second \in Seq(Letters) /\ Len(second) = Len(first)
      /\ \A k \in 1 .. Len(first) : k <= n \/ k > n + Len(t) => second[k] = first[k]
      /\ \A j \in 1 .. Len(t) : n + j <= Len(first) => second[n + j] = t[j]
  BY <1>0 DEF IsStored
<1>4. /\ whole \in Seq(Letters) /\ Len(whole) = Len(memory)
      /\ \A k \in 1 .. Len(memory) : k <= 0 \/ k > 0 + Len(both) => whole[k] = memory[k]
      /\ \A j \in 1 .. Len(both) : 0 + j <= Len(memory) => whole[0 + j] = both[j]
  BY <1>a DEF IsStored
<1>5. ASSUME NEW k \in 1 .. Len(memory) PROVE second[k] = whole[k]
  <2>0. k \in Nat /\ k >= 1 /\ 0 + k = k /\ k <= Len(memory)
    OBVIOUS
  <2>1. CASE k <= n
    <3>1. k \in 1 .. n /\ k \in 1 .. Len(both)
      BY <1>1, <2>0, <2>1
    <3> QED BY <1>1, <1>2, <1>3, <1>4, <2>0, <2>1, <3>1
  <2>2. CASE k > n /\ k <= n + Len(t)
    <3> DEFINE j == k - n
    <3>1. j \in 1 .. Len(t) /\ k = n + j
      BY <1>1, <2>0, <2>2
    <3> HIDE DEF j
    <3>2. second[n + j] = t[j]
      BY <1>2, <1>3, <2>0, <3>1
    <3>3. n + j \in 1 .. Len(both) /\ 0 + (n + j) = n + j /\ n + j <= Len(memory)
      BY <1>1, <2>0, <3>1
    <3>4. whole[n + j] = both[n + j]
      BY <1>4, <3>3
    <3> QED BY <1>1, <3>1, <3>2, <3>4
  <2>3. CASE k > n + Len(t)
    <3>1. k > n /\ k > 0 + n /\ k > 0 + Len(both) /\ k \in 1 .. Len(first)
      BY <1>1, <1>2, <2>0, <2>3
    <3> QED BY <1>2, <1>3, <1>4, <2>0, <2>3, <3>1
  <2> QED BY <1>1, <2>0, <2>1, <2>2, <2>3
<1> QED BY <1>2, <1>3, <1>4, <1>5, SameSeq

LEMMA StoredMore ==
    ASSUME NEW memory \in Seq(Letters), NEW s \in Seq(Letters), NEW t \in Seq(Letters)
    PROVE  Stored(Stored(memory, 0, s), Len(s), t) = Stored(memory, 0, s \o t)
<1>1. Len(s) \in Nat /\ 0 \in Nat /\ s \o t \in Seq(Letters)
  OBVIOUS
<1>2. /\ IsStored(Stored(memory, 0, s), memory, 0, s)
      /\ IsStored(Stored(memory, 0, s \o t), memory, 0, s \o t)
  BY <1>1, StoredType
<1>3. Stored(memory, 0, s) \in Seq(Letters)
  BY <1>2 DEF IsStored
<1>4. IsStored(Stored(Stored(memory, 0, s), Len(s), t), Stored(memory, 0, s), Len(s), t)
  BY <1>1, <1>3, StoredType
<1> QED BY <1>2, <1>4, StoredTwice

\* What strlen sees of a memory.
LEMMA CStringType ==
    ASSUME NEW memory \in Seq(Letters)
    PROVE  CString(memory) \in Seq(Letters) /\ Len(CString(memory)) \in Nat
<1> DEFINE I == {i \in 1 .. Len(memory) : memory[i] = NUL}
           at == SelectInSeq(memory, LAMBDA byte : byte = NUL)
<1>1. at = IF I # {} THEN Min(I) ELSE 0
  BY DEF SelectInSeq
<1>2. at \in 0 .. Len(memory)
  <2>1. CASE I = {}
    BY <1>1, <2>1
  <2>2. CASE I # {}
    <3>1. I \in SUBSET Nat
      OBVIOUS
    <3>2. \E m \in I : \A n \in I : m <= n
      <4> HIDE DEF I
      <4> QED BY <2>2, <3>1, SmallestNumber
    <3>3. Min(I) \in I
      BY <3>2 DEF Min
    <3> QED BY <1>1, <2>2, <3>3
  <2> QED BY <2>1, <2>2
<1> HIDE DEF at
<1>a. CString(memory) = SubSeq(memory, 1, at - 1)
  BY DEF CString, at
<1>3. CASE at = 0
  <2>1. CString(memory) = SubSeq(memory, 1, -1)
    BY <1>a, <1>3
  <2>2. SubSeq(memory, 1, -1) \in Seq(Letters) /\ Len(SubSeq(memory, 1, -1)) \in Nat
    OBVIOUS
  <2> QED BY <2>1, <2>2
<1>4. CASE at # 0
  <2>1. PICK b \in Nat : b = at - 1 /\ b <= Len(memory)
    BY <1>2, <1>4
  <2>2. SubSeq(memory, 0 + 1, b) \in Seq(Letters)
    BY <2>1, SubSeqParts
  <2>3. CString(memory) = SubSeq(memory, 0 + 1, b)
    BY <1>a, <2>1
  <2> QED BY <2>2, <2>3
<1> QED BY <1>3, <1>4

\* A name with a NUL behind it.
LEMMA CStringAt ==
    ASSUME NEW s \in Seq(Letters), NEW n \in Names, Len(n) < Len(s),
           \A k \in 1 .. Len(n) : s[k] = n[k], s[Len(n) + 1] = NUL
    PROVE  CString(s) = n
<1>1. n \in Seq(Letters) /\ n \in Seq(Bytes \ {NUL}) /\ Len(n) \in Nat
  BY HeapType
<1>2. PICK l \in Nat : l = Len(n) /\ l + 1 \in 1 .. Len(s)
  BY <1>1
<1>3. \A k \in 1 .. l : s[k] = n[k] /\ s[k] # NUL
  BY <1>1, <1>2
<1> DEFINE I == {i \in 1 .. Len(s) : s[i] = NUL}
<1>4. I \in SUBSET Nat /\ l + 1 \in I /\ \A i \in I : l + 1 <= i
  <2>1. ASSUME NEW i \in I PROVE l + 1 <= i
    BY <1>2, <1>3
  <2> QED BY <1>2, <2>1
<1> DEFINE at == SelectInSeq(s, LAMBDA byte : byte = NUL)
<1>5. at = Min(I)
  BY <1>4 DEF SelectInSeq
<1>6. CString(s) = SubSeq(s, 1, at - 1)
  BY DEF CString
<1> HIDE DEF I, at
<1>7. at = l + 1
  <2>1. Min(I) \in I /\ \A i \in I : Min(I) <= i
    BY <1>4 DEF Min
  <2>2. Min(I) \in Nat /\ Min(I) <= l + 1 /\ l + 1 <= Min(I)
    BY <1>4, <2>1
  <2> QED BY <1>5, <2>2
<1>8. CString(s) = SubSeq(s, 0 + 1, l)
  BY <1>6, <1>7
<1>9. /\ SubSeq(s, 0 + 1, l) \in Seq(Letters) /\ Len(SubSeq(s, 0 + 1, l)) = l - 0
      /\ \A k \in 1 .. l - 0 : SubSeq(s, 0 + 1, l)[k] = s[0 + k]
  BY <1>2, SubSeqParts
<1>10. \A k \in 1 .. l : SubSeq(s, 0 + 1, l)[k] = n[k]
  BY <1>2, <1>3, <1>9
<1> QED BY <1>1, <1>2, <1>8, <1>9, <1>10, SameSeq

\* The name in the server's memory, when there was a NUL behind its place.
LEMMA CStringOf ==
    ASSUME NEW memory \in Heap, NEW n \in Names, memory[Len(n) + 1] = NUL
    PROVE  CString(Stored(memory, 0, n)) = n
<1>1. /\ memory \in Seq(Letters) /\ Len(memory) > NAME_SIZE
      /\ n \in Seq(Letters) /\ Len(n) \in Nat /\ Len(n) <= NAME_SIZE
      /\ NAME_SIZE \in Nat /\ Len(memory) \in Nat
  BY HeapType
<1>2. PICK s \in Seq(Letters) :
        /\ s = Stored(memory, 0, n) /\ Len(s) = Len(memory)
        /\ \A k \in 1 .. Len(memory) : k <= 0 \/ k > 0 + Len(n) => s[k] = memory[k]
        /\ \A j \in 1 .. Len(n) : 0 + j <= Len(memory) => s[0 + j] = n[j]
  <2>1. IsStored(Stored(memory, 0, n), memory, 0, n)
    BY <1>1, StoredType
  <2> QED BY <2>1 DEF IsStored
<1>3. /\ Len(n) < Len(s) /\ s[Len(n) + 1] = NUL
      /\ \A k \in 1 .. Len(n) : s[k] = n[k]
  BY <1>1, <1>2
<1> QED BY <1>2, <1>3, CStringAt

\* A text with a NUL behind it in the client's memory for a user: a name is
\* read there, and what lies behind name[NAME_SIZE] stays unless it is longer.
LEMMA UserRead ==
    ASSUME NEW u \in Users, NEW text \in Seq(Letters),
           NEW memory, memory = Stored(UserMemory[u], 0, Append(text, NUL))
    PROVE  /\ text \in Names => CString(memory) = text
           /\ Len(text) <= NAME_SIZE => DataOf(memory) = DataOf(UserMemory[u])
<1>1. /\ NAME_SIZE \in Nat /\ NUL \in Letters /\ UserSize \in Nat /\ UserSize > NAME_SIZE
      /\ UserMemory[u] \in Seq(Letters) /\ Len(UserMemory[u]) = UserSize
      /\ UserMemory[u][NAME_SIZE + 1] = NUL
  BY HeapType
<1>2. PICK l \in Nat : l = Len(text)
  OBVIOUS
<1>3. PICK bytes :
        /\ bytes = Append(text, NUL) /\ bytes \in Seq(Letters)
        /\ Len(bytes) = l + 1 /\ bytes[l + 1] = NUL
        /\ \A k \in 1 .. l : bytes[k] = text[k]
  <2>1. /\ Append(text, NUL) \in Seq(Letters)
        /\ Len(Append(text, NUL)) = l + 1 /\ Append(text, NUL)[l + 1] = NUL
        /\ \A k \in 1 .. l : Append(text, NUL)[k] = text[k]
    BY <1>1, <1>2
  <2> QED BY <2>1
<1>4. /\ memory \in Seq(Letters) /\ Len(memory) = UserSize
      /\ \A k \in 1 .. UserSize : k > l + 1 => memory[k] = UserMemory[u][k]
      /\ \A j \in 1 .. l + 1 : j <= UserSize => memory[j] = bytes[j]
  <2>1. IsStored(memory, UserMemory[u], 0, bytes)
    BY <1>1, <1>3, StoredType
  <2> QED BY <1>1, <1>2, <1>3, <2>1 DEF IsStored
<1>5. ASSUME text \in Names PROVE CString(memory) = text
  <2>1. l <= NAME_SIZE
    BY <1>2, <1>5, HeapType
  <2>2. l < UserSize /\ memory[l + 1] = NUL /\ \A k \in 1 .. l : memory[k] = text[k]
    BY <1>1, <1>2, <1>3, <1>4, <2>1
  <2> QED BY <1>2, <1>4, <1>5, <2>2, CStringAt
<1>6. ASSUME l <= NAME_SIZE PROVE DataOf(memory) = DataOf(UserMemory[u])
  <2>1. ASSUME NEW k \in NAME_SIZE + 1 .. UserSize PROVE memory[k] = UserMemory[u][k]
    <3>1. CASE k > l + 1
      BY <1>1, <1>4, <3>1
    <3>2. CASE ~(k > l + 1)
      <4>1. k = NAME_SIZE + 1 /\ k = l + 1
        BY <1>1, <1>2, <1>6, <3>2
      <4> QED BY <1>1, <1>3, <1>4, <4>1
    <3> QED BY <3>1, <3>2
  <2>2. PICK old \in Seq(Letters) : old = UserMemory[u] /\ Len(old) = UserSize
    BY <1>1
  <2>3. PICK x \in Seq(Letters) :
          /\ x = SubSeq(memory, NAME_SIZE + 1, UserSize) /\ Len(x) = UserSize - NAME_SIZE
          /\ \A k \in 1 .. UserSize - NAME_SIZE : x[k] = memory[NAME_SIZE + k]
    <3>1. /\ SubSeq(memory, NAME_SIZE + 1, UserSize) \in Seq(Letters)
          /\ Len(SubSeq(memory, NAME_SIZE + 1, UserSize)) = UserSize - NAME_SIZE
          /\ \A k \in 1 .. UserSize - NAME_SIZE :
                SubSeq(memory, NAME_SIZE + 1, UserSize)[k] = memory[NAME_SIZE + k]
      BY <1>1, <1>4, SubSeqParts
    <3> QED BY <3>1
  <2>4. PICK y \in Seq(Letters) :
          /\ y = SubSeq(old, NAME_SIZE + 1, UserSize) /\ Len(y) = UserSize - NAME_SIZE
          /\ \A k \in 1 .. UserSize - NAME_SIZE : y[k] = old[NAME_SIZE + k]
    <3>1. /\ SubSeq(old, NAME_SIZE + 1, UserSize) \in Seq(Letters)
          /\ Len(SubSeq(old, NAME_SIZE + 1, UserSize)) = UserSize - NAME_SIZE
          /\ \A k \in 1 .. UserSize - NAME_SIZE :
                SubSeq(old, NAME_SIZE + 1, UserSize)[k] = old[NAME_SIZE + k]
      BY <1>1, <2>2, SubSeqParts
    <3> QED BY <3>1
  <2>5. \A k \in 1 .. UserSize - NAME_SIZE : memory[NAME_SIZE + k] = old[NAME_SIZE + k]
    BY <1>1, <2>1, <2>2
  <2>6. x = y
    BY <2>3, <2>4, <2>5, SameSeq
  <2> QED BY <2>2, <2>3, <2>4, <2>6 DEF DataOf
<1> QED BY <1>2, <1>5, <1>6

-----------------------------------------------------------------------------
(* The messages.                                                           *)

LEMMA UsersType ==
    /\ Cardinality(Users) \in Nat /\ Cardinality(Users) > 0 /\ Me \in Users
    /\ Users = 0 .. Cardinality(Users) - 1
    /\ EVENTS \in Nat /\ EVENTS > 8 /\ IsLength(EVENTS) /\ ~IsName(EVENTS)
<1>1. /\ Cardinality(Users) \in Nat /\ Me \in Users
      /\ Users = 0 .. Cardinality(Users) - 1
  BY ConnectionAssumption, FS_CardinalityType
<1>2. PICK c \in Nat : c = Cardinality(Users) /\ c > 0
  BY <1>1
<1>3. EVENTS = 7 + 2 * c
  BY <1>2 DEF EVENTS
<1> QED BY <1>1, <1>2, <1>3 DEF IsLength, IsName, JSON

\* A user's name follows its size, and the next user's size follows the name.
LEMMA Steps ==
    ASSUME NEW k \in Nat, k > JSON, k < EVENTS
    PROVE  /\ UserAt(k) \in Users
           /\ IsLength(k) \/ IsName(k)
           /\ IsLength(k) => ~IsName(k) /\ k = 7 + 2 * UserAt(k)
           /\ IsName(k) => ~IsLength(k) /\ k = 8 + 2 * UserAt(k)
           /\ IsLength(k) => k + 1 < EVENTS /\ IsName(k + 1) /\ UserAt(k + 1) = UserAt(k)
<1>1. PICK c \in Nat : c = Cardinality(Users) /\ Users = 0 .. c - 1 /\ EVENTS = 7 + 2 * c
  BY UsersType DEF EVENTS
<1>a. k < 7 + 2 * c
  BY <1>1
<1>b. UserAt(k) \in 0 .. c - 1
  BY <1>a DEF UserAt, JSON
<1>2. UserAt(k) \in Users
  BY <1>1, <1>b
<1>3. IsLength(k) \/ IsName(k)
  BY DEF IsLength, IsName, JSON
<1>4. /\ IsLength(k) => ~IsName(k) /\ k = 7 + 2 * UserAt(k)
      /\ IsName(k) => ~IsLength(k) /\ k = 8 + 2 * UserAt(k)
  BY DEF IsLength, IsName, UserAt, JSON
<1>c. IsLength(k) => k + 1 < 7 + 2 * c
  BY <1>a DEF IsLength, JSON
<1>5. IsLength(k) => k + 1 < EVENTS
  BY <1>1, <1>c
<1>6. IsLength(k) => IsName(k + 1)
  BY DEF IsLength, IsName, JSON
<1>7. IsLength(k) => UserAt(k + 1) = UserAt(k)
  BY DEF IsLength, UserAt, JSON
<1> QED BY <1>2, <1>3, <1>4, <1>5, <1>6, <1>7

LEMMA NoText ==
    ASSUME NEW k \in Nat, k <= JSON
    PROVE  ~IsLength(k) /\ ~IsName(k)
BY DEF IsLength, IsName, JSON

\* What the server has in memory for the names.
LEMMA MemoryType ==
    ASSUME WireTypes, MemoryInv, NEW u \in Users
    PROVE  user_name[u] \in Seq(Letters)
<1>1. before \in Seq(Letters) /\ given[u] \in Seq(Letters) /\ server.buf \in Seq(Letters)
  BY HeapType DEF WireTypes
<1>2. 0 \in Nat
  OBVIOUS
<1>3. Stored(before, 0, given[u]) \in Seq(Letters) /\ Stored(before, 0, server.buf) \in Seq(Letters)
  BY <1>1, <1>2, StoredType DEF IsStored
<1> QED BY <1>1, <1>3 DEF MemoryInv

\* What each message is.
LEMMA Messages ==
    /\ Message(STARTED) = IntBytes(0)
    /\ Message(SIZE) = IntBytes(Len(given[Me]))
    /\ Message(NAME) = given[Me]
    /\ Message(ID) = IntBytes(Me)
    /\ Message(JSON_SIZE) = IntBytes(Len(JsonText))
    /\ Message(JSON) = JsonText
    /\ \A k \in Nat : k > JSON =>
          /\ IsLength(k) => Message(k) = IntBytes(Len(CString(user_name[UserAt(k)])))
          /\ IsName(k) /\ ~IsLength(k) => Message(k) = CString(user_name[UserAt(k)])
<1>1. /\ Message(1) = IntBytes(0)
      /\ Message(2) = IntBytes(Len(given[Me]))
      /\ Message(3) = given[Me]
      /\ Message(4) = IntBytes(Me)
      /\ Message(5) = IntBytes(Len(JsonText))
      /\ Message(6) = JsonText
  <2>1. \A k \in 1 .. 6 : ~IsLength(k) /\ ~IsName(k)
    BY NoText DEF JSON
  <2> QED BY <2>1 DEF Message, STARTED, SIZE, NAME, ID, JSON_SIZE, JSON
<1>2. ASSUME NEW k \in Nat, k > 6
      PROVE  /\ IsLength(k) => Message(k) = IntBytes(Len(CString(user_name[UserAt(k)])))
             /\ IsName(k) /\ ~IsLength(k) => Message(k) = CString(user_name[UserAt(k)])
  <2>1. k # 1 /\ k # 2 /\ k # 3 /\ k # 4 /\ k # 5 /\ k # 6
    BY <1>2
  <2>2. IsLength(k) => ~IsName(k)
    BY DEF IsLength, IsName
  <2> QED BY <2>1, <2>2 DEF Message, STARTED, SIZE, NAME, ID, JSON_SIZE, JSON
<1> QED BY <1>1, <1>2 DEF STARTED, SIZE, NAME, ID, JSON_SIZE, JSON

LEMMA MessageType ==
    ASSUME WireTypes, MemoryInv, NEW k \in Nat, STARTED <= k, k < EVENTS
    PROVE  /\ Message(k) \in Seq(Letters)
           /\ k \notin {NAME, JSON} /\ ~IsName(k) => Len(Message(k)) = IntSize
<1> DEFINE steps == {STARTED, SIZE, NAME, ID, JSON_SIZE, JSON}
<1>1. /\ given[Me] \in Seq(Letters) /\ Len(given[Me]) \in Ints
      /\ JsonText \in Seq(Letters) /\ Len(JsonText) \in Ints /\ 0 \in Ints /\ Me \in Ints
  BY HeapType, UsersType DEF WireTypes, Ints
<1>2. CASE k <= JSON
  <2>1. k \in {STARTED, SIZE, NAME, ID, JSON_SIZE, JSON}
    BY <1>2 DEF STARTED, SIZE, NAME, ID, JSON_SIZE, JSON
  <2> QED BY <1>1, <2>1, Messages, IntBytesType
<1>3. CASE k > JSON
  <2>1. UserAt(k) \in Users
    BY <1>3, Steps
  <2>2. /\ CString(user_name[UserAt(k)]) \in Seq(Letters)
        /\ Len(CString(user_name[UserAt(k)])) \in Ints
    BY <2>1, MemoryType, CStringType DEF Ints
  <2>3. CASE IsLength(k)
    BY <1>3, <2>2, <2>3, Messages, IntBytesType
  <2>4. CASE IsName(k) /\ ~IsLength(k)
    BY <1>3, <2>2, <2>4, Messages
  <2> QED BY <1>3, <2>3, <2>4, Steps
<1> QED BY <1>2, <1>3 DEF JSON

-----------------------------------------------------------------------------
(* One turn of a loop.                                                     *)

\* A writer's: the bytes continue the message.
LEMMA WriterTurn ==
    ASSUME NEW side, side.buf \in Seq(Letters), NEW message \in Seq(Letters),
           NEW wire \in Seq(Letters), Begun(side.buf, message),
           NEW bytes \in Chunks(side, message, wire)
    PROVE  /\ bytes \in Seq(Letters) /\ side.buf \o bytes \in Seq(Letters)
           /\ Len(side.buf \o bytes) <= Len(message)
           /\ Len(side.buf \o bytes) < Len(message) => Begun(side.buf \o bytes, message)
           /\ Len(side.buf \o bytes) = Len(message) => side.buf \o bytes = message
<1>1. PICK buf \in Seq(Letters) : buf = side.buf
  OBVIOUS
<1>2. PICK l \in Nat : l = Len(buf) /\ l <= Len(message) /\ buf = SubSeq(message, 1, l)
  <2>1. CASE buf = <<>>
    <3>1. SubSeq(message, 1, 0) = <<>> /\ Len(buf) = 0 /\ 0 \in Nat /\ 0 <= Len(message)
      BY <2>1
    <3> QED BY <2>1, <3>1
  <2>2. CASE Len(buf) < Len(message) /\ buf = SubSeq(message, 1, Len(buf))
    <3>1. Len(buf) \in Nat /\ Len(buf) <= Len(message) /\ 0 + 1 = 1
      BY <2>2
    <3> QED BY <2>2, <3>1
  <2> QED BY <1>1, <2>1, <2>2 DEF Begun
<1>3. PICK n \in 1 .. Len(message) - l : bytes = SubSeq(message, l + 1, l + n)
  <2>1. PICK n \in {k \in 1 .. Len(message) - Len(side.buf) : Len(wire) + k <= MaxOnWire} :
          bytes = SubSeq(message, Len(side.buf) + 1, Len(side.buf) + n)
    BY DEF Chunks
  <2> QED BY <1>1, <1>2, <2>1
<1>4. PICK m \in Nat : m = l + n /\ l <= m /\ 1 <= m /\ m <= Len(message)
  BY <1>2
<1>5. bytes \in Seq(Letters)
  BY <1>3, <1>4, SubSeqParts
<1> DEFINE both == SubSeq(message, 0 + 1, m)
<1>6. both \in Seq(Letters) /\ both = SubSeq(message, 1, m) /\ Len(both) = m
  <2>1. /\ SubSeq(message, 0 + 1, m) \in Seq(Letters)
        /\ Len(SubSeq(message, 0 + 1, m)) = m - 0
    BY <1>4, SubSeqParts
  <2> QED BY <2>1
<1> HIDE DEF both
<1>7. both = side.buf \o bytes
  BY <1>1, <1>2, <1>3, <1>4, <1>6, PartsJoin
<1>8. m < Len(message) => Begun(both, message)
  BY <1>6 DEF Begun
<1>9. m = Len(message) => both = message
  BY <1>6, WholePart
<1> QED BY <1>4, <1>5, <1>6, <1>7, <1>8, <1>9

\* A reader's: what it has and what is on the wire stay the same together.
LEMMA ReaderTurn ==
    ASSUME NEW side, side.buf \in Seq(Letters), NEW wire \in Seq(Letters),
           NEW bytes \in Arrived(side, wire)
    PROVE  /\ bytes \in Seq(Letters) /\ side.buf \o bytes \in Seq(Letters)
           /\ side.buf \o bytes # <<>> /\ wire # <<>>
           /\ SubSeq(wire, Len(bytes) + 1, Len(wire)) \in Seq(Letters)
           /\ (side.buf \o bytes) \o SubSeq(wire, Len(bytes) + 1, Len(wire)) = side.buf \o wire
           /\ Len(side.buf \o bytes) <= Length(side.at, side.size)
<1>1. PICK buf \in Seq(Letters) : buf = side.buf
  OBVIOUS
<1>2. PICK n \in 1 .. Len(wire) :
        bytes = SubSeq(wire, 1, n) /\ Len(buf) + n <= Length(side.at, side.size)
  <2>1. PICK n \in {k \in 1 .. Len(wire) : Len(side.buf) + k <= Length(side.at, side.size)} :
          bytes = SubSeq(wire, 1, n)
    BY DEF Arrived
  <2> QED BY <1>1, <2>1
<1>3. n \in Nat /\ 1 <= n /\ n <= Len(wire) /\ Len(wire) \in Nat /\ 0 <= n /\ Len(wire) <= Len(wire)
  OBVIOUS
<1>4. bytes \in Seq(Letters) /\ Len(bytes) = n
  <2>1. SubSeq(wire, 0 + 1, n) \in Seq(Letters) /\ Len(SubSeq(wire, 0 + 1, n)) = n - 0
    BY <1>3, SubSeqParts
  <2> QED BY <1>2, <2>1
<1>5. PICK rest \in Seq(Letters) : rest = SubSeq(wire, n + 1, Len(wire))
  BY <1>3, SubSeqParts
<1>6. bytes \o rest = wire
  <2>1. SubSeq(wire, 1, n) \o SubSeq(wire, n + 1, Len(wire)) = SubSeq(wire, 1, Len(wire))
    BY <1>3, PartsJoin
  <2>2. SubSeq(wire, 1, Len(wire)) = wire
    OBVIOUS
  <2> QED BY <1>2, <1>5, <2>1, <2>2
<1>7. buf \o bytes \in Seq(Letters) /\ Len(buf \o bytes) = Len(buf) + Len(bytes)
  BY <1>4, JoinParts
<1>8. (buf \o bytes) \o rest = buf \o (bytes \o rest)
  BY <1>4, JoinThree
<1>9. buf \o bytes # <<>> /\ wire # <<>>
  BY <1>3, <1>4, <1>7
<1>10. Len(buf \o bytes) <= Length(side.at, side.size)
  BY <1>2, <1>4, <1>7
<1>11. rest = SubSeq(wire, Len(bytes) + 1, Len(wire))
  BY <1>4, <1>5
<1> QED BY <1>1, <1>4, <1>5, <1>6, <1>7, <1>8, <1>9, <1>10, <1>11

\* After the turn the side has all of its message or not.
LEMMA AfterPart ==
    ASSUME NEW side, NEW bytes, NEW len, Len(side.buf \o bytes) < len,
           side = [at |-> side.at, buf |-> side.buf, size |-> side.size]
    PROVE  After(side, bytes, len) = [at |-> side.at, buf |-> side.buf \o bytes, size |-> side.size]
BY DEF After

LEMMA AfterWhole ==
    ASSUME NEW side, NEW bytes, NEW len, ~(Len(side.buf \o bytes) < len)
    PROVE  After(side, bytes, len) =
             [at |-> side.at + 1, buf |-> <<>>,
              size |-> IF side.at \in {SIZE, JSON_SIZE} \/ IsLength(side.at)
                       THEN ValueOf(side.buf \o bytes) ELSE side.size]
BY DEF After

\* What a turn does to its side: bytes are the new ones.
Wrote(side, after, message, buf) ==
    /\ after = [at |-> after.at, buf |-> after.buf, size |-> after.size]
    /\ \/ after.at = side.at /\ after.buf = buf /\ Begun(buf, message)
       \/ after.at = side.at + 1 /\ after.buf = <<>> /\ buf = message

Read(side, after, len, buf) ==
    /\ after = [at |-> after.at, buf |-> after.buf, size |-> after.size]
    /\ \/ after.at = side.at /\ after.buf = buf /\ after.size = side.size /\ Len(buf) < len
       \/ /\ after.at = side.at + 1 /\ after.buf = <<>> /\ Len(buf) = len
          /\ after.size = IF side.at \in {SIZE, JSON_SIZE} \/ IsLength(side.at)
                          THEN ValueOf(buf) ELSE side.size

LEMMA WriterAfter ==
    ASSUME NEW side, side.buf \in Seq(Letters), NEW message \in Seq(Letters),
           side = [at |-> side.at, buf |-> side.buf, size |-> side.size],
           NEW wire \in Seq(Letters), Begun(side.buf, message),
           NEW bytes \in Chunks(side, message, wire)
    PROVE  /\ bytes \in Seq(Letters) /\ side.buf \o bytes \in Seq(Letters)
           /\ Wrote(side, After(side, bytes, Len(message)), message, side.buf \o bytes)
<1>1. /\ bytes \in Seq(Letters) /\ side.buf \o bytes \in Seq(Letters)
      /\ Len(side.buf \o bytes) <= Len(message)
      /\ Len(side.buf \o bytes) < Len(message) => Begun(side.buf \o bytes, message)
      /\ Len(side.buf \o bytes) = Len(message) => side.buf \o bytes = message
  BY WriterTurn
<1>2. Len(side.buf \o bytes) \in Nat /\ Len(message) \in Nat
  BY <1>1
<1> DEFINE buf == side.buf \o bytes
<1>3. CASE Len(buf) < Len(message)
  <2>1. After(side, bytes, Len(message)) = [at |-> side.at, buf |-> buf, size |-> side.size]
    BY <1>3, AfterPart
  <2>2. Begun(buf, message)
    BY <1>1, <1>3
  <2> HIDE DEF buf
  <2>3. Wrote(side, After(side, bytes, Len(message)), message, buf)
    BY <2>1, <2>2 DEF Wrote
  <2> QED BY <1>1, <2>3 DEF buf
<1>4. CASE ~(Len(buf) < Len(message))
  <2>1. PICK size : After(side, bytes, Len(message)) = [at |-> side.at + 1, buf |-> <<>>, size |-> size]
    BY <1>4, AfterWhole
  <2>2. buf = message
    BY <1>1, <1>2, <1>4
  <2> HIDE DEF buf
  <2>3. Wrote(side, After(side, bytes, Len(message)), message, buf)
    BY <2>1, <2>2 DEF Wrote
  <2> QED BY <1>1, <2>3 DEF buf
<1> QED BY <1>3, <1>4

LEMMA ReaderAfter ==
    ASSUME NEW side, side.buf \in Seq(Letters),
           side = [at |-> side.at, buf |-> side.buf, size |-> side.size],
           NEW wire \in Seq(Letters), NEW bytes \in Arrived(side, wire),
           NEW len \in Nat, len = Length(side.at, side.size)
    PROVE  Read(side, After(side, bytes, len), len, side.buf \o bytes)
<1>1. side.buf \o bytes \in Seq(Letters) /\ Len(side.buf \o bytes) <= len
  BY ReaderTurn
<1>2. Len(side.buf \o bytes) \in Nat
  BY <1>1
<1> DEFINE buf == side.buf \o bytes
<1>3. CASE Len(buf) < len
  <2>1. After(side, bytes, len) = [at |-> side.at, buf |-> buf, size |-> side.size]
    BY <1>3, AfterPart
  <2> HIDE DEF buf
  <2>2. Read(side, After(side, bytes, len), len, buf)
    BY <1>3, <2>1 DEF Read
  <2> QED BY <2>2 DEF buf
<1>4. CASE ~(Len(buf) < len)
  <2>1. After(side, bytes, len) =
          [at |-> side.at + 1, buf |-> <<>>,
           size |-> IF side.at \in {SIZE, JSON_SIZE} \/ IsLength(side.at)
                    THEN ValueOf(buf) ELSE side.size]
    BY <1>4, AfterWhole
  <2>2. Len(buf) = len
    BY <1>1, <1>2, <1>4
  <2> HIDE DEF buf
  <2>3. Read(side, After(side, bytes, len), len, buf)
    BY <2>1, <2>2 DEF Read
  <2> QED BY <2>3 DEF buf
<1> QED BY <1>3, <1>4

-----------------------------------------------------------------------------
(* Every step preserves the invariant.                                     *)

LEMMA MsgIs ==
    /\ \A k \in Nat : k < EVENTS => Msg[k] = Message(k)
    /\ \A j \in Nat : Msg[EVENTS + j] = IntBytes(sent[j + 1])
<1>1. EVENTS \in Nat
  BY UsersType
<1>2. ASSUME NEW j \in Nat PROVE Msg[EVENTS + j] = IntBytes(sent[j + 1])
  <2>1. EVENTS + j \in Nat /\ ~(EVENTS + j < EVENTS) /\ (EVENTS + j) - EVENTS + 1 = j + 1
    BY <1>1
  <2> QED BY <2>1 DEF Msg
<1> QED BY <1>2 DEF Msg

LEMMA MessageSame ==
    ASSUME given' = given, user_name' = user_name
    PROVE  /\ Message(server.at)' = Message(server'.at)
           /\ Message(main.at)' = Message(main'.at)
BY DEF Message

LEMMA MsgSame ==
    ASSUME given' = given, user_name' = user_name, sent' = sent
    PROVE  Msg' = Msg
BY DEF Msg, Message

LEMMA RingSame ==
    ASSUME Inv, UNCHANGED vars
    PROVE  Inv' /\ EventsRead' = EventsRead /\ rpc' = rpc /\ received' = received
BY NextInv DEF vars, EventsRead

LEMMA Places ==
    ASSUME ConnectionInv
    PROVE  /\ server.at \in Nat /\ 1 <= server.at /\ server.at <= EVENTS
           /\ main.at \in Nat /\ 1 <= main.at /\ main.at <= EVENTS + 2
           /\ EVENTS \in Nat /\ EVENTS > 8
           /\ open => main.at <= EVENTS \/ (main.at = WILD /\ server.at > NAME)
           /\ main.at <= EVENTS /\ server.at > NAME => main.at > NAME
           /\ main.at <= EVENTS /\ server.at = STARTED => main.at = STARTED
           /\ EventsRead \in Seq(Event) /\ Len(EventsRead) \in Nat
           /\ main.at # EVENTS => EventsRead = <<>>
<1>1. /\ WireTypes /\ EventsInv /\ Inv
      /\ (main.at = GONE => ~open) /\ (main.at = WILD => server.at > NAME)
      /\ main.at <= EVENTS => HelloInv /\ UpInv
  BY DEF ConnectionInv
<1>2. EVENTS \in Nat /\ EVENTS > 8
  BY UsersType
<1>3. /\ server.at \in Nat /\ 1 <= server.at /\ server.at <= EVENTS
      /\ main.at \in Nat /\ 1 <= main.at /\ main.at <= EVENTS + 2
  BY <1>1, <1>2 DEF WireTypes, STARTED
<1>8. open => main.at <= EVENTS \/ (main.at = WILD /\ server.at > NAME)
  BY <1>1, <1>2, <1>3 DEF GONE, WILD
<1>4. main.at <= EVENTS /\ server.at > NAME => main.at > NAME
  BY <1>1, <1>3 DEF HelloInv, UpInv, STARTED, SIZE, NAME
<1>5. main.at <= EVENTS /\ server.at = STARTED => main.at = STARTED
  BY <1>1, <1>3 DEF UpInv, STARTED
<1>6. EventsRead \in Seq(Event)
  BY <1>1 DEF Inv, TypeOK, InHand, EventsRead
<1>7. main.at # EVENTS => EventsRead = <<>>
  BY <1>1 DEF EventsInv, EventsRead
<1> QED BY <1>1, <1>2, <1>3, <1>4, <1>5, <1>6, <1>7, <1>8

\* What the server is writing, it has not written to its end.
LEMMA LastBegun ==
    ASSUME ConnectionInv, server.at > NAME
    PROVE  /\ ServerAt \in Nat /\ server.buf \in Seq(Letters)
           /\ server.buf = <<>> \/ Len(server.buf) < Len(Msg[ServerAt])
<1>1. /\ WireTypes /\ WriterInv /\ EventsInv
      /\ server.at \in Nat /\ server.at <= EVENTS /\ EVENTS \in Nat
  BY Places DEF ConnectionInv
<1>2. sent \in Seq(Event) /\ Len(sent) \in Nat /\ server.buf \in Seq(Letters)
  BY <1>1 DEF WireTypes
<1>3. CASE server.at < EVENTS
  <2>1. ServerAt = server.at
    BY <1>1, <1>3 DEF EventsInv, ServerAt
  <2>2. server.at \notin {SIZE, NAME, EVENTS}
    BY <1>1, <1>3 DEF SIZE, NAME
  <2>3. Begun(server.buf, Message(server.at))
    BY <1>1, <2>2 DEF WriterInv
  <2> QED BY <1>1, <1>2, <1>3, <2>1, <2>3, MsgIs DEF Begun
<1>4. CASE server.at = EVENTS
  <2>1. ServerAt = EVENTS + Len(sent) /\ ServerAt \in Nat
    BY <1>1, <1>2, <1>4 DEF ServerAt
  <2>2. PICK e \in Event : Begun(server.buf, IntBytes(e))
    BY <1>1, <1>4 DEF WriterInv
  <2>3. Len(IntBytes(e)) = IntSize
    BY IntBytesType DEF Ints
  <2>4. Msg[ServerAt] = IntBytes(sent[Len(sent) + 1])
    BY <1>2, <2>1, MsgIs
  <2>5. Len(Msg[ServerAt]) = IntSize
    BY <2>4, IntBytesLen
  <2> QED BY <1>2, <2>1, <2>2, <2>3, <2>5 DEF Begun
<1> QED BY <1>1, <1>3, <1>4

\* A message of the server is read to its end.
LEMMA DownRead ==
    ASSUME ConnectionInv, main.at <= EVENTS, main.at > NAME,
           NEW buf \in Seq(Letters), NEW rest \in Seq(Letters), buf # <<>>,
           buf \o rest = main.buf \o down, Len(buf) = Len(Msg[MainAt]), down # <<>>
    PROVE  /\ MainAt < ServerAt /\ MainAt \in Nat /\ ServerAt \in Nat
           /\ buf = Msg[MainAt]
           /\ IsFlow(rest, Msg, MainAt + 1, ServerAt, server.buf)
<1>1. DownInv /\ server.at \in Nat /\ main.at \in Nat /\ Len(EventsRead) \in Nat
  BY Places DEF ConnectionInv
<1>2. server.at > NAME
  BY <1>1 DEF DownInv, NAME
<1>3. /\ IsFlow(buf \o rest, Msg, MainAt, ServerAt, server.buf)
      /\ MainAt \in Nat /\ ServerAt \in Nat
      /\ server.buf = <<>> \/ Len(server.buf) < Len(Msg[ServerAt])
  BY <1>1, <1>2, LastBegun DEF DownInv, MainAt
<1>4. MainAt < ServerAt /\ buf = Msg[MainAt] /\ IsFlow(rest, Msg, MainAt + 1, ServerAt, server.buf)
  BY <1>3, FlowWhole
<1> QED BY <1>3, <1>4

\* The server writes a message.
LEMMA ServerWritesInv == ConnectionInv /\ ServerWrites => ConnectionInv'
<1> SUFFICES ASSUME ConnectionInv, ServerWrites PROVE ConnectionInv'
  OBVIOUS
<1>1. /\ Inv /\ WireTypes /\ WriterInv /\ MemoryInv /\ EventsInv
      /\ main.at <= EVENTS => SizeInv /\ HelloInv /\ UpInv /\ DownInv /\ NamesInv
      /\ (main.at = GONE => ~open) /\ (main.at = WILD => server.at > NAME)
      /\ open /\ server.at < EVENTS /\ server.at \notin {SIZE, NAME}
      /\ server.at \in Nat /\ 1 <= server.at /\ main.at \in Nat /\ EVENTS \in Nat
  BY Places DEF ConnectionInv, ServerWrites
<1>2. /\ UNCHANGED vars /\ given' = given /\ before' = before /\ user_name' = user_name
      /\ users' = users /\ main' = main /\ up' = up /\ open' = open /\ sent' = sent
  BY DEF ServerWrites
<1>3. PICK message : message = Message(server.at) /\ message \in Seq(Letters)
  BY <1>1, MessageType DEF STARTED
<1>4. PICK bytes \in Chunks(server, message, down) :
        down' = down \o bytes /\ server' = After(server, bytes, Len(message))
  BY <1>3 DEF ServerWrites
<1>5. /\ server.buf \in Seq(Letters) /\ down \in Seq(Letters)
      /\ server = [at |-> server.at, buf |-> server.buf, size |-> server.size]
      /\ main.buf \in Seq(Letters) /\ sent = <<>>
      /\ Begun(server.buf, message)
  BY <1>1, <1>3 DEF WireTypes, WriterInv, EventsInv
<1> DEFINE buf == server.buf \o bytes
<1>6. /\ buf = server.buf \o bytes /\ buf \in Seq(Letters) /\ bytes \in Seq(Letters)
      /\ Wrote(server, server', message, buf)
  BY <1>3, <1>4, <1>5, WriterAfter
<1> HIDE DEF buf
<1>19. /\ (main.buf \o down) \o bytes = main.buf \o down'
       /\ main.buf \o down \in Seq(Letters) /\ down' \in Seq(Letters)
  <2>1. PICK read \in Seq(Letters) : read = main.buf
    BY <1>5
  <2>2. down \in Seq(Letters) /\ bytes \in Seq(Letters)
    BY <1>5, <1>6
  <2>3. (read \o down) \o bytes = read \o (down \o bytes)
    BY <2>2, JoinThree
  <2>4. read \o down \in Seq(Letters) /\ down \o bytes \in Seq(Letters)
    BY <2>2, JoinParts
  <2> QED BY <1>4, <2>1, <2>3, <2>4
<1>7. /\ server' = [at |-> server'.at, buf |-> server'.buf, size |-> server'.size]
      /\ \/ server'.at = server.at /\ server'.buf = buf /\ Begun(buf, message)
         \/ server'.at = server.at + 1 /\ server'.buf = <<>> /\ buf = message
  BY <1>6 DEF Wrote
<1>8. server'.at \in Nat /\ server'.at <= EVENTS /\ server'.at >= server.at
  BY <1>1, <1>7
<1>9. Inv' /\ EventsRead' = EventsRead /\ rpc' = rpc /\ received' = received
  BY <1>1, <1>2, RingSame
<1>10. WireTypes'
  <2>1. server'.at \in STARTED .. EVENTS /\ server'.buf \in Seq(Letters)
    <3>1. server'.at \in 1 .. EVENTS
      BY <1>1, <1>8
    <3>2. <<>> \in Seq(Letters)
      OBVIOUS
    <3>3. server'.buf = buf \/ server'.buf = <<>>
      BY <1>7
    <3> QED BY <1>6, <3>1, <3>2, <3>3 DEF STARTED
  <2> QED BY <1>1, <1>2, <1>7, <1>19, <2>1 DEF WireTypes
<1>11. WriterInv'
  <2>1. Begun(server'.buf, Message(server.at)') /\ (server'.at = EVENTS => server'.buf = <<>>)
    BY <1>1, <1>2, <1>3, <1>7, MessageSame DEF Begun
  <2>2. main.at \in {SIZE, NAME} => Begun(main.buf, Message(main.at)')
    BY <1>1, <1>2, MessageSame DEF WriterInv
  <2>3. \E e \in Event : TRUE
    BY QueueAssumption
  <2>4. server'.at = EVENTS => \E e \in Event : Begun(server'.buf, IntBytes(e))
    BY <2>1, <2>3 DEF Begun
  <2> QED BY <1>2, <2>1, <2>2, <2>4 DEF WriterInv
<1>12. MemoryInv'
  <2>1. /\ server'.at > NAME <=> server.at > NAME
        /\ server.at # NAME /\ server'.at # NAME
    BY <1>1, <1>7 DEF STARTED, SIZE, NAME
  <2> QED BY <1>1, <1>2, <2>1 DEF MemoryInv
<1>13. EventsInv'
  BY <1>1, <1>2, <1>5, <1>9 DEF EventsInv
<1>14. main.at <= EVENTS => SizeInv'
  <2> HAVE main.at <= EVENTS
  <2>1. server'.at # NAME
    BY <1>1, <1>7 DEF STARTED, SIZE, NAME
  <2> QED BY <1>1, <1>2, <2>1, MessageSame DEF SizeInv
<1>15. main.at <= EVENTS => HelloInv'
  <2> SUFFICES ASSUME main.at <= EVENTS, main.at = STARTED PROVE HelloInv'
    BY <1>2 DEF HelloInv
  <2>1. server.at = STARTED /\ up = <<>> /\ main.buf \o down = server.buf
    BY <1>1 DEF HelloInv, STARTED, SIZE
  <2>2. main.buf \o down' = buf
    BY <1>6, <1>19, <2>1
  <2>3. message = IntBytes(0)
    BY <1>3, <2>1, Messages
  <2> QED BY <1>2, <1>7, <2>1, <2>2, <2>3 DEF HelloInv, STARTED, SIZE
<1>16. main.at <= EVENTS => UpInv'
  <2> SUFFICES ASSUME main.at <= EVENTS, main.at > STARTED PROVE UpInv'
    BY <1>1, <1>2 DEF UpInv, STARTED, SIZE, NAME
  <2>1. server.at > NAME /\ main.at > NAME /\ up = <<>>
    BY <1>1 DEF UpInv, STARTED, SIZE, NAME
  <2>2. server'.at > NAME /\ server'.at > STARTED
    BY <1>1, <1>8, <2>1 DEF STARTED, NAME
  <2>3. ~(server'.at <= NAME) /\ ~(main.at \in {SIZE, NAME})
    BY <1>1, <1>8, <2>1, <2>2 DEF NAME, SIZE
  <2> QED BY <1>2, <2>1, <2>2, <2>3 DEF UpInv
<1>17. main.at <= EVENTS => DownInv'
  <2> SUFFICES ASSUME main.at <= EVENTS, main.at > NAME PROVE DownInv'
    BY <1>2 DEF DownInv
  <2>1. server.at > NAME /\ server'.at > NAME
    BY <1>1, <1>8 DEF UpInv, STARTED, SIZE, NAME
  <2>2. IsFlow(main.buf \o down, Msg, MainAt, server.at, server.buf)
    BY <1>1, <1>5, <2>1 DEF DownInv, ServerAt
  <2>3. main.buf \o down \in Seq(Letters) /\ (main.buf \o down) \o bytes = main.buf \o down'
    BY <1>19
  <2>4. MainAt \in Nat
    BY Places DEF MainAt
  <2>5. IsFlow(main.buf \o down', Msg, MainAt, server.at, buf)
    BY <1>1, <1>5, <1>6, <2>2, <2>3, <2>4, FlowWritten
  <2>6. IsFlow(main.buf \o down', Msg, MainAt, server'.at, server'.buf)
    <3>1. CASE server'.at = server.at /\ server'.buf = buf
      BY <2>5, <3>1
    <3>2. CASE server'.at = server.at + 1 /\ server'.buf = <<>> /\ buf = message
      <4>1. buf = Msg[server.at]
        BY <1>1, <1>3, <3>2, MsgIs
      <4>2. main.buf \o down' \in Seq(Letters)
        BY <1>5, <1>19, JoinParts
      <4> QED BY <1>1, <2>4, <2>5, <3>2, <4>1, <4>2, FlowDone
    <3> QED BY <1>7, <3>1, <3>2
  <2>7. Msg' = Msg /\ MainAt' = MainAt /\ ServerAt' = server'.at
    BY <1>2, <1>5, <1>8, <1>9, MsgSame DEF MainAt, ServerAt
  <2>8. ~(server'.at <= NAME)
    BY <1>8, <2>1 DEF NAME
  <2> QED BY <1>2, <2>1, <2>6, <2>7, <2>8 DEF DownInv
<1>18. main.at <= EVENTS => NamesInv'
  BY <1>1, <1>2 DEF NamesInv
<1>20. main'.at = main.at /\ (main'.at = WILD => server'.at > NAME)
  BY <1>1, <1>2, <1>8 DEF NAME
<1> QED BY <1>1, <1>2, <1>9, <1>10, <1>11, <1>12, <1>13, <1>14, <1>15, <1>16, <1>17, <1>18,
          <1>20         DEF ConnectionInv

\* What the client's name is depends on nothing but what its player typed.
LEMMA MessageUp ==
    ASSUME given' = given, NEW k \in {SIZE, NAME}
    PROVE  Message(k)' = Message(k)
<1>1. k \in Nat /\ k <= JSON /\ k # STARTED /\ (k = SIZE => k # NAME)
      /\ k # ID /\ k # JSON_SIZE /\ k # JSON
  BY DEF STARTED, SIZE, NAME, ID, JSON_SIZE, JSON
<1>2. ~IsLength(k) /\ ~IsName(k)
  BY <1>1, NoText
<1> QED BY <1>1, <1>2 DEF Message

\* The server reads the name or its size.
LEMMA ServerReadsInv == ConnectionInv /\ ServerReads => ConnectionInv'
<1> SUFFICES ASSUME ConnectionInv, ServerReads PROVE ConnectionInv'
  OBVIOUS
<1>1. /\ Inv /\ WireTypes /\ WriterInv /\ MemoryInv /\ EventsInv
      /\ SizeInv /\ HelloInv /\ UpInv /\ DownInv /\ NamesInv
      /\ open /\ main.at <= EVENTS /\ server.at < EVENTS /\ server.at \in {SIZE, NAME}
      /\ server.at \in Nat /\ main.at \in Nat /\ 1 <= main.at /\ EVENTS \in Nat /\ EVENTS > 8
  <2>1. server.at \in {SIZE, NAME} /\ open
    BY DEF ServerReads
  <2>2. ~(server.at > NAME)
    BY <2>1 DEF SIZE, NAME
  <2>3. main.at <= EVENTS
    BY <2>1, <2>2, Places
  <2> QED BY <2>1, <2>3, Places DEF ConnectionInv, SIZE, NAME
<1>2. /\ UNCHANGED vars /\ given' = given /\ before' = before
      /\ users' = users /\ main' = main /\ down' = down /\ open' = open /\ sent' = sent
  BY DEF ServerReads
<1>3. PICK bytes \in Arrived(server, up) :
        /\ up' = SubSeq(up, Len(bytes) + 1, Len(up))
        /\ server' = After(server, bytes, Length(server.at, server.size))
        /\ user_name' = IF server.at = SIZE THEN user_name
                        ELSE [user_name EXCEPT ![Me] = Stored(@, Len(server.buf), bytes)]
  BY DEF ServerReads
<1>4. /\ server.buf \in Seq(Letters) /\ up \in Seq(Letters)
      /\ server = [at |-> server.at, buf |-> server.buf, size |-> server.size]
      /\ given \in [Users -> Names] /\ before \in Seq(Letters) /\ Me \in Users
      /\ given[Me] \in Seq(Letters) /\ sent = <<>>
  BY <1>1, HeapType, UsersType DEF WireTypes, EventsInv
<1>5. PICK len \in Nat : len = Length(server.at, server.size) /\ len = Len(Message(server.at))
  <2>1. Message(server.at) \in Seq(Letters)
    BY <1>1, MessageType DEF STARTED, SIZE, NAME
  <2>2. CASE server.at = SIZE
    <3>1. ~IsName(server.at) /\ server.at \notin {NAME, JSON}
      BY <2>2, NoText DEF SIZE, NAME, JSON
    <3>2. Len(Message(server.at)) = IntSize
      BY <2>2, Messages, IntBytesLen
    <3> QED BY <2>1, <3>1, <3>2 DEF Length
  <2>3. CASE server.at = NAME
    <3>1. Length(server.at, server.size) = server.size
      BY <2>3 DEF Length
    <3> QED BY <1>1, <2>1, <2>3, <3>1, Messages DEF SizeInv
  <2> QED BY <1>1, <2>2, <2>3
<1> DEFINE buf == server.buf \o bytes
           rest == SubSeq(up, Len(bytes) + 1, Len(up))
<1>6. /\ bytes \in Seq(Letters) /\ buf \in Seq(Letters) /\ buf # <<>> /\ up # <<>>
      /\ rest \in Seq(Letters) /\ buf \o rest = server.buf \o up
      /\ buf = server.buf \o bytes /\ up' = rest
  BY <1>3, <1>4, ReaderTurn
<1>7. Read(server, server', len, buf)
  BY <1>3, <1>4, <1>5, ReaderAfter
<1> HIDE DEF buf, rest
<1>8. /\ server' = [at |-> server'.at, buf |-> server'.buf, size |-> server'.size]
      /\ \/ server'.at = server.at /\ server'.buf = buf /\ server'.size = server.size
         \/ /\ server'.at = server.at + 1 /\ server'.buf = <<>> /\ Len(buf) = len
            /\ server.at = SIZE => server'.size = ValueOf(buf)
  BY <1>7 DEF Read
<1>9. main.at > STARTED /\ (main.at > NAME => main.at = ID /\ main.buf = <<>> /\ down = <<>>)
  BY <1>1, <1>6 DEF HelloInv, DownInv, STARTED, SIZE, NAME
<1>10. PICK s \in Nat : s = IF main.at <= NAME THEN main.at ELSE ID
  BY <1>1 DEF ID
<1>11. PICK last : last = IF main.at <= NAME THEN main.buf ELSE <<>>
  OBVIOUS
<1>12. IsFlow(buf \o rest, Msg, server.at, s, last)
  BY <1>1, <1>6, <1>9, <1>10, <1>11 DEF UpInv, SIZE, NAME
<1>13. Len(buf) = len => /\ server.at < s /\ buf = Message(server.at)
                         /\ IsFlow(rest, Msg, server.at + 1, s, last)
  <2> SUFFICES ASSUME Len(buf) = len
               PROVE  /\ server.at < s /\ buf = Message(server.at)
                      /\ IsFlow(rest, Msg, server.at + 1, s, last)
    OBVIOUS
  <2>1. last = <<>> \/ Len(last) < Len(Msg[s])
    <3>1. CASE main.at <= NAME
      <4>1. main.at \in {SIZE, NAME} /\ s = main.at /\ last = main.buf /\ s < EVENTS
        BY <1>1, <1>9, <1>10, <1>11, <3>1 DEF STARTED, SIZE, NAME
      <4> QED BY <1>1, <1>10, <4>1, MsgIs DEF WriterInv, Begun
    <3>2. CASE ~(main.at <= NAME)
      BY <1>11, <3>2
    <3> QED BY <3>1, <3>2
  <2>2. Msg[server.at] = Message(server.at)
    BY <1>1, MsgIs
  <2>3. PICK m \in Nat : m = server.at
    BY <1>1
  <2>4. /\ buf \in Seq(Letters) /\ rest \in Seq(Letters) /\ buf # <<>>
        /\ IsFlow(buf \o rest, Msg, m, s, last) /\ Len(buf) = Len(Msg[m])
    BY <1>5, <1>6, <1>12, <2>2, <2>3
  <2>5. m < s /\ buf = Msg[m] /\ IsFlow(rest, Msg, m + 1, s, last)
    BY <2>1, <2>4, FlowWhole
  <2> QED BY <2>2, <2>3, <2>5
<1>14. Inv' /\ EventsRead' = EventsRead /\ rpc' = rpc /\ received' = received
  BY <1>1, <1>2, RingSame
<1>15. server'.at \in Nat /\ server'.at >= server.at /\ server'.at < EVENTS /\ server'.at # STARTED
       /\ server'.at <= ID
  BY <1>1, <1>8 DEF STARTED, SIZE, NAME, ID
<1>16. WireTypes'
  <2>1. server'.at \in STARTED .. EVENTS
    BY <1>1, <1>15 DEF STARTED, SIZE, NAME
  <2>2. <<>> \in Seq(Letters)
    OBVIOUS
  <2>3. server'.buf \in Seq(Letters)
    BY <1>6, <1>8, <2>2
  <2> QED BY <1>1, <1>2, <1>6, <1>8, <2>1, <2>3 DEF WireTypes
<1>17. WriterInv'
  <2>1. server'.at \notin {SIZE, NAME} => server'.buf = <<>>
    BY <1>1, <1>8
  <2>2. main.at \in {SIZE, NAME} => Begun(main.buf, Message(main.at)')
    BY <1>1, <1>2, MessageUp DEF WriterInv
  <2>3. server'.at # EVENTS
    BY <1>1, <1>15
  <2> QED BY <1>2, <2>1, <2>2, <2>3 DEF WriterInv, Begun
<1>18. MemoryInv'
  <2>1. CASE server.at = SIZE
    <3>1. user_name' = user_name /\ ~(server.at > NAME) /\ server.at # NAME /\ ~(server'.at > NAME)
      BY <1>3, <1>8, <2>1 DEF SIZE, NAME
    <3>2. server'.at = NAME => server'.buf = <<>>
      BY <1>8, <2>1 DEF SIZE, NAME
    <3>3. Stored(before, 0, <<>>) = before
      BY <1>4, StoredNone
    <3> QED BY <1>1, <1>2, <3>1, <3>2, <3>3 DEF MemoryInv
  <2>2. CASE server.at = NAME
    <3>1. /\ user_name' = [user_name EXCEPT ![Me] = Stored(user_name[Me], Len(server.buf), bytes)]
          /\ ~(server.at > NAME)
      BY <1>3, <2>2 DEF SIZE, NAME
    <3>2. user_name = [u \in Users |-> IF u # Me THEN Stored(before, 0, given[u])
                                       ELSE Stored(before, 0, server.buf)]
      BY <1>1, <2>2, <3>1 DEF MemoryInv
    <3>3. Stored(user_name[Me], Len(server.buf), bytes) = Stored(before, 0, buf)
      BY <1>4, <1>6, <3>2, StoredMore
    <3>4. user_name' = [u \in Users |-> IF u # Me THEN Stored(before, 0, given[u])
                                        ELSE Stored(before, 0, buf)]
      BY <1>4, <3>1, <3>2, <3>3
    <3>5. CASE server'.at = NAME /\ server'.buf = buf
      <4>1. ~(server'.at > NAME)
        BY <3>5 DEF NAME
      <4> QED BY <1>2, <3>4, <3>5, <4>1 DEF MemoryInv
    <3>6. CASE server'.at = NAME + 1 /\ Len(buf) = len
      <4>1. server'.at > NAME /\ buf = given[Me]
        BY <1>13, <2>2, <3>6, Messages DEF NAME
      <4> QED BY <1>2, <3>4, <4>1 DEF MemoryInv
    <3> QED BY <1>8, <2>2, <3>5, <3>6
  <2> QED BY <1>1, <2>1, <2>2
<1>19. EventsInv'
  BY <1>1, <1>2, <1>4, <1>14 DEF EventsInv
<1>20. SizeInv'
  <2>1. main.at # JSON /\ ~IsName(main.at)
    BY <1>1, <1>9, NoText DEF NAME, ID, JSON
  <2>2. server'.at = NAME => server'.size = Len(given[Me])
    <3>1. CASE server.at = SIZE
      <4> SUFFICES ASSUME server'.at = NAME PROVE server'.size = Len(given[Me])
        OBVIOUS
      <4>1. Len(buf) = len /\ server'.size = ValueOf(buf)
        BY <1>8, <3>1 DEF SIZE, NAME
      <4>2. buf = IntBytes(Len(given[Me])) /\ Len(given[Me]) \in Ints
        BY <1>4, <1>13, <3>1, <4>1, Messages DEF Ints
      <4> QED BY <4>1, <4>2, IntBytesValue
    <3>2. CASE server.at = NAME
      BY <1>1, <1>8, <3>2 DEF SizeInv, NAME
    <3> QED BY <1>1, <3>1, <3>2
  <2> QED BY <1>2, <2>1, <2>2 DEF SizeInv
<1>21. HelloInv'
  BY <1>1, <1>2, <1>9 DEF HelloInv, STARTED
<1>22. UpInv'
  <2>1. server'.at > STARTED
    BY <1>1, <1>15 DEF STARTED, SIZE, NAME
  <2>2. \A k \in server'.at .. s - 1 : k \in {SIZE, NAME} /\ k \in Nat /\ k < EVENTS
    BY <1>1, <1>10, <1>15 DEF SIZE, NAME, ID
  <2>3. IsFlow(server'.buf \o up', Msg, server'.at, s, last)
    <3>1. CASE server'.at = server.at /\ server'.buf = buf
      BY <1>6, <1>12, <3>1
    <3>2. CASE server'.at = server.at + 1 /\ server'.buf = <<>> /\ Len(buf) = len
      <4>1. <<>> \o rest = rest
        BY <1>6
      <4> QED BY <1>6, <1>13, <3>2, <4>1
    <3> QED BY <1>8, <3>1, <3>2
  <2>4. \A k \in server'.at .. s - 1 : Msg'[k] = Msg[k]
    <3> TAKE k \in server'.at .. s - 1
    <3>1. Message(k)' = Message(k) /\ k \in Nat /\ k < EVENTS
      BY <1>2, <2>2, MessageUp
    <3>2. Msg'[k] = Message(k)'
      BY <3>1 DEF Msg
    <3> QED BY <3>1, <3>2 DEF Msg
  <2>5. IsFlow(server'.buf \o up', Msg', server'.at, s, last)
    BY <1>10, <1>15, <2>3, <2>4, FlowSame
  <2>6. server'.at > NAME => main.at > NAME /\ up' = <<>>
    <3> SUFFICES ASSUME server'.at > NAME PROVE main.at > NAME /\ up' = <<>>
      OBVIOUS
    <3>1. server.at = NAME /\ server'.at = ID /\ server'.buf = <<>> /\ Len(buf) = len
      BY <1>1, <1>8 DEF SIZE, NAME, ID
    <3>2. NAME < s
      BY <1>13, <3>1
    <3>3. main.at > NAME /\ s = ID /\ last = <<>>
      BY <1>1, <1>10, <1>11, <3>2 DEF NAME, ID
    <3>4. IsFlow(rest, Msg, ID, ID, <<>>)
      BY <1>13, <3>1, <3>3 DEF NAME, ID
    <3>5. rest = <<>>
      BY <1>6, <3>4, FlowOfNone DEF ID
    <3> QED BY <1>6, <3>3, <3>5
  <2>7. main.at \in {SIZE, NAME} => down = <<>>
    BY <1>1 DEF UpInv
  <2> QED BY <1>2, <1>10, <1>11, <2>1, <2>5, <2>6, <2>7 DEF UpInv
<1>23. DownInv'
  <2> SUFFICES ASSUME main.at > NAME PROVE DownInv'
    BY <1>2 DEF DownInv
  <2>1. main.at = ID /\ main.buf = <<>> /\ down = <<>>
    BY <1>9
  <2>2. server'.at > NAME => IsFlow(main.buf \o down, Msg', MainAt', ServerAt', server'.buf)
    <3> SUFFICES ASSUME server'.at > NAME
                 PROVE  IsFlow(main.buf \o down, Msg', MainAt', ServerAt', server'.buf)
      OBVIOUS
    <3>1. server'.at = ID /\ server'.buf = <<>>
      BY <1>1, <1>8 DEF SIZE, NAME, ID
    <3>2. EventsRead' = <<>>
      BY <1>1, <1>14, <2>1, Places DEF ID
    <3>3. MainAt' = ID /\ ServerAt' = ID
      BY <1>2, <1>4, <2>1, <3>1, <3>2 DEF MainAt, ServerAt, ID
    <3>4. main.buf \o down = <<>> /\ ID \in Nat
      BY <2>1 DEF ID
    <3> QED BY <3>1, <3>3, <3>4, FlowEmpty
  <2> QED BY <1>2, <2>1, <2>2 DEF DownInv
<1>24. NamesInv'
  <2>1. \A u \in Users : u \in Nat /\ ~(main.at > 8 + 2 * u) /\ main.at # 8 + 2 * u
    BY <1>1, <1>9, UsersType DEF NAME, ID
  <2> QED BY <1>1, <1>2, <2>1 DEF NamesInv
<1>25. main'.at # GONE /\ main'.at # WILD
  BY <1>1, <1>2 DEF GONE, WILD
<1> QED BY <1>1, <1>2, <1>14, <1>16, <1>17, <1>18, <1>19, <1>20, <1>21, <1>22, <1>23, <1>24, <1>25
        DEF ConnectionInv

\* The client writes its name or the size of it.
LEMMA ClientWritesInv == ConnectionInv /\ ClientWrites => ConnectionInv'
<1> SUFFICES ASSUME ConnectionInv, ClientWrites PROVE ConnectionInv'
  OBVIOUS
<1>1. /\ Inv /\ WireTypes /\ WriterInv /\ MemoryInv /\ EventsInv
      /\ SizeInv /\ HelloInv /\ UpInv /\ DownInv /\ NamesInv
      /\ open /\ main.at \in {SIZE, NAME} /\ main.at < EVENTS
      /\ server.at \in Nat /\ 1 <= server.at /\ main.at \in Nat /\ EVENTS \in Nat /\ EVENTS > 8
  <2>1. main.at \in {SIZE, NAME} /\ open
    BY DEF ClientWrites
  <2> QED BY <2>1, Places DEF ConnectionInv, SIZE, NAME
<1>2. /\ UNCHANGED vars /\ given' = given /\ before' = before /\ user_name' = user_name
      /\ users' = users /\ server' = server /\ down' = down /\ open' = open /\ sent' = sent
  BY DEF ClientWrites
<1>3. PICK message : message = Message(main.at) /\ message \in Seq(Letters)
  BY <1>1, MessageType DEF STARTED, SIZE, NAME
<1>4. PICK bytes \in Chunks(main, message, up) :
        up' = up \o bytes /\ main' = After(main, bytes, Len(message))
  BY <1>3 DEF ClientWrites
<1>5. /\ main.buf \in Seq(Letters) /\ up \in Seq(Letters) /\ server.buf \in Seq(Letters)
      /\ main = [at |-> main.at, buf |-> main.buf, size |-> main.size]
      /\ Begun(main.buf, message)
  BY <1>1, <1>3 DEF WireTypes, WriterInv
<1> DEFINE buf == main.buf \o bytes
<1>6. /\ buf = main.buf \o bytes /\ buf \in Seq(Letters) /\ bytes \in Seq(Letters)
      /\ Wrote(main, main', message, buf)
  BY <1>3, <1>4, <1>5, WriterAfter
<1> HIDE DEF buf
<1>7. /\ main' = [at |-> main'.at, buf |-> main'.buf, size |-> main'.size]
      /\ \/ main'.at = main.at /\ main'.buf = buf /\ Begun(buf, message)
         \/ main'.at = main.at + 1 /\ main'.buf = <<>> /\ buf = message
  BY <1>6 DEF Wrote
<1>8. main'.at \in {SIZE, NAME, ID} /\ main'.at \in Nat /\ main'.at < EVENTS
      /\ main'.at > STARTED /\ main.at > STARTED
      /\ (main'.at = main.at \/ main'.at = main.at + 1)
  BY <1>1, <1>7 DEF STARTED, SIZE, NAME, ID
<1>9. /\ (server.buf \o up) \o bytes = server.buf \o up'
      /\ server.buf \o up \in Seq(Letters) /\ up' \in Seq(Letters)
      /\ server.buf \o up' \in Seq(Letters)
  <2>1. PICK read \in Seq(Letters) : read = server.buf
    BY <1>5
  <2>2. up \in Seq(Letters) /\ bytes \in Seq(Letters)
    BY <1>5, <1>6
  <2>3. (read \o up) \o bytes = read \o (up \o bytes)
    BY <2>2, JoinThree
  <2>4. read \o up \in Seq(Letters) /\ up \o bytes \in Seq(Letters)
    BY <2>2, JoinParts
  <2>5. read \o (up \o bytes) \in Seq(Letters)
    BY <2>4, JoinParts
  <2> QED BY <1>4, <2>1, <2>3, <2>4, <2>5
<1>10. Inv' /\ EventsRead' = EventsRead /\ rpc' = rpc /\ received' = received
  BY <1>1, <1>2, RingSame
<1>11. WireTypes'
  <2>1. main'.at \in STARTED .. EVENTS + 2
    BY <1>1, <1>8 DEF STARTED, SIZE, NAME, ID
  <2>2. <<>> \in Seq(Letters)
    OBVIOUS
  <2>3. main'.buf \in Seq(Letters)
    BY <1>6, <1>7, <2>2
  <2> QED BY <1>1, <1>2, <1>7, <1>9, <2>1, <2>3 DEF WireTypes
<1>12. WriterInv'
  <2>1. Message(server.at)' = Message(server.at)
    BY <1>2, MessageSame
  <2>2. Begun(main'.buf, Message(main.at)')
    <3>1. CASE main'.at = main.at /\ main'.buf = buf /\ Begun(buf, message)
      <4>1. Message(main.at)' = message
        BY <1>2, <1>3, <3>1, MessageSame
      <4> QED BY <3>1, <4>1
    <3>2. CASE main'.buf = <<>>
      BY <3>2 DEF Begun
    <3> QED BY <1>7, <3>1, <3>2
  <2> QED BY <1>1, <1>2, <2>1, <2>2 DEF WriterInv
<1>13. MemoryInv' /\ HelloInv'
  BY <1>1, <1>2, <1>8 DEF MemoryInv, HelloInv, STARTED, SIZE, NAME, ID
<1>14. EventsInv'
  BY <1>1, <1>2, <1>8, <1>10 DEF EventsInv
<1>15. SizeInv'
  <2>1. main'.at # JSON /\ ~IsName(main'.at)
    BY <1>8, NoText DEF SIZE, NAME, ID, JSON
  <2> QED BY <1>1, <1>2, <2>1 DEF SizeInv
<1>16. server.at > STARTED /\ server.at <= NAME /\ down = <<>>
       /\ IsFlow(server.buf \o up, Msg, server.at, main.at, main.buf)
  <2>1. main.at <= NAME
    BY <1>1 DEF SIZE, NAME
  <2>2. server.at > STARTED /\ server.at <= NAME
    BY <1>1, <1>8, <2>1 DEF UpInv, NAME
  <2>3. down = <<>>
    BY <1>1 DEF UpInv
  <2>4. IsFlow(server.buf \o up, Msg, server.at, main.at, main.buf)
    BY <1>1, <1>8, <2>1, <2>2 DEF UpInv
  <2> QED BY <2>2, <2>3, <2>4
<1>17. Msg' = Msg
  BY <1>2, MsgSame
<1>18. UpInv'
  <2>1. PICK m \in Nat, s \in Nat, flow \in Seq(Letters) :
          m = server.at /\ s = main.at /\ flow = server.buf \o up
    BY <1>1, <1>9
  <2>2. IsFlow(flow \o bytes, Msg, m, s, main.buf \o bytes)
    <3>1. IsFlow(flow, Msg, m, s, main.buf)
      BY <1>16, <2>1
    <3> QED BY <1>6, <3>1, FlowWritten
  <2>3. IsFlow(server.buf \o up', Msg, server.at, main'.at, main'.buf)
    <3>1. IsFlow(server.buf \o up', Msg, m, s, buf)
      BY <1>6, <1>9, <2>1, <2>2
    <3>2. CASE main'.at = main.at /\ main'.buf = buf
      BY <2>1, <3>1, <3>2
    <3>3. CASE main'.at = main.at + 1 /\ main'.buf = <<>> /\ buf = message
      <4>1. buf = Msg[s]
        BY <1>1, <1>3, <2>1, <3>3, MsgIs
      <4>2. PICK folw \in Seq(Letters) : folw = server.buf \o up'
        BY <1>9
      <4>3. IsFlow(folw, Msg, m, s, Msg[s])
        BY <3>1, <4>1, <4>2
      <4>4. IsFlow(folw, Msg, m, s + 1, <<>>)
        BY <4>3, FlowDone
      <4> QED BY <2>1, <3>3, <4>2, <4>4
    <3> QED BY <1>7, <3>2, <3>3
  <2>4. main'.at > NAME => main'.at = ID /\ main'.buf = <<>>
    BY <1>1, <1>7, <1>8 DEF SIZE, NAME, ID
  <2>5. ~(main'.at <= NAME) => main'.at > NAME
    BY <1>8 DEF NAME
  <2>6. ~(server.at > NAME)
    BY <1>1, <1>16 DEF NAME
  <2>7. IsFlow(server.buf \o up', Msg, server.at,
               IF main'.at <= NAME THEN main'.at ELSE ID,
               IF main'.at <= NAME THEN main'.buf ELSE <<>>)
    <3>1. CASE main'.at <= NAME
      BY <2>3, <3>1
    <3>2. CASE ~(main'.at <= NAME)
      <4>1. main'.at = ID /\ main'.buf = <<>>
        BY <2>4, <2>5, <3>2
      <4> QED BY <2>3, <3>2, <4>1
    <3> QED BY <3>1, <3>2
  <2> QED BY <1>2, <1>16, <1>17, <2>6, <2>7 DEF UpInv
<1>19. DownInv'
  <2>1. main'.at > NAME => main'.at = ID /\ main'.buf = <<>>
    BY <1>1, <1>7, <1>8 DEF SIZE, NAME, ID
  <2>2. ~(server.at > NAME)
    BY <1>1, <1>16 DEF NAME
  <2> QED BY <1>2, <1>16, <2>1, <2>2 DEF DownInv
<1>20. NamesInv'
  <2>1. \A u \in Users : /\ u \in Nat /\ ~(main.at > 8 + 2 * u) /\ main.at # 8 + 2 * u
                         /\ ~(main'.at > 8 + 2 * u) /\ main'.at # 8 + 2 * u
    BY <1>1, <1>8, UsersType DEF SIZE, NAME, ID
  <2> QED BY <1>1, <1>2, <2>1 DEF NamesInv
<1>21. main'.at # GONE /\ main'.at # WILD
  BY <1>1, <1>8 DEF GONE, WILD
<1> QED BY <1>1, <1>2, <1>8, <1>10, <1>11, <1>12, <1>13, <1>14, <1>15, <1>18, <1>19, <1>20, <1>21
        DEF ConnectionInv

LEMMA AppendPrefix ==
    ASSUME NEW S, NEW s \in Seq(S), NEW e \in S, NEW n \in Nat, n <= Len(s)
    PROVE  SubSeq(Append(s, e), 1, n) = SubSeq(s, 1, n)
OBVIOUS

\* The first byte of an event says which one is being written.
LEMMA EventBegun ==
    ASSUME WireTypes, WriterInv, server.at = EVENTS,
           NEW e \in IF server.buf = <<>> THEN Event ELSE {Head(server.buf)[1]}
    PROVE  e \in Event /\ Begun(server.buf, IntBytes(e))
<1>1. CASE server.buf = <<>>
  BY <1>1 DEF Begun
<1>2. CASE server.buf # <<>>
  <2>1. PICK d \in Event : Begun(server.buf, IntBytes(d))
    BY DEF WriterInv
  <2>2. PICK buf \in Seq(Letters) : buf = server.buf /\ buf # <<>>
    BY <1>2 DEF WireTypes
  <2>3. PICK m \in Seq(Letters) : m = IntBytes(d) /\ m # <<>>
    BY IntBytesType DEF Ints
  <2>4. buf = SubSeq(m, 1, Len(buf)) /\ Len(buf) < Len(m)
    BY <2>1, <2>2, <2>3 DEF Begun
  <2>5. Head(buf) = Head(m)
    <3>1. PICK n \in Nat : n = Len(buf) /\ n >= 1 /\ n <= Len(m)
      BY <2>2, <2>4
    <3>2. \A k \in 1 .. n - 0 : SubSeq(m, 0 + 1, n)[k] = m[0 + k]
      BY <3>1, SubSeqParts
    <3>3. buf[1] = m[1]
      BY <2>4, <3>1, <3>2
    <3> QED BY <2>2, <2>3, <3>3
  <2>6. Head(m)[1] = d
    BY <2>3, IntBytesValue DEF Ints
  <2>7. e = d
    BY <1>2, <2>2, <2>5, <2>6
  <2> QED BY <2>1, <2>7
<1> QED BY <1>1, <1>2

\* The server writes an event.
LEMMA ServerBroadcastsInv == ConnectionInv /\ ServerBroadcasts => ConnectionInv'
<1> SUFFICES ASSUME ConnectionInv, ServerBroadcasts PROVE ConnectionInv'
  OBVIOUS
<1>1. /\ Inv /\ WireTypes /\ WriterInv /\ MemoryInv /\ EventsInv
      /\ main.at <= EVENTS => SizeInv /\ HelloInv /\ UpInv /\ DownInv /\ NamesInv
      /\ (main.at = GONE => ~open) /\ (main.at = WILD => server.at > NAME)
      /\ open /\ server.at = EVENTS
      /\ main.at <= EVENTS => main.at > NAME
      /\ main.at \in Nat /\ EVENTS \in Nat /\ EVENTS > 8
  <2>1. server.at = EVENTS /\ open
    BY DEF ServerBroadcasts
  <2> QED BY <2>1, Places DEF ConnectionInv, NAME
<1>2. /\ UNCHANGED vars /\ given' = given /\ before' = before /\ user_name' = user_name
      /\ users' = users /\ main' = main /\ up' = up /\ open' = open
  BY DEF ServerBroadcasts
<1>3. PICK e \in (IF server.buf = <<>> THEN Event ELSE {Head(server.buf)[1]}) :
      \E bytes \in Chunks(server, IntBytes(e), down) :
        LET buf == server.buf \o bytes IN
        /\ down' = down \o bytes
        /\ server' = [server EXCEPT !.buf = IF Len(buf) = IntSize THEN <<>> ELSE buf]
        /\ sent' = IF Len(buf) = IntSize THEN Append(sent, e) ELSE sent
  BY DEF ServerBroadcasts
<1>4. PICK bytes \in Chunks(server, IntBytes(e), down) :
        LET buf == server.buf \o bytes IN
        /\ down' = down \o bytes
        /\ server' = [server EXCEPT !.buf = IF Len(buf) = IntSize THEN <<>> ELSE buf]
        /\ sent' = IF Len(buf) = IntSize THEN Append(sent, e) ELSE sent
  BY <1>3
<1>5. /\ e \in Event /\ Begun(server.buf, IntBytes(e))
      /\ IntBytes(e) \in Seq(Letters) /\ Len(IntBytes(e)) = IntSize /\ IntSize \in Nat
  BY <1>1, EventBegun, IntBytesType, ConnectionAssumption DEF Ints
<1>6. /\ server.buf \in Seq(Letters) /\ down \in Seq(Letters) /\ main.buf \in Seq(Letters)
      /\ server = [at |-> server.at, buf |-> server.buf, size |-> server.size]
      /\ sent \in Seq(Event) /\ Len(sent) \in Nat
  BY <1>1 DEF WireTypes
<1> DEFINE buf == server.buf \o bytes
<1>7. /\ buf = server.buf \o bytes /\ buf \in Seq(Letters) /\ bytes \in Seq(Letters)
      /\ Len(buf) <= IntSize
      /\ Len(buf) < IntSize => Begun(buf, IntBytes(e))
      /\ Len(buf) = IntSize => buf = IntBytes(e)
  BY <1>5, <1>6, WriterTurn
<1>8. /\ down' = down \o bytes
      /\ server' = [at |-> server.at, size |-> server.size,
                    buf |-> IF Len(buf) = IntSize THEN <<>> ELSE buf]
      /\ sent' = IF Len(buf) = IntSize THEN Append(sent, e) ELSE sent
  BY <1>4, <1>6
<1> HIDE DEF buf
<1>9. Len(buf) \in Nat
  BY <1>7
<1>10. /\ server'.at = EVENTS
       /\ server' = [at |-> server'.at, buf |-> server'.buf, size |-> server'.size]
       /\ \/ server'.buf = buf /\ sent' = sent /\ Begun(buf, IntBytes(e))
          \/ server'.buf = <<>> /\ sent' = Append(sent, e) /\ buf = IntBytes(e)
  <2>1. server'.at = EVENTS /\ server' = [at |-> server'.at, buf |-> server'.buf, size |-> server'.size]
    BY <1>1, <1>8
  <2>2. CASE Len(buf) = IntSize
    BY <1>7, <1>8, <2>1, <2>2
  <2>3. CASE Len(buf) # IntSize
    <3>1. Len(buf) < IntSize
      BY <1>5, <1>7, <1>9, <2>3
    <3>2. server'.buf = buf /\ sent' = sent
      BY <1>8, <2>3
    <3> QED BY <1>7, <2>1, <3>1, <3>2
  <2> QED BY <2>2, <2>3
<1>11. /\ (main.buf \o down) \o bytes = main.buf \o down'
       /\ main.buf \o down \in Seq(Letters) /\ down' \in Seq(Letters)
       /\ main.buf \o down' \in Seq(Letters)
  <2>1. PICK read \in Seq(Letters) : read = main.buf
    BY <1>6
  <2>2. down \in Seq(Letters) /\ bytes \in Seq(Letters)
    BY <1>6, <1>7
  <2>3. (read \o down) \o bytes = read \o (down \o bytes)
    BY <2>2, JoinThree
  <2>4. read \o down \in Seq(Letters) /\ down \o bytes \in Seq(Letters)
    BY <2>2, JoinParts
  <2>5. read \o (down \o bytes) \in Seq(Letters)
    BY <2>4, JoinParts
  <2> QED BY <1>8, <2>1, <2>3, <2>4, <2>5
<1>12. Inv' /\ EventsRead' = EventsRead /\ rpc' = rpc /\ received' = received
  BY <1>1, <1>2, RingSame
<1>13. sent' \in Seq(Event)
  <2>1. Append(sent, e) \in Seq(Event)
    BY <1>5, <1>6
  <2>2. sent' = sent \/ sent' = Append(sent, e)
    BY <1>10
  <2> QED BY <1>6, <2>1, <2>2
<1>14. WireTypes'
  <2>1. server'.at \in STARTED .. EVENTS
    BY <1>1, <1>10 DEF STARTED
  <2>2. <<>> \in Seq(Letters)
    OBVIOUS
  <2>3. server'.buf \in Seq(Letters)
    BY <1>7, <1>10, <2>2
  <2> QED BY <1>1, <1>2, <1>10, <1>11, <1>13, <2>1, <2>3 DEF WireTypes
<1>15. WriterInv'
  <2>1. Begun(server'.buf, IntBytes(e))
    BY <1>10 DEF Begun
  <2>2. main.at \in {SIZE, NAME} => Begun(main.buf, Message(main.at)')
    BY <1>1, <1>2, MessageSame DEF WriterInv
  <2> QED BY <1>2, <1>5, <1>10, <2>1, <2>2 DEF WriterInv
<1>16. MemoryInv'
  <2>1. server.at > NAME /\ server'.at > NAME
    BY <1>1, <1>10 DEF NAME
  <2> QED BY <1>1, <1>2, <2>1 DEF MemoryInv
<1>17. EventsInv'
  <2>1. EventsRead \in Seq(Event) /\ Len(EventsRead) \in Nat /\ Len(EventsRead) <= Len(sent)
        /\ EventsRead = SubSeq(sent, 1, Len(EventsRead))
    BY <1>1, Places DEF EventsInv
  <2>2. Len(EventsRead) <= Len(sent') /\ EventsRead = SubSeq(sent', 1, Len(EventsRead))
    <3>1. CASE sent' = sent
      BY <2>1, <3>1
    <3>2. CASE sent' = Append(sent, e)
      <4>1. PICK n \in Nat : n = Len(EventsRead) /\ n <= Len(sent)
        BY <2>1
      <4>2. SubSeq(Append(sent, e), 1, n) = SubSeq(sent, 1, n)
        BY <1>5, <1>6, <4>1, AppendPrefix
      <4>3. n <= Len(Append(sent, e))
        BY <1>5, <1>6, <4>1
      <4> QED BY <2>1, <3>2, <4>1, <4>2, <4>3
    <3> QED BY <1>10, <3>1, <3>2
  <2>3. ~(server'.at < EVENTS)
    BY <1>1, <1>10
  <2> QED BY <1>1, <1>2, <1>12, <2>2, <2>3 DEF EventsInv
<1>18. main.at <= EVENTS => SizeInv' /\ NamesInv'
  <2> HAVE main.at <= EVENTS
  <2>1. server'.at # NAME
    BY <1>1, <1>10 DEF NAME
  <2>2. Message(main.at)' = Message(main.at)
    BY <1>2, MessageSame
  <2> QED BY <1>1, <1>2, <2>1, <2>2 DEF SizeInv, NamesInv
<1>19. main.at <= EVENTS => HelloInv' /\ UpInv'
  <2> HAVE main.at <= EVENTS
  <2>1. ~(server'.at <= NAME) /\ server'.at > STARTED /\ main.at # STARTED
        /\ main.at > STARTED /\ server.at > NAME /\ main.at \notin {SIZE, NAME}
    BY <1>1, <1>10 DEF SIZE, NAME, STARTED
  <2>2. up = <<>>
    BY <1>1, <2>1 DEF UpInv
  <2>3. HelloInv'
    BY <1>2, <2>1 DEF HelloInv
  <2>4. UpInv'
    BY <1>1, <1>2, <2>1, <2>2 DEF UpInv
  <2> QED BY <2>3, <2>4
<1>20. main.at <= EVENTS => DownInv'
  <2> HAVE main.at <= EVENTS
  <2>1. server.at > NAME /\ ~(server'.at <= NAME)
    BY <1>1, <1>10 DEF NAME
  <2>3. PICK m \in Nat : m = MainAt
    BY <1>1, Places DEF MainAt
  <2>4. PICK s \in Nat : s = EVENTS + Len(sent) /\ s = ServerAt
    BY <1>1, <1>6 DEF ServerAt
  <2>5. PICK flow \in Seq(Letters) : flow = main.buf \o down
    BY <1>11
  <2>6. IsFlow(flow, Msg, m, s, server.buf)
    BY <1>1, <2>1, <2>3, <2>4, <2>5 DEF DownInv
  <2>7. IsFlow(flow \o bytes, Msg, m, s, server.buf \o bytes)
    BY <1>7, <2>6, FlowWritten
  <2>8. PICK folw \in Seq(Letters) : folw = main.buf \o down'
    BY <1>11
  <2>9. IsFlow(folw, Msg, m, s, buf)
    BY <1>7, <1>11, <2>5, <2>7, <2>8
  <2>10. MainAt' = m
    BY <1>2, <1>12, <2>3 DEF MainAt
  <2>11. IsFlow(folw, Msg', m, ServerAt', server'.buf)
    <3>1. CASE server'.buf = buf /\ sent' = sent
      <4>1. Msg' = Msg
        BY <1>2, <3>1, MsgSame
      <4>2. ServerAt' = s
        BY <1>10, <2>4, <3>1 DEF ServerAt
      <4> QED BY <2>9, <3>1, <4>1, <4>2
    <3>2. CASE server'.buf = <<>> /\ sent' = Append(sent, e) /\ buf = IntBytes(e)
      <4>1. ServerAt' = s + 1
        <5>1. Len(sent') = Len(sent) + 1
          BY <1>5, <1>6, <3>2
        <5> QED BY <1>1, <1>6, <1>10, <2>4, <5>1 DEF ServerAt
      <4>2. \A k \in m .. s - 1 : Msg'[k] = Msg[k]
        <5> TAKE k \in m .. s - 1
        <5>1. k \in Nat
          OBVIOUS
        <5>2. CASE k < EVENTS
          <6>1. Message(k)' = Message(k)
            BY <1>2 DEF Message
          <6>2. Msg'[k] = Message(k)'
            BY <5>1, <5>2 DEF Msg
          <6>3. Msg[k] = Message(k)
            BY <5>1, <5>2 DEF Msg
          <6> QED BY <6>1, <6>2, <6>3
        <5>3. CASE ~(k < EVENTS)
          <6>1. k - EVENTS + 1 \in 1 .. Len(sent)
            BY <1>1, <1>6, <2>4, <5>1, <5>3
          <6>2. sent'[k - EVENTS + 1] = sent[k - EVENTS + 1]
            BY <1>5, <1>6, <3>2, <6>1
          <6>3. Msg'[k] = IntBytes(sent'[k - EVENTS + 1])
            BY <5>1, <5>3 DEF Msg
          <6>4. Msg[k] = IntBytes(sent[k - EVENTS + 1])
            BY <5>1, <5>3 DEF Msg
          <6> QED BY <6>2, <6>3, <6>4
        <5> QED BY <5>2, <5>3
      <4>3. Msg'[s] = buf
        <5>1. s - EVENTS + 1 = Len(sent) + 1 /\ ~(s < EVENTS)
          BY <1>1, <1>6, <2>4
        <5>2. sent'[Len(sent) + 1] = e
          BY <1>5, <1>6, <3>2
        <5>3. Msg'[s] = IntBytes(sent'[s - EVENTS + 1])
          BY <5>1 DEF Msg
        <5> QED BY <3>2, <5>1, <5>2, <5>3
      <4>4. PICK msg : msg = Msg'
        OBVIOUS
      <4>5. IsFlow(folw, msg, m, s, buf)
        BY <2>9, <4>2, <4>4, FlowSame
      <4>6. IsFlow(folw, msg, m, s, msg[s])
        BY <4>3, <4>4, <4>5
      <4>7. IsFlow(folw, msg, m, s + 1, <<>>)
        BY <4>6, FlowDone
      <4> QED BY <3>2, <4>1, <4>4, <4>7
    <3> QED BY <1>10, <3>1, <3>2
  <2> QED BY <1>2, <2>1, <2>8, <2>10, <2>11 DEF DownInv
<1>21. main'.at = main.at /\ (main'.at = WILD => server'.at > NAME)
  BY <1>1, <1>2, <1>10 DEF NAME
<1> QED BY <1>1, <1>2, <1>12, <1>14, <1>15, <1>16, <1>17, <1>18, <1>19, <1>20,
          <1>21
        DEF ConnectionInv

\* A size and the text behind it.
LEMMA SizeRead ==
    ASSUME WireTypes, MemoryInv, NEW k \in Nat, k < EVENTS, k >= ID,
           k + 1 = JSON \/ IsName(k + 1)
    PROVE  /\ k \in {SIZE, JSON_SIZE} \/ IsLength(k)
           /\ ValueOf(Message(k)) = Len(Message(k + 1))
<1>1. CASE k + 1 = JSON
  <2>1. k = JSON_SIZE /\ k + 1 = JSON
    BY <1>1 DEF JSON, JSON_SIZE
  <2>2. Len(JsonText) \in Ints
    BY HeapType DEF Ints
  <2>3. Message(k) = IntBytes(Len(JsonText)) /\ Message(k + 1) = JsonText
    BY <2>1, Messages
  <2> QED BY <2>1, <2>2, <2>3, IntBytesValue
<1>2. CASE IsName(k + 1)
  <2>1. k > JSON /\ k + 1 > JSON /\ k + 1 \in Nat
    BY <1>2 DEF IsName, JSON, ID
  <2>2. ~IsName(k)
    BY <1>2 DEF IsName, JSON
  <2>3. IsLength(k) /\ UserAt(k) \in Users /\ UserAt(k + 1) = UserAt(k) /\ ~IsLength(k + 1)
    <3>1. IsLength(k) /\ UserAt(k) \in Users /\ UserAt(k + 1) = UserAt(k)
      BY <2>1, <2>2, Steps
    <3>2. ~IsLength(k + 1)
      BY <1>2 DEF IsName, IsLength, JSON
    <3> QED BY <3>1, <3>2
  <2> DEFINE text == CString(user_name[UserAt(k)])
  <2>4. Message(k) = IntBytes(Len(text)) /\ Message(k + 1) = text
    BY <1>2, <2>1, <2>3, Messages
  <2>5. Len(text) \in Ints
    BY <2>3, MemoryType, CStringType DEF Ints
  <2> HIDE DEF text
  <2> QED BY <2>3, <2>4, <2>5, IntBytesValue
<1> QED BY <1>1, <1>2

\* The bytes that the client waits for are those of the message.
LEMMA ClientLength ==
    ASSUME ConnectionInv, main.at < EVENTS, main.at \notin {SIZE, NAME}
    PROVE  /\ Length(main.at, main.size) \in Nat
           /\ Length(main.at, main.size) = Len(Message(main.at))
           /\ Message(main.at) \in Seq(Letters)
<1>1. /\ WireTypes /\ MemoryInv /\ SizeInv /\ main.at \in Nat /\ STARTED <= main.at
  BY Places DEF ConnectionInv, STARTED
<1>2. /\ Message(main.at) \in Seq(Letters)
      /\ main.at \notin {NAME, JSON} /\ ~IsName(main.at) => Len(Message(main.at)) = IntSize
  BY <1>1, MessageType
<1>3. CASE main.at = JSON \/ IsName(main.at)
  <2>1. main.size = Len(Message(main.at))
    BY <1>1, <1>3 DEF SizeInv
  <2>2. Length(main.at, main.size) = main.size
    BY <1>3 DEF Length
  <2> QED BY <1>2, <2>1, <2>2
<1>4. CASE ~(main.at = JSON \/ IsName(main.at))
  <2>1. Length(main.at, main.size) = IntSize
    BY <1>4 DEF Length
  <2> QED BY <1>2, <1>4, <2>1
<1> QED BY <1>3, <1>4

\* The client's names when it is at a message and has read of it.
NamesAt(at, text, read) ==
    [u \in Users |-> IF at > 8 + 2 * u THEN text[u]
                     ELSE IF at = 8 + 2 * u THEN read ELSE <<>>]

\* What reading does to the names.
NamesStep(at, text, old, new, buf, na, fub) ==
    /\ new = IF IsName(at) THEN [old EXCEPT ![UserAt(at)] = buf] ELSE old
    /\ \/ na = at /\ fub = buf
       \/ na = at + 1 /\ fub = <<>> /\ (IsName(at) => buf = text[UserAt(at)])

LEMMA NamesRead ==
    ASSUME NEW at \in Nat, NEW na \in Nat, at < EVENTS, NEW read, NEW buf, NEW fub,
           NEW text, NEW old, NEW new, old = NamesAt(at, text, read),
           NamesStep(at, text, old, new, buf, na, fub)
    PROVE  new = NamesAt(na, text, fub)
<1>0. /\ new = IF IsName(at) THEN [old EXCEPT ![UserAt(at)] = buf] ELSE old
      /\ \/ na = at /\ fub = buf
         \/ na = at + 1 /\ fub = <<>> /\ (IsName(at) => buf = text[UserAt(at)])
  BY DEF NamesStep
<1>a. old = [u \in Users |-> IF at > 8 + 2 * u THEN text[u]
                             ELSE IF at = 8 + 2 * u THEN read ELSE <<>>]
  BY DEF NamesAt
<1>1. \A u \in Users : u \in Nat
  BY UsersType
<1>2. CASE IsName(at)
  <2>1. at > JSON
    BY <1>2 DEF IsName
  <2>2. PICK w \in Users : w = UserAt(at) /\ at = 8 + 2 * w
    BY <1>2, <2>1, Steps
  <2>3. ASSUME NEW u \in Users
        PROVE  new[u] = IF na > 8 + 2 * u THEN text[u]
                        ELSE IF na = 8 + 2 * u THEN fub ELSE <<>>
    <3>1. CASE u = w
      <4>1. new[u] = buf
        BY <1>0, <1>a, <1>2, <2>2, <3>1
      <4>2. w \in Nat
        BY <1>1
      <4>3. CASE na = at /\ fub = buf
        <5>1. ~(na > 8 + 2 * w) /\ na = 8 + 2 * w
          BY <2>2, <4>2, <4>3
        <5> QED BY <3>1, <4>1, <4>3, <5>1
      <4>4. CASE na = at + 1 /\ fub = <<>> /\ buf = text[w]
        <5>1. na > 8 + 2 * w
          BY <2>2, <4>2, <4>4
        <5> QED BY <3>1, <4>1, <4>4, <5>1
      <4> QED BY <1>0, <1>2, <2>2, <4>3, <4>4
    <3>2. CASE u # w
      <4>1. new[u] = old[u]
        BY <1>0, <1>a, <1>2, <2>2, <3>2
      <4>2. old[u] = IF at > 8 + 2 * u THEN text[u] ELSE <<>>
        BY <1>a, <1>1, <2>2, <3>2
      <4>3. u \in Nat /\ w \in Nat
        BY <1>1
      <4>4. (na > 8 + 2 * u <=> at > 8 + 2 * u) /\ na # 8 + 2 * u
        BY <1>0, <2>2, <3>2, <4>3
      <4> QED BY <4>1, <4>2, <4>4
    <3> QED BY <3>1, <3>2
  <2>4. new = [u \in Users |-> new[u]]
    BY <1>0, <1>a, <1>2
  <2> QED BY <2>3, <2>4 DEF NamesAt
<1>3. CASE ~IsName(at)
  <2>1. ASSUME NEW u \in Users PROVE at # 8 + 2 * u
    <3>1. u \in Nat
      BY <1>1
    <3> QED BY <1>3, <3>1 DEF IsName, JSON
  <2>2. ASSUME NEW u \in Users
        PROVE  new[u] = IF na > 8 + 2 * u THEN text[u]
                        ELSE IF na = 8 + 2 * u THEN fub ELSE <<>>
    <3>1. new[u] = IF at > 8 + 2 * u THEN text[u] ELSE <<>>
      BY <1>0, <1>a, <1>3, <2>1
    <3>2. u \in Nat
      BY <1>1
    <3>3. at # 8 + 2 * u
      BY <2>1
    <3>4. CASE na = at
      BY <3>1, <3>3, <3>4
    <3>5. CASE na = at + 1 /\ fub = <<>>
      <4>1. na > 8 + 2 * u <=> at > 8 + 2 * u
        BY <3>2, <3>3, <3>5
      <4> QED BY <3>1, <3>5, <4>1
    <3> QED BY <1>0, <3>4, <3>5
  <2>3. new = [u \in Users |-> new[u]]
    BY <1>0, <1>a, <1>3
  <2> QED BY <2>2, <2>3 DEF NamesAt
<1> QED BY <1>2, <1>3

\* The client reads what comes before the events.
LEMMA ClientReadsInv == ConnectionInv /\ ClientReads => ConnectionInv'
<1> SUFFICES ASSUME ConnectionInv, ClientReads PROVE ConnectionInv'
  OBVIOUS
<1>1. /\ Inv /\ WireTypes /\ WriterInv /\ MemoryInv /\ EventsInv
      /\ SizeInv /\ HelloInv /\ UpInv /\ DownInv /\ NamesInv
      /\ main.at < EVENTS /\ main.at \notin {SIZE, NAME}
      /\ server.at \in Nat /\ 1 <= server.at /\ main.at \in Nat /\ 1 <= main.at
      /\ EVENTS \in Nat /\ EVENTS > 8 /\ EventsRead = <<>>
  <2>1. main.at < EVENTS /\ main.at \notin {SIZE, NAME}
    BY DEF ClientReads
  <2> QED BY <2>1, Places DEF ConnectionInv
<1>2. /\ UNCHANGED vars /\ given' = given /\ before' = before /\ user_name' = user_name
      /\ server' = server /\ up' = up /\ open' = open /\ sent' = sent
  BY DEF ClientReads
<1>3. PICK bytes \in Arrived(main, down) :
        /\ down' = SubSeq(down, Len(bytes) + 1, Len(down))
        /\ main' = After(main, bytes, Length(main.at, main.size))
        /\ users' = IF IsName(main.at)
                    THEN [users EXCEPT ![UserAt(main.at)] =
                              Stored(@, Len(main.buf), Written(bytes))]
                    ELSE users
  BY DEF ClientReads
<1>4. /\ main.buf \in Seq(Letters) /\ down \in Seq(Letters)
      /\ server.buf \in Seq(Letters)
      /\ main = [at |-> main.at, buf |-> main.buf, size |-> main.size]
  BY <1>1 DEF WireTypes
<1>5. PICK len \in Nat : /\ len = Length(main.at, main.size) /\ len = Len(Message(main.at))
  BY <1>1, ClientLength
<1> DEFINE buf == main.buf \o bytes
           rest == SubSeq(down, Len(bytes) + 1, Len(down))
<1>6. /\ bytes \in Seq(Letters) /\ buf \in Seq(Letters) /\ buf # <<>> /\ down # <<>>
      /\ rest \in Seq(Letters) /\ buf \o rest = main.buf \o down
      /\ buf = main.buf \o bytes /\ down' = rest
  BY <1>3, <1>4, ReaderTurn
<1>7. Read(main, main', len, buf)
  BY <1>3, <1>4, <1>5, ReaderAfter
<1> HIDE DEF buf, rest
<1>8. /\ main' = [at |-> main'.at, buf |-> main'.buf, size |-> main'.size]
      /\ \/ /\ main'.at = main.at /\ main'.buf = buf /\ main'.size = main.size
            /\ Len(buf) < len
         \/ /\ main'.at = main.at + 1 /\ main'.buf = <<>> /\ Len(buf) = len
            /\ main'.size = IF main.at \in {SIZE, JSON_SIZE} \/ IsLength(main.at)
                            THEN ValueOf(buf) ELSE main.size
  BY <1>7 DEF Read
<1>9. main.at = STARTED \/ main.at >= ID
  BY <1>1 DEF STARTED, SIZE, NAME, ID
<1>10. MainAt = main.at /\ Msg[MainAt] = Message(main.at) /\ MainAt \in Nat
  <2>1. Len(EventsRead) = 0
    BY <1>1
  <2>2. MainAt = main.at
    BY <1>1, <2>1 DEF MainAt
  <2> QED BY <1>1, <2>2, MsgIs
<1>11. main.at >= ID =>
         /\ server.at > NAME
         /\ Len(buf) = len => buf = Message(main.at)
                              /\ IsFlow(rest, Msg, main.at + 1, ServerAt, server.buf)
  <2> SUFFICES ASSUME main.at >= ID
               PROVE  /\ server.at > NAME
                      /\ Len(buf) = len =>
                           /\ buf = Message(main.at)
                           /\ IsFlow(rest, Msg, main.at + 1, ServerAt, server.buf)
    OBVIOUS
  <2>1. main.at > NAME /\ main.at <= EVENTS
    BY <1>1 DEF NAME, ID
  <2>2. server.at > NAME
    BY <1>1, <1>6, <2>1 DEF DownInv, NAME
  <2>3. Len(buf) = len => /\ buf = Msg[MainAt]
                          /\ IsFlow(rest, Msg, MainAt + 1, ServerAt, server.buf)
    <3> SUFFICES ASSUME Len(buf) = len
                 PROVE  /\ buf = Msg[MainAt]
                        /\ IsFlow(rest, Msg, MainAt + 1, ServerAt, server.buf)
      OBVIOUS
    <3>1. Len(buf) = Len(Msg[MainAt])
      BY <1>5, <1>10
    <3> QED BY <1>6, <2>1, <3>1, DownRead
  <2> QED BY <1>10, <2>2, <2>3
<1>12. main.at = STARTED =>
         /\ up = <<>> /\ server.at <= SIZE
         /\ Len(buf) = len => server.at = SIZE /\ server.buf = <<>> /\ rest = <<>>
  <2> SUFFICES ASSUME main.at = STARTED
               PROVE  /\ up = <<>> /\ server.at <= SIZE
                      /\ Len(buf) = len => server.at = SIZE /\ server.buf = <<>> /\ rest = <<>>
    OBVIOUS
  <2>1. /\ up = <<>> /\ server.at <= SIZE
        /\ server.at = STARTED => buf \o rest = server.buf
        /\ server.at = SIZE => buf \o rest = IntBytes(0) /\ server.buf = <<>>
    BY <1>1, <1>6 DEF HelloInv
  <2>2. Len(buf \o rest) = Len(buf) + Len(rest) /\ Len(rest) \in Nat /\ Len(buf) \in Nat
    BY <1>6
  <2>3. Message(STARTED) = IntBytes(0) /\ Len(IntBytes(0)) = IntSize /\ len = IntSize
        /\ IntSize \in Nat /\ Len(server.buf) \in Nat
    BY <1>4, <1>5, Messages, IntBytesLen, HeapType
  <2>4. server.at = STARTED => server.buf = <<>> \/ Len(server.buf) < IntSize
    BY <1>1, <2>3 DEF WriterInv, Begun, STARTED, SIZE, NAME
  <2>5. Len(buf) # 0
    BY <1>6
  <2>6. Len(buf) = len => server.at # STARTED
    <3> SUFFICES ASSUME Len(buf) = len, server.at = STARTED PROVE FALSE
      OBVIOUS
    <3>1. Len(server.buf) = Len(buf) + Len(rest)
      BY <2>1, <2>2
    <3>2. server.buf = <<>> => Len(server.buf) = 0
      OBVIOUS
    <3> QED BY <2>2, <2>3, <2>4, <2>5, <3>1, <3>2
  <2>7. server.at # STARTED => server.at = SIZE
    BY <1>1, <2>1 DEF STARTED, SIZE
  <2>8. server.at = SIZE /\ Len(buf) = len => Len(rest) = 0
    BY <2>1, <2>2, <2>3
  <2>9. Len(rest) = 0 => rest = <<>>
    BY <1>6
  <2> QED BY <2>1, <2>6, <2>7, <2>8, <2>9
<1>13. Inv' /\ EventsRead' = EventsRead /\ rpc' = rpc /\ received' = received
  BY <1>1, <1>2, RingSame
<1>14. /\ main'.at \in Nat /\ main'.at <= EVENTS
       /\ main.at = STARTED => main'.at \in {STARTED, SIZE}
       /\ main.at >= ID => main'.at >= ID
       /\ (main'.at = main.at \/ main'.at = main.at + 1)
  BY <1>1, <1>8 DEF STARTED, SIZE, ID
<1>15. WireTypes'
  <2>1. main'.at \in STARTED .. EVENTS + 2
    BY <1>1, <1>14 DEF STARTED
  <2>2. <<>> \in Seq(Letters)
    OBVIOUS
  <2>3. main'.buf \in Seq(Letters)
    BY <1>6, <1>8, <2>2
  <2> QED BY <1>1, <1>2, <1>6, <1>8, <2>1, <2>3 DEF WireTypes
<1>16. WriterInv'
  <2>1. Message(server.at)' = Message(server.at)
    BY <1>2, MessageSame
  <2>2. main'.at \in {SIZE, NAME} => main'.buf = <<>>
    BY <1>1, <1>8
  <2> QED BY <1>1, <1>2, <2>1, <2>2 DEF WriterInv, Begun
<1>17. MemoryInv'
  BY <1>1, <1>2 DEF MemoryInv
<1>18. EventsInv'
  <2>1. rpc = "read" /\ received = <<>>
    BY <1>1 DEF EventsInv
  <2> QED BY <1>1, <1>2, <1>13, <2>1 DEF EventsInv
<1>19. SizeInv'
  <2>1. server.at = NAME => server.size = Len(given[Me])
    BY <1>1 DEF SizeInv
  <2>2. main'.at = JSON \/ IsName(main'.at) => main'.size = Len(Message(main'.at))
    <3> SUFFICES ASSUME main'.at = JSON \/ IsName(main'.at)
                 PROVE  main'.size = Len(Message(main'.at))
      OBVIOUS
    <3>1. CASE main'.at = main.at /\ main'.size = main.size
      BY <1>1, <3>1 DEF SizeInv
    <3>2. CASE main'.at = main.at + 1 /\ Len(buf) = len
      <4>1. main'.at > ID
        BY <1>1, <1>9, <3>2, NoText DEF STARTED, JSON, ID, IsName
      <4>2. main.at >= ID
        BY <1>1, <3>2, <4>1 DEF ID
      <4>3. /\ main.at \in {SIZE, JSON_SIZE} \/ IsLength(main.at)
            /\ ValueOf(Message(main.at)) = Len(Message(main.at + 1))
        BY <1>1, <3>2, <4>2, SizeRead
      <4>4. main'.at # main.at
        BY <1>1, <3>2
      <4>5. main'.size = ValueOf(buf)
        BY <1>8, <4>3, <4>4
      <4> QED BY <1>11, <3>2, <4>2, <4>3, <4>5
    <3> QED BY <1>8, <3>1, <3>2
  <2>3. Message(main.at)' = Message(main'.at)
    BY <1>2, MessageSame
  <2> QED BY <1>2, <2>1, <2>2, <2>3 DEF SizeInv
<1>20. HelloInv'
  <2> SUFFICES ASSUME main'.at = STARTED PROVE HelloInv'
    BY DEF HelloInv
  <2>1. main.at = STARTED /\ main'.at = main.at
    BY <1>1, <1>9, <1>14 DEF STARTED, ID
  <2>2. main'.buf = buf
    BY <1>1, <1>8, <2>1
  <2> QED BY <1>1, <1>2, <1>6, <2>1, <2>2 DEF HelloInv
<1>21. UpInv'
  <2>1. CASE main.at = STARTED
    <3>1. CASE main'.at = STARTED
      <4>1. ~(main'.at > STARTED) /\ main'.at \notin {SIZE, NAME}
        BY <3>1 DEF STARTED, SIZE, NAME
      <4> QED BY <4>1 DEF UpInv
    <3>2. CASE main'.at # STARTED
      <4>1. main'.at = SIZE /\ Len(buf) = len /\ main'.buf = <<>>
        BY <1>1, <1>8, <1>14, <2>1, <3>2
      <4>2. server.at = SIZE /\ server.buf = <<>> /\ up = <<>> /\ down' = <<>>
        BY <1>6, <1>12, <2>1, <4>1
      <4>3. IsFlow(<<>>, Msg', SIZE, SIZE, <<>>)
        BY FlowEmpty DEF SIZE
      <4>4. server.buf \o up = <<>>
        BY <4>2
      <4>5. SIZE > STARTED /\ SIZE <= NAME /\ ~(SIZE > NAME)
        BY DEF STARTED, SIZE, NAME
      <4> QED BY <1>2, <4>1, <4>2, <4>3, <4>4, <4>5 DEF UpInv
    <3> QED BY <3>1, <3>2
  <2>2. CASE main.at >= ID
    <3>1. server.at > NAME /\ server.at > STARTED /\ ~(server.at <= NAME)
          /\ main.at > STARTED /\ main'.at > NAME /\ main'.at \notin {SIZE, NAME}
      BY <1>1, <1>11, <1>14, <2>2 DEF STARTED, SIZE, NAME, ID
    <3>2. up = <<>>
      BY <1>1, <3>1 DEF UpInv
    <3> QED BY <1>2, <3>1, <3>2 DEF UpInv
  <2> QED BY <1>9, <2>1, <2>2
<1>22. DownInv'
  <2> SUFFICES ASSUME main'.at > NAME PROVE DownInv'
    BY DEF DownInv
  <2>1. main.at >= ID
    BY <1>9, <1>14 DEF STARTED, SIZE, NAME
  <2>2. main.at > NAME /\ server.at > NAME /\ ~(server.at <= NAME)
    BY <1>1, <1>11, <2>1 DEF NAME, ID
  <2>3. IsFlow(buf \o rest, Msg, main.at, ServerAt, server.buf)
    BY <1>1, <1>6, <1>10, <2>2 DEF DownInv
  <2>4. Msg' = Msg /\ ServerAt' = ServerAt
    BY <1>2, MsgSame DEF ServerAt
  <2>5. MainAt' = main'.at
    BY <1>1, <1>13, <1>14 DEF MainAt
  <2>6. IsFlow(main'.buf \o down', Msg, main'.at, ServerAt, server.buf)
    <3>1. CASE main'.at = main.at /\ main'.buf = buf
      BY <1>6, <2>3, <3>1
    <3>2. CASE main'.at = main.at + 1 /\ main'.buf = <<>> /\ Len(buf) = len
      <4>1. <<>> \o rest = rest
        BY <1>6
      <4> QED BY <1>6, <1>11, <2>1, <3>2, <4>1
    <3> QED BY <1>8, <3>1, <3>2
  <2> QED BY <1>2, <2>2, <2>4, <2>5, <2>6 DEF DownInv
<1>23. NamesInv'
  <2> DEFINE text == [u \in Users |-> Append(CString(user_name[u]), NUL)]
             old == NamesAt(main.at, text, main.buf)
             wrote == IF IsName(main.at) THEN main.buf \o Written(bytes) ELSE main'.buf
             new == IF IsName(main.at) THEN [old EXCEPT ![UserAt(main.at)] = wrote] ELSE old
  <2>1. IsName(main.at) => /\ UserAt(main.at) \in Users /\ main.at = 8 + 2 * UserAt(main.at)
                           /\ main.at > JSON /\ ~IsLength(main.at)
    <3>1. IsName(main.at) => main.at > JSON
      BY DEF IsName
    <3> QED BY <1>1, <3>1, Steps
  <2>2. users = [u \in Users |-> Stored(UserMemory[u], 0, old[u])]
    BY <1>1 DEF NamesInv, NamesAt
  <2>3. IsName(main.at) => old[UserAt(main.at)] = main.buf
    <3> SUFFICES ASSUME IsName(main.at) PROVE old[UserAt(main.at)] = main.buf
      OBVIOUS
    <3>1. PICK w \in Users : w = UserAt(main.at) /\ main.at = 8 + 2 * w
      BY <2>1
    <3>2. ~(main.at > 8 + 2 * w)
      BY <1>1, <3>1
    <3> HIDE DEF text
    <3> QED BY <3>1, <3>2 DEF NamesAt
  <2>4. IsName(main.at) =>
          /\ Written(bytes) \in Seq(Letters)
          /\ Len(buf) < len => wrote = buf
          /\ Len(buf) = len => wrote = text[UserAt(main.at)]
    <3> SUFFICES ASSUME IsName(main.at)
                 PROVE  /\ Written(bytes) \in Seq(Letters)
                        /\ Len(buf) < len => wrote = buf
                        /\ Len(buf) = len => wrote = text[UserAt(main.at)]
      OBVIOUS
    <3>1. main.size = len /\ wrote = main.buf \o Written(bytes)
      BY <1>1, <1>5 DEF SizeInv
    <3>2. Written(bytes) = IF Len(buf) = len THEN Append(bytes, NUL) ELSE bytes
      BY <1>6, <3>1 DEF Written
    <3>3. NUL \in Letters
      BY HeapType
    <3>4. CASE Len(buf) = len
      <4>1. main.at >= ID
        BY <1>1, <2>1 DEF ID, JSON
      <4>2. Message(main.at) = CString(user_name[UserAt(main.at)])
        BY <1>1, <2>1, Messages
      <4>3. buf = CString(user_name[UserAt(main.at)])
        BY <1>11, <3>4, <4>1, <4>2
      <4>4. main.buf \o Append(bytes, NUL) = Append(buf, NUL)
        BY <1>4, <1>6, <3>3, JoinAppend
      <4> HIDE DEF wrote
      <4>5. Append(bytes, NUL) \in Seq(Letters)
        BY <1>6, <3>3
      <4>6. text[UserAt(main.at)] = Append(buf, NUL)
        BY <2>1, <4>3
      <4>7. wrote = Append(buf, NUL) /\ Written(bytes) = Append(bytes, NUL)
        BY <3>1, <3>2, <3>4, <4>4
      <4>8. ~(Len(buf) < len)
        BY <3>4
      <4> HIDE DEF text
      <4> QED BY <4>5, <4>6, <4>7, <4>8
    <3>5. CASE Len(buf) # len
      <4> HIDE DEF wrote, text
      <4> QED BY <1>6, <3>1, <3>2, <3>5
    <3> QED BY <3>4, <3>5
  <2>5. \/ main'.at = main.at /\ main'.buf = wrote
        \/ /\ main'.at = main.at + 1 /\ main'.buf = <<>>
           /\ IsName(main.at) => wrote = text[UserAt(main.at)]
    <3>1. ~IsName(main.at) => wrote = main'.buf
      OBVIOUS
    <3> HIDE DEF wrote, text
    <3> QED BY <1>8, <2>4, <3>1
  <2>6. new = NamesAt(main'.at, text, main'.buf)
    <3> HIDE DEF text, wrote
    <3>1. NamesStep(main.at, text, old, new, wrote, main'.at, main'.buf)
      BY <2>5 DEF NamesStep
    <3> HIDE DEF old, new
    <3>2. old = NamesAt(main.at, text, main.buf)
      BY DEF old
    <3> QED BY <1>1, <1>14, <3>1, <3>2, NamesRead
  <2>7. users' = [u \in Users |-> Stored(UserMemory[u], 0, new[u])]
    <3> HIDE DEF text
    <3>1. CASE IsName(main.at)
      <4>1. PICK w \in Users : w = UserAt(main.at)
        BY <2>1, <3>1
      <4>2. UserMemory[w] \in Seq(Letters)
        BY HeapType
      <4>3. Stored(users[w], Len(main.buf), Written(bytes)) = Stored(UserMemory[w], 0, wrote)
        <5>1. users[w] = Stored(UserMemory[w], 0, main.buf)
          BY <2>2, <2>3, <3>1, <4>1
        <5>2. wrote = main.buf \o Written(bytes)
          BY <3>1
        <5> HIDE DEF wrote
        <5> QED BY <1>4, <2>4, <3>1, <4>2, <5>1, <5>2, StoredMore
      <4>4. users' = [users EXCEPT ![w] = Stored(UserMemory[w], 0, wrote)]
        BY <1>3, <3>1, <4>1, <4>3
      <4>5. new = [old EXCEPT ![w] = wrote] /\ old = [u \in Users |-> old[u]]
        BY <3>1, <4>1 DEF NamesAt
      <4> HIDE DEF old, new, wrote
      <4> QED BY <2>2, <4>4, <4>5
    <3>2. CASE ~IsName(main.at)
      BY <1>3, <2>2, <3>2
    <3> QED BY <3>1, <3>2
  <2> HIDE DEF new
  <2>8. users' = [u \in Users |-> Stored(UserMemory[u], 0,
                    IF main'.at > 8 + 2 * u THEN text[u]
                    ELSE IF main'.at = 8 + 2 * u THEN main'.buf ELSE <<>>)]
    <3> HIDE DEF text
    <3> QED BY <2>6, <2>7 DEF NamesAt
  <2> QED BY <1>2, <2>8 DEF NamesInv
<1>24. main'.at # GONE /\ main'.at # WILD
  BY <1>1, <1>14 DEF GONE, WILD
<1> QED BY <1>13, <1>15, <1>16, <1>17, <1>18, <1>19, <1>20, <1>21, <1>22, <1>23, <1>24
        DEF ConnectionInv

\* The client is at the end, or outside its memory: nothing more is said of it.
LEMMA LeavesMain ==
    ASSUME ConnectionInv, UNCHANGED vars, main.at < EVENTS,
           NEW at \in {GONE, WILD}, main' = [main EXCEPT !.at = at],
           at = GONE => ~open, at = WILD => server.at > NAME,
           given' = given, before' = before, user_name' = user_name, users' = users,
           server' = server, up' = up, down' = down, open' = open, sent' = sent
    PROVE  ConnectionInv'
<1>1. /\ Inv /\ WireTypes /\ WriterInv /\ MemoryInv /\ EventsInv
      /\ EVENTS \in Nat /\ EVENTS > 8 /\ main.at # EVENTS
  BY UsersType, Places DEF ConnectionInv
<1>2. Inv' /\ EventsRead' = EventsRead /\ rpc' = rpc /\ received' = received
  BY <1>1, RingSame
<1>3. main = [at |-> main.at, buf |-> main.buf, size |-> main.size]
  BY <1>1 DEF WireTypes
<1>4. main' = [at |-> at, buf |-> main.buf, size |-> main.size]
  BY <1>3
<1>5. main'.at = at /\ main'.buf = main.buf /\ main'.size = main.size
  BY <1>4
<1>6. /\ at \in STARTED .. EVENTS + 2 /\ at \notin {SIZE, NAME} /\ at # EVENTS
      /\ ~(at <= EVENTS)
  BY <1>1 DEF STARTED, SIZE, NAME, GONE, WILD
<1>7. WireTypes'
  BY <1>1, <1>4, <1>5, <1>6 DEF WireTypes
<1>8. Message(server.at)' = Message(server.at)
  BY MessageSame
<1>9. WriterInv' /\ MemoryInv'
  BY <1>1, <1>5, <1>6, <1>8 DEF WriterInv, MemoryInv
<1>10. rpc = "read" /\ received = <<>>
  BY <1>1 DEF EventsInv
<1>11. EventsInv'
  BY <1>1, <1>2, <1>5, <1>10 DEF EventsInv
<1> QED BY <1>2, <1>5, <1>6, <1>7, <1>9, <1>11 DEF ConnectionInv

\* A name leaves the memory of its user.
LEMMA ClientOverrunsInv == ConnectionInv /\ ClientOverruns => ConnectionInv'
<1> SUFFICES ASSUME ConnectionInv, ClientOverruns PROVE ConnectionInv'
  OBVIOUS
<1>1. main.at < EVENTS /\ IsName(main.at) /\ main' = [main EXCEPT !.at = WILD]
  BY DEF ClientOverruns
<1>2. main.at > NAME /\ main.at <= EVENTS /\ server.at \in Nat
  BY <1>1, Places DEF IsName, JSON, NAME
<1>3. server.at > NAME
  <2>1. PICK bytes : bytes \in Arrived(main, down)
    BY DEF ClientOverruns
  <2>2. down # <<>>
    BY <2>1 DEF Arrived
  <2> QED BY <1>2, <2>2 DEF ConnectionInv, DownInv, NAME
<1>4. WILD # GONE
  BY UsersType DEF WILD, GONE
<1> QED BY <1>1, <1>3, <1>4, LeavesMain DEF ClientOverruns

LEMMA PrefixMore ==
    ASSUME NEW S, NEW s \in Seq(S), NEW n \in Nat, n < Len(s)
    PROVE  SubSeq(s, 1, n + 1) = Append(SubSeq(s, 1, n), s[n + 1])
OBVIOUS

\* At the events the client waits for an int, and has all names.
LEMMA AtEvents ==
    ASSUME main.at = EVENTS
    PROVE  /\ main.at > NAME /\ main.at # STARTED /\ main.at \notin {SIZE, NAME}
           /\ main.at # JSON /\ ~IsName(main.at) /\ main.at > STARTED
           /\ Length(main.at, main.size) = IntSize
           /\ \A u \in Users : main.at > 8 + 2 * u /\ main.at # 8 + 2 * u
<1>1. EVENTS > 8 /\ EVENTS \in Nat /\ ~IsName(EVENTS)
  BY UsersType
<1>2. \A u \in Users : EVENTS > 8 + 2 * u /\ EVENTS # 8 + 2 * u
  <2>1. PICK c \in Nat : c = Cardinality(Users)
    BY UsersType
  <2>2. EVENTS = 7 + 2 * c /\ Users = 0 .. c - 1
    BY <2>1, UsersType DEF EVENTS
  <2> QED BY <2>2
<1>3. Length(main.at, main.size) = IntSize
  <2>1. main.at \notin {NAME, JSON}
    BY <1>1 DEF NAME, JSON
  <2> QED BY <1>1, <2>1 DEF Length
<1> QED BY <1>1, <1>2, <1>3 DEF STARTED, SIZE, NAME, JSON

\* read_msg reads bytes of an event.
LEMMA ReaderReadsInv == ConnectionInv /\ ReaderReads => ConnectionInv'
<1> SUFFICES ASSUME ConnectionInv, ReaderReads PROVE ConnectionInv'
  OBVIOUS
<1>1. /\ Inv /\ WireTypes /\ WriterInv /\ MemoryInv /\ EventsInv
      /\ SizeInv /\ HelloInv /\ UpInv /\ DownInv /\ NamesInv
      /\ main.at = EVENTS /\ rpc = "read" /\ main.at <= EVENTS
      /\ server.at \in Nat /\ server.at <= EVENTS /\ main.at \in Nat
      /\ EVENTS \in Nat /\ EVENTS > 8
  <2>1. main.at = EVENTS /\ rpc = "read"
    BY DEF ReaderReads
  <2> QED BY <2>1, Places DEF ConnectionInv
<1>2. /\ given' = given /\ before' = before /\ user_name' = user_name /\ users' = users
      /\ server' = server /\ up' = up /\ open' = open /\ sent' = sent
  BY DEF ReaderReads
<1>3. PICK bytes \in Arrived(main, down) :
        LET buf == main.buf \o bytes IN
        /\ down' = SubSeq(down, Len(bytes) + 1, Len(down))
        /\ IF Len(buf) < IntSize
           THEN main' = [main EXCEPT !.buf = buf] /\ UNCHANGED vars
           ELSE main' = [main EXCEPT !.buf = <<>>] /\ ReadEvent(ValueOf(buf))
  BY DEF ReaderReads
<1>4. /\ main.buf \in Seq(Letters) /\ down \in Seq(Letters) /\ sent \in Seq(Event)
      /\ main = [at |-> main.at, buf |-> main.buf, size |-> main.size]
      /\ Len(sent) \in Nat /\ IntSize \in Nat
  BY <1>1, HeapType DEF WireTypes
<1>5. /\ main.at > NAME /\ main.at # STARTED /\ main.at \notin {SIZE, NAME}
      /\ main.at # JSON /\ ~IsName(main.at) /\ main.at > STARTED
      /\ Length(main.at, main.size) = IntSize
      /\ \A u \in Users : main.at > 8 + 2 * u
  BY <1>1, AtEvents
<1> DEFINE buf == main.buf \o bytes
           rest == SubSeq(down, Len(bytes) + 1, Len(down))
<1>6. /\ bytes \in Seq(Letters) /\ buf \in Seq(Letters) /\ buf # <<>> /\ down # <<>>
      /\ rest \in Seq(Letters) /\ buf \o rest = main.buf \o down
      /\ down' = rest /\ Len(buf) <= IntSize
  BY <1>3, <1>4, <1>5, ReaderTurn
<1>7. IF Len(buf) < IntSize
      THEN main' = [main EXCEPT !.buf = buf] /\ UNCHANGED vars
      ELSE main' = [main EXCEPT !.buf = <<>>] /\ ReadEvent(ValueOf(buf))
  BY <1>3
<1> HIDE DEF buf, rest
<1>8. /\ main' = [at |-> main'.at, buf |-> main'.buf, size |-> main'.size]
      /\ main'.at = main.at /\ main'.size = main.size
      /\ \/ main'.buf = buf /\ UNCHANGED vars
         \/ main'.buf = <<>> /\ Len(buf) = IntSize /\ ReadEvent(ValueOf(buf))
  <2>1. CASE Len(buf) < IntSize
    <3>1. main' = [at |-> main.at, buf |-> buf, size |-> main.size] /\ UNCHANGED vars
      BY <1>4, <1>7, <2>1
    <3> QED BY <3>1
  <2>2. CASE ~(Len(buf) < IntSize)
    <3>1. main' = [at |-> main.at, buf |-> <<>>, size |-> main.size]
      BY <1>4, <1>7, <2>2
    <3>2. ReadEvent(ValueOf(buf))
      BY <1>7, <2>2
    <3>3. Len(buf) \in Nat
      BY <1>6
    <3>4. Len(buf) = IntSize
      BY <1>4, <1>6, <2>2, <3>3
    <3> QED BY <3>1, <3>2, <3>4
  <2> QED BY <2>1, <2>2
<1>9. EventsRead = received /\ received \in Seq(Event) /\ Len(received) \in Nat
      /\ Len(received) <= Len(sent) /\ received = SubSeq(sent, 1, Len(received))
  <2>1. EventsRead = received
    BY <1>1 DEF EventsRead
  <2>2. EventsRead \in Seq(Event) /\ Len(EventsRead) \in Nat
    BY Places
  <2> QED BY <1>1, <2>1, <2>2 DEF EventsInv
<1>10. PICK n \in Nat : n = Len(received)
  BY <1>9
<1>11. MainAt = EVENTS + n /\ MainAt \in Nat /\ Msg[MainAt] = IntBytes(sent[n + 1])
  <2>1. MainAt = EVENTS + n
    BY <1>1, <1>9, <1>10 DEF MainAt
  <2> QED BY <1>1, <1>10, <2>1, MsgIs
<1>12. server.at > NAME
  BY <1>1, <1>5, <1>6 DEF DownInv, NAME
<1>13. Len(buf) = IntSize =>
         /\ n < Len(sent) /\ sent[n + 1] \in Event /\ ValueOf(buf) = sent[n + 1]
         /\ IsFlow(rest, Msg, MainAt + 1, ServerAt, server.buf)
  <2> SUFFICES ASSUME Len(buf) = IntSize
               PROVE  /\ n < Len(sent) /\ sent[n + 1] \in Event /\ ValueOf(buf) = sent[n + 1]
                      /\ IsFlow(rest, Msg, MainAt + 1, ServerAt, server.buf)
    OBVIOUS
  <2>1. Len(buf) = Len(Msg[MainAt])
    BY <1>11, IntBytesLen
  <2>2. /\ MainAt < ServerAt /\ buf = Msg[MainAt]
        /\ IsFlow(rest, Msg, MainAt + 1, ServerAt, server.buf)
    BY <1>1, <1>5, <1>6, <2>1, DownRead
  <2>3. n < Len(sent)
    <3>1. EVENTS + n < server.at + Len(sent)
      BY <1>11, <2>2 DEF ServerAt
    <3> QED BY <1>1, <1>4, <3>1
  <2>4. sent[n + 1] \in Event
    BY <1>4, <2>3
  <2>5. ValueOf(buf) = sent[n + 1]
    BY <1>11, <2>2, <2>4, IntBytesValue DEF Ints
  <2> QED BY <2>2, <2>3, <2>4, <2>5
<1>14. \/ /\ main'.buf = buf /\ Inv' /\ EventsRead' = received
       \/ /\ main'.buf = <<>> /\ Len(buf) = IntSize /\ Inv'
          /\ EventsRead' = Append(received, sent[n + 1])
  <2>1. CASE main'.buf = buf /\ UNCHANGED vars
    <3>1. Inv' /\ EventsRead' = EventsRead
      BY <1>1, <2>1, RingSame
    <3> QED BY <1>9, <2>1, <3>1
  <2>2. CASE main'.buf = <<>> /\ Len(buf) = IntSize /\ ReadEvent(ValueOf(buf))
    <3>1. PICK e \in Event : e = sent[n + 1] /\ ReadEvent(e)
      BY <1>13, <2>2
    <3>2. Inv'
      BY <1>1, <3>1, NextInv DEF Next
    <3>3. rpc' = "lock" /\ read_cmd' = e /\ received' = received
      BY <3>1 DEF ReadEvent
    <3>4. EventsRead' = Append(received, e)
      BY <3>3 DEF EventsRead
    <3> QED BY <2>2, <3>1, <3>2, <3>4
  <2> QED BY <1>8, <2>1, <2>2
<1>15. WireTypes'
  <2>1. <<>> \in Seq(Letters)
    OBVIOUS
  <2>2. main'.buf \in Seq(Letters)
    BY <1>6, <1>14, <2>1
  <2> QED BY <1>1, <1>2, <1>6, <1>8, <2>2 DEF WireTypes
<1>16. WriterInv' /\ MemoryInv'
  <2>1. Message(server.at)' = Message(server.at)
    BY <1>2, MessageSame
  <2> QED BY <1>1, <1>2, <1>5, <1>8, <2>1 DEF WriterInv, MemoryInv
<1>17. EventsInv'
  <2>1. Len(EventsRead') <= Len(sent) /\ EventsRead' = SubSeq(sent, 1, Len(EventsRead'))
    <3>1. CASE EventsRead' = received
      BY <1>9, <3>1
    <3>2. CASE Len(buf) = IntSize /\ EventsRead' = Append(received, sent[n + 1])
      <4>1. Len(EventsRead') = n + 1
        BY <1>9, <1>10, <1>13, <3>2
      <4>2. SubSeq(sent, 1, n + 1) = Append(SubSeq(sent, 1, n), sent[n + 1])
        BY <1>4, <1>13, <3>2, PrefixMore
      <4>3. n + 1 <= Len(sent)
        BY <1>4, <1>13, <3>2
      <4> QED BY <1>9, <1>10, <3>2, <4>1, <4>2, <4>3
    <3> QED BY <1>14, <3>1, <3>2
  <2> QED BY <1>1, <1>2, <1>8, <2>1 DEF EventsInv
<1>18. SizeInv' /\ HelloInv'
  BY <1>1, <1>2, <1>5, <1>8 DEF SizeInv, HelloInv
<1>19. UpInv'
  <2>1. ~(server.at <= NAME) /\ server.at > STARTED
    BY <1>1, <1>12 DEF NAME, STARTED
  <2>2. up = <<>>
    BY <1>1, <1>5, <1>12 DEF UpInv
  <2> QED BY <1>2, <1>5, <1>8, <2>1, <2>2 DEF UpInv
<1>20. DownInv'
  <2>1. IsFlow(buf \o rest, Msg, MainAt, ServerAt, server.buf)
    BY <1>1, <1>5, <1>6, <1>12 DEF DownInv
  <2>2. Msg' = Msg /\ ServerAt' = ServerAt
    BY <1>2, MsgSame DEF ServerAt
  <2>3. IsFlow(main'.buf \o down', Msg, MainAt', ServerAt, server.buf)
    <3>1. CASE main'.buf = buf /\ EventsRead' = received
      <4>1. MainAt' = MainAt
        BY <1>8, <1>9, <3>1 DEF MainAt
      <4> QED BY <1>6, <2>1, <3>1, <4>1
    <3>2. CASE main'.buf = <<>> /\ Len(buf) = IntSize
               /\ EventsRead' = Append(received, sent[n + 1])
      <4>1. Len(EventsRead') = n + 1
        BY <1>9, <1>10, <1>13, <3>2
      <4>2. MainAt' = MainAt + 1
        BY <1>1, <1>8, <1>10, <1>11, <4>1 DEF MainAt
      <4>3. <<>> \o rest = rest
        BY <1>6
      <4> QED BY <1>6, <1>13, <3>2, <4>2, <4>3
    <3> QED BY <1>14, <3>1, <3>2
  <2>4. ~(server.at <= NAME)
    BY <1>1, <1>12 DEF NAME
  <2> QED BY <1>2, <1>5, <1>8, <2>2, <2>3, <2>4 DEF DownInv
<1>21. NamesInv'
  BY <1>1, <1>2, <1>5, <1>8 DEF NamesInv
<1>22. main'.at # GONE /\ main'.at # WILD /\ Inv'
  BY <1>1, <1>8, <1>14 DEF GONE, WILD
<1> QED BY <1>15, <1>16, <1>17, <1>18, <1>19, <1>20, <1>21, <1>22 DEF ConnectionInv

\* A step that moves no byte, and puts no other event in read_msg's hands.
LEMMA WireSame ==
    ASSUME ConnectionInv, Inv', EventsRead' = EventsRead,
           main.at # EVENTS => rpc' = rpc /\ received' = received,
           given' = given, before' = before, user_name' = user_name, users' = users,
           server' = server, main' = main, up' = up, down' = down, sent' = sent,
           open' \in BOOLEAN, open' => open
    PROVE  ConnectionInv'
<1>1. /\ WireTypes /\ WriterInv /\ MemoryInv /\ EventsInv
      /\ main.at <= EVENTS => SizeInv /\ HelloInv /\ UpInv /\ DownInv /\ NamesInv
      /\ (main.at = GONE => ~open) /\ (main.at = WILD => server.at > NAME)
  BY DEF ConnectionInv
<1>2. Message(server.at)' = Message(server.at) /\ Message(main.at)' = Message(main.at)
  BY MessageSame
<1>3. Msg' = Msg /\ MainAt' = MainAt /\ ServerAt' = ServerAt
  BY MsgSame DEF MainAt, ServerAt
<1>4. WireTypes' /\ WriterInv' /\ MemoryInv' /\ EventsInv'
  BY <1>1, <1>2 DEF WireTypes, WriterInv, MemoryInv, EventsInv
<1>5. main.at <= EVENTS => SizeInv' /\ HelloInv' /\ NamesInv'
  BY <1>1, <1>2 DEF SizeInv, HelloInv, NamesInv
<1>6. main.at <= EVENTS => UpInv' /\ DownInv'
  BY <1>1, <1>3 DEF UpInv, DownInv
<1> QED BY <1>1, <1>4, <1>5, <1>6 DEF ConnectionInv

\* The connection ends on the server's side.
LEMMA ServerGoesInv == ConnectionInv /\ ServerGoes => ConnectionInv'
<1> SUFFICES ASSUME ConnectionInv, ServerGoes PROVE ConnectionInv'
  OBVIOUS
<1>1. Inv /\ UNCHANGED vars
  BY DEF ConnectionInv, ServerGoes
<1>2. Inv' /\ EventsRead' = EventsRead /\ rpc' = rpc /\ received' = received
  BY <1>1, RingSame
<1> QED BY <1>2, WireSame DEF ServerGoes

\* Nothing happens.
LEMMA StutterInv == ConnectionInv /\ UNCHANGED connectionVars => ConnectionInv'
<1> SUFFICES ASSUME ConnectionInv, UNCHANGED connectionVars PROVE ConnectionInv'
  OBVIOUS
<1>1. Inv /\ UNCHANGED vars /\ UNCHANGED wireVars
  BY DEF ConnectionInv, connectionVars
<1>2. Inv' /\ EventsRead' = EventsRead /\ rpc' = rpc /\ received' = received
  BY <1>1, RingSame
<1>3. open \in BOOLEAN
  BY DEF ConnectionInv, WireTypes
<1> QED BY <1>1, <1>2, <1>3, WireSame DEF wireVars

\* The client finds the end of the connection.
LEMMA ClientLearnsInv == ConnectionInv /\ ClientLearns => ConnectionInv'
<1> SUFFICES ASSUME ConnectionInv, ClientLearns PROVE ConnectionInv'
  OBVIOUS
<1>1. /\ Inv /\ WireTypes /\ WriterInv /\ MemoryInv /\ EventsInv /\ ~open
      /\ EVENTS \in Nat /\ EVENTS > 8
  BY UsersType DEF ConnectionInv, ClientLearns
<1>2. /\ given' = given /\ before' = before /\ user_name' = user_name /\ users' = users
      /\ server' = server /\ up' = up /\ down' = down /\ open' = open /\ sent' = sent
  BY DEF ClientLearns
<1>3. CASE main.at < EVENTS /\ main' = [main EXCEPT !.at = GONE] /\ UNCHANGED vars
  <2>1. GONE # WILD
    BY <1>1 DEF GONE, WILD
  <2> QED BY <1>1, <1>2, <1>3, <2>1, LeavesMain
<1>4. CASE main.at = EVENTS /\ ReadFails /\ UNCHANGED main
  <2>1. Inv'
    BY <1>1, <1>4, NextInv DEF Next
  <2>2. EventsRead' = EventsRead
    BY <1>4 DEF ReadFails, EventsRead
  <2>3. open' \in BOOLEAN /\ (open' => open)
    BY <1>1, <1>2 DEF WireTypes
  <2>4. main' = main /\ (main.at # EVENTS => rpc' = rpc /\ received' = received)
    BY <1>4
  <2> QED BY <1>2, <2>1, <2>2, <2>3, <2>4, WireSame
<1> QED BY <1>3, <1>4 DEF ClientLearns

\* The ring moves the event that read_msg has in its hands, and no other.
LEMMA RingStepInv == ConnectionInv /\ RingStep => ConnectionInv'
<1> SUFFICES ASSUME ConnectionInv, RingStep PROVE ConnectionInv'
  OBVIOUS
<1>1. Inv /\ main.at = EVENTS /\ (SpuriousWakeup \/ Reader \/ Timer) /\ UNCHANGED wireVars
      /\ open \in BOOLEAN
  BY DEF ConnectionInv, WireTypes, RingStep
<1>2. Inv'
  BY <1>1, NextInv DEF Next
<1>3. EventsRead' = EventsRead
  <2>1. CASE SpuriousWakeup
    BY <2>1 DEF SpuriousWakeup, EventsRead
  <2>2. CASE ReaderLock
    BY <2>2 DEF ReaderLock, EventsRead
  <2>3. CASE ReaderWait
    BY <2>3 DEF ReaderWait, EventsRead
  <2>4. CASE Enqueue
    BY <2>4 DEF Enqueue, EventsRead
  <2>5. CASE ReaderUnlock
    BY <2>5 DEF ReaderUnlock, EventsRead
  <2>6. CASE TimerLock
    BY <2>6 DEF TimerLock, readerVars, EventsRead
  <2>7. CASE TimerEmpty
    BY <2>7 DEF TimerEmpty, readerVars, EventsRead
  <2>8. CASE Dequeue
    BY <2>8 DEF Dequeue, EventsRead
  <2>9. CASE TimerUnlock
    BY <2>9 DEF TimerUnlock, readerVars, EventsRead
  <2> QED BY <1>1, <2>1, <2>2, <2>3, <2>4, <2>5, <2>6, <2>7, <2>8, <2>9 DEF Reader, Timer
<1> QED BY <1>1, <1>2, <1>3, WireSame DEF wireVars

LEMMA ConnectionInitInv == ConnectionInit => ConnectionInv
<1> SUFFICES ASSUME ConnectionInit PROVE ConnectionInv
  OBVIOUS
<1>1. /\ Init /\ given \in [Users -> Names] /\ before \in Heap
      /\ user_name = [u \in Users |-> IF u = Me THEN before ELSE Stored(before, 0, given[u])]
      /\ users = UserMemory
      /\ server = [at |-> STARTED, buf |-> <<>>, size |-> 0]
      /\ main = [at |-> STARTED, buf |-> <<>>, size |-> 0]
      /\ up = <<>> /\ down = <<>> /\ open = TRUE /\ sent = <<>>
      /\ EVENTS \in Nat /\ EVENTS > 8
  BY UsersType DEF ConnectionInit
<1>2. Inv
  BY <1>1, InitInv
<1>3. rpc = "read" /\ received = <<>> /\ EventsRead = <<>>
  BY <1>1 DEF Init, EventsRead
<1>4. server.at = STARTED /\ server.buf = <<>> /\ main.at = STARTED /\ main.buf = <<>>
  BY <1>1
<1>5. STARTED \in STARTED .. EVENTS /\ STARTED \in STARTED .. EVENTS + 2
      /\ STARTED \notin {SIZE, NAME, EVENTS, JSON} /\ ~(STARTED > NAME) /\ ~(STARTED > STARTED)
      /\ STARTED <= SIZE /\ STARTED # SIZE /\ STARTED # GONE /\ STARTED # WILD /\ ~IsName(STARTED)
  BY <1>1 DEF STARTED, SIZE, NAME, JSON, GONE, WILD, IsName
<1>6. <<>> \in Seq(Letters) /\ <<>> \in Seq(Event) /\ <<>> \o <<>> = <<>>
  OBVIOUS
<1>7. WireTypes
  BY <1>1, <1>4, <1>5, <1>6 DEF WireTypes
<1>8. WriterInv
  BY <1>4, <1>5 DEF WriterInv, Begun
<1>9. MemoryInv
  BY <1>1, <1>4, <1>5 DEF MemoryInv
<1>10. EventsInv
  BY <1>1, <1>3 DEF EventsInv
<1>11. SizeInv /\ HelloInv
  BY <1>1, <1>4, <1>5, <1>6 DEF SizeInv, HelloInv
<1>12. UpInv /\ DownInv
  BY <1>4, <1>5 DEF UpInv, DownInv
<1>13. NamesInv
  <2>1. \A u \in Users : ~(STARTED > 8 + 2 * u) /\ STARTED # 8 + 2 * u
    <3>1. \A u \in Users : u \in Nat
      BY UsersType
    <3> QED BY <3>1 DEF STARTED
  <2>2. \A u \in Users : Stored(UserMemory[u], 0, <<>>) = UserMemory[u]
    BY HeapType, StoredNone
  <2>3. UserMemory = [u \in Users |-> UserMemory[u]]
    BY ConnectionAssumption
  <2>4. users = [u \in Users |-> Stored(UserMemory[u], 0, <<>>)]
    BY <1>1, <2>2, <2>3
  <2> QED BY <1>4, <2>1, <2>4 DEF NamesInv
<1> QED BY <1>2, <1>4, <1>5, <1>7, <1>8, <1>9, <1>10, <1>11, <1>12, <1>13 DEF ConnectionInv

LEMMA ConnectionNextInv ==
    ConnectionInv /\ [ConnectionNext]_connectionVars => ConnectionInv'
BY ServerWritesInv, ServerReadsInv, ServerBroadcastsInv, ServerGoesInv, ClientWritesInv,
   ClientReadsInv, ClientOverrunsInv, ReaderReadsInv, ClientLearnsInv, RingStepInv, StutterInv
   DEF ConnectionNext, Server, Client

LEMMA ConnectionInvAlways == ConnectionSpec => []ConnectionInv
<1>1. ConnectionInit => ConnectionInv
  BY ConnectionInitInv
<1>2. ConnectionInv /\ [ConnectionNext]_connectionVars => ConnectionInv'
  BY ConnectionNextInv
<1> QED BY <1>1, <1>2, PTL DEF ConnectionSpec

-----------------------------------------------------------------------------
\* However write_byte and read_byte cut the bytes, what read_msg puts in the
\* ring are the first events that the server has written, whole and in order.
THEOREM EventsAreWhole == ConnectionSpec => []WholeEvents
<1>1. ConnectionInv => WholeEvents
  <2> SUFFICES ASSUME ConnectionInv PROVE WholeEvents
    OBVIOUS
  <2>1. EventsInv
    BY DEF ConnectionInv
  <2>2. IsPrefix(EventsRead, sent)
    BY <2>1 DEF EventsInv, IsPrefix
  <2> QED BY <2>2 DEF WholeEvents, EventsRead
<1> QED BY <1>1, ConnectionInvAlways, PTL

\* When the client's game starts, the name of every user is in its memory as
\* it was typed if there was a NUL behind it in the server's, even if it fills
\* name[NAME_SIZE]; and no name of at most NAME_SIZE bytes has changed a score
\* or a location.
THEOREM NamesAreShown == ConnectionSpec => []NamesShown
<1>1. ConnectionInv => NamesShown
  <2> SUFFICES ASSUME ConnectionInv, main.at = EVENTS, NEW u \in Users
               PROVE  /\ before[Len(given[u]) + 1] = NUL => NameOf(u) = given[u]
                      /\ Len(CString(user_name[u])) <= NAME_SIZE =>
                            DataOf(users[u]) = DataOf(UserMemory[u])
    BY DEF NamesShown
  <2>1. /\ main.at <= EVENTS /\ main.at > NAME /\ main.at > 8 + 2 * u
        /\ server.at \in Nat /\ main.at # ID
    BY Places, AtEvents DEF ID
  <2>2. WireTypes /\ MemoryInv /\ DownInv /\ NamesInv
    BY <2>1 DEF ConnectionInv
  <2>3. server.at > NAME
    BY <2>1, <2>2 DEF DownInv, NAME
  <2>4. user_name[u] = Stored(before, 0, given[u])
    BY <2>2, <2>3 DEF MemoryInv
  <2>5. PICK text : text = CString(user_name[u])
    OBVIOUS
  <2>6. users[u] = Stored(UserMemory[u], 0, Append(text, NUL))
    BY <2>1, <2>2, <2>5 DEF NamesInv
  <2>7. before \in Heap /\ given[u] \in Names /\ text \in Seq(Letters)
    BY <2>2, <2>5, MemoryType, CStringType DEF WireTypes
  <2>8. /\ text \in Names => CString(users[u]) = text
        /\ Len(text) <= NAME_SIZE => DataOf(users[u]) = DataOf(UserMemory[u])
    BY <2>6, <2>7, UserRead
  <2>9. before[Len(given[u]) + 1] = NUL => text = given[u]
    BY <2>4, <2>5, <2>7, CStringOf
  <2> QED BY <2>5, <2>7, <2>8, <2>9 DEF NameOf
<1> QED BY <1>1, ConnectionInvAlways, PTL

\* Every step of the connection is one of the ring, or none.
LEMMA ConnectionSteps ==
    ConnectionInv /\ ConnectionInv' /\ [ConnectionNext]_connectionVars => [Next]_vars
<1> SUFFICES ASSUME ConnectionInv, ConnectionInv', [ConnectionNext]_connectionVars
             PROVE  [Next]_vars
  OBVIOUS
<1>1. CASE ServerWrites \/ ServerReads \/ ServerBroadcasts \/ ServerGoes
           \/ ClientWrites \/ ClientReads \/ ClientOverruns
  BY <1>1 DEF ServerWrites, ServerReads, ServerBroadcasts, ServerGoes,
              ClientWrites, ClientReads, ClientOverruns
<1>2. CASE ReaderReads
  <2>1. PICK v : UNCHANGED vars \/ ReadEvent(v)
    BY <1>2 DEF ReaderReads
  <2>2. ReadEvent(v) => v \in Event
    BY DEF ReadEvent, ConnectionInv, Inv, InHand
  <2> QED BY <2>1, <2>2 DEF Next
<1>3. CASE ClientLearns
  BY <1>3 DEF ClientLearns, Next
<1>4. CASE RingStep
  BY <1>4 DEF RingStep, Next
<1>5. CASE UNCHANGED connectionVars
  BY <1>5 DEF connectionVars
<1> QED BY <1>1, <1>2, <1>3, <1>4, <1>5 DEF ConnectionNext, Server, Client

\* The connection uses the ring as EventQueue says: what is proved of the ring
\* alone holds when its events are read from the wire in pieces, and what the
\* server has sent is taken out in its order.
THEOREM ConnectionUsesRing == ConnectionSpec => Spec /\ ImplementsFifo
<1>1. ConnectionInit => Init
  BY DEF ConnectionInit
<1>2. ConnectionInv /\ ConnectionInv' /\ [ConnectionNext]_connectionVars => [Next]_vars
  BY ConnectionSteps
<1>3. ConnectionSpec => Spec
  BY <1>1, <1>2, ConnectionInvAlways, PTL DEF ConnectionSpec, Spec
<1> QED BY <1>3, RingIsFifo, PTL
=============================================================================
