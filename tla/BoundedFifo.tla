---------------------------- MODULE BoundedFifo ----------------------------
(***************************************************************************)
(* What the event queue of the client promises to the game: the events     *)
(* come out once each, in the order they went in; no more than Capacity    *)
(* wait inside; and after the end event has come out nothing else does.    *)
(***************************************************************************)
EXTENDS Naturals, Sequences

CONSTANTS
    Event,       \* what may be put in
    EndEvent,    \* the event that closes the outlet
    Capacity     \* how many events may wait inside

VARIABLES
    sent,        \* every event put in so far
    got,         \* every event taken out so far
    open         \* the end event has not come out yet

fifoVars == <<sent, got, open>>

FifoInit == sent = <<>> /\ got = <<>> /\ open = TRUE

Put(e) ==
    /\ Len(sent) - Len(got) < Capacity
    /\ sent' = Append(sent, e)
    /\ UNCHANGED <<got, open>>

Get ==
    /\ open
    /\ Len(got) < Len(sent)
    /\ got' = Append(got, sent[Len(got) + 1])
    /\ open' = (sent[Len(got) + 1] # EndEvent)
    /\ UNCHANGED sent

FifoNext == Get \/ \E e \in Event : Put(e)

FifoSpec == FifoInit /\ [][FifoNext]_fifoVars
=============================================================================
