---------------------------- MODULE BoundedFifo ----------------------------
(***************************************************************************)
(* What a queue between two parts of the stack promises: entries come out  *)
(* in the order in which they went in, each of them once, and at most      *)
(* Capacity of them wait.  An entry that is offered to a full queue is     *)
(* refused, and the reader is told of an empty one, without a change.      *)
(***************************************************************************)
EXTENDS Naturals, Sequences

CONSTANTS
    Entry,      \* what may be queued
    Capacity    \* how many entries fit

VARIABLE
    queue       \* the entries that wait, the oldest first

FifoInit == queue = <<>>

Put(e) == Len(queue) < Capacity /\ queue' = Append(queue, e)

Get == queue # <<>> /\ queue' = Tail(queue)

FifoNext == Get \/ \E e \in Entry : Put(e)

FifoSpec == FifoInit /\ [][FifoNext]_queue
=============================================================================
