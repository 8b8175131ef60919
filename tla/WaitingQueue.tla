---------------------------- MODULE WaitingQueue ----------------------------
(***************************************************************************)
(* What the waiting-subscriber collection promises (spec section 4.3): an  *)
(* ordered collection of <<image name, delivery socket>> entries in which  *)
(* create_waiting_client appends one entry and remove_waiting_client(fd)   *)
(* removes every entry whose delivery socket is fd and nothing else.       *)
(***************************************************************************)
EXTENDS Sequences

CONSTANTS Names,  \* disk-image names (model values)
          Fds     \* socket descriptors a subscriber connection can hold

VARIABLE queue

Entry == [name : Names, fd : Fds]

QInit == queue = <<>>

Enqueue(nm, f) == queue' = Append(queue, [name |-> nm, fd |-> f])

Dequeue(f) == queue' = SelectSeq(queue, LAMBDA e : e.fd # f)

QNext == \E nm \in Names, f \in Fds : Enqueue(nm, f) \/ Dequeue(f)

QSpec == QInit /\ [][QNext]_queue
=============================================================================
