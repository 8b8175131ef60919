--------------------------- MODULE MCWaitingList ----------------------------
(***************************************************************************)
(* The waiting-subscriber list on its own: its callers (the subscriber    *)
(* command server's "n" command and disconnect cleanup, and the producer   *)
(* ingest server's match and exit) call create_waiting_client and         *)
(* remove_waiting_client with any name and descriptor, one call at a time *)
(* under lophi_mutex.  A descriptor may be listed twice: a subscriber's   *)
(* second "n" for an image not yet registered (dis_client.c 250) adds a   *)
(* node for the same lophi_fd.  The list is read from waiting_head for    *)
(* WaitingQueue's refinement mapping.                                     *)
(***************************************************************************)
EXTENDS WaitingList

Create ==
  \E n \in Nodes, nm \in Names, f \in Fds : create_waiting_client(n, nm, f)

Remove ==
  \E f \in Fds :
    /\ \E n \in NodesOfWalk(waiting_head) : client_fd[n] = f
    /\ remove_waiting_client(f, waiting_head)

MCInit == WLInit

MCNext == Create \/ Remove

MCSpec == MCInit /\ [][MCNext]_wl_vars

(* The list in the order a loop from waiting_head visits it.              *)
AbsQueue ==
  LET w == WalkFrom(waiting_head, client_next, Fuel)
  IN  [i \in 1..Len(w) |-> [name |-> client_img[w[i]], fd |-> client_fd[w[i]]]]

WQ == INSTANCE WaitingQueue WITH queue <- AbsQueue

(* create_waiting_client appends exactly one entry and                    *)
(* remove_waiting_client(fd) drops exactly the entries with that fd: the   *)
(* list implements the abstract queue of spec section 4.3.                *)
RefinesWaitingQueue == WQ!QSpec
=============================================================================
