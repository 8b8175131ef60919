----------------------------- MODULE ThreadList -----------------------------
(***************************************************************************)
(* The registry of dis_threads.c as the program keeps it: a doubly linked  *)
(* list of malloc'd thread_item structs between THREAD_HEAD and            *)
(* THREAD_TAIL.  Every function of dis_threads.c holds thread_list_mutex   *)
(* for its whole body, so each is one step.  Items are heap addresses from *)
(* the finite set Items; a freed item keeps its fields until malloc hands  *)
(* the address out again.  disk_data is abstracted to the filename it      *)
(* holds (NoName for NULL), forward_socket_fd and hypervisor_socket_fd to  *)
(* descriptor numbers (NoFd = -1).                                         *)
(*                                                                         *)
(* The callers (Broker) call these functions one at a time; here they are  *)
(* called with any arguments the callers can pass, and the history         *)
(* variable call records which call the last step made, so that each step  *)
(* can be checked against the same call of Registry.                       *)
(***************************************************************************)
EXTENDS Integers, Sequences, FiniteSets

CONSTANTS Names, Fds, NoName, NULL,
          Items,    \* heap addresses a thread_item can be allocated at
          MaxIds    \* bound on the thread ids create_thread_item hands out

NoFd == -1

VARIABLES THREAD_HEAD, THREAD_TAIL,
          item_next, item_prev,   \* item -> its next / prev pointer
          item_id,                \* item -> thread_id
          item_disk,              \* item -> filename of disk_data, or NoName
          item_fwd,               \* item -> forward_socket_fd
          item_hsock,             \* item -> hypervisor_socket_fd
          item_alloc,             \* items malloc'd and not yet freed
          cur_thread_id,
          call                    \* the call the last step made

tl_vars == <<THREAD_HEAD, THREAD_TAIL, item_next, item_prev, item_id,
             item_disk, item_fwd, item_hsock, item_alloc, cur_thread_id, call>>

IPtr == Items \cup {NULL}
FdVals == Fds \cup {NoFd}

TLInit ==
  /\ THREAD_HEAD = NULL /\ THREAD_TAIL = NULL
  /\ item_next = [n \in Items |-> NULL] /\ item_prev = [n \in Items |-> NULL]
  /\ item_id = [n \in Items |-> 0]
  /\ item_disk = [n \in Items |-> NoName]
  /\ item_fwd = [n \in Items |-> NoFd]
  /\ item_hsock = [n \in Items |-> NoFd]
  /\ item_alloc = {}
  /\ cur_thread_id = 0
  /\ call = [op |-> "none"]

(* The items a loop "cur = THREAD_HEAD; while (cur != NULL) cur =         *)
(* cur->next" visits, cut off after more steps than there are items.      *)
RECURSIVE ItemWalk(_, _)
ItemWalk(n, fuel) ==
  IF n = NULL \/ fuel = 0 THEN <<>> ELSE <<n>> \o ItemWalk(item_next[n], fuel - 1)

Walk == ItemWalk(THREAD_HEAD, Cardinality(Items) + 1)

(* The first position of the walk whose item satisfies P, or 0.           *)
FirstWhere(P(_)) ==
  LET hits == {i \in 1..Len(Walk) : P(Walk[i])}
  IN  IF hits = {} THEN 0 ELSE CHOOSE i \in hits : \A j \in hits : i <= j

-----------------------------------------------------------------------------
(* Mutant: the new item is pushed in front of THREAD_HEAD.               *)
create_thread_item_front(n) ==
  /\ n \notin item_alloc /\ cur_thread_id < MaxIds
  /\ item_alloc' = item_alloc \cup {n}
  /\ item_id' = [item_id EXCEPT ![n] = cur_thread_id]
  /\ cur_thread_id' = cur_thread_id + 1
  /\ item_disk' = [item_disk EXCEPT ![n] = NoName]
  /\ item_fwd' = [item_fwd EXCEPT ![n] = NoFd]
  /\ \E g \in FdVals : item_hsock' = [item_hsock EXCEPT ![n] = g]
  /\ THREAD_HEAD' = n
  /\ item_next' = [item_next EXCEPT ![n] = THREAD_HEAD]
  /\ item_prev' = IF THREAD_HEAD = NULL THEN [item_prev EXCEPT ![n] = NULL]
                  ELSE [item_prev EXCEPT ![n] = NULL, ![THREAD_HEAD] = n]
  /\ THREAD_TAIL' = IF THREAD_TAIL = NULL THEN n ELSE THREAD_TAIL

(* create_thread_item (33-58): a fresh item with the next id, NULL         *)
(* disk_data and forward_socket_fd -1, appended after THREAD_TAIL, or made *)
(* the head when THREAD_HEAD is NULL.  hypervisor_socket_fd is not         *)
(* initialised: it holds whatever malloc's memory held.                    *)
create_thread_item(n) ==
  /\ n \notin item_alloc /\ cur_thread_id < MaxIds
  /\ item_alloc' = item_alloc \cup {n}
  /\ item_id' = [item_id EXCEPT ![n] = cur_thread_id]
  /\ cur_thread_id' = cur_thread_id + 1
  /\ item_disk' = [item_disk EXCEPT ![n] = NoName]
  /\ item_fwd' = [item_fwd EXCEPT ![n] = NoFd]
  /\ \E g \in FdVals : item_hsock' = [item_hsock EXCEPT ![n] = g]
  /\ IF THREAD_HEAD = NULL
     THEN /\ THREAD_HEAD' = n
          /\ item_next' = [item_next EXCEPT ![n] = NULL]
          /\ item_prev' = [item_prev EXCEPT ![n] = NULL]
     ELSE /\ item_next' = [item_next EXCEPT ![THREAD_TAIL] = n, ![n] = NULL]
          /\ item_prev' = [item_prev EXCEPT ![n] = THREAD_TAIL]
          /\ UNCHANGED THREAD_HEAD
  /\ THREAD_TAIL' = n

(* Mutant: THREAD_TAIL is not moved off the removed item.              *)
remove_thread_item_keep_tail(rm) ==
  /\ THREAD_HEAD' = IF THREAD_HEAD = rm THEN item_next[rm] ELSE THREAD_HEAD
  /\ item_next' = IF item_prev[rm] # NULL
                  THEN [item_next EXCEPT ![item_prev[rm]] = item_next[rm]]
                  ELSE item_next
  /\ item_prev' = IF item_next[rm] # NULL
                  THEN [item_prev EXCEPT ![item_next[rm]] = item_prev[rm]]
                  ELSE item_prev
  /\ item_alloc' = item_alloc \ {rm}
  /\ UNCHANGED <<THREAD_TAIL, item_id, item_disk, item_fwd, item_hsock,
                 cur_thread_id>>

(* Mutant: the previous item's next pointer is not updated.              *)
remove_thread_item_keep_next(rm) ==
  /\ THREAD_HEAD' = IF THREAD_HEAD = rm THEN item_next[rm] ELSE THREAD_HEAD
  /\ THREAD_TAIL' = IF THREAD_TAIL = rm THEN item_prev[rm] ELSE THREAD_TAIL
  /\ item_prev' = IF item_next[rm] # NULL
                  THEN [item_prev EXCEPT ![item_next[rm]] = item_prev[rm]]
                  ELSE item_prev
  /\ item_alloc' = item_alloc \ {rm}
  /\ UNCHANGED <<item_next, item_id, item_disk, item_fwd, item_hsock,
                 cur_thread_id>>

(* remove_thread_item (63-87): move the head and tail off rm, link its     *)
(* neighbours to each other, free disk_data and the item.                  *)
remove_thread_item(rm) ==
  /\ THREAD_HEAD' = IF THREAD_HEAD = rm THEN item_next[rm] ELSE THREAD_HEAD
  /\ THREAD_TAIL' = IF THREAD_TAIL = rm THEN item_prev[rm] ELSE THREAD_TAIL
  /\ item_next' = IF item_prev[rm] # NULL
                  THEN [item_next EXCEPT ![item_prev[rm]] = item_next[rm]]
                  ELSE item_next
  /\ item_prev' = IF item_next[rm] # NULL
                  THEN [item_prev EXCEPT ![item_next[rm]] = item_prev[rm]]
                  ELSE item_prev
  /\ item_alloc' = item_alloc \ {rm}
  /\ UNCHANGED <<item_id, item_disk, item_fwd, item_hsock, cur_thread_id>>

(* update_meta_data (92-103): disk_data of the caller's own item.          *)
update_meta_data(n, nm) ==
  /\ item_disk' = [item_disk EXCEPT ![n] = nm]
  /\ UNCHANGED <<THREAD_HEAD, THREAD_TAIL, item_next, item_prev, item_id,
                 item_fwd, item_hsock, item_alloc, cur_thread_id>>

(* Mutant: the loop stops at the tail ("while (cur->next != NULL)").     *)
update_forward_fd_skip_tail(id, f) ==
  /\ LET i == FirstWhere(LAMBDA n : item_id[n] = id)
     IN  item_fwd' = IF i = 0 \/ i = Len(Walk) THEN item_fwd
                     ELSE [item_fwd EXCEPT ![Walk[i]] = f]
  /\ UNCHANGED <<THREAD_HEAD, THREAD_TAIL, item_next, item_prev, item_id,
                 item_disk, item_hsock, item_alloc, cur_thread_id>>

(* update_forward_fd (108-132): the first item from the head with this     *)
(* thread_id gets the descriptor; no such item, no change.                 *)
update_forward_fd(id, f) ==
  /\ LET i == FirstWhere(LAMBDA n : item_id[n] = id)
     IN  item_fwd' = IF i = 0 THEN item_fwd
                     ELSE [item_fwd EXCEPT ![Walk[i]] = f]
  /\ UNCHANGED <<THREAD_HEAD, THREAD_TAIL, item_next, item_prev, item_id,
                 item_disk, item_hsock, item_alloc, cur_thread_id>>

(* Mutant: the loop has no break, so the last match wins.               *)
get_vm_id_last(nm) ==
  LET ms == SelectSeq(Walk, LAMBDA n : item_disk[n] = nm)
  IN  IF ms = <<>> THEN -1 ELSE item_id[ms[Len(ms)]]

(* get_vm_id (138-156): thread_id of the first item from the head whose    *)
(* disk_data is set and holds filename nm, or -1.                          *)
get_vm_id(nm) ==
  LET i == FirstWhere(LAMBDA n : item_disk[n] = nm)
  IN  IF i = 0 THEN -1 ELSE item_id[Walk[i]]

(* print_thread_items (161-199): one line per item with disk_data, from    *)
(* the head: its id, "open" or "USED", and the filename.                   *)
print_thread_items ==
  LET rows == SelectSeq(Walk, LAMBDA n : item_disk[n] # NoName)
  IN  [k \in 1..Len(rows) |-> [id |-> item_id[rows[k]],
                               used |-> item_fwd[rows[k]] # NoFd,
                               name |-> item_disk[rows[k]]]]

(* close_all_thread_sockets (205-222): close and reset both descriptors   *)
(* of every item that are not -1.                                          *)
close_all_thread_sockets ==
  /\ LET live == {Walk[i] : i \in 1..Len(Walk)}
     IN  /\ item_hsock' = [n \in Items |-> IF n \in live THEN NoFd ELSE item_hsock[n]]
         /\ item_fwd' = [n \in Items |-> IF n \in live THEN NoFd ELSE item_fwd[n]]
  /\ UNCHANGED <<THREAD_HEAD, THREAD_TAIL, item_next, item_prev, item_id,
                 item_disk, item_alloc, cur_thread_id>>

(* hypervisor_connection's caller stores the accepted socket in the item   *)
(* after create_thread_item returned, without the mutex (dis_hypervisor.c  *)
(* 288).                                                                   *)
set_hypervisor_socket(n, f) ==
  /\ item_hsock' = [item_hsock EXCEPT ![n] = f]
  /\ UNCHANGED <<THREAD_HEAD, THREAD_TAIL, item_next, item_prev, item_id,
                 item_disk, item_fwd, item_alloc, cur_thread_id>>

-----------------------------------------------------------------------------
(* The callers, one call at a time: the producer thread creates its item,  *)
(* stores its socket in it, sets its metadata once and removes it; a       *)
(* subscriber's "i", "n" or cleanup sets the forward descriptor of any id; *)
(* terminate_dis closes every socket.  call records the call and its       *)
(* arguments at the level of Registry.                                     *)
TLNext ==
  \/ \E n \in Items :
       create_thread_item(n) /\ call' = [op |-> "create"]
  \/ \E n \in item_alloc, f \in Fds :
       set_hypervisor_socket(n, f) /\ call' = [op |-> "hsock"]
  \/ \E n \in item_alloc, nm \in Names :
       /\ item_disk[n] = NoName
       /\ update_meta_data(n, nm)
       /\ call' = [op |-> "meta", id |-> item_id[n], name |-> nm]
  \/ \E n \in item_alloc :
       remove_thread_item(n) /\ call' = [op |-> "remove", id |-> item_id[n]]
  \/ \E id \in 0..(MaxIds - 1), f \in FdVals :
       update_forward_fd(id, f) /\ call' = [op |-> "fwd", id |-> id, fd |-> f]
  \/ close_all_thread_sockets /\ call' = [op |-> "close_all"]

TLSpec == TLInit /\ [][TLNext]_tl_vars

-----------------------------------------------------------------------------
(* The refinement mapping: the registry read from THREAD_HEAD, each live   *)
(* id mapped to the filename and forward descriptor of its item.           *)
WalkSet == {Walk[i] : i \in 1..Len(Walk)}
RegOf ==
  [id \in {item_id[n] : n \in WalkSet} |->
     LET n == CHOOSE m \in WalkSet : item_id[m] = id
     IN  [name |-> item_disk[n], fwd |-> item_fwd[n]]]

R == INSTANCE Registry WITH reg <- RegOf

(* The Registry call that the call of this step stands for.               *)
AbstractCall(c) ==
  CASE c.op = "create"    -> R!create_thread_item
    [] c.op = "remove"    -> R!remove_thread_item(c.id)
    [] c.op = "meta"      -> R!update_meta_data(c.id, c.name)
    [] c.op = "fwd"       -> R!update_forward_fd(c.id, c.fd)
    [] c.op = "close_all" -> R!close_all_thread_sockets
    [] c.op = "hsock"     -> UNCHANGED <<RegOf, cur_thread_id>>
    [] OTHER              -> FALSE

------------------------------------------------------------------------(* The state that matters for the future: the live items.  A freed item's *)
(* fields are never read again (create_thread_item overwrites them all),   *)
(* and call only labels the step that led here.                            *)
LiveView == <<THREAD_HEAD, THREAD_TAIL, cur_thread_id,
              [n \in item_alloc |-> <<item_next[n], item_prev[n], item_id[n],
                                      item_disk[n], item_fwd[n], item_hsock[n]>>]>>

-----
(* Properties.                                                            *)

(* After any sequence of calls the list is intact: a walk from THREAD_HEAD *)
(* ends at NULL after exactly the allocated items, every prev pointer is   *)
(* the item before it, THREAD_TAIL is the last item, and thread ids grow   *)
(* from head to tail.  A remove that misses a pointer update of a head,    *)
(* tail or middle item breaks it.                                          *)
ListWellFormed ==
  /\ Len(Walk) <= Cardinality(Items)
  /\ WalkSet = item_alloc
  /\ THREAD_TAIL = IF Walk = <<>> THEN NULL ELSE Walk[Len(Walk)]
  /\ \A i \in 1..Len(Walk) :
       item_prev[Walk[i]] = IF i = 1 THEN NULL ELSE Walk[i - 1]
  /\ \A i \in 1..(Len(Walk) - 1) : item_id[Walk[i]] < item_id[Walk[i + 1]]

(* Every call on the heap list does to the registry read from the head     *)
(* exactly what the same call of Registry does: the list implements the    *)
(* registry its callers (Broker) are checked against.                      *)
RefinesRegistry == [][AbstractCall(call')]_tl_vars

(* The lookups that walk the list from the head agree with Registry:       *)
(* get_vm_id gives the smallest live id with that filename, and            *)
(* print_thread_items lists the items with metadata in id order.  Both     *)
(* rely on create_thread_item appending at the tail.                       *)
LookupsMatchRegistry ==
  /\ \A nm \in Names : get_vm_id(nm) = R!get_vm_id(nm)
  /\ print_thread_items = R!print_thread_items
=============================================================================
