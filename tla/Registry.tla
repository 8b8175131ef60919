------------------------------ MODULE Registry ------------------------------
(***************************************************************************)
(* The registry of connected producers (the thread_item list of           *)
(* dis_threads.c) at the level its callers see it: every function takes   *)
(* thread_list_mutex for its whole body, so each is one step.  The list   *)
(* is kept in creation order and ids grow with creation, so "first in the *)
(* list" is "smallest id".  reg maps the ids of live items to their       *)
(* disk_data filename (NoName while disk_data is NULL) and                *)
(* forward_socket_fd (NoFd = -1 when nobody is subscribed).               *)
(***************************************************************************)
EXTENDS Integers, FiniteSets, TLC
LOCAL INSTANCE SequencesExt

CONSTANTS Names, Fds, NoName

NoFd == -1

VARIABLES reg,            \* live thread_item id -> [name, fwd]
          cur_thread_id   \* next id create_thread_item hands out

Item == [name : Names \cup {NoName}, fwd : Fds \cup {NoFd}]

RegTypeOK ==
  /\ cur_thread_id \in Nat
  /\ DOMAIN reg \subseteq 0..(cur_thread_id - 1)
  /\ \A i \in DOMAIN reg : reg[i] \in Item

RegInit == reg = <<>> /\ cur_thread_id = 0

(* Mutant: forward_socket_fd is left as malloc returned it (zeroed).     *)
create_thread_item_unset_fd ==
  /\ reg' = reg @@ (cur_thread_id :> [name |-> NoName, fwd |-> 0])
  /\ cur_thread_id' = cur_thread_id + 1

(* create_thread_item (33-58): a new item with the next id, no metadata   *)
(* and no forward socket, appended at the tail.                           *)
create_thread_item ==
  /\ reg' = reg @@ (cur_thread_id :> [name |-> NoName, fwd |-> NoFd])
  /\ cur_thread_id' = cur_thread_id + 1

(* remove_thread_item (63-87).                                            *)
remove_thread_item(id) ==
  /\ reg' = [i \in DOMAIN reg \ {id} |-> reg[i]]
  /\ UNCHANGED cur_thread_id

(* update_meta_data (92-103): disk_data now holds the filename.           *)
update_meta_data(id, nm) ==
  /\ reg' = [reg EXCEPT ![id].name = nm]
  /\ UNCHANGED cur_thread_id

(* update_forward_fd (108-132): set forward_socket_fd of the item with    *)
(* this id, if there is one; no item, no change.                          *)
update_forward_fd(id, f) ==
  /\ reg' = IF id \in DOMAIN reg THEN [reg EXCEPT ![id].fwd = f] ELSE reg
  /\ UNCHANGED cur_thread_id

(* get_vm_id (138-156): id of the first item whose filename is nm, or -1. *)
get_vm_id(nm) ==
  LET ids == {i \in DOMAIN reg : reg[i].name = nm}
  IN  IF ids = {} THEN -1 ELSE CHOOSE i \in ids : \A j \in ids : i <= j
(* print_thread_items (161-199): a line per item with metadata, in list   *)
(* order, which is id order: its id, whether it forwards, its filename.   *)
print_thread_items ==
  LET rows == SetToSortSeq({i \in DOMAIN reg : reg[i].name # NoName}, <)
  IN  [k \in 1..Len(rows) |-> [id |-> rows[k], used |-> reg[rows[k]].fwd # NoFd,
                               name |-> reg[rows[k]].name]]

(* close_all_thread_sockets (205-222): no item forwards any more.         *)
close_all_thread_sockets ==
  /\ reg' = [i \in DOMAIN reg |-> [reg[i] EXCEPT !.fwd = NoFd]]
  /\ UNCHANGED cur_thread_id
=============================================================================
