---------------------------- MODULE WaitingList -----------------------------
(***************************************************************************)
(* The waiting-subscriber list of dis_client.c as the program keeps it: a  *)
(* singly linked list of malloc'd lophi_client nodes with a head and a     *)
(* tail pointer, guarded by lophi_mutex.  Nodes are addresses from the     *)
(* finite set Nodes; a node freed by free_waiting_client keeps the field   *)
(* values it had (the target build, glibc 2.19, overwrites only the first  *)
(* word, img_name, when a chunk goes to a fastbin) until malloc hands the  *)
(* address out again.  img_name of a freed node never matches a name.      *)
(*                                                                         *)
(* The operators below are the list functions; every one of them runs in  *)
(* one step because it holds lophi_mutex for its whole loop.  The callers  *)
(* in Broker read waiting_head before taking the mutex, so traversals take *)
(* their start node as a parameter.                                        *)
(***************************************************************************)
EXTENDS Naturals, Sequences, FiniteSets, TLC

CONSTANTS Names,   \* disk-image names
          Fds,     \* socket descriptor numbers
          Nodes,   \* heap addresses a lophi_client can be allocated at
          NULL     \* the null pointer

VARIABLES waiting_head,   \* lophi_client * waiting_head
          waiting_tail,   \* lophi_client * waiting_tail
          client_next,    \* node -> its next field
          client_fd,      \* node -> its forward_socket_fd field
          client_img,     \* node -> its img_name field
          allocated       \* nodes currently malloc'd and not yet freed

wl_vars == <<waiting_head, waiting_tail, client_next, client_fd, client_img,
             allocated>>

Ptr == Nodes \cup {NULL}

WLTypeOK ==
  /\ waiting_head \in Ptr
  /\ waiting_tail \in Ptr
  /\ client_next \in [Nodes -> Ptr]
  /\ client_fd \in [Nodes -> Fds]
  /\ client_img \in [Nodes -> Names]
  /\ allocated \subseteq Nodes

WLInit ==
  /\ waiting_head = NULL
  /\ waiting_tail = NULL
  /\ client_next = [n \in Nodes |-> NULL]
  /\ client_fd = [n \in Nodes |-> CHOOSE f \in Fds : TRUE]
  /\ client_img = [n \in Nodes |-> CHOOSE nm \in Names : TRUE]
  /\ allocated = {}

(* A loop over a list of N nodes visits at most N of them; a loop that    *)
(* has not reached NULL after Fuel steps is going round a cycle forever.  *)
Fuel == Cardinality(Nodes) + 1

(* The nodes a loop starting at n visits, in order, cut off at Fuel.      *)
RECURSIVE WalkFrom(_, _, _)
WalkFrom(n, nxt, fuel) ==
  IF n = NULL \/ fuel = 0 THEN <<>>
  ELSE <<n>> \o WalkFrom(nxt[n], nxt, fuel - 1)

(* A loop starting at n never reaches NULL.                               *)
Cycles(n, nxt) == Len(WalkFrom(n, nxt, Fuel)) = Fuel

(***************************************************************************)
(* create_waiting_client (dis_client.c 39-66): fill a fresh node n, then   *)
(* under lophi_mutex link it after the tail.                               *)
(***************************************************************************)
create_waiting_client(n, nm, f) ==
  /\ n \notin allocated
  /\ allocated' = allocated \cup {n}
  /\ client_fd' = [client_fd EXCEPT ![n] = f]
  /\ client_img' = [client_img EXCEPT ![n] = nm]
  /\ client_next' = (IF waiting_tail # NULL THEN waiting_tail :> n
                     ELSE <<>>) @@ [client_next EXCEPT ![n] = NULL]
  /\ waiting_head' = IF waiting_head = NULL THEN n ELSE waiting_head
  /\ waiting_tail' = n

(***************************************************************************)
(* One iteration of the matching branch of remove_waiting_client           *)
(* (dis_client.c 80-93) on heap h = [head, tail, next, alloc]: unlink cur  *)
(* behind prev and free it.                                                *)
(***************************************************************************)
Unlink(h, cur, prev) ==
  [head  |-> IF cur = h.head THEN h.next[cur] ELSE h.head,
   tail  |-> IF cur = h.tail THEN prev ELSE h.tail,
   next  |-> IF prev # NULL THEN [h.next EXCEPT ![prev] = h.next[cur]]
             ELSE h.next,
   alloc |-> h.alloc \ {cur},
   hang  |-> h.hang]

(* The loop of remove_waiting_client (dis_client.c 76-101).  prev is set  *)
(* to cur in both branches, also to a node the branch has just freed.     *)
RECURSIVE RemoveLoop(_, _, _, _, _)
RemoveLoop(f, cur, prev, h, fuel) ==
  IF cur = NULL THEN h
  ELSE IF fuel = 0 THEN [h EXCEPT !.hang = TRUE]
  ELSE IF client_fd[cur] = f
       THEN LET h2 == Unlink(h, cur, prev)
            IN  RemoveLoop(f, h2.next[cur], cur, h2, fuel - 1)
       ELSE RemoveLoop(f, h.next[cur], cur, h, fuel - 1)

(* The heap remove_waiting_client(f, 1) leaves when its loop starts at    *)
(* start (the waiting_head its caller read before locking).               *)
RemoveResult(f, start) ==
  RemoveLoop(f, start, NULL,
             [head |-> waiting_head, tail |-> waiting_tail,
              next |-> client_next, alloc |-> allocated, hang |-> FALSE],
             Fuel)

(* remove_waiting_client (dis_client.c 71-103) as an action; it is only   *)
(* enabled when its loop terminates (a cyclic list hangs the caller).     *)
remove_waiting_client(f, start) ==
  LET h == RemoveResult(f, start)
  IN  /\ ~h.hang
      /\ waiting_head' = h.head
      /\ waiting_tail' = h.tail
      /\ client_next' = h.next
      /\ allocated' = h.alloc
      /\ UNCHANGED <<client_fd, client_img>>

(***************************************************************************)
(* get_waiting_client (dis_client.c 122-136): the last node, from start,   *)
(* whose img_name equals nm, or NULL.                                      *)
(***************************************************************************)
get_waiting_client(nm, start) ==
  LET w == WalkFrom(start, client_next, Fuel)
      hits == {i \in 1..Len(w) : w[i] \in allocated /\ client_img[w[i]] = nm}
  IN  IF hits = {} THEN NULL
      ELSE w[CHOOSE i \in hits : \A j \in hits : j <= i]

(* The nodes a traversal from start visits.                              *)
NodesOfWalk(start) ==
  LET w == WalkFrom(start, client_next, Fuel) IN {w[i] : i \in 1..Len(w)}

(* The nodes a traversal from start reads although they are freed.        *)
FreedReads(start) == NodesOfWalk(start) \ allocated

(* The list is intact after any sequence of creates and removes: a loop   *)
(* from waiting_head reaches NULL, passes exactly the allocated nodes,    *)
(* and its last node is waiting_tail.  A remove that leaves a freed node  *)
(* linked, or waiting_tail on a freed node, breaks it.                    *)
ListIntact ==
  LET w == WalkFrom(waiting_head, client_next, Fuel)
  IN  /\ ~Cycles(waiting_head, client_next)
      /\ NodesOfWalk(waiting_head) = allocated
      /\ waiting_tail = IF w = <<>> THEN NULL ELSE w[Len(w)]
=============================================================================
