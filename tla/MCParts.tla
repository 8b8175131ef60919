------------------------------- MODULE MCParts -------------------------------
(***************************************************************************)
(* Four components that share no state, checked in one model:             *)
(*  - the thread_item registry list of the server (ThreadList), under any  *)
(*    sequence of its callers' calls;                                      *)
(*  - a session of the status tool with a connection thread                *)
(*    (StatusSession), whose replies read the lists but never change them; *)
(*  - the QEMU disk hooks (Hooks), which write to the server's socket;     *)
(*  - the QEMU memory hooks (MemoryAccess), which serve their own UNIX     *)
(*    socket.                                                              *)
(* part is chosen at the start and only that component moves; the others  *)
(* stay in their initial states, so the reachable states are the disjoint *)
(* union of the four models'.                                              *)
(***************************************************************************)
EXTENDS Naturals

CONSTANTS NULL, NoName, Items, MaxIds, Names, Fds,   \* ThreadList
          MaxRows,                                   \* StatusSession
          NumEvents, Devices, Guest, NoOwner,        \* Hooks
          LOPHI_RECONNECT_COUNT, MaxSockets, PacketUnits,
          HdrUnits, BufUnits, Lens, Addrs, MaxReqs   \* MemoryAccess

VARIABLES
  THREAD_HEAD, THREAD_TAIL, item_next, item_prev, item_id, item_disk,
  item_fwd, item_hsock, item_alloc, cur_thread_id, call,
  cli, out, c2s, s2c, peer, srv, todo, crashed,
  LOPHI_COMM_INIT, LOPHI_SOCK_OPEN, LOPHI_SOCK_FD, LOPHI_COUNTER,
  LOPHI_BLOCK_DEVICE, socket_thread_mutex, issued, pc, tmp, bytes_written,
  ret, sock, stream, server_up,
  spc, cur, inbox, pending, outbox, applied, cpc, sent, rcvd,
  part    \* "thread", "status", "disk" or "memory"

TL == INSTANCE ThreadList
SS == INSTANCE StatusSession
H == INSTANCE Hooks
M == INSTANCE MemoryAccess

thread_vars == <<THREAD_HEAD, THREAD_TAIL, item_next, item_prev, item_id,
                 item_disk, item_fwd, item_hsock, item_alloc, cur_thread_id,
                 call>>
status_vars == <<cli, out, c2s, s2c, peer, srv, todo, crashed>>
disk_vars == <<LOPHI_COMM_INIT, LOPHI_SOCK_OPEN, LOPHI_SOCK_FD, LOPHI_COUNTER,
               LOPHI_BLOCK_DEVICE, socket_thread_mutex, issued, pc, tmp,
               bytes_written, ret, sock, stream, server_up>>
mem_vars == <<spc, cur, inbox, pending, outbox, applied, cpc, sent, rcvd>>
parts_vars == <<thread_vars, status_vars, disk_vars, mem_vars, part>>

PartsInit ==
  /\ TL!TLInit /\ SS!SSInit /\ H!Init /\ M!Init
  /\ part \in {"thread", "status", "disk", "memory"}

ThreadStep == part = "thread" /\ TL!TLNext
                /\ UNCHANGED <<status_vars, disk_vars, mem_vars, part>>
StatusStep == part = "status" /\ SS!SSNext
                /\ UNCHANGED <<thread_vars, disk_vars, mem_vars, part>>
DiskStep == part = "disk" /\ H!Next
                /\ UNCHANGED <<thread_vars, status_vars, mem_vars, part>>
MemoryStep(A) == part = "memory" /\ A
                /\ UNCHANGED <<thread_vars, status_vars, disk_vars, part>>

PartsNext == ThreadStep \/ StatusStep \/ DiskStep \/ MemoryStep(M!Next)

(* The memory model's fairness, on its steps: memory_access_thread and    *)
(* the kernel's queueing make progress.  The other parts are checked for  *)
(* safety only and need none.                                             *)
PartsSpec ==
  /\ PartsInit /\ [][PartsNext]_parts_vars
  /\ WF_parts_vars(MemoryStep(M!ServerStep))
  /\ WF_parts_vars(MemoryStep(M!KernelQueues))

PartsView == <<part, TL!LiveView, status_vars, disk_vars, mem_vars>>

(* The thread_item list stays a well-formed doubly linked list under every *)
(* create, remove and update (ThreadList).                                 *)
ListWellFormed == TL!ListWellFormed

(* Every dis_threads.c call on the list does what the abstract Registry    *)
(* call does (ThreadList).                                                 *)
RefinesRegistry == TL!RefinesRegistry

(* get_vm_id's first match and print_thread_items' walk answer as the      *)
(* id-ordered Registry does (ThreadList).                                  *)
LookupsMatchRegistry == TL!LookupsMatchRegistry

(* The disk hooks' type invariant: bytes_written stays within the packet,  *)
(* the mutex has one owner (Hooks).                                        *)
HooksTypeOK == H!TypeOK

(* The units of one packet are never separated on a connection by units of *)
(* another packet: only the socket_thread_mutex holder writes (Hooks).     *)
NoInterleavedWrites == H!NoInterleavedWrites

(* No unit of a packet reaches the server twice, across partial writes and *)
(* reconnects (Hooks).                                                     *)
EachUnitOnce == H!EachUnitOnce

(* A client waiting for an answer from connection_handler gets one         *)
(* (MemoryAccess).                                                         *)
Responds == M!Responds
=============================================================================
