------------------------------- MODULE Broker -------------------------------
(***************************************************************************)
(* The disk introspection server: one thread per hypervisor connection    *)
(* (hypervisor_connection, dis_hypervisor.c) and one per subscriber       *)
(* connection (lophi_connection, dis_client.c), sharing the registry      *)
(* (Registry, thread_list_mutex), the waiting-subscriber list             *)
(* (WaitingList, lophi_mutex), lophi_cleanup_mutex and the process's      *)
(* descriptor table.  Each step is one call that holds a mutex for its    *)
(* whole body, or one unlocked read or system call between such calls.    *)
(*                                                                         *)
(* Each producer and each client model value is one connection; a second  *)
(* producer with the same image name is a reconnect.                      *)
(***************************************************************************)
EXTENDS WaitingList, Codec

CONSTANTS Producers,   \* hypervisor connections
          Clients,     \* subscriber (LO-PHI client) connections
          NoName,      \* disk_data is still NULL
          Headers,     \* stream headers a producer may send
          MaxRecords,  \* bound on the records one producer sends
          MaxCmds      \* bound on the subscribe commands one client sends

ASSUME MaxRecords \in Nat /\ MaxCmds \in Nat

VARIABLES reg, cur_thread_id
INSTANCE Registry

NoConn == "none"
NoFail == [fd |-> -1, conn |-> NoConn]

VARIABLES
  fd_owner,     \* descriptor -> connection it is open for, or NoConn
  shut,         \* connections whose socket the server has shut down
  cleanup_holder, \* thread holding lophi_cleanup_mutex, or NoConn
  ppc,          \* producer thread program counter
  p_fd,         \* newsockfd of the producer connection
  p_id,         \* thread_id of its thread_item
  p_name,       \* metadata filename it sent
  p_cur,        \* waiting_head read before a list function takes the lock
  p_wait,       \* lophi_client * waiting (dis_hypervisor.c 113)
  p_arg,        \* descriptor argument read for remove_waiting_client
  p_sent,       \* valid records read so far
  p_fail,       \* descriptor and connection of the send that failed (history)
  cpc,          \* client thread program counter
  c_fd,         \* lophi_fd
  c_wait,       \* lophi_client * waiting_client (dis_client.c 190)
  c_name,       \* filename of the last "n" command
  c_vm,         \* vm_id
  c_cur,        \* waiting_head read before a list function takes the lock
  c_arg,        \* descriptor argument read for remove_waiting_client
  c_cmds,       \* subscribe commands sent so far
  peer_closed,  \* clients whose remote end has closed the connection
  wl_stuck,     \* a list loop cycles forever holding lophi_mutex
  crashed,      \* the process died (SIGPIPE, NULL dereference)
  rx,           \* client -> records written to its socket, <<p, k>>
  asked,        \* client -> images and ids it subscribed to
  freed_reads   \* sites that read a freed lophi_client

prod_vars == <<ppc, p_fd, p_id, p_name, p_cur, p_wait, p_arg, p_sent, p_fail>>
client_vars == <<cpc, c_fd, c_wait, c_name, c_vm, c_cur, c_arg, c_cmds>>
vars == <<wl_vars, reg, cur_thread_id, fd_owner, shut, cleanup_holder,
          prod_vars, client_vars, peer_closed, wl_stuck, crashed, rx, asked,
          freed_reads>>

Conns == Producers \cup Clients

TypeOK ==
  /\ WLTypeOK
  /\ RegTypeOK
  /\ fd_owner \in [Fds -> Conns \cup {NoConn}]
  /\ cleanup_holder \in Conns \cup {NoConn}
  /\ p_sent \in [Producers -> 0..MaxRecords]
  /\ p_fail \in [Producers -> [fd : Fds \cup {NoFd}, conn : Conns \cup {NoConn}]]
  /\ c_cmds \in [Clients -> 0..MaxCmds]
  /\ \A c \in Clients : rx[c] \in Seq(Producers \X (1..MaxRecords))
  /\ crashed \in BOOLEAN

Init ==
  /\ WLInit
  /\ RegInit
  /\ fd_owner = [f \in Fds |-> NoConn]
  /\ shut = {}
  /\ cleanup_holder = NoConn
  /\ ppc = [p \in Producers |-> "idle"]
  /\ p_fd = [p \in Producers |-> NoFd]
  /\ p_id = [p \in Producers |-> -1]
  /\ p_name = [p \in Producers |-> NoName]
  /\ p_cur = [p \in Producers |-> NULL]
  /\ p_wait = [p \in Producers |-> NULL]
  /\ p_arg = [p \in Producers |-> NoFd]
  /\ p_sent = [p \in Producers |-> 0]
  /\ p_fail = [p \in Producers |-> NoFail]
  /\ cpc = [c \in Clients |-> "idle"]
  /\ c_fd = [c \in Clients |-> NoFd]
  /\ c_wait = [c \in Clients |-> NULL]
  /\ c_name = [c \in Clients |-> NoName]
  /\ c_vm = [c \in Clients |-> -1]
  /\ c_cur = [c \in Clients |-> NULL]
  /\ c_arg = [c \in Clients |-> NoFd]
  /\ c_cmds = [c \in Clients |-> 0]
  /\ peer_closed = {}
  /\ wl_stuck = FALSE
  /\ crashed = FALSE
  /\ rx = [c \in Clients |-> <<>>]
  /\ asked = [c \in Clients |-> {}]
  /\ freed_reads = {}

(* accept() returns the lowest-numbered descriptor not open.              *)
FreeFds == {f \in Fds : fd_owner[f] = NoConn}
LowestFree == CHOOSE f \in FreeFds : \A g \in FreeFds : f <= g

(* A waiting-list call from this start is made; if its loop cycles the    *)
(* caller spins forever holding lophi_mutex and every later list call     *)
(* blocks.                                                                 *)
ListCallable == ~wl_stuck
Hangs(start) == Cycles(start, client_next)

NoteFreed(site, ns) ==
  freed_reads' = IF ns = {} THEN freed_reads ELSE freed_reads \cup {site}

(***************************************************************************)
(* Producer side: start_hypervisor_server and hypervisor_connection.      *)
(***************************************************************************)
PSet(p, l) == ppc' = [ppc EXCEPT ![p] = l]
PAt(p, l) == ~crashed /\ ppc[p] = l

(* accept() a hypervisor connection and create_thread_item for it         *)
(* (dis_hypervisor.c 262-291).                                            *)
ProducerConnects(p) ==
  /\ PAt(p, "idle")
  /\ FreeFds # {}
  /\ fd_owner' = [fd_owner EXCEPT ![LowestFree] = p]
  /\ p_fd' = [p_fd EXCEPT ![p] = LowestFree]
  /\ p_id' = [p_id EXCEPT ![p] = cur_thread_id]
  /\ create_thread_item
  /\ PSet(p, "meta")
  /\ UNCHANGED <<wl_vars, shut, cleanup_holder, p_name, p_cur, p_wait, p_arg,
                 p_sent, p_fail, client_vars, peer_closed, wl_stuck, crashed, rx,
                 asked, freed_reads>>

(* One read of the metadata record (96-101): end of stream goes straight  *)
(* to the cleanup, a record sets disk_data via update_meta_data.          *)
ReadMeta(p) ==
  /\ PAt(p, "meta")
  /\ \/ /\ PSet(p, "exit")
        /\ UNCHANGED <<reg, cur_thread_id, p_name>>
     \/ /\ p \notin shut
        /\ \E nm \in Names :
             /\ update_meta_data(p_id[p], nm)
             /\ p_name' = [p_name EXCEPT ![p] = nm]
        /\ PSet(p, "gethead")
  /\ UNCHANGED <<wl_vars, fd_owner, shut, cleanup_holder, p_fd, p_id, p_cur,
                 p_wait, p_arg, p_sent, p_fail, client_vars, peer_closed, wl_stuck,
                 crashed, rx, asked, freed_reads>>

(* get_waiting_client reads waiting_head before it locks (123).           *)
GetWaitingHead(p) ==
  /\ PAt(p, "gethead")
  /\ p_cur' = [p_cur EXCEPT ![p] = waiting_head]
  /\ PSet(p, "getwait")
  /\ UNCHANGED <<wl_vars, reg, cur_thread_id, fd_owner, shut, cleanup_holder,
                 p_fd, p_id, p_name, p_wait, p_arg, p_sent, p_fail, client_vars,
                 peer_closed, wl_stuck, crashed, rx, asked, freed_reads>>

(* The locked loop of get_waiting_client (113, 127-135); a hit goes on    *)
(* to the match (114-125), a miss to the read loop.                       *)
GetWaiting(p) ==
  /\ PAt(p, "getwait")
  /\ ListCallable
  /\ ~Hangs(p_cur[p])
  /\ LET w == get_waiting_client(p_name[p], p_cur[p])
     IN  /\ p_wait' = [p_wait EXCEPT ![p] = w]
         /\ NoteFreed("get_waiting_client", FreedReads(p_cur[p]))
         /\ PSet(p, IF w = NULL THEN "loop" ELSE "match")
  /\ p_cur' = [p_cur EXCEPT ![p] = NULL]
  /\ UNCHANGED <<wl_vars, reg, cur_thread_id, fd_owner, shut, cleanup_holder,
                 p_fd, p_id, p_name, p_arg, p_sent, p_fail, client_vars,
                 peer_closed, wl_stuck, crashed, rx, asked>>

(* update_forward_fd(thread_id, waiting->forward_socket_fd, ...)          *)
(* (119-120): the node is read without any lock.                          *)
MatchWaiting(p) ==
  /\ PAt(p, "match")
  /\ update_forward_fd(p_id[p], client_fd[p_wait[p]])
  /\ NoteFreed("match", {p_wait[p]} \ allocated)
  /\ PSet(p, "rmhead")
  /\ UNCHANGED <<wl_vars, fd_owner, shut, cleanup_holder, p_fd, p_id, p_name,
                 p_cur, p_wait, p_arg, p_sent, p_fail, client_vars, peer_closed,
                 wl_stuck, crashed, rx, asked>>

(* remove_waiting_client(waiting->forward_socket_fd, 1) (123): the        *)
(* argument is read from the node again, and waiting_head before locking. *)
RemoveMatchedHead(p) ==
  /\ PAt(p, "rmhead")
  /\ p_arg' = [p_arg EXCEPT ![p] = client_fd[p_wait[p]]]
  /\ p_cur' = [p_cur EXCEPT ![p] = waiting_head]
  /\ NoteFreed("remove_arg", {p_wait[p]} \ allocated)
  /\ PSet(p, "rm")
  /\ UNCHANGED <<wl_vars, reg, cur_thread_id, fd_owner, shut, cleanup_holder,
                 p_fd, p_id, p_name, p_wait, p_sent, p_fail, client_vars, peer_closed,
                 wl_stuck, crashed, rx, asked>>

(* The locked loop of that remove_waiting_client (75-102).                *)
RemoveMatched(p) ==
  /\ PAt(p, "rm")
  /\ ListCallable
  /\ ~Hangs(p_cur[p])
  /\ remove_waiting_client(p_arg[p], p_cur[p])
  /\ NoteFreed("remove_loop", FreedReads(p_cur[p]))
  /\ PSet(p, "loop")
  /\ p_cur' = [p_cur EXCEPT ![p] = NULL]
  /\ p_arg' = [p_arg EXCEPT ![p] = NoFd]
  /\ p_wait' = [p_wait EXCEPT ![p] = NULL]
  /\ UNCHANGED <<reg, cur_thread_id, fd_owner, shut, cleanup_holder, p_fd,
                 p_id, p_name, p_sent, p_fail, client_vars,
                 peer_closed, wl_stuck, crashed, rx, asked>>

(***************************************************************************)
(* One turn of the read loop (132-197).  read() returning 0 at a record   *)
(* boundary ends the loop; a stream that ends inside a header or payload  *)
(* leaves the thread in the partial-read loops (136-140, 186-190), which  *)
(* add read()'s 0 or -1 forever.  A header failing a check breaks out; a  *)
(* valid one is forwarded if forward_socket_fd is set (194).              *)
(***************************************************************************)
ReadRecord(p) ==
  /\ PAt(p, "loop")
  /\ \/ /\ PSet(p, "exit")
        /\ UNCHANGED p_sent
     \/ /\ p \notin shut
        /\ PSet(p, "spin")
        /\ UNCHANGED p_sent
     \/ /\ p \notin shut
        /\ p_sent[p] < MaxRecords
        /\ \E h \in Headers :
             IF ValidHeader(h)
             THEN /\ p_sent' = [p_sent EXCEPT ![p] = @ + 1]
                  /\ PSet(p, IF reg[p_id[p]].fwd # NoFd /\ PacketSize(h) > 0
                             THEN "send" ELSE "loop")
             ELSE /\ PSet(p, "exit")
                  /\ UNCHANGED p_sent
  /\ UNCHANGED <<wl_vars, reg, cur_thread_id, fd_owner, shut, cleanup_holder,
                 p_fd, p_id, p_name, p_cur, p_wait, p_arg, p_fail, client_vars,
                 peer_closed, wl_stuck, crashed, rx, asked, freed_reads>>

(***************************************************************************)
(* forward_data (37-69): sendto() on thread_data->forward_socket_fd as it *)
(* is now, read without thread_list_mutex (54).  A descriptor that is     *)
(* closed, or open for a hypervisor's AF_UNIX socket, fails; a            *)
(* subscriber's TCP socket takes the record, or times out after           *)
(* SO_SNDTIMEO.  Writing to a TCP socket whose peer has gone, or that was *)
(* shut down, raises SIGPIPE, which the server does not handle: the       *)
(* process dies.                                                          *)
(***************************************************************************)

(* sendto() returned <= 0 (58); p_fail records what it was sent to.       *)
SendFails(p, f, c) ==
  /\ p_fail' = [p_fail EXCEPT ![p] = [fd |-> f, conn |-> c]]
  /\ PSet(p, "shutdown")
  /\ UNCHANGED <<shut, reg, cur_thread_id, rx, crashed>>

(* sendto() hands the whole record to the subscriber's socket: the write *)
(* loop advances written until the packet is out (46-68).                 *)
Delivered(p, c) ==
  /\ rx' = [rx EXCEPT ![c] = Append(@, <<p, p_sent[p]>>)]
  /\ PSet(p, "loop")
  /\ UNCHANGED <<shut, reg, cur_thread_id, crashed, p_fail>>

ForwardData(p) ==
  /\ PAt(p, "send")
  /\ LET f == reg[p_id[p]].fwd
         c == IF f = NoFd THEN NoConn ELSE fd_owner[f]
     IN  IF c \in Clients
         THEN IF c \in shut \/ c \in peer_closed
              THEN \/ /\ crashed' = TRUE
                      /\ UNCHANGED <<shut, reg, cur_thread_id, rx, ppc, p_fail>>
                   \/ /\ c \notin shut
                      /\ PSet(p, "loop")
                      /\ UNCHANGED <<shut, reg, cur_thread_id, rx, crashed, p_fail>>
              ELSE \/ Delivered(p, c)
                   \/ SendFails(p, f, c)
         ELSE SendFails(p, f, c)
  /\ UNCHANGED <<wl_vars, fd_owner, cleanup_holder, p_fd, p_id, p_name, p_cur,
                 p_wait, p_arg, p_sent, client_vars, peer_closed, wl_stuck,
                 asked, freed_reads>>

(* shutdown(thread_data->forward_socket_fd, SHUT_RDWR) (62) reads the    *)
(* field again: it shuts down whatever connection the registration is     *)
(* bound to now.                                                          *)
ForwardShutdown(p) ==
  /\ PAt(p, "shutdown")
  /\ LET g == reg[p_id[p]].fwd
     IN  shut' = IF g # NoFd /\ fd_owner[g] # NoConn
                 THEN shut \cup {fd_owner[g]} ELSE shut
  /\ PSet(p, "unbind")
  /\ UNCHANGED <<wl_vars, reg, cur_thread_id, fd_owner, cleanup_holder, p_fd,
                 p_id, p_name, p_cur, p_wait, p_arg, p_sent, p_fail,
                 client_vars, peer_closed, wl_stuck, crashed, rx, asked,
                 freed_reads>>

(* update_forward_fd(thread_id, -1) under thread_list_mutex (63), then    *)
(* break out of the write loop.                                           *)
ForwardUnbind(p) ==
  /\ PAt(p, "unbind")
  /\ update_forward_fd(p_id[p], NoFd)
  /\ p_fail' = [p_fail EXCEPT ![p] = NoFail]
  /\ PSet(p, "loop")
  /\ UNCHANGED <<wl_vars, fd_owner, shut, cleanup_holder, p_fd, p_id, p_name,
                 p_cur, p_wait, p_arg, p_sent, client_vars, peer_closed,
                 wl_stuck, crashed, rx, asked, freed_reads>>

(* The connection is over: take lophi_cleanup_mutex (204).                *)
ProducerCleanupLock(p) ==
  /\ PAt(p, "exit")
  /\ cleanup_holder = NoConn
  /\ cleanup_holder' = p
  /\ PSet(p, "requeue")
  /\ UNCHANGED <<wl_vars, reg, cur_thread_id, fd_owner, shut, p_fd, p_id,
                 p_name, p_cur, p_wait, p_arg, p_sent, p_fail, client_vars,
                 peer_closed, wl_stuck, crashed, rx, asked, freed_reads>>

(* If a subscriber is still attached, put it back on the waiting list     *)
(* under disk_data->filename (205-213), then unlock (214).  disk_data is  *)
(* NULL if no metadata arrived.                                           *)
ProducerRequeue(p) ==
  /\ PAt(p, "requeue")
  /\ LET it == reg[p_id[p]]
     IN  IF it.fwd = NoFd
         THEN /\ cleanup_holder' = NoConn
              /\ PSet(p, "close")
              /\ UNCHANGED <<wl_vars, crashed>>
         ELSE IF it.name = NoName
         THEN /\ crashed' = TRUE
              /\ UNCHANGED <<wl_vars, cleanup_holder, ppc>>
         ELSE /\ ListCallable
              /\ \E n \in Nodes : create_waiting_client(n, it.name, it.fwd)
              /\ cleanup_holder' = NoConn
              /\ PSet(p, "close")
              /\ UNCHANGED crashed
  /\ UNCHANGED <<reg, cur_thread_id, fd_owner, shut, p_fd, p_id, p_name, p_cur,
                 p_wait, p_arg, p_sent, p_fail, client_vars, peer_closed, wl_stuck, rx,
                 asked, freed_reads>>

(* close(newsockfd) and remove_thread_item (218-219).                     *)
ProducerClose(p) ==
  /\ PAt(p, "close")
  /\ fd_owner' = [fd_owner EXCEPT ![p_fd[p]] = NoConn]
  /\ shut' = shut \ {p}
  /\ remove_thread_item(p_id[p])
  /\ PSet(p, "done")
  /\ UNCHANGED <<wl_vars, cleanup_holder, p_fd, p_id, p_name, p_cur, p_wait,
                 p_arg, p_sent, p_fail, client_vars, peer_closed, wl_stuck, crashed,
                 rx, asked, freed_reads>>

(***************************************************************************)
(* Subscriber side: start_client_server and lophi_connection.             *)
(***************************************************************************)
CSet(c, l) == cpc' = [cpc EXCEPT ![c] = l]
CAt(c, l) == ~crashed /\ cpc[c] = l

(* accept() a subscriber connection (dis_client.c 326-342).               *)
ClientConnects(c) ==
  /\ CAt(c, "idle")
  /\ FreeFds # {}
  /\ fd_owner' = [fd_owner EXCEPT ![LowestFree] = c]
  /\ c_fd' = [c_fd EXCEPT ![c] = LowestFree]
  /\ CSet(c, "cmd")
  /\ UNCHANGED <<wl_vars, reg, cur_thread_id, shut, cleanup_holder, prod_vars,
                 c_wait, c_name, c_vm, c_cur, c_arg, c_cmds, peer_closed,
                 wl_stuck, crashed, rx, asked, freed_reads>>

(* A command arrives while the client is connected (205).                 *)
CommandArrives(c) ==
  /\ CAt(c, "cmd")
  /\ c \notin shut
  /\ c_cmds[c] < MaxCmds
  /\ c_cmds' = [c_cmds EXCEPT ![c] = @ + 1]

(* "i <vm id>" (214-222): make this socket the forward socket of that id. *)
SubscribeById(c) ==
  /\ CommandArrives(c)
  /\ \E k \in 0..(Cardinality(Producers) - 1) :
       /\ c_vm' = [c_vm EXCEPT ![c] = k]
       /\ update_forward_fd(k, c_fd[c])
       /\ asked' = [asked EXCEPT ![c] = @ \cup {<<"id", k>>}]
  /\ UNCHANGED <<wl_vars, fd_owner, shut, cleanup_holder, prod_vars, cpc, c_fd,
                 c_wait, c_name, c_cur, c_arg, peer_closed, wl_stuck, crashed,
                 rx, freed_reads>>

(* "n <vm filename>" (223-240): look the name up with get_vm_id.          *)
SubscribeByName(c) ==
  /\ CommandArrives(c)
  /\ \E nm \in Names :
       /\ c_name' = [c_name EXCEPT ![c] = nm]
       /\ c_vm' = [c_vm EXCEPT ![c] = get_vm_id(nm)]
       /\ asked' = [asked EXCEPT ![c] = @ \cup {<<"name", nm>>}]
  /\ CSet(c, "nsub")
  /\ UNCHANGED <<wl_vars, reg, cur_thread_id, fd_owner, shut, cleanup_holder,
                 prod_vars, c_fd, c_wait, c_cur, c_arg, peer_closed, wl_stuck,
                 crashed, rx, freed_reads>>

(* Found: update_forward_fd; not found: create_waiting_client and keep    *)
(* the node in waiting_client (241-253).                                   *)
SubscribeFound(c) ==
  /\ CAt(c, "nsub")
  /\ IF c_vm[c] # -1
     THEN /\ update_forward_fd(c_vm[c], c_fd[c])
          /\ UNCHANGED <<wl_vars, c_wait>>
     ELSE /\ ListCallable
          /\ \E n \in Nodes :
               /\ create_waiting_client(n, c_name[c], c_fd[c])
               /\ c_wait' = [c_wait EXCEPT ![c] = n]
          /\ UNCHANGED <<reg, cur_thread_id>>
  /\ CSet(c, "cmd")
  /\ UNCHANGED <<fd_owner, shut, cleanup_holder, prod_vars, c_fd, c_name, c_vm,
                 c_cur, c_arg, c_cmds, peer_closed, wl_stuck, crashed, rx,
                 asked, freed_reads>>

(* "w" (209-210): print_waiting_clients reads waiting_head before it     *)
(* locks and sends the header in between (142-148).                       *)
ListWaitingHead(c) ==
  /\ CommandArrives(c)
  /\ c_cur' = [c_cur EXCEPT ![c] = waiting_head]
  /\ CSet(c, "wlist")
  /\ UNCHANGED <<wl_vars, reg, cur_thread_id, fd_owner, shut, cleanup_holder,
                 prod_vars, c_fd, c_wait, c_name, c_vm, c_arg, peer_closed,
                 wl_stuck, crashed, rx, asked, freed_reads>>

(* The locked loop of print_waiting_clients, one send per node, from the *)
(* head read earlier (150-160).                                           *)
ListWaiting(c) ==
  /\ CAt(c, "wlist")
  /\ ListCallable
  /\ ~Hangs(c_cur[c])
  /\ NoteFreed("print_waiting_clients", FreedReads(c_cur[c]))
  /\ c_cur' = [c_cur EXCEPT ![c] = NULL]
  /\ CSet(c, "cmd")
  /\ UNCHANGED <<wl_vars, reg, cur_thread_id, fd_owner, shut, cleanup_holder,
                 prod_vars, c_fd, c_wait, c_name, c_vm, c_arg, c_cmds,
                 peer_closed, wl_stuck, crashed, rx, asked>>

(* read() returns 0 (205): the peer closed, or the server shut the socket *)
(* down after a failed forward.                                           *)
ClientDisconnects(c) ==
  /\ CAt(c, "cmd")
  /\ peer_closed' = IF c \in shut THEN peer_closed ELSE peer_closed \cup {c}
  /\ CSet(c, "cleanup")
  /\ UNCHANGED <<wl_vars, reg, cur_thread_id, fd_owner, shut, cleanup_holder,
                 prod_vars, c_fd, c_wait, c_name, c_vm, c_cur, c_arg, c_cmds,
                 wl_stuck, crashed, rx, asked, freed_reads>>

(* Mutant: the path with no waiting_client returns without unlocking.   *)
ClientCleanupLockNoUnlock(c) ==
  /\ CAt(c, "cleanup")
  /\ cleanup_holder = NoConn
  /\ cleanup_holder' = c
  /\ IF c_wait[c] = NULL THEN CSet(c, "close") ELSE CSet(c, "cgetvm")
  /\ UNCHANGED <<wl_vars, reg, cur_thread_id, fd_owner, shut, prod_vars, c_fd,
                 c_wait, c_name, c_vm, c_cur, c_arg, c_cmds, peer_closed,
                 wl_stuck, crashed, rx, asked, freed_reads>>

(* Take lophi_cleanup_mutex (261); with no waiting_client there is        *)
(* nothing to do before unlocking (262, 273).                             *)
ClientCleanupLock(c) ==
  /\ CAt(c, "cleanup")
  /\ cleanup_holder = NoConn
  /\ IF c_wait[c] = NULL
     THEN CSet(c, "close") /\ UNCHANGED cleanup_holder
     ELSE CSet(c, "cgetvm") /\ cleanup_holder' = c
  /\ UNCHANGED <<wl_vars, reg, cur_thread_id, fd_owner, shut, prod_vars, c_fd,
                 c_wait, c_name, c_vm, c_cur, c_arg, c_cmds, peer_closed,
                 wl_stuck, crashed, rx, asked, freed_reads>>

(* vm_id = get_vm_id(filename) (265).                                     *)
ClientCleanupGetVm(c) ==
  /\ CAt(c, "cgetvm")
  /\ c_vm' = [c_vm EXCEPT ![c] = get_vm_id(c_name[c])]
  /\ CSet(c, "cupdate")
  /\ UNCHANGED <<wl_vars, reg, cur_thread_id, fd_owner, shut, cleanup_holder,
                 prod_vars, c_fd, c_wait, c_name, c_cur, c_arg, c_cmds,
                 peer_closed, wl_stuck, crashed, rx, asked, freed_reads>>

(* update_forward_fd(vm_id, -1, NULL) if the image is registered          *)
(* (267-268), whatever socket that item forwards to.                      *)
ClientCleanupUpdate(c) ==
  /\ CAt(c, "cupdate")
  /\ IF c_vm[c] # -1 THEN update_forward_fd(c_vm[c], NoFd)
     ELSE UNCHANGED <<reg, cur_thread_id>>
  /\ CSet(c, "crmhead")
  /\ UNCHANGED <<wl_vars, fd_owner, shut, cleanup_holder, prod_vars, c_fd,
                 c_wait, c_name, c_vm, c_cur, c_arg, c_cmds, peer_closed,
                 wl_stuck, crashed, rx, asked, freed_reads>>

(* remove_waiting_client(waiting_client->forward_socket_fd, 1) (271): the *)
(* node may have been freed by the producer that consumed it.             *)
ClientCleanupRemoveHead(c) ==
  /\ CAt(c, "crmhead")
  /\ c_arg' = [c_arg EXCEPT ![c] = client_fd[c_wait[c]]]
  /\ c_cur' = [c_cur EXCEPT ![c] = waiting_head]
  /\ NoteFreed("cleanup_arg", {c_wait[c]} \ allocated)
  /\ CSet(c, "crm")
  /\ UNCHANGED <<wl_vars, reg, cur_thread_id, fd_owner, shut, cleanup_holder,
                 prod_vars, c_fd, c_wait, c_name, c_vm, c_cmds, peer_closed,
                 wl_stuck, crashed, rx, asked>>

(* The locked loop of that remove, then unlock lophi_cleanup_mutex (273). *)
ClientCleanupRemove(c) ==
  /\ CAt(c, "crm")
  /\ ListCallable
  /\ ~Hangs(c_cur[c])
  /\ remove_waiting_client(c_arg[c], c_cur[c])
  /\ NoteFreed("remove_loop", FreedReads(c_cur[c]))
  /\ cleanup_holder' = NoConn
  /\ CSet(c, "close")
  /\ c_cur' = [c_cur EXCEPT ![c] = NULL]
  /\ c_arg' = [c_arg EXCEPT ![c] = NoFd]
  /\ UNCHANGED <<reg, cur_thread_id, fd_owner, shut, prod_vars, c_fd, c_wait,
                 c_name, c_vm, c_cmds, peer_closed, wl_stuck, crashed, rx, asked>>

(***************************************************************************)
(* A list loop (get_waiting_client 128-132, remove_waiting_client 76-101, *)
(* print_waiting_clients 150-160)                                         *)
(* that starts on a cycle never reaches NULL: its thread spins holding    *)
(* lophi_mutex, and every later list call blocks on the mutex.            *)
(***************************************************************************)
LoopStart(t) ==
  IF t \in Producers THEN p_cur[t] ELSE c_cur[t]

AtListLoop(t) ==
  IF t \in Producers THEN PAt(t, "getwait") \/ PAt(t, "rm")
  ELSE CAt(t, "crm") \/ CAt(t, "wlist")

ListLoopSpins(t) ==
  /\ AtListLoop(t)
  /\ ListCallable
  /\ Hangs(LoopStart(t))
  /\ wl_stuck' = TRUE
  /\ ppc' = IF t \in Producers THEN [ppc EXCEPT ![t] = "hung"] ELSE ppc
  /\ cpc' = IF t \in Clients THEN [cpc EXCEPT ![t] = "hung"] ELSE cpc
  /\ UNCHANGED <<wl_vars, reg, cur_thread_id, fd_owner, shut, cleanup_holder,
                 p_fd, p_id, p_name, p_cur, p_wait, p_arg, p_sent, p_fail, c_fd, c_wait,
                 c_name, c_vm, c_cur, c_arg, c_cmds, peer_closed, crashed, rx,
                 asked, freed_reads>>

(* close(lophi_fd) (276).                                                 *)
ClientClose(c) ==
  /\ CAt(c, "close")
  /\ fd_owner' = [fd_owner EXCEPT ![c_fd[c]] = NoConn]
  /\ shut' = shut \ {c}
  /\ CSet(c, "done")
  /\ c_wait' = [c_wait EXCEPT ![c] = NULL]
  /\ c_name' = [c_name EXCEPT ![c] = NoName]
  /\ c_vm' = [c_vm EXCEPT ![c] = -1]
  /\ UNCHANGED <<wl_vars, reg, cur_thread_id, cleanup_holder, prod_vars, c_fd,
                 c_cur, c_arg, c_cmds, peer_closed,
                 wl_stuck, crashed, rx, asked, freed_reads>>

(***************************************************************************)
(* The specification.                                                     *)
(***************************************************************************)

(* Steps that wait on a peer: accepts, reads of the sockets.              *)
ProducerInput(p) == ProducerConnects(p) \/ ReadMeta(p) \/ ReadRecord(p)
ClientInput(c) ==
  ClientConnects(c) \/ SubscribeById(c) \/ SubscribeByName(c)
  \/ ListWaitingHead(c) \/ ClientDisconnects(c)

(* Steps a thread takes on its own once scheduled.                        *)
ProducerStep(p) ==
  \/ GetWaitingHead(p) \/ GetWaiting(p) \/ MatchWaiting(p)
  \/ RemoveMatchedHead(p) \/ RemoveMatched(p) \/ ForwardData(p)
  \/ ForwardShutdown(p) \/ ForwardUnbind(p)
  \/ ProducerCleanupLock(p) \/ ProducerRequeue(p) \/ ProducerClose(p)
  \/ ListLoopSpins(p)
ClientStep(c) ==
  \/ SubscribeFound(c) \/ ClientCleanupLock(c) \/ ClientCleanupGetVm(c)
  \/ ClientCleanupUpdate(c) \/ ClientCleanupRemoveHead(c)
  \/ ClientCleanupRemove(c) \/ ClientClose(c) \/ ListWaiting(c)
  \/ ListLoopSpins(c)

Next ==
  \/ \E p \in Producers : ProducerInput(p) \/ ProducerStep(p)
  \/ \E c \in Clients : ClientInput(c) \/ ClientStep(c)

(* pthreads schedule every runnable thread: a thread that can take a step *)
(* of its own eventually does.  Peers are under no obligation to connect, *)
(* send or close.                                                          *)
Fairness ==
  /\ \A p \in Producers : WF_vars(ProducerStep(p))
  /\ \A c \in Clients : WF_vars(ClientStep(c))

Spec == Init /\ [][Next]_vars /\ Fairness

(***************************************************************************)
(* Properties.                                                            *)
(***************************************************************************)

(* No thread reads a lophi_client after free_waiting_client released it:  *)
(* neither the producer that matched it (120, 123) nor the subscriber     *)
(* that created it (271) nor a list loop starting from a stale head.      *)
NoUseAfterFree == freed_reads = {}

(* The server process survives every behaviour of its peers: no SIGPIPE  *)
(* from forward_data, no NULL disk_data in the producer's cleanup.       *)
NoCrash == ~crashed

(* A subscriber's socket only carries records of a producer it asked for *)
(* by image name ("n") or by id ("i").                                    *)
OnlySubscribedReceive ==
  \A c \in Clients : \A i \in 1..Len(rx[c]) :
    LET p == rx[c][i][1]
    IN  <<"name", p_name[p]>> \in asked[c] \/ <<"id", p_id[p]>> \in asked[c]

(* No list loop goes round a cycle holding lophi_mutex.                   *)
NoListHang == ~wl_stuck

(* On a subscriber's disconnect the cleanup clears the delivery binding  *)
(* of the registration found by its last name only if that binding points *)
(* at this connection (section 4.5 of the design); the code clears it     *)
(* whatever it points at (dis_client.c 265-268).                          *)
CleanupClearsOnlyOwn ==
  [][\A c \in Clients :
       /\ cpc[c] = "cupdate" /\ cpc'[c] = "crmhead"
       /\ c_vm[c] \in DOMAIN reg
       => reg[c_vm[c]].fwd \in {c_fd[c], NoFd}]_vars

(* A forward that failed only tears down what it failed on: the shutdown  *)
(* (62) hits only the connection the failing sendto went to, and the     *)
(* update_forward_fd(-1) (63) clears only the binding that failed, not    *)
(* one a subscriber's "i" or "n" made after the failed sendto.            *)
FailedForwardHitsOnlyTarget ==
  [][\A p \in Producers :
       /\ ppc[p] = "shutdown" /\ ppc'[p] = "unbind"
            => shut' \ shut \subseteq {p_fail[p].conn}
       /\ ppc[p] = "unbind" /\ ppc'[p] = "loop"
            => reg[p_id[p]].fwd \in {p_fail[p].fd, NoFd}]_vars

(* A thread that has reached its cleanup (the stream or the command loop  *)
(* ended) eventually closes its socket, unless the process died or a list *)
(* loop spins holding lophi_mutex: lophi_cleanup_mutex is always released *)
(* on every path of both cleanups (204-214, 261-273).                     *)
CleanupCompletes ==
  /\ \A p \in Producers :
       ppc[p] = "exit" ~> (ppc[p] = "done" \/ crashed \/ wl_stuck)
  /\ \A c \in Clients :
       cpc[c] = "cleanup" ~> (cpc[c] = "done" \/ crashed \/ wl_stuck)
=============================================================================
