-------------------------------- MODULE Hooks --------------------------------
(***************************************************************************)
(* The QEMU disk hooks (qemu-2.0.0+dfsg_patch/lophi-hooks-disk.c): the    *)
(* hypervisor side of the disk introspection socket.                     *)
(*                                                                         *)
(* The guest's block layer calls lophi_disk_access once per disk access,  *)
(* one call at a time.  Each call that is not dropped spawns a detached   *)
(* lophi_thread, which increments LOPHI_COUNTER without a lock, takes     *)
(* socket_thread_mutex, sends the metadata record if LOPHI_COMM_INIT is   *)
(* still false, writes header+payload in a write loop and, on error,     *)
(* reconnects through lophi_initialize.  lophi_disk_access itself calls   *)
(* lophi_initialize without the mutex when the socket is not open.       *)
(*                                                                         *)
(* lophi_initialize is split at its three system calls (close, socket,    *)
(* connect), each of which re-reads the global LOPHI_SOCK_FD, so the      *)
(* guest's call and a thread's call interleave.  A socket's byte stream   *)
(* is abstracted to units: the metadata record is one unit, a packet      *)
(* (header and payload) is PacketUnits units, and a write transfers a     *)
(* prefix of what it is given.  The server side is an environment that    *)
(* accepts a connect while it listens, and may close a connection or      *)
(* stop at any time.                                                      *)
(***************************************************************************)
EXTENDS Integers, Sequences, FiniteSets

CONSTANTS NumEvents,      \* disk accesses the guest issues
          Devices,        \* BlockDriverStates that are opened (image, backing file)
          NULL,           \* LOPHI_BLOCK_DEVICE before lophi_drv_open
          Guest,          \* the thread that runs lophi_disk_access
          NoOwner,        \* socket_thread_mutex is free
          LOPHI_RECONNECT_COUNT,
          MaxSockets,     \* bound on the sockets socket() creates
          PacketUnits     \* units of one header+payload packet

ASSUME NumEvents \in Nat /\ MaxSockets \in Nat /\ PacketUnits \in Nat \ {0}
ASSUME LOPHI_RECONNECT_COUNT \in Nat \ {0}

Threads == 1..NumEvents          \* the lophi_thread spawned for event e
Actors == Threads \cup {Guest}   \* who may run lophi_initialize
Sockets == 1..MaxSockets
NoSock == -1

\* A unit of a socket's byte stream: ev = 0 is the metadata record,
\* otherwise part i of the packet of event ev.
Unit == [ev : 0..NumEvents, part : 0..PacketUnits]
MetaUnit == [ev |-> 0, part |-> 0]

VARIABLES
  LOPHI_COMM_INIT, LOPHI_SOCK_OPEN, LOPHI_SOCK_FD, LOPHI_COUNTER,
  LOPHI_BLOCK_DEVICE,     \* with LOPHI_FILENAME, set together by lophi_drv_open
  socket_thread_mutex,    \* owning thread or NoOwner
  issued,                 \* disk accesses issued so far
  pc,                     \* actor -> program counter
  tmp,                    \* thread -> LOPHI_COUNTER value loaded for ++
  bytes_written,          \* thread -> bytes_written of its write loop
  ret,                    \* thread -> where its lophi_initialize call returns
  sock,                   \* socket -> state of the kernel object
  stream,                 \* socket -> units the server has received on it
  server_up               \* the introspection server is listening

vars == <<LOPHI_COMM_INIT, LOPHI_SOCK_OPEN, LOPHI_SOCK_FD, LOPHI_COUNTER,
          LOPHI_BLOCK_DEVICE, socket_thread_mutex, issued, pc, tmp,
          bytes_written, ret, sock, stream, server_up>>

Labels == {"idle", "none", "inc_load", "inc_store", "lock", "meta", "data",
           "error", "init_close", "init_socket", "init_connect", "done"}
SockStates == {"unused", "open", "connected", "peer_closed", "closed"}

TypeOK ==
  /\ LOPHI_COMM_INIT \in BOOLEAN /\ LOPHI_SOCK_OPEN \in BOOLEAN
  /\ LOPHI_SOCK_FD \in Sockets \cup {NoSock}
  /\ LOPHI_COUNTER \in 0..NumEvents
  /\ LOPHI_BLOCK_DEVICE \in Devices \cup {NULL}
  /\ socket_thread_mutex \in Threads \cup {NoOwner}
  /\ issued \in 0..NumEvents
  /\ pc \in [Actors -> Labels]
  /\ tmp \in [Threads -> 0..NumEvents]
  /\ bytes_written \in [Threads -> -1..PacketUnits]
  /\ ret \in [Threads -> {"none", "meta_failed", "unlock"}]
  /\ sock \in [Sockets -> SockStates]
  /\ stream \in [Sockets -> Seq(Unit)]
  /\ server_up \in BOOLEAN

\* The globals' initialisers (lines 64-73); QEMU opens the drive later.
Init ==
  /\ LOPHI_COMM_INIT = FALSE /\ LOPHI_SOCK_OPEN = FALSE
  /\ LOPHI_SOCK_FD = NoSock /\ LOPHI_COUNTER = 0
  /\ LOPHI_BLOCK_DEVICE = NULL /\ socket_thread_mutex = NoOwner
  /\ issued = 0
  /\ pc = [a \in Actors |-> IF a = Guest THEN "idle" ELSE "none"]
  /\ tmp = [t \in Threads |-> 0]
  /\ bytes_written = [t \in Threads |-> 0]
  /\ ret = [t \in Threads |-> "none"]
  /\ sock = [k \in Sockets |-> "unused"]
  /\ stream = [k \in Sockets |-> <<>>]
  /\ server_up \in BOOLEAN

Reconnecting == LOPHI_COUNTER % LOPHI_RECONNECT_COUNT = 0
Goto(a, l) == pc' = [pc EXCEPT ![a] = l]

-----------------------------------------------------------------------------
(* write(LOPHI_SOCK_FD, ..., n units): the results the kernel can give.   *)
(* A connected socket takes all n units, or a prefix when a signal        *)
(* interrupts the write; a socket the server closed, an unconnected or a  *)
(* closed descriptor fails with -1.                                       *)
WriteResults(n) ==
  IF LOPHI_SOCK_FD # NoSock /\ sock[LOPHI_SOCK_FD] = "connected"
  THEN 1..n ELSE {-1}

\* The effect of a write of units us that returned w.
Transfer(us, w) ==
  IF w > 0
  THEN stream' = [stream EXCEPT ![LOPHI_SOCK_FD] = @ \o SubSeq(us, 1, w)]
  ELSE UNCHANGED stream

PacketFrom(e, b) == [i \in 1..PacketUnits - b |-> [ev |-> e, part |-> b + i]]

-----------------------------------------------------------------------------
(* lophi_drv_open: the first opened BlockDriverState and its filename     *)
(* are kept; later calls return early.                                    *)
lophi_drv_open(bs) ==
  /\ LOPHI_BLOCK_DEVICE = NULL
  /\ LOPHI_BLOCK_DEVICE' = bs
  /\ UNCHANGED <<LOPHI_COMM_INIT, LOPHI_SOCK_OPEN, LOPHI_SOCK_FD,
                 LOPHI_COUNTER, socket_thread_mutex, issued, pc, tmp,
                 bytes_written, ret, sock, stream, server_up>>

(* lophi_disk_access for the next event: reconnect and drop it when the   *)
(* socket is not open and the counter is at a multiple of                 *)
(* LOPHI_RECONNECT_COUNT, drop it when bs is not the recorded device,     *)
(* otherwise spawn its thread (even when the socket is not open).         *)
lophi_disk_access(bs) ==
  /\ pc[Guest] = "idle" /\ issued < NumEvents
  /\ issued' = issued + 1
  /\ IF ~LOPHI_SOCK_OPEN /\ Reconnecting
     THEN Goto(Guest, "init_close")
     ELSE IF bs # LOPHI_BLOCK_DEVICE
     THEN UNCHANGED pc
     ELSE Goto(issued + 1, "inc_load")
  /\ UNCHANGED <<LOPHI_COMM_INIT, LOPHI_SOCK_OPEN, LOPHI_SOCK_FD,
                 LOPHI_COUNTER, LOPHI_BLOCK_DEVICE, socket_thread_mutex,
                 tmp, bytes_written, ret, sock, stream, server_up>>

-----------------------------------------------------------------------------
(* lophi_initialize, run by actor a.                                      *)

\* Back in the caller: lophi_disk_access returns 0; lophi_init_meta
\* returns false and lophi_thread returns at line 222 still holding
\* socket_thread_mutex; the error path unlocks at line 255 and exits.
InitReturn(a) ==
  /\ Goto(a, IF a = Guest THEN "idle" ELSE "done")
  /\ socket_thread_mutex' = IF a # Guest /\ ret[a] = "unlock"
                            THEN NoOwner ELSE socket_thread_mutex

\* Lines 95-98: close a descriptor that is still set.
lophi_initialize_close(a) ==
  /\ pc[a] = "init_close"
  /\ IF LOPHI_SOCK_FD # NoSock
     THEN sock' = [sock EXCEPT ![LOPHI_SOCK_FD] = "closed"]
     ELSE UNCHANGED sock
  /\ LOPHI_SOCK_FD' = NoSock
  /\ Goto(a, "init_socket")
  /\ UNCHANGED <<LOPHI_COMM_INIT, LOPHI_SOCK_OPEN, LOPHI_COUNTER,
                 LOPHI_BLOCK_DEVICE, socket_thread_mutex, issued, tmp,
                 bytes_written, ret, stream, server_up>>

\* Lines 101-105: socket() creates the next socket, or fails (here only
\* once MaxSockets are used) and lophi_initialize returns -1.
lophi_initialize_socket(a) ==
  /\ pc[a] = "init_socket"
  /\ LET free == {k \in Sockets : sock[k] = "unused"} IN
     IF free = {}
     THEN /\ LOPHI_SOCK_FD' = NoSock
          /\ InitReturn(a)
          /\ UNCHANGED sock
     ELSE LET k == CHOOSE k \in free : \A j \in free : k <= j IN
          /\ LOPHI_SOCK_FD' = k
          /\ sock' = [sock EXCEPT ![k] = "open"]
          /\ Goto(a, "init_connect")
          /\ UNCHANGED socket_thread_mutex
  /\ UNCHANGED <<LOPHI_COMM_INIT, LOPHI_SOCK_OPEN, LOPHI_COUNTER,
                 LOPHI_BLOCK_DEVICE, issued, tmp, bytes_written, ret, stream,
                 server_up>>

\* Lines 111-129: connect(LOPHI_SOCK_FD) succeeds only on a fresh socket
\* while the server listens; then LOPHI_SOCK_OPEN is set.
lophi_initialize_connect(a) ==
  /\ pc[a] = "init_connect"
  /\ IF LOPHI_SOCK_FD # NoSock /\ sock[LOPHI_SOCK_FD] = "open" /\ server_up
     THEN /\ sock' = [sock EXCEPT ![LOPHI_SOCK_FD] = "connected"]
          /\ LOPHI_SOCK_OPEN' = TRUE
     ELSE UNCHANGED <<sock, LOPHI_SOCK_OPEN>>
  /\ InitReturn(a)
  /\ UNCHANGED <<LOPHI_COMM_INIT, LOPHI_SOCK_FD, LOPHI_COUNTER,
                 LOPHI_BLOCK_DEVICE, issued, tmp, bytes_written, ret, stream,
                 server_up>>

-----------------------------------------------------------------------------
(* lophi_thread t, and lophi_init_meta which it calls.                    *)

\* Line 209: LOPHI_COUNTER++ without a lock is a load and a store, and
\* two threads' increments can race.
lophi_thread_inc_load(t) ==
  /\ pc[t] = "inc_load"
  /\ tmp' = [tmp EXCEPT ![t] = LOPHI_COUNTER]
  /\ Goto(t, "inc_store")
  /\ UNCHANGED <<LOPHI_COMM_INIT, LOPHI_SOCK_OPEN, LOPHI_SOCK_FD,
                 LOPHI_COUNTER, LOPHI_BLOCK_DEVICE, socket_thread_mutex,
                 issued, bytes_written, ret, sock, stream, server_up>>

lophi_thread_inc_store(t) ==
  /\ pc[t] = "inc_store"
  /\ LOPHI_COUNTER' = tmp[t] + 1
  /\ Goto(t, "lock")
  /\ UNCHANGED <<LOPHI_COMM_INIT, LOPHI_SOCK_OPEN, LOPHI_SOCK_FD,
                 LOPHI_BLOCK_DEVICE, socket_thread_mutex, issued, tmp,
                 bytes_written, ret, sock, stream, server_up>>

\* Mutant: the thread writes without waiting for the mutex.
lophi_thread_lock_nowait(t) ==
  /\ pc[t] = "lock"
  /\ socket_thread_mutex' = t
  /\ bytes_written' = [bytes_written EXCEPT ![t] = 0]
  /\ Goto(t, IF LOPHI_COMM_INIT THEN "data" ELSE "meta")
  /\ UNCHANGED <<LOPHI_COMM_INIT, LOPHI_SOCK_OPEN, LOPHI_SOCK_FD,
                 LOPHI_COUNTER, LOPHI_BLOCK_DEVICE, issued, tmp, ret, sock,
                 stream, server_up>>

\* Lines 216-220 and 238: take the mutex, then send the metadata first if
\* communication is not initialised.
lophi_thread_lock(t) ==
  /\ pc[t] = "lock"
  /\ socket_thread_mutex = NoOwner
  /\ socket_thread_mutex' = t
  /\ bytes_written' = [bytes_written EXCEPT ![t] = 0]
  /\ Goto(t, IF LOPHI_COMM_INIT THEN "data" ELSE "meta")
  /\ UNCHANGED <<LOPHI_COMM_INIT, LOPHI_SOCK_OPEN, LOPHI_SOCK_FD,
                 LOPHI_COUNTER, LOPHI_BLOCK_DEVICE, issued, tmp, ret, sock,
                 stream, server_up>>

\* lophi_init_meta: one write of the metadata record.  A failed write at a
\* reconnect count resets both flags, reconnects and returns false; any
\* other failed write returns true with LOPHI_COMM_INIT still false.
lophi_init_meta(t) ==
  /\ pc[t] = "meta"
  /\ \E w \in WriteResults(1) :
       /\ Transfer(<<MetaUnit>>, w) /\ UNCHANGED sock
       /\ IF w < 0 /\ Reconnecting
          THEN /\ LOPHI_SOCK_OPEN' = FALSE /\ LOPHI_COMM_INIT' = FALSE
               /\ ret' = [ret EXCEPT ![t] = "meta_failed"]
               /\ Goto(t, "init_close")
          ELSE /\ LOPHI_COMM_INIT' = (w >= 0 \/ LOPHI_COMM_INIT)
               /\ Goto(t, "data")
               /\ UNCHANGED <<LOPHI_SOCK_OPEN, ret>>
  /\ UNCHANGED <<LOPHI_SOCK_FD, LOPHI_COUNTER, LOPHI_BLOCK_DEVICE,
                 socket_thread_mutex, issued, tmp, bytes_written, server_up>>

\* Mutant: the loop goes on after a failed write (no goto error).
lophi_thread_write_nogoto(t) ==
  /\ pc[t] = "data"
  /\ LET b == bytes_written[t] IN
     \E w \in WriteResults(PacketUnits - b) :
       /\ Transfer(PacketFrom(t, b), w) /\ UNCHANGED sock
       /\ bytes_written' = [bytes_written EXCEPT ![t] = b + w]
       /\ Goto(t, IF b + w = PacketUnits THEN "error" ELSE "data")
  /\ UNCHANGED <<LOPHI_COMM_INIT, LOPHI_SOCK_OPEN, LOPHI_SOCK_FD,
                 LOPHI_COUNTER, LOPHI_BLOCK_DEVICE, socket_thread_mutex,
                 issued, tmp, ret, server_up>>

\* Mutant: bytes_written = w instead of += w.
lophi_thread_write_assign(t) ==
  /\ pc[t] = "data"
  /\ LET b == bytes_written[t] IN
     \E w \in WriteResults(PacketUnits - b) :
       /\ Transfer(PacketFrom(t, b), w) /\ UNCHANGED sock
       /\ bytes_written' = [bytes_written EXCEPT ![t] = w]
       /\ Goto(t, IF w <= 0 \/ w = PacketUnits THEN "error" ELSE "data")
  /\ UNCHANGED <<LOPHI_COMM_INIT, LOPHI_SOCK_OPEN, LOPHI_SOCK_FD,
                 LOPHI_COUNTER, LOPHI_BLOCK_DEVICE, socket_thread_mutex,
                 issued, tmp, ret, server_up>>

\* Lines 239-245: one iteration of the write loop; bytes_written += w,
\* and w <= 0 jumps to the error label.
lophi_thread_write(t) ==
  /\ pc[t] = "data"
  /\ LET b == bytes_written[t] IN
     \E w \in WriteResults(PacketUnits - b) :
       /\ Transfer(PacketFrom(t, b), w) /\ UNCHANGED sock
       /\ bytes_written' = [bytes_written EXCEPT ![t] = b + w]
       /\ Goto(t, IF w <= 0 \/ b + w = PacketUnits THEN "error" ELSE "data")
  /\ UNCHANGED <<LOPHI_COMM_INIT, LOPHI_SOCK_OPEN, LOPHI_SOCK_FD,
                 LOPHI_COUNTER, LOPHI_BLOCK_DEVICE, socket_thread_mutex,
                 issued, tmp, ret, server_up>>

\* Lines 248-260: only a negative total at a reconnect count resets the
\* flags and reconnects; otherwise unlock, free and exit.
lophi_thread_error(t) ==
  /\ pc[t] = "error"
  /\ IF bytes_written[t] < 0 /\ Reconnecting
     THEN /\ LOPHI_SOCK_OPEN' = FALSE /\ LOPHI_COMM_INIT' = FALSE
          /\ ret' = [ret EXCEPT ![t] = "unlock"]
          /\ Goto(t, "init_close")
          /\ UNCHANGED socket_thread_mutex
     ELSE /\ socket_thread_mutex' = NoOwner
          /\ Goto(t, "done")
          /\ UNCHANGED <<LOPHI_SOCK_OPEN, LOPHI_COMM_INIT, ret>>
  /\ UNCHANGED <<LOPHI_SOCK_FD, LOPHI_COUNTER, LOPHI_BLOCK_DEVICE, issued,
                 tmp, bytes_written, sock, stream, server_up>>

-----------------------------------------------------------------------------
(* The introspection server, as seen from the hypervisor: it may close a  *)
(* connection (hypervisor_connection breaks its loop on a bad header or   *)
(* end of stream), stop (closing every connection) and start again.      *)
server_vars == <<LOPHI_COMM_INIT, LOPHI_SOCK_OPEN, LOPHI_SOCK_FD,
                 LOPHI_COUNTER, LOPHI_BLOCK_DEVICE, socket_thread_mutex,
                 issued, pc, tmp, bytes_written, ret, stream>>

ServerCloses(k) ==
  /\ sock[k] = "connected"
  /\ sock' = [sock EXCEPT ![k] = "peer_closed"]
  /\ UNCHANGED <<server_vars, server_up>>

ServerStops ==
  /\ server_up /\ server_up' = FALSE
  /\ sock' = [k \in Sockets |->
                IF sock[k] = "connected" THEN "peer_closed" ELSE sock[k]]
  /\ UNCHANGED server_vars

ServerStarts ==
  /\ ~server_up /\ server_up' = TRUE
  /\ UNCHANGED <<server_vars, sock>>

-----------------------------------------------------------------------------
InitializeStep(a) ==
  \/ lophi_initialize_close(a)
  \/ lophi_initialize_socket(a)
  \/ lophi_initialize_connect(a)

ThreadStep(t) ==
  \/ lophi_thread_inc_load(t) \/ lophi_thread_inc_store(t)
  \/ lophi_thread_lock(t) \/ lophi_init_meta(t)
  \/ lophi_thread_write(t) \/ lophi_thread_error(t)
  \/ InitializeStep(t)

Next ==
  \/ \E bs \in Devices : lophi_drv_open(bs) \/ lophi_disk_access(bs)
  \/ InitializeStep(Guest)
  \/ \E t \in Threads : ThreadStep(t)
  \/ \E k \in Sockets : ServerCloses(k)
  \/ ServerStops \/ ServerStarts

\* The kernel schedules every runnable thread; the guest and the server
\* are the environment and need not act.
Fairness ==
  /\ WF_vars(InitializeStep(Guest))
  /\ \A t \in Threads : WF_vars(ThreadStep(t))

Spec == Init /\ [][Next]_vars /\ Fairness

-----------------------------------------------------------------------------
(* Properties.                                                            *)

DataAt(s, i) == s[i].ev # 0
Positions == UNION {{<<k, i>> : i \in 1..Len(stream[k])} : k \in Sockets}

\* socket_thread_mutex ("make sure we do thread safe writes", line 215):
\* on every connection, the units of one packet are never separated by
\* units of another packet.
NoInterleavedWrites ==
  \A k \in Sockets : \A i, j, l \in 1..Len(stream[k]) :
    (/\ i < j /\ j < l /\ DataAt(stream[k], i)
     /\ stream[k][i].ev = stream[k][l].ev) => stream[k][j].ev = stream[k][i].ev

\* No unit of a packet reaches the server twice: the write loop never
\* re-sends what an earlier write took, across errors and reconnects.
EachUnitOnce ==
  \A e \in Threads, p \in 1..PacketUnits :
    Cardinality({pos \in Positions : stream[pos[1]][pos[2]]
                                       = [ev |-> e, part |-> p]}) <= 1

\* The stream of a connection is what hypervisor_connection parses: the
\* metadata record first, then whole packets, each starting with its
\* header (a packet cut short may only end the stream).
Framed(s) ==
  Len(s) > 0 =>
    /\ s[1] = MetaUnit
    /\ \A i \in 2..Len(s) :
         /\ s[i].part = ((i - 2) % PacketUnits) + 1
         /\ s[i].part > 1 => s[i].ev = s[i - 1].ev
StreamsFramed == \A k \in Sockets : Framed(stream[k])

\* Disk accesses reach the server in the order the guest issued them.
InIssueOrder ==
  \A k \in Sockets : \A i, j \in 1..Len(stream[k]) :
    (i < j /\ DataAt(stream[k], i) /\ DataAt(stream[k], j))
      => stream[k][i].ev <= stream[k][j].ev

\* LOPHI_SOCK_OPEN ("connected successfully", line 125) means that
\* LOPHI_SOCK_FD is a connected socket (the server may have closed it).
SockOpenMeansConnected ==
  LOPHI_SOCK_OPEN =>
    /\ LOPHI_SOCK_FD # NoSock
    /\ sock[LOPHI_SOCK_FD] \in {"connected", "peer_closed"}

\* Every spawned lophi_thread eventually exits (and so frees its buffers).
ThreadsExit ==
  \A t \in Threads : (pc[t] # "none") ~> (pc[t] = "done")

=============================================================================
