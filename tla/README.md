# TLA+ models of the LO-PHI disk introspection server and QEMU hooks

This directory holds TLA+ models of the disk introspection server and of the
two QEMU patches that talk to the outside world. Source files:

- `src/lophi-disk-introspection-server/src/dis_client.c`
- `src/lophi-disk-introspection-server/src/dis_hypervisor.c`
- `src/lophi-disk-introspection-server-1.0/src/dis_threads.c`
- `src/lophi-disk-introspection-server-1.0/src/dis_comm.h`
- `src/lophi-disk-introspection-server/tools/disk_introspection_status.c`
  (the status tool)
- `src/qemu-2.0.0+dfsg_patch/lophi-hooks-disk.c` (the producer that feeds
  the server)
- `src/qemu-2.0.0+dfsg_patch/lophi-hooks-memory.c` (a separate guest-memory
  request server inside QEMU)

The directory also holds the TLC configurations that check the models.
`PROJECT.json` lists the components, runs, mutants, findings and hazards, and
maps every definition to the source lines it models.

## 1. The system

The server is a C program with one pthread per connection and three mutexes.

| Part | Code | State it keeps |
|---|---|---|
| Wire codec | `dis_comm.h`, `hypervisor_connection` 141-183 | `DiskIntrospectionHeader {sector, num_sectors, op, size}` (packed, 20 bytes), metadata `{filename[1024], sector_size}` |
| VM registry | `dis_threads.c` | doubly linked `thread_item` list (`THREAD_HEAD/TAIL`), `cur_thread_id`; per item `disk_data` (NULL until metadata), `forward_socket_fd` (-1 = none), `thread_id`. Guarded by `thread_list_mutex`, every function holds it for its whole body. |
| Waiting-subscriber list | `dis_client.c` 39-136 | singly linked `lophi_client` list (`waiting_head`, `waiting_tail`), per node `img_name`, `forward_socket_fd`, `next`. Guarded by `lophi_mutex`, but the callers read `waiting_head` **before** locking (72, 123, 142). |
| Producer ingest | `start_hypervisor_server`, `hypervisor_connection` | one detached thread per AF_UNIX connection; locals `newsockfd`, `waiting`, the record buffer |
| Subscriber command server | `start_client_server`, `lophi_connection` | one detached thread per TCP connection; locals `waiting_client`, `vm_id`, `filename`; `SO_SNDTIMEO` of 10 s |
| Forwarding engine | `forward_data` | none of its own: writes to the registration's `forward_socket_fd` |
| Cleanup lock | `lophi_cleanup_mutex` | held by the producer's requeue (204-214) and the subscriber's disconnect cleanup (261-273) |
| Status tool | `tools/disk_introspection_status.c` | one TCP connection with a 1 s `SO_RCVTIMEO`: send `l`, print until a recv returns nothing, send `w`, the same, close |
| QEMU disk hooks | `lophi-hooks-disk.c` | `LOPHI_SOCK_FD`, `LOPHI_SOCK_OPEN`, `LOPHI_COMM_INIT`, `LOPHI_COUNTER`, `LOPHI_BLOCK_DEVICE`, `socket_thread_mutex`; one detached `lophi_thread` per disk access |
| QEMU memory hooks | `lophi-hooks-memory.c` | one `memory_access_thread` serving one UNIX-socket client: `struct request {type, address, length}`, replies and acks |

How the parts interact:

- A **hypervisor (producer)** connects. `create_thread_item` registers it,
  and the thread reads one metadata record (`update_meta_data`).
- The producer then looks for a waiting subscriber of that name
  (`get_waiting_client`). On a hit it binds the subscriber's descriptor
  (`update_forward_fd`) and frees the waiting node
  (`remove_waiting_client`).
- It then loops: it reads a header, checks it, reads the payload, and calls
  `forward_data` if `forward_socket_fd != -1`.
- When the stream ends, the producer takes the cleanup mutex. If a
  subscriber is still bound, it requeues it under `disk_data->filename`.
  Then it closes and deregisters.
- A **subscriber** connects and sends commands:
  - `i <id>` binds directly.
  - `n <name>` binds if `get_vm_id` finds the name, and otherwise creates a
    waiting node.
- When a subscriber disconnects, only a subscriber that created a waiting
  node cleans up. Under the cleanup mutex it clears the binding of whatever
  registration now has its name, then removes its node.
- `forward_data` runs `sendto` on the descriptor number stored in the
  registration. On failure it shuts that descriptor down and clears the
  binding.
- The **status tool** is a subscriber that sends `l` and `w`. The
  connection thread answers each with one `send` per line
  (`print_thread_items` under `thread_list_mutex`, `print_waiting_clients`
  after an unlocked read of `waiting_head`). The tool gives up on a reply
  after 1 s without data, and the server never closes the connection itself.

### Hard behaviours

- Interleavings of producer and subscriber threads on two lists with
  unlocked reads of `waiting_head`.
- Descriptor numbers that outlive their connection and are reused by
  `accept()`.
- Use of freed nodes: the producer frees the node it consumed, the
  subscriber's cleanup frees its own, and either may run first.
- A remove that meets two adjacent nodes with one descriptor.
- `SIGPIPE`: the signal is not handled (`main` 186-189), so a write to a
  closed peer kills the server.
- Send timeouts and failures that shut down whatever now owns the number.
- Partial reads that spin forever at end of stream.
- In the disk hooks: a mutex left locked on an early return, an unlocked
  `LOPHI_COUNTER++`, partial writes, and a reconnect by the guest thread
  without the mutex while a hook thread reconnects under it.
- In the memory hooks: a single `read()` for a payload that may be longer
  than what the socket has queued, and a region that maps only part of a
  requested range.

### Properties per component

- **Waiting list:**
  - The list stays intact: no cycle, the nodes reached are exactly the
    allocated ones, and the tail is the last node.
  - It implements the design's queue (section 4.3), as `WaitingQueue`
    states it; the same trace that breaks intactness breaks this.
  - No loop over it hangs.
  - No freed node is read.
- **Registry and forwarding:**
  - A subscriber only receives streams it asked for.
  - The cleanup clears only its own binding (section 4.5).
  - A failed forward shuts down only the connection it failed on and clears
    only that binding.
- **Both servers:**
  - The process never crashes (no NULL `disk_data`, no `SIGPIPE`).
  - The cleanup mutex is always released: every cleanup completes.
- **Codec:** the header checks accept exactly what design section 4.4 accepts.
- **Disk hooks:** packets are not interleaved on a connection, no unit is
  sent twice, every connection's stream is framed as the server parses it,
  and every hook thread exits.
- **Memory hooks:** a waiting client gets an answer; only requests the
  client sent are executed, which a payload larger than the socket buffer
  breaks.
- **Registry list:** the `thread_item` list stays a well-formed doubly
  linked list and implements `Registry` call by call; lookups and the
  listing answer as the abstract registry does.
- **Status tool:** a status query never kills the server.

## 2. Modules

| Module | Models | Corresponds to |
|---|---|---|
| `Codec` | constants of `dis_comm.h`; `ValidHeader` = checks 157-183 (C's truncating `%` as `CRem`); `PacketSize` | pure operators |
| `Registry` | `reg`: live id -> `[name, fwd]`, `cur_thread_id`; one operator per `dis_threads.c` function | each is one atomic step, because the function holds `thread_list_mutex` throughout. `NoName` stands for `disk_data == NULL`, and `NoFd = -1`. |
| `WaitingList` | the heap list: `waiting_head`, `waiting_tail`, `client_next/fd/img`, `allocated` | `create_waiting_client`, `remove_waiting_client` (its loop as `RECURSIVE RemoveLoop`, `prev = cur` after a free included), `get_waiting_client` (last match). Traversals take their start as a parameter, because the caller read it before locking. A loop that has not reached NULL after `Fuel` nodes cycles. |
| `ThreadList` | the heap list of `dis_threads.c`: `THREAD_HEAD`, `THREAD_TAIL`, per address `item_next/prev/id/disk/fwd/hsock`, `item_alloc`, `cur_thread_id`, and the history variable `call` (the last call and its arguments) | one action per function (`create_thread_item`, `remove_thread_item`, `update_meta_data`, `update_forward_fd`, `close_all_thread_sockets`) and the unlocked store of `hypervisor_socket_fd` after `create_thread_item` (`dis_hypervisor.c` 288); `get_vm_id` and `print_thread_items` as operators over the walk from `THREAD_HEAD`. `hypervisor_socket_fd` is uninitialised after `malloc`, so `create_thread_item` picks any value. Refines `Registry` through `RegOf` (the map read from the head). |
| `StatusSession` | the status tool (`cli`, `out`: what it printed under each heading), the connection (`c2s`, `s2c`, `peer`: open, FIN, reset in flight, reset), the connection thread (`srv`, `todo`: the lines of the reply it is sending) and `crashed` | `SendCommand`, `RecvLines`, `RecvTimeout`, `CloseSocket` are the tool's `main`; `ReadCommand` (one `read`, only `buffer[0]` looked at), `SendLine` (one `send` per reply line; SIGPIPE after a reset), `ReadEnd` (read returns 0 or -1, thread exits) are `lophi_connection`; `ResetArrives` is the kernel |
| `MCParts` | `ThreadList`, `StatusSession`, `Hooks` and `MemoryAccess` as a disjoint union: `part` picks one at the start and the others stay in their initial states | |
| `WaitingQueue` | the abstract queue of design section 4.3: `Enqueue` appends, `Dequeue(fd)` drops every entry with that fd | abstract specification |
| `MCWaitingList` | the list under arbitrary single-threaded call sequences, a descriptor possibly listed twice (a subscriber's second `n` for an unregistered image, `dis_client.c` 250); refinement mapping `AbsQueue` (the list read from the head) to `WaitingQueue` | |
| `Broker` | the whole server: producer and subscriber threads as program counters (`ppc`, `cpc`) with one action per call or system call between mutex-holding calls; `fd_owner` (the descriptor table), `shut`, `peer_closed`, `cleanup_holder`, `crashed`, `wl_stuck`, and the history variables `rx` (records written to each subscriber), `asked` (its commands) and `freed_reads` (sites that read a freed node) | `EXTENDS WaitingList, Codec`, `INSTANCE Registry` |
| `MCBroker` | headers (one valid READ and the all-zero header) and symmetry sets | |
| `MCCodec` | a header and a sector size drawn from small sets; the design's rule as `DesignValid` | |
| `Hooks` | `lophi-hooks-disk.c`: the globals, `pc`/`tmp`/`bytes_written`/`ret` per thread, the kernel sockets (`sock`) and what the server received on each (`stream`), and `server_up` | one action per step of `lophi_drv_open`, `lophi_disk_access`, `lophi_thread` (increment as load and store, lock, `lophi_init_meta`, one write-loop turn, the error label) and `lophi_initialize` (split at close, socket, connect, since each re-reads the global `LOPHI_SOCK_FD`); the server as environment (`ServerCloses`, `ServerStops`, `ServerStarts`) |
| `MCHooks` | `EXTENDS Hooks, TLC` for the hooks cfgs | |
| `MemoryAccess` | `lophi-hooks-memory.c`: the thread's `spc` and current `req` (`cur`), the socket's queued and not yet queued units (`inbox`, `pending`), replies (`outbox`), guest writes done (`applied`), and the client (`cpc`, `sent`, `rcvd`) | `memory_access_thread` setup, `Accept`, one `ReadRequest` per turn of `connection_handler`'s loop, `DoRead`, `ReadPayload`, `Unknown`; the client and the kernel's queueing as environment |

How the state and actions of `Broker` correspond to the code:

- `ProducerConnects` is accept + `create_thread_item`. `accept()` returns
  the lowest free number (`LowestFree`).
- `ReadMeta` is line 96: end of stream goes to the cleanup, otherwise
  `update_meta_data`.
- `GetWaitingHead` + `GetWaiting` are line 113: the unlocked head read, then
  the locked loop.
- `MatchWaiting` is 119-120. `RemoveMatchedHead` + `RemoveMatched` are 123.
- `ReadRecord` is one turn of 132-194. Outcomes:
  - end of stream;
  - a stream cut inside a record, which leads to `spin`;
  - an invalid header, which leads to the exit;
  - a valid header, which is forwarded if bound.
- `ForwardData` is `forward_data`. Outcomes:
  - delivered (`Delivered`);
  - timed out, or failed on a closed or AF_UNIX descriptor (`SendFails`,
    line 58). The thread then runs two more steps, with the registry lock
    released between them: `ForwardShutdown` (62) re-reads
    `forward_socket_fd` and shuts down whatever connection the
    registration is bound to now, and `ForwardUnbind` (63) is
    `update_forward_fd(id, -1)`. The history variable `p_fail` records the
    descriptor and connection whose send failed;
  - `SIGPIPE` on a shut-down or reset socket, or a write lost to a peer
    that closed.
- `ProducerCleanupLock`, `ProducerRequeue` (which crashes on NULL
  `disk_data`) and `ProducerClose` are 204-219.
- `ClientConnects`, `SubscribeById`, `SubscribeByName` and `SubscribeFound`
  are `accept` and the `i`/`n` branches.
- `ListWaitingHead` is the `w` branch (209-210) up to the header's `send`
  in `print_waiting_clients`: `waiting_head` is read before
  `lophi_mutex` is taken (142). `ListWaiting` is the locked walk from that
  head (150-160). The reply's lines themselves are `StatusSession`'s.
- `ClientDisconnects` is `read()` returning 0.
- The `ClientCleanup*` actions are 261-273. `ClientClose` is 276.
- `ListLoopSpins` is any list loop that starts on a cycle: the thread spins
  holding `lophi_mutex` (`wl_stuck`), and every later list call blocks.

Freed memory: `free_waiting_client` clears `img_name`, and glibc then stores
its free-list link in that first word. The model keeps a freed node's other
fields and never lets a freed node's name match. A read of a freed node is
recorded in `freed_reads`. `malloc` may hand any free address out again. The
target glibc returns the last chunk freed in the thread's arena first, and
the traces below use exactly that.

How the state and actions of `Hooks` correspond to the code:

- The byte stream of each socket is a sequence of units: the metadata
  record is `MetaUnit`, a packet (header and payload) is `PacketUnits`
  units tagged with its event. A `write` on a connected socket returns any
  prefix (a signal may interrupt it); on any other descriptor it returns
  -1 (`WriteResults`).
- `lophi_disk_access` either reconnects on the guest thread (`pc[Guest]`
  goes through the `init_*` labels without the mutex), drops the event, or
  spawns thread `issued + 1`.
- `ret[t]` records where a thread's `lophi_initialize` returns to: after
  `lophi_init_meta` failed (line 222 returns with the mutex held), or the
  error label (unlock at 255).

How `MemoryAccess` corresponds to the code: a header is `HdrUnits` units,
a write payload `len` units. `read(fd, buf, n)` takes what is queued, at
most `n`. The socket queues at most `BufUnits` units, so a large write
reaches the reader in pieces. `cpu_physical_memory_map` is abstracted by
address kind: all of a RAM range, one unit less for a range crossing a
region boundary, nothing for an unmapped one (`Mapped`). A header read out
of step with the client's requests carries request number `Garbage` and
any type, address and length its bytes spell.

## 3. Runs

| Run | Config | Expect | Checks | Shows |
|---|---|---|---|---|
| component_parts | `MCParts.cfg` | pass | `ListWellFormed`, `LookupsMatchRegistry`, `RefinesRegistry`, `HooksTypeOK`, `NoInterleavedWrites`, `EachUnitOnce`, `Responds` | the `thread_item` list stays well formed and implements `Registry` call by call; disk hooks with 4 events, 2 devices, 3 sockets: the mutex keeps packets whole on every connection and no unit is resent; the memory hooks answer every waiting client; the status session's steps all fire (301k distinct states after the view, about 45 s) |
| waiting_list_dup_fd | `MCWaitingList.cfg` | violation | `ListIntact` | create(fd 4), create(fd 4), remove(4): both nodes are freed, the head is NULL and `waiting_tail` is left on the freed first node (4 states) |
| broker_safety | `MCBroker.cfg` | pass | `TypeOK` | 1 hypervisor, 2 subscribers, names {a, b}: every broker action fires and every state is well typed (1.47M states, about 35 s) |
| broker_cleanup_liveness | `MCBrokerLive.cfg` | pass | `CleanupCompletes` | every cleanup finishes unless the process died or the list hangs (474k states, about 1.5 min, no symmetry) |
| broker_null_disk_data | `MCBrokerCrash.cfg` | violation | `NoCrash` | metadata read fails, `i 0`, requeue dereferences NULL `disk_data` (7 states) |
| broker_use_after_free | `MCBrokerUAF.cfg` | violation | `NoUseAfterFree` | a reader of `waiting_head` takes it before locking, a subscriber's cleanup frees the node, the reader walks it. The shortest trace (13 states) is a second subscriber's `w`; the producer's `get_waiting_client` does the same in 14 |
| broker_stale_forward_fd | `MCBrokerStale.cfg` | violation | `OnlySubscribedReceive` | subscriber 1 binds by id and closes, subscriber 2 gets the same fd and receives the stream (13 states) |
| broker_forward_race | `MCBrokerForward.cfg` | violation | `FailedForwardHitsOnlyTarget` | the send to subscriber c1 fails; subscriber c2 connects and sends `i 0` before the thread's `shutdown` re-reads `forward_socket_fd`; c2's connection is shut down and its binding cleared, c1's stays open (12 states) |
| hooks_stream_framing | `MCHooksFramed.cfg` | violation | `StreamsFramed` | a thread reconnects under the mutex and sends the metadata; the guest's unlocked `lophi_initialize` replaces `LOPHI_SOCK_FD`; the next packet starts a connection with no metadata |
| hooks_thread_exit | `MCHooksExit.cfg` | violation | `ThreadsExit` | `lophi_init_meta` fails at a reconnect count; the thread returns at 222 holding the mutex and the next thread waits forever |
| memory_large_write | `MCMemoryShort.cfg` | violation | `NoGarbageCommand` | a 3-unit payload after a 2-unit header exceeds the 4 queued units; the short read sends a fail ack and the rest of the payload is parsed as a request |
| status_crash | `MCStatusCrash.cfg` | violation | `NoServerCrash` | the tool sends `l`, times out, sends `w`, times out and closes; the thread then reads both commands at once, the reply's header is answered by a reset and its first row raises SIGPIPE (10 states) |

Further configurations reproduce other counterexamples of the same models;
they are not part of the run list because each shares a root cause with a
run above:

| Config | Property | Shows |
|---|---|---|
| `MCBrokerList.cfg` | `ListIntact` | the producer's match-and-remove races the subscriber's cleanup; the tail is left on a freed node |
| `MCBrokerHang.cfg` | `NoListHang` | the stale tail plus a reused address give `n1.next = n1`; the next remove spins holding `lophi_mutex` |
| `MCBrokerRebind.cfg` | `CleanupClearsOnlyOwn` | a waiting subscriber's disconnect clears the binding another subscriber made |
| `MCHooksSockOpen.cfg` | `SockOpenMeansConnected` | a thread's reconnect closes the socket the guest just connected while `LOPHI_SOCK_OPEN` stays true |
| `MCHooksOrder.cfg` | `InIssueOrder` | threads take the mutex out of issue order, so packets reach the server reordered |
| `MCHooks.cfg`, `MCMemory.cfg` | as in `component_parts` | each hooks component on its own |
| `MCCodec.cfg` | `ChecksMatchDesign` | size -512 (and 0 with a non-zero sector) passes the header checks of `hypervisor_connection` (173), which design section 4.4 rejects; a pure function, so it is kept out of the run list |
| `MCMemoryPartial.cfg` | `FailAckMeansUnchanged` | a write crossing a region boundary is applied in part and acknowledged as failed |

Every passing property has a mutant in `PROJECT.json` that TLC catches:

| Property | Mutant |
|---|---|
| `TypeOK` | `forward_socket_fd` is not initialised to -1 |
| `CleanupCompletes` | the cleanup path with no waiting node returns without unlocking |
| `HooksTypeOK` | the write loop does not jump to `error` on a failed write |
| `NoInterleavedWrites` | the thread writes without waiting for `socket_thread_mutex` |
| `EachUnitOnce` | `bytes_written = w` instead of `+= w` |
| `Responds` | an unknown type is ignored without a reply |
| `ListWellFormed` | `remove_thread_item` does not move `THREAD_TAIL` off the removed item |
| `RefinesRegistry` | `update_forward_fd`'s loop stops before the tail (`cur->next != NULL`) |
| `LookupsMatchRegistry` | `get_vm_id` has no `break`, so the last match wins |

### Bounds and why they are enough

- **Connections.** One producer and two subscribers is the smallest setting
  with every race reported above: two subscribers for fd reuse and
  rebinding, one of them waiting while the other binds. Two producers and
  one subscriber produce none of the violations. The 2/2 setting exceeds
  5 minutes.
- **Descriptors.** `Fds = {3, 4, 5}` is exactly one per connection, so
  `accept` must reuse a closed number.
- **Nodes.** Three nodes (two for the liveness run) let a freed address be
  reused while another is live.
- **Commands and records.** `MaxCmds = 1` per subscriber and
  `MaxRecords = 1` per producer are enough for the violations: each needs
  at most one record to reach a subscriber. The order of records is not
  checked: one thread reads and forwards them one at a time, and the
  chunk loop of `forward_data` is one step. The liveness run uses
  `MaxRecords = 0`: forwarding only matters there through the binding,
  which subscribe and requeue also set.
- **Names.** Two names in the safety run let a requeued node (name a) sit
  next to a waiting node (name b) with the same descriptor.
- **Symmetry.** Symmetry over producers, clients and nodes is used only in
  safety runs.
- **Deadlock.** The broker cfgs set `CHECK_DEADLOCK FALSE` because the
  process may really stop: when it crashes, and when every bounded
  connection has ended (the real server then sits in `accept`). Threads
  that block forever on a held mutex are checked by `CleanupCompletes`
  instead.
- **Hooks.** Four events with `LOPHI_RECONNECT_COUNT = 2` give two
  reconnect points and overlapping threads; two devices make the
  device-mismatch drop reachable; three sockets allow a thread's and the
  guest's reconnects to create two new sockets after the first; two units
  per packet allow a partial write. The hooks cfgs set `CHECK_DEADLOCK
  FALSE`: the guest stops after `NumEvents` accesses and threads really do
  block on a leaked mutex (checked by `ThreadsExit`).
- **Memory.** Three requests of lengths {1, 2} with a 2-unit header and a
  4-unit buffer cover every type, each address kind, and a write whose
  payload arrives with its header; lengths {1, 3} exceed the buffer. The
  client may stop at any time, so deadlock is not checked.

- **Registry list.** Three addresses and `MaxIds = 4` let an address be
  freed and handed out again under a new id while two others are live.
  One filename lets two items share a name, so `get_vm_id`'s first match
  matters; one descriptor is enough to tell bound from unbound. The
  `VIEW` drops the fields of freed items and `call`: `create_thread_item`
  overwrites every field of the address it reuses, and `call` only
  labels the step that led to a state.
- **Status tool.** At most one row per reply: the crash needs two sends
  after the close (a header and a row, or two headers). Time is not
  modelled; a recv on an empty socket may time out at any moment, which
  stands for a reply delayed by more than a second. `CHECK_DEADLOCK FALSE`
  in `MCParts.cfg` because a status session really ends (tool done,
  thread exited) and the hooks' guest stops after `NumEvents` accesses.
- **Waiting list.** Two descriptors, two names and three nodes: two
  entries for one descriptor, next to each other or apart, and a freed
  address handed out again.

### Fairness

`WF_vars(ProducerStep(p))` and `WF_vars(ClientStep(c))`: a runnable thread
is eventually scheduled. This is weak fairness on the thread's own steps,
which include taking a mutex. Weak fairness is enough for
`lophi_cleanup_mutex` because each thread takes it at most once per
connection and connections are bounded, so a released mutex eventually
stays free. No fairness is assumed for peers (`ProducerInput`,
`ClientInput`): nothing obliges a hypervisor or subscriber to connect, send
or close.

In `Hooks`, every `lophi_thread` and the guest's pending `lophi_initialize`
are weakly fair (`WF_vars(ThreadStep(t))`, `WF_vars(InitializeStep(Guest))`):
the kernel schedules runnable threads. The guest's disk accesses, device
opens and the server are the environment and have no fairness. In
`MemoryAccess`, `WF_vars(ServerStep)` (the thread runs while it can read)
and `WF_vars(KernelQueues)` (the kernel delivers queued bytes); the client
need not send or read.

`StatusSession` has no fairness: its one property is an invariant. In the
disjoint union `MCParts` the memory hooks' fairness is stated on the
union's own steps (`MemoryStep(M!ServerStep)`, `MemoryStep(M!KernelQueues)`);
the other parts are checked for safety only.

## 4. Plan

Done: `WaitingList`, `Registry`, `ThreadList` (refining `Registry`),
`Broker` for `i`/`n`/`w`, `Codec`, `Hooks`, `MemoryAccess`, `StatusSession`.

Done last: `ForwardData` split at the unlocked re-read of
`forward_socket_fd` (62) and the clear (63); `broker_forward_race` shows
a failed forward tearing down another subscriber. The `w` command's walk
from an unlocked `waiting_head` in `Broker`, which reaches the same freed
read that `broker_use_after_free` shows. The waiting list is now checked
with a descriptor listed twice, as the callers allow (`waiting_list_dup_fd`),
instead of under an assumption of distinct descriptors. Properties that held
by the shape of their model were dropped: the status tool's termination
and the thread's exit (each restated one guard), in-order delivery (one
record per producer, and the chunk loop is one step), and the memory hooks'
`NoGarbageCommand` in the passing run (its bounds queue every request
whole; `memory_large_write` checks it where it can fail).

Next:

1. A liveness property for the status session's connection thread that
   includes the mutexes its replies wait on (`thread_list_mutex`,
   `lophi_mutex`), which needs `StatusSession` composed with `Broker`.

2. Compose `Hooks` with the producer side of `Broker` over the socket
   streams, to state end-to-end delivery (design section 8).

## 5. Not modelled, and why

- **Chunking in `forward_data`.** A record is at most `MAX_BYTES_SENT + 20`
  bytes, and one `sendto` either takes it or fails. The per-chunk loop is
  one step.
- **Byte layout and byte order of the records, and the string contents of
  names.** Names are model values.
- **`sockaddr` copies.** `update_forward_fd` copies `sizeof(cliaddr)` bytes
  into an 8-byte buffer, and `sendto` on a connected TCP socket ignores the
  address.
- **Logging, `printf`, and the daemon's PID and lock files.** They are
  sequential I/O with no shared state. `daemonize` closing
  0-2 only changes which numbers `accept` hands out.
- **The `h` command.** One `send` of the help text; the status tool never
  sends it.
- **`terminate_dis`.** A signal handler that calls
  `close_all_thread_sockets`, which takes `thread_list_mutex`: if the
  signal lands in a thread holding that mutex, the daemon deadlocks on
  shutdown. Signal delivery at an arbitrary instruction is not modelled.
- **`lophi_disk_access_iov`.** It copies a scatter list into one buffer and
  then behaves as `lophi_disk_access`.
- **The byte copy in `connection_write_memory` and `connection_read_memory`.**
  Only how many bytes were mapped matters to the properties (`Mapped`).
- **The width of `req.length`.** Lengths are a few units; a `uint64_t` length
  near 2^64 (where `g_malloc(req.length + 1)` wraps to 0) is not explored.
