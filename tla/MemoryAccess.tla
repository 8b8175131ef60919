----------------------------- MODULE MemoryAccess -----------------------------
(***************************************************************************)
(* The QEMU memory hooks (qemu-2.0.0+dfsg_patch/lophi-hooks-memory.c):    *)
(* memory_access_start spawns memory_access_thread, which listens on a    *)
(* UNIX socket, accepts one client and runs connection_handler: read a    *)
(* struct request, then read guest memory and reply, read a payload and   *)
(* write it into guest memory and acknowledge, or reply 0 to an unknown   *)
(* type, until a request of type 0 or end of stream.                     *)
(*                                                                         *)
(* The socket's byte stream is abstracted to units: a request header is   *)
(* HdrUnits units (part 1 holds the type byte), a write payload of length *)
(* n is n units.  read(fd, buf, n) returns what is queued, at most n.    *)
(* The socket queues at most BufUnits units: a client write that fits is  *)
(* readable at once, a larger one in pieces.  Guest memory is abstracted to address kinds:  *)
(* cpu_physical_memory_map maps all of a RAM range, a prefix of a range   *)
(* that crosses a region boundary, and nothing of an unmapped one.        *)
(* The client is the environment: it sends one request at a time and      *)
(* waits for the answer.                                                  *)
(***************************************************************************)
EXTENDS Integers, Sequences, FiniteSets

CONSTANTS HdrUnits,   \* units of a struct request
          BufUnits,   \* units the socket queues from one write at once
          Lens,       \* request lengths (units)
          Addrs,      \* address kinds: "ram", "edge", "none"
          MaxReqs     \* bound on the requests the client sends

ASSUME HdrUnits >= 2 /\ BufUnits >= HdrUnits /\ Lens \subseteq Nat \ {0}
ASSUME Addrs \subseteq {"ram", "edge", "none"}

Types == 0..3                 \* 0 quit, 1 read, 2 write, 3 stands for any other
Request == [type : Types, addr : Addrs, len : Lens]
Garbage == 0                  \* request number of a header read out of step

VARIABLES
  spc,        \* memory_access_thread program counter
  cur,        \* struct request req being handled, with its request number
  inbox,      \* units queued on connection_fd, readable
  pending,    \* units the client wrote that the socket has not queued
  outbox,     \* replies written to the client, [r, ok]
  applied,    \* guest memory writes done, [r, bytes]
  cpc,        \* client state
  sent,       \* requests the client sent, in order
  rcvd        \* replies the client has read

vars == <<spc, cur, inbox, pending, outbox, applied, cpc, sent, rcvd>>

Init ==
  /\ spc = "setup"
  /\ cur = [r |-> 0, type |-> 0, addr |-> CHOOSE a \in Addrs : TRUE,
            len |-> CHOOSE n \in Lens : TRUE]
  /\ inbox = <<>> /\ pending = <<>> /\ outbox = <<>> /\ applied = <<>>
  /\ cpc = "idle" /\ sent = <<>> /\ rcvd = 0

Min2(a, b) == IF a < b THEN a ELSE b

\* The end of the stream is readable once the client closed and all its
\* bytes are queued.
AtEOF == cpc = "closed" /\ pending = <<>>

\* cpu_physical_memory_map: the number of units it maps.
Mapped(addr, len) ==
  CASE addr = "ram" -> len [] addr = "edge" -> len - 1 [] addr = "none" -> 0

\* The type byte a unit holds: the sender's type for the first unit of a
\* header, any byte for the rest of a header or for payload.
TypeOf(u) == IF u.part = 1 THEN {sent[u.r].type} ELSE Types

\* A header read whole and in step with the client's requests.
InStep(got) ==
  /\ got[1].part = 1
  /\ \A i \in 1..HdrUnits : got[i] = [r |-> got[1].r, part |-> i]

Reply(ok) ==
  outbox' = Append(outbox, [r |-> cur.r, ok |-> ok])

-----------------------------------------------------------------------------
(* memory_access_thread: socket, bind and listen, or exit on a failure.   *)
memory_access_thread ==
  /\ spc = "setup"
  /\ \/ spc' = "accept"
     \/ spc' = "exited"
  /\ UNCHANGED <<cur, inbox, pending, outbox, applied, cpc, sent, rcvd>>

\* accept() the one client.
Accept ==
  /\ spc = "accept" /\ cpc # "idle"
  /\ spc' = "read_req"
  /\ UNCHANGED <<cur, inbox, pending, outbox, applied, cpc, sent, rcvd>>

(* One turn of connection_handler's loop: read(connection_fd, &req,       *)
(* sizeof req).  A type byte 0 or end of stream breaks the loop and closes *)
(* the connection; a short read continues; otherwise dispatch on the type. *)
(* A header read out of step is whatever request its bytes spell.         *)
ReadRequest ==
  /\ spc = "read_req"
  /\ inbox # <<>> \/ AtEOF
  /\ IF inbox = <<>>
     THEN spc' = "exited" /\ UNCHANGED <<cur, inbox>>
     ELSE LET k == Min2(HdrUnits, Len(inbox))
              got == SubSeq(inbox, 1, k) IN
          /\ inbox' = SubSeq(inbox, k + 1, Len(inbox))
          /\ \E ty \in TypeOf(got[1]) :
               IF ty = 0 THEN spc' = "exited" /\ UNCHANGED cur
               ELSE IF k < HdrUnits THEN UNCHANGED <<spc, cur>>
               ELSE /\ IF InStep(got)
                       THEN LET q == sent[got[1].r] IN
                            cur' = [r |-> got[1].r, type |-> q.type,
                                    addr |-> q.addr, len |-> q.len]
                       ELSE \E a \in Addrs, n \in Lens :
                              cur' = [r |-> Garbage, type |-> ty,
                                      addr |-> a, len |-> n]
                    /\ spc' = CASE ty = 1 -> "do_read"
                                [] ty = 2 -> "read_payload"
                                [] OTHER  -> "unknown"
  /\ UNCHANGED <<pending, outbox, applied, cpc, sent, rcvd>>

\* Type 1: connection_read_memory, then reply with the bytes and a status
\* byte 1, or with the status byte 0 when fewer bytes were mapped.
DoRead ==
  /\ spc = "do_read"
  /\ Reply(Mapped(cur.addr, cur.len) = cur.len)
  /\ spc' = "read_req"
  /\ UNCHANGED <<cur, inbox, pending, applied, cpc, sent, rcvd>>

\* Mutant: the payload read asks for one byte less than req.length.
ReadPayloadShort ==
  /\ spc = "read_payload"
  /\ inbox # <<>> \/ AtEOF
  /\ LET k == Min2(cur.len - 1, Len(inbox))
         n == Mapped(cur.addr, cur.len) IN
     /\ inbox' = SubSeq(inbox, k + 1, Len(inbox))
     /\ IF k # cur.len - 1
        THEN Reply(FALSE) /\ UNCHANGED applied
        ELSE /\ applied' = IF n > 0
                           THEN Append(applied, [r |-> cur.r, bytes |-> n])
                           ELSE applied
             /\ Reply(n = cur.len)
  /\ spc' = "read_req"
  /\ UNCHANGED <<cur, pending, cpc, sent, rcvd>>

(* Type 2: one read() of req.length payload bytes; a short read is        *)
(* acknowledged as a failure, otherwise connection_write_memory copies    *)
(* what it mapped and the ack says whether that was all of it.            *)
ReadPayload ==
  /\ spc = "read_payload"
  /\ inbox # <<>> \/ AtEOF
  /\ LET k == Min2(cur.len, Len(inbox))
         n == Mapped(cur.addr, cur.len) IN
     /\ inbox' = SubSeq(inbox, k + 1, Len(inbox))
     /\ IF k # cur.len
        THEN Reply(FALSE) /\ UNCHANGED applied
        ELSE /\ applied' = IF n > 0
                           THEN Append(applied, [r |-> cur.r, bytes |-> n])
                           ELSE applied
             /\ Reply(n = cur.len)
  /\ spc' = "read_req"
  /\ UNCHANGED <<cur, pending, cpc, sent, rcvd>>

\* Mutant: an unknown type is ignored without a reply.
UnknownNoReply ==
  /\ spc = "unknown"
  /\ spc' = "read_req"
  /\ UNCHANGED <<cur, inbox, pending, outbox, applied, cpc, sent, rcvd>>

\* Any other type: reply a single 0 byte.
Unknown ==
  /\ spc = "unknown"
  /\ Reply(FALSE)
  /\ spc' = "read_req"
  /\ UNCHANGED <<cur, inbox, pending, applied, cpc, sent, rcvd>>

-----------------------------------------------------------------------------
(* The client and the kernel.                                             *)

Units(i, q) ==
  [p \in 1..HdrUnits + (IF q.type = 2 THEN q.len ELSE 0) |-> [r |-> i, part |-> p]]

ClientConnects ==
  /\ cpc = "idle" /\ spc = "accept"
  /\ cpc' = "ready"
  /\ UNCHANGED <<spc, cur, inbox, pending, outbox, applied, sent, rcvd>>

ClientSends(q) ==
  /\ cpc = "ready" /\ Len(sent) < MaxReqs
  /\ pending' = pending \o Units(Len(sent) + 1, q)
  /\ sent' = Append(sent, q)
  /\ cpc' = IF q.type = 0 THEN "closed" ELSE "waiting"
  /\ UNCHANGED <<spc, cur, inbox, outbox, applied, rcvd>>

ClientReceives ==
  /\ cpc = "waiting" /\ rcvd < Len(outbox)
  /\ rcvd' = rcvd + 1 /\ cpc' = "ready"
  /\ UNCHANGED <<spc, cur, inbox, pending, outbox, applied, sent>>

ClientCloses ==
  /\ cpc \in {"ready", "waiting"}
  /\ cpc' = "closed"
  /\ UNCHANGED <<spc, cur, inbox, pending, outbox, applied, sent, rcvd>>

\* The kernel queues what the client wrote, as much as the socket buffer
\* has room for: all of a small write, a large one piece by piece as the
\* reader drains it.
KernelQueues ==
  /\ pending # <<>> /\ Len(inbox) < BufUnits
  /\ LET k == Min2(BufUnits - Len(inbox), Len(pending)) IN
     /\ inbox' = inbox \o SubSeq(pending, 1, k)
     /\ pending' = SubSeq(pending, k + 1, Len(pending))
  /\ UNCHANGED <<spc, cur, outbox, applied, cpc, sent, rcvd>>

ServerStep ==
  memory_access_thread \/ Accept \/ ReadRequest \/ DoRead \/ ReadPayload
  \/ Unknown

Next ==
  \/ ServerStep \/ KernelQueues
  \/ ClientConnects \/ ClientReceives \/ ClientCloses
  \/ \E q \in Request : ClientSends(q)

\* The thread and the kernel make progress; the client need not.
Spec == Init /\ [][Next]_vars /\ WF_vars(ServerStep) /\ WF_vars(KernelQueues)

-----------------------------------------------------------------------------
(* Properties.                                                            *)

\* connection_handler acts only on requests the client sent: no reply and
\* no guest memory write comes from a header read out of step with the
\* client's writes (payload bytes taken for a request).
NoGarbageCommand ==
  /\ \A i \in 1..Len(outbox) : outbox[i].r # Garbage
  /\ \A i \in 1..Len(applied) : applied[i].r # Garbage

\* send_fail_ack for a write request means guest memory was not written.
FailAckMeansUnchanged ==
  \A i \in 1..Len(outbox) :
    LET r == outbox[i].r IN
      (r # Garbage /\ ~outbox[i].ok /\ sent[r].type = 2)
        => \A j \in 1..Len(applied) : applied[j].r # r

\* A client waiting for an answer gets one, unless the thread has exited
\* or the client gave up.
Responds ==
  cpc = "waiting" ~> (rcvd < Len(outbox) \/ cpc = "closed" \/ spc = "exited")

=============================================================================
