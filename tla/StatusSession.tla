---------------------------- MODULE StatusSession ----------------------------
(***************************************************************************)
(* One run of the status tool (tools/disk_introspection_status.c) against  *)
(* the subscriber server's connection thread (lophi_connection in          *)
(* dis_client.c).  The tool sends "l\n", prints what it receives until a   *)
(* recv returns nothing (SO_RCVTIMEO is 1 s), sends "w\n", does the same,  *)
(* and closes.  The thread reads a command, answers it with one send per   *)
(* line (print_thread_items, print_waiting_clients), and reads again until *)
(* read returns 0 or an error.                                             *)
(*                                                                         *)
(* Time is abstracted away: a recv on an empty socket may time out at any  *)
(* point, which stands for the reply being delayed by more than a second.  *)
(* A line of a reply is [cmd, line], line 0 the header; the lists have at  *)
(* most MaxRows rows, chosen when the reply starts.  The TCP connection:   *)
(* c2s and s2c are the queued bytes of each direction; peer is what the    *)
(* server's socket knows of the tool's end.  After the tool closes, a send *)
(* is answered by a reset (at once if the tool left data unread), and a    *)
(* send once the reset arrived raises SIGPIPE, which no code of the server *)
(* handles: the process dies.                                              *)
(***************************************************************************)
EXTENDS Naturals, Sequences

CONSTANTS MaxRows   \* bound on the rows of a listed reply

VARIABLES
  cli,      \* the tool's position: "send_l", "read_l", "send_w", "read_w", "close", "done"
  out,      \* section ("l" or "w") -> lines the tool printed under its heading
  c2s,      \* commands queued towards the server, in order
  s2c,      \* reply lines queued towards the tool, in order
  peer,     \* "open", "closed" (FIN seen), "rst_pending", "reset"
  srv,      \* the connection thread: "read", "send", "exited"
  todo,     \* lines of the reply being sent
  crashed   \* the server process died

ss_vars == <<cli, out, c2s, s2c, peer, srv, todo, crashed>>

Sections == {"l", "w"}
Line == [cmd : Sections, line : 0..MaxRows]

SSTypeOK ==
  /\ cli \in {"send_l", "read_l", "send_w", "read_w", "close", "done"}
  /\ out \in [Sections -> Seq(Line)]
  /\ c2s \in Seq(Sections) /\ s2c \in Seq(Line) /\ todo \in Seq(Line)
  /\ peer \in {"open", "closed", "rst_pending", "reset"}
  /\ srv \in {"read", "send", "exited"} /\ crashed \in BOOLEAN

SSInit ==
  /\ cli = "send_l" /\ out = [s \in Sections |-> <<>>]
  /\ c2s = <<>> /\ s2c = <<>> /\ todo = <<>>
  /\ peer = "open" /\ srv = "read" /\ crashed = FALSE

(* The lines of a reply to cmd listing k entries: the header, then a line *)
(* per entry.                                                             *)
Reply(cmd, k) == [i \in 1..k + 1 |-> [cmd |-> cmd, line |-> i - 1]]

-----------------------------------------------------------------------------
(* The tool.                                                               *)

(* sprintf + sendto of "l\n" or "w\n" (status.c 67-68, 81-82).            *)
SendCommand(c) ==
  /\ cli = "send_" \o c
  /\ c2s' = Append(c2s, c)
  /\ cli' = "read_" \o c
  /\ UNCHANGED <<out, s2c, peer, srv, todo, crashed>>

(* recv of whatever is queued, printed under the current heading           *)
(* (status.c 70-73, 84-87).                                                *)
RecvLines(c) ==
  /\ cli = "read_" \o c /\ s2c # <<>>
  /\ \E j \in 1..Len(s2c) :
       /\ out' = [out EXCEPT ![c] = @ \o SubSeq(s2c, 1, j)]
       /\ s2c' = SubSeq(s2c, j + 1, Len(s2c))
  /\ UNCHANGED <<cli, c2s, peer, srv, todo, crashed>>

(* recv returns 0 or -1 on an empty socket: the 1 s timeout, or the end of *)
(* the stream when the server is gone; the loop breaks (status.c 74, 88).  *)
RecvTimeout(c) ==
  /\ cli = "read_" \o c /\ s2c = <<>>
  /\ cli' = IF c = "l" THEN "send_w" ELSE "close"
  /\ UNCHANGED <<out, c2s, s2c, peer, srv, todo, crashed>>

(* close(sockfd) (status.c 93): unread data makes the tool's kernel answer *)
(* with a reset, otherwise a FIN.                                          *)
CloseSocket ==
  /\ cli = "close"
  /\ peer' = IF s2c # <<>> THEN "rst_pending" ELSE "closed"
  /\ s2c' = <<>>
  /\ cli' = "done"
  /\ UNCHANGED <<out, c2s, srv, todo, crashed>>

-----------------------------------------------------------------------------
(* The server's connection thread.                                         *)

(* read() returns every queued byte; only buffer[0] is looked at, so a     *)
(* read that got "l\nw\n" answers 'l' alone.  'l' runs print_thread_items, *)
(* 'w' print_waiting_clients (dis_client.c 205-212, 257).                  *)
ReadCommand ==
  /\ srv = "read" /\ ~crashed /\ c2s # <<>>
  /\ \E k \in 0..MaxRows : todo' = Reply(Head(c2s), k)
  /\ c2s' = <<>>
  /\ srv' = "send"
  /\ UNCHANGED <<cli, out, s2c, peer, crashed>>

(* read() returns 0 after the FIN, or -1 after a reset: the loop ends, no  *)
(* waiting_client to clean up, close(lophi_fd) and pthread_exit            *)
(* (dis_client.c 205, 260-278).                                            *)
ReadEnd ==
  /\ srv = "read" /\ ~crashed /\ c2s = <<>>
  /\ peer # "open"
  /\ srv' = "exited"
  /\ UNCHANGED <<cli, out, c2s, s2c, peer, todo, crashed>>

(* One send() of a reply line (print_thread_items 174/192,                 *)
(* print_waiting_clients 150/158).  To a closed peer the data is dropped   *)
(* and a reset comes back; after the reset, SIGPIPE kills the process.    *)
SendLine ==
  /\ srv = "send" /\ ~crashed
  /\ CASE peer = "open"   -> s2c' = Append(s2c, Head(todo)) /\ UNCHANGED <<peer, crashed>>
       [] peer = "closed" -> peer' = "rst_pending" /\ UNCHANGED <<s2c, crashed>>
       [] peer = "rst_pending" -> UNCHANGED <<s2c, peer, crashed>>
       [] peer = "reset"  -> crashed' = TRUE /\ UNCHANGED <<s2c, peer>>
  /\ todo' = Tail(todo)
  /\ srv' = IF Tail(todo) = <<>> THEN "read" ELSE "send"
  /\ UNCHANGED <<cli, out, c2s>>

(* The reset reaches the server's socket.                                  *)
ResetArrives ==
  /\ peer = "rst_pending"
  /\ peer' = "reset"
  /\ UNCHANGED <<cli, out, c2s, s2c, srv, todo, crashed>>

SSNext ==
  \/ \E c \in Sections : SendCommand(c) \/ RecvLines(c) \/ RecvTimeout(c)
  \/ CloseSocket
  \/ ReadCommand \/ ReadEnd \/ SendLine \/ ResetArrives

SSSpec == SSInit /\ [][SSNext]_ss_vars

-----------------------------------------------------------------------------
(* Properties.                                                             *)

(* A status query never kills the server: no send of a reply hits a        *)
(* connection the tool has already reset (dis_client.c 150, 158,           *)
(* dis_threads.c 174, 192).                                                *)
NoServerCrash == ~crashed
=============================================================================
