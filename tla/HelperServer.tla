---------------------------- MODULE HelperServer ----------------------------
(***************************************************************************)
(* uim-helper-server (uim/uim-helper-server.c): the message reflector that *)
(* connects every uim process of a session.  One process, one select()     *)
(* loop, nonblocking sockets.  The clients' side of each socket is         *)
(* uim_helper_send_message (uim/uim-helper.c) and uim_helper_read_proc     *)
(* (uim/uim-helper-client.c).                                              *)
(*                                                                         *)
(* Data abstraction.  A message is cut into Frags pieces; its last piece   *)
(* holds the terminator "\n\n".  A piece is the unit read() and write()    *)
(* move, so a read may end in the middle of a message and a write may be   *)
(* partial.  The bytes a client has sent are its pieces 1..submitted[c],   *)
(* those the server has read are 1..taken[c]; the socket towards the       *)
(* server holds the pieces between.                                        *)
(***************************************************************************)
EXTENDS Integers, Sequences, FiniteSets

CONSTANTS
  Conns,      \* the connections the clients make, each used once
  ServerFd,   \* the descriptor of the listening socket
  ClientFds,  \* the descriptors accept() can still hand out
  Frags,      \* pieces per message
  Quota,      \* messages each client sends on its connection (bound)
  ReadMax,    \* pieces read_buf takes (BUFFER_SIZE)
  SockRoom,   \* pieces a socket buffer holds
  Backlog,    \* the argument of listen()
  NoConn      \* marks a descriptor that is not open

ASSUME FdAssumption ==
  /\ ServerFd \in Nat
  /\ ClientFds \subseteq Nat \ {ServerFd}
  /\ IsFiniteSet(ClientFds)
  /\ NoConn \notin Conns

ASSUME SizeAssumption ==
  /\ Frags \in Nat \ {0}
  /\ Quota \in [Conns -> Nat]
  /\ ReadMax \in Nat \ {0} /\ SockRoom \in Nat \ {0} /\ Backlog \in Nat \ {0}

VARIABLES
  \* the server process
  pc,              \* "select", "accept", "scan", "exited" or "crashed"
  s_fdset_read, s_fdset_write, s_max_fd,
  readfds, writefds,  \* select()'s answer, less what this pass has served
  nr_client_slots,
  fd, rbuf, wbuf,  \* clients[]: one entry per slot, fd = -1 when unused
  sent,            \* pieces the running write_message has written (out - cl->wbuf)
  \* the kernel
  backlog,         \* connections not accepted yet
  conn,            \* the server's descriptor table: descriptor -> connection
  toClient,        \* pieces in the socket buffer towards each client
  \* the clients
  cstate,          \* "idle" (not connected yet), "open" or "closed"
  submitted,       \* pieces each client has sent
  taken,           \* pieces of each client the server has read
  got              \* pieces each client has received (history)

procVars == <<pc, s_fdset_read, s_fdset_write, s_max_fd, readfds, writefds,
              nr_client_slots, fd, rbuf, wbuf, sent>>
kernelVars == <<backlog, conn, toClient>>
clientVars == <<cstate, submitted, taken, got>>
vars == <<procVars, kernelVars, clientVars>>

\* One slot per descriptor is as many as get_unused_client can ever need.
Slots == 1..Cardinality(ClientFds)

Piece(c, k) == <<c, ((k - 1) \div Frags) + 1, ((k - 1) % Frags) + 1>>
Pieces == Conns \X Nat \X (1..Frags)
IsTerminator(piece) == piece[3] = Frags

LiveSlots == {i \in Slots : fd[i] # -1}
LiveFds == {fd[i] : i \in LiveSlots}
Running == pc \in {"select", "accept", "scan"}

\* The server's end of connection c still exists: queued or accepted.
Held(c) == (\E k \in DOMAIN backlog : backlog[k] = c) \/ (\E f \in ClientFds : conn[f] = c)
InFlight(c) == submitted[c] - taken[c]

-----------------------------------------------------------------------------
(* Buffers: uim_helper_buffer_get_message and uim_helper_buffer_shift. *)

\* The mutant forwards whatever was read, finished or not.
CompleteLenMutant(buf) == Len(buf)

\* How much of buf the loop over uim_helper_buffer_get_message consumes: up to
\* and with its last terminator.
CompleteLen(buf) ==
  LET ends == {k \in 1..Len(buf) : IsTerminator(buf[k])}
  IN  IF ends = {} THEN 0 ELSE CHOOSE k \in ends : \A l \in ends : l <= k

\* The mutant forgets to drop what has been consumed.
ShiftMutant(buf, count) == buf

\* uim_helper_buffer_shift, for a count within the buffer.
Shift(buf, count) == SubSeq(buf, count + 1, Len(buf))

\* Who gets a message of the client in slot i; the mutant echoes it.
ReceiversMutant(i) == LiveSlots
Receivers(i) == {j \in LiveSlots : fd[j] # fd[i]}

-----------------------------------------------------------------------------
Init ==
  /\ pc = "select"
  /\ s_fdset_read = {ServerFd} /\ s_fdset_write = {} /\ s_max_fd = ServerFd
  /\ readfds = {} /\ writefds = {}
  /\ nr_client_slots = 0
  /\ fd = [i \in Slots |-> -1]
  /\ rbuf = [i \in Slots |-> <<>>]
  /\ wbuf = [i \in Slots |-> <<>>]
  /\ sent = 0
  /\ backlog = <<>>
  /\ conn = [f \in ClientFds |-> NoConn]
  /\ toClient = [c \in Conns |-> <<>>]
  /\ cstate = [c \in Conns |-> "idle"]
  /\ submitted = [c \in Conns |-> 0]
  /\ taken = [c \in Conns |-> 0]
  /\ got = [c \in Conns |-> <<>>]

-----------------------------------------------------------------------------
(* The clients. *)

\* connect() succeeds as soon as the connection is queued, and blocks while
\* the queue is full.
Connect(c) ==
  /\ Running
  /\ cstate[c] = "idle"
  /\ Len(backlog) < Backlog
  /\ cstate' = [cstate EXCEPT ![c] = "open"]
  /\ backlog' = Append(backlog, c)
  /\ UNCHANGED <<procVars, conn, toClient, submitted, taken, got>>

\* One piece of uim_helper_send_message's loop; it waits while the socket
\* buffer is full and gives up when the server's end is gone.
Send(c) ==
  /\ cstate[c] = "open" /\ Held(c)
  /\ submitted[c] < Quota[c] * Frags
  /\ InFlight(c) < SockRoom
  /\ submitted' = [submitted EXCEPT ![c] = @ + 1]
  /\ UNCHANGED <<procVars, kernelVars, cstate, taken, got>>

\* One piece of uim_helper_read_proc's loop.
Receive(c) ==
  /\ cstate[c] = "open"
  /\ toClient[c] # <<>>
  /\ got' = [got EXCEPT ![c] = Append(@, Head(toClient[c]))]
  /\ toClient' = [toClient EXCEPT ![c] = Tail(@)]
  /\ UNCHANGED <<procVars, backlog, conn, cstate, submitted, taken>>

\* uim_helper_close_client_fd or the death of the client, at any moment: in
\* the middle of a message, with input unread, before it is accepted, and
\* when it reads the end of file a closed server leaves.
Leave(c) ==
  /\ cstate[c] = "open"
  /\ cstate' = [cstate EXCEPT ![c] = "closed"]
  /\ toClient' = [toClient EXCEPT ![c] = <<>>]
  /\ UNCHANGED <<procVars, backlog, conn, submitted, taken, got>>

-----------------------------------------------------------------------------
(* The server: select() and accept(). *)

Readable(f) ==
  IF f = ServerFd
  THEN backlog # <<>>
  ELSE conn[f] # NoConn /\ (InFlight(conn[f]) > 0 \/ cstate[conn[f]] = "closed")

Room(c) == SockRoom - Len(toClient[c])

Writable(f) == conn[f] # NoConn /\ (Room(conn[f]) > 0 \/ cstate[conn[f]] = "closed")

\* select() answers for the descriptors up to s_max_fd, and sleeps while
\* there are none.  (An interrupted select changes nothing: sleep, retry.)
Select ==
  LET ready_read == {f \in s_fdset_read : f <= s_max_fd /\ Readable(f)}
      ready_write == {f \in s_fdset_write : f <= s_max_fd /\ Writable(f)}
  IN  /\ pc = "select"
      /\ ready_read \union ready_write # {}
      /\ readfds' = ready_read \ {ServerFd}
      /\ writefds' = ready_write
      /\ pc' = IF ServerFd \in ready_read THEN "accept" ELSE "scan"
      /\ UNCHANGED <<s_fdset_read, s_fdset_write, s_max_fd, nr_client_slots, fd, rbuf, wbuf,
                     sent, kernelVars, clientVars>>

FreeFds == {f \in ClientFds : conn[f] = NoConn}

\* The mutant always takes a new slot.
UnusedSlotMutant == nr_client_slots + 1

\* get_unused_client: the first unused slot, or a new one.
UnusedSlot ==
  LET unused == {i \in 1..nr_client_slots : fd[i] = -1}
  IN  IF unused = {} THEN nr_client_slots + 1
      ELSE CHOOSE i \in unused : \A j \in unused : i <= j

\* accept_new_connection.  The kernel hands out the lowest free descriptor.
\* A pass that accepts serves no client.
Accept ==
  /\ pc = "accept"
  /\ FreeFds # {}
  /\ LET new_fd == CHOOSE f \in FreeFds : \A g \in FreeFds : f <= g
         slot == UnusedSlot
     IN  /\ conn' = [conn EXCEPT ![new_fd] = Head(backlog)]
         /\ fd' = [fd EXCEPT ![slot] = new_fd]
         /\ nr_client_slots' = IF slot > nr_client_slots THEN slot ELSE nr_client_slots
         /\ s_fdset_read' = s_fdset_read \union {new_fd}
         /\ s_max_fd' = IF new_fd > s_max_fd THEN new_fd ELSE s_max_fd
  /\ backlog' = Tail(backlog)
  /\ readfds' = {} /\ writefds' = {}
  /\ pc' = "scan"
  /\ UNCHANGED <<s_fdset_write, rbuf, wbuf, sent, toClient, clientVars>>

\* accept() fails (EMFILE): the pass is over, the session check is skipped.
AcceptFails ==
  /\ pc = "accept"
  /\ FreeFds = {}
  /\ readfds' = {} /\ writefds' = {}
  /\ pc' = "select"
  /\ UNCHANGED <<s_fdset_read, s_fdset_write, s_max_fd, nr_client_slots, fd, rbuf, wbuf, sent,
                 kernelVars, clientVars>>

-----------------------------------------------------------------------------
(* The server: one pass over the slots. *)

ReadySlots == {i \in LiveSlots : fd[i] \in readfds \union writefds}

\* The pass has come to slot i.
Turn(i) ==
  /\ pc = "scan"
  /\ i \in ReadySlots
  /\ \A j \in ReadySlots : i <= j

\* The mutant shrinks the range on every close.
MaxFdAfterCloseMutant(f) == s_max_fd - 1
MaxFdAfterClose(f) == IF f = s_max_fd THEN s_max_fd - 1 ELSE s_max_fd

\* The mutant leaves the write buffer of a closed slot as it is.
ResetWbufMutant(i) == wbuf
ResetWbuf(i) == [wbuf EXCEPT ![i] = <<>>]

\* The FD_CLRs, the adjustment of s_max_fd and close_client, which
\* read_message and write_message both do.
CloseSlot(i) ==
  /\ s_fdset_read' = s_fdset_read \ {fd[i]}
  /\ s_fdset_write' = s_fdset_write \ {fd[i]}
  /\ s_max_fd' = MaxFdAfterClose(fd[i])
  /\ conn' = [conn EXCEPT ![fd[i]] = NoConn]
  /\ rbuf' = [rbuf EXCEPT ![i] = <<>>]
  /\ wbuf' = ResetWbuf(i)
  /\ fd' = [fd EXCEPT ![i] = -1]

WriteTurn(i) == Turn(i) /\ fd[i] \in writefds

\* write() takes n pieces.  When the last one is out the buffer is emptied
\* and the descriptor leaves the write set; otherwise the loop goes on.
WriteAccepted(i, n) ==
  LET c == conn[fd[i]]
      done == sent + n = Len(wbuf[i])
  IN  /\ WriteTurn(i)
      /\ cstate[c] = "open"
      /\ n <= Room(c) /\ n <= Len(wbuf[i]) - sent
      /\ toClient' = [toClient EXCEPT ![c] = @ \o SubSeq(wbuf[i], sent + 1, sent + n)]
      /\ sent' = IF done THEN 0 ELSE sent + n
      /\ wbuf' = IF done THEN [wbuf EXCEPT ![i] = <<>>] ELSE wbuf
      /\ s_fdset_write' = IF done THEN s_fdset_write \ {fd[i]} ELSE s_fdset_write
      /\ writefds' = IF done THEN writefds \ {fd[i]} ELSE writefds
      /\ UNCHANGED <<pc, s_fdset_read, s_max_fd, readfds, nr_client_slots, fd, rbuf, backlog,
                     conn, clientVars>>

\* write() fails with EAGAIN: what was written is shifted out of the buffer
\* and the descriptor stays in the write set.
WriteAgain(i) ==
  LET c == conn[fd[i]]
  IN  /\ WriteTurn(i)
      /\ cstate[c] = "open"
      /\ Room(c) = 0
      /\ wbuf' = [wbuf EXCEPT ![i] = Shift(@, sent)]
      /\ sent' = 0
      /\ writefds' = writefds \ {fd[i]}
      /\ UNCHANGED <<pc, s_fdset_read, s_fdset_write, s_max_fd, readfds, nr_client_slots, fd,
                     rbuf, kernelVars, clientVars>>

\* write() fails with EPIPE before anything was written: the client is
\* closed, whatever it had sent and the server has not read yet included.
WriteEpipe(i) ==
  /\ WriteTurn(i)
  /\ cstate[conn[fd[i]]] = "closed"
  /\ sent = 0
  /\ CloseSlot(i)
  /\ UNCHANGED <<pc, readfds, writefds, nr_client_slots, sent, backlog, toClient, clientVars>>

\* The process ends: the kernel closes its sockets, queued connections too.
StopProcess(how) ==
  /\ pc' = how
  /\ conn' = [f \in ClientFds |-> NoConn]
  /\ backlog' = <<>>
  /\ s_fdset_read' = {} /\ s_fdset_write' = {} /\ readfds' = {} /\ writefds' = {}
  /\ s_max_fd' = 0 /\ nr_client_slots' = 0 /\ sent' = 0
  /\ fd' = [i \in Slots |-> -1]
  /\ rbuf' = [i \in Slots |-> <<>>]
  /\ wbuf' = [i \in Slots |-> <<>>]
  /\ UNCHANGED <<toClient, clientVars>>

\* write() fails with EPIPE after a partial write of the same write_message:
\* close_client has replaced the buffer by "", and the shift that follows
\* moves (size_t)(0 - count) bytes.  The build's memmove faults.
WriteEpipeAfterPartialWrite(i) ==
  /\ WriteTurn(i)
  /\ cstate[conn[fd[i]]] = "closed"
  /\ sent > 0
  /\ StopProcess("crashed")

ReadTurn(i) == Turn(i) /\ fd[i] \notin writefds

\* distribute_message asks select() to watch every receiver for room; the
\* mutant never does.
ArmReceiversMutant(i, len) == s_fdset_write
ArmReceivers(i, len) ==
  IF len = 0 THEN s_fdset_write ELSE s_fdset_write \union {fd[j] : j \in Receivers(i)}

\* reflect_message_fragment and distribute_message.
ReadFragment(i) ==
  LET c == conn[fd[i]]
      rc == IF InFlight(c) <= ReadMax THEN InFlight(c) ELSE ReadMax
      buf == rbuf[i] \o [k \in 1..rc |-> Piece(c, taken[c] + k)]
      len == CompleteLen(buf)
  IN  /\ ReadTurn(i)
      /\ InFlight(c) > 0
      /\ taken' = [taken EXCEPT ![c] = @ + rc]
      /\ rbuf' = [rbuf EXCEPT ![i] = Shift(buf, len)]
      /\ wbuf' = [j \in Slots |->
                    IF j \in Receivers(i) THEN wbuf[j] \o SubSeq(buf, 1, len) ELSE wbuf[j]]
      /\ s_fdset_write' = ArmReceivers(i, len)
      /\ readfds' = readfds \ {fd[i]}
      /\ UNCHANGED <<pc, s_fdset_read, s_max_fd, writefds, nr_client_slots, fd, sent,
                     kernelVars, cstate, submitted, got>>

\* read() returns 0, or fails: read_message closes the client.
ReadEof(i) ==
  /\ ReadTurn(i)
  /\ InFlight(conn[fd[i]]) = 0
  /\ CloseSlot(i)
  /\ UNCHANGED <<pc, readfds, writefds, nr_client_slots, sent, backlog, toClient, clientVars>>

\* check_session_alive finds a client: on to the next select().
NextPass ==
  /\ pc = "scan" /\ ReadySlots = {}
  /\ LiveSlots # {}
  /\ pc' = "select"
  /\ readfds' = {} /\ writefds' = {}
  /\ UNCHANGED <<s_fdset_read, s_fdset_write, s_max_fd, nr_client_slots, fd, rbuf, wbuf, sent,
                 kernelVars, clientVars>>

\* check_session_alive finds none: main returns.
Exit ==
  /\ pc = "scan" /\ ReadySlots = {}
  /\ LiveSlots = {}
  /\ StopProcess("exited")

-----------------------------------------------------------------------------
ServerStep ==
  \/ Select
  \/ Accept
  \/ AcceptFails
  \/ \E i \in Slots : \/ \E n \in 1..SockRoom : WriteAccepted(i, n)
                      \/ WriteAgain(i)
                      \/ WriteEpipe(i)
                      \/ WriteEpipeAfterPartialWrite(i)
                      \/ ReadFragment(i)
                      \/ ReadEof(i)
  \/ NextPass
  \/ Exit

ClientStep(c) == Connect(c) \/ Send(c) \/ Receive(c) \/ Leave(c)

\* The server process is gone and no client is left.
Finished ==
  /\ ~Running
  /\ \A c \in Conns : cstate[c] # "open"
  /\ UNCHANGED vars

Next == ServerStep \/ (\E c \in Conns : ClientStep(c)) \/ Finished

Spec == Init /\ [][Next]_vars

\* The loop never stops while select() has an answer, and a client that is
\* told its descriptor is readable reads it.  Clients may do nothing else.
Fairness == WF_vars(ServerStep) /\ \A c \in Conns : WF_vars(Receive(c))
FairSpec == Spec /\ Fairness

-----------------------------------------------------------------------------
(* Properties. *)

TypeOK ==
  /\ pc \in {"select", "accept", "scan", "exited", "crashed"}
  /\ s_fdset_read \subseteq ClientFds \union {ServerFd}
  /\ s_fdset_write \subseteq ClientFds
  /\ s_max_fd \in Nat
  /\ readfds \subseteq ClientFds /\ writefds \subseteq ClientFds
  /\ nr_client_slots \in 0..Cardinality(ClientFds)
  /\ fd \in [Slots -> ClientFds \union {-1}]
  /\ rbuf \in [Slots -> Seq(Pieces)] /\ wbuf \in [Slots -> Seq(Pieces)]
  /\ sent \in Nat
  /\ backlog \in Seq(Conns)
  /\ conn \in [ClientFds -> Conns \union {NoConn}]
  /\ toClient \in [Conns -> Seq(Pieces)] /\ got \in [Conns -> Seq(Pieces)]
  /\ cstate \in [Conns -> {"idle", "open", "closed"}]
  /\ submitted \in [Conns -> Nat] /\ taken \in [Conns -> Nat]
  /\ \A c \in Conns : taken[c] <= submitted[c]

\* The slots, the server's descriptor table and the sets handed to select()
\* describe the same connections, and s_max_fd bounds them: no client is
\* ever served under another's descriptor or left out of select().
SlotsDistinct == \A i, j \in LiveSlots : fd[i] = fd[j] => i = j
SlotsOpen == {f \in ClientFds : conn[f] # NoConn} = LiveFds
SelectSets == Running => /\ s_fdset_read = LiveFds \union {ServerFd}
                         /\ s_fdset_write \subseteq LiveFds
MaxFdCovers == Running => \A f \in s_fdset_read : f <= s_max_fd
SlotsUsed == \A i \in LiveSlots : i <= nr_client_slots
FdTables == SlotsDistinct /\ SlotsOpen /\ SelectSets /\ MaxFdCovers /\ SlotsUsed

\* A client waits for a write exactly while it has something to be written:
\* no message is stranded in a buffer, and select() does not spin on an
\* empty one.  A slot without client has empty buffers for its next owner.
PendingWritesArmed ==
  /\ \A i \in LiveSlots : wbuf[i] # <<>> <=> fd[i] \in s_fdset_write
  /\ \A i \in Slots \ LiveSlots : rbuf[i] = <<>> /\ wbuf[i] = <<>>

SlotOf(c) == {i \in LiveSlots : conn[fd[i]] = c}
Members == {c \in Conns : cstate[c] = "open" /\ SlotOf(c) # {}}

\* What slot i still has to write; the running write_message has already
\* passed its first sent pieces to the kernel.
Unwritten(i) == IF WriteTurn(i) THEN Shift(wbuf[i], sent) ELSE wbuf[i]

\* Every piece on its way to client c, in order.
Stream(c) ==
  got[c] \o toClient[c] \o
    (IF c \in Members THEN Unwritten(CHOOSE i \in SlotOf(c) : TRUE) ELSE <<>>)

\* The pieces of one message follow each other, from its first on.
WellFramed(s) ==
  \A k \in 1..Len(s) :
    /\ s[k][3] = ((k - 1) % Frags) + 1
    /\ s[k][3] # 1 => <<s[k][1], s[k][2]>> = <<s[k - 1][1], s[k - 1][2]>>

\* Whatever the partial reads and writes, no client is sent a torn message
\* or two messages mixed, and the stream of a connected one ends whole.
NoTornMessage ==
  \A c \in Conns : /\ WellFramed(Stream(c))
                   /\ c \in Members => Len(Stream(c)) % Frags = 0

\* The loop implements reliable broadcast: see HelperBus.
WholeMessages(s) ==
  [k \in 1..(Len(s) \div Frags) |-> <<s[k * Frags][1], s[k * Frags][2]>>]

Bus == INSTANCE HelperBus WITH
         members <- Members,
         published <- [c \in Conns |-> taken[c] \div Frags],
         inbox <- [c \in Conns |-> WholeMessages(Stream(c))],
         MaxBatch <- ReadMax

ImplementsBus == Bus!BusSpec

\* A message sent whole by a client that stays reaches every other client
\* that was connected and stays, unless the server crashes.
MessageReachesPeers ==
  \A c, d \in Conns : c # d => \A m \in 1..Quota[c] :
    (taken[c] < m * Frags /\ m * Frags <= submitted[c] /\ d \in Members)
      ~> \/ \E k \in 1..Len(got[d]) : got[d][k] = <<c, m, Frags>>
         \/ cstate[c] = "closed" \/ cstate[d] = "closed" \/ pc = "crashed"

\* The server notices every departure, and ends when all have gone.
DeparturesNoticed == \A c \in Conns : cstate[c] = "closed" ~> ~Held(c)
ExitsAfterLogout == (\A c \in Conns : cstate[c] = "closed") ~> ~Running

\* doc/HELPER-PROTOCOL:31: "Any messages are delivered to all participants":
\* a message a client has sent whole is not dropped by a running server.
AllMessagesReflected ==
  Running => \A c \in Conns : (cstate[c] # "idle" /\ ~Held(c)) =>
                                taken[c] \div Frags = submitted[c] \div Frags

\* doc/HELPER-PROTOCOL:20: "the network always behaves as broadcasting": the
\* reflector does not crash under its clients.
ReflectorStaysUp == pc # "crashed"
=============================================================================
