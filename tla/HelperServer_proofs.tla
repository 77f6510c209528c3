------------------------ MODULE HelperServer_proofs ------------------------
(***************************************************************************)
(* The bookkeeping of uim-helper-server's select() loop is right, no client*)
(* is ever sent a torn message, and the loop implements the reliable       *)
(* broadcast of HelperBus: for every number of clients and descriptors,    *)
(* every message length, buffer size and order of partial reads and writes.*)
(*                                                                         *)
(* IInv joins the properties to three facts about a pass under way, without*)
(* which they are not inductive.  One lemma per kind of step follows:      *)
(* FrameIInv for the steps of the clients, PassIInv for those between two  *)
(* passes, CloseIInv for both ways a slot closes, StopIInv for both ways   *)
(* the process ends, and one for each action that moves pieces.            *)
(*                                                                         *)
(* For the streams, BInv adds who owns a connection, what the server holds *)
(* of a message it has not read to its end, and the framing of the streams *)
(* themselves.  Every step then has one of five effects on the streams     *)
(* (StreamStep), and both theorems follow from these five alone.           *)
(***************************************************************************)
EXTENDS HelperServer, SequenceTheorems, FiniteSetTheorems, TLAPS

\* A nonempty set of naturals has a least element.
LEMMA LeastElement ==
  ASSUME NEW S \in SUBSET Nat, S # {}
  PROVE  \E m \in S : \A x \in S : m <= x
<1>1. PICK m \in S : \A x \in S : ~(<<x, m>> \in OpToRel(<, Nat))
  BY NatLessThanWellFounded, WFMin
<1>2. \A x \in S : ~(x < m)
  BY <1>1 DEF OpToRel
<1> QED
  BY <1>2

\* A nonempty set of positions has a last one.
LEMMA GreatestPosition ==
  ASSUME NEW n \in Nat, NEW S \in SUBSET (1..n), S # {}
  PROVE  \E m \in S : \A x \in S : x <= m
<1> DEFINE T == {n - x : x \in S}
<1>1. PICK m \in T : \A x \in T : m <= x
  <2>1. \A x \in S : n - x \in Nat
    OBVIOUS
  <2>2. T \in SUBSET Nat
    BY <2>1
  <2>3. T # {}
    OBVIOUS
  <2> QED BY <2>2, <2>3, LeastElement
<1>2. PICK k \in S : m = n - k
  BY <1>1
<1>3. \A x \in S : n - k <= n - x
  BY <1>1, <1>2
<1> QED
  BY <1>3

-----------------------------------------------------------------------------
(* The helpers of the model. *)

LEMMA PieceType ==
  ASSUME NEW c \in Conns, NEW k \in Nat \ {0}
  PROVE  Piece(c, k) \in Pieces
<1>1. (k - 1) \div Frags \in Nat /\ (k - 1) % Frags \in 0..(Frags - 1)
  BY SizeAssumption
<1> QED
  BY <1>1, SizeAssumption DEF Piece, Pieces

\* What the loop over uim_helper_buffer_get_message consumes is in the buffer.
LEMMA CompleteLenType ==
  ASSUME NEW buf \in Seq(Pieces)
  PROVE  CompleteLen(buf) \in 0..Len(buf)
<1> DEFINE ends == {k \in 1..Len(buf) : IsTerminator(buf[k])}
<1>1. CASE ends = {}
  BY <1>1, LenProperties DEF CompleteLen
<1>2. CASE ends # {}
  <2>1. \E k \in ends : \A l \in ends : l <= k
    <3>1. Len(buf) \in Nat /\ ends \in SUBSET (1..Len(buf))
      BY LenProperties
    <3> HIDE DEF ends
    <3> QED BY <1>2, <3>1, GreatestPosition
  <2>2. CompleteLen(buf) \in ends
    BY <1>2, <2>1 DEF CompleteLen
  <2> QED BY <2>2
<1> QED BY <1>1, <1>2

\* A shift drops a prefix.
LEMMA ShiftType ==
  ASSUME NEW buf \in Seq(Pieces), NEW count \in 0..Len(buf)
  PROVE  /\ Shift(buf, count) \in Seq(Pieces)
         /\ Len(Shift(buf, count)) = Len(buf) - count
<1>1. Len(buf) \in Nat
  BY LenProperties
<1>2. \A k \in count + 1 .. Len(buf) : buf[k] \in Pieces
  BY <1>1, ElementOfSeq
<1> QED
  BY <1>1, <1>2, SubSeqProperties DEF Shift

-----------------------------------------------------------------------------
(* The inductive invariant. *)

\* accept() is only called for a queued connection, which stays queued.
AcceptPending == pc = "accept" => backlog # <<>>

\* select()'s answer to a pass names no live descriptor that has left the
\* write set since.
SnapshotArmed == writefds \intersect LiveFds \subseteq s_fdset_write

\* Only a write_message in progress has written part of a buffer, and it has
\* something left to write.
PartialWrite == sent # 0 => \E i \in Slots : WriteTurn(i) /\ sent < Len(wbuf[i])

IInv ==
  /\ TypeOK
  /\ FdTables
  /\ PendingWritesArmed
  /\ AcceptPending
  /\ SnapshotArmed
  /\ PartialWrite

LEMMA CardinalityType == Cardinality(ClientFds) \in Nat
  BY FdAssumption, FS_CardinalityType

\* What the invariant says of a slot in use.
LEMMA LiveSlotFacts ==
  ASSUME IInv, NEW i \in LiveSlots
  PROVE  /\ i \in Slots /\ fd[i] \in ClientFds
         /\ fd[i] \in Nat /\ fd[i] # ServerFd /\ fd[i] # -1
         /\ fd[i] \in LiveFds /\ conn[fd[i]] \in Conns
<1>1. i \in Slots /\ fd[i] # -1 /\ fd[i] \in ClientFds
  BY DEF IInv, TypeOK, LiveSlots
<1>2. fd[i] \in LiveFds
  BY DEF LiveFds
<1>3. conn[fd[i]] # NoConn
  BY <1>1, <1>2 DEF IInv, FdTables, SlotsOpen
<1>4. conn[fd[i]] \in Conns
  BY <1>1, <1>3 DEF IInv, TypeOK
<1> QED
  BY <1>1, <1>2, <1>4, FdAssumption

\* At most one slot has its turn, and it is in use.
LEMMA TurnFacts ==
  ASSUME NEW i \in Slots, NEW j \in Slots, Turn(i), Turn(j)
  PROVE  i = j /\ i \in LiveSlots /\ pc = "scan"
<1>1. i \in ReadySlots /\ j \in ReadySlots /\ i <= j /\ j <= i
  BY DEF Turn
<1>2. i \in Int /\ j \in Int
  BY CardinalityType DEF Slots
<1> QED
  BY <1>1, <1>2 DEF Turn, ReadySlots

\* Outside of a pass, after it, and on a slot that only reads, no buffer is
\* half written.
LEMMA NothingHalfWritten ==
  ASSUME IInv,
         pc # "scan" \/ ReadySlots = {} \/ \E i \in Slots : ReadTurn(i)
  PROVE  sent = 0
<1> SUFFICES ASSUME sent # 0 PROVE FALSE
  OBVIOUS
<1>1. PICK j \in Slots : WriteTurn(j)
  BY DEF IInv, PartialWrite
<1>2. CASE pc # "scan" \/ ReadySlots = {}
  BY <1>1, <1>2 DEF WriteTurn, Turn
<1>3. ASSUME NEW i \in Slots, ReadTurn(i) PROVE FALSE
  <2>1. i = j BY <1>1, <1>3, TurnFacts DEF ReadTurn, WriteTurn
  <2> QED BY <1>1, <1>3, <2>1 DEF ReadTurn, WriteTurn
<1> QED BY <1>2, <1>3

-----------------------------------------------------------------------------
(* The steps. *)

\* A step that leaves the server process and its descriptors alone.
LEMMA FrameIInv ==
  ASSUME IInv, TypeOK', AcceptPending', UNCHANGED <<procVars, conn>>
  PROVE  IInv'
<1>1. LiveSlots' = LiveSlots /\ LiveFds' = LiveFds
  BY DEF LiveSlots, LiveFds, procVars
<1>2. FdTables'
  BY <1>1 DEF IInv, FdTables, SlotsDistinct, SlotsOpen, SelectSets, MaxFdCovers, SlotsUsed,
              Running, procVars
<1>3. PendingWritesArmed' /\ SnapshotArmed'
  BY <1>1 DEF IInv, PendingWritesArmed, SnapshotArmed, procVars
<1>4. PartialWrite'
  BY <1>1 DEF IInv, PartialWrite, WriteTurn, Turn, ReadySlots, procVars
<1> QED
  BY <1>2, <1>3, <1>4 DEF IInv

\* The clients.
LEMMA ClientIInv ==
  ASSUME IInv, NEW c \in Conns, ClientStep(c)
  PROVE  IInv'
<1>0. CASE Connect(c)
  <2>1. backlog' = Append(backlog, c) /\ backlog \in Seq(Conns)
    BY <1>0 DEF Connect, IInv, TypeOK
  <2>2. backlog' \in Seq(Conns) /\ backlog' # <<>>
    BY <2>1, AppendProperties
  <2>3. cstate' \in [Conns -> {"idle", "open", "closed"}]
    BY <1>0 DEF Connect, IInv, TypeOK
  <2>4. TypeOK' /\ AcceptPending'
    BY <1>0, <2>2, <2>3 DEF Connect, IInv, TypeOK, AcceptPending, procVars
  <2> QED BY <1>0, <2>4, FrameIInv DEF Connect
<1>1. CASE Send(c)
  <2>1. submitted' \in [Conns -> Nat] /\ \A d \in Conns : taken'[d] <= submitted'[d]
    BY <1>1 DEF Send, IInv, TypeOK
  <2>2. TypeOK' /\ AcceptPending'
    BY <1>1, <2>1 DEF Send, IInv, TypeOK, AcceptPending, procVars, kernelVars
  <2> QED BY <1>1, <2>2, FrameIInv DEF Send, kernelVars
<1>2. CASE Receive(c)
  <2>1. toClient[c] \in Seq(Pieces) /\ toClient[c] # <<>> /\ got[c] \in Seq(Pieces)
    BY <1>2 DEF Receive, IInv, TypeOK
  <2>2. Head(toClient[c]) \in Pieces /\ Tail(toClient[c]) \in Seq(Pieces)
    BY <2>1, HeadTailProperties
  <2>3. Append(got[c], Head(toClient[c])) \in Seq(Pieces)
    BY <2>1, <2>2, AppendProperties
  <2>4. toClient' \in [Conns -> Seq(Pieces)] /\ got' \in [Conns -> Seq(Pieces)]
    BY <1>2, <2>2, <2>3 DEF Receive, IInv, TypeOK
  <2>5. TypeOK' /\ AcceptPending'
    BY <1>2, <2>4 DEF Receive, IInv, TypeOK, AcceptPending, procVars
  <2> QED BY <1>2, <2>5, FrameIInv DEF Receive
<1>3. CASE Leave(c)
  <2>1. /\ cstate' \in [Conns -> {"idle", "open", "closed"}]
        /\ toClient' \in [Conns -> Seq(Pieces)]
    <3>1. <<>> \in Seq(Pieces)
      BY EmptySeq
    <3> QED BY <1>3, <3>1 DEF Leave, IInv, TypeOK
  <2>2. TypeOK' /\ AcceptPending'
    BY <1>3, <2>1 DEF Leave, IInv, TypeOK, AcceptPending, procVars
  <2> QED BY <1>3, <2>2, FrameIInv DEF Leave
<1> QED
  BY <1>0, <1>1, <1>2, <1>3 DEF ClientStep

\* The process ends.
LEMMA StopIInv ==
  ASSUME IInv, NEW how \in {"exited", "crashed"}, StopProcess(how)
  PROVE  IInv'
<1>1. LiveSlots' = {} /\ LiveFds' = {}
  BY DEF StopProcess, LiveSlots, LiveFds
<1>2. TypeOK'
  <2>1. fd' \in [Slots -> ClientFds \union {-1}] /\ conn' \in [ClientFds -> Conns \union {NoConn}]
    BY DEF StopProcess
  <2>2. rbuf' \in [Slots -> Seq(Pieces)] /\ wbuf' \in [Slots -> Seq(Pieces)]
    <3>1. <<>> \in Seq(Pieces) BY EmptySeq
    <3> QED BY <3>1 DEF StopProcess
  <2>3. backlog' \in Seq(Conns) /\ nr_client_slots' \in 0..Cardinality(ClientFds)
    BY CardinalityType, EmptySeq DEF StopProcess
  <2>4. UNCHANGED <<toClient, got, cstate, submitted, taken>>
    BY DEF StopProcess, clientVars
  <2>5. s_fdset_read' = {} /\ s_fdset_write' = {} /\ readfds' = {} /\ writefds' = {}
        /\ s_max_fd' = 0 /\ sent' = 0 /\ pc' \in {"exited", "crashed"}
    BY DEF StopProcess
  <2> QED BY <2>1, <2>2, <2>3, <2>4, <2>5 DEF IInv, TypeOK
<1>3. FdTables'
  BY <1>1 DEF StopProcess, FdTables, SlotsDistinct, SlotsOpen, SelectSets, MaxFdCovers,
              SlotsUsed, Running
<1>4. PendingWritesArmed' /\ AcceptPending' /\ SnapshotArmed' /\ PartialWrite'
  BY <1>1 DEF StopProcess, PendingWritesArmed, AcceptPending, SnapshotArmed, PartialWrite
<1> QED
  BY <1>2, <1>3, <1>4 DEF IInv

\* A slot whose turn it is closes: its descriptor leaves the tables and its
\* buffers are empty for the next owner.
LEMMA CloseIInv ==
  ASSUME IInv, NEW i \in Slots, Turn(i), sent = 0, CloseSlot(i),
         UNCHANGED <<pc, readfds, writefds, nr_client_slots, sent, backlog, toClient, clientVars>>
  PROVE  IInv'
<1>1. /\ i \in LiveSlots /\ fd[i] \in ClientFds /\ fd[i] # ServerFd
      /\ fd[i] \in LiveFds /\ fd[i] \in Nat /\ fd[i] # -1
  BY TurnFacts, LiveSlotFacts
<1>2. fd' = [fd EXCEPT ![i] = -1] /\ fd \in [Slots -> ClientFds \union {-1}]
  BY DEF CloseSlot, IInv, TypeOK
<1>3. LiveSlots' = LiveSlots \ {i}
  BY <1>2 DEF LiveSlots
<1>4. \A j \in LiveSlots' : fd'[j] = fd[j] /\ j \in LiveSlots /\ fd[j] # fd[i]
  BY <1>1, <1>2, <1>3 DEF LiveSlots, IInv, FdTables, SlotsDistinct
<1>5. LiveFds' = LiveFds \ {fd[i]}
  <2>1. \A f \in LiveFds' : f \in LiveFds /\ f # fd[i]
    BY <1>4 DEF LiveFds
  <2>2. ASSUME NEW f \in LiveFds, f # fd[i] PROVE f \in LiveFds'
    <3>1. PICK j \in LiveSlots : f = fd[j]
      BY DEF LiveFds
    <3>2. j \in LiveSlots'
      BY <1>3, <2>2, <3>1
    <3> QED BY <1>4, <3>1, <3>2 DEF LiveFds
  <2> QED BY <2>1, <2>2
<1>6. /\ s_fdset_read' = s_fdset_read \ {fd[i]} /\ s_fdset_write' = s_fdset_write \ {fd[i]}
      /\ conn' = [conn EXCEPT ![fd[i]] = NoConn] /\ wbuf' = [wbuf EXCEPT ![i] = <<>>]
      /\ rbuf' = [rbuf EXCEPT ![i] = <<>>]
      /\ s_max_fd' = IF fd[i] = s_max_fd THEN s_max_fd - 1 ELSE s_max_fd
  BY DEF CloseSlot, ResetWbuf, MaxFdAfterClose
<1>7. /\ pc = "scan" /\ s_max_fd \in Nat /\ ServerFd \in Nat /\ ServerFd \in s_fdset_read
      /\ \A f \in s_fdset_read : f <= s_max_fd /\ f \in Nat
  <2>1. pc = "scan"
    BY DEF Turn
  <2> QED BY <2>1, FdAssumption
          DEF IInv, TypeOK, FdTables, SelectSets, MaxFdCovers, Running
<1>8. s_max_fd' \in Nat /\ \A f \in s_fdset_read' : f <= s_max_fd'
  BY <1>1, <1>6, <1>7
<1>9. TypeOK'
  <2>1. conn' \in [ClientFds -> Conns \union {NoConn}]
    BY <1>6 DEF IInv, TypeOK
  <2>2. rbuf' \in [Slots -> Seq(Pieces)] /\ wbuf' \in [Slots -> Seq(Pieces)]
    <3>1. <<>> \in Seq(Pieces) BY EmptySeq
    <3> QED BY <1>6, <3>1 DEF IInv, TypeOK
  <2>3. fd' \in [Slots -> ClientFds \union {-1}]
    BY <1>2
  <2> QED BY <1>6, <1>8, <2>1, <2>2, <2>3 DEF IInv, TypeOK, clientVars
<1>10. FdTables'
  <2>1. SlotsDistinct'
    BY <1>4 DEF IInv, FdTables, SlotsDistinct
  <2>2. SlotsOpen'
    BY <1>1, <1>5, <1>6 DEF IInv, TypeOK, FdTables, SlotsOpen
  <2>3. SelectSets'
    BY <1>1, <1>5, <1>6, <1>7 DEF IInv, FdTables, SelectSets, Running
  <2>4. MaxFdCovers'
    BY <1>8 DEF MaxFdCovers
  <2>5. SlotsUsed'
    BY <1>4 DEF IInv, FdTables, SlotsUsed
  <2> QED BY <2>1, <2>2, <2>3, <2>4, <2>5 DEF FdTables
<1>11. PendingWritesArmed'
  <2>1. \A j \in LiveSlots' : wbuf'[j] = wbuf[j] /\ (fd[j] \in s_fdset_write' <=> fd[j] \in s_fdset_write)
    BY <1>3, <1>4, <1>6 DEF IInv, TypeOK, LiveSlots
  <2>2. \A j \in Slots \ LiveSlots' : rbuf'[j] = <<>> /\ wbuf'[j] = <<>>
    BY <1>3, <1>6 DEF IInv, TypeOK, PendingWritesArmed
  <2> QED BY <1>4, <2>1, <2>2 DEF IInv, PendingWritesArmed
<1>12. AcceptPending' /\ SnapshotArmed' /\ PartialWrite'
  BY <1>5, <1>6, <1>7 DEF IInv, AcceptPending, SnapshotArmed, PartialWrite
<1> QED
  BY <1>9, <1>10, <1>11, <1>12 DEF IInv

\* A step between passes: it changes where the loop is and select()'s answer.
LEMMA PassIInv ==
  ASSUME IInv, sent = 0,
         pc' \in {"select", "accept", "scan"}, Running,
         readfds' \subseteq ClientFds, writefds' \subseteq s_fdset_write,
         pc' = "accept" => backlog # <<>>,
         UNCHANGED <<s_fdset_read, s_fdset_write, s_max_fd, nr_client_slots, fd, rbuf, wbuf,
                     sent, kernelVars, clientVars>>
  PROVE  IInv'
<1>1. LiveSlots' = LiveSlots /\ LiveFds' = LiveFds
  BY DEF LiveSlots, LiveFds
<1>2. FdTables'
  BY <1>1 DEF IInv, FdTables, SlotsDistinct, SlotsOpen, SelectSets, MaxFdCovers, SlotsUsed,
              Running, kernelVars
<1>3. PendingWritesArmed' /\ SnapshotArmed' /\ AcceptPending' /\ PartialWrite'
  BY <1>1 DEF IInv, PendingWritesArmed, SnapshotArmed, AcceptPending, PartialWrite, kernelVars
<1>4. TypeOK'
  BY DEF IInv, TypeOK, kernelVars, clientVars
<1> QED
  BY <1>2, <1>3, <1>4 DEF IInv

\* select(), a failing accept(), and the end of a pass that finds a client.
LEMMA LoopIInv ==
  ASSUME IInv, Select \/ AcceptFails \/ NextPass
  PROVE  IInv'
<1>1. sent = 0
  BY NothingHalfWritten DEF Select, AcceptFails, NextPass
<1>2. CASE Select
  <2>1. readfds' \subseteq ClientFds
    BY <1>2 DEF Select, IInv, TypeOK
  <2>2. writefds' \subseteq s_fdset_write
    BY <1>2 DEF Select
  <2>3. pc' = "accept" => backlog # <<>>
    BY <1>2 DEF Select, Readable
  <2> QED BY <1>1, <1>2, <2>1, <2>2, <2>3, PassIInv DEF Select, Running
<1>3. CASE AcceptFails
  BY <1>1, <1>3, PassIInv DEF AcceptFails, Running
<1>4. CASE NextPass
  BY <1>1, <1>4, PassIInv DEF NextPass, Running
<1> QED
  BY <1>2, <1>3, <1>4

\* get_unused_client finds a slot: while a descriptor is free, the slots in
\* use are fewer than the descriptors.
LEMMA UnusedSlotFacts ==
  ASSUME IInv, FreeFds # {}
  PROVE  /\ UnusedSlot \in Slots \ LiveSlots
         /\ UnusedSlot <= nr_client_slots + 1
<1> DEFINE unused == {i \in 1..nr_client_slots : fd[i] = -1}
<1>1. /\ nr_client_slots \in Nat /\ nr_client_slots <= Cardinality(ClientFds)
      /\ Cardinality(ClientFds) \in Nat
  BY CardinalityType DEF IInv, TypeOK
<1>2. CASE unused = {}
  <2>1. UnusedSlot = nr_client_slots + 1
    BY <1>2 DEF UnusedSlot
  <2>2. PICK free \in ClientFds : conn[free] = NoConn
    BY DEF FreeFds
  <2>3. \A i \in 1..nr_client_slots : i \in LiveSlots
    BY <1>1, <1>2 DEF LiveSlots, Slots
  <2> DEFINE inUse == [i \in 1..nr_client_slots |-> fd[i]]
             Rest == ClientFds \ {free}
  <2>4. inUse \in [1..nr_client_slots -> Rest]
    <3>1. \A i \in LiveSlots : fd[i] \in Rest
      BY <2>2, LiveSlotFacts, FdAssumption
    <3> QED BY <2>3, <3>1
  <2>5. inUse \in Injection(1..nr_client_slots, Rest)
    <3>1. \A i, j \in 1..nr_client_slots : fd[i] = fd[j] => i = j
      BY <2>3 DEF IInv, FdTables, SlotsDistinct
    <3> QED BY <2>4, <3>1 DEF Injection, IsInjective
  <2>6. IsFiniteSet(Rest) /\ Cardinality(Rest) = Cardinality(ClientFds) - 1
    BY <2>2, FdAssumption, FS_RemoveElement
  <2>7. Cardinality(1..nr_client_slots) <= Cardinality(Rest)
    <3> HIDE DEF inUse, Rest
    <3> QED BY <2>5, <2>6, FS_Injection
  <2>8. Cardinality(1..nr_client_slots) = nr_client_slots
    BY <1>1, FS_Interval
  <2>9. nr_client_slots + 1 \in Slots
    BY <1>1, <2>6, <2>7, <2>8 DEF Slots
  <2>10. nr_client_slots + 1 \notin LiveSlots
    BY <1>1 DEF IInv, FdTables, SlotsUsed
  <2> QED BY <1>1, <2>1, <2>9, <2>10
<1>3. CASE unused # {}
  <2>1. \E i \in unused : \A j \in unused : i <= j
    <3>1. unused \in SUBSET Nat
      BY <1>1
    <3> HIDE DEF unused
    <3> QED BY <1>3, <3>1, LeastElement
  <2>2. UnusedSlot \in unused
    BY <1>3, <2>1 DEF UnusedSlot
  <2> QED BY <1>1, <2>2 DEF Slots, LiveSlots
<1> QED
  BY <1>2, <1>3

\* accept() gives the oldest queued connection a free descriptor and an
\* unused slot, whose buffers are empty.
LEMMA AcceptIInv ==
  ASSUME IInv, Accept
  PROVE  IInv'
<1> DEFINE new_fd == CHOOSE f \in FreeFds : \A g \in FreeFds : f <= g
           slot == UnusedSlot
<1>1. /\ conn' = [conn EXCEPT ![new_fd] = Head(backlog)]
      /\ fd' = [fd EXCEPT ![slot] = new_fd]
      /\ nr_client_slots' = IF slot > nr_client_slots THEN slot ELSE nr_client_slots
      /\ s_fdset_read' = s_fdset_read \union {new_fd}
      /\ s_max_fd' = IF new_fd > s_max_fd THEN new_fd ELSE s_max_fd
      /\ backlog' = Tail(backlog)
      /\ readfds' = {} /\ writefds' = {} /\ pc' = "scan" /\ pc = "accept"
      /\ UNCHANGED <<s_fdset_write, rbuf, wbuf, sent, toClient, clientVars>>
  BY DEF Accept
<1>2. new_fd \in FreeFds
  <2>1. FreeFds \in SUBSET Nat /\ FreeFds # {}
    BY FdAssumption DEF FreeFds, Accept
  <2> QED BY <2>1, LeastElement
<1>3. slot \in Slots /\ slot \notin LiveSlots /\ slot <= nr_client_slots + 1
  BY UnusedSlotFacts DEF Accept
<1> HIDE DEF new_fd, slot
<1>4. new_fd \in ClientFds /\ new_fd \notin LiveFds /\ new_fd # -1 /\ new_fd \in Nat
  BY <1>2, FdAssumption DEF FreeFds, IInv, FdTables, SlotsOpen
<1>5. Head(backlog) \in Conns /\ Tail(backlog) \in Seq(Conns)
  BY <1>1, HeadTailProperties DEF IInv, TypeOK, AcceptPending
<1>6. fd \in [Slots -> ClientFds \union {-1}] /\ conn \in [ClientFds -> Conns \union {NoConn}]
  BY DEF IInv, TypeOK
<1>7. LiveSlots' = LiveSlots \union {slot} /\ fd'[slot] = new_fd
  BY <1>1, <1>3, <1>4, <1>6 DEF LiveSlots
<1>8. \A j \in LiveSlots : j # slot /\ fd'[j] = fd[j] /\ fd[j] # new_fd
  BY <1>1, <1>3, <1>4, <1>6 DEF LiveSlots, LiveFds
<1>9. LiveFds' = LiveFds \union {new_fd}
  BY <1>7, <1>8 DEF LiveFds
<1>10. /\ nr_client_slots \in Nat /\ slot \in Nat /\ s_max_fd \in Nat
       /\ nr_client_slots' \in 0..Cardinality(ClientFds)
       /\ slot <= nr_client_slots' /\ nr_client_slots <= nr_client_slots'
       /\ s_max_fd' \in Nat /\ s_max_fd <= s_max_fd' /\ new_fd <= s_max_fd'
  BY <1>1, <1>3, <1>4, CardinalityType DEF IInv, TypeOK, Slots
<1>11. TypeOK'
  <2>1. /\ conn' \in [ClientFds -> Conns \union {NoConn}]
        /\ fd' \in [Slots -> ClientFds \union {-1}]
    BY <1>1, <1>3, <1>4, <1>5, <1>6
  <2>2. s_fdset_read' \subseteq ClientFds \union {ServerFd}
    BY <1>1, <1>4 DEF IInv, TypeOK
  <2> QED BY <1>1, <1>5, <1>10, <2>1, <2>2 DEF IInv, TypeOK, clientVars
<1>12. FdTables'
  <2>1. SlotsDistinct'
    BY <1>7, <1>8 DEF IInv, FdTables, SlotsDistinct
  <2>2. SlotsOpen'
    <3>1. Head(backlog) # NoConn
      BY <1>5, FdAssumption
    <3> QED BY <1>1, <1>4, <1>6, <1>9, <3>1 DEF IInv, FdTables, SlotsOpen
  <2>3. SelectSets'
    BY <1>1, <1>9 DEF IInv, FdTables, SelectSets, Running
  <2>4. MaxFdCovers'
    <3>1. \A f \in s_fdset_read : f <= s_max_fd /\ f \in Nat
      BY <1>1, FdAssumption DEF IInv, TypeOK, FdTables, MaxFdCovers, Running
    <3> QED BY <1>1, <1>10, <3>1 DEF MaxFdCovers
  <2>5. SlotsUsed'
    <3>1. \A i \in LiveSlots : i <= nr_client_slots /\ i \in Int
      BY CardinalityType DEF IInv, FdTables, SlotsUsed, LiveSlots, Slots
    <3> QED BY <1>7, <1>10, <3>1 DEF SlotsUsed
  <2> QED BY <2>1, <2>2, <2>3, <2>4, <2>5 DEF FdTables
<1>13. PendingWritesArmed'
  <2>1. wbuf[slot] = <<>>
    BY <1>3 DEF IInv, PendingWritesArmed
  <2>2. new_fd \notin s_fdset_write
    BY <1>1, <1>4 DEF IInv, FdTables, SelectSets, Running
  <2>3. \A i \in LiveSlots' : wbuf'[i] # <<>> <=> fd'[i] \in s_fdset_write'
    BY <1>1, <1>7, <1>8, <2>1, <2>2 DEF IInv, PendingWritesArmed
  <2> QED BY <1>1, <1>7, <2>3 DEF IInv, PendingWritesArmed
<1>14. AcceptPending' /\ SnapshotArmed' /\ PartialWrite'
  <2>1. sent' = 0
    BY <1>1, NothingHalfWritten
  <2> QED BY <1>1, <2>1 DEF AcceptPending, SnapshotArmed, PartialWrite
<1> QED
  BY <1>11, <1>12, <1>13, <1>14 DEF IInv

\* write_message is called with something left to write.
LEMMA WritePending ==
  ASSUME IInv, NEW i \in Slots, WriteTurn(i)
  PROVE  /\ i \in LiveSlots /\ pc = "scan" /\ fd[i] \in s_fdset_write
         /\ wbuf[i] \in Seq(Pieces) /\ Len(wbuf[i]) \in Nat /\ sent \in Nat
         /\ sent < Len(wbuf[i])
<1>1. i \in LiveSlots /\ pc = "scan"
  BY TurnFacts DEF WriteTurn
<1>2. fd[i] \in s_fdset_write
  BY <1>1, LiveSlotFacts DEF WriteTurn, IInv, SnapshotArmed
<1>3. /\ wbuf[i] \in Seq(Pieces) /\ Len(wbuf[i]) \in Nat /\ wbuf[i] # <<>> /\ sent \in Nat
  BY <1>1, <1>2, LenProperties DEF IInv, TypeOK, PendingWritesArmed
<1>4. sent < Len(wbuf[i])
  <2>1. CASE sent = 0
    BY <1>3, <2>1, EmptySeq
  <2>2. CASE sent # 0
    <3>1. PICK j \in Slots : WriteTurn(j) /\ sent < Len(wbuf[j])
      BY <2>2 DEF IInv, PartialWrite
    <3>2. i = j
      BY <3>1, TurnFacts DEF WriteTurn
    <3> QED BY <3>1, <3>2
  <2> QED BY <2>1, <2>2
<1> QED
  BY <1>1, <1>2, <1>3, <1>4

\* What a step preserves that moves pieces without closing or accepting.
LEMMA MoveFdTables ==
  ASSUME IInv, UNCHANGED <<pc, s_fdset_read, s_max_fd, nr_client_slots, fd, conn>>,
         s_fdset_write' \subseteq s_fdset_write \union LiveFds
  PROVE  LiveSlots' = LiveSlots /\ LiveFds' = LiveFds /\ FdTables'
<1>1. LiveSlots' = LiveSlots /\ LiveFds' = LiveFds
  BY DEF LiveSlots, LiveFds
<1>2. SlotsDistinct' /\ SlotsOpen' /\ SlotsUsed' /\ MaxFdCovers'
  BY <1>1 DEF IInv, FdTables, SlotsDistinct, SlotsOpen, SlotsUsed, MaxFdCovers, Running
<1>3. SelectSets'
  BY <1>1 DEF IInv, FdTables, SelectSets, Running
<1> QED
  BY <1>1, <1>2, <1>3 DEF FdTables

\* write() has taken n pieces.
LEMMA WriteAcceptedIInv ==
  ASSUME IInv, NEW i \in Slots, NEW n \in 1..SockRoom, WriteAccepted(i, n)
  PROVE  IInv'
<1> DEFINE c == conn[fd[i]]
           done == sent + n = Len(wbuf[i])
<1>1. /\ WriteTurn(i) /\ n <= Len(wbuf[i]) - sent /\ n \in Nat \ {0}
      /\ toClient' = [toClient EXCEPT ![c] = @ \o SubSeq(wbuf[i], sent + 1, sent + n)]
      /\ sent' = (IF done THEN 0 ELSE sent + n)
      /\ wbuf' = (IF done THEN [wbuf EXCEPT ![i] = <<>>] ELSE wbuf)
      /\ s_fdset_write' = (IF done THEN s_fdset_write \ {fd[i]} ELSE s_fdset_write)
      /\ writefds' = (IF done THEN writefds \ {fd[i]} ELSE writefds)
      /\ UNCHANGED <<pc, s_fdset_read, s_max_fd, readfds, nr_client_slots, fd, rbuf, backlog,
                     conn, clientVars>>
  BY SizeAssumption DEF WriteAccepted
<1>2. /\ i \in LiveSlots /\ pc = "scan" /\ wbuf[i] \in Seq(Pieces) /\ Len(wbuf[i]) \in Nat
      /\ sent \in Nat /\ c \in Conns
  BY <1>1, WritePending, LiveSlotFacts
<1>3. LiveSlots' = LiveSlots /\ LiveFds' = LiveFds /\ FdTables'
  BY <1>1, MoveFdTables
<1>4. TypeOK'
  <2>1. SubSeq(wbuf[i], sent + 1, sent + n) \in Seq(Pieces)
    <3>1. \A k \in sent + 1 .. sent + n : wbuf[i][k] \in Pieces
      BY <1>1, <1>2, ElementOfSeq
    <3> QED BY <1>1, <1>2, <3>1, SubSeqProperties
  <2>2. toClient[c] \o SubSeq(wbuf[i], sent + 1, sent + n) \in Seq(Pieces)
    BY <1>2, <2>1, ConcatProperties DEF IInv, TypeOK
  <2>3. toClient' \in [Conns -> Seq(Pieces)]
    BY <1>1, <1>2, <2>2 DEF IInv, TypeOK
  <2>4. wbuf' \in [Slots -> Seq(Pieces)] /\ sent' \in Nat
    <3>1. <<>> \in Seq(Pieces) BY EmptySeq
    <3> QED BY <1>1, <1>2, <3>1 DEF IInv, TypeOK
  <2>5. s_fdset_write' \subseteq ClientFds /\ writefds' \subseteq ClientFds
    BY <1>1 DEF IInv, TypeOK
  <2> QED BY <1>1, <2>3, <2>4, <2>5 DEF IInv, TypeOK, clientVars
<1>5. PendingWritesArmed'
  <2>1. CASE done
    <3>1. \A j \in LiveSlots : j # i => fd[j] # fd[i]
      BY <1>2 DEF IInv, FdTables, SlotsDistinct
    <3>2. wbuf' = [wbuf EXCEPT ![i] = <<>>] /\ s_fdset_write' = s_fdset_write \ {fd[i]} /\ rbuf' = rbuf /\ fd' = fd
      BY <1>1, <2>1
    <3> QED BY <1>2, <1>3, <3>1, <3>2 DEF IInv, TypeOK, PendingWritesArmed, LiveSlots
  <2>2. CASE ~done
    BY <1>1, <1>3, <2>2 DEF IInv, PendingWritesArmed
  <2> QED BY <2>1, <2>2
<1>6. PartialWrite'
  <2>1. CASE done
    BY <1>1, <2>1 DEF PartialWrite
  <2>2. CASE ~done
    <3>1. WriteTurn(i)'
      BY <1>1, <1>3, <2>2 DEF WriteTurn, Turn, ReadySlots
    <3>2. sent' < Len(wbuf'[i])
      BY <1>1, <1>2, <2>2
    <3> QED BY <3>1, <3>2 DEF PartialWrite
  <2> QED BY <2>1, <2>2
<1>7. AcceptPending' /\ SnapshotArmed'
  BY <1>1, <1>2, <1>3 DEF IInv, AcceptPending, SnapshotArmed
<1> QED
  BY <1>3, <1>4, <1>5, <1>6, <1>7 DEF IInv

\* write() has no room: the rest stays in the buffer.
LEMMA WriteAgainIInv ==
  ASSUME IInv, NEW i \in Slots, WriteAgain(i)
  PROVE  IInv'
<1>1. /\ WriteTurn(i) /\ wbuf' = [wbuf EXCEPT ![i] = Shift(wbuf[i], sent)]
      /\ sent' = 0 /\ writefds' = writefds \ {fd[i]}
      /\ UNCHANGED <<pc, s_fdset_read, s_fdset_write, s_max_fd, readfds, nr_client_slots, fd,
                     rbuf, kernelVars, clientVars>>
  BY DEF WriteAgain
<1>2. /\ i \in LiveSlots /\ pc = "scan" /\ fd[i] \in s_fdset_write
      /\ wbuf[i] \in Seq(Pieces) /\ sent \in 0..Len(wbuf[i]) /\ sent < Len(wbuf[i])
  BY <1>1, WritePending
<1>3. LiveSlots' = LiveSlots /\ LiveFds' = LiveFds /\ FdTables'
  BY <1>1, MoveFdTables DEF kernelVars
<1>4. Shift(wbuf[i], sent) \in Seq(Pieces) /\ Shift(wbuf[i], sent) # <<>>
  <2>1. Len(wbuf[i]) - sent # 0
    BY <1>2, LenProperties
  <2> QED BY <1>2, <2>1, ShiftType, EmptySeq
<1>5. TypeOK'
  <2>1. wbuf' \in [Slots -> Seq(Pieces)]
    BY <1>1, <1>4 DEF IInv, TypeOK
  <2> QED BY <1>1, <2>1 DEF IInv, TypeOK, kernelVars, clientVars
<1>6. PendingWritesArmed'
  <2>1. wbuf'[i] # <<>> /\ \A j \in Slots : j # i => wbuf'[j] = wbuf[j]
    BY <1>1, <1>4 DEF IInv, TypeOK
  <2> QED BY <1>1, <1>2, <1>3, <2>1 DEF IInv, PendingWritesArmed, LiveSlots
<1>7. AcceptPending' /\ SnapshotArmed' /\ PartialWrite'
  BY <1>1, <1>2, <1>3 DEF IInv, AcceptPending, SnapshotArmed, PartialWrite
<1> QED
  BY <1>3, <1>5, <1>6, <1>7 DEF IInv

\* read() has returned a fragment: its whole messages go to the buffers of
\* the other slots, which are all watched for room from now on.
LEMMA ReadFragmentIInv ==
  ASSUME IInv, NEW i \in Slots, ReadFragment(i)
  PROVE  IInv'
<1> DEFINE c == conn[fd[i]]
           rc == IF InFlight(c) <= ReadMax THEN InFlight(c) ELSE ReadMax
           fragment == [k \in 1..rc |-> Piece(c, taken[c] + k)]
           buf == rbuf[i] \o fragment
           len == CompleteLen(buf)
           out == SubSeq(buf, 1, len)
<1>1. /\ ReadTurn(i) /\ InFlight(c) > 0
      /\ taken' = [taken EXCEPT ![c] = taken[c] + rc]
      /\ rbuf' = [rbuf EXCEPT ![i] = Shift(buf, len)]
      /\ wbuf' = [j \in Slots |-> IF j \in Receivers(i) THEN wbuf[j] \o out ELSE wbuf[j]]
      /\ s_fdset_write' = ArmReceivers(i, len)
      /\ readfds' = readfds \ {fd[i]}
      /\ UNCHANGED <<pc, s_fdset_read, s_max_fd, writefds, nr_client_slots, fd, sent,
                     kernelVars, cstate, submitted, got>>
  BY DEF ReadFragment
<1>2. i \in LiveSlots /\ pc = "scan" /\ c \in Conns
  BY <1>1, TurnFacts, LiveSlotFacts DEF ReadTurn
<1>3. rc \in Nat \ {0} /\ taken[c] \in Nat /\ submitted[c] \in Nat /\ taken[c] + rc <= submitted[c]
  <2>1. taken[c] \in Nat /\ submitted[c] \in Nat
    BY <1>2 DEF IInv, TypeOK
  <2>2. submitted[c] - taken[c] > 0 /\ ReadMax \in Nat \ {0}
    BY <1>1, SizeAssumption DEF InFlight
  <2> QED BY <2>1, <2>2 DEF InFlight
<1>4. buf \in Seq(Pieces)
  <2>1. \A k \in 1..rc : Piece(c, taken[c] + k) \in Pieces
    BY <1>2, <1>3, PieceType
  <2>2. fragment \in Seq(Pieces)
    BY <1>3, <2>1
  <2>3. rbuf[i] \in Seq(Pieces)
    BY <1>2 DEF IInv, TypeOK
  <2> HIDE DEF fragment
  <2> QED BY <2>2, <2>3, ConcatProperties
<1> HIDE DEF rc, buf
<1>5. /\ len \in 0..Len(buf) /\ Len(buf) \in Nat
      /\ Shift(buf, len) \in Seq(Pieces)
  BY <1>4, CompleteLenType, ShiftType, LenProperties
<1>6. out \in Seq(Pieces) /\ (len = 0 <=> out = <<>>)
  <2>1. \A k \in 1..len : buf[k] \in Pieces
    BY <1>4, <1>5, ElementOfSeq
  <2>2. out \in Seq(Pieces) /\ Len(out) = (IF 1 <= len THEN len - 1 + 1 ELSE 0)
    <3> HIDE DEF len
    <3> QED BY <1>5, <2>1, SubSeqProperties
  <2>3. Len(out) = len
    BY <1>5, <2>2
  <2> HIDE DEF out, len
  <2> QED BY <2>2, <2>3, EmptySeq
<1> HIDE DEF len, out
<1>7. \A j \in Slots : wbuf[j] \in Seq(Pieces) /\ wbuf[j] \o out \in Seq(Pieces)
                       /\ (wbuf[j] \o out = <<>> <=> wbuf[j] = <<>> /\ out = <<>>)
  BY <1>6, ConcatProperties, ConcatEqualIffEmpty DEF IInv, TypeOK
<1>8. \A j \in LiveSlots : j \in Receivers(i) <=> j # i
  BY <1>2 DEF Receivers, IInv, FdTables, SlotsDistinct
<1>9. s_fdset_write' \subseteq s_fdset_write \union LiveFds
  BY <1>1 DEF ArmReceivers, Receivers, LiveFds
<1>10. LiveSlots' = LiveSlots /\ LiveFds' = LiveFds /\ FdTables'
  BY <1>1, <1>9, MoveFdTables DEF kernelVars
<1>11. TypeOK'
  <2>1. taken' \in [Conns -> Nat] /\ \A d \in Conns : taken'[d] <= submitted'[d]
    BY <1>1, <1>2, <1>3 DEF IInv, TypeOK
  <2>2. rbuf' \in [Slots -> Seq(Pieces)] /\ wbuf' \in [Slots -> Seq(Pieces)]
    BY <1>1, <1>5, <1>7 DEF IInv, TypeOK
  <2>3. s_fdset_write' \subseteq ClientFds
    BY <1>9, LiveSlotFacts DEF LiveFds, IInv, TypeOK
  <2> QED BY <1>1, <2>1, <2>2, <2>3 DEF IInv, TypeOK, kernelVars
<1>12. PendingWritesArmed'
  <2>1. CASE len = 0
    <3>1. s_fdset_write' = s_fdset_write
      BY <1>1, <2>1 DEF ArmReceivers
    <3>2. \A j \in Slots : wbuf[j] \o out = wbuf[j]
      BY <1>6, <1>7, <2>1, ConcatEmptySeq
    <3>3. \A j \in Slots : wbuf'[j] = wbuf[j]
      BY <1>1, <3>2
    <3>4. \A j \in Slots \ LiveSlots : rbuf'[j] = rbuf[j]
      BY <1>1, <1>2 DEF IInv, TypeOK
    <3> QED BY <1>1, <1>10, <3>1, <3>3, <3>4 DEF IInv, PendingWritesArmed, LiveSlots
  <2>2. CASE len # 0
    <3>1. s_fdset_write' = s_fdset_write \union {fd[j] : j \in Receivers(i)}
      BY <1>1, <2>2 DEF ArmReceivers
    <3>2. \A j \in Receivers(i) : wbuf'[j] # <<>> /\ fd[j] \in s_fdset_write'
      BY <1>1, <1>6, <1>7, <2>2, <3>1 DEF Receivers, LiveSlots
    <3>3. wbuf'[i] = wbuf[i] /\ (fd[i] \in s_fdset_write' <=> fd[i] \in s_fdset_write)
      BY <1>1, <1>2, <3>1 DEF Receivers, LiveSlots
    <3>4. \A j \in LiveSlots : wbuf'[j] # <<>> <=> fd'[j] \in s_fdset_write'
      BY <1>1, <1>2, <1>8, <3>2, <3>3 DEF IInv, PendingWritesArmed
    <3>5. \A j \in Slots \ LiveSlots : rbuf'[j] = rbuf[j] /\ wbuf'[j] = wbuf[j]
      BY <1>1, <1>2 DEF Receivers, IInv, TypeOK
    <3> QED BY <1>10, <3>4, <3>5 DEF IInv, PendingWritesArmed
  <2> QED BY <2>1, <2>2
<1>13. sent' = 0
  BY <1>1, NothingHalfWritten
<1>14. s_fdset_write \subseteq s_fdset_write'
  BY <1>1 DEF ArmReceivers
<1>15. AcceptPending' /\ SnapshotArmed' /\ PartialWrite'
  BY <1>1, <1>2, <1>10, <1>13, <1>14 DEF IInv, AcceptPending, SnapshotArmed, PartialWrite
<1> QED
  BY <1>10, <1>11, <1>12, <1>15 DEF IInv

-----------------------------------------------------------------------------
(* The theorems. *)

\* The server starts in the invariant.
LEMMA InitIInv == Init => IInv
<1> SUFFICES ASSUME Init PROVE IInv
  OBVIOUS
<1>1. LiveSlots = {} /\ LiveFds = {}
  BY DEF Init, LiveSlots, LiveFds
<1>2. TypeOK
  <2>1. \A S : <<>> \in Seq(S)
    BY EmptySeq
  <2>2. nr_client_slots \in 0..Cardinality(ClientFds)
    BY CardinalityType DEF Init
  <2> QED BY <2>1, <2>2, FdAssumption DEF Init, TypeOK
<1>3. FdTables
  BY <1>1, FdAssumption
     DEF Init, FdTables, SlotsDistinct, SlotsOpen, SelectSets, MaxFdCovers, SlotsUsed, Running
<1>4. PendingWritesArmed /\ AcceptPending /\ SnapshotArmed /\ PartialWrite
  BY <1>1 DEF Init, PendingWritesArmed, AcceptPending, SnapshotArmed, PartialWrite
<1> QED
  BY <1>2, <1>3, <1>4 DEF IInv

\* Every step keeps the invariant.
LEMMA NextIInv == IInv /\ [Next]_vars => IInv'
<1> SUFFICES ASSUME IInv, [Next]_vars PROVE IInv'
  OBVIOUS
<1>1. CASE Select \/ AcceptFails \/ NextPass
  BY <1>1, LoopIInv
<1>2. CASE Accept
  BY <1>2, AcceptIInv
<1>3. ASSUME NEW i \in Slots, NEW n \in 1..SockRoom, WriteAccepted(i, n) PROVE IInv'
  BY <1>3, WriteAcceptedIInv
<1>4. ASSUME NEW i \in Slots, WriteAgain(i) PROVE IInv'
  BY <1>4, WriteAgainIInv
<1>5. ASSUME NEW i \in Slots, WriteEpipe(i) PROVE IInv'
  BY <1>5, CloseIInv DEF WriteEpipe, WriteTurn
<1>6. ASSUME NEW i \in Slots, WriteEpipeAfterPartialWrite(i) PROVE IInv'
  BY <1>6, StopIInv DEF WriteEpipeAfterPartialWrite
<1>7. ASSUME NEW i \in Slots, ReadFragment(i) PROVE IInv'
  BY <1>7, ReadFragmentIInv
<1>8. ASSUME NEW i \in Slots, ReadEof(i) PROVE IInv'
  <2>1. sent = 0
    BY <1>8, NothingHalfWritten DEF ReadEof
  <2> QED BY <1>8, <2>1, CloseIInv DEF ReadEof, ReadTurn
<1>9. CASE Exit
  BY <1>9, StopIInv DEF Exit
<1>10. ASSUME NEW c \in Conns, ClientStep(c) PROVE IInv'
  BY <1>10, ClientIInv
<1>11. CASE Finished \/ UNCHANGED vars
  <2>1. UNCHANGED vars
    BY <1>11 DEF Finished
  <2>2. TypeOK' /\ AcceptPending'
    BY <2>1 DEF vars, procVars, kernelVars, clientVars, IInv, TypeOK, AcceptPending
  <2> QED BY <2>1, <2>2, FrameIInv DEF vars, kernelVars
<1> QED
  BY <1>1, <1>2, <1>3, <1>4, <1>5, <1>6, <1>7, <1>8, <1>9, <1>10, <1>11 DEF Next, ServerStep

\* Every variable keeps its type; above all, get_unused_client never needs
\* more slots than there are descriptors, and s_max_fd never gets negative.
THEOREM TypeCorrect == Spec => []TypeOK
<1>1. IInv => TypeOK
  BY DEF IInv
<1> QED
  BY InitIInv, NextIInv, <1>1, PTL DEF Spec

\* The slots, the descriptor table and select()'s sets describe the same
\* connections, and s_max_fd covers them, whatever the order of connects,
\* closes and descriptor reuse.
THEOREM TablesAgree == Spec => []FdTables
<1>1. IInv => FdTables
  BY DEF IInv
<1> QED
  BY InitIInv, NextIInv, <1>1, PTL DEF Spec

\* A slot's descriptor is in the write set exactly while its buffer holds
\* something, and an unused slot's buffers are empty.
THEOREM NoWriteStranded == Spec => []PendingWritesArmed
<1>1. IInv => PendingWritesArmed
  BY DEF IInv
<1> QED
  BY InitIInv, NextIInv, <1>1, PTL DEF Spec

-----------------------------------------------------------------------------
(* Pieces and messages: arithmetic.                                        *)

LEMMA DivMod ==
  ASSUME NEW a \in Nat
  PROVE  /\ a \div Frags \in Nat /\ a % Frags \in 0..(Frags - 1)
         /\ a = Frags * (a \div Frags) + (a % Frags)
<1>1. a \div Frags \in Nat /\ a % Frags \in 0..(Frags - 1)
  BY SizeAssumption
<1>2. Frags \in Int /\ Frags > 0 /\ a \in Int
  BY SizeAssumption
<1>3. a = Frags * (a \div Frags) + (a % Frags)
  BY <1>2, Z3
<1> QED
  BY <1>1, <1>3

LEMMA DivModUnique ==
  ASSUME NEW q \in Nat, NEW p \in Nat, NEW r \in 0..(Frags - 1), NEW s \in 0..(Frags - 1),
         Frags * q + r = Frags * p + s
  PROVE  q = p /\ r = s
<1>0. Frags \in Nat \ {0}
  BY SizeAssumption
<1>1. ASSUME NEW x \in Nat, NEW y \in Nat, x < y
      PROVE  Frags * x + Frags <= Frags * y
  <2>1. PICK d \in Nat : y = x + 1 + d
    BY <1>1
  <2>2. Frags * y = Frags * x + Frags + Frags * d
    BY <1>0, <2>1
  <2>3. Frags * d \in Nat /\ Frags * x \in Nat
    BY <1>0
  <2> QED BY <1>0, <2>2, <2>3
<1>2. Frags * q \in Nat /\ Frags * p \in Nat
  BY <1>0
<1>3. ~(q < p) /\ ~(p < q)
  BY <1>0, <1>1, <1>2
<1> QED
  BY <1>0, <1>2, <1>3

LEMMA DivModIs ==
  ASSUME NEW q \in Nat, NEW r \in 0..(Frags - 1)
  PROVE  (Frags * q + r) \div Frags = q /\ (Frags * q + r) % Frags = r
<1> DEFINE a == Frags * q + r
<1>1. a \in Nat
  BY SizeAssumption
<1>2. /\ a \div Frags \in Nat /\ a % Frags \in 0..(Frags - 1)
      /\ Frags * q + r = Frags * (a \div Frags) + (a % Frags)
  BY <1>1, DivMod
<1> HIDE DEF a
<1>3. q = a \div Frags /\ r = a % Frags
  BY <1>2, DivModUnique
<1> QED
  BY <1>3 DEF a

\* Whole messages in front do not disturb how the rest is cut.
LEMMA ModShift ==
  ASSUME NEW a \in Nat, NEW b \in Nat, a % Frags = 0
  PROVE  /\ (a + b) \div Frags = (a \div Frags) + (b \div Frags)
         /\ (a + b) % Frags = b % Frags
<1> DEFINE x == a \div Frags
           y == b \div Frags
           r == b % Frags
<1>1. /\ x \in Nat /\ y \in Nat /\ r \in 0..(Frags - 1)
      /\ a = Frags * x /\ b = Frags * y + r
  <2>1. a = Frags * x + 0 /\ x \in Nat
    BY DivMod
  <2>2. Frags * x \in Nat
    BY <2>1, SizeAssumption
  <2> QED BY <2>1, <2>2, DivMod
<1> HIDE DEF x, y, r
<1>2. a + b = Frags * (x + y) + r /\ x + y \in Nat
  BY <1>1, SizeAssumption
<1>3. (Frags * (x + y) + r) \div Frags = x + y /\ (Frags * (x + y) + r) % Frags = r
  BY <1>1, <1>2, DivModIs
<1> QED
  BY <1>2, <1>3 DEF x, y, r

\* What is left when a number is cut down to whole messages.
LEMMA CutToWhole ==
  ASSUME NEW a \in Nat
  PROVE  /\ a - (a % Frags) \in 0..a /\ (a - (a % Frags)) % Frags = 0
         /\ (a - (a % Frags)) \div Frags = a \div Frags
<1> DEFINE q == a \div Frags
           r == a % Frags
<1>1. q \in Nat /\ r \in 0..(Frags - 1) /\ a = Frags * q + r
  BY DivMod
<1> HIDE DEF q, r
<1>2. Frags * q \in Nat /\ a - r = Frags * q + 0 /\ 0 \in 0..(Frags - 1)
  BY <1>1, SizeAssumption
<1>3. (Frags * q + 0) \div Frags = q /\ (Frags * q + 0) % Frags = 0
  BY <1>1, <1>2, DivModIs
<1> QED
  BY <1>1, <1>2, <1>3 DEF q, r

\* A piece ends a message exactly when it is a multiple of Frags.
LEMMA PieceNumbers ==
  ASSUME NEW k \in Nat \ {0}
  PROVE  /\ ((k - 1) % Frags) + 1 = Frags <=> k % Frags = 0
         /\ k % Frags = 0 => (k - 1) \div Frags + 1 = k \div Frags
         /\ k % Frags # 0 => (k - 1) \div Frags = k \div Frags
         /\ k % Frags # 0 => ((k - 1) % Frags) + 1 = k % Frags
<1> DEFINE q == (k - 1) \div Frags
           r == (k - 1) % Frags
<1>1. q \in Nat /\ r \in 0..(Frags - 1) /\ k = Frags * q + (r + 1) /\ Frags \in Nat \ {0}
  BY DivMod, SizeAssumption
<1> HIDE DEF q, r
<1>2. CASE r + 1 = Frags
  <2>1. k = Frags * (q + 1) + 0 /\ q + 1 \in Nat /\ 0 \in 0..(Frags - 1)
    BY <1>1, <1>2
  <2>2. k \div Frags = q + 1 /\ k % Frags = 0
    BY <2>1, DivModIs
  <2> QED BY <1>2, <2>2 DEF q, r
<1>3. CASE r + 1 # Frags
  <2>1. r + 1 \in 0..(Frags - 1)
    BY <1>1, <1>3
  <2>2. k \div Frags = q /\ k % Frags = r + 1
    BY <1>1, <2>1, DivModIs
  <2> QED BY <1>1, <1>3, <2>2 DEF q, r
<1> QED
  BY <1>2, <1>3

-----------------------------------------------------------------------------
(* Pieces and messages: sequences.                                         *)

\* n pieces of connection c, after the first b.
Run(c, b, n) == [k \in 1..n |-> Piece(c, b + k)]

LEMMA RunType ==
  ASSUME NEW c \in Conns, NEW b \in Nat, NEW n \in Nat
  PROVE  /\ Run(c, b, n) \in Seq(Pieces) /\ Len(Run(c, b, n)) = n
         /\ \A k \in 1..n : Run(c, b, n)[k] = Piece(c, b + k)
<1>1. \A k \in 1..n : Piece(c, b + k) \in Pieces
  BY PieceType
<1> QED
  BY <1>1 DEF Run

LEMMA RunConcat ==
  ASSUME NEW c \in Conns, NEW b \in Nat, NEW m \in Nat, NEW n \in Nat
  PROVE  Run(c, b, m) \o Run(c, b + m, n) = Run(c, b, m + n)
<1> DEFINE s == Run(c, b, m)
           t == Run(c, b + m, n)
           u == Run(c, b, m + n)
<1>1. /\ s \in Seq(Pieces) /\ Len(s) = m /\ \A k \in 1..m : s[k] = Piece(c, b + k)
      /\ t \in Seq(Pieces) /\ Len(t) = n /\ \A k \in 1..n : t[k] = Piece(c, b + m + k)
      /\ u \in Seq(Pieces) /\ Len(u) = m + n /\ \A k \in 1..(m + n) : u[k] = Piece(c, b + k)
  <2>1. b + m \in Nat /\ m + n \in Nat
    OBVIOUS
  <2> QED BY <2>1, RunType
<1> HIDE DEF s, t, u
<1>2. /\ s \o t \in Seq(Pieces) /\ Len(s \o t) = m + n
      /\ \A k \in 1..(m + n) : (s \o t)[k] = IF k <= m THEN s[k] ELSE t[k - m]
  BY <1>1, ConcatProperties
<1>3. \A k \in 1..(m + n) : (s \o t)[k] = u[k]
  <2> SUFFICES ASSUME NEW k \in 1..(m + n) PROVE (s \o t)[k] = u[k]
    OBVIOUS
  <2>1. CASE k <= m
    BY <1>1, <1>2, <2>1
  <2>2. CASE ~(k <= m)
    <3>1. k - m \in 1..n /\ b + m + (k - m) = b + k
      BY <2>2
    <3> QED BY <1>1, <1>2, <2>2, <3>1
  <2> QED BY <2>1, <2>2
<1> QED
  BY <1>1, <1>2, <1>3, SeqEqual DEF s, t, u

LEMMA RunParts ==
  ASSUME NEW c \in Conns, NEW b \in Nat, NEW n \in Nat, NEW l \in 0..n
  PROVE  /\ SubSeq(Run(c, b, n), 1, l) = Run(c, b, l)
         /\ Shift(Run(c, b, n), l) = Run(c, b + l, n - l)
<1> DEFINE s == Run(c, b, n)
<1>1. /\ s \in Seq(Pieces) /\ Len(s) = n
      /\ \A k \in 1..n : s[k] = Piece(c, b + k) /\ s[k] \in Pieces
  BY RunType, ElementOfSeq
<1> HIDE DEF s
<1>2. SubSeq(s, 1, l) = Run(c, b, l)
  <2> DEFINE t == SubSeq(s, 1, l)
             u == Run(c, b, l)
  <2>1. t \in Seq(Pieces) /\ Len(t) = l /\ \A k \in 1..l : t[k] = s[1 + k - 1]
    BY <1>1, SubSeqProperties
  <2>2. u \in Seq(Pieces) /\ Len(u) = l /\ \A k \in 1..l : u[k] = Piece(c, b + k)
    BY RunType
  <2> HIDE DEF t, u
  <2>3. \A k \in 1..l : t[k] = u[k]
    BY <1>1, <2>1, <2>2
  <2>4. t = u
    BY <2>1, <2>2, <2>3, SeqEqual
  <2> QED BY <2>4 DEF t, u
<1>3. SubSeq(s, l + 1, n) = Run(c, b + l, n - l)
  <2> DEFINE t == SubSeq(s, l + 1, n)
             u == Run(c, b + l, n - l)
  <2>1. t \in Seq(Pieces) /\ Len(t) = n - l /\ \A k \in 1..(n - l) : t[k] = s[l + 1 + k - 1]
    BY <1>1, SubSeqProperties
  <2>2. /\ u \in Seq(Pieces) /\ Len(u) = n - l
        /\ \A k \in 1..(n - l) : u[k] = Piece(c, b + l + k)
    <3>1. b + l \in Nat /\ n - l \in Nat
      OBVIOUS
    <3> QED BY <3>1, RunType
  <2> HIDE DEF t, u
  <2>3. \A k \in 1..(n - l) : t[k] = u[k]
    <3> SUFFICES ASSUME NEW k \in 1..(n - l) PROVE t[k] = u[k]
      OBVIOUS
    <3>1. l + k \in 1..n /\ l + 1 + k - 1 = l + k /\ b + (l + k) = b + l + k
      OBVIOUS
    <3> QED BY <1>1, <2>1, <2>2, <3>1
  <2>4. t = u
    BY <2>1, <2>2, <2>3, SeqEqual
  <2> QED BY <2>4 DEF t, u
<1> QED
  BY <1>1, <1>2, <1>3 DEF s, Shift

\* Pieces in sequence, from the first of a message on, are well framed.
LEMMA RunFramed ==
  ASSUME NEW c \in Conns, NEW b \in Nat, NEW n \in Nat, b % Frags = 0
  PROVE  WellFramed(Run(c, b, n))
<1> DEFINE s == Run(c, b, n)
<1>1. s \in Seq(Pieces) /\ Len(s) = n /\ \A k \in 1..n : s[k] = Piece(c, b + k)
  BY RunType
<1> HIDE DEF s
<1> SUFFICES ASSUME NEW k \in 1..n
             PROVE  /\ s[k][3] = ((k - 1) % Frags) + 1
                    /\ s[k][3] # 1 => <<s[k][1], s[k][2]>> = <<s[k - 1][1], s[k - 1][2]>>
  BY <1>1 DEF WellFramed, s
<1>2. (b + k - 1) % Frags = (k - 1) % Frags
  <2>1. k - 1 \in Nat /\ b + (k - 1) = b + k - 1
    OBVIOUS
  <2> QED BY <2>1, ModShift
<1>3. s[k] = <<c, ((b + k - 1) \div Frags) + 1, ((b + k - 1) % Frags) + 1>>
  BY <1>1 DEF Piece
<1>4. s[k][3] = ((k - 1) % Frags) + 1
  BY <1>2, <1>3
<1>5. ASSUME s[k][3] # 1
      PROVE  <<s[k][1], s[k][2]>> = <<s[k - 1][1], s[k - 1][2]>>
  <2>1. (k - 1) % Frags # 0
    BY <1>4, <1>5
  <2>2. k # 1
    <3>1. 0 % Frags = 0
      BY SizeAssumption, DivModIs
    <3> QED BY <2>1, <3>1
  <2>3. k - 1 \in 1..n /\ b + k - 1 \in Nat \ {0} /\ b + (k - 1) - 1 = b + k - 1 - 1
    BY <2>2
  <2>4. (b + k - 1 - 1) \div Frags = (b + k - 1) \div Frags
    BY <1>2, <2>1, <2>3, PieceNumbers
  <2>5. s[k - 1] = <<c, ((b + (k - 1) - 1) \div Frags) + 1, ((b + (k - 1) - 1) % Frags) + 1>>
    <3>1. s[k - 1] = Piece(c, b + (k - 1))
      BY <1>1, <2>3
    <3> QED BY <3>1 DEF Piece
  <2> QED BY <1>3, <2>3, <2>4, <2>5
<1> QED
  BY <1>4, <1>5

\* What the loop over uim_helper_buffer_get_message consumes of a run that
\* starts with a message: all the whole messages.
LEMMA CompleteLenOfRun ==
  ASSUME NEW c \in Conns, NEW b \in Nat, NEW n \in Nat, b % Frags = 0
  PROVE  CompleteLen(Run(c, b, n)) = n - (n % Frags)
<1> DEFINE s == Run(c, b, n)
           ends == {k \in 1..Len(s) : IsTerminator(s[k])}
           m == n - (n % Frags)
<1>1. s \in Seq(Pieces) /\ Len(s) = n /\ \A k \in 1..n : s[k] = Piece(c, b + k)
  BY RunType
<1>2. \A k \in 1..n : IsTerminator(s[k]) <=> k % Frags = 0
  <2> SUFFICES ASSUME NEW k \in 1..n PROVE IsTerminator(s[k]) <=> k % Frags = 0
    OBVIOUS
  <2>1. s[k][3] = ((b + k - 1) % Frags) + 1
    BY <1>1 DEF Piece
  <2>2. k - 1 \in Nat /\ b + (k - 1) = b + k - 1
    OBVIOUS
  <2>3. (b + k - 1) % Frags = (k - 1) % Frags
    BY <2>2, ModShift
  <2> QED BY <2>1, <2>3, PieceNumbers DEF IsTerminator
<1>3. ends = {k \in 1..n : k % Frags = 0}
  BY <1>1, <1>2
<1>4. m \in 0..n /\ m % Frags = 0 /\ n < m + Frags
  <2>1. m \in 0..n /\ m % Frags = 0
    BY CutToWhole
  <2>2. n % Frags \in 0..(Frags - 1) /\ Frags \in Nat
    BY DivMod, SizeAssumption
  <2> QED BY <2>1, <2>2
<1>5. ASSUME NEW k \in 1..n, k % Frags = 0
      PROVE  k <= m
  <2> DEFINE q == k \div Frags
             p == m \div Frags
  <2>1. /\ q \in Nat /\ p \in Nat /\ k = Frags * q + 0 /\ m = Frags * p + 0
    <3> HIDE DEF m
    <3> QED BY <1>4, <1>5, DivMod
  <2>2. Frags * q \in Nat /\ Frags * p \in Nat /\ Frags \in Nat \ {0}
    BY <2>1, SizeAssumption
  <2> HIDE DEF q, p, m
  <2>3. CASE q <= p
    <3>1. PICK d \in Nat : p = q + d
      BY <2>1, <2>3
    <3>2. Frags * p = Frags * q + Frags * d /\ Frags * d \in Nat
      BY <2>1, <2>2, <3>1
    <3> QED BY <2>1, <2>2, <3>2
  <2>4. CASE q > p
    <3>1. PICK d \in Nat : q = p + 1 + d
      BY <2>1, <2>4
    <3>2. Frags * q = Frags * p + Frags + Frags * d /\ Frags * d \in Nat
      BY <2>1, <2>2, <3>1
    <3>3. k >= m + Frags
      BY <2>1, <2>2, <3>2
    <3> QED BY <1>4, <2>2, <3>3
  <2> QED BY <2>1, <2>3, <2>4
<1>6. CompleteLen(s) = IF ends = {} THEN 0 ELSE CHOOSE k \in ends : \A l \in ends : l <= k
  BY DEF CompleteLen
<1> HIDE DEF s, m, ends
<1>7. CASE m = 0
  <2>1. ends = {}
    BY <1>3, <1>5, <1>7
  <2> QED BY <1>6, <1>7, <2>1 DEF s, m
<1>8. CASE m # 0
  <2>1. m \in ends /\ \A l \in ends : l <= m
    BY <1>3, <1>4, <1>5, <1>8
  <2>2. \A k \in ends : k \in 1..n
    BY <1>3
  <2>3. \A k \in ends : (\A l \in ends : l <= k) => k = m
    BY <1>4, <2>1, <2>2
  <2>4. (CHOOSE k \in ends : \A l \in ends : l <= k) = m
    BY <2>1, <2>3
  <2> QED BY <1>6, <2>1, <2>4 DEF s, m
<1> QED
  BY <1>7, <1>8

\* A well-framed stream that ends whole goes on with another one.
LEMMA FramedConcat ==
  ASSUME NEW s \in Seq(Pieces), NEW t \in Seq(Pieces), WellFramed(s), WellFramed(t),
         Len(s) % Frags = 0
  PROVE  /\ WellFramed(s \o t)
         /\ Len(t) % Frags = 0 => Len(s \o t) % Frags = 0
<1>1. /\ s \o t \in Seq(Pieces) /\ Len(s \o t) = Len(s) + Len(t)
      /\ Len(s) \in Nat /\ Len(t) \in Nat
      /\ \A k \in 1..Len(s) : (s \o t)[k] = s[k]
      /\ \A k \in 1..Len(t) : (s \o t)[Len(s) + k] = t[k]
  BY ConcatProperties, LenProperties
<1> DEFINE u == s \o t
           Good(k) == /\ u[k][3] = ((k - 1) % Frags) + 1
                      /\ u[k][3] # 1 => <<u[k][1], u[k][2]>> = <<u[k - 1][1], u[k - 1][2]>>
<1> HIDE DEF u
<1>2. ASSUME NEW k \in 1..Len(s) PROVE Good(k)
  <2>1. u[k] = s[k]
    BY <1>1 DEF u
  <2>2. /\ s[k][3] = ((k - 1) % Frags) + 1
        /\ s[k][3] # 1 => <<s[k][1], s[k][2]>> = <<s[k - 1][1], s[k - 1][2]>>
    BY DEF WellFramed
  <2>3. k = 1 => s[k][3] = 1
    <3>1. 0 % Frags = 0
      BY SizeAssumption, DivModIs
    <3> QED BY <2>2, <3>1
  <2>4. k # 1 => u[k - 1] = s[k - 1]
    BY <1>1 DEF u
  <2> QED BY <2>1, <2>2, <2>3, <2>4
<1>3. ASSUME NEW j \in 1..Len(t) PROVE Good(Len(s) + j)
  <2>1. u[Len(s) + j] = t[j]
    BY <1>1 DEF u
  <2>2. /\ t[j][3] = ((j - 1) % Frags) + 1
        /\ t[j][3] # 1 => <<t[j][1], t[j][2]>> = <<t[j - 1][1], t[j - 1][2]>>
    BY DEF WellFramed
  <2>3. (Len(s) + j - 1) % Frags = (j - 1) % Frags
    <3>1. j - 1 \in Nat /\ Len(s) + (j - 1) = Len(s) + j - 1
      BY <1>1
    <3> QED BY <1>1, <3>1, ModShift
  <2>4. j = 1 => t[j][3] = 1
    <3>1. 0 % Frags = 0
      BY SizeAssumption, DivModIs
    <3> QED BY <2>2, <3>1
  <2>5. j # 1 => u[Len(s) + j - 1] = t[j - 1]
    <3>1. j # 1 => j - 1 \in 1..Len(t) /\ Len(s) + (j - 1) = Len(s) + j - 1
      BY <1>1
    <3> QED BY <1>1, <3>1 DEF u
  <2> QED BY <2>1, <2>2, <2>3, <2>4, <2>5
<1>4. ASSUME NEW k \in 1..(Len(s) + Len(t)) PROVE Good(k)
  <2>1. CASE k <= Len(s)
    BY <1>1, <1>2, <2>1
  <2>2. CASE k > Len(s)
    <3>1. k - Len(s) \in 1..Len(t) /\ Len(s) + (k - Len(s)) = k
      BY <1>1, <2>2
    <3> HIDE DEF Good
    <3> QED BY <1>3, <3>1
  <2> QED BY <1>1, <2>1, <2>2
<1>5. WellFramed(s \o t)
  BY <1>1, <1>4 DEF WellFramed, u
<1>6. Len(t) % Frags = 0 => Len(s \o t) % Frags = 0
  BY <1>1, ModShift
<1> QED
  BY <1>5, <1>6

\* What is left of a well-framed stream whose end is lost is well framed.
LEMMA FramedPrefix ==
  ASSUME NEW s \in Seq(Pieces), NEW t \in Seq(Pieces), WellFramed(s \o t)
  PROVE  WellFramed(s)
<1>1. /\ Len(s \o t) = Len(s) + Len(t) /\ Len(s) \in Nat /\ Len(t) \in Nat
      /\ \A k \in 1..Len(s) : (s \o t)[k] = s[k]
  BY ConcatProperties, LenProperties
<1> DEFINE u == s \o t
<1>2. \A k \in 1..(Len(s) + Len(t)) :
        /\ u[k][3] = ((k - 1) % Frags) + 1
        /\ u[k][3] # 1 => <<u[k][1], u[k][2]>> = <<u[k - 1][1], u[k - 1][2]>>
  BY <1>1 DEF WellFramed
<1>3. \A k \in 1..Len(s) : u[k] = s[k]
  BY <1>1
<1> HIDE DEF u
<1> SUFFICES ASSUME NEW k \in 1..Len(s)
             PROVE  /\ s[k][3] = ((k - 1) % Frags) + 1
                    /\ s[k][3] # 1 => <<s[k][1], s[k][2]>> = <<s[k - 1][1], s[k - 1][2]>>
  BY DEF WellFramed
<1>4. /\ s[k][3] = ((k - 1) % Frags) + 1
      /\ s[k][3] # 1 => <<s[k][1], s[k][2]>> = <<u[k - 1][1], u[k - 1][2]>>
  BY <1>1, <1>2, <1>3
<1>5. k = 1 => s[k][3] = 1
  <2>1. 0 % Frags = 0
    BY SizeAssumption, DivModIs
  <2> QED BY <1>4, <2>1
<1>6. k # 1 => u[k - 1] = s[k - 1]
  BY <1>1, <1>3
<1> QED
  BY <1>4, <1>5, <1>6

\* The whole messages of a stream, one by one.
LEMMA WholeMessagesType ==
  ASSUME NEW s \in Seq(Pieces)
  PROVE  /\ WholeMessages(s) \in Seq(Conns \X Nat)
         /\ Len(WholeMessages(s)) = Len(s) \div Frags
         /\ \A k \in 1..(Len(s) \div Frags) :
              /\ k * Frags \in 1..Len(s)
              /\ WholeMessages(s)[k] = <<s[k * Frags][1], s[k * Frags][2]>>
<1> DEFINE q == Len(s) \div Frags
           r == Len(s) % Frags
<1>1. q \in Nat /\ r \in 0..(Frags - 1) /\ Len(s) = Frags * q + r /\ Frags \in Nat \ {0}
      /\ Len(s) \in Nat
  BY DivMod, LenProperties, SizeAssumption
<1> HIDE DEF q, r
<1>2. ASSUME NEW k \in 1..q
      PROVE  k * Frags \in 1..Len(s)
  <2>1. PICK d \in Nat : q = k + d
    BY <1>1
  <2>2. Frags * q = k * Frags + Frags * d /\ Frags * d \in Nat /\ k * Frags \in Nat
    BY <1>1, <2>1
  <2>3. PICK e \in Nat : k = e + 1
    BY <1>1
  <2>4. k * Frags = Frags * e + Frags /\ Frags * e \in Nat
    BY <1>1, <2>3
  <2> QED BY <1>1, <2>2, <2>4
<1>3. \A k \in 1..q : <<s[k * Frags][1], s[k * Frags][2]>> \in Conns \X Nat
  <2> SUFFICES ASSUME NEW k \in 1..q
               PROVE  <<s[k * Frags][1], s[k * Frags][2]>> \in Conns \X Nat
    OBVIOUS
  <2>1. s[k * Frags] \in Pieces
    BY <1>2, ElementOfSeq
  <2> QED BY <2>1 DEF Pieces
<1> DEFINE message(k) == <<s[k * Frags][1], s[k * Frags][2]>>
<1>4. WholeMessages(s) = [k \in 1..q |-> message(k)]
  BY DEF WholeMessages, q
<1>5. \A k \in 1..q : message(k) \in Conns \X Nat
  BY <1>3
<1> HIDE DEF message
<1>6. /\ WholeMessages(s) \in Seq(Conns \X Nat) /\ Len(WholeMessages(s)) = q
      /\ \A k \in 1..q : WholeMessages(s)[k] = message(k)
  BY <1>1, <1>4, <1>5
<1> QED
  BY <1>2, <1>6 DEF q, message

LEMMA WholeMessagesConcat ==
  ASSUME NEW s \in Seq(Pieces), NEW t \in Seq(Pieces), Len(s) % Frags = 0
  PROVE  WholeMessages(s \o t) = WholeMessages(s) \o WholeMessages(t)
<1> DEFINE u == s \o t
           S == WholeMessages(s)
           T == WholeMessages(t)
           U == WholeMessages(u)
           m == Len(s) \div Frags
           n == Len(t) \div Frags
<1>1. /\ u \in Seq(Pieces) /\ Len(u) = Len(s) + Len(t) /\ Len(s) \in Nat /\ Len(t) \in Nat
      /\ \A k \in 1..Len(s) : u[k] = s[k]
      /\ \A k \in 1..Len(t) : u[Len(s) + k] = t[k]
  BY ConcatProperties, LenProperties
<1>2. /\ m \in Nat /\ n \in Nat /\ Len(s) = Frags * m /\ Len(u) \div Frags = m + n
      /\ Frags \in Nat \ {0}
  <2>1. m \in Nat /\ n \in Nat /\ Len(s) = Frags * m + 0
    BY <1>1, DivMod
  <2>2. Frags * m \in Nat
    BY <2>1, SizeAssumption
  <2>3. Len(u) \div Frags = m + n
    BY <1>1, ModShift
  <2> QED BY <2>1, <2>2, <2>3, SizeAssumption
<1>3. /\ S \in Seq(Conns \X Nat) /\ Len(S) = m
      /\ \A k \in 1..m : k * Frags \in 1..Len(s) /\ S[k] = <<s[k * Frags][1], s[k * Frags][2]>>
      /\ T \in Seq(Conns \X Nat) /\ Len(T) = n
      /\ \A k \in 1..n : k * Frags \in 1..Len(t) /\ T[k] = <<t[k * Frags][1], t[k * Frags][2]>>
  BY WholeMessagesType
<1>4. /\ U \in Seq(Conns \X Nat) /\ Len(U) = m + n
      /\ \A k \in 1..(m + n) : U[k] = <<u[k * Frags][1], u[k * Frags][2]>>
  <2> HIDE DEF u, m, n
  <2> QED BY <1>1, <1>2, WholeMessagesType
<1> HIDE DEF u, S, T, U, m, n
<1>5. /\ S \o T \in Seq(Conns \X Nat) /\ Len(S \o T) = m + n
      /\ \A k \in 1..(m + n) : (S \o T)[k] = IF k <= m THEN S[k] ELSE T[k - m]
  BY <1>2, <1>3, ConcatProperties
<1>6. ASSUME NEW k \in 1..(m + n) PROVE U[k] = (S \o T)[k]
  <2>1. CASE k <= m
    <3>1. k \in 1..m
      BY <1>2, <2>1
    <3>2. u[k * Frags] = s[k * Frags]
      BY <1>1, <1>3, <3>1
    <3>3. S[k] = <<u[k * Frags][1], u[k * Frags][2]>>
      BY <1>3, <3>1, <3>2
    <3>4. (S \o T)[k] = S[k]
      BY <1>5, <2>1
    <3> QED BY <1>4, <3>3, <3>4
  <2>2. CASE ~(k <= m)
    <3>1. PICK j \in 1..n : k = m + j /\ k - m = j
      BY <1>2, <2>2
    <3>2. k * Frags = Len(s) + j * Frags
      BY <1>2, <3>1
    <3>3. u[k * Frags] = t[j * Frags]
      BY <1>1, <1>3, <3>1, <3>2
    <3>4. T[j] = <<u[k * Frags][1], u[k * Frags][2]>>
      BY <1>3, <3>1, <3>3
    <3>5. (S \o T)[k] = T[j]
      BY <1>5, <2>2, <3>1
    <3> QED BY <1>4, <3>4, <3>5
  <2> QED BY <2>1, <2>2
<1>7. U = S \o T
  BY <1>4, <1>5, <1>6, SeqEqual
<1> QED
  BY <1>7 DEF u, S, T, U

\* A stream that loses its end loses the last of its messages.
LEMMA WholeMessagesPrefix ==
  ASSUME NEW s \in Seq(Pieces), NEW t \in Seq(Pieces)
  PROVE  LET S == WholeMessages(s)
             U == WholeMessages(s \o t)
         IN  Len(S) <= Len(U) /\ SubSeq(S, 1, Len(S)) = SubSeq(U, 1, Len(S))
<1> DEFINE u == s \o t
           S == WholeMessages(s)
           U == WholeMessages(u)
           m == Len(s) \div Frags
           n == Len(u) \div Frags
<1>1. /\ u \in Seq(Pieces) /\ Len(u) = Len(s) + Len(t) /\ Len(s) \in Nat /\ Len(t) \in Nat
      /\ \A k \in 1..Len(s) : u[k] = s[k]
  BY ConcatProperties, LenProperties
<1>2. /\ S \in Seq(Conns \X Nat) /\ Len(S) = m
      /\ \A k \in 1..m : k * Frags \in 1..Len(s) /\ S[k] = <<s[k * Frags][1], s[k * Frags][2]>>
  BY WholeMessagesType
<1>3. /\ U \in Seq(Conns \X Nat) /\ Len(U) = n
      /\ \A k \in 1..n : U[k] = <<u[k * Frags][1], u[k * Frags][2]>>
  <2> HIDE DEF u
  <2> QED BY <1>1, WholeMessagesType
<1>4. /\ m \in Nat /\ n \in Nat /\ Frags \in Nat \ {0}
      /\ Len(s) = Frags * m + (Len(s) % Frags) /\ Len(s) % Frags \in 0..(Frags - 1)
      /\ Len(u) = Frags * n + (Len(u) % Frags) /\ Len(u) % Frags \in 0..(Frags - 1)
  <2> HIDE DEF u
  <2>1. Len(u) \in Nat
    BY <1>1
  <2> QED BY <1>1, <2>1, DivMod, SizeAssumption
<1> HIDE DEF u, S, U, m, n
<1>5. m <= n
  <2> SUFFICES ASSUME n < m PROVE FALSE
    BY <1>4
  <2>1. PICK d \in Nat : m = n + 1 + d
    BY <1>4
  <2>2. Frags * m = Frags * n + Frags + Frags * d /\ Frags * d \in Nat /\ Frags * n \in Nat
    BY <1>4, <2>1
  <2>3. Len(s) >= Frags * n + Frags
    <3> DEFINE x == Frags * m
               y == Frags * n
               z == Frags * d
               r == Len(s) % Frags
    <3>1. x = y + Frags + z /\ z \in Nat /\ y \in Nat /\ Len(s) = x + r /\ r \in 0..(Frags - 1)
      BY <1>4, <2>2
    <3> HIDE DEF x, y, z, r
    <3>2. Len(s) >= y + Frags
      BY <1>1, <1>4, <3>1
    <3> QED BY <3>2 DEF y
  <2>4. Len(u) < Frags * n + Frags
    BY <1>4, <2>2
  <2> QED BY <1>1, <1>4, <2>2, <2>3, <2>4
<1>6. \A k \in 1..m : S[k] = U[k] /\ S[k] \in Conns \X Nat
  <2> SUFFICES ASSUME NEW k \in 1..m PROVE S[k] = U[k] /\ S[k] \in Conns \X Nat
    OBVIOUS
  <2>1. k \in 1..n
    BY <1>4, <1>5
  <2>2. u[k * Frags] = s[k * Frags]
    BY <1>1, <1>2
  <2>3. S[k] = U[k]
    BY <1>2, <1>3, <2>1, <2>2
  <2>4. S[k] \in Conns \X Nat
    BY <1>2, ElementOfSeq
  <2> QED BY <2>3, <2>4
<1>7. /\ SubSeq(S, 1, m) \in Seq(Conns \X Nat) /\ Len(SubSeq(S, 1, m)) = m
      /\ \A k \in 1..m : SubSeq(S, 1, m)[k] = S[k]
  <2>1. /\ SubSeq(S, 1, m) \in Seq(Conns \X Nat)
        /\ Len(SubSeq(S, 1, m)) = IF 1 <= m THEN m - 1 + 1 ELSE 0
        /\ \A k \in 1..(m - 1 + 1) : SubSeq(S, 1, m)[k] = S[1 + k - 1]
    BY <1>4, <1>6, SubSeqProperties
  <2>2. m - 1 + 1 = m /\ \A k \in 1..m : 1 + k - 1 = k
    BY <1>4
  <2> QED BY <1>4, <2>1, <2>2
<1>8. /\ SubSeq(U, 1, m) \in Seq(Conns \X Nat) /\ Len(SubSeq(U, 1, m)) = m
      /\ \A k \in 1..m : SubSeq(U, 1, m)[k] = U[k]
  <2>1. /\ SubSeq(U, 1, m) \in Seq(Conns \X Nat)
        /\ Len(SubSeq(U, 1, m)) = IF 1 <= m THEN m - 1 + 1 ELSE 0
        /\ \A k \in 1..(m - 1 + 1) : SubSeq(U, 1, m)[k] = U[1 + k - 1]
    BY SMTT(30), <1>4, <1>6, SubSeqProperties
  <2>2. m - 1 + 1 = m /\ \A k \in 1..m : 1 + k - 1 = k
    BY <1>4
  <2> QED BY <1>4, <2>1, <2>2
<1>9. SubSeq(S, 1, m) = SubSeq(U, 1, m)
  BY <1>6, <1>7, <1>8, SeqEqual
<1> QED
  BY <1>2, <1>3, <1>5, <1>9 DEF u, S, U

LEMMA WholeMessagesOfRun ==
  ASSUME NEW c \in Conns, NEW b \in Nat, NEW n \in Nat, b % Frags = 0
  PROVE  WholeMessages(Run(c, b, n)) = [k \in 1..(n \div Frags) |-> <<c, (b \div Frags) + k>>]
<1> DEFINE s == Run(c, b, n)
           q == n \div Frags
<1>1. s \in Seq(Pieces) /\ Len(s) = n /\ \A k \in 1..n : s[k] = Piece(c, b + k)
  BY RunType
<1>2. \A k \in 1..q : k * Frags \in 1..n
  BY <1>1, WholeMessagesType
<1>3. WholeMessages(s) = [k \in 1..q |-> <<s[k * Frags][1], s[k * Frags][2]>>]
  BY <1>1 DEF WholeMessages
<1>4. q \in Nat /\ b \div Frags \in Nat /\ Frags \in Nat \ {0} /\ b = Frags * (b \div Frags) + (b % Frags)
  BY DivMod, SizeAssumption
<1> HIDE DEF s, q
<1>5. ASSUME NEW k \in 1..q
      PROVE  <<s[k * Frags][1], s[k * Frags][2]>> = <<c, (b \div Frags) + k>>
  <2> DEFINE j == b + k * Frags
             p == (b \div Frags) + k
  <2>1. k * Frags \in 1..n
    BY <1>2
  <2>2. s[k * Frags][1] = c /\ s[k * Frags][2] = ((j - 1) \div Frags) + 1
    BY <1>1, <2>1 DEF Piece
  <2>3. j \in Nat \ {0} /\ p \in Nat /\ j = Frags * p + 0 /\ 0 \in 0..(Frags - 1)
    <3>1. Frags * p = Frags * (b \div Frags) + k * Frags /\ Frags * (b \div Frags) \in Nat
      BY <1>4
    <3> QED BY <1>4, <2>1, <3>1
  <2> HIDE DEF j, p
  <2>4. j \div Frags = p /\ j % Frags = 0
    BY <2>3, DivModIs
  <2>5. (j - 1) \div Frags + 1 = p
    BY <2>3, <2>4, PieceNumbers
  <2> QED BY <2>2, <2>5 DEF p
<1>6. WholeMessages(s) = [k \in 1..q |-> <<c, (b \div Frags) + k>>]
  BY <1>3, <1>5
<1> QED
  BY <1>6 DEF s, q

-----------------------------------------------------------------------------
(* Who owns a connection.                                                  *)

Queued(c) == \E k \in 1..Len(backlog) : backlog[k] = c
Accepted(c) == \E f \in ClientFds : conn[f] = c

\* The listening queue and the descriptor table hold a connection once, and
\* only one that has been made.
OneOwner ==
  /\ \A k, l \in 1..Len(backlog) : backlog[k] = backlog[l] => k = l
  /\ \A f, g \in ClientFds : conn[f] # NoConn /\ conn[f] = conn[g] => f = g
  /\ \A c \in Conns : Queued(c) => ~Accepted(c)
  /\ \A c \in Conns : Queued(c) \/ Accepted(c) => cstate[c] # "idle"

\* Nothing has been sent to, or read from, a client that is not accepted yet.
Fresh ==
  \A c \in Conns : ~Accepted(c) /\ (Queued(c) \/ cstate[c] = "idle") =>
                     got[c] = <<>> /\ toClient[c] = <<>> /\ taken[c] = 0

\* What the server holds of the message it is in the middle of, from where
\* that began.
Start(c) == taken[c] - (taken[c] % Frags)
Fragment(c) == Run(c, Start(c), taken[c] % Frags)
FragmentHeld ==
  \A i \in LiveSlots : \A c \in Conns : conn[fd[i]] = c => rbuf[i] = Fragment(c)

Ownership == OneOwner /\ Fresh /\ FragmentHeld

\* accept() moves the head of the queue to a free descriptor and slot.
LEMMA AcceptFacts ==
  ASSUME IInv, Accept
  PROVE  \E slot \in Slots, f \in ClientFds :
           /\ slot \notin LiveSlots /\ conn[f] = NoConn /\ f \notin LiveFds
           /\ backlog # <<>> /\ Head(backlog) \in Conns
           /\ conn' = [conn EXCEPT ![f] = Head(backlog)]
           /\ fd' = [fd EXCEPT ![slot] = f]
           /\ LiveSlots' = LiveSlots \union {slot}
<1> DEFINE new_fd == CHOOSE f \in FreeFds : \A g \in FreeFds : f <= g
           slot == UnusedSlot
<1>1. /\ conn' = [conn EXCEPT ![new_fd] = Head(backlog)]
      /\ fd' = [fd EXCEPT ![slot] = new_fd]
      /\ pc = "accept"
  BY DEF Accept
<1>2. new_fd \in FreeFds
  <2>1. FreeFds \in SUBSET Nat /\ FreeFds # {}
    BY FdAssumption DEF FreeFds, Accept
  <2> QED BY <2>1, LeastElement
<1>3. slot \in Slots /\ slot \notin LiveSlots
  BY UnusedSlotFacts DEF Accept
<1> HIDE DEF new_fd, slot
<1>4. new_fd \in ClientFds /\ conn[new_fd] = NoConn /\ new_fd # -1 /\ new_fd \notin LiveFds
  BY <1>2, FdAssumption DEF FreeFds, IInv, FdTables, SlotsOpen
<1>5. backlog # <<>> /\ Head(backlog) \in Conns
  BY <1>1, HeadTailProperties DEF IInv, TypeOK, AcceptPending
<1>6. LiveSlots' = LiveSlots \union {slot}
  BY <1>1, <1>3, <1>4 DEF LiveSlots, IInv, TypeOK
<1> QED
  BY <1>1, <1>3, <1>4, <1>5, <1>6

\* A closing slot takes its own connection with it and no other.
LEMMA CloseFacts ==
  ASSUME IInv, NEW i \in Slots, Turn(i), CloseSlot(i)
  PROVE  /\ i \in LiveSlots /\ LiveSlots' = LiveSlots \ {i}
         /\ fd[i] \in ClientFds /\ conn' = [conn EXCEPT ![fd[i]] = NoConn]
         /\ \A j \in LiveSlots' : /\ j \in LiveSlots /\ fd'[j] = fd[j] /\ fd[j] # fd[i]
                                  /\ conn'[fd[j]] = conn[fd[j]]
                                  /\ rbuf'[j] = rbuf[j] /\ wbuf'[j] = wbuf[j]
<1>1. i \in LiveSlots /\ fd[i] \in ClientFds /\ fd[i] # -1
  BY TurnFacts, LiveSlotFacts
<1>2. /\ fd' = [fd EXCEPT ![i] = -1] /\ conn' = [conn EXCEPT ![fd[i]] = NoConn]
      /\ rbuf' = [rbuf EXCEPT ![i] = <<>>] /\ wbuf' = [wbuf EXCEPT ![i] = <<>>]
  BY DEF CloseSlot, ResetWbuf
<1>3. LiveSlots' = LiveSlots \ {i}
  BY <1>2 DEF LiveSlots, IInv, TypeOK
<1>4. \A j \in LiveSlots : j \in Slots /\ fd[j] \in ClientFds
  BY DEF LiveSlots, IInv, TypeOK
<1>5. \A j \in LiveSlots : fd[j] = fd[i] => j = i
  BY <1>1 DEF IInv, FdTables, SlotsDistinct
<1> QED
  BY <1>1, <1>2, <1>3, <1>4, <1>5 DEF IInv, TypeOK

\* A step that neither queues nor accepts nor closes.
LEMMA FrameOwnership ==
  ASSUME IInv, Ownership,
         UNCHANGED <<backlog, conn, fd, rbuf, taken>>,
         \A c \in Conns : /\ cstate'[c] = "idle" <=> cstate[c] = "idle"
                          /\ got[c] = <<>> /\ toClient[c] = <<>> => got'[c] = got[c] /\ toClient'[c] = toClient[c]
  PROVE  Ownership'
<1>1. LiveSlots' = LiveSlots
  BY DEF LiveSlots
<1>2. \A c \in Conns : (Queued(c)' <=> Queued(c)) /\ (Accepted(c)' <=> Accepted(c))
  BY DEF Queued, Accepted
<1>3. OneOwner'
  BY <1>2 DEF Ownership, OneOwner
<1>4. Fresh'
  BY <1>2 DEF Ownership, Fresh
<1>5. FragmentHeld'
  BY <1>1 DEF Ownership, FragmentHeld, Fragment, Start
<1> QED
  BY <1>3, <1>4, <1>5 DEF Ownership

LEMMA ConnectOwnership ==
  ASSUME IInv, Ownership, NEW c \in Conns, Connect(c)
  PROVE  Ownership'
<1>1. /\ cstate[c] = "idle" /\ cstate' = [cstate EXCEPT ![c] = "open"]
      /\ backlog' = Append(backlog, c)
      /\ UNCHANGED <<fd, rbuf, conn, toClient, submitted, taken, got>>
  BY DEF Connect, procVars
<1>2. /\ Len(backlog) \in Nat /\ Len(backlog') = Len(backlog) + 1
      /\ \A k \in 1..Len(backlog) : backlog'[k] = backlog[k]
      /\ backlog'[Len(backlog) + 1] = c
  BY <1>1, AppendProperties, LenProperties DEF IInv, TypeOK
<1>3. ~Queued(c) /\ ~Accepted(c)
  BY <1>1 DEF Ownership, OneOwner
<1>4. \A d \in Conns : /\ Accepted(d)' <=> Accepted(d)
                       /\ Queued(d)' <=> Queued(d) \/ d = c
  <2> SUFFICES ASSUME NEW d \in Conns
               PROVE  (Accepted(d)' <=> Accepted(d)) /\ (Queued(d)' <=> Queued(d) \/ d = c)
    OBVIOUS
  <2>1. Accepted(d)' <=> Accepted(d)
    BY <1>1 DEF Accepted
  <2>2. Queued(d)' => Queued(d) \/ d = c
    BY <1>2 DEF Queued
  <2>3. Queued(d) => Queued(d)'
    BY <1>2 DEF Queued
  <2>4. Queued(c)'
    BY <1>2 DEF Queued
  <2> QED BY <2>1, <2>2, <2>3, <2>4
<1>5. \A d \in Conns : cstate'[d] = IF d = c THEN "open" ELSE cstate[d]
  BY <1>1 DEF IInv, TypeOK
<1>6. OneOwner'
  <2>1. ASSUME NEW k \in 1..Len(backlog'), NEW l \in 1..Len(backlog'), backlog'[k] = backlog'[l]
        PROVE  k = l
    <3>1. \A m \in 1..Len(backlog') : m \in 1..Len(backlog) \/ m = Len(backlog) + 1
      BY <1>2
    <3>2. \A m \in 1..Len(backlog) : backlog[m] # c
      BY <1>3 DEF Queued
    <3> QED BY <1>2, <2>1, <3>1, <3>2 DEF Ownership, OneOwner
  <2>2. \A f, g \in ClientFds : conn'[f] # NoConn /\ conn'[f] = conn'[g] => f = g
    BY <1>1 DEF Ownership, OneOwner
  <2>3. \A d \in Conns : Queued(d)' => ~Accepted(d)'
    BY <1>3, <1>4 DEF Ownership, OneOwner
  <2>4. \A d \in Conns : Queued(d)' \/ Accepted(d)' => cstate'[d] # "idle"
    BY <1>4, <1>5 DEF Ownership, OneOwner
  <2> QED BY <2>1, <2>2, <2>3, <2>4 DEF OneOwner
<1>7. Fresh'
  BY <1>1, <1>3, <1>4, <1>5 DEF Ownership, Fresh
<1>8. FragmentHeld'
  BY <1>1 DEF Ownership, FragmentHeld, Fragment, Start, LiveSlots
<1> QED
  BY <1>6, <1>7, <1>8 DEF Ownership

LEMMA AcceptOwnership ==
  ASSUME IInv, Ownership, Accept
  PROVE  Ownership'
<1>1. PICK slot \in Slots, f \in ClientFds, c \in Conns :
           /\ slot \notin LiveSlots /\ conn[f] = NoConn /\ f \notin LiveFds
           /\ backlog # <<>> /\ c = Head(backlog)
           /\ conn' = [conn EXCEPT ![f] = c]
           /\ fd' = [fd EXCEPT ![slot] = f]
           /\ LiveSlots' = LiveSlots \union {slot}
  BY AcceptFacts
<1>2. backlog' = Tail(backlog) /\ UNCHANGED <<rbuf, wbuf, sent, toClient, cstate, submitted, taken, got>>
  BY DEF Accept, clientVars
<1>3. /\ Len(backlog) \in Nat \ {0} /\ Len(backlog') = Len(backlog) - 1 /\ c = backlog[1]
      /\ \A k \in 1..Len(backlog') : backlog'[k] = backlog[k + 1]
  <2>1. backlog \in Seq(Conns)
    BY DEF IInv, TypeOK
  <2>2. Len(backlog) \in Nat \ {0}
    BY <1>1, <2>1, EmptySeq
  <2>3. Len(backlog') = Len(backlog) - 1 /\ \A k \in 1..Len(backlog') : backlog'[k] = backlog[k + 1]
    BY <1>1, <1>2, <2>1, HeadTailProperties
  <2>4. c = backlog[1]
    BY <1>1, <2>1
  <2> QED BY <2>2, <2>3, <2>4
<1>4. Queued(c) /\ ~Accepted(c) /\ cstate[c] # "idle"
  <2>1. Queued(c)
    BY <1>3 DEF Queued
  <2> QED BY <1>1, <2>1 DEF Ownership, OneOwner
<1>5. c # NoConn /\ \A g \in ClientFds : conn'[g] = IF g = f THEN c ELSE conn[g]
  BY <1>1, FdAssumption DEF IInv, TypeOK
<1>6. \A k \in 1..Len(backlog') : k + 1 \in 1..Len(backlog) /\ k + 1 # 1
  BY <1>3
<1>7. ASSUME NEW d \in Conns
      PROVE  /\ Queued(d)' => Queued(d) /\ d # c
             /\ Accepted(d)' => Accepted(d) \/ d = c
             /\ Accepted(d) => Accepted(d)'
  <2>1. ASSUME NEW k \in 1..Len(backlog'), backlog'[k] = d PROVE Queued(d) /\ d # c
    <3>1. backlog[k + 1] = d /\ k + 1 \in 1..Len(backlog) /\ k + 1 # 1
      BY <1>3, <1>6, <2>1
    <3>2. 1 \in 1..Len(backlog)
      BY <1>3
    <3>3. backlog[1] # d
      BY <3>1, <3>2 DEF Ownership, OneOwner
    <3> QED BY <1>3, <3>1, <3>3 DEF Queued
  <2>2. Queued(d)' => Queued(d) /\ d # c
    BY <2>1 DEF Queued
  <2>3. Accepted(d)' => Accepted(d) \/ d = c
    BY <1>5 DEF Accepted
  <2>4. Accepted(d) => Accepted(d)'
    <3>1. d # NoConn
      BY FdAssumption
    <3> QED BY <1>1, <1>5, <3>1 DEF Accepted
  <2> QED BY <2>2, <2>3, <2>4
<1>8. Accepted(c)'
  BY <1>5 DEF Accepted
<1>9. OneOwner'
  <2>1. \A k, l \in 1..Len(backlog') : backlog'[k] = backlog'[l] => k = l
    <3> SUFFICES ASSUME NEW k \in 1..Len(backlog'), NEW l \in 1..Len(backlog'), backlog'[k] = backlog'[l]
                 PROVE  k = l
      OBVIOUS
    <3>1. k + 1 = l + 1
      BY <1>3, <1>6 DEF Ownership, OneOwner
    <3> QED BY <1>3, <3>1
  <2>2. \A g, h \in ClientFds : conn'[g] # NoConn /\ conn'[g] = conn'[h] => g = h
    BY <1>4, <1>5 DEF Ownership, OneOwner, Accepted
  <2>3. \A d \in Conns : Queued(d)' => ~Accepted(d)'
    BY <1>7 DEF Ownership, OneOwner
  <2>4. \A d \in Conns : Queued(d)' \/ Accepted(d)' => cstate'[d] # "idle"
    BY <1>2, <1>4, <1>7 DEF Ownership, OneOwner
  <2> QED BY <2>1, <2>2, <2>3, <2>4 DEF OneOwner
<1>10. Fresh'
  BY <1>2, <1>7 DEF Ownership, Fresh
<1>11. FragmentHeld'
  <2>1. ASSUME NEW i \in LiveSlots, NEW d \in Conns, conn'[fd'[i]] = d
        PROVE  rbuf'[i] = Fragment(d)'
    <3>1. i # slot /\ i \in Slots /\ fd[i] \in LiveFds /\ fd[i] \in ClientFds
      BY <1>1, LiveSlotFacts
    <3>2. fd'[i] = fd[i] /\ conn'[fd'[i]] = conn[fd[i]]
      BY <1>1, <1>5, <3>1 DEF IInv, TypeOK
    <3> QED BY <1>2, <2>1, <3>2 DEF Ownership, FragmentHeld, Fragment, Start
  <2>2. conn'[fd'[slot]] = c /\ rbuf'[slot] = Fragment(c)'
    <3>1. fd'[slot] = f /\ conn'[f] = c
      BY <1>1, <1>5 DEF IInv, TypeOK
    <3>2. rbuf'[slot] = <<>> /\ taken'[c] = 0
      BY <1>1, <1>2, <1>4 DEF IInv, PendingWritesArmed, Ownership, Fresh
    <3>3. 0 % Frags = 0
      BY SizeAssumption
    <3>4. Fragment(c)' = Run(c, 0, 0)
      BY <3>2, <3>3 DEF Fragment, Start
    <3>5. Run(c, 0, 0) = <<>>
      BY DEF Run
    <3> QED BY <3>1, <3>2, <3>4, <3>5
  <2> QED BY <1>1, <2>1, <2>2 DEF FragmentHeld
<1> QED
  BY <1>9, <1>10, <1>11 DEF Ownership

LEMMA CloseOwnership ==
  ASSUME IInv, Ownership, NEW i \in Slots, Turn(i), CloseSlot(i),
         UNCHANGED <<backlog, toClient, clientVars>>
  PROVE  Ownership'
<1>1. /\ i \in LiveSlots /\ LiveSlots' = LiveSlots \ {i}
      /\ fd[i] \in ClientFds /\ conn' = [conn EXCEPT ![fd[i]] = NoConn]
      /\ \A j \in LiveSlots' : /\ j \in LiveSlots /\ fd'[j] = fd[j] /\ fd[j] # fd[i]
                               /\ conn'[fd[j]] = conn[fd[j]]
                               /\ rbuf'[j] = rbuf[j] /\ wbuf'[j] = wbuf[j]
  BY CloseFacts
<1>2. UNCHANGED <<backlog, toClient, cstate, taken, got>>
  BY DEF clientVars
<1>3. \A g \in ClientFds : conn'[g] = IF g = fd[i] THEN NoConn ELSE conn[g]
  BY <1>1 DEF IInv, TypeOK
<1>4. conn[fd[i]] \in Conns
  BY <1>1, LiveSlotFacts
<1>5. \A d \in Conns : /\ Queued(d)' <=> Queued(d)
                       /\ Accepted(d)' => Accepted(d)
                       /\ Accepted(d) /\ d # conn[fd[i]] => Accepted(d)'
  BY <1>2, <1>3, FdAssumption DEF Queued, Accepted
<1>6. Accepted(conn[fd[i]])
  BY <1>1 DEF Accepted
<1>7. OneOwner'
  BY <1>2, <1>3, <1>5 DEF Ownership, OneOwner
<1>8. Fresh'
  BY <1>2, <1>4, <1>5, <1>6 DEF Ownership, OneOwner, Fresh
<1>9. FragmentHeld'
  BY <1>1, <1>2 DEF Ownership, FragmentHeld, Fragment, Start
<1> QED
  BY <1>7, <1>8, <1>9 DEF Ownership

LEMMA StopOwnership ==
  ASSUME IInv, Ownership, NEW how \in {"exited", "crashed"}, StopProcess(how)
  PROVE  Ownership'
<1>1. /\ conn' = [f \in ClientFds |-> NoConn] /\ backlog' = <<>> /\ LiveSlots' = {}
      /\ UNCHANGED <<toClient, cstate, taken, got>>
  BY DEF StopProcess, LiveSlots, clientVars
<1>2. \A c \in Conns : ~Queued(c)' /\ ~Accepted(c)'
  <2>1. 1..Len(backlog') = {}
    BY <1>1
  <2> QED BY <1>1, <2>1, FdAssumption DEF Queued, Accepted
<1>3. OneOwner'
  BY <1>1, <1>2 DEF OneOwner
<1>4. Fresh'
  <2>1. \A c \in Conns : cstate[c] = "idle" => ~Accepted(c)
    BY DEF Ownership, OneOwner
  <2> QED BY <1>1, <1>2, <2>1 DEF Ownership, Fresh
<1>5. FragmentHeld'
  BY <1>1 DEF FragmentHeld
<1> QED
  BY <1>3, <1>4, <1>5 DEF Ownership

\* The pieces of client c that a read of n pieces completes: whole messages,
\* the one it is in the middle of first.
Completed(c, n) ==
  LET seen == (taken[c] % Frags) + n
  IN  Run(c, Start(c), seen - (seen % Frags))

\* What a read completes is whole messages, the next q of their sender.
LEMMA CompletedFacts ==
  ASSUME IInv, NEW c \in Conns, NEW n \in 1..ReadMax, NEW q,
         q = ((taken[c] % Frags) + n) \div Frags
  PROVE  /\ Completed(c, n) \in Seq(Pieces)
         /\ WellFramed(Completed(c, n)) /\ Len(Completed(c, n)) % Frags = 0
         /\ WholeMessages(Completed(c, n)) = [k \in 1..q |-> <<c, (taken[c] \div Frags) + k>>]
         /\ q \in 0..ReadMax /\ (q = 0 => Completed(c, n) = <<>>)
         /\ (taken[c] + n) \div Frags = (taken[c] \div Frags) + q
<1> DEFINE m == taken[c] % Frags
           b == taken[c] - m
           seen == m + n
           rest == seen % Frags
           len == seen - rest
<1>1. n \in Nat /\ taken[c] \in Nat /\ Frags \in Nat \ {0} /\ ReadMax \in Nat /\ n <= ReadMax
  BY SizeAssumption DEF IInv, TypeOK
<1>2. /\ m \in 0..(Frags - 1) /\ b \in Nat /\ b + m = taken[c]
      /\ b % Frags = 0 /\ b \div Frags = taken[c] \div Frags
  <2>1. m \in 0..(Frags - 1)
    BY <1>1, DivMod
  <2>2. b \in 0..taken[c] /\ b % Frags = 0 /\ b \div Frags = taken[c] \div Frags
    BY <1>1, CutToWhole
  <2> HIDE DEF m
  <2> QED BY <1>1, <2>1, <2>2
<1>3. Completed(c, n) = Run(c, b, len)
  BY DEF Completed, Start
<1> HIDE DEF m, b
<1>4. seen \in Nat /\ m \in Nat /\ taken[c] + n = b + seen
  <2>1. m \in Nat /\ b \in Nat /\ n \in Nat /\ b + m = taken[c]
    BY <1>1, <1>2
  <2> QED BY <2>1
<1>5. q = seen \div Frags
  BY DEF m
<1> HIDE DEF seen
<1>6. /\ len \in Nat /\ len % Frags = 0 /\ len \div Frags = q
      /\ q \in Nat /\ rest \in 0..(Frags - 1) /\ seen = Frags * q + rest
  <2>1. len \in 0..seen /\ len % Frags = 0 /\ len \div Frags = q
    BY <1>4, <1>5, CutToWhole
  <2>2. q \in Nat /\ rest \in 0..(Frags - 1) /\ seen = Frags * q + rest
    BY <1>4, <1>5, DivMod
  <2> HIDE DEF len
  <2> QED BY <1>4, <2>1, <2>2
<1> HIDE DEF rest
<1>7. (taken[c] + n) \div Frags = (taken[c] \div Frags) + q
  <2>1. (b + seen) \div Frags = (b \div Frags) + (seen \div Frags)
    BY <1>2, <1>4, ModShift
  <2> QED BY <1>2, <1>4, <1>5, <2>1
<1>8. q = 0 => len = 0
  BY <1>1, <1>4, <1>6
<1> HIDE DEF len
<1>9. /\ Completed(c, n) \in Seq(Pieces) /\ Len(Completed(c, n)) = len
      /\ WellFramed(Completed(c, n))
      /\ WholeMessages(Completed(c, n)) = [k \in 1..q |-> <<c, (taken[c] \div Frags) + k>>]
  <2>1. Run(c, b, len) \in Seq(Pieces) /\ Len(Run(c, b, len)) = len
    BY <1>2, <1>6, RunType
  <2>2. WellFramed(Run(c, b, len))
    BY <1>2, <1>6, RunFramed
  <2>3. WholeMessages(Run(c, b, len)) = [k \in 1..(len \div Frags) |-> <<c, (b \div Frags) + k>>]
    BY <1>2, <1>6, WholeMessagesOfRun
  <2> QED BY <1>2, <1>3, <1>6, <2>1, <2>2, <2>3
<1>10. q <= ReadMax
  <2> SUFFICES ASSUME ~(q <= ReadMax) PROVE FALSE
    OBVIOUS
  <2>1. PICK d \in Nat : q = ReadMax + 1 + d
    BY <1>1, <1>6
  <2>2. PICK e \in Nat : Frags = e + 1
    BY <1>1
  <2> DEFINE x == e * ReadMax
             y == Frags * d
  <2>3. Frags * q = x + ReadMax + Frags + y
    BY <1>1, <2>1, <2>2
  <2>4. x \in Nat /\ y \in Nat
    BY <1>1, <2>1, <2>2
  <2> HIDE DEF x, y
  <2>5. seen = x + ReadMax + Frags + y + rest
    BY <1>6, <2>3
  <2>6. seen <= (Frags - 1) + ReadMax
    BY <1>1, <1>2 DEF seen
  <2> QED BY <1>1, <1>6, <2>4, <2>5, <2>6
<1>11. len = 0 => Completed(c, n) = <<>>
  BY <1>9, EmptySeq
<1> QED
  BY <1>6, <1>7, <1>8, <1>9, <1>10, <1>11

\* read() returns n pieces of client c: what they complete goes to every
\* other slot, and the rest stays.
LEMMA FragmentFacts ==
  ASSUME IInv, Ownership, NEW i \in Slots, ReadFragment(i)
  PROVE  \E c \in Conns, n \in 1..ReadMax :
           /\ i \in LiveSlots /\ conn[fd[i]] = c
           /\ taken' = [taken EXCEPT ![c] = taken[c] + n]
           /\ \A j \in LiveSlots :
                /\ rbuf'[j] = IF j = i THEN Fragment(c)' ELSE rbuf[j]
                /\ wbuf'[j] = IF j = i THEN wbuf[j] ELSE wbuf[j] \o Completed(c, n)
           /\ UNCHANGED <<pc, fd, sent, conn, backlog, toClient, cstate, got>>
<1> DEFINE c == conn[fd[i]]
           n == IF InFlight(c) <= ReadMax THEN InFlight(c) ELSE ReadMax
           buf == rbuf[i] \o [k \in 1..n |-> Piece(c, taken[c] + k)]
           len == CompleteLen(buf)
           m == taken[c] % Frags
           b == taken[c] - m
           seen == m + n
           rest == seen % Frags
<1>1. /\ ReadTurn(i) /\ InFlight(c) > 0
      /\ taken' = [taken EXCEPT ![c] = taken[c] + n]
      /\ rbuf' = [rbuf EXCEPT ![i] = Shift(buf, len)]
      /\ wbuf' = [j \in Slots |-> IF j \in Receivers(i) THEN wbuf[j] \o SubSeq(buf, 1, len) ELSE wbuf[j]]
      /\ UNCHANGED <<pc, fd, sent, kernelVars, cstate, got>>
  BY DEF ReadFragment
<1>2. i \in LiveSlots /\ c \in Conns
  BY <1>1, TurnFacts, LiveSlotFacts DEF ReadTurn
<1>3. n \in 1..ReadMax /\ taken[c] \in Nat /\ taken \in [Conns -> Nat]
  <2>1. taken[c] \in Nat /\ submitted[c] \in Nat /\ taken \in [Conns -> Nat]
    BY <1>2 DEF IInv, TypeOK
  <2>2. submitted[c] - taken[c] > 0 /\ ReadMax \in Nat \ {0}
    BY <1>1, SizeAssumption DEF InFlight
  <2> QED BY <2>1, <2>2 DEF InFlight
<1> HIDE DEF n
<1>4. /\ m \in 0..(Frags - 1) /\ b \in Nat /\ b % Frags = 0 /\ b + m = taken[c]
      /\ m \in Nat /\ seen \in Nat /\ n \in Nat
  <2>1. m \in 0..(Frags - 1)
    BY <1>3, DivMod
  <2>2. b \in 0..taken[c] /\ b % Frags = 0
    BY <1>3, CutToWhole
  <2>3. m \in Nat
    BY <2>1, SizeAssumption
  <2> HIDE DEF m
  <2> QED BY <1>3, <2>1, <2>2, <2>3
<1>5. rest \in Nat /\ seen - rest \in 0..seen /\ seen - (seen - rest) = rest
  <2>1. rest \in 0..(Frags - 1) /\ seen - rest \in 0..seen
    BY <1>4, DivMod, CutToWhole
  <2>2. rest \in Nat
    BY <2>1, SizeAssumption
  <2> HIDE DEF rest, seen
  <2> QED BY <1>4, <2>1, <2>2
<1>6. buf = Run(c, b, seen)
  <2>1. rbuf[i] = Run(c, b, m)
    BY <1>2 DEF Ownership, FragmentHeld, Fragment, Start
  <2>2. [k \in 1..n |-> Piece(c, taken[c] + k)] = Run(c, b + m, n)
    BY <1>4 DEF Run
  <2>3. Run(c, b, m) \o Run(c, b + m, n) = Run(c, b, m + n)
    BY <1>2, <1>4, RunConcat
  <2> QED BY <2>1, <2>2, <2>3
<1>7. len = seen - rest
  BY ZenonT(40), <1>2, <1>4, <1>6, CompleteLenOfRun
<1>8. SubSeq(buf, 1, len) = Completed(c, n) /\ Shift(buf, len) = Run(c, b + (seen - rest), rest)
  <2>1. Completed(c, n) = Run(c, b, seen - rest)
    BY DEF Completed, Start
  <2> HIDE DEF buf, len, b, m, seen, rest, c
  <2>2. /\ SubSeq(Run(c, b, seen), 1, seen - rest) = Run(c, b, seen - rest)
        /\ Shift(Run(c, b, seen), seen - rest) = Run(c, b + (seen - rest), seen - (seen - rest))
    BY <1>2, <1>4, <1>5, RunParts
  <2> QED BY <1>5, <1>6, <1>7, <2>1, <2>2
<1>9. Shift(buf, len) = Run(c, (taken[c] + n) - ((taken[c] + n) % Frags), (taken[c] + n) % Frags)
  <2>1. taken[c] + n = b + seen
    BY <1>3, <1>4
  <2>2. (b + seen) % Frags = rest
    BY <1>4, ModShift
  <2>3. (b + seen) - rest = b + (seen - rest)
    BY <1>4, <1>5
  <2> QED BY <1>8, <2>1, <2>2, <2>3
<1> HIDE DEF buf, len, m, b, seen, rest
<1>10. \A j \in LiveSlots : j \in Slots /\ (j \in Receivers(i) <=> j # i)
  BY <1>2 DEF Receivers, IInv, FdTables, SlotsDistinct, LiveSlots
<1>11. \A d \in Conns : d = c => taken'[d] = taken[d] + n
  BY <1>1, <1>3
<1>12. ASSUME NEW d \in Conns, d = c PROVE Shift(buf, len) = Fragment(d)'
  BY <1>9, <1>11, <1>12 DEF Fragment, Start
<1>13. \A j \in LiveSlots : wbuf'[j] = IF j = i THEN wbuf[j] ELSE wbuf[j] \o Completed(c, n)
  BY <1>1, <1>8, <1>10
<1>14. \A j \in LiveSlots : rbuf'[j] = IF j = i THEN Shift(buf, len) ELSE rbuf[j]
  BY <1>1, <1>10 DEF IInv, TypeOK
<1>15. PICK d \in Conns : d = c
  BY <1>2
<1> HIDE DEF c
<1>16. /\ i \in LiveSlots /\ conn[fd[i]] = d
       /\ taken' = [taken EXCEPT ![d] = taken[d] + n]
       /\ \A j \in LiveSlots :
            /\ rbuf'[j] = IF j = i THEN Fragment(d)' ELSE rbuf[j]
            /\ wbuf'[j] = IF j = i THEN wbuf[j] ELSE wbuf[j] \o Completed(d, n)
       /\ UNCHANGED <<pc, fd, sent, conn, backlog, toClient, cstate, got>>
  BY <1>1, <1>2, <1>12, <1>13, <1>14, <1>15 DEF c, kernelVars
<1> QED
  BY <1>3, <1>16

LEMMA ReadOwnership ==
  ASSUME IInv, Ownership, NEW i \in Slots, ReadFragment(i)
  PROVE  Ownership'
<1>1. PICK c \in Conns, n \in 1..ReadMax :
           /\ i \in LiveSlots /\ conn[fd[i]] = c
           /\ taken' = [taken EXCEPT ![c] = taken[c] + n]
           /\ \A j \in LiveSlots :
                /\ rbuf'[j] = IF j = i THEN Fragment(c)' ELSE rbuf[j]
                /\ wbuf'[j] = IF j = i THEN wbuf[j] ELSE wbuf[j] \o Completed(c, n)
           /\ UNCHANGED <<pc, fd, sent, conn, backlog, toClient, cstate, got>>
  BY FragmentFacts
<1>2. LiveSlots' = LiveSlots /\ \A d \in Conns : (Queued(d)' <=> Queued(d)) /\ (Accepted(d)' <=> Accepted(d))
  BY <1>1 DEF LiveSlots, Queued, Accepted
<1>3. \A d \in Conns : d # c => taken'[d] = taken[d]
  BY <1>1 DEF IInv, TypeOK
<1>4. \A j \in LiveSlots : j # i => conn[fd[j]] # c
  BY <1>1, LiveSlotFacts, FdAssumption DEF Ownership, OneOwner, IInv, FdTables, SlotsDistinct
<1>5. Accepted(c)
  BY <1>1, LiveSlotFacts DEF Accepted
<1>6. OneOwner' /\ Fresh'
  BY <1>1, <1>2, <1>3, <1>5 DEF Ownership, OneOwner, Fresh
<1>7. FragmentHeld'
  <2> SUFFICES ASSUME NEW j \in LiveSlots, NEW d \in Conns, conn[fd[j]] = d
               PROVE  rbuf'[j] = Fragment(d)'
    BY <1>1, <1>2 DEF FragmentHeld
  <2>1. CASE j = i
    BY <1>1, <2>1
  <2>2. CASE j # i
    BY <1>1, <1>3, <1>4, <2>2 DEF Ownership, FragmentHeld, Fragment, Start
  <2> QED BY <2>1, <2>2
<1> QED
  BY <1>6, <1>7 DEF Ownership

LEMMA ClientOwnership ==
  ASSUME IInv, Ownership, NEW c \in Conns, ClientStep(c)
  PROVE  Ownership'
<1>1. CASE Connect(c)
  BY <1>1, ConnectOwnership
<1>2. CASE Send(c)
  BY <1>2, FrameOwnership DEF Send, procVars, kernelVars
<1>3. CASE Receive(c)
  <2>1. \A d \in Conns : d # c => got'[d] = got[d] /\ toClient'[d] = toClient[d]
    BY <1>3 DEF Receive, IInv, TypeOK
  <2> QED BY <1>3, <2>1, FrameOwnership DEF Receive, procVars
<1>4. CASE Leave(c)
  <2>1. \A d \in Conns : /\ cstate'[d] = "idle" <=> cstate[d] = "idle"
                         /\ toClient'[d] = IF d = c THEN <<>> ELSE toClient[d]
    BY <1>4 DEF Leave, IInv, TypeOK
  <2> QED BY <1>4, <2>1, FrameOwnership DEF Leave, procVars
<1> QED
  BY <1>1, <1>2, <1>3, <1>4 DEF ClientStep

LEMMA WriteOwnership ==
  ASSUME IInv, Ownership, NEW i \in Slots,
         (\E n \in 1..SockRoom : WriteAccepted(i, n)) \/ WriteAgain(i)
  PROVE  Ownership'
<1>1. CASE WriteAgain(i)
  BY <1>1, FrameOwnership DEF WriteAgain, kernelVars, clientVars
<1>2. ASSUME NEW n \in 1..SockRoom, WriteAccepted(i, n) PROVE Ownership'
  <2>1. i \in LiveSlots /\ fd[i] \in ClientFds /\ conn[fd[i]] \in Conns
    BY <1>2, WritePending, LiveSlotFacts DEF WriteAccepted
  <2>2. Accepted(conn[fd[i]])
    BY <2>1 DEF Accepted
  <2>3. \A d \in Conns : d # conn[fd[i]] => toClient'[d] = toClient[d]
    BY <1>2 DEF WriteAccepted, IInv, TypeOK
  <2>4. UNCHANGED <<backlog, conn, fd, rbuf, cstate, taken, got>>
    BY <1>2 DEF WriteAccepted, clientVars
  <2>5. LiveSlots' = LiveSlots
        /\ \A c \in Conns : (Queued(c)' <=> Queued(c)) /\ (Accepted(c)' <=> Accepted(c))
    BY <2>4 DEF LiveSlots, Queued, Accepted
  <2>6. OneOwner' /\ Fresh'
    BY <2>2, <2>3, <2>4, <2>5 DEF Ownership, OneOwner, Fresh
  <2>7. FragmentHeld'
    BY <2>4, <2>5 DEF Ownership, FragmentHeld, Fragment, Start
  <2> QED BY <2>6, <2>7 DEF Ownership
<1> QED
  BY <1>1, <1>2

LEMMA InitOwnership == Init => Ownership
<1> SUFFICES ASSUME Init PROVE Ownership
  OBVIOUS
<1>1. 1..Len(backlog) = {} /\ LiveSlots = {}
  BY DEF Init, LiveSlots
<1>2. \A c \in Conns : ~Accepted(c)
  BY FdAssumption DEF Init, Accepted
<1> QED
  BY <1>1, <1>2 DEF Init, Ownership, OneOwner, Fresh, FragmentHeld, Queued

LEMMA NextOwnership == IInv /\ Ownership /\ [Next]_vars => Ownership'
<1> SUFFICES ASSUME IInv, Ownership, [Next]_vars PROVE Ownership'
  OBVIOUS
<1>1. CASE Select \/ AcceptFails \/ NextPass
  BY <1>1, FrameOwnership DEF Select, AcceptFails, NextPass, kernelVars, clientVars
<1>2. CASE Accept
  BY <1>2, AcceptOwnership
<1>3. ASSUME NEW i \in Slots, (\E n \in 1..SockRoom : WriteAccepted(i, n)) \/ WriteAgain(i)
      PROVE  Ownership'
  BY <1>3, WriteOwnership
<1>4. ASSUME NEW i \in Slots, WriteEpipe(i) \/ ReadEof(i) PROVE Ownership'
  BY <1>4, CloseOwnership DEF WriteEpipe, ReadEof, WriteTurn, ReadTurn
<1>5. ASSUME NEW i \in Slots, WriteEpipeAfterPartialWrite(i) PROVE Ownership'
  BY <1>5, StopOwnership DEF WriteEpipeAfterPartialWrite
<1>6. CASE Exit
  BY <1>6, StopOwnership DEF Exit
<1>7. ASSUME NEW i \in Slots, ReadFragment(i) PROVE Ownership'
  BY <1>7, ReadOwnership
<1>8. ASSUME NEW c \in Conns, ClientStep(c) PROVE Ownership'
  BY <1>8, ClientOwnership
<1>9. CASE Finished \/ UNCHANGED vars
  <2>1. UNCHANGED vars
    BY <1>9 DEF Finished
  <2> QED BY <2>1, FrameOwnership DEF vars, procVars, kernelVars, clientVars
<1> QED
  BY <1>1, <1>2, <1>3, <1>4, <1>5, <1>6, <1>7, <1>8, <1>9 DEF Next, ServerStep

-----------------------------------------------------------------------------
(* What the clients are promised, and how a step changes it.               *)

LEMMA Regroup ==
  ASSUME NEW s \in Seq(Pieces), NEW t \in Seq(Pieces), NEW u \in Seq(Pieces)
  PROVE  (s \o t) \o u = s \o (t \o u)
  BY ConcatAssociative

\* A member's stream ends in the write buffer of the one slot it has.
StreamViews ==
  /\ \A i \in LiveSlots : Unwritten(i) \in Seq(Pieces) /\ (sent = 0 => Unwritten(i) = wbuf[i])
  /\ \A i, j \in LiveSlots : conn[fd[i]] = conn[fd[j]] => i = j
  /\ \A c \in Conns :
       /\ c \in Members <=> (cstate[c] = "open" /\ \E i \in LiveSlots : conn[fd[i]] = c)
       /\ c \notin Members => Stream(c) = got[c] \o toClient[c]
       /\ \A i \in LiveSlots : c \in Members /\ conn[fd[i]] = c =>
                                 Stream(c) = (got[c] \o toClient[c]) \o Unwritten(i)
       /\ got[c] \o toClient[c] \in Seq(Pieces) /\ Stream(c) \in Seq(Pieces)

LEMMA Views == IInv /\ Ownership => StreamViews
<1> SUFFICES ASSUME IInv, Ownership PROVE StreamViews
  OBVIOUS
<1>1. ASSUME NEW i \in LiveSlots
      PROVE  Unwritten(i) \in Seq(Pieces) /\ (sent = 0 => Unwritten(i) = wbuf[i])
  <2>1. i \in Slots /\ wbuf[i] \in Seq(Pieces)
    BY DEF IInv, TypeOK, LiveSlots
  <2>2. CASE WriteTurn(i)
    <3>1. sent \in 0..Len(wbuf[i])
      BY <2>1, <2>2, WritePending
    <3>2. Shift(wbuf[i], sent) \in Seq(Pieces)
      BY <2>1, <3>1, ShiftType
    <3>3. sent = 0 => Shift(wbuf[i], sent) = wbuf[i]
      BY <2>1, SubSeqFull DEF Shift
    <3> QED BY <2>2, <3>2, <3>3 DEF Unwritten
  <2> QED BY <2>1, <2>2 DEF Unwritten
<1>2. ASSUME NEW i \in LiveSlots, NEW j \in LiveSlots, conn[fd[i]] = conn[fd[j]]
      PROVE  i = j
  BY <1>2, LiveSlotFacts, FdAssumption DEF Ownership, OneOwner, IInv, FdTables, SlotsDistinct
<1>3. ASSUME NEW c \in Conns
      PROVE  /\ c \in Members <=> (cstate[c] = "open" /\ \E i \in LiveSlots : conn[fd[i]] = c)
             /\ c \notin Members => Stream(c) = got[c] \o toClient[c]
             /\ \A i \in LiveSlots : c \in Members /\ conn[fd[i]] = c =>
                                       Stream(c) = (got[c] \o toClient[c]) \o Unwritten(i)
             /\ got[c] \o toClient[c] \in Seq(Pieces) /\ Stream(c) \in Seq(Pieces)
  <2>1. c \in Members <=> (cstate[c] = "open" /\ \E i \in LiveSlots : conn[fd[i]] = c)
    BY DEF Members, SlotOf
  <2>2. got[c] \o toClient[c] \in Seq(Pieces)
    BY ConcatProperties DEF IInv, TypeOK
  <2>3. CASE c \notin Members
    <3>1. Stream(c) = (got[c] \o toClient[c]) \o <<>>
      BY <2>3 DEF Stream
    <3>2. Stream(c) = got[c] \o toClient[c]
      BY <2>2, <3>1, ConcatEmptySeq
    <3> QED BY <2>1, <2>2, <2>3, <3>2
  <2>4. CASE c \in Members
    <3>1. PICK i \in LiveSlots : conn[fd[i]] = c
      BY <2>1, <2>4
    <3>2. SlotOf(c) = {i}
      BY <1>2, <3>1 DEF SlotOf
    <3>3. Stream(c) = (got[c] \o toClient[c]) \o Unwritten(i)
      BY <2>4, <3>2 DEF Stream
    <3>4. Stream(c) \in Seq(Pieces)
      BY <1>1, <2>2, <3>3, ConcatProperties
    <3>5. \A j \in LiveSlots : conn[fd[j]] = c => j = i
      BY <1>2, <3>1
    <3> QED BY <2>1, <2>2, <2>4, <3>3, <3>4, <3>5
  <2> QED BY <2>3, <2>4
<1> QED
  BY <1>1, <1>2, <1>3 DEF StreamViews

\* The five effects of a step on the streams: none, a client joins, one
\* departs, all do, and a read completes messages of c.
Cut(c) == \E u \in Seq(Pieces) : Stream(c) = Stream(c)' \o u

Unmoved == /\ Members' = Members /\ taken' = taken
           /\ \A d \in Conns : Stream(d)' = Stream(d)
Joins(c) == /\ c \notin Members /\ Members' = Members \union {c} /\ taken' = taken
            /\ Stream(c) = <<>>
            /\ \A d \in Conns : Stream(d)' = Stream(d)
Departs(c) == /\ Members' = Members \ {c} /\ taken' = taken
              /\ Cut(c)
              /\ \A d \in Conns \ {c} : Stream(d)' = Stream(d)
Collapses == /\ Members' = {} /\ taken' = taken
             /\ \A d \in Members : Cut(d)
             /\ \A d \in Conns \ Members : Stream(d)' = Stream(d)
Publishes(c, n) == /\ Members' = Members /\ taken' = [taken EXCEPT ![c] = @ + n]
                   /\ \A d \in Conns :
                        Stream(d)' = IF d \in Members \ {c} THEN Stream(d) \o Completed(c, n)
                                     ELSE Stream(d)

StreamStep == \/ Unmoved
              \/ \E c \in Conns : Joins(c) \/ Departs(c)
              \/ Collapses
              \/ \E c \in Conns, n \in 1..ReadMax : Publishes(c, n)

\* What each of the next lemmas starts from.
Known == IInv /\ Ownership /\ StreamViews /\ StreamViews'

\* A step that changes neither who is connected nor the sum of what each
\* slot still has to write.
LEMMA UnmovedStep ==
  ASSUME Known,
         UNCHANGED <<fd, conn, taken>>,
         \A i \in LiveSlots : Unwritten(i)' = Unwritten(i),
         \A c \in Conns : \/ UNCHANGED <<cstate[c], got[c], toClient[c]>>
                          \/ c \notin Members /\ cstate[c] = "idle" /\ ~Accepted(c)
                             /\ UNCHANGED <<got[c], toClient[c]>>
                          \/ cstate'[c] = cstate[c] /\ got'[c] \o toClient'[c] = got[c] \o toClient[c]
  PROVE  Unmoved
<1>1. LiveSlots' = LiveSlots
  BY DEF LiveSlots
<1>2. \A i \in LiveSlots : fd[i] \in ClientFds
  BY LiveSlotFacts DEF Known
<1>3. ASSUME NEW c \in Conns
      PROVE  (c \in Members' <=> c \in Members) /\ Stream(c)' = Stream(c)
  <2>1. got'[c] \o toClient'[c] = got[c] \o toClient[c]
    OBVIOUS
  <2>2. /\ c \in Members <=> (cstate[c] = "open" /\ \E i \in LiveSlots : conn[fd[i]] = c)
        /\ c \in Members' <=> (cstate'[c] = "open" /\ \E i \in LiveSlots' : conn'[fd'[i]] = c)
    BY DEF Known, StreamViews
  <2>3. c \in Members' <=> c \in Members
    BY <1>1, <1>2, <2>2 DEF Accepted
  <2>4. /\ c \notin Members => Stream(c) = got[c] \o toClient[c]
        /\ c \notin Members' => Stream(c)' = got'[c] \o toClient'[c]
    BY DEF Known, StreamViews
  <2>5. \A i \in LiveSlots : c \in Members /\ conn[fd[i]] = c =>
                              Stream(c) = (got[c] \o toClient[c]) \o Unwritten(i)
    BY DEF Known, StreamViews
  <2>6. \A i \in LiveSlots' : c \in Members' /\ conn'[fd'[i]] = c =>
                               Stream(c)' = (got'[c] \o toClient'[c]) \o Unwritten(i)'
    BY DEF Known, StreamViews
  <2> QED BY <1>1, <2>1, <2>2, <2>3, <2>4, <2>5, <2>6
<1>4. Members' = Members
  BY <1>3 DEF Members
<1> QED
  BY <1>3, <1>4 DEF Unmoved

\* The clients' own steps: connecting, sending and receiving leave the
\* streams alone, leaving ends one.
LEMMA ClientStream ==
  ASSUME Known, NEW c \in Conns, ClientStep(c)
  PROVE  StreamStep
<1>0. /\ got \in [Conns -> Seq(Pieces)] /\ toClient \in [Conns -> Seq(Pieces)]
      /\ cstate \in [Conns -> {"idle", "open", "closed"}]
  BY DEF Known, IInv, TypeOK
<1>1. UNCHANGED <<procVars, conn>>
  BY DEF ClientStep, Connect, Send, Receive, Leave, kernelVars
<1>2. UNCHANGED <<fd, wbuf, sent, conn>> /\ LiveSlots' = LiveSlots
  BY <1>1 DEF procVars, LiveSlots
<1>3. \A i \in LiveSlots : Unwritten(i)' = Unwritten(i)
  BY <1>1 DEF procVars, Unwritten, WriteTurn, Turn, ReadySlots, LiveSlots
<1>4. CASE Connect(c)
  <2>1. cstate[c] = "idle" /\ \A d \in Conns : d # c => cstate'[d] = cstate[d]
    BY <1>0, <1>4 DEF Connect
  <2>2. UNCHANGED <<got, toClient, taken>>
    BY <1>4 DEF Connect
  <2>3. c \notin Members /\ ~Accepted(c)
    BY <2>1 DEF Known, Members, Ownership, OneOwner
  <2>4. Unmoved
    BY <1>2, <1>3, <2>1, <2>2, <2>3, UnmovedStep
  <2> QED BY <2>4 DEF StreamStep
<1>5. CASE Send(c)
  <2>1. Unmoved
    BY <1>2, <1>3, <1>5, UnmovedStep DEF Send, kernelVars
  <2> QED BY <2>1 DEF StreamStep
<1>6. CASE Receive(c)
  <2> DEFINE g == got[c]
             t == toClient[c]
  <2>1. /\ got' = [got EXCEPT ![c] = Append(g, Head(t))]
        /\ toClient' = [toClient EXCEPT ![c] = Tail(t)]
        /\ t # <<>> /\ UNCHANGED <<cstate, taken>>
    BY <1>6 DEF Receive
  <2>2. g \in Seq(Pieces) /\ t \in Seq(Pieces)
    BY <1>0
  <2>3. /\ got'[c] = Append(g, Head(t)) /\ toClient'[c] = Tail(t)
        /\ \A d \in Conns : d # c => got'[d] = got[d] /\ toClient'[d] = toClient[d]
    BY <1>0, <2>1
  <2> HIDE DEF g, t
  <2>4. Head(t) \in Pieces /\ Tail(t) \in Seq(Pieces) /\ Len(t) \in Nat \ {0} /\ Head(t) = t[1]
    BY <2>1, <2>2, HeadTailProperties, EmptySeq
  <2>5. <<Head(t)>> \o Tail(t) = t
    <3>1. 1 \in 1..Len(t) /\ Len(t) \in 1..Len(t)
      BY <2>4
    <3>2. SubSeq(t, 1, Len(t)) = <<t[1]>> \o SubSeq(t, 1 + 1, Len(t))
      BY <2>2, <3>1, SubSeqRecursiveFirst
    <3>3. SubSeq(t, 1, Len(t)) = t /\ Tail(t) = SubSeq(t, 2, Len(t))
      BY <2>1, <2>2, SubSeqFull, TailIsSubSeq
    <3> QED BY <2>4, <3>2, <3>3
  <2>6. Append(g, Head(t)) \o Tail(t) = g \o t
    <3>1. Append(g, Head(t)) = g \o <<Head(t)>> /\ <<Head(t)>> \in Seq(Pieces)
      BY <2>2, <2>4, AppendIsConcat
    <3>2. (g \o <<Head(t)>>) \o Tail(t) = g \o (<<Head(t)>> \o Tail(t))
      BY <2>2, <2>4, <3>1, ConcatAssociative
    <3> QED BY <2>5, <3>1, <3>2
  <2>7. got'[c] \o toClient'[c] = got[c] \o toClient[c]
    BY <2>3, <2>6 DEF g, t
  <2>8. Unmoved
    BY <1>2, <1>3, <2>1, <2>3, <2>7, UnmovedStep
  <2> QED BY <2>8 DEF StreamStep
<1>7. CASE Leave(c)
  <2>1. /\ \A d \in Conns : d # c => cstate'[d] = cstate[d] /\ toClient'[d] = toClient[d]
        /\ cstate'[c] = "closed" /\ toClient'[c] = <<>>
        /\ UNCHANGED <<got, taken>>
    BY <1>0, <1>7 DEF Leave
  <2>2. \A d \in Conns : d \in Members' <=> d \in Members /\ d # c
    <3>1. \A d \in Conns :
            /\ d \in Members <=> (cstate[d] = "open" /\ \E i \in LiveSlots : conn[fd[i]] = d)
            /\ d \in Members' <=> (cstate'[d] = "open" /\ \E i \in LiveSlots' : conn'[fd'[i]] = d)
      BY DEF Known, StreamViews
    <3> QED BY <1>2, <2>1, <3>1
  <2>3. Members' = Members \ {c}
    BY <2>2 DEF Members
  <2>4. ASSUME NEW d \in Conns, d # c PROVE Stream(d)' = Stream(d)
    <3>1. /\ d \notin Members => Stream(d) = got[d] \o toClient[d]
          /\ d \notin Members' => Stream(d)' = got'[d] \o toClient'[d]
      BY DEF Known, StreamViews
    <3>2. CASE d \in Members
      <4>1. PICK i \in LiveSlots : conn[fd[i]] = d
        BY <3>2 DEF Known, StreamViews
      <4>2. Stream(d) = (got[d] \o toClient[d]) \o Unwritten(i)
        <5>1. \A j \in LiveSlots : d \in Members /\ conn[fd[j]] = d =>
                                   Stream(d) = (got[d] \o toClient[d]) \o Unwritten(j)
          BY DEF Known, StreamViews
        <5> QED BY <3>2, <4>1, <5>1
      <4>3. i \in LiveSlots' /\ conn'[fd'[i]] = d /\ d \in Members'
        BY <1>2, <2>2, <2>4, <3>2, <4>1
      <4>4. Stream(d)' = (got'[d] \o toClient'[d]) \o Unwritten(i)'
        BY ZenonT(40), <4>3 DEF Known, StreamViews
      <4> QED BY <1>3, <2>1, <2>4, <4>2, <4>4
    <3> QED BY <2>1, <2>2, <2>4, <3>1, <3>2
  <2>5. Cut(c)
    <3> DEFINE g == got[c]
               t == toClient[c]
    <3>1. Stream(c)' = g \o <<>>
      BY <2>1, <2>2 DEF Known, StreamViews
    <3>2. g \in Seq(Pieces) /\ t \in Seq(Pieces) /\ g \o <<>> = g
      BY <1>0, ConcatEmptySeq
    <3>3. CASE c \notin Members
      <4>1. Stream(c) = g \o t
        BY <3>3 DEF Known, StreamViews
      <4> QED BY <3>1, <3>2, <4>1 DEF Cut
    <3>4. CASE c \in Members
      <4>1. PICK i \in LiveSlots : conn[fd[i]] = c
        BY <3>4 DEF Known, StreamViews
      <4>2. Stream(c) = (g \o t) \o Unwritten(i) /\ Unwritten(i) \in Seq(Pieces)
        BY ZenonT(40), <3>4, <4>1 DEF Known, StreamViews
      <4> HIDE DEF g, t
      <4>3. Stream(c) = g \o (t \o Unwritten(i)) /\ t \o Unwritten(i) \in Seq(Pieces)
        BY <3>2, <4>2, ConcatAssociative, ConcatProperties
      <4> QED BY <3>1, <3>2, <4>3 DEF Cut
    <3> QED BY <3>3, <3>4
  <2>6. Departs(c)
    BY <2>1, <2>3, <2>4, <2>5 DEF Departs
  <2> QED BY <2>6 DEF StreamStep
<1> QED
  BY <1>4, <1>5, <1>6, <1>7 DEF ClientStep

\* Between passes nothing is half written.
LEMMA LoopStream ==
  ASSUME Known, Select \/ AcceptFails \/ NextPass
  PROVE  StreamStep
<1>1. sent = 0
  BY NothingHalfWritten DEF Known, Select, AcceptFails, NextPass
<1>2. UNCHANGED <<fd, wbuf, sent, conn, toClient, cstate, taken, got>>
  BY DEF Select, AcceptFails, NextPass, kernelVars, clientVars
<1>3. LiveSlots' = LiveSlots
  BY <1>2 DEF LiveSlots
<1>4. ASSUME NEW i \in LiveSlots PROVE Unwritten(i)' = Unwritten(i)
  <2>1. Unwritten(i) = wbuf[i]
    BY <1>1 DEF Known, StreamViews
  <2>2. Unwritten(i)' = wbuf'[i]
    BY <1>1, <1>2, <1>3 DEF Known, StreamViews
  <2> QED BY <1>2, <2>1, <2>2
<1>5. Unmoved
  BY <1>2, <1>4, UnmovedStep
<1> QED
  BY <1>5 DEF StreamStep

\* A connection that is accepted joins, unless its client has left already.
LEMMA AcceptStream ==
  ASSUME Known, Accept
  PROVE  StreamStep
<1>1. PICK slot \in Slots, f \in ClientFds, c \in Conns :
           /\ slot \notin LiveSlots /\ conn[f] = NoConn /\ f \notin LiveFds
           /\ backlog # <<>> /\ c = Head(backlog)
           /\ conn' = [conn EXCEPT ![f] = c]
           /\ fd' = [fd EXCEPT ![slot] = f]
           /\ LiveSlots' = LiveSlots \union {slot}
  BY AcceptFacts DEF Known
<1>2. sent = 0 /\ UNCHANGED <<wbuf, sent, toClient, cstate, taken, got>>
  BY NothingHalfWritten DEF Known, Accept, clientVars
<1>3. Queued(c)
  <2>1. backlog \in Seq(Conns)
    BY DEF Known, IInv, TypeOK
  <2>2. Len(backlog) \in Nat \ {0}
    BY <1>1, <2>1, EmptySeq
  <2> QED BY <1>1, <2>1, <2>2 DEF Queued
<1>4. ~Accepted(c) /\ got[c] = <<>> /\ toClient[c] = <<>>
  BY <1>3 DEF Known, Ownership, OneOwner, Fresh
<1>5. \A i \in LiveSlots : /\ i # slot /\ i \in LiveSlots' /\ fd[i] \in ClientFds
                           /\ fd'[i] = fd[i] /\ fd[i] # f /\ conn'[fd[i]] = conn[fd[i]]
  <2> SUFFICES ASSUME NEW i \in LiveSlots
               PROVE  /\ i # slot /\ i \in LiveSlots' /\ fd[i] \in ClientFds
                      /\ fd'[i] = fd[i] /\ fd[i] # f /\ conn'[fd[i]] = conn[fd[i]]
    OBVIOUS
  <2>1. i \in Slots /\ fd[i] \in ClientFds /\ fd[i] \in LiveFds
    BY LiveSlotFacts DEF Known
  <2>2. i # slot /\ fd[i] # f
    BY <1>1, <2>1
  <2> QED BY <1>1, <2>1, <2>2 DEF Known, IInv, TypeOK
<1>6. fd'[slot] = f /\ conn'[f] = c /\ slot \in LiveSlots'
  BY <1>1 DEF Known, IInv, TypeOK
<1>7. c \notin Members /\ Stream(c) = <<>>
  <2>1. \A i \in LiveSlots : conn[fd[i]] # c
    BY <1>4, <1>5 DEF Accepted
  <2>2. c \notin Members
    BY <2>1 DEF Known, StreamViews
  <2>3. Stream(c) = <<>> \o <<>>
    BY <1>4, <2>2 DEF Known, StreamViews
  <2>4. <<>> \in Seq(Pieces)
    BY EmptySeq
  <2> QED BY <2>2, <2>3, <2>4, ConcatEmptySeq
<1>8. ASSUME NEW d \in Conns, d # c
      PROVE  (d \in Members' <=> d \in Members) /\ Stream(d)' = Stream(d)
  <2>1. /\ d \in Members <=> (cstate[d] = "open" /\ \E i \in LiveSlots : conn[fd[i]] = d)
        /\ d \in Members' <=> (cstate'[d] = "open" /\ \E i \in LiveSlots' : conn'[fd'[i]] = d)
    BY DEF Known, StreamViews
  <2>2. d \in Members' <=> d \in Members
    BY <1>1, <1>2, <1>5, <1>6, <1>8, <2>1
  <2>3. CASE d \notin Members
    <3>1. Stream(d) = got[d] \o toClient[d]
      BY <2>3 DEF Known, StreamViews
    <3>2. Stream(d)' = got'[d] \o toClient'[d]
      BY <2>2, <2>3 DEF Known, StreamViews
    <3> QED BY <1>2, <2>2, <3>1, <3>2
  <2>4. CASE d \in Members
    <3>1. PICK i \in LiveSlots : conn[fd[i]] = d
      BY <2>1, <2>4
    <3>2. Stream(d) = (got[d] \o toClient[d]) \o Unwritten(i) /\ Unwritten(i) = wbuf[i]
      BY ZenonT(40), <1>2, <2>4, <3>1 DEF Known, StreamViews
    <3>3. i \in LiveSlots' /\ conn'[fd'[i]] = d
      BY <1>5, <3>1
    <3>4. Stream(d)' = (got'[d] \o toClient'[d]) \o Unwritten(i)'
      BY ZenonT(40), <2>2, <2>4, <3>3 DEF Known, StreamViews
    <3>5. Unwritten(i)' = wbuf'[i]
      BY <1>2, <3>3 DEF Known, StreamViews
    <3> QED BY <1>2, <2>2, <3>2, <3>4, <3>5
  <2> QED BY <2>3, <2>4
<1>9. c \in Members' <=> cstate[c] = "open"
  BY <1>2, <1>6 DEF Known, StreamViews
<1>10. Stream(c)' = Stream(c)
  <2>1. Unwritten(slot)' = <<>>
    <3>1. wbuf[slot] = <<>>
      BY <1>1 DEF Known, IInv, PendingWritesArmed
    <3>2. Unwritten(slot)' = wbuf'[slot]
      BY <1>2, <1>6 DEF Known, StreamViews
    <3> QED BY <1>2, <3>1, <3>2
  <2>2. <<>> \o <<>> = <<>> /\ got'[c] = <<>> /\ toClient'[c] = <<>>
    <3>1. <<>> \in Seq(Pieces)
      BY EmptySeq
    <3> QED BY <1>2, <1>4, <3>1, ConcatEmptySeq
  <2>3. CASE c \in Members'
    <3>1. Stream(c)' = (got'[c] \o toClient'[c]) \o Unwritten(slot)'
      BY ZenonT(40), <1>6, <2>3 DEF Known, StreamViews
    <3> QED BY <1>7, <2>1, <2>2, <3>1
  <2>4. CASE c \notin Members'
    <3>1. Stream(c)' = got'[c] \o toClient'[c]
      BY <2>4 DEF Known, StreamViews
    <3> QED BY <1>7, <2>2, <3>1
  <2> QED BY <2>3, <2>4
<1>11. CASE cstate[c] = "open"
  <2>1. Members' = Members \union {c}
    BY <1>8, <1>9, <1>11 DEF Members
  <2>2. Joins(c)
    BY <1>2, <1>7, <1>8, <1>10, <2>1 DEF Joins
  <2> QED BY <2>2 DEF StreamStep
<1>12. CASE cstate[c] # "open"
  <2>1. Members' = Members
    BY <1>7, <1>8, <1>9, <1>12 DEF Members
  <2>2. Unmoved
    BY <1>2, <1>8, <1>10, <2>1 DEF Unmoved
  <2> QED BY <2>2 DEF StreamStep
<1> QED
  BY <1>11, <1>12

\* write() moves pieces from a buffer to the socket, in order.
LEMMA WriteAcceptedStream ==
  ASSUME Known, NEW i \in Slots, NEW n \in 1..SockRoom, WriteAccepted(i, n)
  PROVE  StreamStep
<1> DEFINE w == wbuf[i]
           out == SubSeq(w, sent + 1, sent + n)
           done == sent + n = Len(w)
<1>1. /\ WriteTurn(i) /\ n <= Len(w) - sent
      /\ toClient' = [toClient EXCEPT ![conn[fd[i]]] = @ \o out]
      /\ sent' = (IF done THEN 0 ELSE sent + n)
      /\ wbuf' = (IF done THEN [wbuf EXCEPT ![i] = <<>>] ELSE wbuf)
      /\ writefds' = (IF done THEN writefds \ {fd[i]} ELSE writefds)
      /\ cstate[conn[fd[i]]] = "open"
      /\ UNCHANGED <<pc, readfds, fd, conn, cstate, taken, got>>
  BY DEF WriteAccepted, clientVars
<1>2. /\ i \in LiveSlots /\ w \in Seq(Pieces) /\ Len(w) \in Nat /\ sent \in Nat
      /\ n \in Nat \ {0} /\ conn[fd[i]] \in Conns
  BY <1>1, WritePending, LiveSlotFacts, SizeAssumption DEF Known
<1>3. PICK c \in Conns : c = conn[fd[i]]
  BY <1>2
<1>4. LiveSlots' = LiveSlots
  BY <1>1 DEF LiveSlots
<1>5. /\ toClient'[c] = toClient[c] \o out
      /\ \A d \in Conns : d # c => toClient'[d] = toClient[d]
  BY <1>1, <1>3 DEF Known, IInv, TypeOK
<1>6. out \o Shift(w, sent + n) = Shift(w, sent) /\ out \in Seq(Pieces)
      /\ Shift(w, sent + n) \in Seq(Pieces) /\ (done => Shift(w, sent + n) = <<>>)
  <2> HIDE DEF w
  <2>1. /\ sent + 1 \in 1..Len(w) + 1 /\ sent + n \in (sent + 1) - 1..Len(w)
        /\ Len(w) \in (sent + n)..Len(w) /\ sent + n \in 0..Len(w) /\ sent + n \in Int /\ sent + 1 \in Int
    BY <1>1, <1>2
  <2>2. out \o Shift(w, sent + n) = Shift(w, sent)
    BY <1>2, <2>1, ConcatAdjacentSubSeq DEF Shift
  <2>3. out \in Seq(Pieces)
    <3>1. \A k \in sent + 1 .. sent + n : w[k] \in Pieces
      BY <1>1, <1>2, ElementOfSeq
    <3> QED BY <2>1, <3>1, SubSeqProperties
  <2>4. Shift(w, sent + n) \in Seq(Pieces)
    BY <1>2, <2>1, ShiftType
  <2>5. done => Shift(w, sent + n) = <<>>
    BY <1>2, <2>1, SubSeqEmpty DEF Shift
  <2> QED BY <2>2, <2>3, <2>4, <2>5
<1>7. Unwritten(i) = Shift(w, sent)
  BY <1>1 DEF Unwritten
<1>8. Unwritten(i)' = Shift(w, sent + n)
  <2>1. CASE done
    <3>1. sent' = 0 /\ wbuf'[i] = <<>>
      BY <1>1, <1>2, <2>1 DEF Known, IInv, TypeOK
    <3>2. Unwritten(i)' = wbuf'[i]
      BY <1>2, <1>4, <3>1 DEF Known, StreamViews
    <3> QED BY <1>6, <2>1, <3>1, <3>2
  <2>2. CASE ~done
    <3>1. wbuf' = wbuf /\ sent' = sent + n
      BY <1>1, <2>2
    <3>2. WriteTurn(i)'
      BY <1>1, <1>4, <2>2 DEF WriteTurn, Turn, ReadySlots
    <3> QED BY <3>1, <3>2 DEF Unwritten, Shift
  <2> QED BY <2>1, <2>2
<1>9. ASSUME NEW j \in LiveSlots, j # i PROVE Unwritten(j)' = Unwritten(j) /\ conn[fd[j]] # c
  <2>1. j \in Slots
    BY DEF LiveSlots
  <2>2. wbuf'[j] = wbuf[j]
    BY <1>1, <1>9, <2>1 DEF Known, IInv, TypeOK
  <2>3. Unwritten(j) = wbuf[j]
    BY <1>1, <1>9, <2>1, TurnFacts DEF Unwritten, WriteTurn
  <2>4. CASE done
    <3>1. sent' = 0
      BY <1>1, <2>4
    <3>2. Unwritten(j)' = wbuf'[j]
      BY <1>4, <3>1 DEF Known, StreamViews
    <3> QED BY <1>2, <1>3, <1>9, <2>2, <2>3, <3>2 DEF Known, StreamViews
  <2>5. CASE ~done
    <3>1. WriteTurn(j)' <=> WriteTurn(j)
      BY <1>1, <1>4, <2>5 DEF WriteTurn, Turn, ReadySlots
    <3>2. ~WriteTurn(j)
      BY <1>1, <1>9, <2>1, TurnFacts DEF WriteTurn
    <3>3. Unwritten(j)' = wbuf'[j]
      BY <3>1, <3>2 DEF Unwritten
    <3> QED BY <1>2, <1>3, <1>9, <2>2, <2>3, <3>3 DEF Known, StreamViews
  <2> QED BY <2>4, <2>5
<1> HIDE DEF w, out, done
<1>10. ASSUME NEW d \in Conns PROVE (d \in Members' <=> d \in Members) /\ Stream(d)' = Stream(d)
  <2>1. /\ d \in Members <=> (cstate[d] = "open" /\ \E j \in LiveSlots : conn[fd[j]] = d)
        /\ d \in Members' <=> (cstate'[d] = "open" /\ \E j \in LiveSlots' : conn'[fd'[j]] = d)
    BY DEF Known, StreamViews
  <2>2. d \in Members' <=> d \in Members
    BY <1>1, <1>4, <2>1
  <2>3. /\ \A j \in LiveSlots : d \in Members /\ conn[fd[j]] = d =>
                                  Stream(d) = (got[d] \o toClient[d]) \o Unwritten(j)
        /\ \A j \in LiveSlots' : d \in Members' /\ conn'[fd'[j]] = d =>
                                   Stream(d)' = (got'[d] \o toClient'[d]) \o Unwritten(j)'
    BY DEF Known, StreamViews
  <2>4. /\ d \notin Members => Stream(d) = got[d] \o toClient[d]
        /\ d \notin Members' => Stream(d)' = got'[d] \o toClient'[d]
    BY DEF Known, StreamViews
  <2>5. CASE d # c
    <3>1. got'[d] = got[d] /\ toClient'[d] = toClient[d]
      BY <1>1, <1>5, <2>5
    <3>2. CASE d \notin Members
      BY <2>2, <2>4, <3>1, <3>2
    <3>3. CASE d \in Members
      <4>1. PICK j \in LiveSlots : conn[fd[j]] = d
        BY <2>1, <3>3
      <4>2. j # i /\ j \in LiveSlots' /\ conn'[fd'[j]] = d
        BY <1>1, <1>3, <1>4, <2>5, <4>1
      <4>3. Stream(d) = (got[d] \o toClient[d]) \o Unwritten(j)
        BY <2>3, <3>3, <4>1
      <4>4. Stream(d)' = (got'[d] \o toClient'[d]) \o Unwritten(j)'
        BY <2>2, <2>3, <3>3, <4>2
      <4>5. Unwritten(j)' = Unwritten(j)
        BY <1>9, <4>1, <4>2
      <4> QED BY <2>2, <3>1, <4>3, <4>4, <4>5
    <3> QED BY <3>2, <3>3
  <2>6. CASE d = c
    <3> DEFINE g == got[c]
               t == toClient[c]
               rest == Shift(w, sent + n)
    <3>1. d \in Members /\ d \in Members'
      BY <1>1, <1>2, <1>3, <2>1, <2>2, <2>6
    <3>2. Stream(d) = (g \o t) \o Shift(w, sent)
      BY <1>2, <1>3, <1>7, <2>3, <2>6, <3>1
    <3>3. Stream(d)' = (g \o (t \o out)) \o rest
      <4>1. i \in LiveSlots' /\ conn'[fd'[i]] = d
        BY <1>1, <1>2, <1>3, <1>4, <2>6
      <4>2. Stream(d)' = (got'[d] \o toClient'[d]) \o Unwritten(i)'
        BY <2>3, <3>1, <4>1
      <4>3. got'[d] = g /\ toClient'[d] = t \o out
        BY <1>1, <1>5, <2>6
      <4> QED BY <1>8, <4>2, <4>3
    <3>4. /\ g \in Seq(Pieces) /\ t \in Seq(Pieces)
          /\ out \in Seq(Pieces) /\ rest \in Seq(Pieces)
      BY <1>6 DEF Known, IInv, TypeOK
    <3> HIDE DEF g, t, rest
    <3>5. g \o (t \o out) = (g \o t) \o out
      BY <3>4, Regroup
    <3>6. ((g \o t) \o out) \o rest = (g \o t) \o (out \o rest)
      <4> DEFINE gt == g \o t
      <4>1. gt \in Seq(Pieces)
        BY <3>4, ConcatProperties
      <4> HIDE DEF gt
      <4>2. (gt \o out) \o rest = gt \o (out \o rest)
        BY <3>4, <4>1, Regroup
      <4> QED BY <4>2 DEF gt
    <3>7. out \o rest = Shift(w, sent)
      BY <1>6 DEF rest
    <3> QED BY <2>2, <3>2, <3>3, <3>5, <3>6, <3>7
  <2> QED BY <2>5, <2>6
<1>11. Members' = Members
  BY <1>10 DEF Members
<1>12. Unmoved
  BY <1>1, <1>10, <1>11 DEF Unmoved
<1> QED
  BY <1>12 DEF StreamStep

\* write() has no room: what was written is dropped from the buffer.
LEMMA WriteAgainStream ==
  ASSUME Known, NEW i \in Slots, WriteAgain(i)
  PROVE  StreamStep
<1>1. /\ WriteTurn(i) /\ wbuf' = [wbuf EXCEPT ![i] = Shift(wbuf[i], sent)] /\ sent' = 0
      /\ UNCHANGED <<fd, conn, toClient, cstate, taken, got>>
  BY DEF WriteAgain, kernelVars, clientVars
<1>2. LiveSlots' = LiveSlots
  BY <1>1 DEF LiveSlots
<1>3. ASSUME NEW j \in LiveSlots PROVE Unwritten(j)' = Unwritten(j)
  <2>1. j \in Slots
    BY DEF LiveSlots
  <2>2. Unwritten(j)' = wbuf'[j]
    BY <1>1, <1>2 DEF Known, StreamViews
  <2>3. CASE j = i
    <3>1. Unwritten(j) = Shift(wbuf[i], sent)
      BY <1>1, <2>3 DEF Unwritten
    <3> QED BY <1>1, <2>1, <2>2, <2>3, <3>1 DEF Known, IInv, TypeOK
  <2>4. CASE j # i
    <3>1. Unwritten(j) = wbuf[j]
      BY <1>1, <2>1, <2>4, TurnFacts DEF Unwritten, WriteTurn
    <3> QED BY <1>1, <2>1, <2>2, <2>4, <3>1 DEF Known, IInv, TypeOK
  <2> QED BY <2>3, <2>4
<1>4. Unmoved
  BY <1>1, <1>3, UnmovedStep
<1> QED
  BY <1>4 DEF StreamStep

\* A slot closes: its client departs, with what was still to be written.
LEMMA CloseStream ==
  ASSUME Known, NEW i \in Slots, Turn(i), sent = 0, CloseSlot(i),
         UNCHANGED <<sent, toClient, clientVars>>
  PROVE  StreamStep
<1>1. /\ i \in LiveSlots /\ LiveSlots' = LiveSlots \ {i}
      /\ fd[i] \in ClientFds /\ conn' = [conn EXCEPT ![fd[i]] = NoConn]
      /\ \A j \in LiveSlots' : /\ j \in LiveSlots /\ fd'[j] = fd[j] /\ fd[j] # fd[i]
                               /\ conn'[fd[j]] = conn[fd[j]]
                               /\ rbuf'[j] = rbuf[j] /\ wbuf'[j] = wbuf[j]
  BY CloseFacts DEF Known
<1>2. sent' = 0 /\ UNCHANGED <<toClient, cstate, taken, got>>
  BY DEF clientVars
<1>3. PICK c \in Conns : c = conn[fd[i]]
  BY <1>1, LiveSlotFacts DEF Known
<1>4. \A j \in LiveSlots : conn[fd[j]] = c <=> j = i
  BY <1>1, <1>3 DEF Known, StreamViews
<1>5. \A j \in LiveSlots' : Unwritten(j) = wbuf[j] /\ Unwritten(j)' = wbuf'[j]
  BY <1>1, <1>2 DEF Known, StreamViews
<1>6. ASSUME NEW d \in Conns
      PROVE  /\ d \in Members' <=> d \in Members /\ d # c
             /\ d # c => Stream(d)' = Stream(d)
             /\ d = c => Stream(d)' = got[d] \o toClient[d]
  <2>1. /\ d \in Members <=> (cstate[d] = "open" /\ \E j \in LiveSlots : conn[fd[j]] = d)
        /\ d \in Members' <=> (cstate'[d] = "open" /\ \E j \in LiveSlots' : conn'[fd'[j]] = d)
    BY DEF Known, StreamViews
  <2>2. d \in Members' <=> d \in Members /\ d # c
    BY <1>1, <1>2, <1>4, <2>1
  <2>3. /\ d \notin Members => Stream(d) = got[d] \o toClient[d]
        /\ d \notin Members' => Stream(d)' = got'[d] \o toClient'[d]
    BY DEF Known, StreamViews
  <2>4. CASE d \notin Members'
    BY <1>2, <2>2, <2>3, <2>4
  <2>5. CASE d \in Members'
    <3>1. PICK j \in LiveSlots' : conn'[fd'[j]] = d
      BY <2>1, <2>5
    <3>2. j \in LiveSlots /\ conn[fd[j]] = d
      BY <1>1, <3>1
    <3>3. Stream(d) = (got[d] \o toClient[d]) \o Unwritten(j)
      BY ZenonT(40), <2>2, <2>5, <3>2 DEF Known, StreamViews
    <3>4. Stream(d)' = (got'[d] \o toClient'[d]) \o Unwritten(j)'
      BY ZenonT(40), <2>5, <3>1 DEF Known, StreamViews
    <3>5. Unwritten(j)' = Unwritten(j)
      BY <1>1, <1>5, <3>1
    <3> QED BY <1>2, <2>2, <2>5, <3>3, <3>4, <3>5
  <2> QED BY <2>2, <2>4, <2>5
<1>7. Members' = Members \ {c}
  BY <1>6 DEF Members
<1>8. Cut(c)
  <2>1. Stream(c)' = got[c] \o toClient[c]
    BY <1>6
  <2>2. CASE c \notin Members
    <3>1. Stream(c) = got[c] \o toClient[c] /\ Stream(c) \in Seq(Pieces)
      BY <2>2 DEF Known, StreamViews
    <3>2. Stream(c) = Stream(c)' \o <<>> /\ <<>> \in Seq(Pieces)
      BY <2>1, <3>1, ConcatEmptySeq, EmptySeq
    <3> QED BY <3>2 DEF Cut
  <2>3. CASE c \in Members
    <3>1. Stream(c) = (got[c] \o toClient[c]) \o Unwritten(i) /\ Unwritten(i) \in Seq(Pieces)
      <4>1. \A j \in LiveSlots : c \in Members /\ conn[fd[j]] = c =>
                                  Stream(c) = (got[c] \o toClient[c]) \o Unwritten(j)
        BY DEF Known, StreamViews
      <4>2. Unwritten(i) \in Seq(Pieces)
        BY <1>1 DEF Known, StreamViews
      <4> QED BY <1>1, <1>4, <2>3, <4>1, <4>2
    <3> QED BY <2>1, <3>1 DEF Cut
  <2> QED BY <2>2, <2>3
<1>9. Departs(c)
  BY <1>2, <1>6, <1>7, <1>8 DEF Departs
<1> QED
  BY <1>9 DEF StreamStep

\* The process ends: every client is left with what the kernel has.
LEMMA StopStream ==
  ASSUME Known, NEW how \in {"exited", "crashed"}, StopProcess(how)
  PROVE  StreamStep
<1>1. LiveSlots' = {} /\ UNCHANGED <<toClient, cstate, taken, got>>
  BY DEF StopProcess, LiveSlots, clientVars
<1>2. ASSUME NEW d \in Conns
      PROVE  /\ d \notin Members' /\ Stream(d)' = got[d] \o toClient[d]
             /\ d \notin Members => Stream(d)' = Stream(d)
             /\ d \in Members => Cut(d)
  <2>1. d \notin Members'
    BY <1>1 DEF Known, StreamViews
  <2>2. Stream(d)' = got'[d] \o toClient'[d]
    BY <2>1 DEF Known, StreamViews
  <2>3. Stream(d)' = got[d] \o toClient[d]
    BY <1>1, <2>2
  <2>4. d \notin Members => Stream(d)' = Stream(d)
    BY <2>3 DEF Known, StreamViews
  <2>5. ASSUME d \in Members PROVE Cut(d)
    <3>1. PICK i \in LiveSlots : conn[fd[i]] = d
      BY <2>5 DEF Known, StreamViews
    <3>2. Stream(d) = (got[d] \o toClient[d]) \o Unwritten(i) /\ Unwritten(i) \in Seq(Pieces)
      <4>1. \A j \in LiveSlots : d \in Members /\ conn[fd[j]] = d =>
                                  Stream(d) = (got[d] \o toClient[d]) \o Unwritten(j)
        BY DEF Known, StreamViews
      <4>2. Unwritten(i) \in Seq(Pieces)
        BY <3>1 DEF Known, StreamViews
      <4> QED BY <2>5, <3>1, <4>1, <4>2
    <3> QED BY <2>3, <3>2 DEF Cut
  <2> QED BY <2>1, <2>3, <2>4, <2>5
<1>3. Members' = {} /\ \A d \in Members : d \in Conns
  BY <1>2 DEF Members
<1>4. Collapses
  BY <1>1, <1>2, <1>3 DEF Collapses
<1> QED
  BY <1>4 DEF StreamStep

\* read() returns a fragment: every member but its sender is promised the
\* messages it completes.
LEMMA ReadStream ==
  ASSUME Known, NEW i \in Slots, ReadFragment(i)
  PROVE  StreamStep
<1>1. PICK c \in Conns, n \in 1..ReadMax :
           /\ i \in LiveSlots /\ conn[fd[i]] = c
           /\ taken' = [taken EXCEPT ![c] = taken[c] + n]
           /\ \A j \in LiveSlots :
                /\ rbuf'[j] = IF j = i THEN Fragment(c)' ELSE rbuf[j]
                /\ wbuf'[j] = IF j = i THEN wbuf[j] ELSE wbuf[j] \o Completed(c, n)
           /\ UNCHANGED <<pc, fd, sent, conn, backlog, toClient, cstate, got>>
  BY FragmentFacts DEF Known
<1>2. sent = 0 /\ sent' = 0
  BY <1>1, NothingHalfWritten DEF Known, ReadFragment
<1>3. LiveSlots' = LiveSlots
  BY <1>1 DEF LiveSlots
<1>4. \A j \in LiveSlots : conn[fd[j]] = c <=> j = i
  BY <1>1 DEF Known, StreamViews
<1>5. \A j \in LiveSlots : /\ Unwritten(j) = wbuf[j] /\ Unwritten(j)' = wbuf'[j]
                           /\ wbuf[j] \in Seq(Pieces)
  BY <1>2, <1>3 DEF Known, StreamViews
<1>6. Completed(c, n) \in Seq(Pieces)
  BY CompletedFacts DEF Known
<1>7. ASSUME NEW d \in Conns
      PROVE  /\ d \in Members' <=> d \in Members
             /\ Stream(d)' = IF d \in Members \ {c} THEN Stream(d) \o Completed(c, n) ELSE Stream(d)
  <2>1. /\ d \in Members <=> (cstate[d] = "open" /\ \E j \in LiveSlots : conn[fd[j]] = d)
        /\ d \in Members' <=> (cstate'[d] = "open" /\ \E j \in LiveSlots' : conn'[fd'[j]] = d)
    BY DEF Known, StreamViews
  <2>2. d \in Members' <=> d \in Members
    BY <1>1, <1>3, <2>1
  <2>3. CASE d \notin Members
    <3>1. Stream(d) = got[d] \o toClient[d]
      BY <2>3 DEF Known, StreamViews
    <3>2. Stream(d)' = got'[d] \o toClient'[d]
      BY <2>2, <2>3 DEF Known, StreamViews
    <3> QED BY <1>1, <2>2, <2>3, <3>1, <3>2
  <2>4. CASE d \in Members
    <3> DEFINE front == got[d] \o toClient[d]
    <3>1. PICK j \in LiveSlots : conn[fd[j]] = d
      BY <2>1, <2>4
    <3>2. Stream(d) = front \o Unwritten(j) /\ front \in Seq(Pieces)
      <4>1. \A k \in LiveSlots : d \in Members /\ conn[fd[k]] = d =>
                                  Stream(d) = (got[d] \o toClient[d]) \o Unwritten(k)
        BY DEF Known, StreamViews
      <4>2. front \in Seq(Pieces)
        BY DEF Known, StreamViews
      <4> QED BY <2>4, <3>1, <4>1, <4>2
    <3>3. j \in LiveSlots' /\ conn'[fd'[j]] = d
      BY <1>1, <1>3, <3>1
    <3>4. Stream(d)' = (got'[d] \o toClient'[d]) \o Unwritten(j)'
      BY ZenonT(40), <2>2, <2>4, <3>3 DEF Known, StreamViews
    <3>5. Stream(d)' = front \o wbuf'[j] /\ Stream(d) = front \o wbuf[j] /\ wbuf[j] \in Seq(Pieces)
      BY <1>1, <1>5, <3>1, <3>2, <3>4
    <3>6. CASE d = c
      <4>1. wbuf'[j] = wbuf[j]
        BY <1>1, <1>4, <3>1, <3>6
      <4> QED BY <2>2, <3>5, <3>6, <4>1
    <3>7. CASE d # c
      <4>1. wbuf'[j] = wbuf[j] \o Completed(c, n)
        BY <1>1, <1>4, <3>1, <3>7
      <4> HIDE DEF front
      <4>2. (front \o wbuf[j]) \o Completed(c, n) = front \o (wbuf[j] \o Completed(c, n))
        BY <1>6, <3>2, <3>5, Regroup
      <4> QED BY <2>2, <2>4, <3>5, <3>7, <4>1, <4>2
    <3> QED BY <3>6, <3>7
  <2> QED BY <2>3, <2>4
<1>8. Members' = Members
  BY <1>7 DEF Members
<1>9. Publishes(c, n)
  BY <1>1, <1>7, <1>8 DEF Publishes
<1> QED
  BY <1>9 DEF StreamStep

\* Every step has one of the five effects.
LEMMA NextStream == IInv /\ Ownership /\ [Next]_vars => Known /\ StreamStep
<1> SUFFICES ASSUME IInv, Ownership, [Next]_vars PROVE Known /\ StreamStep
  OBVIOUS
<1>1. Known
  <2>1. IInv' /\ Ownership'
    BY NextIInv, NextOwnership
  <2>2. StreamViews
    BY Views
  <2>3. IInv' /\ Ownership' => StreamViews'
    BY Views, PTL
  <2> QED BY <2>1, <2>2, <2>3 DEF Known
<1>2. CASE Select \/ AcceptFails \/ NextPass
  BY <1>1, <1>2, LoopStream
<1>3. CASE Accept
  BY <1>1, <1>3, AcceptStream
<1>4. ASSUME NEW i \in Slots, NEW n \in 1..SockRoom, WriteAccepted(i, n) PROVE StreamStep
  BY <1>1, <1>4, WriteAcceptedStream
<1>5. ASSUME NEW i \in Slots, WriteAgain(i) PROVE StreamStep
  BY <1>1, <1>5, WriteAgainStream
<1>6. ASSUME NEW i \in Slots, WriteEpipe(i) PROVE StreamStep
  BY <1>1, <1>6, CloseStream DEF WriteEpipe, WriteTurn
<1>7. ASSUME NEW i \in Slots, ReadEof(i) PROVE StreamStep
  <2>1. sent = 0
    BY <1>7, NothingHalfWritten DEF ReadEof
  <2> QED BY <1>1, <1>7, <2>1, CloseStream DEF ReadEof, ReadTurn
<1>8. ASSUME NEW i \in Slots, WriteEpipeAfterPartialWrite(i) PROVE StreamStep
  BY <1>1, <1>8, StopStream DEF WriteEpipeAfterPartialWrite
<1>9. ASSUME NEW i \in Slots, ReadFragment(i) PROVE StreamStep
  BY <1>1, <1>9, ReadStream
<1>10. CASE Exit
  BY <1>1, <1>10, StopStream DEF Exit
<1>11. ASSUME NEW c \in Conns, ClientStep(c) PROVE StreamStep
  BY <1>1, <1>11, ClientStream
<1>12. CASE Finished \/ UNCHANGED vars
  <2>1. UNCHANGED vars
    BY <1>12 DEF Finished
  <2>2. \A i \in LiveSlots : Unwritten(i)' = Unwritten(i)
    BY <2>1 DEF vars, procVars, kernelVars, Unwritten, WriteTurn, Turn, ReadySlots, LiveSlots
  <2>3. Unmoved
    BY <1>1, <2>1, <2>2, UnmovedStep DEF vars, procVars, kernelVars, clientVars
  <2> QED BY <1>1, <2>3 DEF StreamStep
<1> QED
  BY <1>1, <1>2, <1>3, <1>4, <1>5, <1>6, <1>7, <1>8, <1>9, <1>10, <1>11, <1>12 DEF Next, ServerStep

-----------------------------------------------------------------------------
(* No torn message.                                                        *)

BInv == IInv /\ Ownership /\ NoTornMessage

LEMMA InitViews == Init => IInv /\ Ownership /\ StreamViews
  BY InitIInv, InitOwnership, Views

LEMMA InitStreams ==
  ASSUME Init, NEW c \in Conns
  PROVE  c \notin Members /\ Stream(c) = <<>>
<1>1. c \notin Members /\ got[c] = <<>> /\ toClient[c] = <<>>
  BY DEF Init, Members
<1>2. Stream(c) = <<>> \o <<>> /\ <<>> \in Seq(Pieces)
  BY <1>1, InitViews, EmptySeq DEF StreamViews
<1> QED
  BY <1>1, <1>2, ConcatEmptySeq

LEMMA EmptyFramed == WellFramed(<<>>) /\ Len(<<>>) % Frags = 0
<1>1. 1..Len(<<>>) = {} /\ Len(<<>>) = 0
  OBVIOUS
<1>2. 0 % Frags = 0
  BY SizeAssumption
<1> QED
  BY <1>1, <1>2 DEF WellFramed

LEMMA InitBInv == Init => BInv
<1> SUFFICES ASSUME Init PROVE NoTornMessage
  BY InitViews DEF BInv
<1> QED
  BY InitStreams, EmptyFramed DEF NoTornMessage

\* Each effect keeps the streams framed.
LEMMA StreamsNext ==
  ASSUME Known, NoTornMessage, StreamStep
  PROVE  NoTornMessage'
<1>1. \A d \in Conns : /\ WellFramed(Stream(d))
                       /\ d \in Members => Len(Stream(d)) % Frags = 0
                       /\ Stream(d) \in Seq(Pieces) /\ Stream(d)' \in Seq(Pieces)
  BY DEF Known, NoTornMessage, StreamViews
<1>2. \A d \in Conns : Cut(d) => WellFramed(Stream(d)')
  BY <1>1, FramedPrefix DEF Cut
<1> SUFFICES ASSUME NEW c \in Conns
             PROVE  WellFramed(Stream(c)') /\ (c \in Members' => Len(Stream(c)') % Frags = 0)
  BY DEF NoTornMessage, Members
<1>3. CASE Unmoved
  BY <1>1, <1>3 DEF Unmoved
<1>4. ASSUME NEW d \in Conns, Joins(d)
      PROVE  WellFramed(Stream(c)') /\ (c \in Members' => Len(Stream(c)') % Frags = 0)
  BY <1>1, <1>4, EmptyFramed DEF Joins
<1>5. ASSUME NEW d \in Conns, Departs(d)
      PROVE  WellFramed(Stream(c)') /\ (c \in Members' => Len(Stream(c)') % Frags = 0)
  BY <1>1, <1>2, <1>5 DEF Departs
<1>6. CASE Collapses
  BY <1>1, <1>2, <1>6 DEF Collapses
<1>7. ASSUME NEW d \in Conns, NEW n \in 1..ReadMax, Publishes(d, n)
      PROVE  WellFramed(Stream(c)') /\ (c \in Members' => Len(Stream(c)') % Frags = 0)
  <2> DEFINE s == Stream(c)
             t == Completed(d, n)
  <2>1. t \in Seq(Pieces) /\ WellFramed(t) /\ Len(t) % Frags = 0
    BY CompletedFacts DEF Known
  <2>2. CASE c \in Members \ {d}
    <3>1. Stream(c)' = s \o t
      BY <1>7, <2>2 DEF Publishes
    <3>2. s \in Seq(Pieces) /\ WellFramed(s) /\ Len(s) % Frags = 0
      BY <1>1, <2>2
    <3> HIDE DEF s, t
    <3>3. WellFramed(s \o t) /\ Len(s \o t) % Frags = 0
      BY <2>1, <3>2, FramedConcat
    <3> QED BY <3>1, <3>3
  <2>3. CASE c \notin Members \ {d}
    BY <1>1, <1>7, <2>3 DEF Publishes
  <2> QED BY <2>2, <2>3
<1> QED
  BY <1>3, <1>4, <1>5, <1>6, <1>7 DEF StreamStep

LEMMA NextBInv == BInv /\ [Next]_vars => BInv'
<1> SUFFICES ASSUME BInv, [Next]_vars PROVE BInv'
  OBVIOUS
<1>1. Known /\ StreamStep
  BY NextStream DEF BInv
<1>2. IInv' /\ Ownership'
  BY NextIInv, NextOwnership DEF BInv
<1>3. NoTornMessage'
  BY <1>1, StreamsNext DEF BInv
<1> QED
  BY <1>2, <1>3 DEF BInv

\* Whatever the partial reads and writes, joins, departures and crashes, the
\* pieces on their way to a client are whole messages one after the other,
\* but for the end of a client's that is gone.
THEOREM StreamsStayFramed == Spec => []NoTornMessage
<1>1. BInv => NoTornMessage
  BY DEF BInv
<1> QED
  BY InitBInv, NextBInv, <1>1, PTL DEF Spec

-----------------------------------------------------------------------------
(* The reflector implements the bus.                                       *)

LEMMA EmptyMessages == WholeMessages(<<>>) = <<>>
<1>1. Len(<<>>) = 0 /\ 0 \div Frags = 0
  BY SizeAssumption
<1> QED
  BY <1>1 DEF WholeMessages

LEMMA InitBus == Init => Bus!BusInit
<1> SUFFICES ASSUME Init PROVE Bus!BusInit
  OBVIOUS
<1>1. Members = {}
  BY InitStreams DEF Members
<1>2. \A c \in Conns : taken[c] \div Frags = 0
  BY SizeAssumption DEF Init
<1>3. \A c \in Conns : WholeMessages(Stream(c)) = <<>>
  BY InitStreams, EmptyMessages
<1> QED
  BY <1>1, <1>2, <1>3 DEF Bus!BusInit

\* A cut stream keeps a prefix of its messages.
LEMMA CutBus ==
  ASSUME Known, NEW c \in Conns, Cut(c)
  PROVE  Bus!IsPrefix(WholeMessages(Stream(c)'), WholeMessages(Stream(c)))
<1>1. PICK u \in Seq(Pieces) : Stream(c) = Stream(c)' \o u
  BY DEF Cut
<1>2. Stream(c)' \in Seq(Pieces)
  BY DEF Known, StreamViews
<1> DEFINE s == Stream(c)'
           S == WholeMessages(s)
           U == WholeMessages(s \o u)
<1>3. Len(S) <= Len(U) /\ SubSeq(S, 1, Len(S)) = SubSeq(U, 1, Len(S))
  <2> HIDE DEF s
  <2> QED BY <1>2, WholeMessagesPrefix DEF s
<1> QED
  BY <1>1, <1>3 DEF Bus!IsPrefix

\* Each effect is a step of the bus or none.
LEMMA StreamBus ==
  ASSUME BInv, Known, StreamStep
  PROVE  [Bus!BusNext]_(Bus!busVars)
<1>1. \A d \in Conns : /\ Stream(d) \in Seq(Pieces) /\ Stream(d)' \in Seq(Pieces)
                       /\ taken[d] \in Nat
  BY DEF Known, StreamViews, IInv, TypeOK
<1>2. CASE Unmoved
  <2>1. UNCHANGED Bus!busVars
    BY <1>2 DEF Unmoved, Bus!busVars
  <2> QED BY <2>1
<1>3. ASSUME NEW c \in Conns, Joins(c) PROVE Bus!Join(c)
  BY <1>3, EmptyMessages DEF Joins, Bus!Join
<1>4. ASSUME NEW c \in Conns, Departs(c) PROVE Bus!Depart(c)
  BY <1>4, CutBus DEF Departs, Bus!Depart
<1>5. CASE Collapses
  <2>1. CASE Members = {}
    <3>1. UNCHANGED Bus!busVars
      BY <1>5, <2>1 DEF Collapses, Bus!busVars
    <3> QED BY <3>1
  <2>2. CASE Members # {}
    <3>1. \A d \in Conns : Cut(d)
      <4> SUFFICES ASSUME NEW d \in Conns, d \notin Members PROVE Cut(d)
        BY <1>5 DEF Collapses
      <4>1. Stream(d) = Stream(d)' \o <<>> /\ <<>> \in Seq(Pieces)
        BY <1>1, <1>5, ConcatEmptySeq, EmptySeq DEF Collapses
      <4> QED BY <4>1 DEF Cut
    <3>2. Bus!Collapse
      BY <1>5, <2>2, <3>1, CutBus DEF Collapses, Bus!Collapse
    <3> QED BY <3>2 DEF Bus!BusNext
  <2> QED BY <2>1, <2>2
<1>6. ASSUME NEW c \in Conns, NEW n \in 1..ReadMax, Publishes(c, n)
      PROVE  [Bus!BusNext]_(Bus!busVars)
  <2>0. PICK q \in 0..ReadMax : q = ((taken[c] % Frags) + n) \div Frags
    BY CompletedFacts DEF Known
  <2> DEFINE batch == [k \in 1..q |-> <<c, (taken[c] \div Frags) + k>>]
             t == Completed(c, n)
  <2>1. /\ t \in Seq(Pieces) /\ WholeMessages(t) = batch
        /\ (q = 0 => t = <<>>)
        /\ (taken[c] + n) \div Frags = (taken[c] \div Frags) + q
    BY <2>0, CompletedFacts DEF Known
  <2> HIDE DEF batch, t
  <2>2. /\ Members' = Members
        /\ \A d \in Conns : taken'[d] = IF d = c THEN taken[c] + n ELSE taken[d]
        /\ \A d \in Conns : Stream(d)' = IF d \in Members \ {c} THEN Stream(d) \o t ELSE Stream(d)
    BY <1>6 DEF Publishes, Known, IInv, TypeOK, t
  <2>3. \A d \in Conns : taken'[d] \div Frags = IF d = c THEN (taken[c] \div Frags) + q
                                                        ELSE taken[d] \div Frags
    BY <2>1, <2>2
  <2>4. CASE q = 0
    <3>1. \A d \in Conns : Stream(d)' = Stream(d)
      BY <1>1, <2>1, <2>2, <2>4, ConcatEmptySeq
    <3>2. \A d \in Conns : taken'[d] \div Frags = taken[d] \div Frags
      <4>1. taken[c] \div Frags \in Nat
        BY <1>1, DivMod
      <4> QED BY <2>3, <2>4, <4>1
    <3>3. UNCHANGED Bus!busVars
      BY <2>2, <3>1, <3>2 DEF Bus!busVars
    <3> QED BY <3>3
  <2>5. CASE q # 0
    <3>1. q \in 1..ReadMax
      BY <2>5, SizeAssumption
    <3>2. ASSUME NEW d \in Members \ {c}
          PROVE  WholeMessages(Stream(d)') = WholeMessages(Stream(d)) \o batch
      <4> DEFINE s == Stream(d)
      <4>1. s \in Seq(Pieces) /\ Len(s) % Frags = 0 /\ Stream(d)' = s \o t
        BY <1>1, <2>2 DEF BInv, NoTornMessage, Members
      <4> HIDE DEF s
      <4>2. WholeMessages(s \o t) = WholeMessages(s) \o WholeMessages(t)
        BY <2>1, <4>1, WholeMessagesConcat
      <4> QED BY <2>1, <4>1, <4>2 DEF s
    <3>3. [d \in Conns |-> WholeMessages(Stream(d)')] =
            [d \in Conns |-> IF d \in Members \ {c} THEN WholeMessages(Stream(d)) \o batch
                                                    ELSE WholeMessages(Stream(d))]
      BY <2>2, <3>2
    <3>4. Bus!Publish(c, q)
      BY <2>2, <2>3, <3>3 DEF Bus!Publish, Bus!Batch, batch
    <3> QED BY <3>1, <3>4 DEF Bus!BusNext
  <2> QED BY <2>4, <2>5
<1> QED
  BY <1>2, <1>3, <1>4, <1>5, <1>6 DEF StreamStep, Bus!BusNext

\* The select() loop with its slots, buffers and partial reads and writes is
\* a reliable broadcast: one common order of all messages, nothing twice,
\* nothing torn, nothing back to its sender, and only the end of what a
\* client was promised is lost, when it or the server goes.
THEOREM ReflectorIsReliableBroadcast == Spec => ImplementsBus
<1>1. BInv /\ [Next]_vars => [Bus!BusNext]_(Bus!busVars)
  BY NextStream, StreamBus DEF BInv
<1> QED
  BY InitBInv, NextBInv, InitBus, <1>1, PTL DEF Spec, ImplementsBus, Bus!BusSpec
=============================================================================
