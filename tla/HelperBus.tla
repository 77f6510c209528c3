----------------------------- MODULE HelperBus -----------------------------
(***************************************************************************)
(* What uim-helper-server promises, without sockets, buffers or select():  *)
(* a reliable broadcast among the connected clients.  A batch of messages  *)
(* of one sender is appended, whole and in the order they were sent, to    *)
(* the inbox of every other member in one step.  So all members see all    *)
(* messages in one common order, nobody sees a message twice or torn, and  *)
(* nobody hears itself.  A member that leaves may lose the end of its      *)
(* inbox, never its middle.                                                *)
(*                                                                         *)
(* A message is <<sender, number>>; senders number their messages from 1.  *)
(***************************************************************************)
EXTENDS Naturals, Sequences, SequencesExt

CONSTANTS
  Conns,    \* the connections clients may make
  MaxBatch  \* the most messages one read can complete

VARIABLES
  members,    \* the connections messages are reflected to
  published,  \* how many messages of each connection have been reflected
  inbox       \* what each connection has been promised, oldest first

busVars == <<members, published, inbox>>

BusInit ==
  /\ members = {}
  /\ published = [c \in Conns |-> 0]
  /\ inbox = [c \in Conns |-> <<>>]

Join(c) ==
  /\ c \notin members
  /\ members' = members \union {c}
  /\ inbox[c] = <<>>
  /\ UNCHANGED <<published, inbox>>

\* The next n messages of sender c.
Batch(c, n) == [k \in 1..n |-> <<c, published[c] + k>>]

Publish(c, n) ==
  /\ published' = [published EXCEPT ![c] = @ + n]
  /\ inbox' = [d \in Conns |->
                 IF d \in members \ {c} THEN inbox[d] \o Batch(c, n) ELSE inbox[d]]
  /\ UNCHANGED members

\* A connection that ends, or has ended, may lose what was still on its way.
Depart(c) ==
  /\ members' = members \ {c}
  /\ IsPrefix(inbox'[c], inbox[c])
  /\ \A d \in Conns \ {c} : inbox'[d] = inbox[d]
  /\ UNCHANGED published

\* The server process is gone: every member leaves at once.
Collapse ==
  /\ members # {}
  /\ members' = {}
  /\ \A d \in Conns : IsPrefix(inbox'[d], inbox[d])
  /\ UNCHANGED published

BusNext ==
  \/ \E c \in Conns : Join(c) \/ Depart(c)
  \/ \E c \in Conns, n \in 1..MaxBatch : Publish(c, n)
  \/ Collapse

BusSpec == BusInit /\ [][BusNext]_busVars
=============================================================================
