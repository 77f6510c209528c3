--------------------------- MODULE HelperStartup ---------------------------
(***************************************************************************)
(* How the clients of a session find uim-helper-server, or start it:       *)
(* uim_helper_init_client_fd (uim/uim-helper-client.c) against main and    *)
(* init_server_fd (uim/uim-helper-server.c).  Every client process and     *)
(* every server process runs on its own; they meet in the socket's path    *)
(* name, which a starting server unlinks before it binds it anew.          *)
(*                                                                         *)
(* The running server is cut down to what decides its life: which          *)
(* connections are queued, which are accepted, and the session check that  *)
(* ends it.  HelperServer models that loop in full.                        *)
(***************************************************************************)
EXTENDS Integers, FiniteSets

CONSTANTS
  Clients,   \* the processes that call uim_helper_init_client_fd
  MaxInits,  \* how often each of them calls it (bound)
  NoServer   \* nothing at the path, or no connection

ASSUME StartupAssumption ==
  /\ IsFiniteSet(Clients)
  /\ MaxInits \in Nat \ {0}

\* One process per call is as many as the calls can start.
Servers == 1..(Cardinality(Clients) * MaxInits)

ASSUME NoServerAssumption == NoServer \notin Servers

VARIABLES
  cpc,       \* client: "out", "connect", "await", "reconnect", "in", "failed"
  inits,     \* calls each client has begun; numbers its connections
  server,    \* the server a client is connected to, or waits for
  spc,       \* server: "unused", "unlink", "bind", "listen", "announce",
             \*         "refused", "select", "scan", "dead"
  path,      \* the server whose socket the path name leads to
  announced, \* servers that have printed "waiting", or ended without
  queue,     \* connections a server has not accepted
  accepted,  \* connections a server serves
  gone,      \* those of them whose end of file the running pass has seen
  overlap    \* history: two calls were under way at once

vars == <<cpc, inits, server, spc, path, announced, queue, accepted, gone, overlap>>
serverVars == <<spc, path, announced, queue, accepted, gone>>
clientVars == <<cpc, inits, server, overlap>>

Connection(c) == <<c, inits[c]>>
Open(link) == cpc[link[1]] = "in" /\ inits[link[1]] = link[2]
Initialising == {c \in Clients : cpc[c] \in {"connect", "await", "reconnect"}}
Listening(s) == spc[s] \in {"announce", "select", "scan"}

Init ==
  /\ cpc = [c \in Clients |-> "out"]
  /\ inits = [c \in Clients |-> 0]
  /\ server = [c \in Clients |-> NoServer]
  /\ spc = [s \in Servers |-> "unused"]
  /\ path = NoServer
  /\ announced = {}
  /\ queue = [s \in Servers |-> {}]
  /\ accepted = [s \in Servers |-> {}]
  /\ gone = [s \in Servers |-> {}]
  /\ overlap = FALSE

-----------------------------------------------------------------------------
(* uim_helper_init_client_fd. *)

\* The path name leads to a socket somebody listens on; without a listener
\* connect() fails with ENOENT or ECONNREFUSED.
\* The mutant ignores connect()'s result.
ReachableAlways == TRUE
Reachable == path # NoServer /\ Listening(path)

InitClient(c) ==
  /\ cpc[c] \in {"out", "failed"}
  /\ inits[c] < MaxInits
  /\ cpc' = [cpc EXCEPT ![c] = "connect"]
  /\ inits' = [inits EXCEPT ![c] = @ + 1]
  /\ server' = [server EXCEPT ![c] = NoServer]
  /\ overlap' = (overlap \/ Initialising # {})
  /\ UNCHANGED serverVars

\* connect() succeeds, at the first or the second attempt.
ConnectTo(c) ==
  /\ cpc[c] \in {"connect", "reconnect"}
  /\ Reachable
  /\ cpc' = [cpc EXCEPT ![c] = "in"]
  /\ server' = [server EXCEPT ![c] = path]
  /\ queue' = [queue EXCEPT ![path] = @ \union {Connection(c)}]
  /\ UNCHANGED <<inits, overlap, spc, path, announced, accepted, gone>>

\* The first attempt fails: uim_ipc_open_command starts a server.
Spawn(c) ==
  /\ cpc[c] = "connect"
  /\ ~Reachable
  /\ \E s \in Servers :
       /\ spc[s] = "unused"
       /\ \A t \in Servers : spc[t] = "unused" => s <= t
       /\ spc' = [spc EXCEPT ![s] = "unlink"]
       /\ server' = [server EXCEPT ![c] = s]
  /\ cpc' = [cpc EXCEPT ![c] = "await"]
  /\ UNCHANGED <<inits, overlap, path, announced, queue, accepted, gone>>

\* fgets() has read the empty line after "waiting", or end of file.
Await(c) ==
  /\ cpc[c] = "await"
  /\ server[c] \in announced
  /\ cpc' = [cpc EXCEPT ![c] = "reconnect"]
  /\ server' = [server EXCEPT ![c] = NoServer]
  /\ UNCHANGED <<inits, overlap, serverVars>>

\* The second attempt fails: so does the call.
GiveUp(c) ==
  /\ cpc[c] = "reconnect"
  /\ ~Reachable
  /\ cpc' = [cpc EXCEPT ![c] = "failed"]
  /\ UNCHANGED <<inits, server, overlap, serverVars>>

\* uim_helper_close_client_fd: the client ends the connection, or reads the
\* end of file of a server that is gone.
Close(c) ==
  /\ cpc[c] = "in"
  /\ cpc' = [cpc EXCEPT ![c] = "out"]
  /\ server' = [server EXCEPT ![c] = NoServer]
  /\ UNCHANGED <<inits, overlap, serverVars>>

-----------------------------------------------------------------------------
(* main and init_server_fd. *)

\* The mutant leaves a stale socket in place.
UnlinkedMutant == path
Unlinked == NoServer

Unlink(s) ==
  /\ spc[s] = "unlink"
  /\ path' = Unlinked
  /\ spc' = [spc EXCEPT ![s] = "bind"]
  /\ UNCHANGED <<announced, queue, accepted, gone, clientVars>>

\* bind() fails with EADDRINUSE when the path name exists.
Bind(s) ==
  /\ spc[s] = "bind"
  /\ path' = IF path = NoServer THEN s ELSE path
  /\ spc' = [spc EXCEPT ![s] = IF path = NoServer THEN "listen" ELSE "refused"]
  /\ UNCHANGED <<announced, queue, accepted, gone, clientVars>>

Listen(s) ==
  /\ spc[s] = "listen"
  /\ spc' = [spc EXCEPT ![s] = "announce"]
  /\ UNCHANGED <<path, announced, queue, accepted, gone, clientVars>>

\* "waiting" is printed whether or not init_server_fd succeeded; the mutant
\* stays silent, and alive, when it did not.
AnnounceMutant(s) ==
  /\ spc[s] = "announce"
  /\ announced' = announced \union {s}
  /\ spc' = [spc EXCEPT ![s] = "select"]
  /\ UNCHANGED <<path, queue, accepted, gone, clientVars>>

Announce(s) ==
  /\ spc[s] \in {"announce", "refused"}
  /\ announced' = announced \union {s}
  /\ spc' = [spc EXCEPT ![s] = IF @ = "announce" THEN "select" ELSE "dead"]
  /\ UNCHANGED <<path, queue, accepted, gone, clientVars>>

\* The mutant accepts nobody beside a client it already has.
AcceptableMutant(s) == IF accepted[s] = {} THEN queue[s] ELSE {}
Acceptable(s) == queue[s]

AcceptOne(s) ==
  /\ spc[s] = "select"
  /\ \E link \in Acceptable(s) :
       /\ queue' = [queue EXCEPT ![s] = @ \ {link}]
       /\ accepted' = [accepted EXCEPT ![s] = @ \union {link}]
  /\ UNCHANGED <<spc, path, announced, gone, clientVars>>

\* select() answers for clients only when nobody is queued.
SelectClients(s) ==
  LET ended == {link \in accepted[s] : ~Open(link)}
  IN  /\ spc[s] = "select"
      /\ queue[s] = {} /\ ended # {}
      /\ gone' = [gone EXCEPT ![s] = ended]
      /\ spc' = [spc EXCEPT ![s] = "scan"]
      /\ UNCHANGED <<path, announced, queue, accepted, clientVars>>

\* The mutant ends the server while it still has clients.
NobodyLeftMutant(links) == TRUE
NobodyLeft(links) == links = {}

\* The ended clients are closed; without a client left the process returns,
\* leaves its socket file behind and drops whoever has queued meanwhile.
ScanClients(s) ==
  LET left == accepted[s] \ gone[s]
  IN  /\ spc[s] = "scan"
      /\ gone' = [gone EXCEPT ![s] = {}]
      /\ IF NobodyLeft(left)
         THEN /\ spc' = [spc EXCEPT ![s] = "dead"]
              /\ accepted' = [accepted EXCEPT ![s] = {}]
              /\ queue' = [queue EXCEPT ![s] = {}]
         ELSE /\ spc' = [spc EXCEPT ![s] = "select"]
              /\ accepted' = [accepted EXCEPT ![s] = left]
              /\ UNCHANGED queue
      /\ UNCHANGED <<path, announced, clientVars>>

-----------------------------------------------------------------------------
CallStep(c) == ConnectTo(c) \/ Spawn(c) \/ Await(c) \/ GiveUp(c)
ServerStep(s) ==
  \/ Unlink(s) \/ Bind(s) \/ Listen(s) \/ Announce(s)
  \/ AcceptOne(s) \/ SelectClients(s) \/ ScanClients(s)

\* Every client has used its calls.
Quiet ==
  /\ \A c \in Clients : inits[c] = MaxInits /\ cpc[c] \in {"out", "failed"}
  /\ UNCHANGED vars

Next ==
  \/ \E c \in Clients : InitClient(c) \/ CallStep(c) \/ Close(c)
  \/ \E s \in Servers : ServerStep(s)
  \/ Quiet

Spec == Init /\ [][Next]_vars

\* A call that has begun goes on, and so does every server process.
FairSpec ==
  /\ Spec
  /\ \A c \in Clients : WF_vars(CallStep(c))
  /\ \A s \in Servers : WF_vars(ServerStep(s))

-----------------------------------------------------------------------------
(* Properties. *)

TypeOK ==
  /\ cpc \in [Clients -> {"out", "connect", "await", "reconnect", "in", "failed"}]
  /\ inits \in [Clients -> 0..MaxInits]
  /\ server \in [Clients -> Servers \union {NoServer}]
  /\ spc \in [Servers -> {"unused", "unlink", "bind", "listen", "announce", "refused",
                          "select", "scan", "dead"}]
  /\ path \in Servers \union {NoServer}
  /\ announced \subseteq Servers
  /\ queue \in [Servers -> SUBSET (Clients \X (1..MaxInits))]
  /\ accepted \in [Servers -> SUBSET (Clients \X (1..MaxInits))]
  /\ gone \in [Servers -> SUBSET (Clients \X (1..MaxInits))]
  /\ overlap \in BOOLEAN
  /\ \A c \in Clients : cpc[c] \in {"await", "in"} <=> server[c] # NoServer
  /\ \A s \in Servers : gone[s] \subseteq accepted[s]

Served(c) == cpc[c] = "in" /\ Connection(c) \in queue[server[c]] \union accepted[server[c]]

\* As long as no two calls overlap, no call fails, whatever socket file a dead
\* server left behind, and the clients that have a server have the same one,
\* however often it died and was replaced in between.
SerialStartsShareServer ==
  ~overlap =>
    /\ \A c \in Clients : cpc[c] # "failed"
    /\ \A c, d \in Clients : Served(c) /\ Served(d) => server[c] = server[d]

\* A server that has accepted a client does not leave it while it is open.
AcceptedNotAbandoned ==
  [][\A s \in Servers : \A link \in accepted[s] :
       Open(link) => link \in accepted'[s]]_vars

\* Every call returns: no order of unlinks, binds and deaths leaves a client
\* waiting in uim_helper_init_client_fd.
InitReturns == \A c \in Clients : cpc[c] = "connect" ~> cpc[c] \in {"in", "failed"}

\* Every connection is accepted, unless its client goes or its server dies.
EventuallyAccepted ==
  \A c \in Clients : Served(c) ~> \/ cpc[c] # "in"
                                  \/ Connection(c) \in accepted[server[c]]
                                  \/ spc[server[c]] = "dead"

\* doc/HELPER-PROTOCOL:8: the participants "form a peer-to-peer star topology
\* network connected via central uim-helper-server".
OneStar == \A c, d \in Clients : Served(c) /\ Served(d) => server[c] = server[d]
=============================================================================
