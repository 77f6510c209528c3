------------------------ MODULE HelperStartup_proofs ------------------------
(***************************************************************************)
(* Finding or starting uim-helper-server works as long as the calls of     *)
(* uim_helper_init_client_fd do not overlap, and an accepted client is     *)
(* never abandoned whether they do or not: for any number of clients,      *)
(* calls and server processes.                                             *)
(*                                                                         *)
(* The first half of IInv is about every behaviour: connections are        *)
(* numbered, so one that has ended stays ended, and only a listening       *)
(* server has any.  The second half, Serial, is about those without an     *)
(* overlap: one call is under way at most and one server is alive at most, *)
(* the one the path leads to; while it starts, the call waits for it, and  *)
(* nobody else can have connected when the call tries again.               *)
(***************************************************************************)
EXTENDS HelperStartup, TLAPS

CallStates == {"out", "connect", "await", "reconnect", "in", "failed"}
ServerStates == {"unused", "unlink", "bind", "listen", "announce", "refused",
                 "select", "scan", "dead"}
Links == Clients \X (1..MaxInits)

\* A call that was begun has a number.
Numbered == \A c \in Clients : cpc[c] # "out" => inits[c] \in 1..MaxInits

\* The last connection of a client is open or was closed by it; those before
\* it are closed for good.
Ended(link) ==
  \/ link[2] < inits[link[1]]
  \/ link[2] = inits[link[1]] /\ cpc[link[1]] \in {"in", "out"}
LinksEnd == \A s \in Servers : \A link \in queue[s] \union accepted[s] : Ended(link)
GoneClosed == \A s \in Servers : \A link \in gone[s] : ~Open(link)

\* Only a server that listens has connections, and one that starts is silent.
Starting(s) == spc[s] \in {"unlink", "bind", "listen", "announce"}
BusyListens == \A s \in Servers : queue[s] \union accepted[s] # {} => Listening(s)
StartsSilently == \A s \in Servers : spc[s] = "unused" \/ Starting(s) => s \notin announced

History == TypeOK /\ Numbered /\ LinksEnd /\ GoneClosed /\ BusyListens /\ StartsSilently

Alive(s) == spc[s] \notin {"unused", "dead"}
Idle(s) == queue[s] = {} /\ accepted[s] = {}

OneCall == \A c, d \in Initialising : c = d
OneServer == \A s, t \in Servers : Alive(s) /\ Alive(t) => s = t
AtPath ==
  \A s \in Servers : /\ spc[s] \in {"listen", "announce", "select", "scan"} => path = s
                     /\ spc[s] = "bind" => path = NoServer
                     /\ spc[s] # "refused"
Awaited ==
  \A s \in Servers : Starting(s) => /\ Idle(s)
                                    /\ \E c \in Clients : cpc[c] = "await" /\ server[c] = s
Prepared ==
  \A c \in Clients :
    /\ cpc[c] = "await" => \/ Starting(server[c])
                           \/ spc[server[c]] = "select" /\ Idle(server[c])
    /\ cpc[c] = "reconnect" => path # NoServer /\ spc[path] = "select" /\ Idle(path)
    /\ cpc[c] # "failed"

Serial == OneCall /\ OneServer /\ AtPath /\ Awaited /\ Prepared

IInv == History /\ (~overlap => Serial)

-----------------------------------------------------------------------------
(* Every behaviour. *)

LEMMA InitHistory == Init => History
<1> SUFFICES ASSUME Init PROVE History
  OBVIOUS
<1>1. TypeOK
  <2>1. inits \in [Clients -> 0..MaxInits]
    BY StartupAssumption DEF Init
  <2>2. {} \in SUBSET (Clients \X (1..MaxInits))
    OBVIOUS
  <2> QED BY <2>1, <2>2 DEF Init, TypeOK
<1> QED
  BY <1>1 DEF Init, History, Numbered, LinksEnd, GoneClosed, BusyListens, StartsSilently,
              Starting

\* A call begins: the connections its client had are older from now on.
LEMMA InitClientHistory ==
  ASSUME History, NEW c \in Clients, InitClient(c)
  PROVE  History'
<1>1. /\ cpc' = [cpc EXCEPT ![c] = "connect"] /\ inits' = [inits EXCEPT ![c] = @ + 1]
      /\ server' = [server EXCEPT ![c] = NoServer]
      /\ cpc[c] \in {"out", "failed"} /\ inits[c] < MaxInits
      /\ UNCHANGED <<spc, path, announced, queue, accepted, gone>>
  BY DEF InitClient, serverVars
<1>2. inits[c] \in 0..MaxInits /\ MaxInits \in Nat
  BY StartupAssumption DEF History, TypeOK
<1>3. TypeOK'
  BY <1>1, <1>2 DEF InitClient, History, TypeOK
<1>4. Numbered'
  BY <1>1, <1>2 DEF History, TypeOK, Numbered
<1>5. ASSUME NEW s \in Servers, NEW link \in queue[s] \union accepted[s]
      PROVE  Ended(link)' /\ (~Open(link) => ~Open(link)')
  <2>1. link \in Links
    BY DEF History, TypeOK, Links
  <2>2. link[1] \in Clients /\ link[2] \in Nat
    BY <2>1 DEF Links
  <2>3. Ended(link)
    BY DEF History, LinksEnd
  <2> QED BY <1>1, <1>2, <2>2, <2>3 DEF Ended, Open, History, TypeOK
<1>6. LinksEnd' /\ GoneClosed'
  BY <1>1, <1>5 DEF History, TypeOK, LinksEnd, GoneClosed
<1>7. BusyListens' /\ StartsSilently'
  BY <1>1 DEF History, BusyListens, StartsSilently, Listening, Starting
<1> QED
  BY <1>3, <1>4, <1>6, <1>7 DEF History

\* connect() queues a connection no server has seen yet.
LEMMA ConnectHistory ==
  ASSUME History, NEW c \in Clients, ConnectTo(c)
  PROVE  History'
<1>1. /\ cpc[c] \in {"connect", "reconnect"} /\ path \in Servers /\ Listening(path)
      /\ cpc' = [cpc EXCEPT ![c] = "in"] /\ server' = [server EXCEPT ![c] = path]
      /\ queue' = [queue EXCEPT ![path] = @ \union {Connection(c)}]
      /\ UNCHANGED <<inits, overlap, spc, path, announced, accepted, gone>>
  BY DEF ConnectTo, Reachable, History, TypeOK
<1>2. Connection(c) \in Links /\ Ended(Connection(c))'
  BY <1>1 DEF Connection, Links, Ended, History, TypeOK, Numbered
<1>3. TypeOK'
  BY <1>1, <1>2, NoServerAssumption DEF History, TypeOK, Links
<1>4. Numbered'
  BY <1>1 DEF History, TypeOK, Numbered
<1>5. ASSUME NEW s \in Servers, NEW link \in queue[s] \union accepted[s]
      PROVE  Ended(link)' /\ (~Open(link) => ~Open(link)')
  <2>1. link[1] \in Clients /\ link[2] \in Nat
    BY DEF History, TypeOK
  <2>2. Ended(link)
    BY DEF History, LinksEnd
  <2> QED BY <1>1, <2>1, <2>2 DEF Ended, Open, History, TypeOK
<1>6. LinksEnd' /\ GoneClosed'
  <2>1. \A s \in Servers : \A link \in queue'[s] \union accepted'[s] :
          link \in queue[s] \union accepted[s] \/ link = Connection(c)
    BY <1>1 DEF History, TypeOK
  <2>2. LinksEnd'
    <3>1. ASSUME NEW link, link = Connection(c) PROVE Ended(link)'
      BY <1>1, <1>2, <3>1 DEF Ended, Connection
    <3> QED BY <1>5, <2>1, <3>1 DEF LinksEnd
  <2>3. GoneClosed'
    BY <1>1, <1>5 DEF History, TypeOK, GoneClosed
  <2> QED BY <2>2, <2>3
<1>7. BusyListens' /\ StartsSilently'
  BY <1>1 DEF History, TypeOK, BusyListens, StartsSilently, Listening, Starting
<1> QED
  BY <1>3, <1>4, <1>6, <1>7 DEF History

\* The other steps of a client open no connection, and end one at most.
LEMMA CallHistory ==
  ASSUME History, NEW c \in Clients, Spawn(c) \/ Await(c) \/ GiveUp(c) \/ Close(c)
  PROVE  History'
<1>1. /\ UNCHANGED <<inits, overlap, path, announced, queue, accepted, gone>>
      /\ \E x \in CallStates \ {"in"} : cpc' = [cpc EXCEPT ![c] = x]
      /\ cpc[c] \in {"connect", "await", "reconnect"} \/ cpc'[c] = "out"
  BY DEF Spawn, Await, GiveUp, Close, CallStates, serverVars, History, TypeOK
<1>2. \A s \in Servers : spc'[s] = spc[s] \/ (spc[s] = "unused" /\ spc'[s] = "unlink")
  BY DEF Spawn, Await, GiveUp, Close, serverVars, History, TypeOK
<1>3. TypeOK'
  <2>1. CASE Spawn(c)
    <3>1. PICK s \in Servers : /\ spc' = [spc EXCEPT ![s] = "unlink"]
                               /\ server' = [server EXCEPT ![c] = s]
      BY <2>1 DEF Spawn
    <3>2. s # NoServer /\ cpc' = [cpc EXCEPT ![c] = "await"]
      BY <2>1, NoServerAssumption DEF Spawn
    <3> QED BY <1>1, <3>1, <3>2 DEF History, TypeOK
  <2>2. CASE Await(c) \/ GiveUp(c) \/ Close(c)
    BY <2>2 DEF Await, GiveUp, Close, serverVars, History, TypeOK
  <2> QED BY <2>1, <2>2
<1>4. Numbered'
  BY <1>1 DEF History, TypeOK, Numbered
<1>5. ASSUME NEW s \in Servers, NEW link \in queue[s] \union accepted[s]
      PROVE  Ended(link)' /\ (~Open(link) => ~Open(link)')
  <2>1. link[1] \in Clients /\ link[2] \in Nat
    BY DEF History, TypeOK
  <2>2. Ended(link)
    BY DEF History, LinksEnd
  <2> QED BY <1>1, <2>1, <2>2 DEF Ended, Open, History, TypeOK
<1>6. LinksEnd' /\ GoneClosed'
  BY <1>1, <1>5 DEF History, TypeOK, LinksEnd, GoneClosed
<1>7. BusyListens' /\ StartsSilently'
  BY <1>1, <1>2 DEF History, BusyListens, StartsSilently, Listening, Starting
<1> QED
  BY <1>3, <1>4, <1>6, <1>7 DEF History

\* A server process has nothing to say of the clients.
LEMMA ServerHistory ==
  ASSUME History, NEW s \in Servers, ServerStep(s)
  PROVE  History'
<1>1. UNCHANGED <<cpc, inits, server, overlap>>
  BY DEF ServerStep, Unlink, Bind, Listen, Announce, AcceptOne, SelectClients, ScanClients,
         clientVars
<1>2. /\ \A t \in Servers : queue'[t] \union accepted'[t] \subseteq queue[t] \union accepted[t]
      /\ \A t \in Servers : \A link \in gone'[t] : ~Open(link)
      /\ \A t \in Servers : t # s => spc'[t] = spc[t]
      /\ queue'[s] \union accepted'[s] # {} => Listening(s)'
      /\ spc'[s] = "unused" \/ Starting(s)' => s \notin announced'
      /\ \A t \in Servers : t # s => (t \in announced' <=> t \in announced)
  <2>1. CASE Unlink(s) \/ Bind(s) \/ Listen(s)
    <3>1. UNCHANGED <<queue, accepted, gone, announced>>
      BY <2>1 DEF Unlink, Bind, Listen
    <3>2. queue[s] \union accepted[s] = {} /\ s \notin announced
      BY <2>1 DEF Unlink, Bind, Listen, History, BusyListens, StartsSilently, Listening, Starting
    <3>3. \A t \in Servers : t # s => spc'[t] = spc[t]
      BY <2>1 DEF Unlink, Bind, Listen, History, TypeOK
    <3> QED BY <3>1, <3>2, <3>3 DEF History, GoneClosed
  <2>2. CASE Announce(s)
    BY <2>2 DEF Announce, History, TypeOK, GoneClosed, BusyListens, Listening, Starting
  <2>3. CASE AcceptOne(s)
    BY <2>3 DEF AcceptOne, Acceptable, History, TypeOK, GoneClosed, Listening, Starting
  <2>4. CASE SelectClients(s)
    BY <2>4 DEF SelectClients, History, TypeOK, GoneClosed, Listening, Starting
  <2>5. CASE ScanClients(s)
    BY <2>5 DEF ScanClients, NobodyLeft, History, TypeOK, GoneClosed, Listening, Starting
  <2> QED BY <2>1, <2>2, <2>3, <2>4, <2>5 DEF ServerStep
<1>3. TypeOK'
  <2>1. CASE Unlink(s) \/ Bind(s) \/ Listen(s) \/ Announce(s)
    BY <2>1 DEF Unlink, Unlinked, Bind, Listen, Announce, clientVars, History, TypeOK
  <2>2. CASE AcceptOne(s)
    BY <2>2 DEF AcceptOne, Acceptable, clientVars, History, TypeOK
  <2>3. CASE SelectClients(s)
    BY <2>3 DEF SelectClients, clientVars, History, TypeOK
  <2>4. CASE ScanClients(s)
    BY <2>4 DEF ScanClients, NobodyLeft, clientVars, History, TypeOK
  <2> QED BY <2>1, <2>2, <2>3, <2>4 DEF ServerStep
<1>4. Numbered' /\ LinksEnd' /\ GoneClosed'
  BY <1>1, <1>2 DEF History, Numbered, LinksEnd, GoneClosed, Ended, Open
<1>5. BusyListens' /\ StartsSilently'
  <2>1. ASSUME NEW t \in Servers, queue'[t] \union accepted'[t] # {}
        PROVE  Listening(t)'
    BY <1>2, <2>1 DEF History, BusyListens, Listening
  <2>2. ASSUME NEW t \in Servers, spc'[t] = "unused" \/ Starting(t)'
        PROVE  t \notin announced'
    BY <1>2, <2>2 DEF History, StartsSilently, Starting
  <2> QED BY <2>1, <2>2 DEF BusyListens, StartsSilently
<1> QED
  BY <1>3, <1>4, <1>5 DEF History

LEMMA NextHistory == History /\ [Next]_vars => History'
<1> SUFFICES ASSUME History, [Next]_vars PROVE History'
  OBVIOUS
<1>1. ASSUME NEW c \in Clients, InitClient(c) \/ CallStep(c) \/ Close(c) PROVE History'
  BY <1>1, InitClientHistory, ConnectHistory, CallHistory DEF CallStep
<1>2. ASSUME NEW s \in Servers, ServerStep(s) PROVE History'
  BY <1>2, ServerHistory
<1>3. CASE UNCHANGED vars
  BY <1>3 DEF vars, History, TypeOK, Numbered, LinksEnd, GoneClosed, BusyListens, StartsSilently,
              Ended, Open, Listening, Starting
<1> QED
  BY <1>1, <1>2, <1>3 DEF Next, Quiet

-----------------------------------------------------------------------------
(* Behaviours in which no two calls overlap. *)

\* While a server starts, the call that started it is the only one under way.
LEMMA StarterWaits ==
  ASSUME IInv, ~overlap, NEW s \in Servers, Starting(s), NEW c \in Initialising
  PROVE  cpc[c] = "await" /\ server[c] = s
<1>1. PICK d \in Clients : cpc[d] = "await" /\ server[d] = s
  BY DEF IInv, Serial, Awaited
<1>2. c = d
  BY <1>1 DEF IInv, Serial, OneCall, Initialising
<1> QED
  BY <1>1, <1>2

\* A call begins when none is under way, so that no server is starting.
LEMMA InitClientSerial ==
  ASSUME IInv, NEW c \in Clients, InitClient(c), ~overlap'
  PROVE  Serial'
<1>1. /\ ~overlap /\ Initialising = {} /\ Serial
      /\ cpc' = [cpc EXCEPT ![c] = "connect"]
      /\ UNCHANGED <<spc, path, announced, queue, accepted, gone>>
  BY DEF InitClient, serverVars, IInv
<1>2. \A d \in Clients : d # c => cpc'[d] = cpc[d] /\ cpc[d] \notin {"await", "connect", "reconnect"}
  BY <1>1 DEF IInv, History, TypeOK, Initialising
<1>3. cpc'[c] = "connect"
  BY <1>1 DEF IInv, History, TypeOK
<1>4. \A s \in Servers : ~Starting(s)
  BY <1>1 DEF Serial, Awaited, Initialising
<1>5. OneCall' /\ Prepared'
  BY <1>1, <1>2, <1>3 DEF Serial, Prepared, OneCall, Initialising
<1>6. OneServer' /\ AtPath'
  BY <1>1 DEF Serial, OneServer, AtPath, Alive
<1>7. Awaited'
  BY <1>1, <1>4 DEF Awaited, Starting
<1> QED
  BY <1>5, <1>6, <1>7 DEF Serial

LEMMA ConnectSerial ==
  ASSUME IInv, NEW c \in Clients, ConnectTo(c), ~overlap'
  PROVE  Serial'
<1>1. /\ ~overlap /\ Serial /\ path \in Servers /\ c \in Initialising
      /\ cpc[c] \in {"connect", "reconnect"}
      /\ cpc' = [cpc EXCEPT ![c] = "in"] /\ server' = [server EXCEPT ![c] = path]
      /\ queue' = [queue EXCEPT ![path] = @ \union {Connection(c)}]
      /\ UNCHANGED <<inits, overlap, spc, path, announced, accepted, gone>>
  BY DEF ConnectTo, Reachable, IInv, History, TypeOK, Initialising
<1>2. \A d \in Clients : d # c => cpc'[d] = cpc[d] /\ cpc[d] \notin {"await", "connect", "reconnect"}
  BY <1>1 DEF IInv, History, TypeOK, Serial, OneCall, Initialising
<1>3. cpc'[c] = "in"
  BY <1>1 DEF IInv, History, TypeOK
<1>4. \A s \in Servers : ~Starting(s)
  BY <1>1, StarterWaits
<1>5. OneCall' /\ Prepared'
  BY <1>1, <1>2, <1>3 DEF Serial, Prepared, OneCall, Initialising
<1>6. OneServer' /\ AtPath'
  BY <1>1 DEF Serial, OneServer, AtPath, Alive
<1>7. Awaited'
  BY <1>1, <1>4 DEF Awaited, Starting
<1> QED
  BY <1>5, <1>6, <1>7 DEF Serial

\* A server is started only when none is alive: a living one that does not
\* start is reachable at the path, and one that starts has its call waiting.
LEMMA SpawnSerial ==
  ASSUME IInv, NEW c \in Clients, Spawn(c), ~overlap'
  PROVE  Serial'
<1>1. PICK s \in Servers : /\ spc[s] = "unused" /\ spc' = [spc EXCEPT ![s] = "unlink"]
                           /\ server' = [server EXCEPT ![c] = s]
  BY DEF Spawn
<1>2. /\ ~overlap /\ Serial /\ cpc[c] = "connect" /\ c \in Initialising /\ ~Reachable
      /\ cpc' = [cpc EXCEPT ![c] = "await"]
      /\ UNCHANGED <<inits, overlap, path, announced, queue, accepted, gone>>
  BY DEF Spawn, IInv, Initialising
<1>3. \A t \in Servers : ~Starting(t)
  BY <1>2, StarterWaits
<1>4. \A t \in Servers : ~Alive(t)
  <2>1. ASSUME NEW t \in Servers, spc[t] \in {"select", "scan"} PROVE FALSE
    <3>1. path = t
      BY <1>2, <2>1 DEF Serial, AtPath
    <3> QED BY <1>2, <2>1, <3>1, NoServerAssumption DEF Reachable, Listening
  <2>2. \A t \in Servers : spc[t] \in ServerStates /\ spc[t] # "refused"
    BY <1>2 DEF IInv, History, TypeOK, ServerStates, Serial, AtPath
  <2> QED BY <1>3, <2>1, <2>2 DEF Alive, Starting, ServerStates
<1>5. /\ \A t \in Servers : t # s => spc'[t] = spc[t] /\ spc[t] \in {"unused", "dead"}
      /\ spc'[s] = "unlink"
  BY <1>1, <1>4 DEF IInv, History, TypeOK, Alive
<1>6. /\ \A d \in Clients : d # c => cpc'[d] = cpc[d] /\ cpc[d] \notin {"await", "connect", "reconnect"}
      /\ cpc'[c] = "await" /\ server'[c] = s
  BY <1>1, <1>2 DEF IInv, History, TypeOK, Serial, OneCall, Initialising
<1>7. OneCall'
  BY <1>6 DEF OneCall, Initialising
<1>8. OneServer' /\ AtPath'
  BY <1>5 DEF OneServer, AtPath, Alive
<1>9. Awaited'
  <2>1. queue[s] \union accepted[s] = {}
    BY <1>1 DEF IInv, History, BusyListens, Listening
  <2> QED BY <1>2, <1>5, <1>6, <2>1 DEF Awaited, Starting, Idle
<1>10. Prepared'
  BY <1>2, <1>5, <1>6 DEF Serial, Prepared, Starting
<1> QED
  BY <1>7, <1>8, <1>9, <1>10 DEF Serial

\* The line from the server has been read, so it listens: the second connect()
\* will not fail.
LEMMA AwaitSerial ==
  ASSUME IInv, NEW c \in Clients, Await(c), ~overlap'
  PROVE  Serial'
<1>1. /\ ~overlap /\ Serial /\ cpc[c] = "await" /\ c \in Initialising
      /\ server[c] \in announced
      /\ cpc' = [cpc EXCEPT ![c] = "reconnect"] /\ server' = [server EXCEPT ![c] = NoServer]
      /\ UNCHANGED <<inits, overlap, spc, path, announced, queue, accepted, gone>>
  BY DEF Await, serverVars, IInv, Initialising
<1>2. server[c] \in Servers
  BY <1>1 DEF IInv, History, TypeOK
<1>3. spc[server[c]] = "select" /\ Idle(server[c]) /\ path = server[c]
  <2>1. ~Starting(server[c])
    BY <1>1, <1>2 DEF IInv, History, StartsSilently
  <2> QED BY <1>1, <1>2, <2>1 DEF Serial, Prepared, AtPath
<1>4. \A d \in Clients : d # c => cpc'[d] = cpc[d] /\ cpc[d] \notin {"await", "connect", "reconnect"}
  BY <1>1 DEF IInv, History, TypeOK, Serial, OneCall, Initialising
<1>5. cpc'[c] = "reconnect"
  BY <1>1 DEF IInv, History, TypeOK
<1>6. OneCall'
  BY <1>4, <1>5 DEF OneCall, Initialising
<1>7. OneServer' /\ AtPath'
  BY <1>1 DEF Serial, OneServer, AtPath, Alive
<1>8. Awaited'
  <2>1. \A s \in Servers : ~Starting(s)
    BY <1>1, <1>3, StarterWaits DEF Starting
  <2> QED BY <1>1, <2>1 DEF Awaited, Starting
<1>9. Prepared'
  BY <1>1, <1>2, <1>3, <1>4, <1>5, NoServerAssumption DEF Serial, Prepared, Idle
<1> QED
  BY <1>6, <1>7, <1>8, <1>9 DEF Serial

\* The call does not fail.
LEMMA NoGiveUp ==
  ASSUME IInv, NEW c \in Clients, GiveUp(c)
  PROVE  overlap
<1> SUFFICES ASSUME ~overlap PROVE FALSE
  OBVIOUS
<1>1. cpc[c] = "reconnect" /\ ~Reachable
  BY DEF GiveUp
<1>2. path # NoServer /\ spc[path] = "select"
  BY <1>1 DEF IInv, Serial, Prepared
<1> QED
  BY <1>1, <1>2 DEF Reachable, Listening

LEMMA CloseSerial ==
  ASSUME IInv, NEW c \in Clients, Close(c), ~overlap'
  PROVE  Serial'
<1>1. /\ ~overlap /\ Serial /\ cpc[c] = "in"
      /\ cpc' = [cpc EXCEPT ![c] = "out"] /\ server' = [server EXCEPT ![c] = NoServer]
      /\ UNCHANGED <<inits, overlap, spc, path, announced, queue, accepted, gone>>
  BY DEF Close, serverVars, IInv
<1>2. /\ \A d \in Clients : d # c => cpc'[d] = cpc[d] /\ server'[d] = server[d]
      /\ cpc'[c] = "out"
  BY <1>1 DEF IInv, History, TypeOK
<1>3. OneCall'
  BY <1>1, <1>2 DEF Serial, OneCall, Initialising
<1>4. OneServer' /\ AtPath'
  BY <1>1 DEF Serial, OneServer, AtPath, Alive
<1>5. Awaited' /\ Prepared'
  BY <1>1, <1>2 DEF Serial, Awaited, Prepared, Starting, Idle
<1> QED
  BY <1>3, <1>4, <1>5 DEF Serial

\* The one server alive does not disturb the call that waits for it.
LEMMA ServerSerial ==
  ASSUME IInv, NEW s \in Servers, ServerStep(s), ~overlap'
  PROVE  Serial'
<1>1. UNCHANGED <<cpc, inits, server, overlap>>
  BY DEF ServerStep, Unlink, Bind, Listen, Announce, AcceptOne, SelectClients, ScanClients,
         clientVars
<1>2. /\ ~overlap /\ Serial /\ Alive(s)
      /\ \A t \in Servers : t # s => spc'[t] = spc[t] /\ queue'[t] = queue[t] /\ accepted'[t] = accepted[t]
  BY <1>1 DEF ServerStep, Unlink, Bind, Listen, Announce, AcceptOne, SelectClients, ScanClients,
              IInv, History, TypeOK, Alive
<1>3. \A t \in Servers : t # s => spc[t] \in {"unused", "dead"} /\ spc'[t] \in {"unused", "dead"}
  BY <1>2 DEF Serial, OneServer, Alive
<1>4. OneCall' /\ OneServer'
  BY <1>1, <1>2, <1>3 DEF Serial, OneCall, OneServer, Initialising, Alive
<1>5. CASE Unlink(s) \/ Bind(s) \/ Listen(s)
  <2>1. /\ Starting(s) /\ Starting(s)' /\ UNCHANGED <<queue, accepted>>
        /\ spc'[s] = "bind" => path' = NoServer
        /\ spc'[s] \in {"listen", "announce"} => path' = s
        /\ spc'[s] \in {"bind", "listen", "announce"}
    BY <1>2, <1>5
       DEF Unlink, Unlinked, Bind, Listen, Starting, Serial, AtPath, IInv, History, TypeOK
  <2>2. AtPath'
    BY <1>3, <2>1 DEF AtPath
  <2>3. Awaited'
    BY <1>1, <1>2, <1>3, <2>1 DEF Serial, Awaited, Starting, Idle
  <2>4. \A c \in Clients : cpc[c] # "reconnect"
    BY <1>2, <2>1, StarterWaits DEF Initialising
  <2>5. \A c \in Clients : cpc[c] = "await" => server[c] = s
    BY <1>2, <2>1, StarterWaits DEF Initialising
  <2>6. Prepared'
    BY <1>1, <1>2, <2>1, <2>4, <2>5 DEF Serial, Prepared
  <2> QED BY <1>4, <2>2, <2>3, <2>6 DEF Serial
<1>6. CASE Announce(s)
  <2>1. /\ Starting(s) /\ spc[s] = "announce" /\ spc'[s] = "select" /\ path = s
        /\ UNCHANGED <<path, queue, accepted>>
    BY <1>2, <1>6 DEF Announce, Starting, Serial, AtPath, IInv, History, TypeOK
  <2>2. AtPath' /\ Awaited'
    BY <1>2, <1>3, <2>1 DEF AtPath, Awaited, Starting
  <2>3. \A c \in Clients : /\ cpc[c] # "reconnect"
                           /\ cpc[c] = "await" => server[c] = s
    BY <1>2, <2>1, StarterWaits DEF Initialising
  <2>4. Prepared'
    BY <1>1, <1>2, <2>1, <2>3 DEF Serial, Awaited, Prepared, Idle
  <2> QED BY <1>4, <2>2, <2>4 DEF Serial
<1>7. CASE AcceptOne(s) \/ SelectClients(s) \/ ScanClients(s)
  <2>1. /\ (~Idle(s) \/ spc[s] = "scan") /\ spc[s] \in {"select", "scan"}
        /\ spc'[s] \in {"select", "scan", "dead"} /\ path = s /\ UNCHANGED path
    BY <1>2, <1>7 DEF AcceptOne, Acceptable, SelectClients, ScanClients, Idle, Serial, AtPath,
                      IInv, History, TypeOK
  <2>2. AtPath' /\ Awaited'
    BY <1>3, <2>1 DEF AtPath, Awaited, Starting
  <2>3. \A c \in Clients : cpc[c] \notin {"reconnect", "await"}
    <3>1. ASSUME NEW c \in Clients, cpc[c] = "reconnect" PROVE FALSE
      BY <1>2, <2>1, <3>1 DEF Serial, Prepared
    <3>2. ASSUME NEW c \in Clients, cpc[c] = "await" PROVE FALSE
      <4>1. server[c] \in Servers
        BY <3>2 DEF IInv, History, TypeOK
      <4>2. server[c] = s
        BY <1>2, <1>3, <3>2, <4>1 DEF Serial, Prepared, Starting
      <4> QED BY <1>2, <2>1, <3>2, <4>2 DEF Serial, Prepared, Starting
    <3> QED BY <3>1, <3>2
  <2>4. Prepared'
    BY <1>1, <1>2, <2>3 DEF Serial, Prepared
  <2> QED BY <1>4, <2>2, <2>4 DEF Serial
<1> QED
  BY <1>5, <1>6, <1>7 DEF ServerStep

-----------------------------------------------------------------------------
(* The theorems. *)

LEMMA InitIInv == Init => IInv
<1> SUFFICES ASSUME Init PROVE IInv
  OBVIOUS
<1>1. Serial
  BY DEF Init, Serial, OneCall, OneServer, AtPath, Awaited, Prepared, Initialising, Alive,
         Starting
<1> QED
  BY <1>1, InitHistory DEF IInv

LEMMA NextIInv == IInv /\ [Next]_vars => IInv'
<1> SUFFICES ASSUME IInv, [Next]_vars PROVE IInv'
  OBVIOUS
<1>1. History'
  BY NextHistory DEF IInv
<1> SUFFICES ASSUME ~overlap' PROVE Serial'
  BY <1>1 DEF IInv
<1>2. ASSUME NEW c \in Clients, InitClient(c) \/ CallStep(c) \/ Close(c) PROVE Serial'
  <2>1. ASSUME GiveUp(c) PROVE FALSE
    BY <2>1, NoGiveUp DEF GiveUp
  <2> QED BY <1>2, <2>1, InitClientSerial, ConnectSerial, SpawnSerial, AwaitSerial, CloseSerial
          DEF CallStep
<1>3. ASSUME NEW s \in Servers, ServerStep(s) PROVE Serial'
  BY <1>3, ServerSerial
<1>4. CASE UNCHANGED vars
  BY <1>4 DEF vars, IInv, Serial, OneCall, OneServer, AtPath, Awaited, Prepared, Initialising,
              Alive, Starting, Idle
<1> QED
  BY <1>2, <1>3, <1>4 DEF Next, Quiet

\* Every variable keeps its type: above all, a client has a server exactly
\* while it is connected to one or waits for the one it has started.
THEOREM TypeCorrect == Spec => []TypeOK
<1>1. IInv => TypeOK
  BY DEF IInv, History
<1> QED
  BY InitIInv, NextIInv, <1>1, PTL DEF Spec

\* As long as no two calls of uim_helper_init_client_fd overlap none fails, and
\* all connected clients share one server, whatever order servers start, die
\* and leave their socket files in.
THEOREM SerialStartsShare == Spec => []SerialStartsShareServer
<1>1. IInv => SerialStartsShareServer
  <2> SUFFICES ASSUME IInv, ~overlap
               PROVE  /\ \A c \in Clients : cpc[c] # "failed"
                      /\ \A c, d \in Clients : Served(c) /\ Served(d) => server[c] = server[d]
    BY DEF SerialStartsShareServer
  <2>1. \A c \in Clients : cpc[c] # "failed"
    BY DEF IInv, Serial, Prepared
  <2>2. ASSUME NEW c \in Clients, Served(c)
        PROVE  server[c] \in Servers /\ Alive(server[c])
    <3>1. server[c] \in Servers
      BY <2>2 DEF Served, IInv, History, TypeOK
    <3>2. Listening(server[c])
      BY <2>2, <3>1 DEF Served, IInv, History, BusyListens
    <3> QED BY <3>1, <3>2 DEF Listening, Alive
  <2> QED BY <2>1, <2>2 DEF IInv, Serial, OneServer
<1> QED
  BY InitIInv, NextIInv, <1>1, PTL DEF Spec

\* No server drops a client it has accepted while that client keeps its
\* connection, overlap or not: what check_session_alive and the scan see as
\* ended has ended for good.
THEOREM AcceptedStay == Spec => AcceptedNotAbandoned
<1>1. ASSUME IInv, [Next]_vars
      PROVE  [\A s \in Servers : \A link \in accepted[s] :
                Open(link) => link \in accepted'[s]]_vars
  <2> SUFFICES ASSUME NEW s \in Servers, NEW link \in accepted[s], Open(link), Next
               PROVE  link \in accepted'[s] \/ UNCHANGED vars
    BY <1>1
  <2>1. ASSUME NEW c \in Clients, InitClient(c) \/ CallStep(c) \/ Close(c)
        PROVE  UNCHANGED accepted
    BY <2>1 DEF InitClient, CallStep, ConnectTo, Spawn, Await, GiveUp, Close, serverVars
  <2>2. ASSUME NEW t \in Servers, ServerStep(t)
        PROVE  link \in accepted'[s]
    <3>1. CASE ScanClients(t)
      <4>1. link \notin gone[s]
        BY <1>1 DEF IInv, History, GoneClosed
      <4> QED BY <1>1, <3>1, <4>1 DEF ScanClients, NobodyLeft, IInv, History, TypeOK
    <3>2. CASE ~ScanClients(t)
      BY <1>1, <2>2, <3>2 DEF ServerStep, Unlink, Bind, Listen, Announce, AcceptOne,
                              SelectClients, IInv, History, TypeOK
    <3> QED BY <3>1, <3>2
  <2> QED BY <2>1, <2>2 DEF Next, Quiet
<1> QED
  BY InitIInv, NextIInv, <1>1, PTL DEF Spec, AcceptedNotAbandoned
=============================================================================
