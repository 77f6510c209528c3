---------------------------- MODULE Custom_proofs ----------------------------
(***************************************************************************)
(* Whoever saves at the same time, a custom file holds one whole group and *)
(* no edit is undone but by a tool that had not read it; and a reload      *)
(* notice leaves every listener it reaches with what the files hold: for   *)
(* any number of processes, groups and variables.                          *)
(***************************************************************************)
EXTENDS Custom, SequenceTheorems, TLAPS

GroupSet == ToSet(Groups)

Types ==
  /\ TypeOK
  /\ edits \in 0..MaxEdits
  /\ edited \in [Tools -> SUBSET Syms]
  /\ saved \in [Syms -> 0..MaxEdits]
  /\ behind \in [Tools -> SUBSET GroupSet]
  /\ DOMAIN file = GroupSet /\ DOMAIN tmp = Tools

\* A process that loads or saves has a group to do, and a temporary file that
\* is about to be renamed holds that group as it is in memory.
Steps ==
  /\ \A p \in Procs : pc[p] \notin {"gone", "idle", "notify"} => todo[p] # <<>>
  /\ \A p \in Tools : pc[p] = "rename" =>
       tmp[p] = [s \in SymsOf(Head(todo[p])) |-> mem[p][s]]

Knows(p, s) ==
  /\ pc[p] # "gone" /\ s \notin edited[p]
  /\ GroupOf[s] \notin behind[p] /\ GroupOf[s] \notin clobbered
  /\ ~(pc[p] = "load" /\ GroupOf[s] \in ToSet(todo[p]))

\* The argument: a tool that has loaded a group and is not behind has in memory
\* what was saved last, except for its user's own edits, so that writing all of
\* the group changes nothing else.
Values ==
  /\ \A s \in Syms : file[GroupOf[s]] = NoFile => saved[s] = 0
  /\ \A s \in Syms : file[GroupOf[s]] # NoFile /\ GroupOf[s] \notin clobbered =>
       file[GroupOf[s]][s] = saved[s]
  /\ \A p \in Tools, s \in Syms : Knows(p, s) => mem[p][s] = saved[s]
  /\ \A p \in Tools, s \in Syms : pc[p] = "gone" => mem[p][s] = 0
  /\ \A p \in Tools, s \in Syms : pc[p] = "load" /\ file[GroupOf[s]] = NoFile => mem[p][s] = 0
  /\ \A p \in Tools : \A g \in behind[p] : file[g] # NoFile

IInv == Types /\ Steps /\ Values

\* The groups to load are groups.
LEMMA GroupsType ==
  /\ Groups \in Seq(GroupSet) /\ Groups # <<>>
  /\ GroupsToLoad \in Seq(GroupSet) /\ GroupsToLoad # <<>>
  /\ \A s \in Syms : GroupOf[s] \in GroupSet /\ GroupOf[s] \in ToSet(GroupsToLoad)
  /\ Tools \subseteq Procs /\ Listeners \subseteq Procs /\ Prefs \subseteq Tools
  /\ DefaultIm \in Syms /\ Toolbars \cup Switchers \subseteq Tools
  /\ \A p \in Apps : p \notin Tools
BY CustomAssumption DEF GroupsToLoad, GroupSet, Tools, Procs, Listeners

LEMMA TailOfLonger ==
  ASSUME NEW S, NEW q \in Seq(S), q # <<>>, Len(q) # 1
  PROVE  Tail(q) # <<>>
<1>1. Len(Tail(q)) = Len(q) - 1 /\ Len(q) \in Nat
  OBVIOUS
<1>2. ASSUME Tail(q) = <<>> PROVE FALSE
  <2>1. Len(Tail(q)) = Len(<<>>)
    BY <1>2, Zenon
  <2>2. Len(<<>>) = 0 /\ Len(q) \in Nat \ {0}
    BY EmptySeq
  <2>3. Len(Tail(q)) = 0
    BY <2>1, <2>2, Zenon
  <2>4. Len(q) - 1 # 0
    BY <2>2
  <2> QED BY <1>1, <2>3, <2>4, Zenon
<1> QED
  BY <1>2

\* What is to do after the first group is done.
LEMMA TodoTail ==
  ASSUME Types, Steps, NEW p \in Procs, pc[p] \notin {"gone", "idle", "notify"}
  PROVE  /\ Head(todo[p]) \in GroupSet
         /\ Tail(todo[p]) \in Seq(GroupSet)
         /\ Len(todo[p]) \in Nat \ {0}
         /\ Len(todo[p]) # 1 => Tail(todo[p]) # <<>>
         /\ ToSet(todo[p]) = {Head(todo[p])} \cup ToSet(Tail(todo[p]))
         /\ Len(todo[p]) = 1 => ToSet(todo[p]) = {Head(todo[p])}
<1> DEFINE t == todo[p]
<1>1. t \in Seq(GroupSet) /\ t # <<>>
  BY DEF Types, TypeOK, Steps, GroupSet
<1>2. /\ Head(t) \in GroupSet /\ Tail(t) \in Seq(GroupSet)
      /\ Len(t) \in Nat \ {0} /\ Len(Tail(t)) = Len(t) - 1
      /\ \A i \in 1..Len(t) - 1 : Tail(t)[i] = t[i + 1]
      /\ Head(t) = t[1]
  BY <1>1
<1>3. ToSet(t) = {t[i] : i \in 1..Len(t)} /\ ToSet(Tail(t)) = {Tail(t)[i] : i \in 1..Len(t) - 1}
  BY <1>1, <1>2 DEF ToSet
<1>4. ToSet(t) = {Head(t)} \cup ToSet(Tail(t))
  <2>1. ASSUME NEW x \in ToSet(t) PROVE x \in {Head(t)} \cup ToSet(Tail(t))
    <3>1. PICK i \in 1..Len(t) : x = t[i]
      BY <1>3, <2>1
    <3>2. CASE i = 1
      BY <1>2, <3>1, <3>2
    <3>3. CASE i # 1
      <4>1. i - 1 \in 1..Len(t) - 1 /\ x = Tail(t)[i - 1]
        BY <1>2, <3>1, <3>3
      <4> QED BY <1>3, <4>1
    <3> QED BY <3>2, <3>3
  <2>2. ASSUME NEW x \in {Head(t)} \cup ToSet(Tail(t)) PROVE x \in ToSet(t)
    BY <1>2, <1>3, <2>2
  <2> QED BY <2>1, <2>2
<1>5. Len(t) = 1 => ToSet(t) = {Head(t)}
  BY <1>2, <1>3
<1>6. Len(t) # 1 => Tail(t) # <<>>
  BY <1>1, TailOfLonger
<1> QED
  BY <1>2, <1>4, <1>5, <1>6

\* The initial state satisfies the invariant.
LEMMA InitIInv == Init => IInv
<1> SUFFICES ASSUME Init PROVE IInv
  OBVIOUS
<1>1. Types
  <2>1. MaxEdits \in Nat /\ 0 \in 0..MaxEdits
    BY CustomAssumption
  <2>2. /\ \A g \in ToSet(Groups) : file[g] \in Content(g) \cup {NoFile}
        /\ \A p \in Tools : tmp[p] \in {NoFile, Partial} \cup UNION {Content(g) : g \in ToSet(Groups)}
    BY DEF Init
  <2>3. /\ pc \in [Procs -> {"gone", "load", "idle", "reload", "open", "write", "rename", "notify"}]
        /\ todo \in [Procs -> Seq(ToSet(Groups))]
        /\ mem \in [Procs -> [Syms -> 0..MaxEdits]]
        /\ changed \in [Prefs -> BOOLEAN]
    BY <2>1 DEF Init
  <2>4. /\ connected \subseteq Listeners
        /\ outbox \in [Procs -> Seq(Message)] /\ inbox \in [Listeners -> Seq(Message)]
    BY CustomAssumption DEF Init
  <2>5. clobbered \subseteq ToSet(Groups) /\ noticed \subseteq ToSet(Groups)
    BY DEF Init
  <2>6. /\ edits \in 0..MaxEdits
        /\ edited \in [Tools -> SUBSET Syms]
        /\ saved \in [Syms -> 0..MaxEdits]
        /\ behind \in [Tools -> SUBSET GroupSet]
        /\ DOMAIN file = GroupSet /\ DOMAIN tmp = Tools
    BY <2>1 DEF Init, GroupSet
  <2> QED BY <2>2, <2>3, <2>4, <2>5, <2>6 DEF Types, TypeOK
<1>2. Steps
  BY DEF Init, Steps, Tools, Procs, Listeners
<1>3. Values
  BY CustomAssumption, GroupsType DEF Init, Values, Knows, GroupSet, Tools, Procs, Listeners
<1> QED
  BY <1>1, <1>2, <1>3 DEF IInv

\* Values are the concern of few steps: those that write a file, load one, set
\* a variable in a tool, or begin or end one.
LEMMA ValuesFrame ==
  ASSUME Values, UNCHANGED <<file, saved, clobbered, edited, behind>>,
         \A p \in Tools :
           /\ mem'[p] = mem[p]
           /\ pc'[p] = "gone" <=> pc[p] = "gone"
           /\ pc'[p] = "load" <=> pc[p] = "load"
           /\ pc'[p] = "load" => todo'[p] = todo[p]
  PROVE  Values'
BY DEF Values, Knows

\* A process that starts has loaded nothing yet.
LEMMA InitStep ==
  ASSUME IInv, NEW p \in Procs, uim_init(p)
  PROVE  IInv'
<1>1. /\ pc[p] = "gone" /\ pc' = [pc EXCEPT ![p] = "load"]
      /\ todo' = [todo EXCEPT ![p] = GroupsToLoad]
      /\ UNCHANGED <<file, tmp, mem, changed, connected, outbox, inbox, noticed, edits, saved, clobbered,
                     edited, behind>>
  BY DEF uim_init, Running, disk, wire, lost
<1>2. Types'
  BY <1>1, GroupsType DEF IInv, Types, TypeOK, GroupSet
<1>3. Steps'
  BY <1>1, GroupsType DEF IInv, Types, TypeOK, Steps
<1>4. ASSUME NEW q \in Tools, NEW s \in Syms, Knows(q, s)'
      PROVE  mem'[q][s] = saved'[s]
  <2>1. q # p
    BY <1>1, <1>4, GroupsType DEF Knows, IInv, Types, TypeOK
  <2>2. Knows(q, s)
    BY <1>1, <1>4, <2>1, GroupsType DEF Knows, IInv, Types, TypeOK
  <2> QED BY <1>1, <2>2 DEF IInv, Values
<1>5. ASSUME NEW q \in Tools, NEW s \in Syms
      PROVE  (pc'[q] = "gone" => mem'[q][s] = 0) /\ (pc'[q] = "load" /\ file'[GroupOf[s]] = NoFile => mem'[q][s] = 0)
  BY <1>1, GroupsType DEF IInv, Values, Types, TypeOK
<1>6. Values'
  BY <1>1, <1>4, <1>5 DEF IInv, Values
<1> QED
  BY <1>2, <1>3, <1>6 DEF IInv

\* Loading a group brings the process up to the file.
LEMMA LoadStep ==
  ASSUME IInv, NEW p \in Procs, custom_load_group_conf(p)
  PROVE  IInv'
<1> DEFINE g == Head(todo[p])
           loaded == [s \in Syms |-> IF GroupOf[s] = g /\ file[g] # NoFile THEN file[g][s] ELSE mem[p][s]]
<1>1. /\ pc[p] \in {"load", "reload"}
      /\ mem' = [mem EXCEPT ![p] = loaded]
      /\ behind' = IF p \in Tools THEN [behind EXCEPT ![p] = @ \ {g}] ELSE behind
      /\ todo' = [todo EXCEPT ![p] = Tail(@)]
      /\ pc' = [pc EXCEPT ![p] = IF Len(todo[p]) = 1 THEN "idle" ELSE @]
      /\ UNCHANGED <<file, tmp, changed, connected, outbox, inbox, noticed, edits, saved, clobbered, edited>>
  BY DEF custom_load_group_conf, IInv, Types, TypeOK, disk, wire, bounds, lost
<1>2. /\ g \in GroupSet /\ Tail(todo[p]) \in Seq(GroupSet)
      /\ Len(todo[p]) # 1 => Tail(todo[p]) # <<>>
      /\ ToSet(todo[p]) = {g} \cup ToSet(Tail(todo[p]))
      /\ Len(todo[p]) = 1 => ToSet(todo[p]) = {g}
  BY <1>1, TodoTail DEF IInv
<1>3. loaded \in [Syms -> 0..MaxEdits]
  <2>1. mem[p] \in [Syms -> 0..MaxEdits] /\ file[g] \in Content(g) \cup {NoFile}
    BY <1>2 DEF IInv, Types, TypeOK, GroupSet
  <2>2. ASSUME NEW s \in Syms PROVE loaded[s] \in 0..MaxEdits
    BY <2>1 DEF Content, SymsOf
  <2> QED BY <2>2
<1>4. Types'
  <2>1. mem' \in [Procs -> [Syms -> 0..MaxEdits]]
    BY <1>1, <1>3 DEF IInv, Types, TypeOK
  <2>2. behind' \in [Tools -> SUBSET GroupSet]
    BY <1>1 DEF IInv, Types
  <2> HIDE DEF loaded
  <2> QED BY <1>1, <1>2, <2>1, <2>2 DEF IInv, Types, TypeOK, GroupSet
<1>5. Steps'
  <2>1. \A q \in Procs : pc'[q] \notin {"gone", "idle", "notify"} => todo'[q] # <<>>
    BY <1>1, <1>2 DEF IInv, Types, TypeOK, Steps
  <2>2. ASSUME NEW q \in Tools, pc'[q] = "rename"
        PROVE  tmp'[q] = [s \in SymsOf(Head(todo'[q])) |-> mem'[q][s]]
    <3>1. q # p /\ pc[q] = "rename"
      BY <1>1, <2>2, GroupsType DEF IInv, Types, TypeOK
    <3> QED BY <1>1, <3>1, GroupsType DEF IInv, Types, TypeOK, Steps
  <2> QED BY <2>1, <2>2 DEF Steps
<1>6. ASSUME NEW q \in Tools, NEW s \in Syms, Knows(q, s)'
      PROVE  mem'[q][s] = saved'[s]
  <2>1. CASE q # p
    <3>1. Knows(q, s)
      BY <1>1, <1>6, <2>1, GroupsType DEF Knows, IInv, Types, TypeOK
    <3> QED BY <1>1, <2>1, <3>1, GroupsType DEF IInv, Values, Types, TypeOK
  <2>2. CASE q = p /\ GroupOf[s] = g
    <3>1. mem'[p][s] = loaded[s]
      BY <1>1, GroupsType DEF IInv, Types, TypeOK
    <3>2. CASE file[g] # NoFile
      BY <1>1, <1>6, <2>2, <3>1, <3>2 DEF Knows, IInv, Values
    <3>3. CASE file[g] = NoFile
      <4>1. saved[s] = 0 /\ g \notin behind[p] /\ loaded[s] = mem[p][s]
        BY <2>2, <3>3 DEF IInv, Values
      <4>2. CASE pc[p] = "load"
        BY <1>1, <2>2, <3>1, <3>3, <4>1, <4>2 DEF IInv, Values
      <4>3. CASE pc[p] = "reload"
        <5>1. Knows(p, s)
          BY <1>1, <1>6, <2>2, <4>1, <4>3 DEF Knows
        <5> QED BY <1>1, <2>2, <3>1, <4>1, <5>1 DEF IInv, Values
      <4> QED BY <1>1, <4>2, <4>3
    <3> QED BY <3>2, <3>3
  <2>3. CASE q = p /\ GroupOf[s] # g
    <3>1. mem'[p][s] = mem[p][s]
      BY <1>1, <2>3, GroupsType DEF IInv, Types, TypeOK
    <3>2. Knows(p, s)
      BY <1>1, <1>2, <1>6, <2>3, GroupsType DEF Knows, IInv, Types, TypeOK
    <3> QED BY <1>1, <2>3, <3>1, <3>2 DEF IInv, Values
  <2> QED BY <2>1, <2>2, <2>3
<1>7. ASSUME NEW q \in Tools, NEW s \in Syms
      PROVE  (pc'[q] = "gone" => mem'[q][s] = 0) /\ (pc'[q] = "load" /\ file'[GroupOf[s]] = NoFile => mem'[q][s] = 0)
  BY SMTT(30), <1>1, GroupsType DEF IInv, Values, Types, TypeOK
<1>8. \A q \in Tools : \A h \in behind'[q] : file'[h] # NoFile
  BY <1>1 DEF IInv, Values, Types
<1>9. Values'
  <2> HIDE DEF loaded
  <2> QED BY <1>1, <1>6, <1>7, <1>8 DEF IInv, Values
<1> QED
  BY <1>4, <1>5, <1>9 DEF IInv

\* A process that ends takes only its own knowledge along.
LEMMA ExitStep ==
  ASSUME IInv, NEW p \in Procs, Exit(p)
  PROVE  IInv'
<1>1. /\ pc' = [pc EXCEPT ![p] = "gone"]
      /\ todo' = [todo EXCEPT ![p] = <<>>]
      /\ mem' = [mem EXCEPT ![p] = [s \in Syms |-> 0]]
      /\ behind' = IF p \in Tools THEN [behind EXCEPT ![p] = {}] ELSE behind
      /\ edited' = IF p \in Tools THEN [edited EXCEPT ![p] = {}] ELSE edited
      /\ UNCHANGED <<file, tmp, noticed, edits, saved, clobbered>>
  BY DEF Exit, disk, bounds, lost
<1>2. /\ changed' \in [Prefs -> BOOLEAN]
      /\ connected' \subseteq Listeners /\ inbox' \in [Listeners -> Seq(Message)]
      /\ outbox' \in [Procs -> Seq(Message)]
  <2>1. outbox \in [Procs -> Seq(Message)]
    BY DEF IInv, Types, TypeOK
  <2>2. PICK n \in 0..Len(outbox[p]) : outbox' = [outbox EXCEPT ![p] = SubSeq(@, 1, n)]
    BY DEF Exit
  <2>3. SubSeq(outbox[p], 1, n) \in Seq(Message)
    <3>1. outbox[p] \in Seq(Message)
      BY <2>1
    <3> QED BY <3>1, SubSeqProperties
  <2>4. outbox' \in [Procs -> Seq(Message)]
    BY <2>1, <2>2, <2>3
  <2> QED BY <2>4 DEF Exit, IInv, Types, TypeOK
<1>3. Types'
  <2>1. mem' \in [Procs -> [Syms -> 0..MaxEdits]]
    BY <1>1, CustomAssumption DEF IInv, Types, TypeOK
  <2>2. behind' \in [Tools -> SUBSET GroupSet] /\ edited' \in [Tools -> SUBSET Syms]
    BY <1>1 DEF IInv, Types
  <2>3. /\ todo' \in [Procs -> Seq(GroupSet)]
        /\ pc' \in [Procs -> {"gone", "load", "idle", "reload", "open", "write", "rename", "notify"}]
    BY <1>1 DEF IInv, Types, TypeOK, GroupSet
  <2> QED BY <1>1, <1>2, <2>1, <2>2, <2>3 DEF IInv, Types, TypeOK, GroupSet
<1>4. Steps'
  <2>1. \A q \in Procs : pc'[q] \notin {"gone", "idle", "notify"} => todo'[q] # <<>>
    BY <1>1 DEF IInv, Types, TypeOK, Steps
  <2>2. ASSUME NEW q \in Tools, pc'[q] = "rename"
        PROVE  tmp'[q] = [s \in SymsOf(Head(todo'[q])) |-> mem'[q][s]]
    <3>1. q # p /\ pc[q] = "rename"
      BY <1>1, <2>2, GroupsType DEF IInv, Types, TypeOK
    <3> QED BY <1>1, <3>1, GroupsType DEF IInv, Types, TypeOK, Steps
  <2> QED BY <2>1, <2>2 DEF Steps
<1>5. ASSUME NEW q \in Tools, NEW s \in Syms, Knows(q, s)'
      PROVE  mem'[q][s] = saved'[s]
  <2>1. q # p
    BY <1>1, <1>5, GroupsType DEF Knows, IInv, Types, TypeOK
  <2>2. Knows(q, s)
    BY <1>1, <1>5, <2>1, GroupsType DEF Knows, IInv, Types, TypeOK
  <2> QED BY <1>1, <2>1, <2>2, GroupsType DEF IInv, Values, Types, TypeOK
<1>6. ASSUME NEW q \in Tools, NEW s \in Syms
      PROVE  (pc'[q] = "gone" => mem'[q][s] = 0) /\ (pc'[q] = "load" /\ file'[GroupOf[s]] = NoFile => mem'[q][s] = 0)
  BY <1>1, GroupsType DEF IInv, Values, Types, TypeOK
<1>7. \A q \in Tools : \A h \in behind'[q] : file'[h] # NoFile
  BY <1>1 DEF IInv, Values, Types
<1>8. Values'
  BY <1>1, <1>5, <1>6, <1>7 DEF IInv, Values
<1> QED
  BY <1>3, <1>4, <1>8 DEF IInv

\* A listener connects.
LEMMA ConnectStep ==
  ASSUME IInv, NEW l \in Listeners, uim_helper_init_client_fd(l)
  PROVE  IInv'
<1>1. /\ connected' = connected \cup {l}
      /\ UNCHANGED <<file, tmp, pc, todo, mem, changed, outbox, inbox, noticed, edits, saved, clobbered,
                     edited, behind>>
  BY DEF uim_helper_init_client_fd, disk, bounds, lost
<1>2. Types'
  BY <1>1 DEF IInv, Types, TypeOK
<1>3. Steps'
  BY <1>1 DEF IInv, Steps
<1>4. Values'
  BY <1>1, ValuesFrame DEF IInv
<1> QED
  BY <1>2, <1>3, <1>4 DEF IInv

\* The server breaks down: only messages are lost.
LEMMA CrashStep ==
  ASSUME IInv, ServerCrash
  PROVE  IInv'
<1>1. /\ connected' = {} /\ outbox' = [p \in Procs |-> <<>>]
      /\ UNCHANGED <<file, tmp, pc, todo, mem, changed, noticed, edits, saved, clobbered, edited,
                     behind>>
  BY DEF ServerCrash, disk, lost
<1>2. inbox' \in [Listeners -> Seq(Message)]
  <2>1. PICK l \in Listeners : \E n \in 0..Len(inbox[l]) :
          inbox' = [inbox EXCEPT ![l] = SubSeq(@, 1, n)]
    BY DEF ServerCrash
  <2>2. inbox \in [Listeners -> Seq(Message)]
    BY DEF IInv, Types, TypeOK
  <2>3. ASSUME NEW n \in 0..Len(inbox[l]) PROVE SubSeq(inbox[l], 1, n) \in Seq(Message)
    <3>1. inbox[l] \in Seq(Message)
      BY <2>2
    <3> QED BY <3>1, SubSeqProperties
  <2> QED BY <2>1, <2>2, <2>3
<1>3. Types'
  BY <1>1, <1>2 DEF IInv, Types, TypeOK
<1>4. Steps'
  BY <1>1 DEF IInv, Steps
<1>5. Values'
  BY <1>1, ValuesFrame DEF IInv
<1> QED
  BY <1>3, <1>4, <1>5 DEF IInv

\* What a process sends is in its queue.
LEMMA SentType ==
  ASSUME IInv, NEW p \in Procs, NEW m \in Message
  PROVE  Sent(p, m) \in [Procs -> Seq(Message)]
<1>1. outbox \in [Procs -> Seq(Message)]
  BY DEF IInv, Types, TypeOK
<1>2. Append(outbox[p], m) \in Seq(Message)
  <2>1. outbox[p] \in Seq(Message)
    BY <1>1
  <2> QED BY <2>1
<1> QED
  BY <1>1, <1>2 DEF Sent

\* The server hands a message out.
LEMMA DistributeStep ==
  ASSUME IInv, NEW p \in Procs, distribute_message(p)
  PROVE  IInv'
<1>1. PICK m : m = Head(outbox[p])
  OBVIOUS
<1>2. /\ outbox[p] # <<>>
      /\ outbox' = [outbox EXCEPT ![p] = Tail(@)]
      /\ inbox' = [l \in Listeners |-> IF l \in Receivers(p, m) \cap connected
                                       THEN Append(inbox[l], m) ELSE inbox[l]]
      /\ noticed' \in {GroupSet, noticed \ {GroupOf[DefaultIm]}}
      /\ UNCHANGED <<file, tmp, pc, todo, mem, changed, connected, edits, saved, clobbered, edited,
                     behind>>
  BY <1>1 DEF distribute_message, disk, bounds, lost, GroupSet
<1>3. outbox \in [Procs -> Seq(Message)] /\ inbox \in [Listeners -> Seq(Message)]
  BY DEF IInv, Types, TypeOK
<1>4. m \in Message /\ Tail(outbox[p]) \in Seq(Message)
  BY <1>1, <1>2, <1>3
<1>5. outbox' \in [Procs -> Seq(Message)]
  BY <1>2, <1>3, <1>4
<1>6. inbox' \in [Listeners -> Seq(Message)]
  <2>1. \A l \in Listeners : Append(inbox[l], m) \in Seq(Message)
    BY <1>3, <1>4
  <2> QED BY <1>2, <1>3, <2>1
<1>7. Types'
  BY <1>2, <1>5, <1>6 DEF IInv, Types, TypeOK, GroupSet
<1>8. Steps'
  BY <1>2 DEF IInv, Steps
<1>9. Values'
  BY <1>2, ValuesFrame DEF IInv
<1> QED
  BY <1>7, <1>8, <1>9 DEF IInv

\* A message makes an application switch, or a listener load its files again.
LEMMA ReceiveStep ==
  ASSUME IInv, NEW l \in Listeners, parse_helper_str(l)
  PROVE  IInv'
<1> DEFINE m == Head(inbox[l])
<1>1. /\ pc[l] = "idle" /\ inbox[l] # <<>>
      /\ inbox' = [inbox EXCEPT ![l] = Tail(@)]
      /\ outbox' = IF m.kind = "activate" THEN Sent(l, [m EXCEPT !.kind = "im_change"]) ELSE outbox
      /\ mem' = IF m.kind # "reload" /\ l \in Apps THEN [mem EXCEPT ![l][DefaultIm] = m.im] ELSE mem
      /\ \/ pc' = [pc EXCEPT ![l] = "reload"] /\ todo' = [todo EXCEPT ![l] = GroupsToLoad]
         \/ UNCHANGED <<pc, todo>>
      /\ UNCHANGED <<file, tmp, changed, connected, noticed, edits, saved, clobbered, edited, behind>>
  BY DEF parse_helper_str, disk, lost, bounds
<1>2. inbox \in [Listeners -> Seq(Message)]
  BY DEF IInv, Types, TypeOK
<1>3. m \in Message /\ Tail(inbox[l]) \in Seq(Message)
  BY <1>1, <1>2
<1>4. m.kind # "reload" => m.im \in 1..MaxEdits
  BY <1>3 DEF Message
<1>5. m.kind = "activate" => [m EXCEPT !.kind = "im_change"] \in Message
  BY <1>3 DEF Message
<1> HIDE DEF m
<1>6. inbox' \in [Listeners -> Seq(Message)]
  BY <1>1, <1>2, <1>3
<1>7. outbox' \in [Procs -> Seq(Message)]
  <2>1. CASE m.kind = "activate"
    BY <1>1, <1>5, <2>1, SentType, GroupsType
  <2>2. CASE m.kind # "activate"
    BY <1>1, <2>2 DEF IInv, Types, TypeOK
  <2> QED BY <2>1, <2>2
<1>8. mem' \in [Procs -> [Syms -> 0..MaxEdits]]
  <2>1. mem \in [Procs -> [Syms -> 0..MaxEdits]] /\ MaxEdits \in Nat
    BY CustomAssumption DEF IInv, Types, TypeOK
  <2>2. CASE m.kind # "reload" /\ l \in Apps
    <3>1. m.im \in 0..MaxEdits
      BY <1>4, <2>1, <2>2
    <3>2. [mem[l] EXCEPT ![DefaultIm] = m.im] \in [Syms -> 0..MaxEdits]
      BY <2>1, <3>1, GroupsType
    <3> QED BY <1>1, <2>1, <2>2, <3>2
  <2>3. CASE ~(m.kind # "reload" /\ l \in Apps)
    BY <1>1, <2>1, <2>3
  <2> QED BY <2>2, <2>3
<1>9. /\ pc' \in [Procs -> {"gone", "load", "idle", "reload", "open", "write", "rename", "notify"}]
      /\ todo' \in [Procs -> Seq(GroupSet)]
  <2>1. /\ pc \in [Procs -> {"gone", "load", "idle", "reload", "open", "write", "rename", "notify"}]
        /\ todo \in [Procs -> Seq(GroupSet)] /\ l \in Procs /\ GroupsToLoad \in Seq(GroupSet)
    BY GroupsType DEF IInv, Types, TypeOK, GroupSet
  <2>2. CASE UNCHANGED <<pc, todo>>
    BY <2>1, <2>2
  <2>3. CASE pc' = [pc EXCEPT ![l] = "reload"] /\ todo' = [todo EXCEPT ![l] = GroupsToLoad]
    BY <2>1, <2>3
  <2> QED BY <1>1, <2>2, <2>3
<1>10. Types'
  BY <1>1, <1>6, <1>7, <1>8, <1>9 DEF IInv, Types, TypeOK, GroupSet
<1>11. \A q \in Tools : mem'[q] = mem[q]
  BY <1>1, GroupsType DEF IInv, Types, TypeOK
<1>12. Steps'
  <2>1. \A q \in Procs : pc'[q] \notin {"gone", "idle", "notify"} => todo'[q] # <<>>
    BY <1>1, GroupsType DEF IInv, Types, TypeOK, Steps
  <2>2. ASSUME NEW q \in Tools, pc'[q] = "rename"
        PROVE  tmp'[q] = [s \in SymsOf(Head(todo'[q])) |-> mem'[q][s]]
    <3>1. pc[q] = "rename" /\ todo'[q] = todo[q]
      BY <1>1, <2>2, GroupsType DEF IInv, Types, TypeOK
    <3> QED BY <1>1, <1>11, <3>1 DEF IInv, Steps
  <2> QED BY <2>1, <2>2 DEF Steps
<1>13. Values'
  <2>1. \A q \in Tools : /\ pc'[q] = "gone" <=> pc[q] = "gone"
                         /\ pc'[q] = "load" <=> pc[q] = "load"
                         /\ pc'[q] = "load" => todo'[q] = todo[q]
    BY <1>1, GroupsType DEF IInv, Types, TypeOK
  <2> QED BY <1>1, <1>11, <2>1, ValuesFrame DEF IInv
<1> QED
  BY <1>10, <1>12, <1>13 DEF IInv

\* The user's own edit is known to be one.
LEMMA SetStep ==
  ASSUME IInv, NEW p \in Tools, NEW x \in Syms, SetValue(p, x),
         UNCHANGED clobbered, noticed' \subseteq noticed,
         changed' \in [Prefs -> BOOLEAN], outbox' \in [Procs -> Seq(Message)],
         \/ UNCHANGED <<pc, todo>>
         \/ /\ pc' = [pc EXCEPT ![p] = "open"]
            /\ todo' = [todo EXCEPT ![p] = <<GroupOf[DefaultIm]>>]
  PROVE  IInv'
<1>1. /\ pc[p] = "idle" /\ edits < MaxEdits /\ edits' = edits + 1
      /\ mem' = [mem EXCEPT ![p][x] = edits + 1]
      /\ edited' = [edited EXCEPT ![p] = @ \cup {x}]
      /\ UNCHANGED <<file, tmp, saved, behind, connected, inbox>>
  BY DEF SetValue, disk, lost
<1>2. p \in Procs /\ MaxEdits \in Nat /\ edits' \in 0..MaxEdits
  BY <1>1, CustomAssumption, GroupsType DEF IInv, Types
<1>3. Types'
  <2>1. mem' \in [Procs -> [Syms -> 0..MaxEdits]]
    <3>1. [mem[p] EXCEPT ![x] = edits + 1] \in [Syms -> 0..MaxEdits]
      BY <1>1, <1>2 DEF IInv, Types, TypeOK
    <3> QED BY <1>1, <1>2, <3>1 DEF IInv, Types, TypeOK
  <2>2. edited' \in [Tools -> SUBSET Syms]
    BY <1>1 DEF IInv, Types
  <2>3. /\ pc' \in [Procs -> {"gone", "load", "idle", "reload", "open", "write", "rename", "notify"}]
        /\ todo' \in [Procs -> Seq(GroupSet)]
    <3>1. /\ pc \in [Procs -> {"gone", "load", "idle", "reload", "open", "write", "rename", "notify"}]
          /\ todo \in [Procs -> Seq(GroupSet)]
      BY DEF IInv, Types, TypeOK, GroupSet
    <3>2. <<GroupOf[DefaultIm]>> \in Seq(GroupSet)
      BY GroupsType
    <3>3. CASE UNCHANGED <<pc, todo>>
      BY <3>1, <3>3
    <3>4. CASE pc' = [pc EXCEPT ![p] = "open"] /\ todo' = [todo EXCEPT ![p] = <<GroupOf[DefaultIm]>>]
      BY <1>2, <3>1, <3>2, <3>4
    <3> QED BY <3>3, <3>4
  <2> QED BY <1>1, <1>2, <2>1, <2>2, <2>3 DEF IInv, Types, TypeOK, GroupSet
<1>4. /\ pc'[p] \in {"idle", "open"}
      /\ \A q \in Procs : q # p => pc'[q] = pc[q] /\ todo'[q] = todo[q] /\ mem'[q] = mem[q]
      /\ \A s \in Syms : s # x => mem'[p][s] = mem[p][s]
  BY <1>1, <1>2 DEF IInv, Types, TypeOK
<1>5. Steps'
  <2>1. pc'[p] # "idle" => todo'[p] # <<>>
    <3>1. CASE UNCHANGED <<pc, todo>>
      BY <1>1, <3>1
    <3>2. CASE todo' = [todo EXCEPT ![p] = <<GroupOf[DefaultIm]>>]
      BY <1>2, <3>2 DEF IInv, Types, TypeOK
    <3> QED BY <3>1, <3>2
  <2>2. \A q \in Procs : pc'[q] \notin {"gone", "idle", "notify"} => todo'[q] # <<>>
    BY <1>4, <2>1 DEF IInv, Steps
  <2>3. ASSUME NEW q \in Tools, pc'[q] = "rename"
        PROVE  tmp'[q] = [s \in SymsOf(Head(todo'[q])) |-> mem'[q][s]]
    <3>1. q # p /\ q \in Procs
      BY <1>4, <2>3, GroupsType
    <3> QED BY <1>1, <1>4, <2>3, <3>1 DEF IInv, Steps
  <2> QED BY <2>2, <2>3 DEF Steps
<1>6. ASSUME NEW q \in Tools, NEW s \in Syms, Knows(q, s)'
      PROVE  mem'[q][s] = saved'[s]
  <2>1. ~(q = p /\ s = x) /\ q \in Procs
    BY <1>1, <1>6, GroupsType DEF Knows, IInv, Types
  <2>2. Knows(q, s)
    BY <1>1, <1>4, <1>6, <2>1 DEF Knows, IInv, Types
  <2>3. mem'[q][s] = mem[q][s]
    BY <1>4, <2>1
  <2> QED BY <1>1, <2>2, <2>3 DEF IInv, Values
<1>7. ASSUME NEW q \in Tools, NEW s \in Syms
      PROVE  (pc'[q] = "gone" => mem'[q][s] = 0) /\ (pc'[q] = "load" /\ file'[GroupOf[s]] = NoFile => mem'[q][s] = 0)
  BY <1>1, <1>4, GroupsType DEF IInv, Values
<1>8. Values'
  BY <1>1, <1>6, <1>7 DEF IInv, Values
<1> QED
  BY <1>3, <1>5, <1>8 DEF IInv

\* A widget of the preference tool sets a value.
LEMMA WidgetStep ==
  ASSUME IInv, NEW p \in Prefs, NEW s \in Syms, custom_set_value(p, s)
  PROVE  IInv'
<1>1. /\ SetValue(p, s) /\ UNCHANGED <<pc, todo, outbox, noticed>>
      /\ changed' = [changed EXCEPT ![p] = TRUE]
  BY DEF custom_set_value
<1>2. UNCHANGED clobbered
  BY <1>1 DEF SetValue, lost
<1>3. changed' \in [Prefs -> BOOLEAN] /\ outbox' \in [Procs -> Seq(Message)]
  BY <1>1 DEF IInv, Types, TypeOK
<1> QED
  BY <1>1, <1>2, <1>3, SetStep, GroupsType

\* The toolbar or the switcher changes the default input method.
LEMMA SwitchStep ==
  ASSUME IInv, NEW p \in Toolbars \cup Switchers, SwitchIm(p)
  PROVE  IInv'
<1> DEFINE m == [kind |-> IF p \in Toolbars THEN "activate" ELSE "im_change", im |-> edits + 1]
<1>1. /\ SetValue(p, DefaultIm) /\ UNCHANGED changed /\ noticed' \subseteq noticed
      /\ pc' = [pc EXCEPT ![p] = "open"]
      /\ todo' = [todo EXCEPT ![p] = <<GroupOf[DefaultIm]>>]
      /\ outbox' = Sent(p, m) \/ UNCHANGED outbox
  BY DEF SwitchIm
<1>2. UNCHANGED clobbered /\ edits \in Nat /\ edits < MaxEdits
  BY <1>1, CustomAssumption DEF SetValue, lost, IInv, Types
<1>3. m \in Message
  BY <1>2, CustomAssumption DEF Message
<1>4. outbox \in [Procs -> Seq(Message)] /\ changed' \in [Prefs -> BOOLEAN]
  BY <1>1 DEF IInv, Types, TypeOK
<1> HIDE DEF m
<1>5. outbox' \in [Procs -> Seq(Message)]
  BY <1>1, <1>3, <1>4, SentType, GroupsType
<1> QED
  BY <1>1, <1>2, <1>4, <1>5, SetStep, GroupsType

\* Apply: the groups are put on the list.
LEMMA ApplyStep ==
  ASSUME IInv, NEW p \in Prefs, apply_button_clicked(p)
  PROVE  IInv'
<1>1. /\ pc[p] = "idle" /\ p \in Tools /\ p \in Procs
      /\ changed' = [changed EXCEPT ![p] = FALSE]
      /\ pc' = [pc EXCEPT ![p] = "open"]
      /\ todo' = [todo EXCEPT ![p] = Groups]
      /\ UNCHANGED <<file, tmp, mem, connected, outbox, inbox, noticed, edits, saved, clobbered, edited,
                     behind>>
  BY GroupsType DEF apply_button_clicked, disk, wire, bounds, lost
<1>2. Types'
  BY <1>1, GroupsType DEF IInv, Types, TypeOK, GroupSet
<1>3. Steps'
  <2>1. \A q \in Procs : pc'[q] \notin {"gone", "idle", "notify"} => todo'[q] # <<>>
    BY <1>1, GroupsType DEF IInv, Types, TypeOK, Steps
  <2>2. ASSUME NEW q \in Tools, pc'[q] = "rename"
        PROVE  tmp'[q] = [s \in SymsOf(Head(todo'[q])) |-> mem'[q][s]]
    BY <1>1, <2>2, GroupsType DEF IInv, Types, TypeOK, Steps
  <2> QED BY <2>1, <2>2 DEF Steps
<1>4. Values'
  <2>1. \A q \in Tools : /\ pc'[q] = "gone" <=> pc[q] = "gone"
                         /\ pc'[q] = "load" <=> pc[q] = "load"
                         /\ pc'[q] = "load" => todo'[q] = todo[q]
    BY <1>1, GroupsType DEF IInv, Types, TypeOK
  <2> QED BY <1>1, <2>1, ValuesFrame DEF IInv
<1> QED
  BY <1>2, <1>3, <1>4 DEF IInv

\* The temporary file is opened.
LEMMA OpenStep ==
  ASSUME IInv, NEW p \in Tools, OpenTmp(p)
  PROVE  IInv'
<1>1. /\ pc[p] = "open" /\ p \in Procs
      /\ tmp' = [tmp EXCEPT ![p] = Partial]
      /\ pc' = [pc EXCEPT ![p] = "write"]
      /\ UNCHANGED <<file, todo, mem, changed, connected, outbox, inbox, noticed, edits, saved, clobbered,
                     edited, behind>>
  BY GroupsType DEF OpenTmp, custom_file_path, wire, bounds, lost
<1>2. Types'
  BY <1>1 DEF IInv, Types, TypeOK
<1>3. Steps'
  <2>1. \A q \in Procs : pc'[q] \notin {"gone", "idle", "notify"} => todo'[q] # <<>>
    BY <1>1 DEF IInv, Types, TypeOK, Steps
  <2>2. ASSUME NEW q \in Tools, pc'[q] = "rename"
        PROVE  tmp'[q] = [s \in SymsOf(Head(todo'[q])) |-> mem'[q][s]]
    <3>1. q # p /\ pc[q] = "rename"
      BY <1>1, <2>2, GroupsType DEF IInv, Types, TypeOK
    <3> QED BY <1>1, <3>1 DEF IInv, Types, Steps
  <2> QED BY <2>1, <2>2 DEF Steps
<1>4. Values'
  <2>1. \A q \in Tools : /\ pc'[q] = "gone" <=> pc[q] = "gone"
                         /\ pc'[q] = "load" <=> pc[q] = "load"
    BY <1>1, GroupsType DEF IInv, Types, TypeOK
  <2> QED BY <1>1, <2>1, ValuesFrame DEF IInv
<1> QED
  BY <1>2, <1>3, <1>4 DEF IInv

\* The group is written to it, whole.
LEMMA WriteStep ==
  ASSUME IInv, NEW p \in Tools, WriteTmp(p)
  PROVE  IInv'
<1> DEFINE g == Head(todo[p])
           content == [s \in SymsOf(g) |-> mem[p][s]]
<1>1. /\ pc[p] = "write" /\ p \in Procs
      /\ tmp' = [tmp EXCEPT ![p] = content]
      /\ pc' = [pc EXCEPT ![p] = "rename"]
      /\ UNCHANGED <<file, todo, mem, changed, connected, outbox, inbox, noticed, edits, saved, clobbered,
                     edited, behind>>
  BY GroupsType DEF WriteTmp, custom_file_path, wire, bounds, lost
<1>2. g \in GroupSet
  BY <1>1, TodoTail DEF IInv
<1>3. content \in Content(g)
  <2>1. mem[p] \in [Syms -> 0..MaxEdits]
    BY <1>1 DEF IInv, Types, TypeOK
  <2> QED BY <2>1 DEF Content, SymsOf
<1>4. Types'
  <2> HIDE DEF content
  <2> QED BY <1>1, <1>2, <1>3 DEF IInv, Types, TypeOK, GroupSet
<1>5. Steps'
  <2>1. \A q \in Procs : pc'[q] \notin {"gone", "idle", "notify"} => todo'[q] # <<>>
    BY <1>1 DEF IInv, Types, TypeOK, Steps
  <2>2. ASSUME NEW q \in Tools, pc'[q] = "rename"
        PROVE  tmp'[q] = [s \in SymsOf(Head(todo'[q])) |-> mem'[q][s]]
    <3>1. CASE q = p
      BY <1>1, <3>1 DEF IInv, Types
    <3>2. CASE q # p
      BY <1>1, <2>2, <3>2, GroupsType DEF IInv, Types, TypeOK, Steps
    <3> QED BY <3>1, <3>2
  <2> QED BY <2>1, <2>2 DEF Steps
<1>6. Values'
  <2>1. \A q \in Tools : /\ pc'[q] = "gone" <=> pc[q] = "gone"
                         /\ pc'[q] = "load" <=> pc[q] = "load"
    BY <1>1, GroupsType DEF IInv, Types, TypeOK
  <2> QED BY <1>1, <2>1, ValuesFrame DEF IInv
<1> QED
  BY <1>4, <1>5, <1>6 DEF IInv

\* The next group of a save, if there is one.
LEMMA NextGroupType ==
  ASSUME IInv, NEW p \in Tools, pc[p] \in {"open", "write", "rename"}, NextGroup(p)
  PROVE  /\ p \in Procs
         /\ pc' \in [Procs -> {"gone", "load", "idle", "reload", "open", "write", "rename", "notify"}]
         /\ todo' \in [Procs -> Seq(GroupSet)]
         /\ pc'[p] \in {"open", "notify", "idle"}
         /\ pc'[p] = "open" => todo'[p] # <<>>
         /\ \A q \in Procs : q # p => pc'[q] = pc[q] /\ todo'[q] = todo[q]
<1>1. /\ p \in Procs
      /\ todo' = [todo EXCEPT ![p] = Tail(@)]
      /\ pc' = [pc EXCEPT ![p] = CASE Len(todo[p]) > 1 -> "open"
                                   [] Len(todo[p]) = 1 /\ p \in Prefs -> "notify"
                                   [] OTHER -> "idle"]
  BY GroupsType DEF NextGroup
<1>2. /\ Tail(todo[p]) \in Seq(GroupSet) /\ Len(todo[p]) \in Nat \ {0}
      /\ Len(todo[p]) # 1 => Tail(todo[p]) # <<>>
  BY <1>1, TodoTail DEF IInv
<1>3. /\ pc \in [Procs -> {"gone", "load", "idle", "reload", "open", "write", "rename", "notify"}]
      /\ todo \in [Procs -> Seq(GroupSet)]
  BY DEF IInv, Types, TypeOK, GroupSet
<1> QED
  BY <1>1, <1>2, <1>3

\* A failed save of a group leaves its file alone.
LEMMA FailStep ==
  ASSUME IInv, NEW p \in Tools, SaveFails(p)
  PROVE  IInv'
<1>1. /\ pc[p] \in {"open", "write", "rename"} /\ NextGroup(p)
      /\ UNCHANGED <<file, tmp, mem, changed, connected, outbox, inbox, noticed, edits, saved, clobbered,
                     edited, behind>>
  BY DEF SaveFails, disk, wire, lost
<1>2. /\ p \in Procs
      /\ pc' \in [Procs -> {"gone", "load", "idle", "reload", "open", "write", "rename", "notify"}]
      /\ todo' \in [Procs -> Seq(GroupSet)]
      /\ pc'[p] \in {"open", "notify", "idle"}
      /\ pc'[p] = "open" => todo'[p] # <<>>
      /\ \A q \in Procs : q # p => pc'[q] = pc[q] /\ todo'[q] = todo[q]
  BY <1>1, NextGroupType
<1>3. Types'
  BY <1>1, <1>2 DEF IInv, Types, TypeOK, GroupSet
<1>4. Steps'
  BY <1>1, <1>2, GroupsType DEF IInv, Steps
<1>5. Values'
  <2>1. \A q \in Tools : /\ pc'[q] = "gone" <=> pc[q] = "gone"
                         /\ pc'[q] = "load" <=> pc[q] = "load"
                         /\ pc'[q] = "load" => todo'[q] = todo[q]
    BY <1>1, <1>2, GroupsType
  <2> QED BY <1>1, <2>1, ValuesFrame DEF IInv
<1> QED
  BY <1>3, <1>4, <1>5 DEF IInv

\* The rename: what a tool that is not behind puts in place of the group is the
\* last saved edit of each variable, or its own.
LEMMA RenameStep ==
  ASSUME IInv, NEW p \in Tools, Rename(p)
  PROVE  IInv'
<1> DEFINE g == Head(todo[p])
           mine == edited[p] \cap SymsOf(g)
<1>1. /\ pc[p] = "rename" /\ tmp[p] # NoFile /\ NextGroup(p)
      /\ file' = [file EXCEPT ![g] = tmp[p]]
      /\ tmp' = [tmp EXCEPT ![p] = NoFile]
      /\ edited' = [edited EXCEPT ![p] = @ \ mine]
      /\ saved' = [s \in Syms |-> IF s \in mine THEN mem[p][s] ELSE saved[s]]
      /\ behind' = [q \in Tools |-> IF q # p /\ pc[q] # "gone" THEN behind[q] \cup {g} ELSE behind[q]]
      /\ clobbered' = IF g \in behind[p] THEN clobbered \cup {g} ELSE clobbered
      /\ noticed' = noticed \ {g}
      /\ UNCHANGED <<mem, changed, connected, outbox, inbox, edits>>
  BY DEF Rename, custom_file_path, Running, bounds
<1>2. /\ p \in Procs
      /\ pc' \in [Procs -> {"gone", "load", "idle", "reload", "open", "write", "rename", "notify"}]
      /\ todo' \in [Procs -> Seq(GroupSet)]
      /\ pc'[p] \in {"open", "notify", "idle"}
      /\ pc'[p] = "open" => todo'[p] # <<>>
      /\ \A q \in Procs : q # p => pc'[q] = pc[q] /\ todo'[q] = todo[q]
  BY <1>1, NextGroupType
<1>3. g \in GroupSet /\ tmp[p] = [s \in SymsOf(g) |-> mem[p][s]]
  BY <1>1, <1>2, TodoTail DEF IInv, Steps
<1>4. mem[p] \in [Syms -> 0..MaxEdits] /\ \A s \in SymsOf(g) : s \in Syms /\ GroupOf[s] = g
  BY <1>2 DEF IInv, Types, TypeOK, SymsOf
<1>5. tmp[p] \in Content(g)
  BY <1>3, <1>4 DEF Content
<1> HIDE DEF g
<1>6. file' = [file EXCEPT ![g] = tmp[p]] /\ file'[g] = tmp[p]
      /\ \A h \in GroupSet : h # g => file'[h] = file[h]
  BY <1>1, <1>3 DEF IInv, Types
<1>7. Types'
  <2>1. /\ \A h \in ToSet(Groups) : file'[h] \in Content(h) \cup {NoFile}
        /\ DOMAIN file' = GroupSet
    BY <1>5, <1>6 DEF IInv, Types, TypeOK, GroupSet
  <2>2. /\ \A q \in Tools : tmp'[q] \in {NoFile, Partial} \cup UNION {Content(h) : h \in ToSet(Groups)}
        /\ DOMAIN tmp' = Tools
    BY <1>1 DEF IInv, Types, TypeOK
  <2>3. edited' \in [Tools -> SUBSET Syms] /\ saved' \in [Syms -> 0..MaxEdits]
    BY <1>1, <1>4 DEF IInv, Types
  <2>4. behind' \in [Tools -> SUBSET GroupSet] /\ clobbered' \subseteq GroupSet /\ noticed' \subseteq GroupSet
    BY <1>1, <1>3 DEF IInv, Types, TypeOK, GroupSet
  <2>5. /\ mem' \in [Procs -> [Syms -> 0..MaxEdits]] /\ changed' \in [Prefs -> BOOLEAN]
        /\ connected' \subseteq Listeners /\ edits' \in 0..MaxEdits
        /\ outbox' \in [Procs -> Seq(Message)] /\ inbox' \in [Listeners -> Seq(Message)]
    BY <1>1 DEF IInv, Types, TypeOK
  <2>6. TypeOK'
    <3>1. {clobbered', noticed'} \subseteq SUBSET ToSet(Groups)
      BY <2>4 DEF GroupSet
    <3> QED BY <1>2, <2>1, <2>2, <2>5, <3>1 DEF TypeOK, GroupSet, Content, SymsOf
  <2> QED BY <2>1, <2>2, <2>3, <2>4, <2>5, <2>6 DEF Types
<1>8. Steps'
  <2>1. \A q \in Procs : pc'[q] \notin {"gone", "idle", "notify"} => todo'[q] # <<>>
    BY <1>2 DEF IInv, Steps
  <2>2. ASSUME NEW q \in Tools, pc'[q] = "rename"
        PROVE  tmp'[q] = [s \in SymsOf(Head(todo'[q])) |-> mem'[q][s]]
    <3>1. q # p /\ q \in Procs
      BY <1>2, <2>2, GroupsType
    <3> QED BY <1>1, <1>2, <2>2, <3>1 DEF IInv, Types, Steps
  <2> QED BY <2>1, <2>2 DEF Steps
<1>9. \A s \in Syms : /\ GroupOf[s] \in GroupSet
                      /\ s \in mine <=> s \in edited[p] /\ GroupOf[s] = g
                      /\ s \in mine => saved'[s] = mem[p][s]
                      /\ s \notin mine => saved'[s] = saved[s]
  BY <1>1, GroupsType DEF SymsOf
<1> HIDE DEF mine
<1>10. ASSUME NEW s \in Syms, file'[GroupOf[s]] = NoFile PROVE saved'[s] = 0
  BY <1>1, <1>6, <1>9, <1>10 DEF IInv, Values
<1>11. ASSUME NEW s \in Syms, file'[GroupOf[s]] # NoFile, GroupOf[s] \notin clobbered'
       PROVE  file'[GroupOf[s]][s] = saved'[s]
  <2>1. GroupOf[s] \notin clobbered
    BY <1>1, <1>11
  <2>2. CASE GroupOf[s] # g
    BY <1>6, <1>9, <1>11, <2>1, <2>2 DEF IInv, Values
  <2>3. CASE GroupOf[s] = g
    <3>1. file'[g][s] = mem[p][s]
      BY <1>3, <1>6, <2>3 DEF SymsOf
    <3>2. CASE s \in mine
      BY <1>9, <2>3, <3>1, <3>2
    <3>3. CASE s \notin mine
      <4>1. Knows(p, s)
        BY <1>1, <1>9, <1>11, <2>1, <2>3, <3>3 DEF Knows
      <4> QED BY <1>9, <2>3, <3>1, <3>3, <4>1 DEF IInv, Values
    <3> QED BY <3>2, <3>3
  <2> QED BY <2>2, <2>3
<1>12. ASSUME NEW q \in Tools, NEW s \in Syms, Knows(q, s)'
       PROVE  mem'[q][s] = saved'[s]
  <2>1. GroupOf[s] \notin clobbered
    BY <1>1, <1>12 DEF Knows
  <2>2. CASE q = p
    <3>1. CASE s \in mine
      BY <1>1, <1>9, <2>2, <3>1
    <3>2. CASE s \notin mine
      <4>1. s \notin edited[p] /\ GroupOf[s] \notin behind[p]
        BY <1>1, <1>12, <2>2, <3>2 DEF Knows, IInv, Types
      <4>2. Knows(p, s)
        BY <1>1, <2>1, <4>1 DEF Knows
      <4> QED BY <1>1, <1>9, <2>2, <3>2, <4>2 DEF IInv, Values
    <3> QED BY <3>1, <3>2
  <2>3. CASE q # p
    <3>1. q \in Procs /\ pc'[q] = pc[q] /\ todo'[q] = todo[q] /\ edited'[q] = edited[q]
      BY <1>1, <1>2, <2>3, GroupsType DEF IInv, Types
    <3>2. GroupOf[s] # g /\ GroupOf[s] \notin behind[q]
      BY <1>1, <1>12, <2>3, <3>1 DEF Knows
    <3>3. Knows(q, s)
      BY <1>12, <2>1, <3>1, <3>2 DEF Knows
    <3> QED BY <1>1, <1>9, <3>2, <3>3 DEF IInv, Values
  <2> QED BY <2>2, <2>3
<1>13. ASSUME NEW q \in Tools, NEW s \in Syms
       PROVE  (pc'[q] = "gone" => mem'[q][s] = 0) /\ (pc'[q] = "load" /\ file'[GroupOf[s]] = NoFile => mem'[q][s] = 0)
  <2>1. pc'[q] \in {"gone", "load"} => pc'[q] = pc[q]
    BY <1>2, GroupsType
  <2>2. file'[GroupOf[s]] = NoFile => file[GroupOf[s]] = NoFile
    BY <1>1, <1>6, <1>9
  <2> QED BY <1>1, <2>1, <2>2 DEF IInv, Values
<1>14. ASSUME NEW q \in Tools, NEW h \in behind'[q] PROVE file'[h] # NoFile
  <2>1. h = g \/ (h \in behind[q] /\ h \in GroupSet)
    <3>1. behind[q] \subseteq GroupSet
      BY DEF IInv, Types
    <3>2. h = g \/ h \in behind[q]
      BY <1>1, <1>14
    <3> QED BY <3>1, <3>2
  <2>2. CASE h = g
    BY <1>1, <1>6, <2>2
  <2>3. CASE h # g /\ h \in behind[q] /\ h \in GroupSet
    BY <1>6, <2>3 DEF IInv, Values
  <2> QED BY <2>1, <2>2, <2>3
<1>15. Values'
  BY <1>10, <1>11, <1>12, <1>13, <1>14 DEF Values
<1> QED
  BY <1>7, <1>8, <1>15 DEF IInv

\* The reload request.
LEMMA NotifyStep ==
  ASSUME IInv, NEW p \in Tools, uim_custom_broadcast_reload_request(p)
  PROVE  IInv'
<1>1. /\ pc[p] = "notify" /\ p \in Procs
      /\ pc' = [pc EXCEPT ![p] = "idle"]
      /\ outbox' = Sent(p, [kind |-> "reload"]) \/ UNCHANGED outbox
      /\ UNCHANGED <<file, tmp, todo, mem, changed, connected, inbox, noticed, edits, saved, clobbered,
                     edited, behind>>
  BY GroupsType DEF uim_custom_broadcast_reload_request, disk, lost
<1>2. [kind |-> "reload"] \in Message
  BY DEF Message
<1>3. outbox' \in [Procs -> Seq(Message)]
  <2>1. outbox \in [Procs -> Seq(Message)]
    BY DEF IInv, Types, TypeOK
  <2> QED BY <1>1, <1>2, <2>1, SentType
<1>4. Types'
  BY <1>1, <1>3 DEF IInv, Types, TypeOK, GroupSet
<1>5. Steps'
  BY <1>1, GroupsType DEF IInv, Types, TypeOK, Steps
<1>6. Values'
  <2>1. \A q \in Tools : /\ pc'[q] = "gone" <=> pc[q] = "gone"
                         /\ pc'[q] = "load" <=> pc[q] = "load"
    BY <1>1, GroupsType DEF IInv, Types, TypeOK
  <2> QED BY <1>1, <2>1, ValuesFrame DEF IInv
<1> QED
  BY <1>4, <1>5, <1>6 DEF IInv

LEMMA StutterStep == IInv /\ UNCHANGED vars => IInv'
<1> SUFFICES ASSUME IInv, UNCHANGED vars PROVE IInv'
  OBVIOUS
<1>1. UNCHANGED <<file, tmp, pc, todo, mem, changed, connected, outbox, inbox, noticed, edits, saved,
                  clobbered, edited, behind>>
  BY DEF vars, disk, wire, bounds, lost
<1> QED
  BY <1>1 DEF IInv, Types, TypeOK, Steps, Values, Knows

\* Every step keeps the invariant.
LEMMA NextIInv == IInv /\ [Next]_vars => IInv'
<1> SUFFICES ASSUME IInv, [Next]_vars PROVE IInv'
  OBVIOUS
<1>1. ASSUME NEW p \in Procs,
             uim_init(p) \/ custom_load_group_conf(p) \/ Exit(p) \/ distribute_message(p)
      PROVE  IInv'
  BY <1>1, InitStep, LoadStep, ExitStep, DistributeStep
<1>2. ASSUME NEW l \in Listeners, uim_helper_init_client_fd(l) \/ parse_helper_str(l) PROVE IInv'
  BY <1>2, ConnectStep, ReceiveStep
<1>3. ASSUME NEW p \in Prefs, apply_button_clicked(p) \/ \E s \in Syms : custom_set_value(p, s)
      PROVE  IInv'
  BY <1>3, ApplyStep, WidgetStep
<1>4. ASSUME NEW p \in Toolbars \cup Switchers, SwitchIm(p) PROVE IInv'
  BY <1>4, SwitchStep
<1>5. ASSUME NEW p \in Tools, Save(p) PROVE IInv'
  BY <1>5, OpenStep, WriteStep, RenameStep, FailStep, NotifyStep DEF Save
<1>6. CASE ServerCrash
  BY <1>6, CrashStep
<1>7. CASE UNCHANGED vars
  BY <1>7, StutterStep
<1> QED
  BY <1>1, <1>2, <1>3, <1>4, <1>5, <1>6, <1>7 DEF Next

\* A custom file is always whole: no save of another process, no crash of one
\* that saves, and no call that fails in uim_custom_save_group can show in it.
THEOREM TypeCorrect == Spec => []TypeOK
<1>1. IInv => TypeOK
  BY DEF IInv, Types
<1> QED
  BY InitIInv, NextIInv, <1>1, PTL DEF Spec

\* Only a tool that saves a group it has not loaded since another wrote it can
\* undo a saved edit.
THEOREM EditsKept == Spec => []EditsLostOnlyBehind
<1>1. IInv => EditsLostOnlyBehind
  BY DEF IInv, Values, EditsLostOnlyBehind
<1> QED
  BY InitIInv, NextIInv, <1>1, PTL DEF Spec

-----------------------------------------------------------------------------
(* The reload notice.  What it promises can be said of each listener at any *)
(* time, not only when everything is done.                                  *)

\* A notice is among the messages; one is behind each of them.
Notice(q) == \E k \in 1..Len(q) : q[k].kind = "reload"
NoticeBehindAll(q) == \A k \in 1..Len(q) : \E i \in k..Len(q) : q[i].kind = "reload"

Loads(l, g) == pc[l] \in {"load", "reload"} /\ g \in ToSet(todo[l])

GoneIsQuiet == \A l \in Listeners : ~Running(l) => inbox[l] = <<>> /\ l \notin connected

\* A message to switch that a notice will not correct any more is newer than
\* the last notice, and its group not noticed.
SwitchesBefore ==
  GroupOf[DefaultIm] \in noticed => \A l \in Apps \ missed : NoticeBehindAll(inbox[l])

\* What a listener has not got yet, it will load: now, or when it comes to the
\* notice in its messages.
Due ==
  \A l \in Listeners \ missed : \A s \in Syms :
    Running(l) /\ GroupOf[s] \in noticed /\ file[GroupOf[s]] # NoFile =>
      Notice(inbox[l]) \/ Loads(l, GroupOf[s]) \/ mem[l][s] = file[GroupOf[s]][s]

Delivery == GoneIsQuiet /\ SwitchesBefore /\ Due

\* A message that is added takes no notice away, and a notice is behind all.
LEMMA NoticeAppend ==
  ASSUME NEW q \in Seq(Message), NEW m \in Message
  PROVE  /\ Notice(q) => Notice(Append(q, m))
         /\ m.kind = "reload" => Notice(Append(q, m)) /\ NoticeBehindAll(Append(q, m))
<1> DEFINE r == Append(q, m)
<1>1. /\ Len(q) \in Nat /\ Len(r) = Len(q) + 1 /\ r[Len(q) + 1] = m
      /\ \A k \in 1..Len(q) : r[k] = q[k]
  OBVIOUS
<1> HIDE DEF r
<1>2. Notice(q) => Notice(r)
  <2> SUFFICES ASSUME NEW k \in 1..Len(q), q[k].kind = "reload" PROVE Notice(r)
    BY DEF Notice
  <2>1. k \in 1..Len(r) /\ r[k].kind = "reload"
    BY <1>1
  <2> QED BY <2>1 DEF Notice
<1>3. ASSUME m.kind = "reload" PROVE Notice(r) /\ NoticeBehindAll(r)
  <2>1. Len(r) \in 1..Len(r) /\ r[Len(r)].kind = "reload"
    BY <1>1, <1>3
  <2>2. \A k \in 1..Len(r) : Len(r) \in k..Len(r)
    BY <1>1
  <2> QED BY <2>1, <2>2 DEF Notice, NoticeBehindAll
<1> QED
  BY <1>2, <1>3 DEF r

\* A message that is taken.
LEMMA NoticeTail ==
  ASSUME NEW q \in Seq(Message), q # <<>>
  PROVE  /\ Notice(q) /\ Head(q).kind # "reload" => Notice(Tail(q))
         /\ NoticeBehindAll(q) => NoticeBehindAll(Tail(q))
         /\ NoticeBehindAll(q) /\ Head(q).kind # "reload" => Notice(Tail(q))
<1> DEFINE t == Tail(q)
<1>1. /\ Len(q) \in Nat \ {0} /\ Len(t) = Len(q) - 1 /\ Head(q) = q[1]
      /\ \A k \in 1..Len(q) - 1 : t[k] = q[k + 1]
  OBVIOUS
<1> HIDE DEF t
<1>2. ASSUME NEW i \in 2..Len(q), q[i].kind = "reload"
      PROVE  i - 1 \in 1..Len(t) /\ t[i - 1].kind = "reload"
  <2>1. i - 1 \in 1..Len(q) - 1 /\ (i - 1) + 1 = i
    BY <1>1
  <2> QED BY <1>1, <1>2, <2>1
<1>3. ASSUME Notice(q), Head(q).kind # "reload" PROVE Notice(t)
  <2>1. PICK i \in 1..Len(q) : q[i].kind = "reload"
    BY <1>3 DEF Notice
  <2>2. i \in 2..Len(q)
    BY <1>1, <1>3, <2>1
  <2> QED BY <1>2, <2>1, <2>2 DEF Notice
<1>4. ASSUME NoticeBehindAll(q) PROVE NoticeBehindAll(t)
  <2> SUFFICES ASSUME NEW k \in 1..Len(t) PROVE \E j \in k..Len(t) : t[j].kind = "reload"
    BY DEF NoticeBehindAll
  <2>1. k + 1 \in 1..Len(q)
    BY <1>1
  <2>2. PICK i \in (k + 1)..Len(q) : q[i].kind = "reload"
    BY <1>4, <2>1 DEF NoticeBehindAll
  <2>3. i \in 2..Len(q) /\ i - 1 \in k..Len(t)
    BY <1>1, <2>2
  <2> QED BY <1>2, <2>2, <2>3
<1>5. ASSUME NoticeBehindAll(q), Head(q).kind # "reload" PROVE Notice(t)
  <2>1. 1 \in 1..Len(q)
    BY <1>1
  <2>2. Notice(q)
    BY <1>5, <2>1 DEF Notice, NoticeBehindAll
  <2> QED BY <1>3, <1>5, <2>2
<1> QED
  BY <1>3, <1>4, <1>5 DEF t

\* Messages that are lost, and no notice among them.
LEMMA NoticePrefix ==
  ASSUME NEW q \in Seq(Message), NEW n \in 0..Len(q),
         ~\E k \in (n + 1)..Len(q) : q[k].kind = "reload"
  PROVE  /\ Notice(q) => Notice(SubSeq(q, 1, n))
         /\ NoticeBehindAll(q) => NoticeBehindAll(SubSeq(q, 1, n))
<1> DEFINE r == SubSeq(q, 1, n)
<1>1. Len(q) \in Nat /\ Len(r) = n /\ \A k \in 1..n : r[k] = q[k]
  BY SubSeqProperties
<1> HIDE DEF r
<1>2. ASSUME NEW k \in 1..Len(q), q[k].kind = "reload" PROVE k \in 1..n /\ r[k].kind = "reload"
  <2>1. k \in 1..n
    BY <1>1, <1>2
  <2> QED BY <1>1, <1>2, <2>1
<1>3. Notice(q) => Notice(r)
  BY <1>1, <1>2 DEF Notice
<1>4. ASSUME NoticeBehindAll(q), NEW k \in 1..Len(r) PROVE \E i \in k..Len(r) : r[i].kind = "reload"
  <2>1. k \in 1..Len(q) /\ \A i \in k..Len(q) : i \in 1..Len(q)
    BY <1>1
  <2>2. PICK i \in k..Len(q) : q[i].kind = "reload"
    BY <1>4, <2>1 DEF NoticeBehindAll
  <2>3. i \in k..n /\ r[i].kind = "reload"
    BY <1>1, <1>2, <2>1, <2>2
  <2> QED BY <1>1, <2>3
<1> QED
  BY <1>3, <1>4 DEF r, NoticeBehindAll

\* Most steps neither lose a notice nor touch what a listener has of a group
\* that is noticed.
LEMMA DeliveryFrame ==
  ASSUME Delivery, missed' = missed, noticed' \subseteq noticed,
         \A l \in Listeners :
           /\ pc'[l] = "gone" => inbox'[l] = <<>> /\ l \notin connected'
           /\ Notice(inbox[l]) => Notice(inbox'[l]),
         GroupOf[DefaultIm] \in noticed' => \A l \in Listeners : inbox'[l] = inbox[l],
         \A g \in noticed' : file'[g] = file[g],
         \A l \in Listeners, s \in Syms : pc'[l] # "gone" /\ GroupOf[s] \in noticed' =>
           \/ Loads(l, GroupOf[s])'
           \/ pc[l] # "gone" /\ mem'[l][s] = mem[l][s] /\ ~Loads(l, GroupOf[s])
  PROVE  Delivery'
<1>1. GoneIsQuiet'
  BY DEF GoneIsQuiet, Running
<1>2. SwitchesBefore'
  <2> SUFFICES ASSUME GroupOf[DefaultIm]' \in noticed', NEW l \in Apps \ missed'
               PROVE  NoticeBehindAll(inbox'[l])
    BY DEF SwitchesBefore
  <2>1. inbox'[l] = inbox[l] /\ NoticeBehindAll(inbox[l])
    BY DEF Delivery, SwitchesBefore, Listeners
  <2> QED BY <2>1
<1>3. ASSUME NEW l \in Listeners \ missed', NEW s \in Syms,
             Running(l)', GroupOf[s] \in noticed', file'[GroupOf[s]] # NoFile
      PROVE  (Notice(inbox[l]) \/ Loads(l, GroupOf[s]) \/ mem[l][s] = file[GroupOf[s]][s])'
  <2>1. CASE Loads(l, GroupOf[s])'
    BY <2>1
  <2>2. CASE pc[l] # "gone" /\ mem'[l][s] = mem[l][s] /\ ~Loads(l, GroupOf[s])
    <3>1. file'[GroupOf[s]] = file[GroupOf[s]] /\ GroupOf[s] \in noticed
      BY <1>3
    <3>2. Notice(inbox[l]) \/ mem[l][s] = file[GroupOf[s]][s]
      BY <1>3, <2>2, <3>1 DEF Delivery, Due, Running
    <3> QED BY <2>2, <3>1, <3>2
  <2> QED BY <1>3, <2>1, <2>2 DEF Running
<1>4. Due'
  BY <1>3 DEF Due
<1> QED
  BY <1>1, <1>2, <1>4 DEF Delivery
LEMMA InitDelivery == Init => Delivery
<1> SUFFICES ASSUME Init PROVE Delivery
  OBVIOUS
<1>1. /\ \A l \in Listeners : inbox[l] = <<>>
      /\ \A l \in Listeners : pc[l] = "gone" => l \notin connected
      /\ \A s \in Syms : file[GroupOf[s]] = NoFile
  BY GroupsType DEF Init, GroupSet
<1>2. Len(<<>>) = 0 /\ 1..0 = {}
  BY EmptySeq
<1>3. \A l \in Listeners : NoticeBehindAll(inbox[l])
  BY <1>1, <1>2 DEF NoticeBehindAll
<1> QED
  BY <1>1, <1>3 DEF Delivery, GoneIsQuiet, SwitchesBefore, Due, Running, Listeners

\* A listener that starts has all its groups to load.
LEMMA InitDelivers ==
  ASSUME IInv, Delivery, NEW p \in Procs, uim_init(p)
  PROVE  Delivery'
<1>1. /\ pc[p] = "gone" /\ pc' = [pc EXCEPT ![p] = "load"]
      /\ todo' = [todo EXCEPT ![p] = GroupsToLoad]
      /\ UNCHANGED <<file, mem, connected, inbox, noticed, missed>>
  BY DEF uim_init, Running, disk, wire
<1>2. \A q \in Procs : /\ q # p => pc'[q] = pc[q] /\ todo'[q] = todo[q]
                       /\ q = p => pc'[q] = "load" /\ todo'[q] = GroupsToLoad
  BY <1>1 DEF IInv, Types, TypeOK
<1>3. \A l \in Listeners : pc'[l] = "gone" => inbox'[l] = <<>> /\ l \notin connected'
  BY <1>1, <1>2, GroupsType DEF Delivery, GoneIsQuiet, Running
<1>4. ASSUME NEW l \in Listeners, NEW s \in Syms
      PROVE  \/ Loads(l, GroupOf[s])'
             \/ pc'[l] = "gone"
             \/ pc[l] # "gone" /\ mem'[l][s] = mem[l][s] /\ ~Loads(l, GroupOf[s])
  BY <1>1, <1>2, GroupsType DEF Loads
<1> QED
  BY <1>1, <1>3, <1>4, DeliveryFrame

\* Steps of a tool, which cannot be loading then, and of one that connects.
LEMMA ToolDelivers ==
  ASSUME IInv, Delivery, NEW p \in Procs, pc[p] \notin {"gone", "load", "reload"},
         pc'[p] # "gone", missed' = missed, noticed' \subseteq noticed,
         \A l \in Listeners : l \in connected' => l \in connected \/ l = p,
         \A l \in Listeners : Notice(inbox[l]) => Notice(inbox'[l]),
         \A l \in Listeners : l \notin connected => inbox'[l] = inbox[l],
         GroupOf[DefaultIm] \in noticed' => \A l \in Listeners : inbox'[l] = inbox[l],
         \A g \in noticed' : file'[g] = file[g],
         \A q \in Procs : q # p => pc'[q] = pc[q] /\ todo'[q] = todo[q] /\ mem'[q] = mem[q],
         p \in Listeners => \A s \in Syms : GroupOf[s] \in noticed' => mem'[p][s] = mem[p][s]
  PROVE  Delivery'
<1>1. \A l \in Listeners : pc'[l] = "gone" => inbox'[l] = <<>> /\ l \notin connected'
  BY GroupsType DEF Delivery, GoneIsQuiet, Running
<1>2. ASSUME NEW l \in Listeners, NEW s \in Syms, pc'[l] # "gone", GroupOf[s] \in noticed'
      PROVE  \/ Loads(l, GroupOf[s])'
             \/ pc[l] # "gone" /\ mem'[l][s] = mem[l][s] /\ ~Loads(l, GroupOf[s])
  BY <1>2, GroupsType DEF Loads
<1> QED
  BY <1>1, <1>2, DeliveryFrame

\* A listener connects: it had no messages.
LEMMA ConnectDelivers ==
  ASSUME IInv, Delivery, NEW l \in Listeners, uim_helper_init_client_fd(l)
  PROVE  Delivery'
<1>1. /\ pc[l] = "idle" /\ connected' = connected \cup {l} /\ l \in Procs
      /\ UNCHANGED <<file, pc, todo, mem, inbox, noticed, missed>>
  BY GroupsType DEF uim_helper_init_client_fd, disk
<1> QED
  BY <1>1, ToolDelivers

\* The preference tool does not listen.
LEMMA PrefDelivers ==
  ASSUME IInv, Delivery, NEW p \in Prefs,
         apply_button_clicked(p) \/ \E s \in Syms : custom_set_value(p, s)
  PROVE  Delivery'
<1>1. p \in Procs /\ p \notin Listeners
  BY CustomAssumption, GroupsType DEF Listeners, Tools
<1>2. CASE apply_button_clicked(p)
  <2>1. /\ pc[p] = "idle" /\ pc' = [pc EXCEPT ![p] = "open"] /\ todo' = [todo EXCEPT ![p] = Groups]
        /\ UNCHANGED <<file, mem, connected, inbox, noticed, missed>>
    BY <1>2 DEF apply_button_clicked, disk, wire
  <2>2. pc'[p] = "open" /\ \A q \in Procs : q # p => pc'[q] = pc[q] /\ todo'[q] = todo[q]
    BY <1>1, <2>1 DEF IInv, Types, TypeOK
  <2> QED BY <1>1, <2>1, <2>2, ToolDelivers
<1>3. ASSUME NEW s \in Syms, custom_set_value(p, s) PROVE Delivery'
  <2>1. /\ pc[p] = "idle" /\ mem' = [mem EXCEPT ![p][s] = edits + 1]
        /\ UNCHANGED <<file, pc, todo, connected, inbox, noticed, missed>>
    BY <1>3 DEF custom_set_value, SetValue, disk
  <2>2. \A q \in Procs : q # p => mem'[q] = mem[q]
    BY <1>1, <2>1 DEF IInv, Types, TypeOK
  <2> QED BY <1>1, <2>1, <2>2, ToolDelivers
<1> QED
  BY <1>2, <1>3

\* A switch takes the group of the default input method off the noticed ones.
LEMMA SwitchDelivers ==
  ASSUME IInv, Delivery, NEW p \in Toolbars \cup Switchers, SwitchIm(p)
  PROVE  Delivery'
<1>1. /\ pc[p] = "idle" /\ p \in Procs
      /\ mem' = [mem EXCEPT ![p][DefaultIm] = edits + 1]
      /\ noticed' = noticed \ {GroupOf[DefaultIm]}
      /\ pc' = [pc EXCEPT ![p] = "open"]
      /\ todo' = [todo EXCEPT ![p] = <<GroupOf[DefaultIm]>>]
      /\ UNCHANGED <<file, connected, inbox, missed>>
  BY GroupsType DEF SwitchIm, SetValue, disk
<1>2. /\ pc'[p] = "open"
      /\ \A q \in Procs : q # p => pc'[q] = pc[q] /\ todo'[q] = todo[q] /\ mem'[q] = mem[q]
      /\ \A s \in Syms : s # DefaultIm => mem'[p][s] = mem[p][s]
  BY <1>1 DEF IInv, Types, TypeOK
<1> QED
  BY <1>1, <1>2, ToolDelivers

\* The temporary file is nobody else's, and a rename takes its group off the
\* noticed ones.
LEMMA SaveDelivers ==
  ASSUME IInv, Delivery, NEW p \in Tools, OpenTmp(p) \/ WriteTmp(p) \/ Rename(p) \/ SaveFails(p)
  PROVE  Delivery'
<1>1. p \in Procs /\ pc[p] \in {"open", "write", "rename"}
  BY GroupsType DEF OpenTmp, WriteTmp, Rename, SaveFails
<1>2. UNCHANGED <<mem, connected, inbox, missed>>
  BY DEF OpenTmp, WriteTmp, Rename, SaveFails, wire
<1>3. noticed' \subseteq noticed /\ \A g \in noticed' : file'[g] = file[g]
  <2>1. CASE Rename(p)
    <3>1. PICK g : g = Head(todo[p])
      OBVIOUS
    <3>2. noticed' = noticed \ {g} /\ file' = [file EXCEPT ![g] = tmp[custom_file_path(p)]]
      BY <2>1, <3>1 DEF Rename
    <3>3. noticed \subseteq DOMAIN file
      BY DEF IInv, Types, TypeOK, GroupSet
    <3> QED BY <3>2, <3>3
  <2>2. CASE OpenTmp(p) \/ WriteTmp(p) \/ SaveFails(p)
    BY <2>2 DEF OpenTmp, WriteTmp, SaveFails, wire, disk
  <2> QED BY <2>1, <2>2
<1>4. pc'[p] # "gone" /\ \A q \in Procs : q # p => pc'[q] = pc[q] /\ todo'[q] = todo[q]
  <2>1. CASE OpenTmp(p)
    BY <1>1, <2>1 DEF OpenTmp, IInv, Types, TypeOK
  <2>2. CASE WriteTmp(p)
    BY <1>1, <2>2 DEF WriteTmp, IInv, Types, TypeOK
  <2>3. CASE Rename(p) \/ SaveFails(p)
    <3>1. NextGroup(p)
      BY <2>3 DEF Rename, SaveFails
    <3> QED BY <1>1, <3>1, NextGroupType
  <2> QED BY <2>1, <2>2, <2>3
<1> QED
  BY <1>1, <1>2, <1>3, <1>4, ToolDelivers

\* A process that ends owes nobody anything.
LEMMA ExitDelivers ==
  ASSUME IInv, Delivery, NEW p \in Procs, Exit(p)
  PROVE  Delivery'
<1>1. /\ pc' = [pc EXCEPT ![p] = "gone"]
      /\ todo' = [todo EXCEPT ![p] = <<>>]
      /\ mem' = [mem EXCEPT ![p] = [s \in Syms |-> 0]]
      /\ connected' = connected \ {p} /\ missed' = missed \ {p}
      /\ inbox' = IF p \in Listeners THEN [inbox EXCEPT ![p] = <<>>] ELSE inbox
      /\ UNCHANGED <<file, noticed>>
  BY DEF Exit, disk
<1>2. /\ pc'[p] = "gone"
      /\ \A q \in Procs : q # p => pc'[q] = pc[q] /\ todo'[q] = todo[q] /\ mem'[q] = mem[q]
      /\ \A l \in Listeners : l # p => inbox'[l] = inbox[l]
      /\ p \in Listeners => inbox'[p] = <<>>
  BY <1>1 DEF IInv, Types, TypeOK
<1>3. NoticeBehindAll(<<>>)
  BY EmptySeq DEF NoticeBehindAll
<1>4. GoneIsQuiet'
  BY <1>1, <1>2, GroupsType DEF Delivery, GoneIsQuiet, Running
<1>5. SwitchesBefore'
  <2> SUFFICES ASSUME GroupOf[DefaultIm]' \in noticed', NEW l \in Apps \ missed'
               PROVE  NoticeBehindAll(inbox'[l])
    BY DEF SwitchesBefore
  <2>1. CASE l = p
    BY <1>2, <1>3, <2>1 DEF Listeners
  <2>2. CASE l # p
    <3>1. inbox'[l] = inbox[l] /\ NoticeBehindAll(inbox[l])
      BY <1>1, <1>2, <2>2 DEF Delivery, SwitchesBefore, Listeners
    <3> QED BY <3>1
  <2> QED BY <2>1, <2>2
<1>6. ASSUME NEW l \in Listeners \ missed', NEW s \in Syms,
             Running(l)', GroupOf[s] \in noticed', file'[GroupOf[s]] # NoFile
      PROVE  (Notice(inbox[l]) \/ Loads(l, GroupOf[s]) \/ mem[l][s] = file[GroupOf[s]][s])'
  <2>1. l # p /\ l \in Procs
    BY <1>2, <1>6, GroupsType DEF Running
  <2>2. /\ inbox'[l] = inbox[l] /\ pc'[l] = pc[l] /\ todo'[l] = todo[l] /\ mem'[l] = mem[l]
        /\ l \notin missed
    BY <1>1, <1>2, <2>1
  <2>3. Notice(inbox[l]) \/ Loads(l, GroupOf[s]) \/ mem[l][s] = file[GroupOf[s]][s]
    BY <1>1, <1>6, <2>2 DEF Delivery, Due, Running
  <2> QED BY <1>1, <2>2, <2>3 DEF Loads
<1>7. Due'
  BY <1>6 DEF Due
<1> QED
  BY <1>4, <1>5, <1>7 DEF Delivery

\* A group that is loaded is what its file holds.
LEMMA LoadDelivers ==
  ASSUME IInv, Delivery, NEW p \in Procs, custom_load_group_conf(p)
  PROVE  Delivery'
<1>1. PICK g : g = Head(todo[p])
  OBVIOUS
<1> DEFINE loaded == [s \in Syms |-> IF GroupOf[s] = g /\ file[g] # NoFile THEN file[g][s] ELSE mem[p][s]]
<1>2. /\ pc[p] \in {"load", "reload"}
      /\ mem' = [mem EXCEPT ![p] = loaded]
      /\ todo' = [todo EXCEPT ![p] = Tail(@)]
      /\ pc' = [pc EXCEPT ![p] = IF Len(todo[p]) = 1 THEN "idle" ELSE @]
      /\ UNCHANGED <<file, connected, inbox, noticed, missed>>
  BY <1>1 DEF custom_load_group_conf, IInv, Types, TypeOK, disk, wire
<1>3. /\ ToSet(todo[p]) = {g} \cup ToSet(Tail(todo[p]))
      /\ Len(todo[p]) = 1 => ToSet(todo[p]) = {g}
  BY <1>1, <1>2, TodoTail DEF IInv
<1>4. /\ \A q \in Procs : q # p => pc'[q] = pc[q] /\ todo'[q] = todo[q] /\ mem'[q] = mem[q]
      /\ mem'[p] = loaded /\ todo'[p] = Tail(todo[p])
      /\ pc'[p] = IF Len(todo[p]) = 1 THEN "idle" ELSE pc[p]
  BY <1>2 DEF IInv, Types, TypeOK
<1>5. GoneIsQuiet' /\ SwitchesBefore'
  <2>1. \A l \in Listeners : pc'[l] = "gone" => pc[l] = "gone"
    BY <1>2, <1>4, GroupsType
  <2> QED BY <1>2, <2>1 DEF Delivery, GoneIsQuiet, SwitchesBefore, Running, NoticeBehindAll
<1>6. ASSUME NEW l \in Listeners \ missed, NEW s \in Syms,
             pc'[l] # "gone", GroupOf[s] \in noticed, file[GroupOf[s]] # NoFile
      PROVE  Notice(inbox[l]) \/ Loads(l, GroupOf[s])' \/ mem'[l][s] = file[GroupOf[s]][s]
  <2>1. l \in Procs
    BY GroupsType
  <2>2. pc[l] # "gone"
    BY <1>2, <1>4, <1>6, <2>1
  <2>3. Notice(inbox[l]) \/ Loads(l, GroupOf[s]) \/ mem[l][s] = file[GroupOf[s]][s]
    BY <1>6, <2>2 DEF Delivery, Due, Running
  <2>4. CASE l # p
    BY <1>4, <2>1, <2>3, <2>4 DEF Loads
  <2>5. CASE l = p /\ GroupOf[s] = g
    BY <1>4, <1>6, <2>5
  <2>6. CASE l = p /\ GroupOf[s] # g
    <3>1. mem'[l][s] = mem[l][s]
      BY <1>4, <2>6
    <3>2. Loads(l, GroupOf[s]) => Loads(l, GroupOf[s])'
      BY <1>2, <1>3, <1>4, <2>6 DEF Loads
    <3> QED BY <2>3, <3>1, <3>2
  <2> QED BY <2>4, <2>5, <2>6
<1>7. Due'
  BY <1>2, <1>6 DEF Due, Running, Notice
<1> QED
  BY <1>5, <1>7 DEF Delivery

\* The server takes messages with it: whoever loses a notice has missed it.
LEMMA CrashDelivers ==
  ASSUME IInv, Delivery, ServerCrash
  PROVE  Delivery'
<1>0. PICK l \in Listeners : \E n \in 0..Len(inbox[l]) :
        /\ inbox' = [inbox EXCEPT ![l] = SubSeq(@, 1, n)]
        /\ missed' = IF \E k \in (n + 1)..Len(inbox[l]) : inbox[l][k].kind = "reload"
                     THEN missed \cup {l} ELSE missed
  BY DEF ServerCrash
<1>1. PICK n \in 0..Len(inbox[l]) :
        /\ inbox' = [inbox EXCEPT ![l] = SubSeq(@, 1, n)]
        /\ missed' = IF \E k \in (n + 1)..Len(inbox[l]) : inbox[l][k].kind = "reload"
                     THEN missed \cup {l} ELSE missed
  BY <1>0
<1>2. connected' = {} /\ UNCHANGED <<file, pc, todo, mem, noticed>>
  BY DEF ServerCrash, disk
<1>3. inbox \in [Listeners -> Seq(Message)]
  BY DEF IInv, Types, TypeOK
<1>4. /\ \A k \in Listeners : k # l => inbox'[k] = inbox[k]
      /\ inbox'[l] = SubSeq(inbox[l], 1, n)
  BY <1>1, <1>3
<1>5. missed \subseteq missed'
  BY <1>1
<1>6. ASSUME NEW k \in Listeners \ missed'
      PROVE  /\ Notice(inbox[k]) => Notice(inbox'[k])
             /\ NoticeBehindAll(inbox[k]) => NoticeBehindAll(inbox'[k])
  <2>1. CASE k # l
    BY <1>4, <2>1
  <2>2. CASE k = l
    <3>1. ~\E j \in (n + 1)..Len(inbox[l]) : inbox[l][j].kind = "reload"
      BY <1>1, <1>6, <2>2
    <3> QED BY <1>3, <1>4, <2>2, <3>1, NoticePrefix
  <2> QED BY <2>1, <2>2
<1>7. GoneIsQuiet'
  <2> SUFFICES ASSUME NEW k \in Listeners, pc[k] = "gone" PROVE inbox'[k] = <<>>
    BY <1>2 DEF GoneIsQuiet, Running
  <2>1. inbox[k] = <<>>
    BY DEF Delivery, GoneIsQuiet, Running
  <2>2. CASE k # l
    BY <1>4, <2>1, <2>2
  <2>3. CASE k = l
    <3>1. n = 0 /\ Len(inbox'[k]) = 0 /\ inbox'[k] \in Seq(Message)
      BY <1>3, <1>4, <2>1, <2>3, EmptySeq, SubSeqProperties
    <3> QED BY <3>1, EmptySeq
  <2> QED BY <2>2, <2>3
<1>8. SwitchesBefore'
  <2> SUFFICES ASSUME GroupOf[DefaultIm]' \in noticed', NEW k \in Apps \ missed'
               PROVE  NoticeBehindAll(inbox'[k])
    BY DEF SwitchesBefore
  <2>1. NoticeBehindAll(inbox[k])
    BY <1>2, <1>5 DEF Delivery, SwitchesBefore
  <2> QED BY <1>6, <2>1 DEF Listeners
<1>9. ASSUME NEW k \in Listeners \ missed', NEW s \in Syms,
             pc[k] # "gone", GroupOf[s] \in noticed, file[GroupOf[s]] # NoFile
      PROVE  Notice(inbox'[k]) \/ Loads(k, GroupOf[s]) \/ mem[k][s] = file[GroupOf[s]][s]
  BY <1>5, <1>6, <1>9 DEF Delivery, Due, Running
<1>10. Due'
  BY <1>2, <1>9 DEF Due, Running, Loads, Notice
<1> QED
  BY <1>7, <1>8, <1>10 DEF Delivery

\* The request for the notice is not the notice.
LEMMA NotifyDelivers ==
  ASSUME IInv, Delivery, NEW p \in Tools, uim_custom_broadcast_reload_request(p)
  PROVE  Delivery'
<1>1. /\ pc[p] = "notify" /\ pc' = [pc EXCEPT ![p] = "idle"] /\ p \in Procs
      /\ UNCHANGED <<file, todo, mem, connected, inbox, noticed, missed>>
  BY GroupsType DEF uim_custom_broadcast_reload_request, disk
<1>2. pc'[p] = "idle" /\ \A q \in Procs : q # p => pc'[q] = pc[q]
  BY <1>1 DEF IInv, Types, TypeOK
<1> QED
  BY <1>1, <1>2, ToolDelivers

\* The notice is handed out: it is behind all other messages of whoever is
\* connected, but for the tool that asked for it.
LEMMA NoticeDelivers ==
  ASSUME IInv, Delivery, NEW p \in Procs, distribute_message(p), Head(outbox[p]).kind = "reload"
  PROVE  Delivery'
<1>1. PICK m : m = Head(outbox[p])
  OBVIOUS
<1>2. m.kind = "reload" /\ m \in Message /\ inbox \in [Listeners -> Seq(Message)]
  <2>1. outbox[p] \in Seq(Message) /\ outbox[p] # <<>>
    BY DEF distribute_message, IInv, Types, TypeOK
  <2> QED BY <1>1, <2>1 DEF IInv, Types, TypeOK
<1>3. /\ inbox' = [l \in Listeners |-> IF l \in connected THEN Append(inbox[l], m) ELSE inbox[l]]
      /\ missed' = {l \in Listeners : Running(l) /\ l \notin connected}
      /\ UNCHANGED <<file, pc, todo, mem, connected>>
  BY <1>1, <1>2 DEF distribute_message, Receivers, disk
<1>4. ASSUME NEW l \in Listeners, l \in connected
      PROVE  Notice(inbox'[l]) /\ NoticeBehindAll(inbox'[l])
  <2>1. inbox[l] \in Seq(Message) /\ inbox'[l] = Append(inbox[l], m)
    BY <1>2, <1>3, <1>4
  <2> QED BY <1>2, <2>1, NoticeAppend
<1>5. ASSUME NEW l \in Listeners, l \notin connected
      PROVE  inbox'[l] = inbox[l]
  BY <1>3, <1>5
<1>6. \A l \in Listeners \ missed' : pc[l] = "gone" \/ l \in connected
  BY <1>3 DEF Running
<1>7. GoneIsQuiet'
  BY <1>3, <1>5 DEF Delivery, GoneIsQuiet, Running
<1>8. SwitchesBefore'
  <2> SUFFICES ASSUME NEW l \in Apps \ missed' PROVE NoticeBehindAll(inbox'[l])
    BY DEF SwitchesBefore
  <2>1. CASE l \in connected
    BY <1>4, <2>1 DEF Listeners
  <2>2. CASE pc[l] = "gone" /\ l \notin connected
    <3>1. inbox'[l] = <<>>
      BY <1>5, <2>2 DEF Delivery, GoneIsQuiet, Running, Listeners
    <3> QED BY <3>1, EmptySeq DEF NoticeBehindAll
  <2> QED BY <1>6, <2>1, <2>2 DEF Listeners
<1>9. Due'
  BY <1>3, <1>4, <1>6 DEF Due, Running, Notice
<1> QED
  BY <1>7, <1>8, <1>9 DEF Delivery

\* A switch is handed out, and takes the group of the default input method off
\* the noticed ones.
LEMMA SwitchPasses ==
  ASSUME IInv, Delivery, NEW p \in Procs, distribute_message(p), Head(outbox[p]).kind # "reload"
  PROVE  Delivery'
<1>1. PICK m : m = Head(outbox[p])
  OBVIOUS
<1>2. m \in Message /\ inbox \in [Listeners -> Seq(Message)]
  <2>1. outbox[p] \in Seq(Message) /\ outbox[p] # <<>>
    BY DEF distribute_message, IInv, Types, TypeOK
  <2> QED BY <1>1, <2>1 DEF IInv, Types, TypeOK
<1>3. /\ inbox' = [l \in Listeners |-> IF l \in Receivers(p, m) \cap connected
                                       THEN Append(inbox[l], m) ELSE inbox[l]]
      /\ noticed' = noticed \ {GroupOf[DefaultIm]}
      /\ UNCHANGED <<file, pc, todo, mem, connected, missed>>
  BY <1>1 DEF distribute_message, disk
<1>4. ASSUME NEW l \in Listeners
      PROVE  /\ Notice(inbox[l]) => Notice(inbox'[l])
             /\ l \notin connected => inbox'[l] = inbox[l]
  <2>1. inbox[l] \in Seq(Message)
    BY <1>2
  <2>2. Notice(inbox[l]) => Notice(Append(inbox[l], m))
    BY <1>2, <2>1, NoticeAppend
  <2>3. inbox'[l] = inbox[l] \/ (l \in connected /\ inbox'[l] = Append(inbox[l], m))
    BY <1>3
  <2> QED BY <2>2, <2>3
<1>5. \A l \in Listeners : pc'[l] = "gone" => inbox'[l] = <<>> /\ l \notin connected'
  BY <1>3, <1>4 DEF Delivery, GoneIsQuiet, Running
<1>6. ASSUME NEW l \in Listeners, NEW s \in Syms, pc'[l] # "gone"
      PROVE  \/ Loads(l, GroupOf[s])'
             \/ pc[l] # "gone" /\ mem'[l][s] = mem[l][s] /\ ~Loads(l, GroupOf[s])
  BY <1>3, <1>6 DEF Loads
<1> QED
  BY <1>3, <1>4, <1>5, <1>6, DeliveryFrame

\* What a listener takes is the notice, after which it has all to load, or a
\* switch, which leaves no mark or has the notice behind it.
LEMMA ReceiveDelivers ==
  ASSUME IInv, Delivery, NEW l \in Listeners, parse_helper_str(l)
  PROVE  Delivery'
<1>1. PICK m : m = Head(inbox[l])
  OBVIOUS
<1>2. inbox \in [Listeners -> Seq(Message)] /\ l \in Procs
  BY GroupsType DEF IInv, Types, TypeOK
<1>3. /\ pc[l] = "idle" /\ inbox[l] # <<>>
      /\ inbox' = [inbox EXCEPT ![l] = Tail(@)]
      /\ mem' = IF m.kind # "reload" /\ l \in Apps THEN [mem EXCEPT ![l][DefaultIm] = m.im] ELSE mem
      /\ IF m.kind = "reload"
         THEN pc' = [pc EXCEPT ![l] = "reload"] /\ todo' = [todo EXCEPT ![l] = GroupsToLoad]
         ELSE UNCHANGED <<pc, todo>>
      /\ UNCHANGED <<file, connected, noticed, missed>>
  BY <1>1 DEF parse_helper_str, HandlesReload, disk
<1>4. inbox'[l] = Tail(inbox[l]) /\ \A k \in Listeners : k # l => inbox'[k] = inbox[k]
  BY <1>2, <1>3
<1>5. \A q \in Procs : /\ q # l => pc'[q] = pc[q] /\ todo'[q] = todo[q] /\ mem'[q] = mem[q]
                       /\ pc'[q] = "gone" <=> pc[q] = "gone"
  BY <1>2, <1>3 DEF IInv, Types, TypeOK
<1>6. GoneIsQuiet'
  <2> SUFFICES ASSUME NEW k \in Listeners, pc'[k] = "gone" PROVE inbox'[k] = <<>> /\ k \notin connected
    BY <1>3 DEF GoneIsQuiet, Running
  <2>1. k # l /\ inbox[k] = <<>> /\ k \notin connected
    BY <1>3, <1>5, GroupsType DEF Delivery, GoneIsQuiet, Running
  <2> QED BY <1>4, <2>1
<1>7. SwitchesBefore'
  <2> SUFFICES ASSUME GroupOf[DefaultIm] \in noticed, NEW k \in Apps \ missed
               PROVE  NoticeBehindAll(inbox'[k])
    BY <1>3 DEF SwitchesBefore
  <2>1. NoticeBehindAll(inbox[k]) /\ k \in Listeners
    BY DEF Delivery, SwitchesBefore, Listeners
  <2> QED BY <1>2, <1>3, <1>4, <2>1, NoticeTail
<1>8. ASSUME NEW k \in Listeners \ missed, NEW s \in Syms,
             pc'[k] # "gone", GroupOf[s] \in noticed, file[GroupOf[s]] # NoFile
      PROVE  Notice(inbox'[k]) \/ Loads(k, GroupOf[s])' \/ mem'[k][s] = file[GroupOf[s]][s]
  <2>1. k \in Procs /\ pc[k] # "gone"
    BY <1>5, <1>8, GroupsType
  <2>2. Notice(inbox[k]) \/ Loads(k, GroupOf[s]) \/ mem[k][s] = file[GroupOf[s]][s]
    BY <1>8, <2>1 DEF Delivery, Due, Running
  <2>3. CASE k # l
    <3>1. inbox'[k] = inbox[k] /\ pc'[k] = pc[k] /\ todo'[k] = todo[k] /\ mem'[k] = mem[k]
      BY <1>4, <1>5, <2>1, <2>3
    <3> QED BY <2>2, <3>1 DEF Loads
  <2>4. CASE k = l /\ m.kind = "reload"
    <3>1. pc'[l] = "reload" /\ todo'[l] = GroupsToLoad
      BY <1>2, <1>3, <2>4 DEF IInv, Types, TypeOK
    <3> QED BY <2>4, <3>1, GroupsType DEF Loads
  <2>5. CASE k = l /\ m.kind # "reload"
    <3>1. ~Loads(l, GroupOf[s])
      BY <1>3 DEF Loads
    <3>2. Notice(inbox[l]) => Notice(inbox'[l])
      BY <1>1, <1>2, <1>3, <1>4, <2>5, NoticeTail
    <3>3. CASE mem'[l][s] = mem[l][s]
      BY <2>2, <2>5, <3>1, <3>2, <3>3
    <3>4. CASE mem'[l][s] # mem[l][s]
      <4>1. l \in Apps /\ s = DefaultIm
        BY <1>2, <1>3, <3>4 DEF IInv, Types, TypeOK
      <4>2. NoticeBehindAll(inbox[l])
        BY <1>8, <2>5, <4>1 DEF Delivery, SwitchesBefore
      <4> QED BY <1>1, <1>2, <1>3, <1>4, <2>5, <4>2, NoticeTail
    <3> QED BY <3>3, <3>4
  <2> QED BY <2>3, <2>4, <2>5
<1>9. Due'
  BY <1>3, <1>8 DEF Due, Running, Notice, Loads
<1> QED
  BY <1>6, <1>7, <1>9 DEF Delivery

LEMMA NextDelivery == IInv /\ Delivery /\ [Next]_vars => Delivery'
<1> SUFFICES ASSUME IInv, Delivery, [Next]_vars PROVE Delivery'
  OBVIOUS
<1>1. ASSUME NEW p \in Procs,
             uim_init(p) \/ custom_load_group_conf(p) \/ Exit(p) \/ distribute_message(p)
      PROVE  Delivery'
  BY <1>1, InitDelivers, LoadDelivers, ExitDelivers, NoticeDelivers, SwitchPasses
<1>2. ASSUME NEW l \in Listeners, uim_helper_init_client_fd(l) \/ parse_helper_str(l) PROVE Delivery'
  BY <1>2, ConnectDelivers, ReceiveDelivers
<1>3. ASSUME NEW p \in Prefs, apply_button_clicked(p) \/ \E s \in Syms : custom_set_value(p, s)
      PROVE  Delivery'
  BY <1>3, PrefDelivers
<1>4. ASSUME NEW p \in Toolbars \cup Switchers, SwitchIm(p) PROVE Delivery'
  BY <1>4, SwitchDelivers
<1>5. ASSUME NEW p \in Tools, Save(p) PROVE Delivery'
  BY <1>5, SaveDelivers, NotifyDelivers DEF Save
<1>6. CASE ServerCrash
  BY <1>6, CrashDelivers
<1>7. CASE UNCHANGED vars
  <2>1. UNCHANGED <<file, pc, todo, mem, connected, inbox, noticed, missed>>
    BY <1>7 DEF vars, disk, wire
  <2> QED BY <2>1 DEF Delivery, GoneIsQuiet, SwitchesBefore, Due, Running, Notice, NoticeBehindAll, Loads
<1> QED
  BY <1>1, <1>2, <1>3, <1>4, <1>5, <1>6, <1>7 DEF Next

\* When everything is done, a listener that has not missed the last notice has
\* the values of the files: after any crossing of saves, loads, switches,
\* crashes of the server and restarts, and for any number of processes.
THEOREM NoticeReaches == Spec => []ListenersHaveFiles
<1>1. Delivery => ListenersHaveFiles
  <2>1. ~Notice(<<>>)
    BY EmptySeq DEF Notice
  <2>2. Quiet => \A l \in Listeners : inbox[l] = <<>> /\ \A g \in GroupSet : ~Loads(l, g)
    BY GroupsType DEF Quiet, Loads
  <2> QED BY <2>1, <2>2, GroupsType DEF Delivery, Due, ListenersHaveFiles
<1>2. Spec => [](IInv /\ Delivery)
  BY InitIInv, InitDelivery, NextIInv, NextDelivery, PTL DEF Spec
<1> QED
  BY <1>1, <1>2, PTL
=============================================================================
