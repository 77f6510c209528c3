--------------------------- MODULE FocusProtocol ---------------------------
(***************************************************************************)
(* Who answers the toolbar: the focus protocol of the GTK immodule         *)
(* (gtk2/immodule/gtk-im-uim.c) over the helper connection                 *)
(* (uim/uim-helper-client.c), with the toolbar (gtk2/toolbar/common-gtk.c) *)
(* at the other end.  Every message goes to all other clients; a process   *)
(* whose input context gets the focus announces it with focus_in, and the  *)
(* process that believes itself focused answers what the toolbar asks.     *)
(*                                                                         *)
(* The server is what HelperBus promises, and it may crash.  "get" stands  *)
(* for the messages only the active context handles (prop_list_get,        *)
(* prop_activate, im_list_get, commit_string), "update" for its answer.    *)
(* A message its receiver has no use for is left out, but for the half of  *)
(* one that a crash may leave in uim_read_buf ("junk").                    *)
(***************************************************************************)
EXTENDS Integers, Sequences, FiniteSets, SequencesExt

CONSTANTS
  Procs,        \* processes that loaded the immodule
  Contexts,     \* IMUIMContext objects
  Owner,        \* the process of each
  First,        \* the context each process makes first
  Toolbar,      \* the toolbar process
  Fds,          \* descriptor numbers a process may get
  MaxActs, MaxCrashes, MaxFails,  \* bounds: what user, server and network may do
  MaxOpens, MaxGone,  \* files each process opens, contexts it drops
  NoContext

ASSUME FocusAssumption ==
  /\ Owner \in [Contexts -> Procs]
  /\ First \in [Procs -> Contexts] /\ \A p \in Procs : Owner[First[p]] = p
  /\ Toolbar \notin Procs /\ NoContext \notin Contexts
  /\ Fds \subseteq Nat /\ Cardinality(Fds) >= 2
  /\ {MaxActs, MaxCrashes, MaxFails} \subseteq Nat
  /\ {MaxOpens, MaxGone} \subseteq [Procs -> Nat]

Clients == Procs \cup {Toolbar}

VARIABLES
  life,      \* of a context: "unborn", "live" or "gone"
  uim_fd,    \* uc->uim_fd of each context
  focused_context, disable_focused_context,
  im_uim_fd, \* of each process; uim_fd of uim-helper-client.c has the same value
  table,     \* what each descriptor of a process is: "none", "helper" or "other"
  link,      \* a client's connection: "none", "up", or "down" when the server closed it
  read_buf,  \* uim_read_buf: at most the beginning of one message
  sent,      \* messages on their way to the server
  inbox,     \* messages on their way from it
  events,    \* focus changes the toolkit has not delivered yet
  xfocus,    \* the context the user has focused
  shown,     \* the process whose properties the toolbar shows
  \* history and bounds
  hasty,     \* the user did something before the previous thing had settled
  announced, \* the last focus_in found everybody who must hear it listening
  stray,     \* a message was written to a descriptor that is not the helper's
  acts, crashes, opens, fails

ctxVars == <<life, uim_fd>>
focusVars == <<focused_context, disable_focused_context>>
connVars == <<im_uim_fd, table, link, read_buf, fails>>
wireVars == <<sent, inbox>>
userVars == <<events, xfocus, hasty, acts>>
faultVars == <<announced, crashes>>
vars == <<ctxVars, focusVars, connVars, wireVars, userVars, faultVars, shown, stray, opens>>

Live == {c \in Contexts : life[c] = "live"}
active(p) == focused_context[p] # NoContext /\ ~disable_focused_context[p]

Quiet ==
  /\ \A p \in Procs : events[p] = <<>>
  /\ \A q \in Clients : sent[q] = <<>> /\ inbox[q] = <<>> /\ link[q] # "down"

-----------------------------------------------------------------------------
(* The connection. *)

Msg(kind, p) == [kind |-> kind, from |-> p, whole |-> TRUE]

lowest_free(p) == CHOOSE d \in Fds : /\ table[p][d] = "none"
                                     /\ \A e \in Fds : e < d => table[p][e] # "none"
HasFree(p) == \E d \in Fds : table[p][d] = "none"

\* Mutant: nobody is told the new descriptor.
CheckConnectionMutant(p, c, ok) ==
  LET connects == im_uim_fd[p] = -1 /\ ok /\ HasFree(p)
  IN  /\ im_uim_fd' = IF connects THEN [im_uim_fd EXCEPT ![p] = lowest_free(p)] ELSE im_uim_fd
      /\ table' = IF connects THEN [table EXCEPT ![p][lowest_free(p)] = "helper"] ELSE table
      /\ link' = IF connects THEN [link EXCEPT ![p] = "up"] ELSE link
      /\ fails' = IF connects \/ im_uim_fd[p] # -1 THEN fails ELSE fails + 1
      /\ fails' <= MaxFails
      /\ UNCHANGED <<read_buf, uim_fd>>

\* check_helper_connection: only the context it is called for learns the new
\* descriptor.  ok is whether uim_helper_init_client_fd succeeds.
check_helper_connection(p, c, ok) ==
  LET connects == im_uim_fd[p] = -1 /\ ok /\ HasFree(p)
  IN  /\ im_uim_fd' = IF connects THEN [im_uim_fd EXCEPT ![p] = lowest_free(p)] ELSE im_uim_fd
      /\ table' = IF connects THEN [table EXCEPT ![p][lowest_free(p)] = "helper"] ELSE table
      /\ link' = IF connects THEN [link EXCEPT ![p] = "up"] ELSE link
      /\ uim_fd' = [uim_fd EXCEPT ![c] = IF connects THEN lowest_free(p)
                                         ELSE IF life[c] = "live" THEN @ ELSE -1]
      /\ fails' = IF connects \/ im_uim_fd[p] # -1 THEN fails ELSE fails + 1
      /\ fails' <= MaxFails
      /\ UNCHANGED read_buf

\* Mutant: the callback forgets im_uim_fd.
DisconnectMutant(p) ==
  table' = [table EXCEPT ![p][im_uim_fd[p]] = "none"] /\ UNCHANGED im_uim_fd

\* helper_disconnect_cb after uim_helper_close_client_fd has closed the
\* descriptor; what uim_read_buf holds stays.
helper_disconnect(p) ==
  /\ im_uim_fd' = [im_uim_fd EXCEPT ![p] = -1]
  /\ table' = [table EXCEPT ![p][im_uim_fd[p]] = "none"]

\* uim_helper_send_message on a descriptor of p, in the state a reconnection
\* has left: what reaches the server, and whether another file got it.
Sends(p, fd, msg) == IF fd # -1 /\ fd = im_uim_fd'[p] /\ link'[p] = "up" THEN <<msg>> ELSE <<>>
GoesAstray(p, fd) == fd # -1 /\ table'[p][fd] = "other"

\* uim_helper_client_focus_in and _out write to uc->uim_fd when it is set.
focus_fd(p, c) == IF uim_fd'[c] # -1 THEN uim_fd'[c] ELSE im_uim_fd'[p]

-----------------------------------------------------------------------------
(* The immodule. *)

im_module_create(c) ==
  LET p == Owner[c]
  IN  /\ life[c] = "unborn"
      /\ life' = [life EXCEPT ![c] = "live"]
      /\ \E ok \in BOOLEAN : check_helper_connection(p, c, ok)
      /\ UNCHANGED <<focusVars, wireVars, userVars, faultVars, shown, stray, opens>>

\* Mutant: a finalized context stays focused_context.
FinalizeMutant(c) ==
  /\ c \in Live /\ \A k \in DOMAIN events[Owner[c]] : events[Owner[c]][k].ctx # c
  /\ life' = [life EXCEPT ![c] = "gone"]
  /\ xfocus' = IF xfocus = c THEN NoContext ELSE xfocus
  /\ UNCHANGED <<uim_fd, focusVars, connVars, wireVars, events, hasty, acts, faultVars, shown,
                 stray, opens>>

\* A context is gone after its widget, with its focus events delivered.
im_uim_finalize(c) ==
  LET p == Owner[c]
      mine == focused_context[p] = c
  IN  /\ c \in Live
      /\ Cardinality({d \in Contexts : Owner[d] = p /\ life[d] = "gone"}) < MaxGone[p]
      /\ \A k \in DOMAIN events[p] : events[p][k].ctx # c
      /\ life' = [life EXCEPT ![c] = "gone"]
      /\ focused_context' = IF mine THEN [focused_context EXCEPT ![p] = NoContext] ELSE focused_context
      /\ disable_focused_context' =
           IF mine THEN [disable_focused_context EXCEPT ![p] = TRUE] ELSE disable_focused_context
      /\ xfocus' = IF xfocus = c THEN NoContext ELSE xfocus
      /\ UNCHANGED <<uim_fd, connVars, wireVars, events, hasty, acts, faultVars, shown,
                     stray, opens>>

\* A focus_in is heard when it goes to the helper, and the toolbar and all that
\* may believe themselves focused are connected, with no half message before it.
\* Nor may p itself have half of an older focus_in in front of what it is asked.
Announces(p, c) ==
  /\ focus_fd(p, c) = im_uim_fd'[p]
  /\ \A q \in {p, Toolbar} \cup {r \in Procs : focused_context[r] # NoContext} :
       link'[q] = "up" /\ read_buf[q] = <<>>

\* Mutant: a process that was told of another focus is not enabled again.
FocusInMutant(p) ==
  LET c == Head(events[p]).ctx
  IN  /\ events[p] # <<>> /\ Head(events[p]).kind = "in"
      /\ focused_context' = [focused_context EXCEPT ![p] = c]
      /\ \E ok \in BOOLEAN : check_helper_connection(p, c, ok)
      /\ sent' = [sent EXCEPT ![p] = @ \o Sends(p, focus_fd(p, c), Msg("focus_in", p))
                                       \o Sends(p, im_uim_fd'[p], Msg("update", p))]
      /\ events' = [events EXCEPT ![p] = Tail(@)]
      /\ announced' = Announces(p, c)
      /\ UNCHANGED <<life, disable_focused_context, inbox, xfocus, hasty, acts, crashes,
                     shown, stray, opens>>

\* The descriptor is looked up after check_helper_connection, and the answer to
\* prop-list-update goes to the process's own.
im_uim_focus_in(p) ==
  LET c == Head(events[p]).ctx
  IN  /\ events[p] # <<>> /\ Head(events[p]).kind = "in"
      /\ focused_context' = [focused_context EXCEPT ![p] = c]
      /\ disable_focused_context' = [disable_focused_context EXCEPT ![p] = FALSE]
      /\ \E ok \in BOOLEAN : check_helper_connection(p, c, ok)
      /\ sent' = [sent EXCEPT ![p] = @ \o Sends(p, focus_fd(p, c), Msg("focus_in", p))
                                       \o Sends(p, im_uim_fd'[p], Msg("update", p))]
      /\ stray' = (stray \/ GoesAstray(p, focus_fd(p, c)))
      /\ events' = [events EXCEPT ![p] = Tail(@)]
      /\ announced' = Announces(p, c)
      /\ UNCHANGED <<life, inbox, xfocus, hasty, acts, crashes, shown, opens>>

\* focused_context is kept: the process stays active until it hears of another.
\* Nobody receives focus_out, but it is written.
im_uim_focus_out(p) ==
  LET c == Head(events[p]).ctx
  IN  /\ events[p] # <<>> /\ Head(events[p]).kind = "out"
      /\ \E ok \in BOOLEAN : check_helper_connection(p, c, ok)
      /\ stray' = (stray \/ GoesAstray(p, focus_fd(p, c)))
      /\ events' = [events EXCEPT ![p] = Tail(@)]
      /\ UNCHANGED <<life, focusVars, wireVars, xfocus, hasty, acts, faultVars, shown, opens>>

\* What uim_helper_read_proc and uim_helper_get_message make of the inbox: the
\* first message is glued to what is left in uim_read_buf, and is then taken for
\* the older one, or for none if too little of that is there.
EndsTorn(q) == inbox[q] # <<>> /\ ~Last(inbox[q]).whole
Whole(q) == IF EndsTorn(q) THEN Front(inbox[q]) ELSE inbox[q]
Torn(q) == IF EndsTorn(q) THEN <<Last(inbox[q])>> ELSE <<>>
uim_helper_get_messages(q, legible) ==
  IF read_buf[q] = <<>> \/ Whole(q) = <<>> THEN Whole(q)
  ELSE <<IF legible THEN read_buf[q][1] ELSE [read_buf[q][1] EXCEPT !.kind = "junk"]>> \o Tail(Whole(q))
RestOf(q) == IF Whole(q) # <<>> \/ read_buf[q] = <<>> THEN Torn(q) ELSE read_buf[q]

\* Mutant: focus_in is taken for a message of the focused process only.
ParseMutant(p, s, m) ==
  IF focused_context[p] = NoContext \/ s.disabled THEN s
  ELSE CASE m.kind = "get" -> [s EXCEPT !.out = Append(@, Msg("update", p))]
         [] m.kind = "focus_in" -> [s EXCEPT !.disabled = m.from = p]
         [] OTHER -> s

\* parse_helper_str on a state [disabled, out] of process p.
parse_helper_str(p, s, m) ==
  IF focused_context[p] = NoContext \/ s.disabled THEN s
  ELSE CASE m.kind = "get" -> [s EXCEPT !.out = Append(@, Msg("update", p))]
         [] m.kind = "focus_in" -> [s EXCEPT !.disabled = TRUE]
         [] OTHER -> s

\* Mutant: the watch has no G_IO_HUP.
ReadableMutant(q) == link[q] # "none" /\ inbox[q] # <<>>

Readable(q) == link[q] # "none" /\ (inbox[q] # <<>> \/ link[q] = "down")

\* helper_read_cb reads until nothing is left; when that ends the connection,
\* the messages are handled after it is gone.
helper_read_cb(p) ==
  /\ Readable(p)
  /\ \E legible \in BOOLEAN :
       LET start == [disabled |-> disable_focused_context[p], out |-> <<>>]
           step(s, m) == parse_helper_str(p, s, m)
           end == FoldLeft(step, start, uim_helper_get_messages(p, legible))
       IN  /\ disable_focused_context' = [disable_focused_context EXCEPT ![p] = end.disabled]
           /\ sent' = IF link[p] = "up" THEN [sent EXCEPT ![p] = @ \o end.out] ELSE sent
  /\ IF link[p] = "down" THEN helper_disconnect(p) ELSE UNCHANGED <<im_uim_fd, table>>
  /\ link' = IF link[p] = "down" THEN [link EXCEPT ![p] = "none"] ELSE link
  /\ inbox' = [inbox EXCEPT ![p] = <<>>]
  /\ read_buf' = [read_buf EXCEPT ![p] = RestOf(p)]
  /\ UNCHANGED <<ctxVars, focused_context, fails, userVars, faultVars, shown, stray, opens>>

-----------------------------------------------------------------------------
(* The toolbar. *)

\* prop_list_update replaces what is shown.
toolbar_read_cb ==
  /\ Readable(Toolbar)
  /\ \E legible \in BOOLEAN :
       LET step(s, m) == IF m.kind = "update" THEN m.from ELSE s
       IN  shown' = FoldLeft(step, shown, uim_helper_get_messages(Toolbar, legible))
  /\ link' = IF link[Toolbar] = "down" THEN [link EXCEPT ![Toolbar] = "none"] ELSE link
  /\ inbox' = [inbox EXCEPT ![Toolbar] = <<>>]
  /\ read_buf' = [read_buf EXCEPT ![Toolbar] = RestOf(Toolbar)]
  /\ UNCHANGED <<ctxVars, focusVars, im_uim_fd, table, fails, sent, userVars, faultVars, stray, opens>>

\* popup_prop_menu: opening the menu connects again.
ToolbarPopup ==
  /\ link[Toolbar] = "none"
  /\ link' = [link EXCEPT ![Toolbar] = "up"]
  /\ UNCHANGED <<ctxVars, focusVars, im_uim_fd, table, read_buf, fails, wireVars, userVars,
                 faultVars, shown, stray, opens>>

\* prop_menu_activate, and the requests of a toolbar that starts.
ToolbarClick ==
  /\ acts < MaxActs
  /\ acts' = acts + 1
  /\ hasty' = (hasty \/ ~Quiet)
  /\ link[Toolbar] # "none"
  /\ sent' = IF link[Toolbar] = "up" THEN [sent EXCEPT ![Toolbar] = Append(@, Msg("get", Toolbar))] ELSE sent
  /\ UNCHANGED <<ctxVars, focusVars, connVars, inbox, events, xfocus, faultVars, shown, stray, opens>>

-----------------------------------------------------------------------------
(* The user, the server and the rest of the application. *)

\* The toolkits of two processes deliver their events independently.
UserFocus(c) ==
  LET out(p) == IF xfocus # NoContext /\ Owner[xfocus] = p THEN <<[kind |-> "out", ctx |-> xfocus]>> ELSE <<>>
      in(p) == IF Owner[c] = p THEN <<[kind |-> "in", ctx |-> c]>> ELSE <<>>
  IN  /\ acts < MaxActs /\ c \in Live /\ c # xfocus
      /\ acts' = acts + 1
      /\ hasty' = ~Quiet
      /\ xfocus' = c
      /\ events' = [p \in Procs |-> events[p] \o out(p) \o in(p)]
      /\ UNCHANGED <<ctxVars, focusVars, connVars, wireVars, faultVars, shown, stray, opens>>

\* reflect_message_fragment, as HelperBus states it.
Uses(r, m) == m.kind \in IF r = Toolbar THEN {"update"} ELSE {"focus_in", "get"}
Reflect(q) ==
  /\ sent[q] # <<>>
  /\ sent' = [sent EXCEPT ![q] = Tail(@)]
  /\ inbox' = [r \in Clients |-> IF r # q /\ link[r] = "up" /\ Uses(r, Head(sent[q]))
                                 THEN Append(inbox[r], Head(sent[q])) ELSE inbox[r]]
  /\ UNCHANGED <<ctxVars, focusVars, connVars, userVars, faultVars, shown, stray, opens>>

\* Every connection ends.  A client may still get a part of what was on its way,
\* cut anywhere (bound: one of them, the others get all of it).  The next client
\* that connects starts a new server.
Cuts(q) ==
  IF link[q] # "up" THEN {inbox[q]}
  ELSE UNION {LET whole == SubSeq(inbox[q], 1, n)
                  next == IF n < Len(inbox[q]) THEN inbox[q][n + 1] ELSE Msg("junk", q)
              IN  {whole, Append(whole, [next EXCEPT !.whole = FALSE])} : n \in 0..Len(inbox[q])}
ServerCrash ==
  /\ crashes < MaxCrashes
  /\ crashes' = crashes + 1
  /\ link' = [q \in Clients |-> IF link[q] = "up" THEN "down" ELSE link[q]]
  /\ sent' = [q \in Clients |-> <<>>]
  /\ \E q \in Clients : \E cut \in Cuts(q) : inbox' = [inbox EXCEPT ![q] = cut]
  /\ announced' = FALSE
  /\ UNCHANGED <<ctxVars, focusVars, im_uim_fd, table, read_buf, fails, userVars, shown, stray, opens>>

\* The application opens a file (bound: while there is no connection; at other
\* times the file gets a number the helper connection does not have).
AppOpens(p) ==
  /\ opens[p] < MaxOpens[p] /\ im_uim_fd[p] = -1 /\ HasFree(p)
  /\ opens' = [opens EXCEPT ![p] = @ + 1]
  /\ table' = [table EXCEPT ![p][lowest_free(p)] = "other"]
  /\ UNCHANGED <<ctxVars, focusVars, im_uim_fd, link, read_buf, fails, wireVars, userVars, faultVars,
                 shown, stray>>

LowestFd == CHOOSE d \in Fds : \A e \in Fds : d <= e

\* Every process has made its first context, and that connected to the server.
Init ==
  /\ life = [c \in Contexts |-> IF c = First[Owner[c]] THEN "live" ELSE "unborn"]
  /\ uim_fd = [c \in Contexts |-> IF c = First[Owner[c]] THEN LowestFd ELSE -1]
  /\ focused_context = [p \in Procs |-> NoContext]
  /\ disable_focused_context = [p \in Procs |-> FALSE]
  /\ im_uim_fd = [p \in Procs |-> LowestFd]
  /\ table = [p \in Procs |-> [d \in Fds |-> IF d = LowestFd THEN "helper" ELSE "none"]]
  /\ link = [q \in Clients |-> "up"]
  /\ read_buf = [q \in Clients |-> <<>>]
  /\ sent = [q \in Clients |-> <<>>] /\ inbox = [q \in Clients |-> <<>>]
  /\ events = [p \in Procs |-> <<>>]
  /\ xfocus = NoContext /\ shown = Toolbar
  /\ hasty = FALSE /\ announced = TRUE /\ stray = FALSE
  /\ acts = 0 /\ crashes = 0 /\ opens = [p \in Procs |-> 0] /\ fails = 0

Next ==
  \/ \E c \in Contexts : im_module_create(c) \/ im_uim_finalize(c) \/ UserFocus(c)
  \/ \E p \in Procs : \/ im_uim_focus_in(p) \/ im_uim_focus_out(p) \/ helper_read_cb(p)
                      \/ AppOpens(p)
  \/ \E q \in Clients : Reflect(q)
  \/ toolbar_read_cb \/ ToolbarPopup \/ ToolbarClick \/ ServerCrash

Fairness ==
  /\ \A p \in Procs : WF_vars(im_uim_focus_in(p)) /\ WF_vars(im_uim_focus_out(p)) /\ WF_vars(helper_read_cb(p))
  /\ \A q \in Clients : WF_vars(Reflect(q))
  /\ WF_vars(toolbar_read_cb)

Spec == Init /\ [][Next]_vars /\ Fairness

-----------------------------------------------------------------------------
(* Properties. *)

Message == [kind : {"focus_in", "get", "update", "junk"}, from : Clients, whole : BOOLEAN]
FocusEvent == [kind : {"in", "out"}, ctx : Contexts]

TypeOK ==
  /\ life \in [Contexts -> {"unborn", "live", "gone"}]
  /\ uim_fd \in [Contexts -> Fds \cup {-1}]
  /\ focused_context \in [Procs -> Contexts \cup {NoContext}]
  /\ disable_focused_context \in [Procs -> BOOLEAN]
  /\ im_uim_fd \in [Procs -> Fds \cup {-1}]
  /\ table \in [Procs -> [Fds -> {"none", "helper", "other"}]]
  /\ link \in [Clients -> {"none", "up", "down"}]
  /\ {sent, inbox, read_buf} \subseteq [Clients -> Seq(Message)]
  /\ events \in [Procs -> Seq(FocusEvent)]
  /\ xfocus \in Contexts \cup {NoContext} /\ shown \in Clients
  /\ {hasty, announced, stray} \subseteq BOOLEAN
  /\ {acts, crashes, fails} \subseteq Nat /\ opens \in [Procs -> Nat]
  /\ \A p \in Procs : \A d \in Fds : table[p][d] = "helper" <=> d = im_uim_fd[p]
  /\ \A p \in Procs : im_uim_fd[p] = -1 <=> link[p] = "none"

\* A pointer to a finalized context is never used.
FocusedIsLive == \A p \in Procs : focused_context[p] # NoContext => focused_context[p] \in Live

\* When everything has settled at most one process answers the toolbar,
\* however focus changes of several processes crossed: the simulated unicast
\* of doc/HELPER-PROTOCOL.  It takes that the last focus_in was heard.
OneAnswers == Quiet /\ announced => Cardinality({p \in Procs : active(p)}) <= 1

\* And if the user waited for things to settle, it is the process he focused,
\* and the toolbar shows its properties: also after a server crash, from the
\* first focus change on that everybody hears.
FocusedAnswers ==
  Quiet /\ announced /\ ~hasty /\ xfocus # NoContext =>
    active(Owner[xfocus]) /\ shown = Owner[xfocus]

\* Text for the helper goes into another file of the application only when a
\* second context of a process has connected again, which leaves the first with
\* the old descriptor, or when connecting again has failed.
StrayTakesTwo ==
  stray => \/ fails > 0
           \/ \E c, d \in Contexts : /\ c # d /\ Owner[c] = Owner[d]
                                     /\ life[c] # "unborn" /\ life[d] # "unborn"

\* The protocol never answers an answer: all that is under way is worked off.
Settles == <>[]Quiet

=============================================================================
