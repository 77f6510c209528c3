------------------------------- MODULE Custom -------------------------------
(***************************************************************************)
(* Customisation: how the variables a user sets in one tool reach the      *)
(* other processes (uim/uim-custom.c, scm/custom-rt.scm, and the tools and *)
(* the immodule under gtk2/).  Every process has its own values.  A tool   *)
(* saves by groups: it writes all variables of a group, as it has them in  *)
(* memory, to .custom-GROUP.scm.PID and renames that over custom-GROUP.scm.*)
(* The preference tool then asks everybody to load all files again; the    *)
(* toolbar and the switcher do not, they change the default input method   *)
(* in the other processes by a message of its own.  Only the applications  *)
(* and the toolbar listen.                                                 *)
(*                                                                         *)
(* A value is the number of the edit that made it; 0 is the default.  The  *)
(* helper server reads one sender's messages in their order, those of      *)
(* several in any, some time after they were sent, and hands each to all   *)
(* who are connected then; or it breaks down.                              *)
(***************************************************************************)
EXTENDS Integers, Sequences, FiniteSets, SequencesExt

CONSTANTS
  Apps, Toolbars, Prefs, Switchers,  \* the processes
  Focused,      \* the application that answers the toolbar
  AtStart,      \* listeners that run and are connected from the beginning
  Groups,       \* the primary groups, in the order they are saved and loaded
  Syms,         \* the variables
  GroupOf,      \* the group of each
  DefaultIm,    \* custom-preserved-default-im-name
  MaxEdits, MaxStarts, MaxFails,  \* bounds: values set, processes started, calls that fail
  NoFile, Partial

Listeners == Apps \cup Toolbars
Tools == Toolbars \cup Prefs \cup Switchers
Procs == Apps \cup Tools

ASSUME CustomAssumption ==
  /\ Apps \cap Tools = {} /\ Prefs \cap (Toolbars \cup Switchers) = {}
  /\ Focused \in Apps /\ AtStart \subseteq Listeners
  /\ Groups \in Seq(ToSet(Groups)) /\ IsInjective(Groups) /\ Groups # <<>>
  /\ GroupOf \in [Syms -> ToSet(Groups)] /\ DefaultIm \in Syms
  /\ {MaxEdits, MaxStarts, MaxFails} \subseteq Nat

VARIABLES
  file,      \* custom-GROUP.scm of each group
  tmp,       \* the temporary file of each tool
  pc,        \* "gone", "load", "idle", "reload"; saving: "open", "write", "rename", "notify"
  todo,      \* the groups still to load or to save
  mem,       \* the values of each process
  changed,   \* uim_pref_gtk_value_changed
  connected, \* listeners that have a helper connection
  outbox,    \* what each process has sent and the server has not read yet
  inbox,     \* what the server has for each listener
  edits, starts, fails,
  \* history, read by the properties only
  edited,    \* the variables set in a tool and not in a file yet
  saved,     \* the last edit of each variable that reached its file
  behind,    \* the groups whose file another process wrote since this tool loaded it
  clobbered, \* the groups last written by a tool that was behind
  noticed,   \* the groups neither saved nor switched since the last notice to
             \* reload was handed out, nor named in a switch handed out since
  missed     \* listeners that run, and did not get the last notice

disk == <<file, tmp>>
wire == <<connected, outbox, inbox, noticed, missed>>
bounds == <<edits, starts, fails>>
lost == <<saved, clobbered>>
vars == <<disk, pc, todo, mem, changed, wire, bounds, lost, edited, behind>>

SymsOf(g) == {s \in Syms : GroupOf[s] = g}
Running(p) == pc[p] # "gone"
Fail == fails < MaxFails /\ fails' = fails + 1
Works == UNCHANGED fails

\* A user who has saved nothing yet.
Init ==
  /\ file = [g \in ToSet(Groups) |-> NoFile]
  /\ tmp = [p \in Tools |-> NoFile]
  /\ pc = [p \in Procs |-> IF p \in AtStart THEN "idle" ELSE "gone"]
  /\ todo = [p \in Procs |-> <<>>]
  /\ mem = [p \in Procs |-> [s \in Syms |-> 0]]
  /\ changed = [p \in Prefs |-> FALSE]
  /\ connected = AtStart
  /\ outbox = [p \in Procs |-> <<>>] /\ inbox = [l \in Listeners |-> <<>>]
  /\ edits = 0 /\ starts = 0 /\ fails = 0
  /\ edited = [p \in Tools |-> {}]
  /\ saved = [s \in Syms |-> 0]
  /\ behind = [p \in Tools |-> {}]
  /\ clobbered = {} /\ missed = {}
  /\ noticed = ToSet(Groups)

-----------------------------------------------------------------------------
(* Loading. *)

\* Mutant: the last group is left out.
GroupsToLoadMutant == Front(Groups)

GroupsToLoad == Groups

\* uim_init, which requires the custom files and loads the user's groups.  The
\* new process has a connection of its own (bound: made when the server has read
\* all that its namesake sent).
uim_init(p) ==
  /\ ~Running(p) /\ outbox[p] = <<>> /\ starts < MaxStarts
  /\ starts' = starts + 1
  /\ pc' = [pc EXCEPT ![p] = "load"]
  /\ todo' = [todo EXCEPT ![p] = GroupsToLoad]
  /\ UNCHANGED <<disk, mem, changed, wire, edits, fails, lost, edited, behind>>

\* custom-load-group-conf: a file that is not there changes nothing.
custom_load_group_conf(p) ==
  LET g == Head(todo[p])
  IN  /\ pc[p] \in {"load", "reload"}
      /\ mem' = [mem EXCEPT ![p] = [s \in Syms |->
                   IF GroupOf[s] = g /\ file[g] # NoFile THEN file[g][s] ELSE @[s]]]
      /\ behind' = IF p \in Tools THEN [behind EXCEPT ![p] = @ \ {g}] ELSE behind
      /\ todo' = [todo EXCEPT ![p] = Tail(@)]
      /\ pc' = [pc EXCEPT ![p] = IF Len(todo[p]) = 1 THEN "idle" ELSE @]
      /\ UNCHANGED <<disk, changed, wire, bounds, lost, edited>>

\* The process ends, or is killed: what it had set and not saved is gone.  Of
\* what it had sent the server reads all, or what comes before it writes to the
\* connection and finds it closed.
Exit(p) ==
  /\ Running(p)
  /\ pc' = [pc EXCEPT ![p] = "gone"]
  /\ todo' = [todo EXCEPT ![p] = <<>>]
  /\ mem' = [mem EXCEPT ![p] = [s \in Syms |-> 0]]
  /\ behind' = IF p \in Tools THEN [behind EXCEPT ![p] = {}] ELSE behind
  /\ changed' = IF p \in Prefs THEN [changed EXCEPT ![p] = FALSE] ELSE changed
  /\ edited' = IF p \in Tools THEN [edited EXCEPT ![p] = {}] ELSE edited
  /\ connected' = connected \ {p} /\ missed' = missed \ {p}
  /\ inbox' = IF p \in Listeners THEN [inbox EXCEPT ![p] = <<>>] ELSE inbox
  /\ \E n \in 0..Len(outbox[p]) : outbox' = [outbox EXCEPT ![p] = SubSeq(@, 1, n)]
  /\ UNCHANGED <<disk, bounds, lost, noticed>>

-----------------------------------------------------------------------------
(* Messages. *)

\* uim_helper_send_message writes to the socket of the server and does not wait;
\* a listener without a connection sends nothing.
Sent(p, m) ==
  IF p \in Listeners \ connected THEN outbox ELSE [outbox EXCEPT ![p] = Append(@, m)]

\* Who acts on a message: a prop_activate is for the focused application, an
\* im_change_whole_desktop for the other applications; the preference tool, which
\* asks for the reload, does not listen.
Receivers(p, m) ==
  CASE m.kind = "reload" -> Listeners
    [] m.kind = "activate" -> {Focused}
    [] OTHER -> Apps \ {p}

\* The server reads a message of p and hands it to all others.
distribute_message(p) ==
  LET m == Head(outbox[p])
  IN  /\ outbox[p] # <<>>
      /\ outbox' = [outbox EXCEPT ![p] = Tail(@)]
      /\ inbox' = [l \in Listeners |-> IF l \in Receivers(p, m) \cap connected
                                       THEN Append(inbox[l], m) ELSE inbox[l]]
      /\ IF m.kind = "reload"
         THEN /\ noticed' = ToSet(Groups)
              /\ missed' = {l \in Listeners : Running(l) /\ l \notin connected}
         ELSE noticed' = noticed \ {GroupOf[DefaultIm]} /\ UNCHANGED missed
      /\ UNCHANGED <<disk, pc, todo, mem, changed, connected, bounds, lost, edited, behind>>

\* A listener connects when it has loaded its files, or again later.
uim_helper_init_client_fd(l) ==
  /\ pc[l] = "idle" /\ l \notin connected
  /\ connected' = connected \cup {l}
  /\ UNCHANGED <<disk, pc, todo, mem, changed, outbox, inbox, noticed, missed, bounds, lost, edited, behind>>

\* The server breaks down: what it had not read, or not handed out yet, is lost.
ServerCrash ==
  /\ connected # {} /\ Fail
  /\ connected' = {}
  /\ outbox' = [p \in Procs |-> <<>>]
  /\ \E l \in Listeners : \E n \in 0..Len(inbox[l]) :
       /\ inbox' = [inbox EXCEPT ![l] = SubSeq(@, 1, n)]
       /\ missed' = IF \E k \in (n + 1)..Len(inbox[l]) : inbox[l][k].kind = "reload"
                    THEN missed \cup {l} ELSE missed
  /\ UNCHANGED <<disk, pc, todo, mem, changed, noticed, edits, starts, lost, edited, behind>>

\* Mutant: like other messages, the notice is for the focused application.
HandlesReloadMutant(l) == l \in Toolbars \cup {Focused}

HandlesReload(l) == TRUE

\* parse_helper_str, of the immodule and of the toolbar.  An application that
\* is told to switch passes it on to the others and sets its own value.
parse_helper_str(l) ==
  LET m == Head(inbox[l])
      switches == m.kind # "reload" /\ l \in Apps
  IN  /\ pc[l] = "idle" /\ inbox[l] # <<>>
      /\ inbox' = [inbox EXCEPT ![l] = Tail(@)]
      /\ outbox' = IF m.kind = "activate" THEN Sent(l, [m EXCEPT !.kind = "im_change"]) ELSE outbox
      /\ mem' = IF switches THEN [mem EXCEPT ![l][DefaultIm] = m.im] ELSE mem
      /\ IF m.kind = "reload" /\ HandlesReload(l)
         THEN pc' = [pc EXCEPT ![l] = "reload"] /\ todo' = [todo EXCEPT ![l] = GroupsToLoad]
         ELSE UNCHANGED <<pc, todo>>
      /\ UNCHANGED <<disk, changed, connected, noticed, missed, bounds, lost, edited, behind>>

-----------------------------------------------------------------------------
(* The tools. *)

SetValue(p, s) ==
  /\ pc[p] = "idle" /\ edits < MaxEdits
  /\ edits' = edits + 1
  /\ mem' = [mem EXCEPT ![p][s] = edits + 1]
  /\ edited' = [edited EXCEPT ![p] = @ \cup {s}]
  /\ UNCHANGED <<disk, starts, lost, behind, connected, inbox, missed>>

\* A widget of the preference tool.
custom_set_value(p, s) ==
  /\ SetValue(p, s)
  /\ changed' = [changed EXCEPT ![p] = TRUE]
  /\ UNCHANGED <<pc, todo, fails, outbox, noticed>>

\* apply_button_clicked: all groups are saved, and the mark is taken away
\* whatever comes of that.
apply_button_clicked(p) ==
  /\ pc[p] = "idle" /\ changed[p]
  /\ changed' = [changed EXCEPT ![p] = FALSE]
  /\ pc' = [pc EXCEPT ![p] = "open"]
  /\ todo' = [todo EXCEPT ![p] = Groups]
  /\ UNCHANGED <<disk, mem, wire, bounds, lost, edited, behind>>

\* prop_menu_activate of the toolbar sends prop_activate to the focused
\* application, change_input_method of the switcher im_change_whole_desktop to
\* all; both then save the group of the default input method.
SwitchIm(p) ==
  LET m == [kind |-> IF p \in Toolbars THEN "activate" ELSE "im_change", im |-> edits + 1]
  IN  /\ SetValue(p, DefaultIm)
      /\ \/ Works /\ outbox' = Sent(p, m)
         \/ Fail /\ UNCHANGED outbox
      /\ noticed' = noticed \ {GroupOf[DefaultIm]}
      /\ pc' = [pc EXCEPT ![p] = "open"]
      /\ todo' = [todo EXCEPT ![p] = <<GroupOf[DefaultIm]>>]
      /\ UNCHANGED changed

\* Mutant: the name lacks the process ID.
CustomFilePathMutant(p) == CHOOSE q \in Tools : TRUE

\* The temporary file of custom_file_path.
custom_file_path(p) == p

\* The next group, or the end of the save.
NextGroup(p) ==
  /\ todo' = [todo EXCEPT ![p] = Tail(@)]
  /\ pc' = [pc EXCEPT ![p] = CASE Len(todo[p]) > 1 -> "open"
                               [] Len(todo[p]) = 1 /\ p \in Prefs -> "notify"
                               [] OTHER -> "idle"]

\* uim_custom_save_group in three steps, for the other processes see each.
OpenTmp(p) ==
  /\ pc[p] = "open"
  /\ tmp' = [tmp EXCEPT ![custom_file_path(p)] = Partial]
  /\ pc' = [pc EXCEPT ![p] = "write"]
  /\ UNCHANGED <<file, todo, mem, changed, wire, bounds, lost, edited, behind>>

WriteTmp(p) ==
  /\ pc[p] = "write"
  /\ tmp' = [tmp EXCEPT ![custom_file_path(p)] = [s \in SymsOf(Head(todo[p])) |-> mem[p][s]]]
  /\ pc' = [pc EXCEPT ![p] = "rename"]
  /\ UNCHANGED <<file, todo, mem, changed, wire, bounds, lost, edited, behind>>

Rename(p) ==
  LET g == Head(todo[p])
      mine == edited[p] \cap SymsOf(g)
  IN  /\ pc[p] = "rename" /\ tmp[custom_file_path(p)] # NoFile
      /\ file' = [file EXCEPT ![g] = tmp[custom_file_path(p)]]
      /\ tmp' = [tmp EXCEPT ![custom_file_path(p)] = NoFile]
      /\ NextGroup(p)
      /\ edited' = [edited EXCEPT ![p] = @ \ mine]
      /\ saved' = [s \in Syms |-> IF s \in mine THEN mem[p][s] ELSE saved[s]]
      /\ behind' = [q \in Tools |-> IF q # p /\ Running(q) THEN behind[q] \cup {g} ELSE behind[q]]
      /\ clobbered' = IF g \in behind[p] THEN clobbered \cup {g} ELSE clobbered
      /\ noticed' = noticed \ {g}
      /\ UNCHANGED <<mem, changed, connected, outbox, inbox, missed, bounds>>

\* fopen, fclose or rename fails: the other groups are saved all the same.
SaveFails(p) ==
  /\ pc[p] \in {"open", "write", "rename"}
  /\ Fail
  /\ NextGroup(p)
  /\ UNCHANGED <<disk, mem, changed, wire, edits, starts, lost, edited, behind>>

\* uim_custom_broadcast_reload_request: nobody hears of it when it fails.
uim_custom_broadcast_reload_request(p) ==
  /\ pc[p] = "notify"
  /\ pc' = [pc EXCEPT ![p] = "idle"]
  /\ \/ Works /\ outbox' = Sent(p, [kind |-> "reload"])
     \/ Fail /\ UNCHANGED outbox
  /\ UNCHANGED <<disk, todo, mem, changed, connected, inbox, noticed, missed, edits, starts, lost,
                 edited, behind>>

Save(p) ==
  OpenTmp(p) \/ WriteTmp(p) \/ Rename(p) \/ SaveFails(p) \/ uim_custom_broadcast_reload_request(p)

Next ==
  \/ \E p \in Procs : uim_init(p) \/ custom_load_group_conf(p) \/ Exit(p) \/ distribute_message(p)
  \/ \E l \in Listeners : uim_helper_init_client_fd(l) \/ parse_helper_str(l)
  \/ \E p \in Prefs : apply_button_clicked(p) \/ \E s \in Syms : custom_set_value(p, s)
  \/ \E p \in Toolbars \cup Switchers : SwitchIm(p)
  \/ \E p \in Tools : Save(p)
  \/ ServerCrash

Spec == Init /\ [][Next]_vars

-----------------------------------------------------------------------------
(* Properties. *)

Message == [kind : {"reload"}] \cup [kind : {"activate", "im_change"}, im : 1..MaxEdits]
Content(g) == [SymsOf(g) -> 0..MaxEdits]

\* A custom file is never half written, and holds the variables of its group,
\* whoever saves at the same time ("to avoid write conflict and broken by
\* accident, we write customs to temporary file first").
TypeOK ==
  /\ \A g \in ToSet(Groups) : file[g] \in Content(g) \cup {NoFile}
  /\ \A p \in Tools : tmp[p] \in {NoFile, Partial} \cup UNION {Content(g) : g \in ToSet(Groups)}
  /\ pc \in [Procs -> {"gone", "load", "idle", "reload", "open", "write", "rename", "notify"}]
  /\ todo \in [Procs -> Seq(ToSet(Groups))]
  /\ mem \in [Procs -> [Syms -> 0..MaxEdits]]
  /\ changed \in [Prefs -> BOOLEAN]
  /\ connected \subseteq Listeners
  /\ outbox \in [Procs -> Seq(Message)] /\ inbox \in [Listeners -> Seq(Message)]
  /\ {clobbered, noticed} \subseteq SUBSET ToSet(Groups)

\* A saved edit is undone only by a tool that saves a group it has not loaded
\* since: until then every file holds, for each of its variables, the last edit
\* that was saved, through crashes, failed saves and saves at the same time.
EditsLostOnlyBehind ==
  \A s \in Syms :
    LET g == GroupOf[s]
    IN  file[g] # NoFile /\ g \notin clobbered => file[g][s] = saved[s]

Quiet ==
  /\ \A p \in Procs : pc[p] \in {"gone", "idle"} /\ outbox[p] = <<>>
  /\ \A l \in Listeners : inbox[l] = <<>>

\* When everything is done, a listener has what the files have, however loads,
\* saves and messages crossed; but for a group saved or switched since the last
\* notice was handed out, for that of the default input method when a switch was
\* handed out since, be it sent and saved before, and for the listeners the
\* notice did not reach: those that had loaded their files and not connected
\* yet, or had lost the connection.
ListenersHaveFiles ==
  Quiet => \A l \in Listeners \ missed : \A s \in Syms :
    LET g == GroupOf[s]
    IN  Running(l) /\ g \in noticed /\ file[g] # NoFile => mem[l][s] = file[g][s]
=============================================================================
