# uim in TLA+

TLA+ models, TLC configurations and TLAPS proofs about uim, the multilingual
input method framework in `src/`.

uim is a library (libuim, C and Scheme) linked into every application that
takes text input, and a set of processes around it: toolbars, switchers, a
preference tool, candidate windows. What is hard in it is not the typing but
what those processes share: one message reflector per session, one socket
path, one set of preference files, one personal dictionary, and inside each
process one error guard and one focused context. That is what is modelled.

## Inventory

| Component | State | Operations | Interacts with | Hard behaviour | What makes it correct |
|---|---|---|---|---|---|
| `uim/uim-helper-server.c`, the reflector | slots (`fd`, `rbuf`, `wbuf`), `s_fdset_read`, `s_fdset_write`, `s_max_fd`, `nr_client_slots` | accept, read a fragment, distribute, write, close, session check | all clients through UNIX sockets | partial reads and writes, clients that die at any moment, EPIPE, descriptor reuse, running out of descriptors | the tables agree, messages stay whole and in order, every peer gets them, the process ends with the session |
| `uim/uim-helper-client.c`, `uim/uim-helper.c`, the client side | `uim_fd`, `uim_read_buf`, `uim_disconnect_cb` | init, close, send, read, get message | the reflector, which it starts; the application's main loop | two clients starting a server at once, a server ending while a client connects, stale socket files, reconnection | every init returns, clients meet at one server, no half message survives a reconnection |
| `uim/uim-error.c`, `UIM_CATCH_ERROR_*` | `guarded`, `fatal_errored`, the jump target | BEGIN, END, throw, fatal error, init, quit | every API function of libuim | nesting through callbacks, early returns, re-initialisation | the counter is exact, an error lands in a live frame, a fatal one disables libuim |
| `gtk2/immodule/gtk-im-uim.c`, focus | `focused_context`, `disable_focused_context`, `im_uim_fd`, the contexts' `uim_fd` | focus in and out, handling of helper messages, reconnection | the reflector, toolbars, other applications | focus messages of several processes crossing, the connection lost between two of them | at most one process answers the toolbar, and one does once focus settles |
| `uim/uim.c`, `scm/im.scm`, contexts | `context-list`, `im-list`, each context's IM and toggle state | create, release, switch, toggle, next IM | engines, widgets, properties | switching from inside a key handler, toggling after a switch | the context object survives a switch, the primary IM comes back |
| `uim/uim-custom.c`, `scm/custom.scm`, `scm/custom-rt.scm` | custom values, files `custom-*.scm`, modification times | set, save, broadcast, reload | all processes, through files and messages | concurrent saves, reload racing a save, a request sent on a connection about to close | files are never half written, every process converges to the last save |
| `uim/skk.c`, the personal dictionary | cached lines, `cache_modified`, `personal_dic_timestamp`, the file and its lock | look up, learn, purge, merge, save | other SKK processes through the file | merging before locking, second-resolution times | no learnt word is lost |
| `uim/uim-ipc.c`, commands over pipes | pid and two streams per command | open, send | helper commands such as prime and the candidate window | the command dying within a request | an answer belongs to its request |
| `uim/counted-init.c` | `uim_init_count` | counted init and quit | plugins that share libuim | several users in one process | libuim is initialised while somebody uses it |
| engines, `rk`, keys, GUIs, XIM, fep, Emacs, plugins, SigScheme | | | | sequential tables, drawing, vendored code | not modelled, see below |

Components interact in four ways: calls into libuim guarded by the error guard;
callbacks out of it (property and candidate callbacks), from which the
application may call in again; messages through the reflector, which sends
each one to everybody but its sender; and files in the user's directory.

`PROJECT.json` lists the hazards of this code line by line, each with the
properties that would catch it or the reason why none does.

## Plan

All modules of the first plan are written but two. The order was by how much
of the system goes through a component.

1. `HelperBus`, `HelperServer`: the reflector, its abstract specification, the
   refinement. Everything else talks through it. *Done.*
2. `HelperStartup`: how clients find or start the reflector. *Done.*
3. `ErrorGuard`: the guard around every API call. *Done.*
4. `SkkCandArray`, `SkkDict`: the personal dictionary shared by several
   contexts and processes. *Done.*
5. `ImContext`: contexts, switching and toggling of input methods, and the
   toolbar widgets that come back with them. *Done.*
6. `FocusProtocol`: several processes and a toolbar over `HelperBus`'s
   promise, with reconnection and the client's read buffer. *Done.*
7. `Custom`: setting, saving, broadcasting and reloading of preferences. *Done.*
8. Left out after all: `IpcCommand` and counted initialisation, see "Not
   modelled".

Proofs: every safety property the passing runs check, and the refinement of
`HelperBus`, is a theorem now; see "Proofs". Left to model checking is liveness.

## Modules

### HelperBus

The abstract specification: reliable broadcast among the connected clients. A
batch of one sender's messages is appended to the inbox of every other member
in one step. From this follow common order, no duplicates, no echo, no torn
messages. A member that leaves may lose the end of its inbox.

### HelperServer

The `select()` loop of `uim-helper-server.c` in full, with the kernel's
sockets and the clients' ends of them.

- State. `fd`, `rbuf`, `wbuf` are the fields of `clients[]`, one entry per
  slot; `s_fdset_read`, `s_fdset_write`, `s_max_fd`, `nr_client_slots` the
  globals; `readfds`, `writefds` the answer of `select()`, less what the pass
  has served; `sent` how far the running `write_message` has come. `conn` is
  the server's descriptor table, `backlog` the queue of `listen()`, `toClient`
  the socket buffers. The bytes from client `c` that are in its socket are the
  pieces `taken[c] + 1 .. submitted[c]`.
- Data. A message is `Frags` pieces, the last with the terminator; `read()`
  and `write()` move pieces, so both may stop anywhere in a message.
- Actions. `Select`, then `Accept` or `AcceptFails`, or a pass over the slots
  in order: for each ready slot `WriteAccepted` as often as the socket takes
  something, ended by an empty buffer, `WriteAgain` (EAGAIN), `WriteEpipe`, or
  `WriteEpipeAfterPartialWrite`; then `ReadFragment` or `ReadEof`. `NextPass`
  and `Exit` are the session check. Every `write()` and `read()` is a step of
  its own because clients act in between: `Connect`, `Send`, `Receive`,
  `Leave`. `Leave` is also the death of a client, possible in the middle of a
  message and before it was accepted.
- A pass that accepts serves nobody (the `else` in line 354), and a failing
  `accept()` skips even the session check (line 352).
- The kernel hands out the lowest free descriptor. The server closes its
  standard output before the loop, so one client can get a descriptor below
  the listening socket: `ClientFds` contains 1, the listening socket is 3.
  That is what makes the decrement of `s_max_fd` interesting.

### HelperStartup

`uim_helper_init_client_fd` in several processes against `main` and
`init_server_fd` in several server processes. The socket's path name is the
shared state. Every system call is a step: `connect`, spawn, waiting for the
empty line, the second `connect`; `unlink`, `bind`, `listen`, the
announcement. The loop of a running server is cut down to accepting, noticing
departures and ending. `overlap` is a history variable: it separates what
holds when calls do not overlap from what holds always.

### ErrorGuard

`stack` holds the API calls in progress, `target` the depth of the live call
that called `setjmp()` last. Calls nest through callbacks; `Leave` is a call
that reaches its END, `LeaveGuarded` one that returns without (the early
returns of the two helper functions, and `uim_quit`), `Throw` an error or a
fatal one. `leaks` counts guards left behind since the last `uim_init`.

### SkkCandArray and SkkDict

`SkkCandArray` has no state: it is the array of candidates of one dictionary
entry with every operation `skk.c` has on it, one operator per C function. An
entry of the dictionary has `cands`, of which the first `real` are the user's
own; the others are copies from the system dictionary. One of the user's own
may be a list of words to ignore. `merge_real_candidate_array` is modelled with
its fault: it counts the candidates before the loop and then removes some, so
later turns look behind the end of the array (`stale` is what freed memory may
compare to) and may append to a candidate that is no list (`Broken`). A word is
a sequence of the words people chose: of one, and of more when such a mistake
has run texts into each other.

`SkkDict` is the life of the dictionary. `line`, `cache_modified` and
`personal_dic_timestamp` are the fields of `dic_info`, `file`, `mtime`, `tmp`
and `lock` the file system. A context has a `mode`, `nth`, the index of the
candidate in the preedit, and `window`: whether the candidate window is open,
and `nr-candidates` as it was last counted, which outlives the window. What the
user does in a context is one action each (a process runs one handler at a
time), and a save that follows is five steps, since other processes act in
between: `CheckTimestamp` (`stat`), `Merge`, `Lock`, `Write`, `Replace`, with
`WriteFails` at each point of failure and `Crash` anywhere. Uninitialised memory
is a choice: `garbage` for the flag `cache_modified` of a fresh `dic_info`. One
entry stands for the dictionary: lines are independent of each other in every
function modelled.

`Style`, `UseWindow`, `OpCount` and `PageSize` are the custom variables
`skk-candidate-selection-style`, `skk-use-candidate-window?`,
`skk-candidate-op-count` and `skk-nr-candidate-max`, as each process has them.
`NextCandidate` and `PreviousCandidate` go by one, round to the last candidate
(uim style), by pages, or out of the window (ddskk-like). Turning a page is answered by the toolkit,
outside `src/uim` and `src/scm`: `ShiftPage` lets it select any index the window
lists, or none yet, and `SelectCandidate` is its call of
`skk-set-candidate-index-handler`, by a click or later. Past the last candidate
the editor of recursive learning opens (the custom that switches it off is left
at its default), and `CancelEditor` goes back to the last candidate counted, or
to kanji if they never were. `skk_commit_by_label_key` takes any index on the
page of the selected candidate; how many labels there are is left out. `shown`
and `listed` are history: what the preedit and the window display. `listed`
turns empty when somebody else changes the entry, as `touched` turns true.

The conversion of a child context inside the editor is that of another context
of the process. Left out are an `OpCount` of 0 in the ddskk-like style, where
the window would begin at index -1, and a `PageSize` of 0, which the range of
the custom excludes.

### ImContext

`ctx[u]` is the Scheme context behind `uim_context` `u`: its input method, the
engine's state, the input mode, whether its widgets were made and whether the
switcher button is among them, and the toggle state. The entry points are actions: create,
release, the three kinds of key, `uim_switch_im`, `uim_prop_activate`, and the
settings with hooks that reach into contexts (`SetAltIm`, `SetButton`,
`SetEnabledList`). `context_update_widget_states` pairs widgets with saved
states by position and skips the first if the button is on, as the Scheme code
does; `context_refresh_switcher_widget` puts a widget among the saved states, as
it does too. `chosen` and `away` are history variables.

Errors end a Scheme call where they are raised and leave what it did before.
Wherever an engine's init handler runs it may raise one: the old engine is
released by then and the context stays as it was (`SwitchFails`). One in
`setup-context` comes after the switch: the context is the new engine's, but its
widgets are still symbols (`Unmade`), so that from then on whatever reads them
raises an error as well; it never switches or toggles again, and a loop over
`context-list` ends at it (`Reached`). If that happens while a context is
created, or if such a context is released, it stays in `context-list` without a
`uim_context` (`stray`). A toggle can also end between the switch and
`context-set-toggle-state!` (`CutShort`): a saved action may raise an error, and
the widget object a refresh has left among them always does (`UpdateRaises`).
What is reported to the application once the widgets are made is taken not to
raise errors.

### FocusProtocol

The GTK immodule in several processes, with the toolbar. `focused_context`,
`disable_focused_context` and `im_uim_fd` are the globals of
`gtk-im-uim.c`, `uim_fd` the descriptor each context keeps, `table` what the
numbers mean at the moment. `sent` and `inbox` are the two directions of a
connection; `Reflect` is `HelperBus`'s `Publish`. `events` are focus changes the
toolkit has queued: they are delivered to each process independently, and that
is how `focus_in` messages cross. `ServerCrash` cuts all connections, at any
byte, and may leave half a message in `uim_read_buf`, which the next message
is then glued to. Only what a receiver has a use for is put into its inbox.

`announced` says that the last `focus_in` was heard by everybody it is meant
for, `hasty` that the user acted before the previous action had settled: the
properties say exactly what these two cost.

### Custom

`mem[p]` are the values in process `p`, `file[g]` the file of group `g`. The
actions are the code's: load group by group, set a value, save group by group
in three steps each (open the temporary file, write it, rename it; each may
fail), send the reload notice, handle it. A value is the number of the edit
that made it, so that the properties can tell which edit survived. The
preference tool and the switcher do not listen; `SwitchIm` is the toolbar's
and the switcher's way of changing the default input method: a message to the
applications and a save of the whole group `global`, without a notice.

`outbox[p]` is what `p` has written to its connection and the reflector has not
read: `uim_helper_send_message` does not wait. `distribute_message` takes the
first message of any sender, so that those of one come in their order and those
of several in any, after the senders have gone on. A switch sent and saved
before a reload notice may so be handed out after it, and the application ends
with the switched value whatever the preference tool has put into the file;
`noticed` excepts the group then. A tool that exits leaves some of what it sent
to be read, or all (see `HelperServerLost`). Bounds beside the counters: a
process is started again only when the reflector has read all its namesake sent.

### MC modules

`MCHelperServer` says who sends how much in the small instances of
`HelperServer`; `MCSkkDict`, `MCImContext`, `MCFocusProtocol` and `MCCustom`
define the functions and sequences a `.cfg` cannot write.

### Proof modules

`X_proofs` holds the theorems about module `X`. `FoldLemmas` holds what several
of them need: a nonempty set of naturals has a least element, hence a property
of 0 that passes from each number to the next holds up to any number (`UpTo`),
and a fold over a sequence is the end of a walk that takes one item per step
(`Folded`, `FoldSteps`).

## Runs

| Run | Shows | Bounds | Distinct states |
|---|---|---|---|
| `HelperServer` | types, agreement of the tables, no stranded write, no torn message, and that the loop implements `HelperBus` | 3 clients sending 2, 1 and 0 messages of 2 pieces; descriptors 1 and 4; sockets of 3 pieces; reads of 3 | 216,065 |
| `HelperServerLive` | a message reaches every peer that stays, departures are noticed, the process ends after the last logout | 3 clients, 3 descriptors, one message, sockets of 1 piece | 26,559 |
| `HelperServerLost` | *violation*: a message sent whole is dropped | as `HelperServer` | |
| `HelperServerCrash` | *violation*: the server faults | as `HelperServer` | |
| `HelperStartup` | all clients served at once have one server and no call fails if calls do not overlap; no accepted client is abandoned; every call returns; every connection is accepted unless its server dies | 2 clients, 2 calls each, so up to 4 servers | 78,933 |
| `HelperStartupSplit` | *violation*: two servers at once | as `HelperStartup` | |
| `ErrorGuard` | the counter is exact, the outermost call catches, fatal errors disable | nesting depth 4, 3 guards left behind | 527 |
| `ErrorGuardLeak` | *violation*: a jump into a dead frame | as `ErrorGuard` | |
| `SkkDict` | the file is whole; the lock is held by a writer; saved arrays are sound; what is unsaved is marked; words drop from the file only in three races or when ignored; merging keeps one's own words; a commit, by key or by label, is what was shown | 2 processes, 3 contexts, one entry of up to 4 words, 4 starts, new contexts and conversions, 2 seconds; windows that open at the second candidate: ddskk-like in one process, pages of one, uim style in the other, pages of two | 616,194 |
| `ImContext` | the primary input method is the chosen one, the switcher is first, the switch key reaches all, toggling back restores | 1 context, 2 engines and direct input, 2 modes, 2 lists of enabled ones | 63,612 |
| `FocusProtocol` | once settled one process answers, the focused one if the user waited; no pointer to a dead context; stray text only as stated; everything settles | 2 processes, 3 contexts, a toolbar, 2 user actions, 1 crash, 1 failed connection, 2 descriptors | 612,972 |
| `Custom` | files are whole, edits are undone only by a tool that is behind, listeners end with what the files have | 2 applications, toolbar, switcher, preference tool; one application running and 2 starts of any others; 2 groups of one variable; 2 edits, 2 failures | 1,509,741 |

Why the bounds are enough. Three clients make a sender, a receiver and a third
whose messages or departure interfere; with two descriptors a slot and a
descriptor get reused and `accept()` fails; a socket of three pieces and
messages of two make every partial read and write happen, a sender's second
message separates order from delivery. In the liveness instance sockets of one
piece make every write partial. Two clients with two calls each are enough for
two servers that race and for a server that replaces a dead one.

In `SkkDict`, a race takes two processes, a stale index two contexts of one
process, and all other cases of a merge come from the two initial files (none,
and one with an ignored word between others): a word known to both sides, to
one only, ignored by one, ignored and kept. Two seconds make saves in the same
and in different ones. Four starts and conversions let each process open the
dictionary and either convert twice in one or once in each. Three candidates in
use and pages of one or two make the window open, turn pages both ways, be left
from its first page and be run past at its end, with the editor cancelled both
before and after candidates were counted. Only steps back by one before the
window opens are left to the proof: there the first candidate comes just before
the window.

Contexts of `ImContext` share nothing but settings and `context-list`, which is
why the run has one; the theorems hold for any number. Two engines beside direct
input make "the other one" and "a third".

`FocusProtocol`: crossing needs two processes, stray text two contexts of one
process, a descriptor that is closed and reused two numbers. With two user
actions the first may be under way or settled when the second comes.

`Custom`: two edits by two tools are what one may undo; with two starts a tool
can be started again behind another's save, or a second tool and a second
application run beside the first; two failures may hit a save, a message or the
server. An instance in which the toolbar runs from the start, so that four
processes act, with one failure, was checked as well: 5,758,032 states, no
violation.

Fairness. `HelperServer`: weak fairness of the server's step as a whole, since
it is one process in a loop that is runnable whenever `select()` has an answer,
and of each client's reading, since its main loop watches the descriptor.
Clients need not send, connect or leave. `HelperStartup`: weak fairness of each
call once begun and of each server process. `FocusProtocol`: weak fairness of
what a main loop does by itself, delivering focus events and reading the
helper's descriptor, in each process, and of the server; not of users, crashes,
nor of anybody's connecting again. The other modules claim no liveness and
state no fairness.

Deadlock is checked for `HelperServer`, `HelperStartup`, `ErrorGuard` and
`ImContext`; where a system really ends, an explicit step (`Finished`, `Quiet`,
`Over`) says so. `SkkDict`, `FocusProtocol` and `Custom` really stop when their
bounds are used up and everything has settled, so their runs do not check it;
that nothing is stuck half-way is what `LockHolderWrites` and `Settles` are for.

### What the violations show

- `HelperServerLost`. A pass writes to a client before it reads from it, and
  on EPIPE the client is closed with whatever it has sent and the server has
  not read. `uim_custom_broadcast_reload_request` sends and closes at once, so
  its request is lost when the reflector happens to have something for it.
  `doc/HELPER-PROTOCOL:31` promises delivery to all participants.
- `HelperServerCrash`. A partial write, then EPIPE: `close_client` has already
  replaced the buffer by an empty one when line 306 shifts it by the bytes
  written; the length given to `memmove` is negative.
- `HelperStartupSplit`. `main` unlinks the path without asking whether
  somebody listens there. `doc/HELPER-PROTOCOL:8` promises one star.
- `ErrorGuardLeak`. `uim_helper_send_message` with `fd < 0`, which its own
  comment calls ordinary, returns without END. From then on `guarded` never
  gets back to zero, no call sets a jump target, and the next error jumps to
  a function that has returned. `uim_init` is what repairs the counter.

Two things the runs showed that no document speaks of. With fewer descriptors
than clients `DeparturesNoticed` fails: a pass whose `accept()` fails serves
nobody, so no descriptor is ever freed and the loop spins. And the second
server of a race stays in `select()` for ever if nobody ever connects to it.

### What the passing runs found out about the code

Several properties hold only in the form given, because the code leaves
something open. What is excepted in each was found by TLC, and each exception
can happen.

- SKK. What is saved has no candidate twice (`SavedPartsSound`), but for one
  case the attempt to prove it turned up: a merge that appends to a candidate
  by mistake may make the same garbled text out of two different pairs. Two
  lists of ignored words never arise.
- SKK. A word another process has saved is dropped from the file in three
  ways (`WordsDropOnlyByRaceOrPurge`): the file is merged before the lock is
  taken; its time is compared in whole seconds; and a merge that removes words
  from the cached array goes on with indices counted before, which may also
  damage a neighbour. The first candidate of an entry never used before is
  committed without marking the cache (`UnsavedIsMarked`). A context commits
  by index, and so does a label of its window: another context's commit or a
  merge can put a different word there (`CommitsWhatWasShown`). Errors while
  saving are silent and leave `<file>.tmp` behind.
- Switching. An input method whose init handler fails leaves the context with
  the old engine's released object. A state saved with the switcher does not fit
  when the button is off (`ToggleBackRestores`). A toggle that an error cuts
  short has switched already and remembers nothing, so that the user's choice is
  forgotten (`PrimaryIsChosen`). One way to that needs no faulty engine: toggle
  with the button off, switch the button on and off again, and toggle back. The
  refresh has put the switcher's widget in front of the saved action ids, nothing
  skips it any more, and `widget-activate!` takes it for an action and its
  context for the handler. One context without widgets in `context-list`
  keeps others from getting the switcher (`SwitcherFirst`).
- Focus. When messages cross, for a while two processes are active, or none;
  it settles on one, which is the focused one if the user waited. A crash of
  the server leaves the state as it was until the next focus change that
  everybody hears. A process with two contexts, or one whose reconnection
  failed, can write `focus_in` and `focus_out` into another file.
- Customisation. The preference tool and the switcher write whole groups from
  what they loaded when they started and undo what others saved since
  (`EditsLostOnlyBehind`). An application between loading its files and
  connecting to the helper misses a notice, and stays without it; and a switch
  that is handed out after a notice it was sent before leaves the application
  with another value than the file (`ListenersHaveFiles`).
  The tool's "changed" mark is taken away also when the save failed.

No document or comment says otherwise, so no run expects a violation there.

## Proofs

`HelperServer_proofs` proves `TypeOK`, `FdTables`, `PendingWritesArmed`,
`NoTornMessage` and `ImplementsBus` for every set of clients, finite set of
descriptors, message size, buffer size and quota that satisfies `FdAssumption`
and `SizeAssumption`. The first three are not inductive: whether an emptied
write buffer may leave the write set depends on the pass under way. The
inductive invariant `IInv` adds

- `AcceptPending`: `accept()` is only called while a connection is queued;
- `SnapshotArmed`: `select()`'s answer names no live descriptor that has left
  the write set since;
- `PartialWrite`: a half-written buffer belongs to the slot whose turn it is,
  and has something left.

The argument that is not bookkeeping is `UnusedSlotFacts`: while a descriptor
is free the slots in use inject into the other descriptors, so
`get_unused_client` never needs more slots than there are descriptors; and
`CloseIInv`: decrementing `s_max_fd` is right because the descriptor that goes
was the greatest, though the next one need not be open.

The streams need two facts more. `Ownership` says that a connection is held by
one slot or queued once, or neither, and that the server's part of a message it
has not read to its end is the end of what it has taken from that client. Then
each of the loop's steps, the two ways of closing included, has one of five
effects on the streams, whatever pieces it moves between which buffers
(`StreamStep`): none, a client joins, one departs, all depart, or a read
completes some messages, which go to the streams of all others. From these five
alone follow the framing of the streams (`StreamsStayFramed`) and that every
step is a step of `HelperBus` or a stutter (`ReflectorIsReliableBroadcast`).

`ErrorGuard_proofs` proves every invariant of `ErrorGuard` and `FatalDisables`
for every nesting depth and number of guards left behind. The invariants are
inductive together.

`HelperStartup_proofs` proves the three safety properties of `HelperStartup`.
`AcceptedNotAbandoned` follows from `History`, which holds in every behaviour:
a server's connections are the latest ones of their clients, or closed. That
servers are shared needs `Serial`, which holds until two calls overlap: there
is one call and one server, the path leads to it from `bind()` on, and the call
waits for the very server it started.

`FocusProtocol_proofs` proves all its safety properties for all processes,
contexts and descriptors. `FocusedIsLive` needs that the queued focus events
and the user's focus name live contexts of the right process, since
`focused_context` comes from there. `StrayTakesTwo` needs `FdsAgree`: as long as
no process has had a second context and no connection has failed, the descriptor
a context keeps is the process's own whenever that is connected. `TypeOK` needs
`Wires`: only a broken connection ends in half a message. `OneAnswers` is a
consequence of `One`: once a `focus_in` is announced there is a process such
that everybody else who may believe himself focused has been told, or has its
`focus_in` before him, on a connection that nothing can keep from being read.
`FocusedAnswers` adds `Calm`, for a user who waits: either one focus event is
under way and no message, or the process the user moved to has been heard, the
last answer the toolbar will see is its own, and whoever has not yet read its
`focus_in` has no request to answer before it. A message handler goes through
all of its inbox at once, a fold; `FoldLemmas` takes it apart.

The attempt to prove `FocusedAnswers` showed that `Announces` has to ask the
process itself, too, to have no half message in its `uim_read_buf`: with three
user actions instead of two TLC finds the case, in which the text glued
together passes for an older `focus_in`.

`Custom_proofs` proves `TypeOK`, which says that no file is ever half written
and holds its own group's variables, `EditsLostOnlyBehind` and
`ListenersHaveFiles`. The argument for the second is `Values`: a tool that has
loaded a group and is not behind has in memory what was saved last, but for its
user's own edits; writing the whole group therefore changes nothing else. It
has to be known of loading, editing and saving tools alike, group by group. The
third says something of the end only; `Delivery` says it of any time: what a
listener has not got yet, it is loading, or a notice for it is among its
messages, and no message to switch the input method is behind the last notice.
It speaks of what has been handed out: what senders' queues still hold is about
groups that will be excepted, or is a notice to come.

`SkkDict_proofs` proves every property of `SkkDict`, for any number of
processes, contexts and words, any system dictionary and any sound file, in
three steps.

- The lock: `LockHolderWrites` and `RenamesOwnFile` are inductive together
  (`IInv`), as only the lock's holder touches the temporary file.
- The array: each operator of `SkkCandArray` keeps an array fit (`Fit`: the
  ignore list is in the real part and there is one at most, and no candidate is
  twice in the real part but garbled ones), and what it does with words. The
  merge is a fold of folds. That it keeps arrays fit has to hold in spite of its
  fault, after the array has shrunk; what it keeps (`Gains`) holds only if it
  does not shrink (`Shrinks`), and then candidates stay where they were
  (`Steady`), so that the indices counted before the loop are right.
- The state (`DInv`): besides types, for each process that its entry is fit,
  that it has every word of a file it takes account of, in use or ignored,
  unless a merge shrank it (`Known`), that the cache is marked if it differs
  (`Marked`), and that a saver that does not take account of the file was
  overtaken in one of two ways; for each context that it shows what its index
  finds and its window lists what the indices find, unless somebody else changed
  the entry. All keys of a conversion have the same shape
  (`Converts`), and so do all ends of a save (`Returns`, `Forgets`).

`ImContext_proofs` proves every invariant of `ImContext` and
`ToggleBackRestores` for all contexts and input methods. The inductive
invariant says of each context what its toggle state holds after a toggle: the
input method that was left and the states of its widgets, the very ones
`context_update_widget_states` will pair with the widgets of the new context;
and that a context without widgets has nothing to toggle back to. Which steps
let `SwitcherFirst` stand is the same for all of them (`Keeps`).
`SwitchKeyReachesAll` is a claim about a list alone: going from one to the
next in a list that repeats nothing comes to each (`Around`). It assumes
`NoRepetition`, that the lists of enabled input methods name each one once, as
the preference tool, which moves names between two lists, sees to.

Every proof assumes only the named assumptions on the constants
(`FdAssumption`, `SizeAssumption`, `StartupAssumption`, `NoServerAssumption`,
`BoundAssumption`, `FocusAssumption`, `CustomAssumption`, `MasterAssumption`,
`OwnerAssumption`, `DictAssumption`, `WindowAssumption`, `ImAssumption`,
`NothingAssumption`), which TLC evaluates in the runs, and `SwitchKeyReaches`
its hypothesis.
`DictAssumption` says of the files a session may start with that they are sound:
what a user's editor puts there is not the program's doing.

Induction. The provers cannot instantiate the library's induction theorems,
whose parameter is an operator. Where a proof goes along a sequence it takes the
set of positions up to which a fact holds and shows that there is no least one
outside; the functions such a proof walks along are defined by it or by the
folds of the community modules.

Only model-checked, since it is out of the prover's reach: liveness under
fairness, which is the properties of `HelperServerLive`, `InitReturns` and
`EventuallyAccepted` of `HelperStartup`, and `Settles` of `FocusProtocol`. The
modules declare no RECURSIVE operator, so that they can be proved about.

## Not modelled, and why

- Failures of `fcntl()`, `socket()` and of memory in the reflector; credential
  checks of the sockets; the NetBSD byte. They end a step early and change no
  table the properties speak of.
- An interrupted `select()`: the loop sleeps and tries again with the same
  state.
- Descriptors beyond `FD_SETSIZE`.
- Errors of `write()` other than EAGAIN and EPIPE: `write_message` treats them
  as EAGAIN, the step `WriteAgain`.
- In `HelperStartup`, the crash that `HelperServerCrash` shows: there a server
  ends only by its session check, or because its socket could not be set up.
- In `HelperStartup`, a failing `fork()` or a missing server binary: the call
  fails without touching the shared path.
- SKK: a lock file that cannot be opened. `skk.c:3447` does not look at what
  `open_lock` returns, and the save goes on without the lock; what
  `LockHolderWrites` and `FileIsWhole` say presumes that it can.
- SKK: okurigana, numeric conversion, completion, annotations and skkserv.
  They look entries up and change no other state than the entries do. An entry
  with okurigana has several arrays, each with the operations of this one.
- Contexts: preedit, candidates, commits and surrounding text, which are
  callbacks into the application; engine's widgets beyond the input mode.
- The immodule: key events, preedit, candidate window; the other bridges (Qt,
  XIM, fep, Emacs) handle the same helper messages in code of their own.
- Custom variables: types, validity, activity and hooks; errors in a custom
  file that is whole. `uim_custom_save_group` ignores what `fputs` returns
  (`uim-custom.c:1306`), so that on a full disk a file cut short can still be
  renamed when `fclose` succeeds; the model's `WriteTmp` writes all or fails.
- `uim-ipc.c`: what is wrong with half an answer depends on the command, whose
  code is not here. `counted-init.c`: a counter in straight-line code.
- The engines, `rk`, key tables, GUIs: sequential dispatch over large tables,
  or drawing. The vendored interpreter SigScheme. The module manager, which
  only runs at installation.
