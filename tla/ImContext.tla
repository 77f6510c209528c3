----------------------------- MODULE ImContext -----------------------------
(***************************************************************************)
(* Input contexts and the switching of input methods (scm/im.scm,          *)
(* scm/action.scm, scm/im-switcher.scm, uim/uim.c).  Every uim_context has *)
(* one Scheme context; switching releases the engine's object, creates the *)
(* new engine's, and moves it into the old context so that its identity is *)
(* kept.  A toggle remembers the input method it leaves and the states of  *)
(* its toolbar widgets, and the next toggle brings both back.              *)
(*                                                                         *)
(* Data abstraction.  An input method has one widget, its input mode, and  *)
(* the actions of that widget are its modes; with the switcher button on   *)
(* the toolbar there is a widget of one action per input method before it. *)
(***************************************************************************)
EXTENDS Integers, Sequences, FiniteSets, SequencesExt

CONSTANTS
  Ucs,            \* the uim_context objects of the process
  Direct,         \* the input method that is always enabled
  Engines,        \* the other input methods
  Modes, Default, \* the input modes of an engine, and default-widget_*_input_mode
  EnabledLists,   \* values of enabled-im-list the user may set
  DefaultIm,      \* default-im-name
  SkipDirect,     \* switch-im-skip-direct-im?
  NoContext, NoToggle, NoIm

Ims == Engines \cup {Direct}

ASSUME ImAssumption ==
  /\ Direct \notin Engines /\ NoIm \notin Ims
  /\ DefaultIm \in Ims /\ Default \in Modes
  /\ EnabledLists \subseteq Seq(Ims) \ {<<>>}
  /\ SkipDirect \in BOOLEAN

VARIABLES
  ctx,         \* uc->sc: [im, engine, mode, made, switcher, toggle], or NoContext
  stray,       \* context-list holds a context whose widgets were never made, and
               \* which no uim_context leads to
  enabled,     \* enabled-im-list
  im_list,
  registered,  \* widget_im_switcher is in widget-proto-list
  alt,         \* toggle-im-alt-im
  button,      \* toolbar-show-action-based-switcher-button?
  \* history, read by the properties only
  chosen,      \* what the user chose last (a toggle is no choice); NoIm: it is gone
  away         \* what the last toggle left, [im, mode]; NoContext: nothing is to return

vars == <<ctx, stray, enabled, im_list, registered, alt, button, chosen, away>>
config == <<enabled, im_list, registered, alt, button>>

Live == {u \in Ucs : ctx[u] # NoContext}

-----------------------------------------------------------------------------
(* Contexts, widgets and their states. *)

\* An action of a widget, or the widget object that refreshing the switcher puts
\* into a list of actions.
SwitchAct(im) == [kind |-> "imsw", im |-> im, mode |-> Default]
ModeAct(im, mode) == [kind |-> "mode", im |-> im, mode |-> mode]
WidgetItself == [kind |-> "widget", im |-> Direct, mode |-> Default]
Acts == {WidgetItself} \cup {SwitchAct(im) : im \in Ims}
        \cup {ModeAct(im, mode) : im \in Ims, mode \in Modes}

ToggleState == [primary : BOOLEAN, name : Ims, states : Seq(Acts)]
Context ==
  [im : Ims, engine : {"live", "released"}, mode : Modes, made : BOOLEAN, switcher : BOOLEAN,
   toggle : ToggleState \cup {NoToggle}]

ASSUME NothingAssumption == NoToggle \notin ToggleState /\ NoContext \notin Context

\* create-context and setup-context.
NewContext(im) ==
  [im |-> im, engine |-> "live", mode |-> Default, made |-> TRUE, switcher |-> button,
   toggle |-> NoToggle]

\* When setup-context raises an error the widgets are still symbols.  From then on
\* whatever reads them raises one too: every switch, toggle and property.
Unmade(im) == [NewContext(im) EXCEPT !.made = FALSE, !.switcher = FALSE]

ModesOf(im) == IF im = Direct THEN {Default} ELSE Modes

\* find-im: when neither the name nor the default is there, the locale decides.
find_im(name) ==
  CASE name \in im_list -> {name}
    [] name \notin im_list /\ DefaultIm \in im_list -> {DefaultIm}
    [] OTHER -> im_list

\* Mutant: the last enabled input method is taken for the end of the list.
NextImMutant(name) ==
  LET i == SelectInSeq(enabled, LAMBDA x : x = name)
  IN  IF i # 0 /\ i < Len(enabled) - 1 THEN enabled[i + 1] ELSE enabled[1]

next_im(name) ==
  LET i == SelectInSeq(enabled, LAMBDA x : x = name)
  IN  IF i # 0 /\ i < Len(enabled) THEN enabled[i + 1] ELSE enabled[1]
next_im_for_switch_im(name) ==
  IF SkipDirect /\ next_im(name) = Direct THEN next_im(Direct) ELSE next_im(name)

\* Mutant: any remembered toggle counts, also one that has come back.
ContextPrimaryImMutant(c) == c.toggle = NoToggle

context_primary_im(c) == c.toggle = NoToggle \/ ~c.toggle.primary
context_primary_im_name(c) == IF context_primary_im(c) THEN c.im ELSE c.toggle.name

Widgets(c) == IF c.switcher THEN <<"switcher", "input">> ELSE <<"input">>

context_current_widget_states(c) ==
  [k \in DOMAIN Widgets(c) |->
     IF Widgets(c)[k] = "switcher" THEN SwitchAct(c.im) ELSE ModeAct(c.im, c.mode)]

\* widget-activate!: an action of another widget is not found and does nothing.  A
\* widget object is taken for an action, and the context that owns it for the
\* handler: an error.
widget_activate(c, widget, act) ==
  CASE widget = "switcher" /\ act.kind = "imsw" -> NewContext(CHOOSE im \in find_im(act.im) : TRUE)
    [] widget = "input" /\ act.kind = "mode" /\ act.im = c.im -> [c EXCEPT !.mode = act.mode]
    [] OTHER -> c
ActivateRaises(act) == act.kind = "widget"

\* Mutant: the states are not cut by their first, only the widgets are.
UpdateWidgetStatesMutant(c, states) ==
  LET from == IF button THEN 2 ELSE 1
      step(d, k) == IF k \in DOMAIN Widgets(c) /\ k >= from /\ k - from + 1 \in DOMAIN states
                    THEN widget_activate(d, Widgets(c)[k], states[k - from + 1]) ELSE d
  IN  step(step(c, 1), 2)

\* Widgets and states are paired by position, to the end of the shorter list;
\* the switcher button makes im-switcher.scm skip the first of each, which is to
\* be the switcher.
Paired(c, states) == {k \in DOMAIN Widgets(c) \cap DOMAIN states : k # 1 \/ ~button}
context_update_widget_states(c, states) ==
  LET step(d, k) == IF k \in Paired(c, states) THEN widget_activate(d, Widgets(c)[k], states[k]) ELSE d
  IN  step(step(c, 1), 2)
UpdateRaises(c, states) == \E k \in Paired(c, states) : ActivateRaises(states[k])

-----------------------------------------------------------------------------
(* Switching. *)

\* uim-switch-im releases the old engine before it creates the new one.  When
\* the new engine's init handler raises an error the C entry point returns,
\* and the context stays as it was but for its engine.
SwitchFails(u) ==
  /\ ctx' = [ctx EXCEPT ![u].engine = "released"]
  /\ UNCHANGED <<stray, config, chosen, away>>

\* The user's choice: uim_switch_im, the switcher button, the switch key.  An
\* error in setup-context comes after the switch.
im_switch_im(u, name) ==
  /\ ctx[u].made
  /\ \/ /\ \E im \in find_im(name) :
             /\ ctx' \in {[ctx EXCEPT ![u] = NewContext(im)], [ctx EXCEPT ![u] = Unmade(im)]}
             /\ chosen' = [chosen EXCEPT ![u] = im]
        /\ away' = [away EXCEPT ![u] = NoContext]
        /\ UNCHANGED <<stray, config>>
     \/ SwitchFails(u)

\* A toggle or a reset goes to `name`, or, when that is no longer there, to
\* what find-im makes of it: then the user's choice is lost.
ChosenAfter(u, name) == IF name \in im_list \/ context_primary_im(ctx[u]) THEN chosen[u] ELSE NoIm

\* An error between the switch and context-set-toggle-state!: the new context c
\* stays, and nothing is remembered of the old one.
CutShort(u, c) ==
  /\ ctx' = [ctx EXCEPT ![u] = c]
  /\ chosen' = [chosen EXCEPT ![u] = IF c.im = @ THEN @ ELSE NoIm]
  /\ away' = [away EXCEPT ![u] = NoContext]
  /\ UNCHANGED <<stray, config>>

\* The error is in setup-context, or in a saved action, of which that of a widget
\* object always is one.
toggle_im(u) ==
  LET c == ctx[u]
      cur_state == [primary |-> context_primary_im(c), name |-> c.im,
                    states |-> context_current_widget_states(c)]
      saved_state == c.toggle
      name == IF saved_state = NoToggle THEN alt ELSE saved_state.name
      back(d) == IF saved_state = NoToggle THEN d
                 ELSE context_update_widget_states(d, saved_state.states)
  IN  /\ c.made
      /\ \/ \E im \in find_im(name) :
              /\ saved_state # NoToggle => ~UpdateRaises(NewContext(im), saved_state.states)
              /\ ctx' = [ctx EXCEPT ![u] = [back(NewContext(im)) EXCEPT !.toggle = cur_state]]
              /\ chosen' = [chosen EXCEPT ![u] = ChosenAfter(u, name)]
              /\ away' = [away EXCEPT ![u] =
                            IF context_primary_im(c) /\ c.switcher = button
                            THEN [im |-> c.im, mode |-> c.mode] ELSE NoContext]
              /\ UNCHANGED <<stray, config>>
         \/ \E im \in find_im(name) : CutShort(u, Unmade(im))
         \/ saved_state # NoToggle /\ \E im \in find_im(name) : CutShort(u, NewContext(im))
         \/ SwitchFails(u)

\* reset-toggle-context!
ResetToggle(u, im) ==
  IF context_primary_im(ctx[u]) THEN [ctx[u] EXCEPT !.toggle = NoToggle] ELSE NewContext(im)

-----------------------------------------------------------------------------
(* Entry points. *)

Init ==
  /\ ctx = [u \in Ucs |-> NoContext] /\ stray = FALSE
  /\ enabled \in EnabledLists
  /\ im_list = {enabled[k] : k \in DOMAIN enabled} \cup {Direct}
  /\ registered = FALSE
  /\ alt = Direct
  /\ button \in BOOLEAN
  /\ chosen = [u \in Ucs |-> NoIm]
  /\ away = [u \in Ucs |-> NoContext]

\* imsw-register-widget: its actions make 'direct an enabled input method.
WithDirect(list) == IF Direct \in ToSet(list) THEN list ELSE Append(list, Direct)
RegisterSwitcher(on) ==
  /\ registered' = (registered \/ on)
  /\ enabled' = IF on /\ ~registered THEN WithDirect(enabled) ELSE enabled

\* uim_create_context, with the name of an engine or with none.  When the init
\* handler or setup-context raises an error the caller gets NULL; in the second
\* case, which may come before the switcher's widget is registered or after, the
\* context stays in context-list.
uim_create_context(u) ==
  /\ u \notin Live
  /\ \/ /\ \E name \in Ims \cup {NoIm} : \E im \in find_im(name) :
             /\ ctx' = [ctx EXCEPT ![u] = NewContext(im)]
             /\ chosen' = [chosen EXCEPT ![u] = im]
        /\ away' = [away EXCEPT ![u] = NoContext]
        /\ RegisterSwitcher(button)
        /\ UNCHANGED stray
     \/ /\ stray' = TRUE
        /\ \E on \in {FALSE, button} : RegisterSwitcher(on)
        /\ UNCHANGED <<ctx, chosen, away>>
  /\ UNCHANGED <<im_list, alt, button>>

\* A context without widgets raises an error before it is taken off the list.
uim_release_context(u) ==
  /\ u \in Live
  /\ ctx' = [ctx EXCEPT ![u] = NoContext]
  /\ stray' = (stray \/ ~ctx[u].made)
  /\ chosen' = [chosen EXCEPT ![u] = NoIm]
  /\ away' = [away EXCEPT ![u] = NoContext]
  /\ UNCHANGED config

\* uim_press_key: toggle-im-key, switch-im-key, or a key for the engine, which
\* may change its input mode.
PressToggleKey(u) == u \in Live /\ toggle_im(u)
PressSwitchKey(u) == u \in Live /\ im_switch_im(u, next_im_for_switch_im(ctx[u].im))
PressEngineKey(u) ==
  /\ u \in Live
  /\ \E mode \in ModesOf(ctx[u].im) : ctx' = [ctx EXCEPT ![u].mode = mode]
  /\ UNCHANGED <<stray, config, chosen, away>>

\* uim_switch_im, called by the bridges with any name at all.
uim_switch_im(u) == u \in Live /\ \E name \in Ims : im_switch_im(u, name)

\* uim_prop_activate: the first widget that has the action performs it.  The
\* toolbar may name an action of an input method that was switched away.
uim_prop_activate(u, act) ==
  /\ u \in Live
  /\ CASE act.kind = "imsw" /\ ctx[u].switcher -> im_switch_im(u, act.im)
       [] act.kind = "mode" /\ act.im = ctx[u].im /\ ctx[u].made ->
            /\ ctx' = [ctx EXCEPT ![u].mode = act.mode]
            /\ UNCHANGED <<stray, config, chosen, away>>
       [] OTHER -> UNCHANGED vars

\* Setting toggle-im-alt-im resets the contexts of context-list one by one; an
\* error in one of them leaves those behind it as they are.
SetAltIm(name) ==
  /\ alt' = name
  /\ \E done \in SUBSET Live, target \in [Ucs -> im_list] :
       LET back == {u \in Live : ~context_primary_im(ctx[u])}
           reset(u) == IF u \in done THEN ResetToggle(u, target[u]) ELSE ctx[u]
           unmade == {u \in back \ done : ~ctx'[u].made}
       IN  /\ \A u \in back : target[u] \in find_im(ctx[u].toggle.name)
           /\ \/ done = Live /\ ctx' = [u \in Ucs |-> reset(u)]
              \/ \E bad \in back \ done :
                   \E c \in {[ctx[bad] EXCEPT !.engine = "released"], Unmade(target[bad])} :
                     ctx' = [u \in Ucs |-> IF u = bad THEN c ELSE reset(u)]
           /\ chosen' = [u \in Ucs |->
                CASE u \in back \cap done -> ChosenAfter(u, ctx[u].toggle.name)
                  [] u \in unmade /\ target[u] # chosen[u] -> NoIm
                  [] OTHER -> chosen[u]]
           /\ away' = [u \in Ucs |-> IF u \in done \cup unmade THEN NoContext ELSE away[u]]
  /\ UNCHANGED <<stray, enabled, im_list, registered, button>>

\* Mutant: only the remembered states are refreshed, not the widgets.
RefreshSwitcherMutant(c) == IF c.toggle = NoToggle THEN c
  ELSE [c EXCEPT !.toggle.states = <<WidgetItself>> \o c.toggle.states]

\* The refresh takes the saved actions of a toggle for widgets: it puts one more in
\* front of them.
context_refresh_switcher_widget(c) ==
  LET states == c.toggle.states
      refreshed == IF states # <<>> /\ states[1].kind = "widget" THEN states
                   ELSE <<WidgetItself>> \o states
  IN  IF c.toggle = NoToggle THEN [c EXCEPT !.switcher = TRUE]
      ELSE [c EXCEPT !.switcher = TRUE, !.toggle.states = refreshed]

\* What a loop over context-list reaches: it ends at the first context without
\* widgets, which raises an error.
Reached ==
  {r \in SUBSET Live :
     LET bad == {u \in r : ~ctx[u].made}
     IN  (bad = {} /\ (r = Live \/ stray)) \/ Cardinality(bad) = 1}

\* Setting toolbar-show-action-based-switcher-button? (imsw-reconfigure).  Only
\* when it is on are the contexts refreshed.
SetButton(on) ==
  /\ button' = on
  /\ \E r \in Reached :
       ctx' = [u \in Ucs |-> IF on /\ u \in r THEN context_refresh_switcher_widget(ctx[u]) ELSE ctx[u]]
  /\ RegisterSwitcher(on /\ (Live # {} \/ stray))
  /\ away' = [u \in Ucs |-> NoContext]
  /\ UNCHANGED <<stray, im_list, alt, chosen>>

\* Mutant: 'direct leaves im-list when it is not enabled.
SetEnabledListMutant(list) ==
  /\ enabled' = IF button THEN WithDirect(list) ELSE list
  /\ im_list' = ToSet(list)
  /\ registered' = (registered \/ button)
  /\ UNCHANGED <<ctx, stray, alt, button, chosen, away>>

\* Setting enabled-im-list: what is not enabled leaves im-list, and with the
\* button on the widgets of the contexts are made anew, in their default mode, up
\* to one that raises an error.
SetEnabledList(list) ==
  /\ enabled' = IF button THEN WithDirect(list) ELSE list
  /\ im_list' = ToSet(list) \cup {Direct}
  /\ registered' = (registered \/ button)
  /\ \E r \in SUBSET {u \in Live : button /\ ctx[u].made} :
       ctx' = [u \in Ucs |-> IF u \in r THEN [ctx[u] EXCEPT !.mode = Default, !.switcher = TRUE]
                             ELSE ctx[u]]
  /\ UNCHANGED <<stray, alt, button, chosen, away>>

Next ==
  \/ \E u \in Ucs :
       \/ uim_create_context(u) \/ uim_release_context(u)
       \/ PressToggleKey(u) \/ PressSwitchKey(u) \/ PressEngineKey(u)
       \/ uim_switch_im(u)
       \/ \E act \in Acts : uim_prop_activate(u, act)
  \/ \E im \in Ims : SetAltIm(im)
  \/ \E on \in BOOLEAN : SetButton(on)
  \/ \E list \in EnabledLists : SetEnabledList(list)

Spec == Init /\ [][Next]_vars

-----------------------------------------------------------------------------
(* Properties. *)

TypeOK ==
  /\ ctx \in [Ucs -> Context \cup {NoContext}] /\ stray \in BOOLEAN
  /\ enabled \in Seq(Ims) \ {<<>>}
  /\ im_list \in SUBSET Ims /\ Direct \in im_list
  /\ registered \in BOOLEAN /\ button \in BOOLEAN /\ alt \in Ims
  /\ chosen \in [Ucs -> Ims \cup {NoIm}]
  /\ away \in [Ucs -> [im : Ims, mode : Modes] \cup {NoContext}]

\* However toggles, switches, resets, failed switches and new settings follow
\* each other, what context-primary-im-name answers is what the user chose
\* last, unless that input method was disabled while it was toggled away, or an
\* error cut a toggle short, which left the context in another one and nothing
\* remembered.
PrimaryIsChosen ==
  \A u \in Live : chosen[u] # NoIm => context_primary_im_name(ctx[u]) = chosen[u]

\* With the button on, the first widget of every context is the switcher:
\* context-update-widget-states! drops it unseen.  But once a context is without
\* widgets, the contexts behind it are not refreshed any more.
SwitcherFirst ==
  button /\ ~stray /\ (\A u \in Live : ctx[u].made) => \A u \in Live : ctx[u].switcher

\* Toggling back brings the input method and its mode, unless the input method
\* was disabled meanwhile, or the switcher button was set: meanwhile, or to off
\* while the context that is left still had the switcher among its widgets; or an
\* error cuts the toggle short.
ComesBack(u) ==
  /\ away[u] # NoContext /\ ~context_primary_im(ctx[u])
  /\ toggle_im(u) /\ ctx'[u].engine = "live" /\ ctx'[u].toggle \notin {ctx[u].toggle, NoToggle}
  /\ away[u].im \in im_list
Restored(u) == ctx'[u].im = away[u].im /\ ctx'[u].mode = away[u].mode
ToggleBackRestores == [][\A u \in Live : ComesBack(u) => Restored(u)]_vars

\* From wherever a context is, pressing switch-im-key over and over comes by
\* every enabled input method but the skipped one, also after imsw-actions has
\* put 'direct into the list and when the context's own one is disabled.
SwitchKeyReachesAll ==
  \A u \in Live :
    LET visited[n \in 0..Len(enabled) + 1] ==
          IF n = 0 THEN ctx[u].im ELSE next_im_for_switch_im(visited[n - 1])
    IN  ToSet(enabled) \ {Direct} \subseteq {visited[n] : n \in 0..Len(enabled) + 1}
=============================================================================
