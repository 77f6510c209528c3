-------------------------- MODULE ImContext_proofs --------------------------
(***************************************************************************)
(* Toggling comes back to what the user chose and to its mode, and the     *)
(* switch key comes by all input methods, for any number of contexts,      *)
(* input methods, modes and lists of enabled ones.                         *)
(***************************************************************************)
EXTENDS ImContext, FoldLemmas, FiniteSetTheorems

\* The widgets' states of a context that shows im in mode, with the button as
\* it is now.
StatesOf(im, mode) ==
  IF button THEN <<SwitchAct(im), ModeAct(im, mode)>> ELSE <<ModeAct(im, mode)>>

\* What the last toggle left is what the next one will go by; the primary input
\* method is the chosen one; a context without widgets never toggles again.
Good(u) ==
  /\ away[u] # NoContext =>
       /\ ctx[u] # NoContext /\ ~context_primary_im(ctx[u])
       /\ ctx[u].toggle.name = away[u].im
       /\ ctx[u].toggle.states = StatesOf(away[u].im, away[u].mode)
  /\ ctx[u] # NoContext =>
       /\ chosen[u] # NoIm => context_primary_im_name(ctx[u]) = chosen[u]
       /\ ~ctx[u].made => ctx[u].toggle = NoToggle

IInv == TypeOK /\ SwitcherFirst /\ \A u \in Ucs : Good(u)

\* What a step does to the switcher's being first: a context without widgets
\* stays so, or is released and stays behind in context-list; one with widgets
\* has the switcher if it had it, or if the button is on.
Keeps(u) ==
  /\ ctx[u] # NoContext /\ ~ctx[u].made => stray' \/ (ctx'[u] # NoContext /\ ~ctx'[u].made)
  /\ button /\ ctx'[u] # NoContext /\ ctx'[u].made =>
       ctx'[u].switcher \/ (ctx[u] # NoContext /\ ~ctx[u].switcher)

-----------------------------------------------------------------------------
(* Lemmas about the operators. *)

\* A switch goes to an input method of the list, to the named one if it is there.
LEMMA FindIm ==
  ASSUME TypeOK, NEW name
  PROVE  /\ find_im(name) \subseteq im_list /\ im_list \subseteq Ims
         /\ name \in im_list => find_im(name) = {name}
BY DEF TypeOK, find_im

LEMMA NewContextType ==
  ASSUME TypeOK, NEW im \in Ims
  PROVE  /\ NewContext(im) \in Context /\ NewContext(im) # NoContext
         /\ NewContext(im).im = im /\ NewContext(im).switcher = button
         /\ NewContext(im).made = TRUE /\ NewContext(im).toggle = NoToggle
         /\ NewContext(im).engine = "live" /\ context_primary_im(NewContext(im))
<1>1. NewContext(im) \in Context
  BY ImAssumption DEF NewContext, Context, TypeOK
<1> QED
  BY <1>1, NothingAssumption DEF NewContext, context_primary_im

LEMMA UnmadeType ==
  ASSUME TypeOK, NEW im \in Ims
  PROVE  /\ Unmade(im) \in Context /\ Unmade(im) # NoContext
         /\ Unmade(im).im = im /\ Unmade(im).made = FALSE /\ Unmade(im).toggle = NoToggle
         /\ context_primary_im(Unmade(im))
<1> DEFINE c == NewContext(im)
<1>1. c \in Context /\ c.im = im /\ c.toggle = NoToggle
  BY NewContextType
<1>2. Unmade(im) = [c EXCEPT !.made = FALSE, !.switcher = FALSE]
  BY DEF Unmade
<1> HIDE DEF c
<1>3. /\ Unmade(im) \in Context /\ Unmade(im).im = im /\ Unmade(im).made = FALSE
      /\ Unmade(im).toggle = NoToggle
  BY <1>1, <1>2 DEF Context
<1> QED
  BY <1>3, NothingAssumption DEF context_primary_im

\* What a context of the right type that keeps its toggle state answers.
LEMMA PrimaryFrame ==
  ASSUME NEW c \in Context, NEW d \in Context, d.toggle = c.toggle, d.im = c.im
  PROVE  /\ context_primary_im(d) = context_primary_im(c)
         /\ context_primary_im_name(d) = context_primary_im_name(c)
BY DEF context_primary_im, context_primary_im_name

LEMMA PrimaryType ==
  ASSUME NEW c \in Context
  PROVE  /\ context_primary_im(c) \in BOOLEAN
         /\ ~context_primary_im(c) => c.toggle \in ToggleState /\ c.toggle.name \in Ims
         /\ c.toggle # NoToggle => c.toggle \in ToggleState /\ c.toggle.name \in Ims
BY DEF context_primary_im, Context, ToggleState

LEMMA StatesType ==
  ASSUME NEW c \in Context
  PROVE  /\ context_current_widget_states(c) \in Seq(Acts)
         /\ context_current_widget_states(c) =
              IF c.switcher THEN <<SwitchAct(c.im), ModeAct(c.im, c.mode)>>
              ELSE <<ModeAct(c.im, c.mode)>>
<1> DEFINE S == context_current_widget_states(c)
<1>1. SwitchAct(c.im) \in Acts /\ ModeAct(c.im, c.mode) \in Acts
  BY DEF Context, Acts
<1>2. CASE c.switcher
  <2>1. Widgets(c) = <<"switcher", "input">> /\ DOMAIN Widgets(c) = {1, 2}
    BY <1>2 DEF Widgets
  <2>2. S = [k \in {1, 2} |-> IF k = 1 THEN SwitchAct(c.im) ELSE ModeAct(c.im, c.mode)]
    BY <2>1 DEF context_current_widget_states
  <2>3. <<SwitchAct(c.im), ModeAct(c.im, c.mode)>> =
          [k \in {1, 2} |-> IF k = 1 THEN SwitchAct(c.im) ELSE ModeAct(c.im, c.mode)]
    OBVIOUS
  <2>4. <<SwitchAct(c.im), ModeAct(c.im, c.mode)>> \in Seq(Acts)
    BY <1>1
  <2> QED BY <1>2, <2>2, <2>3, <2>4
<1>3. CASE ~c.switcher
  <2>1. Widgets(c) = <<"input">> /\ DOMAIN Widgets(c) = {1}
    BY <1>3 DEF Widgets
  <2>2. S = [k \in {1} |-> ModeAct(c.im, c.mode)]
    BY <2>1 DEF context_current_widget_states
  <2>3. <<ModeAct(c.im, c.mode)>> = [k \in {1} |-> ModeAct(c.im, c.mode)]
    OBVIOUS
  <2>4. <<ModeAct(c.im, c.mode)>> \in Seq(Acts)
    BY <1>1
  <2> QED BY <1>3, <2>2, <2>3, <2>4
<1> QED
  BY <1>2, <1>3

\* One widget's state is set: the input method and its toggle stay, unless the
\* widget is the switcher.
LEMMA ActivateInput ==
  ASSUME NEW c \in Context, NEW act \in Acts
  PROVE  LET d == widget_activate(c, "input", act)
         IN  /\ d \in Context /\ d.im = c.im /\ d.switcher = c.switcher /\ d.made = c.made
             /\ d.toggle = c.toggle /\ d.engine = c.engine
             /\ act.kind = "mode" /\ act.im = c.im => d.mode = act.mode
<1>1. act.kind = "mode" => act.mode \in Modes
  BY DEF Acts, WidgetItself, SwitchAct, ModeAct
<1>2. CASE act.kind = "mode" /\ act.im = c.im
  BY <1>1, <1>2 DEF widget_activate, Context
<1>3. CASE ~(act.kind = "mode" /\ act.im = c.im)
  BY <1>3 DEF widget_activate
<1> QED
  BY <1>2, <1>3

\* Restoring the saved states never switches the input method: the switcher,
\* if it is there, is skipped.
LEMMA RestoreStates ==
  ASSUME TypeOK, NEW im \in Ims, NEW states \in Seq(Acts)
  PROVE  LET d == context_update_widget_states(NewContext(im), states)
         IN  /\ d \in Context /\ d.im = im /\ d.switcher = button /\ d.engine = "live"
             /\ d.made = TRUE
             /\ \A mode \in Modes : states = StatesOf(im, mode) => d.mode = mode
<1> DEFINE c == NewContext(im)
           d == context_update_widget_states(c, states)
<1>1. /\ c \in Context /\ c.im = im /\ c.switcher = button /\ c.engine = "live"
      /\ c.made = TRUE
  BY NewContextType
<1>2. \A k \in DOMAIN states : states[k] \in Acts
  OBVIOUS
<1>3. CASE button = TRUE
  <2>1. \A e \in Context : e.switcher = button => Widgets(e) = <<"switcher", "input">>
    BY <1>3 DEF Widgets
  <2>2. DOMAIN <<"switcher", "input">> = {1, 2} /\ <<"switcher", "input">>[2] = "input"
    OBVIOUS
  <2>3. d = IF 2 \in DOMAIN states THEN widget_activate(c, "input", states[2]) ELSE c
    <3> HIDE DEF c
    <3>1. Widgets(c) = <<"switcher", "input">> /\ DOMAIN Widgets(c) = {1, 2}
      BY <1>1, <2>1, <2>2
    <3>2. Paired(c, states) = {k \in {1, 2} \cap DOMAIN states : k # 1}
      BY <1>3, <3>1 DEF Paired
    <3>3. 1 \notin Paired(c, states) /\ (2 \in Paired(c, states) <=> 2 \in DOMAIN states)
      BY <3>2
    <3> QED BY <2>2, <3>1, <3>3 DEF context_update_widget_states
  <2>4. CASE 2 \in DOMAIN states
    <3>1. /\ d \in Context /\ d.im = im /\ d.switcher = button /\ d.engine = "live"
          /\ d.made = TRUE
          /\ states[2].kind = "mode" /\ states[2].im = im => d.mode = states[2].mode
      BY SMTT(30), <1>1, <1>2, <2>3, <2>4, ActivateInput
    <3>2. \A mode \in Modes : states = StatesOf(im, mode) => states[2] = ModeAct(im, mode)
      BY <1>3 DEF StatesOf
    <3>3. ASSUME NEW mode \in Modes, states = StatesOf(im, mode) PROVE d.mode = mode
      <4>1. states[2] = ModeAct(im, mode)
        BY <3>2, <3>3
      <4>2. states[2].kind = "mode" /\ states[2].im = im /\ states[2].mode = mode
        BY <4>1 DEF ModeAct
      <4> QED BY <3>1, <4>2
    <3> QED BY <3>1, <3>3
  <2>5. CASE 2 \notin DOMAIN states
    <3>1. \A mode \in Modes : states # StatesOf(im, mode)
      BY <1>3, <2>5 DEF StatesOf
    <3> QED BY <1>1, <2>3, <2>5, <3>1
  <2> QED BY <2>4, <2>5
<1>4. CASE button = FALSE
  <2>1. \A e \in Context : e.switcher = button => Widgets(e) = <<"input">>
    BY <1>4 DEF Widgets
  <2>2. DOMAIN <<"input">> = {1} /\ <<"input">>[1] = "input"
    OBVIOUS
  <2> DEFINE first == IF 1 \in DOMAIN states THEN widget_activate(c, "input", states[1]) ELSE c
  <2>3. first \in Context /\ first.switcher = button
    BY <1>1, <1>2, ActivateInput
  <2>4. d = first
    <3> HIDE DEF c
    <3>1. 2 \notin Paired(c, states) /\ (1 \in Paired(c, states) <=> 1 \in DOMAIN states)
      BY <1>1, <1>4, <2>1, <2>2 DEF Paired
    <3> QED BY <1>1, <2>1, <2>2, <3>1 DEF context_update_widget_states
  <2>5. CASE 1 \in DOMAIN states
    <3>1. /\ d \in Context /\ d.im = im /\ d.switcher = button /\ d.engine = "live"
          /\ d.made = TRUE
          /\ states[1].kind = "mode" /\ states[1].im = im => d.mode = states[1].mode
      BY <1>1, <1>2, <2>4, <2>5, ActivateInput
    <3>2. \A mode \in Modes : states = StatesOf(im, mode) => states[1] = ModeAct(im, mode)
      BY <1>4 DEF StatesOf
    <3>3. ASSUME NEW mode \in Modes, states = StatesOf(im, mode) PROVE d.mode = mode
      <4>1. states[1] = ModeAct(im, mode)
        BY <3>2, <3>3
      <4>2. states[1].kind = "mode" /\ states[1].im = im /\ states[1].mode = mode
        BY <4>1 DEF ModeAct
      <4> QED BY <3>1, <4>2
    <3> QED BY <3>1, <3>3
  <2>6. CASE 1 \notin DOMAIN states
    <3>1. \A mode \in Modes : states # StatesOf(im, mode)
      BY <1>4, <2>6 DEF StatesOf
    <3> QED BY <1>1, <2>4, <2>6, <3>1
  <2> QED BY <2>5, <2>6
<1> QED
  BY <1>3, <1>4 DEF TypeOK

LEMMA EnabledType ==
  ASSUME NEW list \in Seq(Ims) \ {<<>>}
  PROVE  WithDirect(list) \in Seq(Ims) \ {<<>>}
<1>1. Append(list, Direct) \in Seq(Ims) /\ Append(list, Direct) # <<>>
  BY AppendProperties, ImAssumption DEF Ims
<1> QED
  BY <1>1 DEF WithDirect

\* Of the states, only those a context had with this button are restored.
LEMMA StatesNow ==
  ASSUME NEW c \in Context, c.switcher = button
  PROVE  context_current_widget_states(c) = StatesOf(c.im, c.mode)
BY StatesType DEF StatesOf

-----------------------------------------------------------------------------
(* One step. *)

\* As long as every context keeps it, the switcher stays the first widget.
LEMMA SwitcherStep ==
  ASSUME TypeOK, SwitcherFirst, UNCHANGED button, stray => stray', \A u \in Ucs : Keeps(u)
  PROVE  SwitcherFirst'
<1> SUFFICES ASSUME button, ~stray', \A u \in Live' : ctx'[u].made, NEW v \in Live'
             PROVE  ctx'[v].switcher
  BY DEF SwitcherFirst
<1>1. \A u \in Live : ctx[u].made
  BY DEF Live, Keeps
<1>2. \A u \in Live : ctx[u].switcher
  BY <1>1 DEF SwitcherFirst
<1> QED
  BY <1>2 DEF Live, Keeps

\* A step of one context keeps the others as they are.
LEMMA OneStep ==
  ASSUME IInv, NEW u \in Ucs, UNCHANGED <<im_list, alt, button>>,
         registered' \in BOOLEAN, enabled' \in Seq(Ims) \ {<<>>},
         stray' \in BOOLEAN, stray => stray',
         NEW c \in Context \cup {NoContext}, ctx' = [ctx EXCEPT ![u] = c],
         NEW ch \in Ims \cup {NoIm}, chosen' = [chosen EXCEPT ![u] = ch],
         NEW aw \in [im : Ims, mode : Modes] \cup {NoContext}, away' = [away EXCEPT ![u] = aw],
         Good(u)', Keeps(u)
  PROVE  IInv'
<1>1. TypeOK'
  BY DEF IInv, TypeOK
<1>2. ASSUME NEW v \in Ucs PROVE Good(v)' /\ Keeps(v)
  <2>1. CASE v # u
    <3>1. ctx'[v] = ctx[v] /\ chosen'[v] = chosen[v] /\ away'[v] = away[v] /\ Good(v)
      BY <2>1 DEF IInv, TypeOK
    <3>2. Keeps(v)
      BY <3>1 DEF Keeps
    <3> QED BY <3>1, <3>2
            DEF Good, StatesOf, context_primary_im, context_primary_im_name, SwitchAct, ModeAct
  <2> QED BY <2>1
<1>3. SwitcherFirst'
  BY <1>2, SwitcherStep DEF IInv
<1> QED
  BY <1>1, <1>2, <1>3 DEF IInv

\* What a context is good for does not depend on its mode or engine.
LEMMA GoodFrame ==
  ASSUME NEW u \in Ucs, Good(u), ctx[u] \in Context, UNCHANGED button,
         NEW c \in Context, ctx'[u] = c, c.im = ctx[u].im, c.toggle = ctx[u].toggle,
         c.made = ctx[u].made, chosen'[u] = chosen[u], away'[u] = away[u]
  PROVE  Good(u)'
<1>1. /\ context_primary_im(c) = context_primary_im(ctx[u])
      /\ context_primary_im_name(c) = context_primary_im_name(ctx[u])
  BY PrimaryFrame
<1>2. /\ (away[u] # NoContext =>
             ~context_primary_im(c) /\ c.toggle.name = away[u].im
             /\ c.toggle.states = StatesOf(away[u].im, away[u].mode))
      /\ (chosen[u] # NoIm => context_primary_im_name(c) = chosen[u])
      /\ (~c.made => c.toggle = NoToggle) /\ c # NoContext
  BY <1>1, NothingAssumption DEF Good
<1>3. StatesOf(away[u].im, away[u].mode)' = StatesOf(away[u].im, away[u].mode)
  BY DEF StatesOf
<1> QED
  BY <1>2, <1>3 DEF Good, context_primary_im, context_primary_im_name

\* The same, when only the mode or the engine's state changes.
LEMMA SmallStep ==
  ASSUME IInv, NEW u \in Ucs, UNCHANGED <<stray, config, chosen, away>>,
         NEW c \in Context, ctx' = [ctx EXCEPT ![u] = c], ctx[u] # NoContext,
         c.im = ctx[u].im, c.toggle = ctx[u].toggle, c.switcher = ctx[u].switcher,
         c.made = ctx[u].made
  PROVE  IInv'
<1>1. /\ ctx[u] \in Context /\ ctx'[u] = c /\ c # NoContext
      /\ UNCHANGED <<im_list, alt, button, registered, enabled>>
  BY NothingAssumption DEF IInv, TypeOK, config
<1>3. Good(u)' /\ Keeps(u)
  BY <1>1, GoodFrame DEF IInv, Keeps
<1>4. /\ chosen' = [chosen EXCEPT ![u] = chosen[u]] /\ chosen[u] \in Ims \cup {NoIm}
      /\ away' = [away EXCEPT ![u] = away[u]]
      /\ away[u] \in [im : Ims, mode : Modes] \cup {NoContext}
      /\ registered' \in BOOLEAN /\ enabled' \in Seq(Ims) \ {<<>>} /\ stray' \in BOOLEAN
  BY <1>1 DEF IInv, TypeOK
<1> QED
  BY <1>1, <1>3, <1>4, OneStep

\* And when the context is replaced by a fresh one, with widgets or without.
LEMMA FreshStep ==
  ASSUME IInv, NEW u \in Ucs, UNCHANGED <<stray, im_list, alt, button>>,
         registered' \in BOOLEAN, enabled' \in Seq(Ims) \ {<<>>},
         ctx[u] # NoContext => ctx[u].made,
         NEW im \in Ims, NEW c \in {NewContext(im), Unmade(im)}, ctx' = [ctx EXCEPT ![u] = c],
         NEW ch \in {im, NoIm}, chosen' = [chosen EXCEPT ![u] = ch],
         away' = [away EXCEPT ![u] = NoContext]
  PROVE  IInv'
<1>1. /\ c \in Context /\ c.im = im /\ (c.made => c.switcher = button) /\ context_primary_im(c)
      /\ c.toggle = NoToggle /\ c # NoContext
  BY NewContextType, UnmadeType DEF IInv
<1>2. ctx'[u] = c /\ chosen'[u] = ch /\ away'[u] = NoContext /\ context_primary_im_name(c) = im
  BY <1>1 DEF IInv, TypeOK, context_primary_im_name
<1>3. Good(u)'
  BY <1>1, <1>2 DEF Good, context_primary_im, context_primary_im_name
<1>4. Keeps(u)
  BY <1>1, <1>2 DEF Keeps
<1>5. stray' \in BOOLEAN /\ ch \in Ims \cup {NoIm}
  BY DEF IInv, TypeOK
<1> QED
  BY <1>1, <1>2, <1>3, <1>4, <1>5, OneStep

LEMMA FailStep ==
  ASSUME IInv, NEW u \in Live, SwitchFails(u)
  PROVE  IInv'
<1> DEFINE c == [ctx[u] EXCEPT !.engine = "released"]
<1>1. u \in Ucs /\ ctx[u] \in Context /\ ctx[u] # NoContext
  BY DEF Live, IInv, TypeOK
<1>2. /\ c \in Context /\ c.im = ctx[u].im /\ c.toggle = ctx[u].toggle
      /\ c.switcher = ctx[u].switcher /\ c.made = ctx[u].made
  BY <1>1 DEF Context
<1>3. ctx' = [ctx EXCEPT ![u] = c] /\ UNCHANGED <<stray, config, chosen, away>>
  BY DEF SwitchFails
<1> HIDE DEF c
<1> QED
  BY <1>1, <1>2, <1>3, SmallStep

\* An error cuts a toggle short: the context is a fresh one, and what the user
\* chose is gone, or it is what the context shows.
LEMMA CutShortStep ==
  ASSUME IInv, NEW u \in Live, ctx[u].made, NEW name, NEW im \in find_im(name),
         NEW c \in {NewContext(im), Unmade(im)}, CutShort(u, c)
  PROVE  IInv'
<1> DEFINE ch == IF c.im = chosen[u] THEN chosen[u] ELSE NoIm
<1>1. u \in Ucs /\ im \in Ims
  BY FindIm DEF Live, IInv
<1>2. c.im = im
  BY <1>1, NewContextType, UnmadeType DEF IInv
<1>3. /\ ctx' = [ctx EXCEPT ![u] = c] /\ chosen' = [chosen EXCEPT ![u] = ch]
      /\ away' = [away EXCEPT ![u] = NoContext] /\ ch \in {im, NoIm}
      /\ UNCHANGED <<stray, im_list, alt, button>>
      /\ registered' \in BOOLEAN /\ enabled' \in Seq(Ims) \ {<<>>}
  BY <1>2 DEF CutShort, config, IInv, TypeOK
<1> HIDE DEF ch
<1> QED
  BY <1>1, <1>3, FreshStep

\* The user chooses an input method.
LEMMA SwitchStep ==
  ASSUME IInv, NEW u \in Live, NEW name, im_switch_im(u, name)
  PROVE  IInv'
<1>1. u \in Ucs /\ ctx[u].made
  BY DEF Live, im_switch_im
<1>2. CASE SwitchFails(u)
  BY <1>2, FailStep
<1>3. CASE ~SwitchFails(u)
  <2>1. PICK im \in find_im(name) :
          /\ ctx' \in {[ctx EXCEPT ![u] = NewContext(im)], [ctx EXCEPT ![u] = Unmade(im)]}
          /\ chosen' = [chosen EXCEPT ![u] = im]
    BY <1>3 DEF im_switch_im
  <2>2. PICK c \in {NewContext(im), Unmade(im)} : ctx' = [ctx EXCEPT ![u] = c]
    BY <2>1
  <2>3. im \in Ims
    BY FindIm DEF IInv
  <2>4. away' = [away EXCEPT ![u] = NoContext] /\ UNCHANGED <<stray, config>>
    BY <1>3 DEF im_switch_im
  <2>5. /\ UNCHANGED <<stray, im_list, alt, button>>
        /\ registered' \in BOOLEAN /\ enabled' \in Seq(Ims) \ {<<>>}
    BY <2>4 DEF config, IInv, TypeOK
  <2> QED BY <1>1, <2>1, <2>2, <2>3, <2>4, <2>5, FreshStep
<1> QED
  BY <1>2, <1>3

LEMMA CreateStep ==
  ASSUME IInv, NEW u \in Ucs, uim_create_context(u)
  PROVE  IInv'
<1>1. PICK on \in BOOLEAN : RegisterSwitcher(on)
  BY DEF uim_create_context, IInv, TypeOK
<1>2. /\ registered' \in BOOLEAN /\ enabled' \in Seq(Ims) \ {<<>>}
      /\ UNCHANGED <<im_list, alt, button>> /\ ctx[u] = NoContext
  BY <1>1, EnabledType DEF uim_create_context, Live, RegisterSwitcher, IInv, TypeOK
<1>3. CASE UNCHANGED stray /\ away' = [away EXCEPT ![u] = NoContext]
           /\ \E name \in Ims \cup {NoIm} : \E im \in find_im(name) :
                ctx' = [ctx EXCEPT ![u] = NewContext(im)] /\ chosen' = [chosen EXCEPT ![u] = im]
  <2>1. PICK name \in Ims \cup {NoIm} : \E im \in find_im(name) :
          ctx' = [ctx EXCEPT ![u] = NewContext(im)] /\ chosen' = [chosen EXCEPT ![u] = im]
    BY <1>3
  <2>2. PICK im \in find_im(name) :
          ctx' = [ctx EXCEPT ![u] = NewContext(im)] /\ chosen' = [chosen EXCEPT ![u] = im]
    BY <2>1
  <2>3. im \in Ims
    BY FindIm DEF IInv
  <2> QED BY <1>2, <1>3, <2>2, <2>3, FreshStep
<1>4. CASE stray' = TRUE /\ UNCHANGED <<ctx, chosen, away>>
  <2>1. /\ ctx' = [ctx EXCEPT ![u] = NoContext] /\ chosen' = [chosen EXCEPT ![u] = chosen[u]]
        /\ away' = [away EXCEPT ![u] = away[u]]
        /\ chosen[u] \in Ims \cup {NoIm} /\ away[u] \in [im : Ims, mode : Modes] \cup {NoContext}
    BY <1>2, <1>4 DEF IInv, TypeOK
  <2>2. Good(u)' /\ Keeps(u)
    BY <1>2, <1>4 DEF IInv, Good, Keeps
  <2> QED BY <1>2, <1>4, <2>1, <2>2, OneStep
<1> QED
  BY <1>3, <1>4 DEF uim_create_context

LEMMA ReleaseStep ==
  ASSUME IInv, NEW u \in Ucs, uim_release_context(u)
  PROVE  IInv'
<1>1. /\ ctx' = [ctx EXCEPT ![u] = NoContext] /\ chosen' = [chosen EXCEPT ![u] = NoIm]
      /\ away' = [away EXCEPT ![u] = NoContext] /\ stray' = (stray \/ ~ctx[u].made)
      /\ UNCHANGED <<im_list, alt, button, registered, enabled>>
  BY DEF uim_release_context, config
<1>2. registered' \in BOOLEAN /\ enabled' \in Seq(Ims) \ {<<>>} /\ stray' \in BOOLEAN
  BY <1>1 DEF IInv, TypeOK
<1>3. ctx'[u] = NoContext /\ chosen'[u] = NoIm /\ away'[u] = NoContext
  BY <1>1 DEF IInv, TypeOK
<1>4. Good(u)' /\ Keeps(u)
  BY <1>1, <1>3 DEF Good, Keeps
<1> QED
  BY <1>1, <1>2, <1>4, OneStep

\* A toggle: what it leaves is remembered with its states, and what it comes
\* back to is primary again.
LEMMA ToggleStep ==
  ASSUME IInv, NEW u \in Live, toggle_im(u)
  PROVE  IInv'
<1> DEFINE c == ctx[u]
           cur == [primary |-> context_primary_im(c), name |-> c.im,
                   states |-> context_current_widget_states(c)]
           name == IF c.toggle = NoToggle THEN alt ELSE c.toggle.name
           back(d) == IF c.toggle = NoToggle THEN d
                      ELSE context_update_widget_states(d, c.toggle.states)
           left == IF context_primary_im(c) /\ c.switcher = button
                   THEN [im |-> c.im, mode |-> c.mode] ELSE NoContext
<1>1. u \in Ucs /\ c \in Context /\ c # NoContext /\ Good(u) /\ c.made = TRUE
  BY DEF Live, IInv, TypeOK, toggle_im, Context
<1>2. CASE SwitchFails(u)
  BY <1>2, FailStep
<1>3. ASSUME NEW im \in find_im(name), CutShort(u, Unmade(im)) \/ CutShort(u, NewContext(im))
      PROVE  IInv'
  BY <1>1, <1>3, CutShortStep
<1>4. CASE \E im \in find_im(name) :
             /\ ctx' = [ctx EXCEPT ![u] = [back(NewContext(im)) EXCEPT !.toggle = cur]]
             /\ chosen' = [chosen EXCEPT ![u] = ChosenAfter(u, name)]
             /\ away' = [away EXCEPT ![u] = left] /\ UNCHANGED <<stray, config>>
  <2>1. PICK im \in find_im(name) :
          ctx' = [ctx EXCEPT ![u] = [back(NewContext(im)) EXCEPT !.toggle = cur]]
    BY <1>4
  <2>2. /\ chosen' = [chosen EXCEPT ![u] = ChosenAfter(u, name)]
        /\ away' = [away EXCEPT ![u] = left] /\ UNCHANGED <<stray, config>>
    BY <1>4
  <2>3. im \in Ims /\ (name \in im_list => im = name)
    BY FindIm DEF IInv
  <2> DEFINE d == back(NewContext(im))
             e == [d EXCEPT !.toggle = cur]
  <2>4. d \in Context /\ d.im = im /\ d.switcher = button /\ d.made = TRUE
    <3>1. CASE c.toggle = NoToggle
      BY <2>3, <3>1, NewContextType DEF IInv
    <3>2. CASE c.toggle # NoToggle
      <4>1. c.toggle.states \in Seq(Acts)
        BY <1>1, <3>2 DEF Context, ToggleState
      <4> QED BY <2>3, <3>2, <4>1, RestoreStates DEF IInv
    <3> QED BY <3>1, <3>2
  <2>5. cur \in ToggleState /\ c.im \in Ims /\ c.mode \in Modes
    BY <1>1, PrimaryType, StatesType DEF ToggleState, Context
  <2> HIDE DEF d, cur
  <2>6. e \in Context /\ e.im = im /\ e.switcher = button /\ e.toggle = cur /\ e.made = TRUE
    BY <2>4, <2>5 DEF Context
  <2>7. cur.primary = context_primary_im(c) /\ cur.name = c.im
        /\ cur.states = context_current_widget_states(c)
    BY DEF cur
  <2>8. cur # NoToggle
    BY <2>5, NothingAssumption
  <2> HIDE DEF e
  <2>9. context_primary_im(e) = ~context_primary_im(c)
    BY <1>1, <2>6, <2>7, <2>8, PrimaryType DEF context_primary_im
  <2>10. ctx' = [ctx EXCEPT ![u] = e] /\ ctx'[u] = e /\ e # NoContext
    BY <1>1, <2>1, <2>6, NothingAssumption DEF IInv, TypeOK, d, e
  <2>11. ChosenAfter(u, name) \in Ims \cup {NoIm}
    BY <1>1 DEF ChosenAfter, IInv, TypeOK
  <2>12. left \in [im : Ims, mode : Modes] \cup {NoContext}
    BY <2>5
  <2>13. ChosenAfter(u, name) # NoIm => context_primary_im_name(e) = ChosenAfter(u, name)
    <3>1. CASE context_primary_im(c)
      BY <1>1, <2>6, <2>7, <2>9, <3>1 DEF ChosenAfter, Good, context_primary_im_name
    <3>2. CASE ~context_primary_im(c)
      <4>1. c.toggle # NoToggle /\ name = c.toggle.name
        BY <3>2 DEF context_primary_im
      <4>2. context_primary_im_name(e) = im /\ context_primary_im_name(c) = name
        BY <2>6, <2>9, <3>2, <4>1 DEF context_primary_im_name
      <4> HIDE DEF name
      <4> QED BY <1>1, <2>3, <3>2, <4>2 DEF ChosenAfter, Good
    <3> QED BY <3>1, <3>2
  <2>14. left # NoContext =>
           ~context_primary_im(e) /\ e.toggle.name = left.im
           /\ e.toggle.states = StatesOf(left.im, left.mode)
    <3>1. ASSUME context_primary_im(c), c.switcher = button
          PROVE  e.toggle.name = c.im /\ e.toggle.states = StatesOf(c.im, c.mode)
      BY <1>1, <2>6, <2>7, <3>1, StatesNow
    <3> QED BY <2>9, <3>1
  <2> HIDE DEF left, name
  <2>15. chosen'[u] = ChosenAfter(u, name) /\ away'[u] = left /\ UNCHANGED <<im_list, alt, button>>
         /\ registered' \in BOOLEAN /\ enabled' \in Seq(Ims) \ {<<>>} /\ stray' = stray
         /\ stray' \in BOOLEAN
    BY <1>1, <2>2 DEF IInv, TypeOK, config
  <2>16. Good(u)'
    <3>1. StatesOf(left.im, left.mode) =
            IF button' THEN <<SwitchAct(left.im), ModeAct(left.im, left.mode)>>
            ELSE <<ModeAct(left.im, left.mode)>>
      BY <2>15 DEF StatesOf
    <3> QED BY <2>6, <2>10, <2>13, <2>14, <2>15, <3>1
            DEF Good, StatesOf, context_primary_im, context_primary_im_name
  <2>17. Keeps(u)
    BY <1>1, <2>6, <2>10 DEF Keeps
  <2>18. /\ UNCHANGED <<im_list, alt, button>> /\ stray => stray'
         /\ chosen' = [chosen EXCEPT ![u] = ChosenAfter(u, name)]
         /\ away' = [away EXCEPT ![u] = left] /\ e \in Context \cup {NoContext}
    BY <2>2, <2>6, <2>15
  <2> QED BY <1>1, <2>10, <2>11, <2>12, <2>15, <2>16, <2>17, <2>18, OneStep
<1> QED
  BY <1>2, <1>3, <1>4 DEF toggle_im

\* The engine, or an action of its widget, sets the mode.
LEMMA ModeStep ==
  ASSUME IInv, NEW u \in Live, NEW mode \in Modes, ctx' = [ctx EXCEPT ![u].mode = mode],
         UNCHANGED <<stray, config, chosen, away>>
  PROVE  IInv'
<1> DEFINE c == [ctx[u] EXCEPT !.mode = mode]
<1>1. u \in Ucs /\ ctx[u] \in Context /\ ctx[u] # NoContext
  BY DEF Live, IInv, TypeOK
<1>2. /\ c \in Context /\ c.im = ctx[u].im /\ c.toggle = ctx[u].toggle
      /\ c.switcher = ctx[u].switcher /\ c.made = ctx[u].made
  BY <1>1 DEF Context
<1>3. ctx' = [ctx EXCEPT ![u] = c]
  OBVIOUS
<1> HIDE DEF c
<1> QED
  BY <1>1, <1>2, <1>3, SmallStep

LEMMA KeyStep ==
  ASSUME IInv, NEW u \in Ucs, PressToggleKey(u) \/ PressSwitchKey(u) \/ PressEngineKey(u)
  PROVE  IInv'
<1>1. u \in Live
  BY DEF PressToggleKey, PressSwitchKey, PressEngineKey
<1>2. CASE PressToggleKey(u)
  BY <1>1, <1>2, ToggleStep DEF PressToggleKey
<1>3. CASE PressSwitchKey(u)
  BY <1>1, <1>3, SwitchStep DEF PressSwitchKey
<1>4. CASE PressEngineKey(u)
  <2>1. ModesOf(ctx[u].im) \subseteq Modes
    BY ImAssumption DEF ModesOf
  <2> QED BY <1>1, <1>4, <2>1, ModeStep DEF PressEngineKey
<1> QED
  BY <1>2, <1>3, <1>4

LEMMA UnchangedStep == IInv /\ UNCHANGED vars => IInv'
<1> SUFFICES ASSUME IInv, UNCHANGED vars PROVE IInv'
  OBVIOUS
<1>1. UNCHANGED <<ctx, stray, enabled, im_list, registered, alt, button, chosen, away>>
  BY DEF vars
<1>2. TypeOK' /\ SwitcherFirst'
  BY <1>1 DEF IInv, TypeOK, SwitcherFirst, Live
<1>3. ASSUME NEW u \in Ucs PROVE Good(u)'
  BY <1>1 DEF IInv, Good, StatesOf, context_primary_im, context_primary_im_name
<1> QED
  BY <1>2, <1>3 DEF IInv

LEMMA PropStep ==
  ASSUME IInv, NEW u \in Ucs, NEW act \in Acts, uim_prop_activate(u, act)
  PROVE  IInv'
<1>1. u \in Live
  BY DEF uim_prop_activate
<1>2. CASE act.kind = "imsw" /\ ctx[u].switcher
  <2>1. im_switch_im(u, act.im)
    BY <1>2 DEF uim_prop_activate
  <2> QED BY <1>1, <2>1, SwitchStep
<1>3. CASE /\ ~(act.kind = "imsw" /\ ctx[u].switcher)
           /\ act.kind = "mode" /\ act.im = ctx[u].im /\ ctx[u].made
  <2>1. act.mode \in Modes
    BY <1>3 DEF Acts, WidgetItself, SwitchAct, ModeAct
  <2>2. ctx' = [ctx EXCEPT ![u].mode = act.mode] /\ UNCHANGED <<stray, config, chosen, away>>
    BY <1>3 DEF uim_prop_activate
  <2> QED BY <1>1, <2>1, <2>2, ModeStep
<1>4. CASE /\ ~(act.kind = "imsw" /\ ctx[u].switcher)
           /\ ~(act.kind = "mode" /\ act.im = ctx[u].im /\ ctx[u].made)
  BY <1>4, UnchangedStep DEF uim_prop_activate
<1> QED
  BY <1>2, <1>3, <1>4

\* Every context is reset, is left alone, has lost its engine, or is switched but
\* without widgets.
LEMMA AltStep ==
  ASSUME IInv, NEW im \in Ims, SetAltIm(im)
  PROVE  IInv'
<1> DEFINE Back(u) == u \in Live /\ ~context_primary_im(ctx[u])
           Failed(u) == [ctx[u] EXCEPT !.engine = "released"]
<1>1. PICK done \in SUBSET Live, target \in [Ucs -> im_list] :
        /\ \A u \in Ucs : Back(u) => target[u] \in find_im(ctx[u].toggle.name)
        /\ \A u \in Ucs :
             \/ u \in done /\ ctx'[u] = ResetToggle(u, target[u])
             \/ u \notin done /\ ctx'[u] = ctx[u]
             \/ u \notin done /\ Back(u) /\ ctx'[u] \in {Failed(u), Unmade(target[u])}
        /\ ctx' = [u \in Ucs |-> ctx'[u]]
        /\ chosen' = [u \in Ucs |->
             CASE Back(u) /\ u \in done -> ChosenAfter(u, ctx[u].toggle.name)
               [] Back(u) /\ u \notin done /\ ~ctx'[u].made /\ target[u] # chosen[u] -> NoIm
               [] OTHER -> chosen[u]]
        /\ away' = [u \in Ucs |-> IF u \in done \/ (Back(u) /\ u \notin done /\ ~ctx'[u].made)
                                  THEN NoContext ELSE away[u]]
  <2> DEFINE back == {u \in Live : ~context_primary_im(ctx[u])}
  <2>1. PICK done \in SUBSET Live, target \in [Ucs -> im_list] :
          LET reset(u) == IF u \in done THEN ResetToggle(u, target[u]) ELSE ctx[u]
              unmade == {u \in back \ done : ~ctx'[u].made}
          IN  /\ \A u \in back : target[u] \in find_im(ctx[u].toggle.name)
              /\ \/ done = Live /\ ctx' = [u \in Ucs |-> reset(u)]
                 \/ \E bad \in back \ done :
                      \E c \in {[ctx[bad] EXCEPT !.engine = "released"], Unmade(target[bad])} :
                        ctx' = [u \in Ucs |-> IF u = bad THEN c ELSE reset(u)]
              /\ chosen' = [u \in Ucs |->
                   CASE u \in back \cap done -> ChosenAfter(u, ctx[u].toggle.name)
                     [] u \in unmade /\ target[u] # chosen[u] -> NoIm
                     [] OTHER -> chosen[u]]
              /\ away' = [u \in Ucs |-> IF u \in done \cup unmade THEN NoContext ELSE away[u]]
    BY DEF SetAltIm
  <2> DEFINE reset(u) == IF u \in done THEN ResetToggle(u, target[u]) ELSE ctx[u]
             unmade == {u \in back \ done : ~ctx'[u].made}
  <2>2. /\ ctx' = [u \in Ucs |-> ctx'[u]]
        /\ \A u \in Ucs :
             \/ u \in done /\ ctx'[u] = ResetToggle(u, target[u])
             \/ u \notin done /\ ctx'[u] = ctx[u]
             \/ u \notin done /\ Back(u) /\ ctx'[u] \in {Failed(u), Unmade(target[u])}
    <3>1. CASE ctx' = [u \in Ucs |-> reset(u)]
      BY <3>1
    <3>2. ASSUME NEW bad \in back \ done,
                 NEW c \in {[ctx[bad] EXCEPT !.engine = "released"], Unmade(target[bad])},
                 ctx' = [u \in Ucs |-> IF u = bad THEN c ELSE reset(u)]
          PROVE  <2>2!1 /\ <2>2!2
      <4>1. ctx' = [u \in Ucs |-> ctx'[u]]
        BY <3>2
      <4>2. ASSUME NEW u \in Ucs
            PROVE  \/ u \in done /\ ctx'[u] = ResetToggle(u, target[u])
                   \/ u \notin done /\ ctx'[u] = ctx[u]
                   \/ u \notin done /\ Back(u) /\ ctx'[u] \in {Failed(u), Unmade(target[u])}
        BY <3>2 DEF Live
      <4> QED BY <4>1, <4>2
    <3> QED BY <2>1, <3>1, <3>2
  <2>3. \A u \in Ucs : /\ u \in back <=> Back(u)
                       /\ u \in unmade <=> (Back(u) /\ u \notin done /\ ~ctx'[u].made)
    BY DEF Live
  <2> HIDE DEF Back, Failed, back
  <2>4. /\ \A u \in Ucs : Back(u) => target[u] \in find_im(ctx[u].toggle.name)
        /\ chosen' = [u \in Ucs |->
             CASE Back(u) /\ u \in done -> ChosenAfter(u, ctx[u].toggle.name)
               [] Back(u) /\ u \notin done /\ ~ctx'[u].made /\ target[u] # chosen[u] -> NoIm
               [] OTHER -> chosen[u]]
        /\ away' = [u \in Ucs |-> IF u \in done \/ (Back(u) /\ u \notin done /\ ~ctx'[u].made)
                                  THEN NoContext ELSE away[u]]
    <3>1. chosen' = [u \in Ucs |->
                   CASE u \in back \cap done -> ChosenAfter(u, ctx[u].toggle.name)
                     [] u \in unmade /\ target[u] # chosen[u] -> NoIm
                     [] OTHER -> chosen[u]]
      BY <2>1
    <3>2. away' = [u \in Ucs |-> IF u \in done \cup unmade THEN NoContext ELSE away[u]]
      BY <2>1
    <3> HIDE DEF unmade
    <3>3. \A u \in Ucs : Back(u) => target[u] \in find_im(ctx[u].toggle.name)
      BY <2>1, <2>3
    <3> QED BY <2>3, <3>1, <3>2, <3>3
  <2> QED BY <2>2, <2>4
<1>2. alt' \in Ims /\ UNCHANGED <<stray, enabled, im_list, registered, button>>
  BY DEF SetAltIm
<1>3. ASSUME NEW u \in Ucs
      PROVE  /\ ctx'[u] \in Context \cup {NoContext} /\ chosen'[u] \in Ims \cup {NoIm}
             /\ away'[u] \in [im : Ims, mode : Modes] \cup {NoContext} /\ Good(u)' /\ Keeps(u)
  <2> DEFINE name == ctx[u].toggle.name
  <2>1. /\ Good(u) /\ ctx[u] \in Context \cup {NoContext} /\ chosen[u] \in Ims \cup {NoIm}
        /\ away[u] \in [im : Ims, mode : Modes] \cup {NoContext}
        /\ (u \in Live => ctx[u] \in Context /\ ctx[u] # NoContext)
    BY DEF IInv, TypeOK, Live
  <2>2. chosen'[u] \in Ims \cup {NoIm} /\ away'[u] \in [im : Ims, mode : Modes] \cup {NoContext}
    BY <1>1, <2>1 DEF ChosenAfter
  <2>3. Back(u) => /\ ctx[u].made /\ target[u] \in Ims /\ (name \in im_list => target[u] = name)
                   /\ (chosen[u] # NoIm => name = chosen[u])
    <3>1. Back(u) => ctx[u].made
      BY <2>1 DEF Good, context_primary_im
    <3>2. Back(u) => target[u] \in Ims /\ (name \in im_list => target[u] = name)
      BY <1>1, FindIm DEF IInv
    <3>3. Back(u) => (chosen[u] # NoIm => name = chosen[u])
      BY <2>1 DEF Good, context_primary_im_name
    <3> QED BY <3>1, <3>2, <3>3
  <2> HIDE DEF name
  <2>4. CASE u \notin done /\ ctx'[u] = ctx[u]
    <3>1. chosen'[u] = chosen[u] /\ away'[u] = away[u]
      BY <1>1, <2>3, <2>4
    <3>2. Good(u)'
      BY <1>2, <2>1, <2>4, <3>1 DEF Good, StatesOf, context_primary_im, context_primary_im_name
    <3>3. Keeps(u)
      BY <2>4 DEF Keeps
    <3> QED BY <2>1, <2>2, <2>4, <3>2, <3>3
  <2>5. CASE u \notin done /\ Back(u) /\ ctx'[u] = Failed(u)
    <3> DEFINE c == ctx'[u]
    <3>1. /\ c \in Context /\ c.im = ctx[u].im /\ c.toggle = ctx[u].toggle
          /\ c.switcher = ctx[u].switcher /\ c.made = ctx[u].made
      BY <2>1, <2>5 DEF Context
    <3>2. chosen'[u] = chosen[u] /\ away'[u] = away[u]
      BY <1>1, <2>3, <2>5, <3>1
    <3> HIDE DEF c
    <3>3. Good(u)'
      BY <1>2, <2>1, <2>5, <3>1, <3>2, GoodFrame DEF c
    <3>4. Keeps(u)
      BY <2>1, <2>3, <2>5, <3>1, NothingAssumption DEF Keeps, c
    <3> QED BY <2>2, <3>1, <3>3, <3>4 DEF c
  <2>6. CASE u \notin done /\ Back(u) /\ ctx'[u] = Unmade(target[u])
    <3> DEFINE c == ctx'[u]
    <3>1. /\ c \in Context /\ c # NoContext /\ c.im = target[u] /\ c.made = FALSE
          /\ c.toggle = NoToggle
      BY <2>3, <2>6, UnmadeType DEF IInv
    <3>2. chosen'[u] = (IF target[u] # chosen[u] THEN NoIm ELSE chosen[u]) /\ away'[u] = NoContext
      BY <1>1, <2>6, <3>1
    <3> HIDE DEF c
    <3>3. Good(u)'
      BY <3>1, <3>2 DEF Good, context_primary_im, context_primary_im_name, c
    <3>4. Keeps(u)
      BY <2>3, <2>6, <3>1 DEF Keeps, c
    <3> QED BY <2>2, <3>1, <3>3, <3>4 DEF c
  <2>7. CASE u \in done /\ ctx'[u] = ResetToggle(u, target[u]) /\ ~Back(u)
    <3> DEFINE c == ctx'[u]
    <3>1. /\ ctx[u] \in Context /\ ctx[u] # NoContext /\ away'[u] = NoContext
          /\ chosen'[u] = chosen[u] /\ context_primary_im(ctx[u])
      BY <1>1, <2>1, <2>7 DEF Live
    <3>2. c = [ctx[u] EXCEPT !.toggle = NoToggle]
      BY <2>7, <3>1 DEF ResetToggle
    <3>3. /\ c \in Context /\ c.im = ctx[u].im /\ c.toggle = NoToggle
          /\ c.switcher = ctx[u].switcher /\ c.made = ctx[u].made /\ c # NoContext
      BY <3>1, <3>2, NothingAssumption DEF Context
    <3>4. chosen[u] # NoIm => ctx[u].im = chosen[u]
      BY <2>1, <3>1 DEF Good, context_primary_im_name
    <3> HIDE DEF c
    <3>5. Good(u)'
      BY <3>1, <3>3, <3>4 DEF Good, context_primary_im, context_primary_im_name, c
    <3>6. Keeps(u)
      BY <3>1, <3>3 DEF Keeps, c
    <3> QED BY <2>2, <3>3, <3>5, <3>6 DEF c
  <2>8. CASE u \in done /\ ctx'[u] = ResetToggle(u, target[u]) /\ Back(u)
    <3> DEFINE c == ctx'[u]
    <3>1. /\ c = NewContext(target[u]) /\ away'[u] = NoContext
          /\ chosen'[u] = ChosenAfter(u, name)
      BY <1>1, <2>8 DEF ResetToggle, name
    <3>2. /\ c \in Context /\ c.im = target[u] /\ c.switcher = button /\ c.made = TRUE
          /\ c.toggle = NoToggle /\ c # NoContext
      BY <2>3, <2>8, <3>1, NewContextType DEF IInv
    <3>3. ChosenAfter(u, name) # NoIm => target[u] = ChosenAfter(u, name)
      BY <2>3, <2>8 DEF ChosenAfter
    <3> HIDE DEF c
    <3>4. Good(u)'
      BY <3>1, <3>2, <3>3 DEF Good, context_primary_im, context_primary_im_name, c
    <3>5. Keeps(u)
      BY <2>3, <2>8, <3>2 DEF Keeps, c
    <3> QED BY <2>2, <3>2, <3>4, <3>5 DEF c
  <2> QED BY <1>1, <2>4, <2>5, <2>6, <2>7, <2>8
<1>4. /\ ctx' \in [Ucs -> Context \cup {NoContext}] /\ chosen' \in [Ucs -> Ims \cup {NoIm}]
      /\ away' \in [Ucs -> [im : Ims, mode : Modes] \cup {NoContext}]
  <2> HIDE DEF Back, Failed
  <2> QED BY <1>1, <1>3
<1>5. SwitcherFirst'
  BY <1>2, <1>3, SwitcherStep DEF IInv
<1>6. TypeOK'
  BY <1>2, <1>4 DEF IInv, TypeOK
<1> QED
  BY <1>3, <1>5, <1>6 DEF IInv

\* A refresh changes neither what a context shows nor what it remembers by name.
LEMMA RefreshFrame ==
  ASSUME NEW c \in Context
  PROVE  LET d == context_refresh_switcher_widget(c)
         IN  /\ d \in Context /\ d # NoContext /\ d.im = c.im /\ d.switcher = TRUE /\ d.made = c.made
             /\ c.toggle = NoToggle => d.toggle = NoToggle
             /\ context_primary_im(d) = context_primary_im(c)
             /\ context_primary_im_name(d) = context_primary_im_name(c)
<1> DEFINE d == context_refresh_switcher_widget(c)
<1>1. CASE c.toggle = NoToggle
  <2>1. d = [c EXCEPT !.switcher = TRUE]
    BY <1>1 DEF context_refresh_switcher_widget
  <2>2. /\ d \in Context /\ d.im = c.im /\ d.switcher = TRUE /\ d.toggle = c.toggle
        /\ d.made = c.made
    BY <2>1 DEF Context
  <2> HIDE DEF d
  <2> QED BY <1>1, <2>2, PrimaryFrame, NothingAssumption DEF d
<1>2. CASE c.toggle # NoToggle
  <2> DEFINE new == IF c.toggle.states # <<>> /\ c.toggle.states[1].kind = "widget"
                    THEN c.toggle.states ELSE <<WidgetItself>> \o c.toggle.states
             tog == [c.toggle EXCEPT !.states = new]
  <2>1. c.toggle \in ToggleState /\ c.toggle.states \in Seq(Acts)
    BY <1>2 DEF Context, ToggleState
  <2>2. <<WidgetItself>> \in Seq(Acts)
    BY DEF Acts
  <2>3. new \in Seq(Acts)
    BY <2>1, <2>2
  <2> HIDE DEF new
  <2>4. tog \in ToggleState /\ tog.primary = c.toggle.primary /\ tog.name = c.toggle.name
    BY <2>1, <2>3 DEF ToggleState
  <2>5. d = [c EXCEPT !.switcher = TRUE, !.toggle = tog]
    BY <1>2 DEF context_refresh_switcher_widget, new
  <2> HIDE DEF tog, d
  <2>6. /\ d \in Context /\ d.im = c.im /\ d.switcher = TRUE /\ d.toggle = tog
        /\ d.made = c.made
    BY <2>4, <2>5 DEF Context
  <2>7. tog # NoToggle
    BY <2>4, NothingAssumption
  <2> QED BY <1>2, <2>4, <2>6, <2>7, NothingAssumption
          DEF context_primary_im, context_primary_im_name, d
<1> QED BY <1>1, <1>2

\* The button: with it on, the refresh gives every context it reaches the
\* switcher, and it reaches all if all have widgets.
LEMMA ButtonStep ==
  ASSUME IInv, NEW on \in BOOLEAN, SetButton(on)
  PROVE  IInv'
<1>1. PICK r \in Reached :
        ctx' = [u \in Ucs |-> IF on /\ u \in r THEN context_refresh_switcher_widget(ctx[u]) ELSE ctx[u]]
  BY DEF SetButton
<1>2. /\ button' = on /\ UNCHANGED <<stray, im_list, alt, chosen>>
      /\ away' = [u \in Ucs |-> NoContext]
      /\ registered' \in BOOLEAN /\ enabled' \in Seq(Ims) \ {<<>>}
  <2>1. RegisterSwitcher(on /\ (Live # {} \/ stray))
    BY DEF SetButton
  <2>3. registered' \in BOOLEAN /\ enabled' \in Seq(Ims) \ {<<>>}
    BY <2>1, EnabledType DEF RegisterSwitcher, IInv, TypeOK
  <2> QED BY <2>3 DEF SetButton
<1>3. r \subseteq Live /\ ((\A u \in Live : ctx[u].made) /\ ~stray => r = Live)
  <2>1. Cardinality({}) # 1
    BY FS_EmptySet
  <2> QED BY <2>1 DEF Reached
<1>4. ASSUME NEW u \in Ucs
      PROVE  /\ ctx'[u] \in Context \cup {NoContext} /\ Good(u)' /\ (u \in Live <=> u \in Live')
             /\ u \in Live => /\ ctx'[u].made = ctx[u].made
                              /\ on /\ u \in r => ctx'[u].switcher
  <2>1. Good(u) /\ ctx[u] \in Context \cup {NoContext} /\ away'[u] = NoContext /\ chosen'[u] = chosen[u]
    BY <1>2 DEF IInv, TypeOK
  <2>2. CASE on /\ u \in r
    <3> DEFINE c == ctx[u]
               d == context_refresh_switcher_widget(c)
    <3>1. c \in Context /\ c # NoContext /\ ctx'[u] = d /\ u \in Live
      BY <1>1, <1>3, <2>1, <2>2 DEF Live
    <3>2. /\ d \in Context /\ d # NoContext /\ d.im = c.im /\ d.switcher = TRUE /\ d.made = c.made
          /\ c.toggle = NoToggle => d.toggle = NoToggle
          /\ context_primary_im_name(d) = context_primary_im_name(c)
      BY <3>1, RefreshFrame
    <3> HIDE DEF c, d
    <3>3. /\ chosen[u] # NoIm => context_primary_im_name(c) = chosen[u]
          /\ ~c.made => c.toggle = NoToggle
      BY <2>1, <3>1 DEF Good, c
    <3>4. Good(u)'
      BY <2>1, <3>1, <3>2, <3>3 DEF Good, context_primary_im, context_primary_im_name
    <3> QED BY <3>1, <3>2, <3>4 DEF Live, c
  <2>3. CASE ~(on /\ u \in r)
    <3>1. ctx'[u] = ctx[u]
      BY <1>1, <2>3
    <3> QED BY <2>1, <2>3, <3>1 DEF Good, context_primary_im, context_primary_im_name, Live
  <2> QED BY <2>2, <2>3
<1>5. ctx' \in [Ucs -> Context \cup {NoContext}]
  BY <1>1, <1>4
<1>6. TypeOK'
  BY <1>2, <1>5 DEF IInv, TypeOK
<1>7. SwitcherFirst'
  <2> SUFFICES ASSUME on, ~stray, \A u \in Live' : ctx'[u].made, NEW v \in Live'
               PROVE  ctx'[v].switcher
    BY <1>2 DEF SwitcherFirst
  <2>1. Live' \subseteq Ucs /\ Live \subseteq Ucs
    BY DEF Live
  <2>2. \A u \in Live : ctx[u].made
    BY <1>4, <2>1
  <2> QED BY <1>3, <1>4, <2>1, <2>2
<1> QED
  BY <1>4, <1>6, <1>7 DEF IInv

\* A new list of enabled input methods: what contexts show and remember stays.
LEMMA ListStep ==
  ASSUME IInv, NEW list \in EnabledLists, SetEnabledList(list)
  PROVE  IInv'
<1>1. /\ UNCHANGED <<stray, alt, button, chosen, away>>
      /\ registered' \in BOOLEAN /\ im_list' = ToSet(list) \cup {Direct}
      /\ enabled' = IF button THEN WithDirect(list) ELSE list
  BY DEF SetEnabledList, IInv, TypeOK
<1>2. PICK r \in SUBSET {u \in Live : button /\ ctx[u].made} :
        ctx' = [u \in Ucs |-> IF u \in r THEN [ctx[u] EXCEPT !.mode = Default, !.switcher = TRUE]
                              ELSE ctx[u]]
  BY DEF SetEnabledList
<1>3. list \in Seq(Ims) \ {<<>>} /\ enabled' \in Seq(Ims) \ {<<>>}
  BY <1>1, ImAssumption, EnabledType
<1>4. im_list' \in SUBSET Ims /\ Direct \in im_list'
  <2>1. ToSet(list) \subseteq Ims
    BY <1>3 DEF ToSet
  <2> QED BY <1>1, <2>1 DEF Ims
<1>5. ASSUME NEW u \in Ucs
      PROVE  ctx'[u] \in Context \cup {NoContext} /\ Good(u)' /\ Keeps(u)
  <2>1. Good(u) /\ ctx[u] \in Context \cup {NoContext}
    BY DEF IInv, TypeOK
  <2>2. CASE u \in r
    <3> DEFINE c == [ctx[u] EXCEPT !.mode = Default, !.switcher = TRUE]
    <3>1. ctx[u] \in Context /\ ctx[u] # NoContext /\ ctx'[u] = c
      BY <1>2, <2>1, <2>2 DEF Live
    <3>2. /\ c \in Context /\ c.im = ctx[u].im /\ c.toggle = ctx[u].toggle /\ c.switcher = TRUE
          /\ c.made = ctx[u].made /\ c # NoContext
      BY <3>1, ImAssumption, NothingAssumption DEF Context
    <3> HIDE DEF c
    <3>3. Keeps(u)
      BY <3>1, <3>2 DEF Keeps
    <3> QED BY <1>1, <2>1, <3>1, <3>2, <3>3, GoodFrame
  <2>3. CASE u \notin r
    <3>1. ctx'[u] = ctx[u]
      BY <1>2, <2>3
    <3>2. Keeps(u)
      BY <3>1 DEF Keeps
    <3> QED BY <1>1, <2>1, <3>1, <3>2
            DEF Good, StatesOf, context_primary_im, context_primary_im_name
  <2> QED BY <2>2, <2>3
<1>6. ctx' \in [Ucs -> Context \cup {NoContext}]
  BY <1>2, <1>5
<1>7. TypeOK'
  BY <1>1, <1>3, <1>4, <1>6 DEF IInv, TypeOK
<1>8. SwitcherFirst'
  BY <1>1, <1>5, SwitcherStep DEF IInv
<1> QED
  BY <1>5, <1>7, <1>8 DEF IInv

-----------------------------------------------------------------------------
(* The theorems. *)

LEMMA InitIInv == Init => IInv
<1> SUFFICES ASSUME Init PROVE IInv
  OBVIOUS
<1>1. enabled \in Seq(Ims) \ {<<>>}
  BY ImAssumption DEF Init
<1>2. im_list \in SUBSET Ims /\ Direct \in im_list /\ alt \in Ims
  <2>1. {enabled[k] : k \in DOMAIN enabled} \subseteq Ims
    BY <1>1
  <2> QED BY <2>1 DEF Init, Ims
<1>3. TypeOK
  BY <1>1, <1>2 DEF Init, TypeOK
<1> QED
  BY <1>3 DEF Init, IInv, Good, SwitcherFirst, Live

LEMMA NextIInv == IInv /\ [Next]_vars => IInv'
<1> SUFFICES ASSUME IInv, [Next]_vars PROVE IInv'
  OBVIOUS
<1>1. ASSUME NEW u \in Ucs, uim_create_context(u) \/ uim_release_context(u) PROVE IInv'
  BY <1>1, CreateStep, ReleaseStep
<1>2. ASSUME NEW u \in Ucs, PressToggleKey(u) \/ PressSwitchKey(u) \/ PressEngineKey(u) PROVE IInv'
  BY <1>2, KeyStep
<1>3. ASSUME NEW u \in Ucs, uim_switch_im(u) PROVE IInv'
  BY <1>3, SwitchStep DEF uim_switch_im
<1>4. ASSUME NEW u \in Ucs, NEW act \in Acts, uim_prop_activate(u, act) PROVE IInv'
  BY <1>4, PropStep
<1>5. ASSUME NEW im \in Ims, SetAltIm(im) PROVE IInv'
  BY <1>5, AltStep
<1>6. ASSUME NEW on \in BOOLEAN, SetButton(on) PROVE IInv'
  BY <1>6, ButtonStep
<1>7. ASSUME NEW list \in EnabledLists, SetEnabledList(list) PROVE IInv'
  BY <1>7, ListStep
<1>8. CASE UNCHANGED vars
  BY <1>8, UnchangedStep
<1> QED
  BY <1>1, <1>2, <1>3, <1>4, <1>5, <1>6, <1>7, <1>8 DEF Next

\* Every context keeps its type, however it is switched, toggled and refreshed.
THEOREM TypeCorrect == Spec => []TypeOK
<1>1. IInv => TypeOK
  BY DEF IInv
<1> QED
  BY InitIInv, NextIInv, <1>1, PTL DEF Spec

\* context-primary-im-name answers what the user chose last, after any sequence
\* of toggles, switches, resets, failures and new settings.
THEOREM PrimaryChosen == Spec => []PrimaryIsChosen
<1>1. IInv => PrimaryIsChosen
  BY DEF IInv, Good, PrimaryIsChosen, Live
<1> QED
  BY InitIInv, NextIInv, <1>1, PTL DEF Spec

\* With the switcher button on, the widget context-update-widget-states! skips
\* is the switcher.
THEOREM SwitcherIsFirst == Spec => []SwitcherFirst
<1>1. IInv => SwitcherFirst
  BY DEF IInv
<1> QED
  BY InitIInv, NextIInv, <1>1, PTL DEF Spec

\* What a toggle remembered of the widgets is what the toggle back restores.
LEMMA RestoreStep ==
  ASSUME IInv, NEW u \in Live, ComesBack(u)
  PROVE  Restored(u)
<1> DEFINE c == ctx[u]
           cur == [primary |-> context_primary_im(c), name |-> c.im,
                   states |-> context_current_widget_states(c)]
<1>1. /\ u \in Ucs /\ c \in Context /\ Good(u) /\ away[u] # NoContext
      /\ away[u] \in [im : Ims, mode : Modes]
  BY DEF Live, IInv, TypeOK, ComesBack
<1>2. /\ c.toggle \in ToggleState /\ c.toggle # NoToggle
      /\ c.toggle.name = away[u].im /\ c.toggle.states = StatesOf(away[u].im, away[u].mode)
      /\ away[u].im \in Ims /\ away[u].mode \in Modes /\ c.toggle.states \in Seq(Acts)
  BY <1>1, PrimaryType, NothingAssumption DEF Good, ComesBack, ToggleState
<1>3. /\ ~SwitchFails(u)
      /\ \A im \in find_im(c.toggle.name) : ~CutShort(u, NewContext(im)) /\ ~CutShort(u, Unmade(im))
  <2>1. ASSUME ctx' = [ctx EXCEPT ![u].engine = "released"]
        PROVE  ctx'[u].toggle = ctx[u].toggle
    BY <1>1, <2>1 DEF IInv, TypeOK, Context
  <2>2. ASSUME NEW im \in find_im(c.toggle.name), NEW d \in {NewContext(im), Unmade(im)},
               ctx' = [ctx EXCEPT ![u] = d]
        PROVE  ctx'[u].toggle = NoToggle
    <3>1. im \in Ims
      BY FindIm DEF IInv
    <3>2. d.toggle = NoToggle
      BY <3>1, NewContextType, UnmadeType DEF IInv
    <3> QED BY <1>1, <2>2, <3>2 DEF IInv, TypeOK
  <2> QED BY <2>1, <2>2 DEF SwitchFails, CutShort, ComesBack
<1>4. PICK im \in find_im(c.toggle.name) :
        ctx' = [ctx EXCEPT ![u] =
                  [context_update_widget_states(NewContext(im), c.toggle.states) EXCEPT !.toggle = cur]]
  BY <1>2, <1>3 DEF ComesBack, toggle_im
<1>5. im = away[u].im
  BY <1>2, FindIm DEF ComesBack, IInv
<1> DEFINE d == context_update_widget_states(NewContext(im), c.toggle.states)
<1>6. d \in Context /\ d.im = im /\ d.mode = away[u].mode
  BY <1>2, <1>5, RestoreStates DEF IInv
<1> HIDE DEF d, cur
<1>7. ctx'[u] = [d EXCEPT !.toggle = cur]
  BY <1>1, <1>4 DEF IInv, TypeOK, d
<1>8. ctx'[u].im = d.im /\ ctx'[u].mode = d.mode
  BY <1>6, <1>7 DEF Context
<1> QED
  BY <1>5, <1>6, <1>8 DEF Restored

\* Toggling away and back gives the user the mode of before (toggle-im and
\* context-update-widget-states!), wherever a list of states can be trusted.
THEOREM TogglesBack == Spec => ToggleBackRestores
<1>1. IInv => \A u \in Live : ComesBack(u) => Restored(u)
  BY RestoreStep
<1> QED
  BY InitIInv, NextIInv, <1>1, PTL DEF Spec, ToggleBackRestores

-----------------------------------------------------------------------------
(* The switch key.  The property walks along the list by a function defined *)
(* recursively; that there is such a function, and what it visits, is proved *)
(* by induction, which is the principle of the least number here.            *)

\* A walk: a function applied over and over.
Walks(S, g, a, N) == \E f \in [0..N -> S] : f[0] = a /\ \A k \in 1..N : f[k] = g[f[k - 1]]

LEMMA WalkExists ==
  ASSUME NEW S, NEW g \in [S -> S], NEW a \in S, NEW N \in Nat
  PROVE  Walks(S, g, a, N)
<1> DEFINE T == {n \in Nat : ~Walks(S, g, a, n)}
<1>1. Walks(S, g, a, 0)
  <2> DEFINE f == [k \in 0..0 |-> a]
  <2>1. f \in [0..0 -> S] /\ f[0] = a /\ \A k \in 1..0 : f[k] = g[f[k - 1]]
    OBVIOUS
  <2> QED BY <2>1 DEF Walks
<1>2. ASSUME NEW n \in Nat, Walks(S, g, a, n) PROVE Walks(S, g, a, n + 1)
  <2>1. PICK f \in [0..n -> S] : f[0] = a /\ \A k \in 1..n : f[k] = g[f[k - 1]]
    BY <1>2 DEF Walks
  <2> DEFINE h == [k \in 0..(n + 1) |-> IF k = n + 1 THEN g[f[n]] ELSE f[k]]
  <2>2. h \in [0..(n + 1) -> S]
    OBVIOUS
  <2>3. h[0] = a
    BY <2>1
  <2>4. ASSUME NEW k \in 1..(n + 1) PROVE h[k] = g[h[k - 1]]
    <3>1. CASE k = n + 1
      BY <3>1
    <3>2. CASE k # n + 1
      <4>1. k \in 1..n /\ k - 1 \in 0..n /\ k - 1 # n + 1
        BY <2>4, <3>2
      <4>2. h[k] = f[k] /\ h[k - 1] = f[k - 1]
        BY <3>2, <4>1
      <4> QED BY <2>1, <4>1, <4>2
    <3> QED BY <3>1, <3>2
  <2> QED BY <2>2, <2>3, <2>4 DEF Walks
<1>3. T = {}
  <2> SUFFICES ASSUME T # {} PROVE FALSE
    OBVIOUS
  <2>1. PICK n \in T : \A m \in T : n <= m
    BY Least
  <2>2. n # 0 /\ n - 1 \in Nat /\ n - 1 \notin T
    BY <1>1, <2>1
  <2> QED BY <1>2, <2>1, <2>2
<1> QED
  BY <1>3

\* Where a name is in the list of enabled input methods.
Index(name) == SelectInSeq(enabled, LAMBDA x : x = name)

LEMMA Position ==
  ASSUME TypeOK, IsInjective(enabled), NEW name
  PROVE  /\ name \notin ToSet(enabled) => Index(name) = 0
         /\ \A k \in 1..Len(enabled) : enabled[k] = name => Index(name) = k
<1> DEFINE I == {i \in 1..Len(enabled) : enabled[i] = name}
<1>1. enabled \in Seq(Ims) /\ Len(enabled) \in Nat /\ DOMAIN enabled = 1..Len(enabled)
  BY DEF TypeOK
<1>2. Index(name) = IF I # {} THEN Min(I) ELSE 0
  BY DEF Index, SelectInSeq
<1>3. name \notin ToSet(enabled) => I = {}
  BY <1>1 DEF ToSet
<1>4. ASSUME NEW k \in 1..Len(enabled), enabled[k] = name PROVE Min(I) = k /\ I # {}
  <2>1. I = {k}
    BY <1>1, <1>4 DEF IsInjective
  <2> QED BY <2>1 DEF Min
<1> QED
  BY <1>2, <1>3, <1>4

LEMMA NextIm ==
  ASSUME TypeOK, IsInjective(enabled)
  PROVE  /\ \A k \in 1..Len(enabled) - 1 : next_im(enabled[k]) = enabled[k + 1]
         /\ next_im(enabled[Len(enabled)]) = enabled[1]
         /\ \A name : name \notin ToSet(enabled) => next_im(name) = enabled[1]
<1>1. enabled \in Seq(Ims) /\ Len(enabled) \in Nat \ {0}
  BY DEF TypeOK
<1>2. \A name : next_im(name) = IF Index(name) # 0 /\ Index(name) < Len(enabled)
                                THEN enabled[Index(name) + 1] ELSE enabled[1]
  BY DEF next_im, Index
<1>3. \A k \in 1..Len(enabled) : Index(enabled[k]) = k
  BY Position
<1>4. \A name : name \notin ToSet(enabled) => Index(name) = 0
  BY Position
<1> QED
  BY <1>1, <1>2, <1>3, <1>4

\* Where the switch key stops.
Stops(i) == i \in 1..Len(enabled) /\ (enabled[i] # Direct \/ ~SkipDirect)

\* From one stop it goes to the next.
LEMMA NextStop ==
  ASSUME TypeOK, IsInjective(enabled)
  PROVE  LET L == Len(enabled) IN
         /\ \A k \in 1..L - 1 : Stops(k + 1) => next_im_for_switch_im(enabled[k]) = enabled[k + 1]
         /\ \A k \in 1..L - 2 : ~Stops(k + 1) =>
              Stops(k + 2) /\ Stops(k) /\ next_im_for_switch_im(enabled[k]) = enabled[k + 2]
         /\ Stops(1) => next_im_for_switch_im(enabled[L]) = enabled[1]
         /\ ~Stops(1) /\ L >= 2 => Stops(2) /\ next_im_for_switch_im(enabled[L]) = enabled[2]
         /\ ~Stops(L) /\ L >= 2 =>
              Stops(1) /\ Stops(L - 1) /\ next_im_for_switch_im(enabled[L - 1]) = enabled[1]
<1> DEFINE L == Len(enabled)
<1>1. enabled \in Seq(Ims) /\ L \in Nat \ {0}
  BY DEF TypeOK
<1>2. \A i, j \in 1..L : enabled[i] = enabled[j] => i = j
  BY <1>1 DEF IsInjective
<1>3. \A i \in 1..L : ~Stops(i) => SkipDirect /\ enabled[i] = Direct
  BY DEF Stops
<1>4. \A i, j \in 1..L : ~Stops(i) /\ i # j => Stops(j)
  BY <1>2, <1>3 DEF Stops
<1>5. \A name : \A i \in 1..L : next_im(name) = enabled[i] /\ Stops(i) =>
        next_im_for_switch_im(name) = enabled[i]
  BY DEF Stops, next_im_for_switch_im
<1>6. \A name : \A i \in 1..L : next_im(name) = enabled[i] /\ ~Stops(i) =>
        next_im_for_switch_im(name) = next_im(enabled[i])
  BY <1>3 DEF next_im_for_switch_im
<1>7. \A k \in 1..L - 1 : Stops(k + 1) => next_im_for_switch_im(enabled[k]) = enabled[k + 1]
  BY <1>1, <1>5, NextIm
<1>8. ASSUME NEW k \in 1..L - 2, ~Stops(k + 1)
      PROVE  Stops(k + 2) /\ Stops(k) /\ next_im_for_switch_im(enabled[k]) = enabled[k + 2]
  <2>1. k \in 1..L - 1 /\ k + 1 \in 1..L - 1 /\ k + 1 \in 1..L /\ (k + 1) + 1 = k + 2
        /\ k \in 1..L /\ k + 2 \in 1..L /\ k # k + 1 /\ k + 2 # k + 1
    BY <1>1
  <2>2. Stops(k + 2) /\ Stops(k)
    BY <1>4, <1>8, <2>1
  <2>3. next_im(enabled[k]) = enabled[k + 1] /\ next_im(enabled[k + 1]) = enabled[k + 2]
    BY <2>1, NextIm
  <2> QED BY <1>6, <1>8, <2>1, <2>2, <2>3
<1>9. 1 \in 1..L /\ L \in 1..L /\ (L >= 2 => 2 \in 1..L /\ L - 1 \in 1..L /\ L - 1 \in 1..L - 1 /\ 1 \in 1..L - 1)
  BY <1>1
<1>10. Stops(1) => next_im_for_switch_im(enabled[L]) = enabled[1]
  BY <1>5, <1>9, NextIm
<1>11. ASSUME ~Stops(1), L >= 2 PROVE Stops(2) /\ next_im_for_switch_im(enabled[L]) = enabled[2]
  <2>1. next_im(enabled[1]) = enabled[1 + 1] /\ next_im(enabled[L]) = enabled[1]
    BY <1>9, <1>11, NextIm
  <2>2. Stops(2)
    BY <1>4, <1>9, <1>11
  <2> QED BY <1>6, <1>9, <1>11, <2>1, <2>2
<1>12. ASSUME ~Stops(L), L >= 2
       PROVE  Stops(1) /\ Stops(L - 1) /\ next_im_for_switch_im(enabled[L - 1]) = enabled[1]
  <2>1. (L - 1) + 1 = L /\ 1 # L /\ L - 1 # L
    <3> HIDE DEF L
    <3> QED BY <1>1, <1>12
  <2>2. next_im(enabled[L - 1]) = enabled[L] /\ next_im(enabled[L]) = enabled[1]
    BY <1>9, <1>12, <2>1, NextIm
  <2>3. Stops(1) /\ Stops(L - 1)
    BY <1>4, <1>9, <1>12, <2>1
  <2> QED BY <1>6, <1>9, <1>12, <2>2, <2>3
<1> QED
  BY <1>7, <1>8, <1>10, <1>11, <1>12

\* Wherever the context is, the first press leads to a stop.
LEMMA FirstStop ==
  ASSUME TypeOK, IsInjective(enabled), NEW t, Stops(t), NEW name
  PROVE  \E j \in 1..Len(enabled) : Stops(j) /\ next_im_for_switch_im(name) = enabled[j]
<1> DEFINE L == Len(enabled)
<1>1. enabled \in Seq(Ims) /\ L \in Nat \ {0} /\ t \in 1..L
  BY DEF TypeOK, Stops
<1>2. \A k \in 1..L : next_im(enabled[k]) \in {enabled[i] : i \in 1..L}
  <2> SUFFICES ASSUME NEW k \in 1..L PROVE \E i \in 1..L : next_im(enabled[k]) = enabled[i]
    OBVIOUS
  <2>1. CASE k = L
    BY <1>1, <2>1, NextIm
  <2>2. CASE k # L
    <3>1. k \in 1..L - 1 /\ k + 1 \in 1..L
      BY <1>1, <2>2
    <3> QED BY <3>1, NextIm
  <2> QED BY <2>1, <2>2
<1>3. PICK i \in 1..L : next_im(name) = enabled[i]
  <2>1. CASE name \in ToSet(enabled)
    <3>1. PICK k \in 1..L : name = enabled[k]
      BY <1>1, <2>1 DEF ToSet
    <3> QED BY <1>2, <3>1
  <2>2. CASE name \notin ToSet(enabled)
    BY <1>1, <2>2, NextIm
  <2> QED BY <2>1, <2>2
<1>4. CASE Stops(i)
  BY <1>3, <1>4 DEF Stops, next_im_for_switch_im
<1>5. CASE ~Stops(i)
  <2>1. enabled[i] = Direct /\ next_im_for_switch_im(name) = next_im(enabled[i]) /\ i # t
    BY <1>3, <1>5 DEF Stops, next_im_for_switch_im
  <2>2. \A k \in 1..L : k # i => Stops(k)
    BY <1>1, <1>3, <2>1 DEF Stops, IsInjective
  <2>3. CASE i = L
    BY <1>1, <2>1, <2>2, <2>3, NextIm
  <2>4. CASE i # L
    <3>1. i \in 1..L - 1 /\ i + 1 \in 1..L /\ i + 1 # i
      BY <1>1, <1>3, <2>4
    <3> QED BY <2>1, <2>2, <3>1, NextIm
  <2> QED BY <2>3, <2>4
<1> QED
  BY <1>4, <1>5

\* What pressing the switch key over and over visits.
Visits(w) == \A k \in 1..Len(enabled) + 1 : w[k] = next_im_for_switch_im(w[k - 1])

Passes(w, a, b, c) == \A i \in a..b : Stops(i) => \E k \in c..c + (i - a) : w[k] = enabled[i]

\* From a stop the walk comes by all that are behind it.
LEMMA Onwards ==
  ASSUME TypeOK, IsInjective(enabled),
         NEW w, Visits(w),
         NEW a, Stops(a), NEW b \in a..Len(enabled), NEW c \in 0..Len(enabled) + 1,
         w[c] = enabled[a], c + (b - a) <= Len(enabled) + 1
  PROVE  Passes(w, a, b, c)
<1> DEFINE L == Len(enabled)
           Visited(i) == \E k \in c..c + (i - a) : w[k] = enabled[i]
           T == {i \in a..b : Stops(i) /\ ~Visited(i)}
<1>1. enabled \in Seq(Ims) /\ L \in Nat \ {0} /\ a \in 1..L /\ c \in Nat /\ b \in 1..L
  BY DEF TypeOK, Stops
<1>2. Visited(a)
  BY <1>1
<1>3. ASSUME NEW i \in a..b, i # a, Stops(i), NEW p \in a..b, p < i, Stops(p), Visited(p),
             next_im_for_switch_im(enabled[p]) = enabled[i]
      PROVE  Visited(i)
  <2>1. PICK k \in c..c + (p - a) : w[k] = enabled[p]
    BY <1>3
  <2>2. k + 1 \in 1..L + 1 /\ k + 1 \in c..c + (i - a) /\ (k + 1) - 1 = k
    BY SMTT(60), <1>1, <1>3, <2>1
  <2>3. w[k + 1] = enabled[i]
    BY <1>3, <2>1, <2>2 DEF Visits
  <2> QED BY <2>2, <2>3
<1> HIDE DEF Visited
<1>4. T = {}
  <2> SUFFICES ASSUME T # {} PROVE FALSE
    OBVIOUS
  <2>1. T \in SUBSET Nat
    BY <1>1
  <2>2. PICK i \in T : \A m \in T : i <= m
    BY <2>1, Least
  <2>3. i \in a..b /\ Stops(i) /\ ~Visited(i) /\ i # a /\ i \in 1..L /\ i - 1 \in a..b /\ i - 1 \in 1..L - 1
        /\ (i - 1) + 1 = i
    BY <1>1, <1>2, <2>2
  <2>4. \A p \in a..b : p < i /\ Stops(p) => Visited(p)
    BY <1>1, <2>2
  <2>5. CASE Stops(i - 1)
    <3>1. next_im_for_switch_im(enabled[i - 1]) = enabled[i]
      BY <2>3, NextStop
    <3> QED BY <1>1, <1>3, <2>3, <2>4, <2>5, <3>1
  <2>6. CASE ~Stops(i - 1)
    <3>1. i - 1 # a
      BY <2>6
    <3>2. i - 2 \in a..b /\ i - 2 \in 1..L - 2 /\ (i - 2) + 1 = i - 1 /\ (i - 2) + 2 = i /\ i - 2 < i
      BY <1>1, <2>3, <3>1
    <3>3. Stops(i - 2) /\ next_im_for_switch_im(enabled[i - 2]) = enabled[i]
      BY <2>6, <3>2, NextStop
    <3> QED BY <1>3, <2>3, <2>4, <3>2, <3>3
  <2> QED BY <2>5, <2>6
<1> QED
  BY <1>4 DEF Visited, Passes

\* All around the list.
LEMMA Around ==
  ASSUME TypeOK, IsInjective(enabled), NEW t, Stops(t),
         NEW w, Visits(w)
  PROVE  \E k \in 0..Len(enabled) + 1 : w[k] = enabled[t]
<1> DEFINE L == Len(enabled)
<1>1. enabled \in Seq(Ims) /\ L \in Nat \ {0} /\ t \in 1..L
  BY DEF TypeOK, Stops
<1>2. 1 \in 1..L + 1 /\ 1 \in 0..L + 1 /\ 1 - 1 = 0
  BY <1>1
<1>3. PICK j \in 1..L : Stops(j) /\ w[1] = enabled[j]
  <2>1. w[1] = next_im_for_switch_im(w[0])
    BY <1>2 DEF Visits
  <2> QED BY <2>1, FirstStop
<1>4. ASSUME NEW i \in j..L, Stops(i) PROVE \E k \in 1..1 + (i - j) : w[k] = enabled[i]
  <2>1. L \in j..L /\ 1 + (L - j) <= L + 1
    BY <1>1, <1>3
  <2>2. Passes(w, j, L, 1)
    BY <1>2, <1>3, <2>1, Onwards
  <2> QED BY <1>4, <2>2 DEF Passes
<1>5. CASE t >= j
  <2>1. t \in j..L
    BY <1>1, <1>5
  <2>2. PICK k \in 1..1 + (t - j) : w[k] = enabled[t]
    BY <1>4, <2>1
  <2>3. k \in 0..L + 1
    BY <1>1, <1>3, <2>1, <2>2
  <2> QED BY <2>2, <2>3
<1>6. CASE t < j
  <2>1. L >= 2 /\ j >= 2
    BY <1>1, <1>3, <1>6
  <2>2. PICK m \in j..L, f \in {1, 2} :
          Stops(m) /\ Stops(f) /\ f <= t /\ next_im_for_switch_im(enabled[m]) = enabled[f]
    <3>1. CASE Stops(L) /\ Stops(1)
      <4>1. L \in j..L /\ 1 <= t
        BY <1>1, <1>3
      <4> QED BY <3>1, <4>1, NextStop
    <3>2. CASE Stops(L) /\ ~Stops(1)
      <4>1. L \in j..L /\ 2 <= t
        <5>1. t # 1
          BY <3>2
        <5> QED BY <1>1, <1>3, <5>1
      <4> QED BY <2>1, <3>2, <4>1, NextStop
    <3>3. CASE ~Stops(L)
      <4>1. j # L
        BY <1>3, <3>3
      <4>2. L - 1 \in j..L /\ 1 <= t
        BY <1>1, <1>3, <4>1
      <4> QED BY <2>1, <3>3, <4>2, NextStop
    <3> QED BY <3>1, <3>2, <3>3
  <2>3. PICK k \in 1..1 + (m - j) : w[k] = enabled[m]
    BY <1>4, <2>2
  <2>4. k + 1 \in 1..L + 1 /\ k + 1 \in 0..L + 1 /\ (k + 1) - 1 = k
        /\ (k + 1) + (t - f) <= L + 1 /\ t \in f..L /\ t \in f..t
    BY <1>1, <1>3, <1>6, <2>1, <2>2, <2>3
  <2>5. w[k + 1] = enabled[f]
    BY <2>2, <2>3, <2>4 DEF Visits
  <2>6. PICK n \in (k + 1)..(k + 1) + (t - f) : w[n] = enabled[t]
    <3>1. Passes(w, f, t, k + 1)
      BY <2>2, <2>4, <2>5, Onwards
    <3> QED BY <2>4, <3>1 DEF Passes
  <2>7. n \in 0..L + 1
    BY <1>1, <2>4, <2>6
  <2> QED BY <2>6, <2>7
<1> QED
  BY <1>1, <1>3, <1>5, <1>6

\* The walk of the property is one: the function that it is defined to be exists.
LEMMA Reaches == TypeOK /\ IsInjective(enabled) => SwitchKeyReachesAll
<1> SUFFICES ASSUME TypeOK, IsInjective(enabled), NEW u \in Live
             PROVE  LET visited[n \in 0..Len(enabled) + 1] ==
                          IF n = 0 THEN ctx[u].im ELSE next_im_for_switch_im(visited[n - 1])
                    IN  ToSet(enabled) \ {Direct} \subseteq {visited[n] : n \in 0..Len(enabled) + 1}
  BY DEF SwitchKeyReachesAll
<1> DEFINE N == Len(enabled) + 1
           visited[n \in 0..N] == IF n = 0 THEN ctx[u].im ELSE next_im_for_switch_im(visited[n - 1])
           step == [x \in Ims |-> next_im_for_switch_im(x)]
<1>1. enabled \in Seq(Ims) /\ enabled # <<>> /\ N \in Nat /\ ctx[u].im \in Ims
  <2>1. ctx[u] \in Context
    BY DEF TypeOK, Live
  <2> QED BY <2>1 DEF TypeOK, Context
<1>2. step \in [Ims -> Ims]
  <2> SUFFICES ASSUME NEW x \in Ims PROVE next_im_for_switch_im(x) \in Ims
    OBVIOUS
  <2>1. \A name : next_im(name) \in Ims
    <3> SUFFICES ASSUME NEW name PROVE next_im(name) \in Ims
      OBVIOUS
    <3>1. CASE name \notin ToSet(enabled)
      BY <1>1, <3>1, NextIm
    <3>2. CASE name \in ToSet(enabled)
      <4>1. PICK k \in 1..Len(enabled) : name = enabled[k]
        BY <1>1, <3>2 DEF ToSet
      <4>2. CASE k = Len(enabled)
        BY <1>1, <4>1, <4>2, NextIm
      <4>3. CASE k # Len(enabled)
        <5>1. k \in 1..Len(enabled) - 1 /\ k + 1 \in 1..Len(enabled)
          BY <1>1, <4>3
        <5> QED BY <1>1, <4>1, <5>1, NextIm
      <4> QED BY <4>2, <4>3
    <3> QED BY <3>1, <3>2
  <2> QED BY <2>1 DEF next_im_for_switch_im
<1>3. PICK f \in [0..N -> Ims] : f[0] = ctx[u].im /\ \A k \in 1..N : f[k] = step[f[k - 1]]
  <2>1. Walks(Ims, step, ctx[u].im, N)
    <3> HIDE DEF step, N
    <3> QED BY <1>1, <1>2, WalkExists
  <2> QED BY <2>1 DEF Walks
<1>4. f = [n \in 0..N |-> IF n = 0 THEN ctx[u].im ELSE next_im_for_switch_im(f[n - 1])]
  <2>1. ASSUME NEW n \in 0..N
        PROVE  f[n] = IF n = 0 THEN ctx[u].im ELSE next_im_for_switch_im(f[n - 1])
    <3>1. n # 0 => n \in 1..N /\ f[n - 1] \in Ims
      BY <1>1
    <3> QED BY <1>3, <3>1
  <2> QED BY <2>1
<1>5. visited = [n \in 0..N |-> IF n = 0 THEN ctx[u].im ELSE next_im_for_switch_im(visited[n - 1])]
  BY <1>4
<1> HIDE DEF visited, step
<1>6. ToSet(enabled) \ {Direct} \subseteq {visited[n] : n \in 0..N}
  <2>1. \A k \in 1..N : visited[k] = next_im_for_switch_im(visited[k - 1])
    <3> SUFFICES ASSUME NEW k \in 1..N PROVE visited[k] = next_im_for_switch_im(visited[k - 1])
      OBVIOUS
    <3>1. k \in 0..N /\ k # 0
      BY <1>1
    <3> QED BY <1>5, <3>1
  <2>2. Visits(visited)
    BY <2>1 DEF Visits
  <2>3. ASSUME NEW x \in ToSet(enabled) \ {Direct} PROVE x \in {visited[n] : n \in 0..N}
    <3>1. PICK t \in 1..Len(enabled) : x = enabled[t]
      BY <1>1, <2>3 DEF ToSet
    <3>2. Stops(t)
      BY <2>3, <3>1 DEF Stops
    <3>3. PICK k \in 0..Len(enabled) + 1 : visited[k] = enabled[t]
      BY <2>2, <3>2, Around
    <3> QED BY <3>1, <3>3
  <2> QED BY <2>3
<1> QED
  BY <1>6 DEF visited

-----------------------------------------------------------------------------
\* What the preference tool lets a user set: it moves names between the enabled
\* and the other ones, so that no name is in the list twice.
NoRepetition == \A list \in EnabledLists : IsInjective(list)

LEMMA WithDirectDistinct ==
  ASSUME NEW list \in Seq(Ims), IsInjective(list)
  PROVE  IsInjective(WithDirect(list))
<1>1. CASE Direct \in ToSet(list)
  BY <1>1 DEF WithDirect
<1>2. CASE Direct \notin ToSet(list)
  <2>1. DOMAIN list = 1..Len(list) /\ Len(list) \in Nat /\ \A k \in 1..Len(list) : list[k] # Direct
    BY <1>2 DEF ToSet
  <2>2. /\ DOMAIN Append(list, Direct) = 1..Len(list) + 1
        /\ Append(list, Direct)[Len(list) + 1] = Direct
        /\ \A k \in 1..Len(list) : Append(list, Direct)[k] = list[k]
    OBVIOUS
  <2>3. \A k \in 1..Len(list) + 1 : k \in 1..Len(list) \/ k = Len(list) + 1
    BY <2>1
  <2>4. WithDirect(list) = Append(list, Direct)
    BY <1>2 DEF WithDirect
  <2> QED BY <2>1, <2>2, <2>3, <2>4 DEF IsInjective
<1> QED
  BY <1>1, <1>2

LEMMA DistinctStep ==
  ASSUME NoRepetition, TypeOK, IsInjective(enabled), [Next]_vars
  PROVE  IsInjective(enabled')
<1>1. enabled \in Seq(Ims) /\ \A list \in EnabledLists : list \in Seq(Ims) /\ IsInjective(list)
  BY ImAssumption DEF TypeOK, NoRepetition
<1>2. \A on : RegisterSwitcher(on) => enabled' \in {enabled, WithDirect(enabled)}
  BY DEF RegisterSwitcher
<1>3. ASSUME NEW list \in EnabledLists, SetEnabledList(list) PROVE enabled' \in {list, WithDirect(list)}
  BY <1>3 DEF SetEnabledList
<1>4. CASE enabled' \in {enabled, WithDirect(enabled)}
  BY <1>1, <1>4, WithDirectDistinct
<1>5. CASE \E list \in EnabledLists : SetEnabledList(list)
  BY <1>1, <1>3, <1>5, WithDirectDistinct
<1>6. ASSUME NEW u \in Ucs, NEW name, im_switch_im(u, name) PROVE enabled' = enabled
  BY <1>6 DEF im_switch_im, SwitchFails, config
<1>7. ASSUME NEW u \in Ucs,
             \/ uim_release_context(u) \/ PressToggleKey(u) \/ PressSwitchKey(u) \/ PressEngineKey(u)
             \/ uim_switch_im(u) \/ \E act \in Acts : uim_prop_activate(u, act)
      PROVE  enabled' = enabled
  <2>1. CASE PressToggleKey(u)
    BY <2>1 DEF PressToggleKey, toggle_im, CutShort, SwitchFails, config
  <2>2. ASSUME NEW act \in Acts, uim_prop_activate(u, act) PROVE enabled' = enabled
    BY <1>6, <2>2 DEF uim_prop_activate, config, vars
  <2>3. CASE uim_release_context(u) \/ PressEngineKey(u)
    BY <2>3 DEF uim_release_context, PressEngineKey, config
  <2>4. CASE PressSwitchKey(u) \/ uim_switch_im(u)
    BY <1>6, <2>4 DEF PressSwitchKey, uim_switch_im
  <2> QED BY <1>7, <2>1, <2>2, <2>3, <2>4
<1>8. ASSUME NEW u \in Ucs, uim_create_context(u) PROVE enabled' \in {enabled, WithDirect(enabled)}
  BY <1>2, <1>8 DEF uim_create_context
<1>9. ASSUME NEW on \in BOOLEAN, SetButton(on) PROVE enabled' \in {enabled, WithDirect(enabled)}
  BY <1>2, <1>9 DEF SetButton
<1>10. ASSUME NEW im \in Ims, SetAltIm(im) PROVE enabled' = enabled
  BY <1>10 DEF SetAltIm
<1>11. UNCHANGED vars => enabled' = enabled
  BY DEF vars
<1> QED
  BY <1>4, <1>5, <1>7, <1>8, <1>9, <1>10, <1>11 DEF Next

\* The switch key, pressed over and over, comes by every enabled input method
\* but the skipped one, for any list that names each of them once.
THEOREM SwitchKeyReaches ==
  ASSUME NoRepetition
  PROVE  Spec => []SwitchKeyReachesAll
<1>1. Init => IsInjective(enabled)
  BY DEF Init, NoRepetition
<1>2. IInv => TypeOK
  BY DEF IInv
<1>3. IInv /\ IsInjective(enabled) /\ [Next]_vars => IsInjective(enabled)'
  BY <1>2, DistinctStep
<1>4. IInv /\ IsInjective(enabled) => SwitchKeyReachesAll
  BY <1>2, Reaches
<1> QED
  BY InitIInv, NextIInv, <1>1, <1>3, <1>4, PTL DEF Spec
=============================================================================
