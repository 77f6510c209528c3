------------------------ MODULE FocusProtocol_proofs ------------------------
(***************************************************************************)
(* For any number of processes, contexts and descriptors, whatever the     *)
(* user, the server and the network do: the immodule never follows a       *)
(* pointer to a finalized context, its text goes astray in two cases only, *)
(* and when all has settled one process answers the toolbar, the one the   *)
(* user has focused.                                                       *)
(***************************************************************************)
EXTENDS FocusProtocol, FoldLemmas, FiniteSetTheorems

focus == <<life, focused_context, events, xfocus>>

FocusType ==
  /\ life \in [Contexts -> {"unborn", "live", "gone"}]
  /\ focused_context \in [Procs -> Contexts \cup {NoContext}]
  /\ events \in [Procs -> Seq(FocusEvent)]
  /\ xfocus \in Contexts \cup {NoContext}

LiveIn(c, p) == c \in Contexts /\ life[c] = "live" /\ Owner[c] = p

\* focused_context comes from an event the toolkit delivers late, and that from
\* the context the user had focused: all of them have to be live, and a process
\* has to know its own contexts only, or finalizing one would miss a pointer.
IInv ==
  /\ FocusType
  /\ xfocus # NoContext => life[xfocus] = "live"
  /\ \A p \in Procs : focused_context[p] # NoContext => LiveIn(focused_context[p], p)
  /\ \A p \in Procs : \A k \in DOMAIN events[p] : LiveIn(events[p][k].ctx, p)

\* The initial state satisfies the invariant.
LEMMA InitIInv == Init => IInv
BY FocusAssumption DEF Init, IInv, FocusType, LiveIn

\* The invariant speaks of four variables only.
LEMMA StutterIInv == IInv /\ UNCHANGED focus => IInv'
BY DEF IInv, focus, FocusType, LiveIn

\* A context that is made disturbs nothing.
LEMMA CreateIInv ==
  ASSUME IInv, NEW c \in Contexts, im_module_create(c)
  PROVE  IInv'
<1>1. /\ life[c] = "unborn" /\ life' = [life EXCEPT ![c] = "live"]
      /\ UNCHANGED <<focused_context, events, xfocus>>
  BY DEF im_module_create, focusVars, userVars
<1> QED
  BY <1>1 DEF IInv, FocusType, LiveIn

\* A context goes only when no event names it, and takes the pointers along.
LEMMA FinalizeIInv ==
  ASSUME IInv, NEW c \in Contexts, im_uim_finalize(c)
  PROVE  IInv'
<1> DEFINE p == Owner[c]
<1>1. /\ life' = [life EXCEPT ![c] = "gone"]
      /\ focused_context' = IF focused_context[p] = c
                            THEN [focused_context EXCEPT ![p] = NoContext] ELSE focused_context
      /\ xfocus' = IF xfocus = c THEN NoContext ELSE xfocus
      /\ events' = events
      /\ \A k \in DOMAIN events[p] : events[p][k].ctx # c
  BY DEF im_uim_finalize
<1>2. p \in Procs
  BY FocusAssumption
<1>3. FocusType'
  BY <1>1, <1>2 DEF IInv, FocusType
<1>4. xfocus' # NoContext => life'[xfocus'] = "live"
  BY <1>1 DEF IInv, FocusType
<1>5. ASSUME NEW q \in Procs, focused_context'[q] # NoContext
      PROVE  LiveIn(focused_context[q], q)' /\ focused_context'[q] = focused_context[q]
  <2>1. focused_context'[q] = focused_context[q] /\ focused_context[q] # c
    BY <1>1, <1>2, <1>5 DEF IInv, FocusType, LiveIn
  <2> QED BY <1>1, <1>5, <2>1 DEF IInv, FocusType, LiveIn
<1>6. ASSUME NEW q \in Procs, NEW k \in DOMAIN events[q]
      PROVE  LiveIn(events[q][k].ctx, q)'
  <2>1. LiveIn(events[q][k].ctx, q) /\ events[q][k].ctx # c
    BY <1>1, <1>6 DEF IInv, LiveIn
  <2> QED BY <1>1, <2>1 DEF IInv, FocusType, LiveIn
<1> QED
  BY <1>1, <1>3, <1>4, <1>5, <1>6 DEF IInv

\* The first event of a process is taken from its queue.
LEMMA TakeEvent ==
  ASSUME IInv, NEW p \in Procs, events[p] # <<>>,
         events' = [events EXCEPT ![p] = Tail(@)]
  PROVE  /\ events' \in [Procs -> Seq(FocusEvent)]
         /\ LiveIn(Head(events[p]).ctx, p)
         /\ \A q \in Procs : \A k \in DOMAIN events'[q] : LiveIn(events'[q][k].ctx, q)
<1>1. events[p] \in Seq(FocusEvent) /\ Tail(events[p]) \in Seq(FocusEvent)
  BY DEF IInv, FocusType
<1>2. /\ 1 \in DOMAIN events[p] /\ Head(events[p]) = events[p][1]
      /\ \A k \in DOMAIN Tail(events[p]) :
           k + 1 \in DOMAIN events[p] /\ Tail(events[p])[k] = events[p][k + 1]
  BY <1>1
<1>3. events' \in [Procs -> Seq(FocusEvent)]
  BY <1>1 DEF IInv, FocusType
<1>4. ASSUME NEW q \in Procs, NEW k \in DOMAIN events'[q]
      PROVE  LiveIn(events'[q][k].ctx, q)
  <2>1. CASE q = p
    BY <1>2, <1>4, <2>1 DEF IInv, FocusType
  <2>2. CASE q # p
    BY <1>4, <2>2 DEF IInv, FocusType
  <2> QED BY <2>1, <2>2
<1> QED
  BY <1>2, <1>3, <1>4 DEF IInv

\* focus_in makes the context of the event the focused one.
LEMMA FocusInIInv ==
  ASSUME IInv, NEW p \in Procs, im_uim_focus_in(p)
  PROVE  IInv'
<1>1. /\ events[p] # <<>>
      /\ focused_context' = [focused_context EXCEPT ![p] = Head(events[p]).ctx]
      /\ events' = [events EXCEPT ![p] = Tail(@)]
      /\ UNCHANGED <<life, xfocus>>
  BY DEF im_uim_focus_in
<1>2. /\ events' \in [Procs -> Seq(FocusEvent)]
      /\ LiveIn(Head(events[p]).ctx, p)
      /\ \A q \in Procs : \A k \in DOMAIN events'[q] : LiveIn(events'[q][k].ctx, q)
  BY <1>1, TakeEvent
<1> QED
  BY <1>1, <1>2 DEF IInv, FocusType, LiveIn

\* focus_out leaves the focused context alone.
LEMMA FocusOutIInv ==
  ASSUME IInv, NEW p \in Procs, im_uim_focus_out(p)
  PROVE  IInv'
<1>1. /\ events[p] # <<>>
      /\ events' = [events EXCEPT ![p] = Tail(@)]
      /\ UNCHANGED <<life, focused_context, xfocus>>
  BY DEF im_uim_focus_out, ctxVars, focusVars, userVars
<1>2. /\ events' \in [Procs -> Seq(FocusEvent)]
      /\ \A q \in Procs : \A k \in DOMAIN events'[q] : LiveIn(events'[q][k].ctx, q)
  BY <1>1, TakeEvent
<1> QED
  BY <1>1, <1>2 DEF IInv, FocusType, LiveIn

\* The user moves between live contexts, and each process hears of its own.
LEMMA UserFocusIInv ==
  ASSUME IInv, NEW c \in Contexts, UserFocus(c)
  PROVE  IInv'
<1> DEFINE out(p) == IF xfocus # NoContext /\ Owner[xfocus] = p
                     THEN <<[kind |-> "out", ctx |-> xfocus]>> ELSE <<>>
           in(p) == IF Owner[c] = p THEN <<[kind |-> "in", ctx |-> c]>> ELSE <<>>
           OwnEvents(p, s) == s \in Seq(FocusEvent) /\ \A k \in DOMAIN s : LiveIn(s[k].ctx, p)
<1>1. /\ life[c] = "live" /\ xfocus' = c
      /\ events' = [p \in Procs |-> events[p] \o out(p) \o in(p)]
      /\ UNCHANGED <<life, focused_context>>
  BY DEF UserFocus, Live, ctxVars, focusVars
<1>2. ASSUME NEW p \in Procs, NEW s, NEW t, OwnEvents(p, s), OwnEvents(p, t)
      PROVE  OwnEvents(p, s \o t)
  <2>1. s \o t \in Seq(FocusEvent)
    BY <1>2
  <2>2. ASSUME NEW k \in DOMAIN (s \o t) PROVE LiveIn((s \o t)[k].ctx, p)
    <3>1. (s \o t)[k] = IF k <= Len(s) THEN s[k] ELSE t[k - Len(s)]
      BY <1>2, <2>2
    <3>2. k <= Len(s) => k \in DOMAIN s
      BY <1>2, <2>2
    <3>3. ~(k <= Len(s)) => k - Len(s) \in DOMAIN t
      BY <1>2, <2>2
    <3> QED BY <1>2, <3>1, <3>2, <3>3
  <2> QED BY <2>1, <2>2
<1>3. ASSUME NEW p \in Procs
      PROVE  OwnEvents(p, events[p]) /\ OwnEvents(p, out(p)) /\ OwnEvents(p, in(p))
  <2>1. OwnEvents(p, events[p])
    BY DEF IInv, FocusType
  <2>0. ASSUME NEW kind \in {"in", "out"}, NEW d, LiveIn(d, p)
        PROVE  OwnEvents(p, <<[kind |-> kind, ctx |-> d]>>)
    <3> DEFINE e == [kind |-> kind, ctx |-> d]
    <3>1. e \in FocusEvent /\ e.ctx = d
      BY <2>0 DEF FocusEvent, LiveIn
    <3>2. <<e>> \in Seq(FocusEvent) /\ \A k \in DOMAIN <<e>> : <<e>>[k] = e
      BY <3>1
    <3>3. ASSUME NEW k \in DOMAIN <<e>> PROVE LiveIn(<<e>>[k].ctx, p)
      <4>1. <<e>>[k].ctx = d
        BY <3>1, <3>2, <3>3
      <4> QED BY <2>0, <4>1 DEF LiveIn
    <3> QED BY <3>2, <3>3
  <2>2. OwnEvents(p, out(p))
    <3>1. CASE xfocus # NoContext /\ Owner[xfocus] = p
      <4>1. LiveIn(xfocus, p)
        BY <3>1 DEF IInv, FocusType, LiveIn
      <4> QED BY <2>0, <3>1, <4>1
    <3>2. CASE ~(xfocus # NoContext /\ Owner[xfocus] = p)
      BY <3>2
    <3> QED BY <3>1, <3>2
  <2>3. OwnEvents(p, in(p))
    <3>1. CASE Owner[c] = p
      <4>1. LiveIn(c, p)
        BY <1>1, <3>1 DEF LiveIn
      <4> QED BY <2>0, <3>1, <4>1
    <3>2. CASE Owner[c] # p
      BY <3>2
    <3> QED BY <3>1, <3>2
  <2> QED BY <2>1, <2>2, <2>3
<1>4. ASSUME NEW p \in Procs PROVE OwnEvents(p, events'[p])
  <2>1. OwnEvents(p, events[p] \o out(p))
    BY <1>2, <1>3
  <2>2. OwnEvents(p, (events[p] \o out(p)) \o in(p))
    BY <1>2, <1>3, <2>1
  <2>3. events'[p] = (events[p] \o out(p)) \o in(p)
    BY <1>1
  <2> QED BY <2>2, <2>3
<1>5. events' \in [Procs -> Seq(FocusEvent)]
      /\ \A p \in Procs : \A k \in DOMAIN events'[p] : LiveIn(events'[p][k].ctx, p)
  <2>1. DOMAIN events' = Procs /\ events' = [p \in Procs |-> events'[p]]
    BY <1>1
  <2> QED BY <1>4, <2>1
<1>6. FocusType'
  BY <1>1, <1>5 DEF IInv, FocusType
<1>7. \A p \in Procs : \A k \in DOMAIN events'[p] : LiveIn(events[p][k].ctx, p)'
  BY <1>1, <1>5 DEF LiveIn
<1>8. \A p \in Procs : focused_context'[p] # NoContext => LiveIn(focused_context[p], p)'
  BY <1>1 DEF IInv, LiveIn
<1>9. xfocus' # NoContext => life'[xfocus'] = "live"
  BY <1>1
<1> HIDE DEF out, in, OwnEvents
<1> QED
  BY <1>6, <1>7, <1>8, <1>9 DEF IInv

\* Every step preserves the invariant.
LEMMA NextIInv == IInv /\ [Next]_vars => IInv'
<1> SUFFICES ASSUME IInv, [Next]_vars PROVE IInv'
  OBVIOUS
<1>1. ASSUME NEW c \in Contexts, im_module_create(c) \/ im_uim_finalize(c) \/ UserFocus(c)
      PROVE  IInv'
  BY <1>1, CreateIInv, FinalizeIInv, UserFocusIInv
<1>2. ASSUME NEW p \in Procs, im_uim_focus_in(p) \/ im_uim_focus_out(p)
      PROVE  IInv'
  BY <1>2, FocusInIInv, FocusOutIInv
<1>3. ASSUME NEW p \in Procs, helper_read_cb(p) \/ AppOpens(p)
      PROVE  UNCHANGED focus
  BY <1>3 DEF helper_read_cb, AppOpens, focus, ctxVars, focusVars, userVars
<1>4. ASSUME NEW q \in Clients, Reflect(q)
      PROVE  UNCHANGED focus
  BY <1>4 DEF Reflect, focus, ctxVars, focusVars, userVars
<1>5. CASE toolbar_read_cb \/ ToolbarPopup \/ ToolbarClick \/ ServerCrash
  <2>1. UNCHANGED focus
    BY <1>5 DEF toolbar_read_cb, ToolbarPopup, ToolbarClick, ServerCrash, focus, ctxVars,
                focusVars, userVars
  <2> QED BY <2>1, StutterIInv
<1>6. CASE UNCHANGED vars
  BY <1>6, StutterIInv DEF vars, focus, ctxVars, focusVars, userVars
<1> QED
  BY <1>1, <1>2, <1>3, <1>4, <1>5, <1>6, StutterIInv DEF Next

\* focused_context is never a pointer to a context that im_uim_finalize has
\* freed.
THEOREM FocusedStaysLive == Spec => []FocusedIsLive
<1>1. IInv => FocusedIsLive
  BY DEF IInv, FocusedIsLive, LiveIn, Live
<1> QED
  BY InitIInv, NextIInv, <1>1, PTL DEF Spec

-----------------------------------------------------------------------------
(* Text goes astray only with two contexts or a failed connection.          *)

descriptors == <<uim_fd, im_uim_fd, table, fails, stray>>

FdType ==
  /\ uim_fd \in [Contexts -> Fds \cup {-1}]
  /\ im_uim_fd \in [Procs -> Fds \cup {-1}]
  /\ table \in [Procs -> [Fds -> {"none", "helper", "other"}]]
  /\ fails \in Nat
  /\ \A p \in Procs : im_uim_fd[p] # -1 => table[p][im_uim_fd[p]] = "helper"

TwoContexts ==
  \E c, d \in Contexts : /\ c # d /\ Owner[c] = Owner[d]
                         /\ life[c] # "unborn" /\ life[d] # "unborn"

FdsAgree ==
  \A c \in Contexts : life[c] # "unborn" /\ im_uim_fd[Owner[c]] # -1 => uim_fd[c] = im_uim_fd[Owner[c]]

\* A process begins with one context, so that the next one makes two; until
\* then the context's descriptor is the process's whenever there is one.
SInv ==
  /\ IInv /\ FdType
  /\ \A p \in Procs : life[First[p]] # "unborn"
  /\ fails = 0 /\ ~TwoContexts => ~stray /\ FdsAgree

\* There is a lowest free descriptor whenever there is a free one.
LEMMA LowestFree ==
  ASSUME NEW p \in Procs, HasFree(p)
  PROVE  lowest_free(p) \in Fds
<1> DEFINE Free == {d \in Fds : table[p][d] = "none"}
<1>1. Free \subseteq Nat /\ Free # {}
  BY FocusAssumption DEF HasFree
<1>2. \E d \in Free : \A e \in Free : ~(<<e, d>> \in OpToRel(<, Nat))
  BY <1>1, NatLessThanWellFounded, WFMin
<1>3. \E d \in Free : \A e \in Free : ~(e < d)
  BY <1>1, <1>2 DEF OpToRel
<1>4. \E d \in Fds : table[p][d] = "none" /\ \A e \in Fds : e < d => table[p][e] # "none"
  BY <1>3
<1> QED
  BY <1>4 DEF lowest_free

\* A connection that is tried again succeeds with a descriptor the context
\* learns, or fails, or was there already.
LEMMA CheckConnection ==
  ASSUME SInv, NEW p \in Procs, NEW c \in Contexts, NEW ok \in BOOLEAN,
         check_helper_connection(p, c, ok)
  PROVE  /\ FdType'
         /\ fails' = 0 => fails = 0
         /\ fails' = 0 /\ ~TwoContexts /\ LiveIn(c, p) =>
              /\ ~GoesAstray(p, focus_fd(p, c))
              /\ UNCHANGED life => FdsAgree'
<1> DEFINE fd == lowest_free(p)
           connects == im_uim_fd[p] = -1 /\ ok /\ HasFree(p)
<1>0. /\ -1 \notin Fds
      /\ im_uim_fd[p] \in Fds \cup {-1} /\ uim_fd[c] \in Fds \cup {-1}
  BY FocusAssumption DEF SInv, FdType
<1>1. CASE connects
  <2>1. /\ im_uim_fd' = [im_uim_fd EXCEPT ![p] = fd]
        /\ table' = [table EXCEPT ![p][fd] = "helper"]
        /\ uim_fd' = [uim_fd EXCEPT ![c] = fd]
        /\ fails' = fails
    BY <1>1 DEF check_helper_connection
  <2>2. fd \in Fds
    BY <1>1, LowestFree
  <2>3. im_uim_fd'[p] = fd /\ uim_fd'[c] = fd /\ table'[p][fd] = "helper"
    BY <2>1, <2>2 DEF SInv, FdType
  <2>4. FdType'
    <3>1. table' \in [Procs -> [Fds -> {"none", "helper", "other"}]]
      BY <2>1, <2>2 DEF SInv, FdType
    <3>2. ASSUME NEW q \in Procs, im_uim_fd'[q] # -1
          PROVE  table'[q][im_uim_fd'[q]] = "helper"
      BY <2>1, <2>2, <2>3, <3>2 DEF SInv, FdType
    <3> QED BY <2>1, <2>2, <3>1, <3>2 DEF SInv, FdType
  <2>5. ~GoesAstray(p, focus_fd(p, c))
    BY <1>0, <2>2, <2>3 DEF GoesAstray, focus_fd
  <2>6. ASSUME ~TwoContexts, LiveIn(c, p), fails' = 0, UNCHANGED life
        PROVE  FdsAgree'
    <3> SUFFICES ASSUME NEW d \in Contexts, life[d] # "unborn", im_uim_fd'[Owner[d]] # -1
                 PROVE  uim_fd'[d] = im_uim_fd'[Owner[d]]
      BY <2>6 DEF FdsAgree
    <3>1. CASE d = c
      BY <2>3, <2>6, <3>1 DEF LiveIn
    <3>2. CASE d # c
      <4>1. Owner[d] # p
        BY <2>6, <3>2 DEF TwoContexts, LiveIn
      <4> QED
        BY <2>1, <2>6, <3>2, <4>1, FocusAssumption DEF SInv, FdType, FdsAgree
    <3> QED BY <3>1, <3>2
  <2> QED BY <2>1, <2>4, <2>5, <2>6
<1>2. CASE ~connects
  <2>1. /\ UNCHANGED <<im_uim_fd, table>>
        /\ uim_fd' = [uim_fd EXCEPT ![c] = IF life[c] = "live" THEN @ ELSE -1]
        /\ fails' = IF im_uim_fd[p] # -1 THEN fails ELSE fails + 1
    BY <1>2 DEF check_helper_connection
  <2>2. FdType'
    BY <2>1 DEF SInv, FdType
  <2>3. fails' = 0 => fails = 0 /\ im_uim_fd[p] # -1
    BY <2>1 DEF SInv, FdType
  <2>4. ASSUME fails' = 0, ~TwoContexts, LiveIn(c, p)
        PROVE  /\ ~GoesAstray(p, focus_fd(p, c))
               /\ UNCHANGED life => FdsAgree'
    <3>1. uim_fd' = uim_fd /\ uim_fd[c] = im_uim_fd[p]
      BY <2>1, <2>3, <2>4 DEF SInv, FdType, FdsAgree, LiveIn
    <3>2. table'[p][im_uim_fd[p]] = "helper" /\ im_uim_fd[p] # -1
      BY <2>1, <2>3, <2>4 DEF SInv, FdType
    <3>3. ~GoesAstray(p, focus_fd(p, c))
      BY <2>1, <3>1, <3>2 DEF GoesAstray, focus_fd
    <3> QED BY <2>1, <2>3, <2>4, <3>1, <3>3 DEF SInv, FdsAgree
  <2> QED BY <2>2, <2>3, <2>4
<1> QED
  BY <1>1, <1>2

\* There is a lowest descriptor.
LEMMA LowestFdType == LowestFd \in Fds
<1>1. Fds \subseteq Nat /\ Fds # {}
  BY FocusAssumption, FS_EmptySet
<1>2. \E d \in Fds : \A e \in Fds : ~(<<e, d>> \in OpToRel(<, Nat))
  BY <1>1, NatLessThanWellFounded, WFMin
<1>3. \E d \in Fds : \A e \in Fds : ~(e < d)
  BY <1>1, <1>2 DEF OpToRel
<1>4. \E d \in Fds : \A e \in Fds : d <= e
  BY <1>1, <1>3
<1> QED
  BY <1>4 DEF LowestFd

\* The initial state satisfies the invariant.
LEMMA InitSInv == Init => SInv
<1> SUFFICES ASSUME Init PROVE SInv
  OBVIOUS
<1>1. LowestFd \in Fds
  BY LowestFdType
<1>2. FdType
  BY <1>1 DEF Init, FdType
<1>3. \A p \in Procs : life[First[p]] # "unborn"
  BY FocusAssumption DEF Init
<1>4. ~stray /\ FdsAgree
  BY FocusAssumption DEF Init, FdsAgree
<1> QED
  BY <1>2, <1>3, <1>4, InitIInv DEF SInv

\* A focus event keeps the invariant, whichever way the connection goes.
LEMMA FocusEventSInv ==
  ASSUME SInv, NEW p \in Procs, im_uim_focus_in(p) \/ im_uim_focus_out(p)
  PROVE  SInv'
<1> DEFINE c == Head(events[p]).ctx
<1>1. /\ events[p] # <<>> /\ UNCHANGED life
      /\ \E ok \in BOOLEAN : check_helper_connection(p, c, ok)
      /\ stray' = (stray \/ GoesAstray(p, focus_fd(p, c)))
  BY DEF im_uim_focus_in, im_uim_focus_out
<1>2. LiveIn(c, p)
  <2>1. events[p] \in Seq(FocusEvent)
    BY DEF SInv, IInv, FocusType
  <2>2. 1 \in DOMAIN events[p] /\ Head(events[p]) = events[p][1]
    BY <1>1, <2>1
  <2> QED BY <2>2 DEF SInv, IInv
<1>3. c \in Contexts
  BY <1>2 DEF LiveIn
<1> HIDE DEF c
<1>4. PICK ok \in BOOLEAN : check_helper_connection(p, c, ok)
  BY <1>1
<1>5. /\ FdType'
      /\ fails' = 0 => fails = 0
      /\ fails' = 0 /\ ~TwoContexts => ~GoesAstray(p, focus_fd(p, c)) /\ FdsAgree'
  BY <1>1, <1>2, <1>3, <1>4, CheckConnection
<1>6. TwoContexts' = TwoContexts
  BY <1>1 DEF TwoContexts
<1>7. IInv'
  BY FocusInIInv, FocusOutIInv DEF SInv
<1>8. fails' = 0 /\ ~TwoContexts' => ~stray' /\ FdsAgree'
  BY <1>1, <1>5, <1>6 DEF SInv
<1> QED
  BY <1>1, <1>5, <1>7, <1>8 DEF SInv

\* A context that is made is the second one of its process.
LEMMA CreateSInv ==
  ASSUME SInv, NEW c \in Contexts, im_module_create(c)
  PROVE  SInv'
<1> DEFINE p == Owner[c]
<1>1. /\ life[c] = "unborn" /\ life' = [life EXCEPT ![c] = "live"]
      /\ \E ok \in BOOLEAN : check_helper_connection(p, c, ok)
  BY DEF im_module_create
<1>2. p \in Procs /\ First[p] \in Contexts /\ Owner[First[p]] = p
  BY FocusAssumption
<1>3. FdType'
  BY <1>1, <1>2, CheckConnection
<1>4. \A q \in Procs : life'[First[q]] # "unborn"
  BY <1>1, FocusAssumption DEF SInv, IInv, FocusType
<1>5. TwoContexts'
  <2>1. First[p] # c /\ life'[First[p]] # "unborn" /\ life'[c] # "unborn"
    BY <1>1, <1>2, <1>4 DEF SInv, IInv, FocusType
  <2> QED BY <1>2, <2>1 DEF TwoContexts
<1>6. IInv'
  BY CreateIInv DEF SInv
<1> QED
  BY <1>3, <1>4, <1>5, <1>6 DEF SInv

\* Finalizing, opening files and losing the connection connect nobody.
LEMMA OtherSInv ==
  ASSUME SInv, IInv', UNCHANGED <<uim_fd, fails, stray>>,
         \A c \in Contexts : life'[c] = "unborn" <=> life[c] = "unborn",
         im_uim_fd' \in [Procs -> Fds \cup {-1}],
         table' \in [Procs -> [Fds -> {"none", "helper", "other"}]],
         \A p \in Procs : im_uim_fd'[p] # -1 =>
           im_uim_fd'[p] = im_uim_fd[p] /\ table'[p] = table[p]
  PROVE  SInv'
<1>1. FdType'
  BY DEF SInv, FdType
<1>2. TwoContexts' <=> TwoContexts
  BY DEF TwoContexts
<1>3. FdsAgree => FdsAgree'
  BY FocusAssumption DEF FdsAgree
<1>4. \A p \in Procs : life'[First[p]] # "unborn"
  BY FocusAssumption DEF SInv
<1> QED
  BY <1>1, <1>2, <1>3, <1>4 DEF SInv

\* Every step preserves the invariant.
LEMMA NextSInv == SInv /\ [Next]_vars => SInv'
<1> SUFFICES ASSUME SInv, [Next]_vars PROVE SInv'
  OBVIOUS
<1>0. /\ IInv' /\ FdType
      /\ -1 \notin Fds
      /\ life \in [Contexts -> {"unborn", "live", "gone"}]
  BY NextIInv, FocusAssumption DEF SInv, IInv, FocusType
<1>1. CASE UNCHANGED <<life, descriptors>>
  BY <1>0, <1>1, OtherSInv DEF descriptors, FdType
<1>2. ASSUME NEW c \in Contexts, im_module_create(c) \/ im_uim_finalize(c) \/ UserFocus(c)
      PROVE  SInv'
  <2>1. CASE im_module_create(c)
    BY <2>1, CreateSInv
  <2>2. CASE im_uim_finalize(c)
    <3>1. /\ life[c] = "live" /\ life' = [life EXCEPT ![c] = "gone"]
          /\ UNCHANGED descriptors
      BY <2>2 DEF im_uim_finalize, Live, connVars, descriptors
    <3> QED BY <1>0, <3>1, OtherSInv DEF descriptors, FdType
  <2>3. CASE UserFocus(c)
    BY <1>1, <2>3 DEF UserFocus, ctxVars, connVars, descriptors
  <2> QED BY <1>2, <2>1, <2>2, <2>3
<1>3. ASSUME NEW p \in Procs,
             im_uim_focus_in(p) \/ im_uim_focus_out(p) \/ helper_read_cb(p) \/ AppOpens(p)
      PROVE  SInv'
  <2>1. CASE im_uim_focus_in(p) \/ im_uim_focus_out(p)
    BY <2>1, FocusEventSInv
  <2>2. CASE helper_read_cb(p)
    <3>1. /\ UNCHANGED <<life, uim_fd, fails, stray>>
          /\ helper_disconnect(p) \/ UNCHANGED <<im_uim_fd, table>>
      BY <2>2 DEF helper_read_cb, ctxVars
    <3>2. CASE helper_disconnect(p)
      <4>1. im_uim_fd' = [im_uim_fd EXCEPT ![p] = -1]
            /\ table' = [table EXCEPT ![p][im_uim_fd[p]] = "none"]
        BY <3>2 DEF helper_disconnect
      <4> QED BY <1>0, <3>1, <4>1, OtherSInv DEF FdType
    <3>3. CASE UNCHANGED <<im_uim_fd, table>>
      BY <1>1, <3>1, <3>3 DEF descriptors
    <3> QED BY <3>1, <3>2, <3>3
  <2>3. CASE AppOpens(p)
    <3>1. /\ UNCHANGED <<life, uim_fd, fails, stray, im_uim_fd>>
          /\ im_uim_fd[p] = -1
          /\ table' = [table EXCEPT ![p][lowest_free(p)] = "other"]
      BY <2>3 DEF AppOpens, ctxVars
    <3> QED BY <1>0, <3>1, OtherSInv DEF FdType
  <2> QED BY <1>3, <2>1, <2>2, <2>3
<1>4. ASSUME NEW q \in Clients, Reflect(q)
      PROVE  SInv'
  BY <1>1, <1>4 DEF Reflect, ctxVars, connVars, descriptors
<1>5. CASE toolbar_read_cb \/ ToolbarPopup \/ ToolbarClick \/ ServerCrash
  BY <1>1, <1>5 DEF toolbar_read_cb, ToolbarPopup, ToolbarClick, ServerCrash, ctxVars,
                    connVars, descriptors
<1>6. CASE UNCHANGED vars
  BY <1>1, <1>6 DEF vars, ctxVars, connVars, descriptors
<1> QED
  BY <1>2, <1>3, <1>4, <1>5, <1>6 DEF Next

\* Text for the helper reaches another file of the application only with two
\* contexts in a process, or after a connection that could not be made.
THEOREM StrayNeedsTwo == Spec => []StrayTakesTwo
<1>1. SInv => StrayTakesTwo
  BY DEF SInv, FdType, StrayTakesTwo, TwoContexts
<1> QED
  BY InitSInv, NextSInv, <1>1, PTL DEF Spec

-----------------------------------------------------------------------------
(* What the messages that have been read come to.  The folds of the two        *)
(* readers are walked message by message; see FoldLemmas.                      *)

State == [disabled : BOOLEAN, out : Seq(Message)]

\* What a process makes of its messages, one after the other.
ParseStep(p) == [x \in State \X Message |-> parse_helper_str(p, x[1], x[2])]
Parsed(p, start, q) ==
  LET step(s, m) == parse_helper_str(p, s, m) IN FoldLeft(step, start, q)

LEMMA ParseType ==
  ASSUME NEW p \in Procs, NEW s \in State, NEW m \in Message
  PROVE  parse_helper_str(p, s, m) \in State
<1>1. Msg("update", p) \in Message
  BY DEF Msg, Message, Clients
<1>2. Append(s.out, Msg("update", p)) \in Seq(Message)
  BY <1>1 DEF State
<1> QED
  BY <1>2 DEF parse_helper_str, State

\* The states it goes through, one after each message.
ParseWalk(h, p, start, q) ==
  h[0] = start /\ \A k \in 1..Len(q) : h[k] = parse_helper_str(p, h[k - 1], q[k])

LEMMA ParsedWalk ==
  ASSUME NEW p \in Procs, NEW start \in State, NEW q \in Seq(Message)
  PROVE  \E h : ParseWalk(h, p, start, q) /\ h[Len(q)] = Parsed(p, start, q)
<1> DEFINE N == Len(q)
           g == ParseStep(p)
<1>0. N \in Nat /\ DOMAIN q = 1..N
  OBVIOUS
<1>1. g \in [State \X Message -> State]
  BY ParseType DEF ParseStep
<1> HIDE DEF g
<1>2. PICK f : Folded(State, g, start, q, N, f)
  BY <1>1, FoldExists
<1>3. \A s \in SUBSET (1..N) : s # {} => Max(s) \in 1..N /\ s \ {Max(s)} \in SUBSET (1..N)
  BY <1>0, Greatest
<1>4. ASSUME NEW F, Folded(State, g, start, q, N, F)
      PROVE  F = [s \in SUBSET DOMAIN q |->
                    IF s = {} THEN start
                    ELSE parse_helper_str(p, F[s \ {Max(s)}], q[Max(s)])]
  <2>1. ASSUME NEW s \in SUBSET (1..N), s # {}
        PROVE  F[s] = parse_helper_str(p, F[s \ {Max(s)}], q[Max(s)])
    <3>1. F[s \ {Max(s)}] \in State /\ q[Max(s)] \in Message
      BY <1>3, <1>4, <2>1 DEF Folded
    <3>2. F[s] = g[<<F[s \ {Max(s)}], q[Max(s)]>>]
      BY <1>4, <2>1 DEF Folded
    <3> QED BY <3>1, <3>2 DEF g, ParseStep
  <2>2. F \in [SUBSET (1..N) -> State] /\ F[{}] = start
    BY <1>4 DEF Folded
  <2> QED BY <1>0, <2>1, <2>2
<1> DEFINE Body(F) == [s \in SUBSET DOMAIN q |->
                         IF s = {} THEN start
                         ELSE parse_helper_str(p, F[s \ {Max(s)}], q[Max(s)])]
           iter == CHOOSE F : F = Body(F)
<1>5. Parsed(p, start, q) = iter[1..N]
  BY <1>0 DEF Parsed, FoldLeft, MapThenFoldSet
<1>6. f = Body(f)
  BY <1>2, <1>4
<1>7. PICK it : it = Body(it) /\ Parsed(p, start, q) = it[1..N]
  <2> HIDE DEF Body
  <2> QED BY <1>5, <1>6
<1>8. ASSUME NEW s \in SUBSET (1..N)
      PROVE  it[s] = IF s = {} THEN start
                       ELSE parse_helper_str(p, it[s \ {Max(s)}], q[Max(s)])
  <2>1. it[s] = Body(it)[s]
    BY <1>7
  <2> QED BY <1>0, <2>1
<1> DEFINE h == [k \in 0..N |-> it[1..k]]
<1>9. h[0] = start /\ h[N] = it[1..N]
  <2>1. 1..0 = {} /\ 0 \in 0..N /\ N \in 0..N
    BY <1>0
  <2>2. h[0] = it[1..0] /\ h[N] = it[1..N]
    BY <2>1
  <2>3. it[{}] = start
    BY <1>8
  <2> HIDE DEF h
  <2> QED BY <2>1, <2>2, <2>3
<1>10. ASSUME NEW k \in 1..N PROVE h[k] = parse_helper_str(p, h[k - 1], q[k])
  <2>1. /\ 1..k \in SUBSET (1..N) /\ 1..k # {}
        /\ Max(1..k) = k /\ (1..k) \ {Max(1..k)} = 1..(k - 1)
    <3> HIDE DEF h, N
    <3> QED BY <1>0, Prefix
  <2>2. h[k] = it[1..k] /\ h[k - 1] = it[1..(k - 1)]
    BY <1>0
  <2>3. it[1..k] = parse_helper_str(p, it[(1..k) \ {Max(1..k)}], q[Max(1..k)])
    BY <1>8, <2>1
  <2> HIDE DEF h
  <2> QED BY <2>1, <2>2, <2>3
<1>11. ParseWalk(h, p, start, q)
  <2> HIDE DEF h
  <2> QED BY <1>9, <1>10 DEF ParseWalk
<1>12. h[Len(q)] = Parsed(p, start, q)
  <2> HIDE DEF h
  <2> QED BY <1>7, <1>9
<1> HIDE DEF h
<1> QED
  BY <1>11, <1>12

Has(s, kind) == \E m \in ToSet(s) : m.kind = kind

\* What comes of it: a process without a focused context, or one that is disabled,
\* ignores all; a focus_in disables it, nothing else does, and it answers only
\* what it is asked.
LEMMA ParsedMessages ==
  ASSUME NEW p \in Procs, NEW start \in State, NEW q \in Seq(Message)
  PROVE  LET end == Parsed(p, start, q)
             deaf == focused_context[p] = NoContext \/ start.disabled
         IN  /\ end \in State
             /\ deaf => end = start
             /\ ~deaf => (end.disabled <=> Has(q, "focus_in"))
             /\ start.out = <<>> => /\ end.out # <<>> => Has(q, "get")
                                    /\ \A m \in ToSet(end.out) : m = Msg("update", p)
<1> DEFINE N == Len(q)
           deaf == focused_context[p] = NoContext \/ start.disabled
           HasUpTo(k, kind) == \E j \in 1..k : q[j].kind = kind
           Good(k, s) == /\ s \in State
                         /\ deaf => s = start
                         /\ ~deaf => (s.disabled <=> HasUpTo(k, "focus_in"))
                         /\ start.out = <<>> => /\ s.out # <<>> => HasUpTo(k, "get")
                                                /\ \A m \in ToSet(s.out) : m = Msg("update", p)
<1>0. N \in Nat /\ DOMAIN q = 1..N
  OBVIOUS
<1>1. PICK h : ParseWalk(h, p, start, q) /\ h[N] = Parsed(p, start, q)
  BY ParsedWalk
<1> DEFINE T == {k \in 0..N : ~Good(k, h[k])}
<1>2. Good(0, start)
  BY DEF State, ToSet
<1>3. ASSUME NEW k \in 1..N, NEW s, Good(k - 1, s) PROVE Good(k, parse_helper_str(p, s, q[k]))
  <2>0. PICK t : t = parse_helper_str(p, s, q[k])
    OBVIOUS
  <2> SUFFICES Good(k, t)
    BY <2>0
  <2>1. t \in State
    BY <1>0, <1>3, <2>0, ParseType
  <2>2. \A kind : HasUpTo(k, kind) <=> HasUpTo(k - 1, kind) \/ q[k].kind = kind
    <3>1. \A j \in 1..k : j = k \/ j \in 1..(k - 1)
      OBVIOUS
    <3>2. \A j \in 1..(k - 1) : j \in 1..k
      OBVIOUS
    <3>3. k \in 1..k
      OBVIOUS
    <3> QED BY <3>1, <3>2, <3>3
  <2> HIDE DEF HasUpTo
  <2>3. CASE focused_context[p] = NoContext \/ s.disabled
    <3>1. t = s
      BY <2>0, <2>3 DEF parse_helper_str
    <3>2. deaf \/ s.disabled
      BY <2>3
    <3> HIDE DEF deaf
    <3> QED BY <1>3, <2>1, <2>2, <3>1, <3>2
  <2>4. CASE ~(focused_context[p] = NoContext \/ s.disabled) /\ q[k].kind = "get"
    <3>1. t = [s EXCEPT !.out = Append(@, Msg("update", p))]
      BY <2>0, <2>4 DEF parse_helper_str
    <3>2. s \in State /\ t.disabled = s.disabled /\ t.out = Append(s.out, Msg("update", p))
      BY <1>3, <3>1 DEF State
    <3>3. ~deaf
      BY <1>3, <2>4
    <3>4. start.out = <<>> => \A m \in ToSet(t.out) : m = Msg("update", p)
      <4>1. s.out \in Seq(Message)
        BY <3>2 DEF State
      <4>2. \A j \in DOMAIN Append(s.out, Msg("update", p)) :
              (j \in DOMAIN s.out /\ Append(s.out, Msg("update", p))[j] = s.out[j])
              \/ Append(s.out, Msg("update", p))[j] = Msg("update", p)
        BY <4>1
      <4> QED BY <1>3, <3>2, <4>2 DEF ToSet
    <3>5. HasUpTo(k, "get") /\ (HasUpTo(k, "focus_in") <=> HasUpTo(k - 1, "focus_in"))
      BY <2>2, <2>4
    <3>6. s.disabled <=> HasUpTo(k - 1, "focus_in")
      BY <1>3, <3>3
    <3> HIDE DEF deaf
    <3> QED BY <2>1, <3>2, <3>3, <3>4, <3>5, <3>6
  <2>5. CASE ~(focused_context[p] = NoContext \/ s.disabled) /\ q[k].kind = "focus_in"
    <3>1. t = [s EXCEPT !.disabled = TRUE]
      BY <2>0, <2>5 DEF parse_helper_str
    <3>2. s \in State /\ t.disabled /\ t.out = s.out
      BY <1>3, <3>1 DEF State
    <3>3. ~deaf
      BY <1>3, <2>5
    <3>4. HasUpTo(k, "focus_in") /\ (HasUpTo(k - 1, "get") => HasUpTo(k, "get"))
      BY <2>2, <2>5
    <3>5. start.out = <<>> => /\ s.out # <<>> => HasUpTo(k - 1, "get")
                              /\ \A m \in ToSet(s.out) : m = Msg("update", p)
      BY <1>3
    <3> HIDE DEF deaf
    <3> QED BY <2>1, <3>2, <3>3, <3>4, <3>5
  <2>6. CASE ~(focused_context[p] = NoContext \/ s.disabled) /\ q[k].kind \notin {"get", "focus_in"}
    <3>1. t = s
      BY <2>0, <2>6 DEF parse_helper_str
    <3> QED BY <1>3, <2>1, <2>2, <2>6, <3>1
  <2> QED BY <2>3, <2>4, <2>5, <2>6
<1>4. ASSUME NEW k \in 1..N, Good(k - 1, h[k - 1]) PROVE Good(k, h[k])
  <2>1. h[k] = parse_helper_str(p, h[k - 1], q[k])
    BY <1>1 DEF ParseWalk
  <2> HIDE DEF Good
  <2> QED BY <1>3, <1>4, <2>1
<1>5. Good(0, h[0])
  BY <1>1, <1>2 DEF ParseWalk
<1> HIDE DEF Good
<1>6. T = {}
  <2> SUFFICES ASSUME T # {} PROVE FALSE
    OBVIOUS
  <2>1. PICK n \in T : \A m \in T : n <= m
    <3>1. T \in SUBSET Nat
      OBVIOUS
    <3> QED BY <3>1, Least
  <2>2. n # 0 /\ n \in 1..N /\ n - 1 \in 0..N /\ n - 1 \notin T
    BY <1>0, <1>5, <2>1
  <2>3. Good(n - 1, h[n - 1])
    BY <2>2
  <2> QED BY <1>4, <2>1, <2>2, <2>3
<1>7. Good(N, h[N])
  BY <1>0, <1>6
<1> QED
  BY <1>0, <1>1, <1>7 DEF Good, Has, ToSet

ShowStep(s, m) == IF m.kind = "update" THEN m.from ELSE s
Shown(start, q) ==
  LET step(s, m) == IF m.kind = "update" THEN m.from ELSE s IN FoldLeft(step, start, q)

ShowWalk(h, start, q) ==
  h[0] = start /\ \A k \in 1..Len(q) : h[k] = ShowStep(h[k - 1], q[k])

LEMMA ShownWalk ==
  ASSUME NEW start \in Clients, NEW q \in Seq(Message)
  PROVE  \E h : ShowWalk(h, start, q) /\ h[Len(q)] = Shown(start, q)
<1> DEFINE N == Len(q)
           g == [x \in Clients \X Message |-> ShowStep(x[1], x[2])]
<1>0. N \in Nat /\ DOMAIN q = 1..N
  OBVIOUS
<1>1. g \in [Clients \X Message -> Clients]
  BY DEF ShowStep, Message
<1>2. \A s \in Clients, m \in Message : g[<<s, m>>] = ShowStep(s, m)
  OBVIOUS
<1> HIDE DEF g
<1>3. PICK f : Folded(Clients, g, start, q, N, f)
  BY <1>1, FoldExists
<1>4. \A s \in SUBSET (1..N) : s # {} => Max(s) \in 1..N /\ s \ {Max(s)} \in SUBSET (1..N)
  BY <1>0, Greatest
<1> DEFINE Body(F) == [s \in SUBSET DOMAIN q |->
                         IF s = {} THEN start ELSE ShowStep(F[s \ {Max(s)}], q[Max(s)])]
           iter == CHOOSE F : F = Body(F)
<1>5. Shown(start, q) = iter[1..N]
  BY <1>0 DEF Shown, FoldLeft, MapThenFoldSet, ShowStep
<1>6. f = Body(f)
  <2>1. ASSUME NEW s \in SUBSET (1..N), s # {}
        PROVE  f[s] = ShowStep(f[s \ {Max(s)}], q[Max(s)])
    <3>1. f[s \ {Max(s)}] \in Clients /\ q[Max(s)] \in Message
      BY <1>3, <1>4, <2>1 DEF Folded
    <3>2. f[s] = g[<<f[s \ {Max(s)}], q[Max(s)]>>]
      BY <1>3, <2>1 DEF Folded
    <3> QED BY <1>2, <3>1, <3>2
  <2>2. f \in [SUBSET (1..N) -> Clients] /\ f[{}] = start
    BY <1>3 DEF Folded
  <2> QED BY <1>0, <2>1, <2>2
<1>7. PICK it : it = Body(it) /\ Shown(start, q) = it[1..N]
  <2> HIDE DEF Body
  <2> QED BY <1>5, <1>6
<1>8. ASSUME NEW s \in SUBSET (1..N)
      PROVE  it[s] = IF s = {} THEN start ELSE ShowStep(it[s \ {Max(s)}], q[Max(s)])
  <2>1. it[s] = Body(it)[s]
    BY <1>7
  <2> QED BY <1>0, <2>1
<1> DEFINE h == [k \in 0..N |-> it[1..k]]
<1>9. h[0] = start /\ h[N] = it[1..N]
  <2>1. 1..0 = {} /\ 0 \in 0..N /\ N \in 0..N
    BY <1>0
  <2>2. h[0] = it[1..0] /\ h[N] = it[1..N]
    BY <2>1
  <2>3. it[{}] = start
    BY <1>8
  <2> HIDE DEF h
  <2> QED BY <2>1, <2>2, <2>3
<1>10. ASSUME NEW k \in 1..N PROVE h[k] = ShowStep(h[k - 1], q[k])
  <2>1. /\ 1..k \in SUBSET (1..N) /\ 1..k # {}
        /\ Max(1..k) = k /\ (1..k) \ {Max(1..k)} = 1..(k - 1)
    <3> HIDE DEF h, N
    <3> QED BY <1>0, Prefix
  <2>2. h[k] = it[1..k] /\ h[k - 1] = it[1..(k - 1)]
    BY <1>0
  <2>3. it[1..k] = ShowStep(it[(1..k) \ {Max(1..k)}], q[Max(1..k)])
    BY <1>8, <2>1
  <2> HIDE DEF h
  <2> QED BY <2>1, <2>2, <2>3
<1>11. ShowWalk(h, start, q)
  <2> HIDE DEF h
  <2> QED BY <1>9, <1>10 DEF ShowWalk
<1>12. h[Len(q)] = Shown(start, q)
  <2> HIDE DEF h
  <2> QED BY <1>7, <1>9
<1> HIDE DEF h
<1> QED
  BY <1>11, <1>12

\* The toolbar shows what it showed, or what one of the updates says if there is any.
LEMMA ShownMessages ==
  ASSUME NEW start \in Clients, NEW q \in Seq(Message)
  PROVE  LET end == Shown(start, q)
         IN  /\ end \in Clients
             /\ ~Has(q, "update") => end = start
             /\ Has(q, "update") => \E m \in ToSet(q) : m.kind = "update" /\ end = m.from
<1> DEFINE N == Len(q)
           HasUpTo(k) == \E j \in 1..k : q[j].kind = "update"
           Good(k, s) == /\ s \in Clients
                         /\ ~HasUpTo(k) => s = start
                         /\ HasUpTo(k) => \E j \in 1..k : q[j].kind = "update" /\ s = q[j].from
<1>0. N \in Nat /\ DOMAIN q = 1..N
  OBVIOUS
<1>1. PICK h : ShowWalk(h, start, q) /\ h[N] = Shown(start, q)
  BY ShownWalk
<1> DEFINE T == {k \in 0..N : ~Good(k, h[k])}
<1>2. Good(0, h[0])
  BY <1>1 DEF ShowWalk
<1>3. ASSUME NEW k \in 1..N, Good(k - 1, h[k - 1]) PROVE Good(k, h[k])
  <2>1. h[k] = ShowStep(h[k - 1], q[k]) /\ q[k] \in Message
    BY <1>0, <1>1 DEF ShowWalk
  <2>2. \A j \in 1..(k - 1) : j \in 1..k
    OBVIOUS
  <2>3. CASE q[k].kind = "update"
    <3>1. h[k] = q[k].from /\ h[k] \in Clients /\ k \in 1..k
      BY <2>1, <2>3 DEF ShowStep, Message
    <3> QED BY <2>3, <3>1
  <2>4. CASE q[k].kind # "update"
    <3>1. h[k] = h[k - 1]
      BY <2>1, <2>4 DEF ShowStep
    <3>2. HasUpTo(k) <=> HasUpTo(k - 1)
      BY <2>2, <2>4
    <3>3. HasUpTo(k - 1) => \E j \in 1..k : q[j].kind = "update" /\ h[k] = q[j].from
      BY <1>3, <2>2, <3>1
    <3>4. ~HasUpTo(k - 1) => h[k] = start
      BY <1>3, <3>1
    <3>5. h[k] \in Clients
      BY <1>3, <3>1
    <3> HIDE DEF HasUpTo
    <3> QED BY <3>2, <3>3, <3>4, <3>5
  <2> QED BY <2>3, <2>4
<1> HIDE DEF Good
<1>4. T = {}
  <2> SUFFICES ASSUME T # {} PROVE FALSE
    OBVIOUS
  <2>1. PICK n \in T : \A m \in T : n <= m
    <3>1. T \in SUBSET Nat
      OBVIOUS
    <3> QED BY <3>1, Least
  <2>2. n # 0 /\ n \in 1..N /\ n - 1 \in 0..N /\ n - 1 \notin T
    BY <1>0, <1>2, <2>1
  <2>3. Good(n - 1, h[n - 1])
    BY <2>2
  <2> QED BY <1>3, <2>1, <2>2, <2>3
<1>5. Good(N, h[N])
  BY <1>0, <1>4
<1> QED
  BY <1>0, <1>1, <1>5 DEF Good, Has, ToSet

\* What is in a sequence that is put together or taken apart.
LEMMA Nothing == ToSet(<<>>) = {}
BY DEF ToSet

LEMMA Single ==
  ASSUME NEW M, NEW m \in M
  PROVE  ToSet(<<m>>) = {m} /\ <<m>> \in Seq(M)
BY DEF ToSet

LEMMA Joined ==
  ASSUME NEW M, NEW s \in Seq(M), NEW t \in Seq(M)
  PROVE  ToSet(s \o t) = ToSet(s) \cup ToSet(t) /\ s \o t \in Seq(M)
<1>1. \A k \in DOMAIN (s \o t) : \/ k \in DOMAIN s /\ (s \o t)[k] = s[k]
                                 \/ k - Len(s) \in DOMAIN t /\ (s \o t)[k] = t[k - Len(s)]
  OBVIOUS
<1>2. \A k \in DOMAIN s : k \in DOMAIN (s \o t) /\ (s \o t)[k] = s[k]
  OBVIOUS
<1>3. \A k \in DOMAIN t : k + Len(s) \in DOMAIN (s \o t) /\ (s \o t)[k + Len(s)] = t[k]
  OBVIOUS
<1>4. \A k \in DOMAIN (s \o t) : (s \o t)[k] \in ToSet(s) \cup ToSet(t)
  BY <1>1 DEF ToSet
<1>5. \A k \in DOMAIN s : s[k] \in ToSet(s \o t)
  BY <1>2 DEF ToSet
<1>6. \A k \in DOMAIN t : t[k] \in ToSet(s \o t)
  BY <1>3 DEF ToSet
<1>7. ToSet(s \o t) \subseteq ToSet(s) \cup ToSet(t)
  BY <1>4 DEF ToSet
<1>8. ToSet(s) \subseteq ToSet(s \o t) /\ ToSet(t) \subseteq ToSet(s \o t)
  BY <1>5, <1>6 DEF ToSet
<1> QED BY <1>7, <1>8

LEMMA Appended ==
  ASSUME NEW M, NEW s \in Seq(M), NEW m \in M
  PROVE  ToSet(Append(s, m)) = ToSet(s) \cup {m} /\ Append(s, m) \in Seq(M)
<1>1. \A k \in DOMAIN Append(s, m) : (k \in DOMAIN s /\ Append(s, m)[k] = s[k]) \/ Append(s, m)[k] = m
  OBVIOUS
<1>2. \A k \in DOMAIN s : k \in DOMAIN Append(s, m) /\ Append(s, m)[k] = s[k]
  OBVIOUS
<1>3. Len(s) + 1 \in DOMAIN Append(s, m) /\ Append(s, m)[Len(s) + 1] = m
  OBVIOUS
<1> QED BY <1>1, <1>2, <1>3 DEF ToSet

LEMMA Taken ==
  ASSUME NEW M, NEW s \in Seq(M), s # <<>>
  PROVE  Head(s) \in M /\ Tail(s) \in Seq(M) /\ ToSet(s) = {Head(s)} \cup ToSet(Tail(s))
<1>1. 1 \in DOMAIN s /\ Head(s) = s[1] /\ Tail(s) \in Seq(M)
  OBVIOUS
<1>2. \A k \in DOMAIN Tail(s) : k + 1 \in DOMAIN s /\ Tail(s)[k] = s[k + 1]
  OBVIOUS
<1>3. \A k \in DOMAIN s : k = 1 \/ (k - 1 \in DOMAIN Tail(s) /\ Tail(s)[k - 1] = s[k])
  OBVIOUS
<1>4. \A k \in DOMAIN Tail(s) : Tail(s)[k] \in ToSet(s)
  BY <1>2 DEF ToSet
<1>5. \A k \in DOMAIN s : s[k] \in {Head(s)} \cup ToSet(Tail(s))
  BY <1>1, <1>3 DEF ToSet
<1>6. Head(s) \in ToSet(s)
  BY <1>1 DEF ToSet
<1>7. ToSet(Tail(s)) \subseteq ToSet(s)
  BY <1>4 DEF ToSet
<1>8. ToSet(s) \subseteq {Head(s)} \cup ToSet(Tail(s))
  BY <1>5 DEF ToSet
<1>9. Head(s) \in M
  BY <1>1
<1> QED BY <1>1, <1>6, <1>7, <1>8, <1>9

-----------------------------------------------------------------------------
(* Types. *)

ConnType ==
  /\ uim_fd \in [Contexts -> Fds \cup {-1}]
  /\ im_uim_fd \in [Procs -> Fds \cup {-1}]
  /\ table \in [Procs -> [Fds -> {"none", "helper", "other"}]]
  /\ link \in [Clients -> {"none", "up", "down"}]
  /\ fails \in Nat
  /\ \A p \in Procs : \A d \in Fds : table[p][d] = "helper" <=> d = im_uim_fd[p]
  /\ \A p \in Procs : im_uim_fd[p] = -1 <=> link[p] = "none"

WireType ==
  /\ sent \in [Clients -> Seq(Message)]
  /\ inbox \in [Clients -> Seq(Message)]
  /\ read_buf \in [Clients -> Seq(Message)]

HistoryType ==
  /\ disable_focused_context \in [Procs -> BOOLEAN]
  /\ shown \in Clients
  /\ hasty \in BOOLEAN /\ announced \in BOOLEAN /\ stray \in BOOLEAN
  /\ acts \in Nat /\ crashes \in Nat /\ opens \in [Procs -> Nat]

LEMMA TypeParts == TypeOK <=> FocusType /\ ConnType /\ WireType /\ HistoryType
BY SMTT(30) DEF TypeOK, FocusType, ConnType, WireType, HistoryType

\* A crash alone tears messages, and with the connection: whoever is connected has
\* whole ones, and who is not has none.
Wires ==
  /\ \A q \in Clients : link[q] = "none" => inbox[q] = <<>>
  /\ \A q \in Clients : link[q] = "up" => \A m \in ToSet(inbox[q]) : m.whole
  /\ \A q \in Clients : \A m \in ToSet(sent[q]) : m.whole

TInv == IInv /\ ConnType /\ WireType /\ HistoryType /\ Wires

\* Connecting again makes a connection where there was none, and ends none.
LEMMA Connection ==
  ASSUME ConnType, NEW p \in Procs, NEW c \in Contexts, NEW ok \in BOOLEAN,
         check_helper_connection(p, c, ok)
  PROVE  /\ ConnType' /\ read_buf' = read_buf
         /\ \A q \in Clients : q # p => link'[q] = link[q]
         /\ link'[p] = link[p] \/ (link[p] = "none" /\ link'[p] = "up")
<1> DEFINE fd == lowest_free(p)
           connects == im_uim_fd[p] = -1 /\ ok /\ HasFree(p)
<1>0. -1 \notin Fds /\ p \in Clients
  BY FocusAssumption DEF Clients
<1>1. CASE connects
  <2>1. /\ im_uim_fd' = [im_uim_fd EXCEPT ![p] = fd]
        /\ table' = [table EXCEPT ![p][fd] = "helper"]
        /\ link' = [link EXCEPT ![p] = "up"]
        /\ uim_fd' = [uim_fd EXCEPT ![c] = fd]
        /\ fails' = fails /\ read_buf' = read_buf
    BY <1>1 DEF check_helper_connection
  <2>2. fd \in Fds
    BY <1>1, LowestFree
  <2> HIDE DEF fd
  <2>3. link[p] = "none" /\ link'[p] = "up"
    BY <1>0, <1>1, <2>1 DEF ConnType
  <2>4. ASSUME NEW q \in Procs, NEW d \in Fds
        PROVE  table'[q][d] = "helper" <=> d = im_uim_fd'[q]
    BY <1>0, <1>1, <2>1, <2>2 DEF ConnType
  <2>5. ASSUME NEW q \in Procs PROVE im_uim_fd'[q] = -1 <=> link'[q] = "none"
    BY <1>0, <2>1, <2>2 DEF ConnType, Clients
  <2>6. ConnType'
    BY ZenonT(40), <2>1, <2>2, <2>4, <2>5 DEF ConnType
  <2> QED BY <2>1, <2>3, <2>6 DEF ConnType
<1>2. CASE ~connects
  <2>1. /\ UNCHANGED <<im_uim_fd, table, link, read_buf>>
        /\ uim_fd' = [uim_fd EXCEPT ![c] = IF life[c] = "live" THEN @ ELSE -1]
        /\ fails' = IF im_uim_fd[p] # -1 THEN fails ELSE fails + 1
    BY <1>2 DEF check_helper_connection
  <2>2. ConnType'
    BY <2>1 DEF ConnType
  <2> QED BY <2>1, <2>2
<1> QED
  BY <1>1, <1>2

LEMMA Disconnection ==
  ASSUME ConnType, NEW p \in Procs, link[p] = "down", helper_disconnect(p),
         link' = [link EXCEPT ![p] = "none"], UNCHANGED <<uim_fd, fails>>
  PROVE  ConnType'
<1>0. -1 \notin Fds /\ p \in Clients
  BY FocusAssumption DEF Clients
<1>1. /\ im_uim_fd' = [im_uim_fd EXCEPT ![p] = -1]
      /\ table' = [table EXCEPT ![p][im_uim_fd[p]] = "none"]
      /\ im_uim_fd[p] \in Fds
  BY <1>0 DEF helper_disconnect, ConnType
<1>2. table' \in [Procs -> [Fds -> {"none", "helper", "other"}]]
  BY <1>1 DEF ConnType
<1>3. ASSUME NEW q \in Procs, NEW d \in Fds
      PROVE  table'[q][d] = "helper" <=> d = im_uim_fd'[q]
  BY <1>0, <1>1 DEF ConnType
<1>4. ASSUME NEW q \in Procs PROVE im_uim_fd'[q] = -1 <=> link'[q] = "none"
  BY <1>0, <1>1 DEF ConnType, Clients
<1>5. link' \in [Clients -> {"none", "up", "down"}] /\ im_uim_fd' \in [Procs -> Fds \cup {-1}]
  BY <1>1 DEF ConnType
<1> QED
  BY <1>2, <1>3, <1>4, <1>5 DEF ConnType

\* What is read are messages.
LEMMA Reading ==
  ASSUME WireType, NEW q \in Clients, NEW legible \in BOOLEAN
  PROVE  /\ uim_helper_get_messages(q, legible) \in Seq(Message)
         /\ RestOf(q) \in Seq(Message)
         /\ Wires /\ link[q] = "up" /\ read_buf[q] = <<>> =>
              uim_helper_get_messages(q, legible) = inbox[q] /\ RestOf(q) = <<>>
<1>1. inbox[q] \in Seq(Message) /\ read_buf[q] \in Seq(Message)
  BY DEF WireType
<1>2. inbox[q] # <<>> => /\ Last(inbox[q]) \in ToSet(inbox[q]) /\ Last(inbox[q]) \in Message
                         /\ Front(inbox[q]) \in Seq(Message)
  BY <1>1 DEF Last, Front, ToSet
<1>3. Whole(q) \in Seq(Message) /\ Torn(q) \in Seq(Message)
  BY <1>1, <1>2 DEF Whole, Torn, EndsTorn
<1>4. ASSUME NEW m \in Message, Whole(q) # <<>>
      PROVE  <<m>> \o Tail(Whole(q)) \in Seq(Message)
  BY <1>3, <1>4
<1>5. read_buf[q] # <<>> => read_buf[q][1] \in Message
  BY <1>1
<1>6. \A m \in Message : [m EXCEPT !.kind = "junk"] \in Message
  BY DEF Message
<1>7. uim_helper_get_messages(q, legible) \in Seq(Message)
  <2>1. CASE read_buf[q] = <<>> \/ Whole(q) = <<>>
    BY <1>3, <2>1 DEF uim_helper_get_messages
  <2>2. CASE ~(read_buf[q] = <<>> \/ Whole(q) = <<>>)
    <3> DEFINE m == IF legible THEN read_buf[q][1] ELSE [read_buf[q][1] EXCEPT !.kind = "junk"]
    <3>1. m \in Message
      BY <1>5, <1>6, <2>2
    <3>2. uim_helper_get_messages(q, legible) = <<m>> \o Tail(Whole(q))
      BY <2>2 DEF uim_helper_get_messages
    <3> HIDE DEF m
    <3> QED BY <1>4, <2>2, <3>1, <3>2
  <2> QED BY <2>1, <2>2
<1>8. ASSUME Wires, link[q] = "up", read_buf[q] = <<>>
      PROVE  uim_helper_get_messages(q, legible) = inbox[q] /\ RestOf(q) = <<>>
  <2>1. ~EndsTorn(q)
    BY <1>2, <1>8 DEF EndsTorn, Wires
  <2> QED BY <1>8, <2>1 DEF Whole, Torn, uim_helper_get_messages, RestOf
<1> QED
  BY <1>1, <1>3, <1>7, <1>8 DEF RestOf

\* What a process does with what it has read.
Reads(p, out, b) ==
  LET sound == link[p] = "up" /\ read_buf[p] = <<>>
      deaf == focused_context[p] = NoContext \/ disable_focused_context[p]
  IN  /\ out \in Seq(Message) /\ b \in BOOLEAN
      /\ sent' = IF link[p] = "up" THEN [sent EXCEPT ![p] = @ \o out] ELSE sent
      /\ disable_focused_context' = [disable_focused_context EXCEPT ![p] = b]
      /\ \A m \in ToSet(out) : m = Msg("update", p)
      /\ deaf => out = <<>> /\ b = disable_focused_context[p]
      /\ sound => (out # <<>> => Has(inbox[p], "get"))
      /\ sound /\ ~deaf => (b <=> Has(inbox[p], "focus_in"))

LEMMA ReadEffect ==
  ASSUME TInv, NEW p \in Procs, helper_read_cb(p)
  PROVE  \E out, b : Reads(p, out, b)
<1> DEFINE start == [disabled |-> disable_focused_context[p], out |-> <<>>]
           msgs(legible) == uim_helper_get_messages(p, legible)
<1>1. PICK legible \in BOOLEAN :
        /\ disable_focused_context' =
             [disable_focused_context EXCEPT ![p] = Parsed(p, start, msgs(legible)).disabled]
        /\ sent' = IF link[p] = "up"
                   THEN [sent EXCEPT ![p] = @ \o Parsed(p, start, msgs(legible)).out] ELSE sent
  BY DEF helper_read_cb, Parsed
<1>2. PICK q : q = msgs(legible)
  OBVIOUS
<1>3. /\ q \in Seq(Message)
      /\ link[p] = "up" /\ read_buf[p] = <<>> => q = inbox[p]
  BY <1>2, Reading DEF TInv, Clients
<1>4. start \in State /\ start.out = <<>> /\ start.disabled = disable_focused_context[p]
  BY DEF State, TInv, HistoryType
<1>5. PICK st : st = start
  OBVIOUS
<1>6. PICK end : end = Parsed(p, st, q)
  OBVIOUS
<1>7. /\ end \in State
      /\ focused_context[p] = NoContext \/ st.disabled => end = st
      /\ ~(focused_context[p] = NoContext \/ st.disabled) => (end.disabled <=> Has(q, "focus_in"))
      /\ end.out # <<>> => Has(q, "get")
      /\ \A m \in ToSet(end.out) : m = Msg("update", p)
  BY <1>3, <1>4, <1>5, <1>6, ParsedMessages
<1>8. /\ disable_focused_context' = [disable_focused_context EXCEPT ![p] = end.disabled]
      /\ sent' = IF link[p] = "up" THEN [sent EXCEPT ![p] = @ \o end.out] ELSE sent
  BY <1>1, <1>2, <1>5, <1>6
<1>9. st.out = <<>> /\ st.disabled = disable_focused_context[p]
  BY <1>4, <1>5
<1>10. end.out \in Seq(Message) /\ end.disabled \in BOOLEAN
  BY <1>7 DEF State
<1> HIDE DEF start, msgs
<1>11. Reads(p, end.out, end.disabled)
  BY <1>3, <1>7, <1>8, <1>9, <1>10 DEF Reads
<1> QED
  BY <1>11

LEMMA MsgType ==
  ASSUME NEW kind \in {"focus_in", "get", "update", "junk"}, NEW q \in Clients
  PROVE  /\ Msg(kind, q) \in Message
         /\ Msg(kind, q).kind = kind /\ Msg(kind, q).from = q /\ Msg(kind, q).whole
BY DEF Msg, Message

\* What focus_in sends, and how the connection stands after it.
FocusIn(p, c, in, up) ==
  /\ in \in Seq(Message) /\ up \in Seq(Message)
  /\ ToSet(in) \subseteq {Msg("focus_in", p)} /\ ToSet(up) \subseteq {Msg("update", p)}
  /\ sent' = [sent EXCEPT ![p] = (@ \o in) \o up]
  /\ link'[p] = "up" /\ focus_fd(p, c) = im_uim_fd'[p] =>
       ToSet(in) = {Msg("focus_in", p)} /\ ToSet(up) = {Msg("update", p)}

LEMMA FocusInEffect ==
  ASSUME TInv, NEW p \in Procs, im_uim_focus_in(p), NEW c, c = Head(events[p]).ctx
  PROVE  /\ c \in Contexts
         /\ \E ok \in BOOLEAN : check_helper_connection(p, c, ok)
         /\ ConnType'
         /\ \E in, up : FocusIn(p, c, in, up)
<1>1. /\ \E ok \in BOOLEAN : check_helper_connection(p, c, ok)
      /\ sent' = [sent EXCEPT ![p] = (@ \o Sends(p, focus_fd(p, c), Msg("focus_in", p)))
                                        \o Sends(p, im_uim_fd'[p], Msg("update", p))]
      /\ events[p] # <<>> /\ events' = [events EXCEPT ![p] = Tail(@)]
  BY DEF im_uim_focus_in
<1>2. c \in Contexts
  BY <1>1, TakeEvent DEF TInv, LiveIn
<1>3. ConnType'
  BY <1>1, <1>2, Connection DEF TInv
<1>4. PICK in : in = Sends(p, focus_fd(p, c), Msg("focus_in", p))
  OBVIOUS
<1>5. PICK up : up = Sends(p, im_uim_fd'[p], Msg("update", p))
  OBVIOUS
<1>6. p \in Clients
  BY DEF Clients
<1>7. in \in {<<>>, <<Msg("focus_in", p)>>} /\ up \in {<<>>, <<Msg("update", p)>>}
  BY <1>4, <1>5 DEF Sends
<1>8. link'[p] = "up" /\ focus_fd(p, c) = im_uim_fd'[p] =>
        in = <<Msg("focus_in", p)>> /\ up = <<Msg("update", p)>>
  BY <1>3, <1>4, <1>5 DEF Sends, ConnType
<1>9. /\ Msg("focus_in", p) \in Message /\ Msg("update", p) \in Message
  BY <1>6, MsgType
<1>10. /\ in \in Seq(Message) /\ up \in Seq(Message)
       /\ ToSet(in) \subseteq {Msg("focus_in", p)} /\ ToSet(up) \subseteq {Msg("update", p)}
       /\ ToSet(<<Msg("focus_in", p)>>) = {Msg("focus_in", p)}
       /\ ToSet(<<Msg("update", p)>>) = {Msg("update", p)}
  <2>1. /\ ToSet(<<Msg("focus_in", p)>>) = {Msg("focus_in", p)}
        /\ ToSet(<<Msg("update", p)>>) = {Msg("update", p)}
        /\ <<Msg("focus_in", p)>> \in Seq(Message) /\ <<Msg("update", p)>> \in Seq(Message)
    BY <1>9, Single
  <2>2. <<>> \in Seq(Message)
    OBVIOUS
  <2> QED BY <1>7, <2>1, <2>2, Nothing
<1>11. sent' = [sent EXCEPT ![p] = (@ \o in) \o up]
  BY <1>1, <1>4, <1>5
<1>12. FocusIn(p, c, in, up)
  BY <1>8, <1>10, <1>11 DEF FocusIn
<1> QED
  BY <1>1, <1>2, <1>3, <1>12

\* What can be left of a message queue when the server dies.
LEMMA CutType ==
  ASSUME WireType, NEW q \in Clients, NEW cut \in Cuts(q)
  PROVE  cut \in Seq(Message) /\ (link[q] # "up" => cut = inbox[q])
<1>1. CASE link[q] # "up"
  BY <1>1 DEF Cuts, WireType
<1>2. CASE link[q] = "up"
  <2>1. inbox[q] \in Seq(Message)
    BY DEF WireType
  <2>2. PICK n \in 0..Len(inbox[q]) :
          \/ cut = SubSeq(inbox[q], 1, n)
          \/ cut = Append(SubSeq(inbox[q], 1, n),
                          [(IF n < Len(inbox[q]) THEN inbox[q][n + 1] ELSE Msg("junk", q))
                             EXCEPT !.whole = FALSE])
    BY <1>2 DEF Cuts
  <2>3. PICK next : next = IF n < Len(inbox[q]) THEN inbox[q][n + 1] ELSE Msg("junk", q)
    OBVIOUS
  <2>4. next \in Message
    BY <2>1, <2>3, MsgType
  <2>5. [next EXCEPT !.whole = FALSE] \in Message
    BY <2>4 DEF Message
  <2>6. SubSeq(inbox[q], 1, n) \in Seq(Message)
    BY <2>1
  <2>7. cut = SubSeq(inbox[q], 1, n) \/ cut = Append(SubSeq(inbox[q], 1, n), [next EXCEPT !.whole = FALSE])
    BY <2>2, <2>3
  <2>8. \A s \in Seq(Message), m \in Message : Append(s, m) \in Seq(Message)
    OBVIOUS
  <2>9. cut \in Seq(Message)
    BY <2>5, <2>6, <2>7, <2>8
  <2> QED BY <1>2, <2>9
<1> QED
  BY <1>1, <1>2

TParts == ConnType /\ WireType /\ HistoryType /\ Wires

\* Connections that are made bring nothing along.
LEMMA WiresStay ==
  ASSUME Wires, inbox' = inbox,
         \A q \in Clients : link'[q] = link[q] \/ link[q] = "none",
         \A q \in Clients : \A m \in ToSet(sent'[q]) : m.whole
  PROVE  Wires'
BY Nothing DEF Wires

LEMMA CreateType ==
  ASSUME TInv, NEW c \in Contexts, im_module_create(c)
  PROVE  TParts'
<1> DEFINE p == Owner[c]
<1>0. p \in Procs
  BY FocusAssumption
<1> HIDE DEF p
<1>1. /\ \E ok \in BOOLEAN : check_helper_connection(p, c, ok)
      /\ UNCHANGED <<sent, inbox, disable_focused_context, shown, hasty, announced, stray, acts,
                     crashes, opens>>
  BY DEF im_module_create, focusVars, wireVars, userVars, faultVars, p
<1>2. /\ ConnType' /\ read_buf' = read_buf
      /\ \A q \in Clients : link'[q] = link[q] \/ link[q] = "none"
  BY <1>0, <1>1, Connection DEF TInv
<1> QED
  <2>1. Wires'
    BY <1>1, <1>2, WiresStay DEF TInv, Wires
  <2> QED BY <1>1, <1>2, <2>1 DEF TInv, TParts, WireType, HistoryType

\* What a focus_in adds to what is on its way.
LEMMA SentGrows ==
  ASSUME WireType, NEW p \in Procs, NEW c, NEW in, NEW up, FocusIn(p, c, in, up)
  PROVE  /\ ToSet(sent'[p]) = ToSet(sent[p]) \cup ToSet(in) \cup ToSet(up)
         /\ \A q \in Clients : q # p => sent'[q] = sent[q]
         /\ sent' \in [Clients -> Seq(Message)]
<1>1. sent[p] \in Seq(Message) /\ in \in Seq(Message) /\ up \in Seq(Message) /\ p \in Clients
  BY DEF WireType, FocusIn, Clients
<1>2. PICK one : one = sent[p] \o in
  OBVIOUS
<1>4. /\ one \in Seq(Message) /\ one \o up \in Seq(Message)
      /\ ToSet(one) = ToSet(sent[p]) \cup ToSet(in)
      /\ ToSet(one \o up) = ToSet(one) \cup ToSet(up)
  <2>1. one \in Seq(Message) /\ ToSet(one) = ToSet(sent[p]) \cup ToSet(in)
    BY <1>1, <1>2, Joined
  <2> QED BY <1>1, <2>1, Joined
<1>3. sent' = [sent EXCEPT ![p] = one \o up]
  BY <1>2 DEF FocusIn
<1> QED
  BY <1>1, <1>3, <1>4 DEF WireType

LEMMA FocusInType ==
  ASSUME TInv, NEW p \in Procs, im_uim_focus_in(p)
  PROVE  TParts'
<1>0. p \in Clients
  BY DEF Clients
<1>1. PICK c : c = Head(events[p]).ctx
  OBVIOUS
<1>2. /\ disable_focused_context' = [disable_focused_context EXCEPT ![p] = FALSE]
      /\ stray' = (stray \/ GoesAstray(p, focus_fd(p, c)))
      /\ announced' = Announces(p, c)
      /\ UNCHANGED <<inbox, hasty, acts, crashes, shown, opens>>
  BY <1>1 DEF im_uim_focus_in
<1>3. /\ c \in Contexts /\ ConnType'
      /\ \E ok \in BOOLEAN : check_helper_connection(p, c, ok)
      /\ \E in, up : FocusIn(p, c, in, up)
  BY <1>1, FocusInEffect
<1>4. /\ read_buf' = read_buf
      /\ \A q \in Clients : link'[q] = link[q] \/ link[q] = "none"
  BY <1>3, Connection DEF TInv
<1>5. PICK in, up : FocusIn(p, c, in, up)
  BY <1>3
<1>6. sent' \in [Clients -> Seq(Message)]
  BY <1>5, SentGrows DEF TInv
<1>7. WireType'
  BY <1>2, <1>4, <1>6 DEF TInv, WireType
<1>8. stray' \in BOOLEAN /\ announced' \in BOOLEAN
  BY <1>2 DEF TInv, HistoryType, Announces, GoesAstray
<1>9. HistoryType'
  BY <1>2, <1>8 DEF TInv, HistoryType
<1>10. Wires'
  <2>1. \A q \in Clients : \A m \in ToSet(sent'[q]) : m.whole
    <3> SUFFICES ASSUME NEW q \in Clients, NEW m \in ToSet(sent'[q]) PROVE m.whole
      OBVIOUS
    <3>1. CASE q # p
      BY <1>5, <3>1 DEF TInv, WireType, Wires, FocusIn
    <3>2. CASE q = p
      <4>1. ToSet(sent'[p]) = ToSet(sent[p]) \cup ToSet(in) \cup ToSet(up)
        BY <1>0, <1>5, SentGrows DEF TInv
      <4>2. m \in ToSet(sent[p]) \/ m = Msg("focus_in", p) \/ m = Msg("update", p)
        BY <1>5, <3>2, <4>1 DEF FocusIn
      <4> QED BY <1>0, <4>2, MsgType DEF TInv, Wires
    <3> QED BY <3>1, <3>2
  <2> QED BY <1>2, <1>4, <2>1, WiresStay DEF TInv
<1> QED
  BY <1>3, <1>7, <1>9, <1>10 DEF TParts

LEMMA FocusOutType ==
  ASSUME TInv, NEW p \in Procs, im_uim_focus_out(p)
  PROVE  TParts'
<1>1. PICK c : c = Head(events[p]).ctx
  OBVIOUS
<1>2. /\ \E ok \in BOOLEAN : check_helper_connection(p, c, ok)
      /\ events[p] # <<>> /\ events' = [events EXCEPT ![p] = Tail(@)]
      /\ stray' = (stray \/ GoesAstray(p, focus_fd(p, c)))
      /\ UNCHANGED <<sent, inbox, disable_focused_context, hasty, acts, crashes, shown, opens, announced>>
  BY <1>1 DEF im_uim_focus_out, focusVars, wireVars, faultVars
<1>3. c \in Contexts
  BY <1>1, <1>2, TakeEvent DEF TInv, LiveIn
<1>4. /\ ConnType' /\ read_buf' = read_buf
      /\ \A q \in Clients : link'[q] = link[q] \/ link[q] = "none"
  BY <1>2, <1>3, Connection DEF TInv
<1>5. stray' \in BOOLEAN
  BY <1>2 DEF TInv, HistoryType, GoesAstray
<1>6. HistoryType'
  BY <1>2, <1>5 DEF TInv, HistoryType
<1> QED
  <2>1. Wires'
    BY <1>2, <1>4, WiresStay DEF TInv, Wires
  <2> QED BY <1>2, <1>4, <1>6, <2>1 DEF TInv, TParts, WireType

\* What an answer adds to what is on its way.
LEMMA AnswerGrows ==
  ASSUME WireType, NEW p \in Procs, NEW out, NEW b, Reads(p, out, b)
  PROVE  /\ ToSet(sent[p]) \subseteq ToSet(sent'[p])
         /\ \A m \in ToSet(sent'[p]) : m \in ToSet(sent[p]) \/ (m = Msg("update", p) /\ out # <<>>)
         /\ \A q \in Clients : q # p => sent'[q] = sent[q]
         /\ out = <<>> => sent' = sent
         /\ sent' \in [Clients -> Seq(Message)]
<1>1. sent[p] \in Seq(Message) /\ out \in Seq(Message) /\ p \in Clients
  BY DEF WireType, Reads, Clients
<1>2. ToSet(sent[p] \o out) = ToSet(sent[p]) \cup ToSet(out) /\ sent[p] \o out \in Seq(Message)
  BY <1>1, Joined
<1>3. out = <<>> => ToSet(out) = {} /\ sent[p] \o out = sent[p]
  BY <1>1, Nothing
<1>4. CASE link[p] = "up"
  <2>1. sent' = [sent EXCEPT ![p] = sent[p] \o out]
    BY <1>4 DEF Reads
  <2>2. sent'[p] = sent[p] \o out
    BY <1>1, <2>1 DEF WireType
  <2>3. out = <<>> => sent' = sent
    BY <1>3, <2>1 DEF WireType
  <2> QED BY <1>1, <1>2, <1>3, <2>1, <2>2, <2>3 DEF WireType, Reads
<1>5. CASE link[p] # "up"
  BY <1>5 DEF WireType, Reads
<1> QED
  BY <1>4, <1>5

LEMMA ReadType ==
  ASSUME TInv, NEW p \in Procs, helper_read_cb(p)
  PROVE  TParts'
<1>0. p \in Clients
  BY DEF Clients
<1>1. /\ Readable(p)
      /\ IF link[p] = "down" THEN helper_disconnect(p) ELSE UNCHANGED <<im_uim_fd, table>>
      /\ link' = IF link[p] = "down" THEN [link EXCEPT ![p] = "none"] ELSE link
      /\ inbox' = [inbox EXCEPT ![p] = <<>>]
      /\ UNCHANGED <<uim_fd, fails, shown, hasty, announced, stray, acts, crashes, opens>>
  BY DEF helper_read_cb, ctxVars, userVars, faultVars
<1>2. \E legible \in BOOLEAN : TRUE
  OBVIOUS
<1>3. RestOf(p) \in Seq(Message) /\ read_buf' = [read_buf EXCEPT ![p] = RestOf(p)]
  BY <1>0, <1>2, Reading DEF helper_read_cb, TInv
<1>4. PICK out, b : Reads(p, out, b)
  BY ReadEffect
<1>5. ConnType'
  <2>1. CASE link[p] = "down"
    BY <1>1, <2>1, Disconnection DEF TInv
  <2>2. CASE link[p] # "down"
    BY <1>1, <2>2 DEF TInv, ConnType
  <2> QED BY <2>1, <2>2
<1>6. sent' \in [Clients -> Seq(Message)]
  BY <1>4, AnswerGrows DEF TInv
<1>7. WireType'
  <2>1. inbox' \in [Clients -> Seq(Message)]
    BY <1>0, <1>1 DEF TInv, WireType
  <2>2. read_buf' \in [Clients -> Seq(Message)]
    BY <1>0, <1>3 DEF TInv, WireType
  <2> QED BY <1>6, <2>1, <2>2 DEF WireType
<1>8. HistoryType'
  BY <1>1, <1>4 DEF TInv, HistoryType, Reads
<1>9. \A q \in Clients : inbox'[q] = IF q = p THEN <<>> ELSE inbox[q]
  BY <1>0, <1>1 DEF TInv, WireType
<1>10. \A q \in Clients : q # p => link'[q] = link[q]
  BY <1>0, <1>1 DEF TInv, ConnType
<1>11. \A q \in Clients : \A m \in ToSet(sent'[q]) : m.whole
  <2> SUFFICES ASSUME NEW q \in Clients, NEW m \in ToSet(sent'[q]) PROVE m.whole
    OBVIOUS
  <2>1. m \in ToSet(sent[q]) \/ m = Msg("update", p)
    BY <1>4, AnswerGrows DEF TInv
  <2>2. Msg("update", p).whole
    BY DEF Msg
  <2> QED BY <2>1, <2>2 DEF TInv, Wires
<1>12. Wires'
  BY <1>9, <1>10, <1>11, Nothing DEF TInv, Wires
<1> QED
  BY <1>5, <1>7, <1>8, <1>12 DEF TParts

LEMMA ToolbarReadType ==
  ASSUME TInv, toolbar_read_cb
  PROVE  TParts'
<1>0. Toolbar \in Clients /\ Toolbar \notin Procs
  BY FocusAssumption DEF Clients
<1>1. /\ link[Toolbar] # "none"
      /\ link' = IF link[Toolbar] = "down" THEN [link EXCEPT ![Toolbar] = "none"] ELSE link
      /\ inbox' = [inbox EXCEPT ![Toolbar] = <<>>]
      /\ read_buf' = [read_buf EXCEPT ![Toolbar] = RestOf(Toolbar)]
      /\ UNCHANGED <<uim_fd, im_uim_fd, table, fails, sent, disable_focused_context, hasty, announced,
                     stray, acts, crashes, opens>>
  BY DEF toolbar_read_cb, Readable, ctxVars, focusVars, userVars, faultVars
<1>2. PICK legible \in BOOLEAN : shown' = Shown(shown, uim_helper_get_messages(Toolbar, legible))
  BY DEF toolbar_read_cb, Shown
<1>3. RestOf(Toolbar) \in Seq(Message) /\ uim_helper_get_messages(Toolbar, legible) \in Seq(Message)
  BY <1>0, Reading DEF TInv
<1>4. shown' \in Clients
  <2>1. PICK q : q = uim_helper_get_messages(Toolbar, legible)
    OBVIOUS
  <2>2. PICK start : start = shown
    OBVIOUS
  <2>3. start \in Clients /\ q \in Seq(Message)
    BY <1>3, <2>1, <2>2 DEF TInv, HistoryType
  <2> QED BY <1>2, <2>1, <2>2, <2>3, ShownMessages
<1>5. ConnType'
  <2>1. link' \in [Clients -> {"none", "up", "down"}] /\ \A p \in Procs : link'[p] = link[p]
    BY <1>0, <1>1 DEF TInv, ConnType, Clients
  <2> QED BY <1>1, <2>1 DEF TInv, ConnType
<1>6. WireType'
  BY <1>0, <1>1, <1>3 DEF TInv, WireType
<1>7. HistoryType'
  BY <1>1, <1>4 DEF TInv, HistoryType
<1>8. \A q \in Clients : inbox'[q] = IF q = Toolbar THEN <<>> ELSE inbox[q]
  BY <1>0, <1>1 DEF TInv, WireType
<1>9. \A q \in Clients : q # Toolbar => link'[q] = link[q]
  BY <1>0, <1>1 DEF TInv, ConnType
<1>10. Wires'
  BY <1>1, <1>8, <1>9, Nothing DEF TInv, Wires
<1> QED
  BY <1>5, <1>6, <1>7, <1>10 DEF TParts

LEMMA OpenType ==
  ASSUME TInv, NEW p \in Procs, AppOpens(p)
  PROVE  TParts'
<1> DEFINE fd == lowest_free(p)
<1>1. /\ opens' = [opens EXCEPT ![p] = @ + 1]
      /\ table' = [table EXCEPT ![p][fd] = "other"]
      /\ im_uim_fd[p] = -1 /\ HasFree(p)
      /\ UNCHANGED <<uim_fd, im_uim_fd, link, read_buf, fails, sent, inbox, disable_focused_context,
                     hasty, announced, shown, stray, acts, crashes>>
  BY DEF AppOpens, ctxVars, focusVars, wireVars, userVars, faultVars
<1>2. fd \in Fds /\ -1 \notin Fds
  BY <1>1, LowestFree, FocusAssumption
<1> HIDE DEF fd
<1>3. table' \in [Procs -> [Fds -> {"none", "helper", "other"}]]
  BY <1>1, <1>2 DEF TInv, ConnType
<1>4. ASSUME NEW q \in Procs, NEW d \in Fds
      PROVE  table'[q][d] = "helper" <=> d = im_uim_fd'[q]
  BY <1>1, <1>2 DEF TInv, ConnType
<1>5. ConnType'
  BY <1>1, <1>3, <1>4 DEF TInv, ConnType
<1>6. HistoryType'
  BY <1>1 DEF TInv, HistoryType
<1> QED
  BY <1>1, <1>5, <1>6 DEF TInv, TParts, WireType, Wires

LEMMA ReflectType ==
  ASSUME TInv, NEW q \in Clients, Reflect(q)
  PROVE  TParts'
<1>1. /\ sent[q] # <<>>
      /\ sent' = [sent EXCEPT ![q] = Tail(@)]
      /\ inbox' = [r \in Clients |-> IF r # q /\ link[r] = "up" /\ Uses(r, Head(sent[q]))
                                     THEN Append(inbox[r], Head(sent[q])) ELSE inbox[r]]
      /\ UNCHANGED <<uim_fd, im_uim_fd, table, link, read_buf, fails, disable_focused_context,
                     hasty, announced, shown, stray, acts, crashes, opens>>
  BY DEF Reflect, ctxVars, focusVars, connVars, userVars, faultVars
<1>2. PICK m : m = Head(sent[q])
  OBVIOUS
<1>3. /\ m \in Message /\ m \in ToSet(sent[q]) /\ Tail(sent[q]) \in Seq(Message)
      /\ ToSet(Tail(sent[q])) \subseteq ToSet(sent[q])
  <2>1. sent[q] \in Seq(Message)
    BY DEF TInv, WireType
  <2> QED BY <1>1, <1>2, <2>1, Taken
<1>4. ASSUME NEW r \in Clients
      PROVE  /\ inbox'[r] \in Seq(Message)
             /\ inbox'[r] # inbox[r] => link[r] = "up" /\ ToSet(inbox'[r]) = ToSet(inbox[r]) \cup {m}
  <2>1. inbox[r] \in Seq(Message)
    BY DEF TInv, WireType
  <2>2. inbox'[r] = inbox[r] \/ (link[r] = "up" /\ inbox'[r] = Append(inbox[r], m))
    BY <1>1, <1>2
  <2>3. /\ Append(inbox[r], m) \in Seq(Message)
        /\ ToSet(Append(inbox[r], m)) = ToSet(inbox[r]) \cup {m}
    BY <1>3, <2>1, Appended
  <2> QED BY <2>1, <2>2, <2>3
<1>5. \A r \in Clients : ToSet(sent'[r]) \subseteq ToSet(sent[r])
  BY <1>1, <1>3 DEF TInv, WireType
<1>6. m.whole
  BY <1>3 DEF TInv, Wires
<1>7. Wires'
  BY ZenonT(40), <1>1, <1>4, <1>5, <1>6 DEF TInv, Wires
<1>8. inbox' \in [Clients -> Seq(Message)]
  <2>1. DOMAIN inbox' = Clients /\ inbox' = [r \in Clients |-> inbox'[r]]
    BY <1>1
  <2> QED BY <1>4, <2>1
<1>9. WireType'
  BY <1>1, <1>3, <1>8 DEF TInv, WireType
<1> QED
  BY <1>1, <1>7, <1>9 DEF TInv, TParts, ConnType, HistoryType

LEMMA CrashType ==
  ASSUME TInv, ServerCrash
  PROVE  TParts'
<1>1. /\ crashes' = crashes + 1
      /\ link' = [q \in Clients |-> IF link[q] = "up" THEN "down" ELSE link[q]]
      /\ sent' = [q \in Clients |-> <<>>]
      /\ announced' = FALSE
      /\ UNCHANGED <<uim_fd, im_uim_fd, table, read_buf, fails, disable_focused_context,
                     hasty, shown, stray, acts, opens>>
  BY DEF ServerCrash, ctxVars, focusVars, userVars
<1>2. PICK q \in Clients : \E cut \in Cuts(q) : inbox' = [inbox EXCEPT ![q] = cut]
  BY DEF ServerCrash
<1>3. PICK cut \in Cuts(q) : inbox' = [inbox EXCEPT ![q] = cut]
  BY <1>2
<1>4. cut \in Seq(Message) /\ (link[q] # "up" => cut = inbox[q])
  BY CutType DEF TInv
<1>5. ConnType'
  <2>1. link' \in [Clients -> {"none", "up", "down"}]
    BY <1>1 DEF TInv, ConnType
  <2>2. \A p \in Procs : link'[p] = "none" <=> link[p] = "none"
    BY <1>1 DEF Clients
  <2> QED BY <1>1, <2>1, <2>2 DEF TInv, ConnType
<1>6. WireType'
  <2>1. <<>> \in Seq(Message)
    OBVIOUS
  <2>2. sent' \in [Clients -> Seq(Message)]
    BY <1>1, <2>1
  <2>3. inbox' \in [Clients -> Seq(Message)]
    BY <1>3, <1>4 DEF TInv, WireType
  <2> QED BY <1>1, <2>2, <2>3 DEF TInv, WireType
<1>7. \A r \in Clients : link'[r] = "none" => inbox'[r] = <<>>
  BY <1>1, <1>3, <1>4 DEF TInv, WireType, Wires
<1>8. \A r \in Clients : link'[r] # "up" /\ ToSet(sent'[r]) = {}
  BY <1>1, Nothing
<1>9. Wires'
  BY <1>7, <1>8 DEF Wires
<1>10. HistoryType'
  <2>1. crashes' \in Nat
    BY <1>1 DEF TInv, HistoryType
  <2>2. announced' \in BOOLEAN
    BY <1>1
  <2> QED BY <1>1, <2>1, <2>2 DEF TInv, HistoryType
<1> QED
  BY <1>5, <1>6, <1>9, <1>10 DEF TParts

LEMMA ClickType ==
  ASSUME TInv, ToolbarClick
  PROVE  TParts'
<1>0. Toolbar \in Clients
  BY DEF Clients
<1>1. /\ acts' = acts + 1 /\ hasty' = (hasty \/ ~Quiet)
      /\ sent' = IF link[Toolbar] = "up"
                 THEN [sent EXCEPT ![Toolbar] = Append(@, Msg("get", Toolbar))] ELSE sent
      /\ UNCHANGED <<uim_fd, im_uim_fd, table, link, read_buf, fails, inbox, disable_focused_context,
                     announced, shown, stray, crashes, opens>>
  BY DEF ToolbarClick, ctxVars, focusVars, connVars, faultVars
<1>2. PICK m : m = Msg("get", Toolbar)
  OBVIOUS
<1>3. m \in Message /\ m.whole
  BY <1>0, <1>2, MsgType
<1>4. /\ Append(sent[Toolbar], m) \in Seq(Message)
      /\ ToSet(Append(sent[Toolbar], m)) = ToSet(sent[Toolbar]) \cup {m}
  BY <1>0, <1>3, Appended DEF TInv, WireType
<1>5. sent' = sent \/ sent' = [sent EXCEPT ![Toolbar] = Append(@, m)]
  BY <1>1, <1>2
<1>6. sent' \in [Clients -> Seq(Message)]
  BY <1>4, <1>5 DEF TInv, WireType
<1>7. \A q \in Clients : \A x \in ToSet(sent'[q]) : x.whole
  BY <1>0, <1>3, <1>4, <1>5 DEF TInv, WireType, Wires
<1>8. Wires'
  BY <1>1, <1>7 DEF TInv, Wires
<1>9. HistoryType'
  <2>1. hasty' \in BOOLEAN
    BY <1>1 DEF TInv, HistoryType, Quiet
  <2> QED BY <1>1, <2>1 DEF TInv, HistoryType
<1> QED
  BY <1>1, <1>6, <1>8, <1>9 DEF TInv, TParts, ConnType, WireType

LEMMA PopupType ==
  ASSUME TInv, ToolbarPopup
  PROVE  TParts'
<1>0. Toolbar \in Clients /\ Toolbar \notin Procs
  BY FocusAssumption DEF Clients
<1>1. /\ link[Toolbar] = "none" /\ link' = [link EXCEPT ![Toolbar] = "up"]
      /\ UNCHANGED <<uim_fd, im_uim_fd, table, read_buf, fails, sent, inbox, disable_focused_context,
                     hasty, announced, shown, stray, acts, crashes, opens>>
  BY DEF ToolbarPopup, ctxVars, focusVars, wireVars, userVars, faultVars
<1>2. link' \in [Clients -> {"none", "up", "down"}] /\ \A p \in Procs : link'[p] = link[p]
  BY <1>0, <1>1 DEF TInv, ConnType, Clients
<1>3. \A q \in Clients : link'[q] = link[q] \/ link[q] = "none"
  BY <1>0, <1>1 DEF TInv, ConnType
<1>4. Wires'
  BY <1>1, <1>3, WiresStay DEF TInv, Wires
<1> QED
  BY <1>1, <1>2, <1>4 DEF TInv, TParts, ConnType, WireType, HistoryType

LEMMA UserFocusType ==
  ASSUME TInv, NEW c \in Contexts, UserFocus(c)
  PROVE  TParts'
<1>1. /\ acts' = acts + 1 /\ hasty' = ~Quiet
      /\ UNCHANGED <<uim_fd, im_uim_fd, table, link, read_buf, fails, sent, inbox,
                     disable_focused_context, announced, shown, stray, crashes, opens>>
  BY DEF UserFocus, ctxVars, focusVars, connVars, wireVars, faultVars
<1>2. hasty' \in BOOLEAN
  BY <1>1 DEF TInv, HistoryType, Quiet
<1>3. HistoryType'
  BY <1>1, <1>2 DEF TInv, HistoryType
<1> QED
  BY <1>1, <1>3 DEF TInv, TParts, ConnType, WireType, Wires

LEMMA FinalizeType ==
  ASSUME TInv, NEW c \in Contexts, im_uim_finalize(c)
  PROVE  TParts'
<1>1. /\ \/ disable_focused_context' = disable_focused_context
         \/ disable_focused_context' = [disable_focused_context EXCEPT ![Owner[c]] = TRUE]
      /\ UNCHANGED <<uim_fd, im_uim_fd, table, link, read_buf, fails, sent, inbox, hasty,
                     announced, shown, stray, acts, crashes, opens>>
  BY DEF im_uim_finalize, connVars, wireVars, faultVars
<1>2. HistoryType'
  BY <1>1 DEF TInv, HistoryType
<1> QED
  BY <1>1, <1>2 DEF TInv, TParts, ConnType, WireType, Wires

\* The initial state satisfies the invariant.
LEMMA InitTInv == Init => TInv
<1> SUFFICES ASSUME Init PROVE TInv
  OBVIOUS
<1>1. LowestFd \in Fds /\ -1 \notin Fds
  BY LowestFdType, FocusAssumption
<1>2. <<>> \in Seq(Message) /\ Toolbar \in Clients /\ Procs \subseteq Clients
  BY DEF Clients
<1>3. ConnType
  BY <1>1, <1>2 DEF Init, ConnType
<1>4. WireType /\ HistoryType
  BY <1>2 DEF Init, WireType, HistoryType
<1>5. Wires
  BY Nothing DEF Init, Wires
<1> QED
  BY <1>3, <1>4, <1>5, InitIInv DEF TInv

\* Every step preserves it.
LEMMA NextTInv == TInv /\ [Next]_vars => TInv'
<1> SUFFICES ASSUME TInv, [Next]_vars PROVE TParts'
  BY NextIInv DEF TInv, TParts
<1>1. ASSUME NEW c \in Contexts, im_module_create(c) \/ im_uim_finalize(c) \/ UserFocus(c)
      PROVE  TParts'
  BY <1>1, CreateType, FinalizeType, UserFocusType
<1>2. ASSUME NEW p \in Procs,
             im_uim_focus_in(p) \/ im_uim_focus_out(p) \/ helper_read_cb(p) \/ AppOpens(p)
      PROVE  TParts'
  BY <1>2, FocusInType, FocusOutType, ReadType, OpenType
<1>3. ASSUME NEW q \in Clients, Reflect(q) PROVE TParts'
  BY <1>3, ReflectType
<1>4. CASE toolbar_read_cb \/ ToolbarPopup \/ ToolbarClick \/ ServerCrash
  BY <1>4, ToolbarReadType, PopupType, ClickType, CrashType
<1>5. CASE UNCHANGED vars
  BY <1>5 DEF vars, ctxVars, focusVars, connVars, wireVars, userVars, faultVars, TInv, TParts,
              ConnType, WireType, HistoryType, Wires
<1> QED
  BY <1>1, <1>2, <1>3, <1>4, <1>5 DEF Next

\* Types hold, and with them: a process knows a descriptor exactly when it has a
\* connection, and its file table agrees.
THEOREM TypeCorrect == Spec => []TypeOK
<1>1. TInv => TypeOK
  BY TypeParts DEF TInv, IInv
<1> QED
  BY InitTInv, NextTInv, <1>1, PTL DEF Spec

-----------------------------------------------------------------------------
(* At most one process answers. *)

\* Whoever else may believe himself focused has been told of the focus of h, or
\* will be: the focus_in is on its way, and nothing can keep it from being read.
Heard(h) ==
  \A q \in Procs \ {h} : focused_context[q] # NoContext =>
    /\ link[q] = "up" /\ read_buf[q] = <<>>
    /\ \/ disable_focused_context[q]
       \/ Has(sent[h], "focus_in")
       \/ Has(inbox[q], "focus_in")

One == announced => \E h \in Clients : Heard(h)

\* A step that focuses nobody and takes no message away.
Steady ==
  /\ \A q \in Procs : focused_context'[q] # NoContext =>
       focused_context'[q] = focused_context[q] /\ disable_focused_context'[q] = disable_focused_context[q]
  /\ \A q \in Procs : /\ link[q] = "up" => link'[q] = "up"
                      /\ read_buf'[q] = read_buf[q] /\ inbox'[q] = inbox[q]
  /\ \A q \in Clients : ToSet(sent[q]) \subseteq ToSet(sent'[q])

LEMMA SteadyHeard ==
  ASSUME Steady, NEW h \in Clients, Heard(h)
  PROVE  Heard(h)'
<1> SUFFICES ASSUME NEW q \in Procs \ {h}, focused_context'[q] # NoContext
             PROVE  /\ link'[q] = "up" /\ read_buf'[q] = <<>>
                    /\ \/ disable_focused_context'[q]
                       \/ Has(sent'[h], "focus_in")
                       \/ Has(inbox'[q], "focus_in")
  BY DEF Heard, Has
<1>1. /\ focused_context[q] # NoContext /\ disable_focused_context'[q] = disable_focused_context[q]
      /\ link[q] = "up" => link'[q] = "up"
      /\ read_buf'[q] = read_buf[q] /\ inbox'[q] = inbox[q]
  BY DEF Steady
<1>2. Has(sent[h], "focus_in") => Has(sent'[h], "focus_in")
  BY DEF Steady, Has
<1> QED
  BY <1>1, <1>2 DEF Heard

\* The steps that are steady.
LEMMA SteadySteps ==
  ASSUME TInv,
         \/ \E c \in Contexts : im_module_create(c) \/ im_uim_finalize(c) \/ UserFocus(c)
         \/ \E p \in Procs : im_uim_focus_out(p) \/ AppOpens(p)
         \/ toolbar_read_cb \/ ToolbarPopup \/ ToolbarClick
  PROVE  Steady /\ announced' = announced
<1>0. Toolbar \in Clients /\ Toolbar \notin Procs /\ Procs \subseteq Clients
  BY FocusAssumption DEF Clients
<1>1. ASSUME UNCHANGED <<focused_context, disable_focused_context, read_buf, inbox, sent>>,
             \A q \in Procs : link[q] = "up" => link'[q] = "up"
      PROVE  Steady
  BY <1>1 DEF Steady
<1>2. ASSUME NEW c \in Contexts, im_module_create(c)
      PROVE  Steady /\ announced' = announced
  <2>1. PICK p : p = Owner[c]
    OBVIOUS
  <2>2. p \in Procs
    BY <2>1, FocusAssumption
  <2>3. /\ \E ok \in BOOLEAN : check_helper_connection(p, c, ok)
        /\ UNCHANGED <<focused_context, disable_focused_context, inbox, sent, announced>>
    BY <1>2, <2>1 DEF im_module_create, focusVars, wireVars, faultVars
  <2>4. read_buf' = read_buf /\ \A q \in Clients : link'[q] = link[q] \/ link[q] = "none"
    BY <2>2, <2>3, Connection DEF TInv
  <2> QED BY <1>0, <1>1, <2>3, <2>4
<1>3. ASSUME NEW c \in Contexts, im_uim_finalize(c)
      PROVE  Steady /\ announced' = announced
  <2>1. PICK p : p = Owner[c]
    OBVIOUS
  <2>2. p \in Procs
    BY <2>1, FocusAssumption
  <2>3. /\ UNCHANGED <<link, read_buf, inbox, sent, announced>>
        /\ focused_context' = IF focused_context[p] = c
                              THEN [focused_context EXCEPT ![p] = NoContext] ELSE focused_context
        /\ disable_focused_context' = IF focused_context[p] = c
                                      THEN [disable_focused_context EXCEPT ![p] = TRUE]
                                      ELSE disable_focused_context
    BY <1>3, <2>1 DEF im_uim_finalize, connVars, wireVars, faultVars
  <2>4. ASSUME NEW q \in Procs, focused_context'[q] # NoContext
        PROVE  focused_context'[q] = focused_context[q] /\ disable_focused_context'[q] = disable_focused_context[q]
    BY <2>2, <2>3, <2>4 DEF TInv, IInv, FocusType, HistoryType
  <2> QED BY <2>3, <2>4 DEF Steady
<1>4. ASSUME NEW c \in Contexts, UserFocus(c)
      PROVE  Steady /\ announced' = announced
  BY <1>1, <1>4 DEF UserFocus, focusVars, connVars, wireVars, faultVars
<1>5. ASSUME NEW p \in Procs, im_uim_focus_out(p)
      PROVE  Steady /\ announced' = announced
  <2>1. PICK c : c = Head(events[p]).ctx
    OBVIOUS
  <2>2. /\ events[p] # <<>> /\ events' = [events EXCEPT ![p] = Tail(@)]
        /\ \E ok \in BOOLEAN : check_helper_connection(p, c, ok)
        /\ UNCHANGED <<focused_context, disable_focused_context, inbox, sent, announced>>
    BY <1>5, <2>1 DEF im_uim_focus_out, focusVars, wireVars, faultVars
  <2>3. c \in Contexts
    BY <2>1, <2>2, TakeEvent DEF TInv, LiveIn
  <2>4. read_buf' = read_buf /\ \A q \in Clients : link'[q] = link[q] \/ link[q] = "none"
    BY <2>2, <2>3, Connection DEF TInv
  <2> QED BY <1>0, <1>1, <2>2, <2>4
<1>6. ASSUME NEW p \in Procs, AppOpens(p)
      PROVE  Steady /\ announced' = announced
  BY <1>1, <1>6 DEF AppOpens, focusVars, wireVars, faultVars
<1>7. ASSUME toolbar_read_cb
      PROVE  Steady /\ announced' = announced
  <2>1. /\ UNCHANGED <<focused_context, disable_focused_context, sent, announced>>
        /\ link' = IF link[Toolbar] = "down" THEN [link EXCEPT ![Toolbar] = "none"] ELSE link
        /\ inbox' = [inbox EXCEPT ![Toolbar] = <<>>]
        /\ read_buf' = [read_buf EXCEPT ![Toolbar] = RestOf(Toolbar)]
    BY <1>7 DEF toolbar_read_cb, focusVars, faultVars
  <2>2. \A q \in Procs : link'[q] = link[q] /\ inbox'[q] = inbox[q] /\ read_buf'[q] = read_buf[q]
    BY <1>0, <2>1 DEF TInv, ConnType, WireType
  <2> QED BY <2>1, <2>2 DEF Steady
<1>8. ASSUME ToolbarPopup
      PROVE  Steady /\ announced' = announced
  <2>1. /\ UNCHANGED <<focused_context, disable_focused_context, read_buf, inbox, sent, announced>>
        /\ link' = [link EXCEPT ![Toolbar] = "up"]
    BY <1>8 DEF ToolbarPopup, focusVars, wireVars, faultVars
  <2>2. \A q \in Procs : link'[q] = link[q]
    BY <1>0, <2>1 DEF TInv, ConnType
  <2> QED BY <1>1, <2>1, <2>2
<1>9. ASSUME ToolbarClick
      PROVE  Steady /\ announced' = announced
  <2>1. /\ UNCHANGED <<focused_context, disable_focused_context, link, read_buf, inbox, announced>>
        /\ sent' = IF link[Toolbar] = "up"
                   THEN [sent EXCEPT ![Toolbar] = Append(@, Msg("get", Toolbar))] ELSE sent
    BY <1>9 DEF ToolbarClick, focusVars, connVars, faultVars
  <2>2. PICK m : m = Msg("get", Toolbar)
    OBVIOUS
  <2>3. ToSet(Append(sent[Toolbar], m)) = ToSet(sent[Toolbar]) \cup {m}
    <3>1. m \in Message
      BY <1>0, <2>2, MsgType
    <3> QED BY <1>0, <3>1, Appended DEF TInv, WireType
  <2>4. sent' = sent \/ sent' = [sent EXCEPT ![Toolbar] = Append(@, m)]
    BY <2>1, <2>2
  <2>5. \A q \in Clients : ToSet(sent[q]) \subseteq ToSet(sent'[q])
    BY <1>0, <2>3, <2>4 DEF TInv, WireType
  <2> QED BY <2>1, <2>5 DEF Steady
<1> QED
  BY <1>2, <1>3, <1>4, <1>5, <1>6, <1>7, <1>8, <1>9

\* focus_in makes its process the one that has been heard.
LEMMA FocusInHeard ==
  ASSUME TInv, NEW p \in Procs, im_uim_focus_in(p), announced'
  PROVE  Heard(p)'
<1>1. PICK c : c = Head(events[p]).ctx
  OBVIOUS
<1>2. /\ focused_context' = [focused_context EXCEPT ![p] = c]
      /\ announced' = Announces(p, c)
  BY <1>1 DEF im_uim_focus_in
<1>3. PICK in, up : FocusIn(p, c, in, up)
  BY <1>1, FocusInEffect
<1>4. /\ focus_fd(p, c) = im_uim_fd'[p]
      /\ \A q \in {p} \cup {r \in Procs : focused_context[r] # NoContext} :
           link'[q] = "up" /\ read_buf[q] = <<>>
  BY <1>2 DEF Announces
<1>5. Has(sent'[p], "focus_in")
  <2>1. ToSet(in) = {Msg("focus_in", p)}
    BY <1>3, <1>4 DEF FocusIn
  <2>2. Msg("focus_in", p) \in ToSet(sent'[p])
    BY <1>3, <2>1, SentGrows DEF TInv
  <2>3. Msg("focus_in", p).kind = "focus_in"
    BY DEF Msg
  <2> QED BY <2>2, <2>3 DEF Has
<1>6. read_buf' = read_buf
  BY <1>1, FocusInEffect, Connection DEF TInv
<1>7. \A q \in Procs \ {p} : focused_context'[q] = focused_context[q]
  BY <1>2 DEF TInv, IInv, FocusType
<1> QED
  BY <1>4, <1>5, <1>6, <1>7 DEF Heard, Has

\* A process that can be told reads all of the message that tells it.
LEMMA ReadHeard ==
  ASSUME TInv, NEW p \in Procs, helper_read_cb(p), NEW h \in Clients, Heard(h)
  PROVE  Heard(h)'
<1>0. p \in Clients
  BY DEF Clients
<1>1. PICK out, b : Reads(p, out, b)
  BY ReadEffect
<1>2. /\ focused_context' = focused_context
      /\ link' = IF link[p] = "down" THEN [link EXCEPT ![p] = "none"] ELSE link
      /\ inbox' = [inbox EXCEPT ![p] = <<>>]
      /\ read_buf' = [read_buf EXCEPT ![p] = RestOf(p)]
  BY DEF helper_read_cb
<1>3. ToSet(sent[h]) \subseteq ToSet(sent'[h])
  BY <1>1, AnswerGrows DEF TInv
<1> SUFFICES ASSUME NEW q \in Procs \ {h}, focused_context[q] # NoContext
             PROVE  /\ link'[q] = "up" /\ read_buf'[q] = <<>>
                    /\ \/ disable_focused_context'[q]
                       \/ Has(sent'[h], "focus_in")
                       \/ Has(inbox'[q], "focus_in")
  BY <1>2 DEF Heard, Has
<1>4. /\ q \in Clients /\ link[q] = "up" /\ read_buf[q] = <<>>
      /\ disable_focused_context[q] \/ Has(sent[h], "focus_in") \/ Has(inbox[q], "focus_in")
  BY DEF Heard, Clients
<1>5. Has(sent[h], "focus_in") => Has(sent'[h], "focus_in")
  BY <1>3 DEF Has
<1>6. CASE q = p
  <2>1. link'[q] = "up" /\ read_buf'[q] = <<>>
    <3>1. RestOf(q) = <<>>
      BY <1>4, Reading DEF TInv
    <3> QED BY <1>0, <1>2, <1>4, <1>6, <3>1 DEF TInv, WireType
  <2>2. disable_focused_context'[q] = b
    BY <1>1, <1>6 DEF Reads, TInv, HistoryType
  <2>3. disable_focused_context[q] => b
    BY <1>1, <1>6 DEF Reads
  <2>4. ~disable_focused_context[q] => (b <=> Has(inbox[q], "focus_in"))
    BY <1>1, <1>4, <1>6 DEF Reads
  <2> QED BY <1>4, <1>5, <2>1, <2>2, <2>3, <2>4
<1>7. CASE q # p
  <2>1. link'[q] = link[q] /\ inbox'[q] = inbox[q] /\ read_buf'[q] = read_buf[q]
    BY <1>0, <1>2, <1>4, <1>7 DEF TInv, ConnType, WireType
  <2>2. disable_focused_context'[q] = disable_focused_context[q]
    BY <1>1, <1>7 DEF Reads, TInv, HistoryType
  <2> QED BY <1>4, <1>5, <2>1, <2>2
<1> QED
  BY <1>6, <1>7

\* The server passes a focus_in on to everybody else that is connected.
Passes(q, m) ==
  /\ m = Head(sent[q]) /\ m \in Message
  /\ ToSet(sent[q]) = {m} \cup ToSet(sent'[q])
  /\ \A r \in Clients : r # q => sent'[r] = sent[r]
  /\ \A r \in Clients :
       IF r # q /\ link[r] = "up" /\ Uses(r, m)
       THEN ToSet(inbox'[r]) = ToSet(inbox[r]) \cup {m} ELSE inbox'[r] = inbox[r]

LEMMA ReflectEffect ==
  ASSUME TInv, NEW q \in Clients, Reflect(q)
  PROVE  \E m : Passes(q, m)
<1>1. /\ sent[q] # <<>>
      /\ sent' = [sent EXCEPT ![q] = Tail(@)]
      /\ inbox' = [r \in Clients |-> IF r # q /\ link[r] = "up" /\ Uses(r, Head(sent[q]))
                                     THEN Append(inbox[r], Head(sent[q])) ELSE inbox[r]]
  BY DEF Reflect
<1>2. PICK m : m = Head(sent[q])
  OBVIOUS
<1>3. m \in Message /\ ToSet(sent[q]) = {m} \cup ToSet(Tail(sent[q]))
  <2>1. sent[q] \in Seq(Message)
    BY DEF TInv, WireType
  <2> QED BY <1>1, <1>2, <2>1, Taken
<1>4. sent'[q] = Tail(sent[q]) /\ \A r \in Clients : r # q => sent'[r] = sent[r]
  BY <1>1 DEF TInv, WireType
<1>5. ASSUME NEW r \in Clients
      PROVE  IF r # q /\ link[r] = "up" /\ Uses(r, m)
             THEN ToSet(inbox'[r]) = ToSet(inbox[r]) \cup {m} ELSE inbox'[r] = inbox[r]
  <2>1. ToSet(Append(inbox[r], m)) = ToSet(inbox[r]) \cup {m}
    BY <1>3, Appended DEF TInv, WireType
  <2>2. inbox'[r] = IF r # q /\ link[r] = "up" /\ Uses(r, m) THEN Append(inbox[r], m) ELSE inbox[r]
    BY <1>1, <1>2
  <2> QED BY <2>1, <2>2
<1>6. Passes(q, m)
  BY <1>2, <1>3, <1>4, <1>5 DEF Passes
<1> QED
  BY <1>6

LEMMA ReflectHeard ==
  ASSUME TInv, NEW r \in Clients, Reflect(r), NEW h \in Clients, Heard(h)
  PROVE  Heard(h)'
<1>0. UNCHANGED <<focused_context, disable_focused_context, link, read_buf>>
  BY DEF Reflect, focusVars, connVars
<1>1. PICK m : Passes(r, m)
  BY ReflectEffect
<1> SUFFICES ASSUME NEW q \in Procs \ {h}, focused_context[q] # NoContext
             PROVE  /\ link[q] = "up" /\ read_buf[q] = <<>>
                    /\ \/ disable_focused_context[q]
                       \/ Has(sent'[h], "focus_in")
                       \/ Has(inbox'[q], "focus_in")
  BY <1>0 DEF Heard, Has
<1>2. /\ q \in Clients /\ link[q] = "up" /\ read_buf[q] = <<>>
      /\ disable_focused_context[q] \/ Has(sent[h], "focus_in") \/ Has(inbox[q], "focus_in")
  BY DEF Heard, Clients
<1>3. Has(inbox[q], "focus_in") => Has(inbox'[q], "focus_in")
  BY <1>1, <1>2 DEF Passes, Has
<1>4. Has(sent[h], "focus_in") => Has(sent'[h], "focus_in") \/ Has(inbox'[q], "focus_in")
  <2>1. CASE h # r
    BY <1>1, <2>1 DEF Passes
  <2>2. CASE h = r
    <3>1. m.kind = "focus_in" => Uses(q, m)
      BY FocusAssumption DEF Uses
    <3> QED BY <1>1, <1>2, <2>2, <3>1 DEF Passes, Has
  <2> QED BY <2>1, <2>2
<1> QED
  BY <1>2, <1>3, <1>4

RInv == TInv /\ One

LEMMA InitOne == Init => One
<1> SUFFICES ASSUME Init PROVE Heard(Toolbar) /\ Toolbar \in Clients
  BY DEF One
<1> QED
  BY DEF Init, Heard, Clients

LEMMA NextOne == TInv /\ One /\ [Next]_vars => One'
<1> SUFFICES ASSUME TInv, One, [Next]_vars, announced' PROVE \E h \in Clients : Heard(h)'
  BY DEF One
<1>1. ASSUME Steady, announced' = announced PROVE \E h \in Clients : Heard(h)'
  BY <1>1, SteadyHeard DEF One
<1>2. CASE \/ \E c \in Contexts : im_module_create(c) \/ im_uim_finalize(c) \/ UserFocus(c)
           \/ \E p \in Procs : im_uim_focus_out(p) \/ AppOpens(p)
           \/ toolbar_read_cb \/ ToolbarPopup \/ ToolbarClick
  BY <1>1, <1>2, SteadySteps
<1>3. ASSUME NEW p \in Procs, im_uim_focus_in(p) PROVE \E h \in Clients : Heard(h)'
  BY <1>3, FocusInHeard DEF Clients
<1>4. ASSUME NEW p \in Procs, helper_read_cb(p) PROVE \E h \in Clients : Heard(h)'
  <2>1. announced' = announced
    BY <1>4 DEF helper_read_cb, faultVars
  <2> QED BY <1>4, <2>1, ReadHeard DEF One
<1>5. ASSUME NEW q \in Clients, Reflect(q) PROVE \E h \in Clients : Heard(h)'
  <2>1. announced' = announced
    BY <1>5 DEF Reflect, faultVars
  <2> QED BY <1>5, <2>1, ReflectHeard DEF One
<1>6. CASE ServerCrash
  BY <1>6 DEF ServerCrash
<1>7. CASE UNCHANGED vars
  BY <1>1, <1>7 DEF vars, focusVars, connVars, wireVars, faultVars, Steady
<1> QED
  BY <1>2, <1>3, <1>4, <1>5, <1>6, <1>7 DEF Next

\* When all has settled, the process that was heard is the only one that answers.
THEOREM OnlyOneAnswers == Spec => []OneAnswers
<1>1. RInv => OneAnswers
  <2> SUFFICES ASSUME RInv, Quiet, announced
               PROVE  Cardinality({p \in Procs : active(p)}) <= 1
    BY DEF OneAnswers
  <2>1. PICK h \in Clients : Heard(h)
    BY DEF RInv, One
  <2>2. \A q \in Clients : ToSet(sent[q]) = {} /\ ToSet(inbox[q]) = {}
    BY Nothing DEF Quiet
  <2>3. {p \in Procs : active(p)} \subseteq {h}
    BY <2>1, <2>2 DEF Heard, Has, active, Clients
  <2>4. IsFiniteSet({h}) /\ Cardinality({h}) = 1
    BY FS_Singleton
  <2>5. Cardinality({p \in Procs : active(p)}) <= Cardinality({h})
    BY <2>3, <2>4, FS_Subset
  <2> QED BY <2>4, <2>5
<1>2. Init => RInv
  BY InitTInv, InitOne DEF RInv
<1>3. RInv /\ [Next]_vars => RInv'
  BY NextTInv, NextOne DEF RInv
<1> QED
  BY <1>1, <1>2, <1>3, PTL DEF Spec

-----------------------------------------------------------------------------
(* It is the one the user has focused. *)

InPending == \E p \in Procs : Has(events[p], "in")

OneIn(s) == \A j, k \in 1..Len(s) : s[j].kind = "in" /\ s[k].kind = "in" => j = k

\* The user has moved to a context of P, and P has not heard of it: there is no
\* other such event, and whoever is connected has nothing to read.
Await(P) ==
  /\ \A p \in Procs : \A e \in ToSet(events[p]) : e.kind = "in" => p = P /\ e.ctx = xfocus
  /\ OneIn(events[P])
  /\ \A q \in Clients : sent[q] = <<>> /\ (link[q] = "up" => inbox[q] = <<>>)

\* P has taken the focus and been heard.  Everything it says, and nothing that
\* anybody else says, may still reach the toolbar; and whoever has not yet been
\* told of it has not been asked either.
Answered(P) ==
  /\ focused_context[P] = xfocus /\ ~disable_focused_context[P]
  /\ \A q \in {P, Toolbar} : link[q] = "up" /\ read_buf[q] = <<>>
  /\ Heard(P) /\ ~Has(inbox[P], "focus_in")
  /\ \A q \in Clients \ {P} : ~Has(sent[q], "focus_in") /\ ~Has(sent[q], "update")
  /\ \A m \in ToSet(inbox[Toolbar]) \cup ToSet(sent[P]) : m.kind = "update" => m.from = P
  /\ shown = P \/ Has(sent[P], "update") \/ Has(inbox[Toolbar], "update")
  /\ \A q \in Procs \ {P} : active(q) =>
       ~Has(inbox[q], "get") /\ \A r \in Clients : ~Has(sent[r], "get")

Calm ==
  ~hasty /\ xfocus # NoContext =>
    IF InPending THEN Await(Owner[xfocus]) ELSE announced => Answered(Owner[xfocus])

GInv == TInv /\ One /\ Calm

\* An event that is taken is gone, and with the only one there was, all are.
LEMMA PopIn ==
  ASSUME NEW s \in Seq(FocusEvent), s # <<>>
  PROVE  /\ Head(s) \in ToSet(s) /\ ToSet(Tail(s)) \subseteq ToSet(s)
         /\ Has(s, "in") <=> Head(s).kind = "in" \/ Has(Tail(s), "in")
         /\ OneIn(s) => OneIn(Tail(s))
         /\ OneIn(s) /\ Head(s).kind = "in" => ~Has(Tail(s), "in")
<1>1. ToSet(s) = {Head(s)} \cup ToSet(Tail(s))
  BY Taken
<1>2. \A k \in 1..Len(Tail(s)) : k + 1 \in 1..Len(s) /\ Tail(s)[k] = s[k + 1] /\ k + 1 # 1
  OBVIOUS
<1>3. 1 \in 1..Len(s) /\ Head(s) = s[1]
  OBVIOUS
<1>4. OneIn(s) => OneIn(Tail(s))
  <2> SUFFICES ASSUME OneIn(s), NEW j \in 1..Len(Tail(s)), NEW k \in 1..Len(Tail(s)),
                      Tail(s)[j].kind = "in", Tail(s)[k].kind = "in"
               PROVE  j = k
    BY DEF OneIn
  <2>1. j + 1 = k + 1
    BY <1>2 DEF OneIn
  <2> QED BY <2>1
<1>5. ASSUME OneIn(s), Head(s).kind = "in" PROVE ~Has(Tail(s), "in")
  <2> SUFFICES ASSUME NEW k \in 1..Len(Tail(s)), Tail(s)[k].kind = "in" PROVE FALSE
    BY DEF Has, ToSet
  <2>1. k + 1 = 1
    BY <1>2, <1>3, <1>5 DEF OneIn
  <2> QED BY <1>2, <2>1
<1> QED
  BY <1>1, <1>4, <1>5 DEF Has

\* It is enough to look at the process of the context the user has focused.
LEMMA CalmNow ==
  ASSUME NEW P, P = Owner[xfocus'],
         ~hasty' /\ xfocus' # NoContext =>
           IF InPending' THEN Await(P)' ELSE announced' => Answered(P)'
  PROVE  Calm'
BY DEF Calm

LEMMA Focuser ==
  ASSUME TInv, xfocus # NoContext
  PROVE  Owner[xfocus] \in Procs /\ Owner[xfocus] \in Clients /\ Owner[xfocus] # Toolbar
BY FocusAssumption DEF TInv, IInv, FocusType, Clients

\* A step that says nothing and focuses nobody leaves it so.
LEMMA StillAnswered ==
  ASSUME NEW P \in Procs, Answered(P), Heard(P)',
         UNCHANGED <<xfocus, sent, inbox, shown>>,
         focused_context'[P] = focused_context[P],
         disable_focused_context'[P] = disable_focused_context[P],
         \A q \in {P, Toolbar} : link'[q] = link[q] /\ read_buf'[q] = read_buf[q],
         \A q \in Procs : active(q)' => active(q)
  PROVE  Answered(P)'
BY DEF Answered

LEMMA StillCalm ==
  ASSUME GInv, UNCHANGED <<events, xfocus, hasty, announced, sent, inbox, shown, focusVars, read_buf>>,
         \A q \in Clients : link'[q] = link[q] \/ link[q] = "none"
  PROVE  Calm'
<1>1. PICK P : P = Owner[xfocus]
  OBVIOUS
<1> SUFFICES ASSUME ~hasty, xfocus # NoContext
             PROVE  IF InPending' THEN Await(P)' ELSE announced' => Answered(P)'
  BY <1>1, CalmNow
<1>2. P \in Procs /\ P \in Clients /\ P # Toolbar /\ Toolbar \in Clients
  BY <1>1, Focuser DEF GInv, Clients
<1>3. InPending' <=> InPending
  BY DEF InPending, Has
<1>4. CASE InPending
  <2>1. Await(P)
    BY <1>1, <1>4 DEF GInv, Calm
  <2>2. \A q \in Clients : link'[q] = "up" => inbox'[q] = <<>>
    BY <2>1 DEF Await, GInv, TInv, Wires
  <2> QED BY <1>3, <1>4, <2>1, <2>2 DEF Await
<1>5. CASE ~InPending
  <2> SUFFICES ASSUME announced PROVE Answered(P)'
    BY <1>3, <1>5
  <2>1. Answered(P)
    BY <1>1, <1>5 DEF GInv, Calm
  <2>2. Steady
    BY DEF Steady, focusVars, Clients
  <2>3. Heard(P)'
    BY <1>2, <2>1, <2>2, SteadyHeard DEF Answered
  <2>4. \A q \in {P, Toolbar} : link'[q] = link[q]
    BY <1>2, <2>1 DEF Answered
  <2>5. \A q \in Procs : active(q)' => active(q)
    BY DEF active, focusVars
  <2> QED BY <1>2, <2>1, <2>3, <2>4, <2>5, StillAnswered DEF focusVars
<1> QED
  BY <1>4, <1>5

LEMMA CreateCalm ==
  ASSUME GInv, NEW c \in Contexts, im_module_create(c)
  PROVE  Calm'
<1>1. PICK p : p = Owner[c]
  OBVIOUS
<1>2. p \in Procs
  BY <1>1, FocusAssumption
<1>3. /\ \E ok \in BOOLEAN : check_helper_connection(p, c, ok)
      /\ UNCHANGED <<events, xfocus, hasty, announced, sent, inbox, shown, focusVars>>
  BY <1>1 DEF im_module_create, wireVars, userVars, faultVars
<1>4. read_buf' = read_buf /\ \A q \in Clients : link'[q] = link[q] \/ link[q] = "none"
  BY <1>2, <1>3, Connection DEF GInv, TInv
<1> QED
  BY <1>3, <1>4, StillCalm

\* The context the user has focused does not go before its focus_in is handled.
LEMMA FinalizeCalm ==
  ASSUME GInv, NEW c \in Contexts, im_uim_finalize(c)
  PROVE  Calm'
<1>1. PICK P : P = Owner[xfocus]
  OBVIOUS
<1>2. /\ UNCHANGED <<events, hasty, announced, sent, inbox, shown, link, read_buf>>
      /\ xfocus' = IF xfocus = c THEN NoContext ELSE xfocus
      /\ focused_context' = IF focused_context[Owner[c]] = c
                            THEN [focused_context EXCEPT ![Owner[c]] = NoContext] ELSE focused_context
      /\ disable_focused_context' = IF focused_context[Owner[c]] = c
                                    THEN [disable_focused_context EXCEPT ![Owner[c]] = TRUE]
                                    ELSE disable_focused_context
  BY DEF im_uim_finalize, connVars, wireVars, faultVars
<1>3. CASE xfocus = c
  BY <1>2, <1>3 DEF Calm
<1>4. CASE xfocus # c
  <2>1. xfocus' = xfocus
    BY <1>2, <1>4
  <2> SUFFICES ASSUME ~hasty, xfocus # NoContext
               PROVE  IF InPending' THEN Await(P)' ELSE announced' => Answered(P)'
    BY <1>1, <1>2, <2>1, CalmNow
  <2>2. P \in Procs /\ P \in Clients /\ P # Toolbar
    BY <1>1, Focuser DEF GInv
  <2>3. InPending' <=> InPending
    BY <1>2 DEF InPending, Has
  <2>4. CASE InPending
    <3>1. Await(P)
      BY <1>1, <2>4 DEF GInv, Calm
    <3> QED BY <1>2, <2>1, <2>3, <2>4, <3>1 DEF Await
  <2>5. CASE ~InPending
    <3> SUFFICES ASSUME announced PROVE Answered(P)'
      BY <1>2, <2>3, <2>5
    <3>1. Answered(P)
      BY <1>1, <2>5 DEF GInv, Calm
    <3>2. Heard(P)'
      BY <2>2, <3>1, SteadySteps, SteadyHeard DEF Answered, GInv
    <3>3. focused_context'[P] = focused_context[P] /\ disable_focused_context'[P] = disable_focused_context[P]
      BY <1>2, <1>4, <2>2, <3>1, FocusAssumption DEF Answered, GInv, TInv, IInv, FocusType, HistoryType
    <3>4. ASSUME NEW q \in Procs, active(q)' PROVE active(q)
      BY <1>2, <3>4, FocusAssumption DEF active, GInv, TInv, IInv, FocusType, HistoryType
    <3> QED BY <1>2, <2>1, <2>2, <3>1, <3>2, <3>3, <3>4, StillAnswered
  <2> QED BY <2>4, <2>5
<1> QED
  BY <1>3, <1>4

\* The user's next move begins when all has settled.
LEMMA UserFocusCalm ==
  ASSUME GInv, NEW c \in Contexts, UserFocus(c)
  PROVE  Calm'
<1> DEFINE out(p) == IF xfocus # NoContext /\ Owner[xfocus] = p
                     THEN <<[kind |-> "out", ctx |-> xfocus]>> ELSE <<>>
           in(p) == IF Owner[c] = p THEN <<[kind |-> "in", ctx |-> c]>> ELSE <<>>
<1>1. PICK P : P = Owner[c]
  OBVIOUS
<1>2. /\ hasty' = ~Quiet /\ xfocus' = c
      /\ events' = [p \in Procs |-> events[p] \o out(p) \o in(p)]
      /\ UNCHANGED <<sent, inbox, link>>
  BY DEF UserFocus, connVars, wireVars
<1> SUFFICES ASSUME Quiet PROVE InPending' /\ Await(P)'
  BY <1>1, <1>2, CalmNow
<1>3. P \in Procs
  BY <1>1, FocusAssumption
<1>4. ASSUME NEW p \in Procs PROVE events'[p] = out(p) \o in(p)
  <2>1. events[p] = <<>>
    BY DEF Quiet
  <2>2. out(p) \in Seq({[kind |-> "out", ctx |-> xfocus]})
    <3> DEFINE o == [kind |-> "out", ctx |-> xfocus]
    <3>1. <<o>> \in Seq({o}) /\ <<>> \in Seq({o})
      OBVIOUS
    <3> HIDE DEF o
    <3> QED BY <3>1 DEF o
  <2>3. events[p] \o out(p) = out(p)
    <3> HIDE DEF out
    <3> QED BY <2>1, <2>2
  <2>4. events'[p] = (events[p] \o out(p)) \o in(p)
    BY <1>2
  <2> HIDE DEF out, in
  <2> QED BY <2>3, <2>4
<1>5. PICK o : o = [kind |-> "out", ctx |-> xfocus]
  OBVIOUS
<1>6. PICK i : i = [kind |-> "in", ctx |-> c]
  OBVIOUS
<1>7. o.kind = "out" /\ i.kind = "in" /\ i.ctx = c
  BY <1>5, <1>6
<1>8. ASSUME NEW p \in Procs
      PROVE  IF p = P THEN events'[p] \in {<<i>>, Append(<<o>>, i)} ELSE events'[p] \in {<<>>, <<o>>}
  <2>1. out(p) \in {<<>>, <<o>>}
    BY <1>5
  <2>2. in(p) = IF p = P THEN <<i>> ELSE <<>>
    BY <1>1, <1>6
  <2>3. /\ <<>> \o <<i>> = <<i>> /\ <<o>> \o <<i>> = Append(<<o>>, i)
        /\ <<>> \o <<>> = <<>> /\ <<o>> \o <<>> = <<o>>
    OBVIOUS
  <2> HIDE DEF out, in
  <2> QED BY <1>4, <2>1, <2>2, <2>3
<1>9. /\ ToSet(<<o>>) = {o} /\ ToSet(<<i>>) = {i} /\ ToSet(Append(<<o>>, i)) = {o, i} /\ ToSet(<<>>) = {}
  <2>1. ToSet(Append(<<o>>, i)) = {o, i}
    <3>1. PICK M : o \in M /\ i \in M
      <4>1. o \in {o, i} /\ i \in {o, i}
        OBVIOUS
      <4> QED BY <4>1
    <3>2. ToSet(<<o>>) = {o} /\ <<o>> \in Seq(M)
      BY <3>1, Single
    <3>3. PICK s : s = <<o>> /\ s \in Seq(M)
      BY <3>2
    <3>4. ToSet(Append(s, i)) = ToSet(s) \cup {i}
      <4>1. s \in Seq(M) /\ i \in M
        BY <3>1, <3>3
      <4> QED BY <4>1, Appended
    <3> QED BY <3>2, <3>3, <3>4
  <2> QED BY <2>1, Single, Nothing
<1>10. InPending'
  BY <1>3, <1>7, <1>8, <1>9 DEF InPending, Has
<1>11. \A p \in Procs : \A e \in ToSet(events'[p]) : e.kind = "in" => p = P /\ e.ctx = xfocus'
  BY <1>2, <1>7, <1>8, <1>9
<1>12. OneIn(events'[P])
  <2>1. events'[P] \in {<<i>>, Append(<<o>>, i)}
    BY <1>3, <1>8
  <2>2. OneIn(<<i>>)
    BY DEF OneIn
  <2>3. OneIn(Append(<<o>>, i))
    <3>1. \A k \in 1..Len(Append(<<o>>, i)) : Append(<<o>>, i)[k].kind = "in" => k = 2
      BY <1>7
    <3> QED BY <3>1 DEF OneIn
  <2> QED BY <2>1, <2>2, <2>3
<1>13. \A q \in Clients : sent'[q] = <<>> /\ inbox'[q] = <<>>
  BY <1>2 DEF Quiet
<1> QED
  BY <1>10, <1>11, <1>12, <1>13 DEF Await

\* The focus_in that was awaited.
LEMMA FocusInCalm ==
  ASSUME GInv, NEW p \in Procs, im_uim_focus_in(p)
  PROVE  Calm'
<1>1. PICK P : P = Owner[xfocus]
  OBVIOUS
<1>2. PICK c : c = Head(events[p]).ctx
  OBVIOUS
<1>3. /\ events[p] # <<>> /\ Head(events[p]).kind = "in"
      /\ events' = [events EXCEPT ![p] = Tail(@)]
      /\ focused_context' = [focused_context EXCEPT ![p] = c]
      /\ disable_focused_context' = [disable_focused_context EXCEPT ![p] = FALSE]
      /\ announced' = Announces(p, c)
      /\ UNCHANGED <<inbox, xfocus, hasty, shown>>
  BY <1>2 DEF im_uim_focus_in
<1> SUFFICES ASSUME ~hasty, xfocus # NoContext
             PROVE  ~InPending' /\ (announced' => Answered(P)')
  BY <1>1, <1>3, CalmNow
<1>4. P \in Procs /\ P \in Clients /\ P # Toolbar /\ Toolbar \in Clients /\ p \in Clients
  BY <1>1, Focuser DEF GInv, Clients
<1>5. events[p] \in Seq(FocusEvent)
  BY DEF GInv, TInv, IInv, FocusType
<1>6. Head(events[p]) \in ToSet(events[p])
  BY <1>3, <1>5, PopIn
<1>7. InPending
  BY <1>3, <1>6 DEF InPending, Has
<1>8. Await(P)
  BY <1>1, <1>7 DEF GInv, Calm
<1>9. p = P /\ c = xfocus
  BY <1>2, <1>3, <1>6, <1>8 DEF Await
<1>10. events' = [events EXCEPT ![p] = Tail(events[p])]
  BY <1>3
<1>11. ~InPending'
  <2>1. ~Has(Tail(events[p]), "in")
    BY <1>3, <1>5, <1>8, <1>9, PopIn DEF Await
  <2>2. \A q \in Procs : q # p => events'[q] = events[q] /\ ~Has(events[q], "in")
    BY <1>8, <1>9, <1>10 DEF Await, Has, GInv, TInv, IInv, FocusType
  <2>3. events'[p] = Tail(events[p])
    BY <1>10 DEF GInv, TInv, IInv, FocusType
  <2> QED BY <2>1, <2>2, <2>3 DEF InPending
<1>12. ASSUME announced' PROVE Answered(P)'
  <2>1. /\ c \in Contexts /\ \E ok \in BOOLEAN : check_helper_connection(p, c, ok)
        /\ \E in, up : FocusIn(p, c, in, up)
    BY <1>2, FocusInEffect DEF GInv
  <2>2. /\ read_buf' = read_buf
        /\ \A q \in Clients : q # p => link'[q] = link[q]
        /\ link'[p] = link[p] \/ link[p] = "none"
    BY <2>1, Connection DEF GInv, TInv
  <2>3. /\ focus_fd(p, c) = im_uim_fd'[p]
        /\ \A q \in {p, Toolbar} \cup {r \in Procs : focused_context[r] # NoContext} :
             link'[q] = "up" /\ read_buf[q] = <<>>
    BY <1>3, <1>12 DEF Announces
  <2>4. PICK in, up : FocusIn(p, c, in, up)
    BY <2>1
  <2>5. /\ ToSet(sent'[p]) = ToSet(sent[p]) \cup {Msg("focus_in", p)} \cup {Msg("update", p)}
        /\ \A q \in Clients : q # p => sent'[q] = sent[q]
    <3>1. ToSet(in) = {Msg("focus_in", p)} /\ ToSet(up) = {Msg("update", p)}
      BY <2>3, <2>4 DEF FocusIn
    <3>2. /\ ToSet(sent'[p]) = ToSet(sent[p]) \cup ToSet(in) \cup ToSet(up)
          /\ \A q \in Clients : q # p => sent'[q] = sent[q]
      BY <2>4, SentGrows DEF GInv, TInv
    <3> QED BY <3>1, <3>2
  <2>6. /\ Msg("focus_in", p).kind = "focus_in"
        /\ Msg("update", p).kind = "update" /\ Msg("update", p).from = p
    BY DEF Msg
  <2>7. \A q \in Clients : ToSet(sent[q]) = {}
    BY <1>8, Nothing DEF Await
  <2>8. \A q \in Clients : link'[q] = "up" => ToSet(inbox[q]) = {}
    BY <1>8, <2>2, Nothing DEF Await, GInv, TInv, Wires
  <2>9. focused_context'[P] = xfocus' /\ ~disable_focused_context'[P]
    BY <1>3, <1>9 DEF GInv, TInv, IInv, FocusType, HistoryType
  <2>10. \A q \in {P, Toolbar} : link'[q] = "up" /\ read_buf'[q] = <<>>
    BY <1>9, <2>2, <2>3
  <2>11. Heard(P)' /\ ~Has(inbox'[P], "focus_in")
    <3>1. Heard(P)'
      BY <1>9, <1>12, FocusInHeard DEF GInv
    <3> QED BY <1>3, <1>4, <2>8, <2>10, <3>1 DEF Has
  <2>12. \A q \in Clients \ {P} : ~Has(sent'[q], "focus_in") /\ ~Has(sent'[q], "update")
    BY <1>9, <2>5, <2>7 DEF Has
  <2>13. \A m \in ToSet(inbox'[Toolbar]) \cup ToSet(sent'[P]) : m.kind = "update" => m.from = P
    BY <1>3, <1>4, <1>9, <2>5, <2>6, <2>7, <2>8, <2>10
  <2>14. Has(sent'[P], "update")
    BY <1>9, <2>5, <2>6 DEF Has
  <2>15. \A r \in Clients : ~Has(sent'[r], "get")
    BY <2>5, <2>6, <2>7 DEF Has
  <2>16. ASSUME NEW q \in Procs \ {P}, active(q)' PROVE ~Has(inbox'[q], "get")
    <3>1. focused_context'[q] = focused_context[q] /\ q \in Clients
      BY <1>3, <1>9, <2>16 DEF GInv, TInv, IInv, FocusType, Clients
    <3>2. link'[q] = "up"
      BY <2>3, <2>16, <3>1 DEF active
    <3> QED BY <1>3, <2>8, <3>1, <3>2 DEF Has
  <2> QED BY <2>9, <2>10, <2>11, <2>12, <2>13, <2>14, <2>15, <2>16 DEF Answered
<1> QED
  BY <1>11, <1>12

\* focus_out says nothing to anybody.
LEMMA FocusOutCalm ==
  ASSUME GInv, NEW p \in Procs, im_uim_focus_out(p)
  PROVE  Calm'
<1>1. PICK P : P = Owner[xfocus]
  OBVIOUS
<1>2. PICK c : c = Head(events[p]).ctx
  OBVIOUS
<1>3. /\ events[p] # <<>> /\ Head(events[p]).kind = "out"
      /\ events' = [events EXCEPT ![p] = Tail(@)]
      /\ \E ok \in BOOLEAN : check_helper_connection(p, c, ok)
      /\ UNCHANGED <<focused_context, disable_focused_context, sent, inbox, xfocus, hasty, announced, shown>>
  BY <1>2 DEF im_uim_focus_out, focusVars, wireVars, faultVars
<1>4. c \in Contexts
  BY <1>2, <1>3, TakeEvent DEF GInv, TInv, LiveIn
<1>5. read_buf' = read_buf /\ \A q \in Clients : link'[q] = link[q] \/ link[q] = "none"
  BY <1>3, <1>4, Connection DEF GInv, TInv
<1> SUFFICES ASSUME ~hasty, xfocus # NoContext
             PROVE  IF InPending' THEN Await(P)' ELSE announced' => Answered(P)'
  BY <1>1, <1>3, CalmNow
<1>6. P \in Procs /\ P \in Clients /\ P # Toolbar /\ Toolbar \in Clients
  BY <1>1, Focuser DEF GInv, Clients
<1>7. /\ events[p] \in Seq(FocusEvent)
      /\ events'[p] = Tail(events[p]) /\ \A q \in Procs : q # p => events'[q] = events[q]
  BY <1>3 DEF GInv, TInv, IInv, FocusType
<1>8. /\ ToSet(events'[p]) \subseteq ToSet(events[p])
      /\ Has(events[p], "in") <=> Has(events'[p], "in")
      /\ OneIn(events[p]) => OneIn(events'[p])
  BY <1>3, <1>7, PopIn
<1>9. InPending' <=> InPending
  BY <1>7, <1>8 DEF InPending
<1>10. CASE InPending
  <2>1. Await(P)
    BY <1>1, <1>10 DEF GInv, Calm
  <2>2. \A q \in Procs : \A e \in ToSet(events'[q]) : e.kind = "in" => q = P /\ e.ctx = xfocus'
    <3>1. \A q \in Procs : ToSet(events'[q]) \subseteq ToSet(events[q])
      BY <1>7, <1>8
    <3> QED BY <1>3, <2>1, <3>1 DEF Await
  <2>3. OneIn(events'[P])
    BY <1>6, <1>7, <1>8, <2>1 DEF Await
  <2>4. \A q \in Clients : sent'[q] = <<>> /\ (link'[q] = "up" => inbox'[q] = <<>>)
    BY <1>3, <1>5, <2>1 DEF Await, GInv, TInv, Wires
  <2> QED BY <1>9, <1>10, <2>2, <2>3, <2>4 DEF Await
<1>11. CASE ~InPending
  <2> SUFFICES ASSUME announced PROVE Answered(P)'
    BY <1>3, <1>9, <1>11
  <2>1. Answered(P)
    BY <1>1, <1>11 DEF GInv, Calm
  <2>2. Heard(P)'
    BY <1>6, <2>1, SteadySteps, SteadyHeard DEF Answered, GInv
  <2>3. \A q \in {P, Toolbar} : link'[q] = link[q] /\ read_buf'[q] = read_buf[q]
    BY <1>5, <1>6, <2>1 DEF Answered
  <2>4. \A q \in Procs : active(q)' => active(q)
    BY <1>3 DEF active
  <2> QED BY <1>3, <1>6, <2>1, <2>2, <2>3, <2>4, StillAnswered
<1> QED
  BY <1>10, <1>11

\* P answers what it is asked, and nobody else does.
LEMMA ReadCalm ==
  ASSUME GInv, NEW p \in Procs, helper_read_cb(p)
  PROVE  Calm'
<1>0. p \in Clients
  BY DEF Clients
<1>1. PICK P : P = Owner[xfocus]
  OBVIOUS
<1>2. PICK out, b : Reads(p, out, b)
  BY ReadEffect DEF GInv
<1>3. /\ Readable(p)
      /\ link' = IF link[p] = "down" THEN [link EXCEPT ![p] = "none"] ELSE link
      /\ inbox' = [inbox EXCEPT ![p] = <<>>]
      /\ read_buf' = [read_buf EXCEPT ![p] = RestOf(p)]
      /\ UNCHANGED <<focused_context, events, xfocus, hasty, announced, shown>>
  BY DEF helper_read_cb, userVars, faultVars
<1> SUFFICES ASSUME ~hasty, xfocus # NoContext
             PROVE  IF InPending' THEN Await(P)' ELSE announced' => Answered(P)'
  BY <1>1, <1>3, CalmNow
<1>4. P \in Procs /\ P \in Clients /\ P # Toolbar /\ Toolbar \in Clients
  BY <1>1, Focuser DEF GInv, Clients
<1>5. InPending' <=> InPending
  BY <1>3 DEF InPending, Has
<1>6. \A q \in Clients : inbox'[q] = IF q = p THEN <<>> ELSE inbox[q]
  BY <1>0, <1>3 DEF GInv, TInv, WireType
<1>7. \A q \in Clients : /\ q # p => link'[q] = link[q] /\ read_buf'[q] = read_buf[q]
                         /\ link'[q] = "up" => link[q] = "up"
                         /\ link[q] = "up" => link'[q] = "up"
  BY <1>0, <1>3 DEF GInv, TInv, ConnType, WireType
<1>8. \A q \in Procs : disable_focused_context'[q] = IF q = p THEN b ELSE disable_focused_context[q]
  BY <1>2 DEF Reads, GInv, TInv, HistoryType
<1>9. CASE InPending
  <2>1. Await(P)
    BY <1>1, <1>9 DEF GInv, Calm
  <2>2. link[p] # "up"
    BY <1>0, <1>3, <2>1 DEF Await, Readable
  <2>3. sent' = sent
    BY <1>2, <2>2 DEF Reads
  <2>4. \A q \in Clients : link'[q] = "up" => inbox'[q] = <<>>
    BY <1>6, <1>7, <2>1 DEF Await
  <2> QED BY <1>3, <1>5, <1>9, <2>1, <2>3, <2>4 DEF Await
<1>10. CASE ~InPending
  <2> SUFFICES ASSUME announced PROVE Answered(P)'
    BY <1>3, <1>5, <1>10
  <2>1. Answered(P)
    BY <1>1, <1>10 DEF GInv, Calm
  <2>2. Heard(P)'
    BY <1>4, <2>1, ReadHeard DEF Answered, GInv
  <2>3. p = P => link[p] = "up" /\ read_buf[p] = <<>> /\ ~b
    <3>1. p = P => /\ link[p] = "up" /\ read_buf[p] = <<>> /\ ~Has(inbox[p], "focus_in")
                   /\ ~disable_focused_context[p] /\ focused_context[p] # NoContext
      BY <2>1 DEF Answered
    <3> QED BY <1>2, <3>1 DEF Reads
  <2>4. p # P => out = <<>> /\ (disable_focused_context[p] => b)
    <3> SUFFICES ASSUME p # P PROVE out = <<>> /\ (disable_focused_context[p] => b)
      OBVIOUS
    <3>1. disable_focused_context[p] => b
      BY <1>2 DEF Reads
    <3>2. CASE ~active(p)
      BY <1>2, <3>2 DEF active, Reads
    <3>3. CASE active(p)
      <4>1. link[p] = "up" /\ read_buf[p] = <<>>
        BY <2>1, <3>3 DEF Answered, Heard, active
      <4>2. ~Has(inbox[p], "get")
        BY <2>1, <3>3 DEF Answered
      <4> QED BY <1>2, <3>1, <4>1, <4>2 DEF Reads
    <3> QED BY <3>1, <3>2, <3>3
  <2>5. /\ ToSet(sent[p]) \subseteq ToSet(sent'[p])
        /\ \A m \in ToSet(sent'[p]) : m \in ToSet(sent[p]) \/ (m = Msg("update", p) /\ p = P)
        /\ \A q \in Clients : q # p => sent'[q] = sent[q]
    BY <1>2, <2>4, AnswerGrows DEF GInv, TInv
  <2>6. Msg("update", P).kind = "update" /\ Msg("update", P).from = P
    BY DEF Msg
  <2>7. focused_context'[P] = xfocus' /\ ~disable_focused_context'[P]
    BY <1>3, <1>4, <1>8, <2>1, <2>3 DEF Answered
  <2>8. \A q \in {P, Toolbar} : link'[q] = "up" /\ read_buf'[q] = <<>>
    <3>1. p = P => read_buf'[p] = <<>>
      <4>1. p = P => RestOf(p) = <<>>
        BY <1>0, <2>3, Reading DEF GInv, TInv
      <4> QED BY <1>0, <1>3, <4>1 DEF GInv, TInv, WireType
    <3>2. p # Toolbar
      BY FocusAssumption
    <3> QED BY <1>4, <1>7, <2>1, <3>1, <3>2 DEF Answered
  <2>9. ~Has(inbox'[P], "focus_in")
    BY <1>4, <1>6, <2>1, Nothing DEF Answered, Has
  <2>10. \A q \in Clients \ {P} : ~Has(sent'[q], "focus_in") /\ ~Has(sent'[q], "update")
    BY <2>1, <2>5 DEF Answered, Has
  <2>11. inbox'[Toolbar] = inbox[Toolbar]
    BY <1>4, <1>6, FocusAssumption
  <2>12. \A m \in ToSet(inbox'[Toolbar]) \cup ToSet(sent'[P]) : m.kind = "update" => m.from = P
    BY <1>4, <2>1, <2>5, <2>6, <2>11 DEF Answered
  <2>13. shown' = P \/ Has(sent'[P], "update") \/ Has(inbox'[Toolbar], "update")
    BY <1>3, <1>4, <2>1, <2>5, <2>11 DEF Answered, Has
  <2>14. ASSUME NEW q \in Procs \ {P}, active(q)'
         PROVE  ~Has(inbox'[q], "get") /\ \A r \in Clients : ~Has(sent'[r], "get")
    <3>1. active(q)
      BY <1>3, <1>8, <2>4, <2>14 DEF active
    <3>2. ~Has(inbox[q], "get") /\ \A r \in Clients : ~Has(sent[r], "get")
      BY <2>1, <3>1 DEF Answered
    <3>3. \A r \in Clients : ~Has(sent'[r], "get")
      BY <2>5, <2>6, <3>2 DEF Has
    <3>4. q \in Clients
      BY DEF Clients
    <3> QED BY <1>6, <3>2, <3>3, <3>4, Nothing DEF Has
  <2> QED BY <2>2, <2>7, <2>8, <2>9, <2>10, <2>12, <2>13, <2>14 DEF Answered
<1> QED
  BY <1>9, <1>10

\* The toolbar shows the last update it reads.
LEMMA ToolbarReadCalm ==
  ASSUME GInv, toolbar_read_cb
  PROVE  Calm'
<1>1. PICK P : P = Owner[xfocus]
  OBVIOUS
<1>2. /\ link' = IF link[Toolbar] = "down" THEN [link EXCEPT ![Toolbar] = "none"] ELSE link
      /\ inbox' = [inbox EXCEPT ![Toolbar] = <<>>]
      /\ read_buf' = [read_buf EXCEPT ![Toolbar] = RestOf(Toolbar)]
      /\ UNCHANGED <<focused_context, disable_focused_context, events, xfocus, hasty, announced, sent>>
  BY DEF toolbar_read_cb, focusVars, userVars, faultVars
<1>3. PICK legible \in BOOLEAN : shown' = Shown(shown, uim_helper_get_messages(Toolbar, legible))
  BY DEF toolbar_read_cb, Shown
<1> SUFFICES ASSUME ~hasty, xfocus # NoContext
             PROVE  IF InPending' THEN Await(P)' ELSE announced' => Answered(P)'
  BY <1>1, <1>2, CalmNow
<1>4. P \in Procs /\ P \in Clients /\ P # Toolbar /\ Toolbar \in Clients
  BY <1>1, Focuser DEF GInv, Clients
<1>5. InPending' <=> InPending
  BY <1>2 DEF InPending, Has
<1>6. \A q \in Clients : /\ inbox'[q] = IF q = Toolbar THEN <<>> ELSE inbox[q]
                         /\ q # Toolbar => link'[q] = link[q] /\ read_buf'[q] = read_buf[q]
  BY <1>2, <1>4 DEF GInv, TInv, ConnType, WireType
<1>7. CASE InPending
  <2>1. Await(P)
    BY <1>1, <1>7 DEF GInv, Calm
  <2> QED BY <1>2, <1>5, <1>6, <1>7, <2>1 DEF Await
<1>8. CASE ~InPending
  <2> SUFFICES ASSUME announced PROVE Answered(P)'
    BY <1>2, <1>5, <1>8
  <2>1. Answered(P)
    BY <1>1, <1>8 DEF GInv, Calm
  <2>2. Heard(P)'
    BY <1>4, <2>1, SteadySteps, SteadyHeard DEF Answered, GInv
  <2>3. link[Toolbar] = "up" /\ read_buf[Toolbar] = <<>>
    BY <2>1 DEF Answered
  <2>4. uim_helper_get_messages(Toolbar, legible) = inbox[Toolbar] /\ RestOf(Toolbar) = <<>>
    BY <1>4, <2>3, Reading DEF GInv, TInv
  <2>5. link'[Toolbar] = "up" /\ read_buf'[Toolbar] = <<>>
    BY <1>2, <1>4, <2>3, <2>4 DEF GInv, TInv, WireType
  <2>6. shown' = P \/ Has(sent'[P], "update")
    <3>1. PICK q : q = inbox[Toolbar]
      OBVIOUS
    <3>2. PICK start : start = shown
      OBVIOUS
    <3>3. q \in Seq(Message) /\ start \in Clients
      BY <1>4, <3>1, <3>2 DEF GInv, TInv, WireType, HistoryType
    <3>4. /\ ~Has(q, "update") => shown' = start
          /\ Has(q, "update") => \E m \in ToSet(q) : m.kind = "update" /\ shown' = m.from
      BY <1>3, <2>4, <3>1, <3>2, <3>3, ShownMessages
    <3> QED BY <1>2, <2>1, <3>1, <3>2, <3>4 DEF Answered
  <2>7. ~Has(inbox'[P], "focus_in") /\ link'[P] = "up" /\ read_buf'[P] = <<>>
    BY <1>4, <1>6, <2>1 DEF Answered
  <2>8. ToSet(inbox'[Toolbar]) = {}
    BY <1>4, <1>6, Nothing
  <2>9. \A q \in Procs : inbox'[q] = inbox[q] /\ active(q)' = active(q)
    BY <1>2, <1>6, FocusAssumption DEF active, Clients
  <2>10. \A m \in ToSet(inbox'[Toolbar]) \cup ToSet(sent'[P]) : m.kind = "update" => m.from = P
    BY <1>2, <2>1, <2>8 DEF Answered
  <2>11. \A q \in Procs \ {P} : active(q)' =>
           ~Has(inbox'[q], "get") /\ \A r \in Clients : ~Has(sent'[r], "get")
    BY <1>2, <2>1, <2>9 DEF Answered
  <2> QED BY <1>2, <2>1, <2>2, <2>5, <2>6, <2>7, <2>10, <2>11 DEF Answered
<1> QED
  BY <1>7, <1>8

\* What P has said comes nearer to the others.
LEMMA ReflectCalm ==
  ASSUME GInv, NEW r \in Clients, Reflect(r)
  PROVE  Calm'
<1>1. PICK P : P = Owner[xfocus]
  OBVIOUS
<1>2. /\ sent[r] # <<>>
      /\ UNCHANGED <<focused_context, disable_focused_context, link, read_buf, events, xfocus, hasty,
                     announced, shown>>
  BY DEF Reflect, focusVars, connVars, userVars, faultVars
<1>3. PICK m : Passes(r, m)
  BY ReflectEffect DEF GInv
<1> SUFFICES ASSUME ~hasty, xfocus # NoContext
             PROVE  IF InPending' THEN Await(P)' ELSE announced' => Answered(P)'
  BY <1>1, <1>2, CalmNow
<1>4. P \in Procs /\ P \in Clients /\ P # Toolbar /\ Toolbar \in Clients
  BY <1>1, Focuser DEF GInv, Clients
<1>5. InPending' <=> InPending
  BY <1>2 DEF InPending, Has
<1>6. CASE InPending
  BY <1>1, <1>2, <1>6 DEF GInv, Calm, Await
<1>7. CASE ~InPending
  <2> SUFFICES ASSUME announced PROVE Answered(P)'
    BY <1>2, <1>5, <1>7
  <2>1. Answered(P)
    BY <1>1, <1>7 DEF GInv, Calm
  <2>2. Heard(P)'
    BY <1>4, <2>1, ReflectHeard DEF Answered, GInv
  <2>3. /\ m \in ToSet(sent[r]) /\ ToSet(sent[r]) = {m} \cup ToSet(sent'[r])
        /\ \A q \in Clients : ToSet(sent'[q]) \subseteq ToSet(sent[q])
    BY <1>3 DEF Passes
  <2>4. \A q \in Clients : ToSet(inbox'[q]) = ToSet(inbox[q])
                           \/ (ToSet(inbox'[q]) = ToSet(inbox[q]) \cup {m} /\ q # r)
    BY <1>3 DEF Passes
  <2>5. r # P => m.kind # "focus_in" /\ m.kind # "update"
    BY <2>1, <2>3 DEF Answered, Has
  <2>6. m.kind = "update" => m.from = P
    BY <2>1, <2>3, <2>5 DEF Answered
  <2>7. ~Has(inbox'[P], "focus_in")
    BY <1>4, <2>1, <2>4, <2>5 DEF Answered, Has
  <2>8. \A q \in Clients \ {P} : ~Has(sent'[q], "focus_in") /\ ~Has(sent'[q], "update")
    BY <2>1, <2>3 DEF Answered, Has
  <2>9. \A x \in ToSet(inbox'[Toolbar]) \cup ToSet(sent'[P]) : x.kind = "update" => x.from = P
    BY <1>4, <2>1, <2>3, <2>4, <2>6 DEF Answered
  <2>10. shown' = P \/ Has(sent'[P], "update") \/ Has(inbox'[Toolbar], "update")
    <3>1. Has(inbox[Toolbar], "update") => Has(inbox'[Toolbar], "update")
      BY <1>4, <2>4 DEF Has
    <3>2. Has(sent[P], "update") => Has(sent'[P], "update") \/ (r = P /\ m.kind = "update")
      BY <1>3, <1>4, <2>3 DEF Passes, Has
    <3>3. r = P /\ m.kind = "update" => Has(inbox'[Toolbar], "update")
      <4>1. m.kind = "update" => Uses(Toolbar, m)
        BY DEF Uses
      <4>2. link[Toolbar] = "up"
        BY <2>1 DEF Answered
      <4> QED BY <1>3, <1>4, <4>1, <4>2 DEF Passes, Has
    <3> QED BY <1>2, <2>1, <3>1, <3>2, <3>3 DEF Answered
  <2>11. ASSUME NEW q \in Procs \ {P}, active(q)'
         PROVE  ~Has(inbox'[q], "get") /\ \A s \in Clients : ~Has(sent'[s], "get")
    <3>1. active(q) /\ q \in Clients
      BY <1>2, <2>11 DEF active, Clients
    <3>2. ~Has(inbox[q], "get") /\ \A s \in Clients : ~Has(sent[s], "get")
      BY <2>1, <3>1 DEF Answered
    <3>3. m.kind # "get"
      BY <2>3, <3>2 DEF Has
    <3> QED BY <2>3, <2>4, <3>1, <3>2, <3>3 DEF Has
  <2> QED BY <1>2, <2>1, <2>2, <2>7, <2>8, <2>9, <2>10, <2>11 DEF Answered
<1> QED
  BY <1>6, <1>7

\* The toolbar asks when everybody has been told.
LEMMA ClickCalm ==
  ASSUME GInv, ToolbarClick
  PROVE  Calm'
<1>1. PICK P : P = Owner[xfocus]
  OBVIOUS
<1>2. /\ hasty' = (hasty \/ ~Quiet)
      /\ sent' = IF link[Toolbar] = "up"
                 THEN [sent EXCEPT ![Toolbar] = Append(@, Msg("get", Toolbar))] ELSE sent
      /\ UNCHANGED <<focused_context, disable_focused_context, link, read_buf, inbox, events, xfocus,
                     announced, shown>>
  BY DEF ToolbarClick, focusVars, connVars, faultVars
<1> SUFFICES ASSUME ~hasty, Quiet, xfocus # NoContext
             PROVE  ~InPending' /\ (announced' => Answered(P)')
  BY <1>1, <1>2, CalmNow
<1>3. P \in Procs /\ P \in Clients /\ P # Toolbar /\ Toolbar \in Clients
  BY <1>1, Focuser DEF GInv, Clients
<1>4. ~InPending' /\ ~InPending
  BY <1>2, Nothing DEF Quiet, InPending, Has
<1>5. ASSUME announced' PROVE Answered(P)'
  <2>1. Answered(P)
    BY <1>1, <1>2, <1>4, <1>5 DEF GInv, Calm
  <2>2. Heard(P)'
    BY <1>3, <2>1, SteadySteps, SteadyHeard DEF Answered, GInv
  <2>3. PICK m : m = Msg("get", Toolbar)
    OBVIOUS
  <2>4. m \in Message /\ m.kind = "get"
    BY <1>3, <2>3, MsgType
  <2>5. ToSet(Append(sent[Toolbar], m)) = ToSet(sent[Toolbar]) \cup {m}
    BY <1>3, <2>4, Appended DEF GInv, TInv, WireType
  <2>6. sent' = sent \/ sent' = [sent EXCEPT ![Toolbar] = Append(@, m)]
    BY <1>2, <2>3
  <2>7. /\ \A q \in Clients : q # Toolbar => sent'[q] = sent[q]
        /\ \A x \in ToSet(sent'[Toolbar]) : x \in ToSet(sent[Toolbar]) \/ x = m
    <3>1. CASE sent' = sent
      BY <3>1
    <3>2. CASE sent' = [sent EXCEPT ![Toolbar] = Append(@, m)]
      <4>1. sent'[Toolbar] = Append(sent[Toolbar], m) /\ \A q \in Clients : q # Toolbar => sent'[q] = sent[q]
        BY <1>3, <3>2 DEF GInv, TInv, WireType
      <4> QED BY <2>5, <4>1
    <3> QED BY <2>6, <3>1, <3>2
  <2>8. \A q \in Clients \ {P} : ~Has(sent'[q], "focus_in") /\ ~Has(sent'[q], "update")
    BY <2>1, <2>4, <2>7 DEF Answered, Has
  <2>9. \A q \in Procs \ {P} : ~active(q)'
    <3> SUFFICES ASSUME NEW q \in Procs \ {P}, active(q) PROVE FALSE
      BY <1>2 DEF active
    <3>1. ToSet(sent[P]) = {} /\ ToSet(inbox[q]) = {}
      BY <1>3, Nothing DEF Quiet, Clients
    <3> QED BY <2>1, <3>1 DEF Answered, Heard, Has, active
  <2> QED BY <1>2, <1>3, <2>1, <2>2, <2>7, <2>8, <2>9 DEF Answered
<1> QED
  BY <1>4, <1>5

\* Every step preserves it.
LEMMA NextCalm == GInv /\ [Next]_vars => Calm'
<1> SUFFICES ASSUME GInv, [Next]_vars PROVE Calm'
  OBVIOUS
<1>1. ASSUME NEW c \in Contexts, im_module_create(c) \/ im_uim_finalize(c) \/ UserFocus(c)
      PROVE  Calm'
  BY <1>1, CreateCalm, FinalizeCalm, UserFocusCalm
<1>2. ASSUME NEW p \in Procs, im_uim_focus_in(p) \/ im_uim_focus_out(p) \/ helper_read_cb(p)
      PROVE  Calm'
  BY <1>2, FocusInCalm, FocusOutCalm, ReadCalm
<1>3. ASSUME NEW p \in Procs, AppOpens(p) PROVE Calm'
  BY <1>3, StillCalm DEF AppOpens, wireVars, userVars, faultVars
<1>4. ASSUME NEW q \in Clients, Reflect(q) PROVE Calm'
  BY <1>4, ReflectCalm
<1>5. CASE toolbar_read_cb \/ ToolbarClick
  BY <1>5, ToolbarReadCalm, ClickCalm
<1>6. CASE ToolbarPopup
  <2>1. /\ link[Toolbar] = "none" /\ link' = [link EXCEPT ![Toolbar] = "up"]
        /\ UNCHANGED <<events, xfocus, hasty, announced, sent, inbox, shown, focusVars, read_buf>>
    BY <1>6 DEF ToolbarPopup, wireVars, userVars, faultVars
  <2>2. \A q \in Clients : link'[q] = link[q] \/ link[q] = "none"
    BY <2>1 DEF GInv, TInv, ConnType
  <2> QED BY <2>1, <2>2, StillCalm
<1>7. CASE ServerCrash
  <2>1. /\ link' = [q \in Clients |-> IF link[q] = "up" THEN "down" ELSE link[q]]
        /\ sent' = [q \in Clients |-> <<>>]
        /\ announced' = FALSE /\ UNCHANGED <<events, xfocus, hasty>>
    BY <1>7 DEF ServerCrash, userVars
  <2>2. InPending' <=> InPending
    BY <2>1 DEF InPending, Has
  <2>3. \A q \in Clients : sent'[q] = <<>> /\ link'[q] # "up"
    BY <2>1
  <2>4. \A P : Await(P) => Await(P)'
    BY <2>1, <2>3 DEF Await
  <2> QED BY <2>1, <2>2, <2>4 DEF GInv, Calm
<1>8. CASE UNCHANGED vars
  BY <1>8, StillCalm DEF vars, connVars, wireVars, userVars, faultVars
<1> QED
  BY <1>1, <1>2, <1>3, <1>4, <1>5, <1>6, <1>7, <1>8 DEF Next

\* When the user waits for things to settle, the process he has focused answers,
\* and the toolbar shows its properties.
THEOREM FocusedOneAnswers == Spec => []FocusedAnswers
<1>1. GInv => FocusedAnswers
  <2> SUFFICES ASSUME GInv, Quiet, announced, ~hasty, xfocus # NoContext
               PROVE  active(Owner[xfocus]) /\ shown = Owner[xfocus]
    BY DEF FocusedAnswers
  <2>1. PICK P : P = Owner[xfocus]
    OBVIOUS
  <2>2. P \in Clients /\ Toolbar \in Clients
    BY <2>1, Focuser DEF GInv, Clients
  <2>3. ~InPending
    BY Nothing DEF Quiet, InPending, Has
  <2>4. Answered(P)
    BY <2>1, <2>3 DEF GInv, Calm
  <2>5. ToSet(sent[P]) = {} /\ ToSet(inbox[Toolbar]) = {}
    BY <2>2, Nothing DEF Quiet
  <2> QED BY <2>1, <2>4, <2>5 DEF Answered, Has, active
<1>2. Init => GInv
  <2>1. Init => Calm
    BY DEF Init, Calm
  <2> QED BY <2>1, InitTInv, InitOne DEF GInv
<1>3. GInv /\ [Next]_vars => GInv'
  BY NextTInv, NextOne, NextCalm DEF GInv
<1> QED
  BY <1>1, <1>2, <1>3, PTL DEF Spec
=============================================================================
