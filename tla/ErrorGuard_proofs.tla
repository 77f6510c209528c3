------------------------- MODULE ErrorGuard_proofs -------------------------
(***************************************************************************)
(* The error guard keeps its bookkeeping for every nesting depth and every *)
(* number of guards left behind.                                           *)
(***************************************************************************)
EXTENDS ErrorGuard, SequenceTheorems, TLAPS

\* The named properties are inductive together: the count tells which call
\* set the target, and the target which calls an error ends.
IInv ==
  /\ TypeOK
  /\ GuardCounts
  /\ OutermostCatches
  /\ CallsCatchErrors

\* The initial state satisfies the invariant.
LEMMA InitIInv == Init => IInv
<1> SUFFICES ASSUME Init PROVE IInv
  OBVIOUS
<1>1. stack \in Seq(Kinds) /\ Depth = 0
  BY DEF Init, Depth
<1>2. TypeOK
  <2>1. Depth <= MaxDepth /\ leaks \in 0..MaxLeaks /\ target \in 0..Depth /\ guarded \in Nat
    BY <1>1, BoundAssumption DEF Init
  <2>2. fatal_errored \in BOOLEAN /\ uim_initialized \in BOOLEAN
    BY DEF Init
  <2> QED BY <1>1, <2>1, <2>2 DEF Init, TypeOK
<1>3. GuardCounts /\ OutermostCatches /\ CallsCatchErrors
  BY <1>1 DEF Init, GuardCounts, OutermostCatches, CallsCatchErrors
<1> QED
  BY <1>2, <1>3 DEF IInv

\* A call that gets past its BEGIN preserves the invariant.
LEMMA BeginIInv ==
  ASSUME IInv, status = "running", Depth < MaxDepth,
         NEW kind \in Kinds, NEW count \in Nat, Depth <= count,
         Begin(kind, count), leaks' \in 0..MaxLeaks, count <= Depth + leaks',
         leaks' = 0 \/ leaks' = leaks, status' = status,
         fatal_errored' \in BOOLEAN, uim_initialized' \in BOOLEAN,
         Depth = 0 \/ leaks' = leaks
  PROVE  IInv'
<1>1. /\ stack \in Seq(Kinds) /\ stack' = Append(stack, kind)
      /\ Depth \in Nat
  BY DEF IInv, TypeOK, Begin, Depth
<1>2. stack' \in Seq(Kinds) /\ Depth' = Depth + 1
  BY <1>1 DEF Depth
<1>3. target' = IF count = 0 THEN Depth + 1 ELSE target
  BY DEF Begin, SetsTarget
<1>4. guarded' = count + 1
  BY DEF Begin
<1>5. target \in 0..Depth /\ target \in {0, 1}
  BY DEF IInv, TypeOK, OutermostCatches
<1>6. TypeOK'
  BY <1>1, <1>2, <1>3, <1>4, <1>5, BoundAssumption DEF IInv, TypeOK
<1>7. GuardCounts'
  <2>1. leaks' \in Nat
    BY BoundAssumption
  <2>2. Depth' <= guarded' /\ guarded' <= Depth' + leaks'
    <3>1. /\ Depth \in Nat /\ Depth <= count /\ count <= Depth + leaks'
      BY <1>1
    <3>2. \A d, c, l \in Nat : d <= c /\ c <= d + l => d + 1 <= c + 1 /\ c + 1 <= d + 1 + l
      OBVIOUS
    <3> QED BY <1>2, <1>4, <2>1, <3>1, <3>2
  <2> QED BY <2>2 DEF GuardCounts
<1>8. OutermostCatches'
  BY <1>1, <1>3, <1>5 DEF OutermostCatches
<1>9. CallsCatchErrors'
  BY <1>1, <1>2, <1>3, <1>5 DEF CallsCatchErrors, IInv
<1> QED
  BY <1>6, <1>7, <1>8, <1>9 DEF IInv

\* Every step preserves the invariant.
LEMMA NextIInv == IInv /\ [Next]_vars => IInv'
<1> SUFFICES ASSUME IInv, [Next]_vars PROVE IInv'
  OBVIOUS
<1>0. /\ Depth \in Nat /\ guarded \in Nat /\ leaks \in 0..MaxLeaks
      /\ MaxLeaks \in Nat /\ stack \in Seq(Kinds)
  BY BoundAssumption DEF IInv, TypeOK, Depth
<1>1. ASSUME NEW kind \in {"api", "helper"}, Enter(kind) PROVE IInv'
  <2>1. Depth <= guarded /\ guarded <= Depth + leaks
    BY <1>1 DEF Enter, IInv, GuardCounts
  <2> QED
    BY <1>0, <1>1, <2>1, BeginIInv DEF Enter, IInv, TypeOK, Kinds
<1>2. CASE EnterInit
  <2>1. CASE fatal_errored
    BY <1>0, <1>2, <2>1
       DEF EnterInit, InitError, IInv, TypeOK, GuardCounts, OutermostCatches,
           CallsCatchErrors, Depth
  <2>2. CASE ~fatal_errored
    <3>1. Begin("init", 0) /\ leaks' = 0 /\ status' = status /\ Depth = 0
      BY <1>2, <2>2 DEF EnterInit
    <3>2. fatal_errored' \in BOOLEAN /\ uim_initialized' \in BOOLEAN /\ status = "running"
      BY <1>2 DEF EnterInit, InitError, IInv, TypeOK
    <3> QED
      BY <1>0, <3>1, <3>2, BoundAssumption, BeginIInv DEF Kinds
  <2> QED BY <2>1, <2>2
<1>3. CASE EnterQuit
  <2>1. Depth <= guarded /\ guarded <= Depth + leaks
    BY <1>3 DEF EnterQuit, IInv, GuardCounts
  <2> QED
    BY <1>0, <1>3, <2>1, BoundAssumption, BeginIInv DEF EnterQuit, IInv, TypeOK, Kinds
<1>4. ASSUME Pop, Depth > 0
      PROVE  /\ stack' \in Seq(Kinds) /\ Depth' = Depth - 1
             /\ target' = IF target = Depth THEN 0 ELSE target
  <2>1. \A i \in 1 .. Depth - 1 : stack[i] \in Kinds
    BY <1>0 DEF Depth
  <2>2. SubSeq(stack, 1, Depth - 1) \in Seq(Kinds)
        /\ Len(SubSeq(stack, 1, Depth - 1)) = Depth - 1
    BY <1>0, <1>4, <2>1, SubSeqProperties
  <2> QED BY <2>2, <1>4 DEF Pop, Depth
<1>5. CASE Leave
  <2>1. Pop /\ Depth > 0 /\ status = "running" /\ guarded' = guarded - 1
    BY <1>5 DEF Leave, End
  <2>2. guarded - 1 \in Nat /\ status' = status /\ leaks' = leaks
    BY <1>0, <1>5, <2>1 DEF Leave, End, IInv, GuardCounts
  <2>3. TypeOK'
    <3>1. fatal_errored' \in BOOLEAN /\ uim_initialized' \in BOOLEAN
      BY <1>5 DEF Leave, IInv, TypeOK
    <3>2. Depth' <= MaxDepth /\ target' \in 0..Depth'
      BY <1>0, <1>4, <2>1, BoundAssumption DEF IInv, TypeOK
    <3> QED BY <1>0, <1>4, <2>1, <2>2, <3>1, <3>2 DEF IInv, TypeOK
  <2>4. GuardCounts' /\ OutermostCatches' /\ CallsCatchErrors'
    BY <1>0, <1>4, <2>1, <2>2
       DEF IInv, GuardCounts, OutermostCatches, CallsCatchErrors
  <2> QED BY <2>3, <2>4 DEF IInv
<1>6. CASE LeaveGuarded
  <2>1. /\ Pop /\ Depth > 0 /\ status = "running" /\ guarded' = guarded
        /\ status' = status /\ leaks' = leaks + 1 /\ leaks < MaxLeaks
    BY <1>6 DEF LeaveGuarded
  <2>2. TypeOK'
    <3>1. fatal_errored' \in BOOLEAN /\ uim_initialized' \in BOOLEAN
      BY <1>6 DEF LeaveGuarded, IInv, TypeOK
    <3>2. Depth' <= MaxDepth /\ target' \in 0..Depth'
      BY <1>0, <1>4, <2>1, BoundAssumption DEF IInv, TypeOK
    <3> QED BY <1>0, <1>4, <2>1, <3>1, <3>2 DEF IInv, TypeOK
  <2>3. GuardCounts' /\ OutermostCatches' /\ CallsCatchErrors'
    BY <1>0, <1>4, <2>1
       DEF IInv, GuardCounts, OutermostCatches, CallsCatchErrors
  <2> QED BY <2>2, <2>3 DEF IInv
<1>7. ASSUME NEW fatal \in BOOLEAN, Throw(fatal) PROVE IInv'
  <2>1. status = "running" /\ leaks' = leaks /\ uim_initialized' = uim_initialized
    BY <1>7 DEF Throw
  <2>2. fatal_errored' \in BOOLEAN
    BY <1>7 DEF Throw, IInv, TypeOK
  <2>3. CASE guarded = 0 \/ target = 0
    <3>1. /\ UNCHANGED <<stack, guarded, target>>
          /\ status' \in {"exit", "undefined"}
          /\ status' = "exit" => guarded = 0
      BY <1>7, <2>3 DEF Throw, Jump
    <3> QED
      BY <1>0, <2>1, <2>2, <3>1
         DEF IInv, TypeOK, GuardCounts, OutermostCatches, CallsCatchErrors, Depth
  <2>4. CASE guarded # 0 /\ target # 0
    <3>1. /\ target = 1 /\ stack' = SubSeq(stack, 1, target - 1)
          /\ guarded' = 0 /\ target' = 0 /\ status' = status
      BY <1>7, <2>4 DEF Throw, Jump, CaughtCount, IInv, OutermostCatches
    <3>2. stack' = <<>>
      BY <3>1, SubSeqEmpty
    <3>3. stack' \in Seq(Kinds) /\ Depth' = 0
      BY <3>2 DEF Depth
    <3> QED
      BY <1>0, <2>1, <2>2, <3>1, <3>3, BoundAssumption
         DEF IInv, TypeOK, GuardCounts, OutermostCatches, CallsCatchErrors
  <2> QED BY <2>3, <2>4
<1>8. CASE Over \/ UNCHANGED vars
  BY <1>8
     DEF Over, vars, IInv, TypeOK, GuardCounts, OutermostCatches, CallsCatchErrors, Depth
<1> QED
  BY <1>1, <1>2, <1>3, <1>5, <1>6, <1>7, <1>8 DEF Next

\* Every variable of the error guard keeps its type, the nesting depth its bound.
THEOREM TypeCorrect == Spec => []TypeOK
<1>1. IInv => TypeOK
  BY DEF IInv
<1> QED
  BY InitIInv, NextIInv, <1>1, PTL DEF Spec

\* The counter of uim-error.c is the nesting depth plus the guards left
\* behind, so its assertions hold and no call's error ends the process.
THEOREM GuardBookkeeping == Spec => []GuardCounts
<1>1. IInv => GuardCounts
  BY DEF IInv
<1> QED
  BY InitIInv, NextIInv, <1>1, PTL DEF Spec

\* An error is caught by the outermost call in progress.
THEOREM ErrorsUnwindEverything == Spec => []OutermostCatches
<1>1. IInv => OutermostCatches
  BY DEF IInv
<1> QED
  BY InitIInv, NextIInv, <1>1, PTL DEF Spec

\* While no guard has been left behind, there always is a call to catch an
\* error raised inside a call.
THEOREM ErrorsAreCaught == Spec => []CallsCatchErrors
<1>1. IInv => CallsCatchErrors
  BY DEF IInv
<1> QED
  BY InitIInv, NextIInv, <1>1, PTL DEF Spec

\* A fatal error disables libuim for good.
THEOREM FatalErrorsDisable == Spec => FatalDisables
<1> DEFINE A == fatal_errored => fatal_errored' /\ Len(stack') <= Len(stack)
<1>1. IInv /\ [Next]_vars => [A]_vars
  <2> SUFFICES ASSUME IInv, Next, fatal_errored
               PROVE  fatal_errored' /\ Len(stack') <= Len(stack)
    BY DEF A
  <2>0. stack \in Seq(Kinds) /\ Len(stack) \in Nat /\ Depth = Len(stack)
    BY DEF IInv, TypeOK, Depth
  <2>1. CASE \E kind \in {"api", "helper"} : Enter(kind)
    BY <2>1 DEF Enter, CaughtFatal
  <2>2. CASE EnterInit
    <3>1. stack' = stack BY <2>2 DEF EnterInit
    <3>2. fatal_errored' BY <2>2 DEF EnterInit, InitError
    <3> QED BY <2>0, <3>1, <3>2
  <2>3. CASE EnterQuit
    BY <2>3 DEF EnterQuit, CaughtFatal
  <2>4. CASE Leave \/ LeaveGuarded
    <3>1. fatal_errored' = fatal_errored BY <2>4 DEF Leave, LeaveGuarded
    <3>2. Depth > 0 /\ stack' = SubSeq(stack, 1, Depth - 1)
      BY <2>4 DEF Leave, LeaveGuarded, Pop
    <3>3. Len(SubSeq(stack, 1, Depth - 1)) = Depth - 1
      <4>1. \A i \in 1 .. Depth - 1 : stack[i] \in Kinds
        BY <2>0
      <4> QED BY <2>0, <3>2, <4>1, SubSeqProperties
    <3> QED BY <2>0, <3>1, <3>2, <3>3
  <2>5. ASSUME NEW fatal \in BOOLEAN, Throw(fatal)
        PROVE  fatal_errored' /\ Len(stack') <= Len(stack)
    <3>1. fatal_errored' BY <2>5 DEF Throw
    <3>2. UNCHANGED stack \/ (target # 0 /\ stack' = SubSeq(stack, 1, target - 1))
      BY <2>5 DEF Throw, Jump
    <3>3. target \in 0..Len(stack)
      BY <2>0 DEF IInv, TypeOK
    <3> QED BY <2>0, <3>1, <3>2, <3>3
  <2>6. CASE Over
    BY <2>0, <2>6 DEF Over, vars
  <2> QED BY <2>1, <2>2, <2>3, <2>4, <2>5, <2>6 DEF Next
<1> QED
  BY InitIInv, NextIInv, <1>1, PTL DEF Spec, FatalDisables
=============================================================================
