----------------------------- MODULE ErrorGuard -----------------------------
(***************************************************************************)
(* libuim's error guard (uim/uim-error.c and the UIM_CATCH_ERROR macros of *)
(* uim/uim-internal.h).  Every API function of libuim runs between         *)
(* UIM_CATCH_ERROR_BEGIN and UIM_CATCH_ERROR_END.  The outermost BEGIN     *)
(* records a jump target with setjmp(); inner ones only count.  An error   *)
(* longjmp()s to the recorded target, wherever it is raised, and a fatal   *)
(* one disables libuim for the rest of the process.                        *)
(*                                                                         *)
(* API calls nest through the application's callbacks: a key press runs    *)
(* Scheme code that calls the application's property callback, which       *)
(* sends the new property list to uim-helper-server.                       *)
(***************************************************************************)
EXTENDS Integers, Sequences

CONSTANTS
  MaxDepth,  \* how deep API calls nest (bound)
  MaxLeaks   \* how often a guard is left behind between two inits (bound)

ASSUME BoundAssumption == MaxDepth \in Nat \ {0} /\ MaxLeaks \in Nat

VARIABLES
  stack,            \* the API calls in progress, outermost first: their kinds
  guarded,          \* the nesting counter of uim-error.c
  fatal_errored,
  target,           \* depth of the live call setjmp() was last called in;
                    \* 0: none was, or it has returned since
  uim_initialized,
  status,           \* "running", "exit" (EX_SOFTWARE), "abort" (an assertion
                    \* failed) or "undefined" (longjmp into a dead frame)
  leaks             \* history: guards left behind since the last uim_init

vars == <<stack, guarded, fatal_errored, target, uim_initialized, status, leaks>>

\* "api": a function guarded from its first to its last statement.
\* "helper": uim_helper_send_message and uim_helper_buffer_get_message, which
\*   return early, between BEGIN and END, for fd < 0 or a NULL argument.
\* "init", "quit": uim_init and uim_quit.
Kinds == {"api", "helper", "init", "quit"}

Depth == Len(stack)
Top == stack[Depth]

Init ==
  /\ stack = <<>>
  /\ guarded = 0
  /\ fatal_errored = FALSE
  /\ target = 0
  /\ uim_initialized = FALSE
  /\ status = "running"
  /\ leaks = 0

-----------------------------------------------------------------------------
(* UIM_CATCH_ERROR_BEGIN and UIM_CATCH_ERROR_END. *)

\* The mutant lets calls in after a fatal error.
CaughtFatalMutant == FALSE
CaughtFatal == fatal_errored

\* The mutant records a jump target at every level.
SetsTargetMutant(count) == TRUE
SetsTarget(count) == count = 0

\* The mutant notes that a guard is up instead of counting.
BeginMutant(kind, count) ==
  /\ guarded' = 1
  /\ target' = IF SetsTarget(count) THEN Depth + 1 ELSE target
  /\ stack' = Append(stack, kind)

\* BEGIN returns FALSE: the call of this kind goes on, count being the value
\* of the counter it finds.
Begin(kind, count) ==
  /\ guarded' = count + 1
  /\ target' = IF SetsTarget(count) THEN Depth + 1 ELSE target
  /\ stack' = Append(stack, kind)

\* The mutant misses the END on a way out that has one.
EndMutant == guarded
End == guarded - 1

\* The call on top returns.
Pop ==
  /\ stack' = SubSeq(stack, 1, Depth - 1)
  /\ target' = IF target = Depth THEN 0 ELSE target

-----------------------------------------------------------------------------
(* Calls. *)

\* An API call from the application, or from a callback of another one.
Enter(kind) ==
  /\ status = "running"
  /\ ~CaughtFatal
  /\ Depth < MaxDepth
  /\ Depth > 0 => Top = "api"
  /\ Begin(kind, guarded)
  /\ UNCHANGED <<fatal_errored, uim_initialized, status, leaks>>

\* uim_init at top level: uim_init_error resets the counter, not the flag.
\* The mutant resets both.
InitErrorMutant == FALSE
InitError == fatal_errored

EnterInit ==
  /\ status = "running"
  /\ Depth = 0 /\ ~uim_initialized
  /\ fatal_errored' = InitError
  /\ IF fatal_errored
     THEN guarded' = 0 /\ UNCHANGED <<stack, target>>
     ELSE Begin("init", 0)
  /\ leaks' = 0
  /\ UNCHANGED <<uim_initialized, status>>

\* uim_quit at top level.
EnterQuit ==
  /\ status = "running"
  /\ Depth = 0 /\ uim_initialized
  /\ ~CaughtFatal
  /\ Begin("quit", guarded)
  /\ UNCHANGED <<fatal_errored, uim_initialized, status, leaks>>

\* The call on top reaches its UIM_CATCH_ERROR_END, and the assertion in it.
Leave ==
  /\ status = "running"
  /\ Depth > 0 /\ Top # "quit"
  /\ guarded' = End
  /\ status' = IF End < 0 THEN "abort" ELSE status
  /\ uim_initialized' = (uim_initialized \/ Top = "init")
  /\ Pop
  /\ UNCHANGED <<fatal_errored, leaks>>

\* The early returns of the helper functions, and the end of uim_quit: no
\* UIM_CATCH_ERROR_END.
LeaveGuarded ==
  /\ status = "running"
  /\ Depth > 0 /\ Top \in {"helper", "quit"}
  /\ leaks < MaxLeaks
  /\ leaks' = leaks + 1
  /\ uim_initialized' = (uim_initialized /\ Top # "quit")
  /\ Pop
  /\ UNCHANGED <<guarded, fatal_errored, status>>

-----------------------------------------------------------------------------
(* uim_throw_error and uim_fatal_error. *)

\* The mutant forgets uim_catch_error_begin_post's reset.
CaughtCountMutant == guarded
CaughtCount == 0

\* A guarded error: control is back in the outermost BEGIN, which now returns
\* TRUE and ends its call.  If that call has returned already, the jump goes
\* into a dead frame.
Jump ==
  IF target = 0
  THEN status' = "undefined" /\ UNCHANGED <<stack, guarded, target>>
  ELSE /\ stack' = SubSeq(stack, 1, target - 1)
       /\ guarded' = CaughtCount
       /\ target' = 0
       /\ UNCHANGED status

\* An error inside an API call, or in a function of libuim that no guard
\* covers (uim_helper_buffer_append called by uim_helper_read_proc).
Throw(fatal) ==
  /\ status = "running"
  /\ fatal_errored' = (fatal_errored \/ fatal)
  /\ IF guarded = 0
     THEN status' = "exit" /\ UNCHANGED <<stack, guarded, target>>
     ELSE Jump
  /\ UNCHANGED <<uim_initialized, leaks>>

\* The process is over.
Over == status # "running" /\ UNCHANGED vars

Next ==
  \/ \E kind \in {"api", "helper"} : Enter(kind)
  \/ EnterInit
  \/ EnterQuit
  \/ Leave
  \/ LeaveGuarded
  \/ \E fatal \in BOOLEAN : Throw(fatal)
  \/ Over

Spec == Init /\ [][Next]_vars

-----------------------------------------------------------------------------
(* Properties. *)

TypeOK ==
  /\ stack \in Seq(Kinds)
  /\ Depth <= MaxDepth
  /\ guarded \in Nat
  /\ fatal_errored \in BOOLEAN /\ uim_initialized \in BOOLEAN
  /\ target \in 0..Depth
  /\ status \in {"running", "exit", "abort", "undefined"}
  /\ leaks \in 0..MaxLeaks

\* The counter is the number of calls in progress, plus the guards left
\* behind; so the assertions on it never fail, and an error raised inside a
\* call is never taken for an unguarded one, which would end the process.
GuardCounts ==
  /\ status # "abort"
  /\ status = "running" => Depth <= guarded /\ guarded <= Depth + leaks
  /\ status = "exit" => Depth = 0

\* The jump target, when there is one, is the outermost call: an error ends
\* all the calls in progress, and none goes on in an undefined state.
OutermostCatches == target \in {0, 1}

\* While no guard has been left behind, every error raised inside a call
\* finds a live target, and the process survives it.
CallsCatchErrors ==
  status = "running" /\ leaks = 0 /\ Depth > 0 => target = 1

\* After a fatal error no call gets past its BEGIN, across re-initialisation.
FatalDisables ==
  [][fatal_errored => fatal_errored' /\ Len(stack') <= Len(stack)]_vars

\* uim/uim-internal.h:142: the guards "can be nested", and uim/uim-helper.c:121:
\* "The condition fd < 0 ordinarily occurs": no sequence of calls makes an
\* error raised inside an API call jump into a dead frame.
JumpsLandInLiveFrames == Depth > 0 => status # "undefined"
=============================================================================
