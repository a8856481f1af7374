------------------------------ MODULE Interrupt ------------------------------
(***************************************************************************)
(* interruptible_thread of "Advanced thread management" (exp2.cpp and      *)
(* interrupt_thread.cpp): one thread calls interruptible_wait until data   *)
(* is there, one provides the data, and one interrupts.  scheme keeps its  *)
(* first value:                                                            *)
(*   plain      cv.wait, "the version with a problem" of exp2.cpp          *)
(*   timed      cv.wait_for 1 ms                                           *)
(*   predicate  the same in a loop                                         *)
(*   any        condition_variable_any, with custom_lock                   *)
(*   future     polls a future                                             *)
(* The mutex of the caller is lk, the flag's is set_clear_mutex; a step    *)
(* ends at a lock, an unlock or an access to the flag.                     *)
(***************************************************************************)
EXTENDS Naturals

CONSTANT Schemes

VARIABLES scheme,
          flag,
          thread_cond,          \* whether the flag knows the condition variable
          set_clear_mutex, lk,  \* who holds them: "none", "waiter", "interrupter"
          data,                 \* what the waiter waits for
          waiting,              \* it is blocked in cv
          waiter, interrupter, provider,    \* where each thread is
          interrupted           \* the waiter has thrown thread_interrupted

vars == <<scheme, flag, thread_cond, set_clear_mutex, lk, data, waiting, waiter, interrupter, provider, interrupted>>
others == <<scheme, flag, data, interrupter, provider>>

Init == /\ scheme \in Schemes
        /\ flag = FALSE /\ thread_cond = FALSE /\ set_clear_mutex = "none" /\ lk = "waiter"
        /\ data = FALSE /\ waiting = FALSE
        /\ waiter = "call" /\ interrupter = "idle" /\ provider = "idle" /\ interrupted = FALSE

Goto(p) == waiter' = p
Any == scheme = "any"
-----------------------------------------------------------------------------
(* interruptible_wait *)

\* The caller's loop, then interruption_point; any sets the pointer first.
CallWait == /\ waiter = "call"
            /\ IF data THEN Goto("unlock")
               ELSE IF Any \/ scheme = "future" THEN Goto(IF Any THEN "set" ELSE "poll")
               ELSE Goto(IF flag THEN "throw" ELSE "set")
            /\ UNCHANGED <<others, thread_cond, set_clear_mutex, lk, waiting, interrupted>>

\* set_condition_variable, or the constructor of custom_lock, which keeps the mutex
SetCond == /\ waiter = "set" /\ set_clear_mutex = "none"
           /\ thread_cond' = TRUE
           /\ set_clear_mutex' = IF Any THEN "waiter" ELSE "none"
           /\ Goto(IF scheme = "plain" THEN "wait" ELSE "point")
           /\ UNCHANGED <<others, lk, waiting, interrupted>>

\* The flag is looked at again, and in predicate, where this is the loop's test, the data.
Point == /\ waiter = "point"
         /\ Goto(CASE scheme = "predicate" -> IF flag \/ data THEN "last" ELSE "wait"
                   [] OTHER -> IF flag THEN "unwind" ELSE "wait")
         /\ UNCHANGED <<others, thread_cond, set_clear_mutex, lk, waiting, interrupted>>

\* wait lets go of the lock it is given: of both with custom_lock.
Wait == /\ waiter = "wait"
        /\ waiting' = TRUE /\ lk' = "none"
        /\ set_clear_mutex' = IF Any THEN "none" ELSE set_clear_mutex
        /\ Goto("asleep")
        /\ UNCHANGED <<others, thread_cond, interrupted>>

\* wait_for ends after its 1 ms; any wait may end for no reason.
OnlyTimed == waiting /\ scheme = "timed"    \* mutant
Expires == waiting /\ scheme \in {"timed", "predicate"}
Timeout == /\ Expires
           /\ waiting' = FALSE
           /\ UNCHANGED <<others, thread_cond, set_clear_mutex, lk, waiter, interrupted>>

Spurious == /\ waiting
            /\ waiting' = FALSE
            /\ UNCHANGED <<others, thread_cond, set_clear_mutex, lk, waiter, interrupted>>

\* std::lock takes both, or neither.
Relock == /\ waiter = "asleep" /\ ~waiting /\ lk = "none"
          /\ Any => set_clear_mutex = "none"
          /\ lk' = "waiter"
          /\ set_clear_mutex' = IF Any THEN "waiter" ELSE set_clear_mutex
          /\ Goto(CASE scheme = "predicate" -> "point" [] scheme = "plain" -> "clear" [] OTHER -> "last")
          /\ UNCHANGED <<others, thread_cond, waiting, interrupted>>

\* The last interruption_point comes before the pointer is cleared, in plain after.
ByHand == scheme \in {"plain", "future"}
LastPoint == /\ waiter = "last"
             /\ Goto(IF flag THEN IF ByHand THEN "throw" ELSE "unwind"
                     ELSE IF ByHand THEN "call" ELSE "clear")
             /\ UNCHANGED <<others, thread_cond, set_clear_mutex, lk, waiting, interrupted>>

\* clear_cv_on_destruct or ~custom_lock, whether the wait returns or throws
OnReturn == waiter = "clear"    \* mutant
OnLeaving == TRUE
Clear == /\ waiter \in {"clear", "unwind"} /\ (~Any => set_clear_mutex = "none")
         /\ thread_cond' = (thread_cond /\ ~OnLeaving)
         /\ set_clear_mutex' = "none"
         /\ Goto(CASE waiter = "unwind" -> "throw" [] scheme = "plain" -> "last" [] OTHER -> "call")
         /\ UNCHANGED <<others, lk, waiting, interrupted>>

\* The future's loop: the flag, then wait_for
Poll == /\ waiter = "poll"
        /\ Goto(IF flag \/ data THEN "last" ELSE "poll")
        /\ UNCHANGED <<others, thread_cond, set_clear_mutex, lk, waiting, interrupted>>

Leave == /\ waiter \in {"throw", "unlock"}
         /\ interrupted' = (waiter = "throw")
         /\ lk' = "none"
         /\ Goto("done")
         /\ UNCHANGED <<others, thread_cond, set_clear_mutex, waiting>>

WaiterStep == CallWait \/ SetCond \/ Point \/ Wait \/ Timeout \/ Relock \/ LastPoint \/ Clear \/ Poll \/ Leave
-----------------------------------------------------------------------------
(* interrupt_flag::set *)

Store == /\ interrupter = "idle" /\ waiter # "done"
         /\ flag' = TRUE
         /\ interrupter' = "lock"
         /\ UNCHANGED <<scheme, thread_cond, set_clear_mutex, lk, data, waiting, waiter, provider, interrupted>>

LockSetClear == /\ interrupter = "lock" /\ set_clear_mutex = "none"
                /\ set_clear_mutex' = "interrupter"
                /\ interrupter' = "notify"
                /\ UNCHANGED <<scheme, flag, thread_cond, lk, data, waiting, waiter, provider, interrupted>>

Notify == /\ interrupter = "notify"
          /\ waiting' = IF thread_cond THEN FALSE ELSE waiting
          /\ set_clear_mutex' = "none"
          /\ interrupter' = "done"
          /\ UNCHANGED <<scheme, flag, thread_cond, lk, data, waiter, provider, interrupted>>

\* The data comes under lk, with a notification; the promise takes no lock.
Provide == /\ provider = "idle" /\ (scheme # "future" => lk = "none")
           /\ data' = TRUE /\ waiting' = FALSE
           /\ provider' = "done"
           /\ UNCHANGED <<scheme, flag, thread_cond, set_clear_mutex, lk, waiter, interrupter, interrupted>>

Next == WaiterStep \/ Spurious \/ Store \/ LockSetClear \/ Notify \/ Provide

Fairness == WF_vars(WaiterStep) /\ WF_vars(LockSetClear) /\ WF_vars(Notify)
Spec == Init /\ [][Next]_vars /\ Fairness
-----------------------------------------------------------------------------
(* The flag never keeps a pointer to a condition variable that its thread    *)
(* has left: a set that has found one may notify it.                         *)
CondIsThere == thread_cond => waiter \in {"point", "wait", "asleep", "last", "clear", "unwind"}

(* An interrupted thread leaves its wait, whenever the flag is set; in plain *)
(* it may sleep for ever, the flag set before the wait began.                *)
Sent == flag /\ scheme # "plain"
Left == waiter = "done"
InterruptEndsWait == Sent ~> Left
=============================================================================
