-------------------------------- MODULE Future --------------------------------
(***************************************************************************)
(* corsl::future<T> and its promise (future.h): the hand-off of a result   *)
(* from a coroutine to the one holder of its future, and the hand-shake    *)
(* between final_suspend and ~future that decides who destroys the         *)
(* coroutine's frame.                                                      *)
(*                                                                         *)
(* Every coroutine of Coro returns a future.  A future lives in the frame  *)
(* of another coroutine or on the stack of Main, a plain thread that may   *)
(* block in future::wait().  The promise's mutex is a binary semaphore: it *)
(* is acquired in one function and released in another, so it is a         *)
(* variable here and not the atomicity of an action.  One action is one    *)
(* critical section, or one step between two of them.                      *)
(***************************************************************************)
CONSTANTS
  Coro,         \* coroutines whose return type is future<T>
  Main,         \* a thread that is no coroutine and may block in wait()
  Value,        \* what a coroutine may co_return
  Exception,    \* an exception that escapes a coroutine's body
  None          \* std::monostate, a null handle, a mutex nobody holds

ASSUME FutureAssumption ==
  /\ Main \notin Coro
  /\ None \notin Coro \cup {Main}
  /\ Exception \notin Value
  /\ None \notin Value \cup {Exception}

Actor  == Coro \cup {Main}
Result == Value \cup {Exception}

VARIABLES
  phase,          \* phase[c]: how far coroutine c has come.  phase[Main] is
                  \* that of the fire_and_forget lambda wait() starts
  value,          \* promise_common::value
  resume,         \* promise_common::resume, the handle of the awaiter
  lock,           \* promise_common::lock: on whose behalf it is held
  future_exists,  \* promise_type_::future_exists
  destroy_resume, \* promise_type_::destroy_resume is set
  owner,          \* whose frame or stack holds c's future (use_count is 1
                  \* exactly while there is one)
  awaiting,       \* the coroutine whose future an actor is awaiting
  got,            \* what the holder of c's future received from it
  thread,         \* where Main stands in wait()
  x,              \* the srwlock x on the stack of wait(): who holds it
  completed       \* the flag completed on the stack of wait()

promiseVars == <<value, resume, lock, future_exists, destroy_resume>>
waitVars    == <<thread, x, completed>>
vars        == <<phase, value, resume, lock, future_exists, destroy_resume,
                 owner, awaiting, got, thread, x, completed>>

CoroPhases == {"unborn", "running", "suspending", "suspended", "resuming",
               "returning", "final", "freeing", "freed"}
MainPhases == {"running", "suspending", "suspended", "resuming", "notifying"}

Init ==
  /\ phase = [a \in Actor |-> IF a = Main THEN "running" ELSE "unborn"]
  /\ value = [c \in Coro |-> None]
  /\ resume = [c \in Coro |-> None]
  /\ lock = [c \in Coro |-> None]
  /\ future_exists = [c \in Coro |-> TRUE]
  /\ destroy_resume = [c \in Coro |-> FALSE]
  /\ owner = [c \in Coro |-> None]
  /\ awaiting = [a \in Actor |-> None]
  /\ got = [c \in Coro |-> None]
  /\ thread = "free"
  /\ x = None
  /\ completed = FALSE

(* Coroutine o executes its body, or Main is not inside wait(). *)
Running(o) == phase[o] = "running" /\ (o = Main => thread = "free")

--------------------------------------------------------------------------------
(***************************************************************************)
(* Starting a coroutine and passing futures around.                        *)
(***************************************************************************)

(* o calls coroutine c and receives its future; the futures in moved are   *)
(* passed by value and move into c's frame.                                *)
get_return_object(o, c, moved) ==
  /\ Running(o)
  /\ phase[c] = "unborn"
  /\ \A d \in moved : owner[d] = o
  /\ phase' = [phase EXCEPT ![c] = "running"]
  /\ owner' = [d \in Coro |-> IF d = c THEN o
                              ELSE IF d \in moved THEN c ELSE owner[d]]
  /\ UNCHANGED <<promiseVars, awaiting, got, waitVars>>

--------------------------------------------------------------------------------
(***************************************************************************)
(* co_await on a future: await_ready keeps the mutex when there is no      *)
(* result yet, await_suspend adopts it.                                    *)
(***************************************************************************)

await_ready(a, c) ==
  /\ lock[c] = None
  /\ awaiting' = [awaiting EXCEPT ![a] = c]
  /\ \/ /\ value[c] # None
        /\ phase' = [phase EXCEPT ![a] = "resuming"]
        /\ UNCHANGED lock
     \/ /\ value[c] = None
        /\ phase' = [phase EXCEPT ![a] = "suspending"]
        /\ lock' = [lock EXCEPT ![c] = a]
  /\ UNCHANGED <<value, resume, future_exists, destroy_resume, owner, got, x>>

(* A coroutine awaits a future it owns.  A future is awaited once.         *)
CoAwait(p, c) ==
  /\ Running(p)
  /\ owner[c] = p
  /\ got[c] = None
  /\ await_ready(p, c)
  /\ UNCHANGED <<thread, completed>>

(* await_suspend and start_async *)
await_suspend(a) ==
  LET c == awaiting[a] IN
  /\ phase[a] = "suspending"
  /\ lock' = [lock EXCEPT ![c] = None]
  /\ IF value[c] # None
     THEN /\ phase' = [phase EXCEPT ![a] = "resuming"]
          /\ UNCHANGED resume
     ELSE /\ phase' = [phase EXCEPT ![a] = "suspended"]
          /\ resume' = [resume EXCEPT ![c] = a]
  /\ thread' = IF a = Main THEN "blocking" ELSE thread
  /\ UNCHANGED <<value, future_exists, destroy_resume, owner, awaiting, got,
                 x, completed>>

await_resume(p) ==
  LET c == awaiting[p] IN
  /\ phase[p] = "resuming"
  /\ got' = [got EXCEPT ![c] = value[c]]
  /\ phase' = [phase EXCEPT ![p] = "running"]
  /\ awaiting' = [awaiting EXCEPT ![p] = None]
  /\ UNCHANGED <<promiseVars, owner, waitVars>>

--------------------------------------------------------------------------------
(***************************************************************************)
(* The end of a coroutine.  return_value, return_void and                  *)
(* unhandled_exception acquire the mutex; final_suspend releases it.       *)
(***************************************************************************)

(* Mutant: a second result overwrites the first one.                       *)
CompleteAgain(c) ==
  /\ phase[c] \in {"running", "returning"}
  /\ lock[c] \in {None, c}
  /\ lock' = [lock EXCEPT ![c] = c]
  /\ \E r \in Result : value' = [value EXCEPT ![c] = r]
  /\ phase' = [phase EXCEPT ![c] = "returning"]
  /\ UNCHANGED <<resume, future_exists, destroy_resume, owner, awaiting, got,
                 waitVars>>

Complete(c) ==
  /\ phase[c] = "running"
  /\ lock[c] = None
  /\ lock' = [lock EXCEPT ![c] = c]
  /\ \E r \in Result : value' = [value EXCEPT ![c] = r]
  /\ phase' = [phase EXCEPT ![c] = "returning"]
  /\ UNCHANGED <<resume, future_exists, destroy_resume, owner, awaiting, got,
                 waitVars>>

Resumed(ph, a) == IF a = None THEN ph ELSE [ph EXCEPT ![a] = "resuming"]

(* Mutant: the frame is left to fall apart whether or not a future refers  *)
(* to it (final_suspend as std::suspend_never).                            *)
final_suspend_never(c) ==
  /\ phase[c] = "returning"
  /\ lock' = [lock EXCEPT ![c] = None]
  /\ resume' = [resume EXCEPT ![c] = None]
  /\ phase' = Resumed([phase EXCEPT ![c] = "freeing"], resume[c])
  /\ UNCHANGED <<value, future_exists, destroy_resume, owner, awaiting, got,
                 waitVars>>

(* Mutant: the awaiter's handle is dropped instead of returned.            *)
final_suspend_noop(c) ==
  /\ phase[c] = "returning"
  /\ lock' = [lock EXCEPT ![c] = None]
  /\ resume' = [resume EXCEPT ![c] = None]
  /\ IF future_exists[c]
     THEN /\ destroy_resume' = [destroy_resume EXCEPT ![c] = TRUE]
          /\ phase' = [phase EXCEPT ![c] = "final"]
     ELSE /\ phase' = [phase EXCEPT ![c] = "freeing"]
          /\ UNCHANGED destroy_resume
  /\ UNCHANGED <<value, future_exists, owner, awaiting, got, waitVars>>

(* awaiter::await_ready and awaiter::await_suspend.  With a future around  *)
(* the frame stays suspended for the future to destroy; without one the    *)
(* coroutine falls off its end and the frame goes.                         *)
final_suspend(c) ==
  /\ phase[c] = "returning"
  /\ lock' = [lock EXCEPT ![c] = None]
  /\ resume' = [resume EXCEPT ![c] = None]
  /\ \/ /\ future_exists[c]
        /\ destroy_resume' = [destroy_resume EXCEPT ![c] = TRUE]
        /\ phase' = Resumed([phase EXCEPT ![c] = "final"], resume[c])
     \/ /\ ~future_exists[c]
        /\ phase' = Resumed([phase EXCEPT ![c] = "freeing"], resume[c])
        /\ UNCHANGED destroy_resume
  /\ UNCHANGED <<value, future_exists, owner, awaiting, got, waitVars>>

--------------------------------------------------------------------------------
(***************************************************************************)
(* ~future, release and destroy.                                           *)
(***************************************************************************)

(* When o may run a destructor: in its body, between return_value and      *)
(* final_suspend (the locals of a body that has returned; an exception has *)
(* unwound them before), and with its frame (the parameters).              *)
Destructing(o) ==
  \/ Running(o)
  \/ o \in Coro /\ phase[o] = "freeing"
  \/ o \in Coro /\ phase[o] = "returning" /\ value[o] # Exception

(* Mutant: ~future forgets to tell the promise that the future is gone.    *)
release_silently(o, c) ==
  /\ owner[c] = o
  /\ Destructing(o)
  /\ lock[c] = None
  /\ owner' = [owner EXCEPT ![c] = None]
  /\ phase' = IF destroy_resume[c] THEN [phase EXCEPT ![c] = "freeing"] ELSE phase
  /\ UNCHANGED <<promiseVars, awaiting, got, waitVars>>

release(o, c) ==
  /\ owner[c] = o
  /\ Destructing(o)
  /\ lock[c] = None
  /\ owner' = [owner EXCEPT ![c] = None]
  /\ future_exists' = [future_exists EXCEPT ![c] = FALSE]
  /\ phase' = IF destroy_resume[c] THEN [phase EXCEPT ![c] = "freeing"] ELSE phase
  /\ UNCHANGED <<value, resume, lock, destroy_resume, awaiting, got, waitVars>>

(* The frame is gone once the futures that were its parameters are.        *)
Freed(c) ==
  /\ phase[c] = "freeing"
  /\ \A d \in Coro : owner[d] # c
  /\ phase' = [phase EXCEPT ![c] = "freed"]
  /\ UNCHANGED <<promiseVars, owner, awaiting, got, waitVars>>

--------------------------------------------------------------------------------
(***************************************************************************)
(* The blocking wait() and get().  wait() polls, then starts a lambda that *)
(* awaits the future through special_await and signals a condition         *)
(* variable on the stack of wait().                                        *)
(***************************************************************************)

wait(c) ==
  /\ Running(Main)
  /\ owner[c] = Main
  /\ got[c] = None
  /\ lock[c] = None
  /\ awaiting' = [awaiting EXCEPT ![Main] = c]
  /\ completed' = FALSE
  /\ thread' = IF value[c] # None THEN "returned" ELSE "starting"
  /\ UNCHANGED <<phase, promiseVars, owner, got, x>>

(* special_await::await_ready; the lambda runs inline until it suspends.   *)
special_await_ready ==
  /\ thread = "starting"
  /\ phase[Main] = "running"
  /\ await_ready(Main, awaiting[Main])
  /\ thread' = IF value[awaiting[Main]] # None THEN "blocking" ELSE thread
  /\ UNCHANGED completed

(* Mutant: the lambda does not guard the flag with x.                      *)
NotifyUnguarded ==
  /\ phase[Main] = "resuming"
  /\ completed' = TRUE
  /\ phase' = [phase EXCEPT ![Main] = "notifying"]
  /\ thread' = IF thread = "asleep" THEN "blocking" ELSE thread
  /\ UNCHANGED <<promiseVars, owner, awaiting, got, x>>

(* Mutant: the flag is set and nobody is woken.                            *)
NotifyWithoutWake ==
  /\ phase[Main] = "resuming"
  /\ x = None
  /\ x' = Main
  /\ completed' = TRUE
  /\ phase' = [phase EXCEPT ![Main] = "notifying"]
  /\ UNCHANGED <<promiseVars, owner, awaiting, got, thread>>

(* The lambda takes x, sets completed and calls cv.wake_one() ...          *)
Notify ==
  /\ phase[Main] = "resuming"
  /\ x = None
  /\ x' = Main
  /\ completed' = TRUE
  /\ phase' = [phase EXCEPT ![Main] = "notifying"]
  /\ thread' = IF thread = "asleep" THEN "blocking" ELSE thread
  /\ UNCHANGED <<promiseVars, owner, awaiting, got>>

(* ... and releases x.                                                     *)
NotifyUnlock ==
  /\ phase[Main] = "notifying"
  /\ x' = None
  /\ phase' = [phase EXCEPT ![Main] = "running"]
  /\ UNCHANGED <<promiseVars, owner, awaiting, got, thread, completed>>

(* One evaluation of wait_while's predicate, under x.                      *)
wait_while ==
  /\ thread = "blocking"
  /\ x = None
  /\ thread' = IF completed THEN "returned" ELSE "asleep"
  /\ UNCHANGED <<phase, promiseVars, owner, awaiting, got, x, completed>>

(* SleepConditionVariableSRW may return without a wake-up.                 *)
SpuriousWake ==
  /\ thread = "asleep"
  /\ thread' = "blocking"
  /\ UNCHANGED <<phase, promiseVars, owner, awaiting, got, x, completed>>

(* get() reads the result without the mutex once wait() has returned.      *)
get ==
  /\ thread = "returned"
  /\ got' = [got EXCEPT ![awaiting[Main]] = value[awaiting[Main]]]
  /\ awaiting' = [awaiting EXCEPT ![Main] = None]
  /\ thread' = "free"
  /\ UNCHANGED <<phase, promiseVars, owner, x, completed>>

--------------------------------------------------------------------------------
(* Every coroutine has run and its frame is gone: the program may stop.    *)
Terminated ==
  /\ \A c \in Coro : phase[c] = "freed"
  /\ UNCHANGED vars

Next ==
  \/ \E o \in Actor, c \in Coro, moved \in SUBSET Coro :
        get_return_object(o, c, moved)
  \/ \E p, c \in Coro : CoAwait(p, c)
  \/ \E a \in Actor : await_suspend(a)
  \/ \E p \in Coro : await_resume(p)
  \/ \E c \in Coro : Complete(c)
  \/ \E c \in Coro : final_suspend(c)
  \/ \E o \in Actor, c \in Coro : release(o, c)
  \/ \E c \in Coro : Freed(c)
  \/ \E c \in Coro : wait(c)
  \/ special_await_ready
  \/ Notify
  \/ NotifyUnlock
  \/ wait_while
  \/ SpuriousWake
  \/ get
  \/ Terminated

Spec == Init /\ [][Next]_vars

(***************************************************************************)
(* A runnable thread runs, and a coroutine's body comes to its end.  What  *)
(* the user may or may not do (start a coroutine, await, drop a future     *)
(* before the end of its scope) is not fair; a scope that is left runs the *)
(* destructors it owes.                                                    *)
(***************************************************************************)
Fairness ==
  /\ \A a \in Actor : WF_vars(await_suspend(a))
  /\ \A c \in Coro : /\ WF_vars(await_resume(c))
                     /\ WF_vars(Complete(c))
                     /\ WF_vars(final_suspend(c))
                     /\ WF_vars(Freed(c))
                     /\ \A d \in Coro : WF_vars(phase[c] = "freeing" /\ release(c, d))
  /\ WF_vars(special_await_ready)
  /\ WF_vars(Notify)
  /\ WF_vars(NotifyUnlock)
  /\ WF_vars(wait_while)
  /\ WF_vars(get)

FairSpec == Spec /\ Fairness

--------------------------------------------------------------------------------
(***************************************************************************)
(* Properties.                                                             *)
(***************************************************************************)

InWait == {"starting", "blocking", "asleep", "returned"}

(* The variables have their types, and an actor names a future it awaits   *)
(* exactly while it is between await_ready and await_resume (wait() and    *)
(* get() for Main).                                                        *)
TypeOK ==
  /\ phase \in [Actor -> CoroPhases \cup MainPhases]
  /\ phase[Main] \in MainPhases
  /\ \A c \in Coro : phase[c] \in CoroPhases
  /\ value \in [Coro -> Result \cup {None}]
  /\ resume \in [Coro -> Actor \cup {None}]
  /\ lock \in [Coro -> Actor \cup {None}]
  /\ future_exists \in [Coro -> BOOLEAN]
  /\ destroy_resume \in [Coro -> BOOLEAN]
  /\ owner \in [Coro -> Actor \cup {None}]
  /\ awaiting \in [Actor -> Coro \cup {None}]
  /\ got \in [Coro -> Result \cup {None}]
  /\ thread \in InWait \cup {"free"}
  /\ x \in {None, Main}
  /\ completed \in BOOLEAN
  /\ (awaiting[Main] # None) <=> (thread \in InWait)
  /\ \A c \in Coro :
       (awaiting[c] # None) <=> (phase[c] \in {"suspending", "suspended", "resuming"})

(* Once a frame is being destroyed nothing can reach its promise any more: *)
(* no future, no awaiter between await_ready and await_resume, no holder   *)
(* of its mutex; and no promise is left with a handle to the destroyed     *)
(* coroutine.  This is what final_suspend and destroy() agree on.          *)
NoDanglingFrame ==
  \A c \in Coro : phase[c] \in {"freeing", "freed"} =>
    /\ owner[c] = None
    /\ lock[c] = None
    /\ \A a \in Actor : awaiting[a] # c
    /\ \A d \in Coro : resume[d] # c

(* A suspended awaiter is never forgotten: its handle is in the promise it *)
(* waits for, and that promise has no result yet or is about to go through *)
(* final_suspend, which takes the handle.                                  *)
NoLostWakeup ==
  \A a \in Actor : phase[a] = "suspended" =>
    /\ resume[awaiting[a]] = a
    /\ value[awaiting[a]] = None \/ phase[awaiting[a]] = "returning"

(* The lock, the flag and the condition variable that wait() keeps on its  *)
(* stack outlive every use by the lambda that signals them.                *)
WaitFrameOutlivesLambda ==
  phase[Main] # "running" => thread \in {"starting", "blocking", "asleep"}

(* The result a holder receives is the one the coroutine completed with,   *)
(* once and never early: the promise implements the one-shot of OneShot.   *)
Shot == INSTANCE OneShot WITH outcome <- value
ImplementsOneShot == Shot!Spec

--------------------------------------------------------------------------------
(***************************************************************************)
(* The inductive invariant behind the safety properties.                   *)
(***************************************************************************)

(* Who holds a promise's mutex between two critical sections: the          *)
(* coroutine itself from its result to final_suspend, or an awaiter from   *)
(* await_ready to await_suspend.                                           *)
LockInv ==
  /\ \A c \in Coro : lock[c] # None =>
       \/ lock[c] = c /\ phase[c] = "returning"
       \/ phase[lock[c]] = "suspending" /\ awaiting[lock[c]] = c
  /\ \A c \in Coro : phase[c] = "returning" => lock[c] = c
  /\ \A a \in Actor : phase[a] = "suspending" => lock[awaiting[a]] = a

(* A future and the frame it refers to: whoever awaits a coroutine owns    *)
(* its future, and the frame lives as long as the future does.             *)
OwnerInv ==
  /\ \A a \in Actor : awaiting[a] # None =>
       owner[awaiting[a]] = a /\ got[awaiting[a]] = None
  /\ \A c \in Coro :
       /\ owner[c] # None => /\ phase[c] \notin {"unborn", "freeing", "freed"}
                             /\ owner[c] # c
       /\ phase[c] \in {"unborn", "final"} => future_exists[c]
       /\ phase[c] # "unborn" => (future_exists[c] <=> owner[c] # None)
       /\ phase[c] = "final" => destroy_resume[c]
       /\ destroy_resume[c] => phase[c] \in {"final", "freeing", "freed"}

(* A promise has a result from return_value on.                            *)
ValueInv ==
  /\ \A c \in Coro :
       value[c] # None <=> phase[c] \in {"returning", "final", "freeing", "freed"}
  /\ \A a \in Actor : phase[a] = "resuming" => value[awaiting[a]] # None

(* A promise's handle is that of the actor suspended on it.                *)
ResumeInv ==
  /\ \A c \in Coro : resume[c] # None =>
       phase[resume[c]] = "suspended" /\ awaiting[resume[c]] = c
  /\ \A a \in Actor : phase[a] = "suspended" => resume[awaiting[a]] = a
  /\ \A c \in Coro :
       phase[c] \in {"final", "freeing", "freed"} => resume[c] = None

(* wait() and its lambda.                                                  *)
WaitInv ==
  /\ phase[Main] # "running" => thread \in {"starting", "blocking", "asleep"}
  /\ phase[Main] = "notifying" <=> x = Main
  /\ completed => phase[Main] \in {"running", "notifying"}
  /\ thread = "starting" => ~completed /\ phase[Main] \in {"running", "suspending"}
  /\ phase[Main] = "notifying" => completed
  /\ completed /\ thread \in InWait => value[awaiting[Main]] # None
  /\ thread = "returned" => value[awaiting[Main]] # None

Inv == TypeOK /\ LockInv /\ OwnerInv /\ ValueInv /\ ResumeInv /\ WaitInv

--------------------------------------------------------------------------------
(* Every coroutine that suspends on a future, and the lambda of wait(),    *)
(* resumes, and a thread that enters wait() leaves it.                     *)
NobodyWaitsForEver ==
  /\ \A a \in Actor : phase[a] = "suspended" ~> phase[a] # "suspended"
  /\ thread \in InWait ~> thread = "free"

(* The frame of a coroutine whose future was dropped is destroyed in the   *)
(* end, whether the future went before or after the coroutine finished.    *)
FramesReclaimed ==
  \A c \in Coro : (phase[c] # "unborn" /\ owner[c] = None) ~> phase[c] = "freed"
================================================================================
