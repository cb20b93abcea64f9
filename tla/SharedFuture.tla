----------------------------- MODULE SharedFuture -----------------------------
(***************************************************************************)
(* shared_future<T> (shared_future.h) over the future of a promise<T>      *)
(* (promise.h).  A future may be awaited once; the shared_future_impl has  *)
(* one coroutine of its own await it, start(), when the first awaiter      *)
(* suspends, and start() resumes everybody on the thread pool.             *)
(*                                                                         *)
(* start() knows the impl by a plain this.  What keeps the impl is the     *)
(* handles of its users: coroutines that co_await a handle of theirs and   *)
(* threads that block in wait() or get() on one, which they do in a        *)
(* coroutine of that function that awaits it (get_wait_future).            *)
(***************************************************************************)
CONSTANTS
  User,     \* the coroutines and threads that may hold a shared_future
  Result,   \* what the promise may be set to, exceptions included
  Setter,   \* the coroutine that the setter of the promise leaves on the
            \* thread pool and that holds the promise's mutex
  None      \* std::monostate, a null handle, a mutex nobody holds

ASSUME SharedFutureAssumption ==
  None \notin User \cup Result /\ Setter \notin User \cup {None}

VARIABLES
  value,          \* promise_common::value
  resume,         \* promise_common::resume: whose start() awaits the future
  promise_lock,   \* promise_common::lock: on whose behalf it is held
  setter,         \* return_value_async: unset, posted, done
  mode,           \* shared_future_impl::mode
  lock,           \* shared_future_impl::lock
  continuations,  \* shared_future_impl::continuations
  existing,       \* start()'s existing_continuations, not yet resumed
  start,          \* start[u]: the start() that u's await_suspend called
  pc              \* pc[u]: what user u does with its handle

promiseVars == <<value, resume, promise_lock, setter>>
implVars    == <<mode, lock, continuations, existing, start>>
vars        == <<promiseVars, implVars, pc>>

(* Mutant: the constructor starts to await the future.                     *)
InitEager ==
  /\ value = None /\ resume = None /\ promise_lock = None /\ setter = "unset"
  /\ mode = "started" /\ lock = None
  /\ continuations = {} /\ existing = {}
  /\ \E u \in User :
       /\ pc = [v \in User |-> IF v = u THEN "holds" ELSE "none"]
       /\ start = [v \in User |-> IF v = u THEN "posted" ELSE "none"]

(* One user has made a shared_future of promise.get_future().              *)
Init ==
  /\ value = None /\ resume = None /\ promise_lock = None /\ setter = "unset"
  /\ mode = "not_started" /\ lock = None
  /\ continuations = {} /\ existing = {}
  /\ start = [u \in User |-> "none"]
  /\ \E u \in User : pc = [v \in User |-> IF v = u THEN "holds" ELSE "none"]

Holds(u) == pc[u] # "none"

--------------------------------------------------------------------------------
(***************************************************************************)
(* The handle.                                                             *)
(***************************************************************************)

Copy(u, v) ==
  /\ pc[u] = "holds" /\ pc[v] = "none"
  /\ pc' = [pc EXCEPT ![v] = "holds"]
  /\ UNCHANGED <<promiseVars, implVars>>

Drop(u) ==
  /\ pc[u] = "holds"
  /\ pc' = [pc EXCEPT ![u] = "none"]
  /\ UNCHANGED <<promiseVars, implVars>>

--------------------------------------------------------------------------------
(***************************************************************************)
(* The promise, which is set once.                                         *)
(***************************************************************************)

(* set() and set_exception() take the promise's mutex, store the result    *)
(* and take the mutex along to the thread pool ...                         *)
set ==
  /\ setter = "unset"
  /\ promise_lock = None
  /\ \E r \in Result : value' = r
  /\ promise_lock' = Setter
  /\ setter' = "posted"
  /\ UNCHANGED <<resume, implVars, pc>>

(* ... where check_resume gives it back and resumes the awaiter.           *)
check_resume ==
  /\ setter = "posted"
  /\ setter' = "done"
  /\ promise_lock' = None
  /\ resume' = None
  /\ start' = [u \in User |-> IF u = resume THEN "resumed" ELSE start[u]]
  /\ UNCHANGED <<value, mode, lock, continuations, existing, pc>>

--------------------------------------------------------------------------------
(***************************************************************************)
(* Users.                                                                  *)
(***************************************************************************)

(* wait() and get() look at the future itself before they start to wait.   *)
wait(u) ==
  /\ pc[u] = "holds"
  /\ promise_lock = None
  /\ pc' = [pc EXCEPT ![u] = IF value # None THEN "resuming" ELSE "waiting"]
  /\ UNCHANGED <<promiseVars, implVars>>

(* co_await: await_ready keeps the lock unless the result is there ...     *)
await_ready(u) ==
  /\ pc[u] \in {"holds", "waiting"}
  /\ lock = None
  /\ \/ /\ mode = "ready"
        /\ pc' = [pc EXCEPT ![u] = "resuming"]
        /\ UNCHANGED lock
     \/ /\ mode # "ready"
        /\ pc' = [pc EXCEPT ![u] = "suspending"]
        /\ lock' = u
  /\ UNCHANGED <<promiseVars, mode, continuations, existing, start>>

(* Mutant: every awaiter calls start() until there is a result.            *)
await_suspend_restarts(u) ==
  /\ pc[u] = "suspending"
  /\ pc' = [pc EXCEPT ![u] = "suspended"]
  /\ lock' = None
  /\ continuations' = continuations \cup {u}
  /\ mode' = "started"
  /\ start' = [start EXCEPT ![u] = IF mode # "ready" THEN "posted" ELSE @]
  /\ UNCHANGED <<promiseVars, existing>>

(* Mutant: start() awaits the future without going to the thread pool      *)
(* first, and when it does not suspend it waits for its caller's lock.     *)
await_suspend_inline(u) ==
  /\ pc[u] = "suspending"
  /\ pc' = [pc EXCEPT ![u] = "suspended"]
  /\ lock' = IF mode = "not_started" /\ value # None THEN u ELSE None
  /\ continuations' = continuations \cup {u}
  /\ mode' = IF mode = "not_started" THEN "started" ELSE mode
  /\ start' = [start EXCEPT ![u] = IF mode = "not_started" THEN "running" ELSE @]
  /\ UNCHANGED <<promiseVars, existing>>

(* ... for await_suspend, which calls start() up to its resume_background. *)
await_suspend(u) ==
  /\ pc[u] = "suspending"
  /\ pc' = [pc EXCEPT ![u] = "suspended"]
  /\ lock' = None
  /\ continuations' = continuations \cup {u}
  /\ mode' = IF mode = "not_started" THEN "started" ELSE mode
  /\ start' = [start EXCEPT ![u] = IF mode = "not_started" THEN "posted" ELSE @]
  /\ UNCHANGED <<promiseVars, existing>>

(* The thread pool resumes u.                                              *)
Resume(u) ==
  /\ pc[u] = "posted"
  /\ pc' = [pc EXCEPT ![u] = "resuming"]
  /\ UNCHANGED <<promiseVars, implVars>>

(* await_resume is future::get(), which looks at the future again: it      *)
(* checks that there is a result and copies it.                            *)
await_resume(u) ==
  /\ pc[u] = "resuming"
  /\ promise_lock = None /\ value # None
  /\ pc' = [pc EXCEPT ![u] = "holds"]
  /\ UNCHANGED <<promiseVars, implVars>>

--------------------------------------------------------------------------------
(***************************************************************************)
(* start().                                                                *)
(***************************************************************************)

(* It is on the thread pool and awaits the future ...                      *)
start_begin(u) ==
  /\ start[u] = "posted"
  /\ start' = [start EXCEPT ![u] = "running"]
  /\ UNCHANGED <<promiseVars, mode, lock, continuations, existing, pc>>

future_await_ready(u) ==
  /\ start[u] = "running"
  /\ promise_lock = None
  /\ \/ /\ value # None
        /\ start' = [start EXCEPT ![u] = "resumed"]
        /\ UNCHANGED promise_lock
     \/ /\ value = None
        /\ start' = [start EXCEPT ![u] = "suspending"]
        /\ promise_lock' = u
  /\ UNCHANGED <<value, resume, setter, mode, lock, continuations, existing, pc>>

future_await_suspend(u) ==
  /\ start[u] = "suspending"
  /\ promise_lock' = None
  /\ resume' = u
  /\ start' = [start EXCEPT ![u] = "suspended"]
  /\ UNCHANGED <<value, setter, mode, lock, continuations, existing, pc>>

(* ... takes the continuations, and the result or the exception is left in *)
(* the future ...                                                          *)
start_ready(u) ==
  /\ start[u] = "resumed"
  /\ lock = None
  /\ mode' = "ready"
  /\ existing' = continuations
  /\ continuations' = {}
  /\ start' = [start EXCEPT ![u] = "ready"]
  /\ UNCHANGED <<promiseVars, lock, pc>>

(* ... and sends them to the thread pool, which runs them in any order.    *)
resume_on_background(u, v) ==
  /\ start[u] = "ready" /\ v \in existing
  /\ existing' = existing \ {v}
  /\ pc' = [pc EXCEPT ![v] = "posted"]
  /\ UNCHANGED <<promiseVars, mode, lock, continuations, start>>

start_return(u) ==
  /\ start[u] = "ready" /\ existing = {}
  /\ start' = [start EXCEPT ![u] = "done"]
  /\ UNCHANGED <<promiseVars, mode, lock, continuations, existing, pc>>

--------------------------------------------------------------------------------
Next ==
  \/ \E u, v \in User : Copy(u, v) \/ resume_on_background(u, v)
  \/ set \/ check_resume
  \/ \E u \in User :
       \/ Drop(u) \/ wait(u) \/ await_ready(u) \/ await_suspend(u)
       \/ Resume(u) \/ await_resume(u)
       \/ start_begin(u) \/ future_await_ready(u) \/ future_await_suspend(u)
       \/ start_ready(u) \/ start_return(u)

Spec == Init /\ [][Next]_vars

(* The thread pool runs what it was given and a function that has been     *)
(* entered goes on.  The locks need not be fair: who waits for one waits   *)
(* for finitely many others.  Nobody has to set the promise, or to await.  *)
Fairness ==
  /\ WF_vars(check_resume)
  /\ \A u \in User :
       /\ WF_vars(await_suspend(u) \/ Resume(u) \/ await_resume(u))
       /\ WF_vars(\/ start_begin(u) \/ future_await_ready(u) \/ future_await_suspend(u)
                  \/ start_ready(u) \/ \E v \in User : resume_on_background(u, v))

FairSpec == Spec /\ Fairness

--------------------------------------------------------------------------------
(***************************************************************************)
(* Properties.                                                             *)
(***************************************************************************)

(* The variables have their types, and the lock of the impl is held        *)
(* exactly between await_ready and await_suspend.                          *)
TypeOK ==
  /\ value \in Result \cup {None}
  /\ resume \in User \cup {None}
  /\ promise_lock \in User \cup {Setter, None}
  /\ setter \in {"unset", "posted", "done"}
  /\ mode \in {"not_started", "started", "ready"}
  /\ lock \in User \cup {None}
  /\ continuations \subseteq User
  /\ existing \subseteq User
  /\ start \in [User -> {"none", "posted", "running", "suspending", "suspended",
                         "resumed", "ready", "done"}]
  /\ pc \in [User -> {"none", "holds", "waiting", "suspending", "suspended", "posted",
                      "resuming"}]
  /\ \A u \in User : lock = u <=> pc[u] = "suspending"

(* "future<T> must only be awaited once": there is one start(), and nobody *)
(* who is resumed or polled the future finds it without a result and has   *)
(* to await it himself.                                                    *)
FutureAwaitedOnce ==
  /\ \A u, v \in User : start[u] # "none" /\ start[v] # "none" => u = v
  /\ \A u \in User : pc[u] = "resuming" => value # None

(* A suspended user is in the hands of exactly one: of the impl, whose     *)
(* start() has yet to take the continuations, or of start(), which has yet *)
(* to resume him.                                                          *)
Before(s) == s \in {"posted", "running", "suspending", "suspended", "resumed"}

NobodyStranded ==
  \A u \in User : pc[u] = "suspended" =>
    \/ u \in continuations \ existing /\ \E v \in User : Before(start[v])
    \/ u \in existing \ continuations /\ \E v \in User : start[v] = "ready"

(* While start() uses the impl somebody has a handle to it.                *)
ImplOutlivesStart ==
  (\E u \in User : Before(start[u])) => \E u \in User : Holds(u)

(* Once the promise is set, everybody who waits gets the result.           *)
UsersResume ==
  \A u \in User : pc[u] = "suspended" /\ value # None ~> pc[u] = "holds"

--------------------------------------------------------------------------------
(***************************************************************************)
(* The inductive invariant behind the safety properties.                   *)
(***************************************************************************)

(* The promise's mutex is the setter's while its coroutine is on its way,  *)
(* or start()'s between await_ready and await_suspend, before there is a   *)
(* result; the awaiter in the promise is a suspended start().              *)
PromiseInv ==
  /\ value = None <=> setter = "unset"
  /\ promise_lock = Setter <=> setter = "posted"
  /\ \A u \in User :
       /\ promise_lock = u => setter = "unset"
       /\ start[u] = "suspending" <=> promise_lock = u
       /\ start[u] = "suspended" <=> resume = u
       /\ start[u] = "suspended" => setter # "done"

(* There is one start(), from the first suspension on, and the result is   *)
(* there when it goes on.                                                  *)
StartInv ==
  /\ \A u, v \in User : start[u] # "none" /\ start[v] # "none" => u = v
  /\ \A u \in User :
       /\ start[u] # "none" => mode # "not_started"
       /\ start[u] \in {"resumed", "ready", "done"} => value # None
       /\ Before(start[u]) => mode = "started"
       /\ start[u] \in {"ready", "done"} => mode = "ready"
       /\ pc[u] \in {"resuming", "posted"} => value # None
       /\ pc[u] = "suspending" => mode # "ready"
  /\ mode = "started" => \E u \in User : Before(start[u])
  /\ mode = "ready" => value # None

(* The continuations are the suspended users, among them the one whose     *)
(* await_suspend called start().                                           *)
ListInv ==
  /\ continuations \cap existing = {}
  /\ \A u \in User : pc[u] = "suspended" <=> u \in continuations \cup existing
  /\ continuations # {} => mode = "started"
  /\ existing # {} => \E u \in User : start[u] = "ready"
  /\ \A u \in User : Before(start[u]) => u \in continuations

(* Together: the promise, start() and the users agree with each other in   *)
(* every state, and nobody who suspends is forgotten.                      *)
Inv == TypeOK /\ PromiseInv /\ StartInv /\ ListInv
================================================================================
