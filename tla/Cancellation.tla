----------------------------- MODULE Cancellation -----------------------------
(***************************************************************************)
(* Cancellation sources, tokens and subscriptions (cancel.h).  A source's  *)
(* cancel() holds the lock of its body while it cancels its tokens one by  *)
(* one and then its connected sources, each of which does the same below   *)
(* it.  Tokens are built and destroyed on the stacks of coroutines,        *)
(* subscriptions inside them, and callbacks run on the thread pool.        *)
(*                                                                         *)
(* A coroutine has one token and, in it, one subscription: a               *)
(* cancellation_subscription of its own or the one inside wait_cancelled.  *)
(***************************************************************************)
EXTENDS Integers, Sequences

CONSTANTS
  Source,   \* bodies of cancellation sources
  Token,    \* tokens, each with the coroutine on whose stack it is
  None      \* no source

ASSUME CancellationAssumption ==
  None \notin Source /\ Source \cap Token = {}

VARIABLES
  status,         \* status[s]: unborn, live, cancelling (inside cancel(), with
                  \* its lock held) or cancelled
  tokens,         \* cancellation_source_body::tokens
  related,        \* cancellation_source_body::related_sources
  dropped,        \* no cancellation_source refers to the body any more
  work,           \* what the first loop of cancel() still has to visit
  rest,           \* and the second, in the order of the list
  source,         \* source[t]: the source of the token's body
  coro,           \* cancellation_token::coro is set
  cancelled,      \* cancellation_token::cancelled
  promise,        \* promise_base0::cancelled of t's coroutine
  pc,             \* where t's coroutine stands
  waiting,        \* its subscription is the one in wait_cancelled
  sub,            \* the subscription: none, added, removed, destroyed
  callback,       \* run(): idle, posted, running, ran (f returned), done
  completed       \* cancellation_subscription::completed

sourceVars == <<status, tokens, related, dropped, work, rest>>
tokenVars  == <<source, coro, cancelled, promise>>
subVars    == <<sub, callback, completed>>
vars == <<sourceVars, tokenVars, pc, waiting, subVars>>

Init ==
  /\ status \in {[s \in Source |-> IF s = r THEN "live" ELSE "unborn"] : r \in Source}
  /\ tokens = [s \in Source |-> {}]
  /\ related = [s \in Source |-> <<>>]
  /\ dropped = [s \in Source |-> FALSE]
  /\ work = [s \in Source |-> {}]
  /\ rest = [s \in Source |-> <<>>]
  /\ source = [t \in Token |-> None]
  /\ coro = [t \in Token |-> FALSE]
  /\ cancelled = [t \in Token |-> FALSE]
  /\ promise = [t \in Token |-> FALSE]
  /\ pc = [t \in Token |-> "start"]
  /\ waiting = [t \in Token |-> FALSE]
  /\ sub = [t \in Token |-> "none"]
  /\ callback = [t \in Token |-> "idle"]
  /\ completed = [t \in Token |-> TRUE]

(* A lock of a body is held for long only by cancel(); every other use of  *)
(* it is one action.                                                       *)
Unlocked(s) == status[s] # "cancelling"

(* The token's body is a shared_ptr, the related sources are weak_ptrs.    *)
Expired(s) ==
  dropped[s] /\ \A t \in Token : source[t] = s => pc[t] \in {"gone", "thrown"}

Goto(t, label) == pc' = [pc EXCEPT ![t] = label]

--------------------------------------------------------------------------------
(***************************************************************************)
(* Sources.                                                                *)
(***************************************************************************)

(* Mutant: a source that exists is connected instead of a fresh one.       *)
connect_source(p, c) ==
  /\ status[p] \in {"live", "cancelled"} /\ ~dropped[p]
  /\ status[c] \in {"unborn", "live"}
  /\ status' = [status EXCEPT ![c] = "live"]
  /\ related' = [related EXCEPT ![p] = Append(@, c)]
  /\ UNCHANGED <<tokens, dropped, work, rest, tokenVars, pc, waiting, subVars>>

create_connected_source(p, c) ==
  /\ status[p] \in {"live", "cancelled"} /\ ~dropped[p]
  /\ status[c] = "unborn"
  /\ status' = [status EXCEPT ![c] = "live"]
  /\ related' = [related EXCEPT ![p] = Append(@, c)]
  /\ UNCHANGED <<tokens, dropped, work, rest, tokenVars, pc, waiting, subVars>>

(* The last handle to a source goes away.                                  *)
Drop(s) ==
  /\ status[s] \in {"live", "cancelled"} /\ ~dropped[s]
  /\ dropped' = [dropped EXCEPT ![s] = TRUE]
  /\ UNCHANGED <<status, tokens, related, work, rest, tokenVars, pc, waiting,
                 subVars>>

(* A thread enters cancel() and takes the lock.                            *)
Enter(s) ==
  /\ status' = [status EXCEPT ![s] = "cancelling"]
  /\ work' = [work EXCEPT ![s] = tokens[s]]
  /\ rest' = [rest EXCEPT ![s] = related[s]]

(* cancel() on a source that is cancelled, or is being cancelled by        *)
(* another thread, waits for the lock and does nothing.                    *)
cancel(s) ==
  /\ status[s] = "live" /\ ~dropped[s]
  /\ Enter(s)
  /\ UNCHANGED <<tokens, related, dropped, tokenVars, pc, waiting, subVars>>

(* Mutant: the subscriber's run() does not take the callback for pending.  *)
token_cancel_early(t) ==
  /\ cancelled' = [cancelled EXCEPT ![t] = TRUE]
  /\ promise' = [promise EXCEPT ![t] = @ \/ coro[t]]
  /\ callback' = [callback EXCEPT ![t] = IF sub[t] = "added" THEN "posted" ELSE @]
  /\ UNCHANGED completed

(* cancellation_token::cancel, under the token's lock: the coroutine's     *)
(* promise is cancelled and the callbacks are sent to the thread pool.     *)
token_cancel(t) ==
  /\ cancelled' = [cancelled EXCEPT ![t] = TRUE]
  /\ promise' = [promise EXCEPT ![t] = @ \/ coro[t]]
  /\ callback' = [callback EXCEPT ![t] = IF sub[t] = "added" THEN "posted" ELSE @]
  /\ completed' = [completed EXCEPT ![t] = @ /\ sub[t] # "added"]

(* One round of the loop over the tokens ...                               *)
cancel_token(s) ==
  /\ status[s] = "cancelling"
  /\ \E t \in work[s] :
       token_cancel(t) /\ work' = [work EXCEPT ![s] = @ \ {t}]
  /\ UNCHANGED <<status, tokens, related, dropped, rest, source, coro, pc, waiting,
                 sub>>

(* Mutant: a connected source is skipped while another thread cancels it.  *)
cancel_related_busy(s) ==
  /\ status[s] = "cancelling" /\ work[s] = {} /\ rest[s] # <<>>
  /\ LET c == Head(rest[s]) IN
       \/ status[c] = "live" /\ ~Expired(c) /\ Enter(c)
       \/ /\ status[c] # "live" \/ Expired(c)
          /\ rest' = [rest EXCEPT ![s] = Tail(@)]
          /\ UNCHANGED <<status, work>>
  /\ UNCHANGED <<tokens, related, dropped, tokenVars, pc, waiting, subVars>>

(* ... and over the connected sources: the nested cancel() is entered, and *)
(* the loop goes on when it is over.                                       *)
cancel_related(s) ==
  /\ status[s] = "cancelling" /\ work[s] = {} /\ rest[s] # <<>>
  /\ LET c == Head(rest[s]) IN
       \/ status[c] = "live" /\ ~Expired(c) /\ Enter(c)
       \/ /\ status[c] = "cancelled" \/ Expired(c)
          /\ rest' = [rest EXCEPT ![s] = Tail(@)]
          /\ UNCHANGED <<status, work>>
  /\ UNCHANGED <<tokens, related, dropped, tokenVars, pc, waiting, subVars>>

cancel_return(s) ==
  /\ status[s] = "cancelling"
  /\ work[s] = {} /\ rest[s] = <<>>
  /\ status' = [status EXCEPT ![s] = "cancelled"]
  /\ related' = [related EXCEPT ![s] = <<>>]
  /\ UNCHANGED <<tokens, dropped, work, rest, tokenVars, pc, waiting, subVars>>

--------------------------------------------------------------------------------
(***************************************************************************)
(* Tokens.                                                                 *)
(***************************************************************************)

(* The constructor reads the source's state; c: the source was awaited     *)
(* (cancellation_token_transport), so that the token knows its coroutine.  *)
token(t, s, c) ==
  /\ pc[t] = "start"
  /\ status[s] \in {"live", "cancelled"} /\ ~dropped[s]
  /\ source' = [source EXCEPT ![t] = s]
  /\ coro' = [coro EXCEPT ![t] = c]
  /\ Goto(t, IF status[s] = "cancelled" THEN "thrown" ELSE "checked")
  /\ UNCHANGED <<sourceVars, cancelled, promise, waiting, subVars>>

(* It then adds the token to the list, under the lock once more.           *)
add_token(t) ==
  /\ pc[t] = "checked"
  /\ Unlocked(source[t])
  /\ tokens' = [tokens EXCEPT ![source[t]] = @ \cup {t}]
  /\ Goto(t, "associated")
  /\ UNCHANGED <<status, related, dropped, work, rest, tokenVars, waiting, subVars>>

(* t's coroutine executes its body, or is on its way out of it, and is not *)
(* in the destructor of a subscription.                                    *)
InBody(t)   == pc[t] = "associated" /\ sub[t] # "removed"
Unwinds(t)  == pc[t] \in {"associated", "unwinding"} /\ sub[t] # "removed"

(* await_transform throws in a cancelled coroutine.  (In one that is not   *)
(* cancelled it changes nothing.)                                          *)
await_transform(t) ==
  /\ InBody(t)
  /\ promise[t]
  /\ Goto(t, "unwinding")
  /\ UNCHANGED <<sourceVars, tokenVars, waiting, subVars>>

(* Mutant: the destructor does not wait for a cancel() in progress.        *)
destroy_token_unlocked(t) ==
  /\ Unwinds(t)
  /\ sub[t] \in {"none", "destroyed"}
  /\ tokens' = [tokens EXCEPT ![source[t]] = @ \ {t}]
  /\ Goto(t, "gone")
  /\ UNCHANGED <<status, related, dropped, work, rest, tokenVars, waiting, subVars>>

destroy_token(t) ==
  /\ Unwinds(t)
  /\ sub[t] \in {"none", "destroyed"}
  /\ Unlocked(source[t])
  /\ tokens' = [tokens EXCEPT ![source[t]] = @ \ {t}]
  /\ Goto(t, "gone")
  /\ UNCHANGED <<status, related, dropped, work, rest, tokenVars, waiting, subVars>>

--------------------------------------------------------------------------------
(***************************************************************************)
(* Subscriptions.                                                          *)
(***************************************************************************)

(* The constructor of cancellation_subscription: check_cancelled ...       *)
subscription(t) ==
  /\ InBody(t) /\ sub[t] = "none"
  /\ Goto(t, IF cancelled[t] THEN "unwinding" ELSE "subscribing")
  /\ UNCHANGED <<sourceVars, tokenVars, waiting, subVars>>

(* ... and add(), under the token's lock.  In wait_cancelled() the          *)
(* subscription is there from now on, but not yet for its optional.        *)
add(t) ==
  /\ pc[t] = "subscribing"
  /\ sub' = [sub EXCEPT ![t] = "added"]
  /\ Goto(t, IF waiting[t] THEN "emplacing" ELSE "associated")
  /\ UNCHANGED <<sourceVars, tokenVars, waiting, callback, completed>>

(* co_await token.wait_cancelled(): await_transform lets it pass and       *)
(* await_ready says no.                                                    *)
wait_cancelled(t) ==
  /\ InBody(t) /\ sub[t] = "none"
  /\ ~promise[t] /\ ~cancelled[t]
  /\ Goto(t, "suspending")
  /\ UNCHANGED <<sourceVars, tokenVars, waiting, subVars>>

(* await_suspend constructs a subscription; it is noexcept, so that an     *)
(* exception from the constructor ends the program.                        *)
wait_cancelled_suspend(t) ==
  /\ pc[t] = "suspending"
  /\ waiting' = [waiting EXCEPT ![t] = TRUE]
  /\ Goto(t, IF cancelled[t] THEN "terminated" ELSE "subscribing")
  /\ UNCHANGED <<sourceVars, tokenVars, subVars>>

(* emplace() notes that there is a subscription, and await_suspend         *)
(* returns: in time also when the coroutine has been resumed, but has not  *)
(* left co_await ...                                                       *)
emplaced(t) ==
  /\ pc[t] \in {"emplacing", "overtaken"}
  /\ Goto(t, IF pc[t] = "emplacing" THEN "suspended" ELSE "associated")
  /\ UNCHANGED <<sourceVars, tokenVars, waiting, subVars>>

(* ... but if it has, the optional was destroyed as an empty one, its      *)
(* subscription is still in the token's list, and emplace() writes to what *)
(* is gone: the behaviour is undefined.                                    *)
overtake(t) ==
  /\ pc[t] = "overtaken"
  /\ Goto(t, "undefined")
  /\ UNCHANGED <<sourceVars, tokenVars, waiting, subVars>>

(* The thread pool picks run() up after its resume_background.             *)
run(t) ==
  /\ callback[t] = "posted"
  /\ callback' = [callback EXCEPT ![t] = "running"]
  /\ UNCHANGED <<sourceVars, tokenVars, pc, waiting, sub, completed>>

(* f returns.  The one of wait_cancelled has resumed the coroutine on      *)
(* another thread, whether its await_suspend has returned or not.          *)
run_f(t) ==
  /\ callback[t] = "running"
  /\ callback' = [callback EXCEPT ![t] = "ran"]
  /\ pc' = IF waiting[t]
           THEN [pc EXCEPT ![t] = IF @ = "emplacing" THEN "overtaken" ELSE "associated"]
           ELSE pc
  /\ UNCHANGED <<sourceVars, tokenVars, waiting, sub, completed>>

(* Mutant: the end of the callback is not announced.                       *)
run_complete_silent(t) ==
  /\ callback[t] = "ran"
  /\ callback' = [callback EXCEPT ![t] = "done"]
  /\ UNCHANGED <<sourceVars, tokenVars, pc, waiting, sub, completed>>

run_complete(t) ==
  /\ callback[t] = "ran"
  /\ callback' = [callback EXCEPT ![t] = "done"]
  /\ completed' = [completed EXCEPT ![t] = TRUE]
  /\ UNCHANGED <<sourceVars, tokenVars, pc, waiting, sub>>

(* The destructor of a subscription: remove(), under the token's lock ...  *)
remove(t) ==
  /\ Unwinds(t) /\ sub[t] = "added"
  /\ sub' = [sub EXCEPT ![t] = "removed"]
  /\ UNCHANGED <<sourceVars, tokenVars, pc, waiting, callback, completed>>

(* ... and wait_while, under its own.                                      *)
destroy_subscription(t) ==
  /\ sub[t] = "removed"
  /\ completed[t]
  /\ sub' = [sub EXCEPT ![t] = "destroyed"]
  /\ UNCHANGED <<sourceVars, tokenVars, pc, waiting, callback, completed>>

--------------------------------------------------------------------------------
Next ==
  \/ \E p, c \in Source : create_connected_source(p, c)
  \/ \E s \in Source : \/ Drop(s) \/ cancel(s) \/ cancel_token(s)
                       \/ cancel_related(s) \/ cancel_return(s)
  \/ \E t \in Token, s \in Source, c \in BOOLEAN : token(t, s, c)
  \/ \E t \in Token :
       \/ add_token(t) \/ await_transform(t) \/ destroy_token(t)
       \/ subscription(t) \/ add(t)
       \/ wait_cancelled(t) \/ wait_cancelled_suspend(t) \/ emplaced(t) \/ overtake(t)
       \/ run(t) \/ run_f(t) \/ run_complete(t)
       \/ remove(t) \/ destroy_subscription(t)

Spec == Init /\ [][Next]_vars

(* A thread inside cancel(), a constructor or a destructor goes on, the    *)
(* thread pool runs callbacks, and callbacks return.  Nobody has to cancel *)
(* and no coroutine has to do anything in its body.                        *)
Fairness ==
  /\ \A s \in Source : WF_vars(cancel_token(s) \/ cancel_related(s) \/ cancel_return(s))
  /\ \A t \in Token :
       /\ WF_vars(add_token(t)) /\ WF_vars(add(t))
       /\ WF_vars(wait_cancelled_suspend(t)) /\ WF_vars(emplaced(t))
       /\ WF_vars(run(t)) /\ WF_vars(run_f(t)) /\ WF_vars(run_complete(t))
       /\ WF_vars(destroy_subscription(t))

FairSpec == Spec /\ Fairness

--------------------------------------------------------------------------------
(***************************************************************************)
(* Properties.                                                             *)
(***************************************************************************)

(* The variables have their types, and a coroutine is cancelled only       *)
(* through a token that is.                                                *)
TypeOK ==
  /\ status \in [Source -> {"unborn", "live", "cancelling", "cancelled"}]
  /\ tokens \in [Source -> SUBSET Token]
  /\ related \in [Source -> Seq(Source)]
  /\ dropped \in [Source -> BOOLEAN]
  /\ work \in [Source -> SUBSET Token]
  /\ rest \in [Source -> Seq(Source)]
  /\ source \in [Token -> Source \cup {None}]
  /\ coro \in [Token -> BOOLEAN]
  /\ cancelled \in [Token -> BOOLEAN]
  /\ promise \in [Token -> BOOLEAN]
  /\ pc \in [Token -> {"start", "thrown", "checked", "associated", "subscribing",
                       "suspending", "emplacing", "overtaken", "suspended", "unwinding",
                       "terminated", "undefined", "gone"}]
  /\ waiting \in [Token -> BOOLEAN]
  /\ sub \in [Token -> {"none", "added", "removed", "destroyed"}]
  /\ callback \in [Token -> {"idle", "posted", "running", "ran", "done"}]
  /\ completed \in [Token -> BOOLEAN]
  /\ \A t \in Token : promise[t] => cancelled[t] /\ coro[t]

(* A token that exists is in its body's list and one that does not exist   *)
(* is in none, so the loop of cancel() only ever reaches tokens that are   *)
(* there, whatever the coroutines do while it runs.                        *)
Alive(t) == pc[t] \notin {"start", "thrown", "checked", "gone"}

TokensAlive ==
  \A s \in Source :
    /\ tokens[s] = {t \in Token : Alive(t) /\ source[t] = s}
    /\ work[s] \subseteq tokens[s]

(* When cancel() returns, every token in the list, the coroutine of each   *)
(* and every connected source have been told, those included that another  *)
(* thread was in the middle of cancelling.                                 *)
CancelReaches ==
  [][\A s \in Source : status[s] = "cancelling" /\ status'[s] = "cancelled" =>
       /\ \A t \in tokens[s] : cancelled[t] /\ (coro[t] => promise[t])
       /\ \A i \in DOMAIN related[s] :
            LET c == related[s][i] IN status[c] = "cancelled" \/ Expired(c)]_vars

(* The nested calls of cancel() hold the locks of all the bodies on their  *)
(* way down: among any set of sources being cancelled, whichever threads   *)
(* do it, one has no nested cancel() in that set to wait for.              *)
WaitsFor(s, r) ==
  status[s] = "cancelling" /\ work[s] = {} /\ rest[s] # <<>> /\ Head(rest[s]) = r

NoCircularWait ==
  \A S \in SUBSET {s \in Source : status[s] = "cancelling"} :
    S # {} => \E s \in S : \A r \in S : ~WaitsFor(s, r)

(* The destructor of a subscription "will block until the callback exits": *)
(* nothing of the callback runs once the subscription is destroyed.        *)
NoCallbackAfterDestructor ==
  \A t \in Token : sub[t] = "destroyed" => callback[t] \in {"idle", "done"}

(* cancel() and the destructors of subscriptions return, and a coroutine   *)
(* whose wait_cancelled was cancelled goes on, for better or worse: no     *)
(* lock, no callback and no nested cancel() waits for another in a circle. *)
NobodyWaitsForEver ==
  /\ \A s \in Source : status[s] = "cancelling" ~> status[s] = "cancelled"
  /\ \A t \in Token : sub[t] = "removed" ~> sub[t] = "destroyed"
  /\ \A t \in Token :
       pc[t] \in {"emplacing", "suspended"} /\ callback[t] # "idle"
         ~> pc[t] \in {"associated", "undefined"}

(* Once a token and its coroutine are associated with a source, they are   *)
(* cancelled if the source has been.                                       *)
AssociatedIsCancelled ==
  \A t \in Token :
    Alive(t) /\ status[source[t]] = "cancelled" => cancelled[t]

--------------------------------------------------------------------------------
(***************************************************************************)
(* The inductive invariant behind the safety properties.                   *)
(***************************************************************************)

(* A token, its coroutine and its subscription.  A token is cancelled in   *)
(* the loop of its source's cancel() only, which visits it once.           *)
TokenInv ==
  \A t \in Token :
    /\ source[t] = None <=> pc[t] = "start"
    /\ sub[t] # "none" => pc[t] \notin {"start", "thrown", "checked", "subscribing",
                                       "suspending", "terminated"}
    /\ cancelled[t] => /\ pc[t] \notin {"start", "thrown", "checked"}
                       /\ status[source[t]] \in {"cancelling", "cancelled"}
                       /\ t \notin work[source[t]]

(* completed tells whether the callback is over, and the callback of       *)
(* wait_cancelled() finds the coroutine suspended.                         *)
CallbackInv ==
  \A t \in Token :
    /\ callback[t] # "idle" => cancelled[t] /\ sub[t] # "none"
    /\ completed[t] <=> callback[t] \in {"idle", "done"}
    /\ sub[t] = "destroyed" => completed[t]
    /\ waiting[t] => \/ pc[t] \in {"subscribing", "terminated"}
                     \/ pc[t] \in {"emplacing", "suspended"} /\ sub[t] = "added"
                     \/ callback[t] \in {"ran", "done"}

(* The loops of cancel(): what they have left behind has been told, and    *)
(* what is before them is a rest of the list.                              *)
Told == {c \in Source : status[c] = "cancelled" \/ Expired(c)}

TokenLoop ==
  \A s \in Source :
    /\ status[s] # "cancelling" => work[s] = {} /\ rest[s] = <<>>
    /\ status[s] = "cancelling" =>
         \A t \in tokens[s] \ work[s] : cancelled[t] /\ (coro[t] => promise[t])

Visited(s) ==
  /\ Len(rest[s]) <= Len(related[s])
  /\ \A j \in 1 .. Len(rest[s]) :
       rest[s][j] = related[s][Len(related[s]) - Len(rest[s]) + j]
  /\ \A i \in 1 .. Len(related[s]) - Len(rest[s]) : related[s][i] \in Told

RelatedLoop == \A s \in Source : status[s] = "cancelling" => Visited(s)

(* Together: tokens, subscriptions, callbacks and the loops of cancel()    *)
(* agree with each other in every state.                                   *)
Inv == TypeOK /\ TokensAlive /\ TokenInv /\ CallbackInv /\ TokenLoop /\ RelatedLoop

(* And connected sources form a forest: a fresh source has none, and among *)
(* any sources there is one that is connected to none of them.             *)
Forest ==
  /\ \A s \in Source : status[s] = "unborn" => related[s] = <<>>
  /\ \A S \in SUBSET Source :
       S # {} => \E s \in S : \A i \in DOMAIN related[s] : related[s][i] \notin S
================================================================================
