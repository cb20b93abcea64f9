--------------------------------- MODULE When ----------------------------------
(***************************************************************************)
(* when_all and when_any (when_all.h, when_any.h): a coroutine starts a    *)
(* helper coroutine for each of its awaitables and suspends.  Helpers end  *)
(* on any thread.  With when_all they share the awaitable in the           *)
(* coroutine's frame and count down; with when_any they share a block of   *)
(* their own and the first of them takes the coroutine's handle out of it. *)
(*                                                                         *)
(* A helper that ends at once runs on the stack of the coroutine that      *)
(* starts it: one of the interleavings below, where the loop that starts   *)
(* the helpers also goes on after the coroutine has been resumed.          *)
(***************************************************************************)
EXTENDS Integers, Sequences, FiniteSets

CONSTANTS
  MaxTasks,   \* bound: the longest range of awaitables
  None,       \* no exception
  Torn        \* an exception_ptr that two threads have written to at a time

ASSUME WhenAssumption ==
  MaxTasks \in Nat \ {0, 1} /\ None # Torn /\ {None, Torn} \cap (0 .. MaxTasks) = {}

Task == 1 .. MaxTasks

All == {"when_all", "when_all_range"}
Any == {"when_any", "when_any_range"}

VARIABLES
  kind,       \* which of the four functions was called
  n,          \* with how many awaitables
  pc,         \* the awaiting coroutine: start, suspended, resumed, returned
  next,       \* the loop of await_suspend: the helper to start next
  helper,     \* where a helper stands
  threw,      \* history: the awaitables that have thrown, in that order
  raced,      \* history: one has when the exception of another was not yet stored
  counter,    \* when_all: helpers to come
  resume,     \* the coroutine's handle is there
  exception,  \* whose exception is stored
  results,    \* whose results are
  index,      \* when_any: the index of the first
  refs,       \* when_any: who holds a shared_ptr to the block
  returned    \* what co_await has given the coroutine

history == <<threw, raced>>
block == <<counter, resume, exception, results, index>>
vars == <<kind, n, pc, next, helper, history, block, refs, returned>>

Nothing == [exception |-> None, results |-> {}, index |-> 0]

(* The two variadic functions take two awaitables or more, a range may be  *)
(* empty.  make_shared zeroes the block of when_any, its index included.   *)
Init ==
  /\ kind \in All \cup Any
  /\ n \in IF kind \in {"when_all", "when_any"} THEN 2 .. MaxTasks ELSE 0 .. MaxTasks
  /\ pc = "start" /\ next = 1
  /\ helper = [t \in Task |-> "none"]
  /\ threw = <<>> /\ raced = FALSE
  /\ counter = n
  /\ resume = FALSE /\ exception = None /\ results = {} /\ index = 0
  /\ refs = {} /\ returned = Nothing

Goto(t, label) == helper' = [helper EXCEPT ![t] = label]

--------------------------------------------------------------------------------
(***************************************************************************)
(* The coroutine.                                                          *)
(***************************************************************************)

(* An empty range is ready at once; there is none of the other kinds.      *)
await_ready ==
  /\ pc = "start" /\ n = 0
  /\ pc' = "resumed"
  /\ UNCHANGED <<kind, n, next, helper, history, block, refs, returned>>

(* Mutant: the helpers of when_any refer to the coroutine's pointer.       *)
await_suspend_unshared ==
  /\ pc = "start" /\ n # 0
  /\ pc' = "suspended"
  /\ resume' = TRUE
  /\ refs' = IF kind \in Any THEN {0} ELSE {}
  /\ UNCHANGED <<kind, n, next, helper, history, counter, exception, results, index,
                 returned>>

(* The handle is stored, and when_any makes a reference to its block for   *)
(* each helper beside the coroutine's own (0).  From here on the loop and  *)
(* its copies of the awaitables are on the stack.                          *)
await_suspend ==
  /\ pc = "start" /\ n # 0
  /\ pc' = "suspended"
  /\ resume' = TRUE
  /\ refs' = IF kind \in Any THEN 0 .. n ELSE {}
  /\ UNCHANGED <<kind, n, next, helper, history, counter, exception, results, index,
                 returned>>

(* A helper starts and awaits its awaitable.                               *)
start(t) ==
  /\ pc # "start" /\ next = t /\ t <= n
  /\ next' = t + 1
  /\ Goto(t, "awaiting")
  /\ UNCHANGED <<kind, n, pc, history, block, refs, returned>>

(* The coroutine takes what there is; the awaitable goes with the full     *)
(* expression, and with it what the helpers of when_all share.             *)
await_resume ==
  /\ pc = "resumed"
  /\ pc' = "returned"
  /\ returned' = [exception |-> exception, results |-> results, index |-> index]
  /\ refs' = refs \ {0}
  /\ UNCHANGED <<kind, n, next, helper, history, block>>

--------------------------------------------------------------------------------
(***************************************************************************)
(* A helper, when its awaitable has thrown ...                             *)
(***************************************************************************)

fail(t) ==
  /\ helper[t] = "awaiting"
  /\ threw' = Append(threw, t)
  /\ raced' = (raced \/ (kind \in All /\ threw # <<>> /\ exception = None))
  /\ Goto(t, IF kind \in All THEN "testing" ELSE "exchanging")
  /\ UNCHANGED <<kind, n, pc, next, block, refs, returned>>

(* Mutant: whatever exception is there is replaced.                        *)
finished_exception_last(t) ==
  /\ helper[t] = "testing"
  /\ Goto(t, "setting")
  /\ UNCHANGED <<kind, n, pc, next, history, block, refs, returned>>

(* finished_exception of when_all looks whether there is an exception ...  *)
finished_exception(t) ==
  /\ helper[t] = "testing"
  /\ Goto(t, IF exception = None THEN "setting" ELSE "counting")
  /\ UNCHANGED <<kind, n, pc, next, history, block, refs, returned>>

(* ... and stores its own.  If another helper has stored one since, the    *)
(* two threads may have done so at the same time: the exception_ptr is     *)
(* this one's, the other's, or made of words of both.                      *)
set_exception(t) ==
  /\ helper[t] = "setting"
  /\ exception' \in IF exception = None THEN {t} ELSE {t, exception, Torn}
  /\ Goto(t, "counting")
  /\ UNCHANGED <<kind, n, pc, next, history, counter, resume, results, index, refs,
                 returned>>

(***************************************************************************)
(* ... or given a value.                                                   *)
(***************************************************************************)

(* Mutant: when_any stores the result before it knows who is first.        *)
complete_eager(t) ==
  /\ helper[t] = "awaiting"
  /\ results' = IF kind \in All THEN results \cup {t} ELSE {t}
  /\ Goto(t, IF kind \in All THEN "counting" ELSE "exchanging")
  /\ UNCHANGED <<kind, n, pc, next, history, counter, resume, exception, index, refs,
                 returned>>

complete(t) ==
  /\ helper[t] = "awaiting"
  /\ results' = IF kind \in All THEN results \cup {t} ELSE results
  /\ Goto(t, IF kind \in All THEN "counting" ELSE "exchanging")
  /\ UNCHANGED <<kind, n, pc, next, history, counter, resume, exception, index, refs,
                 returned>>

(* Mutant: fetch_sub is taken to return the new value.                     *)
check_resume_previous(t) ==
  /\ helper[t] = "counting"
  /\ counter' = counter - 1
  /\ Goto(t, IF counter = 0 THEN "resuming" ELSE "returning")
  /\ UNCHANGED <<kind, n, pc, next, history, resume, exception, results, index, refs,
                 returned>>

(* Mutant: the coroutine is resumed when one helper is still to come.      *)
check_resume_early(t) ==
  /\ helper[t] = "counting"
  /\ counter' = counter - 1
  /\ Goto(t, IF counter \in {1, 2} THEN "resuming" ELSE "returning")
  /\ UNCHANGED <<kind, n, pc, next, history, resume, exception, results, index, refs,
                 returned>>

(* when_all: the last to count resumes the coroutine.                      *)
check_resume(t) ==
  /\ helper[t] = "counting"
  /\ counter' = counter - 1
  /\ Goto(t, IF counter = 1 THEN "resuming" ELSE "returning")
  /\ UNCHANGED <<kind, n, pc, next, history, resume, exception, results, index, refs,
                 returned>>

(* Mutant: the handle is read and not taken.                               *)
exchange_loaded(t) ==
  /\ helper[t] = "exchanging"
  /\ Goto(t, IF resume THEN "winning" ELSE "returning")
  /\ UNCHANGED <<kind, n, pc, next, history, block, refs, returned>>

(* when_any: the first to take the handle out of the block ...             *)
exchange(t) ==
  /\ helper[t] = "exchanging"
  /\ resume' = FALSE
  /\ Goto(t, IF resume THEN "winning" ELSE "returning")
  /\ UNCHANGED <<kind, n, pc, next, history, counter, exception, results, index, refs,
                 returned>>

Threw(t) == \E i \in DOMAIN threw : threw[i] = t
Came(t)  == helper[t] \notin {"none", "awaiting"}

(* ... stores what it has.                                                 *)
win(t) ==
  /\ helper[t] = "winning"
  /\ IF Threw(t)
     THEN exception' = t /\ UNCHANGED <<results, index>>
     ELSE results' = {t} /\ index' = t /\ UNCHANGED exception
  /\ Goto(t, "resuming")
  /\ UNCHANGED <<kind, n, pc, next, history, counter, resume, refs, returned>>

(* continuation(), resume(): the coroutine runs on the helper's stack, and *)
(* the helper ends when it next suspends.                                  *)
continuation(t) ==
  /\ helper[t] = "resuming"
  /\ pc' = "resumed"
  /\ Goto(t, "returning")
  /\ UNCHANGED <<kind, n, next, history, block, refs, returned>>

end(t) ==
  /\ helper[t] = "returning"
  /\ refs' = refs \ {t}
  /\ Goto(t, "ended")
  /\ UNCHANGED <<kind, n, pc, next, history, block, returned>>

--------------------------------------------------------------------------------
Steps(t) ==
  \/ finished_exception(t) \/ set_exception(t) \/ check_resume(t)
  \/ exchange(t) \/ win(t) \/ continuation(t) \/ end(t)

Next ==
  \/ await_ready \/ await_suspend \/ await_resume
  \/ \E t \in Task : start(t) \/ fail(t) \/ complete(t) \/ Steps(t)

Spec == Init /\ [][Next]_vars

(* Threads run.  An awaitable need not ever be ready.                      *)
Fairness ==
  /\ WF_vars(await_ready) /\ WF_vars(await_suspend) /\ WF_vars(await_resume)
  /\ \A t \in Task : WF_vars(start(t)) /\ WF_vars(Steps(t))

FairSpec == Spec /\ Fairness

--------------------------------------------------------------------------------
(***************************************************************************)
(* Properties.                                                             *)
(***************************************************************************)

(* The variables have their types: the counter does not wrap.              *)
TypeOK ==
  /\ kind \in All \cup Any /\ n \in 0 .. MaxTasks
  /\ pc \in {"start", "suspended", "resumed", "returned"}
  /\ next \in 1 .. n + 1
  /\ helper \in [Task -> {"none", "awaiting", "testing", "setting", "counting",
                         "exchanging", "winning", "resuming", "returning", "ended"}]
  /\ threw \in Seq(Task) /\ raced \in BOOLEAN
  /\ counter \in 0 .. n
  /\ resume \in BOOLEAN
  /\ exception \in Task \cup {None, Torn}
  /\ results \subseteq Task /\ index \in 0 .. n
  /\ refs \subseteq 0 .. n
  /\ returned \in [exception : Task \cup {None, Torn}, results : SUBSET Task,
                   index : 0 .. n]

(* Helpers on their way to the awaitable in the coroutine's frame, or to   *)
(* the block.                                                              *)
Refers(t) == helper[t] \notin {"none", "returning", "ended"}

(* Nobody uses what has been destroyed: the coroutine leaves co_await      *)
(* when_all, whose awaitable the helpers share, when none of them needs it *)
(* any more, also when they end while it still starts others; "when_any    *)
(* makes sure the control block does not get destroyed until all tasks     *)
(* complete".                                                              *)
BlockOutlivesHelpers ==
  \A t \in Task :
    Refers(t) => IF kind \in All THEN pc # "returned" ELSE refs # {}

(* Of the helpers that end at the same time one resumes the coroutine, and *)
(* once.                                                                   *)
ResumedOnce ==
  /\ \A t \in Task : helper[t] \in {"winning", "resuming"} =>
       /\ pc = "suspended"
       /\ \A u \in Task : helper[u] \in {"winning", "resuming"} => u = t
  /\ pc = "suspended" /\ kind \in Any /\ ~resume =>
       \E t \in Task : helper[t] \in {"winning", "resuming"}

(* What the coroutine gets: of when_all every result, or an exception if   *)
(* there was one; of when_any the result and the index of one awaitable,   *)
(* or its exception and nothing else, and a helper that comes later        *)
(* changes nothing of it.                                                  *)
Delivered ==
  pc = "returned" =>
    /\ kind \in All =>
         /\ returned.exception = None <=> threw = <<>>
         /\ returned.results = {t \in 1 .. n : ~Threw(t)}
    /\ kind \in Any /\ n # 0 =>
         \E t \in Task :
           returned = IF Threw(t) THEN [exception |-> t, results |-> {}, index |-> 0]
                      ELSE [exception |-> None, results |-> {t}, index |-> t]
    /\ returned = [exception |-> exception, results |-> results, index |-> index]


(* A call is one of Gather: an awaitable has ended when its helper goes    *)
(* on, and the answer is given by await_resume, once and never changed.    *)
(* It holds the first exception; where an awaitable of when_all has thrown *)
(* when the exception of another was not yet stored, which FirstIsRethrown *)
(* is about, the mapping takes any exception for the first, but not none.  *)
Answer ==
  IF pc = "returned" /\ raced /\ returned.exception # None
  THEN [returned EXCEPT !.exception = Head(threw)] ELSE returned

G == INSTANCE Gather WITH
  all     <- kind \in All,
  outcome <- [t \in Task |-> IF Threw(t) THEN "exception"
                             ELSE IF Came(t) THEN "value" ELSE "none"],
  thrown  <- threw,
  given   <- pc = "returned",
  answer  <- Answer
ImplementsGather == G!Spec

(* The coroutine goes on when all of its awaitables are ready, or one.     *)
Ready(t) == t \in 1 .. n => helper[t] \notin {"none", "awaiting"}

CoroutineResumes ==
  /\ (kind \in All /\ \A t \in Task : Ready(t)) ~> pc = "returned"
  /\ (kind \in Any /\ \E t \in 1 .. n : Ready(t)) ~> pc = "returned"

--------------------------------------------------------------------------------
(***************************************************************************)
(* The inductive invariant behind the safety properties.                   *)
(***************************************************************************)

(* Helpers are started in order, and run the code of their function.       *)
HelperInv ==
  /\ \A t \in Task : helper[t] = "none" <=> next <= t
  /\ pc = "start" => next = 1 /\ ~resume
  /\ \A t \in Task :
       /\ kind \in All => helper[t] \notin {"exchanging", "winning"}
       /\ kind \in Any => helper[t] \notin {"testing", "setting", "counting"}

(* when_all counts the helpers that have not counted down yet.             *)
Pending ==
  {t \in 1 .. n : helper[t] \in {"none", "awaiting", "testing", "setting", "counting"}}

Resumes(t) == helper[t] \in {"winning", "resuming"}

CountInv ==
  kind \in All =>
    /\ counter = Cardinality(Pending)
    /\ Pending # {} => pc \in {"start", "suspended"} /\ \A t \in Task : ~Resumes(t)

(* One helper resumes the coroutine; of when_any, the one that has taken   *)
(* the handle.                                                             *)
ResumeInv ==
  /\ \A t \in Task : Resumes(t) =>
       pc = "suspended" /\ \A u \in Task : Resumes(u) => u = t
  /\ kind \in Any =>
       /\ resume => pc = "suspended" /\ \A t \in Task : ~Resumes(t)
       /\ pc = "suspended" /\ ~resume => \E t \in Task : Resumes(t)

(* A helper of when_any keeps its reference until it ends.                 *)
RefsInv ==
  kind \in Any /\ pc # "start" =>
    \A t \in 1 .. n : helper[t] # "ended" => t \in refs

(* What there is to hand over.                                             *)
AllInv ==
  kind \in All =>
    /\ results = {t \in 1 .. n : Came(t) /\ ~Threw(t)}
    /\ exception # None \/ (\E t \in 1 .. n : helper[t] \in {"testing", "setting"})
         => threw # <<>>
    /\ threw # <<>> /\ exception = None =>
         \E t \in 1 .. n : helper[t] \in {"testing", "setting"}

IsOf(t) ==
  IF Threw(t) THEN exception = t /\ results = {} /\ index = 0
  ELSE exception = None /\ results = {t} /\ index = t

Undecided == pc = "start" \/ resume \/ n = 0 \/ \E t \in Task : helper[t] = "winning"

Decided ==
  (n # 0 /\ pc \in {"resumed", "returned"}) \/ \E t \in Task : helper[t] = "resuming"

AnyInv ==
  kind \in Any =>
    /\ Undecided => exception = None /\ results = {} /\ index = 0
    /\ Decided => \E t \in Task : Came(t) /\ IsOf(t)

ResultInv ==
  /\ \A t \in Task : Threw(t) => Came(t)
  /\ AllInv /\ AnyInv
  /\ pc = "returned" =>
       returned = [exception |-> exception, results |-> results, index |-> index]

Inv == TypeOK /\ HelperInv /\ CountInv /\ ResumeInv /\ RefsInv /\ ResultInv

(* Whose exception when_all has: that of the first that threw, if nobody   *)
(* threw before it was stored.                                             *)
ExceptionInv ==
  /\ raced => kind \in All /\ threw # <<>>
  /\ kind \in All =>
       /\ index = 0
       /\ \A t \in Task : helper[t] \in {"testing", "setting"} => Threw(t)
       /\ ~raced => /\ exception = None => Len(threw) <= 1
                    /\ exception # None => threw # <<>> /\ exception = Head(threw)
                    /\ \A t \in Task : helper[t] = "setting" => exception = None

(* Somebody is on his way to a suspended coroutine: the helper that is     *)
(* about to resume it; with when_all, one that has still to count down;    *)
(* with when_any, whichever helper comes first, as none has come yet.      *)
HelperComes ==
  pc = "suspended" =>
    \/ \E t \in Task : Resumes(t)
    \/ kind \in All /\ Pending # {}
    \/ kind \in Any /\ n # 0 /\ resume
         /\ \A t \in 1 .. n : helper[t] \in {"none", "awaiting", "exchanging"}
================================================================================
