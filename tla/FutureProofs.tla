----------------------------- MODULE FutureProofs -----------------------------
(***************************************************************************)
(* Proofs about Future, for any number of coroutines: the inductive        *)
(* invariant Inv, the safety properties that follow from it, and that the  *)
(* promise implements the one-shot of OneShot.                             *)
(***************************************************************************)
EXTENDS Future, TLAPS

(* Before any coroutine has started every part of the invariant holds.     *)
LEMMA InitInv == Init => Inv
<1> SUFFICES ASSUME Init PROVE Inv
  OBVIOUS
<1> USE FutureAssumption DEF Init, Actor, Result, CoroPhases, MainPhases, InWait
<1>1. TypeOK
  BY DEF TypeOK
<1>2. LockInv /\ OwnerInv
  BY DEF LockInv, OwnerInv
<1>3. ValueInv /\ ResumeInv
  BY DEF ValueInv, ResumeInv
<1>4. WaitInv
  BY DEF WaitInv
<1> QED
  BY <1>1, <1>2, <1>3, <1>4 DEF Inv

(* Every step of a coroutine, of a future's destructor and of wait()       *)
(* preserves the invariant.                                                *)
LEMMA NextInv == Inv /\ [Next]_vars => Inv'
<1> SUFFICES ASSUME Inv, [Next]_vars PROVE Inv'
  OBVIOUS
<1> USE FutureAssumption
    DEF Actor, Result, CoroPhases, MainPhases, InWait, promiseVars, waitVars
<1>0. TypeOK /\ LockInv /\ OwnerInv /\ ValueInv /\ ResumeInv /\ WaitInv
  BY DEF Inv
<1> USE <1>0
<1>1. ASSUME NEW o \in Actor, NEW c \in Coro, NEW moved \in SUBSET Coro,
             get_return_object(o, c, moved)
      PROVE  Inv'
  <2>1. TypeOK'
    BY <1>1 DEF get_return_object, Running, TypeOK
  <2>2. LockInv'
    BY <1>1 DEF get_return_object, Running, LockInv
  <2>3. OwnerInv'
    BY <1>1 DEF get_return_object, Running, TypeOK, OwnerInv
  <2>4. ValueInv'
    BY <1>1 DEF get_return_object, Running, ValueInv
  <2>5. ResumeInv'
    BY <1>1 DEF get_return_object, Running, ResumeInv
  <2>6. WaitInv'
    BY <1>1 DEF get_return_object, Running, WaitInv
  <2> QED
    BY <2>1, <2>2, <2>3, <2>4, <2>5, <2>6 DEF Inv
<1>2. ASSUME NEW p \in Coro, NEW c \in Coro, CoAwait(p, c)
      PROVE  Inv'
  <2>1. TypeOK'
    BY <1>2 DEF CoAwait, await_ready, Running, TypeOK
  <2>2. LockInv'
    BY <1>2 DEF CoAwait, await_ready, Running, TypeOK, LockInv, WaitInv
  <2>3. OwnerInv'
    BY <1>2 DEF CoAwait, await_ready, Running, TypeOK, OwnerInv
  <2>4. ValueInv'
    BY <1>2 DEF CoAwait, await_ready, Running, TypeOK, ValueInv
  <2>5. ResumeInv'
    BY <1>2 DEF CoAwait, await_ready, Running, TypeOK, ResumeInv
  <2>6. WaitInv'
    BY <1>2 DEF CoAwait, await_ready, Running, TypeOK, WaitInv
  <2> QED
    BY <2>1, <2>2, <2>3, <2>4, <2>5, <2>6 DEF Inv
<1>3. ASSUME NEW a \in Actor, await_suspend(a)
      PROVE  Inv'
  <2>1. TypeOK'
    BY <1>3 DEF await_suspend, TypeOK, WaitInv
  <2>2. LockInv'
    BY <1>3 DEF await_suspend, TypeOK, LockInv
  <2>3. OwnerInv'
    BY <1>3 DEF await_suspend, TypeOK, OwnerInv
  <2>4. ValueInv'
    BY <1>3 DEF await_suspend, TypeOK, ValueInv
  <2>5. ResumeInv'
    BY <1>3 DEF await_suspend, TypeOK, LockInv, OwnerInv, ValueInv, ResumeInv,
       WaitInv
  <2>6. WaitInv'
    BY <1>3 DEF await_suspend, TypeOK, WaitInv
  <2> QED
    BY <2>1, <2>2, <2>3, <2>4, <2>5, <2>6 DEF Inv
<1>4. ASSUME NEW p \in Coro, await_resume(p)
      PROVE  Inv'
  <2>1. TypeOK'
    BY <1>4 DEF await_resume, TypeOK
  <2>2. LockInv'
    BY <1>4 DEF await_resume, LockInv
  <2>3. OwnerInv'
    BY <1>4 DEF await_resume, TypeOK, OwnerInv
  <2>4. ValueInv'
    BY <1>4 DEF await_resume, TypeOK, ValueInv
  <2>5. ResumeInv'
    BY <1>4 DEF await_resume, ResumeInv
  <2>6. WaitInv'
    BY <1>4 DEF await_resume, WaitInv
  <2> QED
    BY <2>1, <2>2, <2>3, <2>4, <2>5, <2>6 DEF Inv
<1>5. ASSUME NEW c \in Coro, Complete(c)
      PROVE  Inv'
  <2>1. TypeOK'
    BY <1>5 DEF Complete, TypeOK
  <2>2. LockInv'
    BY <1>5 DEF Complete, TypeOK, LockInv
  <2>3. OwnerInv'
    BY <1>5 DEF Complete, OwnerInv
  <2>4. ValueInv'
    BY <1>5 DEF Complete, TypeOK, ValueInv
  <2>5. ResumeInv'
    BY <1>5 DEF Complete, ResumeInv
  <2>6. WaitInv'
    BY <1>5 DEF Complete, WaitInv
  <2> QED
    BY <2>1, <2>2, <2>3, <2>4, <2>5, <2>6 DEF Inv
<1>6. ASSUME NEW c \in Coro, final_suspend(c)
      PROVE  Inv'
  <2>1. TypeOK'
    <3>1. /\ c \in Actor /\ c # Main
          /\ phase \in [Actor -> CoroPhases \cup MainPhases]
      BY DEF TypeOK
    <3>2. PICK ph \in {"final", "freeing"} :
            phase' = Resumed([phase EXCEPT ![c] = ph], resume[c])
      BY <1>6 DEF final_suspend
    <3>3. resume[c] # None => /\ resume[c] \in Actor \ {c}
                              /\ phase[resume[c]] = "suspended"
      BY <1>6 DEF final_suspend, TypeOK, ResumeInv
    <3>4. phase' \in [Actor -> CoroPhases \cup MainPhases]
      BY <3>1, <3>2, <3>3 DEF Resumed
    <3>5. \A a \in Actor : phase'[a] = IF a = c THEN ph
                                     ELSE IF a = resume[c] THEN "resuming"
                                     ELSE phase[a]
      BY <3>1, <3>2, <3>3 DEF Resumed
    <3>6. /\ phase'[Main] \in MainPhases
          /\ \A d \in Coro : phase'[d] \in CoroPhases
      BY <3>1, <3>5, <3>3 DEF TypeOK
    <3>7. /\ lock' = [lock EXCEPT ![c] = None]
          /\ resume' = [resume EXCEPT ![c] = None]
          /\ \/ destroy_resume' = destroy_resume
             \/ destroy_resume' = [destroy_resume EXCEPT ![c] = TRUE]
          /\ phase[c] = "returning"
          /\ UNCHANGED <<value, future_exists, owner, awaiting, got, waitVars>>
      BY <1>6 DEF final_suspend
    <3>8. \A d \in Coro :
            (phase'[d] \in {"suspending", "suspended", "resuming"})
              <=> (phase[d] \in {"suspending", "suspended", "resuming"})
      BY <3>1, <3>5, <3>3, <3>7
    <3>9. destroy_resume' \in [Coro -> BOOLEAN]
      BY <3>1, <3>7 DEF TypeOK
    <3>10. /\ lock' \in [Coro -> Actor \cup {None}]
           /\ resume' \in [Coro -> Actor \cup {None}]
      BY <3>1, <3>7 DEF TypeOK
    <3> QED
      BY <3>4, <3>6, <3>7, <3>8, <3>9, <3>10 DEF TypeOK
  <2>2. LockInv'
    BY <1>6 DEF final_suspend, Resumed, TypeOK, LockInv, ResumeInv
  <2>3. OwnerInv'
    BY <1>6 DEF final_suspend, Resumed, TypeOK, OwnerInv, ResumeInv
  <2>4. ValueInv'
    BY <1>6 DEF final_suspend, Resumed, TypeOK, ValueInv, ResumeInv
  <2>5. ResumeInv'
    BY <1>6 DEF final_suspend, Resumed, TypeOK, ResumeInv
  <2>6. WaitInv'
    BY <1>6 DEF final_suspend, Resumed, TypeOK, ResumeInv, WaitInv
  <2> QED
    BY <2>1, <2>2, <2>3, <2>4, <2>5, <2>6 DEF Inv
<1>7. ASSUME NEW o \in Actor, NEW c \in Coro, release(o, c)
      PROVE  Inv'
  <2>1. TypeOK'
    BY <1>7 DEF release, Destructing, Running, TypeOK, OwnerInv
  <2>2. LockInv'
    BY <1>7 DEF release, Destructing, Running, TypeOK, LockInv, OwnerInv
  <2>3. OwnerInv'
    BY <1>7 DEF release, Destructing, Running, TypeOK, OwnerInv
  <2>4. ValueInv'
    BY <1>7 DEF release, Destructing, Running, TypeOK, OwnerInv, ValueInv
  <2>5. ResumeInv'
    BY <1>7 DEF release, Destructing, Running, TypeOK, OwnerInv, ResumeInv
  <2>6. WaitInv'
    BY <1>7 DEF release, Destructing, Running, WaitInv
  <2> QED
    BY <2>1, <2>2, <2>3, <2>4, <2>5, <2>6 DEF Inv
<1>8. ASSUME NEW c \in Coro, Freed(c)
      PROVE  Inv'
  <2>1. TypeOK'
    BY <1>8 DEF Freed, TypeOK
  <2>2. LockInv'
    BY <1>8 DEF Freed, LockInv
  <2>3. OwnerInv'
    BY <1>8 DEF Freed, OwnerInv
  <2>4. ValueInv'
    BY <1>8 DEF Freed, ValueInv
  <2>5. ResumeInv'
    BY <1>8 DEF Freed, ResumeInv
  <2>6. WaitInv'
    BY <1>8 DEF Freed, WaitInv
  <2> QED
    BY <2>1, <2>2, <2>3, <2>4, <2>5, <2>6 DEF Inv
<1>9. ASSUME NEW c \in Coro, wait(c)
      PROVE  Inv'
  <2>1. TypeOK'
    <3>1. phase[Main] = "running" /\ thread = "free"
      BY <1>9 DEF wait, Running
    <3>2. /\ thread' \in {"returned", "starting"}
          /\ awaiting' = [awaiting EXCEPT ![Main] = c]
          /\ completed' = FALSE
          /\ UNCHANGED <<phase, value, resume, lock, future_exists,
                         destroy_resume, owner, got, x>>
      BY <1>9 DEF wait
    <3>3. awaiting' \in [Actor -> Coro \cup {None}] /\ awaiting'[Main] # None
      BY <3>2 DEF TypeOK
    <3>4. \A d \in Coro : awaiting'[d] = awaiting[d]
      BY <3>2 DEF TypeOK
    <3>5. (awaiting'[Main] # None) <=> (thread' \in InWait)
      BY <3>2, <3>3
    <3>6. \A d \in Coro :
            (awaiting'[d] # None)
              <=> (phase'[d] \in {"suspending", "suspended", "resuming"})
      BY <3>2, <3>4 DEF TypeOK
    <3>7. completed' \in BOOLEAN
      BY <3>2
    <3>8. thread' \in InWait \cup {"free"}
      BY <3>2
    <3> QED
      BY <3>2, <3>3, <3>5, <3>6, <3>7, <3>8 DEF TypeOK
  <2>2. LockInv'
    BY <1>9 DEF wait, Running, LockInv
  <2>3. OwnerInv'
    BY <1>9 DEF wait, Running, OwnerInv
  <2>4. ValueInv'
    BY <1>9 DEF wait, Running, ValueInv
  <2>5. ResumeInv'
    BY <1>9 DEF wait, Running, ResumeInv
  <2>6. WaitInv'
    BY <1>9 DEF wait, Running, TypeOK, WaitInv
  <2> QED
    BY <2>1, <2>2, <2>3, <2>4, <2>5, <2>6 DEF Inv
<1>10. ASSUME special_await_ready
      PROVE  Inv'
  <2>1. TypeOK'
    BY <1>10 DEF special_await_ready, await_ready, TypeOK
  <2>2. LockInv'
    BY <1>10 DEF special_await_ready, await_ready, TypeOK, LockInv
  <2>3. OwnerInv'
    BY <1>10 DEF special_await_ready, await_ready, TypeOK, OwnerInv
  <2>4. ValueInv'
    BY <1>10 DEF special_await_ready, await_ready, TypeOK, ValueInv
  <2>5. ResumeInv'
    BY <1>10 DEF special_await_ready, await_ready, TypeOK, ResumeInv
  <2>6. WaitInv'
    BY <1>10 DEF special_await_ready, await_ready, TypeOK, WaitInv
  <2> QED
    BY <2>1, <2>2, <2>3, <2>4, <2>5, <2>6 DEF Inv
<1>11. ASSUME Notify
      PROVE  Inv'
  <2>1. TypeOK'
    BY <1>11 DEF Notify, TypeOK
  <2>2. LockInv'
    BY <1>11 DEF Notify, LockInv
  <2>3. OwnerInv'
    BY <1>11 DEF Notify, OwnerInv
  <2>4. ValueInv'
    BY <1>11 DEF Notify, ValueInv
  <2>5. ResumeInv'
    BY <1>11 DEF Notify, ResumeInv
  <2>6. WaitInv'
    BY <1>11 DEF Notify, TypeOK, ValueInv, WaitInv
  <2> QED
    BY <2>1, <2>2, <2>3, <2>4, <2>5, <2>6 DEF Inv
<1>12. ASSUME NotifyUnlock
      PROVE  Inv'
  <2>1. TypeOK'
    BY <1>12 DEF NotifyUnlock, TypeOK
  <2>2. LockInv'
    BY <1>12 DEF NotifyUnlock, LockInv
  <2>3. OwnerInv'
    BY <1>12 DEF NotifyUnlock, OwnerInv
  <2>4. ValueInv'
    BY <1>12 DEF NotifyUnlock, ValueInv
  <2>5. ResumeInv'
    BY <1>12 DEF NotifyUnlock, ResumeInv
  <2>6. WaitInv'
    BY <1>12 DEF NotifyUnlock, TypeOK, WaitInv
  <2> QED
    BY <2>1, <2>2, <2>3, <2>4, <2>5, <2>6 DEF Inv
<1>13. ASSUME wait_while
      PROVE  Inv'
  <2>1. TypeOK'
    BY <1>13 DEF wait_while, TypeOK
  <2>2. LockInv'
    BY <1>13 DEF wait_while, LockInv
  <2>3. OwnerInv'
    BY <1>13 DEF wait_while, OwnerInv
  <2>4. ValueInv'
    BY <1>13 DEF wait_while, ValueInv
  <2>5. ResumeInv'
    BY <1>13 DEF wait_while, ResumeInv
  <2>6. WaitInv'
    BY <1>13 DEF wait_while, WaitInv
  <2> QED
    BY <2>1, <2>2, <2>3, <2>4, <2>5, <2>6 DEF Inv
<1>14. ASSUME SpuriousWake
      PROVE  Inv'
  <2>1. TypeOK'
    BY <1>14 DEF SpuriousWake, TypeOK
  <2>2. LockInv'
    BY <1>14 DEF SpuriousWake, LockInv
  <2>3. OwnerInv'
    BY <1>14 DEF SpuriousWake, OwnerInv
  <2>4. ValueInv'
    BY <1>14 DEF SpuriousWake, ValueInv
  <2>5. ResumeInv'
    BY <1>14 DEF SpuriousWake, ResumeInv
  <2>6. WaitInv'
    BY <1>14 DEF SpuriousWake, WaitInv
  <2> QED
    BY <2>1, <2>2, <2>3, <2>4, <2>5, <2>6 DEF Inv
<1>15. ASSUME get
      PROVE  Inv'
  <2>1. TypeOK'
    BY <1>15 DEF get, TypeOK
  <2>2. LockInv'
    BY <1>15 DEF get, TypeOK, LockInv, WaitInv
  <2>3. OwnerInv'
    BY <1>15 DEF get, TypeOK, OwnerInv
  <2>4. ValueInv'
    BY <1>15 DEF get, TypeOK, ValueInv, WaitInv
  <2>5. ResumeInv'
    BY <1>15 DEF get, TypeOK, ResumeInv, WaitInv
  <2>6. WaitInv'
    BY <1>15 DEF get, WaitInv
  <2> QED
    BY <2>1, <2>2, <2>3, <2>4, <2>5, <2>6 DEF Inv
<1>16. CASE UNCHANGED vars
  BY <1>16 DEF vars, Inv, TypeOK, LockInv, OwnerInv, ValueInv, ResumeInv,
     WaitInv
<1> QED
  BY <1>1, <1>2, <1>3, <1>4, <1>5, <1>6, <1>7, <1>8, <1>9, <1>10, <1>11, <1>12,
     <1>13, <1>14, <1>15, <1>16 DEF Next, Terminated

(* Inv holds in every state of the protocol.                               *)
THEOREM InvCorrect == Spec => []Inv
<1> QED
  BY InitInv, NextInv, PTL DEF Spec

(* The variables of the hand-off keep their types.                         *)
THEOREM TypeCorrect == Spec => []TypeOK
<1>1. Inv => TypeOK
  BY DEF Inv
<1> QED
  BY <1>1, InvCorrect, PTL

(* No frame is destroyed while a future, an awaiter or the holder of its   *)
(* mutex can still reach its promise (final_suspend against ~future).      *)
THEOREM FrameSafety == Spec => []NoDanglingFrame
<1>1. Inv => NoDanglingFrame
  <2> SUFFICES ASSUME Inv, NEW c \in Coro, phase[c] \in {"freeing", "freed"}
               PROVE  /\ owner[c] = None
                      /\ lock[c] = None
                      /\ \A a \in Actor : awaiting[a] # c
                      /\ \A d \in Coro : resume[d] # c
    BY DEF NoDanglingFrame
  <2> USE FutureAssumption DEF Actor, Inv
  <2>1. owner[c] = None
    BY DEF OwnerInv
  <2>2. \A a \in Actor : awaiting[a] # c
    BY <2>1 DEF OwnerInv, TypeOK
  <2>3. lock[c] = None
    BY <2>2 DEF LockInv, TypeOK
  <2>4. \A d \in Coro : resume[d] # c
    BY DEF ResumeInv, TypeOK
  <2> QED
    BY <2>1, <2>2, <2>3, <2>4
<1> QED
  BY <1>1, InvCorrect, PTL

(* A suspended awaiter is in the promise it waits for, and that promise    *)
(* has yet to resume it.                                                   *)
THEOREM WakeupSafety == Spec => []NoLostWakeup
<1>1. Inv => NoLostWakeup
  <2> SUFFICES ASSUME Inv, NEW a \in Actor, phase[a] = "suspended"
               PROVE  /\ resume[awaiting[a]] = a
                      /\ \/ value[awaiting[a]] = None
                         \/ phase[awaiting[a]] = "returning"
    BY DEF NoLostWakeup
  <2> USE FutureAssumption DEF Actor, Inv
  <2>1. awaiting[a] \in Coro
    BY DEF TypeOK, WaitInv, InWait, MainPhases
  <2>2. resume[awaiting[a]] = a
    BY DEF ResumeInv
  <2>3. phase[awaiting[a]] \notin {"final", "freeing", "freed"}
    BY <2>1, <2>2 DEF ResumeInv, TypeOK
  <2> QED
    BY <2>1, <2>2, <2>3 DEF ValueInv
<1> QED
  BY <1>1, InvCorrect, PTL

(* The stack frame of wait() outlives the lambda that signals it.          *)
THEOREM WaitFrameSafety == Spec => []WaitFrameOutlivesLambda
<1>1. Inv => WaitFrameOutlivesLambda
  BY DEF Inv, WaitInv, WaitFrameOutlivesLambda
<1> QED
  BY <1>1, InvCorrect, PTL

(* Each step of the promise completes a coroutine, delivers a result that  *)
(* was not delivered before, or changes nothing the one-shot shows.        *)
LEMMA StepSimulation == Inv /\ [Next]_vars => [Shot!Next]_(Shot!vars)
<1> SUFFICES ASSUME Inv, [Next]_vars, ~UNCHANGED <<value, got>>
             PROVE  Shot!Next
  BY DEF Shot!vars
<1> USE FutureAssumption DEF Actor, Result, Inv, promiseVars, waitVars
<1>1. ASSUME NEW c \in Coro, Complete(c)
      PROVE  Shot!Complete(c)
  BY <1>1 DEF Complete, Shot!Complete, TypeOK, ValueInv
<1>2. ASSUME NEW p \in Coro, await_resume(p)
      PROVE  Shot!Deliver(awaiting[p]) /\ awaiting[p] \in Coro
  BY <1>2 DEF await_resume, Shot!Deliver, TypeOK, ValueInv, OwnerInv
<1>3. ASSUME get
      PROVE  Shot!Deliver(awaiting[Main]) /\ awaiting[Main] \in Coro
  BY <1>3 DEF get, Shot!Deliver, TypeOK, InWait, WaitInv, OwnerInv
<1>4. ASSUME NEW o \in Actor, NEW c \in Coro, NEW moved \in SUBSET Coro,
             get_return_object(o, c, moved)
      PROVE  FALSE
  BY <1>4 DEF get_return_object
<1>5. ASSUME NEW p \in Coro, NEW c \in Coro, CoAwait(p, c)
      PROVE  FALSE
  BY <1>5 DEF CoAwait, await_ready
<1>6. ASSUME NEW a \in Actor, await_suspend(a)
      PROVE  FALSE
  BY <1>6 DEF await_suspend
<1>7. ASSUME NEW c \in Coro, final_suspend(c) \/ Freed(c) \/ wait(c)
      PROVE  FALSE
  BY <1>7 DEF final_suspend, Freed, wait
<1>8. ASSUME NEW o \in Actor, NEW c \in Coro, release(o, c)
      PROVE  FALSE
  BY <1>8 DEF release
<1>9. ASSUME special_await_ready \/ Notify \/ NotifyUnlock \/ wait_while
             \/ SpuriousWake \/ Terminated \/ UNCHANGED vars
      PROVE  FALSE
  BY <1>9 DEF special_await_ready, await_ready, Notify, NotifyUnlock,
     wait_while, SpuriousWake, Terminated, vars
<1> QED
  BY <1>1, <1>2, <1>3, <1>4, <1>5, <1>6, <1>7, <1>8, <1>9
     DEF Next, Shot!Next

(* The promise, its mutex and its frames implement the one-shot: a result  *)
(* reaches the holder of the future once, unaltered and never early.       *)
THEOREM Refinement == Spec => ImplementsOneShot
<1>1. Init => Shot!Init
  BY DEF Init, Shot!Init
<1> QED
  BY <1>1, InvCorrect, StepSimulation, PTL
     DEF Spec, ImplementsOneShot, Shot!Spec
================================================================================
