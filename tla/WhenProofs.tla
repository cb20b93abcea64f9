------------------------------ MODULE WhenProofs ------------------------------
(***************************************************************************)
(* Proofs about When, for every number of awaitables.                      *)
(***************************************************************************)
EXTENDS When, FiniteSetTheorems, TLAPS

(* The helpers that have not counted down yet are finitely many, and all   *)
(* of them in the beginning (when_all.h, counter).                         *)
LEMMA PendingFinite ==
  ASSUME n \in Nat
  PROVE  /\ IsFiniteSet(Pending) /\ Cardinality(Pending) \in Nat
         /\ IsFiniteSet(1 .. n) /\ Cardinality(1 .. n) = n
<1>1. IsFiniteSet(1 .. n) /\ Cardinality(1 .. n) = n
  BY FS_Interval
<1>2. IsFiniteSet(Pending)
  BY <1>1, FS_Subset DEF Pending
<1>3. QED
  BY <1>1, <1>2, FS_CardinalityType

(* Who has thrown is on the list of those that have (fail).                *)
LEMMA ThrewAppend ==
  ASSUME threw \in Seq(Task), NEW t \in Task, threw' = Append(threw, t)
  PROVE  /\ \A u \in Task : Threw(u)' <=> Threw(u) \/ u = t
         /\ threw' # <<>>
<1>1. ASSUME NEW u \in Task PROVE Threw(u)' <=> Threw(u) \/ u = t
  <2>1. ASSUME Threw(u)' PROVE Threw(u) \/ u = t
    <3>1. PICK i \in DOMAIN threw' : threw'[i] = u
      BY <2>1 DEF Threw
    <3>2. CASE i \in DOMAIN threw
      BY <3>1, <3>2 DEF Threw
    <3>3. CASE i = Len(threw) + 1
      BY <3>1, <3>3
    <3>4. QED
      BY <3>1, <3>2, <3>3
  <2>2. ASSUME Threw(u) PROVE Threw(u)'
    <3>1. PICK i \in DOMAIN threw : threw[i] = u
      BY <2>2 DEF Threw
    <3>2. i \in DOMAIN threw' /\ threw'[i] = u
      BY <3>1
    <3>3. QED
      BY <3>2 DEF Threw
  <2>3. ASSUME u = t PROVE Threw(u)'
    <3>1. Len(threw) + 1 \in DOMAIN threw' /\ threw'[Len(threw) + 1] = t
      OBVIOUS
    <3>2. QED
      BY <2>3, <3>1 DEF Threw
  <2>4. QED
    BY <2>1, <2>2, <2>3
<1>2. QED
  BY <1>1

(* A call that has not begun satisfies the invariant (when_all.h, the      *)
(* constructor of the awaitable).                                          *)
LEMMA InitInv == Init => Inv
<1> SUFFICES ASSUME Init PROVE Inv
  OBVIOUS
<1> USE WhenAssumption DEF WhenAssumption, Init, Task, All, Any
<1>0. n \in 0 .. MaxTasks
  OBVIOUS
<1>1. TypeOK
  <2>1. helper \in [Task -> {"none"}] /\ threw \in Seq(Task)
    OBVIOUS
  <2>2. next \in 1 .. n + 1 /\ counter \in 0 .. n /\ index \in 0 .. n
    BY <1>0
  <2>3. returned \in [exception : Task \cup {None, Torn}, results : SUBSET Task,
                      index : 0 .. n]
    BY <1>0 DEF Nothing
  <2>4. QED
    BY <1>0, <2>1, <2>2, <2>3 DEF TypeOK
<1>2. HelperInv
  BY <1>0 DEF HelperInv
<1>3. CountInv
  <2>1. Pending = 1 .. n
    BY <1>0 DEF Pending
  <2>2. counter = Cardinality(Pending)
    BY <1>0, <2>1, PendingFinite
  <2>3. QED
    BY <2>2 DEF CountInv, Resumes
<1>4. ResumeInv
  BY DEF ResumeInv, Resumes
<1>5. RefsInv
  BY DEF RefsInv
<1>6. ResultInv
  BY <1>0 DEF ResultInv, AllInv, AnyInv, Undecided, Decided, Came,
     IsOf, Threw
<1>7. QED
  BY <1>1, <1>2, <1>3, <1>4, <1>5, <1>6 DEF Inv

(* Every step of the coroutine and of its helpers keeps it.                *)
LEMMA StepInv == Inv /\ [Next]_vars => Inv'
<1> SUFFICES ASSUME Inv, [Next]_vars PROVE Inv'
  OBVIOUS
<1> USE WhenAssumption DEF WhenAssumption, All, Any, Task, block, history
<1>0. TypeOK /\ HelperInv /\ CountInv /\ ResumeInv /\ RefsInv /\ ResultInv
  BY DEF Inv
<1>1. CASE await_ready
  <2>1. TypeOK'
    BY <1>0, <1>1 DEF await_ready, TypeOK
  <2>2. HelperInv'
    BY <1>0, <1>1 DEF await_ready, TypeOK, HelperInv
  <2>3. CountInv'
    <3>1. Pending = {} /\ Pending' = {}
      BY <1>0, <1>1 DEF await_ready, Pending, TypeOK
    <3>2. QED
      BY <1>0, <1>1, <3>1 DEF await_ready, CountInv
  <2>4. ResumeInv'
    BY <1>0, <1>1 DEF await_ready, TypeOK, ResumeInv, HelperInv, CountInv, Resumes
  <2>5. RefsInv'
    BY <1>0, <1>1 DEF await_ready, TypeOK, RefsInv, HelperInv
  <2>6. ResultInv'
    BY <1>0, <1>1 DEF await_ready, TypeOK, ResultInv, AllInv, AnyInv, Undecided, Decided, HelperInv,
       CountInv, ResumeInv, Resumes, Came, IsOf, Threw
  <2>7. QED
    BY <2>1, <2>2, <2>3, <2>4, <2>5, <2>6 DEF Inv
<1>2. CASE await_suspend
  <2>1. TypeOK'
    BY <1>0, <1>2 DEF await_suspend, TypeOK
  <2>2. HelperInv'
    BY <1>0, <1>2 DEF await_suspend, TypeOK, HelperInv
  <2>3. CountInv'
    <3>1. Pending' = Pending
      BY <1>0, <1>2 DEF await_suspend, Pending, TypeOK, HelperInv
    <3>2. QED
      BY <1>0, <1>2, <3>1 DEF await_suspend, CountInv, ResumeInv, HelperInv, Resumes, TypeOK
  <2>4. ResumeInv'
    BY <1>0, <1>2 DEF await_suspend, TypeOK, ResumeInv, HelperInv, CountInv, Resumes
  <2>5. RefsInv'
    BY <1>0, <1>2 DEF await_suspend, TypeOK, RefsInv, HelperInv
  <2>6. ResultInv'
    BY <1>0, <1>2 DEF await_suspend, TypeOK, ResultInv, AllInv, AnyInv, Undecided, Decided, HelperInv,
       CountInv, ResumeInv, Resumes, Came, IsOf, Threw
  <2>7. QED
    BY <2>1, <2>2, <2>3, <2>4, <2>5, <2>6 DEF Inv
<1>3. CASE await_resume
  <2>1. TypeOK'
    BY <1>0, <1>3 DEF await_resume, TypeOK
  <2>2. HelperInv'
    BY <1>0, <1>3 DEF await_resume, TypeOK, HelperInv
  <2>3. CountInv'
    <3>1. Pending' = Pending
      BY <1>0, <1>3 DEF await_resume, Pending, TypeOK, HelperInv
    <3>2. QED
      BY <1>0, <1>3, <3>1 DEF await_resume, CountInv, ResumeInv, HelperInv, Resumes, TypeOK
  <2>4. ResumeInv'
    BY <1>0, <1>3 DEF await_resume, TypeOK, ResumeInv, HelperInv, CountInv, Resumes
  <2>5. RefsInv'
    BY <1>0, <1>3 DEF await_resume, TypeOK, RefsInv, HelperInv
  <2>6. ResultInv'
    BY <1>0, <1>3 DEF await_resume, TypeOK, ResultInv, AllInv, AnyInv, Undecided, Decided, HelperInv,
       CountInv, ResumeInv, Resumes, Came, IsOf, Threw
  <2>7. QED
    BY <2>1, <2>2, <2>3, <2>4, <2>5, <2>6 DEF Inv
<1>4. ASSUME NEW t \in Task, start(t) PROVE Inv'
  <2>1. TypeOK'
    BY <1>0, <1>4 DEF start, Goto, TypeOK
  <2>2. HelperInv'
    BY <1>0, <1>4 DEF start, Goto, TypeOK, HelperInv
  <2>3. CountInv'
    <3>1. Pending' = Pending
      BY <1>0, <1>4 DEF start, Goto, Pending, TypeOK, HelperInv
    <3>2. QED
      BY <1>0, <1>4, <3>1 DEF start, Goto, CountInv, ResumeInv, HelperInv, Resumes, TypeOK
  <2>4. ResumeInv'
    BY <1>0, <1>4 DEF start, Goto, TypeOK, ResumeInv, HelperInv, CountInv, Resumes
  <2>5. RefsInv'
    BY <1>0, <1>4 DEF start, Goto, TypeOK, RefsInv, HelperInv
  <2>6. ResultInv'
    <3>1. /\ \A u \in Task : Came(u)' <=> Came(u)
          /\ \A u \in Task : Threw(u)' <=> Threw(u)
          /\ \A u \in Task : helper[u] \in {"testing", "setting"} <=>
                             helper'[u] \in {"testing", "setting"}
      BY <1>0, <1>4 DEF start, Goto, TypeOK, HelperInv, Came, Threw
    <3>2. AllInv'
      BY <1>0, <1>4, <3>1 DEF start, TypeOK, ResultInv, AllInv
    <3>3. AnyInv'
      <4>1. ASSUME NEW u \in Task, Came(u), IsOf(u) PROVE Came(u)' /\ IsOf(u)'
        BY <1>4, <3>1, <4>1 DEF start, IsOf
      <4>2. \A u \in Task : /\ helper'[u] = "winning" <=> helper[u] = "winning"
                            /\ helper'[u] = "resuming" <=> helper[u] = "resuming"
        BY <1>0, <1>4 DEF start, Goto, TypeOK, HelperInv
      <4>3. (Undecided' => Undecided) /\ (Decided' => Decided)
        BY <1>4, <4>2 DEF start, Undecided, Decided
      <4>4. QED
        BY <1>0, <1>4, <4>1, <4>3 DEF start, ResultInv, AnyInv
    <3>4. QED
      BY <1>0, <1>4, <3>1, <3>2, <3>3 DEF start, ResultInv
  <2>7. QED
    BY <2>1, <2>2, <2>3, <2>4, <2>5, <2>6 DEF Inv
<1>5. ASSUME NEW t \in Task, fail(t) PROVE Inv'
  <2>1. TypeOK'
    BY <1>0, <1>5 DEF fail, Goto, TypeOK
  <2>2. HelperInv'
    BY <1>0, <1>5 DEF fail, Goto, TypeOK, HelperInv
  <2>3. CountInv'
    <3>1. ASSUME kind \in All PROVE Pending' = Pending
      BY <1>0, <1>5, <3>1 DEF fail, Goto, Pending, TypeOK, HelperInv
    <3>2. QED
      BY <1>0, <1>5, <3>1 DEF fail, Goto, CountInv, ResumeInv, HelperInv, Resumes, TypeOK
  <2>4. ResumeInv'
    BY <1>0, <1>5 DEF fail, Goto, TypeOK, ResumeInv, HelperInv, CountInv, Resumes
  <2>5. RefsInv'
    BY <1>0, <1>5 DEF fail, Goto, TypeOK, RefsInv, HelperInv
  <2>6. ResultInv'
    <3>1. \A u \in Task : Threw(u)' <=> Threw(u) \/ u = t
      BY <1>0, <1>5, ThrewAppend DEF fail, TypeOK
    <3>2. /\ \A u \in Task : Came(u)' <=> Came(u) \/ u = t
          /\ ~Came(t) /\ ~Threw(t) /\ t \in 1 .. n /\ pc # "start"
      BY <1>0, <1>5 DEF fail, Goto, TypeOK, Came, HelperInv, ResultInv
    <3>3. AllInv'
      <4>1. ASSUME kind \in All
            PROVE  results = {u \in 1 .. n : Came(u) /\ ~Threw(u)}'
        BY <1>0, <1>5, <3>1, <3>2, <4>1 DEF fail, TypeOK, ResultInv, AllInv
      <4>2. threw' # <<>>
        BY <1>0, <1>5, ThrewAppend DEF fail, TypeOK
      <4>3. ASSUME kind \in All PROVE helper'[t] = "testing"
        BY <1>0, <1>5, <4>3 DEF fail, Goto, TypeOK
      <4>4. QED
        BY <1>5, <3>2, <4>1, <4>2, <4>3 DEF fail, AllInv
    <3>4. AnyInv'
      <4>1. \A u \in Task : /\ helper'[u] = "winning" <=> helper[u] = "winning"
                            /\ helper'[u] = "resuming" <=> helper[u] = "resuming"
        BY <1>0, <1>5 DEF fail, Goto, TypeOK
      <4>2. ASSUME NEW u \in Task, Came(u), IsOf(u) PROVE Came(u)' /\ IsOf(u)'
        BY <1>5, <3>1, <3>2, <4>2 DEF fail, IsOf
      <4>3. (Undecided' => Undecided) /\ (Decided' => Decided)
        BY <1>5, <4>1 DEF fail, Undecided, Decided
      <4>4. QED
        BY <1>0, <1>5, <4>2, <4>3 DEF fail, ResultInv, AnyInv
    <3>5. QED
      BY <1>0, <1>5, <3>1, <3>2, <3>3, <3>4 DEF fail, ResultInv
  <2>7. QED
    BY <2>1, <2>2, <2>3, <2>4, <2>5, <2>6 DEF Inv
<1>6. ASSUME NEW t \in Task, complete(t) PROVE Inv'
  <2>1. TypeOK'
    BY <1>0, <1>6 DEF complete, Goto, TypeOK
  <2>2. HelperInv'
    BY <1>0, <1>6 DEF complete, Goto, TypeOK, HelperInv
  <2>3. CountInv'
    <3>1. ASSUME kind \in All PROVE Pending' = Pending
      BY <1>0, <1>6, <3>1 DEF complete, Goto, Pending, TypeOK, HelperInv
    <3>2. QED
      BY <1>0, <1>6, <3>1 DEF complete, Goto, CountInv, ResumeInv, HelperInv, Resumes, TypeOK
  <2>4. ResumeInv'
    BY <1>0, <1>6 DEF complete, Goto, TypeOK, ResumeInv, HelperInv, CountInv, Resumes
  <2>5. RefsInv'
    BY <1>0, <1>6 DEF complete, Goto, TypeOK, RefsInv, HelperInv
  <2>6. ResultInv'
    <3>1. /\ \A u \in Task : Came(u)' <=> Came(u) \/ u = t
          /\ \A u \in Task : Threw(u)' <=> Threw(u)
          /\ ~Threw(t) /\ t \in 1 .. n
      BY <1>0, <1>6 DEF complete, Goto, TypeOK, Came, Threw, HelperInv, ResultInv
    <3>2. AllInv'
      <4>1. ASSUME kind \in All
            PROVE  results' = {u \in 1 .. n : Came(u) /\ ~Threw(u)}'
        BY <1>0, <1>6, <3>1, <4>1 DEF complete, TypeOK, ResultInv, AllInv
      <4>2. \A u \in 1 .. n : helper[u] \in {"testing", "setting"} <=>
                               helper'[u] \in {"testing", "setting"}
        BY <1>0, <1>6 DEF complete, Goto, TypeOK
      <4>3. QED
        BY <1>0, <1>6, <4>1, <4>2 DEF complete, ResultInv, AllInv
    <3>3. AnyInv'
      <4>1. \A u \in Task : /\ helper'[u] = "winning" <=> helper[u] = "winning"
                            /\ helper'[u] = "resuming" <=> helper[u] = "resuming"
        BY <1>0, <1>6 DEF complete, Goto, TypeOK
      <4>2. ASSUME NEW u \in Task, kind \in Any, Came(u), IsOf(u)
            PROVE  Came(u)' /\ IsOf(u)'
        BY <1>6, <3>1, <4>2 DEF complete, IsOf
      <4>3. (Undecided' => Undecided) /\ (Decided' => Decided)
        BY <1>6, <4>1 DEF complete, Undecided, Decided
      <4>4. QED
        BY <1>0, <1>6, <4>2, <4>3 DEF complete, ResultInv, AnyInv
    <3>4. pc = "returned" => kind \in Any
      <4>1. t \in Pending
        BY <1>0, <1>6, <3>1 DEF complete, Pending
      <4>2. QED
        BY <1>0, <4>1 DEF CountInv, TypeOK
    <3>5. QED
      BY <1>0, <1>6, <3>1, <3>2, <3>3, <3>4 DEF complete, ResultInv
  <2>7. QED
    BY <2>1, <2>2, <2>3, <2>4, <2>5, <2>6 DEF Inv
<1>7. ASSUME NEW t \in Task, finished_exception(t) PROVE Inv'
  <2>1. TypeOK'
    BY <1>0, <1>7 DEF finished_exception, Goto, TypeOK
  <2>2. HelperInv'
    BY <1>0, <1>7 DEF finished_exception, Goto, TypeOK, HelperInv
  <2>3. CountInv'
    <3>1. Pending' = Pending
      BY <1>0, <1>7 DEF finished_exception, Goto, Pending, TypeOK, HelperInv
    <3>2. QED
      BY <1>0, <1>7, <3>1 DEF finished_exception, Goto, CountInv, ResumeInv, HelperInv, Resumes, TypeOK
  <2>4. ResumeInv'
    BY <1>0, <1>7 DEF finished_exception, Goto, TypeOK, ResumeInv, HelperInv, CountInv, Resumes
  <2>5. RefsInv'
    BY <1>0, <1>7 DEF finished_exception, Goto, TypeOK, RefsInv, HelperInv
  <2>6. ResultInv'
    BY <1>0, <1>7 DEF finished_exception, Goto, TypeOK, ResultInv, AllInv, AnyInv, Undecided, Decided, HelperInv,
       CountInv, ResumeInv, Resumes, Came, IsOf, Threw
  <2>7. QED
    BY <2>1, <2>2, <2>3, <2>4, <2>5, <2>6 DEF Inv
<1>8. ASSUME NEW t \in Task, set_exception(t) PROVE Inv'
  <2>1. TypeOK'
    BY <1>0, <1>8 DEF set_exception, Goto, TypeOK
  <2>2. HelperInv'
    BY <1>0, <1>8 DEF set_exception, Goto, TypeOK, HelperInv
  <2>3. CountInv'
    <3>1. Pending' = Pending
      BY <1>0, <1>8 DEF set_exception, Goto, Pending, TypeOK, HelperInv
    <3>2. QED
      BY <1>0, <1>8, <3>1 DEF set_exception, Goto, CountInv, ResumeInv, HelperInv, Resumes, TypeOK
  <2>4. ResumeInv'
    BY <1>0, <1>8 DEF set_exception, Goto, TypeOK, ResumeInv, HelperInv, CountInv, Resumes
  <2>5. RefsInv'
    BY <1>0, <1>8 DEF set_exception, Goto, TypeOK, RefsInv, HelperInv
  <2>6. ResultInv'
    <3>1. /\ \A u \in Task : Came(u)' <=> Came(u)
          /\ \A u \in Task : Threw(u)' <=> Threw(u)
      BY <1>0, <1>8 DEF set_exception, Goto, TypeOK, Came, Threw
    <3>2. kind \in All /\ t \in 1 .. n
      BY <1>0, <1>8 DEF set_exception, TypeOK, HelperInv
    <3>3. pc # "returned"
      <4>1. t \in Pending
        BY <1>8, <3>2 DEF set_exception, Pending
      <4>2. QED
        BY <1>0, <3>2, <4>1 DEF CountInv
    <3>4. exception' # None
      <4>1. t # None /\ Torn # None
        BY <3>2
      <4>2. QED
        BY <1>8, <4>1 DEF set_exception
    <3>5. threw # <<>>
      BY <1>0, <1>8, <3>2 DEF set_exception, ResultInv, AllInv
    <3>6. QED
      BY <1>0, <1>8, <3>1, <3>2, <3>3, <3>4, <3>5 DEF set_exception, TypeOK, ResultInv,
         AllInv, AnyInv
  <2>7. QED
    BY <2>1, <2>2, <2>3, <2>4, <2>5, <2>6 DEF Inv
<1>9. ASSUME NEW t \in Task, check_resume(t) PROVE Inv'
  <2>1. TypeOK'
    <3>1. t \in Pending
      BY <1>0, <1>9 DEF check_resume, TypeOK, HelperInv, Pending
    <3>2. counter \in 1 .. n
      BY <1>0, <1>9, <3>1, PendingFinite, FS_EmptySet DEF check_resume, TypeOK, HelperInv, CountInv
    <3>3. QED
      BY <1>0, <1>9, <3>2 DEF check_resume, Goto, TypeOK
  <2>2. HelperInv'
    BY <1>0, <1>9 DEF check_resume, Goto, TypeOK, HelperInv
  <2>3. CountInv'
    <3>1. t \in Pending /\ kind \in All
      BY <1>0, <1>9 DEF check_resume, TypeOK, HelperInv, Pending
    <3>2. Pending' = Pending \ {t}
      BY <1>0, <1>9 DEF check_resume, Goto, TypeOK, Pending
    <3>3. IsFiniteSet(Pending) /\ counter = Cardinality(Pending) /\ counter \in Nat
      BY <1>0, <3>1, PendingFinite DEF TypeOK, CountInv
    <3>4. Cardinality(Pending') = counter - 1 /\ (counter = 1 <=> Pending' = {})
      <4>1. IsFiniteSet(Pending \ {t}) /\ Cardinality(Pending \ {t}) = counter - 1
        BY <3>1, <3>3, FS_RemoveElement
      <4>2. Cardinality(Pending \ {t}) = 0 <=> Pending \ {t} = {}
        BY <4>1, FS_EmptySet
      <4>3. QED
        BY <3>2, <3>3, <4>1, <4>2
    <3>5. pc = "suspended" /\ \A u \in Task : ~Resumes(u)
      BY <1>0, <1>9, <3>1 DEF check_resume, CountInv, HelperInv, TypeOK
    <3>6. QED
      BY <1>0, <1>9, <3>1, <3>3, <3>4, <3>5 DEF check_resume, Goto, CountInv, Resumes, TypeOK
  <2>4. ResumeInv'
    <3>1. t \in Pending /\ kind \in All
      BY <1>0, <1>9 DEF check_resume, TypeOK, HelperInv, Pending
    <3>2. pc = "suspended" /\ \A u \in Task : ~Resumes(u)
      BY <1>0, <1>9, <3>1 DEF check_resume, CountInv, HelperInv, TypeOK
    <3>3. QED
      BY <1>0, <1>9, <3>1, <3>2 DEF check_resume, Goto, ResumeInv, Resumes, TypeOK
  <2>5. RefsInv'
    BY <1>0, <1>9 DEF check_resume, Goto, TypeOK, RefsInv, HelperInv
  <2>6. ResultInv'
    BY <1>0, <1>9 DEF check_resume, Goto, TypeOK, ResultInv, AllInv, AnyInv, Undecided, Decided, HelperInv,
       CountInv, ResumeInv, Resumes, Came, IsOf, Threw
  <2>7. QED
    BY <2>1, <2>2, <2>3, <2>4, <2>5, <2>6 DEF Inv
<1>10. ASSUME NEW t \in Task, exchange(t) PROVE Inv'
  <2>1. TypeOK'
    BY <1>0, <1>10 DEF exchange, Goto, TypeOK
  <2>2. HelperInv'
    BY <1>0, <1>10 DEF exchange, Goto, TypeOK, HelperInv
  <2>3. CountInv'
    <3>1. Pending' = Pending
      BY <1>0, <1>10 DEF exchange, Goto, Pending, TypeOK, HelperInv
    <3>2. QED
      BY <1>0, <1>10, <3>1 DEF exchange, Goto, CountInv, ResumeInv, HelperInv, Resumes, TypeOK
  <2>4. ResumeInv'
    BY <1>0, <1>10 DEF exchange, Goto, TypeOK, ResumeInv, HelperInv, CountInv, Resumes
  <2>5. RefsInv'
    BY <1>0, <1>10 DEF exchange, Goto, TypeOK, RefsInv, HelperInv
  <2>6. ResultInv'
    <3>1. /\ \A u \in Task : Came(u)' <=> Came(u)
          /\ \A u \in Task : Threw(u)' <=> Threw(u)
          /\ \A u \in Task : helper[u] \in {"testing", "setting"} <=>
                             helper'[u] \in {"testing", "setting"}
      BY <1>0, <1>10 DEF exchange, Goto, TypeOK, Came, Threw
    <3>2. AllInv'
      BY <1>0, <1>10, <3>1 DEF exchange, TypeOK, ResultInv, AllInv
    <3>3. AnyInv'
      <4>1. ASSUME NEW u \in Task, Came(u), IsOf(u) PROVE Came(u)' /\ IsOf(u)'
        BY <1>10, <3>1, <4>1 DEF exchange, IsOf
      <4>2. \A u \in Task : /\ helper'[u] = "winning" => helper[u] = "winning" \/ resume
                            /\ helper'[u] = "resuming" <=> helper[u] = "resuming"
        BY <1>0, <1>10 DEF exchange, Goto, TypeOK
      <4>3. (Undecided' => Undecided) /\ (Decided' => Decided)
        BY <1>10, <4>2 DEF exchange, Undecided, Decided
      <4>4. QED
        BY <1>0, <1>10, <4>1, <4>3 DEF exchange, ResultInv, AnyInv
    <3>4. QED
      BY <1>0, <1>10, <3>1, <3>2, <3>3 DEF exchange, ResultInv
  <2>7. QED
    BY <2>1, <2>2, <2>3, <2>4, <2>5, <2>6 DEF Inv
<1>11. ASSUME NEW t \in Task, win(t) PROVE Inv'
  <2>1. TypeOK'
    <3>1. t \in 0 .. n
      BY <1>0, <1>11 DEF win, TypeOK, HelperInv
    <3>2. CASE Threw(t)
      BY <1>0, <1>11, <3>2 DEF win, Goto, TypeOK
    <3>3. CASE ~Threw(t)
      BY <1>0, <1>11, <3>1, <3>3 DEF win, Goto, TypeOK
    <3>4. QED
      BY <3>2, <3>3
  <2>2. HelperInv'
    BY <1>0, <1>11 DEF win, Goto, TypeOK, HelperInv
  <2>3. CountInv'
    <3>1. Pending' = Pending
      BY <1>0, <1>11 DEF win, Goto, Pending, TypeOK, HelperInv
    <3>2. QED
      BY <1>0, <1>11, <3>1 DEF win, Goto, CountInv, ResumeInv, HelperInv, Resumes, TypeOK
  <2>4. ResumeInv'
    BY <1>0, <1>11 DEF win, Goto, TypeOK, ResumeInv, HelperInv, CountInv, Resumes
  <2>5. RefsInv'
    BY <1>0, <1>11 DEF win, Goto, TypeOK, RefsInv, HelperInv
  <2>6. ResultInv'
    <3>1. kind \in Any /\ pc = "suspended" /\ ~resume /\ Undecided
      BY <1>0, <1>11 DEF win, HelperInv, ResumeInv, Resumes, Undecided, TypeOK
    <3>2. /\ \A u \in Task : Came(u)' <=> Came(u)
          /\ \A u \in Task : Threw(u)' <=> Threw(u)
          /\ Came(t)
      BY <1>0, <1>11 DEF win, Goto, TypeOK, Came, Threw
    <3>3. IsOf(t)'
      BY <1>0, <1>11, <3>1 DEF win, ResultInv, AnyInv, IsOf, Threw
    <3>4. ~Undecided'
      BY <1>0, <1>11, <3>1 DEF win, Goto, Undecided, ResumeInv, Resumes, HelperInv, TypeOK
    <3>5. AllInv' /\ AnyInv'
      BY <1>11, <3>1, <3>2, <3>3, <3>4 DEF win, AllInv, AnyInv
    <3>6. QED
      BY <1>0, <1>11, <3>1, <3>2, <3>5 DEF win, ResultInv
  <2>7. QED
    BY <2>1, <2>2, <2>3, <2>4, <2>5, <2>6 DEF Inv
<1>12. ASSUME NEW t \in Task, continuation(t) PROVE Inv'
  <2>1. TypeOK'
    BY <1>0, <1>12 DEF continuation, Goto, TypeOK
  <2>2. HelperInv'
    BY <1>0, <1>12 DEF continuation, Goto, TypeOK, HelperInv
  <2>3. CountInv'
    <3>1. Pending' = Pending
      BY <1>0, <1>12 DEF continuation, Goto, Pending, TypeOK, HelperInv
    <3>2. QED
      BY <1>0, <1>12, <3>1 DEF continuation, Goto, CountInv, ResumeInv, HelperInv, Resumes, TypeOK
  <2>4. ResumeInv'
    BY <1>0, <1>12 DEF continuation, Goto, TypeOK, ResumeInv, HelperInv, CountInv, Resumes
  <2>5. RefsInv'
    BY <1>0, <1>12 DEF continuation, Goto, TypeOK, RefsInv, HelperInv
  <2>6. ResultInv'
    <3>1. /\ \A u \in Task : Came(u)' <=> Came(u)
          /\ \A u \in Task : Threw(u)' <=> Threw(u)
          /\ \A u \in Task : helper[u] \in {"testing", "setting"} <=>
                             helper'[u] \in {"testing", "setting"}
      BY <1>0, <1>12 DEF continuation, Goto, TypeOK, Came, Threw
    <3>2. AllInv'
      BY <1>0, <1>12, <3>1 DEF continuation, TypeOK, ResultInv, AllInv
    <3>3. AnyInv'
      <4>1. ASSUME NEW u \in Task, Came(u), IsOf(u) PROVE Came(u)' /\ IsOf(u)'
        BY <1>12, <3>1, <4>1 DEF continuation, IsOf
      <4>2. pc = "suspended" /\ (kind \in Any => ~resume) /\ Decided
        BY <1>0, <1>12 DEF continuation, ResumeInv, Resumes, Decided, TypeOK
      <4>3. \A u \in Task : helper'[u] # "winning"
        BY <1>0, <1>12 DEF continuation, Goto, ResumeInv, Resumes, TypeOK
      <4>4. kind \in Any /\ Undecided' => n = 0
        BY <1>12, <4>2, <4>3 DEF continuation, Undecided
      <4>5. QED
        BY <1>0, <1>12, <4>1, <4>2, <4>4 DEF continuation, ResultInv, AnyInv, Undecided
    <3>4. QED
      BY <1>0, <1>12, <3>1, <3>2, <3>3 DEF continuation, ResultInv, ResumeInv, Resumes
  <2>7. QED
    BY <2>1, <2>2, <2>3, <2>4, <2>5, <2>6 DEF Inv
<1>13. ASSUME NEW t \in Task, end(t) PROVE Inv'
  <2>1. TypeOK'
    BY <1>0, <1>13 DEF end, Goto, TypeOK
  <2>2. HelperInv'
    BY <1>0, <1>13 DEF end, Goto, TypeOK, HelperInv
  <2>3. CountInv'
    <3>1. Pending' = Pending
      BY <1>0, <1>13 DEF end, Goto, Pending, TypeOK, HelperInv
    <3>2. QED
      BY <1>0, <1>13, <3>1 DEF end, Goto, CountInv, ResumeInv, HelperInv, Resumes, TypeOK
  <2>4. ResumeInv'
    BY <1>0, <1>13 DEF end, Goto, TypeOK, ResumeInv, HelperInv, CountInv, Resumes
  <2>5. RefsInv'
    BY <1>0, <1>13 DEF end, Goto, TypeOK, RefsInv, HelperInv
  <2>6. ResultInv'
    <3>1. /\ \A u \in Task : Came(u)' <=> Came(u)
          /\ \A u \in Task : Threw(u)' <=> Threw(u)
          /\ \A u \in Task : helper[u] \in {"testing", "setting"} <=>
                             helper'[u] \in {"testing", "setting"}
      BY <1>0, <1>13 DEF end, Goto, TypeOK, Came, Threw
    <3>2. AllInv'
      BY <1>0, <1>13, <3>1 DEF end, TypeOK, ResultInv, AllInv
    <3>3. AnyInv'
      <4>1. ASSUME NEW u \in Task, Came(u), IsOf(u) PROVE Came(u)' /\ IsOf(u)'
        BY <1>13, <3>1, <4>1 DEF end, IsOf
      <4>2. \A u \in Task : /\ helper'[u] = "winning" <=> helper[u] = "winning"
                            /\ helper'[u] = "resuming" <=> helper[u] = "resuming"
        BY <1>0, <1>13 DEF end, Goto, TypeOK
      <4>3. (Undecided' => Undecided) /\ (Decided' => Decided)
        BY <1>13, <4>2 DEF end, Undecided, Decided
      <4>4. QED
        BY <1>0, <1>13, <4>1, <4>3 DEF end, ResultInv, AnyInv
    <3>4. QED
      BY <1>0, <1>13, <3>1, <3>2, <3>3 DEF end, ResultInv
  <2>7. QED
    BY <2>1, <2>2, <2>3, <2>4, <2>5, <2>6 DEF Inv
<1>14. CASE UNCHANGED vars
  <2>1. (TypeOK /\ HelperInv /\ ResumeInv /\ RefsInv)'
    BY <1>0, <1>14 DEF vars, TypeOK, HelperInv, ResumeInv, Resumes, RefsInv
  <2>2. CountInv'
    BY <1>0, <1>14 DEF vars, CountInv, Pending, Resumes
  <2>3. ResultInv'
    BY <1>0, <1>14 DEF vars, ResultInv, AllInv, AnyInv, Undecided, Decided, Came, IsOf,
       Threw
  <2>4. QED
    BY <2>1, <2>2, <2>3 DEF Inv
<1>15. QED
  BY <1>1, <1>2, <1>3, <1>4, <1>5, <1>6, <1>7, <1>8, <1>9, <1>10, <1>11, <1>12,
     <1>13, <1>14 DEF Next, Steps

(* The invariant holds in every state of a call.                           *)
THEOREM InvCorrect == Spec => []Inv
BY InitInv, StepInv, PTL DEF Spec

(* The coroutine does not leave co_await when_all, nor does the block of   *)
(* when_any go, while a helper may use it (when_all.h, check_resume;       *)
(* when_any.h, the shared_ptr).                                            *)
THEOREM BlockSafety == Spec => []BlockOutlivesHelpers
<1>1. Inv => BlockOutlivesHelpers
  <2> SUFFICES ASSUME Inv, NEW t \in Task, Refers(t)
               PROVE  IF kind \in All THEN pc # "returned" ELSE refs # {}
    BY DEF BlockOutlivesHelpers
  <2> USE WhenAssumption DEF WhenAssumption, Inv, Task, All, Any
  <2>1. t \in 1 .. n /\ pc # "start"
    BY DEF TypeOK, HelperInv, Refers
  <2>2. CASE kind \in All
    <3>1. t \in Pending \/ Resumes(t)
      BY <2>1, <2>2 DEF TypeOK, HelperInv, Pending, Resumes, Refers
    <3>2. QED
      BY <2>2, <3>1 DEF CountInv, ResumeInv
  <2>3. CASE kind \in Any
    BY <2>1, <2>3 DEF RefsInv, Refers
  <2>4. QED
    BY <2>2, <2>3 DEF TypeOK
<1>2. QED
  BY <1>1, InvCorrect, PTL

(* One helper resumes the coroutine, once (when_all.h, fetch_sub;          *)
(* when_any.h, exchange).                                                  *)
THEOREM OneResumption == Spec => []ResumedOnce
<1>1. Inv => ResumedOnce
  BY DEF Inv, ResumeInv, Resumes, ResumedOnce
<1>2. QED
  BY <1>1, InvCorrect, PTL

(* The coroutine gets every result or an exception of when_all, and of     *)
(* when_any what the first has, whole and for good (await_resume).         *)
THEOREM ResultsDelivered == Spec => []Delivered
<1>1. Inv => Delivered
  <2> SUFFICES ASSUME Inv, pc = "returned" PROVE Delivered
    BY DEF Delivered
  <2> USE WhenAssumption DEF WhenAssumption, Inv, Task, All, Any
  <2>1. returned = [exception |-> exception, results |-> results, index |-> index]
    BY DEF ResultInv
  <2>2. ASSUME kind \in All
        PROVE  /\ exception = None <=> threw = <<>>
               /\ results = {t \in 1 .. n : ~Threw(t)}
    <3>1. \A t \in 1 .. n : helper[t] \notin {"none", "awaiting", "testing", "setting"}
      BY <2>2 DEF CountInv, Pending
    <3>2. QED
      BY <2>2, <3>1 DEF ResultInv, AllInv, Came
  <2>3. ASSUME kind \in Any, n # 0
        PROVE  \E t \in Task :
                 returned = IF Threw(t) THEN [exception |-> t, results |-> {}, index |-> 0]
                            ELSE [exception |-> None, results |-> {t}, index |-> t]
    <3>1. PICK t \in Task : IsOf(t)
      BY <2>3 DEF ResultInv, AnyInv, Decided
    <3>2. QED
      BY <2>1, <3>1 DEF IsOf
  <2>4. QED
    BY <2>1, <2>2, <2>3 DEF Delivered
<1>2. QED
  BY <1>1, InvCorrect, PTL

(* A step keeps somebody on his way (when_all.h, check_resume; when_any.h, *)
(* finished): whoever counts down without resuming the coroutine leaves    *)
(* another that has still to, and whoever takes the handle resumes it.     *)
LEMMA ComesStep == Inv /\ HelperComes /\ [Next]_vars => HelperComes'
<1> SUFFICES ASSUME Inv, HelperComes, [Next]_vars PROVE HelperComes'
  OBVIOUS
<1> USE WhenAssumption DEF WhenAssumption, Task, All, Any
<1>0. Inv /\ HelperComes /\ TypeOK /\ HelperInv /\ CountInv /\ ResumeInv
  BY DEF Inv
<1>1. ASSUME await_ready PROVE HelperComes'
  BY <1>1 DEF await_ready, HelperComes
<1>2. ASSUME await_suspend PROVE HelperComes'
  <2>1. \A t \in 1 .. n : helper'[t] = "none"
    BY <1>0, <1>2 DEF await_suspend, TypeOK, HelperInv
  <2>2. 1 \in Pending'
    BY <1>0, <1>2, <2>1 DEF await_suspend, TypeOK, Pending
  <2>3. QED
    BY <1>0, <1>2, <2>1, <2>2 DEF await_suspend, TypeOK, HelperComes
<1>3. ASSUME await_resume PROVE HelperComes'
  BY <1>3 DEF await_resume, HelperComes
<1>4. ASSUME NEW t \in Task, start(t) PROVE HelperComes'
  <2>1. kind \in All => Pending' = Pending
    BY <1>0, <1>4 DEF start, Goto, TypeOK, HelperInv, Pending
  <2>2. \A u \in Task : Resumes(u) => Resumes(u)'
    BY <1>0, <1>4 DEF start, Goto, TypeOK, HelperInv, Resumes
  <2>3. kind \in Any => helper'[t] \in {"none", "awaiting", "exchanging"}
                       /\ \A u \in Task \ {t} : helper'[u] = helper[u]
    BY <1>0, <1>4 DEF start, Goto, TypeOK
  <2>4. pc' = "suspended" => pc = "suspended"
    BY <1>4 DEF start
  <2>5. kind' = kind /\ n' = n /\ resume' = resume
    BY <1>4 DEF start, block
  <2>6. CASE kind \in All
    BY <1>0, <2>1, <2>2, <2>4, <2>5, <2>6 DEF HelperComes
  <2>7. CASE kind \in Any
    <3>1. \A u \in 1 .. n : u \in Task
      BY <1>0 DEF TypeOK
    <3>2. QED
      BY <1>0, <2>2, <2>3, <2>4, <2>5, <2>7, <3>1 DEF HelperComes
  <2>8. QED
    BY <1>0, <2>6, <2>7 DEF TypeOK
<1>5. ASSUME NEW t \in Task, fail(t) PROVE HelperComes'
  <2>1. kind \in All => Pending' = Pending
    BY <1>0, <1>5 DEF fail, Goto, TypeOK, HelperInv, Pending
  <2>2. \A u \in Task : Resumes(u) => Resumes(u)'
    BY <1>0, <1>5 DEF fail, Goto, TypeOK, HelperInv, Resumes
  <2>3. kind \in Any => helper'[t] \in {"none", "awaiting", "exchanging"}
                       /\ \A u \in Task \ {t} : helper'[u] = helper[u]
    BY <1>0, <1>5 DEF fail, Goto, TypeOK
  <2>4. pc' = "suspended" => pc = "suspended"
    BY <1>5 DEF fail
  <2>5. kind' = kind /\ n' = n /\ resume' = resume
    BY <1>5 DEF fail, block
  <2>6. CASE kind \in All
    BY <1>0, <2>1, <2>2, <2>4, <2>5, <2>6 DEF HelperComes
  <2>7. CASE kind \in Any
    <3>1. \A u \in 1 .. n : u \in Task
      BY <1>0 DEF TypeOK
    <3>2. QED
      BY <1>0, <2>2, <2>3, <2>4, <2>5, <2>7, <3>1 DEF HelperComes
  <2>8. QED
    BY <1>0, <2>6, <2>7 DEF TypeOK
<1>6. ASSUME NEW t \in Task, complete(t) PROVE HelperComes'
  <2>1. kind \in All => Pending' = Pending
    BY <1>0, <1>6 DEF complete, Goto, TypeOK, HelperInv, Pending
  <2>2. \A u \in Task : Resumes(u) => Resumes(u)'
    BY <1>0, <1>6 DEF complete, Goto, TypeOK, HelperInv, Resumes
  <2>3. kind \in Any => helper'[t] \in {"none", "awaiting", "exchanging"}
                       /\ \A u \in Task \ {t} : helper'[u] = helper[u]
    BY <1>0, <1>6 DEF complete, Goto, TypeOK
  <2>4. pc' = "suspended" => pc = "suspended"
    BY <1>6 DEF complete
  <2>5. kind' = kind /\ n' = n /\ resume' = resume
    BY <1>6 DEF complete, block
  <2>6. CASE kind \in All
    BY <1>0, <2>1, <2>2, <2>4, <2>5, <2>6 DEF HelperComes
  <2>7. CASE kind \in Any
    <3>1. \A u \in 1 .. n : u \in Task
      BY <1>0 DEF TypeOK
    <3>2. QED
      BY <1>0, <2>2, <2>3, <2>4, <2>5, <2>7, <3>1 DEF HelperComes
  <2>8. QED
    BY <1>0, <2>6, <2>7 DEF TypeOK
<1>7. ASSUME NEW t \in Task, finished_exception(t) PROVE HelperComes'
  <2>1. Pending' = Pending
    BY <1>0, <1>7 DEF finished_exception, Goto, TypeOK, HelperInv, Pending
  <2>2. QED
    BY <1>0, <1>7, <2>1 DEF finished_exception, Goto, TypeOK, HelperInv, ResumeInv, HelperComes, Resumes
<1>8. ASSUME NEW t \in Task, set_exception(t) PROVE HelperComes'
  <2>1. Pending' = Pending
    BY <1>0, <1>8 DEF set_exception, Goto, TypeOK, HelperInv, Pending
  <2>2. QED
    BY <1>0, <1>8, <2>1 DEF set_exception, Goto, TypeOK, HelperInv, ResumeInv, HelperComes, Resumes
<1>9. ASSUME NEW t \in Task, check_resume(t) PROVE HelperComes'
  <2>1. t \in Pending /\ kind \in All
    BY <1>0, <1>9 DEF check_resume, TypeOK, HelperInv, Pending
  <2>2. Pending' = Pending \ {t}
    BY <1>0, <1>9 DEF check_resume, Goto, TypeOK, Pending
  <2>3. CASE counter = 1
    BY <1>0, <1>9, <2>3 DEF check_resume, Goto, TypeOK, HelperComes, Resumes
  <2>4. CASE counter # 1
    <3>1. IsFiniteSet(Pending) /\ Cardinality(Pending) # 1
      BY <1>0, <2>1, <2>4, PendingFinite DEF TypeOK, CountInv
    <3>2. Pending # {t}
      BY <3>1, FS_Singleton
    <3>3. Pending' # {}
      BY <2>1, <2>2, <3>2
    <3>4. QED
      BY <1>9, <2>1, <3>3 DEF check_resume, HelperComes
  <2>5. QED
    BY <2>3, <2>4
<1>10. ASSUME NEW t \in Task, exchange(t) PROVE HelperComes'
  <2>1. CASE resume
    BY <1>0, <1>10, <2>1 DEF exchange, Goto, TypeOK, HelperComes, Resumes
  <2>2. CASE ~resume
    BY <1>0, <1>10, <2>2 DEF exchange, Goto, TypeOK, HelperInv, ResumeInv, HelperComes,
       Resumes
  <2>3. QED
    BY <2>1, <2>2
<1>11. ASSUME NEW t \in Task, win(t) PROVE HelperComes'
  BY <1>0, <1>11 DEF win, Goto, TypeOK, HelperComes, Resumes
<1>12. ASSUME NEW t \in Task, continuation(t) PROVE HelperComes'
  BY <1>12 DEF continuation, HelperComes
<1>13. ASSUME NEW t \in Task, end(t) PROVE HelperComes'
  <2>1. Pending' = Pending
    BY <1>0, <1>13 DEF end, Goto, TypeOK, HelperInv, Pending
  <2>2. QED
    BY <1>0, <1>13, <2>1 DEF end, Goto, TypeOK, HelperInv, ResumeInv, HelperComes, Resumes
<1>14. CASE UNCHANGED vars
  BY <1>0, <1>14 DEF vars, block, history, HelperComes, Pending, Resumes
<1>15. QED
  BY <1>1, <1>2, <1>3, <1>4, <1>5, <1>6, <1>7, <1>8, <1>9, <1>10, <1>11, <1>12,
     <1>13, <1>14 DEF Next, Steps

(* The safety half of CoroutineResumes: a suspended coroutine is never     *)
(* left with no helper that can still resume it (when_all.h, check_resume; *)
(* when_any.h, exchange).                                                  *)
THEOREM HelperIsComing == Spec => []HelperComes
<1>1. Init => HelperComes
  BY DEF Init, HelperComes
<1>2. QED
  BY <1>1, ComesStep, InvCorrect, PTL DEF Spec

--------------------------------------------------------------------------------
(* What a step does to the list of those that have thrown, and to those    *)
(* that are ready: one awaitable ends or none does.                        *)
LEMMA EndStep ==
  ASSUME Inv, [Next]_vars
  PROVE  \/ threw' = threw /\ \A u \in Task : Came(u)' <=> Came(u)
         \/ \E t \in 1 .. n :
              /\ ~Came(t) /\ ~Threw(t) /\ Came(t)'
              /\ \/ Threw(t)' /\ threw' = Append(threw, t)
                 \/ ~Threw(t)' /\ threw' = threw
              /\ \A u \in Task \ {t} : (Threw(u)' <=> Threw(u)) /\ (Came(u)' <=> Came(u))
<1> USE DEF Task, block, history
<1>0. TypeOK /\ HelperInv /\ ResultInv
  BY DEF Inv
<1>1. ASSUME NEW t \in Task, fail(t) \/ complete(t)
      PROVE  t \in 1 .. n /\ ~Came(t) /\ ~Threw(t) /\ Came(t)'
             /\ \A u \in Task \ {t} : Came(u)' <=> Came(u)
  <2>1. /\ helper[t] = "awaiting" /\ helper'[t] \notin {"none", "awaiting"}
        /\ \A u \in Task \ {t} : helper'[u] = helper[u]
    BY <1>0, <1>1 DEF fail, complete, Goto, TypeOK
  <2>2. t \in 1 .. n
    BY <1>0, <2>1 DEF TypeOK, HelperInv
  <2> QED
    BY <1>0, <2>1, <2>2 DEF ResultInv, Came
<1>2. ASSUME NEW t \in Task, fail(t)
      PROVE  \A u \in Task : Threw(u)' <=> Threw(u) \/ u = t
  BY <1>0, <1>2, ThrewAppend DEF fail, TypeOK
<1>3. ASSUME UNCHANGED threw PROVE \A u \in Task : Threw(u)' <=> Threw(u)
  BY <1>3 DEF Threw
<1>4. ASSUME NEW t \in Task, fail(t) \/ complete(t)
      PROVE  \E v \in 1 .. n :
              /\ ~Came(v) /\ ~Threw(v) /\ Came(v)'
              /\ \/ Threw(v)' /\ threw' = Append(threw, v)
                 \/ ~Threw(v)' /\ threw' = threw
              /\ \A u \in Task \ {v} : (Threw(u)' <=> Threw(u)) /\ (Came(u)' <=> Came(u))
  <2>1. CASE fail(t)
    <3>1. \A u \in Task : Threw(u)' <=> Threw(u) \/ u = t
      BY <1>2, <2>1
    <3> QED
      BY <1>1, <2>1, <3>1 DEF fail
  <2>2. CASE complete(t)
    BY <1>1, <1>3, <2>2 DEF complete
  <2> QED
    BY <1>4, <2>1, <2>2
<1>5. ASSUME NEW t \in Task, start(t) \/ Steps(t)
      PROVE  threw' = threw /\ \A u \in Task : Came(u)' <=> Came(u)
  <2>1. CASE start(t)
    BY <1>0, <2>1 DEF start, Goto, TypeOK, HelperInv, Came
  <2>2. CASE Steps(t)
    BY <1>0, <2>2 DEF Steps, finished_exception, set_exception, check_resume,
       exchange, win, continuation, end, Goto, TypeOK, Came
  <2> QED
    BY <1>5, <2>1, <2>2
<1>6. CASE await_ready \/ await_suspend \/ await_resume \/ UNCHANGED vars
  BY <1>6 DEF await_ready, await_suspend, await_resume, vars, Came
<1> QED
  BY <1>4, <1>5, <1>6 DEF Next

(* Whoever is the only one to have thrown is the first.                    *)
LEMMA FirstOfOne ==
  ASSUME threw \in Seq(Task), Len(threw) <= 1, NEW t \in Task, Threw(t)
  PROVE  threw # <<>> /\ Head(threw) = t
<1>1. PICK i \in DOMAIN threw : threw[i] = t
  BY DEF Threw
<1>2. DOMAIN threw = 1 .. Len(threw) /\ Len(threw) \in Nat
  OBVIOUS
<1>3. i = 1 /\ Len(threw) = 1
  BY <1>1, <1>2
<1> QED
  BY <1>1, <1>3

LEMMA FirstStays ==
  ASSUME threw \in Seq(Task), NEW t \in Task, threw' = Append(threw, t)
  PROVE  /\ threw' # <<>> /\ Len(threw') = Len(threw) + 1
         /\ threw # <<>> => Head(threw') = Head(threw)
<1>1. Len(threw') = Len(threw) + 1 /\ threw'[1] = IF threw = <<>> THEN t ELSE threw[1]
  BY DEF Task
<1> QED
  BY <1>1

(* The exception of when_all stays that of the first that threw            *)
(* (when_all.h, finished_exception), unless a second one threw before it   *)
(* was stored.                                                             *)
LEMMA ExceptionStep == Inv /\ ExceptionInv /\ [Next]_vars => ExceptionInv'
<1> SUFFICES ASSUME Inv, ExceptionInv, [Next]_vars PROVE ExceptionInv'
  OBVIOUS
<1> USE DEF block, history
<1>0. /\ TypeOK /\ HelperInv /\ ResultInv
      /\ kind' = kind /\ n' = n
  BY DEF Inv, Next, Steps, vars, await_ready, await_suspend, await_resume, start, fail, complete,
     finished_exception, set_exception, check_resume, exchange, win, continuation, end
<1>a. kind \in All => \A t \in Task : helper[t] \notin {"exchanging", "winning"}
  BY <1>0 DEF HelperInv
<1>2. ASSUME UNCHANGED <<exception, index, threw, raced>>,
             \A t \in Task : helper'[t] \in {"testing", "setting"} => helper'[t] = helper[t]
      PROVE  ExceptionInv'
  BY <1>0, <1>2 DEF ExceptionInv, Threw
<1>3. ASSUME NEW t \in Task, fail(t) PROVE ExceptionInv'
  <2>1. /\ \A u \in Task \ {t} : helper'[u] = helper[u]
        /\ helper'[t] # "setting"
        /\ UNCHANGED <<exception, index>>
        /\ threw' = Append(threw, t) /\ threw \in Seq(Task)
    BY <1>0, <1>3 DEF fail, Goto, TypeOK
  <2>2. \A u \in Task : Threw(u)' <=> Threw(u) \/ u = t
    BY <2>1, ThrewAppend
  <2>3. /\ threw' # <<>> /\ Len(threw') = Len(threw) + 1
        /\ threw # <<>> => Head(threw') = Head(threw)
        /\ threw = <<>> => Len(threw) = 0
    BY <2>1, FirstStays
  <2>4. raced' <=> raced \/ (kind \in All /\ threw # <<>> /\ exception = None)
    BY <1>3 DEF fail
  <2>5. ASSUME kind \in All, ~raced'
        PROVE  /\ exception' = None => Len(threw') <= 1
               /\ exception' # None => threw' # <<>> /\ exception' = Head(threw')
               /\ \A u \in Task : helper'[u] = "setting" => exception' = None
    BY <2>1, <2>3, <2>4, <2>5 DEF ExceptionInv
  <2> QED
    BY <1>0, <2>1, <2>2, <2>3, <2>4, <2>5 DEF ExceptionInv
<1>4. ASSUME NEW t \in Task, set_exception(t) PROVE ExceptionInv'
  <2>1. /\ helper[t] = "setting" /\ helper'[t] = "counting"
        /\ \A u \in Task \ {t} : helper'[u] = helper[u]
        /\ UNCHANGED <<index, threw, raced>>
        /\ exception = None => exception' = t
        /\ threw \in Seq(Task)
    BY <1>0, <1>4 DEF set_exception, Goto, TypeOK
  <2>2. ASSUME kind \in All, ~raced
        PROVE  /\ exception' = t /\ threw # <<>> /\ Head(threw) = t
               /\ \A u \in Task : helper'[u] # "setting"
    <3>1. exception = None /\ Len(threw) <= 1 /\ Threw(t)
      BY <2>1, <2>2 DEF ExceptionInv
    <3>2. threw # <<>> /\ Head(threw) = t
      BY <2>1, <3>1, FirstOfOne
    <3>3. ASSUME NEW u \in Task, helper[u] = "setting" PROVE u = t
      <4>1. Threw(u)
        BY <2>2, <3>3 DEF ExceptionInv
      <4> QED
        BY <2>1, <3>1, <3>2, <4>1, FirstOfOne
    <3> QED
      BY <2>1, <3>1, <3>2, <3>3
  <2>3. t # None
    BY WhenAssumption DEF Task
  <2> QED
    BY <1>0, <2>1, <2>2, <2>3 DEF ExceptionInv, Threw
<1>5. ASSUME NEW t \in Task, finished_exception(t) PROVE ExceptionInv'
  <2>1. /\ helper[t] = "testing" /\ UNCHANGED <<exception, index, threw, raced>>
        /\ \A u \in Task \ {t} : helper'[u] = helper[u]
        /\ helper'[t] = "setting" => exception = None
    BY <1>0, <1>5 DEF finished_exception, Goto, TypeOK
  <2> QED
    BY <1>0, <2>1 DEF ExceptionInv, Threw
<1>6. ASSUME NEW t \in Task, start(t) \/ complete(t) \/ check_resume(t) \/ continuation(t) \/ end(t)
      PROVE  ExceptionInv'
  BY <1>0, <1>2, <1>6 DEF start, complete, check_resume, continuation, end, Goto, TypeOK
<1>7. ASSUME NEW t \in Task, exchange(t) \/ win(t) PROVE ExceptionInv'
  BY <1>0, <1>a, <1>7 DEF exchange, win, ExceptionInv, Threw
<1>8. CASE await_ready \/ await_suspend \/ await_resume \/ UNCHANGED vars
  BY <1>2, <1>8 DEF await_ready, await_suspend, await_resume, vars
<1> QED
  BY <1>3, <1>4, <1>5, <1>6, <1>7, <1>8 DEF Next, Steps

(* Every step of a call is one of Gather or changes nothing that it shows. *)
LEMMA GatherStep == Inv /\ ExceptionInv /\ [Next]_vars => [G!Next]_(G!vars)
<1> SUFFICES ASSUME Inv, ExceptionInv, [Next]_vars PROVE [G!Next]_(G!vars)
  OBVIOUS
<1> USE DEF block, history
<1> DEFINE outcome == [t \in Task |-> IF Threw(t) THEN "exception"
                                       ELSE IF Came(t) THEN "value" ELSE "none"]
<1>0. TypeOK /\ HelperInv /\ ResultInv /\ CountInv /\ ResumeInv
  BY DEF Inv
<1>1. kind' = kind /\ n' = n /\ n \in Nat /\ 1 .. n \subseteq Task
  BY <1>0, WhenAssumption
     DEF Next, Steps, vars, await_ready, await_suspend, await_resume, start, fail, complete,
     finished_exception, set_exception, check_resume, exchange, win, continuation, end, TypeOK, Task
<1>2. ASSUME \A u \in Task : (Threw(u)' <=> Threw(u)) /\ (Came(u)' <=> Came(u))
      PROVE  outcome' = outcome
  BY <1>2
<1>3. CASE await_resume
  <2>1. /\ pc = "resumed" /\ pc' = "returned"
        /\ returned' = [exception |-> exception, results |-> results, index |-> index]
        /\ UNCHANGED <<helper, threw, raced>>
    BY <1>3 DEF await_resume
  <2>2. outcome' = outcome
    BY <1>2, <2>1 DEF Came, Threw
  <2>3. ASSUME kind \in All PROVE G!GiveAll
    <3>1. \A t \in 1 .. n : Came(t)
      BY <1>0, <2>1, <2>3 DEF CountInv, Pending, Came
    <3>2. results = {t \in 1 .. n : outcome[t] = "value"}
      BY <1>0, <1>1, <2>3, <3>1 DEF ResultInv, AllInv
    <3>3. exception = None <=> threw = <<>>
      <4>1. \A t \in 1 .. n : helper[t] \notin {"testing", "setting"}
        BY <1>0, <2>1, <2>3 DEF CountInv, Pending
      <4> QED
        BY <1>0, <2>3, <4>1 DEF ResultInv, AllInv
    <3>4. index = 0
      BY <2>3 DEF ExceptionInv
    <3>5. Answer' = G!Answer(IF threw = <<>> THEN None ELSE Head(threw), results, 0)
      <4>1. CASE threw = <<>>
        BY <2>1, <3>3, <3>4, <4>1 DEF Answer, G!Answer
      <4>2. CASE threw # <<>> /\ raced
        BY <2>1, <3>3, <3>4, <4>2 DEF Answer, G!Answer
      <4>3. CASE threw # <<>> /\ ~raced
        BY <2>1, <2>3, <3>3, <3>4, <4>3 DEF Answer, G!Answer, ExceptionInv
      <4> QED
        BY <4>1, <4>2, <4>3
    <3>6. \A t \in 1 .. n : outcome[t] # "none"
      BY <1>1, <3>1
    <3> QED
      BY <2>3, <3>2, <3>5, <3>6 DEF G!GiveAll
  <2>4. ASSUME kind \notin All, n # 0 PROVE G!GiveFirst
    <3>1. PICK t \in Task : Came(t) /\ IsOf(t)
      BY <1>0, <2>1, <2>4 DEF ResultInv, AnyInv, Decided, TypeOK
    <3>2. t \in 1 .. n
      BY <1>0, <3>1 DEF Came, HelperInv, TypeOK, Task
    <3>3. CASE Threw(t)
      <4>1. outcome[t] = "exception" /\ Answer' = G!Answer(t, {}, 0)
        BY <2>1, <2>4, <3>1, <3>3 DEF IsOf, Answer, ExceptionInv, G!Answer
      <4> QED
        BY <2>4, <3>2, <4>1 DEF G!GiveFirst
    <3>4. CASE ~Threw(t)
      <4>1. outcome[t] = "value" /\ Answer' = G!Answer(None, {t}, t)
        BY <2>1, <2>4, <3>1, <3>4 DEF IsOf, Answer, ExceptionInv, G!Answer
      <4> QED
        BY <2>4, <3>2, <4>1 DEF G!GiveFirst
    <3> QED
      BY <3>3, <3>4
  <2>5. ASSUME kind \notin All, n = 0 PROVE G!GiveNothing
    <3>1. exception = None /\ results = {} /\ index = 0
      BY <1>0, <2>5 DEF ResultInv, AnyInv, Undecided, TypeOK
    <3> QED
      BY <2>1, <2>5, <3>1 DEF G!GiveNothing, Answer, ExceptionInv, G!Answer
  <2> QED
    BY <1>1, <2>1, <2>2, <2>3, <2>4, <2>5 DEF G!Next, G!Give
<1>4. ASSUME pc' = "returned" <=> pc = "returned", Answer' = Answer
      PROVE  [G!Next]_(G!vars)
  <2>1. CASE threw' = threw /\ \A u \in Task : Came(u)' <=> Came(u)
    <3>1. outcome' = outcome
      BY <1>2, <2>1 DEF Threw
    <3> QED
      BY <1>1, <1>4, <2>1, <3>1 DEF G!vars
  <2>2. ASSUME NEW t \in 1 .. n, ~Came(t), ~Threw(t), Came(t)',
               \/ Threw(t)' /\ threw' = Append(threw, t)
               \/ ~Threw(t)' /\ threw' = threw,
               \A u \in Task \ {t} : (Threw(u)' <=> Threw(u)) /\ (Came(u)' <=> Came(u))
        PROVE  G!Next
    <3>1. t \in Task /\ outcome[t] = "none" /\ t <= n
      BY <1>1, <2>2
    <3>2. outcome' = [outcome EXCEPT ![t] = IF Threw(t)' THEN "exception" ELSE "value"]
      BY <2>2
    <3>3. G!End(t)
      BY <1>1, <1>4, <2>2, <3>1, <3>2 DEF G!End
    <3> QED
      BY <3>1, <3>3 DEF G!Next
  <2> QED
    BY <2>1, <2>2, EndStep
<1>5. ASSUME NEW t \in Task, continuation(t) PROVE pc # "returned" /\ pc' # "returned"
  BY <1>0, <1>5 DEF continuation, ResumeInv, Resumes
<1>6. CASE ~await_resume
  <2>1. (pc' = "returned" <=> pc = "returned") /\ returned' = returned
    BY <1>5, <1>6 DEF Next, Steps, vars, await_ready, await_suspend, start, fail, complete,
       finished_exception, set_exception, check_resume, exchange, win, continuation, end
  <2>2. pc = "returned" => raced' = raced /\ (raced => threw' = threw)
    <3>1. ASSUME NEW t \in Task, fail(t), kind \in All PROVE pc # "returned"
      <4>1. t \in Pending
        BY <1>0, <3>1 DEF fail, Pending, HelperInv, TypeOK, Task
      <4> QED
        BY <1>0, <3>1, <4>1 DEF CountInv
    <3>2. ASSUME NEW t \in Task, fail(t), kind \notin All PROVE ~raced /\ raced' = raced
      BY <1>0, <3>2 DEF fail, ExceptionInv, TypeOK
    <3>3. CASE \E t \in Task : fail(t)
      BY <3>1, <3>2, <3>3
    <3>4. CASE \A t \in Task : ~fail(t)
      <4>1. raced' = raced /\ threw' = threw
        BY <1>6, <3>4 DEF Next, Steps, vars, await_ready, await_suspend, start, complete,
           finished_exception, set_exception, check_resume, exchange, win, continuation, end
      <4> QED
        BY <4>1
    <3> QED
      BY <3>3, <3>4
  <2>3. Answer' = Answer
    BY <2>1, <2>2 DEF Answer
  <2> QED
    BY <1>4, <2>1, <2>3
<1> QED
  BY <1>3, <1>6

(* when_all and when_any implement Gather (await_resume): the coroutine is *)
(* given its answer once, not before all awaitables, or one, have ended,   *)
(* and with the first exception - or, of when_all, any if one threw when   *)
(* the exception of another was not yet stored (finished_exception).       *)
THEOREM GatherRefinement == Spec => ImplementsGather
<1>1. Init => G!Init /\ ExceptionInv
  <2> SUFFICES ASSUME Init PROVE G!Init /\ ExceptionInv
    OBVIOUS
  <2>1. n \in Nat /\ threw = <<>> /\ \A t \in Task : ~Came(t) /\ ~Threw(t)
    BY WhenAssumption DEF Init, Came, Threw
  <2>2. G!Init
    BY <2>1 DEF Init, Nothing, Answer, G!Init, G!Answer
  <2>3. ExceptionInv
    BY WhenAssumption DEF Init, ExceptionInv, Task
  <2> QED
    BY <2>2, <2>3
<1> QED
  BY <1>1, InvCorrect, ExceptionStep, GatherStep, PTL DEF Spec, ImplementsGather, G!Spec
================================================================================
