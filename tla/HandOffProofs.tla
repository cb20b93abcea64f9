------------------------------ MODULE HandOffProofs ----------------------------
(***************************************************************************)
(* Proofs about SharedFuture, for any number of users and any results, and *)
(* about AsyncQueue, for any sets of items and exceptions and any bounds.  *)
(* The two have nothing to do with each other: each proof is about the     *)
(* variables of one of them.                                               *)
(***************************************************************************)
EXTENDS SharedFuture, AsyncQueue, TLAPS

(* The invariant holds when the shared_future is made.                     *)
LEMMA InitInv == Init => Inv
<1> SUFFICES ASSUME Init PROVE Inv
  OBVIOUS
<1> USE SharedFutureAssumption DEF Init
<1>1. TypeOK
  BY DEF TypeOK
<1>2. PromiseInv
  BY DEF PromiseInv
<1>3. StartInv /\ ListInv
  BY DEF StartInv, ListInv, Before
<1> QED
  BY <1>1, <1>2, <1>3 DEF Inv

(* Every step of a user, of start() and of the promise preserves the       *)
(* invariant.                                                              *)
LEMMA NextInv == Inv /\ [Next]_vars => Inv'
<1> SUFFICES ASSUME Inv, [Next]_vars PROVE Inv'
  OBVIOUS
<1> USE SharedFutureAssumption DEF Inv, promiseVars, implVars
<1>1. ASSUME NEW u \in User, NEW v \in User, Copy(u, v) PROVE Inv'
  <2>1. TypeOK'
    BY <1>1 DEF Copy, TypeOK
  <2>2. PromiseInv'
    BY <1>1 DEF Copy, TypeOK, PromiseInv, StartInv, Before
  <2>3. StartInv'
    BY <1>1 DEF Copy, TypeOK, PromiseInv, StartInv, ListInv, Before
  <2>4. ListInv'
    BY <1>1 DEF Copy, TypeOK, StartInv, ListInv, Before
  <2> QED
    BY <2>1, <2>2, <2>3, <2>4
<1>2. ASSUME NEW u \in User, NEW v \in User, resume_on_background(u, v) PROVE Inv'
  <2>1. TypeOK'
    BY <1>2 DEF resume_on_background, TypeOK, ListInv
  <2>2. PromiseInv'
    BY <1>2 DEF resume_on_background, TypeOK, PromiseInv, StartInv, Before
  <2>3. StartInv'
    BY <1>2 DEF resume_on_background, TypeOK, PromiseInv, StartInv, ListInv, Before
  <2>4. ListInv'
    BY <1>2 DEF resume_on_background, TypeOK, StartInv, ListInv, Before
  <2> QED
    BY <2>1, <2>2, <2>3, <2>4
<1>3. CASE set
  <2>1. TypeOK'
    BY <1>3 DEF set, TypeOK
  <2>2. PromiseInv'
    BY <1>3 DEF set, TypeOK, PromiseInv, StartInv, Before
  <2>3. StartInv'
    BY <1>3 DEF set, TypeOK, PromiseInv, StartInv, ListInv, Before
  <2>4. ListInv'
    BY <1>3 DEF set, TypeOK, StartInv, ListInv, Before
  <2> QED
    BY <2>1, <2>2, <2>3, <2>4
<1>4. CASE check_resume
  <2>1. TypeOK'
    BY <1>4 DEF check_resume, TypeOK
  <2>2. PromiseInv'
    BY <1>4 DEF check_resume, TypeOK, PromiseInv, StartInv, Before
  <2>3. StartInv'
    BY <1>4 DEF check_resume, TypeOK, PromiseInv, StartInv, ListInv, Before
  <2>4. ListInv'
    BY <1>4 DEF check_resume, TypeOK, PromiseInv, StartInv, ListInv, Before
  <2> QED
    BY <2>1, <2>2, <2>3, <2>4
<1>5. ASSUME NEW u \in User, Drop(u) PROVE Inv'
  <2>1. TypeOK'
    BY <1>5 DEF Drop, TypeOK
  <2>2. PromiseInv'
    BY <1>5 DEF Drop, TypeOK, PromiseInv, StartInv, Before
  <2>3. StartInv'
    BY <1>5 DEF Drop, TypeOK, PromiseInv, StartInv, ListInv, Before
  <2>4. ListInv'
    BY <1>5 DEF Drop, TypeOK, StartInv, ListInv, Before
  <2> QED
    BY <2>1, <2>2, <2>3, <2>4
<1>6. ASSUME NEW u \in User, wait(u) PROVE Inv'
  <2>1. TypeOK'
    BY <1>6 DEF wait, TypeOK
  <2>2. PromiseInv'
    BY <1>6 DEF wait, TypeOK, PromiseInv, StartInv, Before
  <2>3. StartInv'
    BY <1>6 DEF wait, TypeOK, PromiseInv, StartInv, ListInv, Before
  <2>4. ListInv'
    BY <1>6 DEF wait, TypeOK, StartInv, ListInv, Before
  <2> QED
    BY <2>1, <2>2, <2>3, <2>4
<1>7. ASSUME NEW u \in User, await_ready(u) PROVE Inv'
  <2>1. TypeOK'
    BY <1>7 DEF await_ready, TypeOK
  <2>2. PromiseInv'
    BY <1>7 DEF await_ready, TypeOK, PromiseInv, StartInv, Before
  <2>3. StartInv'
    BY <1>7 DEF await_ready, TypeOK, PromiseInv, StartInv, ListInv, Before
  <2>4. ListInv'
    BY <1>7 DEF await_ready, TypeOK, StartInv, ListInv, Before
  <2> QED
    BY <2>1, <2>2, <2>3, <2>4
<1>8. ASSUME NEW u \in User, await_suspend(u) PROVE Inv'
  <2>1. TypeOK'
    BY <1>8 DEF await_suspend, TypeOK
  <2>2. PromiseInv'
    BY <1>8 DEF await_suspend, TypeOK, PromiseInv, StartInv, Before
  <2>3. StartInv'
    BY <1>8 DEF await_suspend, TypeOK, PromiseInv, StartInv, ListInv, Before
  <2>4. ListInv'
    BY <1>8 DEF await_suspend, TypeOK, StartInv, ListInv, Before
  <2> QED
    BY <2>1, <2>2, <2>3, <2>4
<1>9. ASSUME NEW u \in User, Resume(u) PROVE Inv'
  <2>1. TypeOK'
    BY <1>9 DEF Resume, TypeOK
  <2>2. PromiseInv'
    BY <1>9 DEF Resume, TypeOK, PromiseInv, StartInv, Before
  <2>3. StartInv'
    BY <1>9 DEF Resume, TypeOK, PromiseInv, StartInv, ListInv, Before
  <2>4. ListInv'
    BY <1>9 DEF Resume, TypeOK, StartInv, ListInv, Before
  <2> QED
    BY <2>1, <2>2, <2>3, <2>4
<1>10. ASSUME NEW u \in User, await_resume(u) PROVE Inv'
  <2>1. TypeOK'
    BY <1>10 DEF await_resume, TypeOK
  <2>2. PromiseInv'
    BY <1>10 DEF await_resume, TypeOK, PromiseInv, StartInv, Before
  <2>3. StartInv'
    BY <1>10 DEF await_resume, TypeOK, PromiseInv, StartInv, ListInv, Before
  <2>4. ListInv'
    BY <1>10 DEF await_resume, TypeOK, StartInv, ListInv, Before
  <2> QED
    BY <2>1, <2>2, <2>3, <2>4
<1>11. ASSUME NEW u \in User, start_begin(u) PROVE Inv'
  <2>1. TypeOK'
    BY <1>11 DEF start_begin, TypeOK
  <2>2. PromiseInv'
    BY <1>11 DEF start_begin, TypeOK, PromiseInv, StartInv, Before
  <2>3. StartInv'
    BY <1>11 DEF start_begin, TypeOK, PromiseInv, StartInv, ListInv, Before
  <2>4. ListInv'
    BY <1>11 DEF start_begin, TypeOK, StartInv, ListInv, Before
  <2> QED
    BY <2>1, <2>2, <2>3, <2>4
<1>12. ASSUME NEW u \in User, future_await_ready(u) PROVE Inv'
  <2>1. TypeOK'
    BY <1>12 DEF future_await_ready, TypeOK
  <2>2. PromiseInv'
    BY <1>12 DEF future_await_ready, TypeOK, PromiseInv, StartInv, Before
  <2>3. StartInv'
    BY <1>12 DEF future_await_ready, TypeOK, PromiseInv, StartInv, ListInv, Before
  <2>4. ListInv'
    BY <1>12 DEF future_await_ready, TypeOK, StartInv, ListInv, Before
  <2> QED
    BY <2>1, <2>2, <2>3, <2>4
<1>13. ASSUME NEW u \in User, future_await_suspend(u) PROVE Inv'
  <2>1. TypeOK'
    BY <1>13 DEF future_await_suspend, TypeOK
  <2>2. PromiseInv'
    BY <1>13 DEF future_await_suspend, TypeOK, PromiseInv, StartInv, Before
  <2>3. StartInv'
    BY <1>13 DEF future_await_suspend, TypeOK, PromiseInv, StartInv, ListInv, Before
  <2>4. ListInv'
    BY <1>13 DEF future_await_suspend, TypeOK, StartInv, ListInv, Before
  <2> QED
    BY <2>1, <2>2, <2>3, <2>4
<1>14. ASSUME NEW u \in User, start_ready(u) PROVE Inv'
  <2>1. TypeOK'
    BY <1>14 DEF start_ready, TypeOK
  <2>2. PromiseInv'
    BY <1>14 DEF start_ready, TypeOK, PromiseInv, StartInv, Before
  <2>3. StartInv'
    BY <1>14 DEF start_ready, TypeOK, PromiseInv, StartInv, ListInv, Before
  <2>4. ListInv'
    BY <1>14 DEF start_ready, TypeOK, StartInv, ListInv, Before
  <2> QED
    BY <2>1, <2>2, <2>3, <2>4
<1>15. ASSUME NEW u \in User, start_return(u) PROVE Inv'
  <2>1. TypeOK'
    BY <1>15 DEF start_return, TypeOK
  <2>2. PromiseInv'
    BY <1>15 DEF start_return, TypeOK, PromiseInv, StartInv, Before
  <2>3. StartInv'
    BY <1>15 DEF start_return, TypeOK, PromiseInv, StartInv, ListInv, Before
  <2>4. ListInv'
    BY <1>15 DEF start_return, TypeOK, StartInv, ListInv, Before
  <2> QED
    BY <2>1, <2>2, <2>3, <2>4
<1>16. CASE UNCHANGED vars
  BY <1>16 DEF vars, TypeOK, PromiseInv, StartInv, ListInv, Before
<1> QED
  BY <1>1, <1>2, <1>3, <1>4, <1>5, <1>6, <1>7, <1>8, <1>9, <1>10, <1>11, <1>12,
     <1>13, <1>14, <1>15, <1>16 DEF Next

(* The variables of the promise, of the impl and of its users keep to the  *)
(* invariant.                                                              *)
THEOREM InvCorrect == Spec => []Inv
  BY InitInv, NextInv, PTL DEF Spec

(* The future under a shared_future is awaited once, by the first start(). *)
THEOREM AwaitedOnce == Spec => []FutureAwaitedOnce
<1>1. Inv => FutureAwaitedOnce
  BY DEF Inv, StartInv, FutureAwaitedOnce
<1> QED
  BY <1>1, InvCorrect, PTL

(* Whoever suspends is in one list, and a start() is on its way to him.    *)
THEOREM SomebodyComes == Spec => []NobodyStranded
<1>1. Inv => NobodyStranded
  BY DEF Inv, TypeOK, StartInv, ListInv, NobodyStranded
<1> QED
  BY <1>1, InvCorrect, PTL

(* start() may use a plain this: the user that called it holds a handle to *)
(* the impl, and is suspended until start() has let go of it.              *)
THEOREM ImplSafety == Spec => []ImplOutlivesStart
<1>1. Inv => ImplOutlivesStart
  BY DEF Inv, ListInv, ImplOutlivesStart, Holds
<1> QED
  BY <1>1, InvCorrect, PTL

--------------------------------------------------------------------------------

(* Every critical section of the queue and every step of the consumer      *)
(* preserves the invariant.                                                *)
LEMMA SingleNextInv == AQInv /\ [AQNext]_(aqVars) => AQInv'
<1> SUFFICES ASSUME AQInv, [AQNext]_(aqVars) PROVE AQInv'
  OBVIOUS
<1> USE QueueAssumption DEF AQInv, Phases
<1>1. CASE is_ready
  <2>1. queue' \in Seq(Item)
    <3>1. \/ queue' = queue
          \/ queue # <<>> /\ queue' = Tail(queue)
      BY <1>1 DEF is_ready
    <3> QED
      BY <3>1 DEF AQTypeOK
  <2>2. exception' \in Failure \cup {Nothing} /\ phase' \in Phases
    BY <1>1 DEF is_ready, AQTypeOK
  <2>3. current' \in BOOLEAN
    BY <1>1 DEF is_ready, AQTypeOK
  <2>4. aq_value' \in Item \cup Failure \cup {Nothing}
    BY <1>1 DEF is_ready, AQTypeOK, NoStrandedConsumer
  <2>5. received' \in Seq(Item \cup Failure)
    BY <1>1 DEF is_ready, AQTypeOK, ValueIffResumed
  <2>6. NoStrandedConsumer'
    BY <1>1 DEF is_ready, AQTypeOK, NoStrandedConsumer
  <2>7. ValueIffResumed'
    BY <1>1 DEF is_ready, AQTypeOK, NoStrandedConsumer, ValueIffResumed
  <2> QED
    BY <2>1, <2>2, <2>3, <2>4, <2>5, <2>6, <2>7 DEF AQTypeOK
<1>2. CASE set_awaitable
  <2>1. queue' \in Seq(Item)
    BY <1>2 DEF set_awaitable, AQTypeOK, NoStrandedConsumer
  <2>2. exception' \in Failure \cup {Nothing} /\ phase' \in Phases
    BY <1>2 DEF set_awaitable, AQTypeOK
  <2>3. current' \in BOOLEAN
    BY <1>2 DEF set_awaitable, AQTypeOK
  <2>4. aq_value' \in Item \cup Failure \cup {Nothing}
    BY <1>2 DEF set_awaitable, AQTypeOK, NoStrandedConsumer
  <2>5. received' \in Seq(Item \cup Failure)
    BY <1>2 DEF set_awaitable, AQTypeOK, ValueIffResumed
  <2>6. NoStrandedConsumer'
    BY <1>2 DEF set_awaitable, AQTypeOK, NoStrandedConsumer
  <2>7. ValueIffResumed'
    BY <1>2 DEF set_awaitable, AQTypeOK, NoStrandedConsumer, ValueIffResumed
  <2> QED
    BY <2>1, <2>2, <2>3, <2>4, <2>5, <2>6, <2>7 DEF AQTypeOK
<1>3. CASE aq_resume
  <2>1. queue' \in Seq(Item)
    BY <1>3 DEF aq_resume, AQTypeOK, NoStrandedConsumer
  <2>2. exception' \in Failure \cup {Nothing} /\ phase' \in Phases
    BY <1>3 DEF aq_resume, AQTypeOK
  <2>3. current' \in BOOLEAN
    BY <1>3 DEF aq_resume, AQTypeOK
  <2>4. aq_value' \in Item \cup Failure \cup {Nothing}
    BY <1>3 DEF aq_resume, AQTypeOK, NoStrandedConsumer
  <2>5. received' \in Seq(Item \cup Failure)
    BY <1>3 DEF aq_resume, AQTypeOK, ValueIffResumed
  <2>6. NoStrandedConsumer'
    BY <1>3 DEF aq_resume, AQTypeOK, NoStrandedConsumer
  <2>7. ValueIffResumed'
    BY <1>3 DEF aq_resume, AQTypeOK, NoStrandedConsumer, ValueIffResumed
  <2> QED
    BY <2>1, <2>2, <2>3, <2>4, <2>5, <2>6, <2>7 DEF AQTypeOK
<1>4. CASE aq_await_resume
  <2>1. queue' \in Seq(Item)
    BY <1>4 DEF aq_await_resume, AQTypeOK, NoStrandedConsumer
  <2>2. exception' \in Failure \cup {Nothing} /\ phase' \in Phases
    BY <1>4 DEF aq_await_resume, AQTypeOK
  <2>3. current' \in BOOLEAN
    BY <1>4 DEF aq_await_resume, AQTypeOK
  <2>4. aq_value' \in Item \cup Failure \cup {Nothing}
    BY <1>4 DEF aq_await_resume, AQTypeOK, NoStrandedConsumer
  <2>5. received' \in Seq(Item \cup Failure)
    BY <1>4 DEF aq_await_resume, AQTypeOK, ValueIffResumed
  <2>6. NoStrandedConsumer'
    BY <1>4 DEF aq_await_resume, AQTypeOK, NoStrandedConsumer
  <2>7. ValueIffResumed'
    BY <1>4 DEF aq_await_resume, AQTypeOK, NoStrandedConsumer, ValueIffResumed
  <2> QED
    BY <2>1, <2>2, <2>3, <2>4, <2>5, <2>6, <2>7 DEF AQTypeOK
<1>5. ASSUME NEW i \in Item, push(i)
      PROVE  AQInv'
  <2>1. queue' \in Seq(Item)
    BY <1>5 DEF push, drain, AQTypeOK, NoStrandedConsumer
  <2>2. exception' \in Failure \cup {Nothing} /\ phase' \in Phases
    BY <1>5 DEF push, drain, AQTypeOK
  <2>3. current' \in BOOLEAN
    BY <1>5 DEF push, drain, AQTypeOK
  <2>4. aq_value' \in Item \cup Failure \cup {Nothing}
    BY <1>5 DEF push, drain, AQTypeOK, NoStrandedConsumer
  <2>5. received' \in Seq(Item \cup Failure)
    BY <1>5 DEF push, drain, AQTypeOK, ValueIffResumed
  <2>6. NoStrandedConsumer'
    BY <1>5 DEF push, drain, AQTypeOK, NoStrandedConsumer
  <2>7. ValueIffResumed'
    BY <1>5 DEF push, drain, AQTypeOK, NoStrandedConsumer, ValueIffResumed
  <2> QED
    BY <2>1, <2>2, <2>3, <2>4, <2>5, <2>6, <2>7 DEF AQTypeOK
<1>6. ASSUME NEW e \in Failure, push_exception(e)
      PROVE  AQInv'
  <2>1. queue' \in Seq(Item)
    BY <1>6 DEF push_exception, drain, AQTypeOK, NoStrandedConsumer
  <2>2. exception' \in Failure \cup {Nothing} /\ phase' \in Phases
    BY <1>6 DEF push_exception, drain, AQTypeOK
  <2>3. current' \in BOOLEAN
    BY <1>6 DEF push_exception, drain, AQTypeOK
  <2>4. aq_value' \in Item \cup Failure \cup {Nothing}
    BY <1>6 DEF push_exception, drain, AQTypeOK, NoStrandedConsumer
  <2>5. received' \in Seq(Item \cup Failure)
    BY <1>6 DEF push_exception, drain, AQTypeOK, ValueIffResumed
  <2>6. NoStrandedConsumer'
    BY <1>6 DEF push_exception, drain, AQTypeOK, NoStrandedConsumer
  <2>7. ValueIffResumed'
    BY <1>6 DEF push_exception, drain, AQTypeOK, NoStrandedConsumer,
                ValueIffResumed
  <2> QED
    BY <2>1, <2>2, <2>3, <2>4, <2>5, <2>6, <2>7 DEF AQTypeOK
<1>7. CASE clear
  <2>1. queue' \in Seq(Item)
    BY <1>7 DEF clear, AQTypeOK, NoStrandedConsumer
  <2>2. exception' \in Failure \cup {Nothing} /\ phase' \in Phases
    BY <1>7 DEF clear, AQTypeOK
  <2>3. current' \in BOOLEAN
    BY <1>7 DEF clear, AQTypeOK
  <2>4. aq_value' \in Item \cup Failure \cup {Nothing}
    BY <1>7 DEF clear, AQTypeOK, NoStrandedConsumer
  <2>5. received' \in Seq(Item \cup Failure)
    BY <1>7 DEF clear, AQTypeOK, ValueIffResumed
  <2>6. NoStrandedConsumer'
    BY <1>7 DEF clear, AQTypeOK, NoStrandedConsumer
  <2>7. ValueIffResumed'
    BY <1>7 DEF clear, AQTypeOK, NoStrandedConsumer, ValueIffResumed
  <2> QED
    BY <2>1, <2>2, <2>3, <2>4, <2>5, <2>6, <2>7 DEF AQTypeOK
<1>8. CASE UNCHANGED aqVars
  <2>1. queue' \in Seq(Item)
    BY <1>8 DEF aqVars, AQTypeOK, NoStrandedConsumer
  <2>2. exception' \in Failure \cup {Nothing} /\ phase' \in Phases
    BY <1>8 DEF aqVars, AQTypeOK
  <2>3. current' \in BOOLEAN
    BY <1>8 DEF aqVars, AQTypeOK
  <2>4. aq_value' \in Item \cup Failure \cup {Nothing}
    BY <1>8 DEF aqVars, AQTypeOK, NoStrandedConsumer
  <2>5. received' \in Seq(Item \cup Failure)
    BY <1>8 DEF aqVars, AQTypeOK, ValueIffResumed
  <2>6. NoStrandedConsumer'
    BY <1>8 DEF aqVars, AQTypeOK, NoStrandedConsumer
  <2>7. ValueIffResumed'
    BY <1>8 DEF aqVars, AQTypeOK, NoStrandedConsumer, ValueIffResumed
  <2> QED
    BY <2>1, <2>2, <2>3, <2>4, <2>5, <2>6, <2>7 DEF AQTypeOK
<1> QED
  BY <1>1, <1>2, <1>3, <1>4, <1>5, <1>6, <1>7, <1>8 DEF AQNext

(* The invariant holds in every state: the types, and that an awaitable    *)
(* has its result exactly while its coroutine is on its way back.          *)
THEOREM SingleInvCorrect == AQSpec => []AQInv
<1>1. AQInit => AQInv
  <2> SUFFICES ASSUME AQInit PROVE AQInv
    OBVIOUS
  <2>1. current \in BOOLEAN
    BY DEF AQInit
  <2>2. AQTypeOK
    BY <2>1 DEF AQInit, AQTypeOK, Phases
  <2>3. NoStrandedConsumer /\ ValueIffResumed
    BY DEF AQInit, NoStrandedConsumer, ValueIffResumed
  <2> QED
    BY <2>2, <2>3 DEF AQInv
<1> QED
  BY <1>1, SingleNextInv, PTL DEF AQSpec

(* No item and no exception is missed in the window between await_ready    *)
(* and await_suspend.                                                      *)
THEOREM SingleConsumerNotStranded == AQSpec => []NoStrandedConsumer
<1>1. AQInv => NoStrandedConsumer
  BY DEF AQInv
<1> QED
  BY <1>1, SingleInvCorrect, PTL

(* Handing r to the one consumer is what the channel calls receiving it.   *)
LEMMA SingleReceives ==
  ASSUME NEW a, NEW r
  PROVE  [k \in {"consumer"} |-> Append(a, r)]
           = [[k \in {"consumer"} |-> a] EXCEPT !["consumer"] = Append(@, r)]
OBVIOUS

(* Every step of the queue is a step of the channel or changes nothing the *)
(* channel shows.                                                          *)
LEMMA SingleSimulation == AQInv /\ [AQNext]_(aqVars) => [Chan!Next]_(Chan!vars)
<1> SUFFICES ASSUME AQInv, [AQNext]_(aqVars) PROVE [Chan!Next]_(Chan!vars)
  OBVIOUS
<1> USE QueueAssumption DEF AQInv
<1> DEFINE Got == Chan!Receives("consumer", aq_value')
<1>1. ASSUME aq_value = Nothing, aq_value' # Nothing, UNCHANGED received
      PROVE  Got
  BY <1>1, SingleReceives DEF Chan!Receives
<1>2. ASSUME current = FALSE, UNCHANGED <<exception, current>>, Got,
             \/ exception # Nothing /\ aq_value' = exception /\ UNCHANGED queue
             \/ /\ exception = Nothing /\ queue # <<>>
                /\ aq_value' = Head(queue)
                /\ queue' = Tail(queue)
      PROVE  Chan!Get("consumer")
  BY <1>2 DEF Chan!Get
<1>3. CASE is_ready
  <2>1. CASE phase' = "checked"
    BY <1>3, <2>1 DEF is_ready, Chan!vars
  <2>2. CASE phase' # "checked"
    <3>1. current = FALSE /\ aq_value = Nothing /\ aq_value' # Nothing
      BY <1>3, <2>2
         DEF is_ready, AQTypeOK, NoStrandedConsumer, ValueIffResumed
    <3>2. UNCHANGED received
      BY <1>3 DEF is_ready
    <3>3. Got
      BY <1>1, <3>1, <3>2
    <3>4. Chan!Get("consumer")
      BY <1>2, <1>3, <2>2, <3>1, <3>3 DEF is_ready
    <3> QED
      BY <3>4 DEF Chan!Next
  <2> QED
    BY <2>1, <2>2
<1>4. CASE set_awaitable
  <2>1. current = FALSE /\ aq_value = Nothing
    BY <1>4 DEF set_awaitable, AQTypeOK, NoStrandedConsumer, ValueIffResumed
  <2>2. CASE exception # Nothing
    <3>1. /\ received' = Append(received, exception)
          /\ UNCHANGED <<queue, aq_value, current, exception>>
      BY <1>4, <2>2 DEF set_awaitable
    <3>2. Chan!Receives("consumer", exception)
      BY <2>1, <3>1, SingleReceives DEF Chan!Receives
    <3>3. Chan!Get("consumer")
      BY <2>1, <2>2, <3>1, <3>2 DEF Chan!Get
    <3> QED
      BY <3>3 DEF Chan!Next
  <2>3. CASE exception = Nothing /\ queue # <<>>
    <3>1. /\ aq_value' = Head(queue) /\ queue' = Tail(queue)
          /\ UNCHANGED <<received, current, exception>>
      BY <1>4, <2>3 DEF set_awaitable
    <3>2. aq_value' # Nothing
      BY <2>3, <3>1 DEF AQTypeOK
    <3>3. Got
      BY <1>1, <2>1, <3>1, <3>2
    <3>4. Chan!Get("consumer")
      BY <1>2, <2>1, <2>3, <3>1, <3>3
    <3> QED
      BY <3>4 DEF Chan!Next
  <2>4. CASE exception = Nothing /\ queue = <<>>
    <3>1. Chan!Wait("consumer")
      BY <1>4, <2>1, <2>4 DEF set_awaitable, Chan!Wait
    <3> QED
      BY <3>1 DEF Chan!Next
  <2> QED
    BY <2>2, <2>3, <2>4
<1>5. CASE aq_resume
  BY <1>5 DEF aq_resume, Chan!vars
<1>6. CASE aq_await_resume
  BY <1>6 DEF aq_await_resume, ValueIffResumed, Chan!vars
<1>7. ASSUME NEW i \in Item, push(i)
      PROVE  [Chan!Next]_(Chan!vars)
  <2>1. CASE exception # Nothing
    <3>1. current = FALSE
      BY <2>1 DEF NoStrandedConsumer, AQTypeOK
    <3> QED
      BY <1>7, <2>1, <3>1 DEF push, drain, Chan!vars
  <2>2. CASE exception = Nothing /\ current = FALSE
    <3>1. Chan!Put(i)
      BY <1>7, <2>2 DEF push, drain, Chan!Put
    <3> QED
      BY <3>1 DEF Chan!Next
  <2>3. CASE exception = Nothing /\ current = TRUE
    <3>1. queue = <<>> /\ aq_value = Nothing
      BY <2>3 DEF NoStrandedConsumer, ValueIffResumed
    <3>2. aq_value' = i /\ UNCHANGED <<queue, exception, received>> /\ current' = FALSE
      BY <1>7, <2>3, <3>1 DEF push, drain
    <3>3. Chan!Receives("consumer", i)
      BY <1>1, <3>1, <3>2
    <3>4. Chan!Put(i)
      BY <2>3, <3>2, <3>3 DEF Chan!Put
    <3> QED
      BY <3>4 DEF Chan!Next
  <2> QED
    BY <2>1, <2>2, <2>3 DEF AQTypeOK
<1>8. ASSUME NEW e \in Failure, push_exception(e)
      PROVE  Chan!Fail(e)
  BY <1>8 DEF push_exception, drain, NoStrandedConsumer, ValueIffResumed,
     Chan!Fail
<1>9. CASE clear
  BY <1>9 DEF clear, Chan!Next, Chan!Clear
<1>10. CASE UNCHANGED aqVars
  BY <1>10 DEF aqVars, Chan!vars
<1> QED
  BY <1>3, <1>4, <1>5, <1>6, <1>7, <1>8, <1>9, <1>10 DEF AQNext, Chan!Next

(* async_queue implements the channel.                                     *)
THEOREM SingleRefinement == AQSpec => ImplementsChannel
<1>1. AQInit => Chan!Init
  BY DEF AQInit, Chan!Init
<1> QED
  BY <1>1, SingleInvCorrect, SingleSimulation, PTL
     DEF AQSpec, ImplementsChannel, Chan!Spec
================================================================================
