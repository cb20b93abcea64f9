------------------------------ MODULE StreamProofs -----------------------------
(***************************************************************************)
(* Proofs about MultiQueue, for any sets of items and exceptions, of       *)
(* consumers and cancelling threads, and any bounds, and about             *)
(* AsyncGenerator, for any number of values.  The two have nothing to do   *)
(* with each other: each proof is about the variables of one of them.      *)
(***************************************************************************)
EXTENDS MultiQueue, AsyncGenerator, TLAPS

(* What appending to a list and taking off its head do to its members.     *)
LEMMA AppendLinked ==
  ASSUME NEW S, NEW s \in Seq(S), NEW a \in S
  PROVE  /\ \A k : Linked(Append(s, a), k) <=> Linked(s, k) \/ k = a
         /\ Distinct(s) /\ ~Linked(s, a) => Distinct(Append(s, a))
<1> DEFINE n == Len(s)
<1>0. /\ n \in Nat /\ DOMAIN s = 1..n /\ DOMAIN Append(s, a) = 1..(n + 1)
      /\ Append(s, a)[n + 1] = a
      /\ \A i \in 1..n : Append(s, a)[i] = s[i]
  OBVIOUS
<1>1. ASSUME NEW k PROVE Linked(Append(s, a), k) <=> Linked(s, k) \/ k = a
  BY <1>0 DEF Linked
<1>2. ASSUME Distinct(s), ~Linked(s, a) PROVE Distinct(Append(s, a))
  BY <1>2 DEF Linked, Distinct
<1> QED
  BY <1>1, <1>2

(* Here the list has no duplicates, so its head is not in its tail.        *)
LEMMA TailLinked ==
  ASSUME NEW S, NEW s \in Seq(S), s # <<>>, Distinct(s)
  PROVE  /\ \A k : Linked(Tail(s), k) <=> Linked(s, k) /\ k # Head(s)
         /\ Distinct(Tail(s))
         /\ Linked(s, Head(s)) /\ Head(s) \in S
<1>1. ASSUME NEW k, Linked(Tail(s), k) PROVE Linked(s, k) /\ k # Head(s)
  BY <1>1 DEF Linked, Distinct
<1>2. ASSUME NEW k, Linked(s, k), k # Head(s) PROVE Linked(Tail(s), k)
  <2>1. PICK i \in 1..Len(s) : s[i] = k
    BY <1>2 DEF Linked
  <2>2. i # 1 /\ Head(s) = s[1]
    BY <1>2, <2>1
  <2>3. i - 1 \in 1..Len(Tail(s)) /\ Tail(s)[i - 1] = k
    BY <2>1, <2>2
  <2>4. DOMAIN Tail(s) = 1..Len(Tail(s))
    OBVIOUS
  <2> QED
    BY <2>3, <2>4 DEF Linked
<1>3. Distinct(Tail(s))
  BY DEF Distinct
<1>4. Linked(s, Head(s)) /\ Head(s) \in S
  BY DEF Linked
<1> QED
  BY <1>1, <1>2, <1>3, <1>4

(* Nothing is linked in an empty list.                                     *)
LEMMA EmptyLinked == (\A k : ~Linked(<<>>, k)) /\ Distinct(<<>>)
  BY DEF Linked, Distinct

(* A consumer that takes something leaves well-typed variables behind.     *)
LEMMA TakeType ==
  ASSUME TypeOK, NEW k \in Consumer, Take(k)
  PROVE  /\ queue' \in Seq(Item)
         /\ \E r \in Item \cup Failure : value' = [value EXCEPT ![k] = r]
         /\ phase' = [phase EXCEPT ![k] = "resuming"]
<1>1. queue' = queue \/ (queue # <<>> /\ queue' = Tail(queue))
  BY DEF Take
<1>2. queue' \in Seq(Item)
  <2>1. queue \in Seq(Item)
    BY DEF TypeOK
  <2>2. queue # <<>> => Tail(queue) \in Seq(Item)
    BY <2>1
  <2> QED
    BY <1>1, <2>1, <2>2
<1>3. exception # None => exception \in Failure
  BY DEF TypeOK
<1>4. queue # <<>> => Head(queue) \in Item
  BY DEF TypeOK
<1> QED
  BY <1>2, <1>3, <1>4 DEF Take

(* Every critical section of the queue, every step of a consumer and every *)
(* round of push_exception's loop preserves the invariant.                 *)
LEMMA NextInv == Inv /\ [Next]_vars => Inv'
<1> SUFFICES ASSUME Inv, [Next]_vars PROVE Inv'
  OBVIOUS
<1> USE QueueAssumption DEF Inv, Phases
<1>1. ASSUME NEW k \in Consumer, is_ready(k)
      PROVE  Inv'
  <2>1. TypeOK'
    BY <1>1, TakeType DEF is_ready, TypeOK
  <2>2. NoStrandedConsumer'
    BY <1>1 DEF is_ready, Take, TypeOK, NoStrandedConsumer
  <2>3. LinkedWhileSuspended'
    <3>1. /\ phase[k] = "idle"
          /\ phase' \in [Consumer -> Phases]
          /\ phase'[k] # "suspended"
          /\ \A j \in Consumer \ {k} : phase'[j] = phase[j]
          /\ UNCHANGED <<clients, copy>>
      BY <1>1 DEF is_ready, Take, TypeOK
    <3> QED
      BY <3>1 DEF LinkedWhileSuspended
  <2>4. ValueIffResumed'
    <3>1. CASE Take(k)
      <4>1. PICK r \in Item \cup Failure : value' = [value EXCEPT ![k] = r]
        BY <3>1, TakeType
      <4>2. phase' = [phase EXCEPT ![k] = "resuming"]
        BY <3>1, TakeType
      <4> QED
        BY <4>1, <4>2 DEF TypeOK, ValueIffResumed
    <3>2. CASE ~Take(k)
      BY <1>1, <3>2 DEF is_ready, TypeOK, ValueIffResumed
    <3> QED
      BY <3>1, <3>2
  <2>5. CopyHasException'
    BY <1>1 DEF is_ready, Take, TypeOK, CopyHasException
  <2> QED
    BY <2>1, <2>2, <2>3, <2>4, <2>5
<1>2. ASSUME NEW k \in Consumer, set_awaitable(k)
      PROVE  Inv'
  <2>1. TypeOK'
    <3>1. exception # None => exception \in Failure
      BY DEF TypeOK
    <3>2. CASE Take(k) /\ UNCHANGED <<clients, received>>
      BY <1>2, <3>2, TakeType DEF set_awaitable, TypeOK
    <3>3. CASE /\ exception # None
               /\ received' = [received EXCEPT ![k] = Append(@, exception)]
               /\ phase' = [phase EXCEPT ![k] = "idle"]
               /\ UNCHANGED <<queue, value, clients>>
      <4>1. received' \in [Consumer -> Seq(Item \cup Failure)]
        BY <3>1, <3>3 DEF TypeOK
      <4> QED
        BY <1>2, <3>3, <4>1 DEF set_awaitable, TypeOK
    <3>4. CASE /\ clients' = Append(clients, k)
               /\ phase' = [phase EXCEPT ![k] = "suspended"]
               /\ UNCHANGED <<queue, value, received>>
      BY <1>2, <3>4 DEF set_awaitable, TypeOK
    <3> QED
      BY <1>2, <3>2, <3>3, <3>4 DEF set_awaitable
  <2>2. NoStrandedConsumer'
    BY <1>2 DEF set_awaitable, Take, TypeOK, NoStrandedConsumer
  <2>3. LinkedWhileSuspended'
    <3>1. CASE phase'[k] = "suspended"
      <4>1. /\ clients' = Append(clients, k)
            /\ phase' = [phase EXCEPT ![k] = "suspended"]
            /\ phase[k] = "checked"
            /\ UNCHANGED copy
        BY <1>2, <3>1 DEF set_awaitable, Take, TypeOK
      <4>2. ~Linked(clients, k) /\ \A t \in Canceller : ~Linked(copy[t], k)
        BY <4>1 DEF LinkedWhileSuspended
      <4>3. /\ \A j : Linked(clients', j) <=> Linked(clients, j) \/ j = k
            /\ Distinct(clients')
        BY <4>1, <4>2, AppendLinked DEF TypeOK, LinkedWhileSuspended
      <4> QED
        BY <4>1, <4>2, <4>3 DEF TypeOK, LinkedWhileSuspended
    <3>2. CASE phase'[k] # "suspended"
      <4>1. /\ UNCHANGED <<clients, copy>>
            /\ phase[k] = "checked"
            /\ \A j \in Consumer \ {k} : phase'[j] = phase[j]
        BY <1>2, <3>2 DEF set_awaitable, Take, TypeOK
      <4> QED
        BY <3>2, <4>1 DEF LinkedWhileSuspended
    <3> QED
      BY <3>1, <3>2
  <2>4. ValueIffResumed'
    <3>1. CASE Take(k)
      <4>1. PICK r \in Item \cup Failure : value' = [value EXCEPT ![k] = r]
        BY <3>1, TakeType
      <4>2. phase' = [phase EXCEPT ![k] = "resuming"]
        BY <3>1, TakeType
      <4> QED
        BY <4>1, <4>2 DEF TypeOK, ValueIffResumed
    <3>2. CASE ~Take(k)
      BY <1>2, <3>2 DEF set_awaitable, TypeOK, ValueIffResumed
    <3> QED
      BY <3>1, <3>2
  <2>5. CopyHasException'
    BY <1>2 DEF set_awaitable, Take, TypeOK, CopyHasException
  <2> QED
    BY <2>1, <2>2, <2>3, <2>4, <2>5
<1>3. ASSUME NEW k \in Consumer, resume(k)
      PROVE  Inv'
  <2>1. TypeOK'
    BY <1>3 DEF resume, TypeOK, ValueIffResumed, CopyHasException
  <2>2. NoStrandedConsumer'
    BY <1>3 DEF resume, TypeOK, NoStrandedConsumer
  <2>3. LinkedWhileSuspended'
    BY <1>3 DEF resume, TypeOK, LinkedWhileSuspended
  <2>4. ValueIffResumed'
    BY <1>3 DEF resume, TypeOK, ValueIffResumed
  <2>5. CopyHasException'
    BY <1>3 DEF resume, TypeOK, CopyHasException
  <2> QED
    BY <2>1, <2>2, <2>3, <2>4, <2>5
<1>4. ASSUME NEW k \in Consumer, await_resume(k)
      PROVE  Inv'
  <2>1. TypeOK'
    BY <1>4 DEF await_resume, TypeOK, ValueIffResumed, CopyHasException
  <2>2. NoStrandedConsumer'
    BY <1>4 DEF await_resume, TypeOK, NoStrandedConsumer
  <2>3. LinkedWhileSuspended'
    BY <1>4 DEF await_resume, TypeOK, LinkedWhileSuspended
  <2>4. ValueIffResumed'
    BY <1>4 DEF await_resume, TypeOK, ValueIffResumed
  <2>5. CopyHasException'
    BY <1>4 DEF await_resume, TypeOK, CopyHasException
  <2> QED
    BY <2>1, <2>2, <2>3, <2>4, <2>5
<1>5. ASSUME NEW i \in Item, push(i)
      PROVE  Inv'
  <2>1. TypeOK'
    <3>1. UNCHANGED <<exception, received, copy, exception_>>
      BY <1>5 DEF push
    <3>2. CASE clients = <<>>
      <4>1. queue' = Append(queue, i) /\ UNCHANGED <<clients, phase, value>>
        BY <1>5, <3>2 DEF push, drain
      <4> QED
        BY <3>1, <4>1 DEF TypeOK
    <3>3. CASE clients # <<>>
      <4>1. Head(clients) \in Consumer /\ Tail(clients) \in Seq(Consumer)
        BY <3>3 DEF TypeOK
      <4>2. /\ clients' = Tail(clients)
            /\ value' = [value EXCEPT ![Head(clients)] = i]
            /\ phase' = [phase EXCEPT ![Head(clients)] = "posted"]
            /\ UNCHANGED queue
        BY <1>5, <3>3 DEF push, drain, Hand
      <4> QED
        BY <3>1, <4>1, <4>2 DEF TypeOK
    <3> QED
      BY <3>2, <3>3
  <2>2. NoStrandedConsumer'
    BY <1>5 DEF push, drain, Hand, TypeOK, NoStrandedConsumer
  <2>3. LinkedWhileSuspended'
    <3>1. CASE clients # <<>>
      <4> DEFINE h == Head(clients)
      <4>1. /\ clients' = Tail(clients)
            /\ phase' = [phase EXCEPT ![h] = "posted"]
            /\ UNCHANGED copy
        BY <1>5, <3>1 DEF push, drain, Hand
      <4>2. /\ \A j : Linked(clients', j) <=> Linked(clients, j) /\ j # h
            /\ Distinct(clients')
            /\ Linked(clients, h) /\ h \in Consumer
        BY <3>1, <4>1, TailLinked DEF TypeOK, LinkedWhileSuspended
      <4> HIDE DEF h
      <4> QED
        BY <4>1, <4>2 DEF TypeOK, LinkedWhileSuspended
    <3>2. CASE clients = <<>>
      BY <1>5, <3>2 DEF push, drain, LinkedWhileSuspended
    <3> QED
      BY <3>1, <3>2
  <2>4. ValueIffResumed'
    BY <1>5 DEF push, drain, Hand, TypeOK, ValueIffResumed
  <2>5. CopyHasException'
    BY <1>5 DEF push, drain, Hand, TypeOK, CopyHasException
  <2> QED
    BY <2>1, <2>2, <2>3, <2>4, <2>5
<1>6. ASSUME NEW t \in Canceller, NEW e \in Failure, push_exception(t, e)
      PROVE  Inv'
  <2>1. TypeOK'
    BY <1>6
       DEF push_exception, consumerVars, TypeOK, ValueIffResumed,
           CopyHasException
  <2>2. NoStrandedConsumer'
    BY <1>6 DEF push_exception, consumerVars, TypeOK, NoStrandedConsumer
  <2>3. LinkedWhileSuspended'
    <3>1. /\ clients' = <<>>
          /\ copy[t] = <<>>
          /\ copy' = [copy EXCEPT ![t] = clients]
          /\ UNCHANGED phase
      BY <1>6 DEF push_exception, consumerVars
    <3>2. copy'[t] = clients /\ \A u \in Canceller \ {t} : copy'[u] = copy[u]
      BY <3>1 DEF TypeOK
    <3>3. ~\E k : Linked(clients', k) \/ Linked(copy[t], k)
      BY <3>1, EmptyLinked
    <3>4. Distinct(clients')
      BY <3>1, EmptyLinked
    <3>5. ASSUME NEW k \in Consumer
          PROVE  phase'[k] = "suspended"
                   <=> \/ Linked(clients', k)
                       \/ \E u \in Canceller : Linked(copy'[u], k)
      BY <3>1, <3>2, <3>3 DEF LinkedWhileSuspended
    <3>6. ASSUME NEW u \in Canceller
          PROVE  /\ Distinct(copy'[u])
                 /\ \A k \in Consumer : Linked(copy'[u], k) =>
                      /\ ~Linked(clients', k)
                      /\ \A w \in Canceller \ {u} : ~Linked(copy'[w], k)
      BY <3>2, <3>3 DEF LinkedWhileSuspended
    <3> QED
      BY <3>4, <3>5, <3>6 DEF LinkedWhileSuspended
  <2>4. ValueIffResumed'
    BY <1>6 DEF push_exception, consumerVars, TypeOK, ValueIffResumed
  <2>5. CopyHasException'
    BY <1>6 DEF push_exception, consumerVars, TypeOK, CopyHasException
  <2> QED
    BY <2>1, <2>2, <2>3, <2>4, <2>5
<1>7. ASSUME NEW t \in Canceller, notify(t)
      PROVE  Inv'
  <2>1. TypeOK'
    BY <1>7 DEF notify, Hand, TypeOK, ValueIffResumed, CopyHasException
  <2>2. NoStrandedConsumer'
    BY <1>7 DEF notify, Hand, TypeOK, NoStrandedConsumer
  <2>3. LinkedWhileSuspended'
    <3> DEFINE h == Head(copy[t])
    <3>1. /\ copy' = [copy EXCEPT ![t] = Tail(copy[t])]
          /\ copy[t] # <<>>
          /\ phase' = [phase EXCEPT ![h] = "posted"]
          /\ UNCHANGED clients
      BY <1>7 DEF notify, Hand
    <3>2. /\ copy'[t] = Tail(copy[t])
          /\ \A u \in Canceller \ {t} : copy'[u] = copy[u]
      BY <3>1 DEF TypeOK
    <3>3. /\ \A j : Linked(copy'[t], j) <=> Linked(copy[t], j) /\ j # h
          /\ Distinct(copy'[t])
          /\ Linked(copy[t], h) /\ h \in Consumer
      BY <3>1, <3>2, TailLinked DEF TypeOK, LinkedWhileSuspended
    <3> HIDE DEF h
    <3>4. ~Linked(clients, h) /\ \A u \in Canceller \ {t} : ~Linked(copy[u], h)
      BY <3>3 DEF LinkedWhileSuspended
    <3>5. ASSUME NEW k \in Consumer
          PROVE  phase'[k] = "suspended"
                   <=> \/ Linked(clients', k)
                       \/ \E u \in Canceller : Linked(copy'[u], k)
      <4>1. CASE k = h
        BY <3>1, <3>2, <3>3, <3>4, <4>1 DEF TypeOK
      <4>2. CASE k # h
        BY <3>1, <3>2, <3>3, <4>2 DEF TypeOK, LinkedWhileSuspended
      <4> QED
        BY <4>1, <4>2
    <3>6. ASSUME NEW u \in Canceller
          PROVE  /\ Distinct(copy'[u])
                 /\ \A k \in Consumer : Linked(copy'[u], k) =>
                      /\ ~Linked(clients', k)
                      /\ \A w \in Canceller \ {u} : ~Linked(copy'[w], k)
      BY <3>1, <3>2, <3>3 DEF LinkedWhileSuspended
    <3> QED
      BY <3>1, <3>5, <3>6 DEF LinkedWhileSuspended
  <2>4. ValueIffResumed'
    <3>1. /\ Head(copy[t]) \in Consumer
          /\ exception_[t] # None
      BY <1>7 DEF notify, TypeOK, CopyHasException
    <3> QED
      BY <1>7, <3>1 DEF notify, Hand, TypeOK, ValueIffResumed
  <2>5. CopyHasException'
    BY <1>7 DEF notify, Hand, TypeOK, CopyHasException
  <2> QED
    BY <2>1, <2>2, <2>3, <2>4, <2>5
<1>8. ASSUME clear
      PROVE  Inv'
  <2>1. TypeOK'
    BY <1>8 DEF clear, consumerVars, TypeOK, ValueIffResumed, CopyHasException
  <2>2. NoStrandedConsumer'
    BY <1>8 DEF clear, consumerVars, TypeOK, NoStrandedConsumer
  <2>3. LinkedWhileSuspended'
    BY <1>8 DEF clear, consumerVars, TypeOK, LinkedWhileSuspended
  <2>4. ValueIffResumed'
    BY <1>8 DEF clear, consumerVars, TypeOK, ValueIffResumed
  <2>5. CopyHasException'
    BY <1>8 DEF clear, consumerVars, TypeOK, CopyHasException
  <2> QED
    BY <2>1, <2>2, <2>3, <2>4, <2>5
<1>9. ASSUME UNCHANGED vars
      PROVE  Inv'
  <2>1. TypeOK'
    BY <1>9 DEF vars, TypeOK, ValueIffResumed, CopyHasException
  <2>2. NoStrandedConsumer'
    BY <1>9 DEF vars, TypeOK, NoStrandedConsumer
  <2>3. LinkedWhileSuspended'
    BY <1>9 DEF vars, TypeOK, LinkedWhileSuspended
  <2>4. ValueIffResumed'
    BY <1>9 DEF vars, TypeOK, ValueIffResumed
  <2>5. CopyHasException'
    BY <1>9 DEF vars, TypeOK, CopyHasException
  <2> QED
    BY <2>1, <2>2, <2>3, <2>4, <2>5
<1> QED
  BY <1>1, <1>2, <1>3, <1>4, <1>5, <1>6, <1>7, <1>8, <1>9 DEF Next
(* Inv holds in every state of the queue.                                  *)
THEOREM InvCorrect == Spec => []Inv
<1>1. Init => Inv
  <2> SUFFICES ASSUME Init PROVE Inv
    OBVIOUS
  <2>1. TypeOK /\ NoStrandedConsumer
    BY DEF Init, TypeOK, Phases, NoStrandedConsumer
  <2>2. LinkedWhileSuspended
    BY EmptyLinked DEF Init, LinkedWhileSuspended
  <2>3. ValueIffResumed /\ CopyHasException
    BY DEF Init, ValueIffResumed, CopyHasException
  <2> QED
    BY <2>1, <2>2, <2>3 DEF Inv
<1> QED
  BY <1>1, NextInv, PTL DEF Spec

(* Nobody waits in the list for what the queue already has, an exception   *)
(* included: the assertion in clear() holds for a queue that has failed.   *)
THEOREM NoConsumerStranded == Spec => []NoStrandedConsumer
<1>1. Inv => NoStrandedConsumer
  BY DEF Inv
<1> QED
  BY <1>1, InvCorrect, PTL

(* A consumer is linked in one list while it waits and in none otherwise,  *)
(* so the loop of push_exception only reaches frames that are suspended.   *)
THEOREM LinkSafety == Spec => []LinkedWhileSuspended
<1>1. Inv => LinkedWhileSuspended
  BY DEF Inv
<1> QED
  BY <1>1, InvCorrect, PTL

(* A consumer on a canceller's list is on that one only: which exception   *)
(* it gets is settled when it is taken off the list of clients.            *)
LEMMA DoomedOnce ==
  ASSUME LinkedWhileSuspended, NEW k \in Consumer, NEW t \in Canceller,
         Linked(copy[t], k)
  PROVE  Doomed(k) = {t}
BY DEF LinkedWhileSuspended, Doomed

(* A consumer that is not suspended is on no canceller's list.             *)
LEMMA NotDoomed ==
  ASSUME LinkedWhileSuspended, NEW k \in Consumer, phase[k] # "suspended"
  PROVE  Doomed(k) = {}
BY DEF LinkedWhileSuspended, Doomed

(* Only k's variables changed and it received r: the channel's Receives.   *)
LEMMA OneReceives ==
  ASSUME NEW k \in Consumer, NEW r,
         Taken(k)' = Append(Taken(k), r),
         \A j \in Consumer \ {k} : Taken(j)' = Taken(j)
  PROVE  Chan!Receives(k, r)
<1> DEFINE f == [j \in Consumer |-> Taken(j)]
           g == [j \in Consumer |-> Taken(j)']
<1>1. g = [f EXCEPT ![k] = Append(@, r)]
  OBVIOUS
<1> QED
  BY <1>1 DEF Chan!Receives

(* Whoever keeps its awaitable and its results, while no canceller's list  *)
(* changes, has received what it had.                                      *)
LEMMA SameTaken ==
  ASSUME NEW j \in Consumer, value'[j] = value[j], received'[j] = received[j],
         UNCHANGED <<copy, exception_>>
  PROVE  Taken(j)' = Taken(j)
<1>1. Doomed(j)' = Doomed(j)
  BY DEF Doomed, Linked
<1> QED
  BY <1>1 DEF Taken

(* A consumer that finds something under the lock gets it.                 *)
LEMMA TakeGets ==
  ASSUME Inv, NEW k \in Consumer, Take(k), phase[k] \in {"idle", "checked"},
         UNCHANGED <<exception, clients, received, copy, exception_>>
  PROVE  Chan!Get(k)
<1> USE QueueAssumption DEF Inv
<1>1. PICK r \in Item \cup Failure :
        /\ value' = [value EXCEPT ![k] = r]
        /\ \/ exception # None /\ r = exception /\ UNCHANGED queue
           \/ /\ exception = None /\ queue # <<>>
              /\ r = Head(queue)
              /\ queue' = Tail(queue)
  <2>1. exception # None => exception \in Failure
    BY DEF TypeOK
  <2>2. queue # <<>> => Head(queue) \in Item
    BY DEF TypeOK
  <2> QED
    BY <2>1, <2>2 DEF Take
<1>2. value[k] = None /\ Doomed(k) = {} /\ ~Linked(clients, k)
  BY NotDoomed DEF ValueIffResumed, LinkedWhileSuspended
<1>3. Taken(k) = received[k]
  BY <1>2 DEF Taken
<1>4. value'[k] = r
  BY <1>1 DEF TypeOK
<1>5. Taken(k)' = Append(Taken(k), r)
  BY <1>3, <1>4 DEF Taken
<1>6. \A j \in Consumer \ {k} : Taken(j)' = Taken(j)
  BY <1>1, SameTaken DEF TypeOK
<1>7. Chan!Receives(k, r)
  BY <1>5, <1>6, OneReceives
<1> QED
  BY <1>1, <1>2, <1>7 DEF Chan!Get

(* Every step of the queue is a step of the channel or changes nothing the *)
(* channel shows.                                                          *)
LEMMA StepSimulation == Inv /\ [Next]_vars => [Chan!Next]_(Chan!vars)
<1> SUFFICES ASSUME Inv, [Next]_vars PROVE [Chan!Next]_(Chan!vars)
  OBVIOUS
<1> USE QueueAssumption DEF Inv
<1>1. ASSUME \A j \in Consumer : Taken(j)' = Taken(j),
             UNCHANGED <<queue, exception, clients>>
      PROVE  UNCHANGED Chan!vars
  BY <1>1 DEF Chan!vars, Linked
<1>2. ASSUME NEW k \in Consumer, is_ready(k)
      PROVE  [Chan!Next]_(Chan!vars)
  <2>1. CASE Take(k)
    <3>1. Chan!Get(k)
      BY <1>2, <2>1, TakeGets DEF is_ready
    <3> QED
      BY <3>1 DEF Chan!Next
  <2>2. CASE ~Take(k)
    <3>1. UNCHANGED <<queue, value, exception, clients, received, copy,
                      exception_>>
      BY <1>2, <2>2 DEF is_ready
    <3>2. \A j \in Consumer : Taken(j)' = Taken(j)
      BY <3>1, SameTaken
    <3> QED
      BY <1>1, <3>1, <3>2
  <2> QED
    BY <2>1, <2>2
<1>3. ASSUME NEW k \in Consumer, set_awaitable(k)
      PROVE  [Chan!Next]_(Chan!vars)
  <2>1. /\ phase[k] = "checked" /\ value[k] = None
        /\ Doomed(k) = {} /\ ~Linked(clients, k)
    BY <1>3, NotDoomed
       DEF set_awaitable, ValueIffResumed, LinkedWhileSuspended
  <2>2. CASE /\ exception # None
             /\ received' = [received EXCEPT ![k] = Append(@, exception)]
             /\ UNCHANGED <<queue, value, clients>>
    <3>1. UNCHANGED <<exception, copy, exception_>>
      BY <1>3 DEF set_awaitable
    <3>2. received'[k] = Append(received[k], exception)
      BY <2>2 DEF TypeOK
    <3>3. Doomed(k)' = Doomed(k)
      BY <3>1 DEF Doomed, Linked
    <3>4. Taken(k)' = Append(Taken(k), exception)
      BY <2>1, <2>2, <3>2, <3>3 DEF Taken
    <3>5. \A j \in Consumer \ {k} : Taken(j)' = Taken(j)
      BY <2>2, <3>1, SameTaken DEF TypeOK
    <3>6. Chan!Receives(k, exception)
      BY <3>4, <3>5, OneReceives
    <3>7. Chan!Get(k)
      BY <2>1, <2>2, <3>1, <3>6 DEF Chan!Get, Linked
    <3> QED
      BY <3>7 DEF Chan!Next
  <2>3. CASE Take(k) /\ UNCHANGED <<clients, received>>
    <3>1. Chan!Get(k)
      BY <1>3, <2>1, <2>3, TakeGets DEF set_awaitable
    <3> QED
      BY <3>1 DEF Chan!Next
  <2>4. CASE /\ exception = None /\ queue = <<>>
             /\ clients' = Append(clients, k)
             /\ UNCHANGED <<queue, value, received>>
    <3>1. UNCHANGED <<exception, copy, exception_>>
      BY <1>3 DEF set_awaitable
    <3>2. \A j \in Consumer : Taken(j)' = Taken(j)
      BY <2>4, <3>1, SameTaken
    <3>3. \A j : Linked(clients', j) <=> Linked(clients, j) \/ j = k
      BY <2>4, AppendLinked DEF TypeOK
    <3>4. {j \in Consumer : Linked(clients', j)}
            = {j \in Consumer : Linked(clients, j)} \cup {k}
      BY <3>3
    <3>5. Linked(clients, k)' <=> Linked(clients', k)
      BY DEF Linked
    <3>6. Chan!Wait(k)
      BY <2>1, <2>4, <3>1, <3>2, <3>4 DEF Chan!Wait, Linked
    <3> QED
      BY <3>6 DEF Chan!Next
  <2> QED
    BY <1>3, <2>2, <2>3, <2>4 DEF set_awaitable
<1>4. ASSUME NEW k \in Consumer, resume(k)
      PROVE  UNCHANGED Chan!vars
  <2>1. UNCHANGED <<queue, exception, clients, value, received, copy,
                    exception_>>
    BY <1>4 DEF resume
  <2>2. \A j \in Consumer : Taken(j)' = Taken(j)
    BY <2>1, SameTaken
  <2> QED
    BY <1>1, <2>1, <2>2
<1>5. ASSUME NEW k \in Consumer, await_resume(k)
      PROVE  UNCHANGED Chan!vars
  <2>1. UNCHANGED <<queue, exception, clients, copy, exception_>>
    BY <1>5 DEF await_resume
  <2>2. value[k] # None /\ Doomed(k) = {}
    BY <1>5, NotDoomed DEF await_resume, ValueIffResumed
  <2>3. value'[k] = None /\ received'[k] = Append(received[k], value[k])
    BY <1>5 DEF await_resume, TypeOK
  <2>4. Doomed(k)' = Doomed(k)
    BY <2>1 DEF Doomed, Linked
  <2>5. Taken(k)' = Taken(k)
    BY <2>2, <2>3, <2>4 DEF Taken
  <2>6. \A j \in Consumer \ {k} : Taken(j)' = Taken(j)
    BY <1>5, <2>1, SameTaken DEF await_resume, TypeOK
  <2> QED
    BY <1>1, <2>1, <2>5, <2>6
<1>6. ASSUME NEW i \in Item, push(i)
      PROVE  Chan!Put(i)
  <2>1. exception = None /\ UNCHANGED <<exception, received, copy, exception_>>
    BY <1>6 DEF push
  <2>2. CASE clients = <<>>
    <3>1. queue' = Append(queue, i) /\ UNCHANGED <<clients, phase, value>>
      BY <1>6, <2>2 DEF push, drain
    <3>2. \A j \in Consumer : Taken(j)' = Taken(j)
      BY <2>1, <3>1, SameTaken
    <3>3. {j \in Consumer : Linked(clients, j)} = {}
      BY <2>2, EmptyLinked
    <3> QED
      BY <2>1, <3>1, <3>2, <3>3 DEF Chan!Put, Linked
  <2>3. CASE clients # <<>>
    <3>1. PICK h \in Consumer : h = Head(clients)
      BY <2>3 DEF TypeOK
    <3>2. /\ clients' = Tail(clients)
          /\ value' = [value EXCEPT ![h] = i]
          /\ UNCHANGED queue
      BY <1>6, <2>3, <3>1 DEF push, drain, Hand
    <3>3. /\ \A j : Linked(clients', j) <=> Linked(clients, j) /\ j # h
          /\ Linked(clients, h)
      BY <2>3, <3>1, <3>2, TailLinked DEF TypeOK, LinkedWhileSuspended
    <3>4. Doomed(h) = {} /\ value[h] = None /\ value'[h] = i
      BY <3>2, <3>3
         DEF Doomed, LinkedWhileSuspended, ValueIffResumed, TypeOK
    <3>5. Taken(h)' = Append(Taken(h), i)
      BY <2>1, <3>4 DEF Taken
    <3>6. \A j \in Consumer \ {h} : Taken(j)' = Taken(j)
      BY <2>1, <3>2, SameTaken DEF TypeOK
    <3>7. Chan!Receives(h, i)
      BY <3>5, <3>6, OneReceives
    <3>8. {j \in Consumer : Linked(clients', j)}
            = {j \in Consumer : Linked(clients, j)} \ {h}
      BY <3>3
    <3> QED
      BY <2>1, <3>2, <3>3, <3>7, <3>8 DEF Chan!Put, Linked
  <2> QED
    BY <2>2, <2>3
<1>7. ASSUME NEW t \in Canceller, NEW e \in Failure, push_exception(t, e)
      PROVE  Chan!Fail(e)
  <2>1. /\ copy[t] = <<>> /\ clients' = <<>> /\ exception' = e
        /\ copy' = [copy EXCEPT ![t] = clients]
        /\ exception_' = [exception_ EXCEPT ![t] = e]
        /\ UNCHANGED <<queue, phase, value, received>>
    BY <1>7 DEF push_exception, consumerVars
  <2>2. /\ copy'[t] = clients /\ exception_'[t] = e
        /\ \A u \in Canceller \ {t} : /\ copy'[u] = copy[u]
                                      /\ exception_'[u] = exception_[u]
    BY <2>1 DEF TypeOK
  <2>3. ASSUME NEW k \in Consumer, Linked(clients, k)
        PROVE  Taken(k)' = Append(Taken(k), e)
    <3>1. value[k] = None /\ Doomed(k) = {}
      BY <2>3 DEF LinkedWhileSuspended, ValueIffResumed, Doomed
    <3>2. Doomed(k)' = {t}
      BY <2>2, <2>3 DEF Doomed, Linked, LinkedWhileSuspended
    <3>3. (CHOOSE u \in Doomed(k)' : TRUE) = t
      BY <3>2
    <3> QED
      BY <2>1, <2>2, <3>1, <3>2, <3>3 DEF Taken
  <2>4. ASSUME NEW k \in Consumer, ~Linked(clients, k)
        PROVE  Taken(k)' = Taken(k)
    <3>1. ~Linked(copy[t], k)
      BY <2>1, EmptyLinked
    <3>2. Doomed(k)' = Doomed(k) /\ t \notin Doomed(k)
      BY <2>2, <2>4, <3>1 DEF Doomed, Linked
    <3>3. Doomed(k) # {} =>
            exception_'[CHOOSE u \in Doomed(k) : TRUE]
              = exception_[CHOOSE u \in Doomed(k) : TRUE]
      BY <2>2, <3>2 DEF Doomed
    <3> QED
      BY <2>1, <3>2, <3>3 DEF Taken
  <2>5. {k \in Consumer : Linked(clients', k)} = {}
    BY <2>1, EmptyLinked
  <2> QED
    BY <2>1, <2>3, <2>4, <2>5 DEF Chan!Fail, Linked
<1>8. ASSUME NEW t \in Canceller, notify(t)
      PROVE  UNCHANGED Chan!vars
  <2>1. PICK h \in Consumer : h = Head(copy[t])
    BY <1>8 DEF notify, TypeOK
  <2>2. /\ copy[t] # <<>> /\ copy' = [copy EXCEPT ![t] = Tail(copy[t])]
        /\ value' = [value EXCEPT ![h] = exception_[t]]
        /\ UNCHANGED <<queue, exception, clients, received, exception_>>
    BY <1>8, <2>1 DEF notify, Hand
  <2>3. /\ copy'[t] = Tail(copy[t])
        /\ \A u \in Canceller \ {t} : copy'[u] = copy[u]
        /\ value'[h] = exception_[t] /\ exception_[t] # None
        /\ \A j \in Consumer \ {h} : value'[j] = value[j]
    BY <2>2 DEF TypeOK, CopyHasException
  <2>4. /\ \A j : Linked(copy'[t], j) <=> Linked(copy[t], j) /\ j # h
        /\ Linked(copy[t], h)
    BY <2>1, <2>2, <2>3, TailLinked DEF TypeOK, LinkedWhileSuspended
  <2>5. Taken(h)' = Taken(h)
    <3>1. Doomed(h) = {t}
      BY <2>4, DoomedOnce
    <3>2. value[h] = None
      BY <2>4 DEF LinkedWhileSuspended, ValueIffResumed
    <3> QED
      BY <2>2, <2>3, <3>1, <3>2 DEF Taken
  <2>6. ASSUME NEW j \in Consumer, j # h
        PROVE  Taken(j)' = Taken(j)
    <3>1. \A u \in Canceller : Linked(copy'[u], j) <=> Linked(copy[u], j)
      BY <2>3, <2>4, <2>6
    <3>2. Doomed(j)' = {u \in Canceller : Linked(copy'[u], j)}
      BY DEF Doomed, Linked
    <3>3. Doomed(j)' = Doomed(j)
      BY <3>1, <3>2 DEF Doomed
    <3> QED
      BY <2>2, <2>3, <2>6, <3>3 DEF Taken
  <2> QED
    BY <1>1, <2>2, <2>5, <2>6
<1>9. ASSUME clear
      PROVE  Chan!Clear
  <2>1. UNCHANGED <<clients, value, received, copy, exception_>>
    BY <1>9 DEF clear, consumerVars
  <2>2. \A j \in Consumer : Taken(j)' = Taken(j)
    BY <2>1, SameTaken
  <2> QED
    BY <1>9, <2>1, <2>2 DEF clear, Chan!Clear, Linked
<1>10. ASSUME UNCHANGED vars
       PROVE  UNCHANGED Chan!vars
  <2>1. \A j \in Consumer : Taken(j)' = Taken(j)
    BY <1>10, SameTaken DEF vars
  <2> QED
    BY <1>1, <1>10, <2>1 DEF vars
<1> QED
  BY <1>2, <1>3, <1>4, <1>5, <1>6, <1>7, <1>8, <1>9, <1>10
     DEF Next, Chan!Next

(* async_multi_consumer_queue implements the channel.                      *)
THEOREM Refinement == Spec => ImplementsChannel
<1>1. Init => Chan!Init
  <2> SUFFICES ASSUME Init PROVE Chan!Init
    OBVIOUS
  <2>1. {k \in Consumer : Linked(clients, k)} = {}
    BY EmptyLinked DEF Init
  <2>2. \A k \in Consumer : Taken(k) = <<>>
    BY EmptyLinked DEF Init, Taken, Doomed
  <2> QED
    BY <2>1, <2>2 DEF Init, Chan!Init
<1> QED
  BY <1>1, InvCorrect, StepSimulation, PTL
     DEF Spec, ImplementsChannel, Chan!Spec

--------------------------------------------------------------------------------
(* A consumer and a producer that have not begun satisfy the invariant     *)
(* (async_generator.h, initial_suspend).                                   *)
LEMMA GeneratorInitInv == AGInit => AGInv
<1> SUFFICES ASSUME AGInit PROVE AGInv
  OBVIOUS
<1> USE DEF AGInit, Empty, Exception
<1>1. AGTypeOK
  <2>1. yielded \in Nat /\ last \in 0 .. yielded + 1
    OBVIOUS
  <2>2. QED
    BY <2>1 DEF AGTypeOK
<1>2. LockInv
  BY DEF LockInv
<1>3. SuspendedInv
  BY DEF SuspendedInv
<1>4. Agree
  BY DEF Agree
<1>5. ValueInv
  BY DEF ValueInv
<1>6. OrderInv
  BY DEF OrderInv
<1>7. QED
  BY <1>1, <1>2, <1>3, <1>4, <1>5, <1>6 DEF AGInv

(* Every step of either of them keeps the invariant.                       *)
LEMMA GeneratorNextInv == AGInv /\ [AGNext]_(agVars) => AGInv'
<1> SUFFICES ASSUME AGInv, [AGNext]_(agVars) PROVE AGInv'
  OBVIOUS
<1> USE DEF AGInv, AGTypeOK, LockInv, SuspendedInv, Agree, ValueInv, OrderInv,
            Empty, Exception,
            frameVars, historyVars
<1>1. CASE begin
  BY <1>1 DEF begin, Resume
<1>2. CASE increment
  <2>1. AGTypeOK'
    BY <1>2 DEF increment, Resume
  <2>2. LockInv'
    BY <1>2 DEF increment, Resume
  <2>3. SuspendedInv'
    BY <1>2 DEF increment, Resume
  <2>4. Agree'
    BY <1>2 DEF increment, Resume
  <2>5. ValueInv'
    BY <1>2 DEF increment, Resume
  <2>6. OrderInv'
    BY <1>2 DEF increment, Resume
  <2>7. QED
    BY <2>1, <2>2, <2>3, <2>4, <2>5, <2>6
<1>3. CASE await_ready
  <2>1. AGTypeOK'
    BY <1>3 DEF await_ready, done
  <2>2. LockInv'
    BY <1>3 DEF await_ready, done
  <2>3. SuspendedInv'
    BY <1>3 DEF await_ready, done
  <2>4. Agree'
    BY <1>3 DEF await_ready, done
  <2>5. ValueInv'
    BY <1>3 DEF await_ready, done
  <2>6. OrderInv'
    BY <1>3 DEF await_ready, done
  <2>7. QED
    BY <2>1, <2>2, <2>3, <2>4, <2>5, <2>6
<1>4. CASE await_suspend
  BY <1>4 DEF await_suspend, Consume
<1>5. CASE iterator_await_resume
  BY <1>5 DEF iterator_await_resume, Consume
<1>6. CASE compare
  BY <1>6 DEF compare, Consume, done
<1>7. CASE get_value
  <2>1. AGTypeOK'
    BY <1>7 DEF get_value, Consume
  <2>2. LockInv'
    BY <1>7 DEF get_value, Consume
  <2>3. SuspendedInv'
    BY <1>7 DEF get_value, Consume
  <2>4. Agree'
    BY <1>7 DEF get_value, Consume
  <2>5. ValueInv'
    BY <1>7 DEF get_value, Consume
  <2>6. OrderInv'
    BY <1>7 DEF get_value, Consume
  <2>7. QED
    BY <2>1, <2>2, <2>3, <2>4, <2>5, <2>6
<1>8. CASE destroy
  BY <1>8 DEF destroy
<1>9. CASE misuse
  BY <1>9 DEF misuse
<1>10. CASE wait
  BY <1>10 DEF wait, Return
<1>11. CASE yield_value
  BY <1>11 DEF yield_value
<1>12. CASE return_value
  <2>1. AGTypeOK'
    BY <1>12 DEF return_value, Ends
  <2>2. LockInv'
    BY <1>12 DEF return_value, Ends
  <2>3. SuspendedInv'
    BY <1>12 DEF return_value, Ends
  <2>4. Agree'
    BY <1>12 DEF return_value, Ends
  <2>5. ValueInv'
    BY <1>12 DEF return_value, Ends
  <2>6. OrderInv'
    <3>1. /\ producer = "running" /\ promise_value' = yielded + 1
          /\ UNCHANGED <<yielded, last, skipped, continuation>>
      BY <1>12 DEF return_value, Ends
    <3>2. ~early /\ last <= yielded /\ (skipped \/ last = yielded)
      BY <3>1
    <3>3. early' <=> ~continuation
      BY <1>12 DEF return_value, Ends
    <3>4. producer' = "returning"
      BY <1>12 DEF return_value, Ends
    <3>5. QED
      BY <3>1, <3>2, <3>3, <3>4
  <2>7. QED
    BY <2>1, <2>2, <2>3, <2>4, <2>5, <2>6
<1>13. CASE unhandled_exception
  <2>1. AGTypeOK'
    BY <1>13 DEF unhandled_exception, Ends
  <2>2. LockInv'
    BY <1>13 DEF unhandled_exception, Ends
  <2>3. SuspendedInv'
    BY <1>13 DEF unhandled_exception, Ends
  <2>4. Agree'
    BY <1>13 DEF unhandled_exception, Ends
  <2>5. ValueInv'
    BY <1>13 DEF unhandled_exception, Ends
  <2>6. OrderInv'
    BY <1>13 DEF unhandled_exception, Ends
  <2>7. QED
    BY <2>1, <2>2, <2>3, <2>4, <2>5, <2>6
<1>14. CASE goes_on
  BY <1>14 DEF goes_on
<1>15. CASE check_resume
  <2>1. AGTypeOK'
    BY <1>15 DEF check_resume, Return
  <2>2. LockInv'
    BY <1>15 DEF check_resume, Return
  <2>3. SuspendedInv'
    BY <1>15 DEF check_resume, Return
  <2>4. Agree'
    BY <1>15 DEF check_resume, Return
  <2>5. ValueInv'
    BY <1>15 DEF check_resume, Return
  <2>6. OrderInv'
    BY <1>15 DEF check_resume, Return
  <2>7. QED
    BY <2>1, <2>2, <2>3, <2>4, <2>5, <2>6
<1>16. CASE final_suspend
  BY <1>16 DEF final_suspend, Return
<1>17. CASE UNCHANGED agVars
  BY <1>17 DEF agVars
<1>18. QED
  BY <1>1, <1>2, <1>3, <1>4, <1>5, <1>6, <1>7, <1>8, <1>9, <1>10, <1>11, <1>12,
     <1>13, <1>14, <1>15, <1>16, <1>17 DEF AGNext, Body

(* The invariant holds in every state of an iteration.                     *)
THEOREM GeneratorInvCorrect == AGSpec => []AGInv
BY GeneratorInitInv, GeneratorNextInv, PTL DEF AGSpec

(* A consumer that takes every value, of a generator that ends while the   *)
(* consumer waits, uses no frame that is gone (async_generator.h, ++ and   *)
(* final_suspend).                                                         *)
THEOREM IterationSound == AGSpec => []SoundIteration
<1>1. AGInv => SoundIteration
  BY DEF AGInv, AGTypeOK, Agree, SoundIteration
<1>2. QED
  BY <1>1, GeneratorInvCorrect, PTL

(* The consumer takes the values one by one, in order and to the last      *)
(* (async_generator.h, get_value and operator !=).                         *)
THEOREM InOrder == AGSpec => ValuesInOrder
<1> DEFINE Ordered ==
      /\ last' # last => last' = last + 1 \/ (skipped /\ last' > last)
      /\ consumer # "done" /\ consumer' = "done" => skipped \/ last = yielded
<1>1. AGInv /\ [AGNext]_(agVars) => [Ordered]_(agVars)
  <2> SUFFICES ASSUME AGInv, AGNext PROVE Ordered
    BY DEF agVars
  <2> USE DEF AGInv, AGTypeOK, LockInv, ValueInv, OrderInv, Empty, Exception,
              frameVars, historyVars
  <2>1. CASE get_value
    BY <2>1 DEF get_value, Consume
  <2>2. CASE compare
    BY <2>2 DEF compare, Consume, done
  <2>3. QED
    BY <2>1, <2>2 DEF AGNext, Body, begin, increment, Resume, await_ready,
       await_suspend, iterator_await_resume, destroy, misuse, wait, goes_on, yield_value,
       check_resume, Ends, return_value, unhandled_exception, final_suspend, Return,
       Consume
<1>2. QED
  BY <1>1, GeneratorInvCorrect, PTL DEF AGSpec, ValuesInOrder, Ordered

(* Who is suspended has its handle in the promise, and the producer has    *)
(* yet to store or to announce a value (async_generator.h, is_ready and    *)
(* check_resume).                                                          *)
THEOREM SomebodyResumes == AGSpec => []SuspendedInv
<1>1. AGInv => SuspendedInv
  BY DEF AGInv
<1>2. QED
  BY <1>1, GeneratorInvCorrect, PTL
================================================================================
