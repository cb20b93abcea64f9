-------------------------- MODULE CancellationProofs --------------------------
(***************************************************************************)
(* Proofs about Cancellation, for any number of sources and of coroutines  *)
(* with their tokens and subscriptions.                                    *)
(***************************************************************************)
EXTENDS Cancellation, TLAPS

(* The invariant holds before anything is cancelled.                       *)
LEMMA InitInv == Init => Inv
<1> SUFFICES ASSUME Init PROVE Inv
  OBVIOUS
<1> USE CancellationAssumption DEF Init
<1>1. TypeOK
  BY DEF TypeOK
<1>2. TokensAlive
  BY DEF TokensAlive, Alive
<1>3. TokenInv /\ CallbackInv
  BY DEF TokenInv, CallbackInv
<1>4. TokenLoop /\ RelatedLoop
  <2>1. \A s \in Source : status[s] # "cancelling"
    OBVIOUS
  <2> QED
    BY <2>1 DEF TokenLoop, RelatedLoop
<1> QED
  BY <1>1, <1>2, <1>3, <1>4 DEF Inv

(* A token keeps its source once it has one, and a coroutine that has left *)
(* its token does not come back.                                           *)
LEMMA TokenStable ==
  ASSUME Inv, [Next]_vars, NEW t \in Token
  PROVE  /\ pc[t] # "start" => source'[t] = source[t]
         /\ pc[t] = "start" /\ source'[t] # source[t] =>
              source'[t] \in Source /\ ~dropped[source'[t]]
         /\ pc[t] \in {"gone", "thrown"} => pc'[t] = pc[t]
<1> USE DEF Inv, TypeOK, sourceVars, tokenVars, subVars, Goto
<1>1. CASE \E s \in Source : Drop(s) \/ cancel(s) \/ cancel_return(s) \/ cancel_related(s)
  BY <1>1 DEF Drop, cancel, cancel_return, cancel_related
<1>2. CASE \E s \in Source : cancel_token(s)
  BY <1>2 DEF cancel_token
<1>3. CASE \E p, c \in Source : create_connected_source(p, c)
  BY <1>3 DEF create_connected_source
<1>4. CASE \E u \in Token, s \in Source, c \in BOOLEAN : token(u, s, c)
  BY <1>4 DEF token, TokenInv
<1>5. CASE \E u \in Token : \/ add_token(u) \/ await_transform(u) \/ destroy_token(u)
                            \/ subscription(u) \/ add(u)
                            \/ wait_cancelled(u) \/ wait_cancelled_suspend(u)
                            \/ emplaced(u) \/ overtake(u)
  BY <1>5 DEF add_token, await_transform, destroy_token, subscription, add,
              wait_cancelled, wait_cancelled_suspend, emplaced, overtake,
              InBody, Unwinds
<1>6. CASE \E u \in Token : run_f(u)
  <2> PICK u \in Token : run_f(u)
    BY <1>6
  <2>1. waiting[u] => pc[u] \in {"emplacing", "suspended"}
    BY DEF run_f, TokenInv, CallbackInv
  <2> QED
    BY <2>1 DEF run_f
<1>7. CASE \E u \in Token : run(u) \/ run_complete(u) \/ remove(u) \/ destroy_subscription(u)
  BY <1>7 DEF run, run_complete, remove, destroy_subscription
<1>8. CASE UNCHANGED vars
  BY <1>8 DEF vars
<1> QED
  BY <1>1, <1>2, <1>3, <1>4, <1>5, <1>6, <1>7, <1>8 DEF Next

(* A source stays cancelled, and its handles do not come back.             *)
LEMMA SourceStable ==
  ASSUME Inv, [Next]_vars, NEW s \in Source
  PROVE  /\ status[s] = "cancelled" => status'[s] = "cancelled"
         /\ dropped[s] => dropped'[s]
<1> USE DEF Inv, TypeOK, sourceVars, tokenVars, subVars
<1>1. CASE \E r \in Source : Drop(r) \/ cancel(r) \/ cancel_return(r) \/ cancel_related(r)
  BY <1>1 DEF Drop, cancel, cancel_return, cancel_related, Enter
<1>2. CASE \E r \in Source : cancel_token(r)
  BY <1>2 DEF cancel_token
<1>3. CASE \E p, c \in Source : create_connected_source(p, c)
  BY <1>3 DEF create_connected_source
<1>4. CASE \E u \in Token, r \in Source, c \in BOOLEAN : token(u, r, c)
  BY <1>4 DEF token
<1>5. CASE \E u \in Token : \/ add_token(u) \/ await_transform(u) \/ destroy_token(u)
                            \/ subscription(u) \/ add(u)
                            \/ wait_cancelled(u) \/ wait_cancelled_suspend(u)
                            \/ emplaced(u) \/ overtake(u)
  BY <1>5 DEF add_token, await_transform, destroy_token, subscription, add,
              wait_cancelled, wait_cancelled_suspend, emplaced, overtake
<1>6. CASE \E u \in Token : run_f(u) \/ run(u) \/ run_complete(u) \/ remove(u)
                            \/ destroy_subscription(u)
  BY <1>6 DEF run_f, run, run_complete, remove, destroy_subscription
<1>7. CASE UNCHANGED vars
  BY <1>7 DEF vars
<1> QED
  BY <1>1, <1>2, <1>3, <1>4, <1>5, <1>6, <1>7 DEF Next

(* Who has been told of a cancellation, or can no longer be, stays so.     *)
LEMMA ToldStable ==
  ASSUME Inv, [Next]_vars
  PROVE  Told \subseteq Told'
<1> SUFFICES ASSUME NEW s \in Source, s \in Told PROVE s \in Told'
  BY DEF Told
<1>1. CASE status[s] = "cancelled"
  BY <1>1, SourceStable DEF Told
<1>2. CASE Expired(s)
  <2>1. dropped'[s]
    BY <1>2, SourceStable DEF Expired
  <2>2. ASSUME NEW t \in Token, source'[t] = s PROVE pc'[t] \in {"gone", "thrown"}
    BY <1>2, <2>2, TokenStable DEF Expired
  <2> QED
    BY <2>1, <2>2 DEF Told, Expired
<1> QED
  BY <1>1, <1>2 DEF Told

(* A loop over the connected sources that stands still has told the        *)
(* sources it has left behind ...                                          *)
LEMMA VisitedStable ==
  ASSUME Inv, [Next]_vars, NEW s \in Source, status[s] = "cancelling",
         related'[s] = related[s], rest'[s] = rest[s]
  PROVE  Visited(s)'
<1>1. Visited(s) /\ related[s] \in Seq(Source) /\ rest[s] \in Seq(Source)
  BY DEF Inv, TypeOK, RelatedLoop
<1>2. Told \subseteq Told'
  BY ToldStable
<1>3. \A i \in 1 .. Len(related[s]) - Len(rest[s]) : related'[s][i] \in Told'
  BY <1>1, <1>2 DEF Visited
<1> QED
  BY <1>1, <1>3 DEF Visited

(* ... and one that begins has left none.                                  *)
LEMMA VisitedFirst ==
  ASSUME NEW s \in Source, related'[s] \in Seq(Source), rest'[s] = related'[s]
  PROVE  Visited(s)'
<1> DEFINE l == Len(related'[s])
<1>1. l \in Nat /\ Len(rest'[s]) = l
  OBVIOUS
<1>2. 1 .. l - l = {}
  BY <1>1
<1>3. \A j \in 1 .. l : l - l + j = j
  BY <1>1
<1> QED
  BY <1>1, <1>2, <1>3 DEF Visited

(* The indices of the last k of l elements and of the last k - 1.          *)
LEMMA SuffixIndices ==
  ASSUME NEW k \in Nat \ {0}, NEW l \in Nat, k <= l
  PROVE  /\ k - 1 <= l
         /\ \A j \in 1 .. k - 1 : j + 1 \in 1 .. k /\ l - k + (j + 1) = l - (k - 1) + j
         /\ \A i \in 1 .. l - (k - 1) : i \in 1 .. l - k \/ i = l - k + 1
  OBVIOUS

(* Every step of a source, a token, a subscription or a callback preserves *)
(* the invariant.                                                          *)
LEMMA NextInv == Inv /\ [Next]_vars => Inv'
<1> SUFFICES ASSUME Inv, [Next]_vars PROVE Inv'
  OBVIOUS
<1> USE CancellationAssumption DEF Inv, sourceVars, tokenVars, subVars, Goto
<1>1. ASSUME NEW p \in Source, NEW c \in Source, create_connected_source(p, c) PROVE Inv'
  <2>1. TypeOK'
    BY <1>1 DEF create_connected_source, TypeOK, TokenInv, CallbackInv
  <2>2. TokensAlive'
    BY <1>1
       DEF create_connected_source, TypeOK, TokensAlive, Alive, TokenInv,
           CallbackInv, TokenLoop
  <2>3. TokenInv'
    BY <1>1
       DEF create_connected_source, TypeOK, TokensAlive, Alive, TokenInv,
           CallbackInv, TokenLoop
  <2>4. CallbackInv'
    BY <1>1
       DEF create_connected_source, TypeOK, TokensAlive, Alive, TokenInv,
           CallbackInv
  <2>5. TokenLoop'
    BY <1>1 DEF create_connected_source, TypeOK, TokensAlive, Alive, TokenLoop
  <2>6. RelatedLoop'
    <3>1. ASSUME NEW r \in Source, status'[r] = "cancelling" PROVE Visited(r)'
      <4>1. status[r] = "cancelling" /\ related'[r] = related[r] /\ rest'[r] = rest[r]
        BY <1>1, <3>1 DEF create_connected_source, TypeOK
      <4> QED
        BY <4>1, VisitedStable
    <3> QED
      BY <3>1 DEF RelatedLoop
  <2> QED
    BY <2>1, <2>2, <2>3, <2>4, <2>5, <2>6
<1>2. ASSUME NEW s \in Source, Drop(s) PROVE Inv'
  <2>1. TypeOK'
    BY <1>2 DEF Drop, TypeOK, TokenInv, CallbackInv
  <2>2. TokensAlive'
    BY <1>2 DEF Drop, TypeOK, TokensAlive, Alive, TokenInv, CallbackInv, TokenLoop
  <2>3. TokenInv'
    BY <1>2 DEF Drop, TypeOK, TokensAlive, Alive, TokenInv, CallbackInv, TokenLoop
  <2>4. CallbackInv'
    BY <1>2 DEF Drop, TypeOK, TokensAlive, Alive, TokenInv, CallbackInv
  <2>5. TokenLoop'
    BY <1>2 DEF Drop, TypeOK, TokensAlive, Alive, TokenLoop
  <2>6. RelatedLoop'
    BY <1>2, VisitedStable DEF Drop, TypeOK, RelatedLoop
  <2> QED
    BY <2>1, <2>2, <2>3, <2>4, <2>5, <2>6
<1>3. ASSUME NEW s \in Source, cancel(s) PROVE Inv'
  <2>1. TypeOK'
    BY <1>3 DEF cancel, Enter, TypeOK, TokenInv, CallbackInv
  <2>2. TokensAlive'
    BY <1>3
       DEF cancel, Enter, TypeOK, TokensAlive, Alive, TokenInv, CallbackInv,
           TokenLoop
  <2>3. TokenInv'
    BY <1>3
       DEF cancel, Enter, TypeOK, TokensAlive, Alive, TokenInv, CallbackInv,
           TokenLoop
  <2>4. CallbackInv'
    BY <1>3 DEF cancel, Enter, TypeOK, TokensAlive, Alive, TokenInv, CallbackInv
  <2>5. TokenLoop'
    BY <1>3 DEF cancel, Enter, TypeOK, TokensAlive, Alive, TokenLoop
  <2>6. RelatedLoop'
    <3>1. Visited(s)'
      BY <1>3, VisitedFirst DEF cancel, Enter, TypeOK
    <3>2. ASSUME NEW r \in Source \ {s}, status'[r] = "cancelling" PROVE Visited(r)'
      <4>1. status[r] = "cancelling" /\ related'[r] = related[r] /\ rest'[r] = rest[r]
        BY <1>3, <3>2 DEF cancel, Enter, TypeOK
      <4> QED
        BY <4>1, VisitedStable
    <3> QED
      BY <3>1, <3>2 DEF RelatedLoop
  <2> QED
    BY <2>1, <2>2, <2>3, <2>4, <2>5, <2>6
<1>4. ASSUME NEW s \in Source, cancel_token(s) PROVE Inv'
  <2>1. TypeOK'
    BY <1>4 DEF cancel_token, token_cancel, TypeOK, TokenInv, CallbackInv
  <2>2. TokensAlive'
    BY <1>4
       DEF cancel_token, token_cancel, TypeOK, TokensAlive, Alive, TokenInv,
           CallbackInv, TokenLoop
  <2>3. TokenInv'
    BY <1>4
       DEF cancel_token, token_cancel, TypeOK, TokensAlive, Alive, TokenInv,
           CallbackInv, TokenLoop
  <2>4. CallbackInv'
    BY <1>4
       DEF cancel_token, token_cancel, TypeOK, TokensAlive, Alive, TokenInv,
           CallbackInv
  <2>5. TokenLoop'
    BY <1>4 DEF cancel_token, token_cancel, TypeOK, TokensAlive, Alive, TokenLoop
  <2>6. RelatedLoop'
    BY <1>4, VisitedStable DEF cancel_token, token_cancel, TypeOK, RelatedLoop
  <2> QED
    BY <2>1, <2>2, <2>3, <2>4, <2>5, <2>6
<1>5. ASSUME NEW s \in Source, cancel_related(s) PROVE Inv'
  <2>p. Head(rest[s]) \in Source
    BY <1>5 DEF cancel_related, TypeOK
  <2> PICK c \in Source : c = Head(rest[s])
    BY <2>p
  <2>a. /\ status[s] = "cancelling" /\ work[s] = {} /\ rest[s] # <<>>
        /\ Tail(rest[s]) \in Seq(Source)
        /\ UNCHANGED <<tokens, related, dropped, source, coro, cancelled, promise, pc,
                       waiting, sub, callback, completed>>
    BY <1>5 DEF cancel_related, TypeOK
  <2>b. CASE status[c] = "live" /\ Enter(c)
    <3>1. TypeOK'
      BY <2>a, <2>b DEF Enter, TypeOK
    <3>2. TokensAlive'
      BY <2>a, <2>b DEF Enter, TypeOK, TokensAlive, Alive
    <3>3. TokenInv'
      BY <2>a, <2>b DEF Enter, TypeOK, TokensAlive, TokenInv
    <3>4. CallbackInv'
      BY <2>a DEF CallbackInv
    <3>5. TokenLoop'
      BY <2>a, <2>b DEF Enter, TypeOK, TokenLoop
    <3>6. RelatedLoop'
      <4>1. Visited(c)'
        BY <2>a, <2>b, VisitedFirst DEF Enter, TypeOK
      <4>2. ASSUME NEW r \in Source \ {c}, status'[r] = "cancelling" PROVE Visited(r)'
        <5>1. status[r] = "cancelling" /\ related'[r] = related[r] /\ rest'[r] = rest[r]
          BY <2>a, <2>b, <4>2 DEF Enter, TypeOK
        <5> QED
          BY <5>1, VisitedStable
      <4> QED
        BY <2>a, <4>1, <4>2 DEF RelatedLoop
    <3> QED
      BY <3>1, <3>2, <3>3, <3>4, <3>5, <3>6
  <2>c. CASE /\ c \in Told /\ rest' = [rest EXCEPT ![s] = Tail(@)]
             /\ UNCHANGED <<status, work>>
    <3>1. TypeOK'
      BY <2>a, <2>c DEF TypeOK
    <3>2. TokensAlive' /\ TokenInv' /\ CallbackInv'
      BY <2>a, <2>c DEF TokensAlive, Alive, TokenInv, CallbackInv
    <3>3. TokenLoop'
      BY <2>a, <2>c DEF TypeOK, TokenLoop
    <3>4. Visited(s)'
      <4> DEFINE l == Len(related[s])
                 k == Len(rest[s])
      <4>1. /\ related'[s] = related[s] /\ rest'[s] = Tail(rest[s])
            /\ l \in Nat /\ k \in Nat \ {0} /\ Len(Tail(rest[s])) = k - 1
            /\ related[s] \in Seq(Source)
        BY <2>a, <2>c DEF TypeOK
      <4>2. /\ k <= l
            /\ \A j \in 1 .. k : rest[s][j] = related[s][l - k + j]
            /\ \A i \in 1 .. l - k : related[s][i] \in Told
        BY <2>a DEF RelatedLoop, Visited
      <4>3. \A j \in 1 .. k - 1 : Tail(rest[s])[j] = related[s][l - (k - 1) + j]
        <5>1. \A j \in 1 .. k - 1 : Tail(rest[s])[j] = rest[s][j + 1]
          BY <2>a, <4>1 DEF TypeOK
        <5>2. \A j \in 1 .. k - 1 : j + 1 \in 1 .. k /\ l - k + (j + 1) = l - (k - 1) + j
          BY <4>1, <4>2, SuffixIndices
        <5> HIDE DEF k, l
        <5> QED
          BY <4>2, <5>1, <5>2
      <4>4. related[s][l - k + 1] = c
        BY <2>a, <4>1, <4>2 DEF TypeOK
      <4>5. \A i \in 1 .. l - (k - 1) : i \in 1 .. l - k \/ i = l - k + 1
        BY <4>1, <4>2, SuffixIndices
      <4>6. \A i \in 1 .. l - (k - 1) : related[s][i] \in Told'
        BY <2>c, <4>2, <4>4, <4>5, ToldStable
      <4>7. k - 1 <= l
        BY <4>1, <4>2, SuffixIndices
      <4> QED
        BY <4>1, <4>3, <4>6, <4>7 DEF Visited
    <3>5. ASSUME NEW r \in Source \ {s}, status'[r] = "cancelling" PROVE Visited(r)'
      <4>1. status[r] = "cancelling" /\ related'[r] = related[r] /\ rest'[r] = rest[r]
        BY <2>a, <2>c, <3>5 DEF TypeOK
      <4> QED
        BY <4>1, VisitedStable
    <3> QED
      BY <3>1, <3>2, <3>3, <3>4, <3>5 DEF RelatedLoop
  <2> QED
    BY <1>5, <2>b, <2>c DEF cancel_related, Told
<1>6. ASSUME NEW s \in Source, cancel_return(s) PROVE Inv'
  <2>1. TypeOK'
    BY <1>6 DEF cancel_return, TypeOK, TokenInv, CallbackInv
  <2>2. TokensAlive'
    BY <1>6
       DEF cancel_return, TypeOK, TokensAlive, Alive, TokenInv, CallbackInv,
           TokenLoop
  <2>3. TokenInv'
    BY <1>6
       DEF cancel_return, TypeOK, TokensAlive, Alive, TokenInv, CallbackInv,
           TokenLoop
  <2>4. CallbackInv'
    BY <1>6 DEF cancel_return, TypeOK, TokensAlive, Alive, TokenInv, CallbackInv
  <2>5. TokenLoop'
    BY <1>6 DEF cancel_return, TypeOK, TokensAlive, Alive, TokenLoop
  <2>6. RelatedLoop'
    <3>1. ASSUME NEW r \in Source, status'[r] = "cancelling" PROVE Visited(r)'
      <4>1. status[r] = "cancelling" /\ related'[r] = related[r] /\ rest'[r] = rest[r]
        BY <1>6, <3>1 DEF cancel_return, TypeOK
      <4> QED
        BY <4>1, VisitedStable
    <3> QED
      BY <3>1 DEF RelatedLoop
  <2> QED
    BY <2>1, <2>2, <2>3, <2>4, <2>5, <2>6
<1>7. ASSUME NEW t \in Token, NEW s \in Source, NEW c \in BOOLEAN, token(t, s, c) PROVE Inv'
  <2>1. TypeOK'
    BY <1>7 DEF token, TypeOK, TokenInv, CallbackInv
  <2>2. TokensAlive'
    BY <1>7 DEF token, TypeOK, TokensAlive, Alive, TokenInv, CallbackInv, TokenLoop
  <2>3. TokenInv'
    BY <1>7 DEF token, TypeOK, TokensAlive, Alive, TokenInv, CallbackInv, TokenLoop
  <2>4. CallbackInv'
    BY <1>7 DEF token, TypeOK, TokensAlive, Alive, TokenInv, CallbackInv
  <2>5. TokenLoop'
    BY <1>7 DEF token, TypeOK, TokensAlive, Alive, TokenLoop
  <2>6. RelatedLoop'
    BY <1>7, VisitedStable DEF token, TypeOK, RelatedLoop
  <2> QED
    BY <2>1, <2>2, <2>3, <2>4, <2>5, <2>6
<1>8. ASSUME NEW t \in Token, add_token(t) PROVE Inv'
  <2>1. TypeOK'
    BY <1>8 DEF add_token, Unlocked, TypeOK, TokenInv, CallbackInv
  <2>2. TokensAlive'
    BY <1>8
       DEF add_token, Unlocked, TypeOK, TokensAlive, Alive, TokenInv, CallbackInv,
           TokenLoop
  <2>3. TokenInv'
    BY <1>8
       DEF add_token, Unlocked, TypeOK, TokensAlive, Alive, TokenInv, CallbackInv,
           TokenLoop
  <2>4. CallbackInv'
    BY <1>8 DEF add_token, Unlocked, TypeOK, TokensAlive, Alive, TokenInv, CallbackInv
  <2>5. TokenLoop'
    BY <1>8 DEF add_token, Unlocked, TypeOK, TokensAlive, Alive, TokenLoop
  <2>6. RelatedLoop'
    BY <1>8, VisitedStable DEF add_token, Unlocked, TypeOK, RelatedLoop
  <2> QED
    BY <2>1, <2>2, <2>3, <2>4, <2>5, <2>6
<1>9. ASSUME NEW t \in Token, await_transform(t) PROVE Inv'
  <2>1. TypeOK'
    BY <1>9 DEF await_transform, InBody, TypeOK, TokenInv, CallbackInv
  <2>2. TokensAlive'
    BY <1>9
       DEF await_transform, InBody, TypeOK, TokensAlive, Alive, TokenInv,
           CallbackInv, TokenLoop
  <2>3. TokenInv'
    BY <1>9
       DEF await_transform, InBody, TypeOK, TokensAlive, Alive, TokenInv,
           CallbackInv, TokenLoop
  <2>4. CallbackInv'
    BY <1>9
       DEF await_transform, InBody, TypeOK, TokensAlive, Alive, TokenInv,
           CallbackInv
  <2>5. TokenLoop'
    BY <1>9 DEF await_transform, InBody, TypeOK, TokensAlive, Alive, TokenLoop
  <2>6. RelatedLoop'
    BY <1>9, VisitedStable DEF await_transform, InBody, TypeOK, RelatedLoop
  <2> QED
    BY <2>1, <2>2, <2>3, <2>4, <2>5, <2>6
<1>10. ASSUME NEW t \in Token, destroy_token(t) PROVE Inv'
  <2>1. TypeOK'
    BY <1>10 DEF destroy_token, Unwinds, Unlocked, TypeOK, TokenInv, CallbackInv
  <2>2. TokensAlive'
    BY <1>10
       DEF destroy_token, Unwinds, Unlocked, TypeOK, TokensAlive, Alive, TokenInv,
           CallbackInv, TokenLoop
  <2>3. TokenInv'
    BY <1>10
       DEF destroy_token, Unwinds, Unlocked, TypeOK, TokensAlive, Alive, TokenInv,
           CallbackInv, TokenLoop
  <2>4. CallbackInv'
    BY <1>10
       DEF destroy_token, Unwinds, Unlocked, TypeOK, TokensAlive, Alive, TokenInv,
           CallbackInv
  <2>5. TokenLoop'
    BY <1>10 DEF destroy_token, Unwinds, Unlocked, TypeOK, TokensAlive, Alive, TokenLoop
  <2>6. RelatedLoop'
    BY <1>10, VisitedStable DEF destroy_token, Unwinds, Unlocked, TypeOK, RelatedLoop
  <2> QED
    BY <2>1, <2>2, <2>3, <2>4, <2>5, <2>6
<1>11. ASSUME NEW t \in Token, subscription(t) PROVE Inv'
  <2>1. TypeOK'
    BY <1>11 DEF subscription, InBody, TypeOK, TokenInv, CallbackInv
  <2>2. TokensAlive'
    BY <1>11
       DEF subscription, InBody, TypeOK, TokensAlive, Alive, TokenInv, CallbackInv,
           TokenLoop
  <2>3. TokenInv'
    BY <1>11
       DEF subscription, InBody, TypeOK, TokensAlive, Alive, TokenInv, CallbackInv,
           TokenLoop
  <2>4. CallbackInv'
    BY <1>11 DEF subscription, InBody, TypeOK, TokensAlive, Alive, TokenInv, CallbackInv
  <2>5. TokenLoop'
    BY <1>11 DEF subscription, InBody, TypeOK, TokensAlive, Alive, TokenLoop
  <2>6. RelatedLoop'
    BY <1>11, VisitedStable DEF subscription, InBody, TypeOK, RelatedLoop
  <2> QED
    BY <2>1, <2>2, <2>3, <2>4, <2>5, <2>6
<1>12. ASSUME NEW t \in Token, add(t) PROVE Inv'
  <2>1. TypeOK'
    BY <1>12 DEF add, TypeOK, TokenInv, CallbackInv
  <2>2. TokensAlive'
    BY <1>12 DEF add, TypeOK, TokensAlive, Alive, TokenInv, CallbackInv, TokenLoop
  <2>3. TokenInv'
    BY <1>12 DEF add, TypeOK, TokensAlive, Alive, TokenInv, CallbackInv, TokenLoop
  <2>4. CallbackInv'
    BY <1>12 DEF add, TypeOK, TokensAlive, Alive, TokenInv, CallbackInv
  <2>5. TokenLoop'
    BY <1>12 DEF add, TypeOK, TokensAlive, Alive, TokenLoop
  <2>6. RelatedLoop'
    BY <1>12, VisitedStable DEF add, TypeOK, RelatedLoop
  <2> QED
    BY <2>1, <2>2, <2>3, <2>4, <2>5, <2>6
<1>13. ASSUME NEW t \in Token, wait_cancelled(t) PROVE Inv'
  <2>1. TypeOK'
    BY <1>13 DEF wait_cancelled, InBody, TypeOK, TokenInv, CallbackInv
  <2>2. TokensAlive'
    BY <1>13
       DEF wait_cancelled, InBody, TypeOK, TokensAlive, Alive, TokenInv,
           CallbackInv, TokenLoop
  <2>3. TokenInv'
    BY <1>13
       DEF wait_cancelled, InBody, TypeOK, TokensAlive, Alive, TokenInv,
           CallbackInv, TokenLoop
  <2>4. CallbackInv'
    BY <1>13
       DEF wait_cancelled, InBody, TypeOK, TokensAlive, Alive, TokenInv, CallbackInv
  <2>5. TokenLoop'
    BY <1>13 DEF wait_cancelled, InBody, TypeOK, TokensAlive, Alive, TokenLoop
  <2>6. RelatedLoop'
    BY <1>13, VisitedStable DEF wait_cancelled, InBody, TypeOK, RelatedLoop
  <2> QED
    BY <2>1, <2>2, <2>3, <2>4, <2>5, <2>6
<1>14. ASSUME NEW t \in Token, wait_cancelled_suspend(t) PROVE Inv'
  <2>1. TypeOK'
    BY <1>14 DEF wait_cancelled_suspend, TypeOK, TokenInv, CallbackInv
  <2>2. TokensAlive'
    BY <1>14
       DEF wait_cancelled_suspend, TypeOK, TokensAlive, Alive, TokenInv,
           CallbackInv, TokenLoop
  <2>3. TokenInv'
    BY <1>14
       DEF wait_cancelled_suspend, TypeOK, TokensAlive, Alive, TokenInv,
           CallbackInv, TokenLoop
  <2>4. CallbackInv'
    BY <1>14
       DEF wait_cancelled_suspend, TypeOK, TokensAlive, Alive, TokenInv, CallbackInv
  <2>5. TokenLoop'
    BY <1>14 DEF wait_cancelled_suspend, TypeOK, TokensAlive, Alive, TokenLoop
  <2>6. RelatedLoop'
    BY <1>14, VisitedStable DEF wait_cancelled_suspend, TypeOK, RelatedLoop
  <2> QED
    BY <2>1, <2>2, <2>3, <2>4, <2>5, <2>6
<1>15. ASSUME NEW t \in Token, run(t) PROVE Inv'
  <2>1. TypeOK'
    BY <1>15 DEF run, TypeOK, TokenInv, CallbackInv
  <2>2. TokensAlive'
    BY <1>15 DEF run, TypeOK, TokensAlive, Alive, TokenInv, CallbackInv, TokenLoop
  <2>3. TokenInv'
    BY <1>15 DEF run, TypeOK, TokensAlive, Alive, TokenInv, CallbackInv, TokenLoop
  <2>4. CallbackInv'
    BY <1>15 DEF run, TypeOK, TokensAlive, Alive, TokenInv, CallbackInv
  <2>5. TokenLoop'
    BY <1>15 DEF run, TypeOK, TokensAlive, Alive, TokenLoop
  <2>6. RelatedLoop'
    BY <1>15, VisitedStable DEF run, TypeOK, RelatedLoop
  <2> QED
    BY <2>1, <2>2, <2>3, <2>4, <2>5, <2>6
<1>16. ASSUME NEW t \in Token, run_f(t) PROVE Inv'
  <2>1. TypeOK'
    BY <1>16 DEF run_f, TypeOK, TokenInv, CallbackInv
  <2>2. TokensAlive'
    <3>1. waiting[t] => pc[t] \in {"emplacing", "suspended"}
      BY <1>16 DEF run_f, TokenInv, CallbackInv
    <3>2. \A u \in Token : Alive(u)' <=> Alive(u)
      BY <1>16, <3>1 DEF run_f, TypeOK, Alive
    <3> QED
      BY <1>16, <3>2 DEF run_f, TokensAlive
  <2>3. TokenInv'
    BY <1>16 DEF run_f, TypeOK, TokensAlive, Alive, TokenInv, CallbackInv, TokenLoop
  <2>4. CallbackInv'
    BY <1>16 DEF run_f, TypeOK, TokensAlive, Alive, TokenInv, CallbackInv
  <2>5. TokenLoop'
    BY <1>16 DEF run_f, TypeOK, TokensAlive, Alive, TokenLoop
  <2>6. RelatedLoop'
    BY <1>16, VisitedStable DEF run_f, TypeOK, RelatedLoop
  <2> QED
    BY <2>1, <2>2, <2>3, <2>4, <2>5, <2>6
<1>17. ASSUME NEW t \in Token, run_complete(t) PROVE Inv'
  <2>1. TypeOK'
    BY <1>17 DEF run_complete, TypeOK, TokenInv, CallbackInv
  <2>2. TokensAlive'
    BY <1>17
       DEF run_complete, TypeOK, TokensAlive, Alive, TokenInv, CallbackInv,
           TokenLoop
  <2>3. TokenInv'
    BY <1>17
       DEF run_complete, TypeOK, TokensAlive, Alive, TokenInv, CallbackInv,
           TokenLoop
  <2>4. CallbackInv'
    BY <1>17 DEF run_complete, TypeOK, TokensAlive, Alive, TokenInv, CallbackInv
  <2>5. TokenLoop'
    BY <1>17 DEF run_complete, TypeOK, TokensAlive, Alive, TokenLoop
  <2>6. RelatedLoop'
    BY <1>17, VisitedStable DEF run_complete, TypeOK, RelatedLoop
  <2> QED
    BY <2>1, <2>2, <2>3, <2>4, <2>5, <2>6
<1>18. ASSUME NEW t \in Token, remove(t) PROVE Inv'
  <2>1. TypeOK'
    BY <1>18 DEF remove, Unwinds, TypeOK, TokenInv, CallbackInv
  <2>2. TokensAlive'
    BY <1>18
       DEF remove, Unwinds, TypeOK, TokensAlive, Alive, TokenInv, CallbackInv,
           TokenLoop
  <2>3. TokenInv'
    BY <1>18
       DEF remove, Unwinds, TypeOK, TokensAlive, Alive, TokenInv, CallbackInv,
           TokenLoop
  <2>4. CallbackInv'
    BY <1>18 DEF remove, Unwinds, TypeOK, TokensAlive, Alive, TokenInv, CallbackInv
  <2>5. TokenLoop'
    BY <1>18 DEF remove, Unwinds, TypeOK, TokensAlive, Alive, TokenLoop
  <2>6. RelatedLoop'
    BY <1>18, VisitedStable DEF remove, Unwinds, TypeOK, RelatedLoop
  <2> QED
    BY <2>1, <2>2, <2>3, <2>4, <2>5, <2>6
<1>19. ASSUME NEW t \in Token, destroy_subscription(t) PROVE Inv'
  <2>1. TypeOK'
    BY <1>19 DEF destroy_subscription, TypeOK, TokenInv, CallbackInv
  <2>2. TokensAlive'
    BY <1>19
       DEF destroy_subscription, TypeOK, TokensAlive, Alive, TokenInv, CallbackInv,
           TokenLoop
  <2>3. TokenInv'
    BY <1>19
       DEF destroy_subscription, TypeOK, TokensAlive, Alive, TokenInv, CallbackInv,
           TokenLoop
  <2>4. CallbackInv'
    BY <1>19 DEF destroy_subscription, TypeOK, TokensAlive, Alive, TokenInv, CallbackInv
  <2>5. TokenLoop'
    BY <1>19 DEF destroy_subscription, TypeOK, TokensAlive, Alive, TokenLoop
  <2>6. RelatedLoop'
    BY <1>19, VisitedStable DEF destroy_subscription, TypeOK, RelatedLoop
  <2> QED
    BY <2>1, <2>2, <2>3, <2>4, <2>5, <2>6
<1>21. ASSUME NEW t \in Token, emplaced(t) PROVE Inv'
  <2>1. TypeOK'
    BY <1>21 DEF emplaced, TypeOK, TokenInv, CallbackInv
  <2>2. TokensAlive'
    BY <1>21 DEF emplaced, TypeOK, TokensAlive, Alive
  <2>3. TokenInv'
    BY <1>21 DEF emplaced, TypeOK, TokenInv
  <2>4. CallbackInv'
    BY <1>21 DEF emplaced, TypeOK, CallbackInv
  <2>5. TokenLoop'
    BY <1>21 DEF emplaced, TypeOK, TokenLoop
  <2>6. RelatedLoop'
    BY <1>21, VisitedStable DEF emplaced, TypeOK, RelatedLoop
  <2> QED
    BY <2>1, <2>2, <2>3, <2>4, <2>5, <2>6
<1>22. ASSUME NEW t \in Token, overtake(t) PROVE Inv'
  <2>1. TypeOK'
    BY <1>22 DEF overtake, TypeOK, TokenInv, CallbackInv
  <2>2. TokensAlive'
    BY <1>22 DEF overtake, TypeOK, TokensAlive, Alive
  <2>3. TokenInv'
    BY <1>22 DEF overtake, TypeOK, TokenInv
  <2>4. CallbackInv'
    BY <1>22 DEF overtake, TypeOK, CallbackInv
  <2>5. TokenLoop'
    BY <1>22 DEF overtake, TypeOK, TokenLoop
  <2>6. RelatedLoop'
    BY <1>22, VisitedStable DEF overtake, TypeOK, RelatedLoop
  <2> QED
    BY <2>1, <2>2, <2>3, <2>4, <2>5, <2>6
<1>20. CASE UNCHANGED vars
  <2>1. TypeOK' /\ TokensAlive' /\ TokenInv' /\ CallbackInv' /\ TokenLoop'
    BY <1>20 DEF vars, TypeOK, TokensAlive, Alive, TokenInv, CallbackInv, TokenLoop
  <2>2. RelatedLoop'
    BY <1>20, VisitedStable DEF vars, RelatedLoop
  <2> QED
    BY <2>1, <2>2
<1> QED
  BY <1>1, <1>2, <1>3, <1>4, <1>5, <1>6, <1>7, <1>8, <1>9, <1>10, <1>11, <1>12,
     <1>13, <1>14, <1>15, <1>16, <1>17, <1>18, <1>19, <1>20,
     <1>21, <1>22
  DEF Next

(* The variables of cancel.h keep to the invariant.                        *)
THEOREM InvCorrect == Spec => []Inv
  BY InitInv, NextInv, PTL DEF Spec

(* The list of a source holds exactly the tokens that exist, and the loop  *)
(* of cancel() reaches no other.                                           *)
THEOREM ListedTokensExist == Spec => []TokensAlive
<1>1. Inv => TokensAlive
  BY DEF Inv
<1> QED
  BY <1>1, InvCorrect, PTL

(* The destructor of a subscription has waited for the callback.           *)
THEOREM DestructorWaits == Spec => []NoCallbackAfterDestructor
<1>1. Inv => NoCallbackAfterDestructor
  BY DEF Inv, CallbackInv, NoCallbackAfterDestructor
<1> QED
  BY <1>1, InvCorrect, PTL

(* cancel() returns only once it has told every token in the list, every   *)
(* coroutine that awaited the source and every connected source that can   *)
(* still be cancelled.                                                     *)
THEOREM CancelTellsAll == Spec => CancelReaches
<1> DEFINE Reached(s) ==
      status[s] = "cancelling" /\ status'[s] = "cancelled" =>
        /\ \A t \in tokens[s] : cancelled[t] /\ (coro[t] => promise[t])
        /\ \A i \in DOMAIN related[s] :
             LET c == related[s][i] IN status[c] = "cancelled" \/ Expired(c)
<1>1. ASSUME Inv, [Next]_vars, NEW s \in Source PROVE Reached(s)
  <2> SUFFICES ASSUME status[s] = "cancelling", status'[s] = "cancelled" PROVE Reached(s)
    OBVIOUS
  <2>1. work[s] = {} /\ rest[s] = <<>>
    BY <1>1 DEF Next, vars, sourceVars, tokenVars, subVars, Goto, Inv, TypeOK,
                create_connected_source, Drop, cancel, Enter, cancel_token, cancel_related,
                cancel_return, token, add_token, await_transform, destroy_token,
                subscription, add, wait_cancelled, wait_cancelled_suspend, emplaced,
                overtake, run, run_f,
                run_complete, remove, destroy_subscription
  <2>2. \A t \in tokens[s] : cancelled[t] /\ (coro[t] => promise[t])
    BY <1>1, <2>1 DEF Inv, TokenLoop
  <2>3. \A i \in 1 .. Len(related[s]) : related[s][i] \in Told
    <3>1. Len(related[s]) \in Nat /\ Len(related[s]) - Len(rest[s]) = Len(related[s])
      BY <1>1, <2>1 DEF Inv, TypeOK
    <3> QED
      BY <1>1, <3>1 DEF Inv, RelatedLoop, Visited
  <2>4. DOMAIN related[s] = 1 .. Len(related[s])
    BY <1>1 DEF Inv, TypeOK
  <2> QED
    BY <2>2, <2>3, <2>4 DEF Told
<1>2. Inv /\ [Next]_vars => [\A s \in Source : Reached(s)]_vars
  BY <1>1
<1> QED
  BY <1>2, InvCorrect, PTL DEF Spec, CancelReaches

--------------------------------------------------------------------------------
(* A source is connected to a fresh one only, so that the connected        *)
(* sources stay a forest whatever is cancelled meanwhile.                  *)
LEMMA ForestStep ==
  ASSUME Inv, Forest, [Next]_vars
  PROVE  Forest'
<1> DEFINE Sink(s, S) == \A i \in DOMAIN related[s] : related[s][i] \notin S
<1>a. /\ related \in [Source -> Seq(Source)]
      /\ \A s \in Source : status[s] = "unborn" => related[s] = <<>>
      /\ \A S \in SUBSET Source : S # {} => \E s \in S : Sink(s, S)
  BY DEF Inv, TypeOK, Forest
<1>1. ASSUME NEW p \in Source, NEW c \in Source, create_connected_source(p, c) PROVE Forest'
  <2>1. /\ p # c /\ related[c] = <<>> /\ related[p] \in Seq(Source)
        /\ related' = [related EXCEPT ![p] = Append(related[p], c)]
        /\ status' = [status EXCEPT ![c] = "live"]
        /\ status[p] # "unborn"
    BY <1>1, <1>a DEF create_connected_source
  <2>2. \A s \in Source : status'[s] = "unborn" => related'[s] = <<>>
    BY <1>a, <2>1 DEF Inv, TypeOK
  <2>3. \A s \in Source \ {p} : related'[s] = related[s]
    BY <1>a, <2>1
  <2>4. ASSUME NEW S \in SUBSET Source, c \notin S, NEW s \in S, Sink(s, S)
        PROVE  Sink(s, S)'
    <3>1. CASE s = p
      <4>1. \A i \in DOMAIN related'[p] :
              \/ related'[p][i] = c
              \/ i \in DOMAIN related[p] /\ related'[p][i] = related[p][i]
        BY <1>a, <2>1
      <4> QED
        BY <2>4, <3>1, <4>1
    <3>2. CASE s # p
      BY <2>3, <2>4, <3>2
    <3> QED
      BY <3>1, <3>2
  <2>5. ASSUME NEW S \in SUBSET Source, S # {} PROVE \E s \in S : Sink(s, S)'
    <3>1. CASE c \in S
      <4>1. Sink(c, S)'
        BY <2>1, <2>3
      <4> QED
        BY <3>1, <4>1
    <3>2. CASE c \notin S
      BY <1>a, <2>4, <2>5, <3>2
    <3> QED
      BY <3>1, <3>2
  <2> QED
    BY <2>2, <2>5 DEF Forest
<1>2. ASSUME NEW s \in Source, cancel_return(s) PROVE Forest'
  <2>1. /\ related' = [related EXCEPT ![s] = <<>>]
        /\ \A r \in Source : status'[r] = "unborn" => status[r] = "unborn"
    BY <1>2 DEF cancel_return, Inv, TypeOK
  <2>2. \A r \in Source : related'[r] = related[r] \/ related'[r] = <<>>
    BY <1>a, <2>1
  <2>3. \A S \in SUBSET Source : \A r \in S : Sink(r, S) => Sink(r, S)'
    BY <2>2
  <2>4. \A r \in Source : status'[r] = "unborn" => related'[r] = <<>>
    BY <1>a, <2>1, <2>2
  <2> QED
    BY <1>a, <2>3, <2>4 DEF Forest
<1>3. ASSUME related' = related,
             \A r \in Source : status'[r] = "unborn" => status[r] = "unborn"
      PROVE  Forest'
  BY <1>a, <1>3 DEF Forest
<1>4. CASE \E s \in Source : Drop(s) \/ cancel(s) \/ cancel_token(s) \/ cancel_related(s)
  BY <1>3, <1>4 DEF Drop, cancel, cancel_token, cancel_related, Enter, Inv, TypeOK
<1>5. CASE \E t \in Token, s \in Source, c \in BOOLEAN : token(t, s, c)
  BY <1>3, <1>5 DEF token, sourceVars
<1>6. CASE \E t \in Token : \/ add_token(t) \/ await_transform(t) \/ destroy_token(t)
                            \/ subscription(t) \/ add(t)
                            \/ wait_cancelled(t) \/ wait_cancelled_suspend(t)
                            \/ emplaced(t) \/ overtake(t)
                            \/ run(t) \/ run_f(t) \/ run_complete(t)
                            \/ remove(t) \/ destroy_subscription(t)
  BY <1>3, <1>6 DEF add_token, await_transform, destroy_token, subscription, add,
                    wait_cancelled, wait_cancelled_suspend, emplaced, overtake, run,
                    run_f, run_complete,
                    remove, destroy_subscription, sourceVars
<1>7. CASE UNCHANGED vars
  BY <1>3, <1>7 DEF vars, sourceVars
<1> QED
  BY <1>1, <1>2, <1>4, <1>5, <1>6, <1>7 DEF Next

(* Nested calls of cancel() never wait for each other in a circle, however *)
(* many threads cancel which sources of how large a forest: among the      *)
(* sources being cancelled there is always one whose cancel() goes on.     *)
THEOREM CancelGoesOn == Spec => []NoCircularWait
<1>1. Init => Forest
  BY DEF Init, Forest
<1>2. Inv /\ Forest /\ [Next]_vars => Forest'
  BY ForestStep
<1>3. ASSUME Inv, Forest PROVE NoCircularWait
  <2> SUFFICES ASSUME NEW S \in SUBSET {s \in Source : status[s] = "cancelling"}, S # {}
               PROVE  \E s \in S : \A r \in S : ~WaitsFor(s, r)
    BY DEF NoCircularWait
  <2>1. PICK s \in S : \A i \in DOMAIN related[s] : related[s][i] \notin S
    BY <1>3 DEF Forest
  <2>2. ASSUME rest[s] # <<>> PROVE Head(rest[s]) \notin S
    <3>1. /\ Len(rest[s]) \in Nat \ {0} /\ Len(related[s]) \in Nat
          /\ DOMAIN related[s] = 1 .. Len(related[s])
          /\ Head(rest[s]) = rest[s][1]
      BY <1>3, <2>2 DEF Inv, TypeOK
    <3>2. /\ Len(rest[s]) <= Len(related[s])
          /\ \A j \in 1 .. Len(rest[s]) :
               rest[s][j] = related[s][Len(related[s]) - Len(rest[s]) + j]
      BY <1>3 DEF Inv, RelatedLoop, Visited
    <3>3. /\ 1 \in 1 .. Len(rest[s])
          /\ Len(related[s]) - Len(rest[s]) + 1 \in 1 .. Len(related[s])
      <4> DEFINE k == Len(rest[s])
                 l == Len(related[s])
      <4>1. k \in Nat \ {0} /\ l \in Nat /\ k <= l
        BY <3>1, <3>2
      <4> HIDE DEF k, l
      <4>2. 1 \in 1 .. k /\ l - k + 1 \in 1 .. l
        BY <4>1
      <4> QED
        BY <4>2 DEF k, l
    <3> QED
      BY <2>1, <3>1, <3>2, <3>3
  <2> QED
    BY <2>2 DEF WaitsFor
<1> QED
  BY <1>1, <1>2, <1>3, InvCorrect, PTL DEF Spec
================================================================================
