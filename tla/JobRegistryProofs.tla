------------------------- MODULE JobRegistryProofs -------------------------
(***************************************************************************)
(* Proofs, for every set of ids and every MaxCompleted, of the safety       *)
(* properties of JobRegistry, that it implements JobService, and that it    *)
(* calls run_fn as RunFn says.  The inductive invariant IInv adds to them   *)
(* what ties the table to the order in which jobs settled, and the deque to *)
(* the order in which they arrived.                                         *)
(***************************************************************************)
EXTENDS JobRegistry, SequenceTheorems, TLAPS

-----------------------------------------------------------------------------
(* Sequences. *)

LEMMA AppendFacts ==
  ASSUME NEW S, NEW s \in Seq(S), NEW x \in S
  PROVE  /\ Append(s, x) \in Seq(S)
         /\ Len(Append(s, x)) = Len(s) + 1
         /\ DOMAIN Append(s, x) = 1..(Len(s) + 1)
         /\ \A i \in 1..Len(s) : Append(s, x)[i] = s[i]
         /\ Append(s, x)[Len(s) + 1] = x
         /\ ToSet(Append(s, x)) = ToSet(s) \cup {x}
<1>1. /\ Append(s, x) \in Seq(S)
      /\ Len(Append(s, x)) = Len(s) + 1
      /\ DOMAIN Append(s, x) = 1..(Len(s) + 1)
      /\ \A i \in 1..Len(s) : Append(s, x)[i] = s[i]
      /\ Append(s, x)[Len(s) + 1] = x
  BY LenProperties
<1>2. DOMAIN s = 1..Len(s) /\ Len(s) \in Nat
  BY LenProperties
<1>3. ToSet(Append(s, x)) = ToSet(s) \cup {x}
  <2>1. \A y \in ToSet(Append(s, x)) : y \in ToSet(s) \cup {x}
    BY <1>1, <1>2 DEF ToSet
  <2>2. \A y \in ToSet(s) : y \in ToSet(Append(s, x))
    BY <1>1, <1>2 DEF ToSet
  <2>3. x \in ToSet(Append(s, x))
    BY <1>1, <1>2 DEF ToSet
  <2>. QED BY <2>1, <2>2, <2>3
<1>. QED BY <1>1, <1>3

LEMMA TailFacts ==
  ASSUME NEW S, NEW s \in Seq(S), s # <<>>
  PROVE  /\ Tail(s) \in Seq(S)
         /\ Len(Tail(s)) = Len(s) - 1
         /\ DOMAIN Tail(s) = 1..(Len(s) - 1)
         /\ \A i \in 1..(Len(s) - 1) : Tail(s)[i] = s[i + 1]
         /\ Head(s) \in S
         /\ Head(s) = s[1]
         /\ Len(s) \in Nat \ {0}
         /\ DOMAIN s = 1..Len(s)
         /\ ToSet(s) = {Head(s)} \cup ToSet(Tail(s))
<1>1. /\ Tail(s) \in Seq(S)
      /\ Len(Tail(s)) = Len(s) - 1
      /\ \A i \in 1..(Len(s) - 1) : Tail(s)[i] = s[i + 1]
      /\ Head(s) \in S
      /\ Head(s) = s[1]
      /\ Len(s) \in Nat \ {0}
      /\ DOMAIN s = 1..Len(s)
  BY HeadTailProperties, LenProperties, EmptySeq
<1>2. DOMAIN Tail(s) = 1..(Len(s) - 1)
  BY <1>1, LenProperties
<1>3. ToSet(s) = {Head(s)} \cup ToSet(Tail(s))
  <2>1. ASSUME NEW y \in ToSet(s) PROVE y \in {Head(s)} \cup ToSet(Tail(s))
    <3>1. PICK i \in 1..Len(s) : y = s[i]
      BY <1>1 DEF ToSet
    <3>2. CASE i = 1
      BY <3>1, <3>2, <1>1
    <3>3. CASE i # 1
      <4>1. i - 1 \in 1..(Len(s) - 1) /\ y = Tail(s)[i - 1]
        BY <3>1, <3>3, <1>1
      <4>. QED BY <4>1, <1>2 DEF ToSet
    <3>. QED BY <3>2, <3>3
  <2>2. ToSet(Tail(s)) \subseteq ToSet(s)
    BY <1>1, <1>2 DEF ToSet
  <2>3. Head(s) \in ToSet(s)
    BY <1>1 DEF ToSet
  <2>. QED BY <2>1, <2>2, <2>3
<1>. QED BY <1>1, <1>2, <1>3

LEMMA RemoveAtFacts ==
  ASSUME NEW S, NEW s \in Seq(S), NEW i \in DOMAIN s
  PROVE  /\ RemoveAt(s, i) \in Seq(S)
         /\ Len(RemoveAt(s, i)) = Len(s) - 1
         /\ DOMAIN RemoveAt(s, i) = 1..(Len(s) - 1)
         /\ \A k \in 1..(Len(s) - 1) :
              RemoveAt(s, i)[k] = IF k < i THEN s[k] ELSE s[k + 1]
<1>. DEFINE l == SubSeq(s, 1, i - 1)
            r == SubSeq(s, i + 1, Len(s))
<1>1. Len(s) \in Nat /\ i \in 1..Len(s) /\ \A k \in 1..Len(s) : s[k] \in S
  BY LenProperties, ElementOfSeq
<1>2. /\ l \in Seq(S)
      /\ Len(l) = i - 1
      /\ \A k \in 1..(i - 1) : l[k] = s[k]
  BY <1>1, SubSeqProperties
<1>3. /\ r \in Seq(S)
      /\ Len(r) = Len(s) - i
      /\ \A k \in 1..(Len(s) - i) : r[k] = s[k + i]
  BY <1>1, SubSeqProperties
<1>. HIDE DEF l, r
<1>4. /\ l \o r \in Seq(S)
      /\ Len(l \o r) = Len(s) - 1
      /\ \A k \in 1..(Len(s) - 1) : (l \o r)[k] = IF k < i THEN s[k] ELSE s[k + 1]
  <2>1. /\ l \o r \in Seq(S)
        /\ Len(l \o r) = Len(l) + Len(r)
        /\ \A k \in 1..(Len(l) + Len(r)) :
             (l \o r)[k] = IF k <= Len(l) THEN l[k] ELSE r[k - Len(l)]
    BY <1>2, <1>3, ConcatProperties
  <2>2. Len(l) + Len(r) = Len(s) - 1
    BY <1>1, <1>2, <1>3
  <2>3. ASSUME NEW k \in 1..(Len(s) - 1)
        PROVE  (l \o r)[k] = IF k < i THEN s[k] ELSE s[k + 1]
    <3>1. (l \o r)[k] = IF k <= i - 1 THEN l[k] ELSE r[k - (i - 1)]
      BY <2>1, <2>2, <1>2
    <3>2. CASE k < i
      <4>1. k \in 1..(i - 1) /\ k <= i - 1
        BY <3>2, <1>1
      <4>. QED BY <3>1, <3>2, <4>1, <1>2
    <3>3. CASE ~(k < i)
      <4>1. k - (i - 1) \in 1..(Len(s) - i) /\ ~(k <= i - 1)
        BY <3>3, <1>1
      <4>2. k - (i - 1) + i = k + 1
        BY <1>1
      <4>. QED BY <3>1, <3>3, <4>1, <4>2, <1>3
    <3>. QED BY <3>2, <3>3
  <2>. QED BY <2>1, <2>2, <2>3
<1>5. RemoveAt(s, i) = l \o r
  BY DEF RemoveAt, l, r
<1>. QED BY <1>4, <1>5, LenProperties

\* t lists entries of s, in the order s has them.
KeepsOrder(t, s) ==
  \A p, q \in DOMAIN t : p < q =>
    \E m, n \in DOMAIN s : m < n /\ s[m] = t[p] /\ s[n] = t[q]

LEMMA InjectiveAppend ==
  ASSUME NEW S, NEW s \in Seq(S), NEW x \in S, IsInjective(s), x \notin ToSet(s)
  PROVE  IsInjective(Append(s, x))
<1>1. /\ DOMAIN s = 1..Len(s) /\ Len(s) \in Nat
      /\ DOMAIN Append(s, x) = 1..(Len(s) + 1)
      /\ \A i \in 1..Len(s) : Append(s, x)[i] = s[i] /\ s[i] # x
      /\ Append(s, x)[Len(s) + 1] = x
  BY AppendFacts, LenProperties DEF ToSet
<1>2. ASSUME NEW p \in 1..(Len(s) + 1), NEW q \in 1..(Len(s) + 1),
             Append(s, x)[p] = Append(s, x)[q]
      PROVE  p = q
  <2>1. CASE p \in 1..Len(s) /\ q \in 1..Len(s)
    BY <2>1, <1>1, <1>2 DEF IsInjective
  <2>2. CASE p = Len(s) + 1 \/ q = Len(s) + 1
    <3>1. p \in 1..Len(s) \/ p = Len(s) + 1
      BY <1>1
    <3>2. q \in 1..Len(s) \/ q = Len(s) + 1
      BY <1>1
    <3>. QED BY <2>2, <3>1, <3>2, <1>1, <1>2
  <2>. QED BY <2>1, <2>2, <1>1
<1>. QED BY <1>1, <1>2 DEF IsInjective

LEMMA InjectiveTail ==
  ASSUME NEW S, NEW s \in Seq(S), s # <<>>, IsInjective(s)
  PROVE  /\ IsInjective(Tail(s))
         /\ ToSet(Tail(s)) = ToSet(s) \ {Head(s)}
         /\ KeepsOrder(Tail(s), s)
<1>1. /\ DOMAIN Tail(s) = 1..(Len(s) - 1)
      /\ \A i \in 1..(Len(s) - 1) : Tail(s)[i] = s[i + 1]
      /\ Head(s) = s[1]
      /\ Len(s) \in Nat \ {0}
      /\ DOMAIN s = 1..Len(s)
      /\ ToSet(s) = {Head(s)} \cup ToSet(Tail(s))
  BY TailFacts
<1>2. \A p \in 1..(Len(s) - 1) : p + 1 \in 1..Len(s) /\ p + 1 # 1
  BY <1>1
<1>3. IsInjective(Tail(s))
  <2>1. ASSUME NEW p \in 1..(Len(s) - 1), NEW q \in 1..(Len(s) - 1), Tail(s)[p] = Tail(s)[q]
        PROVE  p = q
    <3>1. p + 1 = q + 1
      BY <2>1, <1>1, <1>2 DEF IsInjective
    <3>. QED BY <3>1
  <2>. QED BY <2>1, <1>1 DEF IsInjective
<1>4. Head(s) \notin ToSet(Tail(s))
  <2>1. ASSUME NEW p \in 1..(Len(s) - 1) PROVE Tail(s)[p] # Head(s)
    <3>1. 1 \in 1..Len(s)
      BY <1>1
    <3>. QED BY <3>1, <1>1, <1>2 DEF IsInjective
  <2>. QED BY <2>1, <1>1 DEF ToSet
<1>5. KeepsOrder(Tail(s), s)
  <2>1. ASSUME NEW p \in 1..(Len(s) - 1), NEW q \in 1..(Len(s) - 1), p < q
        PROVE  \E m, n \in 1..Len(s) : m < n /\ s[m] = Tail(s)[p] /\ s[n] = Tail(s)[q]
    <3>1. p + 1 < q + 1
      BY <2>1
    <3>. QED BY <3>1, <1>1, <1>2
  <2>. QED BY <2>1, <1>1 DEF KeepsOrder
<1>. QED BY <1>1, <1>3, <1>4, <1>5

LEMMA InjectiveRemoveAt ==
  ASSUME NEW S, NEW s \in Seq(S), NEW i \in DOMAIN s, IsInjective(s)
  PROVE  /\ IsInjective(RemoveAt(s, i))
         /\ ToSet(RemoveAt(s, i)) = ToSet(s) \ {s[i]}
         /\ KeepsOrder(RemoveAt(s, i), s)
<1>. DEFINE t == RemoveAt(s, i)
            at(k) == IF k < i THEN k ELSE k + 1
<1>1. /\ DOMAIN t = 1..(Len(s) - 1)
      /\ \A k \in 1..(Len(s) - 1) : t[k] = IF k < i THEN s[k] ELSE s[k + 1]
      /\ DOMAIN s = 1..Len(s) /\ Len(s) \in Nat
  BY RemoveAtFacts, LenProperties
<1>. HIDE DEF t
<1>2. ASSUME NEW k \in 1..(Len(s) - 1)
      PROVE  at(k) \in 1..Len(s) /\ at(k) # i /\ t[k] = s[at(k)]
  BY <1>1
<1>3. ASSUME NEW p \in 1..(Len(s) - 1), NEW q \in 1..(Len(s) - 1)
      PROVE  /\ at(p) = at(q) => p = q
             /\ p < q => at(p) < at(q)
  BY <1>1
<1>4. ASSUME NEW n \in 1..Len(s), n # i
      PROVE  \E k \in 1..(Len(s) - 1) : at(k) = n
  <2>1. CASE n < i
    <3>1. n \in 1..(Len(s) - 1) /\ at(n) = n
      BY <2>1, <1>1
    <3>. QED BY <3>1
  <2>2. CASE ~(n < i)
    <3>1. n - 1 \in 1..(Len(s) - 1) /\ at(n - 1) = n
      BY <2>2, <1>1, <1>4
    <3>. QED BY <3>1
  <2>. QED BY <2>1, <2>2
<1>. HIDE DEF at
<1>5. IsInjective(t)
  BY <1>1, <1>2, <1>3 DEF IsInjective
<1>6. ToSet(t) = ToSet(s) \ {s[i]}
  <2>1. ASSUME NEW k \in 1..(Len(s) - 1) PROVE t[k] \in ToSet(s) /\ t[k] # s[i]
    <3>1. at(k) \in 1..Len(s) /\ at(k) # i /\ t[k] = s[at(k)]
      BY <1>2
    <3>. QED BY <3>1, <1>1 DEF ToSet, IsInjective
  <2>2. ASSUME NEW n \in 1..Len(s), s[n] # s[i] PROVE s[n] \in ToSet(t)
    <3>1. PICK k \in 1..(Len(s) - 1) : at(k) = n
      BY <2>2, <1>4
    <3>. QED BY <3>1, <1>1, <1>2 DEF ToSet
  <2>. QED BY <2>1, <2>2, <1>1 DEF ToSet
<1>7. KeepsOrder(t, s)
  BY <1>1, <1>2, <1>3 DEF KeepsOrder
<1>. QED BY <1>5, <1>6, <1>7 DEF t

-----------------------------------------------------------------------------
(* Type correctness. *)

LEMMA RetainTypes ==
  ASSUME TypeOK, NEW j \in Job, Retain(j)
  PROVE  /\ completed_order' \in Seq(Job)
         /\ settled' \in Seq(Job)
         /\ jobs' \subseteq jobs
<1>. DEFINE order == Append(completed_order, j)
<1>1. order \in Seq(Job) /\ settled' \in Seq(Job)
  BY AppendFacts DEF TypeOK, Retain
<1>2. Len(order) \in Nat /\ Excess(order) \in Nat
  BY <1>1, LenProperties, MaxCompletedIsNat DEF Excess
<1>3. \A i \in (Excess(order) + 1)..Len(order) : order[i] \in Job
  BY <1>1, <1>2, ElementOfSeq
<1>4. SubSeq(order, Excess(order) + 1, Len(order)) \in Seq(Job)
  BY <1>2, <1>3, SubSeqProperties
<1>. QED BY <1>1, <1>4 DEF Retain

LEMMA FailTypes ==
  ASSUME TypeOK, NEW j \in Job, NEW reason \in Reason, Fail(j, reason)
  PROVE  /\ status' \in [Job -> Status]
         /\ error' \in [Job -> Reason]
         /\ completed_order' \in Seq(Job)
         /\ settled' \in Seq(Job)
         /\ jobs' \subseteq Job
<1>1. status' \in [Job -> Status] /\ error' \in [Job -> Reason]
  BY DEF Fail, TypeOK, Status, Terminal
<1>2. Retain(j)
  BY DEF Fail
<1>. QED BY <1>1, <1>2, RetainTypes DEF TypeOK

LEMMA TypeInit == Init => TypeOK
<1>. SUFFICES ASSUME Init PROVE TypeOK
  OBVIOUS
<1>1. <<>> \in Seq(Job)
  BY EmptySeq
<1>2. status \in [Job -> Status] /\ error \in [Job -> Reason]
  BY DEF Init, Status, Reason
<1>3. output \in [Job -> BOOLEAN] /\ cancelled \in [Job -> BOOLEAN]
  BY Zenon DEF Init
<1>. QED BY <1>1, <1>2, <1>3 DEF Init, TypeOK, Place

LEMMA TypeStep == TypeOK /\ [Next]_vars => TypeOK'
<1>. SUFFICES ASSUME TypeOK, [Next]_vars PROVE TypeOK'
  OBVIOUS
<1>1. ASSUME NEW j \in Job, Submit(j) PROVE TypeOK'
  <2>1. queue' \in Seq(Job) /\ arrival' \in Seq(Job)
    BY <1>1, AppendFacts DEF Submit, TypeOK
  <2>2. worker' \in Place
    BY <1>1 DEF Submit, Roused, TypeOK, Place
  <2>3. jobs' \subseteq Job /\ status' \in [Job -> Status]
    BY <1>1 DEF Submit, TypeOK, Status
  <2>. QED BY <1>1, <2>1, <2>2, <2>3 DEF Submit, TypeOK
<1>2. ASSUME NEW j \in Job, CancelQueued(j) PROVE TypeOK'
  <2>1. queue' \in Seq(Job)
    <3>1. PICK i \in DOMAIN queue : queue' = RemoveAt(queue, i)
      BY <1>2 DEF CancelQueued
    <3>. QED BY <3>1, RemoveAtFacts DEF TypeOK
  <2>2. Fail(j, "canceled before start") /\ "canceled before start" \in Reason
    BY <1>2 DEF CancelQueued, Reason
  <2>. QED BY <1>2, <2>1, <2>2, FailTypes DEF CancelQueued, TypeOK
<1>3. ASSUME NEW j \in Job, CancelRunning(j) PROVE TypeOK'
  BY <1>3 DEF CancelRunning, TypeOK, table
<1>4. ASSUME NEW j \in Job, Complete(j) PROVE TypeOK'
  <2>1. Retain(j) /\ status' \in [Job -> Status] /\ output' \in [Job -> BOOLEAN]
    BY <1>4 DEF Complete, TypeOK, Status, Terminal
  <2>2. completed_order' \in Seq(Job) /\ settled' \in Seq(Job) /\ jobs' \subseteq Job
    BY <2>1, RetainTypes DEF TypeOK
  <2>. QED BY <1>4, <2>1, <2>2 DEF Complete, Finished, TypeOK, Place
<1>5. ASSUME NEW j \in Job, Abort(j) PROVE TypeOK'
  <2>1. Fail(j, "canceled") /\ "canceled" \in Reason
    BY <1>5 DEF Abort, Reason
  <2>. QED BY <1>5, <2>1, FailTypes DEF Abort, Finished, TypeOK, Place
<1>6. ASSUME NEW j \in Job, Raise(j) PROVE TypeOK'
  <2>1. Fail(j, "exception") /\ "exception" \in Reason
    BY <1>6 DEF Raise, Reason
  <2>. QED BY <1>6, <2>1, FailTypes DEF Raise, Finished, TypeOK, Place
<1>7. CASE Take
  <2>. DEFINE j == Head(queue)
  <2>1. j \in Job /\ queue' \in Seq(Job)
    BY <1>7, TailFacts DEF Take, TypeOK
  <2>2. CASE Stale(j)
    BY <1>7, <2>1, <2>2 DEF Take, TypeOK, table
  <2>3. CASE ~Stale(j) /\ cancelled[j]
    <3>1. Fail(j, "canceled before start") /\ "canceled before start" \in Reason
      BY <1>7, <2>3 DEF Take, Reason
    <3>. QED BY <1>7, <2>1, <2>3, <3>1, FailTypes DEF Take, TypeOK
  <2>4. CASE ~Stale(j) /\ ~cancelled[j]
    BY <1>7, <2>1, <2>4 DEF Take, TypeOK, table, Status, Place
  <2>. QED BY <2>2, <2>3, <2>4
<1>8. CASE Sleep \/ Return \/ Die \/ Shutdown
  BY <1>8 DEF Sleep, Return, Die, Shutdown, TypeOK, fields, table, Place
<1>9. CASE UNCHANGED vars
  BY <1>9 DEF vars, fields, table, TypeOK
<1>. QED BY <1>1, <1>2, <1>3, <1>4, <1>5, <1>6, <1>7, <1>8, <1>9 DEF Next, RunLoop, RunEnds

\* Every state the registry reaches is well typed, whatever handlers and thread do.
THEOREM TypeCorrect == Spec => []TypeOK
BY TypeInit, TypeStep, PTL DEF Spec

-----------------------------------------------------------------------------
(* The inductive invariant. *)

\* _completed_order is the tail of the settling order, and that order names each
\* settled job once.
SettledInOrder ==
  /\ IsInjective(settled)
  /\ ToSet(settled) = {j \in Job : Settled(j)}
  /\ completed_order = SubSeq(settled, Excess(settled) + 1, Len(settled))

\* The deque lists its jobs in the order they arrived.
QueueInOrder ==
  /\ IsInjective(arrival)
  /\ ToSet(arrival) = {j \in Job : status[j] # "unborn"}
  /\ \A p, q \in DOMAIN queue, m, n \in DOMAIN arrival :
       p < q /\ queue[p] = arrival[m] /\ queue[q] = arrival[n] => m < n

\* A job is flagged only once it has started, and queued jobs are in the table.
FlaggedOnlyIfStarted ==
  \A j \in Job : cancelled[j] => status[j] \notin {"unborn", "IN_QUEUE"}

IInv ==
  /\ TypeOK
  /\ QueueMatchesTable
  /\ OneJobOnTheCard
  /\ TableIsLiveOrRecent
  /\ EnvelopeMatchesFate
  /\ NoOvertaking
  /\ SettledInOrder
  /\ QueueInOrder
  /\ FlaggedOnlyIfStarted

LEMMA InitIInv == Init => IInv
<1>. SUFFICES ASSUME Init PROVE IInv
  OBVIOUS
<1>1. TypeOK
  BY TypeInit
<1>2. DOMAIN queue = {} /\ DOMAIN arrival = {} /\ DOMAIN settled = {}
  BY DEF Init
<1>3. ToSet(queue) = {} /\ ToSet(arrival) = {} /\ ToSet(settled) = {}
  BY <1>2 DEF ToSet
<1>4. Excess(settled) = 0 /\ Len(settled) = 0
  BY MaxCompletedIsNat DEF Init, Excess
<1>5. completed_order = SubSeq(settled, Excess(settled) + 1, Len(settled))
  BY <1>4, SubSeqEmpty DEF Init
<1>6. Live = {}
  BY DEF Live, Init
<1>7. TableIsLiveOrRecent
  <2>1. (Excess(settled) + 1)..Len(settled) = {}
    BY <1>4
  <2>. QED BY <1>6, <2>1 DEF TableIsLiveOrRecent, Init
<1>. QED
  BY <1>1, <1>2, <1>3, <1>5, <1>7
  DEF Init, IInv, QueueMatchesTable, OneJobOnTheCard, EnvelopeMatchesFate, NoOvertaking,
      SettledInOrder, QueueInOrder, FlaggedOnlyIfStarted, IsInjective, Settled, Terminal

-----------------------------------------------------------------------------
(* Settling: what _retain_locked does to the settling order and the table. *)

LEMMA SliceFacts ==
  ASSUME NEW S, NEW s \in Seq(S), NEW m \in Nat, NEW n \in Nat, m <= n, n <= Len(s)
  PROVE  /\ SubSeq(s, m + 1, n) \in Seq(S)
         /\ Len(SubSeq(s, m + 1, n)) = n - m
         /\ \A i \in 1..(n - m) : SubSeq(s, m + 1, n)[i] = s[m + i]
<1>1. \A i \in (m + 1)..n : s[i] \in S
  BY ElementOfSeq, LenProperties
<1>2. /\ SubSeq(s, m + 1, n) \in Seq(S)
      /\ Len(SubSeq(s, m + 1, n)) = IF m + 1 <= n THEN n - (m + 1) + 1 ELSE 0
      /\ \A i \in 1..(n - (m + 1) + 1) : SubSeq(s, m + 1, n)[i] = s[(m + 1) + i - 1]
  BY <1>1, SubSeqProperties
<1>3. n - (m + 1) + 1 = n - m
  OBVIOUS
<1>4. Len(SubSeq(s, m + 1, n)) = n - m
  BY <1>2, <1>3
<1>5. ASSUME NEW i \in 1..(n - m) PROVE SubSeq(s, m + 1, n)[i] = s[m + i]
  <2>1. (m + 1) + i - 1 = m + i
    OBVIOUS
  <2>. QED BY <2>1, <1>2, <1>3
<1>. QED BY <1>2, <1>4, <1>5

\* The window of the MaxCompleted last entries, seen from the whole sequence.
LEMMA ExcessFacts ==
  ASSUME NEW s, Len(s) \in Nat
  PROVE  /\ Excess(s) = IF Len(s) > MaxCompleted THEN Len(s) - MaxCompleted ELSE 0
         /\ Excess(s) \in Nat
         /\ Excess(s) <= Len(s)
BY MaxCompletedIsNat DEF Excess

LEMMA WindowSlides ==
  ASSUME NEW s \in Seq(Job), NEW x \in Job
  PROVE  LET e == Excess(s)
             L == Len(s)
             t == Append(s, x)
             o == Append(SubSeq(s, e + 1, L), x)
             n == Excess(o)
         IN  /\ e \in Nat /\ n \in Nat /\ L \in Nat /\ e <= L /\ e + n <= L + 1
             /\ Excess(t) = e + n
             /\ SubSeq(o, n + 1, Len(o)) = SubSeq(t, (e + n) + 1, L + 1)
             /\ {o[i] : i \in 1..n} = {t[i] : i \in (e + 1)..(e + n)}
<1>. DEFINE e == Excess(s)
            L == Len(s)
            t == Append(s, x)
            w == SubSeq(s, e + 1, L)
            o == Append(w, x)
            n == Excess(o)
<1>0. L \in Nat
  BY LenProperties
<1>1. L \in Nat /\ e \in Nat /\ e <= L /\ e = IF L > MaxCompleted THEN L - MaxCompleted ELSE 0
  BY <1>0, ExcessFacts
<1>2. /\ t \in Seq(Job)
      /\ Len(t) = L + 1
      /\ \A i \in 1..L : t[i] = s[i]
      /\ t[L + 1] = x
  BY AppendFacts
<1>3. /\ w \in Seq(Job)
      /\ Len(w) = L - e
      /\ \A i \in 1..(L - e) : w[i] = s[e + i]
  BY <1>1, SliceFacts
<1>. HIDE DEF w
<1>4. /\ o \in Seq(Job)
      /\ Len(o) = (L - e) + 1
      /\ \A i \in 1..(L - e) : o[i] = w[i]
      /\ o[(L - e) + 1] = x
  BY <1>3, AppendFacts
<1>. HIDE DEF e, L, t, o
<1>5. /\ n = IF (L - e) + 1 > MaxCompleted THEN (L - e) + 1 - MaxCompleted ELSE 0
      /\ Excess(t) = IF L + 1 > MaxCompleted THEN L + 1 - MaxCompleted ELSE 0
  <2>1. Len(o) = (L - e) + 1 /\ Len(t) = L + 1
    BY <1>2, <1>4
  <2>2. Len(o) \in Nat /\ Len(t) \in Nat
    BY <2>1, <1>1
  <2>3. /\ Excess(o) = IF Len(o) > MaxCompleted THEN Len(o) - MaxCompleted ELSE 0
        /\ Excess(t) = IF Len(t) > MaxCompleted THEN Len(t) - MaxCompleted ELSE 0
    BY <2>2, ExcessFacts
  <2>. QED BY <2>1, <2>2, <2>3, <1>1, MaxCompletedIsNat
<1>. HIDE DEF n
<1>6. n \in Nat /\ n <= (L - e) + 1 /\ Excess(t) = e + n /\ e + n <= L + 1
  BY <1>5, <1>1, MaxCompletedIsNat
<1>7. ASSUME NEW i \in 1..((L - e) + 1) PROVE o[i] = t[e + i]
  <2>1. CASE i = (L - e) + 1
    <3>1. e + i = L + 1
      BY <2>1, <1>1
    <3>. QED BY <2>1, <3>1, <1>2, <1>4
  <2>2. CASE i # (L - e) + 1
    <3>1. i \in 1..(L - e) /\ e + i \in 1..L
      BY <2>2, <1>1
    <3>. QED BY <3>1, <1>2, <1>3, <1>4
  <2>. QED BY <2>1, <2>2
<1>8. SubSeq(o, n + 1, Len(o)) = SubSeq(t, (e + n) + 1, L + 1)
  <2>. DEFINE u == SubSeq(o, n + 1, Len(o))
              v == SubSeq(t, (e + n) + 1, L + 1)
  <2>1. /\ u \in Seq(Job)
        /\ Len(u) = ((L - e) + 1) - n
        /\ \A i \in 1..(((L - e) + 1) - n) : u[i] = o[n + i]
    BY SMTT(20), <1>1, <1>4, <1>6, SliceFacts
  <2>2. e + n \in Nat /\ L + 1 \in Nat /\ e + n <= L + 1 /\ L + 1 <= Len(t)
    BY <1>1, <1>2, <1>6
  <2>3. /\ v \in Seq(Job)
        /\ Len(v) = (L + 1) - (e + n)
        /\ \A i \in 1..((L + 1) - (e + n)) : v[i] = t[(e + n) + i]
    BY <2>2, <1>2, SliceFacts
  <2>. HIDE DEF u, v
  <2>4. ((L - e) + 1) - n = (L + 1) - (e + n)
    BY SMTT(20), <1>1, <1>6
  <2>5. Len(u) = ((L - e) + 1) - n /\ Len(v) = Len(u)
    BY <2>1, <2>3, <2>4
  <2>6. ASSUME NEW i \in 1..Len(u) PROVE u[i] = v[i]
    <3>1. i \in 1..(((L - e) + 1) - n)
      BY <2>5
    <3>2. n + i \in 1..((L - e) + 1) /\ e + (n + i) = (e + n) + i
      <4>1. i \in Int /\ 1 <= i /\ i <= ((L - e) + 1) - n /\ L \in Int /\ e \in Int /\ n \in Nat
        BY <3>1, <1>1, <1>6
      <4>2. n + i \in Int /\ 1 <= n + i /\ n + i <= (L - e) + 1
        BY <4>1
      <4>. QED BY <4>1, <4>2
    <3>3. u[i] = o[n + i] /\ v[i] = t[(e + n) + i]
      BY <3>1, <2>1, <2>3, <2>4
    <3>4. o[n + i] = t[e + (n + i)]
      BY <3>2, <1>7
    <3>. QED BY <3>2, <3>3, <3>4
  <2>7. u = v
    BY <2>1, <2>3, <2>5, <2>6, SeqEqual
  <2>. QED BY <2>7 DEF u, v
<1>9. {o[i] : i \in 1..n} = {t[i] : i \in (e + 1)..(e + n)}
  <2>1. ASSUME NEW i \in 1..n PROVE o[i] \in {t[k] : k \in (e + 1)..(e + n)}
    <3>1. i \in 1..((L - e) + 1) /\ e + i \in (e + 1)..(e + n)
      BY <1>1, <1>6
    <3>. QED BY <3>1, <1>7
  <2>2. ASSUME NEW i \in (e + 1)..(e + n) PROVE t[i] \in {o[k] : k \in 1..n}
    <3>1. i - e \in 1..((L - e) + 1) /\ i - e \in 1..n /\ e + (i - e) = i
      BY SMTT(20), <1>1, <1>6
    <3>. QED BY <3>1, <1>7
  <2>. QED BY <2>1, <2>2
<1>. QED BY <1>1, <1>6, <1>8, <1>9 DEF n, e, L, t, o, w

LEMMA RetainShifts ==
  ASSUME settled \in Seq(Job), NEW j \in Job, Retain(j),
         completed_order = SubSeq(settled, Excess(settled) + 1, Len(settled))
  PROVE  /\ settled' = Append(settled, j)
         /\ completed_order' = SubSeq(settled', Excess(settled') + 1, Len(settled'))
         /\ jobs' = jobs \ {settled'[i] : i \in (Excess(settled) + 1)..Excess(settled')}
         /\ Excess(settled) \in Nat /\ Excess(settled) <= Len(settled)
         /\ Excess(settled') \in Nat /\ Excess(settled) <= Excess(settled')
         /\ Excess(settled') <= Len(settled) + 1
<1>. DEFINE e == Excess(settled)
            L == Len(settled)
            t == Append(settled, j)
            o == Append(SubSeq(settled, e + 1, L), j)
            n == Excess(o)
<1>1. /\ e \in Nat /\ n \in Nat /\ L \in Nat /\ e <= L /\ e + n <= L + 1
      /\ Excess(t) = e + n
      /\ SubSeq(o, n + 1, Len(o)) = SubSeq(t, (e + n) + 1, L + 1)
      /\ {o[i] : i \in 1..n} = {t[i] : i \in (e + 1)..(e + n)}
  BY WindowSlides
<1>2. /\ settled' = t
      /\ completed_order' = SubSeq(o, n + 1, Len(o))
      /\ jobs' = jobs \ {o[i] : i \in 1..n}
  BY DEF Retain
<1>3. Len(t) = L + 1
  BY AppendFacts
<1>. HIDE DEF e, L, t, o, n
<1>4. /\ completed_order' = SubSeq(t, Excess(t) + 1, Len(t))
      /\ jobs' = jobs \ {t[i] : i \in (e + 1)..Excess(t)}
      /\ Excess(t) \in Nat /\ e <= Excess(t) /\ Excess(t) <= L + 1
  <2>1. Excess(t) = e + n /\ Excess(t) \in Nat /\ e <= Excess(t) /\ Excess(t) <= L + 1
    BY <1>1
  <2>. QED BY <2>1, <1>1, <1>2, <1>3
<1>. QED BY <1>1, <1>2, <1>4 DEF e, L, t

\* A live job settles: the settling order grows by it and the table keeps every
\* other live job.
LEMMA SettleStep ==
  ASSUME IInv, NEW j \in Job, j \in Live, NEW outcome \in Terminal,
         status' = [status EXCEPT ![j] = outcome], Retain(j)
  PROVE  /\ SettledInOrder'
         /\ TableIsLiveOrRecent'
         /\ Live' = Live \ {j}
         /\ Live' \subseteq jobs'
<1>. DEFINE e == Excess(settled)
            L == Len(settled)
<1>1. /\ settled \in Seq(Job) /\ status \in [Job -> Status]
      /\ IsInjective(settled)
      /\ ToSet(settled) = {k \in Job : Settled(k)}
      /\ completed_order = SubSeq(settled, e + 1, L)
      /\ jobs = Live \cup {settled[i] : i \in (e + 1)..L}
  BY DEF IInv, TypeOK, SettledInOrder, TableIsLiveOrRecent
<1>2. /\ settled' = Append(settled, j)
      /\ completed_order' = SubSeq(settled', Excess(settled') + 1, Len(settled'))
      /\ jobs' = jobs \ {settled'[i] : i \in (e + 1)..Excess(settled')}
      /\ e \in Nat /\ e <= L
      /\ Excess(settled') \in Nat /\ e <= Excess(settled')
      /\ Excess(settled') <= L + 1
  BY <1>1, RetainShifts
<1>3. L \in Nat /\ DOMAIN settled = 1..L
  BY <1>1, LenProperties
<1>4. /\ Len(settled') = L + 1
      /\ DOMAIN settled' = 1..(L + 1)
      /\ \A i \in 1..L : settled'[i] = settled[i]
      /\ settled'[L + 1] = j
      /\ ToSet(settled') = ToSet(settled) \cup {j}
  BY <1>1, <1>2, AppendFacts
<1>5. ~Settled(j)
  BY DEF Live, Settled, Terminal
<1>6. j \notin ToSet(settled)
  BY <1>1, <1>5
<1>7. \A i \in 1..L : settled[i] # j /\ Settled(settled[i])
  BY <1>1, <1>3, <1>6 DEF ToSet
<1>8. Live' = Live \ {j}
  BY <1>1 DEF Live, Terminal
<1>9. SettledInOrder'
  <2>1. IsInjective(settled')
    <3>1. ASSUME NEW p \in 1..(L + 1), NEW q \in 1..(L + 1), settled'[p] = settled'[q]
          PROVE  p = q
      <4>1. CASE p \in 1..L /\ q \in 1..L
        BY <4>1, <3>1, <1>1, <1>3, <1>4 DEF IsInjective
      <4>2. CASE p = L + 1 /\ q \in 1..L
        BY <4>2, <3>1, <1>4, <1>7
      <4>3. CASE p \in 1..L /\ q = L + 1
        BY <4>3, <3>1, <1>4, <1>7
      <4>4. CASE p = L + 1 /\ q = L + 1
        BY <4>4
      <4>. QED BY <4>1, <4>2, <4>3, <4>4, <1>3
    <3>. QED BY <3>1, <1>4 DEF IsInjective
  <2>2. ToSet(settled') = {k \in Job : Settled(k)'}
    BY <1>1, <1>4 DEF Settled
  <2>. QED BY <2>1, <2>2, <1>2 DEF SettledInOrder
<1>10. TableIsLiveOrRecent'
  <2>. DEFINE f == Excess(settled')
  <2>. HIDE DEF e, L, f
  <2>1. jobs' = jobs \ {settled'[i] : i \in (e + 1)..f}
    BY <1>2 DEF f
  <2>2. /\ e \in Nat /\ f \in Nat /\ L \in Nat /\ e <= f /\ e <= L /\ f <= L + 1
    BY <1>2, <1>3 DEF f
  <2>3. ASSUME NEW x \in jobs' PROVE x \in Live' \cup {settled'[i] : i \in (f + 1)..(L + 1)}
    <3>1. CASE x \in Live /\ x # j
      BY <3>1, <1>8
    <3>2. CASE x = j
      <4>1. L + 1 \notin (e + 1)..f
        BY <3>2, <2>1, <2>2, <1>4
      <4>2. L + 1 \in (f + 1)..(L + 1)
        BY <4>1, <2>2
      <4>. QED BY <4>2, <3>2, <1>4
    <3>3. CASE x \notin Live
      <4>1. PICK i \in (e + 1)..L : x = settled[i]
        BY <3>3, <2>1, <1>1 DEF e, L
      <4>2. i \in 1..L /\ x = settled'[i]
        BY <4>1, <2>2, <1>4
      <4>3. i \notin (e + 1)..f
        BY <4>2, <2>1
      <4>4. i \in (f + 1)..(L + 1)
        BY <4>1, <4>3, <2>2
      <4>. QED BY <4>2, <4>4
    <3>. QED BY <3>1, <3>2, <3>3
  <2>4. ASSUME NEW x \in Live' PROVE x \in jobs'
    <3>1. x \in Live /\ x # j
      BY <1>8
    <3>2. ASSUME NEW i \in 1..(L + 1) PROVE settled'[i] # x
      <4>1. CASE i = L + 1
        BY <4>1, <3>1, <1>4
      <4>2. CASE i \in 1..L
        BY <4>2, <3>1, <1>4, <1>7 DEF Live, Settled, Terminal, L
      <4>. QED BY <4>1, <4>2, <2>2
    <3>3. x \in jobs
      BY <3>1, <1>1
    <3>4. \A i \in (e + 1)..f : i \in 1..(L + 1)
      BY <2>2
    <3>. QED BY <3>2, <3>3, <3>4, <2>1
  <2>5. ASSUME NEW i \in (f + 1)..(L + 1) PROVE settled'[i] \in jobs'
    <3>1. i \in 1..(L + 1)
      BY <2>2
    <3>2. settled'[i] \in jobs
      <4>1. CASE i = L + 1
        BY <4>1, <1>4, <1>1
      <4>2. CASE i # L + 1
        <5>1. i \in (e + 1)..L /\ i \in 1..L
          BY <4>2, <2>2
        <5>. QED BY <5>1, <1>1, <1>4 DEF e, L
      <4>. QED BY <4>1, <4>2
    <3>3. \A k \in (e + 1)..f : k \in 1..(L + 1) /\ k # i
      BY <2>2
    <3>4. \A k \in 1..(L + 1) : settled'[k] = settled'[i] => k = i
      BY <1>9, <3>1, <1>4 DEF SettledInOrder, IsInjective
    <3>. QED BY <3>2, <3>3, <3>4, <2>1
  <2>6. Len(settled') = L + 1
    BY <1>4
  <2>. QED BY <2>3, <2>4, <2>5, <2>6 DEF TableIsLiveOrRecent, f
<1>11. Live' \subseteq jobs'
  BY <1>10 DEF TableIsLiveOrRecent
<1>. QED BY <1>8, <1>9, <1>10, <1>11

-----------------------------------------------------------------------------
(* Preservation of IInv: two facts about order shared by the actions, then one *)
(* lemma per action.                                                           *)

LEMMA OrderStep ==
  ASSUME QueueInOrder, KeepsOrder(queue', queue), arrival' = arrival,
         \A k \in Job : status'[k] # "unborn" <=> status[k] # "unborn"
  PROVE  QueueInOrder'
<1>1. IsInjective(arrival') /\ ToSet(arrival') = {k \in Job : status'[k] # "unborn"}
  BY DEF QueueInOrder
<1>2. ASSUME NEW p \in DOMAIN queue', NEW q \in DOMAIN queue',
             NEW m \in DOMAIN arrival, NEW n \in DOMAIN arrival,
             p < q, queue'[p] = arrival[m], queue'[q] = arrival[n]
      PROVE  m < n
  <2>1. PICK p0 \in DOMAIN queue, q0 \in DOMAIN queue :
          p0 < q0 /\ queue[p0] = queue'[p] /\ queue[q0] = queue'[q]
    BY <1>2 DEF KeepsOrder
  <2>. QED BY <1>2, <2>1 DEF QueueInOrder
<1>. QED BY <1>1, <1>2 DEF QueueInOrder

LEMMA OvertakeStep ==
  ASSUME NoOvertaking, arrival' = arrival,
         \A k \in Job : status'[k] = "IN_QUEUE" => status[k] = "IN_QUEUE",
         \A k \in Job : status[k] = "IN_QUEUE" =>
            status'[k] = "IN_QUEUE" \/ error'[k] = "canceled before start",
         \A k \in Job : error[k] = "canceled before start" =>
            error'[k] = "canceled before start",
         \A m \in DOMAIN arrival : arrival[m] \in Job
  PROVE  NoOvertaking'
BY DEF NoOvertaking

LEMMA ArrivedAreJobs ==
  ASSUME TypeOK
  PROVE  \A m \in DOMAIN arrival : arrival[m] \in Job
BY LenProperties, ElementOfSeq DEF TypeOK

LEMMA SubmitStep ==
  ASSUME IInv, TypeOK', NEW j \in Job, Submit(j)
  PROVE  IInv'
<1>1. /\ TypeOK /\ status[j] = "unborn" /\ queue \in Seq(Job) /\ arrival \in Seq(Job)
      /\ status \in [Job -> Status]
      /\ queue' = Append(queue, j) /\ arrival' = Append(arrival, j)
      /\ status' = [status EXCEPT ![j] = "IN_QUEUE"]
      /\ jobs' = jobs \cup {j}
  BY DEF Submit, IInv, TypeOK
<1>2. j \notin ToSet(queue) /\ j \notin ToSet(arrival)
  BY <1>1 DEF IInv, QueueMatchesTable, QueueInOrder
<1>3. /\ DOMAIN queue = 1..Len(queue) /\ Len(queue) \in Nat
      /\ DOMAIN queue' = 1..(Len(queue) + 1)
      /\ \A i \in 1..Len(queue) : queue'[i] = queue[i] /\ queue[i] # j
      /\ queue'[Len(queue) + 1] = j
      /\ ToSet(queue') = ToSet(queue) \cup {j}
  <2>1. DOMAIN queue = 1..Len(queue) /\ Len(queue) \in Nat
    BY <1>1, LenProperties
  <2>2. /\ DOMAIN queue' = 1..(Len(queue) + 1)
        /\ \A i \in 1..Len(queue) : queue'[i] = queue[i]
        /\ queue'[Len(queue) + 1] = j
        /\ ToSet(queue') = ToSet(queue) \cup {j}
    BY <1>1, AppendFacts
  <2>3. \A i \in 1..Len(queue) : queue[i] # j
    BY <2>1, <1>2 DEF ToSet
  <2>. QED BY <2>1, <2>2, <2>3
<1>4. /\ DOMAIN arrival = 1..Len(arrival) /\ Len(arrival) \in Nat
      /\ DOMAIN arrival' = 1..(Len(arrival) + 1)
      /\ \A i \in 1..Len(arrival) : arrival'[i] = arrival[i] /\ arrival[i] # j
      /\ arrival'[Len(arrival) + 1] = j
      /\ ToSet(arrival') = ToSet(arrival) \cup {j}
  <2>1. DOMAIN arrival = 1..Len(arrival) /\ Len(arrival) \in Nat
    BY <1>1, LenProperties
  <2>2. /\ DOMAIN arrival' = 1..(Len(arrival) + 1)
        /\ \A i \in 1..Len(arrival) : arrival'[i] = arrival[i]
        /\ arrival'[Len(arrival) + 1] = j
        /\ ToSet(arrival') = ToSet(arrival) \cup {j}
    BY <1>1, AppendFacts
  <2>3. \A i \in 1..Len(arrival) : arrival[i] # j
    BY <2>1, <1>2 DEF ToSet
  <2>. QED BY <2>1, <2>2, <2>3
<1>5. IsInjective(queue') /\ IsInjective(arrival')
  BY <1>1, <1>2, InjectiveAppend DEF IInv, QueueMatchesTable, QueueInOrder
<1>6. QueueMatchesTable'
  <2>1. ToSet(queue') = {k \in Job : status'[k] = "IN_QUEUE"}
    BY <1>1, <1>3 DEF IInv, QueueMatchesTable
  <2>2. ~cancelled[j]
    BY <1>1 DEF IInv, FlaggedOnlyIfStarted
  <2>3. \A k \in ToSet(queue') : k \in jobs' /\ ~cancelled'[k]
    BY <1>1, <1>3, <2>2 DEF IInv, QueueMatchesTable, Submit
  <2>. QED BY <1>5, <2>1, <2>3 DEF QueueMatchesTable
<1>7. OneJobOnTheCard'
  <2>1. {k \in Job : status'[k] = "IN_PROGRESS"} = {k \in Job : status[k] = "IN_PROGRESS"}
    BY <1>1
  <2>2. worker' = "running" <=> worker = "running"
    BY DEF Submit, Roused
  <2>. QED BY <2>1, <2>2 DEF IInv, OneJobOnTheCard, Submit
<1>8. TableIsLiveOrRecent' /\ SettledInOrder'
  <2>1. Live' = Live \cup {j}
    BY <1>1 DEF Live
  <2>2. {k \in Job : Settled(k)'} = {k \in Job : Settled(k)}
    BY <1>1 DEF Settled, Terminal
  <2>3. settled' = settled /\ completed_order' = completed_order
    BY DEF Submit
  <2>4. TableIsLiveOrRecent'
    BY <2>1, <2>3, <1>1 DEF IInv, TableIsLiveOrRecent
  <2>5. SettledInOrder'
    BY <2>2, <2>3 DEF IInv, SettledInOrder
  <2>. QED BY <2>4, <2>5
<1>9. EnvelopeMatchesFate' /\ FlaggedOnlyIfStarted'
  <2>1. ~cancelled[j]
    BY <1>1 DEF IInv, FlaggedOnlyIfStarted
  <2>. QED BY <1>1, <2>1 DEF IInv, EnvelopeMatchesFate, FlaggedOnlyIfStarted, Submit
<1>10. NoOvertaking'
  <2>1. ASSUME NEW m \in DOMAIN arrival', NEW n \in DOMAIN arrival', m < n,
               status'[arrival'[m]] = "IN_QUEUE"
        PROVE  status'[arrival'[n]] = "IN_QUEUE" \/ error'[arrival'[n]] = "canceled before start"
    <3>1. CASE n = Len(arrival) + 1
      BY <3>1, <1>1, <1>4
    <3>2. CASE n # Len(arrival) + 1
      <4>1. m \in 1..Len(arrival) /\ n \in 1..Len(arrival)
        BY <3>2, <2>1, <1>4
      <4>2. arrival[m] \in Job /\ arrival[n] \in Job
        BY <4>1, <1>1, <1>4, ArrivedAreJobs
      <4>3. status[arrival[m]] = "IN_QUEUE"
        BY <4>1, <4>2, <2>1, <1>1, <1>4
      <4>4. status[arrival[n]] = "IN_QUEUE" \/ error[arrival[n]] = "canceled before start"
        BY <4>1, <4>3, <2>1, <1>4 DEF IInv, NoOvertaking
      <4>. QED BY <4>1, <4>2, <4>4, <1>1, <1>4 DEF Submit
    <3>. QED BY <3>1, <3>2
  <2>. QED BY <2>1 DEF NoOvertaking
<1>11. QueueInOrder'
  <2>1. ToSet(arrival') = {k \in Job : status'[k] # "unborn"}
    BY <1>1, <1>4 DEF IInv, QueueInOrder
  <2>2. ASSUME NEW p \in DOMAIN queue', NEW q \in DOMAIN queue',
               NEW m \in DOMAIN arrival', NEW n \in DOMAIN arrival',
               p < q, queue'[p] = arrival'[m], queue'[q] = arrival'[n]
        PROVE  m < n
    <3>1. p \in 1..Len(queue)
      BY <2>2, <1>3
    <3>2. m \in 1..Len(arrival)
      BY <3>1, <2>2, <1>3, <1>4
    <3>3. CASE q = Len(queue) + 1
      <4>1. arrival'[n] = j
        BY <3>3, <2>2, <1>3
      <4>2. n = Len(arrival) + 1
        BY <4>1, <1>4
      <4>. QED BY <4>2, <3>2, <1>4
    <3>4. CASE q # Len(queue) + 1
      <4>1. q \in 1..Len(queue)
        BY <3>4, <1>3
      <4>2. n \in 1..Len(arrival)
        BY <4>1, <2>2, <1>3, <1>4
      <4>. QED BY <4>1, <4>2, <3>1, <3>2, <2>2, <1>3, <1>4 DEF IInv, QueueInOrder
    <3>. QED BY <3>3, <3>4
  <2>. QED BY <1>5, <2>1, <2>2 DEF QueueInOrder
<1>. QED BY <1>6, <1>7, <1>8, <1>9, <1>10, <1>11 DEF IInv

\* What the settling actions share: a live job gets a terminal status.
LEMMA SettlingStep ==
  ASSUME IInv, TypeOK', NEW j \in Job, j \in Live, NEW outcome \in Terminal,
         status' = [status EXCEPT ![j] = outcome], Retain(j),
         cancelled' = cancelled, arrival' = arrival,
         status[j] = "IN_QUEUE" => error'[j] = "canceled before start",
         \A k \in Job : k # j => error'[k] = error[k],
         KeepsOrder(queue', queue), IsInjective(queue'), ToSet(queue') = ToSet(queue) \ {j}
  PROVE  /\ QueueMatchesTable'
         /\ TableIsLiveOrRecent'
         /\ SettledInOrder'
         /\ NoOvertaking'
         /\ QueueInOrder'
         /\ FlaggedOnlyIfStarted'
<1>1. TypeOK /\ status \in [Job -> Status]
  BY DEF IInv, TypeOK
<1>2. SettledInOrder' /\ TableIsLiveOrRecent' /\ Live' \subseteq jobs'
  BY SettleStep
<1>3. QueueMatchesTable'
  <2>1. ToSet(queue') = {k \in Job : status'[k] = "IN_QUEUE"}
    BY <1>1 DEF IInv, QueueMatchesTable, Terminal
  <2>2. ASSUME NEW k \in ToSet(queue') PROVE k \in jobs' /\ ~cancelled'[k]
    BY <1>2, <2>1 DEF IInv, QueueMatchesTable, Live
  <2>. QED BY <2>1, <2>2 DEF QueueMatchesTable
<1>4. status[j] # "unborn" /\ \A k \in Job : status'[k] # "unborn" <=> status[k] # "unborn"
  BY <1>1 DEF Live, Terminal
<1>5. QueueInOrder'
  BY <1>4, OrderStep DEF IInv
<1>6. error[j] = "none"
  BY <1>1 DEF IInv, EnvelopeMatchesFate, Live
<1>7. NoOvertaking'
  <2>1. \A k \in Job : status'[k] = "IN_QUEUE" => status[k] = "IN_QUEUE"
    BY <1>1 DEF Terminal
  <2>2. \A k \in Job : status[k] = "IN_QUEUE" =>
           status'[k] = "IN_QUEUE" \/ error'[k] = "canceled before start"
    BY <1>1
  <2>3. \A k \in Job : error[k] = "canceled before start" => error'[k] = "canceled before start"
    BY <1>6
  <2>. QED BY <1>1, <2>1, <2>2, <2>3, OvertakeStep, ArrivedAreJobs DEF IInv
<1>8. FlaggedOnlyIfStarted'
  BY <1>1 DEF IInv, FlaggedOnlyIfStarted, Terminal
<1>. QED BY <1>2, <1>3, <1>5, <1>7, <1>8

LEMMA KeepsItsOrder == \A q : KeepsOrder(q, q)
BY DEF KeepsOrder

LEMMA CancelQueuedStep ==
  ASSUME IInv, TypeOK', NEW j \in Job, CancelQueued(j)
  PROVE  IInv'
<1>1. /\ TypeOK /\ queue \in Seq(Job) /\ status \in [Job -> Status]
      /\ error \in [Job -> Reason] /\ status[j] = "IN_QUEUE"
      /\ status' = [status EXCEPT ![j] = "FAILED"]
      /\ error' = [error EXCEPT ![j] = "canceled before start"]
      /\ Retain(j)
  BY DEF CancelQueued, Fail, IInv, TypeOK
<1>2. PICK i \in DOMAIN queue : queue[i] = j /\ queue' = RemoveAt(queue, i)
  BY DEF CancelQueued
<1>3. /\ IsInjective(queue')
      /\ ToSet(queue') = ToSet(queue) \ {j}
      /\ KeepsOrder(queue', queue)
  BY <1>1, <1>2, InjectiveRemoveAt DEF IInv, QueueMatchesTable
<1>4. j \in Live /\ "FAILED" \in Terminal /\ error'[j] = "canceled before start"
      /\ \A k \in Job : k # j => error'[k] = error[k]
  BY <1>1 DEF Live, Terminal
<1>5. /\ QueueMatchesTable' /\ TableIsLiveOrRecent' /\ SettledInOrder'
      /\ NoOvertaking' /\ QueueInOrder' /\ FlaggedOnlyIfStarted'
  BY <1>1, <1>3, <1>4, SettlingStep DEF CancelQueued
<1>6. OneJobOnTheCard'
  <2>1. {k \in Job : status'[k] = "IN_PROGRESS"} = {k \in Job : status[k] = "IN_PROGRESS"}
    BY <1>1
  <2>. QED BY <2>1 DEF CancelQueued, IInv, OneJobOnTheCard
<1>7. EnvelopeMatchesFate'
  <2>1. ~cancelled[j]
    BY <1>1 DEF IInv, FlaggedOnlyIfStarted
  <2>2. ~output[j]
    BY <1>1 DEF IInv, EnvelopeMatchesFate
  <2>. QED BY <1>1, <2>1, <2>2 DEF CancelQueued, IInv, EnvelopeMatchesFate
<1>. QED BY <1>5, <1>6, <1>7 DEF IInv

LEMMA CancelRunningStep ==
  ASSUME IInv, TypeOK', NEW j \in Job, CancelRunning(j)
  PROVE  IInv'
<1>1. /\ cancelled \in [Job -> BOOLEAN] /\ status[j] = "IN_PROGRESS"
      /\ cancelled' = [cancelled EXCEPT ![j] = TRUE]
      /\ UNCHANGED <<status, output, error, jobs, completed_order, settled,
                     queue, worker, current, stop, arrival>>
  BY DEF CancelRunning, IInv, TypeOK, table
<1>2. QueueMatchesTable'
  <2>1. j \notin ToSet(queue)
    BY <1>1 DEF IInv, QueueMatchesTable
  <2>2. \A k \in ToSet(queue) : k \in Job /\ k # j
    BY <2>1 DEF IInv, QueueMatchesTable
  <2>. QED BY <1>1, <2>2 DEF IInv, QueueMatchesTable
<1>3. OneJobOnTheCard' /\ QueueInOrder' /\ NoOvertaking'
  <2>1. OneJobOnTheCard'
    BY <1>1 DEF IInv, OneJobOnTheCard
  <2>2. QueueInOrder'
    BY <1>1 DEF IInv, QueueInOrder
  <2>3. NoOvertaking'
    BY <1>1 DEF IInv, NoOvertaking
  <2>. QED BY <2>1, <2>2, <2>3
<1>4. TableIsLiveOrRecent' /\ SettledInOrder'
  BY <1>1 DEF IInv, TableIsLiveOrRecent, SettledInOrder, Live, Settled
<1>5. error[j] = "none"
  BY <1>1 DEF IInv, EnvelopeMatchesFate
<1>6. EnvelopeMatchesFate' /\ FlaggedOnlyIfStarted'
  BY <1>1, <1>5 DEF IInv, EnvelopeMatchesFate, FlaggedOnlyIfStarted
<1>. QED BY <1>2, <1>3, <1>4, <1>6 DEF IInv

\* The three ways a render ends have everything in common but the outcome.
LEMMA FinishedStep ==
  ASSUME IInv, TypeOK', NEW j \in Job, Finished(j), NEW outcome \in Terminal,
         status' = [status EXCEPT ![j] = outcome], Retain(j),
         cancelled' = cancelled, arrival' = arrival, queue' = queue,
         \A k \in Job : k # j => error'[k] = error[k]
  PROVE  /\ QueueMatchesTable'
         /\ OneJobOnTheCard'
         /\ TableIsLiveOrRecent'
         /\ SettledInOrder'
         /\ NoOvertaking'
         /\ QueueInOrder'
         /\ FlaggedOnlyIfStarted'
<1>1. status \in [Job -> Status] /\ worker = "running" /\ current = {j}
      /\ worker' = "ready" /\ current' = {}
  BY DEF Finished, IInv, TypeOK, OneJobOnTheCard
<1>2. {k \in Job : status[k] = "IN_PROGRESS"} = {j} /\ status[j] = "IN_PROGRESS"
  BY <1>1 DEF IInv, OneJobOnTheCard
<1>3. /\ IsInjective(queue') /\ KeepsOrder(queue', queue)
      /\ ToSet(queue') = ToSet(queue) \ {j}
  BY <1>2, KeepsItsOrder DEF IInv, QueueMatchesTable
<1>4. j \in Live
  BY <1>2 DEF Live
<1>5. /\ QueueMatchesTable' /\ TableIsLiveOrRecent' /\ SettledInOrder'
      /\ NoOvertaking' /\ QueueInOrder' /\ FlaggedOnlyIfStarted'
  BY <1>2, <1>3, <1>4, SettlingStep
<1>6. {k \in Job : status'[k] = "IN_PROGRESS"} = {}
  BY <1>1, <1>2 DEF Terminal
<1>7. OneJobOnTheCard'
  BY <1>1, <1>6 DEF OneJobOnTheCard
<1>. QED BY <1>5, <1>7

LEMMA CompleteStep ==
  ASSUME IInv, TypeOK', NEW j \in Job, Complete(j)
  PROVE  IInv'
<1>1. /\ status \in [Job -> Status] /\ output \in [Job -> BOOLEAN] /\ error \in [Job -> Reason]
      /\ status[j] = "IN_PROGRESS" /\ error[j] = "none"
  BY DEF Complete, Finished, IInv, TypeOK, OneJobOnTheCard, EnvelopeMatchesFate
<1>2. /\ QueueMatchesTable' /\ OneJobOnTheCard' /\ TableIsLiveOrRecent' /\ SettledInOrder'
      /\ NoOvertaking' /\ QueueInOrder' /\ FlaggedOnlyIfStarted'
  <2>1. "COMPLETED" \in Terminal
    BY DEF Terminal
  <2>. QED BY <2>1, FinishedStep DEF Complete
<1>3. EnvelopeMatchesFate'
  <2>1. \A k \in Job : output'[k] = (k = j \/ output[k])
    BY <1>1 DEF Complete
  <2>2. \A k \in Job : status'[k] = IF k = j THEN "COMPLETED" ELSE status[k]
    BY <1>1 DEF Complete
  <2>. QED BY <1>1, <2>1, <2>2 DEF Complete, IInv, EnvelopeMatchesFate
<1>. QED BY <1>2, <1>3 DEF IInv

LEMMA FailStep ==
  ASSUME IInv, TypeOK', NEW j \in Job, Finished(j), NEW reason \in {"canceled", "exception"},
         reason = "canceled" => cancelled[j], Fail(j, reason),
         UNCHANGED <<output, cancelled, queue, arrival>>
  PROVE  IInv'
<1>1. /\ status \in [Job -> Status] /\ error \in [Job -> Reason]
      /\ status[j] = "IN_PROGRESS" /\ ~output[j]
  BY DEF Finished, IInv, TypeOK, OneJobOnTheCard, EnvelopeMatchesFate
<1>2. /\ QueueMatchesTable' /\ OneJobOnTheCard' /\ TableIsLiveOrRecent' /\ SettledInOrder'
      /\ NoOvertaking' /\ QueueInOrder' /\ FlaggedOnlyIfStarted'
  <2>1. "FAILED" \in Terminal /\ Retain(j) /\ status' = [status EXCEPT ![j] = "FAILED"]
    BY DEF Terminal, Fail
  <2>2. \A k \in Job : k # j => error'[k] = error[k]
    BY <1>1 DEF Fail
  <2>. QED BY <2>1, <2>2, FinishedStep
<1>3. EnvelopeMatchesFate'
  BY <1>1 DEF Fail, IInv, EnvelopeMatchesFate
<1>. QED BY <1>2, <1>3 DEF IInv

LEMMA TakeStep ==
  ASSUME IInv, TypeOK', Take
  PROVE  IInv'
<1>. DEFINE j == Head(queue)
<1>1. queue \in Seq(Job) /\ queue # <<>> /\ worker = "ready" /\ queue' = Tail(queue)
  BY DEF Take, IInv, TypeOK
<1>2. j \in ToSet(queue)
  BY <1>1, TailFacts
<1>. HIDE DEF j
<1>3. j \in Job /\ j \in jobs /\ status[j] = "IN_QUEUE" /\ ~cancelled[j]
  BY <1>2 DEF IInv, QueueMatchesTable
<1>4. /\ status' = [status EXCEPT ![j] = "IN_PROGRESS"]
      /\ current' = {j} /\ worker' = "running"
      /\ UNCHANGED <<error, jobs, completed_order, settled, output, cancelled, arrival>>
  BY <1>3 DEF Take, Stale, table, j
<1>5. status \in [Job -> Status] /\ TypeOK
  BY DEF IInv, TypeOK
<1>6. /\ IsInjective(queue') /\ ToSet(queue') = ToSet(queue) \ {j} /\ KeepsOrder(queue', queue)
  BY <1>1, InjectiveTail DEF IInv, QueueMatchesTable, j
<1>7. \A k \in Job : status'[k] = IF k = j THEN "IN_PROGRESS" ELSE status[k]
  BY <1>4, <1>5
<1>8. QueueMatchesTable'
  <2>1. ToSet(queue') = {k \in Job : status'[k] = "IN_QUEUE"}
    BY <1>6, <1>7 DEF IInv, QueueMatchesTable
  <2>. QED BY <2>1, <1>4, <1>6 DEF IInv, QueueMatchesTable
<1>9. OneJobOnTheCard'
  <2>1. current = {}
    BY <1>1 DEF IInv, OneJobOnTheCard
  <2>2. {k \in Job : status'[k] = "IN_PROGRESS"} = {j}
    BY <2>1, <1>3, <1>7 DEF IInv, OneJobOnTheCard
  <2>. QED BY <2>2, <1>4 DEF OneJobOnTheCard
<1>10. TableIsLiveOrRecent' /\ SettledInOrder'
  <2>1. Live' = Live
    BY <1>3, <1>7 DEF Live
  <2>2. {k \in Job : Settled(k)'} = {k \in Job : Settled(k)}
    BY <1>3, <1>7 DEF Settled, Terminal
  <2>3. TableIsLiveOrRecent'
    BY <2>1, <1>4 DEF IInv, TableIsLiveOrRecent
  <2>4. SettledInOrder'
    BY <2>2, <1>4 DEF IInv, SettledInOrder
  <2>. QED BY <2>3, <2>4
<1>11. EnvelopeMatchesFate' /\ FlaggedOnlyIfStarted'
  <2>1. \A k \in Job : /\ status'[k] = "COMPLETED" <=> status[k] = "COMPLETED"
                       /\ status'[k] = "FAILED" <=> status[k] = "FAILED"
    BY <1>3, <1>7
  <2>2. EnvelopeMatchesFate'
    BY <2>1, <1>4 DEF IInv, EnvelopeMatchesFate
  <2>3. FlaggedOnlyIfStarted'
    BY <1>3, <1>4, <1>7 DEF IInv, FlaggedOnlyIfStarted
  <2>. QED BY <2>2, <2>3
<1>12. QueueInOrder'
  BY <1>3, <1>4, <1>6, <1>7, OrderStep DEF IInv
<1>13. NoOvertaking'
  <2>1. ASSUME NEW m \in DOMAIN arrival, NEW n \in DOMAIN arrival, m < n,
               status'[arrival[m]] = "IN_QUEUE"
        PROVE  status'[arrival[n]] = "IN_QUEUE" \/ error'[arrival[n]] = "canceled before start"
    <3>1. arrival[m] \in Job /\ arrival[n] \in Job
      BY <1>5, ArrivedAreJobs
    <3>2. status[arrival[m]] = "IN_QUEUE" /\ arrival[m] # j
      BY <2>1, <3>1, <1>7
    <3>3. status[arrival[n]] = "IN_QUEUE" \/ error[arrival[n]] = "canceled before start"
      BY <2>1, <3>2 DEF IInv, NoOvertaking
    <3>4. CASE arrival[n] # j
      BY <3>1, <3>3, <3>4, <1>4, <1>7
    <3>5. CASE arrival[n] = j
      \* j is at the head, so an earlier arrival that waits would stand before it.
      <4>1. arrival[m] \in ToSet(queue)
        BY <3>1, <3>2 DEF IInv, QueueMatchesTable
      <4>2. DOMAIN queue = 1..Len(queue) /\ Len(queue) \in Nat \ {0} /\ queue[1] = j
        BY <1>1, TailFacts DEF j
      <4>3. PICK p \in 1..Len(queue) : queue[p] = arrival[m]
        BY <4>1, <4>2 DEF ToSet
      <4>4. 1 \in 1..Len(queue) /\ p # 1 /\ 1 < p
        BY <3>2, <4>2, <4>3
      <4>5. n < m
        BY <4>2, <4>3, <4>4, <3>5 DEF IInv, QueueInOrder
      <4>6. m \in Nat /\ n \in Nat
        <5>1. arrival \in Seq(Job)
          BY <1>5 DEF TypeOK
        <5>2. DOMAIN arrival = 1..Len(arrival) /\ Len(arrival) \in Nat
          BY <5>1, LenProperties
        <5>. QED BY <5>2
      <4>7. ~(n < m)
        BY <4>6, <2>1
      <4>. QED BY <4>5, <4>7
    <3>. QED BY <3>4, <3>5
  <2>2. arrival' = arrival
    BY <1>4
  <2>. QED BY <2>1, <2>2 DEF NoOvertaking
<1>. QED BY <1>8, <1>9, <1>10, <1>11, <1>12, <1>13 DEF IInv

\* The steps that touch nothing but the thread's place and the stop flag.
LEMMA IdleStep ==
  ASSUME IInv, TypeOK', UNCHANGED <<fields, table, queue, current, arrival>>,
         worker' = "running" <=> worker = "running"
  PROVE  IInv'
<1>1. UNCHANGED <<status, output, error, cancelled, jobs, completed_order, settled,
                  queue, current, arrival>>
  BY DEF fields, table
<1>2. QueueMatchesTable'
  BY <1>1 DEF IInv, QueueMatchesTable
<1>3. OneJobOnTheCard'
  BY <1>1 DEF IInv, OneJobOnTheCard
<1>4. EnvelopeMatchesFate' /\ FlaggedOnlyIfStarted'
  BY <1>1 DEF IInv, EnvelopeMatchesFate, FlaggedOnlyIfStarted
<1>5. NoOvertaking' /\ QueueInOrder'
  <2>1. NoOvertaking'
    BY <1>1 DEF IInv, NoOvertaking
  <2>2. QueueInOrder'
    BY <1>1 DEF IInv, QueueInOrder
  <2>. QED BY <2>1, <2>2
<1>6. TableIsLiveOrRecent' /\ SettledInOrder'
  <2>1. TableIsLiveOrRecent'
    BY <1>1 DEF IInv, TableIsLiveOrRecent, Live
  <2>2. SettledInOrder'
    BY <1>1 DEF IInv, SettledInOrder, Settled
  <2>. QED BY <2>1, <2>2
<1>. QED BY <1>2, <1>3, <1>4, <1>5, <1>6 DEF IInv

LEMMA NextIInv == IInv /\ [Next]_vars => IInv'
<1>. SUFFICES ASSUME IInv, [Next]_vars PROVE IInv'
  OBVIOUS
<1>1. TypeOK'
  BY TypeStep DEF IInv
<1>2. ASSUME NEW j \in Job, Submit(j) PROVE IInv'
  BY <1>1, <1>2, SubmitStep
<1>3. ASSUME NEW j \in Job, CancelQueued(j) PROVE IInv'
  BY <1>1, <1>3, CancelQueuedStep
<1>4. ASSUME NEW j \in Job, CancelRunning(j) PROVE IInv'
  BY <1>1, <1>4, CancelRunningStep
<1>5. ASSUME NEW j \in Job, Complete(j) PROVE IInv'
  BY <1>1, <1>5, CompleteStep
<1>6. ASSUME NEW j \in Job, Abort(j) PROVE IInv'
  BY <1>1, <1>6, FailStep DEF Abort
<1>7. ASSUME NEW j \in Job, Raise(j) PROVE IInv'
  BY <1>1, <1>7, FailStep DEF Raise
<1>8. CASE Take
  BY <1>1, <1>8, TakeStep
<1>9. CASE Sleep \/ Return \/ Die \/ Shutdown
  <2>1. UNCHANGED <<fields, table, queue, current, arrival>>
    BY <1>9 DEF Sleep, Return, Die, Shutdown
  <2>2. worker' = "running" <=> worker = "running"
    BY <1>9 DEF Sleep, Return, Die, Shutdown
  <2>. QED BY <1>1, <2>1, <2>2, IdleStep
<1>10. CASE UNCHANGED vars
  <2>1. UNCHANGED <<fields, table, queue, current, arrival>> /\ worker' = worker
    BY <1>10 DEF vars
  <2>. QED BY <1>1, <2>1, IdleStep
<1>. QED BY <1>2, <1>3, <1>4, <1>5, <1>6, <1>7, <1>8, <1>9, <1>10 DEF Next, RunLoop, RunEnds

LEMMA Inductive == Spec => []IInv
BY InitIInv, NextIInv, PTL DEF Spec

-----------------------------------------------------------------------------
(* What the inductive invariant gives. *)

\* The deque is exactly the queued jobs, each once: the branches of _run_loop that
\* skip or drop a popped job are dead code, whatever order the calls come in.
THEOREM QueueIsTheQueuedJobs == Spec => []QueueMatchesTable
BY Inductive, PTL DEF IInv

\* One job on the card, exactly while the worker thread is in run_fn.
THEOREM CardRunsOneJob == Spec => []OneJobOnTheCard
BY Inductive, PTL DEF IInv

\* The table is the live jobs and the last MaxCompleted settled ones, for every
\* MaxCompleted, 0 included.
THEOREM RetentionIsExact == Spec => []TableIsLiveOrRecent
BY Inductive, PTL DEF IInv

\* A settled job's output, reason and flag agree with how it ended.
THEOREM EnvelopeIsHonest == Spec => []EnvelopeMatchesFate
BY Inductive, PTL DEF IInv

\* Jobs start in the order submit() accepted them, cancels or not.
THEOREM FirstComeFirstServed == Spec => []NoOvertaking
BY Inductive, PTL DEF IInv

-----------------------------------------------------------------------------
(* The refinement: each step of the registry is, seen by a poller, a step   *)
(* of JobService or none.  Also what a step may never do (SettledForGood)   *)
(* and that no wakeup is lost.                                              *)

\* What IInv says of the table that the mapping needs.
LEMMA TableFacts ==
  ASSUME IInv
  PROVE  /\ Live \subseteq jobs
         /\ \A k \in jobs : k \in Job /\ (k \in Live \/ Settled(k))
         /\ status \in [Job -> Status]
<1>1. Live \subseteq jobs /\ status \in [Job -> Status] /\ jobs \subseteq Job /\ settled \in Seq(Job)
  BY DEF IInv, TableIsLiveOrRecent, TypeOK
<1>2. ASSUME NEW k \in jobs, k \notin Live PROVE Settled(k)
  <2>1. PICK i \in (Excess(settled) + 1)..Len(settled) : k = settled[i]
    BY <1>2 DEF IInv, TableIsLiveOrRecent
  <2>2. Len(settled) \in Nat /\ DOMAIN settled = 1..Len(settled)
    BY <1>1, LenProperties
  <2>3. Excess(settled) \in Nat
    BY <2>2, ExcessFacts
  <2>4. i \in DOMAIN settled
    BY <2>1, <2>2, <2>3
  <2>5. k \in ToSet(settled)
    BY <2>1, <2>4 DEF ToSet
  <2>. QED BY <2>5 DEF IInv, SettledInOrder
<1>. QED BY <1>1, <1>2

\* Any way a live job settles is one Settle of the service, with the jobs that
\* _retain_locked drops as the forgotten ones.
LEMMA SettlingMaps ==
  ASSUME IInv, TypeOK', NEW j \in Job, j \in Live, NEW outcome \in Terminal,
         status[j] = "IN_QUEUE" => outcome = "FAILED",
         status' = [status EXCEPT ![j] = outcome], Retain(j)
  PROVE  Service!Settle(j, outcome)
<1>. DEFINE forgotten == {k \in jobs : k \notin jobs'}
<1>1. /\ Live \subseteq jobs /\ status \in [Job -> Status]
      /\ \A k \in jobs : k \in Job /\ (k \in Live \/ Settled(k))
  BY TableFacts
<1>2. Live' \subseteq jobs' /\ Live' = Live \ {j}
  BY SettleStep
<1>3. jobs' \subseteq jobs
  BY DEF Retain
<1>4. \A k \in Job : status'[k] = IF k = j THEN outcome ELSE status[k]
  BY <1>1
<1>5. j \in jobs /\ status[j] \in {"IN_QUEUE", "IN_PROGRESS"} /\ Seen[j] = status[j]
  BY <1>1 DEF Live, Seen
<1>6. ASSUME NEW k \in forgotten
      PROVE  k = j \/ (k \in Job /\ Seen[k] \in Service!Over)
  <2>1. k \in jobs /\ k \notin Live'
    BY <1>2
  <2>2. k = j \/ Settled(k)
    BY <2>1, <1>1, <1>2
  <2>. QED BY <2>1, <2>2, <1>1 DEF Seen, Settled, Terminal, Service!Over
<1>7. forgotten \in SUBSET ({j} \cup {k \in Job : Seen[k] \in Service!Over})
  BY <1>6
<1>8. ASSUME NEW k \in Job
      PROVE  Seen'[k] = IF k \in forgotten THEN "gone"
                        ELSE IF k = j THEN outcome ELSE Seen[k]
  <2>1. Seen'[k] = IF status'[k] # "unborn" /\ k \notin jobs' THEN "gone" ELSE status'[k]
    BY DEF Seen
  <2>2. Seen[k] = IF status[k] # "unborn" /\ k \notin jobs THEN "gone" ELSE status[k]
    BY DEF Seen
  <2>3. CASE k = j
    BY <2>1, <2>3, <1>4, <1>5 DEF Terminal
  <2>4. CASE k # j /\ k \in forgotten
    <3>1. status[k] # "unborn"
      BY <2>4, <1>1 DEF Live, Settled, Terminal
    <3>. QED BY <2>1, <2>4, <3>1, <1>4
  <2>5. CASE k # j /\ k \notin forgotten
    <3>1. k \in jobs <=> k \in jobs'
      BY <2>5, <1>3
    <3>. QED BY <2>1, <2>2, <2>5, <3>1, <1>4
  <2>. QED BY <2>3, <2>4, <2>5
<1>9. Seen' = [k \in Job |-> IF k \in forgotten THEN "gone"
                             ELSE IF k = j THEN outcome ELSE Seen[k]]
  BY <1>8 DEF Seen
<1>. QED BY <1>5, <1>7, <1>9 DEF Service!Settle

LEMMA InitMaps == Init => Service!Init
BY DEF Init, Service!Init, Seen

LEMMA StepMaps ==
  ASSUME IInv, TypeOK', [Next]_vars
  PROVE  [Service!Next]_Seen
<1>1. /\ Live \subseteq jobs /\ status \in [Job -> Status] /\ error \in [Job -> Reason]
      /\ \A k \in jobs : k \in Job /\ (k \in Live \/ Settled(k))
  BY TableFacts DEF IInv, TypeOK
<1>2. ASSUME NEW j \in Job, Submit(j) PROVE Service!Accept(j)
  <2>1. status[j] = "unborn" /\ j \notin jobs
    BY <1>1, <1>2 DEF Submit, Live, Settled, Terminal
  <2>2. ASSUME NEW k \in Job PROVE Seen'[k] = IF k = j THEN "IN_QUEUE" ELSE Seen[k]
    BY <1>1, <1>2, <2>1 DEF Submit, Seen
  <2>3. Seen' = [Seen EXCEPT ![j] = "IN_QUEUE"]
    BY <2>2 DEF Seen
  <2>. QED BY <2>1, <2>3 DEF Service!Accept, Seen
<1>3. ASSUME NEW j \in Job, CancelQueued(j) PROVE Service!Settle(j, "FAILED")
  <2>1. j \in Live /\ "FAILED" \in Terminal
    BY <1>3 DEF CancelQueued, Live, Terminal
  <2>. QED BY <1>3, <2>1, SettlingMaps DEF CancelQueued, Fail
<1>4. ASSUME NEW j \in Job, Finished(j) PROVE j \in Live /\ status[j] # "IN_QUEUE"
  BY <1>4 DEF Finished, IInv, OneJobOnTheCard, Live
<1>5. ASSUME NEW j \in Job, Complete(j) PROVE Service!Settle(j, "COMPLETED")
  <2>1. j \in Live /\ status[j] # "IN_QUEUE" /\ "COMPLETED" \in Terminal
    BY <1>4, <1>5 DEF Complete, Terminal
  <2>. QED BY <1>5, <2>1, SettlingMaps DEF Complete
<1>6. ASSUME NEW j \in Job, Abort(j) \/ Raise(j) PROVE Service!Settle(j, "FAILED")
  <2>1. j \in Live /\ "FAILED" \in Terminal
    BY <1>4, <1>6 DEF Abort, Raise, Terminal
  <2>2. status' = [status EXCEPT ![j] = "FAILED"] /\ Retain(j)
    BY <1>6 DEF Abort, Raise, Fail
  <2>. QED BY <2>1, <2>2, SettlingMaps
<1>7. ASSUME Take PROVE \E j \in Job : Service!Start(j)
  <2>. DEFINE j == Head(queue)
  <2>1. j \in ToSet(queue)
    <3>1. queue \in Seq(Job) /\ queue # <<>>
      BY <1>7 DEF Take, IInv, TypeOK
    <3>. QED BY <3>1, TailFacts
  <2>. HIDE DEF j
  <2>2. j \in Job /\ j \in jobs /\ status[j] = "IN_QUEUE" /\ ~cancelled[j]
    BY <2>1 DEF IInv, QueueMatchesTable
  <2>3. status' = [status EXCEPT ![j] = "IN_PROGRESS"] /\ jobs' = jobs /\ worker = "ready"
    BY <1>7, <2>2 DEF Take, Stale, table, j
  <2>4. \A k \in Job : Seen[k] # "IN_PROGRESS"
    BY <2>3 DEF IInv, OneJobOnTheCard, Seen
  <2>5. ASSUME NEW k \in Job PROVE Seen'[k] = IF k = j THEN "IN_PROGRESS" ELSE Seen[k]
    BY <1>1, <2>2, <2>3 DEF Seen
  <2>6. Seen' = [Seen EXCEPT ![j] = "IN_PROGRESS"]
    BY <2>5 DEF Seen
  <2>7. Service!Start(j)
    BY <2>2, <2>4, <2>6 DEF Service!Start, Seen
  <2>. QED BY <2>2, <2>7
<1>8. ASSUME UNCHANGED <<status, jobs>> PROVE Seen' = Seen
  BY <1>8 DEF Seen
<1>9. ASSUME NEW j \in Job, CancelRunning(j) PROVE UNCHANGED <<status, jobs>>
  BY <1>9 DEF CancelRunning, table
<1>10. CASE Sleep \/ Return \/ Die \/ Shutdown
  BY <1>8, <1>10 DEF Sleep, Return, Die, Shutdown, fields, table
<1>11. CASE UNCHANGED vars
  BY <1>8, <1>11 DEF vars, fields, table
<1>. QED
  <2>1. "COMPLETED" \in Service!Over /\ "FAILED" \in Service!Over
    BY DEF Service!Over
  <2>2. ASSUME NEW j \in Job, Submit(j) \/ CancelQueued(j) \/ RunEnds(j) PROVE Service!Next
    BY <2>1, <2>2, <1>2, <1>3, <1>5, <1>6 DEF RunEnds, Service!Next, Service!SettleEither
  <2>3. CASE Take
    BY <2>3, <1>7 DEF Service!Next
  <2>. QED BY <2>2, <2>3, <1>8, <1>9, <1>10, <1>11 DEF Next, RunLoop

\* Whatever handlers and thread do, a poller sees a JobService: one job at a time,
\* every job settles before it is forgotten, and nothing settled comes back.
THEOREM RegistryImplementsService == Spec => ImplementsService
<1>1. IInv /\ IInv' /\ [Next]_vars => [Service!Next]_Seen
  BY StepMaps DEF IInv
<1>. QED BY <1>1, InitMaps, Inductive, PTL DEF Spec, ImplementsService, Service!Spec

-----------------------------------------------------------------------------
(* What no step may do, and what keeps the thread awake. *)

LEMMA SettledStays ==
  ASSUME IInv, [Next]_vars, NEW k \in Job, Settled(k)
  PROVE  /\ status'[k] = status[k] /\ output'[k] = output[k] /\ error'[k] = error[k]
         /\ k \notin jobs => k \notin jobs'
<1>1. /\ status \in [Job -> Status] /\ output \in [Job -> BOOLEAN] /\ error \in [Job -> Reason]
      /\ status[k] \notin {"unborn", "IN_QUEUE", "IN_PROGRESS"}
  BY DEF IInv, TypeOK, Settled, Terminal
<1>2. ASSUME NEW j \in Job, Submit(j) PROVE j # k
  BY <1>1, <1>2 DEF Submit
<1>3. ASSUME NEW j \in Job, CancelQueued(j) PROVE j # k
  BY <1>1, <1>3 DEF CancelQueued
<1>4. ASSUME NEW j \in Job, Finished(j) PROVE j # k
  BY <1>1, <1>4 DEF Finished, IInv, OneJobOnTheCard
<1>5. ASSUME NEW j \in Job, Submit(j)
      PROVE  /\ status'[k] = status[k] /\ output'[k] = output[k] /\ error'[k] = error[k]
             /\ k \notin jobs => k \notin jobs'
  BY <1>1, <1>2, <1>5 DEF Submit
<1>6. ASSUME NEW j \in Job, CancelQueued(j) \/ RunEnds(j)
      PROVE  /\ status'[k] = status[k] /\ output'[k] = output[k] /\ error'[k] = error[k]
             /\ k \notin jobs => k \notin jobs'
  <2>1. j # k
    BY <1>3, <1>4, <1>6 DEF RunEnds, Complete, Abort, Raise
  <2>2. Retain(j)
    BY <1>6 DEF CancelQueued, RunEnds, Complete, Abort, Raise, Fail
  <2>3. k \notin jobs => k \notin jobs'
    BY <2>2 DEF Retain
  <2>4. CASE CancelQueued(j) \/ Abort(j) \/ Raise(j)
    BY <1>1, <2>1, <2>3, <2>4 DEF CancelQueued, Abort, Raise, Fail
  <2>5. CASE Complete(j)
    BY <1>1, <2>1, <2>3, <2>5 DEF Complete
  <2>. QED BY <1>6, <2>4, <2>5 DEF RunEnds
<1>7. CASE Take
  <2>. DEFINE j == Head(queue)
  <2>1. j \in ToSet(queue)
    <3>1. queue \in Seq(Job) /\ queue # <<>>
      BY <1>7 DEF Take, IInv, TypeOK
    <3>. QED BY <3>1, TailFacts
  <2>. HIDE DEF j
  <2>2. j \in Job /\ j \in jobs /\ status[j] = "IN_QUEUE" /\ ~cancelled[j]
    BY <2>1 DEF IInv, QueueMatchesTable
  <2>3. status' = [status EXCEPT ![j] = "IN_PROGRESS"] /\ UNCHANGED <<jobs, output, error>>
    BY <1>7, <2>2 DEF Take, Stale, table, j
  <2>. QED BY <1>1, <2>2, <2>3
<1>8. CASE \/ \E j \in Job : CancelRunning(j)
           \/ Sleep \/ Return \/ Die \/ Shutdown
           \/ UNCHANGED vars
  <2>1. UNCHANGED <<status, output, error, jobs>>
    BY <1>8 DEF CancelRunning, Sleep, Return, Die, Shutdown, vars, fields, table
  <2>. QED BY <2>1
<1>. QED BY <1>5, <1>6, <1>7, <1>8 DEF Next, RunLoop

\* A settled job's status, output and reason never change again, and an evicted id
\* never comes back: no race of cancel(), completion and retention undoes a result.
THEOREM SettledOnce == Spec => SettledForGood
<1>1. IInv /\ [Next]_vars =>
        [\A j \in Job : Settled(j) =>
            /\ status'[j] = status[j]
            /\ output'[j] = output[j]
            /\ error'[j] = error[j]
            /\ j \notin jobs => j \notin jobs']_vars
  BY SettledStays
<1>. QED BY <1>1, Inductive, PTL DEF Spec, SettledForGood

\* QueuedJobHasWorker with what it needs to be inductive: the thread returns only
\* when stopped.
WakeInv == QueuedJobHasWorker /\ (worker = "returning" => stop)

LEMMA WakeStep ==
  ASSUME TypeOK, WakeInv, [Next]_vars
  PROVE  WakeInv'
<1>1. queue \in Seq(Job) /\ worker \in Place /\ QueuedJobHasWorker
      /\ (worker = "returning" => stop)
  BY DEF TypeOK, WakeInv
<1>2. ASSUME NEW j \in Job, Submit(j) PROVE WakeInv'
  <2>1. worker' \in {"ready", "running", "returning"} /\ (worker' = "returning" => worker = "returning")
    BY <1>1, <1>2 DEF Submit, Roused, Place
  <2>2. stop' = stop
    BY <1>2 DEF Submit
  <2>. QED BY <1>1, <2>1, <2>2 DEF WakeInv, QueuedJobHasWorker
<1>3. ASSUME NEW j \in Job, CancelQueued(j) PROVE WakeInv'
  <2>1. worker' = worker /\ stop' = stop
    BY <1>3 DEF CancelQueued
  <2>2. PICK i \in DOMAIN queue : TRUE
    BY <1>3 DEF CancelQueued
  <2>3. queue # <<>>
    BY <1>1, <2>2, LenProperties
  <2>. QED BY <1>1, <2>1, <2>3 DEF WakeInv, QueuedJobHasWorker
<1>4. ASSUME NEW j \in Job, CancelRunning(j) PROVE WakeInv'
  BY <1>1, <1>4 DEF CancelRunning, WakeInv, QueuedJobHasWorker
<1>5. ASSUME NEW j \in Job, RunEnds(j) PROVE WakeInv'
  <2>1. worker' = "ready"
    BY <1>5 DEF RunEnds, Complete, Abort, Raise, Finished
  <2>. QED BY <2>1 DEF WakeInv, QueuedJobHasWorker
<1>6. CASE Take
  <2>1. worker' \in {"ready", "running"}
    BY <1>6 DEF Take
  <2>. QED BY <2>1 DEF WakeInv, QueuedJobHasWorker
<1>7. CASE Sleep \/ Return
  BY <1>1, <1>7 DEF Sleep, Return, WakeInv, QueuedJobHasWorker
<1>8. CASE Die
  BY <1>1, <1>8 DEF Die, WakeInv, QueuedJobHasWorker
<1>9. CASE Shutdown
  BY <1>1, <1>9 DEF Shutdown, WakeInv, QueuedJobHasWorker
<1>10. CASE UNCHANGED vars
  BY <1>1, <1>10 DEF vars, WakeInv, QueuedJobHasWorker
<1>. QED BY <1>2, <1>3, <1>4, <1>5, <1>6, <1>7, <1>8, <1>9, <1>10 DEF Next, RunLoop

\* No lost wakeup: the thread sleeps only with nothing to do, and a queued job has a
\* thread that will come to it unless the server was stopped.
THEOREM NoLostWakeup == Spec => []QueuedJobHasWorker
<1>1. Init => WakeInv
  BY DEF Init, WakeInv, QueuedJobHasWorker
<1>2. TypeOK /\ WakeInv /\ [Next]_vars => WakeInv'
  BY WakeStep
<1>3. WakeInv => QueuedJobHasWorker
  BY DEF WakeInv
<1>. QED BY <1>1, <1>2, <1>3, TypeCorrect, PTL DEF Spec

-----------------------------------------------------------------------------
(* What the registry asks of run_fn is a RunFn, which WorkerClient is proved *)
(* to implement: the two modules agree on the interface between them.        *)

\* How far the call of run_fn for j has come.
Call(j) ==
  IF status[j] = "IN_PROGRESS" THEN "running"
  ELSE IF status[j] = "COMPLETED" THEN "returned"
  ELSE IF error[j] = "canceled" THEN "cancelled"
  ELSE IF error[j] = "exception" THEN "raised"
  ELSE "not yet"

Render == INSTANCE RunFn WITH call <- [j \in Job |-> Call(j)], asked <- cancelled

LEMMA CallEnds ==
  ASSUME IInv, NEW j \in Job, RunEnds(j)
  PROVE  Render!End(j)
<1>1. /\ status[j] = "IN_PROGRESS" /\ error[j] = "none" /\ cancelled' = cancelled
      /\ status \in [Job -> Status] /\ error \in [Job -> Reason]
  BY DEF RunEnds, Complete, Abort, Raise, Finished, IInv, OneJobOnTheCard, EnvelopeMatchesFate, TypeOK
<1>2. Call(j) = "running"
  BY <1>1 DEF Call
<1>3. ASSUME NEW k \in Job, k # j PROVE Call(k)' = Call(k)
  BY <1>1, <1>3 DEF RunEnds, Complete, Abort, Raise, Fail, Call
<1>4. /\ Complete(j) => Call(j)' = "returned"
      /\ Abort(j) => Call(j)' = "cancelled" /\ cancelled[j]
      /\ Raise(j) => Call(j)' = "raised"
  BY <1>1 DEF Complete, Abort, Raise, Fail, Call
<1>5. PICK ending \in Render!Ending : Call(j)' = ending /\ (ending = "cancelled" => cancelled[j])
  BY <1>4 DEF RunEnds, Render!Ending
<1>6. [k \in Job |-> Call(k)]' = [[k \in Job |-> Call(k)] EXCEPT ![j] = ending]
  BY <1>3, <1>5
<1>. QED BY <1>1, <1>2, <1>5, <1>6 DEF Render!End

LEMMA CallBegins ==
  ASSUME IInv, Take
  PROVE  \E j \in Job : Render!Begin(j)
<1>. DEFINE j == Head(queue)
<1>1. j \in ToSet(queue)
  <2>1. queue \in Seq(Job) /\ queue # <<>>
    BY DEF Take, IInv, TypeOK
  <2>. QED BY <2>1, TailFacts
<1>. HIDE DEF j
<1>2. j \in Job /\ j \in jobs /\ status[j] = "IN_QUEUE" /\ ~cancelled[j] /\ error[j] = "none"
  BY <1>1 DEF IInv, QueueMatchesTable, EnvelopeMatchesFate
<1>3. /\ status' = [status EXCEPT ![j] = "IN_PROGRESS"] /\ error' = error
      /\ cancelled' = cancelled /\ worker = "ready"
  BY <1>2 DEF Take, Stale, j
<1>4. status \in [Job -> Status] /\ \A k \in Job : status[k] # "IN_PROGRESS"
  BY <1>3 DEF IInv, TypeOK, OneJobOnTheCard
<1>5. \A k \in Job : Call(k) # "running"
  BY <1>4 DEF Call
<1>6. Call(j) = "not yet"
  BY <1>2 DEF Call
<1>7. \A k \in Job : Call(k)' = IF k = j THEN "running" ELSE Call(k)
  BY <1>2, <1>3, <1>4 DEF Call
<1>8. [k \in Job |-> Call(k)]' = [[k \in Job |-> Call(k)] EXCEPT ![j] = "running"]
  BY <1>7
<1>. QED BY <1>2, <1>3, <1>5, <1>6, <1>8 DEF Render!Begin

LEMMA CallStep ==
  ASSUME IInv, [Next]_vars
  PROVE  [Render!Next]_<<[j \in Job |-> Call(j)], cancelled>>
<1>1. status \in [Job -> Status] /\ error \in [Job -> Reason]
  BY DEF IInv, TypeOK
<1>2. ASSUME NEW j \in Job, Submit(j) \/ CancelQueued(j)
      PROVE  UNCHANGED <<[k \in Job |-> Call(k)], cancelled>>
  <2>1. status[j] \in {"unborn", "IN_QUEUE"} /\ error[j] = "none" /\ cancelled' = cancelled
    BY <1>1, <1>2 DEF Submit, CancelQueued, IInv, EnvelopeMatchesFate
  <2>2. \A k \in Job : Call(k)' = Call(k)
    BY <1>1, <1>2, <2>1 DEF Submit, CancelQueued, Fail, Call
  <2>. QED BY <2>1, <2>2
<1>3. ASSUME NEW j \in Job, CancelRunning(j) PROVE Render!Ask(j)
  <2>1. \A k \in Job : Call(k)' = Call(k)
    BY <1>3 DEF CancelRunning, Call
  <2>2. Call(j) = "running" /\ cancelled' = [cancelled EXCEPT ![j] = TRUE]
    BY <1>3 DEF CancelRunning, Call
  <2>. QED BY <2>1, <2>2 DEF Render!Ask
<1>4. ASSUME UNCHANGED fields PROVE UNCHANGED <<[k \in Job |-> Call(k)], cancelled>>
  BY <1>4 DEF fields, Call
<1>5. CASE Sleep \/ Return \/ Die \/ Shutdown \/ UNCHANGED vars
  BY <1>4, <1>5 DEF Sleep, Return, Die, Shutdown, vars
<1>. QED
  <2>1. ASSUME NEW j \in Job, RunEnds(j) \/ CancelRunning(j) PROVE Render!Next
    BY <1>3, <2>1, CallEnds DEF Render!Next
  <2>2. CASE Take
    BY <2>2, CallBegins DEF Render!Next
  <2>. QED BY <1>2, <1>5, <2>1, <2>2 DEF Next, RunLoop

\* run_fn is called for one job at a time and once for each, is asked to cancel only while
\* it runs, and is believed to have been cancelled only when it was asked: what the
\* registry expects of it is RunFn, whatever the ids and MaxCompleted.
THEOREM RegistryCallsRunFn == Spec => Render!Spec
<1>1. Init => Render!Init
  BY DEF Init, Render!Init, Call
<1>2. IInv /\ [Next]_vars => [Render!Next]_<<[j \in Job |-> Call(j)], cancelled>>
  BY CallStep
<1>. QED BY <1>1, <1>2, Inductive, PTL DEF Spec, Render!Spec
=============================================================================
