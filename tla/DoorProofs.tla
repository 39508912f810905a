----------------------------- MODULE DoorProofs -----------------------------
(***************************************************************************)
(* What the caller of the door concludes is so, for every set of ids and    *)
(* shots, every slugging of names, every MaxCompleted and any number of     *)
(* timeouts and restarts.  A restart empties the table and the deque and    *)
(* leaves the Job objects nobody will touch again as they were, so that     *)
(* JobRegistry's own invariant (the table is the live jobs and the recent   *)
(* ones) does not survive it; the invariant here keeps of it what does, and *)
(* adds what ties the store to the order in which jobs were accepted.       *)
(***************************************************************************)
EXTENDS Door, JobRegistryProofs, FiniteSetTheorems

\* Where j stands in the sequence s.
Position(s, j) == CHOOSE n \in DOMAIN s : s[n] = j

\* Settled so long ago, as the settling order s counts, that the table let go of it.
Evicted(s, j) == \E m \in DOMAIN s : s[m] = j /\ Len(s) - m >= MaxCompleted

Verdict == {"none", "400", "404"} \cup Terminal

-----------------------------------------------------------------------------
(* The invariant. *)

DoorTypes ==
  /\ malformed \subseteq Shot
  /\ of \in [Job -> SUBSET Shot]
  /\ flying \in [Shot -> Nat] /\ timeouts \in Nat /\ restarts \in Nat
  /\ polled \in [Shot -> SUBSET Job]
  /\ verdict \in [Shot -> Verdict]
  /\ wrote \subseteq Job
  /\ store \in [Key -> SUBSET Job]
  /\ forgotten \subseteq Job

\* An id is accepted once.
AcceptedOnce ==
  /\ IsInjective(arrival)
  /\ ToSet(arrival) = {j \in Job : status[j] # "unborn"}

\* The deque is in order of arrival, behind the running job.
InLine ==
  /\ \A p, q \in DOMAIN queue :
       p < q => Position(arrival, queue[p]) < Position(arrival, queue[q])
  /\ \A q \in ToSet(queue) : status[q] = "IN_QUEUE"
  /\ \A c \in current :
       /\ status[c] = "IN_PROGRESS"
       /\ \A q \in ToSet(queue) : Position(arrival, c) < Position(arrival, q)
  /\ \A c, d \in current : c = d
  /\ worker = "running" <=> current # {}

\* A job settles once, and one that failed has its reason.
Ended ==
  /\ IsInjective(settled)
  /\ ToSet(settled) \subseteq {j \in Job : Settled(j)}
  /\ \A j \in Job : status[j] = "FAILED" => error[j] # "none"

\* _completed_order is the end of the settling order, no longer than the table may be;
\* so what is no longer in the table was lost to a restart or to MaxCompleted others.
Kept ==
  /\ Len(completed_order) <= MaxCompleted /\ Len(completed_order) <= Len(settled)
  /\ \A i \in 1..Len(completed_order) :
       completed_order[i] = settled[(Len(settled) - Len(completed_order)) + i]
  /\ \A j \in Job :
       status[j] # "unborn" => j \in jobs \cup forgotten \/ Evicted(settled, j)

\* Clips are uploaded in the order their jobs were accepted, and the store holds, for
\* each upload, its clip or a later one.
Stored ==
  /\ \A w \in wrote :
       /\ status[w] # "unborn"
       /\ \A c \in current : Position(arrival, w) <= Position(arrival, c)
       /\ \A q \in ToSet(queue) : Position(arrival, w) < Position(arrival, q)
       /\ \A s \in of[w] : \E k \in store[ClipKey[s]] :
            Position(arrival, w) <= Position(arrival, k)
  /\ \A key \in Key : store[key] \subseteq wrote
  /\ \A j \in Job : status[j] = "COMPLETED" => j \in wrote

\* A caller polls a job made for its own shot, of a request that validated.
Called ==
  /\ \A j \in Job :
       /\ status[j] = "unborn" => of[j] = {}
       /\ \A s, t \in of[j] : s = t
       /\ of[j] \cap malformed = {}
  /\ \A s \in Shot : \A j \in polled[s] : status[j] # "unborn" /\ s \in of[j]

\* What a verdict rests on.
Concluded ==
  \A s \in Shot :
    /\ verdict[s] = "COMPLETED" => \E j \in polled[s] : j \in wrote
    /\ verdict[s] = "FAILED" => \E j \in polled[s] : error[j] # "none"
    /\ verdict[s] = "404" => \E j \in polled[s] : j \in forgotten \/ Evicted(settled, j)
    /\ verdict[s] = "400" => s \in malformed

RegistryInv == TypeOK /\ AcceptedOnce /\ InLine /\ Ended /\ Kept

DoorInv == DoorTypes /\ RegistryInv /\ Stored /\ Called /\ Concluded
-----------------------------------------------------------------------------
(* Places in a sequence that lists nothing twice. *)

LEMMA PositionFacts ==
  ASSUME NEW S, NEW s \in Seq(S), IsInjective(s), NEW j \in ToSet(s)
  PROVE  /\ Position(s, j) \in 1..Len(s) /\ Len(s) \in Nat
         /\ s[Position(s, j)] = j
         /\ \A n \in 1..Len(s) : s[n] = j => n = Position(s, j)
<1>1. DOMAIN s = 1..Len(s) /\ Len(s) \in Nat
  BY LenProperties
<1>2. PICK m \in DOMAIN s : s[m] = j
  BY DEF ToSet
<1>3. Position(s, j) \in DOMAIN s /\ s[Position(s, j)] = j
  BY <1>2 DEF Position
<1>. QED BY <1>1, <1>3 DEF IsInjective

\* A newcomer is last, and moves nobody.
LEMMA AppendPositions ==
  ASSUME NEW S, NEW s \in Seq(S), IsInjective(s), NEW x \in S, x \notin ToSet(s)
  PROVE  /\ \A j \in ToSet(s) : Position(Append(s, x), j) = Position(s, j)
         /\ \A j \in ToSet(s) : Position(Append(s, x), j) < Position(Append(s, x), x)
<1>. DEFINE t == Append(s, x)
<1>1. /\ t \in Seq(S) /\ IsInjective(t) /\ ToSet(t) = ToSet(s) \cup {x}
      /\ Len(t) = Len(s) + 1 /\ Len(s) \in Nat
      /\ \A i \in 1..Len(s) : t[i] = s[i]
      /\ t[Len(s) + 1] = x
  BY AppendFacts, InjectiveAppend, LenProperties
<1>. HIDE DEF t
<1>2. Position(t, x) = Len(s) + 1
  BY <1>1, PositionFacts
<1>3. ASSUME NEW j \in ToSet(s)
      PROVE  Position(t, j) = Position(s, j) /\ Position(t, j) < Position(t, x)
  <2>1. Position(s, j) \in 1..Len(s) /\ s[Position(s, j)] = j
    BY PositionFacts
  <2>2. t[Position(s, j)] = j /\ Position(s, j) \in 1..Len(t)
    BY <1>1, <2>1
  <2>3. j \in ToSet(t)
    BY <1>1
  <2>4. \A n \in 1..Len(t) : t[n] = j => n = Position(t, j)
    BY <1>1, <2>3, PositionFacts
  <2>5. Position(t, j) = Position(s, j)
    BY <2>2, <2>4
  <2>. QED BY <1>1, <1>2, <2>1, <2>5
<1>. QED BY <1>3 DEF t

\* What is evicted stays so as others settle.
LEMMA EvictedStays ==
  ASSUME NEW S, NEW s \in Seq(S), NEW x \in S, NEW j, Evicted(s, j)
  PROVE  Evicted(Append(s, x), j)
<1>1. /\ DOMAIN s = 1..Len(s) /\ Len(s) \in Nat
      /\ Len(Append(s, x)) = Len(s) + 1 /\ DOMAIN Append(s, x) = 1..(Len(s) + 1)
      /\ \A i \in 1..Len(s) : Append(s, x)[i] = s[i]
  BY AppendFacts, LenProperties
<1>2. PICK m \in 1..Len(s) : s[m] = j /\ Len(s) - m >= MaxCompleted
  BY <1>1 DEF Evicted
<1>3. m \in DOMAIN Append(s, x) /\ Append(s, x)[m] = j
  BY <1>1, <1>2
<1>4. Len(Append(s, x)) - m >= MaxCompleted
  BY <1>1, <1>2, MaxCompletedIsNat
<1>. QED BY <1>3, <1>4 DEF Evicted

\* At least MaxCompleted jobs settled after an evicted one.
LEMMA EvictedCounts ==
  ASSUME settled \in Seq(Job), IsInjective(settled), NEW j \in Job, Evicted(settled, j)
  PROVE  Cardinality(SettledAfter(j)) >= MaxCompleted
<1>1. DOMAIN settled = 1..Len(settled) /\ Len(settled) \in Nat
  BY LenProperties
<1>2. PICK m \in 1..Len(settled) : settled[m] = j /\ Len(settled) - m >= MaxCompleted
  BY <1>1 DEF Evicted
<1>. DEFINE after == (m + 1)..Len(settled)
            f == [i \in after |-> settled[i]]
<1>3. IsFiniteSet(after) /\ Cardinality(after) = Len(settled) - m
  BY <1>1, <1>2, FS_Interval
<1>4. \A i \in after : settled[i] \in SettledAfter(j)
  <2>1. ASSUME NEW i \in after PROVE settled[i] \in SettledAfter(j)
    <3>1. i \in DOMAIN settled /\ m \in DOMAIN settled /\ m < i
      BY <1>1, <1>2
    <3>2. settled[i] \in Job
      BY <3>1, ElementOfSeq, <1>1
    <3>. QED BY <1>2, <3>1, <3>2 DEF SettledAfter
  <2>. QED BY <2>1
<1>5. \A k \in SettledAfter(j) : \E i \in after : settled[i] = k
  <2>1. ASSUME NEW k \in SettledAfter(j) PROVE \E i \in after : settled[i] = k
    <3>1. PICK p \in DOMAIN settled, n \in DOMAIN settled :
            p < n /\ settled[p] = j /\ settled[n] = k
      BY DEF SettledAfter
    <3>2. p = m
      BY <1>1, <1>2, <3>1 DEF IsInjective
    <3>. QED BY <1>1, <3>1, <3>2
  <2>. QED BY <2>1
<1>6. f \in Bijection(after, SettledAfter(j))
  <2>1. f \in [after -> SettledAfter(j)]
    BY <1>4
  <2>2. \A a, b \in after : f[a] = f[b] => a = b
    BY <1>1, <1>2 DEF IsInjective
  <2>3. \A k \in SettledAfter(j) : \E i \in after : f[i] = k
    BY <1>5
  <2>. QED BY <2>1, <2>2, <2>3 DEF Bijection, Injection, Surjection, IsInjective
<1>7. Cardinality(SettledAfter(j)) = Cardinality(after)
  BY <1>3, <1>6, FS_Bijection DEF ExistsBijection
<1>. QED BY <1>2, <1>3, <1>7, MaxCompletedIsNat
-----------------------------------------------------------------------------
(* The registry's part, step by step. *)

\* What a step may do to what the door's part rests on: ids keep their places, newcomers
\* come last, only a queued job starts, and what has happened has happened.
Moves ==
  /\ \A j \in ToSet(arrival) :
       j \in ToSet(arrival') /\ Position(arrival', j) = Position(arrival, j)
  /\ \A j \in ToSet(arrival), k \in ToSet(arrival') \ ToSet(arrival) :
       Position(arrival', j) < Position(arrival', k)
  /\ current' \subseteq current \cup ToSet(queue)
  /\ ToSet(queue') \subseteq ToSet(queue) \cup (ToSet(arrival') \ ToSet(arrival))
  /\ \A j \in Job : status[j] # "unborn" => status'[j] # "unborn"
  /\ \A j \in Job : error[j] # "none" => error'[j] # "none"
  /\ \A j \in Job : Evicted(settled, j) => Evicted(settled', j)

\* Every accepted job has a place.
LEMMA Placed ==
  ASSUME RegistryInv, NEW j \in Job, status[j] # "unborn"
  PROVE  j \in ToSet(arrival) /\ Position(arrival, j) \in Nat
<1>1. j \in ToSet(arrival) /\ arrival \in Seq(Job) /\ IsInjective(arrival)
  BY DEF RegistryInv, AcceptedOnce, TypeOK
<1>. QED BY <1>1, PositionFacts

\* The deque lists jobs, each once.
LEMMA QueuedOnce ==
  ASSUME RegistryInv
  PROVE  /\ queue \in Seq(Job) /\ DOMAIN queue = 1..Len(queue) /\ Len(queue) \in Nat
         /\ ToSet(queue) \subseteq Job
         /\ \A q \in ToSet(queue) : status[q] = "IN_QUEUE" /\ Position(arrival, q) \in Nat
         /\ IsInjective(queue)
<1>1. queue \in Seq(Job) /\ DOMAIN queue = 1..Len(queue) /\ Len(queue) \in Nat
  BY LenProperties DEF RegistryInv, TypeOK
<1>2. ToSet(queue) \subseteq Job
  BY <1>1, ElementOfSeq DEF ToSet
<1>3. \A q \in ToSet(queue) : status[q] = "IN_QUEUE"
  BY DEF RegistryInv, InLine
<1>4. \A q \in ToSet(queue) : Position(arrival, q) \in Nat
  BY <1>2, <1>3, Placed
<1>5. ASSUME NEW p \in DOMAIN queue, NEW q \in DOMAIN queue, queue[p] = queue[q]
      PROVE  p = q
  <2>1. Position(arrival, queue[p]) \in Nat
    BY <1>4 DEF ToSet
  <2>2. ~(p < q) /\ ~(q < p)
    BY <1>5, <2>1 DEF RegistryInv, InLine
  <2>. QED BY <1>1, <2>2
<1>. QED BY <1>1, <1>2, <1>3, <1>4, <1>5 DEF IsInjective

LEMMA LineShortens ==
  ASSUME RegistryInv, arrival' = arrival, KeepsOrder(queue', queue)
  PROVE  \A p, q \in DOMAIN queue' :
           p < q => Position(arrival', queue'[p]) < Position(arrival', queue'[q])
<1>. SUFFICES ASSUME NEW p \in DOMAIN queue', NEW q \in DOMAIN queue', p < q
              PROVE  Position(arrival, queue'[p]) < Position(arrival, queue'[q])
  OBVIOUS
<1>1. PICK m \in DOMAIN queue, n \in DOMAIN queue :
        m < n /\ queue[m] = queue'[p] /\ queue[n] = queue'[q]
  BY DEF KeepsOrder
<1>. QED BY <1>1 DEF RegistryInv, InLine

\* _retain_locked: the settling order grows by one, the window of it that is kept slides,
\* and what slides out was followed by MaxCompleted others.
LEMMA RetainKeeps ==
  ASSUME RegistryInv, NEW j \in Job, ~Settled(j), Retain(j), forgotten' = forgotten,
         \A k \in Job : status'[k] # "unborn" => status[k] # "unborn"
  PROVE  /\ IsInjective(settled') /\ ToSet(settled') = ToSet(settled) \cup {j}
         /\ Kept'
         /\ \A k \in Job : Evicted(settled, k) => Evicted(settled', k)
<1>. DEFINE S == Len(settled)
            L == Len(completed_order)
            order == Append(completed_order, j)
            n == Excess(order)
<1>1. /\ settled \in Seq(Job) /\ completed_order \in Seq(Job)
      /\ S \in Nat /\ L \in Nat /\ L <= MaxCompleted /\ L <= S
      /\ DOMAIN settled = 1..S /\ DOMAIN completed_order = 1..L
      /\ \A i \in 1..L : completed_order[i] = settled[(S - L) + i]
      /\ IsInjective(settled) /\ j \notin ToSet(settled)
  BY LenProperties DEF RegistryInv, TypeOK, Kept, Ended
<1>2. /\ settled' = Append(settled, j)
      /\ completed_order' = SubSeq(order, n + 1, Len(order))
      /\ jobs' = jobs \ {order[i] : i \in 1..n}
  BY DEF Retain
<1>3. /\ settled' \in Seq(Job) /\ Len(settled') = S + 1 /\ DOMAIN settled' = 1..(S + 1)
      /\ \A i \in 1..S : settled'[i] = settled[i]
      /\ settled'[S + 1] = j
      /\ ToSet(settled') = ToSet(settled) \cup {j}
  BY <1>1, <1>2, AppendFacts
<1>4. IsInjective(settled')
  BY <1>1, <1>2, InjectiveAppend
<1>5. /\ order \in Seq(Job) /\ Len(order) = L + 1
      /\ \A i \in 1..L : order[i] = settled'[(S - L) + i]
      /\ order[L + 1] = settled'[S + 1]
  <2>1. /\ order \in Seq(Job) /\ Len(order) = L + 1
        /\ \A i \in 1..L : order[i] = completed_order[i]
        /\ order[L + 1] = j
    BY <1>1, AppendFacts
  <2>2. \A i \in 1..L : (S - L) + i \in 1..S
    BY <1>1
  <2>. QED BY <1>1, <1>3, <2>1, <2>2
<1>6. /\ n \in {0, 1} /\ n <= L + 1
      /\ n = 1 => L = MaxCompleted
      /\ n = 0 => L + 1 <= MaxCompleted
  <2>1. L \in Nat /\ L <= MaxCompleted /\ Len(order) = L + 1
    BY <1>1, <1>5
  <2>2. n = IF Len(order) > MaxCompleted THEN Len(order) - MaxCompleted ELSE 0
    BY DEF Excess
  <2>. HIDE DEF n, order, L
  <2>. QED BY <2>1, <2>2, MaxCompletedIsNat
<1>7. /\ Len(completed_order') = (L + 1) - n
      /\ \A i \in 1..((L + 1) - n) : completed_order'[i] = order[n + i]
  <2>. HIDE DEF order, n
  <2>. QED BY <1>1, <1>2, <1>5, <1>6, SliceFacts
<1>. HIDE DEF order, n
<1>8. \A i \in 1..(L + 1) : order[i] = settled'[(S - L) + i]
  <2>1. ASSUME NEW i \in 1..(L + 1), i \notin 1..L
        PROVE  i = L + 1 /\ (S - L) + i = S + 1
    <3>1. L \in Nat /\ S \in Nat
      BY <1>1
    <3>. HIDE DEF L, S
    <3>. QED BY <2>1, <3>1
  <2>. QED BY <1>5, <2>1
<1>9. ASSUME NEW i \in 1..Len(completed_order')
      PROVE  completed_order'[i] = settled'[(Len(settled') - Len(completed_order')) + i]
  <2>1. i \in 1..((L + 1) - n) /\ n + i \in 1..(L + 1)
    BY <1>1, <1>6, <1>7
  <2>2. completed_order'[i] = settled'[(S - L) + (n + i)]
    BY <1>7, <1>8, <2>1
  <2>3. (Len(settled') - Len(completed_order')) + i = (S - L) + (n + i)
    BY <1>1, <1>3, <1>6, <1>7, <2>1
  <2>. QED BY <2>2, <2>3
<1>10. \A k \in Job : Evicted(settled, k) => Evicted(settled', k)
  BY <1>1, <1>2, EvictedStays
<1>11. ASSUME NEW k \in Job, status'[k] # "unborn"
       PROVE  k \in jobs' \cup forgotten' \/ Evicted(settled', k)
  <2>1. CASE Evicted(settled, k)
    BY <1>10, <2>1
  <2>2. CASE k \in jobs /\ k \notin jobs'
    <3>1. n = 1 /\ k = order[1]
      BY <1>2, <1>6, <2>2
    <3>2. k = settled'[(S - L) + 1] /\ (S - L) + 1 \in DOMAIN settled'
      BY <1>1, <1>3, <1>8, <3>1
    <3>3. Len(settled') - ((S - L) + 1) >= MaxCompleted
      BY <1>1, <1>3, <1>6, <3>1
    <3>. QED BY <3>2, <3>3 DEF Evicted
  <2>. QED BY <1>11, <2>1, <2>2 DEF RegistryInv, Kept
<1>12. Len(completed_order') <= MaxCompleted /\ Len(completed_order') <= Len(settled')
  <2>1. /\ L \in Nat /\ S \in Nat /\ L <= MaxCompleted /\ L <= S /\ n \in {0, 1}
        /\ n = 0 => L + 1 <= MaxCompleted
        /\ Len(completed_order') = (L + 1) - n /\ Len(settled') = S + 1
    BY <1>1, <1>3, <1>6, <1>7
  <2>. HIDE DEF L, S
  <2>. QED BY <2>1, MaxCompletedIsNat
<1>13. Kept'
  BY <1>9, <1>11, <1>12 DEF Kept
<1>. QED BY <1>3, <1>4, <1>10, <1>13

LEMMA StayingMoves ==
  ASSUME arrival' = arrival, current' \subseteq current \cup ToSet(queue),
         ToSet(queue') \subseteq ToSet(queue),
         \A k \in Job : status[k] # "unborn" => status'[k] # "unborn",
         \A k \in Job : error[k] # "none" => error'[k] # "none",
         \A k \in Job : Evicted(settled, k) => Evicted(settled', k)
  PROVE  Moves
BY DEF Moves

RegistryKept == AcceptedOnce' /\ InLine' /\ Ended' /\ Kept' /\ Moves

\* Settling, whoever does it.
LEMMA SettlingKeeps ==
  ASSUME RegistryInv, NEW j \in Job, status[j] \in {"IN_QUEUE", "IN_PROGRESS"},
         NEW outcome \in Terminal, status' = [status EXCEPT ![j] = outcome],
         Retain(j), forgotten' = forgotten, arrival' = arrival,
         \A k \in Job : error'[k] = error[k] \/ error'[k] # "none",
         outcome = "FAILED" => error'[j] # "none",
         KeepsOrder(queue', queue), ToSet(queue') \subseteq ToSet(queue) \ {j},
         current' = current \ {j}, worker' = "running" <=> current' # {}
  PROVE  RegistryKept
<1>1. /\ status \in [Job -> Status] /\ \A k \in Job : status'[k] = IF k = j THEN outcome ELSE status[k]
      /\ outcome # "unborn" /\ status[j] # "unborn" /\ ~Settled(j)
  BY DEF RegistryInv, TypeOK, Terminal, Settled
<1>2. \A k \in Job : status'[k] # "unborn" <=> status[k] # "unborn"
  BY <1>1
<1>3. /\ IsInjective(settled') /\ ToSet(settled') = ToSet(settled) \cup {j}
      /\ Kept'
      /\ \A k \in Job : Evicted(settled, k) => Evicted(settled', k)
  BY <1>1, <1>2, RetainKeeps
<1>4. AcceptedOnce'
  BY <1>2 DEF RegistryInv, AcceptedOnce
<1>5. Ended'
  <2>1. \A k \in ToSet(settled') : k \in Job /\ status'[k] \in Terminal
    BY <1>1, <1>3 DEF RegistryInv, Ended, Settled
  <2>2. \A k \in Job : status'[k] = "FAILED" => error'[k] # "none"
    BY <1>1 DEF RegistryInv, Ended
  <2>. QED BY <1>3, <2>1, <2>2 DEF Ended, Settled
<1>6. InLine'
  <2>1. \A q \in ToSet(queue') : status'[q] = "IN_QUEUE"
    BY <1>1, QueuedOnce
  <2>2. \A c \in current' :
          /\ status'[c] = "IN_PROGRESS"
          /\ \A q \in ToSet(queue') : Position(arrival', c) < Position(arrival', q)
    BY <1>1 DEF RegistryInv, InLine, TypeOK
  <2>3. \A c, d \in current' : c = d
    BY DEF RegistryInv, InLine
  <2>. QED BY <2>1, <2>2, <2>3, LineShortens DEF InLine
<1>7. Moves
  BY <1>2, <1>3, StayingMoves
<1>. QED BY <1>3, <1>4, <1>5, <1>6, <1>7 DEF RegistryKept

LEMMA CancelQueuedKeeps ==
  ASSUME RegistryInv, NEW j \in Job, CancelQueued(j), forgotten' = forgotten
  PROVE  RegistryKept
<1>1. PICK i \in DOMAIN queue : queue[i] = j /\ queue' = RemoveAt(queue, i)
  BY DEF CancelQueued
<1>2. KeepsOrder(queue', queue) /\ ToSet(queue') = ToSet(queue) \ {j}
  BY <1>1, QueuedOnce, InjectiveRemoveAt
<1>3. /\ status[j] = "IN_QUEUE" /\ status' = [status EXCEPT ![j] = "FAILED"]
      /\ Retain(j) /\ arrival' = arrival /\ current' = current /\ worker' = worker
  BY DEF CancelQueued, Fail
<1>4. error'[j] # "none" /\ \A k \in Job : error'[k] = error[k] \/ error'[k] # "none"
  BY DEF CancelQueued, Fail, RegistryInv, TypeOK
<1>5. current' = current \ {j} /\ (worker' = "running" <=> current' # {})
  BY <1>3 DEF RegistryInv, InLine
<1>6. "FAILED" \in Terminal
  BY DEF Terminal
<1>. QED BY <1>2, <1>3, <1>4, <1>5, <1>6, SettlingKeeps

LEMMA RunEndsKeeps ==
  ASSUME RegistryInv, NEW j \in Job, RunEnds(j), forgotten' = forgotten
  PROVE  RegistryKept
<1>1. Finished(j) /\ Retain(j) /\ arrival' = arrival /\ queue' = queue
  BY DEF RunEnds, Complete, Abort, Raise, Fail
<1>2. /\ j \in current /\ status[j] = "IN_PROGRESS" /\ current' = {} /\ current = {j}
      /\ worker' = "ready"
  BY <1>1 DEF Finished, RegistryInv, InLine
<1>3. KeepsOrder(queue', queue) /\ ToSet(queue') \subseteq ToSet(queue) \ {j}
  BY <1>1, <1>2, KeepsItsOrder, QueuedOnce
<1>4. CASE Complete(j)
  <2>1. status' = [status EXCEPT ![j] = "COMPLETED"] /\ error' = error /\ "COMPLETED" \in Terminal
    BY <1>4 DEF Complete, Terminal
  <2>. QED BY <1>1, <1>2, <1>3, <2>1, SettlingKeeps
<1>5. CASE Abort(j) \/ Raise(j)
  <2>1. status' = [status EXCEPT ![j] = "FAILED"] /\ "FAILED" \in Terminal
    BY <1>5 DEF Abort, Raise, Fail, Terminal
  <2>2. error'[j] # "none" /\ \A k \in Job : error'[k] = error[k] \/ error'[k] # "none"
    BY <1>5 DEF Abort, Raise, Fail, RegistryInv, TypeOK
  <2>. QED BY <1>1, <1>2, <1>3, <2>1, <2>2, SettlingKeeps
<1>. QED BY <1>4, <1>5 DEF RunEnds

\* The new job joins the end of the line.
LEMMA SubmitKeeps ==
  ASSUME RegistryInv, NEW j \in Job, Submit(j), forgotten' = forgotten
  PROVE  RegistryKept
<1>1. /\ status \in [Job -> Status] /\ status[j] = "unborn"
      /\ arrival \in Seq(Job) /\ IsInjective(arrival)
      /\ ToSet(arrival) = {k \in Job : status[k] # "unborn"}
      /\ j \notin ToSet(arrival)
  BY DEF Submit, RegistryInv, TypeOK, AcceptedOnce
<1>2. /\ status' = [status EXCEPT ![j] = "IN_QUEUE"] /\ arrival' = Append(arrival, j)
      /\ queue' = Append(queue, j) /\ jobs' = jobs \cup {j}
      /\ UNCHANGED <<error, completed_order, settled, current>>
  BY DEF Submit
<1>3. \A k \in Job : status'[k] = IF k = j THEN "IN_QUEUE" ELSE status[k]
  BY <1>1, <1>2
<1>4. /\ IsInjective(arrival') /\ ToSet(arrival') = ToSet(arrival) \cup {j}
      /\ \A k \in ToSet(arrival) : Position(arrival', k) = Position(arrival, k)
      /\ \A k \in ToSet(arrival) : Position(arrival', k) < Position(arrival', j)
  BY <1>1, <1>2, AppendFacts, InjectiveAppend, AppendPositions
<1>5. /\ queue \in Seq(Job) /\ Len(queue) \in Nat /\ DOMAIN queue = 1..Len(queue)
      /\ DOMAIN queue' = 1..(Len(queue) + 1)
      /\ \A i \in 1..Len(queue) : queue'[i] = queue[i]
      /\ queue'[Len(queue) + 1] = j
      /\ ToSet(queue') = ToSet(queue) \cup {j}
  BY <1>2, QueuedOnce, AppendFacts
<1>6. \A q \in ToSet(queue) : q \in Job /\ q \in ToSet(arrival) /\ status[q] = "IN_QUEUE"
  BY QueuedOnce, Placed
<1>7. \A c \in current : c \in Job /\ c \in ToSet(arrival) /\ status[c] = "IN_PROGRESS"
  BY Placed DEF RegistryInv, InLine, TypeOK
<1>8. AcceptedOnce'
  <2>1. ToSet(arrival') = {k \in Job : status'[k] # "unborn"}
    BY <1>1, <1>3, <1>4
  <2>. QED BY <1>4, <2>1 DEF AcceptedOnce
<1>9. InLine'
  <2>1. ASSUME NEW p \in DOMAIN queue', NEW q \in DOMAIN queue', p < q
        PROVE  Position(arrival', queue'[p]) < Position(arrival', queue'[q])
    <3>1. p \in DOMAIN queue /\ queue'[p] = queue[p] /\ queue[p] \in ToSet(queue)
      BY <1>5, <2>1 DEF ToSet
    <3>2. CASE q = Len(queue) + 1
      BY <1>4, <1>5, <1>6, <3>1, <3>2
    <3>3. CASE q # Len(queue) + 1
      <4>1. q \in DOMAIN queue /\ queue'[q] = queue[q] /\ queue[q] \in ToSet(queue)
        BY <1>5, <3>3 DEF ToSet
      <4>2. Position(arrival, queue[p]) < Position(arrival, queue[q])
        BY <2>1, <3>1, <4>1 DEF RegistryInv, InLine
      <4>. QED BY <1>4, <1>6, <3>1, <4>1, <4>2
    <3>. QED BY <3>2, <3>3
  <2>2. \A q \in ToSet(queue') : status'[q] = "IN_QUEUE"
    BY <1>3, <1>5, <1>6
  <2>3. ASSUME NEW c \in current'
        PROVE  /\ status'[c] = "IN_PROGRESS"
               /\ \A q \in ToSet(queue') : Position(arrival', c) < Position(arrival', q)
    <3>1. c \in current /\ c # j /\ status'[c] = "IN_PROGRESS"
      BY <1>1, <1>2, <1>3, <1>7
    <3>2. \A q \in ToSet(queue) : Position(arrival, c) < Position(arrival, q)
      BY <3>1 DEF RegistryInv, InLine
    <3>. QED BY <1>4, <1>5, <1>6, <1>7, <3>1, <3>2
  <2>4. \A c, d \in current' : c = d
    BY <1>2 DEF RegistryInv, InLine
  <2>5. worker' = "running" <=> current' # {}
    BY <1>2 DEF Submit, Roused, RegistryInv, InLine
  <2>. QED BY <2>1, <2>2, <2>3, <2>4, <2>5 DEF InLine
<1>10. Ended'
  <2>1. \A k \in ToSet(settled) : k \in Job /\ status[k] \in Terminal /\ k # j
    BY <1>1 DEF RegistryInv, Ended, Settled, Terminal
  <2>2. \A k \in ToSet(settled) : status'[k] \in Terminal
    BY <1>3, <2>1
  <2>. QED BY <1>2, <1>3, <2>1, <2>2 DEF RegistryInv, Ended, Settled
<1>11. Kept'
  <2>1. \A k \in Job :
          status'[k] # "unborn" => k \in jobs' \cup forgotten' \/ Evicted(settled', k)
    BY <1>2, <1>3 DEF RegistryInv, Kept
  <2>. QED BY <1>2, <2>1 DEF RegistryInv, Kept
<1>12. Moves
  <2>1. ToSet(arrival') \ ToSet(arrival) = {j}
    BY <1>1, <1>4
  <2>2. \A k \in Job : status[k] # "unborn" => status'[k] # "unborn"
    BY <1>3
  <2>. QED BY <1>2, <1>4, <1>5, <2>1, <2>2 DEF Moves
<1>. QED BY <1>8, <1>9, <1>10, <1>11, <1>12 DEF RegistryKept

\* A step that leaves the table, the deque and the running job alone.
LEMMA IdleKeeps ==
  ASSUME RegistryInv, UNCHANGED <<status, error, table, queue, current, arrival, forgotten>>,
         worker' = "running" <=> worker = "running"
  PROVE  RegistryKept
<1>1. AcceptedOnce' /\ Ended' /\ Kept'
  BY DEF RegistryInv, AcceptedOnce, Ended, Kept, Settled, table
<1>2. InLine'
  BY DEF RegistryInv, InLine
<1>3. Moves
  BY StayingMoves DEF table
<1>. QED BY <1>1, <1>2, <1>3 DEF RegistryKept

LEMMA TakeKeeps ==
  ASSUME RegistryInv, Take, forgotten' = forgotten
  PROVE  RegistryKept
<1>. DEFINE j == Head(queue)
<1>1. /\ queue \in Seq(Job) /\ queue # <<>> /\ queue' = Tail(queue) /\ IsInjective(queue)
      /\ worker = "ready" /\ arrival' = arrival
  BY QueuedOnce DEF Take
<1>2. /\ j \in ToSet(queue) /\ j = queue[1]
      /\ ToSet(queue') = ToSet(queue) \ {j} /\ KeepsOrder(queue', queue)
  BY <1>1, TailFacts, InjectiveTail
<1>3. j \in Job /\ status[j] = "IN_QUEUE" /\ status \in [Job -> Status]
  BY <1>2, QueuedOnce DEF RegistryInv, TypeOK
<1>4. current = {}
  BY <1>1 DEF RegistryInv, InLine
<1>5. ASSUME NEW q \in ToSet(queue')
      PROVE  Position(arrival, j) < Position(arrival, q)
  <2>1. PICK n \in DOMAIN queue : queue[n] = q
    BY <1>2 DEF ToSet
  <2>2. n # 1 /\ 1 < n /\ 1 \in DOMAIN queue
    BY <1>1, <1>2, <2>1, QueuedOnce
  <2>. QED BY <1>2, <2>1, <2>2 DEF RegistryInv, InLine
<1>. HIDE DEF j
<1>6. CASE Stale(j)
  <2>1. UNCHANGED <<status, error, table, worker, current>>
    BY <1>6 DEF Take, j
  <2>2. AcceptedOnce' /\ Ended' /\ Kept'
    BY <1>1, <2>1 DEF RegistryInv, AcceptedOnce, Ended, Kept, Settled, table
  <2>3. InLine'
    BY <1>1, <1>2, <1>4, <2>1, LineShortens DEF RegistryInv, InLine
  <2>4. Moves
    BY <1>1, <1>2, <2>1, StayingMoves DEF table
  <2>. QED BY <2>2, <2>3, <2>4 DEF RegistryKept
<1>7. CASE ~Stale(j) /\ cancelled[j]
  <2>1. Fail(j, "canceled before start") /\ worker' = worker /\ current' = current
    BY <1>7 DEF Take, j
  <2>2. status' = [status EXCEPT ![j] = "FAILED"] /\ Retain(j) /\ "FAILED" \in Terminal
    BY <2>1 DEF Fail, Terminal
  <2>3. error'[j] # "none" /\ \A k \in Job : error'[k] = error[k] \/ error'[k] # "none"
    BY <1>3, <2>1 DEF Fail, RegistryInv, TypeOK
  <2>4. current' = current \ {j} /\ (worker' = "running" <=> current' # {})
    BY <1>1, <1>4, <2>1
  <2>. QED BY <1>1, <1>2, <1>3, <2>2, <2>3, <2>4, SettlingKeeps
<1>8. CASE ~Stale(j) /\ ~cancelled[j]
  <2>1. /\ status' = [status EXCEPT ![j] = "IN_PROGRESS"]
        /\ current' = {j} /\ worker' = "running" /\ UNCHANGED <<error, table>>
    BY <1>8 DEF Take, j
  <2>2. \A k \in Job : status'[k] = IF k = j THEN "IN_PROGRESS" ELSE status[k]
    BY <1>3, <2>1
  <2>3. \A k \in Job : status'[k] # "unborn" <=> status[k] # "unborn"
    BY <1>3, <2>2
  <2>4. AcceptedOnce' /\ Kept'
    BY <1>1, <2>1, <2>3 DEF RegistryInv, AcceptedOnce, Kept, table
  <2>5. Ended'
    <3>1. \A k \in ToSet(settled) : k \in Job /\ status'[k] \in Terminal
      BY <1>3, <2>2 DEF RegistryInv, Ended, Settled, Terminal
    <3>2. \A k \in Job : status'[k] = "FAILED" => error'[k] # "none"
      BY <2>1, <2>2 DEF RegistryInv, Ended
    <3>. QED BY <2>1, <3>1, <3>2 DEF RegistryInv, Ended, Settled, table
  <2>6. InLine'
    <3>1. \A q \in ToSet(queue') : status'[q] = "IN_QUEUE"
      BY <1>2, <2>2, QueuedOnce
    <3>2. status'[j] = "IN_PROGRESS"
      BY <1>3, <2>2
    <3>3. \A c \in current' :
            /\ status'[c] = "IN_PROGRESS"
            /\ \A q \in ToSet(queue') : Position(arrival', c) < Position(arrival', q)
      BY <1>1, <1>5, <2>1, <3>2
    <3>4. (\A c, d \in current' : c = d) /\ (worker' = "running" <=> current' # {})
      BY <2>1
    <3>. QED BY <1>1, <1>2, <3>1, <3>3, <3>4, LineShortens DEF InLine
  <2>7. Moves
    BY <1>1, <1>2, <2>1, <2>3, StayingMoves DEF table
  <2>. QED BY <2>4, <2>5, <2>6, <2>7 DEF RegistryKept
<1>. QED BY <1>6, <1>7, <1>8

\* A step of the registry.
LEMMA RegistryKeeps ==
  ASSUME RegistryInv, [Next]_vars, forgotten' = forgotten
  PROVE  RegistryInv' /\ Moves
<1>1. TypeOK'
  BY TypeStep DEF RegistryInv
<1>2. RegistryKept
  <2>1. ASSUME NEW j \in Job, Submit(j) \/ CancelQueued(j) \/ RunEnds(j)
        PROVE  RegistryKept
    BY <2>1, SubmitKeeps, CancelQueuedKeeps, RunEndsKeeps
  <2>2. ASSUME NEW j \in Job, CancelRunning(j)
        PROVE  RegistryKept
    BY <2>2, IdleKeeps DEF CancelRunning
  <2>3. CASE Take
    BY <2>3, TakeKeeps
  <2>4. CASE Sleep \/ Return \/ Die \/ Shutdown
    BY <2>4, IdleKeeps DEF Sleep, Return, Die, Shutdown, fields
  <2>5. CASE UNCHANGED vars
    BY <2>5, IdleKeeps DEF vars, fields
  <2>. QED BY <2>1, <2>2, <2>3, <2>4, <2>5 DEF Next, RunLoop
<1>. QED BY <1>1, <1>2 DEF RegistryKept, RegistryInv

\* A restart forgets the table, and with it the line; every Job object stays what it was.
LEMMA RestartKeeps ==
  ASSUME RegistryInv, Restart
  PROVE  RegistryInv' /\ Moves
<1>1. /\ jobs' = {} /\ queue' = <<>> /\ completed_order' = <<>>
      /\ worker' = "dead" /\ current' = {} /\ stop' = FALSE
      /\ forgotten' = forgotten \cup jobs
      /\ UNCHANGED <<fields, arrival, settled>>
  BY DEF Restart
<1>2. TypeOK'
  <2>1. <<>> \in Seq(Job)
    BY EmptySeq
  <2>. QED BY <1>1, <2>1 DEF RegistryInv, TypeOK, Place, fields
<1>3. AcceptedOnce' /\ Ended'
  BY <1>1 DEF RegistryInv, AcceptedOnce, Ended, Settled, fields
<1>4. DOMAIN queue' = {} /\ ToSet(queue') = {} /\ Len(completed_order') = 0
  BY <1>1 DEF ToSet
<1>5. InLine'
  BY <1>1, <1>4 DEF InLine
<1>6. Kept'
  <2>1. Len(settled') \in Nat
    BY <1>2, LenProperties DEF TypeOK
  <2>2. \A j \in Job : status'[j] # "unborn" => j \in jobs' \cup forgotten' \/ Evicted(settled', j)
    BY <1>1 DEF RegistryInv, Kept, fields
  <2>. QED BY <1>4, <2>1, <2>2, MaxCompletedIsNat DEF Kept
<1>7. Moves
  BY <1>1, <1>4, StayingMoves DEF fields
<1>. QED BY <1>2, <1>3, <1>5, <1>6, <1>7 DEF RegistryInv
-----------------------------------------------------------------------------
(* The door's part. *)

\* A step of the registry that completes no job but one whose clip is up leaves the
\* store's clips in order.
LEMMA StoredStays ==
  ASSUME DoorTypes, RegistryInv, Stored, Moves, UNCHANGED <<wrote, store>>,
         \A w \in wrote : of'[w] = of[w],
         \A j \in Job : status'[j] = "COMPLETED" => j \in wrote
  PROVE  Stored'
<1>1. \A w \in wrote :
        /\ w \in Job /\ status[w] # "unborn" /\ status'[w] # "unborn"
        /\ w \in ToSet(arrival) /\ Position(arrival, w) \in Nat
        /\ Position(arrival', w) = Position(arrival, w)
  BY Placed DEF DoorTypes, Stored, Moves
<1>2. ASSUME NEW w \in wrote, NEW c \in current'
      PROVE  Position(arrival', w) <= Position(arrival', c)
  <2>1. c \in Job /\ status[c] # "unborn"
    BY QueuedOnce DEF Moves, RegistryInv, InLine, TypeOK
  <2>2. Position(arrival', c) = Position(arrival, c) /\ Position(arrival, c) \in Nat
    BY <2>1, Placed DEF Moves
  <2>3. Position(arrival, w) <= Position(arrival, c)
    BY <1>1, <2>2 DEF Stored, Moves
  <2>. QED BY <1>1, <2>2, <2>3
<1>3. ASSUME NEW w \in wrote, NEW q \in ToSet(queue')
      PROVE  Position(arrival', w) < Position(arrival', q)
  <2>1. CASE q \in ToSet(queue)
    <3>1. q \in Job /\ status[q] # "unborn"
      BY <2>1, QueuedOnce
    <3>2. Position(arrival', q) = Position(arrival, q)
      BY <3>1, Placed DEF Moves
    <3>. QED BY <1>1, <2>1, <3>2 DEF Stored
  <2>2. CASE q \in ToSet(arrival') \ ToSet(arrival)
    BY <1>1, <2>2 DEF Moves
  <2>. QED BY <2>1, <2>2 DEF Moves
<1>4. ASSUME NEW w \in wrote, NEW s \in of'[w]
      PROVE  \E k \in store'[ClipKey[s]] : Position(arrival', w) <= Position(arrival', k)
  <2>1. PICK k \in store[ClipKey[s]] : Position(arrival, w) <= Position(arrival, k)
    BY DEF Stored
  <2>2. s \in Shot /\ ClipKey[s] \in Key
    BY <1>1 DEF DoorTypes, Key
  <2>3. k \in wrote
    BY <2>1, <2>2 DEF Stored
  <2>. QED BY <1>1, <2>1, <2>3
<1>5. \A key \in Key : store'[key] \subseteq wrote'
  BY DEF Stored
<1>. QED BY <1>1, <1>2, <1>3, <1>4, <1>5 DEF Stored

LEMMA CalledStays ==
  ASSUME DoorTypes, Called, Moves, UNCHANGED <<malformed, of, polled>>
  PROVE  Called'
<1>1. \A j \in Job : status'[j] = "unborn" => status[j] = "unborn"
  BY DEF Moves
<1>2. ASSUME NEW s \in Shot, NEW j \in polled[s]
      PROVE  status'[j] # "unborn" /\ s \in of[j]
  <2>1. j \in Job
    BY DEF DoorTypes
  <2>. QED BY <1>1, <2>1 DEF Called
<1>. QED BY <1>1, <1>2 DEF Called

LEMMA ConcludedStays ==
  ASSUME DoorTypes, Concluded, Moves, UNCHANGED <<malformed, verdict>>,
         wrote \subseteq wrote', forgotten \subseteq forgotten',
         \A s \in Shot : polled[s] \subseteq polled'[s]
  PROVE  Concluded'
<1>. SUFFICES ASSUME NEW s \in Shot
     PROVE  /\ verdict[s] = "COMPLETED" => \E j \in polled'[s] : j \in wrote'
            /\ verdict[s] = "FAILED" => \E j \in polled'[s] : error'[j] # "none"
            /\ verdict[s] = "404" =>
                 \E j \in polled'[s] : j \in forgotten' \/ Evicted(settled', j)
            /\ verdict[s] = "400" => s \in malformed
  BY DEF Concluded
<1>1. polled[s] \subseteq Job /\ polled[s] \subseteq polled'[s]
  BY DEF DoorTypes
<1>2. verdict[s] = "COMPLETED" => \E j \in polled'[s] : j \in wrote'
  BY <1>1 DEF Concluded
<1>3. verdict[s] = "FAILED" => \E j \in polled'[s] : error'[j] # "none"
  BY <1>1 DEF Concluded, Moves
<1>4. verdict[s] = "404" => \E j \in polled'[s] : j \in forgotten' \/ Evicted(settled', j)
  BY <1>1 DEF Concluded, Moves
<1>. QED BY <1>2, <1>3, <1>4 DEF Concluded

\* POST /run, answered or not: the new job is its shot's.
LEMMA AcceptKeeps ==
  ASSUME DoorInv, NEW s \in Shot, NEW j \in Job, Accept(s, j),
         UNCHANGED <<malformed, wrote, store, forgotten, verdict>>,
         \/ polled' = polled
         \/ polled[s] = {} /\ polled' = [polled EXCEPT ![s] = {j}]
  PROVE  RegistryInv' /\ Stored' /\ Called' /\ Concluded'
<1>1. /\ DoorTypes /\ RegistryInv /\ Stored /\ Called /\ Concluded
      /\ status[j] = "unborn" /\ status \in [Job -> Status]
      /\ Submit(j) /\ of' = [of EXCEPT ![j] = {s}] /\ s \notin malformed
  BY DEF DoorInv, Accept, Submit, RegistryInv, TypeOK
<1>2. RegistryInv' /\ Moves
  BY <1>1, RegistryKeeps DEF Next
<1>3. \A k \in Job : status'[k] = IF k = j THEN "IN_QUEUE" ELSE status[k]
  BY <1>1 DEF Submit
<1>4. \A k \in Job : of'[k] = IF k = j THEN {s} ELSE of[k]
  BY <1>1 DEF DoorTypes
<1>5. Stored'
  <2>1. \A w \in wrote : of'[w] = of[w]
    BY <1>1, <1>4 DEF DoorTypes, Stored
  <2>2. \A k \in Job : status'[k] = "COMPLETED" => k \in wrote
    BY <1>1, <1>3 DEF Stored
  <2>. QED BY <1>1, <1>2, <2>1, <2>2, StoredStays
<1>6. \A t \in Shot : /\ polled'[t] = polled[t] \/ (t = s /\ polled'[t] = {j} /\ polled[t] = {})
                      /\ polled[t] \subseteq polled'[t]
  BY <1>1 DEF DoorTypes
<1>7. Called'
  <2>1. ASSUME NEW k \in Job
        PROVE  /\ status'[k] = "unborn" => of'[k] = {}
               /\ \A t, u \in of'[k] : t = u
               /\ of'[k] \cap malformed' = {}
    <3>1. CASE k = j
      BY <1>1, <1>3, <1>4, <3>1
    <3>2. CASE k # j
      BY <1>1, <1>3, <1>4, <3>2 DEF Called
    <3>. QED BY <3>1, <3>2
  <2>2. ASSUME NEW t \in Shot, NEW k \in polled'[t]
        PROVE  status'[k] # "unborn" /\ t \in of'[k]
    <3>1. CASE polled'[t] = {j} /\ t = s
      BY <1>3, <1>4, <2>2, <3>1
    <3>2. CASE polled'[t] = polled[t]
      <4>1. k \in Job /\ status[k] # "unborn" /\ t \in of[k]
        BY <1>1, <2>2, <3>2 DEF Called, DoorTypes
      <4>. QED BY <1>1, <1>3, <1>4, <4>1
    <3>. QED BY <1>6, <3>1, <3>2
  <2>. QED BY <2>1, <2>2 DEF Called
<1>8. Concluded'
  BY <1>1, <1>2, <1>6, ConcludedStays
<1>. QED BY <1>2, <1>5, <1>7, <1>8

LEMMA PostKeeps ==
  ASSUME DoorInv, NEW s \in Shot, NEW j \in Job, PostAnswered(s, j) \/ PostArrivesLate(s, j)
  PROVE  DoorInv'
<1>1. Accept(s, j) /\ UNCHANGED <<malformed, wrote, store, forgotten, verdict>>
  BY DEF PostAnswered, PostArrivesLate
<1>2. \/ polled' = polled
      \/ polled[s] = {} /\ polled' = [polled EXCEPT ![s] = {j}]
  BY DEF PostAnswered, PostArrivesLate, Posting
<1>3. RegistryInv' /\ Stored' /\ Called' /\ Concluded'
  BY <1>1, <1>2, AcceptKeeps
<1>4. DoorTypes'
  <2>1. of' \in [Job -> SUBSET Shot]
    BY <1>1 DEF Accept, DoorInv, DoorTypes
  <2>2. polled' \in [Shot -> SUBSET Job]
    BY <1>2 DEF DoorInv, DoorTypes
  <2>3. flying' \in [Shot -> Nat] /\ timeouts' \in Nat /\ restarts' \in Nat
    BY DEF PostAnswered, PostArrivesLate, DoorInv, DoorTypes
  <2>. QED BY <1>1, <2>1, <2>2, <2>3 DEF DoorInv, DoorTypes
<1>. QED BY <1>3, <1>4 DEF DoorInv

\* A step that leaves the registry alone.
LEMMA StillMoves ==
  ASSUME RegistryInv, UNCHANGED <<vars, forgotten>>
  PROVE  RegistryInv' /\ Moves
BY RegistryKeeps

LEMMA RefusalKeeps ==
  ASSUME DoorInv, NEW s \in Shot, PostRefused(s)
  PROVE  DoorInv'
<1>1. /\ verdict' = [verdict EXCEPT ![s] = "400"] /\ s \in malformed
      /\ UNCHANGED <<vars, malformed, of, flying, timeouts, restarts, polled, wrote, store, forgotten>>
  BY DEF PostRefused
<1>2. RegistryInv' /\ Moves
  BY <1>1, StillMoves DEF DoorInv
<1>3. DoorTypes' /\ Called'
  BY <1>1, <1>2, CalledStays DEF DoorInv, DoorTypes, Verdict
<1>4. Stored'
  BY <1>1, <1>2, StoredStays DEF DoorInv, vars, fields, Stored
<1>5. Concluded'
  <2>1. \A t \in Shot : verdict'[t] = IF t = s THEN "400" ELSE verdict[t]
    BY <1>1 DEF DoorInv, DoorTypes
  <2>. QED BY <1>1, <2>1 DEF DoorInv, Concluded, vars, fields, table
<1>. QED BY <1>2, <1>3, <1>4, <1>5 DEF DoorInv

\* GET /status/<id>: what is answered then is so from then on.
LEMMA PollKeeps ==
  ASSUME DoorInv, NEW s \in Shot, Poll(s)
  PROVE  DoorInv'
<1>1. PICK j \in Job :
        /\ polled[s] = {j}
        /\ j \in jobs => Settled(j)
        /\ verdict' = [verdict EXCEPT ![s] = IF j \in jobs THEN status[j] ELSE "404"]
  BY DEF Poll, Polling
<1>2. UNCHANGED <<vars, malformed, of, flying, timeouts, restarts, polled, wrote, store, forgotten>>
  BY DEF Poll
<1>3. RegistryInv' /\ Moves
  BY <1>2, StillMoves DEF DoorInv
<1>. DEFINE answer == IF j \in jobs THEN status[j] ELSE "404"
<1>4. /\ answer \in Terminal \cup {"404"}
      /\ answer \in Terminal => answer = status[j]
      /\ answer = "404" => j \notin jobs
  BY <1>1 DEF Settled, Terminal
<1>. HIDE DEF answer
<1>5. \A t \in Shot : verdict'[t] = IF t = s THEN answer ELSE verdict[t]
  BY <1>1 DEF DoorInv, DoorTypes, answer
<1>6. DoorTypes' /\ Called'
  <2>1. verdict' \in [Shot -> Verdict]
    BY <1>1, <1>4 DEF DoorInv, DoorTypes, Verdict, answer
  <2>. QED BY <1>2, <1>3, <2>1, CalledStays DEF DoorInv, DoorTypes
<1>7. Stored'
  BY <1>2, <1>3, StoredStays DEF DoorInv, vars, fields, Stored
<1>8. Concluded'
  <2>1. j \in polled[s] /\ status[j] # "unborn"
    BY <1>1 DEF DoorInv, Called
  <2>2. answer = "COMPLETED" => j \in wrote
    BY <1>4 DEF DoorInv, Stored, Terminal
  <2>3. answer = "FAILED" => error[j] # "none"
    BY <1>4 DEF DoorInv, RegistryInv, Ended, Terminal
  <2>4. answer = "404" => j \in forgotten \/ Evicted(settled, j)
    BY <1>4, <2>1 DEF DoorInv, RegistryInv, Kept
  <2>5. answer # "400"
    BY <1>4 DEF Terminal
  <2>6. /\ UNCHANGED <<polled, wrote, error, forgotten, settled, malformed>>
    BY <1>2 DEF vars, fields, table
  <2>. QED BY <1>5, <2>1, <2>2, <2>3, <2>4, <2>5, <2>6 DEF DoorInv, Concluded
<1>. QED BY <1>3, <1>6, <1>7, <1>8 DEF DoorInv
\* A POST given up on, or one that never arrives.
LEMMA LostPostKeeps ==
  ASSUME DoorInv, NEW s \in Shot, PostTimesOut(s) \/ PostIsLost(s)
  PROVE  DoorInv'
<1>1. UNCHANGED <<vars, malformed, of, restarts, polled, verdict, wrote, store, forgotten>>
  BY DEF PostTimesOut, PostIsLost
<1>2. RegistryInv' /\ Moves
  BY <1>1, StillMoves DEF DoorInv
<1>3. flying' \in [Shot -> Nat] /\ timeouts' \in Nat
  <2>1. flying[s] \in Nat /\ timeouts \in Nat /\ flying \in [Shot -> Nat]
    BY DEF DoorInv, DoorTypes
  <2>2. CASE PostTimesOut(s)
    BY <2>1, <2>2 DEF PostTimesOut
  <2>3. CASE PostIsLost(s)
    BY <2>1, <2>3 DEF PostIsLost
  <2>. QED BY <2>2, <2>3
<1>4. DoorTypes' /\ Called'
  BY <1>1, <1>2, <1>3, CalledStays DEF DoorInv, DoorTypes
<1>5. Stored'
  BY <1>1, <1>2, StoredStays DEF DoorInv, vars, fields, Stored
<1>6. Concluded'
  BY <1>1, <1>2, ConcludedStays DEF DoorInv
<1>. QED BY <1>2, <1>4, <1>5, <1>6 DEF DoorInv

\* A step of the registry alone that completes no job whose clip is not up.
LEMMA ServerKeeps ==
  ASSUME DoorInv, Next, UNCHANGED door,
         \A j \in Job : status'[j] = "COMPLETED" => status[j] = "COMPLETED" \/ j \in wrote
  PROVE  DoorInv'
<1>1. UNCHANGED <<malformed, of, flying, timeouts, restarts, polled, verdict, wrote, store, forgotten>>
  BY DEF door
<1>2. RegistryInv' /\ Moves
  BY <1>1, RegistryKeeps DEF DoorInv
<1>3. DoorTypes' /\ Called'
  BY <1>1, <1>2, CalledStays DEF DoorInv, DoorTypes
<1>4. Stored'
  <2>1. \A j \in Job : status'[j] = "COMPLETED" => j \in wrote
    BY DEF DoorInv, Stored
  <2>. QED BY <1>1, <1>2, <2>1, StoredStays DEF DoorInv
<1>5. Concluded'
  BY <1>1, <1>2, ConcludedStays DEF DoorInv
<1>. QED BY <1>2, <1>3, <1>4, <1>5 DEF DoorInv

\* POST /cancel/<id>.
LEMMA CancelKeeps ==
  ASSUME DoorInv, NEW s \in Shot, CancelPolled(s)
  PROVE  DoorInv'
<1>1. PICK j \in Job : CancelQueued(j) \/ CancelRunning(j)
  BY DEF CancelPolled
<1>2. Next /\ UNCHANGED door
  BY <1>1 DEF CancelPolled, Next
<1>3. status \in [Job -> Status]
  BY DEF DoorInv, RegistryInv, TypeOK
<1>4. \A k \in Job : status'[k] = "COMPLETED" => status[k] = "COMPLETED"
  BY <1>1, <1>3 DEF CancelQueued, CancelRunning, Fail
<1>. QED BY <1>2, <1>4, ServerKeeps

\* run_fn is over: it returns only once it has put its clip.
LEMMA RenderEndKeeps ==
  ASSUME DoorInv, NEW j \in Job, RenderEnds(j)
  PROVE  DoorInv'
<1>1. Next /\ UNCHANGED door
  BY DEF RenderEnds, RenderReturns, RenderFails, RunEnds, Next
<1>2. status \in [Job -> Status]
  BY DEF DoorInv, RegistryInv, TypeOK
<1>3. \A k \in Job : status'[k] = "COMPLETED" => status[k] = "COMPLETED" \/ k \in wrote
  BY <1>2 DEF RenderEnds, RenderReturns, RenderFails, Complete, Abort, Raise, Fail
<1>. QED BY <1>1, <1>3, ServerKeeps

\* The server's thread.
LEMMA LoopKeeps ==
  ASSUME DoorInv, ServerLoop
  PROVE  DoorInv'
<1>1. Next /\ UNCHANGED door
  BY DEF ServerLoop, Next
<1>2. status \in [Job -> Status]
  BY DEF DoorInv, RegistryInv, TypeOK
<1>3. \A k \in Job : status'[k] = "COMPLETED" => status[k] = "COMPLETED"
  <2>1. CASE Take
    BY <1>2, <2>1 DEF Take, Fail
  <2>2. CASE Sleep \/ Return \/ Die
    BY <2>2 DEF Sleep, Return, Die, fields
  <2>. QED BY <2>1, <2>2 DEF ServerLoop, RunLoop
<1>. QED BY <1>1, <1>3, ServerKeeps

LEMMA RestartKeepsDoor ==
  ASSUME DoorInv, Restart
  PROVE  DoorInv'
<1>1. RegistryInv' /\ Moves
  BY RestartKeeps DEF DoorInv
<1>2. /\ restarts' = restarts + 1 /\ forgotten' = forgotten \cup jobs
      /\ UNCHANGED <<malformed, fields, of, flying, timeouts, polled, verdict, wrote, store>>
  BY DEF Restart
<1>3. DoorTypes' /\ Called'
  <2>1. jobs \subseteq Job
    BY DEF DoorInv, RegistryInv, TypeOK
  <2>. QED BY <1>1, <1>2, <2>1, CalledStays DEF DoorInv, DoorTypes
<1>4. Stored'
  BY <1>1, <1>2, StoredStays DEF DoorInv, fields, Stored
<1>5. Concluded'
  BY <1>1, <1>2, ConcludedStays DEF DoorInv
<1>. QED BY <1>1, <1>3, <1>4, <1>5 DEF DoorInv

\* The clip of the running job replaces one of a job accepted earlier: everything uploaded
\* so far was accepted before it, everything still queued after.
LEMMA UploadKeeps ==
  ASSUME DoorInv, NEW j \in Job, Upload(j)
  PROVE  DoorInv'
<1>1. /\ j \in current /\ wrote' = wrote \cup {j}
      /\ UNCHANGED <<vars, malformed, of, flying, timeouts, restarts, polled, verdict, forgotten>>
      /\ DoorTypes /\ RegistryInv /\ Stored /\ Called /\ Concluded
  BY DEF Upload, DoorInv
<1>2. PICK s \in of[j] : store' = [store EXCEPT ![ClipKey[s]] = {j}]
  BY DEF Upload
<1>3. RegistryInv' /\ Moves
  BY <1>1, StillMoves
<1>4. s \in Shot /\ ClipKey[s] \in Key /\ \A t \in of[j] : t = s
  BY <1>1 DEF DoorTypes, Key, Called
<1>5. \A key \in Key : store'[key] = IF key = ClipKey[s] THEN {j} ELSE store[key]
  BY <1>1, <1>2 DEF DoorTypes
<1>6. DoorTypes' /\ Called'
  <2>1. store' \in [Key -> SUBSET Job] /\ wrote' \subseteq Job
    BY <1>1, <1>2 DEF DoorTypes
  <2>. QED BY <1>1, <1>3, <2>1, CalledStays DEF DoorTypes
<1>7. UNCHANGED <<arrival, current, queue, status>>
  BY <1>1 DEF vars, fields
<1>8. status[j] = "IN_PROGRESS" /\ Position(arrival, j) \in Nat
  BY <1>1, Placed DEF RegistryInv, InLine
<1>9. ASSUME NEW w \in wrote'
      PROVE  /\ status[w] # "unborn"
             /\ \A c \in current : Position(arrival, w) <= Position(arrival, c)
             /\ \A q \in ToSet(queue) : Position(arrival, w) < Position(arrival, q)
             /\ \A t \in of[w] : \E k \in store'[ClipKey[t]] :
                  Position(arrival, w) <= Position(arrival, k)
  <2>1. CASE w = j
    <3>1. \A c \in current : c = j
      BY <1>1 DEF RegistryInv, InLine
    <3>2. \A q \in ToSet(queue) : Position(arrival, w) < Position(arrival, q)
      BY <1>1, <2>1 DEF RegistryInv, InLine
    <3>3. store'[ClipKey[s]] = {j}
      BY <1>4, <1>5
    <3>4. Position(arrival, j) <= Position(arrival, j)
      BY <1>8
    <3>. QED BY <1>4, <1>8, <2>1, <3>1, <3>2, <3>3, <3>4
  <2>2. CASE w \in wrote
    <3>1. /\ status[w] # "unborn"
          /\ \A c \in current : Position(arrival, w) <= Position(arrival, c)
          /\ \A q \in ToSet(queue) : Position(arrival, w) < Position(arrival, q)
      BY <1>1, <2>2 DEF Stored
    <3>2. ASSUME NEW t \in of[w]
          PROVE  \E k \in store'[ClipKey[t]] : Position(arrival, w) <= Position(arrival, k)
      <4>1. t \in Shot /\ ClipKey[t] \in Key
        BY <1>1, <2>2 DEF DoorTypes, Key
      <4>2. CASE ClipKey[t] = ClipKey[s]
        <5>1. store'[ClipKey[t]] = {j}
          BY <1>5, <4>1, <4>2
        <5>. QED BY <1>1, <3>1, <5>1
      <4>3. CASE ClipKey[t] # ClipKey[s]
        <5>1. store'[ClipKey[t]] = store[ClipKey[t]]
          BY <1>5, <4>1, <4>3
        <5>. QED BY <1>1, <2>2, <5>1 DEF Stored
      <4>. QED BY <4>2, <4>3
    <3>. QED BY <3>1, <3>2
  <2>. QED BY <1>1, <2>1, <2>2
<1>10. Stored'
  <2>1. \A key \in Key : store'[key] \subseteq wrote'
    BY <1>1, <1>5 DEF Stored
  <2>2. \A k \in Job : status'[k] = "COMPLETED" => k \in wrote'
    BY <1>1, <1>7 DEF Stored
  <2>3. of' = of
    BY <1>1
  <2>. QED BY <1>7, <1>9, <2>1, <2>2, <2>3 DEF Stored
<1>11. Concluded'
  BY <1>1, <1>3, ConcludedStays
<1>. QED BY <1>3, <1>6, <1>10, <1>11 DEF DoorInv
-----------------------------------------------------------------------------
(* The theorems. *)

\* Every step but an upload leaves the store alone.
LEMMA OnlyUploadsWrite ==
  ASSUME DoorInv, DoorNext, \A j \in Job : ~Upload(j)
  PROVE  store' = store /\ Moves
<1>1. CASE Restart
  BY <1>1, RestartKeeps DEF Restart, DoorInv
<1>2. CASE ~Restart
  <2>1. ASSUME NEW s \in Shot, Caller(s)
        PROVE  store' = store /\ forgotten' = forgotten /\ [Next]_vars
    BY <2>1 DEF Caller, PostAnswered, PostArrivesLate, Accept, PostRefused, PostTimesOut,
                PostIsLost, Poll, CancelPolled, door, Next
  <2>2. ASSUME NEW j \in Job, RenderEnds(j)
        PROVE  store' = store /\ forgotten' = forgotten /\ [Next]_vars
    BY <2>2 DEF RenderEnds, RenderReturns, RenderFails, RunEnds, Next, door
  <2>3. ServerLoop => store' = store /\ forgotten' = forgotten /\ [Next]_vars
    BY DEF ServerLoop, Next, door
  <2>4. store' = store /\ forgotten' = forgotten /\ [Next]_vars
    BY <1>2, <2>1, <2>2, <2>3 DEF DoorNext
  <2>. QED BY <2>4, RegistryKeeps DEF DoorInv
<1>. QED BY <1>1, <1>2

LEMMA DoorStarts == DoorInit => DoorInv
<1>. SUFFICES ASSUME DoorInit PROVE DoorInv
  OBVIOUS
<1>1. <<>> \in Seq(Job) /\ DOMAIN <<>> = {} /\ Len(<<>>) = 0
  BY EmptySeq
<1>2. ToSet(<<>>) = {} /\ IsInjective(<<>>)
  BY <1>1 DEF ToSet, IsInjective
<1>3. /\ jobs = {} /\ status = [j \in Job |-> "unborn"] /\ error = [j \in Job |-> "none"]
      /\ queue = <<>> /\ completed_order = <<>> /\ worker = "dead" /\ current = {}
      /\ arrival = <<>> /\ settled = <<>>
  BY DEF DoorInit, Init
<1>4. TypeOK
  BY <1>1 DEF DoorInit, Init, TypeOK, Status, Reason, Place
<1>5. AcceptedOnce /\ InLine /\ Ended
  BY <1>1, <1>2, <1>3 DEF AcceptedOnce, InLine, Ended
<1>6. Kept
  BY <1>1, <1>3, MaxCompletedIsNat DEF Kept
<1>7. DoorTypes
  BY DEF DoorInit, DoorTypes, Verdict
<1>8. Stored /\ Called /\ Concluded
  BY <1>3 DEF DoorInit, Stored, Called, Concluded
<1>. QED BY <1>4, <1>5, <1>6, <1>7, <1>8 DEF DoorInv, RegistryInv

LEMMA DoorStep == DoorInv /\ [DoorNext]_doorVars => DoorInv'
<1>. SUFFICES ASSUME DoorInv, [DoorNext]_doorVars PROVE DoorInv'
  OBVIOUS
<1>1. ASSUME NEW s \in Shot, Caller(s) PROVE DoorInv'
  BY <1>1, PostKeeps, RefusalKeeps, LostPostKeeps, PollKeeps, CancelKeeps DEF Caller
<1>2. ASSUME NEW j \in Job, Upload(j) \/ RenderEnds(j) PROVE DoorInv'
  BY <1>2, UploadKeeps, RenderEndKeeps
<1>3. CASE ServerLoop \/ Restart
  BY <1>3, LoopKeeps, RestartKeepsDoor
<1>4. CASE UNCHANGED doorVars
  <2>1. UNCHANGED <<vars, malformed, of, flying, timeouts, restarts, polled, verdict, wrote, store, forgotten>>
    BY <1>4 DEF doorVars, door
  <2>2. RegistryInv' /\ Moves
    BY <2>1, StillMoves DEF DoorInv
  <2>3. DoorTypes' /\ Called'
    BY <2>1, <2>2, CalledStays DEF DoorInv, DoorTypes
  <2>4. Stored' /\ Concluded'
    BY <2>1, <2>2, StoredStays, ConcludedStays DEF DoorInv, vars, fields, Stored
  <2>. QED BY <2>2, <2>3, <2>4 DEF DoorInv
<1>. QED BY <1>1, <1>2, <1>3, <1>4 DEF DoorNext

\* The inductive invariant: a restart keeps the order in which jobs were accepted, what
\* each Job object says, and whose clip lies under each key.
THEOREM DoorKeepsItsBooks == DoorSpec => []DoorInv
<1>. QED BY DoorStarts, DoorStep, PTL DEF DoorSpec

LEMMA InvGivesVerdicts == DoorInv => VerdictsAreTrue
<1>. SUFFICES ASSUME DoorInv, NEW s \in Shot
     PROVE  /\ verdict[s] = "COMPLETED" =>
                 \E j \in polled[s], k \in store[ClipKey[s]] : Arrived(j) <= Arrived(k)
            /\ verdict[s] = "FAILED" => \E j \in polled[s] : error[j] # "none"
            /\ verdict[s] = "404" =>
                 \E j \in polled[s] : j \in forgotten \/ Cardinality(SettledAfter(j)) >= MaxCompleted
            /\ verdict[s] = "400" => \A j \in Job : s \notin of[j]
  BY DEF VerdictsAreTrue
<1>1. \A j : Arrived(j) = Position(arrival, j)
  BY DEF Arrived, Position
<1>2. polled[s] \subseteq Job
  BY DEF DoorInv, DoorTypes
<1>3. ASSUME verdict[s] = "COMPLETED"
      PROVE  \E j \in polled[s], k \in store[ClipKey[s]] : Arrived(j) <= Arrived(k)
  <2>1. PICK j \in polled[s] : j \in wrote
    BY <1>3 DEF DoorInv, Concluded
  <2>2. s \in of[j]
    BY <2>1 DEF DoorInv, Called
  <2>. QED BY <1>1, <2>1, <2>2 DEF DoorInv, Stored
<1>4. verdict[s] = "FAILED" => \E j \in polled[s] : error[j] # "none"
  BY DEF DoorInv, Concluded
<1>5. ASSUME verdict[s] = "404"
      PROVE  \E j \in polled[s] : j \in forgotten \/ Cardinality(SettledAfter(j)) >= MaxCompleted
  <2>1. PICK j \in polled[s] : j \in forgotten \/ Evicted(settled, j)
    BY <1>5 DEF DoorInv, Concluded
  <2>2. settled \in Seq(Job) /\ IsInjective(settled) /\ j \in Job
    BY <1>2, <2>1 DEF DoorInv, RegistryInv, TypeOK, Ended
  <2>. QED BY <2>1, <2>2, EvictedCounts
<1>6. verdict[s] = "400" => \A j \in Job : s \notin of[j]
  BY DEF DoorInv, Concluded, Called
<1>. QED BY <1>3, <1>4, <1>5, <1>6

\* What the caller concludes is so: whatever the tunnel delays or loses, whenever the box
\* restarts and however many shots share a key, a COMPLETED clip is there and no older
\* than the one announced, a FAILED job has its reason, a 404 is a real loss, and a 400
\* means that nothing was rendered.
THEOREM VerdictsHold == DoorSpec => []VerdictsAreTrue
<1>. QED BY DoorKeepsItsBooks, InvGivesVerdicts, PTL

\* Under every key there is, once something was uploaded, a clip, and no upload puts one
\* there whose job was accepted before that of the clip it replaces.
NoOlderClip ==
  \A key \in Key : \A i \in store[key] : \E k \in store'[key] : Arrived(i) <= Arrived(k)'

\* The store never goes back: neither a late request, nor a second shot with the same slug,
\* nor a restart lets an older clip take the place of a newer one.
THEOREM StoreNeverGoesBack == DoorSpec => [][NoOlderClip]_doorVars
<1>1. \A j : Arrived(j) = Position(arrival, j) /\ Arrived(j)' = Position(arrival', j)
  BY DEF Arrived, Position
<1>2. ASSUME DoorInv, DoorInv', DoorNext PROVE NoOlderClip
  <2>1. ASSUME NEW key \in Key, NEW i \in store[key]
        PROVE  i \in Job /\ i \in wrote /\ i \in ToSet(arrival) /\ Position(arrival, i) \in Nat
    BY <1>2, Placed DEF DoorInv, DoorTypes, Stored
  <2>2. CASE \E j \in Job : Upload(j)
    <3>1. PICK j \in Job : Upload(j)
      BY <2>2
    <3>2. j \in current /\ arrival' = arrival /\ \E s \in of[j] : store' = [store EXCEPT ![ClipKey[s]] = {j}]
      BY <3>1 DEF Upload, vars
    <3>3. ASSUME NEW key \in Key, NEW i \in store[key]
          PROVE  \E k \in store'[key] : Arrived(i) <= Arrived(k)'
      <4>1. store'[key] \in {{j}, store[key]}
        BY <1>2, <3>2 DEF DoorInv, DoorTypes
      <4>2. Position(arrival, i) <= Position(arrival, j)
        BY <1>2, <2>1, <3>2 DEF DoorInv, Stored
      <4>3. Position(arrival, i) <= Position(arrival, i)
        BY <2>1
      <4>. QED BY <1>1, <3>2, <4>1, <4>2, <4>3
    <3>. QED BY <3>3 DEF NoOlderClip
  <2>3. ASSUME store' = store, Moves PROVE NoOlderClip
    <3>1. ASSUME NEW key \in Key, NEW i \in store[key]
          PROVE  Arrived(i) <= Arrived(i)'
      BY <1>1, <2>1, <2>3 DEF Moves
    <3>. QED BY <2>3, <3>1 DEF NoOlderClip
  <2>. QED
    BY <1>2, <2>2, <2>3, OnlyUploadsWrite
<1>. QED BY <1>2, DoorKeepsItsBooks, PTL DEF DoorSpec
=============================================================================
