--------------------------- MODULE JobAuditProofs ---------------------------
(***************************************************************************)
(* Proofs, for every set of ids and every retention bound, of what a lost   *)
(* stream can do to the registry and what it cannot.  Some of what holds of *)
(* JobRegistry is false here (a job may settle twice), so the invariant     *)
(* AuditInv is weaker than IInv and proved anew.                            *)
(***************************************************************************)
EXTENDS JobAudit, JobRegistryProofs

\* Every reason the thread may have to leave with jobs in the queue.
Cause == stop \/ ~stderr \/ ~AuditPasses

AuditTypes ==
  /\ TypeOK
  /\ stdout \in BOOLEAN
  /\ stderr \in BOOLEAN

\* The thread has at most one job, and none while it owes a line.
CardAndLine ==
  /\ worker = "running" <=> current # {}
  /\ \A j, k \in current : j = k
  /\ \A j \in current : status[j] = "IN_PROGRESS"
  /\ owed # {} => current = {}

\* Which of the streams it takes to strand a job, or to settle one twice.
Strands  == stderr => \A j \in Job : status[j] = "IN_PROGRESS" => j \in current
Resettle == \A j \in Job : output[j] => Settled(j) /\ (status[j] = "FAILED" => LogJobs /\ ~stdout)

\* A thread that left had a cause, unless it left nothing behind.
Leaving ==
  /\ worker = "returning" => Cause
  /\ queue # <<>> /\ worker = "dead" => Cause

\* What was retained has settled, and what is in the table and has settled was retained.
Kept ==
  /\ LiveJobsAreKept
  /\ \A j \in ToSet(completed_order) : Settled(j)

AuditInv == AuditTypes /\ CardAndLine /\ Strands /\ Resettle /\ Leaving /\ Kept

-----------------------------------------------------------------------------
(* Which steps are the registry's own. *)

LEMMA StepsSplit ==
  ASSUME AuditNext
  PROVE  \/ Next
         \/ UNCHANGED vars
         \/ LineKillsThread
         \/ \E j \in Job : Flip(j) \/ RaiseUnreported(j)
<1>1. CASE LoopHead \/ Shutdown \/ \E j \in Job : Handler(j)
  BY <1>1 DEF LoopHead, Handler, Next
<1>2. ASSUME NEW j \in Job, AuditComplete(j) \/ AuditAbort(j) \/ AuditRaise(j)
      PROVE  Next
  BY <1>2 DEF AuditComplete, AuditAbort, AuditRaise, Next, RunEnds
<1>3. CASE LinePrinted
  BY <1>3 DEF LinePrinted
<1>4. CASE StreamBreaks
  BY <1>4 DEF StreamBreaks
<1>. QED BY <1>1, <1>2, <1>3, <1>4 DEF AuditNext, Prints

\* While both streams take their lines, every step is a step of JobRegistry: nothing
\* the prints of core/jobs.py can do is visible then.
THEOREM IntactIsSilent == AuditSpec => SilentWhileIntact
<1>1. ASSUME [AuditNext]_auditVars, stdout, stderr
      PROVE  [Next]_vars
  <2>1. CASE AuditNext
    <3>1. AuditPasses
      BY <1>1 DEF AuditPasses
    <3>2. ~LineKillsThread /\ \A j \in Job : ~Flip(j) /\ ~RaiseUnreported(j)
      BY <1>1, <3>1 DEF LineKillsThread, Flip, RaiseUnreported
    <3>. QED BY <2>1, <3>2, StepsSplit
  <2>2. CASE UNCHANGED auditVars
    BY <2>2 DEF auditVars
  <2>. QED BY <1>1, <2>1, <2>2
<1>2. [AuditNext]_auditVars => [stdout /\ stderr => [Next]_vars]_auditVars
  BY <1>1
<1>. QED BY <1>2, PTL DEF AuditSpec, SilentWhileIntact

-----------------------------------------------------------------------------
(* Types. *)

LEMMA AuditTypesInit == AuditInit => AuditTypes
BY TypeInit DEF AuditInit, AuditTypes

LEMMA AuditTypesStep ==
  ASSUME AuditTypes, [AuditNext]_auditVars
  PROVE  AuditTypes'
<1>1. stdout' \in BOOLEAN /\ stderr' \in BOOLEAN
  BY DEF AuditTypes, AuditNext, Prints, LinePrinted, LineKillsThread, Flip, RaiseUnreported,
         AuditComplete, AuditAbort, AuditRaise, StreamBreaks, streams, auditVars
<1>2. CASE [Next]_vars
  BY <1>1, <1>2, TypeStep DEF AuditTypes
<1>3. ASSUME NEW j \in Job, Flip(j) PROVE TypeOK'
  <2>1. Fail(j, "exception") /\ "exception" \in Reason
    BY <1>3 DEF Flip, Reason
  <2>. QED BY <1>3, <2>1, FailTypes DEF Flip, TypeOK, AuditTypes
<1>4. ASSUME LineKillsThread \/ \E j \in Job : RaiseUnreported(j) PROVE TypeOK'
  <2>1. /\ UNCHANGED <<status, output, error, cancelled, jobs, completed_order, settled, queue,
                       stop, arrival>>
        /\ worker' = "returning" /\ current' = {}
    BY <1>4 DEF LineKillsThread, RaiseUnreported, ThreadDies, fields, table
  <2>. QED BY <2>1 DEF TypeOK, AuditTypes, Place
<1>5. CASE UNCHANGED auditVars
  BY <1>5, <1>2 DEF auditVars
<1>. QED BY <1>1, <1>2, <1>3, <1>4, <1>5, StepsSplit DEF AuditTypes

-----------------------------------------------------------------------------
(* Retention: an eviction takes settled jobs only. *)

LEMMA LastEntries ==
  ASSUME NEW S, NEW s \in Seq(S), NEW n \in Nat, n <= Len(s)
  PROVE  /\ SubSeq(s, n + 1, Len(s)) \in Seq(S)
         /\ Len(SubSeq(s, n + 1, Len(s))) = Len(s) - n
         /\ \A i \in 1..(Len(s) - n) : SubSeq(s, n + 1, Len(s))[i] = s[n + i]
<1>1. Len(s) \in Nat /\ Len(s) <= Len(s)
  BY LenProperties
<1>. QED BY <1>1, SliceFacts

LEMMA RetainKeeps ==
  ASSUME TypeOK, Kept, NEW j \in Job, Retain(j), Settled(j)',
         \A k \in Job : k # j => status'[k] = status[k]
  PROVE  Kept'
<1>. DEFINE order == Append(completed_order, j)
            n     == Excess(order)
            rest  == SubSeq(order, n + 1, Len(order))
            out   == {order[i] : i \in 1..n}
<1>1. /\ completed_order \in Seq(Job)
      /\ order \in Seq(Job)
      /\ ToSet(order) = ToSet(completed_order) \cup {j}
  BY AppendFacts DEF TypeOK
<1>2. completed_order' = rest /\ jobs' = jobs \ out
  BY DEF Retain
<1>. HIDE DEF order
<1>3. DOMAIN order = 1..Len(order) /\ Len(order) \in Nat
  BY <1>1, LenProperties
<1>4. n \in Nat /\ n <= Len(order) /\ Len(order) - n <= MaxCompleted
  <2>1. n = IF Len(order) > MaxCompleted THEN Len(order) - MaxCompleted ELSE 0
    BY <1>3, ExcessFacts
  <2>. QED BY <2>1, <1>3, MaxCompletedIsNat
<1>. HIDE DEF n
<1>5. /\ rest \in Seq(Job)
      /\ Len(rest) = Len(order) - n
      /\ \A i \in 1..(Len(order) - n) : rest[i] = order[n + i]
  BY <1>1, <1>4, LastEntries
<1>. HIDE DEF rest
<1>6. DOMAIN rest = 1..(Len(order) - n)
  BY <1>5, LenProperties
<1>7. ToSet(rest) \subseteq ToSet(order)
  <2>1. ASSUME NEW i \in 1..(Len(order) - n) PROVE rest[i] \in ToSet(order)
    <3>1. n + i \in 1..Len(order)
      BY <1>3, <1>4
    <3>. QED BY <3>1, <1>3, <1>5 DEF ToSet
  <2>. QED BY <2>1, <1>6 DEF ToSet
<1>8. out \subseteq ToSet(order)
  <2>1. \A i \in 1..n : i \in 1..Len(order)
    BY <1>3, <1>4
  <2>. QED BY <2>1, <1>3 DEF ToSet
<1>9. ToSet(order) \subseteq out \cup ToSet(rest)
  <2>1. ASSUME NEW i \in 1..Len(order), order[i] \notin out PROVE order[i] \in ToSet(rest)
    <3>1. i - n \in 1..(Len(order) - n) /\ n + (i - n) = i
      BY <2>1, <1>3, <1>4
    <3>2. rest[i - n] = order[i]
      BY <3>1, <1>5
    <3>. QED BY <3>1, <3>2, <1>6 DEF ToSet
  <2>. QED BY <2>1, <1>3 DEF ToSet
<1>10. ToSet(order) \subseteq Job
  BY <1>1, <1>3, ElementOfSeq DEF ToSet
<1>. HIDE DEF out
<1>11. \A k \in Job : k # j => (Settled(k)' <=> Settled(k))
  BY DEF Settled
<1>12. \A k \in ToSet(order) : k \in Job /\ Settled(k)'
  BY <1>1, <1>10, <1>11 DEF Kept
<1>13. \A k \in Live' : k \in Job /\ k # j /\ k \in Live /\ ~Settled(k)'
  BY DEF Live, Settled, Terminal
<1>14. Live' \subseteq jobs'
  BY <1>2, <1>8, <1>12, <1>13 DEF Kept, LiveJobsAreKept
<1>15. {k \in jobs : Settled(k)}' \subseteq ToSet(completed_order)'
  <2>1. ASSUME NEW k \in jobs', Settled(k)' PROVE k \in ToSet(rest)
    <3>1. k \in jobs /\ k \notin out /\ k \in Job
      BY <2>1, <1>2 DEF TypeOK
    <3>2. k \in ToSet(order)
      BY <2>1, <3>1, <1>1, <1>11 DEF Kept, LiveJobsAreKept
    <3>. QED BY <3>1, <3>2, <1>9
  <2>. QED BY <2>1, <1>2
<1>16. Len(completed_order') <= MaxCompleted
  BY <1>2, <1>4, <1>5
<1>17. \A k \in ToSet(completed_order') : Settled(k)'
  BY <1>2, <1>7, <1>12
<1>. QED BY <1>14, <1>15, <1>16, <1>17 DEF Kept, LiveJobsAreKept

\* A step that settles nobody and evicts nobody.
LEMMA NothingRetained ==
  ASSUME Kept, completed_order' = completed_order, jobs \subseteq jobs', Live' \subseteq jobs',
         \A k \in jobs' : Settled(k)' => Settled(k) /\ k \in jobs,
         \A k \in ToSet(completed_order) : Settled(k) => Settled(k)'
  PROVE  Kept'
<1>1. {k \in jobs : Settled(k)}' \subseteq ToSet(completed_order)'
  BY DEF Kept, LiveJobsAreKept
<1>. QED BY <1>1 DEF Kept, LiveJobsAreKept

-----------------------------------------------------------------------------
(* The invariant, one lemma an action. *)

\* Streams do not come back and a server told to stop stays told.
LEMMA CauseStays ==
  ASSUME AuditTypes, AuditNext, Cause
  PROVE  Cause'
<1>1. (stop => stop') /\ (~stderr => ~stderr') /\ (stdout' => stdout)
  <2>1. CASE UNCHANGED streams /\ Next
    <3>1. stop => stop'
      BY <2>1 DEF Next, RunLoop, RunEnds, Submit, CancelQueued, CancelRunning, Complete, Abort,
                  Raise, Sleep, Return, Die, Take, Shutdown
    <3>. QED BY <2>1, <3>1 DEF streams
  <2>2. CASE UNCHANGED streams /\ stop' = stop
    BY <2>2 DEF streams
  <2>3. CASE StreamBreaks
    BY <2>3 DEF StreamBreaks, vars
  <2>4. CASE LineKillsThread \/ \E j \in Job : Flip(j) \/ RaiseUnreported(j)
    BY <2>4, <2>2 DEF LineKillsThread, Flip, RaiseUnreported
  <2>5. CASE LinePrinted
    BY <2>5, <2>2 DEF LinePrinted, vars
  <2>6. CASE \/ (LoopHead \/ Shutdown \/ \E j \in Job : Handler(j)) /\ UNCHANGED <<streams, owed>>
             \/ \E j \in Job : AuditComplete(j) \/ AuditAbort(j) \/ AuditRaise(j)
    <3>1. Next /\ UNCHANGED streams
      BY <2>6 DEF LoopHead, Handler, AuditComplete, AuditAbort, AuditRaise, Next, RunEnds
    <3>. QED BY <3>1, <2>1
  <2>. QED BY <2>3, <2>4, <2>5, <2>6 DEF AuditNext, Prints
<1>. QED BY <1>1 DEF Cause, AuditPasses

LEMMA InitAuditInv == AuditInit => AuditInv
<1>. SUFFICES ASSUME AuditInit PROVE AuditInv
  OBVIOUS
<1>1. AuditTypes
  BY AuditTypesInit
<1>2. Init /\ current = {} /\ owed = {} /\ worker = "dead" /\ queue = <<>> /\ jobs = {}
      /\ completed_order = <<>>
      /\ \A k \in Job : status[k] = "unborn" /\ ~output[k]
  BY DEF AuditInit, Init
<1>3. CardAndLine /\ Strands /\ Resettle /\ Leaving
  BY <1>2 DEF CardAndLine, Strands, Resettle, Leaving
<1>4. Kept
  <2>1. Live = {}
    BY <1>2 DEF Live
  <2>2. Len(completed_order) = 0 /\ ToSet(completed_order) = {}
    BY <1>2 DEF ToSet
  <2>. QED BY <1>2, <2>1, <2>2, MaxCompletedIsNat DEF Kept, LiveJobsAreKept
<1>. QED BY <1>1, <1>3, <1>4 DEF AuditInv

LEMMA AuditSubmit ==
  ASSUME AuditInv, AuditNext, NEW j \in Job, Submit(j), UNCHANGED <<streams, owed>>
  PROVE  CardAndLine' /\ Strands' /\ Resettle' /\ Leaving' /\ Kept'
<1>1. /\ TypeOK /\ status \in [Job -> Status] /\ status[j] = "unborn" /\ jobs \subseteq Job
      /\ \A k \in Job : status'[k] = IF k = j THEN "IN_QUEUE" ELSE status[k]
      /\ jobs' = jobs \cup {j} /\ completed_order' = completed_order
      /\ UNCHANGED <<output, current, owed, stdout, stderr>>
      /\ worker' = Roused(worker) /\ current \subseteq Job
  BY DEF AuditInv, AuditTypes, TypeOK, Submit, streams
<1>2. /\ worker' = "running" <=> worker = "running"
      /\ worker' = "returning" => worker = "returning"
      /\ worker' # "dead"
  BY <1>1 DEF Roused
<1>3. CardAndLine'
  <2>1. j \notin current
    BY <1>1 DEF AuditInv, CardAndLine
  <2>. QED BY <1>1, <1>2, <2>1 DEF AuditInv, CardAndLine
<1>4. Strands'
  BY <1>1 DEF AuditInv, Strands
<1>5. \A k \in Job : (Settled(k)' <=> Settled(k)) /\ (status'[k] = "FAILED" <=> status[k] = "FAILED")
  BY <1>1 DEF Settled, Terminal
<1>6. Resettle'
  BY <1>1, <1>5 DEF AuditInv, Resettle
<1>7. Leaving'
  BY <1>2, CauseStays DEF AuditInv, Leaving
<1>8. Kept'
  <2>1. Live' \subseteq Live \cup {j} /\ ~Settled(j)
    BY <1>1 DEF Live, Settled, Terminal
  <2>2. Live' \subseteq jobs'
    BY <2>1, <1>1 DEF AuditInv, Kept, LiveJobsAreKept
  <2>3. ToSet(completed_order) \subseteq Job
    BY <1>1, ElementOfSeq, LenProperties DEF ToSet, TypeOK
  <2>. QED BY <1>1, <1>5, <2>1, <2>2, <2>3, NothingRetained DEF AuditInv
<1>. QED BY <1>3, <1>4, <1>6, <1>7, <1>8

\* A job settles, by whatever step: what that step must say of itself.
LEMMA AuditSettles ==
  ASSUME AuditInv, AuditNext, NEW j \in Job, NEW outcome \in Terminal,
         \A k \in Job : status'[k] = IF k = j THEN outcome ELSE status[k],
         Retain(j), UNCHANGED <<stdout, stderr>>,
         \A k \in Job : k # j => output'[k] = output[k],
         output'[j] /\ outcome = "FAILED" => LogJobs /\ ~stdout,
         current' = current \ {j}, worker' = "running" <=> current' # {},
         owed' # {} => current' = {}
  PROVE  CardAndLine' /\ Strands' /\ Resettle' /\ Kept'
<1>1. TypeOK /\ current \subseteq Job /\ stdout' = stdout /\ stderr' = stderr
  BY DEF AuditInv, AuditTypes, TypeOK
<1>2. CardAndLine'
  BY <1>1 DEF AuditInv, CardAndLine
<1>3. Strands'
  BY <1>1 DEF AuditInv, Strands, Terminal
<1>4. Settled(j)' /\ \A k \in Job : k # j => status'[k] = status[k]
  BY DEF Settled
<1>5. Resettle'
  <2>1. ASSUME NEW k \in Job, output'[k]
        PROVE  Settled(k)' /\ (status'[k] = "FAILED" => LogJobs /\ ~stdout')
    <3>1. CASE k = j
      BY <3>1, <2>1, <1>1, <1>4
    <3>2. CASE k # j
      BY <3>2, <2>1, <1>1, <1>4 DEF AuditInv, Resettle, Settled
    <3>. QED BY <3>1, <3>2
  <2>. QED BY <2>1 DEF Resettle
<1>6. Kept'
  BY <1>1, <1>4, RetainKeeps DEF AuditInv
<1>. QED BY <1>2, <1>3, <1>5, <1>6

LEMMA FailSays ==
  ASSUME TypeOK, NEW j \in Job, NEW reason, Fail(j, reason)
  PROVE  Retain(j) /\ \A k \in Job : status'[k] = IF k = j THEN "FAILED" ELSE status[k]
BY DEF Fail, TypeOK

LEMMA AuditCancelQueued ==
  ASSUME AuditInv, AuditNext, NEW j \in Job, CancelQueued(j), UNCHANGED <<streams, owed>>
  PROVE  CardAndLine' /\ Strands' /\ Resettle' /\ Leaving' /\ Kept'
<1>1. /\ TypeOK /\ queue \in Seq(Job) /\ status[j] = "IN_QUEUE"
      /\ UNCHANGED <<output, current, worker, owed, stdout, stderr>>
      /\ Fail(j, "canceled before start") /\ "FAILED" \in Terminal
  BY DEF AuditInv, AuditTypes, TypeOK, CancelQueued, streams, Terminal
<1>2. j \notin current /\ ~output[j]
  BY <1>1 DEF AuditInv, CardAndLine, Resettle, Settled, Terminal
<1>3. CardAndLine' /\ Strands' /\ Resettle' /\ Kept'
  <2>1. Retain(j) /\ \A k \in Job : status'[k] = IF k = j THEN "FAILED" ELSE status[k]
    BY <1>1, FailSays
  <2>2. current' = current \ {j} /\ (worker' = "running" <=> current' # {})
        /\ (owed' # {} => current' = {})
    BY <1>1, <1>2 DEF AuditInv, CardAndLine
  <2>. QED BY <1>1, <1>2, <2>1, <2>2, AuditSettles
<1>4. Leaving'
  <2>1. queue # <<>>
    <3>1. PICK i \in DOMAIN queue : queue[i] = j
      BY DEF CancelQueued
    <3>2. Len(queue) # 0
      <4>1. DOMAIN queue = 1..Len(queue) /\ Len(queue) \in Nat
        BY <1>1, LenProperties
      <4>2. i \in 1..Len(queue)
        BY <3>1, <4>1
      <4>. QED BY <4>1, <4>2
    <3>. QED BY <3>2, EmptySeq
  <2>. QED BY <1>1, <2>1, CauseStays DEF AuditInv, Leaving
<1>. QED BY <1>3, <1>4

\* The three ways run_fn ends, and the line that is owed after them.
LEMMA AuditFinished ==
  ASSUME AuditInv, AuditNext, NEW j \in Job, Finished(j), NEW outcome \in Terminal,
         \A k \in Job : status'[k] = IF k = j THEN outcome ELSE status[k],
         Retain(j), UNCHANGED streams,
         \A k \in Job : k # j => output'[k] = output[k],
         outcome = "FAILED" => output'[j] = output[j]
  PROVE  CardAndLine' /\ Strands' /\ Resettle' /\ Leaving' /\ Kept'
<1>1. worker' = "ready" /\ current' = {} /\ j \in current /\ stdout' = stdout /\ stderr' = stderr
  BY DEF Finished, streams
<1>2. current' = current \ {j} /\ ~output[j]
  <2>1. status[j] = "IN_PROGRESS"
    BY <1>1 DEF AuditInv, CardAndLine
  <2>. QED BY <1>1, <2>1 DEF AuditInv, CardAndLine, Resettle, Settled, Terminal
<1>3. Leaving'
  BY <1>1 DEF Leaving
<1>. QED BY <1>1, <1>2, <1>3, AuditSettles

LEMMA AuditRunEnds ==
  ASSUME AuditInv, AuditNext, NEW j \in Job, AuditComplete(j) \/ AuditAbort(j) \/ AuditRaise(j)
  PROVE  CardAndLine' /\ Strands' /\ Resettle' /\ Leaving' /\ Kept'
<1>1. TypeOK /\ status \in [Job -> Status] /\ output \in [Job -> BOOLEAN]
      /\ "COMPLETED" \in Terminal /\ "FAILED" \in Terminal
  BY DEF AuditInv, AuditTypes, TypeOK, Terminal
<1>2. CASE AuditComplete(j)
  <2>1. Complete(j) /\ UNCHANGED streams
    BY <1>2 DEF AuditComplete
  <2>2. /\ Finished(j) /\ Retain(j)
        /\ \A k \in Job : status'[k] = IF k = j THEN "COMPLETED" ELSE status[k]
        /\ \A k \in Job : k # j => output'[k] = output[k]
    BY <2>1, <1>1 DEF Complete
  <2>. QED BY <2>1, <2>2, <1>1, AuditFinished
<1>3. CASE AuditAbort(j) \/ AuditRaise(j)
  <2>1. /\ Finished(j) /\ UNCHANGED <<streams, output>>
        /\ Fail(j, "canceled") \/ Fail(j, "exception")
    BY <1>3 DEF AuditAbort, AuditRaise, Abort, Raise, streams
  <2>2. Retain(j) /\ \A k \in Job : status'[k] = IF k = j THEN "FAILED" ELSE status[k]
    BY <2>1, <1>1, FailSays
  <2>. QED BY <2>1, <2>2, <1>1, AuditFinished
<1>. QED BY <1>2, <1>3

LEMMA AuditFlip ==
  ASSUME AuditInv, AuditNext, NEW j \in Job, Flip(j)
  PROVE  CardAndLine' /\ Strands' /\ Resettle' /\ Leaving' /\ Kept'
<1>1. /\ TypeOK /\ Fail(j, "exception") /\ "FAILED" \in Terminal
      /\ owed # {} /\ LogJobs /\ ~stdout
      /\ UNCHANGED <<output, queue, worker, current, stdout, stderr>>
  BY DEF AuditInv, AuditTypes, Flip, AuditPasses, streams, Terminal
<1>2. current = {}
  BY <1>1 DEF AuditInv, CardAndLine
<1>3. Retain(j) /\ \A k \in Job : status'[k] = IF k = j THEN "FAILED" ELSE status[k]
  BY <1>1, FailSays
<1>4. CardAndLine' /\ Strands' /\ Resettle' /\ Kept'
  <2>1. current' = current \ {j} /\ (worker' = "running" <=> current' # {})
        /\ (owed' # {} => current' = {})
    BY <1>1, <1>2 DEF AuditInv, CardAndLine
  <2>. QED BY <1>1, <1>3, <2>1, AuditSettles
<1>5. Leaving'
  BY <1>1, CauseStays DEF AuditInv, Leaving
<1>. QED BY <1>4, <1>5

\* Whatever leaves the jobs as they are.
LEMMA AuditIdle ==
  ASSUME AuditInv, UNCHANGED <<status, output, jobs, completed_order>>,
         stderr' => stderr, stdout' => stdout,
         worker' = "running" <=> current' # {}, current' \subseteq current,
         stderr' => current' = current, owed' # {} => current' = {}
  PROVE  CardAndLine' /\ Strands' /\ Resettle' /\ Kept'
<1>1. current \subseteq Job
  BY DEF AuditInv, AuditTypes, TypeOK
<1>2. CardAndLine'
  BY <1>1 DEF AuditInv, CardAndLine
<1>3. Strands'
  BY DEF AuditInv, Strands
<1>4. Resettle'
  BY DEF AuditInv, Resettle, Settled
<1>5. Kept'
  BY DEF AuditInv, Kept, LiveJobsAreKept, Live, Settled
<1>. QED BY <1>2, <1>3, <1>4, <1>5

LEMMA AuditThread ==
  ASSUME AuditInv, AuditNext, UNCHANGED <<streams, owed>>,
         Sleep \/ Return \/ Die \/ Shutdown \/ \E j \in Job : CancelRunning(j)
  PROVE  CardAndLine' /\ Strands' /\ Resettle' /\ Leaving' /\ Kept'
<1>1. /\ UNCHANGED <<status, output, jobs, completed_order, current, queue, stdout, stderr, owed>>
      /\ worker' = "running" <=> worker = "running"
  BY DEF Sleep, Return, Die, Shutdown, CancelRunning, fields, table, streams
<1>2. CardAndLine' /\ Strands' /\ Resettle' /\ Kept'
  <2>1. (worker' = "running" <=> current' # {}) /\ (owed' # {} => current' = {})
    BY <1>1 DEF AuditInv, CardAndLine
  <2>. QED BY <1>1, <2>1, AuditIdle
<1>3. Leaving'
  <2>1. CASE Return
    <3>1. worker' = "returning" /\ stop' = stop /\ stop
      BY <2>1 DEF Return
    <3>. QED BY <3>1 DEF Leaving, Cause
  <2>2. CASE Die
    <3>1. worker = "returning" /\ worker' = "dead"
      BY <2>2 DEF Die
    <3>. QED BY <3>1, CauseStays DEF AuditInv, Leaving
  <2>3. CASE Sleep
    BY <2>3 DEF Sleep, Leaving
  <2>4. CASE Shutdown \/ \E j \in Job : CancelRunning(j)
    <3>1. /\ worker' = "returning" => worker = "returning"
          /\ worker' = "dead" => worker = "dead"
      BY <2>4 DEF Shutdown, CancelRunning
    <3>. QED BY <3>1, <1>1, CauseStays DEF AuditInv, Leaving
  <2>. QED BY <2>1, <2>2, <2>3, <2>4
<1>. QED BY <1>2, <1>3

LEMMA AuditTake ==
  ASSUME AuditInv, AuditNext, Take, owed = {}, UNCHANGED <<streams, owed>>
  PROVE  CardAndLine' /\ Strands' /\ Resettle' /\ Leaving' /\ Kept'
<1>. DEFINE j == Head(queue)
<1>1. /\ TypeOK /\ status \in [Job -> Status] /\ completed_order \in Seq(Job)
      /\ worker = "ready" /\ owed' = {} /\ UNCHANGED <<output, stdout, stderr>>
  BY DEF AuditInv, AuditTypes, TypeOK, Take, streams
<1>2. j \in Job
  BY TailFacts DEF Take, AuditInv, AuditTypes, TypeOK
<1>3. current = {}
  BY <1>1 DEF AuditInv, CardAndLine
<1>4. CASE Stale(j)
  <2>1. UNCHANGED <<status, jobs, completed_order, worker, current>>
    BY <1>4 DEF Take, table
  <2>2. CardAndLine' /\ Strands' /\ Resettle' /\ Kept'
    BY <1>1, <1>3, <2>1, AuditIdle
  <2>. QED BY <1>1, <2>1, <2>2 DEF Leaving
<1>5. CASE ~Stale(j) /\ cancelled[j]
  <2>1. Fail(j, "canceled before start") /\ UNCHANGED <<worker, current>> /\ status[j] = "IN_QUEUE"
    BY <1>5 DEF Take, Stale
  <2>. HIDE DEF j
  <2>2. ~output[j]
    BY <1>2, <2>1 DEF AuditInv, Resettle, Settled, Terminal
  <2>3. Retain(j) /\ (\A k \in Job : status'[k] = IF k = j THEN "FAILED" ELSE status[k])
        /\ "FAILED" \in Terminal
    BY <1>1, <1>2, <2>1, FailSays DEF Terminal
  <2>4. CardAndLine' /\ Strands' /\ Resettle' /\ Kept'
    BY <1>1, <1>2, <1>3, <2>1, <2>2, <2>3, AuditSettles
  <2>. QED BY <1>1, <2>1, <2>4 DEF Leaving
<1>6. CASE ~Stale(j) /\ ~cancelled[j]
  <2>1. /\ status' = [status EXCEPT ![j] = "IN_PROGRESS"] /\ current' = {j}
        /\ worker' = "running" /\ UNCHANGED <<jobs, completed_order>>
        /\ status[j] = "IN_QUEUE" /\ j \in jobs
    BY <1>6 DEF Take, Stale, table
  <2>. HIDE DEF j
  <2>2. \A k \in Job : status'[k] = IF k = j THEN "IN_PROGRESS" ELSE status[k]
    BY <1>1, <1>2, <2>1
  <2>3. CardAndLine'
    BY <1>1, <1>2, <2>1, <2>2 DEF CardAndLine
  <2>4. Strands'
    BY <1>1, <1>2, <1>3, <2>1, <2>2 DEF AuditInv, Strands
  <2>5. \A k \in Job : (Settled(k)' <=> Settled(k)) /\ (status'[k] = "FAILED" <=> status[k] = "FAILED")
    BY <1>2, <2>1, <2>2 DEF Settled, Terminal
  <2>6. Resettle'
    BY <1>1, <2>5 DEF AuditInv, Resettle
  <2>7. Leaving'
    BY <2>1 DEF Leaving
  <2>8. Kept'
    <3>1. Live' \subseteq jobs'
      BY <1>2, <2>1, <2>2 DEF Live, AuditInv, Kept, LiveJobsAreKept
    <3>2. ToSet(completed_order) \subseteq Job /\ jobs \subseteq Job
      BY <1>1, ElementOfSeq, LenProperties DEF ToSet, TypeOK
    <3>. QED BY <2>1, <2>5, <3>1, <3>2, NothingRetained DEF AuditInv
  <2>. QED BY <2>3, <2>4, <2>6, <2>7, <2>8
<1>. QED BY <1>4, <1>5, <1>6

LEMMA AuditLines ==
  ASSUME AuditInv, AuditNext,
         StreamBreaks \/ LinePrinted \/ LineKillsThread \/ \E j \in Job : RaiseUnreported(j)
  PROVE  CardAndLine' /\ Strands' /\ Resettle' /\ Leaving' /\ Kept'
<1>1. UNCHANGED <<status, output, jobs, completed_order, queue>> /\ (stderr' => stderr)
      /\ (stdout' => stdout)
  BY DEF StreamBreaks, LinePrinted, LineKillsThread, RaiseUnreported, vars, fields, table,
         streams, AuditInv, AuditTypes
<1>2. CASE StreamBreaks \/ LinePrinted
  <2>1. UNCHANGED <<worker, current>> /\ owed' \subseteq owed
    BY <1>2 DEF StreamBreaks, LinePrinted, vars
  <2>2. (worker' = "running" <=> current' # {}) /\ (owed' # {} => current' = {})
    BY <2>1 DEF AuditInv, CardAndLine
  <2>3. CardAndLine' /\ Strands' /\ Resettle' /\ Kept'
    BY <1>1, <2>1, <2>2, AuditIdle
  <2>4. Leaving'
    BY <1>1, <2>1, CauseStays DEF AuditInv, Leaving
  <2>. QED BY <2>3, <2>4
<1>3. CASE LineKillsThread \/ \E j \in Job : RaiseUnreported(j)
  <2>1. worker' = "returning" /\ current' = {} /\ owed' = {} /\ UNCHANGED <<streams, stop>>
    BY <1>3 DEF LineKillsThread, RaiseUnreported, ThreadDies
  <2>2. Cause
    BY <1>3 DEF LineKillsThread, RaiseUnreported, Cause
  <2>3. stderr' => current' = current
    BY <1>1, <1>3, <2>1 DEF LineKillsThread, RaiseUnreported, AuditInv, CardAndLine
  <2>4. CardAndLine' /\ Strands' /\ Resettle' /\ Kept'
    BY <1>1, <2>1, <2>3, AuditIdle
  <2>5. Leaving'
    BY <2>1, <2>2, CauseStays DEF AuditInv, Leaving
  <2>. QED BY <2>4, <2>5
<1>. QED BY <1>2, <1>3

LEMMA NextAuditInv == AuditInv /\ [AuditNext]_auditVars => AuditInv'
<1>. SUFFICES ASSUME AuditInv, [AuditNext]_auditVars PROVE AuditInv'
  OBVIOUS
<1>1. AuditTypes'
  BY AuditTypesStep DEF AuditInv
<1>2. ASSUME AuditNext PROVE CardAndLine' /\ Strands' /\ Resettle' /\ Leaving' /\ Kept'
  <2>1. ASSUME NEW j \in Job, Handler(j), UNCHANGED <<streams, owed>>
        PROVE  CardAndLine' /\ Strands' /\ Resettle' /\ Leaving' /\ Kept'
    BY <1>2, <2>1, AuditSubmit, AuditCancelQueued, AuditThread DEF Handler
  <2>2. ASSUME LoopHead \/ Shutdown, UNCHANGED <<streams, owed>>
        PROVE  CardAndLine' /\ Strands' /\ Resettle' /\ Leaving' /\ Kept'
    BY <1>2, <2>2, AuditTake, AuditThread DEF LoopHead, RunLoop
  <2>3. CASE \E j \in Job : AuditComplete(j) \/ AuditAbort(j) \/ AuditRaise(j)
    BY <1>2, <2>3, AuditRunEnds
  <2>4. CASE \E j \in Job : Flip(j)
    BY <1>2, <2>4, AuditFlip
  <2>5. CASE StreamBreaks \/ LinePrinted \/ LineKillsThread \/ \E j \in Job : RaiseUnreported(j)
    BY <1>2, <2>5, AuditLines
  <2>. QED BY <1>2, <2>1, <2>2, <2>3, <2>4, <2>5 DEF AuditNext, Prints
<1>3. ASSUME UNCHANGED auditVars PROVE CardAndLine' /\ Strands' /\ Resettle' /\ Leaving' /\ Kept'
  <2>1. /\ UNCHANGED <<status, output, jobs, completed_order, queue, worker, current, stop>>
        /\ UNCHANGED <<stdout, stderr, owed>>
    BY <1>3 DEF auditVars, vars, fields, table, streams
  <2>2. (worker' = "running" <=> current' # {}) /\ (owed' # {} => current' = {})
    BY <2>1 DEF AuditInv, CardAndLine
  <2>3. CardAndLine' /\ Strands' /\ Resettle' /\ Kept'
    BY <2>1, <2>2, AuditIdle
  <2>4. Leaving'
    BY <2>1 DEF AuditInv, Leaving, Cause, AuditPasses
  <2>. QED BY <2>3, <2>4
<1>. QED BY <1>1, <1>2, <1>3 DEF AuditInv

LEMMA AuditInductive == AuditSpec => []AuditInv
BY InitAuditInv, NextAuditInv, PTL DEF AuditSpec

-----------------------------------------------------------------------------
(* What follows, for any set of jobs and any retention. *)

\* A lost stream of core/jobs.py strands a job, settles one twice or ends the thread,
\* each only in the circumstances DamageHasACause names, and never puts two jobs on
\* the card.
THEOREM DamageIsExplained == AuditSpec => []DamageHasACause
<1>1. AuditInv => DamageHasACause
  <2>. SUFFICES ASSUME AuditInv PROVE DamageHasACause
    OBVIOUS
  <2>1. Stranded # {} => ~stderr
    BY DEF AuditInv, Strands, Stranded
  <2>2. (\E j \in Job : output[j] /\ status[j] = "FAILED") => LogJobs /\ ~stdout
    BY DEF AuditInv, Resettle
  <2>3. (\A j, k \in current : j = k) /\ (worker = "running" <=> current # {})
    BY DEF AuditInv, CardAndLine
  <2>4. queue # <<>> /\ worker \in {"returning", "dead"} => stop \/ ~stderr \/ ~AuditPasses
    BY DEF AuditInv, Leaving, Cause
  <2>. QED BY <2>1, <2>2, <2>3, <2>4 DEF DamageHasACause
<1>. QED BY <1>1, AuditInductive, PTL

\* _retain_locked, called twice for one job, still evicts settled jobs only and keeps
\* no more than MaxCompleted of them.
THEOREM EvictionIsSafe == AuditSpec => []LiveJobsAreKept
<1>1. AuditInv => LiveJobsAreKept
  BY DEF AuditInv, Kept
<1>. QED BY <1>1, AuditInductive, PTL
=============================================================================
