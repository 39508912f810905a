------------------------- MODULE WorkerClientProofs -------------------------
(***************************************************************************)
(* Proofs, for any number of renders, of what core/worker_client.py keeps   *)
(* through every interleaving of a render, a shutdown that does not wait    *)
(* for it, and workers that crash, linger or answer late: one worker runs,  *)
(* a result is the caller's own, and render() is the run_fn of the registry.*)
(*                                                                          *)
(* The client never reads an event's job id.  What stands in for it is an   *)
(* account kept of every worker in use (WorkOK): at most one of a command   *)
(* unread, a job under way and a verdict unread, and none between renders.  *)
(***************************************************************************)
EXTENDS WorkerClient, SequenceTheorems, TLAPS

Verdicts == {Result(j) : j \in Job} \cup {Error}

\* s has at most one entry of S.
AtMostOne(s, S) == \A i, k \in DOMAIN s : s[i] \in S /\ s[k] \in S => i = k

\* Where the render thread has a worker, where it has fetched its queue, and where its
\* command may be under way.
Held    == {"publish", "fetch", "write", "check", "get", "terminate", "confirm"}
Fetched == {"write", "check", "get", "terminate", "confirm"}
Sent    == {"check", "get", "terminate", "confirm"}

\* The two handles of the render thread and those of the client object go together.
Thread ==
  /\ \A j, k \in rjob : j = k
  /\ rpc # "idle" => rjob # {}
  /\ rpc = "idle" /\ parent = "up" => rjob = {}
  /\ \A j \in rjob : outcome[j] = "pending"
  /\ rproc # None <=> rpc \in Held
  /\ cqueue = cproc
  /\ rpc = "publish" => cproc = None
  /\ rpc \in Held => cproc \in {rproc, None}
  /\ rpc \in Fetched => rqueue \in {rproc, None} /\ (rqueue = None => cproc = None)
  /\ rpc \in {"terminate", "confirm"} => \A j \in rjob : cancelled[j]

\* shutdown() works on the worker it saw first.
Stopping ==
  /\ spc \in {"lock", "graceful", "terminate", "confirm", "reap"} => sproc # None
  /\ spc \in {"reap", "done"} /\ sproc # None => life[sproc] # "up"

\* A worker that was not spawned has nothing; nobody holds one that was not; only its own
\* job spawns it.
Born ==
  /\ \A p \in Job : life[p] = "none" => inbox[p] = <<>> /\ doing[p] = {} /\ lines[p] = <<>>
  /\ \A p \in Job : p \in {cproc, rproc, sproc} => life[p] # "none"
  /\ cproc # None => pipes[cproc]
  /\ rpc = "publish" => pipes[rproc] /\ sproc # rproc
  /\ \A j \in Job : outcome[j] = "pending" /\ (j \notin rjob \/ rpc \in {"lock", "ensure"})
                      => life[j] = "none"

\* What a queue says is so.
LinesAreTrue ==
  \A p \in Job :
    /\ Eof \in ToSet(lines[p]) => life[p] # "up"
    /\ \A k \in Job : Result(k) \in ToSet(lines[p]) => k \in clips

Cmds(p) == ToSet(inbox[p]) \cap Job
Ends(p) == ToSet(lines[p]) \cap Verdicts

Vacant(p) == Cmds(p) = {} /\ doing[p] = {} /\ Ends(p) = {}

OneAtWork(p) ==
  /\ AtMostOne(inbox[p], Job)
  /\ AtMostOne(lines[p], Verdicts)
  /\ Cmds(p) \subseteq rjob
  /\ doing[p] \subseteq rjob
  /\ \A k \in Job : Result(k) \in ToSet(lines[p]) => k \in rjob
  /\ Cmds(p) # {} => doing[p] = {} /\ Ends(p) = {}
  /\ doing[p] # {} => Ends(p) = {}

WorkOK(p) == p \in {cproc, rproc} => IF rpc \in Sent THEN OneAtWork(p) ELSE Vacant(p)

Work == \A p \in Job : WorkOK(p)

\* A running worker is never at a job that is over.
WorkIsPending ==
  \A p \in Up : \A j \in Job : j \in doing[p] \/ j \in ToSet(inbox[p]) => outcome[j] = "pending"

Inv ==
  /\ TypeOK
  /\ Thread
  /\ Stopping
  /\ Born
  /\ LinesAreTrue
  /\ Work
  /\ OneWorkerRuns
  /\ WorkIsPending
  /\ ResultIsOwn

-----------------------------------------------------------------------------
(* Sequences and lines. *)

LEMMA NothingThere ==
  ASSUME NEW S
  PROVE  ToSet(<<>>) = {} /\ AtMostOne(<<>>, S)
BY DEF ToSet, AtMostOne

LEMMA NoneIsAtMostOne ==
  ASSUME NEW s, NEW S, ToSet(s) \cap S = {}
  PROVE  AtMostOne(s, S)
BY DEF ToSet, AtMostOne

LEMMA AppendFacts ==
  ASSUME NEW T, NEW s \in Seq(T), NEW x \in T, NEW S
  PROVE  /\ Append(s, x) \in Seq(T)
         /\ ToSet(Append(s, x)) = ToSet(s) \cup {x}
         /\ x \notin S /\ AtMostOne(s, S) => AtMostOne(Append(s, x), S)
         /\ ToSet(s) \cap S = {} => AtMostOne(Append(s, x), S)
<1>1. /\ Append(s, x) \in Seq(T)
      /\ DOMAIN Append(s, x) = 1..(Len(s) + 1)
      /\ \A i \in 1..Len(s) : Append(s, x)[i] = s[i]
      /\ Append(s, x)[Len(s) + 1] = x
      /\ Len(s) \in Nat /\ DOMAIN s = 1..Len(s)
  BY LenProperties
<1>2. ToSet(Append(s, x)) = ToSet(s) \cup {x}
  <2>1. \A y \in ToSet(Append(s, x)) : y \in ToSet(s) \cup {x}
    BY <1>1 DEF ToSet
  <2>2. \A y \in ToSet(s) : y \in ToSet(Append(s, x))
    BY <1>1 DEF ToSet
  <2>3. x \in ToSet(Append(s, x))
    BY <1>1 DEF ToSet
  <2>. QED BY <2>1, <2>2, <2>3
<1>3. \A i \in DOMAIN Append(s, x) : i \in DOMAIN s \/ i = Len(s) + 1
  BY <1>1
<1>4. ASSUME x \notin S, AtMostOne(s, S) PROVE AtMostOne(Append(s, x), S)
  BY <1>1, <1>3, <1>4 DEF AtMostOne
<1>5. ASSUME ToSet(s) \cap S = {} PROVE AtMostOne(Append(s, x), S)
  <2>1. \A i \in DOMAIN s : s[i] \notin S
    BY <1>5 DEF ToSet
  <2>. QED BY <2>1, <1>1, <1>3 DEF AtMostOne
<1>. QED BY <1>1, <1>2, <1>4, <1>5

LEMMA TailFacts ==
  ASSUME NEW T, NEW s \in Seq(T), s # <<>>, NEW S
  PROVE  /\ Tail(s) \in Seq(T)
         /\ Head(s) \in T /\ Head(s) \in ToSet(s)
         /\ ToSet(Tail(s)) \subseteq ToSet(s)
         /\ AtMostOne(s, S) => AtMostOne(Tail(s), S)
         /\ AtMostOne(s, S) /\ Head(s) \in S => ToSet(Tail(s)) \cap S = {}
<1>1. /\ Tail(s) \in Seq(T)
      /\ Len(Tail(s)) = Len(s) - 1
      /\ \A i \in 1..(Len(s) - 1) : Tail(s)[i] = s[i + 1]
      /\ Head(s) \in T
      /\ Head(s) = s[1]
      /\ Len(s) \in Nat \ {0}
      /\ DOMAIN s = 1..Len(s)
  BY HeadTailProperties, LenProperties, EmptySeq
<1>2. DOMAIN Tail(s) = 1..(Len(s) - 1)
  BY <1>1, LenProperties
<1>3. \A i \in DOMAIN Tail(s) : i + 1 \in DOMAIN s /\ i + 1 # 1 /\ Tail(s)[i] = s[i + 1]
  BY <1>1, <1>2
<1>4. 1 \in DOMAIN s
  BY <1>1
<1>5. Head(s) \in ToSet(s) /\ ToSet(Tail(s)) \subseteq ToSet(s)
  BY <1>1, <1>3, <1>4 DEF ToSet
<1>6. ASSUME AtMostOne(s, S) PROVE AtMostOne(Tail(s), S)
  <2>1. ASSUME NEW i \in DOMAIN Tail(s), NEW k \in DOMAIN Tail(s), Tail(s)[i] \in S, Tail(s)[k] \in S
        PROVE  i = k
    <3>1. i + 1 = k + 1
      BY <1>3, <1>6, <2>1 DEF AtMostOne
    <3>2. i \in Nat /\ k \in Nat
      BY <1>2
    <3>. QED BY <3>1, <3>2
  <2>. QED BY <2>1 DEF AtMostOne
<1>7. ASSUME AtMostOne(s, S), Head(s) \in S PROVE ToSet(Tail(s)) \cap S = {}
  <2>1. \A i \in DOMAIN Tail(s) : Tail(s)[i] \notin S
    BY <1>1, <1>3, <1>4, <1>7 DEF AtMostOne
  <2>. QED BY <2>1 DEF ToSet
<1>. QED BY <1>1, <1>5, <1>6, <1>7

LEMMA LineKinds ==
  /\ Error # Noise /\ Error # Eof /\ Noise # Eof
  /\ \A j \in Job : Result(j) \notin {Error, Noise, Eof}
  /\ \A j, k \in Job : Result(j) = Result(k) => j = k
  /\ {Error, Noise, Eof} \subseteq Line /\ \A j \in Job : Result(j) \in Line /\ Result(j) \in Verdicts
  /\ Error \in Verdicts /\ Noise \notin Verdicts /\ Eof \notin Verdicts
<1>1. /\ Error # Noise /\ Error # Eof /\ Noise # Eof
  BY DEF Error, Noise, Eof
<1>2. \A j \in Job : Len(Result(j)) = 2 /\ Len(Error) = 1 /\ Len(Noise) = 1 /\ Len(Eof) = 1
  BY DEF Result, Error, Noise, Eof
<1>3. \A j \in Job : Result(j) \notin {Error, Noise, Eof}
  BY <1>2
<1>4. \A j, k \in Job : Result(j) = Result(k) => j = k
  BY DEF Result
<1>. QED BY <1>1, <1>3, <1>4 DEF Line, Verdicts

-----------------------------------------------------------------------------
(* What the steps have in common. *)

\* Nothing of worker p has changed.
Still(p) ==
  inbox'[p] = inbox[p] /\ doing'[p] = doing[p] /\ lines'[p] = lines[p]

LEMMA WorkStays ==
  ASSUME NEW p \in Job, WorkOK(p), Still(p), rpc' = rpc, rjob' = rjob,
         p \in {cproc, rproc}' => p \in {cproc, rproc}
  PROVE  WorkOK(p)'
BY DEF WorkOK, OneAtWork, Vacant, Cmds, Ends, Still

LEMMA UpShrinks ==
  ASSUME OneWorkerRuns, \A p \in Job : life'[p] = "up" => life[p] = "up",
         UNCHANGED <<cproc, rproc, rpc, parent>>
  PROVE  OneWorkerRuns'
BY DEF OneWorkerRuns, Up

\* A render ends while no worker runs.
LEMMA NoneRunning ==
  ASSUME Up = {}, life' = life
  PROVE  WorkIsPending'
BY DEF WorkIsPending, Up

\* With no worker about to be published, the only one up is the client's.
LEMMA OnlyTheClients ==
  ASSUME Inv, parent = "up", rpc # "publish"
  PROVE  \A p \in Up : p = cproc
BY DEF Inv, OneWorkerRuns

LEMMA TakeFacts ==
  ASSUME Inv, NEW line, Take(line)
  PROVE  /\ rqueue = rproc /\ rproc \in Job /\ line \in Line /\ line \in ToSet(lines[rproc])
         /\ cproc \in {rproc, None} /\ OneAtWork(rproc)
         /\ \A p \in Job : ToSet(lines'[p]) \subseteq ToSet(lines[p])
         /\ \A p \in Job \ {rproc} : lines'[p] = lines[p]
         /\ AtMostOne(lines'[rproc], Verdicts)
         /\ line \in Verdicts => ToSet(lines'[rproc]) \cap Verdicts = {}
<1>1. /\ TypeOK /\ rpc = "get" /\ rqueue = rproc /\ rproc \in Job /\ rproc # None
      /\ cproc \in {rproc, None}
  BY DEF Inv, TypeOK, Thread, Take, Held, Fetched, Proc
<1>2. /\ lines[rproc] \in Seq(Line) /\ lines[rproc] # <<>> /\ Head(lines[rproc]) = line
      /\ lines'[rproc] = Tail(lines[rproc])
      /\ \A p \in Job \ {rproc} : lines'[p] = lines[p]
  BY <1>1 DEF TypeOK, Take
<1>3. OneAtWork(rproc)
  BY <1>1 DEF Inv, Work, WorkOK, Sent
<1>4. /\ line \in Line /\ line \in ToSet(lines[rproc])
      /\ ToSet(lines'[rproc]) \subseteq ToSet(lines[rproc])
      /\ AtMostOne(lines'[rproc], Verdicts)
      /\ line \in Verdicts => ToSet(lines'[rproc]) \cap Verdicts = {}
  BY <1>2, <1>3, TailFacts DEF OneAtWork
<1>. QED BY <1>1, <1>2, <1>3, <1>4

\* A line is added to worker p's queue.
LEMMA AddFacts ==
  ASSUME TypeOK, NEW p \in Job, NEW line \in Line,
         lines' = [lines EXCEPT ![p] = Append(@, line)]
  PROVE  /\ lines' \in [Job -> Seq(Line)]
         /\ ToSet(lines'[p]) = ToSet(lines[p]) \cup {line}
         /\ \A q \in Job \ {p} : lines'[q] = lines[q]
         /\ line \notin Verdicts /\ AtMostOne(lines[p], Verdicts) => AtMostOne(lines'[p], Verdicts)
         /\ Ends(p) = {} => AtMostOne(lines'[p], Verdicts)
<1>1. lines[p] \in Seq(Line) /\ lines'[p] = Append(lines[p], line)
      /\ \A q \in Job \ {p} : lines'[q] = lines[q]
  BY DEF TypeOK
<1>2. Append(lines[p], line) \in Seq(Line)
  BY <1>1, AppendFacts
<1>3. lines' \in [Job -> Seq(Line)]
  BY <1>1, <1>2 DEF TypeOK
<1>. QED BY <1>1, <1>3, AppendFacts DEF Ends

\* A line that is no verdict changes no account.
LEMMA NoiseAdds ==
  ASSUME Inv, NEW p \in Job, NEW line \in {Noise, Eof},
         lines' = [lines EXCEPT ![p] = Append(@, line)],
         UNCHANGED <<client, renders, inbox, doing>>
  PROVE  Work'
<1>1. /\ ToSet(lines'[p]) = ToSet(lines[p]) \cup {line}
      /\ \A q \in Job \ {p} : lines'[q] = lines[q]
      /\ AtMostOne(lines[p], Verdicts) => AtMostOne(lines'[p], Verdicts)
  BY AddFacts, LineKinds DEF Inv
<1>2. ASSUME NEW q \in Job, q # p PROVE WorkOK(q)'
  BY <1>2, WorkStays DEF Inv, Work, Still, client, renders
<1>3. WorkOK(p)'
  <2>1. Ends(p)' = Ends(p)
    BY <1>1, LineKinds DEF Ends
  <2>2. \A k \in Job : Result(k) \in ToSet(lines'[p]) => Result(k) \in ToSet(lines[p])
    BY <1>1, LineKinds
  <2>. QED BY <1>1, <2>1, <2>2 DEF Inv, Work, WorkOK, OneAtWork, Vacant, Cmds, client, renders
<1>. QED BY <1>2, <1>3 DEF Work

LEMMA BeginStep ==
  ASSUME Inv, parent = "up", NEW j \in Job, Begin(j)
  PROVE  Inv'
<1>1. TypeOK'
  BY DEF Inv, TypeOK, Begin, client, workers, results, main
<1>2. Thread'
  BY DEF Inv, Thread, Begin, client, results, Held, Fetched
<1>3. Stopping'
  BY DEF Inv, Stopping, Begin, workers, main
<1>4. Born'
  BY DEF Inv, Thread, Born, Begin, client, workers, results, main
<1>5. LinesAreTrue'
  BY DEF Inv, LinesAreTrue, Begin, workers, results
<1>6. Work'
  BY DEF Inv, Work, WorkOK, Vacant, Cmds, Ends, Begin, client, workers, Sent
<1>7. OneWorkerRuns'
  BY DEF Inv, OneWorkerRuns, Up, Begin, client, workers
<1>8. WorkIsPending'
  BY DEF Inv, WorkIsPending, Up, Begin, workers, results
<1>9. ResultIsOwn'
  BY DEF Inv, ResultIsOwn, Begin, results
<1>. QED BY <1>1, <1>2, <1>3, <1>4, <1>5, <1>6, <1>7, <1>8, <1>9 DEF Inv

LEMMA AcquireStep ==
  ASSUME Inv, parent = "up", Acquire
  PROVE  Inv'
<1>1. TypeOK'
  BY DEF Inv, TypeOK, Acquire, workers, results, main
<1>2. Thread'
  BY DEF Inv, Thread, Acquire, results, Held, Fetched
<1>3. Stopping'
  BY DEF Inv, Stopping, Acquire, workers, main
<1>4. Born'
  BY DEF Inv, Born, Acquire, workers, results, main
<1>5. LinesAreTrue'
  BY DEF Inv, LinesAreTrue, Acquire, workers, results
<1>6. Work'
  BY DEF Inv, Work, WorkOK, Vacant, Cmds, Ends, Acquire, workers, Sent
<1>7. OneWorkerRuns'
  BY DEF Inv, OneWorkerRuns, Up, Acquire, workers
<1>8. WorkIsPending'
  BY DEF Inv, WorkIsPending, Up, Acquire, workers, results
<1>9. ResultIsOwn'
  BY DEF Inv, ResultIsOwn, Acquire, results
<1>. QED BY <1>1, <1>2, <1>3, <1>4, <1>5, <1>6, <1>7, <1>8, <1>9 DEF Inv

LEMMA ReuseStep ==
  ASSUME Inv, parent = "up", Reuse
  PROVE  Inv'
<1>1. TypeOK'
  BY DEF Inv, TypeOK, Reuse, client, workers, results, main
<1>2. Thread'
  BY DEF Inv, Thread, Reuse, Alive, client, results, Held, Fetched
<1>3. Stopping'
  BY DEF Inv, Stopping, Reuse, workers, main
<1>4. Born'
  BY DEF Inv, Born, Reuse, client, workers, results, main
<1>5. LinesAreTrue'
  BY DEF Inv, LinesAreTrue, Reuse, workers, results
<1>6. Work'
  BY DEF Inv, Work, WorkOK, Vacant, Cmds, Ends, Reuse, client, workers, Sent
<1>7. OneWorkerRuns'
  BY DEF Inv, OneWorkerRuns, Up, Reuse, client, workers
<1>8. WorkIsPending'
  BY DEF Inv, WorkIsPending, Up, Reuse, workers, results
<1>9. ResultIsOwn'
  BY DEF Inv, ResultIsOwn, Reuse, results
<1>. QED BY <1>1, <1>2, <1>3, <1>4, <1>5, <1>6, <1>7, <1>8, <1>9 DEF Inv

LEMMA SpawnStep ==
  ASSUME Inv, parent = "up", NEW j \in Job, Spawn(j)
  PROVE  Inv'
<1>0. /\ life[j] = "none" /\ inbox[j] = <<>> /\ doing[j] = {} /\ lines[j] = <<>> /\ sproc # j
      /\ rjob = {j} /\ life \in [Job -> {"none", "up", "dying", "exited"}]
      /\ \A p \in Job : life'[p] = IF p = j THEN "up" ELSE life[p]
      /\ UNCHANGED <<inbox, doing, lines, clips, outcome, sproc, spc>> /\ rproc' = j /\ cproc' = None
      /\ rpc' = "publish"
  BY DEF Inv, TypeOK, Thread, Born, Spawn, results, main
<1>1. TypeOK'
  BY DEF Inv, TypeOK, Spawn, results, main, Proc
<1>2. Thread'
  BY NoneIsNoJob DEF Inv, Thread, Spawn, results, Held, Fetched
<1>3. Stopping'
  <2>1. sproc \in Job \cup {None}
    BY DEF Inv, TypeOK, Proc
  <2>2. sproc # None => life'[sproc] = life[sproc]
    BY <1>0, <2>1
  <2>. QED BY <1>0, <2>2 DEF Inv, Stopping
<1>4. Born'
  BY DEF Inv, TypeOK, Thread, Born, Spawn, results, main, Held
<1>5. LinesAreTrue'
  BY <1>0, NothingThere DEF Inv, LinesAreTrue
<1>6. Work'
  <2>1. Cmds(j)' = {} /\ Ends(j)' = {}
    BY <1>0, NothingThere DEF Cmds, Ends
  <2>. QED BY <1>0, <2>1, NoneIsNoJob DEF Work, WorkOK, Vacant, Sent
<1>7. OneWorkerRuns'
  BY NoneIsNoJob DEF Inv, OneWorkerRuns, Up, Spawn, Alive
<1>8. WorkIsPending'
  <2>1. \A p \in Up' : p = j \/ p \in Up
    BY <1>0 DEF Up
  <2>. QED BY <1>0, <2>1, NothingThere DEF Inv, WorkIsPending
<1>9. ResultIsOwn'
  BY DEF Inv, ResultIsOwn, Spawn, results
<1>. QED BY <1>1, <1>2, <1>3, <1>4, <1>5, <1>6, <1>7, <1>8, <1>9 DEF Inv

LEMMA SpawnFailsStep ==
  ASSUME Inv, parent = "up", NEW j \in Job, SpawnFails(j)
  PROVE  Inv'
<1>1. TypeOK'
  BY DEF Inv, TypeOK, SpawnFails, Reap, Leave, main, Proc
<1>2. Thread'
  BY DEF Thread, SpawnFails, Reap, Leave, Held
<1>3. Stopping'
  BY DEF Inv, Stopping, SpawnFails, main
<1>4. Born'
  BY DEF Inv, Thread, Born, SpawnFails, Reap, Leave, main, Held
<1>5. LinesAreTrue'
  BY DEF Inv, LinesAreTrue, SpawnFails
<1>6. Work'
  BY DEF Inv, Thread, Work, WorkOK, Vacant, Cmds, Ends, SpawnFails, Reap, Leave, Held, Sent
<1>7. OneWorkerRuns'
  BY DEF Inv, OneWorkerRuns, Up, SpawnFails, Alive, Reap
<1>8. WorkIsPending'
  <2>1. Up = {}
    BY OnlyTheClients, NoneIsNoJob DEF SpawnFails, Alive, Up
  <2>. QED BY <2>1, NoneRunning DEF SpawnFails
<1>9. ResultIsOwn'
  BY DEF Inv, ResultIsOwn, SpawnFails, Leave
<1>. QED BY <1>1, <1>2, <1>3, <1>4, <1>5, <1>6, <1>7, <1>8, <1>9 DEF Inv

LEMMA PublishStep ==
  ASSUME Inv, parent = "up", Publish
  PROVE  Inv'
<1>1. TypeOK'
  BY DEF Inv, TypeOK, Publish, workers, results, main
<1>2. Thread'
  BY DEF Inv, Thread, Publish, results, Held, Fetched
<1>3. Stopping'
  BY DEF Inv, Stopping, Publish, workers, main
<1>4. Born'
  BY DEF Inv, Born, Publish, workers, results, main
<1>5. LinesAreTrue'
  BY DEF Inv, LinesAreTrue, Publish, workers, results
<1>6. Work'
  BY DEF Inv, Work, WorkOK, Vacant, Cmds, Ends, Publish, workers, Sent
<1>7. OneWorkerRuns'
  BY NoneIsNoJob DEF Inv, Thread, OneWorkerRuns, Up, Publish, workers
<1>8. WorkIsPending'
  BY DEF Inv, WorkIsPending, Up, Publish, workers, results
<1>9. ResultIsOwn'
  BY DEF Inv, ResultIsOwn, Publish, results
<1>. QED BY <1>1, <1>2, <1>3, <1>4, <1>5, <1>6, <1>7, <1>8, <1>9 DEF Inv

LEMMA FetchStep ==
  ASSUME Inv, parent = "up", Fetch
  PROVE  Inv'
<1>1. TypeOK'
  BY DEF Inv, TypeOK, Fetch, client, workers, results, main
<1>2. Thread'
  BY DEF Inv, Thread, Fetch, client, results, Held
<1>3. Stopping'
  BY DEF Inv, Stopping, Fetch, workers, main
<1>4. Born'
  BY DEF Inv, Born, Fetch, client, workers, results, main
<1>5. LinesAreTrue'
  BY DEF Inv, LinesAreTrue, Fetch, workers, results
<1>6. Work'
  BY DEF Inv, Work, WorkOK, Vacant, Cmds, Ends, Fetch, client, workers, Sent
<1>7. OneWorkerRuns'
  BY DEF Inv, OneWorkerRuns, Up, Fetch, client, workers
<1>8. WorkIsPending'
  BY DEF Inv, WorkIsPending, Up, Fetch, workers, results
<1>9. ResultIsOwn'
  BY DEF Inv, ResultIsOwn, Fetch, results
<1>. QED BY <1>1, <1>2, <1>3, <1>4, <1>5, <1>6, <1>7, <1>8, <1>9 DEF Inv

LEMMA WriteStep ==
  ASSUME Inv, parent = "up", NEW j \in Job, Write(j)
  PROVE  Inv'
<1>0. /\ rproc \in Job /\ rjob = {j} /\ rjob' = {j} /\ rpc' = "check" /\ rproc' = rproc
      /\ cproc \in {rproc, None} /\ cproc' = cproc /\ outcome[j] = "pending"
      /\ inbox'[rproc] = Append(inbox[rproc], j)
      /\ \A p \in Job \ {rproc} : inbox'[p] = inbox[p]
      /\ UNCHANGED <<life, doing, lines, outcome>>
      /\ Vacant(rproc)
  <2>1. /\ rproc \in Job /\ rpc = "write" /\ rjob = {j} /\ cproc \in {rproc, None}
        /\ outcome[j] = "pending"
    BY DEF Write, Inv, Thread, TypeOK, Proc, Held
  <2>2. Vacant(rproc)
    BY <2>1 DEF Inv, Work, WorkOK, Sent
  <2>. QED BY <2>1, <2>2 DEF Write, Inv, TypeOK, client, results
<1>00. /\ inbox'[rproc] \in Seq(Job \cup {StopCmd})
       /\ ToSet(inbox'[rproc]) = ToSet(inbox[rproc]) \cup {j}
       /\ AtMostOne(inbox'[rproc], Job)
  <2>1. inbox[rproc] \in Seq(Job \cup {StopCmd}) /\ ToSet(inbox[rproc]) \cap Job = {}
    BY <1>0 DEF Inv, TypeOK, Vacant, Cmds
  <2>. QED BY <1>0, <2>1, AppendFacts
<1>1. TypeOK'
  <2>1. inbox' \in [Job -> Seq(Job \cup {StopCmd})]
    BY <1>00 DEF Inv, TypeOK, Write
  <2>. QED BY <2>1 DEF Inv, TypeOK, Write, client, results, main
<1>2. Thread'
  BY DEF Inv, Thread, Write, client, results, Held, Fetched
<1>3. Stopping'
  BY DEF Inv, Stopping, Write, main
<1>4. Born'
  BY DEF Inv, Born, Write, client, results, main
<1>5. LinesAreTrue'
  BY DEF Inv, LinesAreTrue, Write, results
<1>6. Work'
  <2>1. OneAtWork(rproc)'
    <3>1. AtMostOne(lines[rproc], Verdicts)
      BY <1>0, NoneIsAtMostOne DEF Vacant, Ends
    <3>2. Cmds(rproc)' = {j} /\ Ends(rproc)' = {} /\ doing'[rproc] = {}
      BY <1>0, <1>00 DEF Vacant, Cmds, Ends
    <3>3. \A k \in Job : Result(k) \notin ToSet(lines[rproc])
      BY <1>0, LineKinds DEF Vacant, Ends
    <3>. QED BY <1>0, <1>00, <3>1, <3>2, <3>3 DEF OneAtWork
  <2>. QED BY <1>0, <2>1, NoneIsNoJob DEF Work, WorkOK, Sent
<1>7. OneWorkerRuns'
  BY DEF Inv, OneWorkerRuns, Up, Write, client
<1>8. WorkIsPending'
  <2>1. \A p \in Job, k \in Job : k \in ToSet(inbox'[p]) => k = j \/ k \in ToSet(inbox[p])
    BY <1>0, <1>00
  <2>. QED BY <1>0, <2>1 DEF Inv, WorkIsPending, Up
<1>9. ResultIsOwn'
  BY DEF Inv, ResultIsOwn, Write, results
<1>. QED BY <1>1, <1>2, <1>3, <1>4, <1>5, <1>6, <1>7, <1>8, <1>9 DEF Inv

LEMMA WriteFailsStep ==
  ASSUME Inv, parent = "up", NEW j \in Job, WriteFails(j)
  PROVE  Inv'
<1>1. TypeOK'
  BY DEF Inv, TypeOK, WriteFails, Reap, Leave, main, Proc
<1>2. Thread'
  BY DEF Inv, Thread, WriteFails, Reap, Leave, Held
<1>3. Stopping'
  BY DEF Inv, Stopping, WriteFails, main
<1>4. Born'
  BY NoneIsNoJob DEF Inv, TypeOK, Born, WriteFails, Reap, Leave, main
<1>5. LinesAreTrue'
  BY DEF Inv, LinesAreTrue, WriteFails
<1>6. Work'
  BY NoneIsNoJob DEF Inv, Work, WorkOK, Vacant, Cmds, Ends, WriteFails, Reap, Leave, Sent
<1>7. OneWorkerRuns'
  BY DEF Inv, OneWorkerRuns, Up, WriteFails, Reap
<1>8. WorkIsPending'
  <2>1. Up = {}
    BY OnlyTheClients, NoneIsNoJob DEF WriteFails, Inv, Thread, Held, Up
  <2>. QED BY <2>1, NoneRunning DEF WriteFails
<1>9. ResultIsOwn'
  BY DEF Inv, ResultIsOwn, WriteFails, Leave
<1>. QED BY <1>1, <1>2, <1>3, <1>4, <1>5, <1>6, <1>7, <1>8, <1>9 DEF Inv

LEMMA WriteClosedStep ==
  ASSUME Inv, parent = "up", NEW j \in Job, WriteClosed(j)
  PROVE  Inv'
<1>1. TypeOK'
  BY DEF Inv, TypeOK, WriteClosed, Leave, workers, main, Proc
<1>2. Thread'
  BY DEF Inv, Thread, WriteClosed, Leave, Held, Fetched
<1>3. Stopping'
  BY DEF Inv, Stopping, WriteClosed, workers, main
<1>4. Born'
  BY DEF Inv, TypeOK, Thread, Born, WriteClosed, Leave, workers, main
<1>5. LinesAreTrue'
  BY DEF Inv, LinesAreTrue, WriteClosed, workers
<1>6. Work'
  BY NoneIsNoJob DEF Inv, Work, WorkOK, Vacant, Cmds, Ends, WriteClosed, Leave, workers, Sent
<1>7. OneWorkerRuns'
  BY DEF Inv, OneWorkerRuns, Up, WriteClosed, workers
<1>8. WorkIsPending'
  <2>1. Up = {}
    BY OnlyTheClients, NoneIsNoJob DEF WriteClosed, Inv, Thread, Born, Held, Up
  <2>. QED BY <2>1, NoneRunning DEF WriteClosed, workers
<1>9. ResultIsOwn'
  BY DEF Inv, ResultIsOwn, WriteClosed, Leave
<1>. QED BY <1>1, <1>2, <1>3, <1>4, <1>5, <1>6, <1>7, <1>8, <1>9 DEF Inv

LEMMA CheckStep ==
  ASSUME Inv, parent = "up", Check
  PROVE  Inv'
<1>1. TypeOK'
  BY DEF Inv, TypeOK, Check, client, workers, results, main
<1>2. Thread'
  BY DEF Inv, Thread, Check, client, results, Held, Fetched
<1>3. Stopping'
  BY DEF Inv, Stopping, Check, workers, main
<1>4. Born'
  BY DEF Inv, Born, Check, client, workers, results, main
<1>5. LinesAreTrue'
  BY DEF Inv, LinesAreTrue, Check, workers, results
<1>6. Work'
  BY DEF Inv, Work, WorkOK, OneAtWork, Cmds, Ends, Check, client, workers, Sent
<1>7. OneWorkerRuns'
  BY DEF Inv, OneWorkerRuns, Up, Check, client, workers
<1>8. WorkIsPending'
  BY DEF Inv, WorkIsPending, Up, Check, workers, results
<1>9. ResultIsOwn'
  BY DEF Inv, ResultIsOwn, Check, results
<1>. QED BY <1>1, <1>2, <1>3, <1>4, <1>5, <1>6, <1>7, <1>8, <1>9 DEF Inv

LEMMA GetNothingStep ==
  ASSUME Inv, parent = "up", GetNothing
  PROVE  Inv'
<1>1. TypeOK'
  BY DEF Inv, TypeOK, GetNothing, client, workers, results, main
<1>2. Thread'
  BY DEF Inv, Thread, GetNothing, client, results, Held, Fetched
<1>3. Stopping'
  BY DEF Inv, Stopping, GetNothing, workers, main
<1>4. Born'
  BY DEF Inv, Born, GetNothing, client, workers, results, main
<1>5. LinesAreTrue'
  BY DEF Inv, LinesAreTrue, GetNothing, workers, results
<1>6. Work'
  BY DEF Inv, Work, WorkOK, OneAtWork, Cmds, Ends, GetNothing, client, workers, Sent
<1>7. OneWorkerRuns'
  BY DEF Inv, OneWorkerRuns, Up, GetNothing, client, workers
<1>8. WorkIsPending'
  BY DEF Inv, WorkIsPending, Up, GetNothing, workers, results
<1>9. ResultIsOwn'
  BY DEF Inv, ResultIsOwn, GetNothing, results
<1>. QED BY <1>1, <1>2, <1>3, <1>4, <1>5, <1>6, <1>7, <1>8, <1>9 DEF Inv

LEMMA GetFromNoneStep ==
  ASSUME Inv, parent = "up", NEW j \in Job, GetFromNone(j)
  PROVE  Inv'
<1>1. TypeOK'
  BY DEF Inv, TypeOK, GetFromNone, Leave, workers, main
<1>2. Thread'
  BY DEF Inv, Thread, GetFromNone, Leave, Held, Fetched
<1>3. Stopping'
  BY DEF Inv, Stopping, GetFromNone, workers, main
<1>4. Born'
  BY DEF Inv, TypeOK, Thread, Born, GetFromNone, Leave, workers, main, Fetched
<1>5. LinesAreTrue'
  BY DEF Inv, LinesAreTrue, GetFromNone, workers
<1>6. Work'
  BY NoneIsNoJob DEF Inv, Thread, Work, WorkOK, GetFromNone, Leave, Fetched
<1>7. OneWorkerRuns'
  BY DEF Inv, OneWorkerRuns, Up, GetFromNone, workers
<1>8. WorkIsPending'
  <2>1. Up = {}
    BY OnlyTheClients, NoneIsNoJob DEF GetFromNone, Inv, Thread, Fetched, Up
  <2>. QED BY <2>1, NoneRunning DEF GetFromNone, workers
<1>9. ResultIsOwn'
  BY DEF Inv, ResultIsOwn, GetFromNone, Leave
<1>. QED BY <1>1, <1>2, <1>3, <1>4, <1>5, <1>6, <1>7, <1>8, <1>9 DEF Inv

LEMMA GetNoiseStep ==
  ASSUME Inv, parent = "up", GetNoise
  PROVE  Inv'
<1>0. /\ rqueue = rproc /\ rproc \in Job /\ Noise \in ToSet(lines[rproc])
      /\ cproc \in {rproc, None} /\ OneAtWork(rproc)
      /\ \A p \in Job : ToSet(lines'[p]) \subseteq ToSet(lines[p])
      /\ \A p \in Job \ {rproc} : lines'[p] = lines[p]
      /\ AtMostOne(lines'[rproc], Verdicts)
      /\ Noise \in Verdicts => ToSet(lines'[rproc]) \cap Verdicts = {}
  BY TakeFacts DEF GetNoise
<1>00. UNCHANGED <<inbox, doing, life, clips>> /\ UNCHANGED <<cproc, rproc, rjob>> /\ rpc' = "check"
       /\ rpc = "get"
  BY DEF GetNoise, Take, client, results
<1>1. TypeOK'
  BY DEF Inv, TypeOK, GetNoise, Take, client, results, main, Proc
<1>2. Thread'
  BY DEF Inv, Thread, GetNoise, Take, client, results, Held, Fetched
<1>3. Stopping'
  BY DEF Inv, Stopping, GetNoise, main
<1>4. Born'
  BY DEF Inv, Born, GetNoise, Take, client, results, main
<1>5. LinesAreTrue'
  BY <1>0, <1>00 DEF Inv, LinesAreTrue
<1>6. Work'
  <2>1. OneAtWork(rproc)'
    BY <1>0, <1>00 DEF OneAtWork, Cmds, Ends
  <2>. QED BY <1>0, <1>00, <2>1, NoneIsNoJob DEF Work, WorkOK, Sent
<1>7. OneWorkerRuns'
  BY DEF Inv, OneWorkerRuns, Up, GetNoise, Take, client
<1>8. WorkIsPending'
  BY DEF Inv, WorkIsPending, Up, GetNoise, results
<1>9. ResultIsOwn'
  BY DEF Inv, ResultIsOwn, GetNoise, results
<1>. QED BY <1>1, <1>2, <1>3, <1>4, <1>5, <1>6, <1>7, <1>8, <1>9 DEF Inv

LEMMA GetResultStep ==
  ASSUME Inv, parent = "up", NEW j \in Job, NEW k \in Job, GetResult(j, k)
  PROVE  Inv'
<1>0. /\ rqueue = rproc /\ rproc \in Job /\ Result(k) \in ToSet(lines[rproc])
      /\ cproc \in {rproc, None} /\ OneAtWork(rproc)
      /\ \A p \in Job : ToSet(lines'[p]) \subseteq ToSet(lines[p])
      /\ \A p \in Job \ {rproc} : lines'[p] = lines[p]
      /\ AtMostOne(lines'[rproc], Verdicts)
      /\ Result(k) \in Verdicts => ToSet(lines'[rproc]) \cap Verdicts = {}
  BY TakeFacts DEF GetResult
<1>00. UNCHANGED <<inbox, doing, life, clips>> /\ rpc' = "idle" /\ rproc' = None
       /\ cproc' = cproc /\ parent = "up" /\ rpc = "get" /\ rjob = {j}
  BY DEF GetResult, Take, Leave
<1>1. TypeOK'
  <2>1. lines' = [lines EXCEPT ![rproc] = Tail(@)] /\ lines[rproc] \in Seq(Line) /\ lines[rproc] # <<>>
    BY <1>0 DEF GetResult, Take, Inv, TypeOK
  <2>2. Tail(lines[rproc]) \in Seq(Line)
    BY <2>1, TailFacts
  <2>3. lines \in [Job -> Seq(Line)]
    BY DEF Inv, TypeOK
  <2>4. lines' \in [Job -> Seq(Line)]
    BY <2>1, <2>2, <2>3
  <2>5. outcome' = [outcome EXCEPT ![j] = "returned"] /\ answer' = [answer EXCEPT ![j] = {k}]
    BY DEF GetResult, Leave
  <2>6. /\ outcome' \in [Job -> {"pending", "returned", "raised", "died", "cancelled"}]
        /\ answer' \in [Job -> SUBSET Job]
    BY <2>5 DEF Inv, TypeOK
  <2>7. UNCHANGED <<cproc, cqueue, life, pipes, inbox, doing, ended, cancelled, clips, main>>
        /\ lock' = "free" /\ rpc' = "idle" /\ rjob' = {} /\ rproc' = None /\ rqueue' = None
    BY DEF GetResult, Leave
  <2>. QED BY <2>4, <2>6, <2>7 DEF Inv, TypeOK, main, Proc
<1>2. Thread'
  BY DEF Inv, Thread, GetResult, Leave, Held, Fetched
<1>3. Stopping'
  BY DEF Inv, Stopping, GetResult, main
<1>4. Born'
  BY NoneIsNoJob DEF Inv, TypeOK, Born, GetResult, Take, Leave, main
<1>5. LinesAreTrue'
  BY <1>0, <1>00 DEF Inv, LinesAreTrue
<1>6. Work'
  <2>1. ASSUME NEW w \in Job, w = rproc PROVE Vacant(w)'
    <3>1. Result(k) \in Verdicts
      BY LineKinds
    <3>2. Ends(rproc) # {}
      BY <1>0, <3>1 DEF Ends
    <3>3. /\ Cmds(rproc) # {} => doing[rproc] = {} /\ Ends(rproc) = {}
          /\ doing[rproc] # {} => Ends(rproc) = {}
      BY <1>0 DEF OneAtWork
    <3>4. Cmds(w) = {} /\ doing[w] = {}
      BY <2>1, <3>2, <3>3
    <3>5. Ends(w)' = {}
      BY <1>0, <2>1, <3>1 DEF Ends
    <3>6. Cmds(w)' = {} /\ doing'[w] = {}
      BY <1>00, <3>4 DEF Cmds
    <3>. QED BY <3>5, <3>6 DEF Vacant
  <2>2. \A p \in Job : p \in {cproc', rproc'} => p = rproc
    BY <1>0, <1>00, NoneIsNoJob
  <2>3. rpc' \notin Sent
    BY <1>00 DEF Sent
  <2>. QED BY <2>1, <2>2, <2>3 DEF Work, WorkOK
<1>7. OneWorkerRuns'
  BY DEF Inv, OneWorkerRuns, Up, GetResult, Take
<1>8. WorkIsPending'
  <2>1. ASSUME NEW p \in Up' PROVE Vacant(p)'
    <3>1. p = cproc /\ p = rproc
      BY <1>0, <1>00, OnlyTheClients, NoneIsNoJob DEF Up
    <3>. QED BY <1>0, <1>00, <3>1, <1>6 DEF Work, WorkOK, Sent
  <2>. QED BY <2>1 DEF WorkIsPending, Vacant, Cmds
<1>9. ResultIsOwn'
  <2>1. k = j /\ k \in clips
    BY <1>0, <1>00 DEF OneAtWork, Inv, LinesAreTrue
  <2>. QED BY <1>00, <2>1 DEF GetResult, Leave, Inv, TypeOK, ResultIsOwn
<1>. QED BY <1>1, <1>2, <1>3, <1>4, <1>5, <1>6, <1>7, <1>8, <1>9 DEF Inv

LEMMA GetErrorStep ==
  ASSUME Inv, parent = "up", NEW j \in Job, GetError(j)
  PROVE  Inv'
<1>0. /\ rqueue = rproc /\ rproc \in Job /\ Error \in ToSet(lines[rproc])
      /\ cproc \in {rproc, None} /\ OneAtWork(rproc)
      /\ \A p \in Job : ToSet(lines'[p]) \subseteq ToSet(lines[p])
      /\ \A p \in Job \ {rproc} : lines'[p] = lines[p]
      /\ AtMostOne(lines'[rproc], Verdicts)
      /\ Error \in Verdicts => ToSet(lines'[rproc]) \cap Verdicts = {}
  BY TakeFacts DEF GetError
<1>00. UNCHANGED <<inbox, doing, life, clips>> /\ rpc' = "idle" /\ rproc' = None
       /\ cproc' = cproc /\ parent = "up" /\ rpc = "get"
  BY DEF GetError, Take, Leave
<1>1. TypeOK'
  BY DEF Inv, TypeOK, GetError, Take, Leave, main, Proc
<1>2. Thread'
  BY DEF Inv, Thread, GetError, Leave, Held, Fetched
<1>3. Stopping'
  BY DEF Inv, Stopping, GetError, main
<1>4. Born'
  BY NoneIsNoJob DEF Inv, TypeOK, Born, GetError, Take, Leave, main
<1>5. LinesAreTrue'
  BY <1>0, <1>00 DEF Inv, LinesAreTrue
<1>6. Work'
  <2>1. ASSUME NEW w \in Job, w = rproc PROVE Vacant(w)'
    <3>1. Error \in Verdicts
      BY LineKinds
    <3>2. Ends(rproc) # {}
      BY <1>0, <3>1 DEF Ends
    <3>3. /\ Cmds(rproc) # {} => doing[rproc] = {} /\ Ends(rproc) = {}
          /\ doing[rproc] # {} => Ends(rproc) = {}
      BY <1>0 DEF OneAtWork
    <3>4. Cmds(w) = {} /\ doing[w] = {}
      BY <2>1, <3>2, <3>3
    <3>5. Ends(w)' = {}
      BY <1>0, <2>1, <3>1 DEF Ends
    <3>6. Cmds(w)' = {} /\ doing'[w] = {}
      BY <1>00, <3>4 DEF Cmds
    <3>. QED BY <3>5, <3>6 DEF Vacant
  <2>2. \A p \in Job : p \in {cproc', rproc'} => p = rproc
    BY <1>0, <1>00, NoneIsNoJob
  <2>3. rpc' \notin Sent
    BY <1>00 DEF Sent
  <2>. QED BY <2>1, <2>2, <2>3 DEF Work, WorkOK
<1>7. OneWorkerRuns'
  BY DEF Inv, OneWorkerRuns, Up, GetError, Take
<1>8. WorkIsPending'
  <2>1. ASSUME NEW p \in Up' PROVE Vacant(p)'
    <3>1. p = cproc /\ p = rproc
      BY <1>0, <1>00, OnlyTheClients, NoneIsNoJob DEF Up
    <3>. QED BY <1>0, <1>00, <3>1, <1>6 DEF Work, WorkOK, Sent
  <2>. QED BY <2>1 DEF WorkIsPending, Vacant, Cmds
<1>9. ResultIsOwn'
  BY DEF Inv, ResultIsOwn, GetError, Leave
<1>. QED BY <1>1, <1>2, <1>3, <1>4, <1>5, <1>6, <1>7, <1>8, <1>9 DEF Inv

LEMMA GetEofStep ==
  ASSUME Inv, parent = "up", NEW j \in Job, GetEof(j)
  PROVE  Inv'
<1>0. /\ rqueue = rproc /\ rproc \in Job /\ Eof \in ToSet(lines[rproc])
      /\ cproc \in {rproc, None} /\ OneAtWork(rproc)
      /\ \A p \in Job : ToSet(lines'[p]) \subseteq ToSet(lines[p])
      /\ \A p \in Job \ {rproc} : lines'[p] = lines[p]
      /\ AtMostOne(lines'[rproc], Verdicts)
      /\ Eof \in Verdicts => ToSet(lines'[rproc]) \cap Verdicts = {}
  BY TakeFacts DEF GetEof
<1>00. UNCHANGED <<inbox, doing, life, clips>> /\ parent = "up" /\ rpc = "get"
  BY DEF GetEof, Take, Leave
<1>1. TypeOK'
  BY NothingThere DEF Inv, TypeOK, GetEof, Take, Reap, Leave, main, Proc
<1>2. Thread'
  BY DEF Inv, Thread, GetEof, Take, Reap, Leave, Held
<1>3. Stopping'
  BY DEF Inv, Stopping, GetEof, main
<1>4. Born'
  BY NoneIsNoJob DEF Inv, TypeOK, Born, GetEof, Take, Reap, Leave, main
<1>5. LinesAreTrue'
  BY <1>0, <1>00 DEF Inv, LinesAreTrue
<1>6. Work'
  BY NoneIsNoJob DEF Inv, Thread, Work, WorkOK, GetEof, Take, Reap, Leave, Fetched
<1>7. OneWorkerRuns'
  <2>1. Up' = {}
    BY <1>0, <1>00, OnlyTheClients, NoneIsNoJob DEF Inv, LinesAreTrue, Up
  <2>. QED BY <2>1 DEF OneWorkerRuns
<1>8. WorkIsPending'
  <2>1. Up = {}
    BY OnlyTheClients, NoneIsNoJob, <1>0 DEF GetEof, Take, Inv, LinesAreTrue, Up
  <2>. QED BY <2>1, NoneRunning DEF GetEof
<1>9. ResultIsOwn'
  BY DEF Inv, ResultIsOwn, GetEof, Leave
<1>. QED BY <1>1, <1>2, <1>3, <1>4, <1>5, <1>6, <1>7, <1>8, <1>9 DEF Inv

LEMMA TerminateStep ==
  ASSUME Inv, parent = "up", Terminate
  PROVE  Inv'
<1>1. TypeOK'
  BY DEF Inv, TypeOK, Terminate, Signal, client, results, main
<1>2. Thread'
  BY DEF Inv, Thread, Terminate, client, results, Held, Fetched
<1>3. Stopping'
  BY DEF Inv, Stopping, Terminate, Signal, main
<1>4. Born'
  BY DEF Inv, Born, Terminate, Signal, client, results, main
<1>5. LinesAreTrue'
  BY DEF Inv, LinesAreTrue, Terminate, Signal, results
<1>6. Work'
  BY DEF Inv, Work, WorkOK, OneAtWork, Cmds, Ends, Terminate, client, Sent
<1>7. OneWorkerRuns'
  BY DEF Inv, OneWorkerRuns, Up, Terminate, Signal, client
<1>8. WorkIsPending'
  BY DEF Inv, WorkIsPending, Up, Terminate, Signal, results
<1>9. ResultIsOwn'
  BY DEF Inv, ResultIsOwn, Terminate, results
<1>. QED BY <1>1, <1>2, <1>3, <1>4, <1>5, <1>6, <1>7, <1>8, <1>9 DEF Inv

LEMMA AbandonStep ==
  ASSUME Inv, parent = "up", NEW j \in Job, Abandon(j)
  PROVE  Inv'
<1>1. TypeOK'
  BY DEF Inv, TypeOK, Abandon, Reap, Leave, main, Proc
<1>2. Thread'
  BY DEF Inv, Thread, Abandon, Reap, Leave, Held
<1>3. Stopping'
  BY DEF Inv, Stopping, Abandon, main
<1>4. Born'
  BY NoneIsNoJob DEF Inv, TypeOK, Born, Abandon, Reap, Leave, main
<1>5. LinesAreTrue'
  BY DEF Inv, LinesAreTrue, Abandon
<1>6. Work'
  BY NoneIsNoJob DEF Inv, Thread, Work, WorkOK, Abandon, Reap, Leave, Fetched
<1>7. OneWorkerRuns'
  BY DEF Inv, OneWorkerRuns, Up, Abandon, Reap
<1>8. WorkIsPending'
  <2>1. Up = {}
    BY OnlyTheClients, NoneIsNoJob DEF Abandon, Inv, Thread, Held, Up
  <2>. QED BY <2>1, NoneRunning DEF Abandon
<1>9. ResultIsOwn'
  BY DEF Inv, ResultIsOwn, Abandon, Leave
<1>. QED BY <1>1, <1>2, <1>3, <1>4, <1>5, <1>6, <1>7, <1>8, <1>9 DEF Inv

LEMMA CancelStep ==
  ASSUME Inv, parent = "up", NEW j \in Job, Cancel(j)
  PROVE  Inv'
<1>1. TypeOK'
  BY DEF Inv, TypeOK, Cancel, client, renders, workers, main
<1>2. Thread'
  BY DEF Inv, Thread, Cancel, client, renders
<1>3. Stopping'
  BY DEF Inv, Stopping, Cancel, workers, main
<1>4. Born'
  BY DEF Inv, Born, Cancel, client, renders, workers, main
<1>5. LinesAreTrue'
  BY DEF Inv, LinesAreTrue, Cancel, workers
<1>6. Work'
  BY DEF Inv, Work, WorkOK, OneAtWork, Vacant, Cmds, Ends, Cancel, client, renders, workers
<1>7. OneWorkerRuns'
  BY DEF Inv, OneWorkerRuns, Up, Cancel, client, renders, workers
<1>8. WorkIsPending'
  BY DEF Inv, WorkIsPending, Up, Cancel, workers
<1>9. ResultIsOwn'
  BY DEF Inv, ResultIsOwn, Cancel
<1>. QED BY <1>1, <1>2, <1>3, <1>4, <1>5, <1>6, <1>7, <1>8, <1>9 DEF Inv

LEMMA StopBeginStep ==
  ASSUME Inv, parent = "up", StopBegin
  PROVE  Inv'
<1>1. TypeOK'
  BY DEF Inv, TypeOK, StopBegin, client, renders, workers, results
<1>2. Thread'
  BY DEF Inv, Thread, StopBegin, client, renders, results
<1>3. Stopping'
  BY DEF Stopping, StopBegin
<1>4. Born'
  BY DEF Inv, Thread, Born, StopBegin, client, renders, workers, results, Held
<1>5. LinesAreTrue'
  BY DEF Inv, LinesAreTrue, StopBegin, workers, results
<1>6. Work'
  BY DEF Inv, Work, WorkOK, OneAtWork, Vacant, Cmds, Ends, StopBegin, client, renders, workers
<1>7. OneWorkerRuns'
  BY DEF Inv, OneWorkerRuns, Up, StopBegin, client, renders, workers
<1>8. WorkIsPending'
  BY DEF Inv, WorkIsPending, Up, StopBegin, workers, results
<1>9. ResultIsOwn'
  BY DEF Inv, ResultIsOwn, StopBegin, results
<1>. QED BY <1>1, <1>2, <1>3, <1>4, <1>5, <1>6, <1>7, <1>8, <1>9 DEF Inv

LEMMA StopLockStep ==
  ASSUME Inv, parent = "up", StopLock
  PROVE  Inv'
<1>1. TypeOK'
  BY DEF Inv, TypeOK, StopLock, renders, workers, results
<1>2. Thread'
  BY DEF Inv, Thread, StopLock, renders, results
<1>3. Stopping'
  BY DEF Inv, Stopping, StopLock
<1>4. Born'
  BY DEF Inv, Born, StopLock, renders, workers, results
<1>5. LinesAreTrue'
  BY DEF Inv, LinesAreTrue, StopLock, workers, results
<1>6. Work'
  BY DEF Inv, Work, WorkOK, OneAtWork, Vacant, Cmds, Ends, StopLock, renders, workers
<1>7. OneWorkerRuns'
  BY DEF Inv, OneWorkerRuns, Up, StopLock, renders, workers
<1>8. WorkIsPending'
  BY DEF Inv, WorkIsPending, Up, StopLock, workers, results
<1>9. ResultIsOwn'
  BY DEF Inv, ResultIsOwn, StopLock, results
<1>. QED BY <1>1, <1>2, <1>3, <1>4, <1>5, <1>6, <1>7, <1>8, <1>9 DEF Inv

LEMMA StopAskStep ==
  ASSUME Inv, parent = "up", StopAsk
  PROVE  Inv'
<1>0. /\ UNCHANGED <<cproc, rproc, rpc, rjob, life, doing, lines, outcome>>
      /\ \A p \in Job : inbox'[p] = inbox[p] \/ inbox'[p] = Append(inbox[p], StopCmd)
  BY DEF StopAsk, client, renders, results
<1>00. ASSUME NEW p \in Job
       PROVE  /\ inbox'[p] \in Seq(Job \cup {StopCmd})
              /\ ToSet(inbox'[p]) \cap Job = ToSet(inbox[p]) \cap Job
              /\ AtMostOne(inbox[p], Job) => AtMostOne(inbox'[p], Job)
  <2>1. inbox[p] \in Seq(Job \cup {StopCmd})
    BY DEF Inv, TypeOK
  <2>2. /\ Append(inbox[p], StopCmd) \in Seq(Job \cup {StopCmd})
        /\ ToSet(Append(inbox[p], StopCmd)) = ToSet(inbox[p]) \cup {StopCmd}
        /\ AtMostOne(inbox[p], Job) => AtMostOne(Append(inbox[p], StopCmd), Job)
    BY <2>1, AppendFacts, StopIsNoJob
  <2>. QED BY <1>0, <2>1, <2>2, StopIsNoJob
<1>1. TypeOK'
  <2>1. inbox' \in [Job -> Seq(Job \cup {StopCmd})]
    BY <1>00 DEF StopAsk, Inv, TypeOK
  <2>. QED BY <2>1 DEF StopAsk, Inv, TypeOK, client, renders, results
<1>2. Thread'
  BY DEF Inv, Thread, StopAsk, client, renders, results
<1>3. Stopping'
  BY DEF Inv, Stopping, StopAsk
<1>4. Born'
  BY DEF Inv, Born, StopAsk, client, renders, results
<1>5. LinesAreTrue'
  BY DEF Inv, LinesAreTrue, StopAsk, results
<1>6. Work'
  BY <1>0, <1>00 DEF Inv, Work, WorkOK, OneAtWork, Vacant, Cmds, Ends
<1>7. OneWorkerRuns'
  BY DEF Inv, OneWorkerRuns, Up, StopAsk, client, renders
<1>8. WorkIsPending'
  BY <1>0, <1>00 DEF Inv, WorkIsPending, Up
<1>9. ResultIsOwn'
  BY DEF Inv, ResultIsOwn, StopAsk, results
<1>. QED BY <1>1, <1>2, <1>3, <1>4, <1>5, <1>6, <1>7, <1>8, <1>9 DEF Inv

LEMMA StopTerminateStep ==
  ASSUME Inv, parent = "up", StopTerminate
  PROVE  Inv'
<1>1. TypeOK'
  BY DEF Inv, TypeOK, StopTerminate, Signal, client, renders, results
<1>2. Thread'
  BY DEF Inv, Thread, StopTerminate, client, renders, results
<1>3. Stopping'
  BY DEF Inv, Stopping, StopTerminate
<1>4. Born'
  BY DEF Inv, Born, StopTerminate, Signal, client, renders, results
<1>5. LinesAreTrue'
  BY DEF Inv, LinesAreTrue, StopTerminate, Signal, results
<1>6. Work'
  BY DEF Inv, Work, WorkOK, OneAtWork, Vacant, Cmds, Ends, StopTerminate, client, renders
<1>7. OneWorkerRuns'
  BY DEF Inv, OneWorkerRuns, Up, StopTerminate, Signal, client, renders
<1>8. WorkIsPending'
  BY DEF Inv, WorkIsPending, Up, StopTerminate, Signal, results
<1>9. ResultIsOwn'
  BY DEF Inv, ResultIsOwn, StopTerminate, results
<1>. QED BY <1>1, <1>2, <1>3, <1>4, <1>5, <1>6, <1>7, <1>8, <1>9 DEF Inv

LEMMA StopConfirmStep ==
  ASSUME Inv, parent = "up", StopConfirm
  PROVE  Inv'
<1>1. TypeOK'
  BY DEF Inv, TypeOK, StopConfirm, renders, workers, results
<1>2. Thread'
  BY DEF Inv, Thread, StopConfirm, renders, results
<1>3. Stopping'
  BY DEF Inv, Stopping, StopConfirm, workers
<1>4. Born'
  BY DEF Inv, Born, StopConfirm, renders, workers, results
<1>5. LinesAreTrue'
  BY DEF Inv, LinesAreTrue, StopConfirm, workers, results
<1>6. Work'
  BY DEF Inv, Work, WorkOK, OneAtWork, Vacant, Cmds, Ends, StopConfirm, renders, workers
<1>7. OneWorkerRuns'
  BY DEF Inv, OneWorkerRuns, Up, StopConfirm, renders, workers
<1>8. WorkIsPending'
  BY DEF Inv, WorkIsPending, Up, StopConfirm, workers, results
<1>9. ResultIsOwn'
  BY DEF Inv, ResultIsOwn, StopConfirm, results
<1>. QED BY <1>1, <1>2, <1>3, <1>4, <1>5, <1>6, <1>7, <1>8, <1>9 DEF Inv

LEMMA StopReapStep ==
  ASSUME Inv, parent = "up", StopReap
  PROVE  Inv'
<1>1. TypeOK'
  BY DEF Inv, TypeOK, StopReap, Reap, renders, results, Proc
<1>2. Thread'
  BY DEF Inv, Thread, StopReap, Reap, renders, results
<1>3. Stopping'
  BY DEF Inv, Stopping, StopReap
<1>4. Born'
  BY NoneIsNoJob DEF Inv, Born, StopReap, Reap, renders, results
<1>5. LinesAreTrue'
  BY DEF Inv, LinesAreTrue, StopReap, results
<1>6. Work'
  <2>1. /\ cproc' \in {cproc, None} /\ UNCHANGED <<rproc, rpc, rjob>> /\ \A p \in Job : Still(p)
    BY DEF StopReap, Reap, renders, Still
  <2>. QED BY <2>1, WorkStays, NoneIsNoJob DEF Inv, Work
<1>7. OneWorkerRuns'
  <2>1. /\ cproc' = IF sproc = cproc THEN None ELSE cproc
        /\ UNCHANGED <<rproc, rpc, parent, life>> /\ sproc # None /\ life[sproc] # "up"
    BY DEF StopReap, Reap, renders, Inv, Stopping
  <2>. QED BY <2>1 DEF Inv, OneWorkerRuns, Up
<1>8. WorkIsPending'
  BY DEF Inv, WorkIsPending, Up, StopReap, results
<1>9. ResultIsOwn'
  BY DEF Inv, ResultIsOwn, StopReap, results
<1>. QED BY <1>1, <1>2, <1>3, <1>4, <1>5, <1>6, <1>7, <1>8, <1>9 DEF Inv

LEMMA SignalAgainStep ==
  ASSUME Inv, parent = "up", SignalAgain
  PROVE  Inv'
<1>1. TypeOK'
  BY DEF Inv, TypeOK, SignalAgain, renders, workers, results, Proc
<1>2. Thread'
  BY DEF Inv, Thread, SignalAgain, renders, results
<1>3. Stopping'
  BY DEF Stopping, SignalAgain
<1>4. Born'
  BY NoneIsNoJob DEF Inv, Thread, Born, SignalAgain, renders, workers, results, Held
<1>5. LinesAreTrue'
  BY DEF Inv, LinesAreTrue, SignalAgain, workers, results
<1>6. Work'
  BY DEF Inv, Work, WorkOK, OneAtWork, Vacant, Cmds, Ends, SignalAgain, renders, workers
<1>7. OneWorkerRuns'
  BY DEF Inv, OneWorkerRuns, Up, SignalAgain, renders, workers
<1>8. WorkIsPending'
  BY DEF Inv, WorkIsPending, Up, SignalAgain, workers, results
<1>9. ResultIsOwn'
  BY DEF Inv, ResultIsOwn, SignalAgain, results
<1>. QED BY <1>1, <1>2, <1>3, <1>4, <1>5, <1>6, <1>7, <1>8, <1>9 DEF Inv

LEMMA ExitStep ==
  ASSUME Inv, parent = "up", Exit
  PROVE  Inv'
<1>1. TypeOK'
  BY NoneIsNoJob, StopIsNoJob DEF Inv, TypeOK, Exit, results, Proc
<1>2. Thread'
  BY DEF Inv, Thread, Exit, results, Held
<1>3. Stopping'
  BY DEF Stopping, Exit
<1>4. Born'
  BY NoneIsNoJob DEF Inv, Born, Exit, results
<1>5. LinesAreTrue'
  BY NothingThere DEF LinesAreTrue, Exit
<1>6. Work'
  BY NoneIsNoJob DEF Work, WorkOK, Exit
<1>7. OneWorkerRuns'
  BY DEF Inv, OneWorkerRuns, Up, Exit
<1>8. WorkIsPending'
  BY DEF Inv, WorkIsPending, Up, Exit, results
<1>9. ResultIsOwn'
  BY DEF Inv, ResultIsOwn, Exit, results
<1>. QED BY <1>1, <1>2, <1>3, <1>4, <1>5, <1>6, <1>7, <1>8, <1>9 DEF Inv

LEMMA WorkerReadsStep ==
  ASSUME Inv, NEW p \in Job, WorkerReads(p)
  PROVE  Inv'
<1>. DEFINE cmd == Head(inbox[p])
<1>0. /\ UNCHANGED <<cproc, rproc, rpc, rjob, parent, lines, outcome, clips>>
      /\ inbox'[p] = Tail(inbox[p]) /\ \A q \in Job \ {p} : inbox'[q] = inbox[q]
      /\ inbox[p] \in Seq(Job \cup {StopCmd}) /\ inbox[p] # <<>> /\ doing[p] = {}
      /\ doing \in [Job -> SUBSET Job] /\ life[p] = "up"
      /\ life \in [Job -> {"none", "up", "dying", "exited"}]
  BY DEF WorkerReads, client, renders, results, main, Inv, TypeOK
<1>00. /\ Tail(inbox[p]) \in Seq(Job \cup {StopCmd}) /\ cmd \in Job \cup {StopCmd}
       /\ cmd \in ToSet(inbox[p]) /\ ToSet(inbox'[p]) \subseteq ToSet(inbox[p])
       /\ AtMostOne(inbox[p], Job) => AtMostOne(inbox'[p], Job)
       /\ AtMostOne(inbox[p], Job) /\ cmd \in Job => ToSet(inbox'[p]) \cap Job = {}
  BY <1>0, TailFacts
<1>000. /\ cmd = StopCmd => life' = [life EXCEPT ![p] = "dying"] /\ doing' = doing
        /\ cmd # StopCmd => doing' = [doing EXCEPT ![p] = {cmd}] /\ life' = life /\ cmd \in Job
  BY <1>00 DEF WorkerReads
<1>. HIDE DEF cmd
<1>0000. /\ \A q \in Job \ {p} : doing'[q] = doing[q] /\ life'[q] = life[q]
         /\ cmd = StopCmd => life'[p] = "dying" /\ doing'[p] = {}
         /\ cmd # StopCmd => life'[p] = "up" /\ doing'[p] = {cmd} /\ cmd \in Job
  BY <1>0, <1>000
<1>1. TypeOK'
  <2>1. inbox' \in [Job -> Seq(Job \cup {StopCmd})]
    BY <1>00 DEF WorkerReads, Inv, TypeOK
  <2>2. doing' \in [Job -> SUBSET Job] /\ life' \in [Job -> {"none", "up", "dying", "exited"}]
    BY <1>0, <1>000
  <2>. QED BY <2>2 DEF WorkerReads, Inv, TypeOK, client, renders, results, main
<1>2. Thread'
  BY DEF Inv, Thread, WorkerReads, client, renders, results, main
<1>3. Stopping'
  BY DEF Inv, TypeOK, Stopping, WorkerReads, main, Proc
<1>4. Born'
  BY DEF Inv, TypeOK, Born, WorkerReads, client, renders, results, main
<1>5. LinesAreTrue'
  BY DEF Inv, TypeOK, LinesAreTrue, WorkerReads, results
<1>6. Work'
  <2>1. ASSUME NEW q \in Job, q # p PROVE WorkOK(q)'
    BY <1>0, <1>0000, <2>1, WorkStays DEF Inv, Work, Still
  <2>2. ASSUME p \in {cproc, rproc}, rpc \in Sent PROVE OneAtWork(p)'
    <3>1. OneAtWork(p)
      BY <2>2 DEF Inv, Work, WorkOK
    <3>2. CASE cmd = StopCmd
      BY <1>0, <1>00, <1>0000, <3>1 DEF OneAtWork, Cmds, Ends
    <3>3. CASE cmd # StopCmd
      <4>1. cmd \in Cmds(p) /\ Ends(p) = {} /\ cmd \in rjob
        BY <1>00, <1>0000, <3>1, <3>3 DEF OneAtWork, Cmds
      <4>2. Cmds(p)' = {} /\ Ends(p)' = {} /\ doing'[p] \subseteq rjob
        BY <1>0, <1>00, <1>0000, <3>1, <4>1 DEF OneAtWork, Cmds, Ends
      <4>. QED BY <1>0, <1>00, <3>1, <4>2 DEF OneAtWork
    <3>. QED BY <3>2, <3>3
  <2>3. ASSUME p \in {cproc, rproc}, rpc \notin Sent PROVE Vacant(p)'
    <3>1. Vacant(p)
      BY <2>3 DEF Inv, Work, WorkOK
    <3>2. cmd = StopCmd
      BY <1>00, <3>1 DEF Vacant, Cmds
    <3>. QED BY <1>0, <1>00, <1>0000, <3>1 DEF Vacant, Cmds, Ends
  <2>. QED BY <1>0, <2>1, <2>2, <2>3 DEF Work, WorkOK
<1>7. OneWorkerRuns'
  BY <1>0, <1>0000, UpShrinks DEF Inv
<1>8. WorkIsPending'
  <2>1. \A q \in Up' : q \in Up
    BY <1>0, <1>0000 DEF Up
  <2>2. \A q \in Job, k \in Job : k \in doing'[q] \/ k \in ToSet(inbox'[q]) =>
                                  k \in doing[q] \/ k \in ToSet(inbox[q])
    BY <1>0, <1>00, <1>0000
  <2>. QED BY <1>0, <2>1, <2>2 DEF Inv, WorkIsPending, Up
<1>9. ResultIsOwn'
  BY DEF Inv, ResultIsOwn, WorkerReads, results
<1>. QED BY <1>1, <1>2, <1>3, <1>4, <1>5, <1>6, <1>7, <1>8, <1>9 DEF Inv

LEMMA WorkerSeesEofStep ==
  ASSUME Inv, NEW p \in Job, WorkerSeesEof(p)
  PROVE  Inv'
<1>1. TypeOK'
  BY DEF Inv, TypeOK, WorkerSeesEof, client, renders, results, main
<1>2. Thread'
  BY DEF Inv, Thread, WorkerSeesEof, client, renders, results, main
<1>3. Stopping'
  BY DEF Inv, Stopping, WorkerSeesEof, main
<1>4. Born'
  BY DEF Inv, Born, WorkerSeesEof, client, renders, results, main
<1>5. LinesAreTrue'
  BY DEF Inv, LinesAreTrue, WorkerSeesEof, results
<1>6. Work'
  BY DEF Inv, Work, WorkOK, OneAtWork, Vacant, Cmds, Ends, WorkerSeesEof, client, renders
<1>7. OneWorkerRuns'
  BY DEF Inv, OneWorkerRuns, Up, WorkerSeesEof, client, renders, main
<1>8. WorkIsPending'
  BY DEF Inv, WorkIsPending, Up, WorkerSeesEof, results
<1>9. ResultIsOwn'
  BY DEF Inv, ResultIsOwn, WorkerSeesEof, results
<1>. QED BY <1>1, <1>2, <1>3, <1>4, <1>5, <1>6, <1>7, <1>8, <1>9 DEF Inv

LEMMA WorkerChatsStep ==
  ASSUME Inv, NEW p \in Job, WorkerChats(p)
  PROVE  Inv'
<1>1. TypeOK'
  <2>1. lines' \in [Job -> Seq(Line)]
    BY AddFacts, LineKinds DEF WorkerChats, Inv
  <2>. QED BY <2>1 DEF WorkerChats, Inv, TypeOK, client, renders, results, main
<1>2. Thread'
  BY DEF Inv, Thread, WorkerChats, client, renders, results, main
<1>3. Stopping'
  BY DEF Inv, Stopping, WorkerChats, main
<1>4. Born'
  BY DEF Inv, Born, WorkerChats, client, renders, results, main
<1>5. LinesAreTrue'
  <2>1. /\ ToSet(lines'[p]) = ToSet(lines[p]) \cup {Noise}
        /\ \A q \in Job \ {p} : lines'[q] = lines[q]
    BY AddFacts, LineKinds DEF WorkerChats, Inv
  <2>. QED BY <2>1, LineKinds DEF WorkerChats, Inv, LinesAreTrue, results
<1>6. Work'
  BY NoiseAdds DEF WorkerChats
<1>7. OneWorkerRuns'
  BY DEF Inv, OneWorkerRuns, Up, WorkerChats, client, renders, main
<1>8. WorkIsPending'
  BY DEF Inv, WorkIsPending, Up, WorkerChats, results
<1>9. ResultIsOwn'
  BY DEF Inv, ResultIsOwn, WorkerChats, results
<1>. QED BY <1>1, <1>2, <1>3, <1>4, <1>5, <1>6, <1>7, <1>8, <1>9 DEF Inv

LEMMA WorkerUploadsStep ==
  ASSUME Inv, NEW p \in Job, WorkerUploads(p)
  PROVE  Inv'
<1>1. TypeOK'
  <2>1. doing[p] \subseteq Job /\ clips \subseteq Job /\ clips' = clips \cup doing[p]
    BY DEF WorkerUploads, Inv, TypeOK
  <2>2. clips' \subseteq Job
    BY <2>1
  <2>. QED BY DEF WorkerUploads, Inv, TypeOK, client, renders, workers, main
<1>2. Thread'
  BY DEF Inv, Thread, WorkerUploads, client, renders, main
<1>3. Stopping'
  BY DEF Inv, Stopping, WorkerUploads, workers, main
<1>4. Born'
  BY DEF Inv, Born, WorkerUploads, client, renders, workers, main
<1>5. LinesAreTrue'
  BY DEF Inv, LinesAreTrue, WorkerUploads, workers
<1>6. Work'
  BY DEF Inv, Work, WorkOK, OneAtWork, Vacant, Cmds, Ends, WorkerUploads, client, renders, workers
<1>7. OneWorkerRuns'
  BY DEF Inv, OneWorkerRuns, Up, WorkerUploads, client, renders, workers, main
<1>8. WorkIsPending'
  BY DEF Inv, WorkIsPending, Up, WorkerUploads, workers
<1>9. ResultIsOwn'
  BY DEF Inv, ResultIsOwn, WorkerUploads
<1>. QED BY <1>1, <1>2, <1>3, <1>4, <1>5, <1>6, <1>7, <1>8, <1>9 DEF Inv

LEMMA WorkerResultsStep ==
  ASSUME Inv, NEW p \in Job, NEW j \in Job, WorkerResults(p, j)
  PROVE  Inv'
<1>0. /\ UNCHANGED <<cproc, rproc, rpc, rjob, parent, inbox, outcome, clips>>
      /\ life[p] = "up" /\ doing[p] # {} /\ doing[p] = {j} /\ j \in clips
      /\ doing'[p] = {} /\ \A q \in Job \ {p} : doing'[q] = doing[q]
      /\ doing' \in [Job -> SUBSET Job]
  BY DEF WorkerResults, client, renders, results, main, Inv, TypeOK
<1>00. \/ lines' = [lines EXCEPT ![p] = Append(@, Result(j))] /\ life' = life
       \/ lines' = lines /\ life' = [life EXCEPT ![p] = "dying"]
  BY DEF WorkerResults, Emit
<1>000. /\ lines' \in [Job -> Seq(Line)] /\ life' \in [Job -> {"none", "up", "dying", "exited"}]
        /\ ToSet(lines'[p]) \subseteq ToSet(lines[p]) \cup {Result(j)}
        /\ \A q \in Job \ {p} : lines'[q] = lines[q]
        /\ Ends(p) = {} => AtMostOne(lines'[p], Verdicts)
        /\ \A q \in Job : life'[q] = life[q] \/ (life[q] = "up" /\ life'[q] = "dying")
  <2>1. CASE lines' = [lines EXCEPT ![p] = Append(@, Result(j))] /\ life' = life
    <3>1. Result(j) \in Line /\ TypeOK
      BY LineKinds DEF Inv
    <3>2. /\ lines' \in [Job -> Seq(Line)]
          /\ ToSet(lines'[p]) = ToSet(lines[p]) \cup {Result(j)}
          /\ \A q \in Job \ {p} : lines'[q] = lines[q]
          /\ Ends(p) = {} => AtMostOne(lines'[p], Verdicts)
      BY <2>1, <3>1, AddFacts
    <3>. QED BY <2>1, <3>2 DEF Inv, TypeOK
  <2>2. CASE lines' = lines /\ life' = [life EXCEPT ![p] = "dying"]
    BY <1>0, <2>2, NoneIsAtMostOne DEF Inv, TypeOK, Ends
  <2>. QED BY <1>00, <2>1, <2>2
<1>1. TypeOK'
  BY <1>000 DEF WorkerResults, Inv, TypeOK, client, renders, results, main
<1>2. Thread'
  BY DEF Inv, Thread, WorkerResults, client, renders, results, main
<1>3. Stopping'
  BY DEF Inv, TypeOK, Stopping, WorkerResults, Emit, main, Proc
<1>4. Born'
  BY DEF Inv, TypeOK, Born, WorkerResults, Emit, client, renders, results, main
<1>5. LinesAreTrue'
  <2>1. \A q \in Job : ToSet(lines'[q]) \subseteq ToSet(lines[q]) \cup {Result(j)}
    BY <1>000
  <2>2. \A q \in Job : life'[q] = "up" => life[q] = "up"
    BY <1>000
  <2>3. ASSUME NEW q \in Job, Eof \in ToSet(lines'[q]) PROVE life'[q] # "up"
    <3>1. Eof \in ToSet(lines[q])
      BY <2>1, <2>3, LineKinds
    <3>. QED BY <2>2, <3>1 DEF Inv, LinesAreTrue
  <2>4. ASSUME NEW q \in Job, NEW k \in Job, Result(k) \in ToSet(lines'[q]) PROVE k \in clips'
    <3>1. Result(k) \in ToSet(lines[q]) \/ Result(k) = Result(j)
      BY <2>1, <2>4
    <3>2. CASE Result(k) \in ToSet(lines[q])
      BY <1>0, <3>2 DEF Inv, LinesAreTrue
    <3>3. CASE Result(k) = Result(j)
      BY <1>0, <3>3, LineKinds
    <3>. QED BY <3>1, <3>2, <3>3
  <2>. QED BY <2>3, <2>4 DEF LinesAreTrue
<1>6. Work'
  <2>1. ASSUME NEW q \in Job, q # p PROVE WorkOK(q)'
    BY <1>0, <1>000, <2>1, WorkStays DEF Inv, Work, Still
  <2>2. ASSUME p \in {cproc, rproc} PROVE rpc \in Sent /\ OneAtWork(p)
    BY <1>0, <2>2 DEF Inv, Work, WorkOK, Vacant
  <2>3. ASSUME p \in {cproc, rproc} PROVE OneAtWork(p)'
    <3>1. Ends(p) = {} /\ Cmds(p) = {} /\ OneAtWork(p)
      BY <1>0, <2>2, <2>3 DEF OneAtWork
    <3>2. \A k \in Job : Result(k) \in ToSet(lines'[p]) => k \in rjob
      BY <1>0, <1>000, <3>1, LineKinds DEF OneAtWork
    <3>. QED BY <1>0, <1>000, <3>1, <3>2 DEF OneAtWork, Cmds
  <2>. QED BY <1>0, <2>1, <2>2, <2>3 DEF Work, WorkOK
<1>7. OneWorkerRuns'
  BY <1>0, <1>000, UpShrinks DEF Inv
<1>8. WorkIsPending'
  BY DEF Inv, TypeOK, WorkIsPending, Up, WorkerResults, Emit, results
<1>9. ResultIsOwn'
  BY DEF Inv, ResultIsOwn, WorkerResults, results
<1>. QED BY <1>1, <1>2, <1>3, <1>4, <1>5, <1>6, <1>7, <1>8, <1>9 DEF Inv

LEMMA WorkerErrsStep ==
  ASSUME Inv, NEW p \in Job, WorkerErrs(p)
  PROVE  Inv'
<1>0. /\ UNCHANGED <<cproc, rproc, rpc, rjob, parent, inbox, outcome, clips>>
      /\ life[p] = "up" /\ doing[p] # {}
      /\ doing'[p] = {} /\ \A q \in Job \ {p} : doing'[q] = doing[q]
      /\ doing' \in [Job -> SUBSET Job]
  BY DEF WorkerErrs, client, renders, results, main, Inv, TypeOK
<1>00. \/ lines' = [lines EXCEPT ![p] = Append(@, Error)] /\ life' = life
       \/ lines' = lines /\ life' = [life EXCEPT ![p] = "dying"]
  BY DEF WorkerErrs, Emit
<1>000. /\ lines' \in [Job -> Seq(Line)] /\ life' \in [Job -> {"none", "up", "dying", "exited"}]
        /\ ToSet(lines'[p]) \subseteq ToSet(lines[p]) \cup {Error}
        /\ \A q \in Job \ {p} : lines'[q] = lines[q]
        /\ Ends(p) = {} => AtMostOne(lines'[p], Verdicts)
        /\ \A q \in Job : life'[q] = life[q] \/ (life[q] = "up" /\ life'[q] = "dying")
  <2>1. CASE lines' = [lines EXCEPT ![p] = Append(@, Error)] /\ life' = life
    <3>1. Error \in Line /\ TypeOK
      BY LineKinds DEF Inv
    <3>2. /\ lines' \in [Job -> Seq(Line)]
          /\ ToSet(lines'[p]) = ToSet(lines[p]) \cup {Error}
          /\ \A q \in Job \ {p} : lines'[q] = lines[q]
          /\ Ends(p) = {} => AtMostOne(lines'[p], Verdicts)
      BY <2>1, <3>1, AddFacts
    <3>. QED BY <2>1, <3>2 DEF Inv, TypeOK
  <2>2. CASE lines' = lines /\ life' = [life EXCEPT ![p] = "dying"]
    BY <1>0, <2>2, NoneIsAtMostOne DEF Inv, TypeOK, Ends
  <2>. QED BY <1>00, <2>1, <2>2
<1>1. TypeOK'
  BY <1>000 DEF WorkerErrs, Inv, TypeOK, client, renders, results, main
<1>2. Thread'
  BY DEF Inv, Thread, WorkerErrs, client, renders, results, main
<1>3. Stopping'
  BY DEF Inv, TypeOK, Stopping, WorkerErrs, Emit, main, Proc
<1>4. Born'
  BY DEF Inv, TypeOK, Born, WorkerErrs, Emit, client, renders, results, main
<1>5. LinesAreTrue'
  <2>1. \A q \in Job : ToSet(lines'[q]) \subseteq ToSet(lines[q]) \cup {Error}
    BY <1>000
  <2>2. \A q \in Job : life'[q] = "up" => life[q] = "up"
    BY <1>000
  <2>3. ASSUME NEW q \in Job, Eof \in ToSet(lines'[q]) PROVE life'[q] # "up"
    <3>1. Eof \in ToSet(lines[q])
      BY <2>1, <2>3, LineKinds
    <3>. QED BY <2>2, <3>1 DEF Inv, LinesAreTrue
  <2>4. ASSUME NEW q \in Job, NEW k \in Job, Result(k) \in ToSet(lines'[q]) PROVE k \in clips'
    <3>1. Result(k) \in ToSet(lines[q]) \/ Result(k) = Error
      BY <2>1, <2>4
    <3>2. CASE Result(k) \in ToSet(lines[q])
      BY <1>0, <3>2 DEF Inv, LinesAreTrue
    <3>3. CASE Result(k) = Error
      BY <1>0, <3>3, LineKinds
    <3>. QED BY <3>1, <3>2, <3>3
  <2>. QED BY <2>3, <2>4 DEF LinesAreTrue
<1>6. Work'
  <2>1. ASSUME NEW q \in Job, q # p PROVE WorkOK(q)'
    BY <1>0, <1>000, <2>1, WorkStays DEF Inv, Work, Still
  <2>2. ASSUME p \in {cproc, rproc} PROVE rpc \in Sent /\ OneAtWork(p)
    BY <1>0, <2>2 DEF Inv, Work, WorkOK, Vacant
  <2>3. ASSUME p \in {cproc, rproc} PROVE OneAtWork(p)'
    <3>1. Ends(p) = {} /\ Cmds(p) = {} /\ OneAtWork(p)
      BY <1>0, <2>2, <2>3 DEF OneAtWork
    <3>2. \A k \in Job : Result(k) \in ToSet(lines'[p]) => k \in rjob
      BY <1>0, <1>000, <3>1, LineKinds DEF OneAtWork
    <3>. QED BY <1>0, <1>000, <3>1, <3>2 DEF OneAtWork, Cmds
  <2>. QED BY <1>0, <2>1, <2>2, <2>3 DEF Work, WorkOK
<1>7. OneWorkerRuns'
  BY <1>0, <1>000, UpShrinks DEF Inv
<1>8. WorkIsPending'
  BY DEF Inv, TypeOK, WorkIsPending, Up, WorkerErrs, Emit, results
<1>9. ResultIsOwn'
  BY DEF Inv, ResultIsOwn, WorkerErrs, results
<1>. QED BY <1>1, <1>2, <1>3, <1>4, <1>5, <1>6, <1>7, <1>8, <1>9 DEF Inv

LEMMA WorkerCrashesStep ==
  ASSUME Inv, NEW p \in Job, WorkerCrashes(p)
  PROVE  Inv'
<1>1. TypeOK'
  BY DEF Inv, TypeOK, WorkerCrashes, client, renders, results, main
<1>2. Thread'
  BY DEF Inv, Thread, WorkerCrashes, client, renders, results, main
<1>3. Stopping'
  BY DEF Inv, Stopping, WorkerCrashes, main
<1>4. Born'
  BY DEF Inv, TypeOK, Born, WorkerCrashes, client, renders, results, main
<1>5. LinesAreTrue'
  BY DEF Inv, TypeOK, LinesAreTrue, WorkerCrashes, results
<1>6. Work'
  BY DEF Inv, Work, WorkOK, OneAtWork, Vacant, Cmds, Ends, WorkerCrashes, client, renders
<1>7. OneWorkerRuns'
  BY DEF Inv, TypeOK, OneWorkerRuns, Up, WorkerCrashes
<1>8. WorkIsPending'
  BY DEF Inv, TypeOK, WorkIsPending, Up, WorkerCrashes, results
<1>9. ResultIsOwn'
  BY DEF Inv, ResultIsOwn, WorkerCrashes, results
<1>. QED BY <1>1, <1>2, <1>3, <1>4, <1>5, <1>6, <1>7, <1>8, <1>9 DEF Inv

LEMMA WorkerExitsStep ==
  ASSUME Inv, NEW p \in Job, WorkerExits(p)
  PROVE  Inv'
<1>1. TypeOK'
  BY DEF Inv, TypeOK, WorkerExits, client, renders, results, main
<1>2. Thread'
  BY DEF Inv, TypeOK, Thread, WorkerExits, client, renders, results, main
<1>3. Stopping'
  BY DEF Inv, TypeOK, Stopping, WorkerExits, main
<1>4. Born'
  BY DEF Inv, Born, WorkerExits, client, renders, results, main
<1>5. LinesAreTrue'
  BY DEF Inv, LinesAreTrue, WorkerExits, results
<1>6. Work'
  <2>1. /\ UNCHANGED <<cproc, rproc, rpc, rjob, lines>>
        /\ inbox'[p] = <<>> /\ doing'[p] = {}
        /\ \A q \in Job \ {p} : inbox'[q] = inbox[q] /\ doing'[q] = doing[q]
    BY DEF WorkerExits, client, renders, Inv, TypeOK
  <2>2. ASSUME NEW q \in Job, q # p PROVE WorkOK(q)'
    BY <2>1, <2>2, WorkStays DEF Inv, Work, Still
  <2>3. Cmds(p)' = {} /\ Ends(p)' = Ends(p) /\ AtMostOne(inbox'[p], Job)
    BY <2>1, NothingThere DEF Cmds, Ends
  <2>4. WorkOK(p)'
    BY <2>1, <2>3 DEF Inv, Work, WorkOK, OneAtWork, Vacant
  <2>. QED BY <2>2, <2>4 DEF Work
<1>7. OneWorkerRuns'
  BY DEF Inv, OneWorkerRuns, Up, WorkerExits, client, renders, main
<1>8. WorkIsPending'
  BY DEF Inv, WorkIsPending, Up, WorkerExits, results
<1>9. ResultIsOwn'
  BY DEF Inv, ResultIsOwn, WorkerExits, results
<1>. QED BY <1>1, <1>2, <1>3, <1>4, <1>5, <1>6, <1>7, <1>8, <1>9 DEF Inv

LEMMA ReaderEndsStep ==
  ASSUME Inv, parent = "up", NEW p \in Job, ReaderEnds(p)
  PROVE  Inv'
<1>1. TypeOK'
  <2>1. lines' \in [Job -> Seq(Line)]
    BY AddFacts, LineKinds DEF ReaderEnds, Inv
  <2>. QED BY <2>1 DEF ReaderEnds, Inv, TypeOK, client, renders, results, main
<1>2. Thread'
  BY DEF Inv, Thread, ReaderEnds, client, renders, results
<1>3. Stopping'
  BY DEF Inv, Stopping, ReaderEnds, main
<1>4. Born'
  BY DEF Inv, Born, ReaderEnds, client, renders, results, main
<1>5. LinesAreTrue'
  <2>1. /\ ToSet(lines'[p]) = ToSet(lines[p]) \cup {Eof}
        /\ \A q \in Job \ {p} : lines'[q] = lines[q]
    BY AddFacts, LineKinds DEF ReaderEnds, Inv
  <2>. QED BY <2>1, LineKinds DEF ReaderEnds, Inv, LinesAreTrue, results
<1>6. Work'
  BY NoiseAdds DEF ReaderEnds
<1>7. OneWorkerRuns'
  BY DEF Inv, OneWorkerRuns, Up, ReaderEnds, client, renders
<1>8. WorkIsPending'
  BY DEF Inv, WorkIsPending, Up, ReaderEnds, results
<1>9. ResultIsOwn'
  BY DEF Inv, ResultIsOwn, ReaderEnds, results
<1>. QED BY <1>1, <1>2, <1>3, <1>4, <1>5, <1>6, <1>7, <1>8, <1>9 DEF Inv

-----------------------------------------------------------------------------
(* The invariant. *)

LEMMA InitInv == Init => Inv
<1>. SUFFICES ASSUME Init PROVE Inv
  OBVIOUS
<1>1. TypeOK
  BY EmptySeq DEF Init, TypeOK, Proc
<1>2. Thread /\ Stopping /\ WorkIsPending /\ OneWorkerRuns /\ ResultIsOwn
  BY DEF Init, Thread, Stopping, WorkIsPending, OneWorkerRuns, ResultIsOwn, Up, Held
<1>3. Born
  BY NoneIsNoJob DEF Init, Born
<1>4. LinesAreTrue
  BY NothingThere DEF Init, LinesAreTrue
<1>5. Work
  BY NoneIsNoJob DEF Init, Work, WorkOK
<1>. QED BY <1>1, <1>2, <1>3, <1>4, <1>5 DEF Inv

LEMMA RenderStepInv ==
  ASSUME Inv, RenderThread
  PROVE  Inv'
<1>. USE DEF RenderThread
<1>1. CASE Acquire \/ Reuse \/ Publish \/ Fetch
  BY <1>1, AcquireStep, ReuseStep, PublishStep, FetchStep
<1>2. CASE Check \/ GetNothing \/ GetNoise \/ Terminate
  BY <1>2, CheckStep, GetNothingStep, GetNoiseStep, TerminateStep
<1>3. ASSUME NEW j \in Job, Spawn(j) \/ SpawnFails(j) \/ Write(j) \/ WriteFails(j) \/ WriteClosed(j)
      PROVE  Inv'
  BY <1>3, SpawnStep, SpawnFailsStep, WriteStep, WriteFailsStep, WriteClosedStep
<1>4. ASSUME NEW j \in Job, \/ GetFromNone(j) \/ GetError(j) \/ GetEof(j) \/ Abandon(j)
                            \/ \E k \in Job : GetResult(j, k)
      PROVE  Inv'
  BY <1>4, GetFromNoneStep, GetErrorStep, GetEofStep, AbandonStep, GetResultStep
<1>. QED BY <1>1, <1>2, <1>3, <1>4 DEF RenderStep

LEMMA MainStepInv ==
  ASSUME Inv, MainThread \/ StopBegin \/ SignalAgain
  PROVE  Inv'
<1>1. CASE StopBegin
  BY <1>1, StopBeginStep DEF StopBegin
<1>2. CASE SignalAgain
  BY <1>2, SignalAgainStep DEF SignalAgain
<1>3. CASE MainThread
  BY <1>3, StopLockStep, StopAskStep, StopTerminateStep, StopConfirmStep, StopReapStep, ExitStep
  DEF MainThread
<1>. QED BY <1>1, <1>2, <1>3

LEMMA WorkerStepInv ==
  ASSUME Inv, NEW p \in Job,
         \/ WorkerRuns(p) \/ WorkerChats(p) \/ WorkerCrashes(p) \/ WorkerExits(p) \/ ReaderEnds(p)
  PROVE  Inv'
<1>1. CASE WorkerRuns(p)
  BY <1>1, WorkerReadsStep, WorkerSeesEofStep, WorkerUploadsStep, WorkerErrsStep, WorkerResultsStep
  DEF WorkerRuns
<1>2. CASE WorkerChats(p) \/ WorkerCrashes(p) \/ WorkerExits(p)
  BY <1>2, WorkerChatsStep, WorkerCrashesStep, WorkerExitsStep
<1>3. CASE ReaderEnds(p)
  BY <1>3, ReaderEndsStep DEF ReaderEnds
<1>. QED BY <1>1, <1>2, <1>3

LEMMA NextInv == Inv /\ [Next]_vars => Inv'
<1>. SUFFICES ASSUME Inv, [Next]_vars PROVE Inv'
  OBVIOUS
<1>1. CASE RenderThread
  BY <1>1, RenderStepInv
<1>2. CASE MainThread \/ StopBegin \/ SignalAgain
  BY <1>2, MainStepInv
<1>3. ASSUME NEW j \in Job, Begin(j) \/ Cancel(j) PROVE Inv'
  BY <1>3, BeginStep, CancelStep DEF Begin, Cancel
<1>4. ASSUME NEW p \in Job,
             \/ WorkerRuns(p) \/ WorkerChats(p) \/ WorkerCrashes(p) \/ WorkerExits(p) \/ ReaderEnds(p)
      PROVE  Inv'
  BY <1>4, WorkerStepInv
<1>5. CASE UNCHANGED vars
  <2>1. UNCHANGED <<cproc, cqueue, lock, rpc, rjob, rproc, rqueue, life, pipes, inbox, doing, lines,
                    ended, outcome, answer, cancelled, clips, spc, sproc, parent>>
    BY <1>5 DEF vars, client, renders, workers, results, main
  <2>2. TypeOK' /\ Thread' /\ Stopping' /\ Born'
    BY <2>1 DEF Inv, TypeOK, Thread, Stopping, Born
  <2>3. LinesAreTrue' /\ OneWorkerRuns' /\ WorkIsPending' /\ ResultIsOwn'
    BY <2>1 DEF Inv, LinesAreTrue, OneWorkerRuns, WorkIsPending, ResultIsOwn, Up
  <2>4. Work'
    BY <2>1, WorkStays DEF Inv, Work, Still
  <2>. QED BY <2>2, <2>3, <2>4 DEF Inv
<1>. QED BY <1>1, <1>2, <1>3, <1>4, <1>5 DEF Next

LEMMA Inductive == Spec => []Inv
BY InitInv, NextInv, PTL DEF Spec

-----------------------------------------------------------------------------
(* The theorems. *)

\* The client, its workers and their pipes keep to their types.
THEOREM TypeCorrect == Spec => []TypeOK
<1>1. Inv => TypeOK
  BY DEF Inv
<1>. QED BY <1>1, Inductive, PTL

\* _ensure_worker never has two workers hold the card, whatever a cancel, a crash, a
\* reaped handle or a shutdown that does not wait for the lock did before.
THEOREM OneWorker == Spec => []OneWorkerRuns
<1>1. Inv => OneWorkerRuns
  BY DEF Inv
<1>. QED BY <1>1, Inductive, PTL

\* render() reads no job id, and returns no other job's result all the same.
THEOREM ResultsAreTheCallers == Spec => []ResultIsOwn
<1>1. Inv => ResultIsOwn
  BY DEF Inv
<1>. QED BY <1>1, Inductive, PTL

\* When render() has raised Cancelled, or shutdown() is through, the worker is down.
THEOREM TerminatingIsFinal == Spec => []TerminatedIsDown
<1>1. Inv => TerminatedIsDown
  <2>. SUFFICES ASSUME Inv PROVE TerminatedIsDown
    OBVIOUS
  <2>1. ASSUME NEW j \in Job, NEW p \in Job, outcome[j] = "cancelled", doing[p] = {j}
        PROVE  life[p] # "up"
    BY <2>1 DEF Inv, WorkIsPending, Up
  <2>2. spc \in {"reap", "done"} /\ sproc # None => life[sproc] # "up"
    BY DEF Inv, Stopping
  <2>. QED BY <2>1, <2>2 DEF TerminatedIsDown
<1>. QED BY <1>1, Inductive, PTL

-----------------------------------------------------------------------------
(* render() is a run_fn. *)

\* What the caller of render() can see has not changed.
LEMMA NobodySees ==
  ASSUME UNCHANGED <<rjob, outcome, cancelled>>
  PROVE  UNCHANGED <<[j \in Job |-> CallOf(j)], cancelled>>
BY DEF CallOf

\* A render that is left has ended, and is called cancelled only if it was.
LEMMA LeavingEnds ==
  ASSUME Inv, NEW j \in Job, NEW how \in {"returned", "raised", "died", "cancelled"},
         rjob = {j}, Leave(j, how), cancelled' = cancelled, how = "cancelled" => cancelled[j]
  PROVE  AsRunFn!End(j)
<1>. DEFINE ending == IF how = "died" THEN "raised" ELSE how
<1>1. /\ rjob = {j} /\ rjob' = {} /\ outcome' = [outcome EXCEPT ![j] = how]
      /\ outcome \in [Job -> {"pending", "returned", "raised", "died", "cancelled"}]
  BY DEF Inv, TypeOK, Leave
<1>2. CallOf(j) = "running"
  BY <1>1 DEF CallOf
<1>3. \A k \in Job : CallOf(k)' = IF k = j THEN ending ELSE CallOf(k)
  <2>1. ASSUME NEW k \in Job, k # j PROVE CallOf(k)' = CallOf(k)
    BY <1>1, <2>1 DEF CallOf
  <2>2. CallOf(j)' = ending
    BY <1>1 DEF CallOf
  <2>. QED BY <2>1, <2>2
<1>4. [k \in Job |-> CallOf(k)]' = [[k \in Job |-> CallOf(k)] EXCEPT ![j] = ending]
  BY <1>3
<1>5. ending \in {"returned", "cancelled", "raised"} /\ (ending = "cancelled" => cancelled[j])
  OBVIOUS
<1>. QED BY <1>2, <1>4, <1>5 DEF AsRunFn!End, AsRunFn!Ending

LEMMA BeginningBegins ==
  ASSUME Inv, NEW j \in Job, Begin(j)
  PROVE  AsRunFn!Begin(j)
<1>1. /\ rjob = {} /\ rjob' = {j} /\ outcome[j] = "pending" /\ UNCHANGED <<outcome, cancelled>>
      /\ outcome \in [Job -> {"pending", "returned", "raised", "died", "cancelled"}]
  BY DEF Inv, TypeOK, Thread, Begin, results
<1>2. \A k \in Job : CallOf(k) # "running"
  BY <1>1 DEF CallOf
<1>3. CallOf(j) = "not yet"
  BY <1>1 DEF CallOf
<1>4. \A k \in Job : CallOf(k)' = IF k = j THEN "running" ELSE CallOf(k)
  BY <1>1 DEF CallOf
<1>5. [k \in Job |-> CallOf(k)]' = [[k \in Job |-> CallOf(k)] EXCEPT ![j] = "running"]
  BY <1>4
<1>. QED BY <1>1, <1>2, <1>3, <1>5 DEF AsRunFn!Begin

LEMMA CancelAsks ==
  ASSUME NEW j \in Job, Cancel(j)
  PROVE  AsRunFn!Ask(j)
<1>1. rjob = {j} /\ UNCHANGED <<rjob, outcome>> /\ cancelled' = [cancelled EXCEPT ![j] = TRUE]
  BY DEF Cancel, renders
<1>2. CallOf(j) = "running" /\ UNCHANGED [k \in Job |-> CallOf(k)]
  BY <1>1 DEF CallOf
<1>. QED BY <1>1, <1>2 DEF AsRunFn!Ask

LEMMA RenderMaps ==
  ASSUME Inv, RenderThread
  PROVE  (\E j \in Job : AsRunFn!End(j)) \/ UNCHANGED <<[j \in Job |-> CallOf(j)], cancelled>>
<1>1. CASE Acquire \/ Reuse \/ Publish \/ Fetch \/ Check \/ GetNothing \/ GetNoise \/ Terminate
  BY <1>1, NobodySees
  DEF Acquire, Reuse, Publish, Fetch, Check, GetNothing, GetNoise, Terminate, results
<1>2. ASSUME NEW j \in Job, Spawn(j) \/ Write(j) PROVE UNCHANGED <<[k \in Job |-> CallOf(k)], cancelled>>
  BY <1>2, NobodySees DEF Spawn, Write, results
<1>3. ASSUME NEW j \in Job,
             \/ SpawnFails(j) \/ WriteFails(j) \/ WriteClosed(j) \/ GetFromNone(j) \/ GetError(j)
             \/ GetEof(j) \/ \E k \in Job : GetResult(j, k)
      PROVE  AsRunFn!End(j)
  <2>1. /\ rjob = {j} /\ cancelled' = cancelled
        /\ \E how \in {"returned", "raised", "died"} : Leave(j, how)
    BY <1>3 DEF SpawnFails, WriteFails, WriteClosed, GetFromNone, GetError, GetEof, GetResult
  <2>. QED BY <2>1, LeavingEnds
<1>4. ASSUME NEW j \in Job, Abandon(j) PROVE AsRunFn!End(j)
  <2>1. rjob = {j} /\ cancelled' = cancelled /\ Leave(j, "cancelled") /\ cancelled[j]
    BY <1>4 DEF Abandon, Inv, Thread
  <2>. QED BY <2>1, LeavingEnds
<1>. QED BY <1>1, <1>2, <1>3, <1>4 DEF RenderThread, RenderStep

\* Nothing else touches what the caller sees.
LEMMA OthersStutter ==
  ASSUME \/ MainThread \/ StopBegin \/ SignalAgain
         \/ \E p \in Job : \/ WorkerRuns(p) \/ WorkerChats(p) \/ WorkerCrashes(p)
                           \/ WorkerExits(p) \/ ReaderEnds(p)
  PROVE  UNCHANGED <<[j \in Job |-> CallOf(j)], cancelled>>
<1>1. CASE MainThread \/ StopBegin \/ SignalAgain
  BY <1>1, NobodySees
  DEF MainThread, StopBegin, SignalAgain, StopLock, StopAsk, StopTerminate, StopConfirm, StopReap,
      Exit, renders, results
<1>2. ASSUME NEW p \in Job, WorkerRuns(p)
      PROVE  UNCHANGED <<[j \in Job |-> CallOf(j)], cancelled>>
  BY <1>2, NobodySees
  DEF WorkerRuns, WorkerReads, WorkerSeesEof, WorkerUploads, WorkerErrs, WorkerResults, renders, results
<1>3. ASSUME NEW p \in Job, WorkerChats(p) \/ WorkerCrashes(p) \/ WorkerExits(p) \/ ReaderEnds(p)
      PROVE  UNCHANGED <<[j \in Job |-> CallOf(j)], cancelled>>
  BY <1>3, NobodySees DEF WorkerChats, WorkerCrashes, WorkerExits, ReaderEnds, renders, results
<1>. QED BY <1>1, <1>2, <1>3

\* RenderWorkerClient.render keeps the promise the registry calls run_fn for.
THEOREM RenderImplementsRunFn == Spec => RenderIsARunFn
<1>1. Init => AsRunFn!Init
  BY DEF Init, AsRunFn!Init, CallOf
<1>2. Inv /\ [Next]_vars => [AsRunFn!Next]_<<[j \in Job |-> CallOf(j)], cancelled>>
  <2>. SUFFICES ASSUME Inv, [Next]_vars
                PROVE  [AsRunFn!Next]_<<[j \in Job |-> CallOf(j)], cancelled>>
    OBVIOUS
  <2>1. ASSUME NEW j \in Job, Begin(j) \/ Cancel(j) PROVE AsRunFn!Next
    BY <2>1, BeginningBegins, CancelAsks DEF AsRunFn!Next
  <2>2. CASE RenderThread
    BY <2>2, RenderMaps DEF AsRunFn!Next
  <2>3. CASE UNCHANGED vars
    BY <2>3, NobodySees DEF vars, renders, results
  <2>. QED BY <2>1, <2>2, <2>3, OthersStutter DEF Next
<1>. QED BY <1>1, <1>2, Inductive, PTL DEF Spec, RenderIsARunFn, AsRunFn!Spec

=============================================================================
