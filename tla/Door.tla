-------------------------------- MODULE Door --------------------------------
(***************************************************************************)
(* The door as its caller lives with it: POST /run, GET /status/<id> and    *)
(* POST /cancel/<id> over a tunnel that may time out and deliver late, the  *)
(* registry behind them, a store that keeps clips under one key per shot,   *)
(* and a box that may restart and remember nothing.  The caller is the      *)
(* `local-gpu` module, modelled from what docs/architecture.md and the      *)
(* routes of core/server.py expect of it: it posts until it has an answer,  *)
(* polls the id it was given, and takes a 404 for a loss.                   *)
(* JobRegistry is the registry; a docker stop ends in the same restart as a *)
(* crash, and what the drain of shutdown() does before it is not repeated.  *)
(***************************************************************************)
EXTENDS JobRegistry, FiniteSets

CONSTANTS
  Shot,         \* what the caller wants clips of
  ClipKey,      \* clip_key_for: not injective, names are slugged
  MaxTimeouts,  \* bound: how many POSTs the caller gives up on
  MaxRestarts   \* bound: how often the box restarts

ASSUME DoorAssumption ==
  /\ DOMAIN ClipKey = Shot
  /\ MaxTimeouts \in Nat /\ MaxRestarts \in Nat

VARIABLES
  malformed, \* the shots whose request validate() refuses
  of,        \* the shot each accepted job is for: {} or a singleton
  flying,    \* how many POSTs of a shot the caller gave up on are still on their way
  timeouts, restarts,
  polled,    \* the id the caller of a shot polls: {} or a singleton
  verdict,   \* what it has concluded: "none", "400", "404", "COMPLETED" or "FAILED"
  wrote,     \* the jobs whose clip has been uploaded
  store,     \* whose clip is under each key: {} or a singleton
  forgotten  \* history: the jobs a restart took

door     == <<malformed, of, flying, timeouts, restarts, polled, verdict, wrote, store, forgotten>>
doorVars == <<vars, door>>

Key == {ClipKey[s] : s \in Shot}

DoorInit ==
  /\ Init
  /\ malformed \in SUBSET Shot
  /\ of = [j \in Job |-> {}]
  /\ flying = [s \in Shot |-> 0] /\ timeouts = 0 /\ restarts = 0
  /\ polled = [s \in Shot |-> {}] /\ verdict = [s \in Shot |-> "none"]
  /\ wrote = {} /\ store = [k \in Key |-> {}] /\ forgotten = {}

-----------------------------------------------------------------------------
(* The caller and the routes. *)

Posting(s) == polled[s] = {} /\ verdict[s] = "none"
Polling(s, j) == polled[s] = {j} /\ verdict[s] = "none"

\* POST /run of a request that validates: a job, whoever hears of it.  Fresh ids are
\* alike, so it does not matter which of them uuid4() hands out.
Accept(s, j) ==
  /\ s \notin malformed
  /\ j = CHOOSE k \in Job : status[k] = "unborn"
  /\ Submit(j)
  /\ of' = [of EXCEPT ![j] = {s}]

\* The answer is the id, and the caller polls it from now on.
PostAnswered(s, j) ==
  /\ Posting(s) /\ Accept(s, j)
  /\ polled' = [polled EXCEPT ![s] = {j}]
  /\ UNCHANGED <<malformed, flying, timeouts, restarts, verdict, wrote, store, forgotten>>

\* The answer is a 400, and no job is made.
PostRefused(s) ==
  /\ Posting(s) /\ s \in malformed
  /\ verdict' = [verdict EXCEPT ![s] = "400"]
  /\ UNCHANGED <<vars, malformed, of, flying, timeouts, restarts, polled, wrote, store, forgotten>>

\* The caller waits for the answer no longer and will post again (a request that is
\* refused is so whenever it arrives, so giving up on one is nothing) ...
PostTimesOut(s) ==
  /\ Posting(s) /\ s \notin malformed /\ timeouts < MaxTimeouts
  /\ timeouts' = timeouts + 1
  /\ flying' = [flying EXCEPT ![s] = @ + 1]
  /\ UNCHANGED <<vars, malformed, of, restarts, polled, verdict, wrote, store, forgotten>>

\* ... while its request may yet arrive, before or after the next ...
PostArrivesLate(s, j) ==
  /\ flying[s] > 0 /\ Accept(s, j)
  /\ flying' = [flying EXCEPT ![s] = @ - 1]
  /\ UNCHANGED <<malformed, timeouts, restarts, polled, verdict, wrote, store, forgotten>>

\* ... or not at all.
PostIsLost(s) ==
  /\ flying[s] > 0
  /\ flying' = [flying EXCEPT ![s] = @ - 1]
  /\ UNCHANGED <<vars, malformed, of, timeouts, restarts, polled, verdict, wrote, store, forgotten>>

PollUnknownAsQueued(s) ==
  /\ \E j \in Job :
       /\ Polling(s, j)
       /\ j \in jobs /\ Settled(j)
       /\ verdict' = [verdict EXCEPT ![s] = status[j]]
  /\ UNCHANGED <<vars, malformed, of, flying, timeouts, restarts, polled, wrote, store, forgotten>>

\* GET /status/<id>: while it says IN_QUEUE or IN_PROGRESS the caller polls on.
Poll(s) ==
  /\ \E j \in Job :
       /\ Polling(s, j)
       /\ j \in jobs => Settled(j)
       /\ verdict' = [verdict EXCEPT ![s] = IF j \in jobs THEN status[j] ELSE "404"]
  /\ UNCHANGED <<vars, malformed, of, flying, timeouts, restarts, polled, wrote, store, forgotten>>

\* POST /cancel/<id>: always ok; the caller polls on to see what became of it.
CancelPolled(s) ==
  /\ \E j \in Job : Polling(s, j) /\ (CancelQueued(j) \/ CancelRunning(j))
  /\ UNCHANGED door

-----------------------------------------------------------------------------
(* The render and the box. *)

\* run_fn puts the clip before it returns.
Upload(j) ==
  /\ worker = "running" /\ j \in current \ wrote
  /\ wrote' = wrote \cup {j}
  /\ \E s \in of[j] : store' = [store EXCEPT ![ClipKey[s]] = {j}]
  /\ UNCHANGED <<vars, malformed, of, flying, timeouts, restarts, polled, verdict, forgotten>>

RenderReturnsUnwritten(j) == Complete(j) /\ UNCHANGED door
RenderReturns(j) == j \in wrote /\ Complete(j) /\ UNCHANGED door
\* A crash or a cancel may come after the upload as well as before.
RenderFails(j) == (Abort(j) \/ Raise(j)) /\ UNCHANGED door

RenderEnds(j) == RenderReturns(j) \/ RenderFails(j)

ServerLoop == RunLoop /\ UNCHANGED door

\* The process ends, with the render and the registry in it; the store remains.  The
\* ids already handed out are not handed out again.
Restart ==
  /\ restarts < MaxRestarts
  /\ restarts' = restarts + 1
  /\ jobs' = {} /\ queue' = <<>> /\ completed_order' = <<>>
  /\ worker' = "dead" /\ current' = {} /\ stop' = FALSE
  /\ forgotten' = forgotten \cup jobs
  /\ UNCHANGED <<malformed, fields, arrival, settled, of, flying, timeouts, polled, verdict, wrote, store>>

-----------------------------------------------------------------------------
Caller(s) ==
  \/ \E j \in Job : PostAnswered(s, j) \/ PostArrivesLate(s, j)
  \/ PostRefused(s) \/ PostTimesOut(s) \/ PostIsLost(s) \/ Poll(s) \/ CancelPolled(s)

DoorNext ==
  \/ \E s \in Shot : Caller(s)
  \/ \E j \in Job : Upload(j) \/ RenderEnds(j)
  \/ ServerLoop \/ Restart

(***************************************************************************)
(* Fairness.  The server's thread is scheduled, renders end, and the caller *)
(* keeps posting and polling over a tunnel that does not time out for ever: *)
(* MaxTimeouts and MaxRestarts make both finite.                            *)
(***************************************************************************)
DoorSpec ==
  /\ DoorInit /\ [][DoorNext]_doorVars
  /\ WF_doorVars(ServerLoop)
  /\ \A j \in Job : WF_doorVars(RenderEnds(j))
  /\ \A s \in Shot :
       WF_doorVars(PostRefused(s) \/ Poll(s) \/ \E j \in Job : PostAnswered(s, j))

-----------------------------------------------------------------------------
(* Properties. *)

Arrived(j) == CHOOSE n \in DOMAIN arrival : arrival[n] = j

SettledAfter(j) ==
  {k \in Job : \E m, n \in DOMAIN settled : m < n /\ settled[m] = j /\ settled[n] = k}

\* What the caller concludes is so.  COMPLETED: there is a clip under the shot's key, and
\* it is not older than the one it was told of: neither a request it had given up on
\* before nor a shot with the same slug, accepted earlier, can slip its clip in after the
\* answer.  FAILED: the job did.  404, "a real loss": a restart, or as many settled since
\* as the table keeps.  400: nothing was rendered.
VerdictsAreTrue ==
  \A s \in Shot :
    /\ verdict[s] = "COMPLETED" =>
         \E j \in polled[s], k \in store[ClipKey[s]] : Arrived(j) <= Arrived(k)
    /\ verdict[s] = "FAILED" => \E j \in polled[s] : error[j] # "none"
    /\ verdict[s] = "404" =>
         \E j \in polled[s] : j \in forgotten \/ Cardinality(SettledAfter(j)) >= MaxCompleted
    /\ verdict[s] = "400" => \A j \in Job : s \notin of[j]

\* "Rather than polling a dead job forever": whatever is lost on the way, cancelled,
\* crashed or forgotten, every caller comes to a conclusion.
EveryCallerConcludes == \A s \in Shot : <>(verdict[s] # "none")
=============================================================================
