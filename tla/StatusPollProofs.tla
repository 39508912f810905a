-------------------------- MODULE StatusPollProofs --------------------------
(***************************************************************************)
(* Proofs, for any number of pollers, that the torn reads of status_dict()  *)
(* are harmless.  What makes them so: whatever a writer does only takes the *)
(* job forward (Forward), and of each poller what it has read so far stays  *)
(* true of any later state of the job (PollerOK).                           *)
(***************************************************************************)
EXTENDS StatusPoll, TLAPS

\* The order in which a section writes its fields.
SectionOK ==
  /\ status = "COMPLETED" => output
  /\ output => status = "COMPLETED" \/ (status = "IN_PROGRESS" /\ writer = "set completed")
  /\ error => status = "FAILED"
  /\ status = "FAILED" /\ writer # "set error" => error
  /\ writer \in {"set output", "set completed"} => status = "IN_PROGRESS"
  /\ writer = "set completed" => output
  /\ writer = "set failed" => status \notin Over
  /\ writer = "set error" => status = "FAILED"
  /\ writer = "retain" => status \in Over
  /\ ~known => status \in Over /\ writer = "none"

\* What has been answered to p, ...
AnswerOK(p) ==
  /\ answer[p].status = "COMPLETED" => answer[p].output
  /\ answer[p].output => status = "COMPLETED"
  /\ answer[p].error => status = "FAILED"
  /\ answer[p].status \in Over => answer[p].status = status
  /\ answer[p].status = "404" => ~known
  /\ answer[p].status # "404" => Rank(answer[p].status) <= Rank(status)
  /\ answer[p].status = "FAILED" /\ reader[p] # "idle" => error

\* ... what it has read for the next answer, ...
DraftOK(p) ==
  /\ reader[p] \notin {"idle", "status"} =>
       /\ draft[p].status \in Status
       /\ draft[p].status \in Over => draft[p].status = status
       /\ Rank(draft[p].status) <= Rank(status)
       /\ ~draft[p].error
       /\ draft[p].output => status = "COMPLETED"
  /\ reader[p] = "completed?" => ~draft[p].output
  /\ reader[p] = "output" => status = "COMPLETED"
  /\ reader[p] = "failed?" /\ draft[p].status = "COMPLETED" => draft[p].output
  /\ reader[p] = "error" => status = "FAILED"

\* ... and that neither is behind what anyone was told before.
FloorOK(p) ==
  \A told \in floor[p] :
    /\ reader[p] = "idle" => Rank(told) <= Rank(answer[p].status)
    /\ reader[p] = "status" => Rank(told) <= Rank(status)
    /\ reader[p] \notin {"idle", "status"} => Rank(told) <= Rank(draft[p].status)

PollerOK(p) == AnswerOK(p) /\ DraftOK(p) /\ FloorOK(p)

PollInv == TypeOK /\ SectionOK /\ \A p \in Poller : PollerOK(p)

-----------------------------------------------------------------------------
LEMMA RankFacts ==
  /\ \A s \in Told : Rank(s) \in 0..4
  /\ Rank("nothing") = 0 /\ Rank("IN_QUEUE") = 1 /\ Rank("IN_PROGRESS") = 2
  /\ Rank("COMPLETED") = 3 /\ Rank("FAILED") = 3 /\ Rank("404") = 4
BY DEF Rank, Told, Status, Over

\* A writer's steps take the job forward and no poller's step touches it.
Forward ==
  /\ status \in Over => status' = status
  /\ Rank(status) <= Rank(status')
  /\ error => error'
  /\ known' => known
  /\ output => output'

LEMMA WriterTypes == ASSUME TypeOK, Writer PROVE TypeOK' /\ UNCHANGED poll
<1>1. UNCHANGED <<reader, draft, answer, floor>>
  BY DEF Writer, Start, CompleteBegins, FailBegins, SetOutput, SetCompleted, SetFailed, SetError,
         Retain, Evict, poll
<1>. DEFINE Typed == /\ held' \in BOOLEAN /\ output' \in BOOLEAN /\ error' \in BOOLEAN /\ known' \in BOOLEAN
                     /\ status' \in Status
                     /\ writer' \in {"none", "set output", "set completed", "set failed", "set error", "retain"}
                     /\ held' <=> writer' # "none"
<1>2. ASSUME Start PROVE Typed
  BY <1>2 DEF Start, TypeOK, job, Status, Over
<1>3. ASSUME CompleteBegins PROVE Typed
  BY <1>3 DEF CompleteBegins, TypeOK, job, Status, Over
<1>4. ASSUME FailBegins PROVE Typed
  BY <1>4 DEF FailBegins, TypeOK, job, Status, Over
<1>5. ASSUME SetOutput PROVE Typed
  BY <1>5 DEF SetOutput, TypeOK, job, Status, Over
<1>6. ASSUME SetCompleted PROVE Typed
  BY <1>6 DEF SetCompleted, TypeOK, job, Status, Over
<1>7. ASSUME SetFailed PROVE Typed
  BY <1>7 DEF SetFailed, TypeOK, job, Status, Over
<1>8. ASSUME SetError PROVE Typed
  BY <1>8 DEF SetError, TypeOK, job, Status, Over
<1>9. ASSUME Retain PROVE Typed
  BY <1>9 DEF Retain, TypeOK, job, Status, Over
<1>10. ASSUME Evict PROVE Typed
  BY <1>10 DEF Evict, TypeOK, job, Status, Over
<1>. QED BY <1>1, <1>2, <1>3, <1>4, <1>5, <1>6, <1>7, <1>8, <1>9, <1>10 DEF TypeOK, poll, Writer

LEMMA WriterForward == ASSUME TypeOK, SectionOK, Writer PROVE SectionOK' /\ Forward
<1>1. SectionOK'
  <2>1. CASE Start
    BY <2>1 DEF Start, TypeOK, SectionOK, job, Status, Over
  <2>2. CASE CompleteBegins
    BY <2>2 DEF CompleteBegins, TypeOK, SectionOK, job, Status, Over
  <2>3. CASE FailBegins
    BY <2>3 DEF FailBegins, TypeOK, SectionOK, job, Status, Over
  <2>4. CASE SetOutput
    BY <2>4 DEF SetOutput, TypeOK, SectionOK, job, Status, Over
  <2>5. CASE SetCompleted
    BY <2>5 DEF SetCompleted, TypeOK, SectionOK, job, Status, Over
  <2>6. CASE SetFailed
    BY <2>6 DEF SetFailed, TypeOK, SectionOK, job, Status, Over
  <2>7. CASE SetError
    BY <2>7 DEF SetError, TypeOK, SectionOK, job, Status, Over
  <2>8. CASE Retain
    BY <2>8 DEF Retain, TypeOK, SectionOK, job, Status, Over
  <2>9. CASE Evict
    BY <2>9 DEF Evict, TypeOK, SectionOK, job, Status, Over
  <2>. QED BY <2>1, <2>2, <2>3, <2>4, <2>5, <2>6, <2>7, <2>8, <2>9 DEF Writer
<1>2. (status \in Over => status' = status) /\ (error => error') /\ (known' => known)
      /\ (output => output')
  BY DEF TypeOK, SectionOK, Writer, Start, CompleteBegins, FailBegins, SetOutput, SetCompleted,
         SetFailed, SetError, Retain, Evict, job, Status, Over
<1>3. Rank(status) <= Rank(status')
  <2>1. status' = status \/ (status = "IN_QUEUE" /\ status' \in {"IN_PROGRESS", "FAILED"})
        \/ (status = "IN_PROGRESS" /\ status' \in Over)
    BY DEF TypeOK, SectionOK, Writer, Start, CompleteBegins, FailBegins, SetOutput, SetCompleted,
           SetFailed, SetError, Retain, Evict, job, Status, Over
  <2>2. status \in Told
    BY DEF TypeOK, Told
  <2>. QED BY <2>1, <2>2, RankFacts DEF Over
<1>. QED BY <1>1, <1>2, <1>3 DEF Forward

\* What a poller has read and was told stays true as the job goes forward.
LEMMA ForwardKeeps ==
  ASSUME PollInv, TypeOK', Forward, NEW p \in Poller,
         reader'[p] = reader[p], draft'[p] = draft[p], answer'[p] = answer[p], floor'[p] = floor[p]
  PROVE  PollerOK(p)'
<1>. DEFINE a == answer[p]
            d == draft[p]
<1>1. /\ PollerOK(p) /\ status \in Told /\ status' \in Told /\ a.status \in Told
      /\ d.status \in Told /\ floor[p] \subseteq Told
  BY DEF PollInv, TypeOK, Envelope, Told
<1>2. Rank(status) \in 0..4 /\ Rank(status') \in 0..4 /\ Rank(a.status) \in 0..4
      /\ Rank(d.status) \in 0..4 /\ \A told \in floor[p] : Rank(told) \in 0..4
  BY <1>1, RankFacts
<1>3. Rank(a.status) <= Rank(status) => Rank(a.status) <= Rank(status')
  BY <1>2 DEF Forward
<1>4. Rank(d.status) <= Rank(status) => Rank(d.status) <= Rank(status')
  BY <1>2 DEF Forward
<1>5. \A told \in floor[p] : Rank(told) <= Rank(status) => Rank(told) <= Rank(status')
  BY <1>2 DEF Forward
<1>6. AnswerOK(p)'
  BY <1>1, <1>3 DEF PollerOK, AnswerOK, Forward, Over
<1>7. DraftOK(p)'
  BY <1>1, <1>4 DEF PollerOK, DraftOK, Forward, Over
<1>8. FloorOK(p)'
  BY <1>1, <1>5 DEF PollerOK, FloorOK
<1>. QED BY <1>6, <1>7, <1>8 DEF PollerOK

LEMMA StandsStill ==
  ASSUME TypeOK, UNCHANGED job
  PROVE  Forward
<1>1. Rank(status) \in 0..4
  BY RankFacts DEF TypeOK, Told
<1>. QED BY <1>1 DEF Forward, job

-----------------------------------------------------------------------------
(* The pollers' steps. *)

\* Everything a step of poller p leaves alone.
Only(p) ==
  /\ UNCHANGED <<held, job, writer>>
  /\ \A q \in Poller \ {p} : /\ reader'[q] = reader[q] /\ draft'[q] = draft[q]
                             /\ answer'[q] = answer[q] /\ floor'[q] = floor[q]

LEMMA OnlyKeeps ==
  ASSUME PollInv, TypeOK', NEW p \in Poller, Only(p), PollerOK(p)'
  PROVE  PollInv'
<1>1. Forward
  BY StandsStill DEF PollInv, Only
<1>2. ASSUME NEW q \in Poller PROVE PollerOK(q)'
  BY <1>1, ForwardKeeps DEF Only
<1>3. SectionOK'
  BY DEF PollInv, SectionOK, Only, job
<1>. QED BY <1>2, <1>3 DEF PollInv

LEMMA BareIsEnvelope ==
  ASSUME NEW s \in Told
  PROVE  Bare(s) \in Envelope /\ Bare(s).status = s /\ ~Bare(s).output /\ ~Bare(s).error
BY DEF Bare, Envelope

LEMMA ReplyFacts ==
  ASSUME TypeOK, NEW p \in Poller, NEW e \in Envelope, Reply(p, e)
  PROVE  /\ answer' \in [Poller -> Envelope] /\ answer'[p] = e
         /\ reader' \in [Poller -> {"idle", "status", "completed?", "output", "failed?", "error"}]
         /\ reader'[p] = "idle"
         /\ \A q \in Poller \ {p} : answer'[q] = answer[q] /\ reader'[q] = reader[q]
BY DEF TypeOK, Reply

LEMMA GetStep ==
  ASSUME PollInv, NEW p \in Poller, Get(p)
  PROVE  TypeOK' /\ Only(p) /\ PollerOK(p)'
<1>1. /\ TypeOK /\ PollerOK(p) /\ writer = "none" /\ UNCHANGED <<held, job, writer, draft>>
      /\ status \in Told /\ reader[p] = "idle"
      /\ \A q \in Poller : answer[q].status \in Told
  BY DEF PollInv, Get, TypeOK, Told, Envelope
<1>2. /\ floor'[p] = {answer[q].status : q \in Poller}
      /\ floor' \in [Poller -> SUBSET Told]
      /\ \A q \in Poller \ {p} : floor'[q] = floor[q]
  <2>1. {answer[q].status : q \in Poller} \subseteq Told
    BY <1>1
  <2>. QED BY <1>1, <2>1 DEF Get, TypeOK
<1>3. CASE known
  <2>1. /\ reader' = [reader EXCEPT ![p] = "status"] /\ answer' = answer
        /\ status' = status /\ error' = error /\ known' = known /\ output' = output
    BY <1>1, <1>3 DEF Get, job
  <2>2. TypeOK' /\ Only(p) /\ reader'[p] = "status"
    <3>1. reader' \in [Poller -> {"idle", "status", "completed?", "output", "failed?", "error"}]
          /\ reader'[p] = "status" /\ \A q \in Poller \ {p} : reader'[q] = reader[q]
      BY <1>1, <2>1 DEF TypeOK
    <3>. QED BY <1>1, <1>2, <2>1, <3>1 DEF TypeOK, Only, job
  <2>3. \A q \in Poller : Rank(answer[q].status) <= Rank(status)
    BY <1>3 DEF PollInv, PollerOK, AnswerOK
  <2>4. AnswerOK(p)'
    <3>1. answer[p].status = "FAILED" => error
      BY <1>1 DEF PollInv, SectionOK, PollerOK, AnswerOK, Over
    <3>. QED BY <1>1, <2>1, <2>2, <3>1 DEF PollerOK, AnswerOK
  <2>5. DraftOK(p)' /\ FloorOK(p)'
    BY <1>2, <2>1, <2>2, <2>3 DEF DraftOK, FloorOK
  <2>. QED BY <2>2, <2>4, <2>5 DEF PollerOK
<1>4. CASE ~known
  <2>1. Reply(p, Bare("404")) /\ "404" \in Told
    BY <1>4 DEF Get, Told
  <2>2. Bare("404") \in Envelope /\ Bare("404").status = "404" /\ ~Bare("404").output
        /\ ~Bare("404").error
    BY <2>1, BareIsEnvelope
  <2>3. /\ answer' \in [Poller -> Envelope] /\ answer'[p] = Bare("404")
        /\ reader' \in [Poller -> {"idle", "status", "completed?", "output", "failed?", "error"}]
        /\ reader'[p] = "idle"
        /\ \A q \in Poller \ {p} : answer'[q] = answer[q] /\ reader'[q] = reader[q]
    BY <1>1, <2>1, <2>2, ReplyFacts
  <2>4. TypeOK' /\ Only(p)
    BY <1>1, <1>2, <2>3 DEF TypeOK, Only, job
  <2>5. AnswerOK(p)' /\ DraftOK(p)'
    BY <1>1, <1>4, <2>2, <2>3 DEF AnswerOK, DraftOK, job, Over
  <2>6. FloorOK(p)'
    <3>1. \A told \in floor'[p] : Rank(told) <= Rank("404")
      BY <1>1, <1>2, RankFacts
    <3>. QED BY <3>1, <2>2, <2>3 DEF FloorOK
  <2>. QED BY <2>4, <2>5, <2>6 DEF PollerOK
<1>. QED BY <1>3, <1>4

\* ReadStatus, ReadCompleted and ReadOutput: the poller moves on and nothing is answered.
LEMMA MoveOn ==
  ASSUME TypeOK, NEW p \in Poller, UNCHANGED <<held, job, writer, answer, floor>>,
         NEW r \in {"status", "completed?", "output", "failed?", "error"},
         reader' = [reader EXCEPT ![p] = r],
         draft' \in [Poller -> Envelope], \A q \in Poller \ {p} : draft'[q] = draft[q]
  PROVE  TypeOK' /\ Only(p) /\ reader'[p] = r
<1>1. /\ reader' \in [Poller -> {"idle", "status", "completed?", "output", "failed?", "error"}]
      /\ reader'[p] = r /\ \A q \in Poller \ {p} : reader'[q] = reader[q]
  BY DEF TypeOK
<1>. QED BY <1>1 DEF TypeOK, Only, job

LEMMA ReadStatusStep ==
  ASSUME PollInv, NEW p \in Poller, ReadStatus(p)
  PROVE  TypeOK' /\ Only(p) /\ PollerOK(p)'
<1>1. /\ TypeOK /\ PollerOK(p) /\ reader[p] = "status" /\ status \in Told /\ status \in Status
      /\ UNCHANGED <<held, job, writer, answer, floor>>
      /\ UNCHANGED <<status, output, error, known>>
      /\ reader' = [reader EXCEPT ![p] = "completed?"]
      /\ draft' = [draft EXCEPT ![p] = Bare(status)]
  BY DEF PollInv, ReadStatus, TypeOK, Told, job
<1>2. Bare(status) \in Envelope /\ Bare(status).status = status /\ ~Bare(status).output
      /\ ~Bare(status).error
  BY <1>1, BareIsEnvelope
<1>3. /\ draft' \in [Poller -> Envelope] /\ draft'[p] = Bare(status)
      /\ \A q \in Poller \ {p} : draft'[q] = draft[q]
  BY <1>1, <1>2 DEF TypeOK
<1>4. TypeOK' /\ Only(p) /\ reader'[p] = "completed?"
  BY <1>1, <1>3, MoveOn
<1>5. AnswerOK(p)'
  BY <1>1, <1>4 DEF PollerOK, AnswerOK
<1>6. DraftOK(p)'
  <2>1. Rank(status) <= Rank(status)
    BY <1>1, RankFacts
  <2>. QED BY <2>1, <1>1, <1>2, <1>3, <1>4 DEF DraftOK
<1>7. FloorOK(p)'
  BY <1>1, <1>2, <1>3, <1>4 DEF PollerOK, FloorOK
<1>. QED BY <1>4, <1>5, <1>6, <1>7 DEF PollerOK

LEMMA ReadCompletedStep ==
  ASSUME PollInv, NEW p \in Poller, ReadCompleted(p)
  PROVE  TypeOK' /\ Only(p) /\ PollerOK(p)'
<1>1. /\ TypeOK /\ PollerOK(p) /\ reader[p] = "completed?" /\ draft' = draft
      /\ UNCHANGED <<held, job, writer, answer, floor>>
      /\ UNCHANGED <<status, output, error, known>>
      /\ draft \in [Poller -> Envelope]
  BY DEF PollInv, ReadCompleted, TypeOK, job
<1>2. PICK r \in {"output", "failed?"} :
        /\ reader' = [reader EXCEPT ![p] = r]
        /\ r = "output" <=> status = "COMPLETED"
  BY DEF ReadCompleted
<1>3. TypeOK' /\ Only(p) /\ reader'[p] = r
  BY <1>1, <1>2, MoveOn
<1>4. AnswerOK(p)'
  BY <1>1, <1>3 DEF PollerOK, AnswerOK
<1>5. DraftOK(p)'
  BY <1>1, <1>2, <1>3 DEF PollerOK, DraftOK, Over
<1>6. FloorOK(p)'
  BY <1>1, <1>2, <1>3 DEF PollerOK, FloorOK
<1>. QED BY <1>3, <1>4, <1>5, <1>6 DEF PollerOK

LEMMA ReadOutputStep ==
  ASSUME PollInv, NEW p \in Poller, ReadOutput(p)
  PROVE  TypeOK' /\ Only(p) /\ PollerOK(p)'
<1>1. /\ TypeOK /\ PollerOK(p) /\ reader[p] = "output" /\ output \in BOOLEAN
      /\ UNCHANGED <<held, job, writer, answer, floor>>
      /\ UNCHANGED <<status, output, error, known>>
      /\ reader' = [reader EXCEPT ![p] = "failed?"]
      /\ draft' = [draft EXCEPT ![p].output = output]
      /\ draft \in [Poller -> Envelope]
  BY DEF PollInv, ReadOutput, TypeOK, job
<1>2. /\ draft'[p] = [draft[p] EXCEPT !.output = output]
      /\ \A q \in Poller \ {p} : draft'[q] = draft[q]
      /\ [draft[p] EXCEPT !.output = output] \in Envelope
      /\ draft' \in [Poller -> Envelope]
  <2>1. draft[p] \in Envelope
    BY <1>1
  <2>2. [draft[p] EXCEPT !.output = output] \in Envelope
    BY <1>1, <2>1 DEF Envelope
  <2>. QED BY <1>1, <2>2
<1>3. draft'[p].status = draft[p].status /\ draft'[p].error = draft[p].error
      /\ draft'[p].output = output
  BY <1>1, <1>2 DEF Envelope
<1>4. TypeOK' /\ Only(p) /\ reader'[p] = "failed?"
  BY <1>1, <1>2, MoveOn
<1>5. status = "COMPLETED" /\ output
  BY <1>1 DEF PollInv, PollerOK, DraftOK, SectionOK
<1>6. AnswerOK(p)'
  BY <1>1, <1>4 DEF PollerOK, AnswerOK
<1>7. DraftOK(p)'
  BY <1>1, <1>3, <1>4, <1>5 DEF PollerOK, DraftOK
<1>8. FloorOK(p)'
  BY <1>1, <1>3, <1>4 DEF PollerOK, FloorOK
<1>. QED BY <1>4, <1>6, <1>7, <1>8 DEF PollerOK

\* ReadFailed and ReadError may send the envelope.
LEMMA Sends ==
  ASSUME PollInv, NEW p \in Poller, NEW e \in Envelope, Reply(p, e),
         UNCHANGED <<held, job, writer, draft, floor>>,
         reader[p] \notin {"idle", "status"},
         e.status = draft[p].status,
         e.status = "COMPLETED" => e.output,
         e.output => status = "COMPLETED",
         e.error => status = "FAILED"
  PROVE  TypeOK' /\ Only(p) /\ PollerOK(p)'
<1>1. /\ TypeOK /\ PollerOK(p) /\ UNCHANGED <<status, output, error, known>>
      /\ answer' \in [Poller -> Envelope] /\ answer'[p] = e
      /\ reader' \in [Poller -> {"idle", "status", "completed?", "output", "failed?", "error"}]
      /\ reader'[p] = "idle"
      /\ \A q \in Poller \ {p} : answer'[q] = answer[q] /\ reader'[q] = reader[q]
  BY ReplyFacts DEF PollInv, job
<1>2. TypeOK' /\ Only(p)
  BY <1>1 DEF TypeOK, Only
<1>3. AnswerOK(p)'
  BY <1>1 DEF AnswerOK, PollerOK, DraftOK, Status, Over
<1>4. DraftOK(p)'
  BY <1>1 DEF DraftOK
<1>5. FloorOK(p)'
  BY <1>1 DEF PollerOK, FloorOK
<1>. QED BY <1>2, <1>3, <1>4, <1>5 DEF PollerOK

LEMMA ReadFailedStep ==
  ASSUME PollInv, NEW p \in Poller, ReadFailed(p)
  PROVE  TypeOK' /\ Only(p) /\ PollerOK(p)'
<1>1. /\ TypeOK /\ PollerOK(p) /\ reader[p] = "failed?"
      /\ UNCHANGED <<held, job, writer, draft, floor>>
      /\ UNCHANGED <<status, output, error, known>>
      /\ draft \in [Poller -> Envelope]
  BY DEF PollInv, ReadFailed, TypeOK, job
<1>2. CASE status = "FAILED"
  <2>1. answer' = answer /\ reader' = [reader EXCEPT ![p] = "error"]
    BY <1>2 DEF ReadFailed
  <2>2. TypeOK' /\ Only(p) /\ reader'[p] = "error"
    BY <1>1, <2>1, MoveOn
  <2>3. AnswerOK(p)'
    BY <1>1, <2>1, <2>2 DEF PollerOK, AnswerOK
  <2>4. DraftOK(p)'
    BY <1>1, <1>2, <2>2 DEF PollerOK, DraftOK
  <2>5. FloorOK(p)'
    BY <1>1, <2>1, <2>2 DEF PollerOK, FloorOK
  <2>. QED BY <2>2, <2>3, <2>4, <2>5 DEF PollerOK
<1>3. CASE status # "FAILED"
  <2>1. Reply(p, draft[p]) /\ draft[p] \in Envelope
    BY <1>1, <1>3 DEF ReadFailed
  <2>2. /\ draft[p].status = "COMPLETED" => draft[p].output
        /\ draft[p].output => status = "COMPLETED"
        /\ ~draft[p].error
    BY <1>1 DEF PollerOK, DraftOK
  <2>. QED BY <1>1, <2>1, <2>2, Sends
<1>. QED BY <1>2, <1>3

LEMMA ReadErrorStep ==
  ASSUME PollInv, NEW p \in Poller, ReadError(p)
  PROVE  TypeOK' /\ Only(p) /\ PollerOK(p)'
<1>. DEFINE e == [draft[p] EXCEPT !.error = error]
<1>1. /\ PollerOK(p) /\ reader[p] = "error" /\ error \in BOOLEAN
      /\ UNCHANGED <<held, job, writer, draft, floor>>
      /\ draft[p] \in Envelope /\ Reply(p, e)
  BY DEF PollInv, ReadError, TypeOK
<1>2. e \in Envelope /\ e.status = draft[p].status /\ e.output = draft[p].output
  BY <1>1 DEF Envelope
<1>. HIDE DEF e
<1>3. status = "FAILED" /\ draft[p].status # "COMPLETED" /\ ~draft[p].output
  BY <1>1 DEF PollerOK, DraftOK, Over
<1>. QED BY <1>1, <1>2, <1>3, Sends

-----------------------------------------------------------------------------
LEMMA InitPollInv == Init => PollInv
<1>. SUFFICES ASSUME Init PROVE PollInv
  OBVIOUS
<1>1. /\ "nothing" \in Told /\ Rank("nothing") <= Rank("IN_QUEUE")
      /\ Bare("nothing") \in Envelope /\ Bare("nothing").status = "nothing"
      /\ ~Bare("nothing").output /\ ~Bare("nothing").error
  BY BareIsEnvelope, RankFacts DEF Told
<1>2. TypeOK
  BY <1>1 DEF Init, TypeOK, Status
<1>3. SectionOK
  BY DEF Init, SectionOK
<1>4. ASSUME NEW p \in Poller PROVE PollerOK(p)
  <2>1. answer[p] = Bare("nothing") /\ reader[p] = "idle" /\ floor[p] = {}
    BY DEF Init
  <2>2. AnswerOK(p)
    BY <1>1, <2>1 DEF Init, AnswerOK, Over
  <2>. QED BY <2>1, <2>2 DEF PollerOK, DraftOK, FloorOK
<1>. QED BY <1>2, <1>3, <1>4 DEF PollInv

LEMMA NextPollInv == PollInv /\ [Next]_vars => PollInv'
<1>. SUFFICES ASSUME PollInv, [Next]_vars PROVE PollInv'
  OBVIOUS
<1>1. CASE Writer
  <2>1. TypeOK' /\ UNCHANGED <<reader, draft, answer, floor>> /\ SectionOK' /\ Forward
    BY <1>1, WriterTypes, WriterForward DEF PollInv, poll
  <2>2. ASSUME NEW p \in Poller PROVE PollerOK(p)'
    BY <2>1, ForwardKeeps
  <2>. QED BY <2>1, <2>2 DEF PollInv
<1>2. ASSUME NEW p \in Poller,
             \/ Get(p) \/ ReadStatus(p) \/ ReadCompleted(p) \/ ReadOutput(p)
             \/ ReadFailed(p) \/ ReadError(p)
      PROVE  PollInv'
  <2>1. TypeOK' /\ Only(p) /\ PollerOK(p)'
    BY <1>2, GetStep, ReadStatusStep, ReadCompletedStep, ReadOutputStep, ReadFailedStep,
       ReadErrorStep
  <2>. QED BY <2>1, OnlyKeeps
<1>3. CASE UNCHANGED vars
  <2>1. /\ UNCHANGED <<held, status, output, error, known, writer, reader, draft, answer, floor>>
        /\ UNCHANGED job
    BY <1>3 DEF vars, job, poll
  <2>2. TypeOK' /\ SectionOK' /\ Forward
    BY <2>1, StandsStill DEF PollInv, TypeOK, SectionOK
  <2>3. ASSUME NEW p \in Poller PROVE PollerOK(p)'
    BY <2>1, <2>2, ForwardKeeps
  <2>. QED BY <2>2, <2>3 DEF PollInv
<1>. QED BY <1>1, <1>2, <1>3 DEF Next

LEMMA PollInductive == Spec => []PollInv
BY InitPollInv, NextPollInv, PTL DEF Spec

-----------------------------------------------------------------------------
(* What follows, for any number of pollers. *)

\* The state has its types, and the lock is held exactly while a section is under way.
THEOREM TypeCorrect == Spec => []TypeOK
BY PollInductive, PTL DEF PollInv

\* Envelopes put together from torn reads (Job.status_dict) are true of the job.
THEOREM TornReadsAreTrue == Spec => []AnswersAreTrue
<1>1. PollInv => AnswersAreTrue
  BY DEF PollInv, PollerOK, AnswerOK, SectionOK, AnswersAreTrue
<1>. QED BY <1>1, PollInductive, PTL

\* No poller is told less than any poller was told before it asked.
THEOREM PollingIsMonotone == Spec => []AnswersNeverGoBack
<1>1. PollInv => AnswersNeverGoBack
  BY DEF PollInv, PollerOK, FloorOK, AnswersNeverGoBack
<1>. QED BY <1>1, PollInductive, PTL

\* A reason that the first FAILED answer lacks is in the next one (status before error
\* in _run_loop, under the lock that get() takes).
THEOREM ReasonIsInTheNext == Spec => ReasonComesNext
<1>1. ASSUME PollInv, [Next]_vars, NEW p \in Poller,
             answer[p].status = "FAILED", ~answer[p].error,
             reader[p] # "idle", reader'[p] = "idle"
      PROVE  answer'[p].error
  <2>1. TypeOK /\ error /\ status = "FAILED"
    BY <1>1 DEF PollInv, PollerOK, AnswerOK, Over
  <2>2. CASE Writer \/ UNCHANGED vars
    <3>1. reader' = reader
      BY <2>1, <2>2, WriterTypes DEF vars, poll
    <3>. QED BY <3>1, <1>1
  <2>3. ASSUME NEW q \in Poller, q # p,
               \/ Get(q) \/ ReadStatus(q) \/ ReadCompleted(q) \/ ReadOutput(q)
               \/ ReadFailed(q) \/ ReadError(q)
        PROVE  FALSE
    <3>1. Only(q)
      BY <1>1, <2>3, GetStep, ReadStatusStep, ReadCompletedStep, ReadOutputStep, ReadFailedStep,
         ReadErrorStep
    <3>. QED BY <3>1, <2>3, <1>1 DEF Only
  <2>4. CASE Get(p) \/ ReadStatus(p) \/ ReadCompleted(p) \/ ReadOutput(p) \/ ReadFailed(p)
    <3>1. reader'[p] # "idle"
      BY <1>1, <2>1, <2>4 DEF TypeOK, Get, ReadStatus, ReadCompleted, ReadOutput, ReadFailed
    <3>. QED BY <3>1, <1>1
  <2>5. CASE ReadError(p)
    <3>1. /\ answer' = [answer EXCEPT ![p] = [draft[p] EXCEPT !.error = error]]
          /\ draft[p] \in Envelope /\ answer \in [Poller -> Envelope]
      BY <2>1, <2>5 DEF ReadError, Reply, TypeOK
    <3>2. answer'[p] = [draft[p] EXCEPT !.error = error]
      BY <3>1
    <3>. QED BY <2>1, <3>1, <3>2 DEF Envelope
  <2>. QED BY <1>1, <2>2, <2>3, <2>4, <2>5 DEF Next
<1>. DEFINE A == \A p \in Poller :
                   /\ answer[p].status = "FAILED" /\ ~answer[p].error
                   /\ reader[p] # "idle" /\ reader'[p] = "idle"
                   => answer'[p].error
<1>2. PollInv /\ [Next]_vars => A
  BY <1>1
<1>. HIDE DEF A
<1>3. Spec => [][A]_vars
  BY <1>2, PollInductive, PTL DEF Spec
<1>. QED BY <1>3 DEF A, ReasonComesNext
=============================================================================
