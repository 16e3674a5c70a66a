---------------------- MODULE ApprovalOrchestratorProofs ----------------------
(***************************************************************************)
(* Theorems about ApprovalOrchestrator, for any number of requests, drains,*)
(* humans and channels:                                                    *)
(*   - the types of its variables;                                         *)
(*   - the approvers a run holds, one request at a time and none for ever; *)
(*   - the waits its channels have registered, which die with the run;     *)
(*   - the votes of a quorum, which come from its own team;                *)
(*   - what was published before a caller has its answer, and how often;   *)
(*   - the queue of requests without an approver, which loses nobody;      *)
(*   - the implementation of ApprovalLifecycle.                            *)
(***************************************************************************)
EXTENDS ApprovalOrchestrator, SequenceTheorems, TLAPS

\* A drain that runs a request has one at the head of its snapshot.
JobOK ==
    \A d \in Drains : pc[d] \in Running \cup {"taken"} => todo[d] # <<>>

\* A sequential run that notifies is on a channel of its chain.
RungOK ==
    \A p \in Procs : pc[p] = "ring" => rung[p] \in DOMAIN Chain[Job(p)]

TypeInv == TypeOK /\ JobOK /\ RungOK

USE DEF book, run, chans, outs, env

-----------------------------------------------------------------------------
(* Facts about the operators *)

\* What a process works on is a request, under the invariant.
LEMMA JobIsRequest ==
    ASSUME TypeInv, NEW p \in Procs, p \in Requests \/ pc[p] \in Running \cup {"taken"}
    PROVE  Job(p) \in Requests
<1>1. CASE p \in Requests
  BY <1>1 DEF Job
<1>2. CASE p \notin Requests
  <2>1. p \in Drains /\ todo[p] \in Seq(Requests) /\ todo[p] # <<>>
    BY <1>2 DEF TypeInv, TypeOK, JobOK, Procs
  <2>2. QED
    BY <2>1, <1>2 DEF Job
<1>3. QED
  BY <1>1, <1>2

\* The keys a run awaits are keys.
LEMMA AssignmentsAreKeys ==
    ASSUME ConstantsAssumption, NEW r \in Requests, NEW hs \in SUBSET Humans
    PROVE  Assignments(r, hs) \subseteq Keys
<1>1. Chain[r] \in Seq(Channels)
  BY DEF ConstantsAssumption
<1>2. Links(r) \subseteq Channels
  BY <1>1 DEF Links
<1>3. QED
  BY <1>2 DEF Assignments, Keys, Key

\* Removing a request from the queue leaves a queue of requests.
LEMMA WithoutIsSeq ==
    ASSUME NEW S, NEW q \in Seq(S), NEW r
    PROVE  Without(q, r) \in Seq(S)
<1>1. CASE Places(q, r) = {}
  BY <1>1 DEF Without
<1>2. CASE Places(q, r) # {}
  <2> DEFINE i == CHOOSE j \in Places(q, r) : TRUE
  <2>1. i \in Places(q, r)
    BY <1>2
  <2> HIDE DEF i
  <2>2. i \in 1 .. Len(q)
    BY <2>1 DEF Places
  <2>3. SubSeq(q, 1, i - 1) \in Seq(S)
    BY <2>2
  <2>4. SubSeq(q, i + 1, Len(q)) \in Seq(S)
    BY <2>2
  <2>5. SubSeq(q, 1, i - 1) \o SubSeq(q, i + 1, Len(q)) \in Seq(S)
    BY <2>3, <2>4
  <2>6. QED
    BY <2>5, <1>2 DEF Without, i
<1>3. QED
  BY <1>1, <1>2

-----------------------------------------------------------------------------
(* Type correctness *)

\* The names used for statuses, places, verdicts and events are of their types,
\* and only some places belong to a run.
LEMMA Names ==
    /\ {"unknown", "available", "busy"} \subseteq Statuses
    /\ {"new", "announce", "parked", "failed", "done", "idle", "probe", "taken",
        "notify", "ring", "wait", "resolve", "approve", "expire", "release", "free"}
         \subseteq PCs
    /\ {"none", "approved", "rejected", "null", "error"} \subseteq Verdicts
    /\ {"queued", "resolved_yes", "resolved_no", "order", "timeout"} \subseteq Events
BY DEF Statuses, PCs, Running, Verdicts, Events

LEMMA RunningNames ==
    /\ {"notify", "ring", "wait", "resolve", "approve", "expire", "release", "free"} \subseteq Running
    /\ \A s \in {"new", "announce", "parked", "failed", "done", "idle", "probe", "taken"} :
          s \notin Running
BY DEF Running

\* What the operators shared by several actions do to the types.
LEMMA StatusTypes ==
    ASSUME TypeOK, NEW hs, NEW st \in Statuses, SetStatus(hs, st)
    PROVE  presence' \in [Humans -> Statuses]
BY DEF TypeOK, SetStatus

LEMMA BusyTypes ==
    ASSUME TypeOK, NEW hs, MarkBusy(hs)
    PROVE  presence' \in [Humans -> Statuses]
<1>1. CASE PresenceRouting
  BY <1>1, StatusTypes, Names DEF MarkBusy
<1>2. CASE ~PresenceRouting
  BY <1>2 DEF MarkBusy, TypeOK
<1>3. QED
  BY <1>1, <1>2

LEMMA TeamTypes ==
    ASSUME NEW r \in Requests, NEW hs \in Teams(r)
    PROVE  hs \in SUBSET Humans
<1>1. Fallback[r] \in Humans /\ Eligible[r] \subseteq Humans
  BY ConstantsAssumption
<1>2. QED
  BY <1>1 DEF Teams, Available, ConstantsAssumption

LEMMA StartTypes ==
    ASSUME TypeOK, NEW p \in Procs, NEW r, NEW hs \in SUBSET Humans, StartRun(p, r, hs)
    PROVE  /\ pc' \in [Procs -> PCs]
           /\ team' \in [Procs -> SUBSET Humans]
           /\ rung' \in [Procs -> Nat]
<1>1. FirstStop(r) \in PCs
  BY Names DEF FirstStop
<1>2. QED
  BY <1>1 DEF TypeOK, StartRun

LEMMA DrainTypes ==
    ASSUME TypeOK, NEW queue \in Seq(Requests), NEW pc0 \in [Procs -> PCs],
           StartDrain(queue, pc0)
    PROVE  pc' \in [Procs -> PCs] /\ todo' \in [Procs -> Seq(Requests)]
<1>0. todo \in [Procs -> Seq(Requests)]
  BY DEF TypeOK
<1>1. CASE pc' = pc0 /\ UNCHANGED todo
  BY <1>0, <1>1
<1>2. ASSUME NEW d \in Drains, pc' = [pc0 EXCEPT ![d] = "probe"],
             todo' = [todo EXCEPT ![d] = queue]
      PROVE  pc' \in [Procs -> PCs] /\ todo' \in [Procs -> Seq(Requests)]
  BY <1>0, <1>2, Names DEF Procs
<1>3. QED
  BY <1>1, <1>2 DEF StartDrain

LEMMA PublishTypes ==
    ASSUME TypeOK, NEW p, Job(p) \in Requests, NEW e \in Events, Publish(p, e)
    PROVE  log' \in [Requests -> Seq(Events)]
<1>1. log[Job(p)] \in Seq(Events)
  BY DEF TypeOK
<1>2. Append(log[Job(p)], e) \in Seq(Events)
  BY <1>1
<1>3. QED
  BY <1>2 DEF TypeOK, Publish

LEMMA ForgetTypes ==
    ASSUME TypeOK, NEW p, Forget(p)
    PROVE  /\ rung' \in [Procs -> Nat]
           /\ ayes' \in [Procs -> SUBSET (Humans \cup {None})]
           /\ verdict' \in [Procs -> Verdicts]
BY Names DEF TypeOK, Forget

LEMMA InitTypes == Init => TypeInv
<1> SUFFICES ASSUME Init PROVE TypeInv
  OBVIOUS
<1>1. /\ presence \in [Humans -> Statuses]
      /\ pending \in Seq(Requests)
      /\ pc \in [Procs -> PCs]
      /\ todo \in [Procs -> Seq(Requests)]
  BY Names DEF Init
<1>2. /\ team \in [Procs -> SUBSET Humans]
      /\ rung \in [Procs -> Nat]
      /\ asked \in [Procs -> SUBSET Keys]
      /\ open \in [Procs -> SUBSET Keys]
      /\ inbox \in [Procs -> SUBSET Messages]
      /\ ayes \in [Procs -> SUBSET (Humans \cup {None})]
      /\ verdict \in [Procs -> Verdicts]
  BY Names DEF Init
<1>3. waits \in [Keys -> Procs \cup {None}] /\ armed \subseteq Procs \X Keys
  BY DEF Init
<1>4. log \in [Requests -> Seq(Events)] /\ answer \in [Requests -> Verdicts]
  <2>1. <<>> \in Seq(Events)
    OBVIOUS
  <2>2. QED
    BY <2>1, Names DEF Init
<1>5. disposed \in BOOLEAN /\ events \in Nat /\ faults \in Nat
  BY DEF Init
<1>6. JobOK /\ RungOK
  BY RunningNames, ConstantsAssumption DEF Init, JobOK, RungOK, Procs
<1>7. QED
  BY <1>1, <1>2, <1>3, <1>4, <1>5, <1>6 DEF TypeInv, TypeOK

\* One step of an activation of orchestrate(r) keeps the types.
LEMMA CallTypes ==
    ASSUME TypeInv, NEW r \in Requests, Arrive(r) \/ CallStep(r) \/ AnnounceFails(r)
    PROVE  TypeOK'
<1> USE DEF TypeInv
<1>0. r \in Procs /\ Job(r) = r
  BY DEF Procs, Job
<1>1. CASE Refuse(r)
  BY <1>0, <1>1, Names DEF Refuse, TypeOK
<1>2. CASE Dispatch(r)
  <2>1. PICK hs \in Teams(r) : MarkBusy(hs) /\ StartRun(r, r, hs)
    BY <1>2 DEF Dispatch
  <2>2. /\ pc' \in [Procs -> PCs]
        /\ team' \in [Procs -> SUBSET Humans]
        /\ rung' \in [Procs -> Nat]
        /\ presence' \in [Humans -> Statuses]
    BY <1>0, <2>1, TeamTypes, StartTypes, BusyTypes
  <2>3. QED
    BY <2>2, <1>2 DEF Dispatch, TypeOK
<1>3. CASE Enqueue(r)
  BY <1>0, <1>3, Names DEF Enqueue, TypeOK
<1>4. CASE Announced(r)
  <2>1. [pc EXCEPT ![r] = "parked"] \in [Procs -> PCs]
    BY Names DEF TypeOK
  <2>2. pc' \in [Procs -> PCs] /\ todo' \in [Procs -> Seq(Requests)]
    BY <2>1, <1>4, DrainTypes DEF Announced, TypeOK
  <2>3. QED
    BY <2>2, <1>4 DEF Announced, TypeOK
<1>5. CASE Return(r)
  <2>1. /\ rung' \in [Procs -> Nat]
        /\ ayes' \in [Procs -> SUBSET (Humans \cup {None})]
        /\ verdict' \in [Procs -> Verdicts]
    BY <1>5, ForgetTypes DEF Return
  <2>2. pc' \in [Procs -> PCs] /\ answer' \in [Requests -> Verdicts]
    BY <1>0, <1>5, Names DEF Return, TypeOK
  <2>3. QED
    BY <2>1, <2>2, <1>5 DEF Return, TypeOK
<1>6. CASE Fail(r)
  <2>1. log' \in [Requests -> Seq(Events)]
    BY <1>0, <1>6, PublishTypes, Names DEF Fail, TypeOK
  <2>2. QED
    BY <2>1, <1>6, Names DEF Fail, TypeOK
<1>7. CASE Unpark(r)
  BY <1>0, <1>7, Names DEF Unpark, TypeOK
<1>8. CASE AnnounceFails(r)
  BY <1>0, <1>8, Names DEF AnnounceFails, TypeOK
<1>9. QED
  BY <1>1, <1>2, <1>3, <1>4, <1>5, <1>6, <1>7, <1>8 DEF Arrive, CallStep
\* One step of the drain loop keeps the types.
LEMMA DrainStepTypes ==
    ASSUME TypeInv, NEW d \in Drains, DrainStep(d)
    PROVE  TypeOK'
<1>0. d \in Procs /\ todo[d] \in Seq(Requests) /\ team[d] \in SUBSET Humans
  BY DEF Procs, TypeInv, TypeOK
<1>1. todo[d] # <<>> => Tail(todo[d]) \in Seq(Requests) /\ Job(d) \in Requests
  <2>1. todo[d] # <<>> => Tail(todo[d]) \in Seq(Requests) /\ Head(todo[d]) \in Requests
    BY <1>0
  <2>2. QED
    BY <2>1, ConstantsAssumption DEF Job
<1>2. CASE DrainSkip(d)
  BY <1>0, <1>1, <1>2 DEF DrainSkip, TypeInv, TypeOK
<1>3. CASE DrainTake(d)
  <2>1. PICK hs \in Teams(Job(d)) : MarkBusy(hs) /\ team' = [team EXCEPT ![d] = hs]
    BY <1>3 DEF DrainTake
  <2>2. hs \in SUBSET Humans
    BY <1>1, <1>3, TeamTypes DEF DrainTake
  <2>3. team' \in [Procs -> SUBSET Humans] /\ presence' \in [Humans -> Statuses]
    BY <2>1, <2>2, BusyTypes DEF TypeInv, TypeOK
  <2>4. QED
    BY <2>3, <1>3, Names DEF DrainTake, TypeInv, TypeOK
<1>4. CASE DrainStart(d)
  <2>1. pending' \in Seq(Requests)
    BY <1>4, WithoutIsSeq DEF DrainStart, TypeInv, TypeOK
  <2>2. /\ pc' \in [Procs -> PCs]
        /\ team' \in [Procs -> SUBSET Humans]
        /\ rung' \in [Procs -> Nat]
    BY <1>0, <1>4, StartTypes DEF DrainStart, TypeInv
  <2>3. QED
    BY <2>1, <2>2, <1>4 DEF DrainStart, TypeInv, TypeOK
<1>5. CASE DrainQuorum(d)
  <2>1. PICK hs \in Teams(Job(d)) : MarkBusy(hs) /\ StartRun(d, Job(d), hs)
    BY <1>5 DEF DrainQuorum
  <2>2. hs \in SUBSET Humans
    BY <1>1, <1>5, TeamTypes DEF DrainQuorum
  <2>3. /\ pc' \in [Procs -> PCs]
        /\ team' \in [Procs -> SUBSET Humans]
        /\ rung' \in [Procs -> Nat]
        /\ presence' \in [Humans -> Statuses]
    BY <1>0, <2>1, <2>2, StartTypes, BusyTypes DEF TypeInv
  <2>4. pending' \in Seq(Requests)
    BY <1>5, WithoutIsSeq DEF DrainQuorum, TypeInv, TypeOK
  <2>5. QED
    BY <2>3, <2>4, <1>5 DEF DrainQuorum, TypeInv, TypeOK
<1>6. CASE DrainEnd(d)
  BY <1>0, <1>6, Names DEF DrainEnd, TypeInv, TypeOK
<1>7. CASE DrainNext(d)
  <2>1. todo[d] # <<>>
    BY <1>7, RunningNames DEF DrainNext, TypeInv, JobOK
  <2>2. todo' \in [Procs -> Seq(Requests)]
    <3>1. todo \in [Procs -> Seq(Requests)] /\ Tail(todo[d]) \in Seq(Requests)
      BY <1>1, <2>1 DEF TypeInv, TypeOK
    <3>2. \A s \in Seq(Requests) : [todo EXCEPT ![d] = s] \in [Procs -> Seq(Requests)]
      BY <3>1
    <3>3. <<>> \in Seq(Requests)
      OBVIOUS
    <3>4. \E s \in Seq(Requests) : todo' = [todo EXCEPT ![d] = s]
      BY <3>1, <3>3, <1>7 DEF DrainNext
    <3>5. QED
      BY <3>2, <3>4
  <2>5. pc' \in [Procs -> PCs]
    BY <1>0, <1>7, Names DEF DrainNext, TypeInv, TypeOK
  <2>3. /\ rung' \in [Procs -> Nat]
        /\ ayes' \in [Procs -> SUBSET (Humans \cup {None})]
        /\ verdict' \in [Procs -> Verdicts]
    BY <1>7, ForgetTypes DEF DrainNext, TypeInv
  <2>4. QED
    BY <2>2, <2>3, <2>5, <1>7 DEF DrainNext, TypeInv, TypeOK
<1>8. QED
  BY <1>2, <1>3, <1>4, <1>5, <1>6, <1>7 DEF DrainStep

-----------------------------------------------------------------------------
(* The channels' waits keep their types *)

LEMMA NoteTypes ==
    ASSUME NEW k \in Keys, NEW h \in Humans \cup {None}, NEW v \in {"yes", "no", "none"}
    PROVE  Note(k, h, v) \in Messages
BY DEF Note, Messages

LEMMA CleanupTypes ==
    ASSUME TypeOK, NEW ks, Cleanup(ks)
    PROVE  waits' \in [Keys -> Procs \cup {None}] /\ armed' \subseteq Procs \X Keys
BY DEF TypeOK, Cleanup

LEMMA CancelledTypes ==
    ASSUME NEW q, NEW ks \in SUBSET Keys
    PROVE  NoAnswers(Cancelled(q, ks)) \subseteq Messages
<1>1. Cancelled(q, ks) \subseteq Keys
  BY DEF Cancelled
<1>2. QED
  BY <1>1, NoteTypes DEF NoAnswers

LEMMA AwaitTypes ==
    ASSUME TypeOK, NEW p \in Procs, NEW ok \in SUBSET Keys, NEW failed \in SUBSET Keys,
           AwaitOnly(p, ok, failed)
    PROVE  /\ waits' \in [Keys -> Procs \cup {None}]
           /\ armed' \subseteq Procs \X Keys
           /\ asked' \in [Procs -> SUBSET Keys]
           /\ open' \in [Procs -> SUBSET Keys]
           /\ inbox' \in [Procs -> SUBSET Messages]
<1>1. waits' \in [Keys -> Procs \cup {None}]
  BY DEF TypeOK, AwaitOnly
<1>2. armed' \subseteq Procs \X Keys
  BY DEF TypeOK, AwaitOnly
<1>3. asked' \in [Procs -> SUBSET Keys] /\ open' \in [Procs -> SUBSET Keys]
  BY DEF TypeOK, AwaitOnly
<1>4. \A q \in Procs : inbox[q] \cup NoAnswers(Cancelled(q, failed)) \in SUBSET Messages
  BY CancelledTypes DEF TypeOK
<1>5. inbox' \in [Procs -> SUBSET Messages]
  BY <1>4 DEF AwaitOnly
<1>6. QED
  BY <1>1, <1>2, <1>3, <1>5

LEMMA SettleTypes ==
    ASSUME TypeOK, NEW p \in Procs, NEW v \in Verdicts, Settle(p, v)
    PROVE  /\ waits' \in [Keys -> Procs \cup {None}]
           /\ armed' \subseteq Procs \X Keys
           /\ asked' \in [Procs -> SUBSET Keys]
           /\ open' \in [Procs -> SUBSET Keys]
           /\ inbox' \in [Procs -> SUBSET Messages]
           /\ verdict' \in [Procs -> Verdicts]
           /\ pc' \in [Procs -> PCs]
<1>1. asked[p] \in SUBSET Keys
  BY DEF TypeOK
<1>2. waits' \in [Keys -> Procs \cup {None}] /\ armed' \subseteq Procs \X Keys
  BY CleanupTypes DEF Settle
<1>3. asked' \in [Procs -> SUBSET Keys] /\ open' \in [Procs -> SUBSET Keys]
  BY DEF TypeOK, Settle
<1>4. \A q \in Procs : inbox[q] \cup NoAnswers(Cancelled(q, asked[p])) \in SUBSET Messages
  BY <1>1, CancelledTypes DEF TypeOK
<1>5. inbox' \in [Procs -> SUBSET Messages]
  BY <1>4 DEF Settle
<1>6. verdict' \in [Procs -> Verdicts] /\ pc' \in [Procs -> PCs]
  BY Names DEF TypeOK, Settle
<1>7. QED
  BY <1>2, <1>3, <1>5, <1>6

-----------------------------------------------------------------------------
(* The steps of a run keep the types *)

\* Where a run is when it takes a step, and what it works on.
LEMMA RunJob ==
    ASSUME TypeInv, NEW p \in Procs,
           pc[p] \in Running
    PROVE  /\ Job(p) \in Requests
           /\ Chain[Job(p)] \in Seq(Channels)
           /\ team[p] \in SUBSET Humans
           /\ asked[p] \in SUBSET Keys
           /\ open[p] \in SUBSET Keys
           /\ inbox[p] \in SUBSET Messages
<1>1. Job(p) \in Requests
  BY JobIsRequest
<1>2. QED
  BY <1>1, ConstantsAssumption DEF TypeInv, TypeOK

LEMMA EscalateTypes ==
    ASSUME TypeOK, NEW p \in Procs, Escalate(p)
    PROVE  rung' \in [Procs -> Nat] /\ pc' \in [Procs -> PCs]
<1>1. CASE rung' = [rung EXCEPT ![p] = rung[p] + 1] /\ pc' = [pc EXCEPT ![p] = "ring"]
  BY <1>1, Names DEF TypeOK
<1>2. CASE pc' = [pc EXCEPT ![p] = "expire"] /\ UNCHANGED rung
  BY <1>2, Names DEF TypeOK
<1>3. QED
  BY <1>1, <1>2 DEF Escalate

\* The key a sequential run rings is a key.
LEMMA RungKeyIsKey ==
    ASSUME TypeInv, NEW p \in Procs, pc[p] = "ring"
    PROVE  RungKey(p) \in Keys
<1>1. Job(p) \in Requests /\ Chain[Job(p)] \in Seq(Channels)
  BY RunJob, RunningNames
<1>2. rung[p] \in DOMAIN Chain[Job(p)]
  BY DEF TypeInv, RungOK
<1>3. Chain[Job(p)][rung[p]] \in Channels
  BY <1>1, <1>2
<1>4. QED
  BY <1>1, <1>3 DEF RungKey, Key, Keys

LEMMA NotifyStepTypes ==
    ASSUME TypeInv, NEW p \in Procs, Notified(p) \/ Rang(p) \/ RingFailed(p)
    PROVE  TypeOK'
<1>0. TypeOK
  BY DEF TypeInv
<1>1. CASE Notified(p)
  <2>1. pc[p] \in Running
    BY <1>1, RunningNames DEF Notified
  <2>2. PICK ok \in SUBSET Assignments(Job(p), team[p]) :
            /\ AwaitOnly(p, ok, Assignments(Job(p), team[p]) \ ok)
            /\ pc' = [pc EXCEPT ![p] = IF ok = {} THEN "expire" ELSE "wait"]
    BY <1>1 DEF Notified
  <2>3. Assignments(Job(p), team[p]) \subseteq Keys
    BY <2>1, RunJob, AssignmentsAreKeys, ConstantsAssumption
  <2>4. ok \in SUBSET Keys /\ Assignments(Job(p), team[p]) \ ok \in SUBSET Keys
    BY <2>3
  <2>5. /\ waits' \in [Keys -> Procs \cup {None}]
        /\ armed' \subseteq Procs \X Keys
        /\ asked' \in [Procs -> SUBSET Keys]
        /\ open' \in [Procs -> SUBSET Keys]
        /\ inbox' \in [Procs -> SUBSET Messages]
    BY <1>0, <2>2, <2>4, AwaitTypes
  <2>6. pc' \in [Procs -> PCs]
    BY <1>0, <2>2, Names DEF TypeOK
  <2>7. QED
    BY <1>0, <1>1, <2>5, <2>6 DEF Notified, TypeOK
<1>2. CASE Rang(p)
  <2>1. RungKey(p) \in Keys /\ AwaitOnly(p, {RungKey(p)}, {})
    BY <1>2, RungKeyIsKey DEF Rang
  <2>5. {RungKey(p)} \in SUBSET Keys /\ {} \in SUBSET Keys
    BY <2>1
  <2>2. /\ waits' \in [Keys -> Procs \cup {None}]
        /\ armed' \subseteq Procs \X Keys
        /\ asked' \in [Procs -> SUBSET Keys]
        /\ open' \in [Procs -> SUBSET Keys]
        /\ inbox' \in [Procs -> SUBSET Messages]
    BY <1>0, <2>1, <2>5, AwaitTypes
  <2>3. pc' \in [Procs -> PCs]
    BY <1>0, <1>2, Names DEF Rang, TypeOK
  <2>4. QED
    BY <1>0, <1>2, <2>2, <2>3 DEF Rang, TypeOK
<1>3. CASE RingFailed(p)
  <2>1. RungKey(p) \in Keys /\ AwaitOnly(p, {}, {RungKey(p)})
    BY <1>3, RungKeyIsKey DEF RingFailed
  <2>2. /\ waits' \in [Keys -> Procs \cup {None}]
        /\ armed' \subseteq Procs \X Keys
        /\ asked' \in [Procs -> SUBSET Keys]
        /\ open' \in [Procs -> SUBSET Keys]
        /\ inbox' \in [Procs -> SUBSET Messages]
    BY <1>0, <2>1, AwaitTypes
  <2>3. rung' \in [Procs -> Nat] /\ pc' \in [Procs -> PCs]
    BY <1>0, <1>3, EscalateTypes DEF RingFailed
  <2>4. QED
    BY <1>0, <1>3, <2>2, <2>3 DEF RingFailed, TypeOK
<1>4. QED
  BY <1>1, <1>2, <1>3

LEMMA CountTypes ==
    ASSUME TypeOK, NEW p \in Procs, NEW m, Count(p, m)
    PROVE  /\ inbox' \in [Procs -> SUBSET Messages]
           /\ UNCHANGED <<pc, asked, open, verdict, waits, armed>>
BY DEF TypeOK, Count

LEMMA HandleParallelTypes ==
    ASSUME TypeInv, NEW p \in Procs, HandleParallel(p)
    PROVE  TypeOK'
<1>0. TypeOK
  BY DEF TypeInv
<1>1. CASE \E v \in Verdicts : Settle(p, v)
  <2>1. PICK v \in Verdicts : Settle(p, v)
    BY <1>1
  <2>2. /\ waits' \in [Keys -> Procs \cup {None}]
        /\ armed' \subseteq Procs \X Keys
        /\ asked' \in [Procs -> SUBSET Keys]
        /\ open' \in [Procs -> SUBSET Keys]
        /\ inbox' \in [Procs -> SUBSET Messages]
        /\ verdict' \in [Procs -> Verdicts]
        /\ pc' \in [Procs -> PCs]
    BY <1>0, <2>1, SettleTypes
  <2>3. QED
    BY <1>0, <2>2 DEF HandleParallel, TypeOK
<1>2. CASE \E m \in inbox[p] : Count(p, m)
  <2>1. /\ inbox' \in [Procs -> SUBSET Messages]
        /\ UNCHANGED <<pc, asked, open, verdict, waits, armed>>
    BY <1>0, <1>2, CountTypes
  <2>2. QED
    BY <1>0, <2>1 DEF HandleParallel, TypeOK
<1>3. \/ \E m \in inbox[p] : Settle(p, VerdictOf(m.vote)) \/ Settle(p, "null")
      \/ \E m \in inbox[p] : Count(p, m)
  BY DEF HandleParallel
<1>4. \A m : VerdictOf(m.vote) \in Verdicts
  BY Names DEF VerdictOf
<1>5. QED
  BY <1>1, <1>2, <1>3, <1>4, Names

LEMMA HandleSequentialTypes ==
    ASSUME TypeInv, NEW p \in Procs, HandleSequential(p)
    PROVE  TypeOK'
<1>0. TypeOK
  BY DEF TypeInv
<1>1. asked' \in [Procs -> SUBSET Keys] /\ inbox' \in [Procs -> SUBSET Messages]
  BY <1>0 DEF HandleSequential, TypeOK
<1>2. PICK m \in inbox[p] :
         \/ /\ verdict' = [verdict EXCEPT ![p] = VerdictOf(m.vote)]
            /\ pc' = [pc EXCEPT ![p] = "resolve"]
            /\ UNCHANGED rung
         \/ /\ Escalate(p)
            /\ UNCHANGED verdict
  BY DEF HandleSequential
<1>3. VerdictOf(m.vote) \in Verdicts
  BY Names DEF VerdictOf
<1>4. /\ verdict' \in [Procs -> Verdicts]
      /\ pc' \in [Procs -> PCs]
      /\ rung' \in [Procs -> Nat]
  <2>1. CASE Escalate(p) /\ UNCHANGED verdict
    BY <1>0, <2>1, EscalateTypes DEF TypeOK
  <2>2. CASE /\ verdict' = [verdict EXCEPT ![p] = VerdictOf(m.vote)]
             /\ pc' = [pc EXCEPT ![p] = "resolve"]
             /\ UNCHANGED rung
    BY <1>0, <1>3, <2>2, Names DEF TypeOK
  <2>3. QED
    BY <1>2, <2>1, <2>2
<1>5. QED
  BY <1>0, <1>1, <1>4 DEF HandleSequential, TypeOK

LEMMA HandleQuorumTypes ==
    ASSUME TypeInv, NEW p \in Procs, HandleQuorum(p)
    PROVE  TypeOK'
<1>0. TypeOK
  BY DEF TypeInv
<1>1. PICK m \in inbox[p] :
         /\ \/ UNCHANGED ayes
            \/ ayes' = [ayes EXCEPT ![p] = AyesWith(p, m)]
         /\ \/ Settle(p, "rejected") \/ Settle(p, "approved") \/ Settle(p, "null")
            \/ Count(p, m)
  BY DEF HandleQuorum
<1>2. m.who \in Humans \cup {None}
  BY <1>0 DEF TypeOK, Messages
<1>3. AyesWith(p, m) \in SUBSET (Humans \cup {None})
  BY <1>0, <1>2 DEF AyesWith, TypeOK
<1>4. ayes' \in [Procs -> SUBSET (Humans \cup {None})]
  BY <1>0, <1>1, <1>3 DEF TypeOK
<1>5. /\ waits' \in [Keys -> Procs \cup {None}]
      /\ armed' \subseteq Procs \X Keys
      /\ asked' \in [Procs -> SUBSET Keys]
      /\ open' \in [Procs -> SUBSET Keys]
      /\ inbox' \in [Procs -> SUBSET Messages]
      /\ verdict' \in [Procs -> Verdicts]
      /\ pc' \in [Procs -> PCs]
  <2>1. CASE Count(p, m)
    BY <1>0, <2>1, CountTypes DEF TypeOK
  <2>2. CASE Settle(p, "rejected") \/ Settle(p, "approved") \/ Settle(p, "null")
    BY <1>0, <2>2, SettleTypes, Names
  <2>3. QED
    BY <1>1, <2>1, <2>2
<1>6. QED
  BY <1>0, <1>4, <1>5 DEF HandleQuorum, TypeOK
LEMMA ResolveTypes ==
    ASSUME TypeOK, NEW p, NEW v \in Verdicts, ResolveQueued(p, v)
    PROVE  answer' \in [Requests -> Verdicts]
BY DEF TypeOK, ResolveQueued

LEMMA PublishStepTypes ==
    ASSUME TypeInv, NEW p \in Procs,
           PublishResolved(p) \/ PublishApproved(p) \/ PublishTimeout(p)
    PROVE  TypeOK'
<1>0. TypeOK
  BY DEF TypeInv
<1>1. Job(p) \in Requests
  BY RunJob, RunningNames DEF PublishResolved, PublishApproved, PublishTimeout
<1>2. \E e \in Events : Publish(p, e)
  BY Names DEF PublishResolved, PublishApproved, PublishTimeout
<1>3. log' \in [Requests -> Seq(Events)]
  BY <1>0, <1>1, <1>2, PublishTypes
<1>4. \/ \E v \in Verdicts : ResolveQueued(p, v)
      \/ UNCHANGED answer
  BY Names DEF PublishResolved, PublishApproved, PublishTimeout
<1>5. answer' \in [Requests -> Verdicts]
  BY <1>0, <1>4, ResolveTypes DEF TypeOK
<1>6. \E s \in {"approve", "release"} : pc' = [pc EXCEPT ![p] = s]
  BY DEF PublishResolved, PublishApproved, PublishTimeout
<1>7. pc' \in [Procs -> PCs]
  BY <1>0, <1>6, Names DEF TypeOK
<1>8. verdict' \in [Procs -> Verdicts]
  BY <1>0, Names DEF TypeOK, PublishResolved, PublishApproved, PublishTimeout
<1>9. QED
  BY <1>0, <1>3, <1>5, <1>7, <1>8
  DEF TypeOK, PublishResolved, PublishApproved, PublishTimeout

LEMMA PublishFailsTypes ==
    ASSUME TypeInv, NEW p \in Procs, PublishFails(p)
    PROVE  TypeOK'
<1>0. TypeOK
  BY DEF TypeInv
<1>1. Job(p) \in Requests
  BY RunJob, RunningNames DEF PublishFails
<1>2. EventAt(p) \in Events
  BY Names DEF PublishFails, EventAt
<1>3. log' \in [Requests -> Seq(Events)]
  BY <1>0, <1>1, <1>2, PublishTypes DEF PublishFails
<1>4. pc' \in [Procs -> PCs] /\ verdict' \in [Procs -> Verdicts]
  BY <1>0, Names DEF TypeOK, PublishFails
<1>5. QED
  BY <1>0, <1>3, <1>4 DEF TypeOK, PublishFails

LEMMA ReleaseTypes ==
    ASSUME TypeInv, NEW p \in Procs, Release(p)
    PROVE  TypeOK'
<1>0. TypeOK
  BY DEF TypeInv
<1>1. presence' \in [Humans -> Statuses]
  BY <1>0, StatusTypes, Names DEF Release, TypeOK
<1>2. team' \in [Procs -> SUBSET Humans] /\ pc' \in [Procs -> PCs]
  BY <1>0, Names DEF Release, TypeOK
<1>3. QED
  BY <1>0, <1>1, <1>2 DEF Release, TypeOK

LEMMA DeliverTypes ==
    ASSUME TypeInv, NEW ks, NEW h \in Humans, NEW v \in {"yes", "no"}, Deliver(ks, h, v)
    PROVE  TypeOK'
<1>0. TypeOK
  BY DEF TypeInv
<1>1. waits' \in [Keys -> Procs \cup {None}] /\ armed' \subseteq Procs \X Keys
  BY <1>0, CleanupTypes DEF Deliver
<1>2. open' \in [Procs -> SUBSET Keys]
  BY <1>0 DEF Deliver, TypeOK
<1>3. \A p \in Procs : Heard(p, ks) \subseteq Keys
  BY <1>0 DEF Heard, TypeOK
<1>4. \A p \in Procs : {Note(k, h, v) : k \in Heard(p, ks)} \subseteq Messages
  BY <1>3, NoteTypes
<1>5. inbox' \in [Procs -> SUBSET Messages]
  BY <1>0, <1>4 DEF Deliver, TypeOK
<1>6. QED
  BY <1>0, <1>1, <1>2, <1>5 DEF Deliver, TypeOK

LEMMA TimerTypes ==
    ASSUME TypeInv, NEW p \in Procs, NEW k \in Keys, TimerFires(p, k)
    PROVE  TypeOK'
<1>0. TypeOK
  BY DEF TypeInv
<1>1. waits' \in [Keys -> Procs \cup {None}] /\ armed' \subseteq Procs \X Keys
  BY <1>0 DEF TimerFires, TypeOK
<1>2. open' \in [Procs -> SUBSET Keys]
  BY <1>0 DEF TimerFires, TypeOK
<1>3. NoAnswers({k}) \subseteq Messages
  BY NoteTypes DEF NoAnswers
<1>4. inbox' \in [Procs -> SUBSET Messages]
  BY <1>0, <1>3 DEF TimerFires, TypeOK
<1>5. QED
  BY <1>0, <1>1, <1>2, <1>4 DEF TimerFires, TypeOK

LEMMA OutsideTypes ==
    ASSUME TypeInv,
           \/ \E h \in Humans, s \in EnvStatuses : PresenceChanged(h, s)
           \/ Dispose
    PROVE  TypeOK'
<1>0. TypeOK
  BY DEF TypeInv
<1>1. ASSUME NEW h \in Humans, NEW s \in EnvStatuses, PresenceChanged(h, s)
      PROVE  TypeOK'
  <2>1. presence' \in [Humans -> Statuses]
    BY <1>0, <1>1, StatusTypes, ConstantsAssumption DEF PresenceChanged
  <2>2. (IF disposed THEN <<>> ELSE pending) \in Seq(Requests) /\ pc \in [Procs -> PCs]
    BY <1>0 DEF TypeOK
  <2>3. pc' \in [Procs -> PCs] /\ todo' \in [Procs -> Seq(Requests)]
    BY <1>0, <1>1, <2>2, DrainTypes DEF PresenceChanged
  <2>4. QED
    BY <1>0, <1>1, <2>1, <2>3 DEF PresenceChanged, TypeOK
<1>2. CASE Dispose
  <2>1. answer' \in [Requests -> Verdicts]
    BY <1>0, <1>2, Names DEF Dispose, TypeOK
  <2>2. pending' \in Seq(Requests)
    BY <1>2 DEF Dispose
  <2>3. QED
    BY <1>0, <1>2, <2>1, <2>2 DEF Dispose, TypeOK
<1>3. QED
  BY <1>1, <1>2

\* Every step keeps the types.
LEMMA NextTypes ==
    ASSUME TypeInv, [Next]_vars
    PROVE  TypeOK'
<1>1. ASSUME NEW r \in Requests, Arrive(r) \/ CallStep(r) \/ AnnounceFails(r)
      PROVE  TypeOK'
  BY <1>1, CallTypes
<1>2. ASSUME NEW d \in Drains, DrainStep(d)
      PROVE  TypeOK'
  BY <1>2, DrainStepTypes
<1>3. ASSUME NEW p \in Procs, RunStep(p) \/ PublishFails(p)
      PROVE  TypeOK'
  BY <1>3, NotifyStepTypes, HandleParallelTypes, HandleSequentialTypes,
     HandleQuorumTypes, PublishStepTypes, PublishFailsTypes, ReleaseTypes DEF RunStep
<1>4. ASSUME NEW p \in Procs, NEW k \in Keys, TimerFires(p, k)
      PROVE  TypeOK'
  BY <1>4, TimerTypes
<1>5. ASSUME NEW h \in Humans, NEW v \in {"yes", "no"},
             Speak(h, v) \/ \E k \in Keys : Respond(k, h, v)
      PROVE  TypeOK'
  BY <1>5, DeliverTypes DEF Speak, Respond
<1>6. CASE UNCHANGED vars
  BY <1>6 DEF TypeInv, TypeOK, vars
<1>7. QED
  BY <1>1, <1>2, <1>3, <1>4, <1>5, <1>6, OutsideTypes DEF Next

-----------------------------------------------------------------------------
(* Where each activation is *)

Sound(p) ==
    /\ p \in Drains => todo[p] # <<>>
    /\ pc[p] = "ring" => rung[p] \in DOMAIN Chain[Job(p)]

\* An activation that did not move, that left its run, or that is well placed
\* in it, keeps JobOK and RungOK.
LEMMA SoundFrame ==
    ASSUME TypeInv,
           \A q \in Procs :
              \/ pc'[q] = pc[q] /\ todo'[q] = todo[q] /\ rung'[q] = rung[q]
              \/ pc'[q] \notin Running \cup {"taken"}
              \/ Sound(q)'
    PROVE  JobOK' /\ RungOK'
<1>1. JobOK'
  BY DEF JobOK, Sound, TypeInv, Procs
<1>2. RungOK'
  BY RunningNames DEF RungOK, Sound, TypeInv, Job
<1>3. QED
  BY <1>1, <1>2

\* A run that starts is well placed: it only rings a chain that has a channel.
LEMMA StartSound ==
    ASSUME TypeInv, NEW p \in Procs, NEW r \in Requests, NEW hs, StartRun(p, r, hs),
           Job(p) = r, UNCHANGED todo, p \in Drains => todo[p] # <<>>
    PROVE  JobOK' /\ RungOK'
<1>1. pc' = [pc EXCEPT ![p] = FirstStop(r)] /\ rung' = [rung EXCEPT ![p] = 1]
  BY DEF StartRun
<1>2. pc'[p] = FirstStop(r) /\ rung'[p] = 1
  BY <1>1 DEF TypeInv, TypeOK
<1>3. Chain[r] \in Seq(Channels)
  BY ConstantsAssumption
<1>4. Job(p)' = r
  BY DEF Job
<1>5. FirstStop(r) = "ring" => 1 \in DOMAIN Chain[r]
  BY <1>3 DEF FirstStop
<1>6. Sound(p)'
  BY <1>2, <1>4, <1>5 DEF Sound
<1>7. \A q \in Procs \ {p} : pc'[q] = pc[q] /\ todo'[q] = todo[q] /\ rung'[q] = rung[q]
  BY <1>1 DEF TypeInv, TypeOK
<1>8. QED
  BY <1>6, <1>7, SoundFrame

\* A run that goes on within the chain, or a drain that starts or ends, is.
LEMMA EscalateSound ==
    ASSUME TypeInv, NEW p \in Procs, pc[p] \in {"ring", "wait"}, Escalate(p), UNCHANGED todo
    PROVE  JobOK' /\ RungOK'
<1>1. Job(p) \in Requests /\ Chain[Job(p)] \in Seq(Channels)
  BY RunJob, RunningNames
<1>2. Job(p)' = Job(p)
  BY DEF Job
<1>3. p \in Drains => todo'[p] # <<>>
  BY RunningNames DEF TypeInv, JobOK
<1>4. \A q \in Procs \ {p} : pc'[q] = pc[q] /\ todo'[q] = todo[q] /\ rung'[q] = rung[q]
  BY DEF TypeInv, TypeOK, Escalate
<1>5. Sound(p)'
  <2>1. CASE rung[p] < Len(Chain[Job(p)])
    <3>1. rung'[p] = rung[p] + 1 /\ rung[p] \in Nat
      BY <2>1 DEF TypeInv, TypeOK, Escalate
    <3>2. rung'[p] \in DOMAIN Chain[Job(p)]
      BY <1>1, <2>1, <3>1
    <3>3. QED
      BY <1>2, <1>3, <3>2 DEF Sound
  <2>2. CASE ~(rung[p] < Len(Chain[Job(p)]))
    <3>1. pc'[p] = "expire"
      BY <2>2 DEF TypeInv, TypeOK, Escalate
    <3>2. QED
      BY <1>3, <3>1 DEF Sound
  <2>3. QED
    BY <2>1, <2>2
<1>6. QED
  BY <1>4, <1>5, SoundFrame

LEMMA DrainSound ==
    ASSUME TypeInv, NEW queue, NEW pc0 \in [Procs -> PCs], StartDrain(queue, pc0),
           \A q \in Procs : pc0[q] \in {pc[q], "parked"}, UNCHANGED rung
    PROVE  JobOK' /\ RungOK'
<1>1. \A q \in Procs :
         \/ pc'[q] = pc0[q] /\ todo'[q] = todo[q]
         \/ pc'[q] = "probe"
  BY DEF StartDrain, TypeInv, TypeOK
<1>2. \A q \in Procs :
         \/ pc'[q] = pc[q] /\ todo'[q] = todo[q] /\ rung'[q] = rung[q]
         \/ pc'[q] \notin Running \cup {"taken"}
  BY <1>1, RunningNames
<1>3. QED
  BY <1>2, SoundFrame

\* An activation that moves within its run without ringing, or out of it.
LEMMA MoveSound ==
    ASSUME TypeInv, NEW p \in Procs, NEW s, pc' = [pc EXCEPT ![p] = s], s # "ring",
           UNCHANGED todo, \A q \in Procs \ {p} : rung'[q] = rung[q],
           s \notin Running \cup {"taken"} \/ pc[p] \in Running \cup {"taken"}
    PROVE  JobOK' /\ RungOK'
<1>1. \A q \in Procs \ {p} : pc'[q] = pc[q] /\ todo'[q] = todo[q] /\ rung'[q] = rung[q]
  BY DEF TypeInv, TypeOK
<1>2. pc'[p] = s
  BY DEF TypeInv, TypeOK
<1>3. s \notin Running \cup {"taken"} \/ Sound(p)'
  BY <1>2 DEF Sound, TypeInv, JobOK
<1>4. QED
  BY <1>1, <1>2, <1>3, SoundFrame

LEMMA CallSound ==
    ASSUME TypeInv, NEW r \in Requests, Arrive(r) \/ CallStep(r) \/ AnnounceFails(r)
    PROVE  JobOK' /\ RungOK'
<1>0. r \in Procs /\ r \notin Drains /\ Job(r) = r
  BY ConstantsAssumption DEF Procs, Job
<1>1. CASE Dispatch(r)
  BY <1>0, <1>1, StartSound DEF Dispatch
<1>2. CASE Announced(r)
  <2>1. [pc EXCEPT ![r] = "parked"] \in [Procs -> PCs]
    BY Names DEF TypeInv, TypeOK
  <2>2. \A q \in Procs : [pc EXCEPT ![r] = "parked"][q] \in {pc[q], "parked"}
    BY DEF TypeInv, TypeOK
  <2>3. QED
    BY <1>2, <2>1, <2>2, DrainSound DEF Announced
<1>3. CASE Refuse(r)
  <2>1. pc'[r] = "expire" /\ \A q \in Procs \ {r} : pc'[q] = pc[q]
    BY <1>0, <1>3 DEF Refuse, TypeInv, TypeOK
  <2>2. Sound(r)'
    BY <1>0, <2>1 DEF Sound
  <2>3. QED
    BY <1>3, <2>1, <2>2, SoundFrame DEF Refuse
<1>4. CASE Return(r)
  <2>1. \A q \in Procs \ {r} : rung'[q] = rung[q]
    BY <1>4 DEF Return, Forget, TypeInv, TypeOK
  <2>2. UNCHANGED todo /\ \E s \in {"failed", "done"} : pc' = [pc EXCEPT ![r] = s]
    BY <1>4 DEF Return
  <2>3. QED
    BY <1>0, <2>1, <2>2, MoveSound, RunningNames
<1>5. CASE Enqueue(r) \/ Fail(r) \/ Unpark(r) \/ AnnounceFails(r)
  <2>1. /\ UNCHANGED <<todo, rung>>
        /\ \E s \in {"announce", "failed", "done"} : pc' = [pc EXCEPT ![r] = s]
    BY <1>5 DEF Enqueue, Fail, Unpark, AnnounceFails
  <2>2. QED
    BY <1>0, <2>1, MoveSound, RunningNames
<1>6. QED
  BY <1>1, <1>2, <1>3, <1>4, <1>5 DEF Arrive, CallStep

LEMMA DrainStepSound ==
    ASSUME TypeInv, NEW d \in Drains, DrainStep(d)
    PROVE  JobOK' /\ RungOK'
<1>0. d \in Procs /\ todo[d] \in Seq(Requests)
  BY DEF Procs, TypeInv, TypeOK
<1>1. CASE DrainStart(d) \/ DrainQuorum(d)
  <2>1. todo[d] # <<>>
    BY <1>1, RunningNames DEF DrainStart, DrainQuorum, TypeInv, JobOK
  <2>2. Job(d) \in Requests
    BY <1>0, <2>1, ConstantsAssumption DEF Job
  <2>3. QED
    BY <1>0, <1>1, <2>1, <2>2, StartSound DEF DrainStart, DrainQuorum
<1>2. CASE DrainTake(d)
  <2>1. pc'[d] = "taken" /\ todo'[d] # <<>>
    BY <1>0, <1>2 DEF DrainTake, TypeInv, TypeOK
  <2>2. Sound(d)'
    BY <2>1 DEF Sound
  <2>3. \A q \in Procs \ {d} : pc'[q] = pc[q] /\ todo'[q] = todo[q] /\ rung'[q] = rung[q]
    BY <1>0, <1>2 DEF DrainTake, TypeInv, TypeOK
  <2>4. QED
    BY <2>2, <2>3, SoundFrame
<1>3. CASE DrainSkip(d) \/ DrainEnd(d) \/ DrainNext(d)
  <2>1. pc'[d] \in {"probe", "idle"}
    BY <1>0, <1>3 DEF DrainSkip, DrainEnd, DrainNext, TypeInv, TypeOK
  <2>2. \A q \in Procs \ {d} : pc'[q] = pc[q] /\ todo'[q] = todo[q] /\ rung'[q] = rung[q]
    BY <1>0, <1>3 DEF DrainSkip, DrainEnd, DrainNext, Forget, TypeInv, TypeOK
  <2>3. QED
    BY <2>1, <2>2, SoundFrame, RunningNames
<1>4. QED
  BY <1>1, <1>2, <1>3 DEF DrainStep

LEMMA RunStepSound ==
    ASSUME TypeInv, NEW p \in Procs, RunStep(p) \/ PublishFails(p)
    PROVE  JobOK' /\ RungOK'
<1>1. CASE RingFailed(p)
  BY <1>1, EscalateSound DEF RingFailed
<1>2. CASE HandleSequential(p)
  <2>1. CASE Escalate(p)
    BY <1>2, <2>1, EscalateSound DEF HandleSequential
  <2>2. CASE pc' = [pc EXCEPT ![p] = "resolve"] /\ UNCHANGED rung
    BY <1>2, <2>2, MoveSound, RunningNames DEF HandleSequential
  <2>3. QED
    BY <1>2, <2>1, <2>2 DEF HandleSequential
<1>3. CASE HandleParallel(p) \/ HandleQuorum(p)
  <2>1. \/ UNCHANGED pc
        \/ \E s \in {"expire", "resolve"} : pc' = [pc EXCEPT ![p] = s]
    BY <1>3 DEF HandleParallel, HandleQuorum, Settle, Count
  <2>2. UNCHANGED <<todo, rung>> /\ pc[p] = "wait"
    BY <1>3 DEF HandleParallel, HandleQuorum
  <2>3. CASE UNCHANGED pc
    BY <2>2, <2>3, SoundFrame
  <2>4. QED
    BY <2>1, <2>2, <2>3, MoveSound, RunningNames
<1>4. CASE Notified(p) \/ Rang(p)
  <2>1. \E s \in {"expire", "wait"} : pc' = [pc EXCEPT ![p] = s]
    BY <1>4 DEF Notified, Rang
  <2>2. UNCHANGED <<todo, rung>> /\ pc[p] \in Running
    BY <1>4, RunningNames DEF Notified, Rang
  <2>3. QED
    BY <2>1, <2>2, MoveSound
<1>5. CASE \/ PublishResolved(p) \/ PublishApproved(p) \/ PublishTimeout(p)
           \/ Release(p) \/ PublishFails(p)
  <2>1. \E s \in {"approve", "release", "free"} : pc' = [pc EXCEPT ![p] = s]
    BY <1>5 DEF PublishResolved, PublishApproved, PublishTimeout, Release, PublishFails
  <2>2. UNCHANGED <<todo, rung>> /\ pc[p] \in Running
    BY <1>5, RunningNames
    DEF PublishResolved, PublishApproved, PublishTimeout, Release, PublishFails
  <2>3. QED
    BY <2>1, <2>2, MoveSound
<1>6. QED
  BY <1>1, <1>2, <1>3, <1>4, <1>5 DEF RunStep

LEMMA NextSound ==
    ASSUME TypeInv, [Next]_vars
    PROVE  JobOK' /\ RungOK'
<1>1. CASE UNCHANGED <<pc, todo, rung>>
  BY <1>1, SoundFrame
<1>2. ASSUME NEW h \in Humans, NEW s \in EnvStatuses, PresenceChanged(h, s)
      PROVE  JobOK' /\ RungOK'
  BY <1>2, DrainSound DEF PresenceChanged, TypeInv, TypeOK
<1>3. ASSUME NEW p \in Procs, NEW k \in Keys, TimerFires(p, k)
      PROVE  UNCHANGED <<pc, todo, rung>>
  BY <1>3 DEF TimerFires
<1>4. ASSUME NEW h \in Humans, NEW v \in {"yes", "no"},
             Speak(h, v) \/ \E k \in Keys : Respond(k, h, v)
      PROVE  UNCHANGED <<pc, todo, rung>>
  BY <1>4 DEF Speak, Respond, Deliver
<1>5. Dispose \/ UNCHANGED vars => UNCHANGED <<pc, todo, rung>>
  BY DEF Dispose, vars
<1>6. QED
  BY <1>1, <1>2, <1>3, <1>4, <1>5, CallSound, DrainStepSound, RunStepSound DEF Next

\* In every reachable state each variable has its type, a drain that runs a
\* request has one, and a sequential run is within its chain.
THEOREM TypeInvariant == Spec => []TypeInv
<1>1. TypeInv /\ [Next]_vars => TypeInv'
  BY NextTypes, NextSound DEF TypeInv
<1>2. QED
  BY InitTypes, <1>1, PTL DEF Spec

\* The orchestrator, presence and channel state keeps its types for any number
\* of requests, drain activations, humans and channels.
THEOREM TypeCorrect == Spec => []TypeOK
<1>1. TypeInv => TypeOK
  BY DEF TypeInv
<1>2. QED
  BY TypeInvariant, <1>1, PTL

-----------------------------------------------------------------------------
(* The approvers a run holds *)

USE DEF book, run, chans, outs, env

\* An approver a run holds is marked busy, which keeps other runs away.
HeldAreBusy == \A p \in Procs : \A h \in team[p] : presence[h] = "busy"
Disjoint == \A p, q \in Procs : p # q => team[p] \cap team[q] = {}
ExclusiveInv == HeldAreBusy /\ Disjoint

\* Only a run that has not ended holds approvers.
TeamsRun == \A p \in Procs : pc[p] \notin Running \cup {"taken"} => team[p] = {}
BusyRouted == \A h \in Humans : presence[h] = "busy" =>
                 PresenceRouting /\ \E p \in Procs : h \in team[p]

-----------------------------------------------------------------------------
(* Who changes the presence and the teams *)

\* Process p is given a team from Teams(r).
Assign(p, r) ==
    \E hs \in Teams(r) : MarkBusy(hs) /\ team' = [team EXCEPT ![p] = hs]

\* Process p frees one of its approvers.
Free(p) ==
    \E h \in team[p] :
        /\ IF PresenceRouting THEN SetStatus({h}, "available") ELSE UNCHANGED presence
        /\ team' = [team EXCEPT ![p] = team[p] \ {h}]

Overwrite(h, s) == SetStatus({h}, s) /\ UNCHANGED team /\ (presence[h] = "busy" => Interrupting)

LEMMA DrainStartTeam ==
    ASSUME TypeInv, NEW d \in Drains, DrainStart(d)
    PROVE  UNCHANGED team
BY DEF DrainStart, StartRun, TypeInv, TypeOK, Procs

LEMMA WhoHolds ==
    ASSUME TypeInv, [Next]_vars
    PROVE  \/ UNCHANGED <<presence, team>>
           \/ \E p \in Procs : Free(p)
           \/ \E p \in Procs, r \in Requests :
                 pc[p] \in {"new", "probe"} /\ Assign(p, r)
           \/ \E h \in Humans, s \in EnvStatuses : Overwrite(h, s)
<1>1. ASSUME NEW r \in Requests, Arrive(r) \/ CallStep(r) \/ AnnounceFails(r)
      PROVE  UNCHANGED <<presence, team>> \/ (pc[r] = "new" /\ Assign(r, r))
  BY <1>1 DEF Arrive, CallStep, Refuse, Dispatch, Enqueue, Announced, Return, Fail, Unpark,
     AnnounceFails, StartRun, Assign
<1>2. ASSUME NEW d \in Drains, DrainStep(d)
      PROVE  \/ UNCHANGED <<presence, team>>
             \/ pc[d] = "probe" /\ Job(d) \in Requests /\ Assign(d, Job(d))
  <2>1. todo[d] # <<>> => Job(d) \in Requests
    BY ConstantsAssumption DEF Job, TypeInv, TypeOK, Procs
  <2>2. CASE DrainTake(d) \/ DrainQuorum(d)
    BY <2>1, <2>2 DEF DrainTake, DrainQuorum, StartRun, Assign
  <2>3. CASE DrainStart(d)
    BY <2>3, DrainStartTeam DEF DrainStart
  <2>4. CASE DrainSkip(d) \/ DrainEnd(d) \/ DrainNext(d)
    BY <2>4 DEF DrainSkip, DrainEnd, DrainNext
  <2>5. QED
    BY <1>2, <2>2, <2>3, <2>4 DEF DrainStep
<1>3. ASSUME NEW p \in Procs, RunStep(p) \/ PublishFails(p)
      PROVE  UNCHANGED <<presence, team>> \/ Free(p)
  <2>1. CASE Release(p)
    BY <2>1 DEF Release, Free
  <2>2. CASE Notified(p) \/ Rang(p) \/ RingFailed(p) \/ HandleParallel(p)
             \/ HandleSequential(p) \/ HandleQuorum(p)
    BY <2>2 DEF Notified, Rang, RingFailed, HandleParallel, HandleSequential, HandleQuorum
  <2>3. CASE PublishResolved(p) \/ PublishApproved(p) \/ PublishTimeout(p) \/ PublishFails(p)
    BY <2>3 DEF PublishResolved, PublishApproved, PublishTimeout, PublishFails
  <2>4. QED
    BY <1>3, <2>1, <2>2, <2>3 DEF RunStep
<1>4. ASSUME NEW h \in Humans, NEW s \in EnvStatuses, PresenceChanged(h, s)
      PROVE  Overwrite(h, s)
  BY <1>4 DEF PresenceChanged, Overwrite
<1>5. ASSUME \/ \E p \in Procs, k \in Keys : TimerFires(p, k)
             \/ \E k \in Keys, h \in Humans, v \in {"yes", "no"} : Respond(k, h, v)
             \/ \E h \in Humans, v \in {"yes", "no"} : Speak(h, v)
             \/ Dispose \/ UNCHANGED vars
      PROVE  UNCHANGED <<presence, team>>
  BY <1>5 DEF TimerFires, Respond, Speak, Deliver, Dispose, vars
<1>6. Requests \subseteq Procs /\ Drains \subseteq Procs
  BY DEF Procs
<1>7. QED
  BY <1>1, <1>2, <1>3, <1>4, <1>5, <1>6 DEF Next

\* A team is made of available humans.
LEMMA TeamAvailable ==
    ASSUME PresenceRouting, NEW r \in Requests, NEW hs \in Teams(r), NEW h \in hs
    PROVE  h \in Humans /\ presence[h] = "available"
<1>1. Eligible[r] \subseteq Humans
  BY ConstantsAssumption
<1>2. QED
  BY <1>1 DEF Teams, Available

-----------------------------------------------------------------------------
(* One request per approver *)

LEMMA AssignExclusive ==
    ASSUME TypeOK, PresenceRouting, ExclusiveInv, NEW p \in Procs, NEW r \in Requests,
           Assign(p, r)
    PROVE  ExclusiveInv'
<1>1. PICK hs \in Teams(r) : MarkBusy(hs) /\ team' = [team EXCEPT ![p] = hs]
  BY DEF Assign
<1>2. presence' = [h \in Humans |-> IF h \in hs THEN "busy" ELSE presence[h]]
  BY <1>1 DEF MarkBusy, SetStatus
<1>3. \A h \in hs : h \in Humans /\ presence[h] = "available"
  BY TeamAvailable
<1>4. \A q \in Procs : team[q] \subseteq Humans /\ hs \cap team[q] = {}
  BY <1>3 DEF TypeOK, ExclusiveInv, HeldAreBusy
<1>5. \A q \in Procs : team'[q] = IF q = p THEN hs ELSE team[q]
  BY <1>1 DEF TypeOK
<1>6. HeldAreBusy'
  BY <1>2, <1>3, <1>4, <1>5 DEF ExclusiveInv, HeldAreBusy
<1>7. Disjoint'
  BY <1>4, <1>5 DEF ExclusiveInv, Disjoint
<1>8. QED
  BY <1>6, <1>7 DEF ExclusiveInv

LEMMA FreeExclusive ==
    ASSUME TypeOK, PresenceRouting, ExclusiveInv, NEW p \in Procs, Free(p)
    PROVE  ExclusiveInv'
<1>1. PICK h \in team[p] : SetStatus({h}, "available") /\ team' = [team EXCEPT ![p] = team[p] \ {h}]
  BY DEF Free
<1>2. presence' = [g \in Humans |-> IF g = h THEN "available" ELSE presence[g]]
  BY <1>1 DEF SetStatus
<1>3. \A q \in Procs : team'[q] = IF q = p THEN team[p] \ {h} ELSE team[q]
  BY <1>1 DEF TypeOK
<1>4. \A q \in Procs : h \notin team'[q] /\ team'[q] \subseteq Humans
  BY <1>3 DEF TypeOK, ExclusiveInv, Disjoint
<1>5. HeldAreBusy'
  BY <1>2, <1>3, <1>4 DEF ExclusiveInv, HeldAreBusy
<1>6. Disjoint'
  BY <1>3 DEF ExclusiveInv, Disjoint
<1>7. QED
  BY <1>5, <1>6 DEF ExclusiveInv

LEMMA OverwriteExclusive ==
    ASSUME TypeOK, ~Interrupting, ExclusiveInv, NEW h \in Humans, NEW s, Overwrite(h, s)
    PROVE  ExclusiveInv'
<1>1. presence' = [g \in Humans |-> IF g = h THEN s ELSE presence[g]]
  BY DEF Overwrite, SetStatus
<1>2. \A p \in Procs : h \notin team[p] /\ team[p] \subseteq Humans
  BY DEF Overwrite, TypeOK, ExclusiveInv, HeldAreBusy
<1>3. UNCHANGED team
  BY DEF Overwrite
<1>4. QED
  BY <1>1, <1>2, <1>3 DEF ExclusiveInv, HeldAreBusy, Disjoint

\* An approver works on one request at a time, whichever calls and drains are
\* interleaved, as long as no presence event overwrites a busy status.
THEOREM OneRequestPerApprover == Spec => []ApproverExclusive
<1> DEFINE Inv == PresenceRouting /\ ~Interrupting => ExclusiveInv
<1>1. Init => Inv
  BY DEF Init, ExclusiveInv, HeldAreBusy, Disjoint
<1>2. TypeInv /\ Inv /\ [Next]_vars => Inv'
  <2> SUFFICES ASSUME TypeInv, Inv, [Next]_vars, PresenceRouting, ~Interrupting
               PROVE  ExclusiveInv'
    OBVIOUS
  <2>1. TypeOK /\ ExclusiveInv
    BY DEF TypeInv
  <2>2. CASE UNCHANGED <<presence, team>>
    BY <2>1, <2>2 DEF ExclusiveInv, HeldAreBusy, Disjoint
  <2>3. QED
    BY <2>1, <2>2, WhoHolds, AssignExclusive, FreeExclusive, OverwriteExclusive
<1>3. Inv => ApproverExclusive
  BY DEF ApproverExclusive, ExclusiveInv, Disjoint
<1> HIDE DEF Inv
<1>4. QED
  BY <1>1, <1>2, <1>3, TypeInvariant, PTL DEF Spec

-----------------------------------------------------------------------------
(* Nobody is left busy *)

\* An activation that stays put, stays in its run, or holds nobody.
LEMMA TeamsFrame ==
    ASSUME TypeInv, TeamsRun, UNCHANGED team,
           \A q \in Procs : \/ pc'[q] = pc[q]
                            \/ pc'[q] \in Running \cup {"taken"}
                            \/ pc[q] \notin Running \cup {"taken"}
                            \/ team[q] = {}
    PROVE  TeamsRun'
BY DEF TeamsRun

LEMMA AssignTeams ==
    ASSUME TypeInv, TeamsRun, NEW p \in Procs, NEW s \in Running \cup {"taken"}, NEW hs,
           pc' = [pc EXCEPT ![p] = s], team' = [team EXCEPT ![p] = hs]
    PROVE  TeamsRun'
BY DEF TeamsRun, TypeInv, TypeOK

LEMMA FirstStopRuns == \A r : FirstStop(r) \in Running
BY RunningNames DEF FirstStop

LEMMA CallTeams ==
    ASSUME TypeInv, TeamsRun, NEW r \in Requests,
           Arrive(r) \/ CallStep(r) \/ AnnounceFails(r)
    PROVE  TeamsRun'
<1>0. r \in Procs
  BY DEF Procs
<1>1. CASE Dispatch(r)
  <2>1. PICK hs : /\ pc' = [pc EXCEPT ![r] = FirstStop(r)]
                  /\ team' = [team EXCEPT ![r] = hs]
    BY <1>1 DEF Dispatch, StartRun
  <2>2. QED
    BY <1>0, <2>1, AssignTeams, FirstStopRuns
<1>2. CASE Announced(r)
  <2>1. \A q \in Procs : pc'[q] = pc[q] \/ pc[q] \in {"announce", "idle"}
    BY <1>2 DEF Announced, StartDrain, TypeInv, TypeOK
  <2>2. QED
    BY <1>2, <2>1, TeamsFrame, RunningNames DEF Announced
<1>3. CASE Refuse(r) \/ Enqueue(r) \/ Return(r) \/ Fail(r) \/ Unpark(r) \/ AnnounceFails(r)
  <2>1. UNCHANGED team /\ \A q \in Procs \ {r} : pc'[q] = pc[q]
    BY <1>3 DEF Refuse, Enqueue, Return, Fail, Unpark, AnnounceFails, TypeInv, TypeOK
  <2>2. pc[r] \in {"new", "failed", "parked", "announce"} \/ team[r] = {}
    BY <1>3 DEF Refuse, Enqueue, Return, Fail, Unpark, AnnounceFails
  <2>3. QED
    BY <2>1, <2>2, TeamsFrame, RunningNames
<1>4. QED
  BY <1>1, <1>2, <1>3 DEF Arrive, CallStep

LEMMA DrainTeams ==
    ASSUME TypeInv, TeamsRun, NEW d \in Drains, DrainStep(d)
    PROVE  TeamsRun'
<1>0. d \in Procs
  BY DEF Procs
<1>1. CASE DrainTake(d)
  BY <1>0, <1>1, AssignTeams DEF DrainTake
<1>2. CASE DrainStart(d) \/ DrainQuorum(d)
  <2>1. PICK hs : /\ pc' = [pc EXCEPT ![d] = FirstStop(Job(d))]
                  /\ team' = [team EXCEPT ![d] = hs]
    BY <1>2 DEF DrainStart, DrainQuorum, StartRun
  <2>2. QED
    BY <1>0, <2>1, AssignTeams, FirstStopRuns
<1>3. CASE DrainSkip(d) \/ DrainEnd(d) \/ DrainNext(d)
  <2>1. UNCHANGED team /\ \A q \in Procs \ {d} : pc'[q] = pc[q]
    BY <1>3 DEF DrainSkip, DrainEnd, DrainNext, TypeInv, TypeOK
  <2>2. pc[d] = "probe" \/ team[d] = {}
    BY <1>3 DEF DrainSkip, DrainEnd, DrainNext
  <2>3. QED
    BY <2>1, <2>2, TeamsFrame, RunningNames
<1>4. QED
  BY <1>1, <1>2, <1>3 DEF DrainStep

LEMMA RunTeams ==
    ASSUME TypeInv, TeamsRun, NEW p \in Procs, RunStep(p) \/ PublishFails(p)
    PROVE  TeamsRun'
<1>1. CASE Release(p)
  BY <1>1, AssignTeams, RunningNames DEF Release
<1>2. CASE Notified(p) \/ Rang(p) \/ RingFailed(p) \/ HandleSequential(p)
  <2>1. \E s \in Running : pc' = [pc EXCEPT ![p] = s]
    BY <1>2, RunningNames DEF Notified, Rang, RingFailed, HandleSequential, Escalate
  <2>2. QED
    BY <1>2, <2>1, TeamsFrame DEF Notified, Rang, RingFailed, HandleSequential, TypeInv, TypeOK
<1>3. CASE HandleParallel(p) \/ HandleQuorum(p)
  <2>1. UNCHANGED pc \/ \E s \in Running : pc' = [pc EXCEPT ![p] = s]
    BY <1>3, RunningNames DEF HandleParallel, HandleQuorum, Settle, Count
  <2>2. QED
    BY <1>3, <2>1, TeamsFrame DEF HandleParallel, HandleQuorum, TypeInv, TypeOK
<1>4. CASE PublishResolved(p) \/ PublishApproved(p) \/ PublishTimeout(p) \/ PublishFails(p)
  <2>1. \E s \in Running : pc' = [pc EXCEPT ![p] = s]
    BY <1>4, RunningNames DEF PublishResolved, PublishApproved, PublishTimeout, PublishFails
  <2>2. QED
    BY <1>4, <2>1, TeamsFrame
    DEF PublishResolved, PublishApproved, PublishTimeout, PublishFails, TypeInv, TypeOK
<1>5. QED
  BY <1>1, <1>2, <1>3, <1>4 DEF RunStep

LEMMA NextTeams ==
    ASSUME TypeInv, TeamsRun, [Next]_vars
    PROVE  TeamsRun'
<1>1. ASSUME NEW h \in Humans, NEW s \in EnvStatuses, PresenceChanged(h, s)
      PROVE  TeamsRun'
  <2>1. \A q \in Procs : pc'[q] = pc[q] \/ pc[q] = "idle"
    BY <1>1 DEF PresenceChanged, StartDrain, TypeInv, TypeOK
  <2>2. QED
    BY <1>1, <2>1, TeamsFrame, RunningNames DEF PresenceChanged
<1>2. ASSUME \/ \E p \in Procs, k \in Keys : TimerFires(p, k)
             \/ \E k \in Keys, h \in Humans, v \in {"yes", "no"} : Respond(k, h, v)
             \/ \E h \in Humans, v \in {"yes", "no"} : Speak(h, v)
             \/ Dispose \/ UNCHANGED vars
      PROVE  UNCHANGED <<pc, team>>
  BY <1>2 DEF TimerFires, Respond, Speak, Deliver, Dispose, vars
<1>3. QED
  BY <1>1, <1>2, CallTeams, DrainTeams, RunTeams, TeamsFrame DEF Next

\* A process given a team had none, so nobody it held is forgotten.
LEMMA BusyStep ==
    ASSUME TypeInv, TeamsRun, BusyRouted, "busy" \notin EnvStatuses, [Next]_vars
    PROVE  BusyRouted'
<1>0. TypeOK
  BY DEF TypeInv
<1>1. CASE UNCHANGED <<presence, team>>
  BY <1>1 DEF BusyRouted
<1>2. ASSUME NEW p \in Procs, Free(p)
      PROVE  BusyRouted'
  <2>1. PICK h \in team[p] :
            /\ IF PresenceRouting THEN SetStatus({h}, "available") ELSE UNCHANGED presence
            /\ team' = [team EXCEPT ![p] = team[p] \ {h}]
    BY <1>2 DEF Free
  <2>2. \A q \in Procs : team'[q] = IF q = p THEN team[p] \ {h} ELSE team[q]
    BY <1>0, <2>1 DEF TypeOK
  <2>3. \A g \in Humans : presence'[g] = "busy" => g # h \/ ~PresenceRouting
    BY <2>1 DEF SetStatus
  <2>4. \A g \in Humans : presence'[g] = "busy" => presence[g] = "busy"
    BY <2>1 DEF SetStatus
  <2>5. QED
    BY <2>2, <2>3, <2>4 DEF BusyRouted
<1>3. ASSUME NEW p \in Procs, NEW r \in Requests, pc[p] \in {"new", "probe"}, Assign(p, r)
      PROVE  BusyRouted'
  <2>1. PICK hs \in Teams(r) : MarkBusy(hs) /\ team' = [team EXCEPT ![p] = hs]
    BY <1>3 DEF Assign
  <2>2. team[p] = {}
    BY <1>3, RunningNames DEF TeamsRun
  <2>3. \A q \in Procs : team'[q] = IF q = p THEN hs ELSE team[q]
    BY <1>0, <2>1 DEF TypeOK
  <2>4. \A g \in Humans : presence'[g] = "busy" =>
           presence[g] = "busy" \/ (PresenceRouting /\ g \in hs)
    BY <2>1 DEF MarkBusy, SetStatus
  <2>5. QED
    BY <2>2, <2>3, <2>4 DEF BusyRouted
<1>4. ASSUME NEW h \in Humans, NEW s \in EnvStatuses, Overwrite(h, s)
      PROVE  BusyRouted'
  <2>1. \A g \in Humans : presence'[g] = "busy" => presence[g] = "busy"
    BY <1>4 DEF Overwrite, SetStatus
  <2>2. QED
    BY <1>4, <2>1 DEF BusyRouted, Overwrite
<1>5. QED
  BY <1>1, <1>2, <1>3, <1>4, WhoHolds

\* On every way out of a run its approvers are freed, an exception included:
\* whoever is busy is held by a run that still has to free them.
THEOREM NobodyLeftBusy == Spec => []BusyIsHeld
<1> DEFINE Inv == TeamsRun /\ ("busy" \notin EnvStatuses => BusyRouted)
<1>1. Init => Inv
  BY RunningNames DEF Init, TeamsRun, BusyRouted
<1>2. TypeInv /\ Inv /\ [Next]_vars => Inv'
  BY NextTeams, BusyStep
<1>3. Inv => BusyIsHeld
  BY DEF BusyIsHeld, BusyRouted
<1> HIDE DEF Inv
<1>4. QED
  BY <1>1, <1>2, <1>3, TypeInvariant, PTL DEF Spec

-----------------------------------------------------------------------------
(* The waits a run has registered *)

\* What a run has not heard of yet it has asked.
OpenAsked == \A p \in Procs : open[p] \subseteq asked[p]

\* A sequential run waits for one channel, or has its answer.
Ladder == \A p \in Procs :
    pc[p] = "wait" /\ Strategy[Job(p)] = "sequential" =>
        /\ inbox[p] # {} => open[p] = {}
        /\ \A j, k \in open[p] : j = k

\* Only the other strategies notify several channels at once.
NotifyAll == \A p \in Procs : pc[p] = "notify" => Strategy[Job(p)] # "sequential"

WaitsInv == WaitsOwned /\ OpenAsked /\ Ladder /\ NotifyAll

\* A step that leaves the channels and whoever waits for them alone.
Quiet ==
    /\ UNCHANGED <<asked, open, inbox, waits, armed>>
    /\ \A q \in Procs :
          /\ pc[q] = "wait" \/ pc'[q] = "wait" => pc'[q] = pc[q] /\ todo'[q] = todo[q]
          /\ pc'[q] = "notify" =>
                /\ todo'[q] = todo[q]
                /\ pc[q] = "notify" \/ Strategy[Job(q)] # "sequential"

LEMMA QuietWaits ==
    ASSUME TypeInv, WaitsInv, Quiet
    PROVE  WaitsInv'
<1>1. \A q \in Procs : todo'[q] = todo[q] => Job(q)' = Job(q)
  BY DEF Job
<1>2. WaitsOwned'
  <2> SUFFICES ASSUME NEW k \in Keys, waits[k] # None
               PROVE  /\ pc'[waits[k]] = "wait"
                      /\ k \in open[waits[k]]
                      /\ <<waits[k], k>> \in armed
    BY DEF WaitsOwned, Quiet
  <2>1. /\ pc[waits[k]] = "wait"
        /\ k \in open[waits[k]]
        /\ <<waits[k], k>> \in armed
    BY DEF WaitsInv, WaitsOwned
  <2>2. waits[k] \in Procs
    BY DEF TypeInv, TypeOK
  <2>3. QED
    BY <2>1, <2>2 DEF Quiet
<1>3. OpenAsked' /\ Ladder' /\ NotifyAll'
  BY <1>1 DEF WaitsInv, OpenAsked, Ladder, NotifyAll, Quiet
<1>4. QED
  BY <1>2, <1>3 DEF WaitsInv

\* Entering a run: only a parallel run or a quorum notifies.
LEMMA FirstStopNames ==
    ASSUME NEW r, FirstStop(r) = "notify" \/ FirstStop(r) = "wait"
    PROVE  FirstStop(r) = "notify" /\ Strategy[r] # "sequential"
BY DEF FirstStop

LEMMA QuietStart ==
    ASSUME TypeOK, UNCHANGED <<todo, asked, open, inbox, waits, armed>>,
           NEW p \in Procs, pc[p] \in {"new", "taken", "probe"},
           NEW hs, StartRun(p, Job(p), hs)
    PROVE  Quiet
<1>1. \A q \in Procs : pc'[q] = IF q = p THEN FirstStop(Job(p)) ELSE pc[q]
  BY DEF TypeOK, StartRun
<1>2. QED
  BY <1>1, FirstStopNames DEF Quiet

\* A move to a place where nothing is notified or awaited.
LEMMA QuietMove ==
    ASSUME TypeOK, UNCHANGED <<asked, open, inbox, waits, armed>>,
           NEW p \in Procs, pc[p] # "wait",
           NEW s, s \notin {"wait", "notify"}, pc' = [pc EXCEPT ![p] = s],
           \A q \in Procs \ {p} : todo'[q] = todo[q]
    PROVE  Quiet
<1>1. \A q \in Procs : pc'[q] = IF q = p THEN s ELSE pc[q]
  BY DEF TypeOK
<1>2. QED
  BY <1>1 DEF Quiet

\* A drain is started, whoever starts it.
LEMMA QuietElsewhere ==
    ASSUME UNCHANGED <<asked, open, inbox, waits, armed>>,
           \A q \in Procs : \/ pc'[q] = pc[q] /\ todo'[q] = todo[q]
                            \/ pc[q] \in {"announce", "idle"} /\ pc'[q] \in {"parked", "probe"}
    PROVE  Quiet
BY DEF Quiet

LEMMA QuietCall ==
    ASSUME TypeInv, NEW r \in Requests, Arrive(r) \/ CallStep(r) \/ AnnounceFails(r)
    PROVE  Quiet
<1>0. TypeOK /\ r \in Procs /\ Job(r) = r
  BY DEF TypeInv, Procs, Job
<1>1. CASE Dispatch(r)
  <2>1. PICK hs \in Teams(r) : StartRun(r, r, hs)
    BY <1>1 DEF Dispatch
  <2>2. QED
    BY <1>0, <1>1, <2>1, QuietStart DEF Dispatch
<1>2. CASE Announced(r)
  <2>1. \A q \in Procs : \/ pc'[q] = pc[q] /\ todo'[q] = todo[q]
                         \/ pc[q] \in {"announce", "idle"} /\ pc'[q] \in {"parked", "probe"}
    BY <1>0, <1>2 DEF Announced, StartDrain, TypeOK
  <2>2. QED
    BY <1>2, <2>1, QuietElsewhere DEF Announced
<1>3. CASE Refuse(r) \/ Enqueue(r) \/ Fail(r) \/ Unpark(r) \/ AnnounceFails(r) \/ Return(r)
  <2>1. \E s \in {"expire", "announce", "done", "failed"} : pc' = [pc EXCEPT ![r] = s]
    BY <1>3 DEF Refuse, Enqueue, Fail, Unpark, AnnounceFails, Return
  <2>2. pc[r] # "wait" /\ UNCHANGED <<todo, asked, open, inbox, waits, armed>>
    BY <1>3 DEF Refuse, Enqueue, Fail, Unpark, AnnounceFails, Return
  <2>3. QED
    BY <1>0, <2>1, <2>2, QuietMove
<1>4. QED
  BY <1>1, <1>2, <1>3 DEF Arrive, CallStep

LEMMA QuietDrain ==
    ASSUME TypeInv, NEW d \in Drains, DrainStep(d)
    PROVE  Quiet
<1>0. TypeOK /\ d \in Procs
  BY DEF TypeInv, Procs
<1>1. CASE DrainStart(d) \/ DrainQuorum(d)
  <2>1. \E hs : StartRun(d, Job(d), hs)
    BY <1>1 DEF DrainStart, DrainQuorum
  <2>2. pc[d] \in {"taken", "probe"} /\ UNCHANGED <<todo, asked, open, inbox, waits, armed>>
    BY <1>1 DEF DrainStart, DrainQuorum
  <2>3. QED
    BY <1>0, <2>1, <2>2, QuietStart
<1>2. CASE DrainSkip(d)
  <2>1. \A q \in Procs : pc'[q] = pc[q] /\ (q # d => todo'[q] = todo[q])
    BY <1>0, <1>2 DEF DrainSkip, TypeOK
  <2>2. QED
    BY <1>2, <2>1 DEF DrainSkip, Quiet
<1>3. CASE DrainTake(d) \/ DrainEnd(d) \/ DrainNext(d)
  <2>1. \E s \in {"taken", "idle", "probe"} : pc' = [pc EXCEPT ![d] = s]
    BY <1>3 DEF DrainTake, DrainEnd, DrainNext
  <2>2. pc[d] # "wait" /\ UNCHANGED <<asked, open, inbox, waits, armed>>
    BY <1>3 DEF DrainTake, DrainEnd, DrainNext
  <2>3. \A q \in Procs \ {d} : todo'[q] = todo[q]
    BY <1>0, <1>3 DEF DrainTake, DrainEnd, DrainNext, TypeOK
  <2>4. QED
    BY <1>0, <2>1, <2>2, <2>3, QuietMove
<1>4. QED
  BY <1>1, <1>2, <1>3 DEF DrainStep

LEMMA QuietRun ==
    ASSUME TypeInv, NEW p \in Procs,
           \/ PublishResolved(p) \/ PublishApproved(p) \/ PublishTimeout(p)
           \/ PublishFails(p) \/ Release(p)
    PROVE  Quiet
<1>1. \E s \in {"approve", "release", "free"} : pc' = [pc EXCEPT ![p] = s]
  BY DEF PublishResolved, PublishApproved, PublishTimeout, PublishFails, Release
<1>2. pc[p] # "wait" /\ UNCHANGED <<todo, asked, open, inbox, waits, armed>>
  BY DEF PublishResolved, PublishApproved, PublishTimeout, PublishFails, Release
<1>3. QED
  BY <1>1, <1>2, QuietMove DEF TypeInv

LEMMA QuietRest ==
    ASSUME TypeInv,
           \/ \E h \in Humans, s \in EnvStatuses : PresenceChanged(h, s)
           \/ Dispose \/ UNCHANGED vars
    PROVE  Quiet
<1>0. TypeOK /\ pc \in [Procs -> PCs]
  BY DEF TypeInv, TypeOK
<1>1. ASSUME NEW h \in Humans, NEW s \in EnvStatuses, PresenceChanged(h, s)
      PROVE  Quiet
  <2>1. \A q \in Procs : \/ pc'[q] = pc[q] /\ todo'[q] = todo[q]
                         \/ pc[q] \in {"announce", "idle"} /\ pc'[q] \in {"parked", "probe"}
    BY <1>0, <1>1 DEF PresenceChanged, StartDrain, TypeOK
  <2>2. QED
    BY <1>1, <2>1, QuietElsewhere DEF PresenceChanged
<1>2. CASE Dispose \/ UNCHANGED vars
  BY <1>2 DEF Dispose, vars, Quiet
<1>3. QED
  BY <1>1, <1>2

-----------------------------------------------------------------------------
(* The steps that register, answer or cancel waits *)

\* A cancelled channel leaves a sequential run nothing else to wait for.
LEMMA CancelledLadder ==
    ASSUME WaitsInv, NEW q \in Procs, pc[q] = "wait", Strategy[Job(q)] = "sequential",
           NEW ks \in SUBSET Keys, None \notin Procs,
           inbox[q] \cup NoAnswers(Cancelled(q, ks)) # {}
    PROVE  open[q] \ Cancelled(q, ks) = {}
<1>1. \A k \in Cancelled(q, ks) : k \in open[q]
  BY DEF Cancelled, WaitsInv, WaitsOwned
<1>2. inbox[q] # {} => open[q] = {}
  BY DEF WaitsInv, Ladder
<1>3. \A j, k \in open[q] : j = k
  BY DEF WaitsInv, Ladder
<1>4. inbox[q] # {} \/ Cancelled(q, ks) # {}
  BY DEF NoAnswers
<1>5. QED
  BY <1>1, <1>2, <1>3, <1>4

\* Notifications return: the waits of the failed ones go, the others are new.
LEMMA AwaitWaits ==
    ASSUME TypeInv, WaitsInv, NEW p \in Procs, pc[p] # "wait",
           NEW ok \in SUBSET Keys, NEW failed \in SUBSET Keys, ok \cap failed = {},
           AwaitOnly(p, ok, failed), UNCHANGED todo,
           NEW s, pc' = [pc EXCEPT ![p] = s], s # "notify", ok # {} => s = "wait",
           Strategy[Job(p)] = "sequential" => \A j, k \in ok : j = k
    PROVE  WaitsInv'
<1>0. None \notin Procs /\ \A q \in Procs : Job(q)' = Job(q)
  BY ConstantsAssumption DEF Job
<1>1. \A q \in Procs : /\ pc'[q] = IF q = p THEN s ELSE pc[q]
                       /\ asked'[q] = IF q = p THEN ok ELSE asked[q]
                       /\ open'[q] = IF q = p THEN ok ELSE open[q] \ Cancelled(q, failed)
                       /\ inbox'[q] = IF q = p THEN {}
                                      ELSE inbox[q] \cup NoAnswers(Cancelled(q, failed))
  BY DEF AwaitOnly, TypeInv, TypeOK
<1>2. WaitsOwned'
  <2> SUFFICES ASSUME NEW k \in Keys, waits'[k] # None
               PROVE  /\ pc'[waits'[k]] = "wait"
                      /\ k \in open'[waits'[k]]
                      /\ <<waits'[k], k>> \in armed'
    BY DEF WaitsOwned
  <2>1. CASE k \in ok
    <3>1. waits'[k] = p /\ <<p, k>> \in armed'
      BY <2>1 DEF AwaitOnly
    <3>2. QED
      BY <2>1, <3>1, <1>1
  <2>2. CASE k \notin ok
    <3>1. k \notin failed /\ waits'[k] = waits[k]
      BY <2>2 DEF AwaitOnly
    <3>2. waits[k] \in Procs /\ pc[waits[k]] = "wait" /\ k \in open[waits[k]]
          /\ <<waits[k], k>> \in armed
      BY <3>1 DEF WaitsInv, WaitsOwned, TypeInv, TypeOK
    <3>3. <<waits[k], k>> \in armed'
      BY <3>1, <3>2 DEF AwaitOnly
    <3>4. k \notin Cancelled(waits[k], failed)
      BY <3>1 DEF Cancelled
    <3>5. QED
      BY <3>1, <3>2, <3>3, <3>4, <1>1
  <2>3. QED
    BY <2>1, <2>2
<1>3. OpenAsked'
  BY <1>1 DEF WaitsInv, OpenAsked
<1>4. Ladder'
  <2> SUFFICES ASSUME NEW q \in Procs, pc'[q] = "wait", Strategy[Job(q)] = "sequential"
               PROVE  /\ inbox'[q] # {} => open'[q] = {}
                      /\ \A j, k \in open'[q] : j = k
    BY <1>0 DEF Ladder
  <2>1. CASE q = p
    BY <2>1, <1>1
  <2>2. CASE q # p
    <3>1. pc[q] = "wait" /\ \A j, k \in open[q] : j = k
      BY <2>2, <1>1 DEF WaitsInv, Ladder
    <3>2. QED
      BY <1>0, <1>1, <2>2, <3>1, CancelledLadder
  <2>3. QED
    BY <2>1, <2>2
<1>5. NotifyAll'
  BY <1>0, <1>1 DEF WaitsInv, NotifyAll
<1>6. QED
  BY <1>2, <1>3, <1>4, <1>5 DEF WaitsInv

LEMMA NotifyWaits ==
    ASSUME TypeInv, WaitsInv, NEW p \in Procs, Notified(p) \/ Rang(p) \/ RingFailed(p)
    PROVE  WaitsInv'
<1>1. CASE Notified(p)
  <2>1. PICK ok \in SUBSET Assignments(Job(p), team[p]) :
            /\ AwaitOnly(p, ok, Assignments(Job(p), team[p]) \ ok)
            /\ pc' = [pc EXCEPT ![p] = IF ok = {} THEN "expire" ELSE "wait"]
    BY <1>1 DEF Notified
  <2>2. pc[p] = "notify" /\ UNCHANGED todo
    BY <1>1 DEF Notified
  <2>3. Assignments(Job(p), team[p]) \subseteq Keys
    BY <2>2, RunJob, AssignmentsAreKeys, ConstantsAssumption, RunningNames
  <2> DEFINE failed == Assignments(Job(p), team[p]) \ ok
  <2> DEFINE s == IF ok = {} THEN "expire" ELSE "wait"
  <2>4. ok \in SUBSET Keys /\ failed \in SUBSET Keys /\ ok \cap failed = {}
    BY <2>3
  <2>5. s # "notify" /\ (ok # {} => s = "wait")
    OBVIOUS
  <2>6. Strategy[Job(p)] # "sequential"
    BY <2>2 DEF WaitsInv, NotifyAll
  <2>7. AwaitOnly(p, ok, failed) /\ pc' = [pc EXCEPT ![p] = s]
    BY <2>1
  <2> HIDE DEF failed, s
  <2>8. QED
    BY <2>2, <2>4, <2>5, <2>6, <2>7, AwaitWaits
<1>2. CASE Rang(p)
  <2>1. /\ pc[p] = "ring" /\ UNCHANGED todo
        /\ AwaitOnly(p, {RungKey(p)}, {})
        /\ pc' = [pc EXCEPT ![p] = "wait"]
    BY <1>2 DEF Rang
  <2>2. {RungKey(p)} \in SUBSET Keys /\ {} \in SUBSET Keys /\ {RungKey(p)} \cap {} = {}
    BY <2>1, RungKeyIsKey
  <2>3. \A j, k \in {RungKey(p)} : j = k
    OBVIOUS
  <2>4. QED
    BY <2>1, <2>2, <2>3, AwaitWaits
<1>3. CASE RingFailed(p)
  <2>1. pc[p] = "ring" /\ UNCHANGED todo /\ AwaitOnly(p, {}, {RungKey(p)})
    BY <1>3 DEF RingFailed
  <2>2. {RungKey(p)} \in SUBSET Keys /\ {} \in SUBSET Keys /\ {} \cap {RungKey(p)} = {}
    BY <2>1, RungKeyIsKey
  <2>3. \E s \in {"ring", "expire"} : pc' = [pc EXCEPT ![p] = s]
    BY <1>3 DEF RingFailed, Escalate
  <2>4. \A j, k \in {} : j = k
    OBVIOUS
  <2>5. QED
    BY <2>1, <2>2, <2>3, <2>4, AwaitWaits
<1>4. QED
  BY <1>1, <1>2, <1>3

\* A step that takes keys off the channels and leaves every place alone.
LEMMA ClearedWaits ==
    ASSUME TypeInv, WaitsInv, UNCHANGED <<pc, todo, asked>>,
           NEW ks \in SUBSET Keys,
           \A k \in Keys : waits'[k] = IF k \in ks THEN None ELSE waits[k],
           \A p \in Procs, k \in Keys \ ks : <<p, k>> \in armed => <<p, k>> \in armed',
           \A p \in Procs : /\ open'[p] \subseteq open[p]
                            /\ open[p] \ open'[p] \subseteq ks
                            /\ inbox'[p] # {} => open'[p] # open[p]
    PROVE  WaitsInv'
<1>0. \A q \in Procs : Job(q)' = Job(q)
  BY DEF Job
<1>1. WaitsOwned'
  <2> SUFFICES ASSUME NEW k \in Keys, waits'[k] # None
               PROVE  /\ pc[waits'[k]] = "wait"
                      /\ k \in open'[waits'[k]]
                      /\ <<waits'[k], k>> \in armed'
    BY DEF WaitsOwned
  <2>1. k \notin ks /\ waits'[k] = waits[k]
    OBVIOUS
  <2>2. waits[k] \in Procs /\ pc[waits[k]] = "wait" /\ k \in open[waits[k]]
        /\ <<waits[k], k>> \in armed
    BY <2>1 DEF WaitsInv, WaitsOwned, TypeInv, TypeOK
  <2>3. QED
    BY <2>1, <2>2
<1>2. OpenAsked'
  BY DEF WaitsInv, OpenAsked
<1>3. Ladder'
  <2> SUFFICES ASSUME NEW q \in Procs, pc[q] = "wait", Strategy[Job(q)] = "sequential"
               PROVE  /\ inbox'[q] # {} => open'[q] = {}
                      /\ \A j, k \in open'[q] : j = k
    BY <1>0 DEF Ladder
  <2>1. \A j, k \in open[q] : j = k
    BY DEF WaitsInv, Ladder
  <2>2. open'[q] \subseteq open[q] /\ (inbox'[q] # {} => open'[q] # open[q])
    OBVIOUS
  <2>3. ASSUME inbox'[q] # {} PROVE open'[q] = {}
    <3>1. PICK k \in open[q] : k \notin open'[q]
      BY <2>2, <2>3
    <3>2. QED
      BY <2>1, <2>2, <3>1
  <2>4. QED
    BY <2>1, <2>2, <2>3
<1>4. NotifyAll'
  BY <1>0 DEF WaitsInv, NotifyAll
<1>5. QED
  BY <1>1, <1>2, <1>3, <1>4 DEF WaitsInv

LEMMA DeliverWaits ==
    ASSUME TypeInv, WaitsInv, NEW ks \in SUBSET Keys, NEW h, NEW v, Deliver(ks, h, v)
    PROVE  WaitsInv'
<1>1. /\ UNCHANGED <<pc, todo, asked>>
      /\ \A k \in Keys : waits'[k] = IF k \in ks THEN None ELSE waits[k]
      /\ \A p \in Procs, k \in Keys \ ks : <<p, k>> \in armed => <<p, k>> \in armed'
  BY DEF Deliver, Cleanup
<1>2. \A p \in Procs : /\ Heard(p, ks) \subseteq open[p] \cap ks
                       /\ open'[p] = open[p] \ Heard(p, ks)
                       /\ inbox'[p] # {} => Heard(p, ks) # {}
  BY DEF Deliver, Settled, Heard
<1>3. \A p \in Procs : /\ open'[p] \subseteq open[p]
                       /\ open[p] \ open'[p] \subseteq ks
                       /\ inbox'[p] # {} => open'[p] # open[p]
  BY <1>2
<1>4. QED
  BY <1>1, <1>3, ClearedWaits

LEMMA TimerWaits ==
    ASSUME TypeInv, WaitsInv, NEW p \in Procs, NEW k \in Keys, TimerFires(p, k)
    PROVE  WaitsInv'
<1>1. UNCHANGED <<pc, todo, asked>> /\ {k} \in SUBSET Keys
  BY DEF TimerFires
<1>2. \A j \in Keys : waits'[j] = IF j \in {k} THEN None ELSE waits[j]
  BY DEF TimerFires, TypeInv, TypeOK
<1>3. \A q \in Procs, j \in Keys \ {k} : <<q, j>> \in armed => <<q, j>> \in armed'
  BY DEF TimerFires
<1>4. \A q \in Procs : /\ open'[q] = IF q = p THEN open[p] \ {k} ELSE open[q]
                       /\ inbox'[q] # {} => q = p /\ k \in open[p]
  BY DEF TimerFires, Settled, TypeInv, TypeOK
<1>5. \A q \in Procs : /\ open'[q] \subseteq open[q]
                       /\ open[q] \ open'[q] \subseteq {k}
                       /\ inbox'[q] # {} => open'[q] # open[q]
  BY <1>4
<1>6. QED
  BY <1>1, <1>2, <1>3, <1>5, ClearedWaits

\* A run that settles takes all its waits with it.
LEMMA SettleWaits ==
    ASSUME TypeInv, WaitsInv, NEW p \in Procs, pc[p] = "wait", UNCHANGED todo,
           NEW v, Settle(p, v)
    PROVE  WaitsInv'
<1> DEFINE s == IF v = "null" THEN "expire" ELSE "resolve"
<1>0. None \notin Procs /\ (\A q \in Procs : Job(q)' = Job(q)) /\ asked[p] \in SUBSET Keys
  BY ConstantsAssumption DEF Job, TypeInv, TypeOK
<1>1. \A q \in Procs : /\ pc'[q] = IF q = p THEN s ELSE pc[q]
                       /\ asked'[q] = IF q = p THEN {} ELSE asked[q]
                       /\ open'[q] = IF q = p THEN {} ELSE open[q] \ Cancelled(q, asked[p])
                       /\ inbox'[q] = IF q = p THEN {}
                                      ELSE inbox[q] \cup NoAnswers(Cancelled(q, asked[p]))
  BY DEF Settle, TypeInv, TypeOK
<1>2. s # "wait" /\ s # "notify"
  OBVIOUS
<1> HIDE DEF s
<1>3. WaitsOwned'
  <2> SUFFICES ASSUME NEW k \in Keys, waits'[k] # None
               PROVE  /\ pc'[waits'[k]] = "wait"
                      /\ k \in open'[waits'[k]]
                      /\ <<waits'[k], k>> \in armed'
    BY DEF WaitsOwned
  <2>1. k \notin asked[p] /\ waits'[k] = waits[k]
    BY DEF Settle, Cleanup
  <2>2. waits[k] \in Procs /\ pc[waits[k]] = "wait" /\ k \in open[waits[k]]
        /\ <<waits[k], k>> \in armed
    BY <2>1 DEF WaitsInv, WaitsOwned, TypeInv, TypeOK
  <2>3. waits[k] # p
    BY <2>1, <2>2 DEF WaitsInv, OpenAsked
  <2>4. <<waits[k], k>> \in armed'
    BY <2>1, <2>2 DEF Settle, Cleanup
  <2>5. k \notin Cancelled(waits[k], asked[p])
    BY <2>1 DEF Cancelled
  <2>6. QED
    BY <2>1, <2>2, <2>3, <2>4, <2>5, <1>1
<1>4. OpenAsked'
  BY <1>1 DEF WaitsInv, OpenAsked
<1>5. Ladder'
  <2> SUFFICES ASSUME NEW q \in Procs, pc'[q] = "wait", Strategy[Job(q)] = "sequential"
               PROVE  /\ inbox'[q] # {} => open'[q] = {}
                      /\ \A j, k \in open'[q] : j = k
    BY <1>0 DEF Ladder
  <2>1. q # p /\ pc[q] = "wait"
    BY <1>1, <1>2
  <2>2. \A j, k \in open[q] : j = k
    BY <2>1 DEF WaitsInv, Ladder
  <2>3. QED
    BY <1>0, <1>1, <2>1, <2>2, CancelledLadder
<1>6. NotifyAll'
  BY <1>0, <1>1, <1>2 DEF WaitsInv, NotifyAll
<1>7. QED
  BY <1>3, <1>4, <1>5, <1>6 DEF WaitsInv

\* A run that takes a "no answer" off its list and waits on.
LEMMA CountWaits ==
    ASSUME TypeInv, WaitsInv, NEW p \in Procs, Strategy[Job(p)] # "sequential",
           UNCHANGED todo, NEW m, Count(p, m)
    PROVE  WaitsInv'
<1>0. \A q \in Procs : Job(q)' = Job(q) /\ (q # p => inbox'[q] = inbox[q])
  BY DEF Job, Count, TypeInv, TypeOK
<1>1. WaitsOwned' /\ OpenAsked' /\ NotifyAll'
  BY <1>0 DEF WaitsInv, WaitsOwned, OpenAsked, NotifyAll, Count
<1>2. Ladder'
  BY <1>0 DEF WaitsInv, Ladder, Count
<1>3. QED
  BY <1>1, <1>2 DEF WaitsInv

\* A sequential run that hears from its channel has no wait left.
LEMMA SequentialWaits ==
    ASSUME TypeInv, WaitsInv, NEW p \in Procs, HandleSequential(p)
    PROVE  WaitsInv'
<1>1. open[p] = {} /\ pc[p] = "wait" /\ UNCHANGED <<todo, open, waits, armed>>
  BY DEF HandleSequential, WaitsInv, Ladder
<1>2. \E s \in {"resolve", "ring", "expire"} : pc' = [pc EXCEPT ![p] = s]
  BY DEF HandleSequential, Escalate
<1>3. \A q \in Procs \ {p} : pc'[q] = pc[q] /\ asked'[q] = asked[q] /\ inbox'[q] = inbox[q]
  BY <1>2 DEF HandleSequential, TypeInv, TypeOK
<1>4. pc'[p] # "wait" /\ pc'[p] # "notify"
  BY <1>2 DEF TypeInv, TypeOK
<1>5. \A q \in Procs : Job(q)' = Job(q)
  BY <1>1 DEF Job
<1>6. WaitsOwned'
  <2> SUFFICES ASSUME NEW k \in Keys, waits[k] # None
               PROVE  /\ pc'[waits[k]] = "wait"
                      /\ k \in open[waits[k]]
                      /\ <<waits[k], k>> \in armed
    BY <1>1 DEF WaitsOwned
  <2>1. waits[k] \in Procs /\ pc[waits[k]] = "wait" /\ k \in open[waits[k]]
        /\ <<waits[k], k>> \in armed
    BY DEF WaitsInv, WaitsOwned, TypeInv, TypeOK
  <2>2. QED
    BY <1>1, <1>3, <2>1
<1>7. OpenAsked'
  BY <1>1, <1>3 DEF WaitsInv, OpenAsked
<1>8. Ladder' /\ NotifyAll'
  BY <1>1, <1>3, <1>4, <1>5 DEF WaitsInv, Ladder, NotifyAll
<1>9. QED
  BY <1>6, <1>7, <1>8 DEF WaitsInv

LEMMA HandleWaits ==
    ASSUME TypeInv, WaitsInv, NEW p \in Procs, HandleParallel(p) \/ HandleQuorum(p)
    PROVE  WaitsInv'
<1>1. pc[p] = "wait" /\ UNCHANGED todo /\ Strategy[Job(p)] # "sequential"
  BY DEF HandleParallel, HandleQuorum
<1>2. (\E v \in Verdicts : Settle(p, v)) \/ (\E m \in inbox[p] : Count(p, m))
  BY Names DEF HandleParallel, HandleQuorum, VerdictOf
<1>3. QED
  BY <1>1, <1>2, SettleWaits, CountWaits

LEMMA NextWaits ==
    ASSUME TypeInv, WaitsInv, [Next]_vars
    PROVE  WaitsInv'
<1>1. ASSUME NEW r \in Requests, Arrive(r) \/ CallStep(r) \/ AnnounceFails(r)
      PROVE  WaitsInv'
  BY <1>1, QuietCall, QuietWaits
<1>2. ASSUME NEW d \in Drains, DrainStep(d)
      PROVE  WaitsInv'
  BY <1>2, QuietDrain, QuietWaits
<1>3. ASSUME NEW p \in Procs, RunStep(p) \/ PublishFails(p)
      PROVE  WaitsInv'
  BY <1>3, NotifyWaits, HandleWaits, SequentialWaits, QuietRun, QuietWaits DEF RunStep
<1>4. ASSUME NEW p \in Procs, NEW k \in Keys, TimerFires(p, k)
      PROVE  WaitsInv'
  BY <1>4, TimerWaits
<1>5. ASSUME NEW h \in Humans, NEW v \in {"yes", "no"},
             Speak(h, v) \/ \E k \in Keys : Respond(k, h, v)
      PROVE  WaitsInv'
  <2>1. VoiceKeys(h) \in SUBSET Keys /\ \A k \in Keys : {k} \in SUBSET Keys
    BY DEF VoiceKeys
  <2>2. QED
    BY <1>5, <2>1, DeliverWaits DEF Speak, Respond
<1>6. QED
  BY <1>1, <1>2, <1>3, <1>4, <1>5, QuietRest, QuietWaits DEF Next

\* "First to respond wins; the rest are cancelled": a wait that is still
\* registered with a channel belongs to a run that is still waiting for it, and
\* has its timer, however the runs, the answers and the failures interleave.
THEOREM WaitsAreOwned == Spec => []WaitsOwned
<1>1. Init => WaitsInv
  BY DEF Init, WaitsInv, WaitsOwned, OpenAsked, Ladder, NotifyAll
<1>2. TypeInv /\ WaitsInv /\ [Next]_vars => WaitsInv'
  BY NextWaits
<1>3. WaitsInv => WaitsOwned
  BY DEF WaitsInv
<1>4. QED
  BY <1>1, <1>2, <1>3, TypeInvariant, PTL DEF Spec

-----------------------------------------------------------------------------
(* The votes of a quorum *)

\* Where a run may hold votes: once it has asked.
Voted == {"wait", "resolve", "approve", "expire", "release", "free"}

\* The votes of activation p come from the approvers its quorum asked.
VotesOf(p) ==
    /\ pc[p] = "ring" => Strategy[Job(p)] = "sequential"
    /\ ayes[p] # {} => pc[p] \in Voted /\ Strategy[Job(p)] = "quorum"
    /\ pc[p] \in {"wait", "resolve"} => ayes[p] \subseteq team[p]
    /\ pc[p] = "wait" /\ Strategy[Job(p)] = "quorum" =>
          /\ \A k \in open[p] : k.to \in team[p]
          /\ \A m \in inbox[p] : m.key.to \in team[p]
    /\ pc[p] = "resolve" /\ verdict[p] = "approved" /\ Strategy[Job(p)] = "quorum" =>
          Cardinality(ayes[p]) >= Required[Job(p)]

VotesInv == \A p \in Procs : VotesOf(p)

\* A step leaves q's run alone, but for the answers its channels report.
Apart(q) ==
    /\ pc'[q] = pc[q] /\ todo'[q] = todo[q] /\ team'[q] = team[q]
    /\ ayes'[q] = ayes[q] /\ verdict'[q] = verdict[q]
    /\ open'[q] \subseteq open[q]
    /\ \A m \in inbox'[q] : m \in inbox[q] \/ m.key \in open[q]

LEMMA ApartVotes ==
    ASSUME NEW q \in Procs, VotesOf(q), Apart(q)
    PROVE  VotesOf(q)'
<1>1. Job(q)' = Job(q)
  BY DEF Apart, Job
<1>2. QED
  BY <1>1 DEF VotesOf, Apart

\* An activation with no votes that neither waits nor has decided.
LEMMA FreshVotes ==
    ASSUME NEW p \in Procs, ayes'[p] = {}, pc'[p] \notin {"wait", "resolve"},
           pc'[p] = "ring" => Strategy[Job(p)'] = "sequential"
    PROVE  VotesOf(p)'
BY DEF VotesOf

\* A run that is past its decision keeps its votes until it ends.
LEMMA PastVotes ==
    ASSUME NEW p \in Procs, VotesOf(p), ayes'[p] = ayes[p], todo'[p] = todo[p],
           pc'[p] \in {"approve", "release", "free", "expire"}
    PROVE  VotesOf(p)'
<1>1. Job(p)' = Job(p)
  BY DEF Job
<1>2. QED
  BY <1>1 DEF VotesOf, Voted

LEMMA FirstStopRing ==
    ASSUME NEW r
    PROVE  /\ FirstStop(r) \notin {"wait", "resolve"}
           /\ FirstStop(r) = "ring" => Strategy[r] = "sequential"
BY DEF FirstStop

\* The cancelled waits of a run were open.
LEMMA CancelledOpen ==
    ASSUME WaitsInv, NEW q \in Procs, None \notin Procs, NEW ks \in SUBSET Keys,
           NEW m \in NoAnswers(Cancelled(q, ks))
    PROVE  m.key \in open[q]
<1>1. PICK k \in Cancelled(q, ks) : m = Note(k, None, "none")
  BY DEF NoAnswers
<1>2. m.key = k
  BY <1>1 DEF Note
<1>3. k \in Keys /\ waits[k] = q
  BY <1>1 DEF Cancelled
<1>4. QED
  BY <1>2, <1>3 DEF WaitsInv, WaitsOwned

LEMMA StartVotes ==
    ASSUME TypeInv, VotesInv, UNCHANGED <<todo, open, inbox, ayes, verdict>>,
           NEW p \in Procs, pc[p] \in {"new", "taken", "probe"},
           NEW hs, StartRun(p, Job(p), hs)
    PROVE  VotesInv'
<1>1. \A q \in Procs : /\ pc'[q] = IF q = p THEN FirstStop(Job(p)) ELSE pc[q]
                       /\ q # p => team'[q] = team[q]
  BY DEF TypeInv, TypeOK, StartRun
<1>2. ayes'[p] = {}
  BY DEF VotesInv, VotesOf, Voted
<1>3. Job(p)' = Job(p)
  BY DEF Job
<1>4. VotesOf(p)'
  BY <1>1, <1>2, <1>3, FirstStopRing, FreshVotes
<1>5. \A q \in Procs \ {p} : Apart(q)
  BY <1>1 DEF Apart
<1>6. QED
  BY <1>4, <1>5, ApartVotes DEF VotesInv

LEMMA CallVotes ==
    ASSUME TypeInv, VotesInv, NEW r \in Requests, Arrive(r) \/ CallStep(r) \/ AnnounceFails(r)
    PROVE  VotesInv'
<1>0. TypeOK /\ r \in Procs /\ Job(r) = r
  BY DEF TypeInv, Procs, Job
<1>1. CASE Dispatch(r)
  <2>1. PICK hs \in Teams(r) : StartRun(r, r, hs)
    BY <1>1 DEF Dispatch
  <2>2. QED
    BY <1>0, <1>1, <2>1, StartVotes DEF Dispatch
<1>2. CASE Announced(r)
  <2>1. UNCHANGED <<team, open, inbox, ayes, verdict>>
    BY <1>2 DEF Announced
  <2>2. \A q \in Procs :
           \/ pc'[q] = pc[q] /\ todo'[q] = todo[q]
           \/ pc[q] \in {"announce", "idle"} /\ pc'[q] \in {"parked", "probe"}
    BY <1>0, <1>2 DEF Announced, StartDrain, TypeOK
  <2>3. ASSUME NEW q \in Procs, pc[q] \in {"announce", "idle"}, pc'[q] \in {"parked", "probe"}
        PROVE  VotesOf(q)'
    <3>1. ayes'[q] = {}
      BY <2>1, <2>3 DEF VotesInv, VotesOf, Voted
    <3>2. QED
      BY <2>3, <3>1, FreshVotes
  <2>4. ASSUME NEW q \in Procs, pc'[q] = pc[q], todo'[q] = todo[q]
        PROVE  VotesOf(q)'
    BY <2>1, <2>4, ApartVotes DEF Apart, VotesInv
  <2>5. QED
    BY <2>2, <2>3, <2>4 DEF VotesInv
<1>3. CASE Refuse(r) \/ Enqueue(r) \/ Fail(r) \/ Unpark(r) \/ AnnounceFails(r) \/ Return(r)
  <2>1. \E s \in {"expire", "announce", "done", "failed"} : pc' = [pc EXCEPT ![r] = s]
    BY <1>3 DEF Refuse, Enqueue, Fail, Unpark, AnnounceFails, Return
  <2>2. UNCHANGED <<todo, team, open, inbox>>
    BY <1>3 DEF Refuse, Enqueue, Fail, Unpark, AnnounceFails, Return
  <2>3. \A q \in Procs \ {r} : ayes'[q] = ayes[q] /\ verdict'[q] = verdict[q]
    BY <1>0, <1>3 DEF Refuse, Enqueue, Fail, Unpark, AnnounceFails, Return, Forget, TypeOK
  <2>4. ayes'[r] = {}
    <3>1. pc[r] \in {"new", "failed", "parked", "announce"} => ayes[r] = {}
      BY <1>0 DEF VotesInv, VotesOf, Voted
    <3>2. QED
      BY <1>0, <1>3, <3>1
      DEF Refuse, Enqueue, Fail, Unpark, AnnounceFails, Return, Forget, TypeOK
  <2>5. VotesOf(r)'
    BY <1>0, <2>1, <2>4, FreshVotes DEF TypeOK
  <2>6. \A q \in Procs \ {r} : Apart(q)
    BY <2>1, <2>2, <2>3, <1>0 DEF Apart, TypeOK
  <2>7. QED
    BY <2>5, <2>6, ApartVotes DEF VotesInv
<1>4. QED
  BY <1>1, <1>2, <1>3 DEF Arrive, CallStep

LEMMA DrainVotes ==
    ASSUME TypeInv, VotesInv, NEW d \in Drains, DrainStep(d)
    PROVE  VotesInv'
<1>0. TypeOK /\ d \in Procs
  BY DEF TypeInv, Procs
<1>1. CASE DrainStart(d) \/ DrainQuorum(d)
  <2>1. \E hs : StartRun(d, Job(d), hs)
    BY <1>1 DEF DrainStart, DrainQuorum
  <2>2. pc[d] \in {"taken", "probe"} /\ UNCHANGED <<todo, open, inbox, ayes, verdict>>
    BY <1>1 DEF DrainStart, DrainQuorum
  <2>3. QED
    BY <1>0, <2>1, <2>2, StartVotes
<1>2. CASE DrainSkip(d) \/ DrainTake(d) \/ DrainEnd(d) \/ DrainNext(d)
  <2>1. UNCHANGED <<open, inbox>>
    BY <1>2 DEF DrainSkip, DrainTake, DrainEnd, DrainNext
  <2>2. \A q \in Procs \ {d} : /\ pc'[q] = pc[q] /\ todo'[q] = todo[q] /\ team'[q] = team[q]
                               /\ ayes'[q] = ayes[q] /\ verdict'[q] = verdict[q]
    BY <1>0, <1>2 DEF DrainSkip, DrainTake, DrainEnd, DrainNext, Forget, TypeOK
  <2>3. pc'[d] \in {"probe", "taken", "idle"}
    BY <1>0, <1>2 DEF DrainSkip, DrainTake, DrainEnd, DrainNext, TypeOK
  <2>4. ayes'[d] = {}
    <3>1. pc[d] = "probe" => ayes[d] = {}
      BY <1>0 DEF VotesInv, VotesOf, Voted
    <3>2. QED
      BY <1>0, <1>2, <3>1 DEF DrainSkip, DrainTake, DrainEnd, DrainNext, Forget, TypeOK
  <2>5. VotesOf(d)'
    BY <1>0, <2>3, <2>4, FreshVotes
  <2>6. \A q \in Procs \ {d} : Apart(q)
    BY <2>1, <2>2 DEF Apart
  <2>7. QED
    BY <2>5, <2>6, ApartVotes DEF VotesInv
<1>3. QED
  BY <1>1, <1>2 DEF DrainStep

LEMMA PastRunVotes ==
    ASSUME TypeInv, VotesInv, NEW p \in Procs,
           \/ PublishResolved(p) \/ PublishApproved(p) \/ PublishTimeout(p)
           \/ PublishFails(p) \/ Release(p)
    PROVE  VotesInv'
<1>1. \E s \in {"approve", "release", "free"} : pc' = [pc EXCEPT ![p] = s]
  BY DEF PublishResolved, PublishApproved, PublishTimeout, PublishFails, Release
<1>2. UNCHANGED <<todo, open, inbox, ayes>>
  BY DEF PublishResolved, PublishApproved, PublishTimeout, PublishFails, Release
<1>3. \A q \in Procs \ {p} : team'[q] = team[q] /\ verdict'[q] = verdict[q]
  BY DEF PublishResolved, PublishApproved, PublishTimeout, PublishFails, Release, TypeInv, TypeOK
<1>4. \A q \in Procs \ {p} : Apart(q)
  BY <1>1, <1>2, <1>3 DEF Apart, TypeInv, TypeOK
<1>5. pc'[p] \in {"approve", "release", "free"}
  BY <1>1 DEF TypeInv, TypeOK
<1>6. VotesOf(p)'
  BY <1>2, <1>5, PastVotes DEF VotesInv
<1>7. QED
  BY <1>4, <1>6, ApartVotes DEF VotesInv

\* A step of p that cancels the waits ks leaves the other runs apart.
LEMMA CancelApart ==
    ASSUME TypeInv, WaitsInv, NEW p \in Procs, NEW q \in Procs \ {p}, NEW ks \in SUBSET Keys,
           pc'[q] = pc[q], todo'[q] = todo[q], team'[q] = team[q],
           ayes'[q] = ayes[q], verdict'[q] = verdict[q],
           open'[q] = open[q] \ Cancelled(q, ks),
           inbox'[q] = inbox[q] \cup NoAnswers(Cancelled(q, ks))
    PROVE  Apart(q)
<1>1. None \notin Procs
  BY ConstantsAssumption
<1>2. \A m \in NoAnswers(Cancelled(q, ks)) : m.key \in open[q]
  BY <1>1, CancelledOpen
<1>3. QED
  BY <1>2 DEF Apart

LEMMA AwaitApart ==
    ASSUME TypeInv, WaitsInv, NEW p \in Procs,
           NEW ok \in SUBSET Keys, NEW failed \in SUBSET Keys, AwaitOnly(p, ok, failed),
           UNCHANGED <<todo, team, ayes, verdict>>,
           NEW s, pc' = [pc EXCEPT ![p] = s]
    PROVE  /\ pc'[p] = s /\ open'[p] = ok /\ inbox'[p] = {}
           /\ \A q \in Procs \ {p} : Apart(q)
<1>1. pc'[p] = s /\ open'[p] = ok /\ inbox'[p] = {}
  BY DEF AwaitOnly, TypeInv, TypeOK
<1>2. \A q \in Procs \ {p} :
         /\ pc'[q] = pc[q]
         /\ open'[q] = open[q] \ Cancelled(q, failed)
         /\ inbox'[q] = inbox[q] \cup NoAnswers(Cancelled(q, failed))
  BY DEF AwaitOnly, TypeInv, TypeOK
<1>3. QED
  BY <1>1, <1>2, CancelApart

LEMMA NotifyVotes ==
    ASSUME TypeInv, WaitsInv, VotesInv, NEW p \in Procs,
           Notified(p) \/ Rang(p) \/ RingFailed(p)
    PROVE  VotesInv'
<1>1. pc[p] \in {"notify", "ring"} /\ UNCHANGED <<todo, team, ayes, verdict>>
  BY DEF Notified, Rang, RingFailed
<1>2. ayes[p] = {} /\ Job(p)' = Job(p)
  BY <1>1 DEF VotesInv, VotesOf, Voted, Job
<1>3. Job(p) \in Requests /\ team[p] \in SUBSET Humans
  BY <1>1, RunJob, RunningNames
<1>4. CASE Notified(p)
  <2> DEFINE all == Assignments(Job(p), team[p])
  <2>1. PICK ok \in SUBSET all :
            /\ AwaitOnly(p, ok, all \ ok)
            /\ pc' = [pc EXCEPT ![p] = IF ok = {} THEN "expire" ELSE "wait"]
    BY <1>4 DEF Notified
  <2>2. all \subseteq Keys
    BY <1>3, AssignmentsAreKeys, ConstantsAssumption
  <2>3. ok \in SUBSET Keys /\ all \ ok \in SUBSET Keys
    BY <2>2
  <2>4. Strategy[Job(p)] = "quorum" => \A k \in ok : k.to \in team[p]
    BY <2>1 DEF Assignments, Key
  <2> HIDE DEF all
  <2>5. /\ pc'[p] = IF ok = {} THEN "expire" ELSE "wait"
        /\ open'[p] = ok /\ inbox'[p] = {}
        /\ \A q \in Procs \ {p} : Apart(q)
    BY <1>1, <2>1, <2>3, AwaitApart
  <2>6. VotesOf(p)'
    BY <1>1, <1>2, <2>4, <2>5 DEF VotesOf
  <2>7. QED
    BY <2>5, <2>6, ApartVotes DEF VotesInv
<1>5. CASE Rang(p)
  <2>1. /\ pc[p] = "ring" /\ AwaitOnly(p, {RungKey(p)}, {})
        /\ pc' = [pc EXCEPT ![p] = "wait"]
    BY <1>5 DEF Rang
  <2>2. {RungKey(p)} \in SUBSET Keys /\ {} \in SUBSET Keys
    BY <2>1, RungKeyIsKey
  <2>3. pc'[p] = "wait" /\ \A q \in Procs \ {p} : Apart(q)
    BY <1>1, <2>1, <2>2, AwaitApart
  <2>4. Strategy[Job(p)] = "sequential"
    BY <2>1 DEF VotesInv, VotesOf
  <2>5. VotesOf(p)'
    BY <1>1, <1>2, <2>3, <2>4 DEF VotesOf
  <2>6. QED
    BY <2>3, <2>5, ApartVotes DEF VotesInv
<1>6. CASE RingFailed(p)
  <2>1. pc[p] = "ring" /\ AwaitOnly(p, {}, {RungKey(p)})
    BY <1>6 DEF RingFailed
  <2>2. {RungKey(p)} \in SUBSET Keys /\ {} \in SUBSET Keys
    BY <2>1, RungKeyIsKey
  <2>3. PICK s \in {"ring", "expire"} : pc' = [pc EXCEPT ![p] = s]
    BY <1>6 DEF RingFailed, Escalate
  <2>4. pc'[p] = s /\ \A q \in Procs \ {p} : Apart(q)
    BY <1>1, <2>1, <2>2, <2>3, AwaitApart
  <2>5. Strategy[Job(p)'] = "sequential" /\ ayes'[p] = {}
    BY <1>1, <1>2, <2>1 DEF VotesInv, VotesOf
  <2>6. VotesOf(p)'
    BY <2>3, <2>4, <2>5, FreshVotes
  <2>7. QED
    BY <2>4, <2>6, ApartVotes DEF VotesInv
<1>7. QED
  BY <1>4, <1>5, <1>6

LEMMA SequentialVotes ==
    ASSUME TypeInv, VotesInv, NEW p \in Procs, HandleSequential(p)
    PROVE  VotesInv'
<1>1. /\ pc[p] = "wait" /\ Strategy[Job(p)] = "sequential"
      /\ UNCHANGED <<todo, team, open, ayes>>
  BY DEF HandleSequential
<1>2. \E s \in {"resolve", "ring", "expire"} : pc' = [pc EXCEPT ![p] = s]
  BY DEF HandleSequential, Escalate
<1>3. \A q \in Procs \ {p} : verdict'[q] = verdict[q] /\ inbox'[q] = inbox[q]
  BY DEF HandleSequential, TypeInv, TypeOK
<1>4. \A q \in Procs \ {p} : Apart(q)
  BY <1>1, <1>2, <1>3 DEF Apart, TypeInv, TypeOK
<1>5. ayes'[p] = {} /\ Job(p)' = Job(p)
  BY <1>1 DEF VotesInv, VotesOf, Job
<1>6. pc'[p] \in {"resolve", "ring", "expire"}
  BY <1>2 DEF TypeInv, TypeOK
<1>7. VotesOf(p)'
  BY <1>1, <1>5, <1>6 DEF VotesOf
<1>8. QED
  BY <1>4, <1>7, ApartVotes DEF VotesInv

\* What settling a run, or one more "no answer", does to it and to the others.
LEMMA SettleApart ==
    ASSUME TypeInv, WaitsInv, NEW p \in Procs, NEW v, Settle(p, v), UNCHANGED <<todo, team>>,
           \A q \in Procs \ {p} : ayes'[q] = ayes[q]
    PROVE  /\ pc'[p] = IF v = "null" THEN "expire" ELSE "resolve"
           /\ verdict'[p] = v
           /\ \A q \in Procs \ {p} : Apart(q)
<1>1. pc'[p] = (IF v = "null" THEN "expire" ELSE "resolve") /\ verdict'[p] = v
  BY DEF Settle, TypeInv, TypeOK
<1>2. \A q \in Procs \ {p} :
         /\ pc'[q] = pc[q] /\ verdict'[q] = verdict[q]
         /\ open'[q] = open[q] \ Cancelled(q, asked[p])
         /\ inbox'[q] = inbox[q] \cup NoAnswers(Cancelled(q, asked[p]))
  BY DEF Settle, TypeInv, TypeOK
<1>3. asked[p] \in SUBSET Keys
  BY DEF TypeInv, TypeOK
<1>4. \A q \in Procs \ {p} : Apart(q)
  BY <1>2, <1>3, CancelApart
<1>5. QED
  BY <1>1, <1>4

LEMMA CountApart ==
    ASSUME TypeInv, NEW p \in Procs, NEW m, Count(p, m), UNCHANGED <<todo, team>>,
           \A q \in Procs \ {p} : ayes'[q] = ayes[q]
    PROVE  /\ UNCHANGED <<pc, open, verdict>> /\ inbox'[p] \subseteq inbox[p]
           /\ \A q \in Procs \ {p} : Apart(q)
BY DEF Count, Apart, TypeInv, TypeOK

LEMMA ParallelVotes ==
    ASSUME TypeInv, WaitsInv, VotesInv, NEW p \in Procs, HandleParallel(p)
    PROVE  VotesInv'
<1>1. /\ pc[p] = "wait" /\ Strategy[Job(p)] = "parallel"
      /\ UNCHANGED <<todo, team, ayes>>
  BY DEF HandleParallel
<1>2. ayes[p] = {} /\ Job(p)' = Job(p)
  BY <1>1 DEF VotesInv, VotesOf, Job
<1>3. /\ \A q \in Procs \ {p} : Apart(q)
      /\ pc'[p] \in {"expire", "resolve", "wait"}
  <2>1. CASE \E v : Settle(p, v)
    BY <1>1, <2>1, SettleApart
  <2>2. CASE \E m : Count(p, m)
    BY <1>1, <2>2, CountApart
  <2>3. QED
    BY <2>1, <2>2 DEF HandleParallel
<1>4. VotesOf(p)'
  BY <1>1, <1>2, <1>3 DEF VotesOf
<1>5. QED
  BY <1>3, <1>4, ApartVotes DEF VotesInv

\* Only the approver a wait targets adds a vote, so a quorum is made of its team.
LEMMA QuorumVotes ==
    ASSUME TypeInv, WaitsInv, VotesInv, NEW p \in Procs, HandleQuorum(p)
    PROVE  VotesInv'
<1>1. /\ pc[p] = "wait" /\ Strategy[Job(p)] = "quorum" /\ UNCHANGED <<todo, team>>
  BY DEF HandleQuorum
<1>2. Job(p)' = Job(p)
  BY <1>1 DEF Job
<1>3. /\ ayes[p] \subseteq team[p]
      /\ \A k \in open[p] : k.to \in team[p]
      /\ \A m \in inbox[p] : m.key.to \in team[p]
  BY <1>1 DEF VotesInv, VotesOf
<1>4. CASE Settle(p, "rejected") /\ UNCHANGED ayes
  <2>1. pc'[p] = "resolve" /\ verdict'[p] = "rejected" /\ \A q \in Procs \ {p} : Apart(q)
    BY <1>1, <1>4, SettleApart
  <2>2. VotesOf(p)'
    BY <1>1, <1>2, <1>3, <1>4, <2>1 DEF VotesOf, Voted
  <2>3. QED
    BY <2>1, <2>2, ApartVotes DEF VotesInv
<1>5. ASSUME NEW m \in inbox[p], ayes' = [ayes EXCEPT ![p] = AyesWith(p, m)],
             \/ /\ Cardinality(AyesWith(p, m)) >= Required[Job(p)]
                /\ Settle(p, "approved")
             \/ Settle(p, "null")
             \/ Count(p, m)
      PROVE  VotesInv'
  <2>1. AyesWith(p, m) \subseteq team[p]
    BY <1>3 DEF AyesWith, Counts
  <2>2. ayes'[p] = AyesWith(p, m) /\ \A q \in Procs \ {p} : ayes'[q] = ayes[q]
    BY <1>5 DEF TypeInv, TypeOK
  <2>3. CASE Settle(p, "approved") /\ Cardinality(AyesWith(p, m)) >= Required[Job(p)]
    <3>1. pc'[p] = "resolve" /\ \A q \in Procs \ {p} : Apart(q)
      BY <1>1, <2>2, <2>3, SettleApart
    <3>2. VotesOf(p)'
      BY <1>1, <1>2, <2>1, <2>2, <2>3, <3>1 DEF VotesOf, Voted
    <3>3. QED
      BY <3>1, <3>2, ApartVotes DEF VotesInv
  <2>4. CASE Settle(p, "null")
    <3>1. pc'[p] = "expire" /\ \A q \in Procs \ {p} : Apart(q)
      BY <1>1, <2>2, <2>4, SettleApart
    <3>2. VotesOf(p)'
      BY <1>1, <1>2, <3>1 DEF VotesOf, Voted
    <3>3. QED
      BY <3>1, <3>2, ApartVotes DEF VotesInv
  <2>5. CASE Count(p, m)
    <3>1. /\ UNCHANGED <<pc, open, verdict>> /\ inbox'[p] \subseteq inbox[p]
          /\ \A q \in Procs \ {p} : Apart(q)
      BY <1>1, <2>2, <2>5, CountApart
    <3>2. VotesOf(p)'
      BY <1>1, <1>2, <1>3, <2>1, <2>2, <3>1 DEF VotesOf, Voted
    <3>3. QED
      BY <3>1, <3>2, ApartVotes DEF VotesInv
  <2>6. QED
    BY <1>5, <2>3, <2>4, <2>5
<1>6. QED
  BY <1>4, <1>5 DEF HandleQuorum

\* Answers, timers, presence and disposal from outside.
LEMMA OutsideVotes ==
    ASSUME TypeInv, VotesInv,
           \/ \E q \in Procs, k \in Keys : TimerFires(q, k)
           \/ \E ks \in SUBSET Keys, h \in Humans, v \in {"yes", "no"} : Deliver(ks, h, v)
    PROVE  VotesInv'
<1>1. UNCHANGED <<pc, todo, team, ayes, verdict>>
  BY DEF TimerFires, Deliver
<1>2. ASSUME NEW p \in Procs, NEW k \in Keys, TimerFires(p, k)
      PROVE  \A q \in Procs : Apart(q)
  <2>1. \A m \in NoAnswers({k}) : m.key = k
    BY DEF NoAnswers, Note
  <2>2. \A q \in Procs :
           /\ open'[q] \subseteq open[q]
           /\ inbox'[q] # inbox[q] => k \in open[q] /\ inbox'[q] = inbox[q] \cup NoAnswers({k})
    BY <1>2 DEF TimerFires, TypeInv, TypeOK
  <2>3. QED
    BY <1>1, <2>1, <2>2 DEF Apart
<1>3. ASSUME NEW ks \in SUBSET Keys, NEW h \in Humans, NEW v \in {"yes", "no"},
             Deliver(ks, h, v)
      PROVE  \A q \in Procs : Apart(q)
  <2>1. \A q \in Procs : /\ open'[q] \subseteq open[q]
                         /\ inbox'[q] = inbox[q] \cup {Note(k, h, v) : k \in Heard(q, ks)}
    BY <1>3 DEF Deliver
  <2>2. \A q \in Procs : \A k \in Heard(q, ks) : k \in open[q] /\ Note(k, h, v).key = k
    BY DEF Heard, Note
  <2>3. QED
    BY <1>1, <2>1, <2>2 DEF Apart
<1>4. QED
  BY <1>2, <1>3, ApartVotes DEF VotesInv

LEMMA RestVotes ==
    ASSUME TypeInv, VotesInv,
           \/ \E h \in Humans, s \in EnvStatuses : PresenceChanged(h, s)
           \/ Dispose \/ UNCHANGED vars
    PROVE  VotesInv'
<1>1. UNCHANGED <<team, open, inbox, ayes, verdict>>
  BY DEF PresenceChanged, Dispose, vars
<1>2. \A q \in Procs :
         \/ pc'[q] = pc[q] /\ todo'[q] = todo[q]
         \/ pc[q] = "idle" /\ pc'[q] = "probe"
  BY DEF PresenceChanged, Dispose, vars, StartDrain, TypeInv, TypeOK
<1>3. ASSUME NEW q \in Procs, pc[q] = "idle", pc'[q] = "probe"
      PROVE  VotesOf(q)'
  BY <1>1, <1>3, FreshVotes DEF VotesInv, VotesOf, Voted
<1>4. ASSUME NEW q \in Procs, pc'[q] = pc[q], todo'[q] = todo[q]
      PROVE  VotesOf(q)'
  BY <1>1, <1>4, ApartVotes DEF Apart, VotesInv
<1>5. QED
  BY <1>2, <1>3, <1>4 DEF VotesInv

LEMMA NextVotes ==
    ASSUME TypeInv, WaitsInv, VotesInv, [Next]_vars
    PROVE  VotesInv'
<1>1. ASSUME NEW p \in Procs, RunStep(p) \/ PublishFails(p)
      PROVE  VotesInv'
  BY <1>1, NotifyVotes, ParallelVotes, SequentialVotes, QuorumVotes, PastRunVotes DEF RunStep
<1>2. ASSUME NEW h \in Humans, NEW v \in {"yes", "no"},
             Speak(h, v) \/ \E k \in Keys : Respond(k, h, v)
      PROVE  VotesInv'
  <2>1. VoiceKeys(h) \in SUBSET Keys /\ \A k \in Keys : {k} \in SUBSET Keys
    BY DEF VoiceKeys
  <2>2. QED
    BY <1>2, <2>1, OutsideVotes DEF Speak, Respond
<1>3. QED
  BY <1>1, <1>2, CallVotes, DrainVotes, OutsideVotes, RestVotes DEF Next

\* A quorum approves with the votes of enough approvers of its own team, for any
\* number of approvers, channels and concurrent runs.
THEOREM QuorumsAreBacked == Spec => []QuorumBacked
<1>1. Init => WaitsInv /\ VotesInv
  BY DEF Init, WaitsInv, WaitsOwned, OpenAsked, Ladder, NotifyAll, VotesInv, VotesOf
<1>2. TypeInv /\ WaitsInv /\ VotesInv /\ [Next]_vars => WaitsInv' /\ VotesInv'
  BY NextWaits, NextVotes
<1>3. VotesInv => QuorumBacked
  BY DEF VotesInv, VotesOf, QuorumBacked
<1>4. QED
  BY <1>1, <1>2, <1>3, TypeInvariant, PTL DEF Spec

-----------------------------------------------------------------------------
(* What was published *)

\* No event is taken back.
LogGrows == \A e \in Events, r \in Requests : Occurs(e, r) => Occurs(e, r)'

\* Where a run is tells which outcome it has published.
OutcomeOf(p) ==
    /\ pc[p] = "resolve" => verdict[p] \in {"approved", "rejected"}
    /\ pc[p] = "approve" => verdict[p] = "approved" /\ Occurs("resolved_yes", Job(p))
    /\ pc[p] \in {"release", "free"} =>
          /\ verdict[p] = "approved" =>
                Occurs("order", Job(p)) /\ Occurs("resolved_yes", Job(p))
          /\ verdict[p] = "rejected" => Occurs("resolved_no", Job(p))
          /\ verdict[p] = "null" => Occurs("timeout", Job(p))

OutcomeInv == (\A p \in Procs : OutcomeOf(p)) /\ AnswerWasPublished

LEMMA AppendOccurs ==
    ASSUME TypeOK, NEW r \in Requests, NEW e \in Events,
           log' = [log EXCEPT ![r] = Append(log[r], e)]
    PROVE  LogGrows /\ Occurs(e, r)'
<1>1. log[r] \in Seq(Events)
  BY DEF TypeOK
<1>2. /\ log'[r] = Append(log[r], e)
      /\ \A s \in Requests \ {r} : log'[s] = log[s]
  BY DEF TypeOK
<1>3. /\ Len(log'[r]) = Len(log[r]) + 1
      /\ log'[r][Len(log[r]) + 1] = e
      /\ \A i \in 1 .. Len(log[r]) : log'[r][i] = log[r][i]
      /\ DOMAIN log[r] = 1 .. Len(log[r]) /\ DOMAIN log'[r] = 1 .. Len(log'[r])
      /\ Len(log[r]) \in Nat
  BY <1>1, <1>2
<1>4. Occurs(e, r)'
  <2>1. Len(log[r]) + 1 \in DOMAIN log'[r]
    BY <1>3
  <2>2. QED
    BY <1>3, <2>1 DEF Occurs
<1>5. DOMAIN log[r] \subseteq DOMAIN log'[r]
  BY <1>3
<1>6. \A i \in DOMAIN log[r] : log'[r][i] = log[r][i]
  BY <1>3
<1>7. LogGrows
  BY <1>2, <1>5, <1>6 DEF LogGrows, Occurs
<1>8. QED
  BY <1>4, <1>7

LEMMA SameLogGrows == ASSUME UNCHANGED log PROVE LogGrows
BY DEF LogGrows, Occurs

\* A publication of the run of p.
LEMMA PublishGrows ==
    ASSUME TypeInv, NEW p \in Procs, pc[p] \in Running, NEW e \in Events, Publish(p, e)
    PROVE  LogGrows /\ \E r \in Requests : r = Job(p) /\ Occurs(e, r)'
<1>1. PICK r \in Requests : r = Job(p)
  BY RunJob
<1>2. log' = [log EXCEPT ![r] = Append(log[r], e)]
  BY <1>1 DEF Publish
<1>3. QED
  BY <1>1, <1>2, AppendOccurs DEF TypeInv

\* What a run that keeps its request has published stays published.
LEMMA JobOccurs ==
    ASSUME NEW p \in Procs, todo'[p] = todo[p], NEW r \in Requests, r = Job(p), NEW e
    PROVE  Occurs(e, Job(p))' <=> Occurs(e, r)'
<1>1. Job(p)' = r
  BY DEF Job
<1>2. QED
  BY <1>1 DEF Occurs

\* A run that stays where it is keeps its outcome.
LEMMA StayOutcome ==
    ASSUME TypeInv, LogGrows, NEW q \in Procs, OutcomeOf(q),
           pc'[q] = pc[q], todo'[q] = todo[q], verdict'[q] = verdict[q]
    PROVE  OutcomeOf(q)'
<1>1. CASE pc[q] \in {"approve", "release", "free"}
  <2>1. PICK r \in Requests : r = Job(q)
    BY <1>1, RunJob, RunningNames
  <2>2. \A e \in Events : Occurs(e, Job(q)) => Occurs(e, Job(q))'
    <3> SUFFICES ASSUME NEW e \in Events, Occurs(e, Job(q)) PROVE Occurs(e, Job(q))'
      OBVIOUS
    <3>1. Occurs(e, r)'
      BY <2>1 DEF LogGrows
    <3>2. QED
      BY <2>1, <3>1, JobOccurs
  <2>3. {"resolved_yes", "order", "resolved_no", "timeout"} \subseteq Events
    BY Names
  <2>4. QED
    BY <2>2, <2>3 DEF OutcomeOf
<1>2. CASE pc[q] \notin {"approve", "release", "free"}
  BY <1>2 DEF OutcomeOf
<1>3. QED
  BY <1>1, <1>2

\* The answer of r has been published.
Backed(r) ==
    /\ answer[r] = "approved" => Occurs("order", r) /\ Occurs("resolved_yes", r)
    /\ answer[r] = "rejected" => Occurs("resolved_no", r)
    /\ answer[r] = "null" => Occurs("timeout", r) \/ disposed

\* A step of p: the other runs stay, and a new answer is backed.
LEMMA StepOutcome ==
    ASSUME TypeInv, OutcomeInv, LogGrows, disposed => disposed',
           \A q \in Procs : OutcomeOf(q)' \/ (/\ pc'[q] = pc[q] /\ todo'[q] = todo[q]
                                              /\ verdict'[q] = verdict[q]),
           \A r \in Requests : answer'[r] = answer[r] \/ Backed(r)'
    PROVE  OutcomeInv'
<1>1. \A q \in Procs : OutcomeOf(q)'
  BY StayOutcome DEF OutcomeInv
<1>2. \A r \in Requests : Backed(r)'
  <2> SUFFICES ASSUME NEW r \in Requests, answer'[r] = answer[r] PROVE Backed(r)'
    OBVIOUS
  <2>1. Backed(r)
    BY DEF OutcomeInv, AnswerWasPublished, Backed
  <2>2. {"resolved_yes", "order", "resolved_no", "timeout"} \subseteq Events
    BY Names
  <2>3. \A e \in Events : Occurs(e, r) => Occurs(e, r)'
    BY DEF LogGrows
  <2>4. QED
    BY <2>1, <2>2, <2>3 DEF Backed
<1>3. QED
  BY <1>1, <1>2 DEF OutcomeInv, AnswerWasPublished, Backed

\* Outside its last places a run has published nothing that counts.
LEMMA EarlyOutcome ==
    ASSUME NEW p \in Procs, pc'[p] \notin {"resolve", "approve", "release", "free"}
    PROVE  OutcomeOf(p)'
BY DEF OutcomeOf

LEMMA FirstStopEarly ==
    \A r : FirstStop(r) \notin {"resolve", "approve", "release", "free"}
BY DEF FirstStop

LEMMA CallOutcome ==
    ASSUME TypeInv, OutcomeInv, NEW r \in Requests, Arrive(r) \/ CallStep(r) \/ AnnounceFails(r)
    PROVE  OutcomeInv'
<1>0. TypeOK /\ r \in Procs /\ Job(r) = r
  BY DEF TypeInv, Procs, Job
<1>1. LogGrows
  <2>1. CASE UNCHANGED log
    BY <2>1, SameLogGrows
  <2>2. CASE \E e \in Events : log' = [log EXCEPT ![r] = Append(log[r], e)]
    BY <1>0, <2>2, AppendOccurs
  <2>3. QED
    BY <1>0, <2>1, <2>2, Names DEF Arrive, CallStep, Refuse, Dispatch, Enqueue, Announced,
       Return, Fail, Unpark, AnnounceFails, Publish
<1>2. UNCHANGED disposed
  BY DEF Arrive, CallStep, Refuse, Dispatch, Enqueue, Announced, Return, Fail, Unpark,
     AnnounceFails
<1>3. \A q \in Procs :
         \/ pc'[q] \notin {"resolve", "approve", "release", "free"}
         \/ pc'[q] = pc[q] /\ todo'[q] = todo[q] /\ verdict'[q] = verdict[q]
  <2>1. CASE Dispatch(r)
    BY <1>0, <2>1, FirstStopEarly DEF Dispatch, StartRun, TypeOK
  <2>2. CASE Announced(r)
    BY <1>0, <2>2 DEF Announced, StartDrain, TypeOK
  <2>3. CASE Refuse(r) \/ Enqueue(r) \/ Fail(r) \/ Unpark(r) \/ AnnounceFails(r) \/ Return(r)
    BY <1>0, <2>3 DEF Refuse, Enqueue, Fail, Unpark, AnnounceFails, Return, Forget, TypeOK
  <2>4. QED
    BY <2>1, <2>2, <2>3 DEF Arrive, CallStep
<1>4. \A s \in Requests : answer'[s] = answer[s] \/ Backed(s)'
  <2>1. CASE Return(r)
    <3>1. UNCHANGED log
      BY <2>1 DEF Return
    <3>2. \A s \in Requests \ {r} : answer'[s] = answer[s]
      BY <1>0, <2>1 DEF Return, TypeOK
    <3>3. answer'[r] = answer[r] \/ (answer'[r] = verdict[r] /\ pc[r] \in {"release", "free"})
      BY <1>0, <2>1 DEF Return, TypeOK
    <3>4. OutcomeOf(r)
      BY <1>0 DEF OutcomeInv
    <3>5. answer'[r] = answer[r] \/ Backed(r)'
      BY <1>0, <3>1, <3>3, <3>4 DEF OutcomeOf, Backed, Occurs
    <3>6. QED
      BY <3>2, <3>5
  <2>2. CASE Fail(r)
    BY <1>0, <2>2 DEF Fail, Backed, TypeOK
  <2>3. CASE Dispatch(r) \/ Announced(r) \/ Refuse(r) \/ Enqueue(r) \/ Unpark(r) \/ AnnounceFails(r)
    BY <2>3 DEF Dispatch, Announced, Refuse, Enqueue, Unpark, AnnounceFails
  <2>4. QED
    BY <2>1, <2>2, <2>3 DEF Arrive, CallStep
<1>5. QED
  BY <1>1, <1>2, <1>3, <1>4, StepOutcome, EarlyOutcome

LEMMA DrainOutcome ==
    ASSUME TypeInv, OutcomeInv, NEW d \in Drains, DrainStep(d)
    PROVE  OutcomeInv'
<1>0. TypeOK /\ d \in Procs
  BY DEF TypeInv, Procs
<1>1. UNCHANGED <<log, answer, disposed>>
  BY DEF DrainStep, DrainSkip, DrainTake, DrainStart, DrainQuorum, DrainEnd, DrainNext
<1>2. \A q \in Procs :
         \/ pc'[q] \notin {"resolve", "approve", "release", "free"}
         \/ pc'[q] = pc[q] /\ todo'[q] = todo[q] /\ verdict'[q] = verdict[q]
  <2>1. CASE DrainStart(d) \/ DrainQuorum(d)
    BY <1>0, <2>1, FirstStopEarly DEF DrainStart, DrainQuorum, StartRun, TypeOK
  <2>2. CASE DrainSkip(d) \/ DrainTake(d) \/ DrainEnd(d) \/ DrainNext(d)
    BY <1>0, <2>2 DEF DrainSkip, DrainTake, DrainEnd, DrainNext, Forget, TypeOK
  <2>3. QED
    BY <2>1, <2>2 DEF DrainStep
<1>3. QED
  BY <1>1, <1>2, SameLogGrows, StepOutcome, EarlyOutcome

\* Asking, waiting and deciding move one run, and publish nothing.
LEMMA AskFrame ==
    ASSUME TypeInv, NEW p \in Procs,
           \/ Notified(p) \/ Rang(p) \/ RingFailed(p)
           \/ HandleParallel(p) \/ HandleSequential(p) \/ HandleQuorum(p)
    PROVE  /\ \A q \in Procs \ {p} : pc'[q] = pc[q] /\ verdict'[q] = verdict[q]
           /\ pc[p] \in {"notify", "ring", "wait"}
           /\ \/ pc'[p] \in {"ring", "wait", "expire"}
              \/ pc'[p] = "resolve" /\ verdict'[p] \in {"approved", "rejected"}
<1>0. TypeOK
  BY DEF TypeInv
<1>1. ASSUME NEW q \in Procs \ {p} PROVE pc'[q] = pc[q] /\ verdict'[q] = verdict[q]
  <2>1. CASE Notified(p) \/ Rang(p) \/ RingFailed(p)
    BY <1>0, <2>1 DEF Notified, Rang, RingFailed, Escalate, TypeOK
  <2>2. CASE HandleSequential(p)
    BY <1>0, <2>2 DEF HandleSequential, Escalate, TypeOK
  <2>3. CASE HandleParallel(p) \/ HandleQuorum(p)
    <3>1. (\E v : Settle(p, v)) \/ (\E m : Count(p, m))
      BY <2>3 DEF HandleParallel, HandleQuorum
    <3>2. QED
      BY <1>0, <3>1 DEF Settle, Count, TypeOK
  <2>4. QED
    BY <2>1, <2>2, <2>3
<1>2. \/ pc'[p] \in {"ring", "wait", "expire"}
      \/ pc'[p] = "resolve" /\ verdict'[p] \in {"approved", "rejected"}
  <2>1. CASE Notified(p) \/ Rang(p) \/ RingFailed(p)
    BY <1>0, <2>1 DEF Notified, Rang, RingFailed, Escalate, TypeOK
  <2>2. CASE HandleSequential(p)
    BY <1>0, <2>2 DEF HandleSequential, Escalate, VerdictOf, TypeOK
  <2>3. CASE HandleParallel(p) \/ HandleQuorum(p)
    <3>1. \/ \E v \in {"approved", "rejected", "null"} : Settle(p, v)
          \/ pc[p] = "wait" /\ UNCHANGED pc
      BY <2>3 DEF HandleParallel, HandleQuorum, VerdictOf, Count
    <3>2. QED
      BY <1>0, <3>1 DEF Settle, TypeOK
  <2>4. QED
    BY <2>1, <2>2, <2>3
<1>3. pc[p] \in {"notify", "ring", "wait"}
  BY DEF Notified, Rang, RingFailed, HandleParallel, HandleSequential, HandleQuorum
<1>4. QED
  BY <1>1, <1>2, <1>3

LEMMA AskOutcome ==
    ASSUME TypeInv, OutcomeInv, NEW p \in Procs,
           \/ Notified(p) \/ Rang(p) \/ RingFailed(p)
           \/ HandleParallel(p) \/ HandleSequential(p) \/ HandleQuorum(p)
    PROVE  OutcomeInv'
<1>1. UNCHANGED <<log, answer, disposed, todo>>
  BY DEF Notified, Rang, RingFailed, HandleParallel, HandleSequential, HandleQuorum
<1>2. OutcomeOf(p)'
  BY AskFrame DEF OutcomeOf
<1>3. \A q \in Procs \ {p} : pc'[q] = pc[q] /\ verdict'[q] = verdict[q]
  BY AskFrame
<1>4. QED
  BY <1>1, <1>2, <1>3, SameLogGrows, StepOutcome

LEMMA ResolveBacked ==
    ASSUME NEW p \in Procs, NEW v, ResolveQueued(p, v), NEW s \in Requests
    PROVE  answer'[s] = answer[s] \/ (answer'[s] = v /\ s = Job(p))
BY DEF ResolveQueued

LEMMA PublishOutcome ==
    ASSUME TypeInv, OutcomeInv, NEW p \in Procs,
           PublishResolved(p) \/ PublishApproved(p) \/ PublishTimeout(p) \/ PublishFails(p)
    PROVE  OutcomeInv'
<1>0. TypeOK /\ OutcomeOf(p)
  BY DEF TypeInv, OutcomeInv
<1>1. pc[p] \in {"resolve", "approve", "expire"} /\ pc[p] \in Running
  BY RunningNames DEF PublishResolved, PublishApproved, PublishTimeout, PublishFails
<1>2. UNCHANGED <<disposed, todo>>
  BY DEF PublishResolved, PublishApproved, PublishTimeout, PublishFails
<1>3. \A q \in Procs \ {p} : pc'[q] = pc[q] /\ verdict'[q] = verdict[q]
  BY <1>0 DEF PublishResolved, PublishApproved, PublishTimeout, PublishFails, TypeOK
<1>4. PICK r \in Requests : r = Job(p)
  BY <1>1, RunJob
<1>5. \A e : Occurs(e, Job(p))' <=> Occurs(e, r)'
  BY <1>2, <1>4, JobOccurs
<1>6. \A e \in Events : Publish(p, e) => LogGrows /\ Occurs(e, r)'
  BY <1>1, <1>4, PublishGrows
<1>7. {"resolved_yes", "resolved_no", "order", "timeout"} \subseteq Events
  BY Names
<1>8. CASE PublishResolved(p) /\ verdict[p] = "approved"
  <2>1. Publish(p, "resolved_yes") /\ pc'[p] = "approve" /\ verdict'[p] = "approved"
    BY <1>0, <1>8 DEF PublishResolved, TypeOK
  <2>2. UNCHANGED answer
    BY <1>8 DEF PublishResolved
  <2>3. OutcomeOf(p)'
    BY <1>5, <1>6, <1>7, <2>1 DEF OutcomeOf
  <2>4. QED
    BY <1>2, <1>3, <1>6, <1>7, <2>1, <2>2, <2>3, StepOutcome
<1>9. CASE PublishResolved(p) /\ verdict[p] # "approved"
  <2>1. Publish(p, "resolved_no") /\ pc'[p] = "release" /\ ResolveQueued(p, "rejected")
    BY <1>0, <1>9 DEF PublishResolved, TypeOK
  <2>2. verdict'[p] = "rejected"
    BY <1>0, <1>9 DEF PublishResolved, OutcomeOf, TypeOK
  <2>3. LogGrows /\ Occurs("resolved_no", r)'
    BY <1>6, <1>7, <2>1
  <2>4. OutcomeOf(p)'
    BY <1>5, <2>1, <2>2, <2>3 DEF OutcomeOf
  <2>5. \A s \in Requests : answer'[s] = answer[s] \/ Backed(s)'
    BY <1>4, <2>1, <2>3, ResolveBacked DEF Backed
  <2>6. QED
    BY <1>2, <1>3, <2>3, <2>4, <2>5, StepOutcome
<1>10. CASE PublishApproved(p)
  <2>1. /\ Publish(p, "order") /\ pc'[p] = "release" /\ ResolveQueued(p, "approved")
        /\ pc[p] = "approve" /\ verdict'[p] = verdict[p]
    BY <1>0, <1>10 DEF PublishApproved, TypeOK
  <2>2. LogGrows /\ Occurs("order", r)'
    BY <1>6, <1>7, <2>1
  <2>3. verdict[p] = "approved" /\ Occurs("resolved_yes", r)
    BY <1>0, <1>4, <2>1 DEF OutcomeOf
  <2>4. Occurs("resolved_yes", r)'
    BY <1>7, <2>2, <2>3 DEF LogGrows
  <2>5. OutcomeOf(p)'
    BY <1>5, <2>1, <2>2, <2>3, <2>4 DEF OutcomeOf
  <2>6. \A s \in Requests : answer'[s] = answer[s] \/ Backed(s)'
    BY <1>4, <2>1, <2>2, <2>4, ResolveBacked DEF Backed
  <2>7. QED
    BY <1>2, <1>3, <2>2, <2>5, <2>6, StepOutcome
<1>11. CASE PublishTimeout(p)
  <2>1. Publish(p, "timeout") /\ pc'[p] = "release" /\ ResolveQueued(p, "null")
        /\ verdict'[p] = "null"
    BY <1>0, <1>11 DEF PublishTimeout, TypeOK
  <2>2. LogGrows /\ Occurs("timeout", r)'
    BY <1>6, <1>7, <2>1
  <2>3. OutcomeOf(p)'
    BY <1>5, <2>1, <2>2 DEF OutcomeOf
  <2>4. \A s \in Requests : answer'[s] = answer[s] \/ Backed(s)'
    BY <1>4, <2>1, <2>2, ResolveBacked DEF Backed
  <2>5. QED
    BY <1>2, <1>3, <2>2, <2>3, <2>4, StepOutcome
<1>12. CASE PublishFails(p)
  <2>1. Publish(p, EventAt(p)) /\ pc'[p] = "release" /\ verdict'[p] = "error"
    BY <1>0, <1>12 DEF PublishFails, TypeOK
  <2>2. EventAt(p) \in Events
    BY <1>1, <1>7 DEF EventAt
  <2>3. LogGrows /\ UNCHANGED answer
    BY <1>6, <1>12, <2>1, <2>2 DEF PublishFails
  <2>4. OutcomeOf(p)'
    BY <2>1 DEF OutcomeOf
  <2>5. QED
    BY <1>2, <1>3, <2>3, <2>4, StepOutcome
<1>13. QED
  BY <1>8, <1>9, <1>10, <1>11, <1>12

LEMMA RestOutcome ==
    ASSUME TypeInv, OutcomeInv,
           \/ \E q \in Procs : Release(q)
           \/ \E q \in Procs, k \in Keys : TimerFires(q, k)
           \/ \E ks \in SUBSET Keys, h \in Humans, v \in {"yes", "no"} : Deliver(ks, h, v)
           \/ \E h \in Humans, s \in EnvStatuses : PresenceChanged(h, s)
           \/ Dispose \/ UNCHANGED vars
    PROVE  OutcomeInv'
<1>0. TypeOK
  BY DEF TypeInv
<1>1. UNCHANGED <<log, verdict>>
  BY DEF Release, TimerFires, Deliver, PresenceChanged, Dispose, vars
<1>2. ASSUME NEW p \in Procs, Release(p)
      PROVE  OutcomeInv'
  <2>1. UNCHANGED <<answer, disposed, todo>> /\ pc[p] \in {"release", "free"}
    BY <1>2 DEF Release
  <2>2. \A q \in Procs : pc'[q] = IF q = p THEN "free" ELSE pc[q]
    BY <1>0, <1>2 DEF Release, TypeOK
  <2>3. Job(p)' = Job(p)
    BY <2>1 DEF Job
  <2>4. OutcomeOf(p)'
    BY <1>1, <2>1, <2>2, <2>3 DEF OutcomeInv, OutcomeOf, Occurs
  <2>5. QED
    BY <1>1, <2>1, <2>2, <2>4, SameLogGrows, StepOutcome
<1>3. CASE Dispose
  <2>1. UNCHANGED <<pc, todo>> /\ disposed'
    BY <1>3 DEF Dispose
  <2>2. \A r \in Requests : answer'[r] = answer[r] \/ answer'[r] = "null"
    BY <1>3 DEF Dispose
  <2>3. \A r \in Requests : answer'[r] = answer[r] \/ Backed(r)'
    BY <2>1, <2>2 DEF Backed
  <2>4. QED
    BY <1>1, <2>1, <2>3, SameLogGrows, StepOutcome
<1>4. CASE \/ \E q \in Procs, k \in Keys : TimerFires(q, k)
           \/ \E ks \in SUBSET Keys, h \in Humans, v \in {"yes", "no"} : Deliver(ks, h, v)
           \/ UNCHANGED vars
  <2>1. UNCHANGED <<pc, todo, answer, disposed>>
    BY <1>4 DEF TimerFires, Deliver, vars
  <2>2. QED
    BY <1>1, <2>1, SameLogGrows, StepOutcome
<1>5. ASSUME NEW h \in Humans, NEW s \in EnvStatuses, PresenceChanged(h, s)
      PROVE  OutcomeInv'
  <2>1. UNCHANGED <<answer, disposed>>
    BY <1>5 DEF PresenceChanged
  <2>2. \A q \in Procs : (pc'[q] = pc[q] /\ todo'[q] = todo[q]) \/ pc'[q] = "probe"
    BY <1>0, <1>5 DEF PresenceChanged, StartDrain, TypeOK
  <2>3. QED
    BY <1>1, <2>1, <2>2, SameLogGrows, StepOutcome, EarlyOutcome
<1>6. QED
  BY <1>2, <1>3, <1>4, <1>5

\* Where a run is tells, in every reachable state, what it has published.
THEOREM OutcomesHold == Spec => []OutcomeInv
<1>1. Init => OutcomeInv
  <2> SUFFICES ASSUME Init PROVE OutcomeInv
    OBVIOUS
  <2>1. \A p \in Procs : pc[p] \in {"new", "idle"}
    BY DEF Init
  <2>2. \A r \in Requests : answer[r] = "none"
    BY DEF Init
  <2>3. QED
    BY <2>1, <2>2 DEF OutcomeInv, OutcomeOf, AnswerWasPublished
<1>2. TypeInv /\ OutcomeInv /\ [Next]_vars => OutcomeInv'
  <2> SUFFICES ASSUME TypeInv, OutcomeInv, [Next]_vars PROVE OutcomeInv'
    OBVIOUS
  <2>1. ASSUME NEW p \in Procs, RunStep(p) \/ PublishFails(p)
        PROVE  OutcomeInv'
    BY <2>1, AskOutcome, PublishOutcome, RestOutcome DEF RunStep
  <2>2. ASSUME NEW h \in Humans, NEW v \in {"yes", "no"},
               Speak(h, v) \/ \E k \in Keys : Respond(k, h, v)
        PROVE  OutcomeInv'
    <3>1. VoiceKeys(h) \in SUBSET Keys /\ \A k \in Keys : {k} \in SUBSET Keys
      BY DEF VoiceKeys
    <3>2. QED
      BY <2>2, <3>1, RestOutcome DEF Speak, Respond
  <2>3. QED
    BY <2>1, <2>2, CallOutcome, DrainOutcome, RestOutcome DEF Next
<1>3. QED
  BY <1>1, <1>2, TypeInvariant, PTL DEF Spec

\* The caller never acts on an outcome that no subscriber was told of, whichever
\* activation produced it and wherever it failed.
THEOREM AnswersWerePublished == Spec => []AnswerWasPublished
<1>1. OutcomeInv => AnswerWasPublished
  BY DEF OutcomeInv
<1>2. QED
  BY <1>1, OutcomesHold, PTL

-----------------------------------------------------------------------------
(* The queue of requests without an approver *)

\* Removing a request from the queue keeps the others, and adds nothing.
LEMMA WithoutKeeps ==
    ASSUME NEW S, NEW q \in Seq(S), NEW r
    PROVE  /\ \A i \in DOMAIN q : q[i] # r =>
                 \E j \in DOMAIN Without(q, r) : Without(q, r)[j] = q[i]
           /\ \A j \in DOMAIN Without(q, r) :
                 \E i \in DOMAIN q : q[i] = Without(q, r)[j]
<1>1. CASE Places(q, r) = {}
  BY <1>1 DEF Without
<1>2. CASE Places(q, r) # {}
  <2> DEFINE c == CHOOSE j \in Places(q, r) : TRUE
  <2>1. c \in Places(q, r)
    BY <1>2
  <2> DEFINE a == SubSeq(q, 1, c - 1)
  <2> DEFINE b == SubSeq(q, c + 1, Len(q))
  <2>2. Without(q, r) = a \o b
    BY <1>2 DEF Without
  <2> HIDE DEF c
  <2>3. c \in 1 .. Len(q) /\ q[c] = r /\ Len(q) \in Nat /\ DOMAIN q = 1 .. Len(q)
    BY <2>1 DEF Places
  <2>4. /\ a \in Seq(S) /\ Len(a) = c - 1
        /\ \A i \in 1 .. (c - 1) : a[i] = q[i]
    <3>1. 1 \in Int /\ c - 1 \in Int /\ \A i \in 1 .. (c - 1) : q[i] \in S
      BY <2>3
    <3>2. /\ a \in Seq(S) /\ Len(a) = (IF 1 <= c - 1 THEN (c - 1) - 1 + 1 ELSE 0)
          /\ \A i \in 1 .. ((c - 1) - 1 + 1) : a[i] = q[1 + i - 1]
      BY <3>1, SubSeqProperties
    <3>3. QED
      BY <2>3, <3>2
  <2>5. /\ b \in Seq(S) /\ Len(b) = Len(q) - c
        /\ \A i \in 1 .. (Len(q) - c) : b[i] = q[c + i]
    <3>1. c + 1 \in Int /\ Len(q) \in Int /\ \A i \in (c + 1) .. Len(q) : q[i] \in S
      BY <2>3
    <3>2. /\ b \in Seq(S)
          /\ Len(b) = (IF c + 1 <= Len(q) THEN Len(q) - (c + 1) + 1 ELSE 0)
          /\ \A i \in 1 .. (Len(q) - (c + 1) + 1) : b[i] = q[(c + 1) + i - 1]
      BY <3>1, SubSeqProperties
    <3>3. /\ c \in Int /\ c <= Len(q) /\ Len(q) \in Int
          /\ Len(q) - (c + 1) + 1 = Len(q) - c
      BY <2>3
    <3>4. Len(b) = Len(q) - c
      <4> DEFINE n == Len(b)
      <4> DEFINE m == Len(q)
      <4>1. n = (IF c + 1 <= m THEN m - (c + 1) + 1 ELSE 0)
        BY <3>2
      <4>2. c \in Int /\ c <= m /\ m \in Int
        BY <3>3
      <4> HIDE DEF n, m
      <4>3. n = m - c
        BY <4>1, <4>2
      <4>4. QED
        BY <4>3 DEF n, m
    <3>5. ASSUME NEW i \in 1 .. (Len(q) - c) PROVE b[i] = q[c + i]
      <4>1. b[i] = q[(c + 1) + i - 1]
        BY <3>2, <3>3
      <4>2. (c + 1) + i - 1 = c + i
        BY <3>3
      <4>3. QED
        BY <4>1, <4>2
    <3>6. QED
      BY <3>2, <3>4, <3>5
  <2> HIDE DEF a, b
  <2>6. /\ Len(a \o b) = Len(q) - 1 /\ DOMAIN (a \o b) = 1 .. (Len(q) - 1)
        /\ \A i \in 1 .. (c - 1) : (a \o b)[i] = q[i]
        /\ \A i \in c .. (Len(q) - 1) : (a \o b)[i] = q[i + 1]
    <3>1. Len(a \o b) = Len(q) - 1 /\ DOMAIN (a \o b) = 1 .. (Len(q) - 1)
      <4>1. a \o b \in Seq(S) /\ Len(a \o b) = Len(a) + Len(b)
        BY <2>4, <2>5, ConcatProperties
      <4>2. Len(a \o b) = Len(q) - 1
        BY <2>3, <2>4, <2>5, <4>1
      <4>3. QED
        BY <4>1, <4>2
    <3>2. ASSUME NEW i \in 1 .. (c - 1) PROVE (a \o b)[i] = q[i]
      <4>1. i \in 1 .. (Len(a) + Len(b)) /\ i <= Len(a)
        BY <2>3, <2>4, <2>5
      <4>2. (a \o b)[i] = a[i]
        BY <2>4, <2>5, <4>1, ConcatProperties
      <4>3. QED
        BY <2>4, <4>2
    <3>3. ASSUME NEW i \in c .. (Len(q) - 1) PROVE (a \o b)[i] = q[i + 1]
      <4>1. i \in 1 .. (Len(a) + Len(b)) /\ i > Len(a) /\ i - Len(a) \in 1 .. (Len(q) - c)
        BY <2>3, <2>4, <2>5
      <4>2. (a \o b)[i] = b[i - Len(a)]
        BY <2>4, <2>5, <4>1, ConcatProperties
      <4>3. c + (i - Len(a)) = i + 1
        BY <2>3, <2>4
      <4>4. QED
        BY <2>5, <4>1, <4>2, <4>3
    <3>4. QED
      BY <3>1, <3>2, <3>3
  <2>7. ASSUME NEW i \in DOMAIN q, q[i] # r
        PROVE  \E j \in DOMAIN (a \o b) : (a \o b)[j] = q[i]
    <3>1. i # c /\ i \in 1 .. Len(q)
      BY <2>3, <2>7
    <3>2. CASE i < c
      <4>1. i \in 1 .. (c - 1) /\ i \in 1 .. (Len(q) - 1)
        BY <2>3, <3>1, <3>2
      <4>2. QED
        BY <2>6, <4>1
    <3>3. CASE i > c
      <4>1. i - 1 \in c .. (Len(q) - 1) /\ i - 1 \in 1 .. (Len(q) - 1) /\ (i - 1) + 1 = i
        BY <2>3, <3>1, <3>3
      <4>2. QED
        BY <2>6, <4>1
    <3>4. QED
      BY <2>3, <3>1, <3>2, <3>3
  <2>8. ASSUME NEW j \in DOMAIN (a \o b)
        PROVE  \E i \in DOMAIN q : q[i] = (a \o b)[j]
    <3>1. j \in 1 .. (Len(q) - 1)
      BY <2>6
    <3>2. CASE j < c
      <4>1. j \in 1 .. (c - 1) /\ j \in 1 .. Len(q)
        BY <2>3, <3>1, <3>2
      <4>2. QED
        BY <2>3, <2>6, <4>1
    <3>3. CASE j >= c
      <4>1. j \in c .. (Len(q) - 1) /\ j + 1 \in 1 .. Len(q)
        BY <2>3, <3>1, <3>3
      <4>2. QED
        BY <2>3, <2>6, <4>1
    <3>4. QED
      BY <2>3, <3>1, <3>2, <3>3
  <2>9. QED
    BY <2>2, <2>7, <2>8
<1>3. QED
  BY <1>1, <1>2

LEMMA AppendQueue ==
    ASSUME NEW S, NEW q \in Seq(S), NEW r \in S
    PROVE  /\ \A i \in DOMAIN q : i \in DOMAIN Append(q, r) /\ Append(q, r)[i] = q[i]
           /\ \E i \in DOMAIN Append(q, r) : Append(q, r)[i] = r
           /\ \A i \in DOMAIN Append(q, r) : Append(q, r)[i] = r \/
                 \E j \in DOMAIN q : q[j] = Append(q, r)[i]
<1>1. /\ Len(q) \in Nat /\ DOMAIN q = 1 .. Len(q)
      /\ DOMAIN Append(q, r) = 1 .. (Len(q) + 1)
      /\ Append(q, r)[Len(q) + 1] = r
      /\ \A i \in 1 .. Len(q) : Append(q, r)[i] = q[i]
  OBVIOUS
<1>2. Len(q) + 1 \in 1 .. (Len(q) + 1) /\ 1 .. Len(q) \subseteq 1 .. (Len(q) + 1)
  BY <1>1
<1>3. \A i \in 1 .. (Len(q) + 1) : i = Len(q) + 1 \/ i \in 1 .. Len(q)
  BY <1>1
<1>4. QED
  BY <1>1, <1>2, <1>3

LEMMA TailQueue ==
    ASSUME NEW S, NEW q \in Seq(S), q # <<>>
    PROVE  \A i \in DOMAIN Tail(q) : \E j \in DOMAIN q : q[j] = Tail(q)[i]
<1>1. /\ Len(q) \in Nat /\ DOMAIN q = 1 .. Len(q) /\ Len(q) # 0
      /\ DOMAIN Tail(q) = 1 .. (Len(q) - 1)
      /\ \A i \in 1 .. (Len(q) - 1) : Tail(q)[i] = q[i + 1]
  OBVIOUS
<1>2. \A i \in 1 .. (Len(q) - 1) : i + 1 \in 1 .. Len(q)
  BY <1>1
<1>3. QED
  BY <1>1, <1>2

\* A caller that waits for an approver.
Waiting(r) == pc[r] \in {"announce", "parked"} /\ answer[r] = "none"
HeldInQueue(r) == InQueue(r) \/ \E d \in Drains : DrainedBy(d, r)

\* A run that ends has settled on something, and a drain has passed it on.
Ended(p) ==
    pc[p] \in {"release", "free"} =>
        /\ verdict[p] # "none"
        /\ faults = 0 /\ p \in Drains => answer[Job(p)] # "none"

ServedInv == (\A p \in Procs : Ended(p)) /\ QueuedNotLost

\* A drain stays in its run, or leaves it when its request has an answer.
KeepsJob(d) ==
    \/ pc[d] \notin Running
    \/ pc'[d] \in Running /\ todo'[d] = todo[d]
    \/ answer'[Job(d)] # "none"

LEMMA StepServed ==
    ASSUME TypeInv, ServedInv, faults' = 0 => faults = 0,
           \A r \in Requests : answer[r] # "none" => answer'[r] # "none",
           \A p \in Procs : Ended(p)' \/ (/\ pc'[p] = pc[p] /\ todo'[p] = todo[p]
                                          /\ verdict'[p] = verdict[p]),
           faults' = 0 => \A d \in Drains : KeepsJob(d),
           \A r \in Requests : Waiting(r)' => Waiting(r) \/ InQueue(r)',
           \A r \in Requests : InQueue(r) => \/ InQueue(r)' \/ answer'[r] # "none"
                                             \/ \E d \in Drains : DrainedBy(d, r)'
    PROVE  ServedInv'
<1>1. \A p \in Procs : Ended(p)'
  <2> SUFFICES ASSUME NEW p \in Procs, pc'[p] = pc[p], todo'[p] = todo[p],
                      verdict'[p] = verdict[p], pc[p] \in {"release", "free"}
               PROVE  Ended(p)'
    BY DEF Ended
  <2>1. PICK r \in Requests : r = Job(p)
    BY RunJob, RunningNames
  <2>2. Job(p)' = r
    BY <2>1 DEF Job
  <2>3. Ended(p)
    BY DEF ServedInv
  <2>4. QED
    BY <2>1, <2>2, <2>3 DEF Ended
<1>2. QueuedNotLost'
  <2> SUFFICES ASSUME faults' = 0, NEW r \in Requests, Waiting(r)'
               PROVE  HeldInQueue(r)'
    BY DEF QueuedNotLost, Waiting, HeldInQueue
  <2>1. InQueue(r)' \/ HeldInQueue(r)
    BY DEF ServedInv, QueuedNotLost, Waiting, HeldInQueue
  <2>2. answer'[r] = "none"
    BY DEF Waiting
  <2>3. ASSUME NEW d \in Drains, DrainedBy(d, r)
        PROVE  DrainedBy(d, r)'
    <3>1. pc'[d] \in Running /\ todo'[d] = todo[d]
      BY <2>2, <2>3 DEF KeepsJob, DrainedBy
    <3>2. Job(d)' = Job(d)
      BY <3>1 DEF Job
    <3>3. QED
      BY <2>3, <3>1, <3>2 DEF DrainedBy
  <2>4. QED
    BY <2>1, <2>2, <2>3 DEF HeldInQueue
<1>3. QED
  BY <1>1, <1>2 DEF ServedInv

\* An activation that is not at the end of a run.
LEMMA NotEnded ==
    ASSUME NEW p \in Procs, pc'[p] \notin {"release", "free"}
    PROVE  Ended(p)'
BY DEF Ended

LEMMA CallServed ==
    ASSUME TypeInv, ServedInv, NEW r \in Requests, Arrive(r) \/ CallStep(r) \/ AnnounceFails(r)
    PROVE  ServedInv'
<1>0. TypeOK /\ r \in Procs /\ r \notin Drains /\ faults \in Nat
  BY ConstantsAssumption DEF TypeInv, TypeOK, Procs
<1>1. faults' = 0 => faults = 0
  BY <1>0 DEF Arrive, CallStep, Refuse, Dispatch, Enqueue, Announced, Return, Fail, Unpark,
     AnnounceFails
<1>2. \A s \in Requests : answer[s] # "none" => answer'[s] # "none"
  <2>1. CASE Return(r)
    <3>1. Ended(r) /\ pc[r] \in {"release", "free"}
      BY <1>0, <2>1 DEF Return, ServedInv
    <3>2. QED
      BY <1>0, <2>1, <3>1 DEF Return, Ended, TypeOK
  <2>2. CASE Fail(r)
    BY <1>0, <2>2 DEF Fail, TypeOK
  <2>3. CASE Dispatch(r) \/ Announced(r) \/ Refuse(r) \/ Enqueue(r) \/ Unpark(r) \/ AnnounceFails(r)
    BY <2>3 DEF Dispatch, Announced, Refuse, Enqueue, Unpark, AnnounceFails
  <2>4. QED
    BY <2>1, <2>2, <2>3 DEF Arrive, CallStep
<1>3. \A q \in Procs :
         \/ pc'[q] \notin {"release", "free"}
         \/ pc'[q] = pc[q] /\ todo'[q] = todo[q] /\ verdict'[q] = verdict[q]
  <2>1. CASE Dispatch(r)
    BY <1>0, <2>1, FirstStopEarly DEF Dispatch, StartRun, TypeOK
  <2>2. CASE Announced(r)
    BY <1>0, <2>2 DEF Announced, StartDrain, TypeOK
  <2>3. CASE Refuse(r) \/ Enqueue(r) \/ Fail(r) \/ Unpark(r) \/ AnnounceFails(r) \/ Return(r)
    BY <1>0, <2>3 DEF Refuse, Enqueue, Fail, Unpark, AnnounceFails, Return, Forget, TypeOK
  <2>4. QED
    BY <2>1, <2>2, <2>3 DEF Arrive, CallStep
<1>4. \A d \in Drains : (pc'[d] = pc[d] /\ todo'[d] = todo[d]) \/ pc[d] = "idle"
  <2>1. CASE Announced(r)
    BY <1>0, <2>1 DEF Announced, StartDrain, TypeOK, Procs
  <2>2. CASE \/ Dispatch(r) \/ Refuse(r) \/ Enqueue(r) \/ Fail(r) \/ Unpark(r)
             \/ AnnounceFails(r) \/ Return(r)
    BY <1>0, <2>2 DEF Dispatch, StartRun, Refuse, Enqueue, Fail, Unpark, AnnounceFails, Return,
       TypeOK, Procs
  <2>3. QED
    BY <2>1, <2>2 DEF Arrive, CallStep
<1>5. \A d \in Drains : KeepsJob(d)
  BY <1>4, RunningNames DEF KeepsJob
<1>6. \A s \in Requests : InQueue(s) => InQueue(s)'
  <2>1. CASE UNCHANGED pending
    BY <2>1 DEF InQueue
  <2>2. CASE pending' = Append(pending, r)
    BY <1>0, <2>2, AppendQueue DEF InQueue, TypeOK
  <2>3. QED
    BY <2>1, <2>2 DEF Arrive, CallStep, Refuse, Dispatch, Enqueue, Announced, Return, Fail,
       Unpark, AnnounceFails
<1>7. \A s \in Requests : Waiting(s)' => Waiting(s) \/ InQueue(s)'
  <2>1. CASE Enqueue(r)
    <3>1. InQueue(r)'
      BY <1>0, <2>1, AppendQueue DEF Enqueue, InQueue, TypeOK
    <3>2. \A s \in Requests \ {r} : Waiting(s)' => Waiting(s)
      BY <1>0, <2>1 DEF Enqueue, Waiting, TypeOK, Procs
    <3>3. QED
      BY <3>1, <3>2
  <2>2. CASE Dispatch(r)
    <3>1. FirstStop(r) \notin {"announce", "parked"}
      BY DEF FirstStop
    <3>2. QED
      BY <1>0, <2>2, <3>1 DEF Dispatch, StartRun, Waiting, TypeOK, Procs
  <2>3. CASE Announced(r)
    <3>1. \A q \in Requests : pc'[q] = pc[q] \/ q = r
      BY <1>0, <2>3, ConstantsAssumption DEF Announced, StartDrain, TypeOK, Procs
    <3>2. pc[r] = "announce" /\ UNCHANGED answer
      BY <2>3 DEF Announced
    <3>3. QED
      BY <3>1, <3>2 DEF Waiting
  <2>4. CASE Refuse(r) \/ Fail(r) \/ Unpark(r) \/ AnnounceFails(r) \/ Return(r)
    BY <1>0, <2>4 DEF Refuse, Fail, Unpark, AnnounceFails, Return, Waiting, TypeOK, Procs
  <2>5. QED
    BY <2>1, <2>2, <2>3, <2>4 DEF Arrive, CallStep
<1>8. QED
  BY <1>1, <1>2, <1>3, <1>5, <1>6, <1>7, StepServed, NotEnded

\* Starting a run takes its request off the queue, and no other.
LEMMA DrainServed ==
    ASSUME TypeInv, ServedInv, NEW d \in Drains, DrainStep(d)
    PROVE  ServedInv'
<1>0. TypeOK /\ d \in Procs /\ d \notin Requests
  BY ConstantsAssumption DEF TypeInv, Procs
<1>1. UNCHANGED <<log, answer, faults>>
  BY DEF DrainStep, DrainSkip, DrainTake, DrainStart, DrainQuorum, DrainEnd, DrainNext
<1>2. \A q \in Procs :
         \/ pc'[q] \notin {"release", "free"}
         \/ pc'[q] = pc[q] /\ todo'[q] = todo[q] /\ verdict'[q] = verdict[q]
  <2>1. CASE DrainStart(d) \/ DrainQuorum(d)
    BY <1>0, <2>1, FirstStopEarly DEF DrainStart, DrainQuorum, StartRun, TypeOK
  <2>2. CASE DrainSkip(d) \/ DrainTake(d) \/ DrainEnd(d) \/ DrainNext(d)
    BY <1>0, <2>2 DEF DrainSkip, DrainTake, DrainEnd, DrainNext, Forget, TypeOK
  <2>3. QED
    BY <2>1, <2>2 DEF DrainStep
<1>3. \A q \in Procs \ {d} : pc'[q] = pc[q] /\ todo'[q] = todo[q]
  BY <1>0 DEF DrainStep, DrainStart, DrainQuorum, StartRun, DrainSkip, DrainTake, DrainEnd,
     DrainNext, TypeOK
<1>4. faults' = 0 => \A c \in Drains : KeepsJob(c)
  <2>1. \A c \in Drains \ {d} : KeepsJob(c)
    BY <1>3 DEF KeepsJob, Procs
  <2>2. CASE pc[d] \notin Running
    BY <2>1, <2>2 DEF KeepsJob
  <2>3. CASE DrainNext(d)
    BY <1>0, <1>1, <2>1, <2>3 DEF DrainNext, KeepsJob, ServedInv, Ended
  <2>4. QED
    BY <2>1, <2>2, <2>3, RunningNames
    DEF DrainStep, DrainStart, DrainQuorum, DrainSkip, DrainTake, DrainEnd
<1>5. \A r \in Requests : Waiting(r)' => Waiting(r)
  BY <1>0, <1>1, <1>3 DEF Waiting, Procs
<1>6. \A r \in Requests : InQueue(r) => InQueue(r)' \/ \E c \in Drains : DrainedBy(c, r)'
  <2>1. CASE UNCHANGED pending
    BY <2>1 DEF InQueue
  <2>2. CASE DrainStart(d) \/ DrainQuorum(d)
    <3>1. pending' = Without(pending, Job(d)) /\ UNCHANGED todo
      BY <2>2 DEF DrainStart, DrainQuorum
    <3>2. pc'[d] \in Running /\ Job(d)' = Job(d)
      BY <1>0, <2>2, <3>1, FirstStopRuns DEF DrainStart, DrainQuorum, StartRun, TypeOK, Job
    <3>3. DrainedBy(d, Job(d))'
      BY <3>2 DEF DrainedBy
    <3>4. \A r \in Requests : InQueue(r) /\ r # Job(d) => InQueue(r)'
      BY <1>0, <3>1, WithoutKeeps DEF InQueue, TypeOK
    <3>5. QED
      BY <3>2, <3>4 DEF DrainedBy
  <2>3. QED
    BY <2>1, <2>2 DEF DrainStep, DrainSkip, DrainTake, DrainEnd, DrainNext
<1>7. QED
  BY <1>1, <1>2, <1>4, <1>5, <1>6, StepServed, NotEnded

\* A step of a run keeps its place in the queue and its request.
LEMMA RunServed ==
    ASSUME TypeInv, OutcomeInv, ServedInv, NEW p \in Procs, RunStep(p) \/ PublishFails(p)
    PROVE  ServedInv'
<1>0. TypeOK /\ faults \in Nat /\ Ended(p) /\ OutcomeOf(p)
  BY DEF TypeInv, TypeOK, ServedInv, OutcomeInv
<1>1. UNCHANGED <<pending, todo>>
  BY DEF RunStep, Notified, Rang, RingFailed, HandleParallel, HandleSequential, HandleQuorum,
     PublishResolved, PublishApproved, PublishTimeout, Release, PublishFails
<1>2. faults' = 0 => faults = 0
  BY <1>0 DEF RunStep, Notified, Rang, RingFailed, HandleParallel, HandleSequential, HandleQuorum,
     PublishResolved, PublishApproved, PublishTimeout, Release, PublishFails
<1>3. CASE \/ Notified(p) \/ Rang(p) \/ RingFailed(p)
           \/ HandleParallel(p) \/ HandleSequential(p) \/ HandleQuorum(p)
  <2>1. UNCHANGED answer
    BY <1>3 DEF Notified, Rang, RingFailed, HandleParallel, HandleSequential, HandleQuorum
  <2>2. \A q \in Procs \ {p} : pc'[q] = pc[q] /\ verdict'[q] = verdict[q]
    BY <1>3, AskFrame
  <2>3. pc'[p] \in Running /\ pc'[p] \notin {"release", "free"} /\ pc[p] \in Running
    BY <1>3, AskFrame, RunningNames
  <2>4. \A d \in Drains : KeepsJob(d)
    BY <1>1, <2>2, <2>3 DEF KeepsJob, Procs
  <2>5. \A r \in Requests : Waiting(r)' => Waiting(r)
    BY <2>1, <2>2, <2>3, RunningNames DEF Waiting, Procs
  <2>6. QED
    BY <1>1, <1>2, <2>1, <2>2, <2>3, <2>4, <2>5, StepServed, NotEnded DEF InQueue
<1>4. CASE PublishResolved(p) \/ PublishApproved(p) \/ PublishTimeout(p) \/ PublishFails(p)
  <2>1. \A q \in Procs \ {p} : pc'[q] = pc[q] /\ verdict'[q] = verdict[q]
    BY <1>0, <1>4 DEF PublishResolved, PublishApproved, PublishTimeout, PublishFails, TypeOK
  <2>2. pc[p] \in {"resolve", "approve", "expire"} /\ pc'[p] \in {"approve", "release"}
    BY <1>0, <1>4 DEF PublishResolved, PublishApproved, PublishTimeout, PublishFails, TypeOK
  <2>3. \A r \in Requests : answer[r] # "none" => answer'[r] = answer[r]
    BY <1>4 DEF PublishResolved, PublishApproved, PublishTimeout, PublishFails, ResolveQueued
  <2>4. PICK r \in Requests : r = Job(p)
    BY <2>2, RunJob, RunningNames
  <2>5. Job(p)' = r
    BY <1>1, <2>4 DEF Job
  <2>6. pc'[p] = "release" => verdict'[p] # "none"
    BY <1>0, <1>4
    DEF PublishResolved, PublishApproved, PublishTimeout, PublishFails, OutcomeOf, TypeOK
  <2>7. pc'[p] = "release" /\ p \in Drains /\ faults' = 0 => answer'[r] # "none"
    <3>1. CASE PublishFails(p)
      BY <1>0, <3>1 DEF PublishFails
    <3>2. CASE PublishResolved(p) \/ PublishApproved(p) \/ PublishTimeout(p)
      <4>1. pc'[p] = "release" => \E v \in {"approved", "rejected", "null"} : ResolveQueued(p, v)
        BY <1>0, <3>2 DEF PublishResolved, PublishApproved, PublishTimeout, TypeOK
      <4>2. QED
        BY <2>4, <4>1 DEF ResolveQueued
    <3>3. QED
      BY <1>4, <3>1, <3>2
  <2>8. Ended(p)'
    BY <2>2, <2>5, <2>6, <2>7 DEF Ended
  <2>9. \A d \in Drains : KeepsJob(d)
    BY <1>1, <2>1, <2>2, RunningNames DEF KeepsJob, Procs
  <2>10. \A s \in Requests : Waiting(s)' => Waiting(s)
    BY <2>1, <2>2, <2>3 DEF Waiting, Procs
  <2>11. QED
    BY <1>1, <1>2, <2>1, <2>3, <2>8, <2>9, <2>10, StepServed DEF InQueue
<1>5. CASE Release(p)
  <2>1. UNCHANGED <<answer, verdict, faults>> /\ pc[p] \in {"release", "free"}
    BY <1>5 DEF Release
  <2>2. \A q \in Procs : pc'[q] = IF q = p THEN "free" ELSE pc[q]
    BY <1>0, <1>5 DEF Release, TypeOK
  <2>3. Job(p)' = Job(p)
    BY <1>1 DEF Job
  <2>4. Ended(p)'
    BY <1>0, <2>1, <2>2, <2>3 DEF Ended
  <2>5. \A d \in Drains : KeepsJob(d)
    BY <1>1, <2>2, RunningNames DEF KeepsJob, Procs
  <2>6. \A r \in Requests : Waiting(r)' => Waiting(r)
    BY <2>1, <2>2 DEF Waiting, Procs
  <2>7. QED
    BY <1>1, <1>2, <2>1, <2>2, <2>4, <2>5, <2>6, StepServed DEF InQueue
<1>6. QED
  BY <1>3, <1>4, <1>5 DEF RunStep

LEMMA RestServed ==
    ASSUME TypeInv, ServedInv,
           \/ \E q \in Procs, k \in Keys : TimerFires(q, k)
           \/ \E ks \in SUBSET Keys, h \in Humans, v \in {"yes", "no"} : Deliver(ks, h, v)
           \/ \E h \in Humans, s \in EnvStatuses : PresenceChanged(h, s)
           \/ Dispose \/ UNCHANGED vars
    PROVE  ServedInv'
<1>0. TypeOK
  BY DEF TypeInv
<1>1. UNCHANGED <<verdict, faults>>
  BY DEF TimerFires, Deliver, PresenceChanged, Dispose, vars
<1>2. \A q \in Procs : \/ pc'[q] = pc[q] /\ todo'[q] = todo[q]
                       \/ q \in Drains /\ pc[q] = "idle" /\ pc'[q] = "probe"
  BY <1>0 DEF TimerFires, Deliver, PresenceChanged, Dispose, vars, StartDrain, TypeOK, Procs
<1>3. \A d \in Drains : KeepsJob(d)
  BY <1>2, RunningNames DEF KeepsJob, Procs
<1>4. \A r \in Requests : pc'[r] = pc[r]
  BY <1>2, ConstantsAssumption DEF Procs
<1>5. CASE Dispose
  <2>1. \A r \in Requests : answer'[r] = IF InQueue(r) /\ answer[r] = "none" THEN "null" ELSE answer[r]
    BY <1>5 DEF Dispose, InQueue
  <2>2. \A r \in Requests : Waiting(r)' => Waiting(r)
    BY <1>4, <2>1 DEF Waiting
  <2>3. QED
    BY <1>1, <1>2, <1>3, <2>1, <2>2, StepServed, NotEnded
<1>6. CASE UNCHANGED <<pending, answer>>
  <2>1. \A r \in Requests : Waiting(r)' => Waiting(r)
    BY <1>4, <1>6 DEF Waiting
  <2>2. QED
    BY <1>1, <1>2, <1>3, <1>6, <2>1, StepServed, NotEnded DEF InQueue
<1>7. QED
  BY <1>5, <1>6 DEF TimerFires, Deliver, PresenceChanged, vars

LEMMA ServedHolds == Spec => []ServedInv
<1>1. Init => ServedInv
  BY DEF Init, ServedInv, Ended, QueuedNotLost, Procs
<1>2. TypeInv /\ OutcomeInv /\ ServedInv /\ [Next]_vars => ServedInv'
  <2> SUFFICES ASSUME TypeInv, OutcomeInv, ServedInv, [Next]_vars PROVE ServedInv'
    OBVIOUS
  <2>1. ASSUME NEW h \in Humans, NEW v \in {"yes", "no"},
               Speak(h, v) \/ \E k \in Keys : Respond(k, h, v)
        PROVE  ServedInv'
    <3>1. VoiceKeys(h) \in SUBSET Keys /\ \A k \in Keys : {k} \in SUBSET Keys
      BY DEF VoiceKeys
    <3>2. QED
      BY <2>1, <3>1, RestServed DEF Speak, Respond
  <2>2. QED
    BY <2>1, CallServed, DrainServed, RunServed, RestServed DEF Next
<1>3. QED
  BY <1>1, <1>2, TypeInvariant, OutcomesHold, PTL DEF Spec

\* However the drains interleave, a caller that waits for an approver is still
\* in the queue or in the run of a drain, so long as no publication fails.
THEOREM NobodyIsLost == Spec => []QueuedNotLost
<1>1. ServedInv => QueuedNotLost
  BY DEF ServedInv
<1>2. QED
  BY <1>1, ServedHolds, PTL

-----------------------------------------------------------------------------
(* A request that is not queued is decided once *)

InTodo(d, r) == \E i \in DOMAIN todo[d] : todo[d][i] = r

\* Whoever is in the queue, or in the snapshot of a drain, was announced.
QueuedFirst ==
    \A r \in Requests : InQueue(r) \/ (\E d \in Drains : InTodo(d, r)) => Occurs("queued", r)

Once == {<<>>, <<"timeout">>, <<"resolved_no">>, <<"resolved_yes">>, <<"resolved_yes", "order">>}

\* What a run that no drain shares has published, place by place.
DirectOf(r) ==
    /\ pc[r] \in {"new", "notify", "ring", "wait", "expire", "resolve"} => log[r] = <<>>
    /\ pc[r] = "approve" => log[r] = <<"resolved_yes">>
    /\ pc[r] \in {"release", "free"} => verdict[r] # "error"
    /\ pc[r] # "failed"
    /\ log[r] \in Once

DirectInv ==
    /\ QueuedFirst
    /\ faults = 0 => \A r \in Requests : Occurs("queued", r) \/ DirectOf(r)

LEMMA AppendPair ==
    ASSUME NEW a, NEW b
    PROVE  Append(<<a>>, b) = <<a, b>>
<1>1. <<a>> \in Seq({a, b}) /\ <<a, b>> \in Seq({a, b})
  OBVIOUS
<1>2. /\ Append(<<a>>, b) \in Seq({a, b}) /\ Len(Append(<<a>>, b)) = 2
      /\ Append(<<a>>, b)[1] = a /\ Append(<<a>>, b)[2] = b
  BY <1>1
<1>3. Len(<<a, b>>) = 2 /\ <<a, b>>[1] = a /\ <<a, b>>[2] = b
  OBVIOUS
<1>4. \A i \in 1 .. 2 : i = 1 \/ i = 2
  OBVIOUS
<1>5. \A i \in 1 .. Len(Append(<<a>>, b)) : Append(<<a>>, b)[i] = <<a, b>>[i]
  BY <1>2, <1>3, <1>4
<1>6. QED
  BY <1>1, <1>2, <1>3, <1>5, SeqEqual

LEMMA StepDirect ==
    ASSUME TypeInv, DirectInv, LogGrows, faults' = 0 => faults = 0,
           \A r \in Requests : InQueue(r)' => InQueue(r) \/ Occurs("queued", r)',
           \A d \in Drains, r \in Requests : InTodo(d, r)' => InTodo(d, r) \/ InQueue(r),
           faults' = 0 => \A r \in Requests :
               \/ Occurs("queued", r)' \/ DirectOf(r)'
               \/ Occurs("queued", r)
               \/ pc'[r] = pc[r] /\ log'[r] = log[r] /\ verdict'[r] = verdict[r]
    PROVE  DirectInv'
<1>1. \A r \in Requests : Occurs("queued", r) => Occurs("queued", r)'
  BY Names DEF LogGrows
<1>2. QueuedFirst'
  BY <1>1 DEF DirectInv, QueuedFirst
<1>3. ASSUME faults' = 0, NEW r \in Requests, ~Occurs("queued", r)',
             pc'[r] = pc[r], log'[r] = log[r], verdict'[r] = verdict[r]
      PROVE  DirectOf(r)'
  <2>1. DirectOf(r)
    BY <1>1, <1>3 DEF DirectInv
  <2>2. QED
    BY <1>3, <2>1 DEF DirectOf
<1>4. QED
  BY <1>1, <1>2, <1>3 DEF DirectInv

LEMMA CallDirect ==
    ASSUME TypeInv, DirectInv, NEW r \in Requests, Arrive(r) \/ CallStep(r) \/ AnnounceFails(r)
    PROVE  DirectInv'
<1>0. TypeOK /\ r \in Procs /\ r \notin Drains /\ faults \in Nat /\ Job(r) = r
  BY ConstantsAssumption DEF TypeInv, TypeOK, Procs, Job
<1>1. LogGrows
  <2>1. CASE UNCHANGED log
    BY <2>1, SameLogGrows
  <2>2. CASE \E e \in Events : log' = [log EXCEPT ![r] = Append(log[r], e)]
    BY <1>0, <2>2, AppendOccurs
  <2>3. QED
    BY <1>0, <2>1, <2>2, Names DEF Arrive, CallStep, Refuse, Dispatch, Enqueue, Announced,
       Return, Fail, Unpark, AnnounceFails, Publish
<1>2. faults' = 0 => faults = 0
  BY <1>0 DEF Arrive, CallStep, Refuse, Dispatch, Enqueue, Announced, Return, Fail, Unpark,
     AnnounceFails
<1>3. \A s \in Requests : InQueue(s)' => InQueue(s) \/ Occurs("queued", s)'
  <2>1. CASE Enqueue(r)
    <3>1. Occurs("queued", r)'
      BY <1>0, <2>1, AppendOccurs, Names DEF Enqueue
    <3>2. pending \in Seq(Requests) /\ pending' = Append(pending, r)
      BY <1>0, <2>1 DEF Enqueue, TypeOK
    <3>3. \A i \in DOMAIN pending' :
             pending'[i] = r \/ \E j \in DOMAIN pending : pending[j] = pending'[i]
      BY <3>2, AppendQueue
    <3>4. \A s \in Requests : InQueue(s)' => s = r \/ InQueue(s)
      BY <3>3 DEF InQueue
    <3>5. QED
      BY <3>1, <3>4
  <2>2. CASE UNCHANGED pending
    BY <2>2 DEF InQueue
  <2>3. QED
    BY <2>1, <2>2 DEF Arrive, CallStep, Refuse, Dispatch, Announced, Return, Fail, Unpark,
       AnnounceFails
<1>4. \A d \in Drains, s \in Requests : InTodo(d, s)' => InTodo(d, s) \/ InQueue(s)
  <2>1. CASE Announced(r)
    <3>1. \A d \in Drains : todo'[d] = todo[d] \/ todo'[d] = pending
      BY <1>0, <2>1 DEF Announced, StartDrain, TypeOK, Procs
    <3>2. QED
      BY <3>1 DEF InTodo, InQueue
  <2>2. CASE UNCHANGED todo
    BY <2>2 DEF InTodo
  <2>3. QED
    BY <2>1, <2>2 DEF Arrive, CallStep, Refuse, Dispatch, Enqueue, Return, Fail, Unpark,
       AnnounceFails
<1>5. \A s \in Requests \ {r} : pc'[s] = pc[s] /\ log'[s] = log[s] /\ verdict'[s] = verdict[s]
  <2>1. CASE Announced(r)
    <3>1. \A s \in Requests \ {r} : pc'[s] = pc[s]
      BY <1>0, <2>1, ConstantsAssumption DEF Announced, StartDrain, TypeOK, Procs
    <3>2. QED
      BY <2>1, <3>1 DEF Announced
  <2>2. CASE \/ Dispatch(r) \/ Refuse(r) \/ Enqueue(r) \/ Fail(r) \/ Unpark(r)
             \/ AnnounceFails(r) \/ Return(r)
    BY <1>0, <2>2 DEF Dispatch, StartRun, Refuse, Enqueue, Fail, Unpark, AnnounceFails, Return,
       Forget, Publish, TypeOK, Procs
  <2>3. QED
    BY <2>1, <2>2 DEF Arrive, CallStep
<1>6. ASSUME faults' = 0
      PROVE  Occurs("queued", r)' \/ Occurs("queued", r) \/ DirectOf(r)'
  <2> SUFFICES ASSUME DirectOf(r) PROVE Occurs("queued", r)' \/ DirectOf(r)'
    BY <1>2, <1>6 DEF DirectInv
  <2>1. CASE Enqueue(r)
    BY <1>0, <2>1, AppendOccurs, Names DEF Enqueue
  <2>2. CASE Dispatch(r)
    <3>1. FirstStop(r) \in {"expire", "ring", "notify"}
      BY DEF FirstStop
    <3>2. QED
      BY <1>0, <2>2, <3>1 DEF Dispatch, StartRun, DirectOf, TypeOK
  <2>3. CASE Announced(r)
    <3>1. pc'[r] = "parked"
      BY <1>0, <2>3 DEF Announced, StartDrain, TypeOK
    <3>2. QED
      BY <2>3, <3>1 DEF Announced, DirectOf
  <2>4. CASE Refuse(r) \/ Unpark(r)
    BY <1>0, <2>4 DEF Refuse, Unpark, DirectOf, TypeOK
  <2>5. CASE Return(r)
    BY <1>0, <2>5 DEF Return, DirectOf, TypeOK
  <2>6. CASE Fail(r) \/ AnnounceFails(r)
    BY <1>0, <1>6, <2>6 DEF Fail, AnnounceFails, DirectOf
  <2>7. QED
    BY <2>1, <2>2, <2>3, <2>4, <2>5, <2>6 DEF Arrive, CallStep
<1>7. QED
  BY <1>1, <1>2, <1>3, <1>4, <1>5, <1>6, StepDirect

LEMMA DrainDirect ==
    ASSUME TypeInv, DirectInv, NEW d \in Drains, DrainStep(d)
    PROVE  DirectInv'
<1>0. TypeOK /\ d \in Procs /\ d \notin Requests
  BY ConstantsAssumption DEF TypeInv, Procs
<1>1. UNCHANGED <<log, faults>>
  BY DEF DrainStep, DrainSkip, DrainTake, DrainStart, DrainQuorum, DrainEnd, DrainNext
<1>2. \A r \in Requests : InQueue(r)' => InQueue(r)
  <2>1. CASE UNCHANGED pending
    BY <2>1 DEF InQueue
  <2>2. CASE pending' = Without(pending, Job(d))
    BY <1>0, <2>2, WithoutKeeps DEF InQueue, TypeOK
  <2>3. QED
    BY <2>1, <2>2 DEF DrainStep, DrainSkip, DrainTake, DrainStart, DrainQuorum, DrainEnd, DrainNext
<1>3. \A c \in Drains, r \in Requests : InTodo(c, r)' => InTodo(c, r)
  <2>1. CASE UNCHANGED todo
    BY <2>1 DEF InTodo
  <2>2. CASE todo' = [todo EXCEPT ![d] = Tail(todo[d])] /\ todo[d] # <<>>
    <3>1. todo[d] \in Seq(Requests)
      BY <1>0 DEF TypeOK
    <3>2. \A c \in Drains : todo'[c] = IF c = d THEN Tail(todo[d]) ELSE todo[c]
      BY <1>0, <2>2 DEF TypeOK, Procs
    <3>3. QED
      BY <2>2, <3>1, <3>2, TailQueue DEF InTodo
  <2>3. CASE todo' = [todo EXCEPT ![d] = <<>>]
    <3>1. \A c \in Drains : todo'[c] = IF c = d THEN <<>> ELSE todo[c]
      BY <1>0, <2>3 DEF TypeOK, Procs
    <3>2. DOMAIN <<>> = {}
      OBVIOUS
    <3>3. QED
      BY <3>1, <3>2 DEF InTodo
  <2>4. pc[d] \in {"release", "free"} => todo[d] # <<>>
    BY RunningNames DEF TypeInv, JobOK
  <2>5. QED
    BY <2>1, <2>2, <2>3, <2>4
    DEF DrainStep, DrainSkip, DrainTake, DrainStart, DrainQuorum, DrainEnd, DrainNext
<1>4. \A r \in Requests : pc'[r] = pc[r] /\ verdict'[r] = verdict[r]
  BY <1>0 DEF DrainStep, DrainStart, DrainQuorum, StartRun, DrainSkip, DrainTake, DrainEnd,
     DrainNext, Forget, TypeOK, Procs
<1>5. QED
  BY <1>1, <1>2, <1>3, <1>4, SameLogGrows, StepDirect

LEMMA RunDirect ==
    ASSUME TypeInv, DirectInv, OutcomeInv, NEW p \in Procs, RunStep(p) \/ PublishFails(p)
    PROVE  DirectInv'
<1>0. TypeOK /\ faults \in Nat /\ pc[p] \in Running
  BY RunningNames DEF TypeInv, TypeOK, RunStep, Notified, Rang, RingFailed, HandleParallel,
     HandleSequential, HandleQuorum, PublishResolved, PublishApproved, PublishTimeout, Release,
     PublishFails
<1>1. UNCHANGED <<pending, todo>>
  BY DEF RunStep, Notified, Rang, RingFailed, HandleParallel, HandleSequential, HandleQuorum,
     PublishResolved, PublishApproved, PublishTimeout, Release, PublishFails
<1>2. faults' = 0 => faults = 0 /\ ~PublishFails(p)
  BY <1>0 DEF RunStep, Notified, Rang, RingFailed, HandleParallel, HandleSequential, HandleQuorum,
     PublishResolved, PublishApproved, PublishTimeout, Release, PublishFails
<1>3. PICK r \in Requests : r = Job(p)
  BY <1>0, RunJob
<1>4. p \in Drains => Occurs("queued", r)
  <2> SUFFICES ASSUME p \in Drains PROVE InTodo(p, r)
    BY DEF DirectInv, QueuedFirst
  <2>1. todo[p] \in Seq(Requests) /\ todo[p] # <<>> /\ p \notin Requests
    BY <1>0, ConstantsAssumption DEF TypeInv, TypeOK, JobOK, Procs
  <2>2. r = todo[p][1] /\ 1 \in DOMAIN todo[p]
    BY <1>3, <2>1 DEF Job
  <2>3. QED
    BY <2>2 DEF InTodo
<1>5. p \in Requests => p = r
  BY <1>3 DEF Job
<1>6. /\ LogGrows
      /\ \A s \in Requests \ {r} : log'[s] = log[s]
      /\ \A s \in Requests \ {p} : pc'[s] = pc[s] /\ verdict'[s] = verdict[s]
  <2>1. CASE \/ Notified(p) \/ Rang(p) \/ RingFailed(p)
             \/ HandleParallel(p) \/ HandleSequential(p) \/ HandleQuorum(p)
    <3>1. UNCHANGED log
      BY <2>1 DEF Notified, Rang, RingFailed, HandleParallel, HandleSequential, HandleQuorum
    <3>2. QED
      BY <2>1, <3>1, AskFrame, SameLogGrows DEF Procs
  <2>2. CASE PublishResolved(p) \/ PublishApproved(p) \/ PublishTimeout(p) \/ PublishFails(p)
    <3>1. \E e \in Events : Publish(p, e)
      BY <2>2, Names DEF PublishResolved, PublishApproved, PublishTimeout, PublishFails, EventAt
    <3>2. LogGrows
      BY <1>0, <3>1, PublishGrows
    <3>3. \A s \in Requests \ {r} : log'[s] = log[s]
      BY <1>0, <1>3, <3>1 DEF Publish, TypeOK
    <3>4. \A s \in Requests \ {p} : pc'[s] = pc[s] /\ verdict'[s] = verdict[s]
      BY <1>0, <2>2
      DEF PublishResolved, PublishApproved, PublishTimeout, PublishFails, TypeOK, Procs
    <3>5. QED
      BY <3>2, <3>3, <3>4
  <2>3. CASE Release(p)
    BY <1>0, <2>3, SameLogGrows DEF Release, TypeOK, Procs
  <2>4. QED
    BY <2>1, <2>2, <2>3 DEF RunStep
<1>7. ASSUME faults' = 0, p \in Requests, ~Occurs("queued", p)
      PROVE  DirectOf(p)'
  <2>1. DirectOf(p) /\ OutcomeOf(p) /\ r = p /\ log[p] \in Seq(Events)
    BY <1>0, <1>2, <1>5, <1>7 DEF DirectInv, OutcomeInv, TypeOK
  <2>2. CASE \/ Notified(p) \/ Rang(p) \/ RingFailed(p)
             \/ HandleParallel(p) \/ HandleSequential(p) \/ HandleQuorum(p)
    <3>1. UNCHANGED log
      BY <2>2 DEF Notified, Rang, RingFailed, HandleParallel, HandleSequential, HandleQuorum
    <3>2. pc[p] \in {"notify", "ring", "wait"} /\ pc'[p] \in {"ring", "wait", "expire", "resolve"}
      BY <2>2, AskFrame
    <3>3. QED
      BY <2>1, <3>1, <3>2 DEF DirectOf
  <2>3. CASE PublishResolved(p)
    <3>1. log[p] = <<>>
      BY <2>1, <2>3 DEF DirectOf, PublishResolved
    <3>2. \/ pc'[p] = "approve" /\ log'[p] = <<"resolved_yes">>
          \/ pc'[p] = "release" /\ log'[p] = <<"resolved_no">> /\ verdict'[p] # "error"
      BY <1>0, <1>3, <2>1, <2>3, <3>1 DEF PublishResolved, Publish, OutcomeOf, TypeOK
    <3>3. QED
      BY <3>2 DEF DirectOf, Once
  <2>4. CASE PublishApproved(p)
    <3>1. log[p] = <<"resolved_yes">>
      BY <2>1, <2>4 DEF DirectOf, PublishApproved
    <3>2. pc'[p] = "release" /\ verdict'[p] = "approved"
      BY <1>0, <2>1, <2>4 DEF PublishApproved, OutcomeOf, TypeOK
    <3>3. log'[p] = Append(log[p], "order")
      BY <1>0, <1>3, <2>1, <2>4 DEF PublishApproved, Publish, TypeOK
    <3>4. Append(<<"resolved_yes">>, "order") = <<"resolved_yes", "order">>
      BY AppendPair
    <3>5. QED
      BY <3>1, <3>2, <3>3, <3>4 DEF DirectOf, Once
  <2>5. CASE PublishTimeout(p)
    <3>1. log[p] = <<>>
      BY <2>1, <2>5 DEF DirectOf, PublishTimeout
    <3>2. pc'[p] = "release" /\ verdict'[p] = "null"
      BY <1>0, <2>5 DEF PublishTimeout, TypeOK
    <3>3. log'[p] = Append(log[p], "timeout")
      BY <1>0, <1>3, <2>1, <2>5 DEF PublishTimeout, Publish, TypeOK
    <3>4. Append(<<>>, "timeout") = <<"timeout">>
      OBVIOUS
    <3>5. QED
      BY <3>1, <3>2, <3>3, <3>4 DEF DirectOf, Once
  <2>6. CASE Release(p)
    BY <1>0, <2>1, <2>6 DEF Release, DirectOf, TypeOK
  <2>7. QED
    BY <1>2, <1>7, <2>2, <2>3, <2>4, <2>5, <2>6 DEF RunStep
<1>8. \A s \in Requests : InQueue(s)' => InQueue(s)
  BY <1>1 DEF InQueue
<1>9. \A d \in Drains, s \in Requests : InTodo(d, s)' => InTodo(d, s)
  BY <1>1 DEF InTodo
<1>10. ASSUME faults' = 0, NEW s \in Requests
       PROVE  \/ DirectOf(s)' \/ Occurs("queued", s)
              \/ pc'[s] = pc[s] /\ log'[s] = log[s] /\ verdict'[s] = verdict[s]
  <2>1. CASE s = p
    BY <1>7, <1>10, <2>1
  <2>2. CASE s # p /\ s # r
    BY <1>6, <2>2
  <2>3. CASE s # p /\ s = r
    BY <1>4, <1>5, <2>3 DEF Procs
  <2>4. QED
    BY <2>1, <2>2, <2>3
<1>11. QED
  BY <1>2, <1>6, <1>8, <1>9, <1>10, StepDirect

LEMMA RestDirect ==
    ASSUME TypeInv, DirectInv,
           \/ \E q \in Procs, k \in Keys : TimerFires(q, k)
           \/ \E ks \in SUBSET Keys, h \in Humans, v \in {"yes", "no"} : Deliver(ks, h, v)
           \/ \E h \in Humans, s \in EnvStatuses : PresenceChanged(h, s)
           \/ Dispose \/ UNCHANGED vars
    PROVE  DirectInv'
<1>0. TypeOK
  BY DEF TypeInv
<1>1. UNCHANGED <<log, verdict, faults>>
  BY DEF TimerFires, Deliver, PresenceChanged, Dispose, vars
<1>2. /\ \A d \in Drains : todo'[d] = todo[d] \/ todo'[d] = pending
      /\ \A r \in Requests : pc'[r] = pc[r]
  BY <1>0, ConstantsAssumption
  DEF TimerFires, Deliver, PresenceChanged, Dispose, vars, StartDrain, TypeOK, Procs
<1>3. \A d \in Drains, r \in Requests : InTodo(d, r)' => InTodo(d, r) \/ InQueue(r)
  BY <1>2 DEF InTodo, InQueue
<1>4. pending' = pending \/ pending' = <<>>
  BY DEF TimerFires, Deliver, PresenceChanged, Dispose, vars
<1>5. \A r \in Requests : InQueue(r)' => InQueue(r)
  <2>1. DOMAIN <<>> = {}
    OBVIOUS
  <2>2. QED
    BY <1>4, <2>1 DEF InQueue
<1>6. QED
  BY <1>1, <1>2, <1>3, <1>5, SameLogGrows, StepDirect

LEMMA DirectHolds == Spec => []DirectInv
<1>1. Init => DirectInv
  <2> SUFFICES ASSUME Init PROVE DirectInv
    OBVIOUS
  <2>1. /\ pending = <<>> /\ \A d \in Drains : todo[d] = <<>>
        /\ \A r \in Requests : pc[r] = "new" /\ log[r] = <<>>
    BY DEF Init, Procs
  <2>2. DOMAIN <<>> = {}
    OBVIOUS
  <2>3. QueuedFirst
    BY <2>1, <2>2 DEF QueuedFirst, InQueue, InTodo
  <2>4. \A r \in Requests : DirectOf(r)
    BY <2>1 DEF DirectOf, Once
  <2>5. QED
    BY <2>3, <2>4 DEF DirectInv
<1>2. TypeInv /\ OutcomeInv /\ DirectInv /\ [Next]_vars => DirectInv'
  <2> SUFFICES ASSUME TypeInv, OutcomeInv, DirectInv, [Next]_vars PROVE DirectInv'
    OBVIOUS
  <2>1. ASSUME NEW h \in Humans, NEW v \in {"yes", "no"},
               Speak(h, v) \/ \E k \in Keys : Respond(k, h, v)
        PROVE  DirectInv'
    <3>1. VoiceKeys(h) \in SUBSET Keys /\ \A k \in Keys : {k} \in SUBSET Keys
      BY DEF VoiceKeys
    <3>2. QED
      BY <2>1, <3>1, RestDirect DEF Speak, Respond
  <2>2. QED
    BY <2>1, CallDirect, DrainDirect, RunDirect, RestDirect DEF Next
<1>3. QED
  BY <1>1, <1>2, TypeInvariant, OutcomesHold, PTL DEF Spec

\* A request that found its approvers at once publishes one outcome, and no
\* drain publishes another one for it, so long as no publication fails.
THEOREM DirectIsOnce == Spec => []DirectOnce
<1>1. DirectInv => DirectOnce
  BY DEF DirectInv, DirectOnce, DirectOf, Once
<1>2. QED
  BY <1>1, DirectHolds, PTL

-----------------------------------------------------------------------------
(* The orchestrator implements ApprovalLifecycle *)

LifecycleInv == TypeInv /\ QueuedFirst /\ \A p \in Procs : OutcomeOf(p) /\ Ended(p)

\* The places of a run that has announced nothing.
Opens == {"notify", "ring", "wait", "resolve", "expire"}
Ends == {"release", "free"}

LEMMA RunPlaces == Running = Opens \cup {"approve"} \cup Ends
BY DEF Running, Opens, Ends

LEMMA KeepsAttempt ==
    ASSUME NEW p \in Procs,
           \/ pc'[p] = pc[p] /\ todo'[p] = todo[p] /\ verdict'[p] = verdict[p]
           \/ pc[p] \notin Running /\ pc'[p] \notin Running
           \/ pc[p] \in Opens /\ pc'[p] \in Opens /\ todo'[p] = todo[p]
           \/ /\ pc[p] \in Ends /\ pc'[p] \in Ends
              /\ todo'[p] = todo[p] /\ verdict'[p] = verdict[p]
    PROVE  AttemptOf(p)' = AttemptOf(p)
<1>1. todo'[p] = todo[p] => Job(p)' = Job(p)
  BY DEF Job
<1>2. CASE pc[p] \notin Running /\ pc'[p] \notin Running
  BY <1>2 DEF AttemptOf
<1>3. CASE pc[p] \in Opens /\ pc'[p] \in Opens /\ todo'[p] = todo[p]
  BY <1>1, <1>3, RunPlaces DEF AttemptOf, ProgressOf, Opens
<1>4. CASE pc[p] \in Ends /\ pc'[p] \in Ends /\ todo'[p] = todo[p] /\ verdict'[p] = verdict[p]
  BY <1>1, <1>4, RunPlaces DEF AttemptOf, ProgressOf, Ends
<1>5. CASE pc'[p] = pc[p] /\ todo'[p] = todo[p] /\ verdict'[p] = verdict[p]
  BY <1>1, <1>5 DEF AttemptOf, ProgressOf
<1> QED
  BY <1>2, <1>3, <1>4, <1>5

LEMMA KeepsCaller ==
    ASSUME NEW r \in Requests,
           \/ pc'[r] = pc[r]
           \/ pc[r] \in Running /\ pc'[r] \in Running
           \/ pc[r] \in {"announce", "parked"} /\ pc'[r] \in {"announce", "parked"}
    PROVE  CallerOf(r)' = CallerOf(r)
BY RunningNames DEF CallerOf

\* What the callers and the bus see does not change.
LEMMA SameView ==
    ASSUME \A r \in Requests : CallerOf(r)' = CallerOf(r),
           \A p \in Procs : AttemptOf(p)' = AttemptOf(p),
           UNCHANGED <<log, answer>>
    PROVE  UNCHANGED Lifecycle!vars
BY DEF Lifecycle!vars

\* A step of one activation.
Only(p) == \A q \in Procs \ {p} : pc'[q] = pc[q] /\ todo'[q] = todo[q] /\ verdict'[q] = verdict[q]

LEMMA OnlyView ==
    ASSUME NEW p \in Procs, Only(p)
    PROVE  /\ \A q \in Procs \ {p} : AttemptOf(q)' = AttemptOf(q)
           /\ \A r \in Requests \ {p} : CallerOf(r)' = CallerOf(r)
BY KeepsAttempt, KeepsCaller DEF Only, Procs

LEMMA CallerMoves ==
    ASSUME NEW r \in Requests, NEW from, NEW to, CallerOf(r) = from, CallerOf(r)' = to,
           \A q \in Requests \ {r} : CallerOf(q)' = CallerOf(q)
    PROVE  Lifecycle!Moves(r, from, to)
BY DEF Lifecycle!Moves

LEMMA AttemptMoves ==
    ASSUME NEW p \in Procs, NEW a, AttemptOf(p)' = a,
           \A q \in Procs \ {p} : AttemptOf(q)' = AttemptOf(q)
    PROVE  [q \in Procs |-> AttemptOf(q)]' = [[q \in Procs |-> AttemptOf(q)] EXCEPT ![p] = a]
OBVIOUS

LEMMA SameCallers ==
    ASSUME \A r \in Requests : CallerOf(r)' = CallerOf(r)
    PROVE  [r \in Requests |-> CallerOf(r)]' = [r \in Requests |-> CallerOf(r)]
OBVIOUS

LEMMA SameAttempts ==
    ASSUME \A p \in Procs : AttemptOf(p)' = AttemptOf(p)
    PROVE  [p \in Procs |-> AttemptOf(p)]' = [p \in Procs |-> AttemptOf(p)]
OBVIOUS

LEMMA LifecycleInit == Init => Lifecycle!Init
<1> SUFFICES ASSUME Init PROVE Lifecycle!Init
  OBVIOUS
<1>1. ASSUME NEW r \in Requests PROVE CallerOf(r) = "new"
  <2>1. pc[r] = "new"
    BY DEF Init, Procs
  <2> QED
    BY <2>1, RunningNames DEF CallerOf
<1>2. \A p \in Procs : AttemptOf(p) = [on |-> None, is |-> "none"]
  BY RunningNames DEF Init, AttemptOf
<1> QED
  BY <1>1, <1>2 DEF Init, Lifecycle!Init, Lifecycle!NoRun, Lifecycle!Procs, Procs

\* A run begins.
LEMMA StartsRun ==
    ASSUME LifecycleInv, NEW p \in Procs, NEW r \in Requests,
           pc' = [pc EXCEPT ![p] = FirstStop(r)] \/ pc' = [pc EXCEPT ![p] = "expire"],
           Job(p) = r, pc[p] \notin Running, UNCHANGED <<todo, verdict>>
    PROVE  Only(p) /\ pc'[p] \in Opens /\ Lifecycle!Starts(p, r) /\ AttemptOf(p) = Lifecycle!NoRun
<1>1. Only(p) /\ pc'[p] \in Opens
  BY DEF LifecycleInv, TypeInv, TypeOK, Only, FirstStop, Opens
<1>2. Job(p)' = r
  BY DEF Job
<1>3. AttemptOf(p)' = [on |-> r, is |-> "open"]
  BY <1>1, <1>2, RunPlaces DEF AttemptOf, ProgressOf, Opens
<1>4. Lifecycle!Starts(p, r)
  BY <1>1, <1>3, OnlyView, AttemptMoves DEF Lifecycle!Starts
<1> QED
  BY <1>1, <1>4 DEF AttemptOf, Lifecycle!NoRun

LEMMA CallLife ==
    ASSUME LifecycleInv, NEW r \in Requests, Refuse(r) \/ Dispatch(r)
    PROVE  Lifecycle!Call(r)
<1>1. r \in Procs /\ Job(r) = r /\ pc[r] = "new" /\ pc[r] \notin Running
  BY RunningNames DEF Refuse, Dispatch, Procs, Job
<1>2. /\ pc' = [pc EXCEPT ![r] = FirstStop(r)] \/ pc' = [pc EXCEPT ![r] = "expire"]
      /\ UNCHANGED <<todo, verdict, log, answer>>
  BY DEF Refuse, Dispatch, StartRun
<1>3. Only(r) /\ pc'[r] \in Opens /\ Lifecycle!Starts(r, r)
  BY <1>1, <1>2, StartsRun
<1>4. CallerOf(r) = "new" /\ CallerOf(r)' = "running"
  BY <1>1, <1>3, RunPlaces DEF CallerOf, Opens
<1>5. Lifecycle!Moves(r, "new", "running")
  BY <1>1, <1>3, <1>4, OnlyView, CallerMoves
<1> QED
  BY <1>2, <1>3, <1>5 DEF Lifecycle!Call

LEMMA QueueLife ==
    ASSUME LifecycleInv, NEW r \in Requests, Enqueue(r)
    PROVE  Lifecycle!Queue(r)
<1>1. r \in Procs /\ pc[r] = "new" /\ pc'[r] = "announce" /\ Only(r)
  BY DEF Enqueue, Procs, LifecycleInv, TypeInv, TypeOK, Only
<1>2. CallerOf(r) = "new" /\ CallerOf(r)' = "waiting"
  BY <1>1, RunningNames DEF CallerOf
<1>3. \A p \in Procs : AttemptOf(p)' = AttemptOf(p)
  BY <1>1, OnlyView, KeepsAttempt, RunningNames
<1>4. Lifecycle!Moves(r, "new", "waiting")
  BY <1>1, <1>2, OnlyView, CallerMoves
<1>5. log' = [log EXCEPT ![r] = Append(@, "queued")] /\ UNCHANGED answer
  BY DEF Enqueue
<1> QED
  BY <1>3, <1>4, <1>5, SameAttempts DEF Lifecycle!Queue, Lifecycle!Tells
\* A drain takes on what was announced as queued.
LEMMA ServeLife ==
    ASSUME LifecycleInv, NEW d \in Drains, DrainStart(d) \/ DrainQuorum(d)
    PROVE  \E r \in Requests : Lifecycle!Serve(d, r)
<1>1. d \in Procs /\ d \notin Requests /\ pc[d] \in {"taken", "probe"} /\ pc[d] \notin Running
  BY ConstantsAssumption, RunningNames DEF DrainStart, DrainQuorum, Procs
<1>2. todo[d] \in Seq(Requests) /\ todo[d] # <<>> /\ Job(d) = Head(todo[d])
  <2>1. todo[d] # <<>>
    BY DEF DrainStart, DrainQuorum, LifecycleInv, TypeInv, JobOK
  <2> QED
    BY <1>1, <2>1 DEF LifecycleInv, TypeInv, TypeOK, Job
<1>3. PICK r \in Requests : r = Job(d)
  BY <1>2
<1>4. Occurs("queued", r)
  <2>1. 1 \in DOMAIN todo[d] /\ todo[d][1] = r
    BY <1>2, <1>3
  <2> QED
    BY <1>3, <2>1 DEF LifecycleInv, QueuedFirst, InTodo
<1>5. pc' = [pc EXCEPT ![d] = FirstStop(r)] /\ UNCHANGED <<todo, verdict, log, answer>>
  BY <1>3 DEF DrainStart, DrainQuorum, StartRun
<1>6. Only(d) /\ Lifecycle!Starts(d, r) /\ AttemptOf(d) = Lifecycle!NoRun
  BY <1>1, <1>3, <1>5, StartsRun
<1>7. \A s \in Requests : CallerOf(s)' = CallerOf(s)
  BY <1>1, <1>6, OnlyView
<1> QED
  BY <1>1, <1>4, <1>5, <1>6, <1>7, SameCallers DEF Lifecycle!Serve, Lifecycle!Queued, Occurs

\* A drain leaves its run.
LEMMA LeaveLife ==
    ASSUME LifecycleInv, NEW d \in Drains, DrainNext(d)
    PROVE  Lifecycle!Leave(d)
<1>1. d \in Procs /\ d \notin Requests /\ pc[d] \in Ends
  BY ConstantsAssumption DEF DrainNext, Procs, Ends
<1>2. Only(d) /\ pc'[d] \in {"idle", "probe"}
  BY <1>1 DEF DrainNext, Forget, LifecycleInv, TypeInv, TypeOK, Only
<1>3. AttemptOf(d).is \in {"approved", "rejected", "null", "error"}
  <2>1. AttemptOf(d) = [on |-> Job(d), is |-> verdict[d]]
    BY <1>1, RunPlaces DEF AttemptOf, ProgressOf, Ends
  <2>2. verdict[d] \in Verdicts /\ verdict[d] # "none"
    BY <1>1 DEF LifecycleInv, TypeInv, TypeOK, Ended, Ends
  <2> QED
    BY <2>1, <2>2 DEF Verdicts
<1>4. AttemptOf(d)' = Lifecycle!NoRun
  BY <1>2, RunningNames DEF AttemptOf, Lifecycle!NoRun
<1>5. Lifecycle!Stops(d)
  BY <1>1, <1>2, <1>4, OnlyView, AttemptMoves DEF Lifecycle!Stops
<1>6. \A r \in Requests : CallerOf(r)' = CallerOf(r)
  BY <1>1, <1>2, OnlyView
<1>7. UNCHANGED <<log, answer>>
  BY DEF DrainNext
<1> QED
  BY <1>1, <1>3, <1>5, <1>6, <1>7, SameCallers DEF Lifecycle!Leave, Lifecycle!Outcomes

\* orchestrate() returns what its run announced, or throws.
LEMMA ReturnLife ==
    ASSUME LifecycleInv, NEW r \in Requests, Return(r)
    PROVE  Lifecycle!Return(r) \/ Lifecycle!Throw(r)
<1>1. r \in Procs /\ Job(r) = r /\ pc[r] \in Ends /\ pc[r] \in Running
  BY RunningNames DEF Return, Procs, Job, Ends
<1>2. Only(r) /\ pc'[r] = IF verdict[r] = "error" THEN "failed" ELSE "done"
  BY <1>1 DEF Return, Forget, LifecycleInv, TypeInv, TypeOK, Only
<1>3. AttemptOf(r).is = verdict[r]
  BY <1>1, RunPlaces DEF AttemptOf, ProgressOf, Ends
<1>4. verdict[r] \in Verdicts /\ verdict[r] # "none"
  BY <1>1 DEF LifecycleInv, TypeInv, TypeOK, Ended, Ends
<1>5. AttemptOf(r)' = Lifecycle!NoRun
  BY <1>2, RunningNames DEF AttemptOf, Lifecycle!NoRun
<1>6. Lifecycle!Stops(r)
  BY <1>1, <1>2, <1>5, OnlyView, AttemptMoves DEF Lifecycle!Stops
<1>7. CallerOf(r) = "running"
  BY <1>1, RunningNames DEF CallerOf
<1>8. UNCHANGED log
  BY DEF Return
<1>9. CASE verdict[r] = "error"
  <2>1. CallerOf(r)' = "failed"
    BY <1>2, <1>9, RunningNames DEF CallerOf
  <2>2. Lifecycle!Moves(r, "running", "failed")
    BY <1>1, <1>2, <1>7, <2>1, OnlyView, CallerMoves
  <2>3. UNCHANGED answer
    BY <1>9 DEF Return
  <2> QED
    BY <1>1, <1>3, <1>6, <1>8, <1>9, <2>2, <2>3 DEF Lifecycle!Throw
<1>10. CASE verdict[r] # "error"
  <2>1. CallerOf(r)' = "closed"
    BY <1>2, <1>10, RunningNames DEF CallerOf
  <2>2. Lifecycle!Moves(r, "running", "closed")
    BY <1>1, <1>2, <1>7, <2>1, OnlyView, CallerMoves
  <2>3. answer' = [answer EXCEPT ![r] = AttemptOf(r).is]
    BY <1>3, <1>10 DEF Return
  <2>4. AttemptOf(r).is \in {"approved", "rejected", "null"}
    BY <1>3, <1>4, <1>10 DEF Verdicts
  <2> QED
    BY <1>1, <1>6, <1>8, <2>2, <2>3, <2>4 DEF Lifecycle!Return, Lifecycle!Outcomes
<1> QED
  BY <1>9, <1>10

\* The other steps of a caller.
LEMMA CallerLife ==
    ASSUME LifecycleInv, NEW r \in Requests, AnnounceFails(r) \/ Fail(r) \/ Unpark(r)
    PROVE  Lifecycle!Throw(r) \/ Lifecycle!Fail(r) \/ Lifecycle!Hear(r)
<1>1. r \in Procs /\ Only(r) /\ pc[r] \notin Running /\ pc'[r] \notin Running
  BY RunningNames DEF AnnounceFails, Fail, Unpark, Procs, LifecycleInv, TypeInv, TypeOK, Only
<1>2. \A p \in Procs : AttemptOf(p)' = AttemptOf(p)
  BY <1>1, OnlyView, KeepsAttempt
<1>3. CASE AnnounceFails(r)
  <2>1. pc[r] = "announce" /\ pc'[r] = "failed" /\ UNCHANGED <<log, answer>>
    BY <1>1, <1>3 DEF AnnounceFails, LifecycleInv, TypeInv, TypeOK
  <2>2. CallerOf(r) = "waiting" /\ CallerOf(r)' = "failed"
    BY <1>1, <2>1 DEF CallerOf
  <2>3. Lifecycle!Moves(r, "waiting", "failed")
    BY <1>1, <2>2, OnlyView, CallerMoves
  <2> QED
    BY <1>2, <2>1, <2>3, SameAttempts DEF Lifecycle!Throw
<1>4. CASE Fail(r)
  <2>1. pc[r] = "failed" /\ pc'[r] = "done" /\ answer' = [answer EXCEPT ![r] = "error"]
    BY <1>1, <1>4 DEF Fail, LifecycleInv, TypeInv, TypeOK
  <2>2. log' = [log EXCEPT ![r] = Append(@, "timeout")] \/ UNCHANGED log
    BY <1>4 DEF Fail, Publish, Job
  <2>3. CallerOf(r) = "failed" /\ CallerOf(r)' = "closed"
    BY <1>1, <2>1 DEF CallerOf
  <2>4. Lifecycle!Moves(r, "failed", "closed")
    BY <1>1, <2>3, OnlyView, CallerMoves
  <2> QED
    BY <1>2, <2>1, <2>2, <2>4, SameAttempts DEF Lifecycle!Fail, Lifecycle!Tells
<1>5. CASE Unpark(r)
  <2>1. pc[r] = "parked" /\ pc'[r] = "done" /\ answer[r] # "none" /\ UNCHANGED <<log, answer>>
    BY <1>1, <1>5 DEF Unpark, LifecycleInv, TypeInv, TypeOK
  <2>2. CallerOf(r) = "waiting" /\ CallerOf(r)' = "closed"
    BY <1>1, <2>1 DEF CallerOf
  <2>3. Lifecycle!Moves(r, "waiting", "closed")
    BY <1>1, <2>2, OnlyView, CallerMoves
  <2> QED
    BY <1>2, <2>1, <2>3, SameAttempts DEF Lifecycle!Hear
<1> QED
  BY <1>3, <1>4, <1>5
-----------------------------------------------------------------------------

\* What the run of p announces, its attempt in the lifecycle says.
LEMMA SaysLife ==
    ASSUME LifecycleInv, NEW p \in Procs, NEW e, NEW from, NEW to, Publish(p, e),
           pc[p] \in Running, pc'[p] \in Running, Only(p), UNCHANGED todo,
           ProgressOf(p) = from, ProgressOf(p)' = to
    PROVE  /\ Lifecycle!Says(p, from, e, to)
           /\ AttemptOf(p).on = Job(p)
<1>1. Job(p)' = Job(p) /\ Job(p) \in Requests
  BY RunJob DEF Job, LifecycleInv
<1>2. AttemptOf(p) = [on |-> Job(p), is |-> from] /\ AttemptOf(p)' = [on |-> Job(p), is |-> to]
  BY <1>1 DEF AttemptOf
<1>3. \A r \in Requests : CallerOf(r)' = CallerOf(r)
  BY OnlyView, KeepsCaller
<1>4. [q \in Procs |-> AttemptOf(q)]'
        = [[q \in Procs |-> AttemptOf(q)] EXCEPT ![p] = [on |-> AttemptOf(p).on, is |-> to]]
  BY <1>2, OnlyView, AttemptMoves
<1>5. log' = [log EXCEPT ![AttemptOf(p).on] = Append(@, e)]
  BY <1>2 DEF Publish
<1>6. [q \in Procs |-> AttemptOf(q)][p] = AttemptOf(p)
  OBVIOUS
<1>7. Lifecycle!Tells(AttemptOf(p).on, e)
  BY <1>5 DEF Lifecycle!Tells
<1>8. [r \in Requests |-> CallerOf(r)]' = [r \in Requests |-> CallerOf(r)]
  BY <1>3, SameCallers
<1>9. AttemptOf(p).is = from /\ AttemptOf(p).on = Job(p)
  BY <1>2
<1>10. [q \in Procs |-> AttemptOf(q)][p].is = from
  BY <1>6, <1>9
<1>11. [q \in Procs |-> AttemptOf(q)]'
         = [[q \in Procs |-> AttemptOf(q)]
               EXCEPT ![p] = [on |-> [q \in Procs |-> AttemptOf(q)][p].on, is |-> to]]
  BY <1>4, <1>6
<1>12. Lifecycle!Tells([q \in Procs |-> AttemptOf(q)][p].on, e)
  BY <1>6, <1>7
<1> QED
  BY <1>8, <1>9, <1>10, <1>11, <1>12 DEF Lifecycle!Says

LEMMA ResolvesLife ==
    ASSUME NEW p \in Procs, NEW v, ResolveQueued(p, v), AttemptOf(p).on = Job(p)
    PROVE  Lifecycle!Resolves(p, v)
BY DEF ResolveQueued, Lifecycle!Resolves

LEMMA PublishLife ==
    ASSUME LifecycleInv, NEW p \in Procs,
           PublishResolved(p) \/ PublishApproved(p) \/ PublishTimeout(p) \/ PublishFails(p)
    PROVE  \/ Lifecycle!Grant(p) \/ Lifecycle!Order(p) \/ Lifecycle!Reject(p)
           \/ Lifecycle!Expire(p) \/ Lifecycle!Break(p)
<1>0. TypeOK /\ OutcomeOf(p)
  BY DEF LifecycleInv, TypeInv
<1>1. pc[p] \in {"resolve", "approve", "expire"} /\ pc[p] \in Running /\ UNCHANGED todo
  BY RunningNames DEF PublishResolved, PublishApproved, PublishTimeout, PublishFails
<1>2. Only(p) /\ pc'[p] \in {"approve", "release"} /\ pc'[p] \in Running
  BY <1>0, RunningNames
     DEF PublishResolved, PublishApproved, PublishTimeout, PublishFails, TypeOK, Only
<1>3. CASE PublishResolved(p) /\ verdict[p] = "approved"
  <2>1. /\ Publish(p, "resolved_yes") /\ UNCHANGED answer
        /\ pc[p] = "resolve" /\ pc'[p] = "approve"
    BY <1>0, <1>3 DEF PublishResolved, TypeOK
  <2>2. ProgressOf(p) = "open" /\ ProgressOf(p)' = "granted"
    BY <2>1 DEF ProgressOf
  <2> QED
    BY <1>1, <1>2, <2>1, <2>2, SaysLife DEF Lifecycle!Grant
<1>4. CASE PublishResolved(p) /\ verdict[p] # "approved"
  <2>1. /\ Publish(p, "resolved_no") /\ ResolveQueued(p, "rejected")
        /\ pc[p] = "resolve" /\ pc'[p] = "release" /\ verdict'[p] = verdict[p]
    BY <1>0, <1>4 DEF PublishResolved, TypeOK
  <2>2. verdict'[p] = "rejected"
    BY <1>0, <1>4, <2>1 DEF OutcomeOf
  <2>3. ProgressOf(p) = "open" /\ ProgressOf(p)' = "rejected"
    BY <2>1, <2>2 DEF ProgressOf
  <2> QED
    BY <1>1, <1>2, <2>1, <2>3, SaysLife, ResolvesLife DEF Lifecycle!Reject
<1>5. CASE PublishApproved(p)
  <2>1. /\ Publish(p, "order") /\ ResolveQueued(p, "approved")
        /\ pc[p] = "approve" /\ pc'[p] = "release" /\ verdict'[p] = verdict[p]
    BY <1>0, <1>5 DEF PublishApproved, TypeOK
  <2>2. verdict'[p] = "approved"
    BY <1>0, <2>1 DEF OutcomeOf
  <2>3. ProgressOf(p) = "granted" /\ ProgressOf(p)' = "approved"
    BY <2>1, <2>2 DEF ProgressOf
  <2> QED
    BY <1>1, <1>2, <2>1, <2>3, SaysLife, ResolvesLife DEF Lifecycle!Order
<1>6. CASE PublishTimeout(p)
  <2>1. /\ Publish(p, "timeout") /\ ResolveQueued(p, "null")
        /\ pc[p] = "expire" /\ pc'[p] = "release" /\ verdict'[p] = "null"
    BY <1>0, <1>6 DEF PublishTimeout, TypeOK
  <2>2. ProgressOf(p) = "open" /\ ProgressOf(p)' = "null"
    BY <2>1 DEF ProgressOf
  <2> QED
    BY <1>1, <1>2, <2>1, <2>2, SaysLife, ResolvesLife DEF Lifecycle!Expire
<1>7. CASE PublishFails(p)
  <2>1. /\ Publish(p, EventAt(p)) /\ UNCHANGED answer
        /\ pc'[p] = "release" /\ verdict'[p] = "error"
    BY <1>0, <1>7 DEF PublishFails, TypeOK
  <2>2. ProgressOf(p)' = "error"
    BY <2>1 DEF ProgressOf
  <2>3. CASE pc[p] = "approve"
    <3>1. ProgressOf(p) = "granted" /\ EventAt(p) = "order"
      BY <2>3 DEF ProgressOf, EventAt
    <3> QED
      BY <1>1, <1>2, <2>1, <2>2, <3>1, SaysLife DEF Lifecycle!Break
  <2>4. CASE pc[p] # "approve"
    <3>1. ProgressOf(p) = "open"
      BY <1>1, <2>4 DEF ProgressOf
    <3>2. EventAt(p) \in {"resolved_yes", "resolved_no", "timeout"}
      BY <1>1, <2>4 DEF EventAt
    <3> QED
      BY <1>1, <1>2, <2>1, <2>2, <3>1, <3>2, SaysLife DEF Lifecycle!Break
  <2> QED
    BY <2>3, <2>4
<1> QED
  BY <1>3, <1>4, <1>5, <1>6, <1>7

\* dispose() answers whoever is in the queue.
LEMMA DisposeLife ==
    ASSUME LifecycleInv, Dispose
    PROVE  \E rs \in SUBSET Requests : Lifecycle!Dispose(rs)
<1> DEFINE rs == {r \in Requests : InQueue(r)}
<1>1. UNCHANGED <<pc, todo, verdict, log>>
  BY DEF Dispose
<1>2. /\ \A r \in Requests : CallerOf(r)' = CallerOf(r)
      /\ \A p \in Procs : AttemptOf(p)' = AttemptOf(p)
  BY <1>1, KeepsCaller, KeepsAttempt
<1>3. \A r \in rs : Occurs("queued", r)
  BY DEF LifecycleInv, QueuedFirst
<1>4. answer' = [r \in Requests |->
                    IF r \in rs /\ answer[r] = "none" THEN "null" ELSE answer[r]]
  BY DEF Dispose, InQueue
<1>5. Lifecycle!Dispose(rs)
  BY <1>1, <1>2, <1>3, <1>4, SameCallers, SameAttempts
     DEF Lifecycle!Dispose, Lifecycle!Queued, Occurs
<1> QED
  BY <1>5

\* The steps of a run up to its announcements, and the release of its approvers.
LEMMA RunQuiet ==
    ASSUME LifecycleInv, NEW p \in Procs,
           \/ Notified(p) \/ Rang(p) \/ RingFailed(p)
           \/ HandleParallel(p) \/ HandleSequential(p) \/ HandleQuorum(p) \/ Release(p)
    PROVE  UNCHANGED Lifecycle!vars
<1>0. TypeOK
  BY DEF LifecycleInv, TypeInv
<1>1. UNCHANGED <<todo, log, answer>>
  BY DEF Notified, Rang, RingFailed, HandleParallel, HandleSequential, HandleQuorum, Release
<1>2. \A q \in Procs \ {p} : pc'[q] = pc[q] /\ verdict'[q] = verdict[q]
  BY <1>0 DEF Notified, Rang, RingFailed, Escalate, HandleParallel, HandleSequential,
              HandleQuorum, Settle, Count, Release, TypeOK
<1>3. \/ pc[p] \in Opens /\ pc'[p] \in Opens
      \/ pc[p] \in Ends /\ pc'[p] \in Ends /\ verdict'[p] = verdict[p]
  BY <1>0 DEF Notified, Rang, RingFailed, Escalate, HandleParallel, HandleSequential,
              HandleQuorum, Settle, Count, Release, TypeOK, Opens, Ends
<1>4. \A q \in Procs : AttemptOf(q)' = AttemptOf(q)
  BY <1>1, <1>2, <1>3, KeepsAttempt
<1>5. \A r \in Requests : CallerOf(r)' = CallerOf(r)
  BY <1>2, <1>3, KeepsCaller, RunPlaces DEF Procs
<1> QED
  BY <1>1, <1>4, <1>5, SameView

\* Only an idle drain is started.
LEMMA DrainStarts ==
    ASSUME TypeOK, NEW queue, NEW pc0 \in [Procs -> PCs], StartDrain(queue, pc0), NEW q \in Procs
    PROVE  \/ pc'[q] = pc0[q] /\ todo'[q] = todo[q]
           \/ q \in Drains /\ pc[q] = "idle" /\ pc'[q] = "probe"
<1>1. CASE pc' = pc0 /\ UNCHANGED todo
  BY <1>1
<1>2. ASSUME NEW d \in Drains, pc[d] = "idle", pc' = [pc0 EXCEPT ![d] = "probe"],
             todo' = [todo EXCEPT ![d] = queue]
      PROVE  \/ pc'[q] = pc0[q] /\ todo'[q] = todo[q]
             \/ q \in Drains /\ pc[q] = "idle" /\ pc'[q] = "probe"
  BY <1>2 DEF TypeOK
<1> QED
  BY <1>1, <1>2 DEF StartDrain

\* The steps around the queue, of the channels and of presence.
LEMMA RestQuiet ==
    ASSUME LifecycleInv,
           \/ \E r \in Requests : Announced(r)
           \/ \E d \in Drains : DrainSkip(d) \/ DrainTake(d) \/ DrainEnd(d)
           \/ \E p \in Procs, k \in Keys : TimerFires(p, k)
           \/ \E ks, h, v : Deliver(ks, h, v)
           \/ \E h \in Humans, s \in EnvStatuses : PresenceChanged(h, s)
           \/ UNCHANGED vars
    PROVE  UNCHANGED Lifecycle!vars
<1>0. TypeOK
  BY DEF LifecycleInv, TypeInv
<1>1. UNCHANGED <<verdict, log, answer>>
  BY DEF Announced, DrainSkip, DrainTake, DrainEnd, TimerFires, Deliver, PresenceChanged, vars
<1>3. \A q \in Procs :
          \/ pc'[q] = pc[q] /\ todo'[q] = todo[q]
          \/ q \in Requests /\ pc[q] = "announce" /\ pc'[q] = "parked"
          \/ q \in Drains /\ pc[q] \notin Running /\ pc'[q] \notin Running
  <2> SUFFICES ASSUME NEW q \in Procs
               PROVE  \/ pc'[q] = pc[q] /\ todo'[q] = todo[q]
                      \/ q \in Requests /\ pc[q] = "announce" /\ pc'[q] = "parked"
                      \/ q \in Drains /\ pc[q] \notin Running /\ pc'[q] \notin Running
    OBVIOUS
  <2>1. ASSUME NEW r \in Requests, Announced(r)
        PROVE  \/ pc'[q] = pc[q] /\ todo'[q] = todo[q]
               \/ q \in Requests /\ pc[q] = "announce" /\ pc'[q] = "parked"
               \/ q \in Drains /\ pc[q] \notin Running /\ pc'[q] \notin Running
    <3>1. pc[r] = "announce" /\ StartDrain(pending, [pc EXCEPT ![r] = "parked"])
      BY <2>1 DEF Announced
    <3>2. /\ [pc EXCEPT ![r] = "parked"] \in [Procs -> PCs]
          /\ \A s \in Procs : [pc EXCEPT ![r] = "parked"][s] = IF s = r THEN "parked" ELSE pc[s]
      BY <1>0, Names DEF TypeOK
    <3>3. \/ pc'[q] = [pc EXCEPT ![r] = "parked"][q] /\ todo'[q] = todo[q]
          \/ q \in Drains /\ pc[q] = "idle" /\ pc'[q] = "probe"
      BY <1>0, <3>1, <3>2, DrainStarts
    <3> QED
      BY <3>1, <3>2, <3>3, RunningNames
  <2>2. ASSUME NEW d \in Drains, DrainSkip(d) \/ DrainTake(d) \/ DrainEnd(d)
        PROVE  \/ pc'[q] = pc[q] /\ todo'[q] = todo[q]
               \/ q \in Drains /\ pc[q] \notin Running /\ pc'[q] \notin Running
    BY <1>0, <2>2, RunningNames DEF DrainSkip, DrainTake, DrainEnd, TypeOK
  <2>3. ASSUME NEW h \in Humans, NEW s \in EnvStatuses, PresenceChanged(h, s)
        PROVE  \/ pc'[q] = pc[q] /\ todo'[q] = todo[q]
               \/ q \in Drains /\ pc[q] \notin Running /\ pc'[q] \notin Running
    <3>1. StartDrain(IF disposed THEN <<>> ELSE pending, pc) /\ pc \in [Procs -> PCs]
      BY <1>0, <2>3 DEF PresenceChanged, TypeOK
    <3>2. \/ pc'[q] = pc[q] /\ todo'[q] = todo[q]
          \/ q \in Drains /\ pc[q] = "idle" /\ pc'[q] = "probe"
      BY <1>0, <3>1, DrainStarts
    <3> QED
      BY <3>2, RunningNames
  <2> QED
    BY <2>1, <2>2, <2>3 DEF TimerFires, Deliver, vars
<1>4. \A q \in Procs : AttemptOf(q)' = AttemptOf(q)
  BY <1>1, <1>3, KeepsAttempt, RunningNames
<1>5. \A r \in Requests : CallerOf(r)' = CallerOf(r)
  <2>1. \A r \in Requests : r \in Procs /\ r \notin Drains
    BY ConstantsAssumption DEF Procs
  <2> QED
    BY <1>3, <2>1, KeepsCaller
<1> QED
  BY <1>1, <1>4, <1>5, SameView

LEMMA LifecycleStep == LifecycleInv /\ [Next]_vars => [Lifecycle!Next]_(Lifecycle!vars)
<1> SUFFICES ASSUME LifecycleInv, [Next]_vars
             PROVE  Lifecycle!Next \/ UNCHANGED Lifecycle!vars
  OBVIOUS
<1>0. Lifecycle!Procs = Procs
  BY DEF Lifecycle!Procs, Procs
<1>1. ASSUME NEW r \in Requests, Arrive(r) \/ CallStep(r) \/ AnnounceFails(r)
      PROVE  Lifecycle!Next \/ UNCHANGED Lifecycle!vars
  <2>1. \/ Lifecycle!Call(r) \/ Lifecycle!Queue(r) \/ Lifecycle!Return(r)
        \/ Lifecycle!Throw(r) \/ Lifecycle!Fail(r) \/ Lifecycle!Hear(r)
        \/ UNCHANGED Lifecycle!vars
    BY <1>1, CallLife, QueueLife, ReturnLife, CallerLife, RestQuiet DEF Arrive, CallStep
  <2> QED
    BY <2>1 DEF Lifecycle!Next
<1>2. ASSUME NEW d \in Drains, DrainStep(d)
      PROVE  Lifecycle!Next \/ UNCHANGED Lifecycle!vars
  <2>1. \/ Lifecycle!Leave(d) \/ \E r \in Requests : Lifecycle!Serve(d, r)
        \/ UNCHANGED Lifecycle!vars
    BY <1>2, ServeLife, LeaveLife, RestQuiet DEF DrainStep
  <2> QED
    BY <2>1 DEF Lifecycle!Next
<1>3. ASSUME NEW p \in Procs, RunStep(p) \/ PublishFails(p)
      PROVE  Lifecycle!Next \/ UNCHANGED Lifecycle!vars
  <2>1. \/ Lifecycle!Grant(p) \/ Lifecycle!Order(p) \/ Lifecycle!Reject(p)
        \/ Lifecycle!Expire(p) \/ Lifecycle!Break(p)
        \/ UNCHANGED Lifecycle!vars
    BY <1>3, PublishLife, RunQuiet DEF RunStep
  <2> QED
    BY <1>0, <2>1 DEF Lifecycle!Next
<1>4. CASE Dispose
  BY <1>4, DisposeLife DEF Lifecycle!Next
<1> QED
  BY <1>1, <1>2, <1>3, <1>4, RestQuiet DEF Next, Respond, Speak

\* The orchestrator, with all its routing, queue, channels, quorums and failures,
\* implements ApprovalLifecycle: each run announces one outcome, in order, and a
\* caller hears only what a run for its own request has announced in full.
THEOREM ApprovalImplementsLifecycle == Spec => ImplementsApproval
<1>1. TypeInv /\ OutcomeInv /\ ServedInv /\ DirectInv => LifecycleInv
  BY DEF LifecycleInv, OutcomeInv, ServedInv, DirectInv
<1>2. Spec => Lifecycle!Init /\ [][Lifecycle!Next]_(Lifecycle!vars)
  BY <1>1, LifecycleInit, LifecycleStep, TypeInvariant, OutcomesHold, ServedHolds, DirectHolds,
     PTL DEF Spec
<1> QED
  BY <1>2 DEF ImplementsApproval, Lifecycle!Spec
=============================================================================
