------------------------- MODULE ApprovalOrchestrator -------------------------
(***************************************************************************)
(* The approval orchestrator of packages/core: it routes a restricted      *)
(* action to the humans who may approve it, over one or more channels,     *)
(* and publishes the outcome.  Composed with it here, because their state  *)
(* is interleaved with its own at every await:                             *)
(*   - InMemoryPresenceManager, who is available, busy, away;              *)
(*   - the approval channels' table of active waits (timer, subscription). *)
(*                                                                         *)
(* A process is one asynchronous activation: the call orchestrate(r), named*)
(* by its request r, or one activation of drainPendingApprovals, named by  *)
(* a member of Drains.  An action is the code between two awaits.          *)
(***************************************************************************)
EXTENDS Naturals, Sequences, FiniteSets

CONSTANTS
    Requests,         \* approval requests, each with its own request id
    Drains,           \* names for concurrent activations of the drain loop
    Humans,           \* the humans presence may know about
    Channels,         \* the channel types
    Voice,            \* the channel types that listen to speech
    Chain,            \* [Requests -> Seq(Channels)]: configured and registered
    Strategy,         \* [Requests -> {"parallel", "sequential", "quorum"}]
    Eligible,         \* [Requests -> SUBSET Humans]: role and store satisfied
    Required,         \* [Requests -> Nat]: quorum size, 0 = invalid quorum
    RejectOnNo,       \* [Requests -> BOOLEAN]: quorum.reject_on_any_no
    Fallback,         \* [Requests -> Humans]: the approver of the call
    PresenceRouting,  \* whether a presence manager is configured
    EnvStatuses,      \* statuses a HUMAN_PRESENCE_CHANGED event may carry
    Interrupting,     \* whether such an event may name a busy human
    MaxPresence,      \* bound on the number of presence events
    MaxFaults,        \* bound on the publications a subscriber makes fail
    MayDispose,       \* whether dispose() may be called
    None

Procs == Requests \cup Drains
Strategies == {"parallel", "sequential", "quorum"}
Statuses == {"unknown", "available", "busy", "offline", "on_break"}

ASSUME ConstantsAssumption ==
    /\ Requests \cap Drains = {}
    /\ None \notin Procs \cup Humans
    /\ IsFiniteSet(Humans)
    /\ Voice \subseteq Channels
    /\ Chain \in [Requests -> Seq(Channels)]
    /\ Strategy \in [Requests -> Strategies]
    /\ Eligible \in [Requests -> SUBSET Humans]
    /\ Required \in [Requests -> Nat]
    /\ RejectOnNo \in [Requests -> BOOLEAN]
    /\ Fallback \in [Requests -> Humans]
    /\ PresenceRouting \in BOOLEAN
    /\ EnvStatuses \subseteq Statuses \ {"unknown"}
    /\ Interrupting \in BOOLEAN
    /\ MaxPresence \in Nat
    /\ MaxFaults \in Nat
    /\ MayDispose \in BOOLEAN

VARIABLES
    presence,   \* [Humans -> Statuses]: the presence manager's entries
    pending,    \* Seq(Requests): pendingNoApprover in insertion order
    pc,         \* [Procs -> ...]: where each activation awaits
    todo,       \* [Procs -> Seq(Requests)]: rest of a drain's snapshot
    team,       \* [Procs -> SUBSET Humans]: the approvers of its run
    rung,       \* [Procs -> Nat]: position in the chain (sequential)
    asked,      \* [Procs -> SUBSET Keys]: keys notified and then awaited
    open,       \* [Procs -> SUBSET Keys]: awaited promises still unresolved
    inbox,      \* [Procs -> SUBSET Messages]: resolved, .then not yet run
    ayes,       \* [Procs -> SUBSET Humans]: approvedBy of a quorum
    verdict,    \* [Procs -> Verdicts]: what the run settled on
    waits,      \* [Keys -> Procs \cup {None}]: the channels' activeWaits
    armed,      \* SUBSET (Procs \X Keys): timers that have not fired
    log,        \* [Requests -> Seq(Events)]: what was published, in order
    answer,     \* [Requests -> Verdicts]: what orchestrate(r) returned
    disposed,   \* dispose() has run
    events,     \* presence events so far
    faults      \* failed publications so far

book  == <<presence, pending>>
run   == <<team, rung, asked, open, inbox, ayes, verdict>>
chans == <<waits, armed>>
outs  == <<log, answer>>
env   == <<disposed, events, faults>>
vars  == <<presence, pending, pc, todo, team, rung, asked, open, inbox, ayes,
           verdict, waits, armed, log, answer, disposed, events, faults>>

\* A wait is keyed by the request, the approver it targets (a quorum's
\* ":quorum:<approver>" suffix; None otherwise) and the channel.
Keys == [req : Requests, to : Humans \cup {None}, ch : Channels]
Messages == [key : Keys, who : Humans \cup {None}, vote : {"yes", "no", "none"}]
Verdicts == {"none", "approved", "rejected", "null", "error"}
Events == {"queued", "resolved_yes", "resolved_no", "order", "timeout"}
Running == {"notify", "ring", "wait", "resolve", "approve", "expire", "release", "free"}
PCs == Running \cup {"new", "announce", "parked", "failed", "done",
                     "idle", "probe", "taken"}

\* The request an activation works on: a drain works on the head of its rest.
Job(p) == IF p \in Requests THEN p ELSE Head(todo[p])

\* No activation has a microtask ready.  The event loop runs microtasks before the
\* next task, so a timer, a message, a call from outside or the end of an I/O
\* only comes when this holds.
Settled == \A p \in Procs :
    inbox[p] = {} /\ pc[p] \notin {"probe", "taken", "resolve", "expire", "free", "failed"}

Key(r, h, c) == [req |-> r, to |-> h, ch |-> c]
Links(r) == {Chain[r][i] : i \in DOMAIN Chain[r]}

\* One wait per channel, or per channel and approver of a quorum.
Assignments(r, hs) ==
    IF Strategy[r] = "quorum"
    THEN {Key(r, h, c) : h \in hs, c \in Links(r)}
    ELSE {Key(r, None, c) : c \in Links(r)}

Init ==
    /\ presence = [h \in Humans |-> "unknown"]
    /\ pending = <<>>
    /\ pc = [p \in Procs |-> IF p \in Requests THEN "new" ELSE "idle"]
    /\ todo = [p \in Procs |-> <<>>]
    /\ team = [p \in Procs |-> {}]
    /\ rung = [p \in Procs |-> 0]
    /\ asked = [p \in Procs |-> {}]
    /\ open = [p \in Procs |-> {}]
    /\ inbox = [p \in Procs |-> {}]
    /\ ayes = [p \in Procs |-> {}]
    /\ verdict = [p \in Procs |-> "none"]
    /\ waits = [k \in Keys |-> None]
    /\ armed = {}
    /\ log = [r \in Requests |-> <<>>]
    /\ answer = [r \in Requests |-> "none"]
    /\ disposed = FALSE
    /\ events = 0
    /\ faults = 0

-----------------------------------------------------------------------------
(* Routing: who is asked *)

\* getAvailable, for the role and the store of the request.
Available(r) == {h \in Eligible[r] : presence[h] = "available"}

SetStatus(hs, s) == presence' = [h \in Humans |-> IF h \in hs THEN s ELSE presence[h]]

\* Mutant: the approver is chosen but not marked.
MarkNobody(hs) == UNCHANGED presence

MarkBusy(hs) ==
    IF PresenceRouting THEN SetStatus(hs, "busy") ELSE UNCHANGED presence

\* Enter runOrchestration: the first await is the notification of all channels
\* at once, or of the chain's first channel.
FirstStop(r) ==
    IF Chain[r] = <<>> THEN "expire"
    ELSE IF Strategy[r] = "sequential" THEN "ring" ELSE "notify"

StartRun(p, r, hs) ==
    /\ team' = [team EXCEPT ![p] = hs]
    /\ rung' = [rung EXCEPT ![p] = 1]
    /\ pc' = [pc EXCEPT ![p] = FirstStop(r)]

\* No channel configured, or a quorum that normalizeQuorumConfig rejects, or a
\* quorum without presence that one fallback approver cannot reach.
Unroutable(r) ==
    \/ Chain[r] = <<>>
    \/ /\ Strategy[r] = "quorum"
       /\ \/ Required[r] = 0
          \/ ~PresenceRouting /\ (Required[r] > 1 \/ Fallback[r] \notin Eligible[r])

\* The teams a request can be given now: one available human, or every
\* available eligible human when they reach the quorum.
Teams(r) ==
    IF ~PresenceRouting THEN {{Fallback[r]}}
    ELSE IF Strategy[r] = "quorum"
         THEN {hs \in {Available(r)} : Cardinality(hs) >= Required[r]}
         ELSE {{h} : h \in Available(r)}

Refuse(r) ==
    /\ pc[r] = "new" /\ Settled
    /\ Unroutable(r)
    /\ pc' = [pc EXCEPT ![r] = "expire"]
    /\ UNCHANGED <<book, todo, run, chans, outs, env>>

Dispatch(r) ==
    /\ pc[r] = "new" /\ Settled
    /\ ~Unroutable(r)
    /\ \E hs \in Teams(r) : MarkBusy(hs) /\ StartRun(r, r, hs)
    /\ UNCHANGED <<pending, todo, asked, open, inbox, ayes, verdict, chans, outs, env>>

\* queueNoApprover up to its publication of ORDER_QUEUED_NO_APPROVER.
Enqueue(r) ==
    /\ pc[r] = "new" /\ Settled
    /\ ~Unroutable(r)
    /\ Teams(r) = {}
    /\ pending' = Append(pending, r)
    /\ pc' = [pc EXCEPT ![r] = "announce"]
    /\ log' = [log EXCEPT ![r] = Append(log[r], "queued")]
    /\ UNCHANGED <<presence, todo, run, chans, answer, env>>

-----------------------------------------------------------------------------
(* The queue of requests without an approver, and the loop that drains it *)

\* void drainPendingApprovals(): the loop walks a copy of the queue.
StartDrain(queue, pc0) ==
    \/ /\ queue = <<>> \/ ~PresenceRouting
       /\ pc' = pc0
       /\ UNCHANGED todo
    \/ /\ queue # <<>> /\ PresenceRouting
       /\ \E d \in Drains :
            /\ pc[d] = "idle"
            /\ pc' = [pc0 EXCEPT ![d] = "probe"]
            /\ todo' = [todo EXCEPT ![d] = queue]

\* ORDER_QUEUED_NO_APPROVER has been delivered; the caller awaits its promise.
Announced(r) ==
    /\ pc[r] = "announce" /\ Settled
    /\ StartDrain(pending, [pc EXCEPT ![r] = "parked"])
    /\ UNCHANGED <<book, run, chans, outs, env>>

\* A HUMAN_PRESENCE_CHANGED event: the presence manager, which subscribed
\* first, records the status; the orchestrator then starts a drain.
PresenceChanged(h, s) ==
    /\ Settled
    /\ events < MaxPresence
    /\ presence[h] = "busy" => Interrupting
    /\ events' = events + 1
    /\ SetStatus({h}, s)
    /\ StartDrain(IF disposed THEN <<>> ELSE pending, pc)
    /\ UNCHANGED <<pending, run, chans, outs, disposed, faults>>

\* pendingNoApprover.delete(r): a Map holds a key once.
Places(queue, r) == {i \in DOMAIN queue : queue[i] = r}
Without(queue, r) ==
    IF Places(queue, r) = {} THEN queue
    ELSE LET i == CHOOSE j \in Places(queue, r) : TRUE
         IN  SubSeq(queue, 1, i - 1) \o SubSeq(queue, i + 1, Len(queue))

\* Mutant: the entry is taken off the queue before anyone is found for it.
DrainSkipDropping(d) ==
    /\ pc[d] = "probe"
    /\ todo[d] # <<>>
    /\ Teams(Job(d)) = {}
    /\ todo' = [todo EXCEPT ![d] = Tail(todo[d])]
    /\ pending' = Without(pending, Job(d))
    /\ UNCHANGED <<presence, pc, run, chans, outs, env>>

\* The loop's next entry: nobody can take it, so it stays queued.
DrainSkip(d) ==
    /\ pc[d] = "probe"
    /\ todo[d] # <<>>
    /\ Teams(Job(d)) = {}
    /\ todo' = [todo EXCEPT ![d] = Tail(todo[d])]
    /\ UNCHANGED <<book, pc, run, chans, outs, env>>

\* resolveAvailableApprover has marked its approver busy; the queue still holds
\* the entry until the await of it returns.
DrainTake(d) ==
    /\ pc[d] = "probe"
    /\ todo[d] # <<>>
    /\ Strategy[Job(d)] # "quorum"
    /\ \E hs \in Teams(Job(d)) :
         /\ MarkBusy(hs)
         /\ team' = [team EXCEPT ![d] = hs]
    /\ pc' = [pc EXCEPT ![d] = "taken"]
    /\ UNCHANGED <<pending, todo, rung, asked, open, inbox, ayes, verdict, chans, outs, env>>

DrainStart(d) ==
    /\ pc[d] = "taken"
    /\ pending' = Without(pending, Job(d))
    /\ StartRun(d, Job(d), team[d])
    /\ UNCHANGED <<presence, todo, asked, open, inbox, ayes, verdict, chans, outs, env>>

\* A quorum is resolved, removed from the queue and started without an await.
DrainQuorum(d) ==
    /\ pc[d] = "probe"
    /\ todo[d] # <<>>
    /\ Strategy[Job(d)] = "quorum"
    /\ \E hs \in Teams(Job(d)) : MarkBusy(hs) /\ StartRun(d, Job(d), hs)
    /\ pending' = Without(pending, Job(d))
    /\ UNCHANGED <<todo, asked, open, inbox, ayes, verdict, chans, outs, env>>

DrainEnd(d) ==
    /\ pc[d] = "probe"
    /\ todo[d] = <<>>
    /\ pc' = [pc EXCEPT ![d] = "idle"]
    /\ UNCHANGED <<book, todo, run, chans, outs, env>>

-----------------------------------------------------------------------------
(* The channels' waits *)

\* Who answered matters to a quorum only.
Note(k, h, v) == [key |-> k, who |-> IF k.to = None THEN None ELSE h, vote |-> v]

\* The wait registered under each key of ks, if any, loses its subscription,
\* its timer and its entry.
Cleanup(ks) ==
    /\ waits' = [k \in Keys |-> IF k \in ks THEN None ELSE waits[k]]
    /\ armed' = armed \ {<<waits[k], k>> : k \in ks}

\* channel.cancel of every key of ks: whoever registered it is told "no answer".
Cancelled(q, ks) == {k \in ks : waits[k] = q}
NoAnswers(ks) == {Note(k, None, "none") : k \in ks}

\* The notifications have returned: keys not in ok failed and are cancelled,
\* the others are awaited, each with its timer, overwriting an older wait.
AwaitOnly(p, ok, failed) ==
    /\ waits' = [k \in Keys |-> IF k \in ok THEN p ELSE
                                IF k \in failed THEN None ELSE waits[k]]
    /\ armed' = (armed \ {<<waits[k], k>> : k \in failed}) \cup {<<p, k>> : k \in ok}
    /\ asked' = [asked EXCEPT ![p] = ok]
    /\ open' = [q \in Procs |-> IF q = p THEN ok
                                ELSE open[q] \ Cancelled(q, failed)]
    /\ inbox' = [q \in Procs |-> IF q = p THEN {}
                                 ELSE inbox[q] \cup NoAnswers(Cancelled(q, failed))]

\* Promise.all over the notifications of a parallel run or of a quorum.
Notified(p) ==
    /\ pc[p] = "notify" /\ Settled
    /\ \E ok \in SUBSET Assignments(Job(p), team[p]) :
         /\ AwaitOnly(p, ok, Assignments(Job(p), team[p]) \ ok)
         /\ pc' = [pc EXCEPT ![p] = IF ok = {} THEN "expire" ELSE "wait"]
    /\ UNCHANGED <<book, todo, team, rung, ayes, verdict, outs, env>>

\* The next channel of a sequential chain, or the end of it.
Escalate(p) ==
    IF rung[p] < Len(Chain[Job(p)])
    THEN /\ rung' = [rung EXCEPT ![p] = rung[p] + 1]
         /\ pc' = [pc EXCEPT ![p] = "ring"]
    ELSE /\ pc' = [pc EXCEPT ![p] = "expire"]
         /\ UNCHANGED rung

RungKey(p) == Key(Job(p), None, Chain[Job(p)][rung[p]])

Rang(p) ==
    /\ pc[p] = "ring" /\ Settled
    /\ AwaitOnly(p, {RungKey(p)}, {})
    /\ pc' = [pc EXCEPT ![p] = "wait"]
    /\ UNCHANGED <<book, todo, team, rung, ayes, verdict, outs, env>>

RingFailed(p) ==
    /\ pc[p] = "ring" /\ Settled
    /\ AwaitOnly(p, {}, {RungKey(p)})
    /\ Escalate(p)
    /\ UNCHANGED <<book, todo, team, ayes, verdict, outs, env>>

\* An answer on the keys ks: every wait that still listens gets it, and the
\* registered one is cleaned up.
Heard(p, ks) == {k \in open[p] \cap ks : <<p, k>> \in armed}

Deliver(ks, h, v) ==
    /\ Settled
    /\ \E p \in Procs : Heard(p, ks) # {}
    /\ Cleanup(ks)
    /\ open' = [p \in Procs |-> open[p] \ Heard(p, ks)]
    /\ inbox' = [p \in Procs |-> inbox[p] \cup {Note(k, h, v) : k \in Heard(p, ks)}]
    /\ UNCHANGED <<book, pc, todo, team, rung, asked, ayes, verdict, outs, env>>

\* A webhook or external response names one request id, and any approver id.
Respond(k, h, v) == k.ch \notin Voice /\ Deliver({k}, h, v)

\* A yes or a no that is spoken reaches every voice wait, except those that
\* expect another approver.
VoiceKeys(h) == {k \in Keys : k.ch \in Voice /\ k.to \in {h, None}}
Speak(h, v) == Deliver(VoiceKeys(h), h, v)

\* A wait's timer: it cleans up whatever is registered under the key, then
\* resolves its own promise.
TimerFires(p, k) ==
    /\ Settled
    /\ <<p, k>> \in armed
    /\ waits' = [waits EXCEPT ![k] = None]
    /\ armed' = armed \ {<<p, k>>, <<waits[k], k>>}
    /\ open' = [open EXCEPT ![p] = open[p] \ {k}]
    /\ inbox' = [inbox EXCEPT ![p] = IF k \in open[p]
                                     THEN inbox[p] \cup NoAnswers({k})
                                     ELSE inbox[p]]
    /\ UNCHANGED <<book, pc, todo, team, rung, asked, ayes, verdict, outs, env>>

-----------------------------------------------------------------------------
(* What a run does with the answers *)

VerdictOf(vote) == IF vote = "yes" THEN "approved" ELSE "rejected"

\* Mutant: settling does not cancel the other channels.
SettleWithoutCancel(p, v) ==
    /\ verdict' = [verdict EXCEPT ![p] = v]
    /\ pc' = [pc EXCEPT ![p] = IF v = "null" THEN "expire" ELSE "resolve"]
    /\ open' = [open EXCEPT ![p] = {}]
    /\ inbox' = [inbox EXCEPT ![p] = {}]
    /\ asked' = [asked EXCEPT ![p] = {}]
    /\ UNCHANGED chans

\* settle(): every channel of the run is cancelled; what is still in flight
\* finds the run settled and is dropped.
Settle(p, v) ==
    /\ verdict' = [verdict EXCEPT ![p] = v]
    /\ pc' = [pc EXCEPT ![p] = IF v = "null" THEN "expire" ELSE "resolve"]
    /\ Cleanup(asked[p])
    /\ open' = [q \in Procs |-> IF q = p THEN {}
                                ELSE open[q] \ Cancelled(q, asked[p])]
    /\ inbox' = [q \in Procs |-> IF q = p THEN {}
                                 ELSE inbox[q] \cup NoAnswers(Cancelled(q, asked[p]))]
    /\ asked' = [asked EXCEPT ![p] = {}]

\* Mutant: the count is compared before it is decremented.
IsAfterLast(p, m) == open[p] = {} /\ inbox[p] = {}

\* pendingCount reaches zero with m.
IsLast(p, m) == open[p] = {} /\ inbox[p] = {m}

\* pendingCount is decremented and the run waits on.
Count(p, m) ==
    /\ inbox' = [inbox EXCEPT ![p] = inbox[p] \ {m}]
    /\ UNCHANGED <<pc, asked, open, verdict, chans>>

HandleParallel(p) ==
    /\ pc[p] = "wait"
    /\ Strategy[Job(p)] = "parallel"
    /\ \E m \in inbox[p] :
         \/ m.vote # "none" /\ Settle(p, VerdictOf(m.vote))
         \/ m.vote = "none" /\ IsLast(p, m) /\ Settle(p, "null")
         \/ m.vote = "none" /\ ~IsLast(p, m) /\ Count(p, m)
    /\ UNCHANGED <<book, todo, team, rung, ayes, outs, env>>

HandleSequential(p) ==
    /\ pc[p] = "wait"
    /\ Strategy[Job(p)] = "sequential"
    /\ \E m \in inbox[p] :
         \/ /\ m.vote # "none"
            /\ verdict' = [verdict EXCEPT ![p] = VerdictOf(m.vote)]
            /\ pc' = [pc EXCEPT ![p] = "resolve"]
            /\ UNCHANGED rung
         \/ /\ m.vote = "none"
            /\ Escalate(p)
            /\ UNCHANGED verdict
    /\ inbox' = [inbox EXCEPT ![p] = {}]
    /\ asked' = [asked EXCEPT ![p] = {}]
    /\ UNCHANGED <<book, todo, team, open, ayes, chans, outs, env>>

\* Mutant: the answer's approver is not compared with the one asked.
CountsAny(m) == m.vote # "none"

\* Only the approver a quorum's wait targets can vote on it.
Counts(m) == m.vote # "none" /\ m.who = m.key.to
AyesWith(p, m) == IF Counts(m) /\ m.vote = "yes" THEN ayes[p] \cup {m.who} ELSE ayes[p]
Vetoes(p, m) == Counts(m) /\ m.vote = "no" /\ RejectOnNo[Job(p)]

HandleQuorum(p) ==
    /\ pc[p] = "wait"
    /\ Strategy[Job(p)] = "quorum"
    /\ \E m \in inbox[p] :
         LET reached == Cardinality(AyesWith(p, m)) >= Required[Job(p)]
         IN  \/ /\ Vetoes(p, m)
                /\ Settle(p, "rejected")
                /\ UNCHANGED ayes
             \/ /\ ~Vetoes(p, m)
                /\ ayes' = [ayes EXCEPT ![p] = AyesWith(p, m)]
                /\ \/ reached /\ Settle(p, "approved")
                   \/ ~reached /\ IsLast(p, m) /\ Settle(p, "null")
                   \/ ~reached /\ ~IsLast(p, m) /\ Count(p, m)
    /\ UNCHANGED <<book, todo, team, rung, outs, env>>

-----------------------------------------------------------------------------
(* Publishing the outcome, releasing the approvers, returning *)

Publish(p, e) == log' = [log EXCEPT ![Job(p)] = Append(log[Job(p)], e)]

\* A drain resolves the queued promise; a promise resolves only once.
ResolveQueued(p, v) ==
    answer' = [r \in Requests |->
                  IF p \in Drains /\ r = Job(p) /\ answer[r] = "none" THEN v ELSE answer[r]]

\* Mutant: the promise is resolved as soon as the decision is published.
PublishResolvedOnly(p) ==
    /\ pc[p] = "resolve"
    /\ Publish(p, IF verdict[p] = "approved" THEN "resolved_yes" ELSE "resolved_no")
    /\ pc' = [pc EXCEPT ![p] = IF verdict[p] = "approved" THEN "approve" ELSE "release"]
    /\ ResolveQueued(p, verdict[p])
    /\ UNCHANGED <<book, todo, run, chans, env>>

PublishResolved(p) ==
    /\ pc[p] = "resolve"
    /\ IF verdict[p] = "approved"
       THEN /\ Publish(p, "resolved_yes")
            /\ pc' = [pc EXCEPT ![p] = "approve"]
            /\ UNCHANGED answer
       ELSE /\ Publish(p, "resolved_no")
            /\ pc' = [pc EXCEPT ![p] = "release"]
            /\ ResolveQueued(p, "rejected")
    /\ UNCHANGED <<book, todo, run, chans, env>>

\* Mutant: an approved run falls through to the timeout.
PublishApprovedThenTimeout(p) ==
    /\ pc[p] = "approve"
    /\ Publish(p, "order")
    /\ pc' = [pc EXCEPT ![p] = "expire"]
    /\ UNCHANGED <<book, todo, run, chans, answer, env>>

PublishApproved(p) ==
    /\ pc[p] = "approve"
    /\ Publish(p, "order")
    /\ pc' = [pc EXCEPT ![p] = "release"]
    /\ ResolveQueued(p, "approved")
    /\ UNCHANGED <<book, todo, run, chans, env>>

PublishTimeout(p) ==
    /\ pc[p] = "expire"
    /\ Publish(p, "timeout")
    /\ verdict' = [verdict EXCEPT ![p] = "null"]
    /\ pc' = [pc EXCEPT ![p] = "release"]
    /\ ResolveQueued(p, "null")
    /\ UNCHANGED <<book, todo, team, rung, asked, open, inbox, ayes, chans, env>>

\* A subscriber of the event throws, so publish rejects after delivering it,
\* and the exception leaves runOrchestration.
EventAt(p) ==
    CASE pc[p] = "resolve" -> IF verdict[p] = "approved" THEN "resolved_yes" ELSE "resolved_no"
      [] pc[p] = "approve" -> "order"
      [] OTHER -> "timeout"

PublishFails(p) ==
    /\ pc[p] \in {"resolve", "approve", "expire"}
    /\ faults < MaxFaults
    /\ faults' = faults + 1
    /\ Publish(p, EventAt(p))
    /\ verdict' = [verdict EXCEPT ![p] = "error"]
    /\ pc' = [pc EXCEPT ![p] = "release"]
    /\ UNCHANGED <<book, todo, team, rung, asked, open, inbox, ayes, chans, answer,
                   disposed, events>>

AnnounceFails(r) ==
    /\ pc[r] = "announce" /\ Settled
    /\ faults < MaxFaults
    /\ faults' = faults + 1
    /\ pc' = [pc EXCEPT ![r] = "failed"]
    /\ UNCHANGED <<book, todo, run, chans, outs, disposed, events>>

\* Mutant: the approvers are freed after a run, but not when it throws.
ReleaseUnlessError(p) ==
    /\ pc[p] \in {"release", "free"}
    /\ pc' = [pc EXCEPT ![p] = "free"]
    /\ \E h \in team[p] :
         /\ IF PresenceRouting /\ verdict[p] # "error"
            THEN SetStatus({h}, "available") ELSE UNCHANGED presence
         /\ team' = [team EXCEPT ![p] = team[p] \ {h}]
    /\ UNCHANGED <<pending, todo, rung, asked, open, inbox, ayes, verdict,
                   chans, outs, env>>

\* finally: the approvers are marked free, one await after the other.
Release(p) ==
    /\ pc[p] \in {"release", "free"}
    /\ pc' = [pc EXCEPT ![p] = "free"]
    /\ \E h \in team[p] :
         /\ IF PresenceRouting THEN SetStatus({h}, "available") ELSE UNCHANGED presence
         /\ team' = [team EXCEPT ![p] = team[p] \ {h}]
    /\ UNCHANGED <<pending, todo, rung, asked, open, inbox, ayes, verdict,
                   chans, outs, env>>

\* The run's local variables go out of scope.
Forget(p) ==
    /\ rung' = [rung EXCEPT ![p] = 0]
    /\ ayes' = [ayes EXCEPT ![p] = {}]
    /\ verdict' = [verdict EXCEPT ![p] = "none"]

\* Mutant: the exception of the run is answered like a timeout.
ReturnSwallowing(r) ==
    /\ pc[r] \in {"release", "free"}
    /\ team[r] = {}
    /\ pc' = [pc EXCEPT ![r] = "done"]
    /\ answer' = [answer EXCEPT ![r] = IF verdict[r] = "error" THEN "null" ELSE verdict[r]]
    /\ Forget(r)
    /\ UNCHANGED <<book, todo, team, asked, open, inbox, chans, log, env>>

\* orchestrate(r) returns its own run's result, or rejects.
Return(r) ==
    /\ pc[r] \in {"release", "free"}
    /\ team[r] = {}
    /\ IF verdict[r] = "error"
       THEN pc' = [pc EXCEPT ![r] = "failed"] /\ UNCHANGED answer
       ELSE pc' = [pc EXCEPT ![r] = "done"]
            /\ answer' = [answer EXCEPT ![r] = verdict[r]]
    /\ Forget(r)
    /\ UNCHANGED <<book, todo, team, asked, open, inbox, chans, log, env>>

\* The drain goes on with its snapshot; an exception ends the loop.
DrainNext(d) ==
    /\ pc[d] \in {"release", "free"}
    /\ team[d] = {}
    /\ IF verdict[d] = "error"
       THEN /\ pc' = [pc EXCEPT ![d] = "idle"]
            /\ todo' = [todo EXCEPT ![d] = <<>>]
       ELSE /\ pc' = [pc EXCEPT ![d] = "probe"]
            /\ todo' = [todo EXCEPT ![d] = Tail(todo[d])]
    /\ Forget(d)
    /\ UNCHANGED <<book, team, asked, open, inbox, chans, outs, env>>

\* A rejected orchestrate: start()'s catch publishes a timeout, a direct caller
\* sees the exception.
Fail(r) ==
    /\ pc[r] = "failed"
    /\ pc' = [pc EXCEPT ![r] = "done"]
    /\ answer' = [answer EXCEPT ![r] = "error"]
    /\ Publish(r, "timeout") \/ UNCHANGED log
    /\ UNCHANGED <<book, todo, run, chans, env>>

\* The queued promise has been resolved.
Unpark(r) ==
    /\ pc[r] = "parked"
    /\ answer[r] # "none"
    /\ pc' = [pc EXCEPT ![r] = "done"]
    /\ UNCHANGED <<book, todo, run, chans, outs, env>>

Dispose ==
    /\ MayDispose /\ Settled
    /\ ~disposed
    /\ disposed' = TRUE
    /\ pending' = <<>>
    /\ answer' = [r \in Requests |->
                     IF (\E i \in DOMAIN pending : pending[i] = r) /\ answer[r] = "none"
                     THEN "null" ELSE answer[r]]
    /\ UNCHANGED <<presence, pc, todo, run, chans, log, events, faults>>

-----------------------------------------------------------------------------

CallStep(r) ==
    \/ Announced(r) \/ Return(r) \/ Fail(r) \/ Unpark(r)

DrainStep(d) ==
    \/ DrainSkip(d) \/ DrainTake(d) \/ DrainStart(d) \/ DrainQuorum(d)
    \/ DrainEnd(d) \/ DrainNext(d)

\* Steps of a run that need nothing but the scheduler.
RunStep(p) ==
    \/ Notified(p) \/ Rang(p) \/ RingFailed(p)
    \/ HandleParallel(p) \/ HandleSequential(p) \/ HandleQuorum(p)
    \/ PublishResolved(p) \/ PublishApproved(p) \/ PublishTimeout(p)
    \/ Release(p)

Arrive(r) == Refuse(r) \/ Dispatch(r) \/ Enqueue(r)

Next ==
    \/ \E r \in Requests : Arrive(r) \/ CallStep(r) \/ AnnounceFails(r)
    \/ \E d \in Drains : DrainStep(d)
    \/ \E p \in Procs : RunStep(p) \/ PublishFails(p)
    \/ \E p \in Procs, k \in Keys : TimerFires(p, k)
    \/ \E k \in Keys, h \in Humans, v \in {"yes", "no"} : Respond(k, h, v)
    \/ \E h \in Humans, v \in {"yes", "no"} : Speak(h, v)
    \/ \E h \in Humans, s \in EnvStatuses : PresenceChanged(h, s)
    \/ Dispose

\* The event loop runs what is ready and timers fire; callers, humans, presence
\* and failures owe nothing.
Fairness ==
    /\ \A r \in Requests : WF_vars(CallStep(r))
    /\ \A d \in Drains : WF_vars(DrainStep(d))
    /\ \A p \in Procs : WF_vars(RunStep(p)) /\ WF_vars(\E k \in Keys : TimerFires(p, k))

Spec == Init /\ [][Next]_vars
LiveSpec == Spec /\ Fairness

-----------------------------------------------------------------------------
(* Properties *)

\* Every variable has its type; a process that runs a request has one to run.
TypeOK ==
    /\ presence \in [Humans -> Statuses]
    /\ pending \in Seq(Requests)
    /\ pc \in [Procs -> PCs]
    /\ todo \in [Procs -> Seq(Requests)]
    /\ team \in [Procs -> SUBSET Humans]
    /\ rung \in [Procs -> Nat]
    /\ asked \in [Procs -> SUBSET Keys]
    /\ open \in [Procs -> SUBSET Keys]
    /\ inbox \in [Procs -> SUBSET Messages]
    /\ ayes \in [Procs -> SUBSET (Humans \cup {None})]
    /\ verdict \in [Procs -> Verdicts]
    /\ waits \in [Keys -> Procs \cup {None}]
    /\ armed \subseteq Procs \X Keys
    /\ log \in [Requests -> Seq(Events)]
    /\ answer \in [Requests -> Verdicts]
    /\ disposed \in BOOLEAN
    /\ events \in Nat
    /\ faults \in Nat

\* "First to respond wins; the rest are cancelled": whatever is still
\* registered with a channel belongs to a run that still waits for it and has
\* its timer, so no settled run leaves a wait behind in activeWaits.
WaitsOwned ==
    \A k \in Keys : waits[k] # None =>
        /\ pc[waits[k]] = "wait"
        /\ k \in open[waits[k]]
        /\ <<waits[k], k>> \in armed

\* markBusy and the finally blocks keep an approver on one request at a time,
\* as long as no presence event overwrites the status of a busy human.
ApproverExclusive ==
    PresenceRouting /\ ~Interrupting =>
        \A p, q \in Procs : p # q => team[p] \cap team[q] = {}

\* Nobody stays busy without a run that will free them: on every way out of a
\* run, a failed publication included, its approvers are released.
BusyIsHeld ==
    "busy" \notin EnvStatuses =>
        \A h \in Humans : presence[h] = "busy" => \E p \in Procs : h \in team[p]

\* A quorum approves with the votes of enough distinct approvers of its own
\* team, never with two answers of one of them or the answer of an outsider.
QuorumBacked ==
    \A p \in Procs :
        pc[p] = "resolve" /\ verdict[p] = "approved" /\ Strategy[Job(p)] = "quorum" =>
            /\ ayes[p] \subseteq team[p]
            /\ Cardinality(ayes[p]) >= Required[Job(p)]

Occurs(e, r) == \E i \in DOMAIN log[r] : log[r][i] = e

\* What orchestrate(r) returned was published first: the caller never acts on
\* an approval no subscriber heard of (null also comes from dispose()).
AnswerWasPublished ==
    \A r \in Requests :
        /\ answer[r] = "approved" => Occurs("order", r) /\ Occurs("resolved_yes", r)
        /\ answer[r] = "rejected" => Occurs("resolved_no", r)
        /\ answer[r] = "null" => Occurs("timeout", r) \/ disposed

\* A request that was dispatched without queueing is decided once: its race,
\* ladder or quorum settles a single time and publishes one outcome.
DirectOnce ==
    faults = 0 =>
        \A r \in Requests : ~Occurs("queued", r) =>
            log[r] \in {<<>>, <<"timeout">>, <<"resolved_no">>, <<"resolved_yes">>,
                         <<"resolved_yes", "order">>}

InQueue(r) == \E i \in DOMAIN pending : pending[i] = r
DrainedBy(d, r) == pc[d] \in Running /\ Job(d) = r

\* A caller that waits for an approver is still queued or being served: the
\* drains, however they interleave, drop nobody's request.
QueuedNotLost ==
    faults = 0 =>
        \A r \in Requests : pc[r] \in {"announce", "parked"} /\ answer[r] = "none" =>
            InQueue(r) \/ \E d \in Drains : DrainedBy(d, r)

\* A call that found its approvers at once comes back, whatever the channels,
\* the humans and the other activations do.
DirectReturns ==
    \A r \in Requests : pc[r] \in Running ~> pc[r] = "done"

Orders(r) == {i \in DOMAIN log[r] : log[r][i] = "order"}

\* "First to respond wins; the rest are cancelled" (docs/GOVERNANCE.md:432): a
\* request is approved, and its order announced, at most once.
OrderedOnce == \A r \in Requests : Cardinality(Orders(r)) <= 1

-----------------------------------------------------------------------------
(* Refinement *)

CallerOf(r) ==
    CASE pc[r] = "new" -> "new"
      [] pc[r] \in Running -> "running"
      [] pc[r] \in {"announce", "parked"} -> "waiting"
      [] pc[r] = "failed" -> "failed"
      [] OTHER -> "closed"

ProgressOf(p) ==
    CASE pc[p] = "approve" -> "granted"
      [] pc[p] \in {"release", "free"} -> verdict[p]
      [] OTHER -> "open"

AttemptOf(p) ==
    IF pc[p] \in Running THEN [on |-> Job(p), is |-> ProgressOf(p)]
    ELSE [on |-> None, is |-> "none"]

Lifecycle == INSTANCE ApprovalLifecycle
    WITH caller  <- [r \in Requests |-> CallerOf(r)],
         attempt <- [p \in Procs |-> AttemptOf(p)],
         told    <- log

\* With its routing, queue, channels, timers and failures the orchestrator does
\* what ApprovalLifecycle promises: each run announces one outcome in order, and a
\* caller hears only what a run for its own request has announced in full, or its
\* exception.
ImplementsApproval == Lifecycle!Spec
=============================================================================
