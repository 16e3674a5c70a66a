-------------------------- MODULE ApprovalLifecycle ---------------------------
(***************************************************************************)
(* What the approval orchestrator promises its callers and the bus,        *)
(* whatever channels, quorums, presence and timers there are: a run        *)
(* announces one outcome, in order and in full before anybody acts on it;  *)
(* a caller hears the outcome of a run for its own request, the exception  *)
(* of one, or null after dispose(); and nobody else runs a request that    *)
(* was not queued.  A queued request may be run more than once.            *)
(* ApprovalOrchestrator implements this specification.                     *)
(***************************************************************************)
EXTENDS Sequences

CONSTANTS Requests, Drains, None

VARIABLES
    caller,   \* [Requests -> Callers]: how far the caller of each request is
    attempt,  \* [Procs -> [on : Requests \cup {None}, is : Progress]]: the runs
    told,     \* [Requests -> Seq(Events)]: what the bus carried about each request
    answer    \* [Requests -> Verdicts]: what its caller gets, or will get

vars == <<caller, attempt, told, answer>>

\* A request is run by its own call or by a drain.
Procs == Requests \cup Drains

Callers  == {"new", "running", "waiting", "failed", "closed"}
Outcomes == {"approved", "rejected", "null"}
Progress == {"none", "open", "granted", "error"} \cup Outcomes
NoRun    == [on |-> None, is |-> "none"]

Init ==
    /\ caller = [r \in Requests |-> "new"]
    /\ attempt = [p \in Procs |-> NoRun]
    /\ told = [r \in Requests |-> <<>>]
    /\ answer = [r \in Requests |-> "none"]

Queued(r) == \E i \in DOMAIN told[r] : told[r][i] = "queued"

Moves(r, from, to) == caller[r] = from /\ caller' = [caller EXCEPT ![r] = to]
Tells(r, event) == told' = [told EXCEPT ![r] = Append(@, event)]
Starts(p, r) == attempt' = [attempt EXCEPT ![p] = [on |-> r, is |-> "open"]]
Stops(p) == attempt' = [attempt EXCEPT ![p] = NoRun]

-----------------------------------------------------------------------------
(* Runs *)

\* The caller's own run.
Call(r) == Moves(r, "new", "running") /\ Starts(r, r) /\ UNCHANGED <<told, answer>>

\* Nobody can approve it now.
Queue(r) == Moves(r, "new", "waiting") /\ Tells(r, "queued") /\ UNCHANGED <<attempt, answer>>

\* A drain runs what was queued.
Serve(d, r) ==
    /\ attempt[d] = NoRun
    /\ Queued(r)
    /\ Starts(d, r)
    /\ UNCHANGED <<caller, told, answer>>

Says(p, from, event, to) ==
    /\ attempt[p].is = from
    /\ attempt' = [attempt EXCEPT ![p] = [on |-> attempt[p].on, is |-> to]]
    /\ Tells(attempt[p].on, event)
    /\ UNCHANGED caller

\* A drain's outcome is its caller's, unless the caller has an answer.
Resolves(p, v) ==
    answer' = [r \in Requests |->
                  IF p \in Drains /\ r = attempt[p].on /\ answer[r] = "none"
                  THEN v ELSE answer[r]]

Grant(p)  == Says(p, "open", "resolved_yes", "granted") /\ UNCHANGED answer
Order(p)  == Says(p, "granted", "order", "approved") /\ Resolves(p, "approved")
Reject(p) == Says(p, "open", "resolved_no", "rejected") /\ Resolves(p, "rejected")
Expire(p) == Says(p, "open", "timeout", "null") /\ Resolves(p, "null")

\* A subscriber throws: the event is out, the run is over and answers nobody.
Break(p) ==
    /\ \/ \E e \in {"resolved_yes", "resolved_no", "timeout"} : Says(p, "open", e, "error")
       \/ Says(p, "granted", "order", "error")
    /\ UNCHANGED answer

\* A drain has ended a run.
Leave(d) ==
    /\ attempt[d].is \in Outcomes \cup {"error"}
    /\ Stops(d)
    /\ UNCHANGED <<caller, told, answer>>

-----------------------------------------------------------------------------
(* Callers *)

\* The caller hears what its own run has announced.
Return(r) ==
    /\ attempt[r].is \in Outcomes
    /\ answer' = [answer EXCEPT ![r] = attempt[r].is]
    /\ Moves(r, "running", "closed")
    /\ Stops(r)
    /\ UNCHANGED told

\* Its run, or its place in the queue, could not be announced.
Throw(r) ==
    /\ \/ attempt[r].is = "error" /\ Moves(r, "running", "failed") /\ Stops(r)
       \/ Moves(r, "waiting", "failed") /\ UNCHANGED attempt
    /\ UNCHANGED <<told, answer>>

\* The caller sees the exception; start() announces a timeout.
Fail(r) ==
    /\ Moves(r, "failed", "closed")
    /\ answer' = [answer EXCEPT ![r] = "error"]
    /\ Tells(r, "timeout") \/ UNCHANGED told
    /\ UNCHANGED attempt

\* A waiting caller hears what a drain's run, or dispose(), has answered.
Hear(r) ==
    /\ answer[r] # "none"
    /\ Moves(r, "waiting", "closed")
    /\ UNCHANGED <<attempt, told, answer>>

Dispose(rs) ==
    /\ \A r \in rs : Queued(r)
    /\ answer' = [r \in Requests |->
                     IF r \in rs /\ answer[r] = "none" THEN "null" ELSE answer[r]]
    /\ UNCHANGED <<caller, attempt, told>>

Next ==
    \/ \E r \in Requests : \/ Call(r) \/ Queue(r) \/ Return(r)
                           \/ Throw(r) \/ Fail(r) \/ Hear(r)
    \/ \E d \in Drains : Leave(d) \/ \E r \in Requests : Serve(d, r)
    \/ \E p \in Procs : Grant(p) \/ Order(p) \/ Reject(p) \/ Expire(p) \/ Break(p)
    \/ \E rs \in SUBSET Requests : Dispose(rs)

Spec == Init /\ [][Next]_vars
=============================================================================
