------------------------------ MODULE AsyncTurn ------------------------------
(***************************************************************************)
(* AsyncAgent of packages/asynctools with the tracker of pending calls and *)
(* the injection manager: run() asks the inner agent, starts the tools it  *)
(* calls, waits for the turn by polling the tracker, injects the results   *)
(* and asks again.  Results come back whenever the tools are done, also    *)
(* after their turn was injected or its time to live is over.  run()       *)
(* rejects when a synchronous tool throws, and when the results of a turn  *)
(* cannot be put into JSON.  A turn is known by its run and its number.    *)
(***************************************************************************)
EXTENDS Integers, FiniteSets

CONSTANTS
    Runs,          \* invocations of run()
    Calls,         \* asynchronous calls the model may make in a turn
    Strategies,    \* injection strategies to choose from
    MaxTurns,
    GlobalTimeout, \* globalTimeoutMs, in ticks
    Ttl,           \* ttlMs of the tracker
    Latencies      \* [Strategies -> SUBSET Nat]: ticks within which the tools answer

ASSUME AsyncAssumption ==
    /\ IsFiniteSet(Calls)
    /\ Strategies \subseteq {"inject_when_all", "inject_when_ready", "inject_on_timeout"}
    /\ {MaxTurns, GlobalTimeout, Ttl} \subseteq Nat \ {0}
    /\ Latencies \in [Strategies -> SUBSET (Nat \ {0})]

VARIABLES
    strategy,  \* the agent's option
    latency,   \* how long its tools may take
    pc,        \* [Runs -> Places]
    left,      \* [Runs -> Nat]: turnsLeft
    clock,     \* [Runs -> Nat]: ticks until the global timer aborts the run
    tracked,   \* runs whose turn the tracker knows
    age,       \* [Runs -> Nat]: ticks since createTurn
    status,    \* [Runs -> [Calls -> Statuses]]: tool_calls and results of the turn
    watchers,  \* runs whose turn is polled
    flying     \* calls under way: <<run, turnsLeft of their turn, call>>

vars == <<strategy, latency, pc, left, clock, tracked, age, status, watchers, flying>>

\* The last two: run() has returned or thrown, or thrown over its turn's results.
Places == {"idle", "model", "sync", "waiting", "done", "unformatted"}
Statuses == {"none", "called", "running", "completed", "failed"}
Blank == [c \in Calls |-> "none"]
Larger(m, n) == IF m > n THEN m ELSE n

Init ==
    /\ strategy \in Strategies
    /\ latency \in Latencies[strategy]
    /\ pc = [r \in Runs |-> "idle"]
    /\ left = [r \in Runs |-> MaxTurns]
    /\ clock = [r \in Runs |-> GlobalTimeout]
    /\ tracked = {}
    /\ age = [r \in Runs |-> 0]
    /\ status = [r \in Runs |-> Blank]
    /\ watchers = {}
    /\ flying = {}

-----------------------------------------------------------------------------
(* The tracker *)

With(r, s) == {c \in Calls : status[r][c] = s}

\* Mutant: a call that failed is not over.
allTerminalIfSo(r) == With(r, "running") \cup With(r, "failed") = {}

\* Every call of the turn is over, some call has a result to give.
allTerminal(r) == With(r, "running") = {}
anyCompleted(r) == With(r, "completed") # {}

\* Mutant: any call that is over will do.
isResolvedByAny(r) ==
    /\ r \in tracked
    /\ CASE strategy = "inject_when_all"   -> With(r, "completed") \cup With(r, "failed") # {}
         [] strategy = "inject_when_ready" -> anyCompleted(r)
         [] strategy = "inject_on_timeout" -> age[r] >= GlobalTimeout

isResolved(r) ==
    /\ r \in tracked
    /\ CASE strategy = "inject_when_all"   -> allTerminal(r)
         [] strategy = "inject_when_ready" -> anyCompleted(r)
         [] strategy = "inject_on_timeout" -> age[r] >= GlobalTimeout

\* markCompleted and markFailed of a turn that is gone throw: the result is lost.
Report(r, turn, c, outcome) ==
    IF r \in tracked /\ left[r] = turn
    THEN status' = [status EXCEPT ![r][c] = outcome]
    ELSE UNCHANGED status

-----------------------------------------------------------------------------
(* The run *)

\* The finally block disposes every watcher, those of other runs included.
Return(r) ==
    /\ pc' = [pc EXCEPT ![r] = "done"]
    /\ watchers' = {}

\* The next round of the loop: out of turns, out of time, or the model again.
Loop(r) ==
    /\ left' = [left EXCEPT ![r] = @ - 1]
    /\ status' = [status EXCEPT ![r] = Blank]
    /\ age' = [age EXCEPT ![r] = 0]
    /\ IF left[r] = 1 \/ clock[r] = 0
       THEN Return(r)
       ELSE pc' = [pc EXCEPT ![r] = "model"] /\ watchers' = watchers \ {r}

Start(r) ==
    /\ pc[r] = "idle"
    /\ pc' = [pc EXCEPT ![r] = "model"]
    /\ UNCHANGED <<strategy, latency, left, clock, tracked, age, status, watchers, flying>>

\* The inner agent answers without tools, or throws.
Answer(r) ==
    /\ pc[r] = "model"
    /\ Return(r)
    /\ UNCHANGED <<strategy, latency, left, clock, tracked, age, status, flying>>

\* createTurn, addPending, markRunning and the watcher; without asynchronous calls
\* (synchronous ones only, or calls nobody waits for) the loop goes on.
Launch(r, calls) ==
    IF calls = {}
    THEN Loop(r) /\ UNCHANGED <<tracked, flying>>
    ELSE /\ pc' = [pc EXCEPT ![r] = "waiting"]
         /\ tracked' = tracked \cup {r}
         /\ status' = [status EXCEPT ![r] =
                          [c \in Calls |-> IF c \in calls THEN "running" ELSE "none"]]
         /\ watchers' = watchers \cup {r}
         /\ flying' = flying \cup {<<r, left[r], c>> : c \in calls}
         /\ UNCHANGED <<left, age>>

\* The model calls tools.
Ask(r, calls) ==
    /\ pc[r] = "model"
    /\ Launch(r, calls)
    /\ UNCHANGED <<strategy, latency, clock>>

\* A synchronous tool is awaited first: the other calls start after it.
AskSync(r, calls) ==
    /\ pc[r] = "model"
    /\ pc' = [pc EXCEPT ![r] = "sync"]
    /\ status' = [status EXCEPT ![r] =
                     [c \in Calls |-> IF c \in calls THEN "called" ELSE "none"]]
    /\ UNCHANGED <<strategy, latency, left, clock, tracked, age, watchers, flying>>

SyncDone(r) ==
    /\ pc[r] = "sync"
    /\ Launch(r, With(r, "called"))
    /\ UNCHANGED <<strategy, latency, clock>>

\* The pool throws (a callback of the breaker, an unknown tool), or the result is
\* nothing JSON can express: run() rejects before any call of the turn is tracked.
SyncThrows(r) ==
    /\ pc[r] = "sync"
    /\ Return(r)
    /\ UNCHANGED <<strategy, latency, left, clock, tracked, age, status, flying>>

ToolEnds(r, turn, c, outcome) ==
    /\ <<r, turn, c>> \in flying
    /\ flying' = flying \ {<<r, turn, c>>}
    /\ Report(r, turn, c, outcome)
    /\ UNCHANGED <<strategy, latency, pc, left, clock, tracked, age, watchers>>

\* Mutant: the resolved turn is left to its timer.
PollOnly(r) ==
    /\ r \in watchers
    /\ isResolved(r)
    /\ Loop(r)
    /\ UNCHANGED <<strategy, latency, clock, tracked, flying>>

\* The poll finds the turn resolved: its results are injected, the turn is deleted.
Poll(r) ==
    /\ r \in watchers
    /\ isResolved(r)
    /\ tracked' = tracked \ {r}
    /\ Loop(r)
    /\ UNCHANGED <<strategy, latency, clock, flying>>

\* A completed result is nothing JSON can express (formatForReinjection): run()
\* rejects, and the turn is left to the tracker's timer.
PollThrows(r) ==
    /\ r \in watchers
    /\ isResolved(r)
    /\ anyCompleted(r)
    /\ pc' = [pc EXCEPT ![r] = "unformatted"]
    /\ watchers' = {}
    /\ UNCHANGED <<strategy, latency, left, clock, tracked, age, status, flying>>

\* The tracker's timer deletes a turn that was not, and nobody is told.
TurnExpires(r) ==
    /\ r \in tracked
    /\ age[r] >= Ttl
    /\ tracked' = tracked \ {r}
    /\ UNCHANGED <<strategy, latency, pc, left, clock, age, status, watchers, flying>>

\* Time passes once what is due has happened: expired turns are deleted, resolved
\* ones were polled, and no tool exceeds its latency.
Tick ==
    /\ \A r \in Runs :
          /\ r \in tracked => age[r] < Ttl
          /\ r \in watchers => ~isResolved(r)
          /\ r \in tracked /\ With(r, "running") # {} => age[r] < latency
    /\ clock' = [r \in Runs |->
                    IF pc[r] \in {"model", "sync", "waiting"}
                    THEN Larger(clock[r] - 1, 0) ELSE clock[r]]
    /\ age' = [r \in Runs |-> IF r \in tracked THEN age[r] + 1 ELSE age[r]]
    /\ UNCHANGED <<strategy, latency, pc, left, tracked, status, watchers, flying>>

Ends == \E r \in Runs, turn \in 1..MaxTurns, c \in Calls :
            \E outcome \in {"completed", "failed"} : ToolEnds(r, turn, c, outcome)

Works(r) ==
    \/ Answer(r)
    \/ \E calls \in SUBSET Calls : Ask(r, calls) \/ AskSync(r, calls)
    \/ SyncDone(r)
    \/ SyncThrows(r)

Timers == \E r \in Runs : Poll(r) \/ PollThrows(r) \/ TurnExpires(r)

Next ==
    \/ \E r \in Runs : Start(r) \/ Works(r)
    \/ Timers
    \/ Ends
    \/ Tick

\* Timers fire, the tools answer, time passes; the inner agent may never answer.
Fairness == WF_vars(Timers) /\ WF_vars(Ends) /\ WF_vars(Tick)

Spec == Init /\ [][Next]_vars
LiveSpec == Spec /\ Fairness

-----------------------------------------------------------------------------
(* Properties *)

TypeOK ==
    /\ strategy \in Strategies
    /\ latency \in Latencies[strategy]
    /\ pc \in [Runs -> Places]
    /\ left \in [Runs -> 0..MaxTurns]
    /\ clock \in [Runs -> Nat]
    /\ tracked \subseteq Runs
    /\ age \in [Runs -> Nat]
    /\ status \in [Runs -> [Calls -> Statuses]]
    /\ watchers \subseteq Runs
    /\ flying \subseteq Runs \X (1..MaxTurns) \X Calls

\* Under inject_when_all no result comes back to a turn that was injected already:
\* every call under way is one its run waits for (isResolved, deleteTurn).  The
\* turns outlive the tools.
NoneLeftBehind ==
    strategy = "inject_when_all" /\ latency < Ttl =>
        \A r \in Runs, turn \in 1..MaxTurns, c \in Calls :
            <<r, turn, c>> \in flying =>
                pc[r] = "waiting" /\ r \in tracked /\ left[r] = turn /\ status[r][c] = "running"

\* The tracker and the manager hold a turn only while its run waits for it, but for
\* a turn whose results could not be formatted, which the tracker's timer deletes:
\* the long-lived agent leaks neither turns nor polling timers.
NothingLeft ==
    /\ \A r \in tracked : pc[r] \in {"waiting", "unformatted"}
    /\ \A r \in watchers : pc[r] = "waiting"

\* What resolves a turn comes before the tracker deletes the turn: the timeout where
\* it is waited for, the slowest tool otherwise (isResolved against ttlMs).
TurnsOutlive ==
    IF strategy = "inject_on_timeout" THEN GlobalTimeout < Ttl ELSE latency < Ttl

\* Where the turns outlive what resolves them, run() returns from the wait for its
\* tools unless no call completes (inject_when_ready) or another run's end has
\* disposed its watcher.
RunReturns ==
    \A r \in Runs :
        (pc[r] = "waiting" /\ TurnsOutlive) ~>
            \/ pc[r] # "waiting"
            \/ r \notin watchers
            \/ strategy = "inject_when_ready" /\ ~anyCompleted(r)
=============================================================================
