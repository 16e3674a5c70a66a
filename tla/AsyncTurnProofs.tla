---------------------------- MODULE AsyncTurnProofs ----------------------------
(***************************************************************************)
(* Theorems about the asynchronous turns: the tracker and the watchers     *)
(* keep nothing of a run that does not wait, and with inject_when_all no   *)
(* result comes back to a turn that is over.                               *)
(***************************************************************************)
EXTENDS AsyncTurn, TLAPS

\* A run that still asks has a turn left, and what is over is not kept.
Kept ==
    /\ TypeOK
    /\ \A r \in Runs : pc[r] \in {"idle", "model", "sync", "waiting"} => left[r] >= 1
    /\ NothingLeft

LEMMA BlankTyped == Blank \in [Calls -> Statuses]
  BY DEF Blank, Statuses

LEMMA LargerTyped == \A n \in Nat : Larger(n - 1, 0) \in Nat
  BY DEF Larger

\* The end of a round: the run asks again, or returns and all watchers with it.
LEMMA LoopKept ==
    ASSUME Kept, NEW r \in Runs, pc[r] \in {"model", "sync", "waiting"}, Loop(r)
    PROVE  /\ pc' \in [Runs -> Places]
           /\ left' \in [Runs -> 0..MaxTurns]
           /\ age' \in [Runs -> Nat]
           /\ status' \in [Runs -> [Calls -> Statuses]]
           /\ watchers' \subseteq watchers \ {r}
           /\ \A q \in Runs : pc'[q] \in {"idle", "model", "sync", "waiting"} => left'[q] >= 1
           /\ \A q \in Runs : q # r => pc'[q] = pc[q] /\ left'[q] = left[q]
                                         /\ age'[q] = age[q] /\ status'[q] = status[q]
           /\ pc'[r] \in {"model", "done"} /\ age'[r] = 0 /\ status'[r] = Blank
  <1>1. /\ TypeOK /\ left[r] \in 1..MaxTurns
        /\ MaxTurns \in Nat
    BY AsyncAssumption DEF Kept, TypeOK
  <1>2. /\ left' = [left EXCEPT ![r] = left[r] - 1]
        /\ age' = [age EXCEPT ![r] = 0]
        /\ status' = [status EXCEPT ![r] = Blank]
    BY DEF Loop
  <1>3. left[r] - 1 \in 0..MaxTurns
    BY <1>1
  <1>4. CASE left[r] = 1 \/ clock[r] = 0
    <2>1. pc' = [pc EXCEPT ![r] = "done"] /\ watchers' = {}
      BY <1>4 DEF Loop, Return
    <2> QED
      BY <1>1, <1>2, <1>3, <2>1, BlankTyped DEF Kept, TypeOK, Places
  <1>5. CASE ~(left[r] = 1 \/ clock[r] = 0)
    <2>1. pc' = [pc EXCEPT ![r] = "model"] /\ watchers' = watchers \ {r}
      BY <1>5 DEF Loop
    <2>2. left[r] - 1 >= 1
      BY <1>1, <1>5
    <2> QED
      BY <1>1, <1>2, <1>3, <2>1, <2>2, BlankTyped DEF Kept, TypeOK, Places
  <1> QED
    BY <1>4, <1>5

LEMMA LaunchKept ==
    ASSUME Kept, NEW r \in Runs, pc[r] \in {"model", "sync"}, NEW calls \in SUBSET Calls,
           Launch(r, calls), UNCHANGED <<strategy, latency, clock>>
    PROVE  Kept'
  <1>1. TypeOK /\ r \notin tracked /\ r \notin watchers
    BY DEF Kept, NothingLeft
  <1>2. CASE calls = {}
    <2>1. Loop(r) /\ UNCHANGED <<tracked, flying>>
      BY <1>2 DEF Launch
    <2>2. /\ pc' \in [Runs -> Places]
          /\ left' \in [Runs -> 0..MaxTurns]
          /\ age' \in [Runs -> Nat]
          /\ status' \in [Runs -> [Calls -> Statuses]]
          /\ watchers' \subseteq watchers \ {r}
          /\ \A q \in Runs : pc'[q] \in {"idle", "model", "sync", "waiting"} => left'[q] >= 1
          /\ \A q \in Runs : q # r => pc'[q] = pc[q]
      BY <2>1, LoopKept
    <2> QED
      BY <1>1, <2>1, <2>2 DEF Kept, TypeOK, NothingLeft
  <1>3. CASE calls # {}
    <2> DEFINE marks == [c \in Calls |-> IF c \in calls THEN "running" ELSE "none"]
    <2>1. /\ pc' = [pc EXCEPT ![r] = "waiting"]
          /\ tracked' = tracked \cup {r}
          /\ status' = [status EXCEPT ![r] = marks]
          /\ watchers' = watchers \cup {r}
          /\ flying' = flying \cup {<<r, left[r], c>> : c \in calls}
          /\ UNCHANGED <<left, age>>
      BY <1>3 DEF Launch
    <2>2. marks \in [Calls -> Statuses]
      BY DEF Statuses
    <2> HIDE DEF marks
    <2>3. left[r] \in 1..MaxTurns
      BY <1>1 DEF Kept, TypeOK
    <2>4. flying' \subseteq Runs \X (1..MaxTurns) \X Calls
      BY <1>1, <2>1, <2>3 DEF TypeOK
    <2> QED
      BY <1>1, <2>1, <2>2, <2>4 DEF Kept, TypeOK, NothingLeft, Places
  <1> QED
    BY <1>2, <1>3

LEMMA KeptInit == Init => Kept
  BY BlankTyped, AsyncAssumption DEF Init, Kept, TypeOK, NothingLeft, Places

LEMMA KeptStep == Kept /\ [Next]_vars => Kept'
  <1> SUFFICES ASSUME Kept, [Next]_vars
               PROVE  Kept'
    OBVIOUS
  <1>0. TypeOK
    BY DEF Kept
  <1>1. CASE UNCHANGED vars
    BY <1>1 DEF vars, Kept, TypeOK, NothingLeft
  <1>2. ASSUME NEW r \in Runs, Start(r)
        PROVE  Kept'
    BY <1>2 DEF Start, Kept, TypeOK, NothingLeft, Places
  <1>3. ASSUME NEW r \in Runs, Answer(r)
        PROVE  Kept'
    BY <1>3 DEF Answer, Return, Kept, TypeOK, NothingLeft, Places
  <1>4. ASSUME NEW r \in Runs, NEW calls \in SUBSET Calls, Ask(r, calls)
        PROVE  Kept'
    BY <1>4, LaunchKept DEF Ask
  <1>5. ASSUME NEW r \in Runs, NEW calls \in SUBSET Calls, AskSync(r, calls)
        PROVE  Kept'
    <2>1. [c \in Calls |-> IF c \in calls THEN "called" ELSE "none"] \in [Calls -> Statuses]
      BY DEF Statuses
    <2> QED
      BY <1>5, <2>1 DEF AskSync, Kept, TypeOK, NothingLeft, Places
  <1>6. ASSUME NEW r \in Runs, SyncDone(r)
        PROVE  Kept'
    <2>1. With(r, "called") \in SUBSET Calls
      BY DEF With
    <2> QED
      BY <1>6, <2>1, LaunchKept DEF SyncDone
  <1>11. ASSUME NEW r \in Runs, SyncThrows(r)
         PROVE  Kept'
    BY <1>11 DEF SyncThrows, Return, Kept, TypeOK, NothingLeft, Places
  <1>7. ASSUME NEW r \in Runs, NEW turn \in 1..MaxTurns, NEW c \in Calls,
               NEW outcome \in {"completed", "failed"}, ToolEnds(r, turn, c, outcome)
        PROVE  Kept'
    <2>1. status' \in [Runs -> [Calls -> Statuses]]
      <3>1. [status[r] EXCEPT ![c] = outcome] \in [Calls -> Statuses]
        BY <1>0 DEF TypeOK, Statuses
      <3>2. status' = status \/ status' = [status EXCEPT ![r] = [status[r] EXCEPT ![c] = outcome]]
        BY <1>7 DEF ToolEnds, Report
      <3> QED
        BY <1>0, <3>1, <3>2 DEF TypeOK
    <2> QED
      BY <1>7, <2>1 DEF ToolEnds, Kept, TypeOK, NothingLeft
  <1>8. ASSUME NEW r \in Runs, Poll(r)
        PROVE  Kept'
    <2>1. pc[r] = "waiting"
      BY <1>8 DEF Poll, Kept, NothingLeft
    <2>2. /\ pc' \in [Runs -> Places]
          /\ left' \in [Runs -> 0..MaxTurns]
          /\ age' \in [Runs -> Nat]
          /\ status' \in [Runs -> [Calls -> Statuses]]
          /\ watchers' \subseteq watchers \ {r}
          /\ \A q \in Runs : pc'[q] \in {"idle", "model", "sync", "waiting"} => left'[q] >= 1
          /\ \A q \in Runs : q # r => pc'[q] = pc[q]
      BY <1>8, <2>1, LoopKept DEF Poll
    <2> QED
      BY <1>0, <1>8, <2>2 DEF Poll, Kept, TypeOK, NothingLeft
  <1>12. ASSUME NEW r \in Runs, PollThrows(r)
         PROVE  Kept'
    BY <1>12 DEF PollThrows, Kept, TypeOK, NothingLeft, Places
  <1>9. ASSUME NEW r \in Runs, TurnExpires(r)
        PROVE  Kept'
    BY <1>9 DEF TurnExpires, Kept, TypeOK, NothingLeft
  <1>10. CASE Tick
    <2>1. clock' \in [Runs -> Nat] /\ age' \in [Runs -> Nat]
      BY <1>0, <1>10, LargerTyped DEF Tick, TypeOK
    <2> QED
      BY <1>10, <2>1 DEF Tick, Kept, TypeOK, NothingLeft
  <1> QED
    BY <1>1, <1>2, <1>3, <1>4, <1>5, <1>6, <1>7, <1>8, <1>9, <1>10,
       <1>11, <1>12 DEF Next, Works, Timers, Ends

\* Every variable of the agent keeps its type, for any number of runs and calls.
THEOREM AsyncTypes == Spec => []TypeOK
  <1>1. Kept => TypeOK
    BY DEF Kept
  <1> QED
    BY <1>1, KeptInit, KeptStep, PTL DEF Spec

\* The tracker and the injection manager hold a turn only while its run waits
\* (deleteTurn, dispose), but for a turn whose results could not be formatted: the
\* agent leaks neither turns nor polling timers.
THEOREM NothingIsLeft == Spec => []NothingLeft
  <1>1. Kept => NothingLeft
    BY DEF Kept
  <1> QED
    BY <1>1, KeptInit, KeptStep, PTL DEF Spec

-----------------------------------------------------------------------------
(* The results that are under way *)

\* A turn is as old as its tools at most: it began at age 0, and while some tool runs
\* no more than its latency passes.
Young ==
    /\ \A r \in Runs : pc[r] \in {"idle", "model", "sync"} => age[r] = 0
    /\ \A r \in tracked : With(r, "running") # {} => age[r] <= latency

Behind == Kept /\ Young /\ NoneLeftBehind

\* What NoneLeftBehind says of one call.
Waited(r, turn, c) ==
    pc[r] = "waiting" /\ r \in tracked /\ left[r] = turn /\ status[r][c] = "running"

LEMMA BehindInit == Init => Behind
  <1>1. Init => Young /\ NoneLeftBehind
    BY DEF Init, Young, NoneLeftBehind
  <1> QED
    BY <1>1, KeptInit DEF Behind

\* The round of r ends: no call of its turn is under way.
LEMMA LoopBehind ==
    ASSUME Behind, NEW r \in Runs, pc[r] \in {"model", "sync", "waiting"}, Loop(r), flying' = flying,
           tracked' = tracked \ {r}, UNCHANGED <<strategy, latency>>,
           strategy = "inject_when_all" /\ latency < Ttl =>
               \A turn \in 1..MaxTurns, c \in Calls : <<r, turn, c>> \notin flying
    PROVE  Young' /\ NoneLeftBehind'
  <1>1. /\ \A q \in Runs : q # r => pc'[q] = pc[q] /\ left'[q] = left[q]
                                      /\ age'[q] = age[q] /\ status'[q] = status[q]
        /\ age'[r] = 0
        /\ tracked \subseteq Runs
    BY LoopKept DEF Behind, Kept, TypeOK
  <1>2. Young'
    BY <1>1 DEF Behind, Young, With
  <1>3. NoneLeftBehind'
    <2> SUFFICES ASSUME strategy = "inject_when_all", latency < Ttl,
                        NEW q \in Runs, NEW turn \in 1..MaxTurns, NEW c \in Calls,
                        <<q, turn, c>> \in flying
                 PROVE  Waited(q, turn, c)'
      BY DEF NoneLeftBehind, Waited
    <2>1. q # r
      OBVIOUS
    <2>2. Waited(q, turn, c)
      BY DEF Behind, NoneLeftBehind, Waited
    <2> QED
      BY <1>1, <2>1, <2>2 DEF Waited
  <1> QED
    BY <1>2, <1>3

LEMMA LaunchBehind ==
    ASSUME Behind, NEW r \in Runs, pc[r] \in {"model", "sync"}, NEW calls \in SUBSET Calls,
           Launch(r, calls), UNCHANGED <<strategy, latency, clock>>
    PROVE  Young' /\ NoneLeftBehind'
  <1>1. /\ TypeOK
        /\ r \notin tracked
        /\ age[r] = 0
    BY DEF Behind, Kept, NothingLeft, Young
  <1>2. strategy = "inject_when_all" /\ latency < Ttl =>
           \A turn \in 1..MaxTurns, c \in Calls : <<r, turn, c>> \notin flying
    BY DEF Behind, NoneLeftBehind
  <1>3. CASE calls = {}
    <2>1. Loop(r) /\ UNCHANGED <<tracked, flying>> /\ tracked \ {r} = tracked
      BY <1>1, <1>3 DEF Launch
    <2> QED
      BY <1>2, <2>1, LoopBehind
  <1>4. CASE calls # {}
    <2>1. /\ pc' = [pc EXCEPT ![r] = "waiting"]
          /\ tracked' = tracked \cup {r}
          /\ status' = [status EXCEPT ![r] =
                           [c \in Calls |-> IF c \in calls THEN "running" ELSE "none"]]
          /\ flying' = flying \cup {<<r, left[r], c>> : c \in calls}
          /\ UNCHANGED <<left, age>>
      BY <1>4 DEF Launch
    <2>2. \A q \in Runs : q # r => pc'[q] = pc[q] /\ status'[q] = status[q]
      BY <1>1, <2>1 DEF TypeOK
    <2>3. Young'
      <3>1. \A q \in tracked : q # r => With(q, "running")' = With(q, "running")
        BY <1>1, <2>2 DEF With, TypeOK
      <3>2. age[r] <= latency
        BY <1>1, AsyncAssumption DEF TypeOK
      <3> QED
        BY <1>1, <2>1, <2>2, <3>1, <3>2 DEF Behind, Young, TypeOK
    <2>4. NoneLeftBehind'
      <3> SUFFICES ASSUME strategy = "inject_when_all", latency < Ttl,
                          NEW q \in Runs, NEW turn \in 1..MaxTurns, NEW c \in Calls,
                          <<q, turn, c>> \in flying'
                   PROVE  Waited(q, turn, c)'
        BY DEF NoneLeftBehind, Waited
      <3>1. CASE <<q, turn, c>> \in flying
        <4>1. Waited(q, turn, c) /\ q # r
          BY <1>2, <3>1 DEF Behind, NoneLeftBehind, Waited
        <4> QED
          BY <2>1, <2>2, <4>1 DEF Waited
      <3>2. CASE <<q, turn, c>> \notin flying
        <4>1. q = r /\ turn = left[r] /\ c \in calls
          BY <2>1, <3>2
        <4> QED
          BY <1>1, <2>1, <4>1 DEF Waited, TypeOK
      <3> QED
        BY <3>1, <3>2
    <2> QED
      BY <2>3, <2>4
  <1> QED
    BY <1>3, <1>4

LEMMA BehindStep == Behind /\ [Next]_vars => Behind'
  <1> SUFFICES ASSUME Behind, [Next]_vars
               PROVE  Young' /\ NoneLeftBehind'
    BY KeptStep DEF Behind
  <1>0. TypeOK
    BY DEF Behind, Kept
  <1>1. CASE UNCHANGED vars
    BY <1>1 DEF vars, Behind, Young, NoneLeftBehind, With
  <1>2. ASSUME NEW r \in Runs, NEW at \in {"model", "sync", "done"},
               pc[r] \in {"idle", "model", "sync"},
               pc' = [pc EXCEPT ![r] = at], UNCHANGED <<strategy, latency, left, tracked, age, flying>>,
               \A q \in Runs : q # r => status'[q] = status[q]
        PROVE  Young' /\ NoneLeftBehind'
    <2>1. r \notin tracked /\ tracked \subseteq Runs
      BY <1>0, <1>2 DEF Behind, Kept, NothingLeft, TypeOK
    <2>2. Young'
      BY <1>0, <1>2, <2>1 DEF Behind, Young, With, TypeOK
    <2>3. NoneLeftBehind'
      <3> SUFFICES ASSUME strategy = "inject_when_all", latency < Ttl,
                          NEW q \in Runs, NEW turn \in 1..MaxTurns, NEW c \in Calls,
                          <<q, turn, c>> \in flying
                   PROVE  Waited(q, turn, c)'
        BY <1>2 DEF NoneLeftBehind, Waited
      <3>1. Waited(q, turn, c) /\ q # r
        BY <1>2 DEF Behind, NoneLeftBehind, Waited
      <3> QED
        BY <1>0, <1>2, <3>1 DEF Waited, TypeOK
    <2> QED
      BY <2>2, <2>3
  <1>3. ASSUME NEW r \in Runs, Start(r) \/ Answer(r) \/ SyncThrows(r)
        PROVE  Young' /\ NoneLeftBehind'
    <2>1. CASE Start(r)
      BY <1>2, <2>1 DEF Start
    <2>2. CASE Answer(r)
      BY <1>2, <2>2 DEF Answer, Return
    <2>3. CASE SyncThrows(r)
      BY <1>2, <2>3 DEF SyncThrows, Return
    <2> QED
      BY <1>3, <2>1, <2>2, <2>3
  <1>4. ASSUME NEW r \in Runs, NEW calls \in SUBSET Calls, Ask(r, calls)
        PROVE  Young' /\ NoneLeftBehind'
    BY <1>4, LaunchBehind DEF Ask
  <1>5. ASSUME NEW r \in Runs, NEW calls \in SUBSET Calls, AskSync(r, calls)
        PROVE  Young' /\ NoneLeftBehind'
    <2>1. \A q \in Runs : q # r => status'[q] = status[q]
      BY <1>0, <1>5 DEF AskSync, TypeOK
    <2> QED
      BY <1>2, <1>5, <2>1 DEF AskSync
  <1>6. ASSUME NEW r \in Runs, SyncDone(r)
        PROVE  Young' /\ NoneLeftBehind'
    <2>1. With(r, "called") \in SUBSET Calls
      BY DEF With
    <2> QED
      BY <1>6, <2>1, LaunchBehind DEF SyncDone
  <1>7. ASSUME NEW r \in Runs, NEW turn \in 1..MaxTurns, NEW c \in Calls,
               NEW outcome \in {"completed", "failed"}, ToolEnds(r, turn, c, outcome)
        PROVE  Young' /\ NoneLeftBehind'
    <2>1. /\ flying' = flying \ {<<r, turn, c>>}
          /\ UNCHANGED <<strategy, latency, pc, left, tracked, age>>
          /\ \/ status' = status
             \/ /\ left[r] = turn
                /\ status' = [status EXCEPT ![r] = [status[r] EXCEPT ![c] = outcome]]
      BY <1>7 DEF ToolEnds, Report
    <2>2. \A q \in Runs, d \in Calls :
             \/ status'[q][d] = status[q][d]
             \/ q = r /\ d = c /\ left[r] = turn /\ status'[q][d] # "running"
      BY <1>0, <2>1 DEF TypeOK
    <2>3. Young'
      <3>1. \A q \in tracked : With(q, "running")' \subseteq With(q, "running")
        BY <1>0, <2>2 DEF With, TypeOK
      <3> QED
        BY <2>1, <3>1 DEF Behind, Young
    <2>4. NoneLeftBehind'
      <3> SUFFICES ASSUME strategy = "inject_when_all", latency < Ttl,
                          NEW q \in Runs, NEW t \in 1..MaxTurns, NEW d \in Calls,
                          <<q, t, d>> \in flying'
                   PROVE  Waited(q, t, d)'
        BY <2>1 DEF NoneLeftBehind, Waited
      <3>1. Waited(q, t, d) /\ <<q, t, d>> # <<r, turn, c>>
        BY <2>1 DEF Behind, NoneLeftBehind, Waited
      <3> QED
        BY <2>1, <2>2, <3>1 DEF Waited
    <2> QED
      BY <2>3, <2>4
  <1>8. ASSUME NEW r \in Runs, Poll(r)
        PROVE  Young' /\ NoneLeftBehind'
    <2>1. /\ Loop(r)
          /\ tracked' = tracked \ {r}
          /\ UNCHANGED <<strategy, latency, flying>>
          /\ isResolved(r)
          /\ pc[r] = "waiting"
      BY <1>8 DEF Poll, Behind, Kept, NothingLeft
    <2>2. ASSUME strategy = "inject_when_all", latency < Ttl,
                 NEW turn \in 1..MaxTurns, NEW c \in Calls
          PROVE  <<r, turn, c>> \notin flying
      <3>1. With(r, "running") = {}
        BY <2>1, <2>2 DEF isResolved, allTerminal
      <3> QED
        BY <2>2, <3>1 DEF Behind, NoneLeftBehind, With
    <2> QED
      BY <2>1, <2>2, LoopBehind
  <1>11. ASSUME NEW r \in Runs, PollThrows(r)
         PROVE  Young' /\ NoneLeftBehind'
    <2>1. /\ pc' = [pc EXCEPT ![r] = "unformatted"]
          /\ UNCHANGED <<strategy, latency, left, tracked, age, status, flying>>
          /\ isResolved(r)
      BY <1>11 DEF PollThrows
    <2>2. Young'
      BY <1>0, <2>1 DEF Behind, Young, With, TypeOK
    <2>3. NoneLeftBehind'
      <3> SUFFICES ASSUME strategy = "inject_when_all", latency < Ttl,
                          NEW q \in Runs, NEW t \in 1..MaxTurns, NEW d \in Calls,
                          <<q, t, d>> \in flying
                   PROVE  Waited(q, t, d)'
        BY <2>1 DEF NoneLeftBehind, Waited
      <3>1. Waited(q, t, d)
        BY DEF Behind, NoneLeftBehind, Waited
      <3>2. q # r
        BY <2>1, <3>1 DEF Waited, isResolved, allTerminal, With
      <3> QED
        BY <1>0, <2>1, <3>1, <3>2 DEF Waited, TypeOK
    <2> QED
      BY <2>2, <2>3
  <1>9. ASSUME NEW r \in Runs, TurnExpires(r)
        PROVE  Young' /\ NoneLeftBehind'
    <2>1. /\ tracked' = tracked \ {r} /\ r \in tracked /\ age[r] >= Ttl
          /\ UNCHANGED <<strategy, latency, pc, left, age, status, flying>>
      BY <1>9 DEF TurnExpires
    <2>2. Young'
      BY <2>1 DEF Behind, Young, With
    <2>3. ASSUME latency < Ttl
          PROVE  With(r, "running") = {}
      BY <1>0, <2>1, <2>3, AsyncAssumption DEF Behind, Young, TypeOK
    <2>4. NoneLeftBehind'
      <3> SUFFICES ASSUME strategy = "inject_when_all", latency < Ttl,
                          NEW q \in Runs, NEW t \in 1..MaxTurns, NEW d \in Calls,
                          <<q, t, d>> \in flying
                   PROVE  Waited(q, t, d)'
        BY <2>1 DEF NoneLeftBehind, Waited
      <3>1. Waited(q, t, d)
        BY DEF Behind, NoneLeftBehind, Waited
      <3>2. q # r
        BY <2>3, <3>1 DEF Waited, With
      <3> QED
        BY <2>1, <3>1, <3>2 DEF Waited
    <2> QED
      BY <2>2, <2>4
  <1>10. CASE Tick
    <2>1. /\ UNCHANGED <<strategy, latency, pc, left, tracked, status, flying>>
          /\ \A r \in Runs : r \in tracked /\ With(r, "running") # {} => age[r] < latency
          /\ age' = [r \in Runs |-> IF r \in tracked THEN age[r] + 1 ELSE age[r]]
      BY <1>10 DEF Tick
    <2>2. NoneLeftBehind'
      BY <2>1 DEF Behind, NoneLeftBehind
    <2>3. \A r \in tracked : pc[r] \in {"waiting", "unformatted"} /\ r \in Runs
      BY <1>0 DEF Behind, Kept, NothingLeft, TypeOK
    <2>4. \A r \in tracked : With(r, "running")' # {} => age'[r] <= latency
      BY <1>0, <2>1, <2>3, AsyncAssumption DEF With, TypeOK
    <2>5. Young'
      BY <1>0, <2>1, <2>3, <2>4 DEF Behind, Young
    <2> QED
      BY <2>2, <2>5
  <1> QED
    BY <1>1, <1>3, <1>4, <1>5, <1>6, <1>7, <1>8, <1>9, <1>10,
       <1>11 DEF Next, Works, Timers, Ends

\* With inject_when_all no result comes back to a turn that was injected already
\* (isResolved, deleteTurn), for any number of runs, calls and turns.
THEOREM NoneIsLeftBehind == Spec => []NoneLeftBehind
  <1>1. Behind => NoneLeftBehind
    BY DEF Behind
  <1> QED
    BY <1>1, BehindInit, BehindStep, PTL DEF Spec
=============================================================================
