--------------------------- MODULE ExecutorPoolProofs ---------------------------
(***************************************************************************)
(* Theorems about the executor pool: the statistics agree with what runs   *)
(* and waits, the breaker opens in time, stays open until the reset        *)
(* timeout and then lets one probe through, which the limiter does not    *)
(* refuse; no window of time sees more calls than the limit.               *)
(***************************************************************************)
EXTENDS ExecutorPool, FiniteSetTheorems, SequenceTheorems, TLAPS

USE DEF slots

\* Each queued call is in the queue once and waits there.
QueueHolds ==
    /\ \A i \in DOMAIN queue : pc[queue[i]] = "queued"
    /\ \A i, j \in DOMAIN queue : queue[i] = queue[j] => i = j

SlotsInv == TypeOK /\ SlotsAccounted /\ QueueHolds

\* A half-open breaker has its probe, and an open one has let nobody through
\* since it opened.
BreakerInv ==
    /\ FailuresTrip
    /\ cb.state = "HALF_OPEN" => cb.probing
    /\ \A c \in Calls : at[c] <= now
    /\ cb.state = "OPEN" => \A c \in Calls : at[c] <= cb.openedAt

-----------------------------------------------------------------------------
(* Types of the operators *)

LEMMA AllowType == ASSUME TypeOK PROVE AfterAllow \in Breakers
BY DEF TypeOK, AfterAllow, Breakers

LEMMA SuccessType == ASSUME NEW b \in Breakers PROVE AfterSuccess(b) \in Breakers
BY DEF AfterSuccess, Breakers

LEMMA FailureType ==
    ASSUME TypeOK, NEW b \in Breakers
    PROVE  AfterFailure(b) \in Breakers
<1>1. b.failures + 1 \in Nat /\ now \in Nat
  BY DEF TypeOK, Breakers
<1>2. CASE Trips(b)
  BY <1>1, <1>2 DEF AfterFailure, Breakers
<1>3. CASE ~Trips(b)
  BY <1>1, <1>3 DEF AfterFailure, Breakers
<1>4. QED
  BY <1>2, <1>3

\* The calls that hold a slot are finitely many, and each one counts.
LEMMA BusyFinite ==
    /\ IsFiniteSet(Busy)
    /\ Cardinality(Busy) \in Nat
    /\ \A c \in Busy : Cardinality(Busy) > 0
<1>1. IsFiniteSet(Busy)
  BY PoolAssumption, FS_Subset DEF Busy
<1>2. QED
  BY <1>1, FS_CardinalityType, FS_EmptySet

\* The effect of a step on the number of slots held.
LEMMA BusySame ==
    ASSUME \A c \in Calls : pc[c] \in {"attempt", "backoff", "won", "lost"}
                               <=> pc'[c] \in {"attempt", "backoff", "won", "lost"}
    PROVE  Busy' = Busy
BY DEF Busy

-----------------------------------------------------------------------------
(* Slots *)

LEMMA SlotsInit == Init => SlotsInv
<1> SUFFICES ASSUME Init PROVE SlotsInv
  OBVIOUS
<1>1. Busy = {}
  BY DEF Init, Busy
<1>2. Cardinality(Busy) = 0
  BY <1>1, FS_EmptySet
<1>3. QED
  BY <1>2, PoolAssumption DEF Init, SlotsInv, TypeOK, SlotsAccounted, QueueHolds,
     Breakers, Places, Outcomes, Never

\* What a call does without touching the slots.
Elsewhere(c) ==
    Refused(c) \/ RateLimited(c) \/ AttemptEnds(c) \/ Retry(c)

LEMMA ElsewhereType ==
    ASSUME TypeOK, NEW c \in Calls, Elsewhere(c)
    PROVE  TypeOK'
<1> USE AllowType, SuccessType, FailureType DEF TypeOK
<1>1. CASE Refused(c)
  BY <1>1 DEF Refused, Places, Outcomes
<1>2. CASE RateLimited(c)
  BY <1>2 DEF RateLimited, Recent, Places, Outcomes
<1>3. CASE AttemptSucceeds(c)
  BY <1>3 DEF AttemptSucceeds, Places
<1>4. CASE AttemptFails(c)
  BY <1>4 DEF AttemptFails, NextAttempt, Places
<1>5. CASE OnOpenThrows(c)
  BY <1>5 DEF OnOpenThrows, Places
<1>6. CASE OnCloseThrows(c)
  <2>1. AfterSuccess(cb) \in Breakers
    OBVIOUS
  <2>2. AfterFailure(AfterSuccess(cb)) \in Breakers
    BY <2>1
  <2>3. QED
    BY <1>6, <2>2 DEF OnCloseThrows, NextAttempt, Places
<1>7. CASE Retry(c)
  BY <1>7 DEF Retry, Places
<1>8. QED
  BY <1>1, <1>2, <1>3, <1>4, <1>5, <1>6, <1>7 DEF Elsewhere, AttemptEnds

LEMMA ElsewhereSlots ==
    ASSUME SlotsInv, NEW c \in Calls, Elsewhere(c)
    PROVE  SlotsInv'
<1>1. TypeOK'
  BY ElsewhereType DEF SlotsInv
<1>2. /\ UNCHANGED slots
      /\ pc[c] # "queued"
      /\ \E s \in Places \ {"queued"} : pc' = [pc EXCEPT ![c] = s]
      /\ pc[c] \in {"attempt", "backoff", "won", "lost"}
            <=> pc'[c] \in {"attempt", "backoff", "won", "lost"}
  BY DEF SlotsInv, TypeOK, Elsewhere, Refused, RateLimited, AttemptEnds, AttemptSucceeds,
     AttemptFails, OnOpenThrows, OnCloseThrows, NextAttempt, Retry, Places
<1>3. Busy' = Busy
  BY <1>2, BusySame DEF SlotsInv, TypeOK
<1>4. SlotsAccounted'
  BY <1>2, <1>3 DEF SlotsInv, SlotsAccounted
<1>5. QueueHolds'
  BY <1>2 DEF SlotsInv, TypeOK, QueueHolds
<1>6. QED
  BY <1>1, <1>4, <1>5 DEF SlotsInv

LEMMA StartSlots ==
    ASSUME SlotsInv, NEW c \in Calls, StartNow(c)
    PROVE  SlotsInv'
<1> USE DEF SlotsInv
<1>1. TypeOK'
  BY AllowType DEF TypeOK, StartNow, Admit, Recent, Places
<1>2. Busy' = Busy \cup {c} /\ c \notin Busy
  BY DEF TypeOK, StartNow, Admit, Busy
<1>3. Cardinality(Busy') = Cardinality(Busy) + 1
  BY <1>2, BusyFinite, FS_AddElement
<1>4. queue = <<>>
  BY PoolAssumption DEF StartNow, SlotsAccounted, TypeOK
<1>5. SlotsAccounted'
  BY <1>3, <1>4, PoolAssumption DEF SlotsAccounted, StartNow, TypeOK
<1>6. QueueHolds'
  BY <1>4 DEF QueueHolds, StartNow
<1>7. QED
  BY <1>1, <1>5, <1>6

LEMMA EnqueueSlots ==
    ASSUME SlotsInv, NEW c \in Calls, Enqueue(c)
    PROVE  SlotsInv'
<1> USE DEF SlotsInv
<1>1. TypeOK'
  BY AllowType DEF TypeOK, Enqueue, Admit, Recent, Places
<1>2. Busy' = Busy
  BY BusySame DEF TypeOK, Enqueue, Admit
<1>3. executing = MaxConcurrent
  BY PoolAssumption DEF Enqueue, SlotsAccounted, TypeOK
<1>4. SlotsAccounted'
  BY <1>2, <1>3 DEF SlotsAccounted, Enqueue, TypeOK
<1>5. \A i \in DOMAIN queue : queue[i] # c
  BY DEF QueueHolds, Enqueue, Admit, TypeOK
<1>6. /\ DOMAIN queue' = DOMAIN queue \cup {Len(queue) + 1}
      /\ queue'[Len(queue) + 1] = c /\ Len(queue) + 1 \notin DOMAIN queue
      /\ \A i \in DOMAIN queue : queue'[i] = queue[i] /\ queue[i] \in Calls
  BY SMTT(30) DEF TypeOK, Enqueue
<1>7. pc'[c] = "queued" /\ \A d \in Calls \ {c} : pc'[d] = pc[d]
  BY DEF TypeOK, Enqueue
<1>8. \A i \in DOMAIN queue' : pc'[queue'[i]] = "queued"
  BY <1>5, <1>6, <1>7 DEF QueueHolds
<1>9. \A i, j \in DOMAIN queue' : queue'[i] = queue'[j] => i = j
  BY <1>5, <1>6 DEF QueueHolds
<1>10. QED
  BY <1>1, <1>4, <1>8, <1>9 DEF QueueHolds

\* At most one call waits for the slot that is given back.
LEMMA StartsOne ==
    ASSUME SlotsInv, NEW c \in Busy
    PROVE  /\ executing \in Nat \ {0}
           /\ Starts(MaxConcurrent - (executing - 1)) = IF queue = <<>> THEN 0 ELSE 1
<1>1. executing \in Nat \ {0}
  BY BusyFinite DEF SlotsInv, SlotsAccounted
<1>2. QED
  BY SMTT(30), <1>1, PoolAssumption DEF SlotsInv, SlotsAccounted, TypeOK, Starts

LEMMA FinishSlots ==
    ASSUME SlotsInv, NEW c \in Calls, Finish(c)
    PROVE  SlotsInv'
<1> USE DEF SlotsInv
<1>1. c \in Busy /\ pc[c] # "queued"
  BY DEF Finish, Busy
<1>2. IsFiniteSet(Busy) /\ Cardinality(Busy \ {c}) = Cardinality(Busy) - 1
  BY <1>1, BusyFinite, FS_RemoveElement
<1>3. CASE queue = <<>>
  <2>1. Starts(MaxConcurrent - (executing - 1)) = 0
    BY <1>1, <1>3, StartsOne
  <2>2. /\ executing' = executing - 1 /\ queued' = queued /\ queue' = <<>>
        /\ pc' = [d \in Calls |-> IF d = c THEN "done" ELSE pc[d]]
        /\ tries' = [d \in Calls |-> tries[d]]
    <3>1. \A d : d \notin {queue[i] : i \in 1 .. 0}
      OBVIOUS
    <3>2. SubSeq(queue, 1, Len(queue)) = <<>>
      BY <1>3
    <3>3. QED
      BY <2>1, <3>1, <3>2, <1>1, StartsOne DEF Finish, TypeOK
  <2>3. TypeOK'
    BY <2>2, <1>1, StartsOne DEF TypeOK, Finish, Places, Outcomes
  <2>4. Busy' = Busy \ {c}
    BY <2>2 DEF Busy
  <2>5. SlotsAccounted'
    BY <2>2, <2>4, <1>2, <1>3, PoolAssumption DEF SlotsAccounted, TypeOK
  <2>6. QueueHolds'
    BY <2>2 DEF QueueHolds
  <2>7. QED
    BY <2>3, <2>5, <2>6
<1>4. CASE queue # <<>>
  <2> DEFINE h == queue[1]
  <2>1. Starts(MaxConcurrent - (executing - 1)) = 1 /\ Len(queue) \in Nat \ {0}
    BY <1>1, <1>4, StartsOne DEF TypeOK
  <2>2. h \in Calls /\ pc[h] = "queued" /\ h # c
    BY <1>1, <2>1 DEF QueueHolds, TypeOK
  <2>3. /\ executing' = executing /\ queued' = queued - 1
        /\ queue' = SubSeq(queue, 2, Len(queue))
        /\ pc' = [d \in Calls |-> IF d = c THEN "done" ELSE IF d = h THEN "attempt" ELSE pc[d]]
        /\ tries' = [d \in Calls |-> IF d = h THEN 1 ELSE tries[d]]
    <3>1. {queue[i] : i \in 1 .. 1} = {h}
      OBVIOUS
    <3>2. \A d : d \in {queue[i] : i \in 1 .. 1} <=> d = h
      BY <3>1
    <3>3. /\ executing' = executing - 1 + 1 /\ queued' = queued - 1
          /\ queue' = SubSeq(queue, 1 + 1, Len(queue))
          /\ pc' = [d \in Calls |-> IF d = c THEN "done"
                       ELSE IF d \in {queue[i] : i \in 1 .. 1} THEN "attempt" ELSE pc[d]]
          /\ tries' = [d \in Calls |-> IF d \in {queue[i] : i \in 1 .. 1} THEN 1 ELSE tries[d]]
      BY SMTT(30), <2>1 DEF Finish
    <3>4. executing - 1 + 1 = executing /\ 1 + 1 = 2
      BY <1>1, StartsOne
    <3>5. QED
      BY <3>2, <3>3, <3>4
  <2>4. /\ queue' \in Seq(Calls) /\ Len(queue') = Len(queue) - 1
        /\ DOMAIN queue' = 1 .. Len(queue) - 1 /\ DOMAIN queue = 1 .. Len(queue)
        /\ \A i \in DOMAIN queue' : /\ i + 1 \in DOMAIN queue /\ i + 1 # 1
                                    /\ queue'[i] = queue[i + 1]
    <3>1. /\ DOMAIN queue = 1 .. Len(queue) /\ Len(queue) \in Int
          /\ \A i \in 1 .. Len(queue) : queue[i] \in Calls
      BY DEF TypeOK
    <3>2. \A i \in 2 .. Len(queue) : queue[i] \in Calls
      BY <3>1
    <3>3. /\ queue' \in Seq(Calls)
          /\ Len(queue') = IF 2 <= Len(queue) THEN Len(queue) - 2 + 1 ELSE 0
          /\ \A i \in 1 .. Len(queue) - 2 + 1 : queue'[i] = queue[2 + i - 1]
      BY <2>3, <3>1, <3>2, SubSeqProperties
    <3>4. Len(queue') = Len(queue) - 1 /\ Len(queue) - 2 + 1 = Len(queue) - 1
      <4>1. Len(queue') = IF 2 <= Len(queue) THEN Len(queue) - 2 + 1 ELSE 0
        BY <3>3
      <4>2. ASSUME NEW n \in Nat \ {0}
            PROVE  (IF 2 <= n THEN n - 2 + 1 ELSE 0) = n - 1 /\ n - 2 + 1 = n - 1
        OBVIOUS
      <4>3. QED
        BY <4>1, <4>2, <2>1
    <3>5. DOMAIN queue' = 1 .. Len(queue) - 1
      BY <3>3, <3>4
    <3>6. ASSUME NEW i \in DOMAIN queue'
          PROVE  i + 1 \in DOMAIN queue /\ i + 1 # 1 /\ queue'[i] = queue[i + 1]
      <4>1. i \in 1 .. Len(queue) - 1 /\ 2 + i - 1 = i + 1
        BY <3>5
      <4>2. queue'[i] = queue[2 + i - 1]
        BY <4>1, <3>3, <3>4
      <4>3. i + 1 \in 1 .. Len(queue) /\ i + 1 # 1
        BY <4>1, <3>1
      <4>4. QED
        BY <4>1, <4>2, <4>3, <3>1
    <3>7. QED
      BY <3>1, <3>3, <3>4, <3>5, <3>6
  <2>5. TypeOK'
    <3>1. queued' \in Nat
      BY <2>1, <2>3 DEF SlotsAccounted, TypeOK
    <3>2. pc' \in [Calls -> Places] /\ tries' \in [Calls -> Nat]
      BY <2>3 DEF TypeOK, Places
    <3>3. outcome' \in [Calls -> Outcomes] /\ UNCHANGED <<cb, stamped, at, now, throws>>
      BY DEF TypeOK, Finish, Outcomes
    <3>4. QED
      BY <2>3, <2>4, <3>1, <3>2, <3>3 DEF TypeOK
  <2>6. Busy' = (Busy \ {c}) \cup {h} /\ h \notin Busy
    BY <2>2, <2>3 DEF Busy
  <2>7. Cardinality(Busy') = Cardinality(Busy)
    <3>1. IsFiniteSet(Busy \ {c}) /\ h \notin Busy \ {c}
      BY <1>2, <2>6, FS_RemoveElement
    <3>2. Cardinality((Busy \ {c}) \cup {h}) = Cardinality(Busy \ {c}) + 1
      BY <3>1, FS_AddElement
    <3>3. QED
      BY <3>2, <1>2, <2>6, BusyFinite
  <2>8. SlotsAccounted'
    BY <2>3, <2>4, <2>7, <1>4 DEF SlotsAccounted, TypeOK
  <2>9. QueueHolds'
    <3>1. \A i \in DOMAIN queue : /\ pc[queue[i]] = "queued" /\ queue[i] \in Calls
                                 /\ queue[i] # c /\ (i # 1 => queue[i] # h)
      <4>1. 1 \in DOMAIN queue
        BY <2>1, <2>4
      <4>2. QED
        BY <1>1, <4>1 DEF QueueHolds, TypeOK
    <3>2. \A i \in DOMAIN queue' : pc'[queue'[i]] = "queued"
      BY <3>1, <2>3, <2>4
    <3>3. \A i, j \in DOMAIN queue' : queue'[i] = queue'[j] => i = j
      <4> SUFFICES ASSUME NEW i \in DOMAIN queue', NEW j \in DOMAIN queue', queue'[i] = queue'[j]
                   PROVE  i = j
        OBVIOUS
      <4>1. i \in Nat /\ j \in Nat
        BY <2>1, <2>4
      <4>2. i + 1 = j + 1
        BY <2>4 DEF QueueHolds
      <4>3. QED
        BY <4>1, <4>2
    <3>4. QED
      BY <3>2, <3>3 DEF QueueHolds
  <2>10. QED
    BY <2>5, <2>8, <2>9
<1>5. QED
  BY <1>3, <1>4

LEMMA SlotsStep == SlotsInv /\ [Next]_vars => SlotsInv'
<1> SUFFICES ASSUME SlotsInv, [Next]_vars PROVE SlotsInv'
  OBVIOUS
<1>1. ASSUME NEW c \in Calls, Elsewhere(c) PROVE SlotsInv'
  BY <1>1, ElsewhereSlots
<1>2. ASSUME NEW c \in Calls, StartNow(c) \/ Enqueue(c) \/ Finish(c) PROVE SlotsInv'
  BY <1>2, StartSlots, EnqueueSlots, FinishSlots
<1>3. CASE Tick \/ UNCHANGED vars
  <2>1. UNCHANGED <<slots, pc, cb, stamped, at, tries, outcome>> /\ now' \in Nat /\ throws' \in Nat
    BY <1>3 DEF Tick, vars, SlotsInv, TypeOK
  <2>2. Busy' = Busy
    BY <2>1, BusySame
  <2>3. TypeOK'
    BY <2>1 DEF SlotsInv, TypeOK
  <2>4. SlotsAccounted'
    BY <2>1, <2>2 DEF SlotsInv, SlotsAccounted
  <2>5. QueueHolds'
    BY <2>1 DEF SlotsInv, QueueHolds
  <2>6. QED
    BY <2>3, <2>4, <2>5 DEF SlotsInv
<1>4. QED
  BY <1>1, <1>2, <1>3 DEF Next, Execute, Elsewhere

LEMMA SlotsInvariant == Spec => []SlotsInv
BY SlotsInit, SlotsStep, PTL DEF Spec

\* Every variable of the pool keeps its type; in particular no counter of the
\* statistics falls below zero.
THEOREM PoolTypes == Spec => []TypeOK
<1>1. SlotsInv => TypeOK
  BY DEF SlotsInv
<1>2. QED
  BY <1>1, SlotsInvariant, PTL

\* stats.executing and stats.queued count what runs and waits, max_concurrent
\* holds, and no call waits next to a free slot, for every number of calls.
THEOREM SlotsAreAccounted == Spec => []SlotsAccounted
<1>1. SlotsInv => SlotsAccounted
  BY DEF SlotsInv
<1>2. QED
  BY <1>1, SlotsInvariant, PTL

-----------------------------------------------------------------------------
(* The breaker *)

\* What a step does to the breaker: a call is let through, an attempt ends in
\* one of four ways, or nothing, while time may pass.
Admitted ==
    /\ Allows
    /\ cb' = AfterAllow
    /\ now' = now
    /\ \A c \in Calls : at'[c] \in {at[c], now}

Counted ==
    /\ \/ cb' = AfterSuccess(cb)
       \/ cb' = AfterFailure(cb)
       \/ cb.state = "HALF_OPEN" /\ cb' = AfterFailure(AfterSuccess(cb))
    /\ UNCHANGED <<at, now>>

Untouched == UNCHANGED <<cb, at>> /\ now' \in {now, now + 1}

LEMMA BreakerMoves ==
    ASSUME TypeOK, [Next]_vars
    PROVE  Admitted \/ Counted \/ Untouched
<1>1. ASSUME NEW c \in Calls, Execute(c) PROVE Admitted \/ Untouched
  <2>1. CASE Refused(c)
    BY <2>1 DEF Refused, Untouched
  <2>2. CASE RateLimited(c)
    BY <2>2 DEF RateLimited, Admitted
  <2>3. CASE Admit(c) /\ UNCHANGED now
    BY <2>3 DEF Admit, Admitted, TypeOK
  <2>4. QED
    BY <1>1, <2>1, <2>2, <2>3 DEF Execute, StartNow, Enqueue
<1>2. ASSUME NEW c \in Calls, AttemptEnds(c) PROVE Counted
  BY <1>2 DEF AttemptEnds, AttemptSucceeds, AttemptFails, OnOpenThrows, OnCloseThrows, Counted
<1>3. ASSUME NEW c \in Calls, Retry(c) \/ Finish(c) PROVE Untouched
  BY <1>3 DEF Retry, Finish, Untouched
<1>4. CASE Tick \/ UNCHANGED vars
  BY <1>4 DEF Tick, vars, Untouched
<1>5. QED
  BY <1>1, <1>2, <1>3, <1>4 DEF Next

LEMMA BreakerInit == Init => BreakerInv
BY PoolAssumption DEF Init, BreakerInv, FailuresTrip, Never

LEMMA BreakerStep ==
    ASSUME TypeOK, BreakerInv, [Next]_vars
    PROVE  BreakerInv'
<1> USE DEF BreakerInv, FailuresTrip
<1>1. /\ now \in Nat /\ Threshold \in Nat \ {0} /\ cb \in Breakers
      /\ \A c \in Calls : at[c] \in Int
  BY PoolAssumption DEF TypeOK
<1>2. CASE Admitted
  BY <1>1, <1>2 DEF Admitted, AfterAllow, Breakers
<1>3. CASE Counted
  <2>1. CASE cb' = AfterSuccess(cb)
    BY <1>1, <1>3, <2>1 DEF Counted, AfterSuccess, Breakers
  <2>2. CASE cb' = AfterFailure(cb)
    BY <1>1, <1>3, <2>2 DEF Counted, AfterFailure, Trips, Breakers
  <2>3. CASE cb.state = "HALF_OPEN" /\ cb' = AfterFailure(AfterSuccess(cb))
    <3>1. AfterSuccess(cb) = [cb EXCEPT !.state = "CLOSED", !.failures = 0,
                                        !.openedAt = 0, !.probing = FALSE]
      BY <2>3 DEF AfterSuccess
    <3>2. AfterSuccess(cb).state = "CLOSED" /\ AfterSuccess(cb).failures = 0
      BY <1>1, <3>1 DEF Breakers
    <3>3. CASE Trips(AfterSuccess(cb))
      <4>1. cb'.state = "OPEN" /\ cb'.openedAt = now
        BY <2>3, <3>3 DEF AfterFailure
      <4>2. QED
        BY <1>3, <4>1 DEF Counted
    <3>4. CASE ~Trips(AfterSuccess(cb))
      <4>1. cb' = [AfterSuccess(cb) EXCEPT !.failures = AfterSuccess(cb).failures + 1]
        BY <2>3, <3>4 DEF AfterFailure
      <4>2. cb'.state = "CLOSED" /\ cb'.failures = 1
        BY <1>1, <3>1, <4>1 DEF Breakers
      <4>3. 1 < Threshold
        BY <1>1, <3>2, <3>4 DEF Trips
      <4>4. QED
        BY <1>3, <4>2, <4>3 DEF Counted
    <3>5. QED
      BY <3>3, <3>4
  <2>4. QED
    BY <1>3, <2>1, <2>2, <2>3 DEF Counted
<1>4. CASE Untouched
  BY <1>1, <1>4 DEF Untouched
<1>5. QED
  BY <1>2, <1>3, <1>4, BreakerMoves

LEMMA BreakerInvariant == Spec => []BreakerInv
<1>1. TypeOK /\ BreakerInv /\ [Next]_vars => BreakerInv'
  BY BreakerStep
<1>2. QED
  BY <1>1, BreakerInit, PoolTypes, PTL DEF Spec

\* A closed breaker has counted fewer failures than its threshold, late results
\* of calls of an earlier state included, for every threshold.
THEOREM FailuresTripTheBreaker == Spec => []FailuresTrip
<1>1. BreakerInv => FailuresTrip
  BY DEF BreakerInv
<1>2. QED
  BY <1>1, BreakerInvariant, PTL

\* The rate limiter never refuses a probe, because the reset timeout is at least
\* as long as its window: nobody was let through since the breaker opened.
THEOREM ProbesAcquire == Spec => []ProbeAcquires
<1>1. ASSUME TypeOK, BreakerInv, Allows, cb.state # "CLOSED"
      PROVE  Acquires
  <2>1. cb.state = "OPEN" /\ now - cb.openedAt >= ResetTimeout
    BY <1>1 DEF Allows, BreakerInv
  <2>2. now \in Nat /\ cb.openedAt \in Nat /\ Window \in Nat /\ MaxRps \in Nat \ {0}
        /\ ResetTimeout \in Nat /\ ResetTimeout >= Window
    BY <1>1, PoolAssumption DEF TypeOK, Breakers
  <2>3. \A c \in stamped : at[c] \in Int /\ at[c] <= cb.openedAt
    BY <1>1, <2>1 DEF TypeOK, BreakerInv
  <2>4. \A c \in stamped : ~(at[c] > now - Window)
    BY <2>1, <2>2, <2>3
  <2>5. Recent = {}
    BY <2>4 DEF Recent
  <2>6. QED
    BY <2>2, <2>5, FS_EmptySet DEF Acquires
<1>2. TypeOK /\ BreakerInv => ProbeAcquires
  BY <1>1 DEF ProbeAcquires
<1>3. QED
  BY <1>2, PoolTypes, BreakerInvariant, PTL

\* No late success closes an open breaker: it is left only for HALF_OPEN, once
\* the reset timeout is over.
THEOREM OpenUntilItsProbe == Spec => OpenUntilProbe
<1>1. ASSUME TypeOK, [Next]_vars, cb.state = "OPEN", cb'.state # "OPEN"
      PROVE  cb'.state = "HALF_OPEN" /\ now - cb.openedAt >= ResetTimeout
  <2>1. cb \in Breakers
    BY <1>1 DEF TypeOK
  <2>2. CASE Admitted
    BY <1>1, <2>1, <2>2 DEF Admitted, Allows, AfterAllow, Breakers
  <2>3. ~Counted
    BY <1>1, <2>1 DEF Counted, AfterSuccess, AfterFailure, Trips, Breakers
  <2>4. ~Untouched
    BY <1>1 DEF Untouched
  <2>5. QED
    BY <1>1, <2>2, <2>3, <2>4, BreakerMoves
<1>2. TypeOK /\ [Next]_vars =>
        [cb.state = "OPEN" /\ cb'.state # "OPEN" =>
           cb'.state = "HALF_OPEN" /\ now - cb.openedAt >= ResetTimeout]_vars
  BY <1>1
<1>3. QED
  BY <1>2, PoolTypes, PTL DEF Spec, OpenUntilProbe

\* While a probe is out and the breaker stays half open, every further call is
\* refused, whichever queued calls start meanwhile.
THEOREM ProbesAreSingle == Spec => OneProbe
<1>1. ASSUME SlotsInv, BreakerInv, [Next]_vars, cb.state = "HALF_OPEN",
             NEW c \in Calls, pc[c] = "new", pc'[c] # "new"
      PROVE  outcome'[c] = "circuit_open"
  <2>1. ~Allows
    BY <1>1 DEF Allows, BreakerInv
  <2>2. ASSUME NEW d \in Calls, Execute(d) PROVE outcome'[c] = "circuit_open"
    BY <1>1, <2>1, <2>2 DEF Execute, Refused, RateLimited, StartNow, Enqueue, Admit, SlotsInv, TypeOK
  <2>3. ASSUME NEW d \in Calls, AttemptEnds(d) \/ Retry(d) PROVE FALSE
    BY <1>1, <2>3 DEF AttemptEnds, AttemptSucceeds, AttemptFails, OnOpenThrows, OnCloseThrows,
       NextAttempt, Retry, SlotsInv, TypeOK
  <2>4. ASSUME NEW d \in Calls, Finish(d) PROVE FALSE
    <3> DEFINE n == Starts(MaxConcurrent - (executing - 1))
    <3>1. \A i \in 1 .. n : i \in DOMAIN queue
      BY SMTT(30), <1>1, PoolAssumption DEF Starts, SlotsInv, TypeOK
    <3>2. c \notin {queue[i] : i \in 1 .. n} /\ c # d
      BY <1>1, <2>4, <3>1 DEF SlotsInv, QueueHolds, Finish
    <3>3. pc'[c] = IF c = d THEN "done"
                   ELSE IF c \in {queue[i] : i \in 1 .. n} THEN "attempt" ELSE pc[c]
      BY <2>4 DEF Finish
    <3>4. QED
      BY <1>1, <3>2, <3>3
  <2>5. ~(Tick \/ UNCHANGED vars)
    BY <1>1 DEF Tick, vars
  <2>6. QED
    BY <1>1, <2>2, <2>3, <2>4, <2>5 DEF Next
<1>2. SlotsInv /\ BreakerInv /\ [Next]_vars =>
        [cb.state = "HALF_OPEN" /\ cb'.state = "HALF_OPEN" =>
           \A c \in Calls : pc[c] = "new" /\ pc'[c] # "new" => outcome'[c] = "circuit_open"]_vars
  BY <1>1
<1>3. QED
  BY <1>2, SlotsInvariant, BreakerInvariant, PTL DEF Spec, OneProbe

-----------------------------------------------------------------------------
(* The limiter *)

\* The calls let through in the window that begins at t.
Within(t) == {c \in Calls : at[c] \in t .. t + Window - 1}

\* The limiter has forgotten no call of its current window.
Remembers == \A c \in Calls : at[c] # Never /\ at[c] > now - Window => c \in stamped

RateInv == RateBounded /\ Remembers

LEMMA WithinFinite ==
    ASSUME NEW S \in SUBSET Calls, NEW T \in SUBSET S
    PROVE  IsFiniteSet(S) /\ Cardinality(S) \in Nat /\ Cardinality(T) \in Nat
           /\ Cardinality(T) <= Cardinality(S)
BY PoolAssumption, FS_Subset, FS_CardinalityType

\* The calls admitted by now, the present one included, fit any window that
\* holds the present moment.
LEMMA AdmitRate ==
    ASSUME TypeOK, BreakerInv, RateInv, NEW c \in Calls, Admit(c), now' = now
    PROVE  RateInv'
<1>1. /\ now \in Nat /\ Window \in Nat \ {0} /\ MaxRps \in Nat \ {0}
      /\ \A d \in Calls : at[d] \in Int /\ at'[d] = IF d = c THEN now ELSE at[d]
      /\ stamped' = Recent \cup {c} /\ Recent \subseteq Calls
  BY PoolAssumption DEF TypeOK, Admit, Recent
<1>2. Remembers'
  BY <1>1 DEF RateInv, Remembers, Recent
<1>3. ASSUME NEW t \in 0 .. now PROVE Cardinality(Within(t)') <= MaxRps
  <2>1. t \in Nat /\ Window' = Window
    BY <1>1
  <2>2. CASE now \in t .. t + Window - 1
    <3>1. \A d \in Calls \ {c} : at'[d] \in t .. t + Window - 1 => d \in Recent
      BY <1>1, <2>1, <2>2 DEF RateInv, Remembers, Recent, Never
    <3>2. Within(t)' \subseteq Recent \cup {c} /\ Recent \cup {c} \subseteq Calls
      BY <1>1, <3>1 DEF Within
    <3>3. Cardinality(Within(t)') <= Cardinality(Recent \cup {c})
          /\ Cardinality(Within(t)') \in Nat /\ Cardinality(Recent \cup {c}) \in Nat
      BY <3>2, WithinFinite
    <3>4. IsFiniteSet(Recent) /\ Cardinality(Recent) \in Nat
      BY <1>1, WithinFinite
    <3>5. Cardinality(Recent \cup {c}) \in {Cardinality(Recent), Cardinality(Recent) + 1}
      BY <3>4, FS_AddElement
    <3>6. Cardinality(Recent) < MaxRps
      BY DEF Admit, Acquires
    <3>7. QED
      BY <1>1, <3>3, <3>4, <3>5, <3>6
  <2>3. CASE now \notin t .. t + Window - 1
    <3>1. Within(t)' \subseteq Within(t) /\ Within(t) \subseteq Calls
      BY <1>1, <2>3 DEF Within
    <3>2. Cardinality(Within(t)') <= Cardinality(Within(t))
          /\ Cardinality(Within(t)') \in Nat /\ Cardinality(Within(t)) \in Nat
      BY <3>1, WithinFinite
    <3>3. Cardinality(Within(t)) <= MaxRps
      BY DEF RateInv, RateBounded, Within
    <3>4. QED
      BY <1>1, <3>2, <3>3
  <2>4. QED
    BY <2>2, <2>3
<1>4. RateBounded'
  BY <1>3 DEF RateBounded, Within
<1>5. QED
  BY <1>2, <1>4 DEF RateInv

LEMMA RateStep ==
    ASSUME TypeOK, BreakerInv, RateInv, [Next]_vars
    PROVE  RateInv'
<1>1. ASSUME NEW c \in Calls, StartNow(c) \/ Enqueue(c) PROVE RateInv'
  BY <1>1, AdmitRate DEF StartNow, Enqueue
<1>2. ASSUME NEW c \in Calls, RateLimited(c) PROVE RateInv'
  BY <1>2 DEF RateLimited, RateInv, RateBounded, Remembers, Recent
<1>3. ASSUME NEW c \in Calls, Refused(c) \/ AttemptEnds(c) \/ Retry(c) \/ Finish(c)
      PROVE  RateInv'
  <2>1. UNCHANGED <<stamped, at, now>>
    BY <1>3 DEF Refused, AttemptEnds, AttemptSucceeds, AttemptFails, OnOpenThrows,
       OnCloseThrows, Retry, Finish
  <2>2. QED
    BY <2>1 DEF RateInv, RateBounded, Remembers
<1>4. CASE Tick
  <2>1. /\ now' = now + 1 /\ now \in Nat /\ Window \in Nat \ {0} /\ MaxRps \in Nat \ {0}
        /\ UNCHANGED <<stamped, at>>
        /\ \A c \in Calls : at[c] \in Int /\ at[c] <= now
    BY <1>4, PoolAssumption DEF Tick, TypeOK, BreakerInv
  <2>2. Remembers'
    BY <2>1 DEF RateInv, Remembers
  <2>3. Within(now + 1) = {}
    BY <2>1 DEF Within
  <2>4. Cardinality(Within(now + 1)) <= MaxRps
    BY <2>1, <2>3, FS_EmptySet
  <2>5. \A t \in 0 .. now + 1 : t \in 0 .. now \/ t = now + 1
    BY <2>1
  <2>6. RateBounded'
    BY <2>1, <2>4, <2>5 DEF RateInv, RateBounded, Within
  <2>7. QED
    BY <2>2, <2>6 DEF RateInv
<1>5. CASE UNCHANGED vars
  BY <1>5 DEF vars, RateInv, RateBounded, Remembers
<1>6. QED
  BY <1>1, <1>2, <1>3, <1>4, <1>5 DEF Next, Execute

LEMMA RateInit == Init => RateInv
<1> SUFFICES ASSUME Init PROVE RateInv
  OBVIOUS
<1>1. \A t \in 0 .. now : {c \in Calls : at[c] \in t .. t + Window - 1} = {}
  BY PoolAssumption DEF Init, Never
<1>2. Remembers
  BY DEF Init, Remembers
<1>3. RateBounded
  <2> SUFFICES ASSUME NEW t \in 0 .. now
               PROVE  Cardinality({c \in Calls : at[c] \in t .. t + Window - 1}) <= MaxRps
    BY DEF RateBounded
  <2>1. Cardinality({c \in Calls : at[c] \in t .. t + Window - 1}) = 0
    BY <1>1, FS_EmptySet
  <2>2. MaxRps \in Nat
    BY PoolAssumption
  <2>3. QED
    BY <2>1, <2>2
<1>4. QED
  BY <1>2, <1>3 DEF RateInv

\* No window of time, wherever it begins, sees more calls let through than
\* requests_per_second, although each call checks only the window it ends.
THEOREM RateIsBounded == Spec => []RateBounded
<1>1. TypeOK /\ BreakerInv /\ RateInv /\ [Next]_vars => RateInv'
  BY RateStep
<1>2. RateInv => RateBounded
  BY DEF RateInv
<1>3. QED
  BY <1>1, <1>2, RateInit, PoolTypes, BreakerInvariant, PTL DEF Spec
=============================================================================
