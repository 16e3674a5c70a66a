------------------------- MODULE StaffOverrideProofs -------------------------
(***************************************************************************)
(* Theorems about the staff's takeover: it is timed, and a pause that the  *)
(* bus has delivered belongs to a takeover, up to what a publication that  *)
(* threw has left undone.                                                  *)
(***************************************************************************)
EXTENDS StaffOverride, SequenceTheorems, TLAPS

\* A step of one handler, an event from elsewhere, or a delivery.
LEMMA Steps ==
    ASSUME Next
    PROVE  \/ \E h \in Duties : \/ Keyword(h) \/ KeywordLost(h) \/ PauseThrows(h)
                                \/ HandedOff(h) \/ Command(h) \/ CommandEnds(h)
                                \/ ResumeCommand(h) \/ TimerFires(h)
                                \/ Resumed(h) \/ ResumedThrows(h)
           \/ ResumedElsewhere
           \/ Deliver
  BY DEF Next, Works

\* A handler's next task is a task.
LEMMA BecomeTyped ==
    ASSUME duty \in [Duties -> Tasks], NEW h \in Duties, NEW from, NEW to \in Tasks,
           Become(h, from, to)
    PROVE  duty' \in [Duties -> Tasks]
  BY DEF Become

\* A published message joins the sequence of messages.
LEMMA PublishTyped ==
    ASSUME wire \in Seq(Messages), NEW m \in Messages, Publish(m)
    PROVE  /\ wire' \in Seq(Messages)
           /\ wire' # <<>>
           /\ wire'[Len(wire')] = m
  BY DEF Publish

\* What throws is counted.
LEMMA FaultTyped ==
    ASSUME faults \in Nat, Fault
    PROVE  faults' \in Nat
  BY DEF Fault

\* A takeover that ends, whether or not its resume is lost.
LEMMA DeactivateTyped ==
    ASSUME TypeOK, NEW h \in Duties, Deactivate(h)
    PROVE  /\ activated' = FALSE /\ timer' = FALSE
           /\ duty' \in [Duties -> Tasks]
           /\ wire' \in Seq(Messages)
           /\ faults' \in Nat
           /\ undone' \subseteq Omissions
           /\ Publish("RESUME") \/ (wire' = wire /\ "resume" \in undone')
  <1> USE DEF TypeOK
  <1>0. activated' = FALSE /\ timer' = FALSE
    BY DEF Deactivate
  <1>1. CASE Become(h, "idle", "resuming") /\ Publish("RESUME") /\ undone' = {} /\ UNCHANGED faults
    <2>1. duty' \in [Duties -> Tasks]
      BY <1>1, BecomeTyped DEF Tasks
    <2>2. wire' \in Seq(Messages)
      BY <1>1, PublishTyped DEF Messages
    <2>3. faults' \in Nat /\ undone' \subseteq Omissions
      BY <1>1
    <2> QED
      BY <1>0, <1>1, <2>1, <2>2, <2>3 DEF Publish
  <1>2. CASE Fault /\ undone' = {"resume"} /\ UNCHANGED <<duty, wire>>
    BY <1>2, FaultTyped DEF Deactivate, Omissions
  <1> QED
    BY <1>1, <1>2 DEF Deactivate

\* The initial state has the types.
LEMMA TypeInit == Init => TypeOK
  <1> SUFFICES ASSUME Init PROVE TypeOK
    OBVIOUS
  <1> USE DEF Init
  <1>1. wire \in Seq(Messages) /\ {heard, faults} \subseteq Nat /\ undone \subseteq Omissions
    OBVIOUS
  <1>2. duty \in [Duties -> Tasks]
    BY DEF Tasks
  <1>3. {activated, timer, paused} \subseteq BOOLEAN
    BY Zenon
  <1> QED
    BY <1>1, <1>2, <1>3, Zenon DEF TypeOK

LEMMA TypeStep == TypeOK /\ [Next]_vars => TypeOK'
  <1> SUFFICES ASSUME TypeOK, [Next]_vars
               PROVE  TypeOK'
    OBVIOUS
  <1> USE DEF TypeOK
  <1>1. CASE UNCHANGED vars
    BY <1>1 DEF vars
  <1>2. ASSUME NEW h \in Duties, Keyword(h)
        PROVE  TypeOK'
    <2>1. duty' \in [Duties -> Tasks]
      BY <1>2, BecomeTyped DEF Keyword, Tasks
    <2>2. wire' \in Seq(Messages)
      BY <1>2, PublishTyped DEF Keyword, Messages
    <2> QED
      BY <1>2, <2>1, <2>2 DEF Keyword, Hear, faulty
  <1>3. ASSUME NEW h \in Duties, HandedOff(h)
        PROVE  TypeOK'
    <2>1. duty' \in [Duties -> Tasks]
      BY <1>3, BecomeTyped DEF HandedOff, Tasks
    <2> QED
      BY <1>3, <2>1 DEF HandedOff, Omissions
  <1>4. ASSUME NEW h \in Duties, Command(h)
        PROVE  TypeOK'
    <2>1. duty' \in [Duties -> Tasks]
      BY <1>4, BecomeTyped DEF Command, Tasks
    <2> QED
      BY <1>4, <2>1 DEF Command, Hear, Omissions
  <1>5. ASSUME NEW h \in Duties, CommandEnds(h)
        PROVE  TypeOK'
    <2>1. duty' \in [Duties -> Tasks]
      BY <1>5, BecomeTyped DEF CommandEnds, Tasks
    <2> QED
      BY <1>5, <2>1 DEF CommandEnds, faulty
  <1>6. ASSUME NEW h \in Duties, ResumeCommand(h)
        PROVE  TypeOK'
    <2>1. heard' \in Nat /\ paused' = paused
      BY <1>6 DEF ResumeCommand, Hear
    <2> QED
      BY <1>6, <2>1, DeactivateTyped DEF ResumeCommand
  <1>7. ASSUME NEW h \in Duties, TimerFires(h)
        PROVE  TypeOK'
    <2>1. CASE activated
      BY <1>7, <2>1, DeactivateTyped DEF TimerFires
    <2>2. CASE ~activated
      BY <1>7, <2>2 DEF TimerFires, faulty
    <2> QED
      BY <2>1, <2>2
  <1>8. ASSUME NEW h \in Duties, Resumed(h)
        PROVE  TypeOK'
    <2>1. duty' \in [Duties -> Tasks]
      BY <1>8, BecomeTyped DEF Resumed, Tasks
    <2>2. wire' \in Seq(Messages)
      BY <1>8, PublishTyped DEF Resumed, Messages
    <2> QED
      BY <1>8, <2>1, <2>2 DEF Resumed, Omissions
  <1>9. CASE ResumedElsewhere
    <2>1. wire' \in Seq(Messages)
      BY <1>9, PublishTyped DEF ResumedElsewhere, Messages
    <2> QED
      BY <1>9, <2>1 DEF ResumedElsewhere, Hear, Omissions
  <1>10. CASE Deliver
    <2>1. Tail(wire) \in Seq(Messages)
      BY <1>10 DEF Deliver
    <2>a. Append(Tail(wire), "RESUME") \in Seq(Messages)
      BY <2>1 DEF Messages
    <2>b. wire' = Tail(wire) \/ wire' = Append(Tail(wire), "RESUME")
      BY <1>10 DEF Deliver
    <2>2. wire' \in Seq(Messages)
      BY <2>1, <2>a, <2>b
    <2>3. faults' \in Nat /\ undone' \subseteq Omissions
      BY <1>10, FaultTyped DEF Deliver, Omissions, faulty
    <2>4. {activated', timer', paused'} \subseteq BOOLEAN
      BY <1>10 DEF Deliver
    <2> QED
      BY <1>10, <2>2, <2>3, <2>4 DEF Deliver
  <1>11. ASSUME NEW h \in Duties, KeywordLost(h)
         PROVE  TypeOK'
    BY <1>11, FaultTyped DEF KeywordLost, Hear, Omissions
  <1>12. ASSUME NEW h \in Duties, PauseThrows(h)
         PROVE  TypeOK'
    <2>1. duty' \in [Duties -> Tasks]
      BY <1>12, BecomeTyped DEF PauseThrows, Tasks
    <2>2. undone' \subseteq Omissions
      BY <1>12 DEF PauseThrows, Omissions
    <2> QED
      BY <1>12, <2>1, <2>2, FaultTyped DEF PauseThrows
  <1>13. ASSUME NEW h \in Duties, ResumedThrows(h)
         PROVE  TypeOK'
    <2>1. duty' \in [Duties -> Tasks]
      BY <1>13, BecomeTyped DEF ResumedThrows, Tasks
    <2> QED
      BY <1>13, <2>1, FaultTyped DEF ResumedThrows
  <1> QED
    BY <1>1, <1>2, <1>3, <1>4, <1>5, <1>6, <1>7, <1>8, <1>9, <1>10, <1>11, <1>12, <1>13, Steps

\* Every variable of the takeover keeps its type (staff-agent.ts).
THEOREM StaffTypes == Spec => []TypeOK
  BY TypeInit, TypeStep, PTL DEF Spec

-----------------------------------------------------------------------------

\* No step leaves a session with the staff without a timer or a handoff under way.
LEMMA TimedStep == TypeOK /\ TakeoverTimed /\ [Next]_vars => TakeoverTimed'
  <1> SUFFICES ASSUME TypeOK, TakeoverTimed, [Next]_vars, activated'
               PROVE  timer' \/ "timer" \in undone' \/ \E h \in Duties : duty'[h] = "handoff"
    BY DEF TakeoverTimed
  <1> USE DEF TypeOK, TakeoverTimed
  <1>1. CASE UNCHANGED vars
    BY <1>1 DEF vars
  <1>2. ASSUME NEW h \in Duties, Keyword(h)
        PROVE  \E g \in Duties : duty'[g] = "handoff"
    BY <1>2 DEF Keyword, Become
  <1>3. ASSUME NEW h \in Duties, HandedOff(h) \/ Command(h)
        PROVE  timer'
    BY <1>3 DEF HandedOff, Command
  <1>4. ASSUME NEW h \in Duties, CommandEnds(h) \/ Resumed(h) \/ ResumedThrows(h)
        PROVE  timer' \/ "timer" \in undone' \/ \E g \in Duties : duty'[g] = "handoff"
    <2>1. /\ UNCHANGED <<activated, timer>>
          /\ "timer" \in undone => "timer" \in undone'
          /\ \A g \in Duties : duty[g] = "handoff" => duty'[g] = "handoff"
      BY <1>4 DEF CommandEnds, Resumed, ResumedThrows, Become, faulty
    <2> QED
      BY <2>1
  <1>5. ASSUME NEW h \in Duties, ResumeCommand(h)
        PROVE  FALSE
    BY <1>5 DEF ResumeCommand, Deactivate
  <1>6. ASSUME NEW h \in Duties, TimerFires(h)
        PROVE  FALSE
    BY <1>6 DEF TimerFires, Deactivate
  <1>7. CASE ResumedElsewhere
    BY <1>7 DEF ResumedElsewhere
  <1>8. CASE Deliver
    BY <1>8 DEF Deliver, faulty
  <1>9. ASSUME NEW h \in Duties, KeywordLost(h) \/ PauseThrows(h)
        PROVE  timer' \/ "timer" \in undone'
    BY <1>9 DEF KeywordLost, PauseThrows
  <1> QED
    BY <1>1, <1>2, <1>3, <1>4, <1>5, <1>6, <1>7, <1>8, <1>9, Steps

\* A session with the staff has its auto-resume timer, or the handoff that will
\* arm it is under way, or its INTERACTION_PAUSE threw and the staff has been silent
\* since (staff-agent.ts, startAutoResumeTimer).
THEOREM TakeoversAreTimed == Spec => []TakeoverTimed
  <1>1. Init => TypeOK /\ TakeoverTimed
    BY TypeInit DEF Init, TakeoverTimed
  <1> QED
    BY <1>1, TypeStep, TimedStep, PTL DEF Spec

-----------------------------------------------------------------------------

\* Strengthens PauseMatched: the same holds of a pause that is the last message
\* under way, since whoever ends a takeover publishes after it, or loses what it
\* publishes.
PauseInv ==
    /\ PauseMatched
    /\ wire # <<>> => (wire[Len(wire)] = "PAUSE" => activated \/ "resume" \in undone)

LEMMA PauseStep == TypeOK /\ PauseInv /\ [Next]_vars => PauseInv'
  <1> SUFFICES ASSUME TypeOK, PauseInv, [Next]_vars
               PROVE  PauseInv'
    OBVIOUS
  <1> USE DEF TypeOK, PauseInv, PauseMatched
  <1>1. CASE UNCHANGED vars
    BY <1>1 DEF vars
  <1>2. ASSUME NEW h \in Duties, Keyword(h)
        PROVE  PauseInv'
    <2>1. wire' # <<>>
      BY <1>2, PublishTyped DEF Keyword, Messages
    <2> QED
      BY <1>2, <2>1 DEF Keyword
  <1>3. ASSUME NEW h \in Duties,
               \/ HandedOff(h) \/ Command(h) \/ CommandEnds(h)
               \/ KeywordLost(h) \/ PauseThrows(h) \/ ResumedThrows(h)
        PROVE  PauseInv'
    <2>1. /\ UNCHANGED <<paused, wire>>
          /\ activated => activated'
          /\ "resume" \in undone => "resume" \in undone'
      BY <1>3 DEF HandedOff, Command, CommandEnds, KeywordLost, PauseThrows, ResumedThrows,
                  faulty
    <2> QED
      BY <2>1
  <1>4. ASSUME NEW m \in Messages \ {"PAUSE"}, Publish(m)
        PROVE  PauseInv'
    BY <1>4, PublishTyped
  <1>a. ASSUME NEW h \in Duties, Deactivate(h), paused' = paused
        PROVE  PauseInv'
    <2>1. CASE Publish("RESUME")
      BY <1>4, <2>1 DEF Messages
    <2>2. CASE wire' = wire /\ "resume" \in undone'
      BY <1>a, <2>2
    <2> QED
      BY <1>a, <2>1, <2>2, DeactivateTyped
  <1>5. ASSUME NEW h \in Duties, ResumeCommand(h)
        PROVE  PauseInv'
    BY <1>5, <1>a DEF ResumeCommand
  <1>6. ASSUME NEW h \in Duties, TimerFires(h)
        PROVE  PauseInv'
    <2>1. CASE activated
      BY <1>6, <1>a, <2>1 DEF TimerFires
    <2>2. CASE ~activated
      BY <1>6, <2>2 DEF TimerFires, faulty
    <2> QED
      BY <2>1, <2>2
  <1>7. ASSUME NEW h \in Duties, Resumed(h)
        PROVE  PauseInv'
    BY <1>4, <1>7 DEF Resumed, Messages
  <1>8. CASE ResumedElsewhere
    BY <1>4, <1>8 DEF ResumedElsewhere, Messages
  <1>9. CASE Deliver
    <2>1. /\ Tail(wire) \in Seq(Messages)
          /\ Len(Tail(wire)) = Len(wire) - 1
          /\ Len(wire) \in Nat \ {0}
          /\ \A i \in 1 .. Len(Tail(wire)) : Tail(wire)[i] = wire[i + 1]
      BY <1>9 DEF Deliver
    <2>0. CASE wire' = Tail(wire) /\ "resume" \in undone'
      BY <2>0
    <2>2. CASE wire' = Append(Tail(wire), "RESUME")
      <3>1. wire' = Append(Tail(wire), "RESUME")
        BY <2>2
      <3>2. wire' # <<>> /\ wire'[Len(wire')] = "RESUME"
        BY <2>1, <3>1
      <3> QED
        BY <3>2
    <2>3. CASE ~(Head(wire) = "ELSEWHERE" /\ activated)
      <3>1. /\ wire' = Tail(wire)
            /\ UNCHANGED <<activated, undone>>
            /\ paused' = (Head(wire) = "PAUSE")
        BY <1>9, <2>3 DEF Deliver, faulty
      <3>2. CASE Len(wire) = 1
        BY <2>1, <3>1, <3>2
      <3>3. CASE Len(wire) > 1
        <4>1. Tail(wire)[Len(wire) - 1] = wire[(Len(wire) - 1) + 1]
          BY <2>1, <3>3
        <4>2. Len(Tail(wire)) # 0 /\ Tail(wire)[Len(Tail(wire))] = wire[Len(wire)]
          BY <2>1, <3>3, <4>1
        <4> QED
          <5>1. Tail(wire) # <<>>
            BY <4>2, EmptySeq
          <5>2. wire'[Len(wire')] = wire[Len(wire)] /\ wire # <<>>
            BY <2>1, <3>1, <4>2
          <5> QED
            BY <3>1, <5>1, <5>2, Zenon
      <3> QED
        BY <2>1, <3>2, <3>3
    <2>4. CASE Head(wire) = "ELSEWHERE" /\ activated
      BY <1>9, <2>0, <2>2, <2>4 DEF Deliver
    <2> QED
      BY <2>3, <2>4
  <1> QED
    BY <1>1, <1>2, <1>3, <1>5, <1>6, <1>7, <1>8, <1>9, Steps

\* No customer stays paused once the messages of a takeover that ended have been
\* delivered, unless its INTERACTION_RESUME was lost (interaction-agent.ts,
\* subscribePauseResume).
THEOREM PausesMatch == Spec => []PauseMatched
  <1>1. Init => TypeOK /\ PauseInv
    BY TypeInit DEF Init, PauseInv, PauseMatched
  <1>2. PauseInv => PauseMatched
    BY DEF PauseInv
  <1> QED
    BY <1>1, <1>2, TypeStep, PauseStep, PTL DEF Spec
=============================================================================
