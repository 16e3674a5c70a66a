--------------------------- MODULE TurnTakingProofs ---------------------------
(***************************************************************************)
(* Theorems about who is near the microphone and whose turn it is: the     *)
(* queue and the sessions of TargetGroup, and the SPEAKER_DETECTED and     *)
(* SPEAKER_LOST that LiveKitRoom, instantiated as Room, feeds the bus with.*)
(***************************************************************************)
EXTENDS TargetGroup, RoomParticipants, SequenceTheorems, TLAPS

-----------------------------------------------------------------------------
(* The queue of speakers *)

\* Nobody is in the queue twice.
Once(queue) == \A i, j \in DOMAIN queue : queue[i] = queue[j] => i = j

\* r is q without its place c.
Closed(r, q, c) ==
    /\ Len(r) = Len(q) - 1
    /\ \A i \in DOMAIN r : r[i] = q[IF i < c THEN i ELSE i + 1]

\* Leave takes one place out of a sequence, and closes the gap.
LEMMA LeaveGap ==
    ASSUME NEW S, NEW q \in Seq(S), NEW s, NEW k \in DOMAIN q, q[k] = s
    PROVE  /\ Leave(q, s) \in Seq(S)
           /\ \E c \in DOMAIN q : q[c] = s /\ Closed(Leave(q, s), q, c)
<1> DEFINE places == {i \in DOMAIN q : q[i] = s}
<1> DEFINE c == CHOOSE j \in places : TRUE
<1>1. c \in places
  OBVIOUS
<1> DEFINE a == SubSeq(q, 1, c - 1)
<1> DEFINE b == SubSeq(q, c + 1, Len(q))
<1>2. Leave(q, s) = a \o b
  BY <1>1 DEF Leave
<1> HIDE DEF c
<1>3. /\ c \in 1 .. Len(q) /\ q[c] = s /\ DOMAIN q = 1 .. Len(q)
      /\ c \in Int /\ Len(q) \in Nat /\ 1 <= c /\ c <= Len(q)
  BY <1>1
<1>4. /\ a \in Seq(S) /\ Len(a) = c - 1
      /\ \A i \in 1 .. (c - 1) : a[i] = q[i]
  <2>1. 1 \in Int /\ c - 1 \in Int /\ \A i \in 1 .. (c - 1) : q[i] \in S
    BY <1>3
  <2>2. /\ a \in Seq(S) /\ Len(a) = (IF 1 <= c - 1 THEN (c - 1) - 1 + 1 ELSE 0)
        /\ \A i \in 1 .. ((c - 1) - 1 + 1) : a[i] = q[1 + i - 1]
    BY <2>1, SubSeqProperties
  <2> QED
    BY <1>3, <2>2
<1>5. /\ b \in Seq(S) /\ Len(b) = Len(q) - c
      /\ \A i \in 1 .. (Len(q) - c) : b[i] = q[c + i]
  <2>1. c + 1 \in Int /\ Len(q) \in Int /\ \A i \in (c + 1) .. Len(q) : q[i] \in S
    BY <1>3
  <2>2. /\ b \in Seq(S)
        /\ Len(b) = (IF c + 1 <= Len(q) THEN Len(q) - (c + 1) + 1 ELSE 0)
        /\ \A i \in 1 .. (Len(q) - (c + 1) + 1) : b[i] = q[(c + 1) + i - 1]
    BY <2>1, SubSeqProperties
  <2>3. Len(q) - (c + 1) + 1 = Len(q) - c
    BY <1>3
  <2>4. Len(b) = Len(q) - c
    <3> DEFINE n == Len(b)
    <3> DEFINE m == Len(q)
    <3>1. n = IF c + 1 <= m THEN m - (c + 1) + 1 ELSE 0
      BY <2>2
    <3>2. c \in Int /\ m \in Int /\ c <= m
      BY <1>3
    <3> HIDE DEF n, m
    <3>3. n = m - c
      BY <3>1, <3>2
    <3> QED
      BY <3>3 DEF n, m
  <2>5. ASSUME NEW i \in 1 .. (Len(q) - c) PROVE b[i] = q[c + i]
    <3>1. b[i] = q[(c + 1) + i - 1]
      BY <2>2, <2>3
    <3>2. (c + 1) + i - 1 = c + i
      BY <1>3
    <3> QED
      BY <3>1, <3>2
  <2> QED
    BY <2>2, <2>4, <2>5
<1> HIDE DEF a, b
<1>6. /\ a \o b \in Seq(S)
      /\ Len(a \o b) = Len(a) + Len(b)
      /\ \A i \in 1 .. Len(a) + Len(b) : (a \o b)[i] = IF i <= Len(a) THEN a[i] ELSE b[i - Len(a)]
  BY <1>4, <1>5, ConcatProperties
<1>7. Len(a) + Len(b) = Len(q) - 1
  BY <1>3, <1>4, <1>5
<1>8. ASSUME NEW i \in 1 .. (Len(q) - 1)
      PROVE  (a \o b)[i] = q[IF i < c THEN i ELSE i + 1]
  <2>1. (a \o b)[i] = IF i <= c - 1 THEN a[i] ELSE b[i - (c - 1)]
    BY <1>4, <1>6, <1>7
  <2>2. CASE i < c
    <3>1. i <= c - 1 /\ i \in 1 .. (c - 1)
      BY <1>3, <2>2
    <3> QED
      BY <1>4, <2>1, <2>2, <3>1
  <2>3. CASE ~(i < c)
    <3>1. ~(i <= c - 1) /\ i - (c - 1) \in 1 .. (Len(q) - c) /\ c + (i - (c - 1)) = i + 1
      BY <1>3, <2>3
    <3> QED
      BY <1>5, <2>1, <2>3, <3>1
  <2> QED
    BY <2>2, <2>3
<1>9. DOMAIN (a \o b) = 1 .. (Len(q) - 1)
  BY <1>6, <1>7
<1> QED
  BY <1>2, <1>3, <1>6, <1>7, <1>8, <1>9 DEF Closed

\* Who leaves a queue without repetitions is gone from it; the others keep their
\* order, and nobody is added.
LEMMA LeaveKeeps ==
    ASSUME NEW S, NEW q \in Seq(S), NEW s, Once(q)
    PROVE  /\ Leave(q, s) \in Seq(S)
           /\ Once(Leave(q, s))
           /\ \A i \in DOMAIN Leave(q, s) :
                 Leave(q, s)[i] # s /\ \E j \in DOMAIN q : Leave(q, s)[i] = q[j]
<1>1. CASE \A k \in DOMAIN q : q[k] # s
  <2>1. Leave(q, s) = q
    BY <1>1 DEF Leave
  <2> QED
    BY <1>1, <2>1
<1>2. CASE \E k \in DOMAIN q : q[k] = s
  <2>0. PICK k \in DOMAIN q : q[k] = s
    BY <1>2
  <2>1. PICK c \in DOMAIN q : q[c] = s /\ Closed(Leave(q, s), q, c)
    BY <2>0, LeaveGap
  <2>2. Leave(q, s) \in Seq(S)
    BY <2>0, LeaveGap
  <2> DEFINE from(i) == IF i < c THEN i ELSE i + 1
  <2>3. DOMAIN Leave(q, s) = 1 .. (Len(q) - 1) /\ DOMAIN q = 1 .. Len(q) /\ Len(q) \in Nat
    BY <2>1, <2>2 DEF Closed
  <2>4. \A i \in 1 .. (Len(q) - 1) : from(i) \in DOMAIN q /\ from(i) # c
    BY <2>1, <2>3
  <2>5. \A i, j \in 1 .. (Len(q) - 1) : from(i) = from(j) => i = j
    BY <2>1, <2>3
  <2>6. \A i \in 1 .. (Len(q) - 1) : Leave(q, s)[i] = q[from(i)]
    BY <2>1, <2>3 DEF Closed
  <2> HIDE DEF from
  <2>7. \A i \in 1 .. (Len(q) - 1) : q[from(i)] # s
    BY <2>1, <2>4 DEF Once
  <2>8. Once(Leave(q, s))
    <3> SUFFICES ASSUME NEW i \in 1 .. (Len(q) - 1), NEW j \in 1 .. (Len(q) - 1),
                        Leave(q, s)[i] = Leave(q, s)[j]
                 PROVE  i = j
      BY <2>3 DEF Once
    <3>1. q[from(i)] = q[from(j)]
      BY <2>6
    <3>2. from(i) = from(j)
      BY <3>1, <2>4 DEF Once
    <3> QED
      BY <3>2, <2>5
  <2> QED
    BY <2>2, <2>3, <2>4, <2>6, <2>7, <2>8
<1> QED
  BY <1>1, <1>2

\* The head of a queue without repetitions is not in its tail.
LEMMA TailKeeps ==
    ASSUME NEW S, NEW q \in Seq(S), q # <<>>, Once(q)
    PROVE  /\ Head(q) \in S /\ Head(q) = q[1] /\ 1 \in DOMAIN q
           /\ Tail(q) \in Seq(S)
           /\ Once(Tail(q))
           /\ \A i \in DOMAIN Tail(q) :
                 Tail(q)[i] # Head(q) /\ \E j \in DOMAIN q : Tail(q)[i] = q[j]
<1>1. /\ Head(q) \in S /\ Tail(q) \in Seq(S)
      /\ Len(Tail(q)) = Len(q) - 1
      /\ \A i \in 1 .. Len(Tail(q)) : Tail(q)[i] = q[i + 1]
  BY HeadTailProperties
<1>2. Len(q) \in Nat /\ Len(q) # 0 /\ DOMAIN q = 1 .. Len(q) /\ Head(q) = q[1]
  OBVIOUS
<1>3. DOMAIN Tail(q) = 1 .. (Len(q) - 1)
  BY <1>1
<1>4. \A i \in 1 .. (Len(q) - 1) : i + 1 \in DOMAIN q /\ i + 1 # 1
  BY <1>2
<1>5. 1 \in DOMAIN q
  BY <1>2
<1>6. \A i, j \in 1 .. (Len(q) - 1) : i + 1 = j + 1 => i = j
  BY <1>2
<1> QED
  BY <1>1, <1>2, <1>3, <1>4, <1>5, <1>6 DEF Once

\* Somebody new is added at the end.
LEMMA AppendKeeps ==
    ASSUME NEW S, NEW q \in Seq(S), NEW s \in S, Once(q), \A i \in DOMAIN q : q[i] # s
    PROVE  /\ Append(q, s) \in Seq(S)
           /\ Once(Append(q, s))
           /\ \A i \in DOMAIN Append(q, s) :
                 Append(q, s)[i] = s \/ \E j \in DOMAIN q : Append(q, s)[i] = q[j]
<1>1. /\ Append(q, s) \in Seq(S) /\ Len(Append(q, s)) = Len(q) + 1
      /\ \A i \in 1 .. Len(q) : Append(q, s)[i] = q[i]
      /\ Append(q, s)[Len(q) + 1] = s
  BY AppendProperties
<1>2. Len(q) \in Nat /\ DOMAIN q = 1 .. Len(q) /\ DOMAIN Append(q, s) = 1 .. (Len(q) + 1)
  BY <1>1
<1>3. \A i \in 1 .. (Len(q) + 1) : i = Len(q) + 1 \/ i \in 1 .. Len(q)
  BY <1>2
<1> QED
  BY <1>1, <1>2, <1>3 DEF Once

-----------------------------------------------------------------------------
(* The state machine *)

Machines == [state : [Speakers -> States], queue : Seq(Speakers), primary : Speakers \cup {None}]

\* QueueSound of one state of the machine, with the types.
Sound(f) ==
    /\ f \in Machines
    /\ Once(f.queue)
    /\ \A i \in DOMAIN f.queue : f.state[f.queue[i]] = "queued"
    /\ f.primary # None => f.state[f.primary] \in Served

\* One speaker moves; the queue holds him only when he waits, and nobody new but
\* him; the primary is the old one or he.
LEMMA MoveSound ==
    ASSUME NEW f, Sound(f), NEW s \in Speakers, NEW st \in States,
           NEW q \in Seq(Speakers), Once(q),
           \A i \in DOMAIN q : \/ q[i] = s /\ st = "queued"
                               \/ q[i] # s /\ \E j \in DOMAIN f.queue : q[i] = f.queue[j],
           NEW p \in Speakers \cup {None},
           p # None => \/ p = s /\ st \in Served
                       \/ p = f.primary /\ p # s
    PROVE  Sound([state |-> [f.state EXCEPT ![s] = st], queue |-> q, primary |-> p])
<1> DEFINE g == [state |-> [f.state EXCEPT ![s] = st], queue |-> q, primary |-> p]
<1>1. f.state \in [Speakers -> States]
  BY DEF Sound, Machines
<1>2. g \in Machines
  BY <1>1 DEF Machines
<1>3. ASSUME NEW i \in DOMAIN q PROVE g.state[q[i]] = "queued"
  <2>1. CASE q[i] = s /\ st = "queued"
    BY <1>1, <2>1
  <2>2. CASE q[i] # s /\ \E j \in DOMAIN f.queue : q[i] = f.queue[j]
    <3>1. q[i] \in Speakers /\ f.state[q[i]] = "queued"
      BY <2>2 DEF Sound
    <3> QED
      BY <1>1, <2>2, <3>1
  <2> QED
    BY <2>1, <2>2
<1>4. p # None => g.state[p] \in Served
  BY <1>1 DEF Sound
<1> QED
  BY <1>2, <1>3, <1>4 DEF Sound

\* The queue without s, and the primary if it is not s.
LEMMA LeftSound ==
    ASSUME NEW f, Sound(f), NEW s \in Speakers
    PROVE  LET q == IF f.state[s] = "queued" THEN Leave(f.queue, s) ELSE f.queue
           IN  /\ q \in Seq(Speakers) /\ Once(q)
               /\ \A i \in DOMAIN q : q[i] # s /\ \E j \in DOMAIN f.queue : q[i] = f.queue[j]
<1>1. f.queue \in Seq(Speakers) /\ Once(f.queue)
  BY DEF Sound, Machines
<1>2. CASE f.state[s] = "queued"
  BY <1>1, <1>2, LeaveKeeps
<1>3. CASE f.state[s] # "queued"
  BY <1>1, <1>3 DEF Sound
<1> QED
  BY <1>2, <1>3

LEMMA AddSound ==
    ASSUME NEW f, Sound(f), NEW s \in Speakers, f.state[s] = "absent",
           NEW st \in {"targeted", "queued", "ambient"}
    PROVE  Sound(AddSpeaker(f, s, st))
<1> DEFINE q == IF st = "queued" THEN Append(f.queue, s) ELSE f.queue
<1> DEFINE p == IF st = "targeted" THEN s ELSE f.primary
<1>1. f.queue \in Seq(Speakers) /\ Once(f.queue) /\ f.primary \in Speakers \cup {None}
  BY DEF Sound, Machines
<1>2. \A i \in DOMAIN f.queue : f.queue[i] # s
  BY DEF Sound
<1>3. q \in Seq(Speakers) /\ Once(q)
  BY <1>1, <1>2, AppendKeeps
<1>4. \A i \in DOMAIN q : \/ q[i] = s /\ st = "queued"
                          \/ q[i] # s /\ \E j \in DOMAIN f.queue : q[i] = f.queue[j]
  BY <1>1, <1>2, AppendKeeps
<1>5. p \in Speakers \cup {None} /\ (p # None => (p = s /\ st \in Served) \/ (p = f.primary /\ p # s))
  BY <1>1 DEF Sound, Served
<1>6. st \in States
  BY DEF States
<1> HIDE DEF q, p
<1>7. Sound([state |-> [f.state EXCEPT ![s] = st], queue |-> q, primary |-> p])
  BY <1>3, <1>4, <1>5, <1>6, MoveSound
<1> QED
  BY <1>7 DEF AddSpeaker, q, p

\* setSpeakerState with the changes that transition() asks for.
LEMMA SetSound ==
    ASSUME NEW f, Sound(f), NEW s \in Speakers, NEW st \in States,
           \/ st \in Served
           \/ st \in {"queued", "ambient"} /\ f.state[s] # "queued"
    PROVE  Sound(SetSpeakerState(f, s, st))
<1> DEFINE q == IF f.state[s] = "queued" /\ st # "queued" THEN Leave(f.queue, s) ELSE f.queue
<1> DEFINE p == IF st \in Served THEN s
                ELSE IF f.state[s] \in Served THEN None ELSE f.primary
<1>1. f.primary \in Speakers \cup {None}
  BY DEF Sound, Machines
<1>2. /\ q \in Seq(Speakers) /\ Once(q)
      /\ \A i \in DOMAIN q : q[i] # s /\ \E j \in DOMAIN f.queue : q[i] = f.queue[j]
  <2> DEFINE r == IF f.state[s] = "queued" THEN Leave(f.queue, s) ELSE f.queue
  <2>1. /\ r \in Seq(Speakers) /\ Once(r)
        /\ \A i \in DOMAIN r : r[i] # s /\ \E j \in DOMAIN f.queue : r[i] = f.queue[j]
    BY LeftSound
  <2>2. q = r
    BY DEF Served
  <2> HIDE DEF q, r
  <2> QED
    BY <2>1, <2>2
<1>3. p \in Speakers \cup {None} /\ (p # None => (p = s /\ st \in Served) \/ (p = f.primary /\ p # s))
  BY <1>1 DEF Sound
<1> HIDE DEF q, p
<1>4. Sound([state |-> [f.state EXCEPT ![s] = st], queue |-> q, primary |-> p])
  BY <1>2, <1>3, MoveSound
<1> QED
  BY <1>4 DEF SetSpeakerState, q, p

LEMMA RemoveSound ==
    ASSUME NEW f, Sound(f), NEW s \in Speakers
    PROVE  Sound(RemoveSpeaker(f, s)) /\ RemoveSpeaker(f, s).primary # s
<1> DEFINE q == IF f.state[s] = "queued" THEN Leave(f.queue, s) ELSE f.queue
<1> DEFINE p == IF f.primary = s THEN None ELSE f.primary
<1>1. f.primary \in Speakers \cup {None} /\ "absent" \in States
  BY DEF Sound, Machines, States
<1>2. /\ q \in Seq(Speakers) /\ Once(q)
      /\ \A i \in DOMAIN q : q[i] # s /\ \E j \in DOMAIN f.queue : q[i] = f.queue[j]
  BY LeftSound
<1>3. p \in Speakers \cup {None} /\ p # s /\ (p # None => p = f.primary)
  BY <1>1, TargetAssumption
<1> HIDE DEF q, p
<1>4. Sound([state |-> [f.state EXCEPT ![s] = "absent"], queue |-> q, primary |-> p])
  BY <1>1, <1>2, <1>3, MoveSound
<1> QED
  BY <1>3, <1>4 DEF RemoveSpeaker, q, p

\* setAmbient: the primary who becomes ambient leaves the agent without one.
LEMMA AmbientSound ==
    ASSUME NEW f, Sound(f), NEW s \in Speakers
    PROVE  Sound(MakeAmbient(f, s))
<1> DEFINE q == IF f.state[s] = "queued" THEN Leave(f.queue, s) ELSE f.queue
<1> DEFINE p == IF f.state[s] \in Served THEN None ELSE f.primary
<1>1. f.primary \in Speakers \cup {None} /\ "ambient" \in States
  BY DEF Sound, Machines, States
<1>2. /\ q \in Seq(Speakers) /\ Once(q)
      /\ \A i \in DOMAIN q : q[i] # s /\ \E j \in DOMAIN f.queue : q[i] = f.queue[j]
  BY LeftSound
<1>3. p \in Speakers \cup {None} /\ (p # None => p = f.primary /\ p # s)
  BY <1>1 DEF Sound
<1> HIDE DEF q, p
<1>4. Sound([state |-> [f.state EXCEPT ![s] = "ambient"], queue |-> q, primary |-> p])
  BY <1>1, <1>2, <1>3, MoveSound
<1> QED
  BY <1>4 DEF MakeAmbient, q, p

LEMMA PromoteSound ==
    ASSUME NEW f, Sound(f)
    PROVE  /\ Sound(PromoteNextInQueue(f))
           /\ PromoteNextInQueue(f).queue # <<>> => PromoteNextInQueue(f).primary # None
<1>1. CASE f.queue = <<>>
  BY <1>1 DEF PromoteNextInQueue
<1>2. CASE f.queue # <<>>
  <2> DEFINE s == Head(f.queue)
  <2>1. f.queue \in Seq(Speakers) /\ Once(f.queue)
    BY DEF Sound, Machines
  <2>2. /\ s \in Speakers
        /\ Tail(f.queue) \in Seq(Speakers) /\ Once(Tail(f.queue))
        /\ \A i \in DOMAIN Tail(f.queue) :
              Tail(f.queue)[i] # s /\ \E j \in DOMAIN f.queue : Tail(f.queue)[i] = f.queue[j]
    BY <1>2, <2>1, TailKeeps
  <2>3. "targeted" \in States /\ "targeted" \in Served
    BY DEF States, Served
  <2> HIDE DEF s
  <2>4. Sound([state |-> [f.state EXCEPT ![s] = "targeted"], queue |-> Tail(f.queue), primary |-> s])
    BY <2>2, <2>3, MoveSound
  <2> QED
    BY <1>2, <2>2, <2>4, TargetAssumption DEF PromoteNextInQueue, s
<1> QED
  BY <1>1, <1>2

\* No event makes the machine unsound.
LEMMA TransitionSound ==
    ASSUME NEW f, Sound(f), NEW s \in Speakers, NEW e \in Transitions
    PROVE  Sound(Transition(f, s, e))
<1>1. CASE e = "SPEECH_START" /\ f.state[s] = "absent"
  BY <1>1, AddSound DEF Transition
<1>2. CASE e = "SPEECH_START" /\ f.state[s] = "ambient"
  BY <1>2, SetSound DEF Transition, States, Served
<1>3. CASE e = "RESPONSE_START" /\ f.state[s] = "targeted"
  BY <1>3, SetSound DEF Transition, States, Served
<1>4. CASE e = "RESPONSE_END" /\ f.state[s] = "responding"
  BY <1>4, SetSound DEF Transition, States, Served
<1>5. CASE e = "TARGET_LOST" /\ f.state[s] # "absent"
  BY <1>5, RemoveSound, PromoteSound DEF Transition
<1>6. CASE e = "AMBIENT_DETECTED" /\ f.state[s] = "absent"
  BY <1>6, AddSound DEF Transition
<1>7. CASE /\ ~(e = "SPEECH_START" /\ f.state[s] \in {"absent", "ambient"})
           /\ ~(e = "RESPONSE_START" /\ f.state[s] = "targeted")
           /\ ~(e = "RESPONSE_END" /\ f.state[s] = "responding")
           /\ ~(e = "TARGET_LOST" /\ f.state[s] # "absent")
           /\ ~(e = "AMBIENT_DETECTED" /\ f.state[s] = "absent")
  <2>1. Transition(f, s, e) = f
    BY <1>7 DEF Transition
  <2> QED
    BY <2>1
<1> QED
  BY <1>1, <1>2, <1>3, <1>4, <1>5, <1>6, <1>7

\* An event that leaves the agent without a primary leaves nobody in line.
LEMMA TransitionPasses ==
    ASSUME NEW f, Sound(f), NEW s \in Speakers, NEW e \in Transitions,
           f.primary # None, Transition(f, s, e).primary = None
    PROVE  Transition(f, s, e).queue = <<>>
<1>0. s # None /\ f.state \in [Speakers -> States]
  BY TargetAssumption DEF Sound, Machines
<1>1. CASE e = "TARGET_LOST" /\ f.state[s] # "absent"
  BY <1>1, RemoveSound, PromoteSound DEF Transition
<1>2. CASE e = "SPEECH_START" /\ f.state[s] = "absent"
  BY <1>0, <1>2 DEF Transition, AddSpeaker
<1>3. CASE e = "SPEECH_START" /\ f.state[s] = "ambient"
  BY <1>0, <1>3 DEF Transition, SetSpeakerState, Served
<1>4. CASE e = "RESPONSE_START" /\ f.state[s] = "targeted"
  BY <1>0, <1>4 DEF Transition, SetSpeakerState, Served
<1>5. CASE e = "RESPONSE_END" /\ f.state[s] = "responding"
  BY <1>0, <1>5 DEF Transition, SetSpeakerState, Served
<1>6. CASE e = "AMBIENT_DETECTED" /\ f.state[s] = "absent"
  BY <1>0, <1>6 DEF Transition, AddSpeaker
<1>7. CASE /\ ~(e = "SPEECH_START" /\ f.state[s] \in {"absent", "ambient"})
           /\ ~(e = "RESPONSE_START" /\ f.state[s] = "targeted")
           /\ ~(e = "RESPONSE_END" /\ f.state[s] = "responding")
           /\ ~(e = "TARGET_LOST" /\ f.state[s] # "absent")
           /\ ~(e = "AMBIENT_DETECTED" /\ f.state[s] = "absent")
  <2>1. Transition(f, s, e) = f
    BY <1>7 DEF Transition
  <2> QED
    BY <2>1
<1> QED
  BY <1>1, <1>2, <1>3, <1>4, <1>5, <1>6, <1>7

-----------------------------------------------------------------------------
(* The machine in the system *)

\* What a step does to the machine: an event, a direct setAmbient, or nothing.
LEMMA MachineSteps ==
    ASSUME [Next]_vars
    PROVE  \/ \E s \in Speakers, e \in Transitions : fsm' = Transition(fsm, s, e)
           \/ \E s \in Speakers : SetAmbient(s)
           \/ UNCHANGED fsm
<1>1. CASE UNCHANGED vars
  BY <1>1 DEF vars
<1>2. ASSUME NEW h \in Handlers, Resume(h)
      PROVE  UNCHANGED fsm
  BY <1>2 DEF Resume, Verify, Create, Created, Ensured, Publish
<1>3. ASSUME NEW h \in Handlers, NEW s \in Speakers, NEW wanted \in Ids \cup {None},
             Detected(h, s, wanted)
      PROVE  fsm' = Transition(fsm, s, "SPEECH_START")
  BY <1>3 DEF Detected
<1>4. ASSUME NEW h \in Handlers, NEW s \in Speakers, Lost(h, s)
      PROVE  fsm' = Transition(fsm, s, "TARGET_LOST")
  BY <1>4 DEF Lost
<1>5. ASSUME NEW h \in Handlers, NEW s \in Speakers, NEW e, Heard(h, s, e)
      PROVE  fsm' = Transition(fsm, s, e)
  BY <1>5 DEF Heard
<1>6. ASSUME NEW i \in SessionIds, NEW status \in Statuses, SetStatus(i, status)
      PROVE  UNCHANGED fsm
  BY <1>6 DEF SetStatus
<1>7. CASE Tick
  BY <1>7 DEF Tick
<1> QED
  BY <1>1, <1>2, <1>3, <1>4, <1>5, <1>6, <1>7 DEF Next, Transitions

LEMMA SoundInit == Init => Sound(fsm)
<1> SUFFICES ASSUME Init PROVE Sound(fsm)
  OBVIOUS
<1>1. <<>> \in Seq(Speakers) /\ DOMAIN <<>> = {}
  OBVIOUS
<1>2. fsm = [state |-> [s \in Speakers |-> "absent"], queue |-> <<>>, primary |-> None]
  BY DEF Init
<1> QED
  BY <1>1, <1>2 DEF Sound, Machines, Once, States

LEMMA SoundStep == Sound(fsm) /\ [Next]_vars => Sound(fsm)'
<1> SUFFICES ASSUME Sound(fsm), [Next]_vars
             PROVE  Sound(fsm')
  BY DEF Sound
<1>1. ASSUME NEW s \in Speakers, NEW e \in Transitions, fsm' = Transition(fsm, s, e)
      PROVE  Sound(fsm')
  BY <1>1, TransitionSound
<1>2. ASSUME NEW s \in Speakers, SetAmbient(s)
      PROVE  Sound(fsm')
  BY <1>2, AmbientSound DEF SetAmbient
<1>3. CASE UNCHANGED fsm
  BY <1>3
<1> QED
  BY <1>1, <1>2, <1>3, MachineSteps

\* Nobody who has left, is served or is only overheard waits to be promoted, and
\* the primary that the snapshots announce is being served
\* (target-group-state-machine.ts).
THEOREM QueueIsSound == Spec => []QueueSound
<1>1. Sound(fsm) => QueueSound
  BY DEF Sound, QueueSound, Once
<1> QED
  BY <1>1, SoundInit, SoundStep, PTL DEF Spec

\* Only a direct call of setAmbient leaves the agent without a primary while
\* somebody is in line (removeSpeaker, promoteNextInQueue).
THEOREM TurnIsPassedOn == Spec => TurnPassesOn
<1> DEFINE Passes == fsm.primary # None /\ fsm'.primary = None /\ fsm'.queue # <<>>
                        => \E s \in Speakers : SetAmbient(s)
<1>1. Sound(fsm) /\ [Next]_vars => [Passes]_vars
  <2> SUFFICES ASSUME Sound(fsm), [Next]_vars, fsm.primary # None, fsm'.primary = None,
                      fsm'.queue # <<>>
               PROVE  \E s \in Speakers : SetAmbient(s)
    OBVIOUS
  <2> QED
    BY MachineSteps, TransitionPasses
<1> HIDE DEF Passes
<1>2. Spec => [][Passes]_vars
  BY <1>1, SoundInit, SoundStep, PTL DEF Spec
<1> QED
  BY <1>2 DEF TurnPassesOn, Passes

-----------------------------------------------------------------------------
(* The sessions of the speakers *)

\* An idle handler's job names a speaker too, if there is one.
JobRecords == [speaker : Speakers \cup {Idle.speaker}, queued : BOOLEAN,
               wanted : Ids \cup {None}, id : SessionIds \cup {None}]

BridgeTypes ==
    /\ mapped \in [Speakers -> SessionIds \cup {None}]
    /\ sessions \in [SessionIds -> Sessions \cup {None}]
    /\ pc \in [Handlers -> Places]
    /\ job \in [Handlers -> JobRecords]
    /\ clock \in 0 .. MaxClock

\* In all, session i is there and belongs to s.
Owned(all, i, s) == all[i] # None /\ all[i].owner = s

\* From the lookup on a handler works for a speaker and on a session's id; where
\* it uses the session, the session is there and its speaker's.
JobOf(h) ==
    /\ pc[h] \in {"verify", "lookup", "created", "ensured"} =>
          job[h].speaker \in Speakers /\ job[h].id \in SessionIds
    /\ pc[h] \in {"verify", "created", "ensured"} => Owned(sessions, job[h].id, job[h].speaker)

OwnInv ==
    /\ BridgeTypes
    /\ \A h \in Handlers : JobOf(h)
    /\ SessionsApart

\* No session is removed or changes hands.
OwnersStay == \A i \in SessionIds, s \in Speakers : Owned(sessions, i, s) => Owned(sessions', i, s)

LEMMA IdleTyped == Idle \in JobRecords
  BY DEF Idle, JobRecords

\* A step of one handler.
OnlyHandler(h) ==
    /\ pc' \in [Handlers -> Places] /\ job' \in [Handlers -> JobRecords]
    /\ \A g \in Handlers \ {h} : pc'[g] = pc[g] /\ job'[g] = job[g]

LEMMA EndOnly ==
    ASSUME BridgeTypes, NEW h \in Handlers, End(h)
    PROVE  OnlyHandler(h) /\ JobOf(h)'
  BY IdleTyped DEF BridgeTypes, End, Goto, OnlyHandler, JobOf, Places

\* An activation of a handler, with what it leaves alone of the mapping.
LEMMA HandlerKeeps ==
    ASSUME OwnInv, BridgeTypes', OwnersStay, NEW h \in Handlers, OnlyHandler(h), JobOf(h)',
           \A s \in Speakers : \/ mapped'[s] = mapped[s]
                               \/ mapped'[s] = None
                               \/ Owned(sessions', mapped'[s], s)
    PROVE  OwnInv'
<1>1. ASSUME NEW g \in Handlers PROVE JobOf(g)'
  <2>1. CASE g = h
    BY <2>1
  <2>2. CASE g # h
    <3>1. JobOf(g) /\ pc'[g] = pc[g] /\ job'[g] = job[g]
      BY <2>2 DEF OwnInv, OnlyHandler
    <3>2. pc[g] \in {"verify", "created", "ensured"} => Owned(sessions', job[g].id, job[g].speaker)
      BY <3>1 DEF JobOf, OwnersStay
    <3>3. pc[g] \in {"verify", "created", "ensured"} => Owned(sessions', job'[g].id, job'[g].speaker)
      BY <3>1, <3>2 DEF Owned
    <3> QED
      BY <3>1, <3>3 DEF JobOf
  <2> QED
    BY <2>1, <2>2
<1>2. ASSUME NEW s \in Speakers, mapped'[s] # None
      PROVE  Owned(sessions', mapped'[s], s)
  <2>1. CASE mapped'[s] = mapped[s]
    <3>1. mapped[s] \in SessionIds /\ Owned(sessions, mapped[s], s)
      BY <1>2, <2>1 DEF OwnInv, SessionsApart, Owned, BridgeTypes
    <3>2. Owned(sessions', mapped[s], s)
      BY <3>1 DEF OwnersStay
    <3> QED
      BY <2>1, <3>2 DEF Owned
  <2> QED
    BY <1>2, <2>1
<1> QED
  BY <1>1, <1>2 DEF OwnInv, SessionsApart, Owned

\* createSession on a free id makes the session its speaker's.
LEMMA FreshOwns ==
    ASSUME BridgeTypes, NEW i \in SessionIds, NEW s \in Speakers, sessions[i] = None,
           sessions' = [sessions EXCEPT ![i] = Fresh(s)]
    PROVE  /\ sessions' \in [SessionIds -> Sessions \cup {None}]
           /\ OwnersStay
           /\ Owned(sessions', i, s)
<1>1. Fresh(s) \in Sessions /\ Fresh(s).owner = s
  BY DEF Fresh, Sessions, Statuses
<1> QED
  BY <1>1, NullAssumption DEF BridgeTypes, OwnersStay, Owned

\* setPriorityGroup, pause, resume and terminate leave the owner alone.
LEMMA TouchOwns ==
    ASSUME BridgeTypes, NEW i \in SessionIds, sessions[i] # None,
           \/ \E n \in {0, 1} : sessions' = [sessions EXCEPT ![i].group = n]
           \/ \E st \in Statuses : sessions' = [sessions EXCEPT ![i].status = st]
    PROVE  sessions' \in [SessionIds -> Sessions \cup {None}] /\ OwnersStay
<1>1. sessions[i] \in Sessions
  BY DEF BridgeTypes
<1>2. /\ \A j \in SessionIds \ {i} : sessions'[j] = sessions[j]
      /\ sessions'[i] \in Sessions /\ sessions'[i].owner = sessions[i].owner
      /\ sessions' \in [SessionIds -> Sessions \cup {None}]
  BY <1>1 DEF BridgeTypes, Sessions
<1> QED
  BY <1>2, NullAssumption DEF OwnersStay, Owned

LEMMA NewSessionKeeps ==
    ASSUME BridgeTypes, NEW h \in Handlers, NEW j \in JobRecords, j.speaker \in Speakers,
           j.id \in SessionIds, NewSession(h, j)
    PROVE  /\ OnlyHandler(h) /\ JobOf(h)' /\ OwnersStay
           /\ sessions' \in [SessionIds -> Sessions \cup {None}]
<1>1. CASE sessions[j.id] = None
  <2>1. /\ sessions' = [sessions EXCEPT ![j.id] = Fresh(j.speaker)]
        /\ job' = [job EXCEPT ![h] = j] /\ pc' = [pc EXCEPT ![h] = "created"]
    BY <1>1 DEF NewSession, Goto
  <2>2. /\ sessions' \in [SessionIds -> Sessions \cup {None}] /\ OwnersStay
        /\ Owned(sessions', j.id, j.speaker)
    BY <1>1, <2>1, FreshOwns
  <2>3. OnlyHandler(h) /\ job'[h] = j /\ pc'[h] = "created"
    BY <2>1 DEF BridgeTypes, OnlyHandler, Places
  <2> QED
    BY <2>2, <2>3 DEF JobOf, Owned
<1>2. CASE sessions[j.id] # None
  BY <1>2, EndOnly DEF NewSession, BridgeTypes, OwnersStay, Owned
<1> QED
  BY <1>1, <1>2

LEMMA MakeSessionKeeps ==
    ASSUME BridgeTypes, NEW h \in Handlers, NEW j \in JobRecords, j.speaker \in Speakers,
           MakeSession(h, j)
    PROVE  /\ OnlyHandler(h) /\ JobOf(h)' /\ OwnersStay
           /\ sessions' \in [SessionIds -> Sessions \cup {None}]
<1> DEFINE chosen == [j EXCEPT !.id = ChosenId(j.speaker, j.wanted)]
<1>1. ChosenId(j.speaker, j.wanted) \in SessionIds
  BY DEF ChosenId, SessionIds, JobRecords, BridgeTypes
<1>2. chosen \in JobRecords /\ chosen.speaker \in Speakers /\ chosen.id \in SessionIds
  BY <1>1 DEF JobRecords
<1>3. CASE j.wanted = None
  <2>1. NewSession(h, chosen)
    BY <1>3 DEF MakeSession
  <2> HIDE DEF chosen
  <2> QED
    BY <1>2, <2>1, NewSessionKeeps
<1>4. CASE j.wanted # None
  <2>1. /\ pc' = [pc EXCEPT ![h] = "lookup"] /\ job' = [job EXCEPT ![h] = chosen]
        /\ UNCHANGED sessions
    BY <1>4 DEF MakeSession, Goto
  <2> HIDE DEF chosen
  <2>2. OnlyHandler(h) /\ job'[h] = chosen /\ pc'[h] = "lookup"
    BY <1>2, <2>1 DEF BridgeTypes, OnlyHandler, Places
  <2> QED
    BY <1>2, <2>1, <2>2 DEF JobOf, Owned, OwnersStay, BridgeTypes
<1> QED
  BY <1>3, <1>4

LEMMA OwnInit == Init => OwnInv
<1> SUFFICES ASSUME Init PROVE OwnInv
  OBVIOUS
<1>1. PICK foreign \in SUBSET Ids :
        sessions = [i \in SessionIds |->
                       IF i \in foreign THEN [owner |-> None, status |-> "active", group |-> 1]
                       ELSE None]
  BY DEF Init
<1>2. [owner |-> None, status |-> "active", group |-> 1] \in Sessions
  BY DEF Sessions, Statuses
<1>3. sessions \in [SessionIds -> Sessions \cup {None}]
  BY <1>1, <1>2
<1>4. BridgeTypes
  BY <1>3, IdleTyped, TargetAssumption DEF Init, BridgeTypes, Places
<1>5. \A h \in Handlers : JobOf(h)
  BY DEF Init, JobOf
<1> QED
  BY <1>4, <1>5 DEF Init, OwnInv, SessionsApart

\* handleSpeakerDetected, up to its first await.
LEMMA DetectedKeeps ==
    ASSUME OwnInv, NEW h \in Handlers, NEW s \in Speakers, NEW wanted \in Ids \cup {None},
           Detected(h, s, wanted)
    PROVE  OwnInv'
<1> DEFINE j == [speaker |-> s, queued |-> fsm'.state[s] = "queued",
                 wanted |-> wanted, id |-> mapped[s]]
<1>0. BridgeTypes /\ UNCHANGED <<mapped, clock>>
  BY DEF OwnInv, Detected
<1>1. j \in JobRecords /\ j.speaker \in Speakers
  BY <1>0 DEF JobRecords, BridgeTypes
<1>2. /\ OnlyHandler(h) /\ JobOf(h)' /\ OwnersStay
      /\ sessions' \in [SessionIds -> Sessions \cup {None}]
  <2>1. CASE fsm'.state[s] = "responding"
    <3>1. End(h) /\ UNCHANGED sessions
      BY <2>1 DEF Detected
    <3> QED
      BY <1>0, <3>1, EndOnly DEF BridgeTypes, OwnersStay
  <2>2. CASE fsm'.state[s] # "responding" /\ mapped[s] = None
    <3>1. MakeSession(h, j)
      BY <2>2 DEF Detected
    <3> HIDE DEF j
    <3> QED
      BY <1>0, <1>1, <3>1, MakeSessionKeeps
  <2>3. CASE fsm'.state[s] # "responding" /\ mapped[s] # None
    <3>1. /\ pc' = [pc EXCEPT ![h] = "verify"] /\ job' = [job EXCEPT ![h] = j]
          /\ UNCHANGED sessions
      BY <2>3 DEF Detected, Goto
    <3>2. j.id \in SessionIds /\ Owned(sessions, j.id, j.speaker)
      BY <1>0, <2>3 DEF OwnInv, SessionsApart, Owned, BridgeTypes
    <3> HIDE DEF j
    <3>3. OnlyHandler(h) /\ job'[h] = j /\ pc'[h] = "verify"
      BY <1>0, <1>1, <3>1 DEF BridgeTypes, OnlyHandler, Places
    <3>4. sessions' = sessions
      BY <3>1
    <3>5. JobOf(h)'
      BY <1>1, <3>2, <3>3, <3>4 DEF JobOf
    <3> QED
      BY <1>0, <3>3, <3>4, <3>5 DEF OwnersStay, BridgeTypes
  <2> QED
    BY <2>1, <2>2, <2>3
<1>3. BridgeTypes'
  BY <1>0, <1>2 DEF BridgeTypes, OnlyHandler
<1> QED
  BY <1>0, <1>2, <1>3, HandlerKeeps

\* A handler goes on after an await.
LEMMA ResumeKeeps ==
    ASSUME OwnInv, NEW h \in Handlers, Resume(h)
    PROVE  OwnInv'
<1>0. BridgeTypes /\ JobOf(h) /\ job[h] \in JobRecords
  BY DEF OwnInv, BridgeTypes
<1>1. ASSUME Verify(h)
      PROVE  OwnInv'
  <2>1. /\ pc[h] = "verify" /\ UNCHANGED <<mapped, clock>>
        /\ job[h].speaker \in Speakers
    BY <1>0, <1>1 DEF Verify, JobOf
  <2>2. /\ OnlyHandler(h) /\ JobOf(h)' /\ OwnersStay
        /\ sessions' \in [SessionIds -> Sessions \cup {None}]
    <3>1. CASE sessions[job[h].id].status = "active"
      <4>1. pc' = [pc EXCEPT ![h] = "ensured"] /\ UNCHANGED <<sessions, job>>
        BY <1>1, <3>1 DEF Verify, Goto
      <4> QED
        BY <1>0, <2>1, <4>1 DEF BridgeTypes, OnlyHandler, JobOf, Places, OwnersStay, Owned
    <3>2. CASE sessions[job[h].id].status # "active"
      <4>1. MakeSession(h, job[h])
        BY <1>1, <3>2 DEF Verify
      <4> QED
        BY <1>0, <2>1, <4>1, MakeSessionKeeps
    <3> QED
      BY <3>1, <3>2
  <2>3. BridgeTypes'
    BY <1>0, <2>1, <2>2 DEF BridgeTypes, OnlyHandler
  <2> QED
    BY <2>1, <2>2, <2>3, HandlerKeeps
<1>2. ASSUME Create(h)
      PROVE  OwnInv'
  <2>1. /\ NewSession(h, job[h]) /\ UNCHANGED <<mapped, clock>>
        /\ job[h].speaker \in Speakers /\ job[h].id \in SessionIds
    BY <1>0, <1>2 DEF Create, JobOf
  <2>2. /\ OnlyHandler(h) /\ JobOf(h)' /\ OwnersStay
        /\ sessions' \in [SessionIds -> Sessions \cup {None}]
    BY <1>0, <2>1, NewSessionKeeps
  <2>3. BridgeTypes'
    BY <1>0, <2>1, <2>2 DEF BridgeTypes, OnlyHandler
  <2> QED
    BY <2>1, <2>2, <2>3, HandlerKeeps
<1>3. ASSUME Created(h)
      PROVE  OwnInv'
  <2>1. /\ mapped' = [mapped EXCEPT ![job[h].speaker] = job[h].id]
        /\ pc' = [pc EXCEPT ![h] = "ensured"]
        /\ UNCHANGED <<sessions, job, clock>>
        /\ job[h].speaker \in Speakers /\ job[h].id \in SessionIds
        /\ Owned(sessions, job[h].id, job[h].speaker)
    BY <1>0, <1>3 DEF Created, Goto, JobOf
  <2>2. OnlyHandler(h) /\ JobOf(h)' /\ OwnersStay /\ BridgeTypes'
    BY <1>0, <2>1 DEF BridgeTypes, OnlyHandler, JobOf, Places, OwnersStay, Owned
  <2>3. \A s \in Speakers : mapped'[s] = mapped[s] \/ Owned(sessions', mapped'[s], s)
    BY <1>0, <2>1 DEF BridgeTypes
  <2> QED
    BY <2>2, <2>3, HandlerKeeps
<1>4. ASSUME Ensured(h)
      PROVE  OwnInv'
  <2>1. /\ UNCHANGED <<mapped, clock>>
        /\ job[h].id \in SessionIds /\ sessions[job[h].id] # None
    BY <1>0, <1>4 DEF Ensured, JobOf, Owned
  <2>2. /\ OnlyHandler(h) /\ JobOf(h)' /\ OwnersStay
        /\ sessions' \in [SessionIds -> Sessions \cup {None}]
    <3>1. CASE job[h].queued
      <4>1. /\ sessions' = [sessions EXCEPT ![job[h].id].group = 0]
            /\ pc' = [pc EXCEPT ![h] = "publish"] /\ UNCHANGED job
        BY <1>4, <3>1 DEF Ensured, Goto
      <4>2. OwnersStay /\ sessions' \in [SessionIds -> Sessions \cup {None}]
        BY <1>0, <2>1, <4>1, TouchOwns
      <4> QED
        BY <1>0, <4>1, <4>2 DEF BridgeTypes, OnlyHandler, JobOf, Places
    <3>2. CASE ~job[h].queued
      BY <1>0, <1>4, <3>2, EndOnly DEF Ensured, BridgeTypes, OwnersStay
    <3> QED
      BY <3>1, <3>2
  <2>3. BridgeTypes'
    BY <1>0, <2>1, <2>2 DEF BridgeTypes, OnlyHandler
  <2> QED
    BY <2>1, <2>2, <2>3, HandlerKeeps
<1>5. ASSUME Publish(h)
      PROVE  OwnInv'
  <2>1. OnlyHandler(h) /\ JobOf(h)' /\ UNCHANGED <<mapped, sessions, clock>>
    BY <1>0, <1>5, EndOnly DEF Publish
  <2>2. BridgeTypes' /\ OwnersStay
    BY <1>0, <2>1 DEF BridgeTypes, OnlyHandler, OwnersStay
  <2> QED
    BY <2>1, <2>2, HandlerKeeps
<1> QED
  BY <1>1, <1>2, <1>3, <1>4, <1>5 DEF Resume

\* handleSpeakerLost: the session that is upgraded is mapped.
LEMMA LostKeeps ==
    ASSUME OwnInv, Sound(fsm), NEW h \in Handlers, NEW s \in Speakers, Lost(h, s)
    PROVE  OwnInv'
<1>0. /\ BridgeTypes /\ UNCHANGED <<job, clock>> /\ pc[h] = "idle"
      /\ mapped' = [mapped EXCEPT ![s] = None]
  BY DEF OwnInv, Lost, Begin
<1>1. \A t \in Speakers : mapped'[t] = mapped[t] \/ mapped'[t] = None
  BY <1>0 DEF BridgeTypes
<1>2. /\ sessions' \in [SessionIds -> Sessions \cup {None}] /\ OwnersStay
      /\ pc' \in [Handlers -> Places]
      /\ \A g \in Handlers \ {h} : pc'[g] = pc[g]
      /\ pc'[h] \in {"idle", "publish"}
  <2> DEFINE next == fsm'.primary
  <2>1. CASE fsm.primary = s /\ next # None /\ mapped'[next] # None
    <3>1. Sound(fsm')
      BY TransitionSound DEF Lost, Transitions
    <3>2. next \in Speakers
      BY <2>1, <3>1 DEF Sound, Machines
    <3>3. mapped'[next] \in SessionIds /\ sessions[mapped'[next]] # None
      BY <1>0, <1>1, <2>1, <3>2 DEF OwnInv, SessionsApart, BridgeTypes
    <3>4. /\ sessions' = [sessions EXCEPT ![mapped'[next]].group = 1]
          /\ pc' = [pc EXCEPT ![h] = "publish"]
      BY <2>1 DEF Lost, Upgrade, Goto
    <3> HIDE DEF next
    <3>5. sessions' \in [SessionIds -> Sessions \cup {None}] /\ OwnersStay
      BY <1>0, <3>3, <3>4, TouchOwns
    <3> QED
      BY <1>0, <3>4, <3>5 DEF BridgeTypes, Places
  <2>2. CASE ~(fsm.primary = s /\ next # None /\ mapped'[next] # None)
    <3>1. UNCHANGED <<sessions, pc>>
      BY <2>2 DEF Lost
    <3> QED
      BY <1>0, <3>1 DEF BridgeTypes, OwnersStay
  <2> QED
    BY <2>1, <2>2
<1>3. OnlyHandler(h)
  BY <1>0, <1>2 DEF BridgeTypes, OnlyHandler
<1>4. JobOf(h)'
  BY <1>2 DEF JobOf
<1>5. BridgeTypes'
  BY <1>0, <1>2 DEF BridgeTypes
<1> QED
  BY <1>1, <1>2, <1>3, <1>4, <1>5, HandlerKeeps

\* No handler of the bridge moves.
LEMMA OtherKeeps ==
    ASSUME OwnInv, UNCHANGED <<mapped, pc, job>>, OwnersStay, BridgeTypes'
    PROVE  OwnInv'
<1>1. ASSUME NEW h \in Handlers PROVE JobOf(h)'
  <2>1. JobOf(h)
    BY DEF OwnInv
  <2> QED
    BY <2>1 DEF JobOf, OwnersStay
<1>2. ASSUME NEW s \in Speakers, mapped[s] # None
      PROVE  Owned(sessions', mapped[s], s)
  <2>1. mapped[s] \in SessionIds /\ Owned(sessions, mapped[s], s)
    BY <1>2 DEF OwnInv, SessionsApart, Owned, BridgeTypes
  <2> QED
    BY <2>1 DEF OwnersStay
<1> QED
  BY <1>1, <1>2 DEF OwnInv, SessionsApart, Owned

LEMMA OwnStep == Sound(fsm) /\ OwnInv /\ [Next]_vars => OwnInv'
<1> SUFFICES ASSUME Sound(fsm), OwnInv, [Next]_vars
             PROVE  OwnInv'
  OBVIOUS
<1>0. BridgeTypes
  BY DEF OwnInv
<1>1. ASSUME UNCHANGED <<mapped, sessions, pc, job>>, clock' \in 0 .. MaxClock
      PROVE  OwnInv'
  <2>1. OwnersStay /\ BridgeTypes'
    BY <1>0, <1>1 DEF BridgeTypes, OwnersStay
  <2> QED
    BY <1>1, <2>1, OtherKeeps
<1>2. CASE UNCHANGED vars
  BY <1>0, <1>1, <1>2 DEF vars, BridgeTypes
<1>3. ASSUME NEW h \in Handlers, Resume(h)
      PROVE  OwnInv'
  BY <1>3, ResumeKeeps
<1>4. ASSUME NEW h \in Handlers, NEW s \in Speakers, NEW wanted \in Ids \cup {None},
             Detected(h, s, wanted)
      PROVE  OwnInv'
  BY <1>4, DetectedKeeps
<1>5. ASSUME NEW h \in Handlers, NEW s \in Speakers, Lost(h, s)
      PROVE  OwnInv'
  BY <1>5, LostKeeps
<1>6. ASSUME NEW h \in Handlers, NEW s \in Speakers, NEW e, Heard(h, s, e)
      PROVE  OwnInv'
  BY <1>0, <1>1, <1>6 DEF Heard, BridgeTypes
<1>7. ASSUME NEW s \in Speakers, SetAmbient(s)
      PROVE  OwnInv'
  BY <1>0, <1>1, <1>7 DEF SetAmbient, BridgeTypes
<1>8. ASSUME NEW i \in SessionIds, NEW status \in Statuses, SetStatus(i, status)
      PROVE  OwnInv'
  <2>1. /\ sessions[i] # None /\ sessions' = [sessions EXCEPT ![i].status = status]
        /\ UNCHANGED <<mapped, pc, job, clock>>
    BY <1>8 DEF SetStatus
  <2>2. sessions' \in [SessionIds -> Sessions \cup {None}] /\ OwnersStay
    BY <1>0, <2>1, TouchOwns
  <2>3. BridgeTypes'
    BY <1>0, <2>1, <2>2 DEF BridgeTypes
  <2> QED
    BY <2>1, <2>2, <2>3, OtherKeeps
<1>9. CASE Tick
  <2>1. clock' \in 0 .. MaxClock
    BY <1>0, <1>9, TargetAssumption DEF Tick, BridgeTypes
  <2> QED
    BY <1>1, <1>9, <2>1 DEF Tick
<1> QED
  BY <1>2, <1>3, <1>4, <1>5, <1>6, <1>7, <1>8, <1>9 DEF Next

\* Two speakers never share a session: whatever the lookups of proposed ids, the
\* creations and the losses of speakers interleave, a mapped session is its
\* speaker's own (ensureSession in target-group-bridge.ts).
THEOREM SessionsAreApart == Spec => []SessionsApart
<1>1. OwnInv => SessionsApart
  BY DEF OwnInv
<1> QED
  BY <1>1, SoundInit, SoundStep, OwnInit, OwnStep, PTL DEF Spec

-----------------------------------------------------------------------------
(* The participants of the LiveKit room *)

CONSTANT Conns
VARIABLES room, track, timer, start, close, conn, inside, broken

Room == INSTANCE LiveKitRoom

Closings == [at : {"idle", "sweep", "track", "leave", "delete"},
             conn : Conns \cup {None}, left : SUBSET People]

\* What the room, its starts and its sweeps hold are connections and participants.
RoomTypes ==
    /\ inside \in SUBSET People
    /\ room \in Conns \cup {None}
    /\ start \in [at : {"idle", "creating", "joining", "meeting", "publishing"},
                  conn : Conns \cup {None}]
    /\ close \in [Room!Callers -> Closings]

\* What the bus heard last of a participant is what the manager holds of him, unless
\* the publication threw; so what comes next is news.
Counted ==
    /\ known \in SUBSET People
    /\ said \in [People -> Words]
    /\ \A p \in People : said[p] \in {"unsure", IF p \in known THEN "detected" ELSE "lost"}
    /\ twice = {}

\* Registering and removing keep the bus in step with the manager's participants.
LEMMA EnsureCounts ==
    ASSUME Counted, NEW ps \in SUBSET People, NEW mute, Room!ensureParticipants(ps, mute)
    PROVE  Counted'
<1>1. /\ known' = known \cup ps
      /\ said' = [p \in People |-> CASE p \in (ps \ known) \cap mute -> "unsure"
                                     [] p \in (ps \ known) \ mute    -> "detected"
                                     [] OTHER                        -> said[p]]
      /\ twice' = twice \cup {p \in (ps \ known) \ mute : said[p] = "detected"}
  BY DEF Room!ensureParticipants, Room!Told
<1>2. \A p \in People : said'[p] \in Words
                        /\ said'[p] \in {"unsure", IF p \in known' THEN "detected" ELSE "lost"}
  BY <1>1 DEF Counted, Words
<1>3. \A p \in ps \ known : said[p] # "detected"
  BY DEF Counted
<1>4. known' \in SUBSET People /\ said' \in [People -> Words] /\ twice' = {}
  BY <1>1, <1>2, <1>3 DEF Counted
<1> QED
  BY <1>2, <1>4 DEF Counted

LEMMA DisconnectCounts ==
    ASSUME Counted, NEW p \in People, NEW mute, Room!disconnectParticipant(p, mute)
    PROVE  Counted'
<1>1. /\ known' = known \ {p}
      /\ said' = [q \in People |-> CASE q \in ({p} \cap known) \cap mute -> "unsure"
                                     [] q \in ({p} \cap known) \ mute    -> "lost"
                                     [] OTHER                            -> said[q]]
      /\ twice' = twice \cup {q \in ({p} \cap known) \ mute : said[q] = "lost"}
  BY DEF Room!disconnectParticipant, Room!Told
<1>2. \A q \in People : said'[q] \in Words
                        /\ said'[q] \in {"unsure", IF q \in known' THEN "detected" ELSE "lost"}
  BY <1>1 DEF Counted, Words
<1>3. \A q \in {p} \cap known : said[q] # "lost"
  BY DEF Counted
<1>4. known' \in SUBSET People /\ said' \in [People -> Words] /\ twice' = {}
  BY <1>1, <1>2, <1>3 DEF Counted
<1> QED
  BY <1>2, <1>4 DEF Counted

LEMMA RoomInit == Room!Init => RoomTypes /\ Counted
  BY DEF Room!Init, Room!NoStart, Room!NoClose, RoomTypes, Counted, Closings, Words

\* One closing moves on.
LEMMA ClosingTyped ==
    ASSUME RoomTypes, NEW t \in Room!Callers, NEW r \in Closings, close' = [close EXCEPT ![t] = r]
    PROVE  close' \in [Room!Callers -> Closings]
  BY DEF RoomTypes

\* The start of the room, and what it leaves alone.
LEMMA StartsKeep ==
    ASSUME RoomTypes, Room!Starts
    PROVE  RoomTypes'
<1> USE DEF RoomTypes
<1>1. CASE Room!CreateEnd
  BY <1>1 DEF Room!CreateEnd
<1>2. CASE Room!JoinEnd
  BY <1>2 DEF Room!JoinEnd, Room!NoStart
<1>3. CASE Room!PublishTrack
  BY <1>3 DEF Room!PublishTrack
<1>4. CASE Room!StartEnd \/ Room!ConnectFails \/ Room!PublishFails
  BY <1>4 DEF Room!StartEnd, Room!ConnectFails, Room!PublishFails, Room!NoStart
<1> QED
  BY <1>1, <1>2, <1>3, <1>4 DEF Room!Starts

\* The steps of a closing, and what they leave alone.
LEMMA ClosesKeep ==
    ASSUME RoomTypes, NEW t \in Room!Callers, Room!Closes(t)
    PROVE  RoomTypes'
<1> DEFINE c == close[t]
<1>0. c \in Closings /\ Room!NoClose \in Closings
  BY DEF RoomTypes, Closings, Room!NoClose
<1>1. CASE Room!Sweep(t)
  <2>1. PICK p \in c.left : close' = [close EXCEPT ![t].left = @ \ {p}]
                            \/ close' = [close EXCEPT ![t] = Room!NoClose]
    BY <1>1 DEF Room!Sweep
  <2>2. close' \in [Room!Callers -> Closings]
    BY <1>0, <2>1 DEF RoomTypes, Closings
  <2> QED
    BY <1>1, <2>2 DEF Room!Sweep, RoomTypes
<1>2. CASE Room!SweepEnd(t)
  <2>1. close' = [close EXCEPT ![t] = Room!NoClose] \/ close' = [close EXCEPT ![t].at = "track"]
    BY <1>2 DEF Room!SweepEnd
  <2>2. close' \in [Room!Callers -> Closings]
    BY <1>0, <2>1 DEF RoomTypes, Closings
  <2> QED
    BY <1>2, <2>2 DEF Room!SweepEnd, RoomTypes
<1>3. CASE Room!TrackClosed(t)
  <2>1. close' \in [Room!Callers -> Closings]
    BY <1>0, <1>3 DEF Room!TrackClosed, RoomTypes, Closings
  <2> QED
    BY <1>3, <2>1 DEF Room!TrackClosed, RoomTypes
<1>4. CASE Room!Left(t)
  <2>1. close' \in [Room!Callers -> Closings]
    BY <1>0, <1>4 DEF Room!Left, RoomTypes, Closings
  <2> QED
    BY <1>4, <2>1 DEF Room!Left, RoomTypes
<1>5. CASE Room!Deleted(t)
  <2>1. close' \in [Room!Callers -> Closings]
    BY <1>0, <1>5 DEF Room!Deleted, RoomTypes
  <2> QED
    BY <1>5, <2>1 DEF Room!Deleted, RoomTypes
<1> QED
  BY <1>1, <1>2, <1>3, <1>4, <1>5 DEF Room!Closes

LEMMA RoomTypesStep == RoomTypes /\ Counted /\ [Room!Next]_(Room!vars) => RoomTypes'
<1> SUFFICES ASSUME RoomTypes, Counted, [Room!Next]_(Room!vars)
             PROVE  RoomTypes'
  OBVIOUS
<1>1. CASE UNCHANGED Room!vars
  BY <1>1 DEF Room!vars, RoomTypes
<1>2. ASSUME NEW c \in Conns, Room!TokenStart(c)
      PROVE  RoomTypes'
  BY <1>2 DEF Room!TokenStart, RoomTypes
<1>3. ASSUME Room!HttpClose \/ \E c \in Conns : Room!Disconnected(c)
      PROVE  RoomTypes'
  <2>1. PICK t \in Room!Callers : Room!Sweeping(t)
    BY <1>3 DEF Room!HttpClose, Room!Disconnected, Room!Callers
  <2>2. [Room!NoClose EXCEPT !.at = "sweep", !.left = known] \in Closings
    BY DEF Room!NoClose, Closings, Counted
  <2>3. close' \in [Room!Callers -> Closings]
    BY <2>1, <2>2, ClosingTyped DEF Room!Sweeping
  <2> QED
    BY <1>3, <2>3 DEF Room!HttpClose, Room!Disconnected, RoomTypes
<1>4. CASE Room!TimerFires
  <2>1. [Room!NoClose EXCEPT !.at = "track"] \in Closings /\ "idle" \in Room!Callers
    BY DEF Room!NoClose, Closings, Room!Callers
  <2>2. close' \in [Room!Callers -> Closings]
    BY <1>4, <2>1 DEF Room!TimerFires, RoomTypes
  <2> QED
    BY <1>4, <2>2 DEF Room!TimerFires, RoomTypes
<1>5. ASSUME NEW p \in People, Room!PersonJoins(p) \/ Room!PersonLeaves(p)
      PROVE  RoomTypes'
  BY <1>5 DEF Room!PersonJoins, Room!PersonLeaves, RoomTypes
<1>6. ASSUME NEW p \in People, Room!Transcript(p)
      PROVE  RoomTypes'
  BY <1>6 DEF Room!Transcript, RoomTypes
<1>7. ASSUME NEW c \in Conns, Room!Drop(c)
      PROVE  RoomTypes'
  BY <1>7 DEF Room!Drop, RoomTypes
<1>8. CASE Room!TokenExisting
  BY <1>8 DEF Room!TokenExisting, RoomTypes
<1>9. CASE Room!Starts
  BY <1>9, StartsKeep
<1>10. ASSUME NEW t \in Room!Callers, Room!Closes(t)
       PROVE  RoomTypes'
  BY <1>10, ClosesKeep
<1> QED
  BY <1>1, <1>2, <1>3, <1>4, <1>5, <1>6, <1>7, <1>8, <1>9, <1>10 DEF Room!Next

\* What a step tells the bus about participants.
LEMMA TellSteps ==
    ASSUME RoomTypes, [Room!Next]_(Room!vars)
    PROVE  \/ \E ps, mute \in SUBSET People : Room!ensureParticipants(ps, mute)
           \/ \E p \in People, mute \in SUBSET People : Room!disconnectParticipant(p, mute)
           \/ UNCHANGED <<known, said, twice>>
<1>1. CASE UNCHANGED Room!vars
  BY <1>1 DEF Room!vars
<1>2. ASSUME NEW c \in Conns, Room!TokenStart(c) \/ Room!Disconnected(c) \/ Room!Drop(c)
      PROVE  UNCHANGED <<known, said, twice>>
  BY <1>2 DEF Room!TokenStart, Room!Disconnected, Room!Drop
<1>3. ASSUME NEW p \in People, Room!Transcript(p)
      PROVE  \E mute \in SUBSET People : Room!ensureParticipants({p}, mute)
  BY <1>3 DEF Room!Transcript
<1>4. ASSUME NEW p \in People, Room!PersonJoins(p)
      PROVE  Room!ensureParticipants({p}, {}) \/ UNCHANGED <<known, said, twice>>
  BY <1>4 DEF Room!PersonJoins
<1>5. ASSUME NEW p \in People, Room!PersonLeaves(p)
      PROVE  Room!disconnectParticipant(p, {}) \/ UNCHANGED <<known, said, twice>>
  BY <1>5 DEF Room!PersonLeaves
<1>6. CASE Room!TokenExisting \/ Room!TimerFires \/ Room!HttpClose
  BY <1>6 DEF Room!TokenExisting, Room!TimerFires, Room!HttpClose
<1>7. CASE Room!JoinEnd
  <2>1. PICK met \in SUBSET inside :
            \/ Room!ensureParticipants(met, {})
            \/ \E p \in met \ known : Room!ensureParticipants(met, {p})
    BY <1>7 DEF Room!JoinEnd
  <2>2. met \in SUBSET People /\ \A p \in met \ known : {p} \in SUBSET People
    BY DEF RoomTypes
  <2>3. \E mute \in SUBSET People : Room!ensureParticipants(met, mute)
    BY <2>1, <2>2
  <2> QED
    BY <2>2, <2>3
<1>8. CASE Room!Starts /\ ~Room!JoinEnd
  BY <1>8 DEF Room!Starts, Room!CreateEnd, Room!PublishTrack, Room!StartEnd,
              Room!ConnectFails, Room!PublishFails
<1>9. ASSUME NEW t \in Room!Callers, Room!Sweep(t)
      PROVE  \E p \in People, mute \in SUBSET People : Room!disconnectParticipant(p, mute)
  <2>1. close[t].left \in SUBSET People
    BY DEF RoomTypes, Closings
  <2>2. PICK p \in close[t].left : Room!disconnectParticipant(p, {})
                                    \/ Room!disconnectParticipant(p, {p})
    BY <1>9 DEF Room!Sweep
  <2>3. p \in People /\ {} \in SUBSET People /\ {p} \in SUBSET People
    BY <2>1
  <2> QED
    BY <2>2, <2>3
<1>10. ASSUME NEW t \in Room!Callers, Room!Closes(t), ~Room!Sweep(t)
       PROVE  UNCHANGED <<known, said, twice>>
  BY <1>10 DEF Room!Closes, Room!SweepEnd, Room!TrackClosed, Room!Left, Room!Deleted
<1> QED
  <2>1. {} \in SUBSET People /\ \A p \in People : {p} \in SUBSET People
    OBVIOUS
  <2> QED
    BY <1>1, <1>2, <1>3, <1>4, <1>5, <1>6, <1>7, <1>8, <1>9, <1>10, <2>1 DEF Room!Next

LEMMA CountedStep == RoomTypes /\ Counted /\ [Room!Next]_(Room!vars) => Counted'
<1> SUFFICES ASSUME RoomTypes, Counted, [Room!Next]_(Room!vars)
             PROVE  Counted'
  OBVIOUS
<1>1. CASE UNCHANGED <<known, said, twice>>
  BY <1>1 DEF Counted
<1> QED
  BY <1>1, TellSteps, EnsureCounts, DisconnectCounts

\* Of a participant the bus never hears SPEAKER_DETECTED twice running, nor
\* SPEAKER_LOST, unless a publication about him threw in between, whatever joins,
\* transcripts, sweeps and lost connections overlap (LiveKitVoiceBridgeManager in
\* livekit-voice-bridge.ts).
THEOREM SpeakersDoAlternate == Room!Spec => []SpeakersAlternate
<1>1. RoomTypes /\ Counted => SpeakersAlternate
  BY DEF Counted, SpeakersAlternate
<1> QED
  BY <1>1, RoomInit, RoomTypesStep, CountedStep, PTL DEF Room!Spec
=============================================================================
