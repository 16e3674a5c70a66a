-------------------------- MODULE SpeechOutputProofs --------------------------
(***************************************************************************)
(* Theorems about the speech output: whatever starts the player, a session *)
(* is played by one loop, no segment waits for a start that does not come, *)
(* and what a barge-in cut is not heard afterwards.                        *)
(***************************************************************************)
EXTENDS SpeechOutput, SequenceTheorems, FiniteSetTheorems, WellFoundedInduction, TLAPS

-----------------------------------------------------------------------------
(* The queue *)

\* A set of positions has a first one.
LEMMA FirstExists ==
    ASSUME NEW S \in SUBSET Nat, S # {}
    PROVE  \E i \in S : \A j \in S : i <= j
  <1>1. PICK i \in S : \A j \in S : ~(<<j, i>> \in OpToRel(<, Nat))
    BY NatLessThanWellFounded, WFMin
  <1>2. \A j \in S : ~(j < i)
    BY <1>1 DEF OpToRel
  <1> QED
    BY <1>2

\* push puts the segment at one place and keeps the others in their order.
LEMMA InsertFacts ==
    ASSUME NEW q \in Seq(Segments), NEW s \in Segments
    PROVE  /\ Insert(q, s) \in Seq(Segments)
           /\ Insert(q, s) # <<>>
           /\ Len(Insert(q, s)) = Len(q) + 1
           /\ \E k \in 1 .. Len(q) + 1 : \A j \in 1 .. Len(q) + 1 :
                 Insert(q, s)[j] = IF j < k THEN q[j] ELSE IF j = k THEN s ELSE q[j - 1]
  <1>0. Len(q) \in Nat
    OBVIOUS
  <1>1. CASE Outranked(s, q) = {}
    <2>1. Insert(q, s) = Append(q, s)
      BY <1>1 DEF Insert
    <2>2. \A j \in 1 .. Len(q) + 1 :
             Insert(q, s)[j] = IF j < Len(q) + 1 THEN q[j]
                               ELSE IF j = Len(q) + 1 THEN s ELSE q[j - 1]
      BY <1>0, <2>1
    <2>3. Len(q) + 1 \in 1 .. Len(q) + 1
      BY <1>0
    <2>4. /\ Insert(q, s) \in Seq(Segments)
          /\ Insert(q, s) # <<>>
          /\ Len(Insert(q, s)) = Len(q) + 1
      BY <2>1, AppendProperties
    <2> QED
      BY <2>2, <2>3, <2>4
  <1>2. CASE Outranked(s, q) # {}
    <2> DEFINE i == CHOOSE i \in Outranked(s, q) : \A j \in Outranked(s, q) : i <= j
               front == SubSeq(q, 1, i - 1)
               back == SubSeq(q, i, Len(q))
    <2>1. Outranked(s, q) \in SUBSET Nat
      BY DEF Outranked
    <2>2. i \in 1 .. Len(q)
      BY <1>2, <2>1, FirstExists DEF Outranked
    <2>3. Insert(q, s) = front \o <<s>> \o back
      BY <1>2 DEF Insert
    <2> HIDE DEF i
    <2>4. /\ front \in Seq(Segments)
          /\ Len(front) = i - 1
          /\ \A j \in 1 .. i - 1 : front[j] = q[j]
      BY <1>0, <2>2, SubSeqProperties
    <2>5. /\ back \in Seq(Segments)
          /\ Len(back) = Len(q) - i + 1
          /\ \A j \in 1 .. Len(q) - i + 1 : back[j] = q[i + j - 1]
      BY <1>0, <2>2, SubSeqProperties
    <2> HIDE DEF front, back
    <2>6. /\ front \o <<s>> \in Seq(Segments)
          /\ Len(front \o <<s>>) = i
          /\ \A j \in 1 .. i : (front \o <<s>>)[j] = IF j < i THEN q[j] ELSE s
      BY <2>2, <2>4
    <2>7. /\ Insert(q, s) \in Seq(Segments)
          /\ Len(Insert(q, s)) = Len(q) + 1
      BY <1>0, <2>2, <2>3, <2>5, <2>6, ConcatProperties
    <2>8. ASSUME NEW j \in 1 .. Len(q) + 1
          PROVE  Insert(q, s)[j] = IF j < i THEN q[j] ELSE IF j = i THEN s ELSE q[j - 1]
      <3>1. Insert(q, s)[j] = IF j <= i THEN (front \o <<s>>)[j] ELSE back[j - i]
        BY SMTT(30), <1>0, <2>2, <2>3, <2>5, <2>6, ConcatProperties
      <3>2. CASE j <= i
        BY <2>2, <2>6, <3>1, <3>2
      <3>3. CASE j > i
        <4>1. j - i \in 1 .. Len(q) - i + 1
          BY <1>0, <2>2, <3>3
        <4>2. back[j - i] = q[i + (j - i) - 1]
          BY <2>5, <4>1
        <4>3. i + (j - i) - 1 = j - 1
          BY <2>2
        <4> QED
          BY <2>2, <3>1, <3>3, <4>2, <4>3
      <3> QED
        BY <2>2, <3>2, <3>3
    <2>9. i \in 1 .. Len(q) + 1
      BY <1>0, <2>2
    <2>10. Insert(q, s) # <<>>
      BY <1>0, <2>7
    <2> QED
      BY <2>7, <2>8, <2>9, <2>10
  <1> QED
    BY <1>1, <1>2

-----------------------------------------------------------------------------
(* What the steps do to the player *)

\* A turn waits for AUDIO_RESUMED, and each of these says one more sentence.
Resuming == {v \in Speakers : call[v].at = "resuming"}

\* The types, and room for the sentence of every turn that resumes.
Typed == TypeOK /\ counter + Cardinality(Resuming) <= MaxSegments

\* A start finds an invocation that is over.
LEMMA NewLoopIsFree ==
    ASSUME FreeLoops # {}
    PROVE  NewLoop \in Loops /\ loop[NewLoop] = Off
  <1>1. NewLoop \in FreeLoops
    BY DEF NewLoop
  <1> QED
    BY <1>1 DEF FreeLoops

LEMMA AdvanceTyped ==
    ASSUME TypeOK, NEW l \in Loops, NEW q \in Seq(Segments), Advance(l, q)
    PROVE  /\ queue' \in Seq(Segments)
           /\ state' \in States
           /\ processing' \in BOOLEAN
           /\ loop' \in [Loops -> Turns]
           /\ undone' = {}
  <1>1. CASE q # <<>> /\ state # "interrupted"
    <2>1. Head(q) \in Segments /\ Tail(q) \in Seq(Segments)
      BY <1>1, HeadTailProperties
    <2>2. [at |-> "announce", seg |-> Head(q)] \in Turns
      BY <2>1, SpeechAssumption DEF Segments, Turns
    <2> QED
      BY <1>1, <2>1, <2>2 DEF Advance, TypeOK, States
  <1>2. CASE ~(q # <<>> /\ state # "interrupted")
    <2>1. Off \in Turns
      BY SpeechAssumption DEF Off, Turns
    <2> QED
      BY <1>2, <2>1 DEF Advance, TypeOK, States
  <1> QED
    BY <1>1, <1>2

LEMMA WakeTyped ==
    ASSUME TypeOK, Wake(queue)
    PROVE  /\ queue' \in Seq(Segments)
           /\ state' \in States
           /\ processing' \in BOOLEAN
           /\ loop' \in [Loops -> Turns]
           /\ undone' \subseteq Omissions
  <1>1. queue \in Seq(Segments)
    BY DEF TypeOK
  <1>2. CASE UNCHANGED player
    BY <1>2 DEF player, TypeOK
  <1>3. ASSUME NEW l \in Loops, Advance(l, queue)
        PROVE  /\ queue' \in Seq(Segments)
               /\ state' \in States
               /\ processing' \in BOOLEAN
               /\ loop' \in [Loops -> Turns]
               /\ undone' = {}
    BY <1>1, <1>3, AdvanceTyped
  <1> QED
    BY <1>2, <1>3, NewLoopIsFree DEF Wake, Process, player

\* The turns that resume are finitely many.
LEMMA ResumingFinite == IsFiniteSet(Resuming) /\ Cardinality(Resuming) \in Nat
  <1>1. Resuming \in SUBSET Speakers
    BY DEF Resuming
  <1> QED
    BY <1>1, SpeechAssumption, FS_Subset, FS_CardinalityType

\* One turn more resumes.
LEMMA OneMoreResumes ==
    ASSUME call \in [Speakers -> Calls], NEW v \in Speakers, NEW left,
           call' = [call EXCEPT ![v] = [at |-> "resuming", left |-> left]]
    PROVE  /\ Cardinality(Resuming') \in Nat
           /\ Cardinality(Resuming') <= Cardinality(Resuming) + 1
  <1>1. Resuming' = Resuming \cup {v}
    BY DEF Resuming
  <1>2. /\ Cardinality(Resuming \cup {v}) =
              IF v \in Resuming THEN Cardinality(Resuming) ELSE Cardinality(Resuming) + 1
    BY ResumingFinite, FS_AddElement
  <1> QED
    BY <1>1, <1>2, ResumingFinite

\* A turn queues its sentence: it does not resume any more.
LEMMA OneLessResumes ==
    ASSUME call \in [Speakers -> Calls], NEW v \in Speakers, NEW left,
           call' = [call EXCEPT ![v] = [at |-> "queueing", left |-> left]]
    PROVE  Cardinality(Resuming') =
              IF v \in Resuming THEN Cardinality(Resuming) - 1 ELSE Cardinality(Resuming)
  <1>1. Resuming' = Resuming \ {v}
    BY DEF Resuming
  <1> QED
    BY <1>1, ResumingFinite, FS_RemoveElement

\* Nobody begins or ends to resume.
LEMMA ResumingKept ==
    ASSUME call' = call
    PROVE  Resuming' = Resuming
  BY DEF Resuming

LEMMA SpeakTyped ==
    ASSUME Typed, NEW v \in Speakers, NEW left \in 0 .. MaxSentences, Speak(v, left),
           call[v].at = "idle", buffered' \in BOOLEAN
    PROVE  Typed'
  <1> USE SpeechAssumption
  <1>0. /\ counter \in Nat
        /\ Cardinality(Resuming) \in Nat
        /\ counter + Cardinality(Resuming) < MaxSegments
    BY ResumingFinite DEF Typed, TypeOK, Speak, Resuming
  <1>1. CASE state = "interrupted"
    <2>1. /\ call' = [call EXCEPT ![v] = [at |-> "resuming", left |-> left]]
          /\ UNCHANGED counter
          /\ [at |-> "resuming", left |-> left] \in Calls
      BY <1>1 DEF Speak, Calls
    <2>2. TypeOK'
      BY <1>1, <2>1 DEF Typed, TypeOK, Speak, States, synth, bridge
    <2>3. /\ Cardinality(Resuming') \in Nat
          /\ Cardinality(Resuming') <= Cardinality(Resuming) + 1
      BY <2>1, OneMoreResumes DEF Typed, TypeOK
    <2> QED
      BY <1>0, <2>1, <2>2, <2>3 DEF Typed
  <1>2. CASE state # "interrupted"
    <2>1. /\ call' = [call EXCEPT ![v] = [at |-> "queueing", left |-> left]]
          /\ counter' = counter + 1
          /\ [at |-> "queueing", left |-> left] \in Calls
          /\ queue' = Insert(queue, counter + 1)
      BY <1>2 DEF Speak, Calls
    <2>2. counter + 1 \in Segments /\ counter' \in 0 .. MaxSegments
      BY <1>0, <2>1 DEF Segments
    <2>3. queue' \in Seq(Segments)
      BY <2>1, <2>2, InsertFacts DEF Typed, TypeOK
    <2>4. TypeOK'
      BY <1>2, <2>1, <2>2, <2>3 DEF Typed, TypeOK, Speak, States, synth, bridge
    <2>5. Cardinality(Resuming') = Cardinality(Resuming)
      <3>1. v \notin Resuming
        BY DEF Resuming
      <3> QED
        BY <2>1, <3>1, OneLessResumes DEF Typed, TypeOK
    <2> QED
      BY <1>0, <2>1, <2>4, <2>5 DEF Typed
  <1> QED
    BY <1>1, <1>2

LEMMA TypedInit == Init => Typed
  <1> SUFFICES ASSUME Init PROVE Typed
    OBVIOUS
  <1> USE SpeechAssumption
  <1>1. Off \in Turns /\ Quiet \in Calls
    BY DEF Off, Turns, Quiet, Calls
  <1>2. Resuming = {}
    BY DEF Init, Quiet, Resuming
  <1>3. /\ queue \in Seq(Segments)
        /\ state \in States
        /\ loop \in [Loops -> Turns]
        /\ controller \in 0 .. MaxSegments
        /\ aborted \subseteq Segments
        /\ cut \subseteq Segments
        /\ undone \subseteq Omissions
    BY <1>1 DEF Init, States
  <1>4. /\ chunks \in [Segments -> Nat]
        /\ call \in [Speakers -> Calls]
        /\ counter \in 0 .. MaxSegments
        /\ {bargeIns, faults} \subseteq Nat
    BY <1>1 DEF Init
  <1>5. processing \in BOOLEAN /\ {buffered, bargedIn, coming} \subseteq BOOLEAN
    BY DEF Init
  <1>6. TypeOK
    BY <1>3, <1>4, <1>5 DEF TypeOK
  <1> QED
    BY <1>2, <1>6, FS_EmptySet DEF Typed, Init

LEMMA TypedStep == Typed /\ [Next]_vars => Typed'
  <1> SUFFICES ASSUME Typed, [Next]_vars
               PROVE  Typed'
    OBVIOUS
  <1> USE SpeechAssumption
  <1>0. TypeOK /\ Cardinality(Resuming) \in Nat
    BY ResumingFinite DEF Typed
  <1>1. CASE UNCHANGED vars
    BY <1>1, ResumingKept DEF vars, Typed, TypeOK
  <1>2. ASSUME NEW v \in Speakers, TextChunk(v) \/ Flush(v) \/ NextSentence(v)
        PROVE  Typed'
    <2>1. call[v] \in Calls
      BY <1>0 DEF TypeOK
    <2>2. CASE TextChunk(v)
      <3>1. PICK n \in 1 .. MaxSentences, rest \in BOOLEAN : Speak(v, n - 1) /\ buffered' = rest
        BY <2>2 DEF TextChunk
      <3>2. n - 1 \in 0 .. MaxSentences /\ call[v].at = "idle"
        BY <2>2 DEF TextChunk, Quiet
      <3> QED
        BY <3>1, <3>2, SpeakTyped
    <2>3. CASE Flush(v)
      <3>1. 0 \in 0 .. MaxSentences /\ call[v].at = "idle"
        BY <2>3 DEF Flush, Quiet
      <3> QED
        BY <2>3, <3>1, SpeakTyped DEF Flush
    <2>4. CASE NextSentence(v)
      <3>1. call[v].left - 1 \in 0 .. MaxSentences
        BY <2>1, <2>4 DEF NextSentence, Calls
      <3> QED
        BY <1>0, <2>4, <3>1, SpeakTyped DEF NextSentence, TypeOK
    <2> QED
      BY <1>2, <2>2, <2>3, <2>4
  <1>3. ASSUME NEW v \in Speakers, Resumed(v)
        PROVE  Typed'
    <2>0. call[v] \in Calls
      BY <1>0 DEF TypeOK
    <2>a. [call[v] EXCEPT !.at = "queueing"] = [at |-> "queueing", left |-> call[v].left]
      BY <2>0 DEF Calls
    <2>1. /\ call' = [call EXCEPT ![v] = [at |-> "queueing", left |-> call[v].left]]
          /\ [at |-> "queueing", left |-> call[v].left] \in Calls
      BY <1>3, <2>0, <2>a DEF Resumed, Calls
    <2>2. v \in Resuming
      BY <1>3 DEF Resumed, Resuming
    <2>3. Cardinality(Resuming') = Cardinality(Resuming) - 1 /\ Cardinality(Resuming) # 0
      BY <1>0, <2>1, <2>2, OneLessResumes, ResumingFinite, FS_EmptySet DEF TypeOK
    <2>b. counter' = counter + 1 /\ counter \in Nat
      BY <1>0, <1>3 DEF TypeOK, Resumed
    <2>c. counter + 1 <= MaxSegments
      BY <1>0, <2>3, <2>b DEF Typed
    <2>4. counter + 1 \in Segments /\ counter' = counter + 1 /\ counter' \in 0 .. MaxSegments
      BY <2>b, <2>c DEF Segments
    <2>5. /\ queue' \in Seq(Segments)
          /\ state' \in States
          /\ processing' \in BOOLEAN
          /\ loop' \in [Loops -> Turns]
          /\ undone' \subseteq Omissions
      <3>1. CASE queue # <<>> /\ ~processing /\ state # "interrupted"
        <4>1. Head(queue) \in Segments /\ Tail(queue) \in Seq(Segments)
          BY <1>0, <3>1, HeadTailProperties DEF TypeOK
        <4>2. [at |-> "announce", seg |-> Head(queue)] \in Turns
          BY <4>1 DEF Turns, Segments
        <4>3. Insert(Tail(queue), counter + 1) \in Seq(Segments)
          BY <2>4, <4>1, InsertFacts
        <4> QED
          BY <1>0, <1>3, <3>1, <4>2, <4>3, NewLoopIsFree DEF Resumed, TypeOK, States
      <3>2. CASE ~(queue # <<>> /\ ~processing /\ state # "interrupted")
        BY <1>0, <1>3, <2>4, <3>2, InsertFacts DEF Resumed, TypeOK
      <3> QED
        BY <3>1, <3>2
    <2>6. TypeOK'
      BY <1>0, <1>3, <2>1, <2>4, <2>5 DEF TypeOK, Resumed, synth, bridge
    <2> QED
      BY <1>0, <2>3, <2>b, <2>6 DEF Typed
  <1>4. ASSUME NEW v \in Speakers, Queued(v)
        PROVE  Typed'
    <2>0. call[v] \in Calls
      BY <1>0 DEF TypeOK
    <2>a. [call[v] EXCEPT !.at = "idle"] = [at |-> "idle", left |-> call[v].left]
      BY <2>0 DEF Calls
    <2>1. /\ call' = [call EXCEPT ![v] = [at |-> "idle", left |-> call[v].left]]
          /\ [at |-> "idle", left |-> call[v].left] \in Calls
      BY <1>4, <2>0, <2>a DEF Queued, Calls
    <2>2. Resuming' = Resuming
      BY <1>0, <1>4, <2>1 DEF Queued, Resuming, TypeOK
    <2>3. TypeOK'
      BY <1>0, <1>4, <2>1, WakeTyped DEF TypeOK, Queued, synth, bridge
    <2> QED
      BY <1>4, <2>2, <2>3 DEF Typed, Queued
  <1>5. ASSUME NEW l \in Loops, Loop(l) \/ LoopThrows(l)
        PROVE  Typed'
    <2>1. loop[l] \in Turns
      BY <1>0 DEF TypeOK
    <2>2. CASE Announced(l)
      <3>1. [loop[l] EXCEPT !.at = "synth"] \in Turns
        BY <2>1 DEF Turns
      <3>2. TypeOK'
        BY <1>0, <2>1, <2>2, <3>1 DEF Announced, TypeOK, Turns, bridge
      <3> QED
        BY <2>2, <3>2, ResumingKept DEF Announced, Typed
    <2>3. CASE Chunk(l)
      <3>1. chunks' \in [Segments -> Nat]
        <4>1. chunks \in [Segments -> Nat]
          BY <1>0 DEF TypeOK
        <4>2. CASE loop[l].seg \in Segments
          BY <2>3, <4>1, <4>2 DEF Chunk
        <4>3. CASE loop[l].seg \notin Segments
          BY <2>3, <4>1, <4>3 DEF Chunk
        <4> QED
          BY <4>2, <4>3
      <3>2. TypeOK'
        BY <1>0, <2>3, <3>1 DEF Chunk, TypeOK, player, bridge
      <3> QED
        BY <2>3, <3>2, ResumingKept DEF Chunk, Typed
    <2>4. CASE Played(l)
      <3>1. [loop[l] EXCEPT !.at = "done"] \in Turns
        BY <2>1 DEF Turns
      <3>2. TypeOK'
        BY <1>0, <2>4, <3>1 DEF Played, TypeOK, bridge
      <3> QED
        BY <2>4, <3>2, ResumingKept DEF Played, Typed
    <2>5. CASE Done(l)
      <3>1. TypeOK'
        BY <1>0, <2>5, AdvanceTyped DEF Done, TypeOK, synth, bridge
      <3> QED
        BY <2>5, <3>1, ResumingKept DEF Done, Typed
    <2>6. CASE LoopThrows(l)
      <3>1. Off \in Turns
        BY DEF Off, Turns
      <3>2. TypeOK'
        BY SMTT(30), <1>0, <2>6, <3>1 DEF LoopThrows, Fault, Omissions, TypeOK, synth, bridge
      <3> QED
        BY <2>6, <3>2, ResumingKept DEF LoopThrows, Typed
    <2> QED
      BY <1>5, <2>2, <2>3, <2>4, <2>5, <2>6 DEF Loop
  <1>6. CASE Partial \/ Final \/ BargeIn
    <2>1. CASE Partial
      BY SMTT(30), <1>0, <2>1, ResumingKept DEF Partial, Typed, TypeOK, player, synth
    <2>2. CASE Final
      BY <1>0, <2>2, ResumingKept DEF Final, Typed, TypeOK, player, synth
    <2>3. CASE BargeIn
      <3>1. Range(queue) \subseteq Segments
        BY <1>0, LenProperties, ElementOfSeq DEF TypeOK, Range
      <3>2. {controller} \ {0} \subseteq Segments
        BY <1>0 DEF TypeOK, Segments
      <3>3. aborted' \subseteq Segments /\ cut' \subseteq Segments
        BY <1>0, <2>3, <3>1, <3>2 DEF BargeIn, TypeOK
      <3>4. queue' \in Seq(Segments) /\ state' \in States
        BY <2>3 DEF BargeIn, Cleared, States
      <3>5. {buffered, bargedIn, coming}' \subseteq BOOLEAN
        BY <1>0, <2>3 DEF BargeIn, TypeOK
      <3>6. TypeOK'
        BY <1>0, <2>3, <3>3, <3>4, <3>5 DEF BargeIn, TypeOK
      <3> QED
        BY <2>3, <3>6, ResumingKept DEF BargeIn, Typed
    <2> QED
      BY <1>6, <2>1, <2>2, <2>3
  <1>7. ASSUME NEW v \in Speakers, Throws(v)
        PROVE  Typed'
    <2>1. /\ call' = [call EXCEPT ![v] = Quiet]
          /\ faults' \in Nat
          /\ UNCHANGED <<queue, state, processing, loop, counter, buffered, cut>>
          /\ UNCHANGED <<controller, aborted, chunks, bargedIn, coming, bargeIns>>
      BY <1>0, <1>7 DEF Throws, ResumedThrows, QueuedThrows, Fault, TypeOK, synth, bridge
    <2>2. undone' \subseteq Omissions
      BY <1>0, <1>7 DEF Throws, ResumedThrows, QueuedThrows, TypeOK, Omissions
    <2>3. call' \in [Speakers -> Calls]
      BY <1>0, <2>1 DEF TypeOK, Quiet, Calls
    <2>4. TypeOK'
      BY <1>0, <2>1, <2>2, <2>3 DEF TypeOK
    <2>5. Resuming' = Resuming \ {v}
      BY <1>0, <2>1 DEF Resuming, Quiet, TypeOK
    <2>6. Cardinality(Resuming') \in Nat /\ Cardinality(Resuming') <= Cardinality(Resuming)
      <3>1. /\ IsFiniteSet(Resuming \ {v})
            /\ Cardinality(Resuming \ {v}) =
                  IF v \in Resuming THEN Cardinality(Resuming) - 1 ELSE Cardinality(Resuming)
        BY ResumingFinite, FS_RemoveElement
      <3>2. Cardinality(Resuming \ {v}) \in Nat
        BY <3>1, FS_CardinalityType
      <3> QED
        BY <1>0, <2>5, <3>1, <3>2
    <2>7. counter' = counter /\ counter \in Nat
      BY <1>0, <2>1 DEF TypeOK
    <2> QED
      BY <1>0, <2>4, <2>6, <2>7 DEF Typed
  <1> QED
    BY <1>1, <1>2, <1>3, <1>4, <1>5, <1>6, <1>7 DEF Next, Speaks

\* Every variable of the speech output keeps its type (InMemoryAudioQueueService,
\* TtsStreamService, stt-bridge), for any number of turns, loops and segments.
THEOREM SpeechTypes == Spec => []Typed
  BY TypedInit, TypedStep, PTL DEF Spec

-----------------------------------------------------------------------------
(* One loop *)

\* What the guards of the three places that start the player rely on: a loop that
\* runs has set processing, and nobody else runs.
PlayerInv ==
    /\ Typed
    /\ \A l \in Loops : Running(l) => processing
    /\ OneLoop
    /\ NoLostWakeUp
    /\ BusyWhileAudible

\* A loop that starts, or the head of the loop that runs.
LEMMA AdvancePlayer ==
    ASSUME PlayerInv, NEW l \in Loops, NEW q \in Seq(Segments), Advance(l, q),
           \A m \in Loops : Running(m) => m = l
    PROVE  /\ \A m \in Loops : Running(m)' => processing' /\ m = l
           /\ processing' => Running(l)' /\ state' = "playing"
           /\ state' = "playing" => processing'
           /\ queue' # <<>> /\ state' = "idle" => processing'
           /\ undone' = {}
  <1>1. /\ loop \in [Loops -> Turns]
        /\ state = "playing" => processing
    BY DEF PlayerInv, Typed, TypeOK, NoLostWakeUp
  <1>2. CASE q # <<>> /\ state # "interrupted"
    BY <1>1, <1>2 DEF Advance, Running, Off
  <1>3. CASE ~(q # <<>> /\ state # "interrupted")
    BY <1>1, <1>3 DEF Advance, Running, Off
  <1> QED
    BY <1>2, <1>3

\* The sentence a turn queues, or the resumption it begins.
LEMMA SpeakPlayer ==
    ASSUME PlayerInv, Typed', NEW v \in Speakers, NEW left \in 0 .. MaxSentences, Speak(v, left)
    PROVE  PlayerInv'
  <1>1. /\ call \in [Speakers -> Calls]
        /\ UNCHANGED <<processing, loop, undone>>
    BY DEF PlayerInv, Typed, TypeOK, Speak
  <1>2. CASE state = "interrupted"
    <2>1. state' = "idle" /\ call'[v].at = "resuming" /\ call'[v].at # "idle"
      BY <1>1, <1>2 DEF Speak
    <2> QED
      BY <1>1, <2>1 DEF PlayerInv, OneLoop, NoLostWakeUp, BusyWhileAudible, Running
  <1>3. CASE state # "interrupted"
    <2>1. /\ call' = [call EXCEPT ![v] = [at |-> "queueing", left |-> left]]
          /\ call'[v].at = "queueing"
          /\ state' = state
          /\ counter' = counter + 1
          /\ queue' = Insert(queue, counter + 1)
      BY <1>1, <1>3 DEF Speak
    <2>2. counter + 1 \in Segments
      BY <2>1 DEF PlayerInv, Typed, TypeOK, Segments
    <2>3. queue' # <<>>
      BY <2>1, <2>2, InsertFacts DEF PlayerInv, Typed, TypeOK
    <2>4. isSessionBusy'
      BY <2>3 DEF isSessionBusy
    <2> QED
      BY <1>1, <2>1, <2>4
      DEF PlayerInv, OneLoop, NoLostWakeUp, BusyWhileAudible, Running
  <1> QED
    BY <1>2, <1>3

LEMMA PlayerInit == Init => PlayerInv
  <1> SUFFICES ASSUME Init PROVE PlayerInv
    OBVIOUS
  <1>1. \A l \in Loops : ~Running(l)
    BY DEF Init, Running
  <1>2. state = "idle" /\ queue = <<>> /\ processing = FALSE
    BY DEF Init
  <1> QED
    BY <1>1, <1>2, TypedInit DEF PlayerInv, OneLoop, NoLostWakeUp, BusyWhileAudible

LEMMA PlayerStep == PlayerInv /\ [Next]_vars => PlayerInv'
  <1> SUFFICES ASSUME PlayerInv, [Next]_vars
               PROVE  PlayerInv'
    OBVIOUS
  <1>0. /\ Typed /\ Typed'
        /\ queue \in Seq(Segments)
        /\ loop \in [Loops -> Turns]
        /\ call \in [Speakers -> Calls]
    BY TypedStep DEF PlayerInv, Typed, TypeOK
  <1>1. CASE UNCHANGED <<queue, state, processing, loop, call, undone>>
    BY <1>0, <1>1 DEF PlayerInv, OneLoop, NoLostWakeUp, BusyWhileAudible, Running, isSessionBusy
  <1>2. ASSUME NEW v \in Speakers, TextChunk(v) \/ Flush(v) \/ NextSentence(v)
        PROVE  PlayerInv'
    <2>1. CASE TextChunk(v)
      <3>1. PICK n \in 1 .. MaxSentences, rest \in BOOLEAN : Speak(v, n - 1) /\ buffered' = rest
        BY <2>1 DEF TextChunk
      <3>2. n - 1 \in 0 .. MaxSentences
        BY SpeechAssumption
      <3> QED
        BY <1>0, <3>1, <3>2, SpeakPlayer
    <2>2. CASE Flush(v)
      <3>1. 0 \in 0 .. MaxSentences
        BY SpeechAssumption
      <3> QED
        BY <1>0, <2>2, <3>1, SpeakPlayer DEF Flush
    <2>3. CASE NextSentence(v)
      <3>1. call[v].left - 1 \in 0 .. MaxSentences
        BY <1>0, <2>3, SpeechAssumption DEF NextSentence, Calls
      <3> QED
        BY <1>0, <2>3, <3>1, SpeakPlayer DEF NextSentence
    <2> QED
      BY <1>2, <2>1, <2>2, <2>3
  <1>3. ASSUME NEW v \in Speakers, Resumed(v)
        PROVE  PlayerInv'
    <2>1. counter + 1 \in Segments
      BY <1>0, <1>3 DEF Resumed, Typed, TypeOK, Segments
    <2>2. queue' # <<>>
      <3>1. CASE queue # <<>> /\ ~processing /\ state # "interrupted"
        <4>1. queue' = Insert(Tail(queue), counter + 1)
          BY <1>3, <3>1 DEF Resumed
        <4>2. Tail(queue) \in Seq(Segments)
          BY <1>0, <3>1, HeadTailProperties
        <4> QED
          BY <1>3, <2>1, <4>1, <4>2, InsertFacts DEF Resumed
      <3>2. CASE ~(queue # <<>> /\ ~processing /\ state # "interrupted")
        BY <1>0, <1>3, <2>1, <3>2, InsertFacts DEF Resumed
      <3> QED
        BY <1>3, <3>1, <3>2 DEF Resumed
    <2>3. isSessionBusy'
      BY <2>2 DEF isSessionBusy
    <2>4. call'[v].at = "queueing" /\ call'[v].at # "idle"
      BY <1>0, <1>3 DEF Resumed, Calls
    <2>5. CASE queue # <<>> /\ ~processing /\ state # "interrupted"
      <3>1. PICK l \in Loops :
               /\ loop' = [loop EXCEPT ![l] = [at |-> "announce", seg |-> Head(queue)]]
               /\ processing'
        BY <1>3, <2>5, NewLoopIsFree DEF Resumed
      <3>2. \A m \in Loops : Running(m)' => m = l
        BY <1>0, <2>5, <3>1 DEF PlayerInv, Running
      <3>3. Running(l)'
        BY <1>0, <3>1 DEF Running, Off
      <3> QED
        BY <1>0, <2>3, <3>1, <3>2, <3>3
        DEF PlayerInv, OneLoop, NoLostWakeUp, BusyWhileAudible
    <2>6. CASE ~(queue # <<>> /\ ~processing /\ state # "interrupted")
      <3>1. UNCHANGED <<state, processing, loop, undone>>
        BY <1>3, <2>6 DEF Resumed
      <3> QED
        BY <1>0, <2>2, <2>3, <2>4, <3>1
        DEF PlayerInv, OneLoop, NoLostWakeUp, BusyWhileAudible, Running
    <2> QED
      BY <2>5, <2>6
  <1>4. ASSUME NEW v \in Speakers, Queued(v)
        PROVE  PlayerInv'
    <2>1. \A w \in Speakers : call[w].at = "resuming" => call'[w].at = "resuming"
      BY <1>0, <1>4 DEF Queued
    <2>2. CASE state = "idle" /\ ~processing
      <3>1. PICK l \in Loops : Advance(l, queue)
        BY <1>4, <2>2, NewLoopIsFree DEF Queued, Wake, Process
      <3>2. \A m \in Loops : Running(m) => m = l
        BY <2>2 DEF PlayerInv
      <3> QED
        BY <1>0, <3>1, <3>2, AdvancePlayer
        DEF PlayerInv, OneLoop, NoLostWakeUp, BusyWhileAudible, isSessionBusy
    <2>3. CASE ~(state = "idle" /\ ~processing)
      <3>1. UNCHANGED <<queue, state, processing, loop, undone>>
        BY <1>4, <2>3 DEF Queued, Wake, player
      <3> QED
        BY <1>0, <2>1, <2>3, <3>1
        DEF PlayerInv, OneLoop, NoLostWakeUp, BusyWhileAudible, Running, isSessionBusy
    <2> QED
      BY <2>2, <2>3
  <1>5. ASSUME NEW l \in Loops, Announced(l) \/ Played(l)
        PROVE  PlayerInv'
    <2>1. UNCHANGED <<queue, state, processing, call, undone>>
      BY <1>5 DEF Announced, Played
    <2>2. PICK at \in {"synth", "done"} : loop' = [loop EXCEPT ![l] = [loop[l] EXCEPT !.at = at]]
      BY <1>5 DEF Announced, Played
    <2>3. [loop[l] EXCEPT !.at = at].at = at /\ loop[l] \in Turns
      BY <1>0 DEF Turns
    <2>4. Running(l) /\ Running(l)'
      BY <1>0, <1>5, <2>2, <2>3 DEF Announced, Played, Running, Off
    <2>5. \A m \in Loops : Running(m)' <=> Running(m)
      BY <1>0, <2>2, <2>4 DEF Running
    <2> QED
      BY <1>0, <2>1, <2>5 DEF PlayerInv, OneLoop, NoLostWakeUp, BusyWhileAudible, isSessionBusy
  <1>6. ASSUME NEW l \in Loops, Done(l)
        PROVE  PlayerInv'
    <2>1. Running(l) /\ \A m \in Loops : Running(m) => m = l
      BY <1>6 DEF Done, Running, Off, PlayerInv, OneLoop
    <2>2. Advance(l, queue) /\ call' = call
      BY <1>6 DEF Done
    <2> QED
      BY <1>0, <2>1, <2>2, AdvancePlayer
      DEF PlayerInv, OneLoop, NoLostWakeUp, BusyWhileAudible, isSessionBusy
  <1>7. ASSUME NEW l \in Loops, LoopThrows(l)
        PROVE  PlayerInv'
    <2>1. /\ UNCHANGED <<queue, state, processing, call>>
          /\ undone' = {"loop"}
          /\ \A m \in Loops : ~Running(m)'
          /\ processing
      BY <1>0, <1>7 DEF LoopThrows, Running, Off, PlayerInv, OneLoop
    <2> QED
      BY <1>0, <2>1 DEF PlayerInv, OneLoop, NoLostWakeUp, BusyWhileAudible, isSessionBusy
  <1>8. CASE BargeIn
    <2>1. /\ UNCHANGED <<processing, loop, call>>
          /\ "loop" \in undone => "loop" \in undone'
          /\ state' = "interrupted"
      BY <1>8 DEF BargeIn
    <2> QED
      BY <1>0, <2>1 DEF PlayerInv, OneLoop, NoLostWakeUp, BusyWhileAudible, isSessionBusy, Running
  <1>9. ASSUME NEW l \in Loops, Chunk(l)
        PROVE  UNCHANGED <<queue, state, processing, loop, call, undone>>
    BY <1>9 DEF Chunk, player
  <1>10. ASSUME Partial \/ Final \/ UNCHANGED vars
         PROVE  UNCHANGED <<queue, state, processing, loop, call, undone>>
    BY <1>10 DEF Partial, Final, player, vars
  <1>11. ASSUME NEW v \in Speakers, QueuedThrows(v)
         PROVE  PlayerInv'
    <2>1. /\ UNCHANGED <<queue, state, processing, loop>>
          /\ undone \subseteq undone'
          /\ state = "idle" /\ ~processing => "start" \in undone'
          /\ \A w \in Speakers : call[w].at = "resuming" => call'[w].at = "resuming"
      BY <1>0, <1>11 DEF QueuedThrows
    <2> QED
      BY <1>0, <2>1 DEF PlayerInv, OneLoop, NoLostWakeUp, BusyWhileAudible, isSessionBusy, Running
  <1>12. ASSUME NEW v \in Speakers, ResumedThrows(v)
         PROVE  PlayerInv'
    <2>1. /\ UNCHANGED <<queue, state, processing, loop>>
          /\ undone \subseteq undone'
          /\ queue # <<>> /\ state = "idle" /\ ~processing => "start" \in undone'
          /\ (\E l \in Loops : Running(l)) => "state" \in undone'
      BY <1>0, <1>12 DEF ResumedThrows, Running
    <2> QED
      BY <1>0, <2>1 DEF PlayerInv, OneLoop, NoLostWakeUp, BusyWhileAudible, isSessionBusy, Running
  <1> QED
    BY <1>1, <1>2, <1>3, <1>4, <1>5, <1>6, <1>7, <1>8, <1>9, <1>10, <1>11, <1>12
    DEF Next, Speaks, Loop, Throws

\* A session is played by one loop, whoever starts it (processQueue, push, resume).
THEOREM OneVoice == Spec => []OneLoop
  <1>1. PlayerInv => OneLoop
    BY DEF PlayerInv
  <1> QED
    BY <1>1, PlayerInit, PlayerStep, PTL DEF Spec

\* No segment waits in an idle player that nobody is about to start, unless what goes
\* out before the start threw (push, continue, processQueue).
THEOREM WakeUpsAreKept == Spec => []NoLostWakeUp
  <1>1. PlayerInv => NoLostWakeUp
    BY DEF PlayerInv
  <1> QED
    BY <1>1, PlayerInit, PlayerStep, PTL DEF Spec

\* isSessionBusy of the bridge is true while a segment sounds, a resumption under way
\* or one that threw aside.
THEOREM AudibleIsBusy == Spec => []BusyWhileAudible
  <1>1. PlayerInv => BusyWhileAudible
    BY DEF PlayerInv
  <1> QED
    BY <1>1, PlayerInit, PlayerStep, PTL DEF Spec

-----------------------------------------------------------------------------
(* What was cut *)

\* No segment waits twice.
Once(q) == \A i, j \in 1 .. Len(q) : q[i] = q[j] => i = j

LEMMA RangeMembers ==
    ASSUME NEW S, NEW q \in Seq(S)
    PROVE  \A x : x \in Range(q) <=> \E i \in 1 .. Len(q) : q[i] = x
  BY RangeEquality

LEMMA InsertOnce ==
    ASSUME NEW q \in Seq(Segments), NEW s \in Segments, Once(q), s \notin Range(q)
    PROVE  /\ Once(Insert(q, s))
           /\ \A x : x \in Range(Insert(q, s)) <=> x = s \/ x \in Range(q)
  <1> DEFINE r == Insert(q, s)
  <1>0. Len(q) \in Nat
    OBVIOUS
  <1>1. /\ r \in Seq(Segments)
        /\ Len(r) = Len(q) + 1
    BY InsertFacts
  <1>2. PICK k \in 1 .. Len(q) + 1 : \A j \in 1 .. Len(q) + 1 :
           r[j] = IF j < k THEN q[j] ELSE IF j = k THEN s ELSE q[j - 1]
    BY InsertFacts
  <1> HIDE DEF r
  <1>3. \A i \in 1 .. Len(q) : q[i] # s
    BY RangeMembers
  <1>4. Once(r)
    <2> SUFFICES ASSUME NEW i \in 1 .. Len(q) + 1, NEW j \in 1 .. Len(q) + 1, r[i] = r[j], i < j
                 PROVE  FALSE
      BY <1>0, <1>1 DEF Once
    <2>1. CASE i < k /\ j < k
      BY <1>0, <1>2, <2>1 DEF Once
    <2>2. CASE i < k /\ j > k
      <3>1. r[i] = q[i] /\ r[j] = q[j - 1] /\ i # j - 1 /\ {i, j - 1} \subseteq 1 .. Len(q)
        BY <1>0, <1>2, <2>2
      <3> QED
        BY <3>1 DEF Once
    <2>3. CASE i > k /\ j > k
      <3>1. r[i] = q[i - 1] /\ r[j] = q[j - 1] /\ i - 1 # j - 1
            /\ {i - 1, j - 1} \subseteq 1 .. Len(q)
        BY <1>0, <1>2, <2>3
      <3> QED
        BY <3>1 DEF Once
    <2>4. CASE i = k
      <3>1. r[i] = s /\ r[j] = q[j - 1] /\ j - 1 \in 1 .. Len(q)
        BY <1>0, <1>2, <2>4
      <3> QED
        BY <1>3, <3>1
    <2>5. CASE j = k
      <3>1. r[j] = s /\ r[i] = q[i] /\ i \in 1 .. Len(q)
        BY <1>0, <1>2, <2>5
      <3> QED
        BY <1>3, <3>1
    <2> QED
      BY <1>0, <2>1, <2>2, <2>3, <2>4, <2>5
  <1>5. ASSUME NEW x \in Range(r)
        PROVE  x = s \/ x \in Range(q)
    <2>1. PICK j \in 1 .. Len(q) + 1 : r[j] = x
      BY <1>1, RangeMembers
    <2>2. x = s \/ \E i \in 1 .. Len(q) : q[i] = x
      <3>1. CASE j < k
        BY <1>0, <1>2, <2>1, <3>1
      <3>2. CASE j = k
        BY <1>0, <1>2, <2>1, <3>2
      <3>3. CASE j > k
        <4>1. j - 1 \in 1 .. Len(q) /\ q[j - 1] = x
          BY <1>0, <1>2, <2>1, <3>3
        <4> QED
          BY <4>1
      <3> QED
        BY <1>0, <3>1, <3>2, <3>3
    <2> QED
      BY <2>2, RangeMembers
  <1>6. s \in Range(r)
    <2>1. r[k] = s
      BY <1>0, <1>2
    <2> QED
      BY <1>1, <2>1, RangeMembers
  <1>7. ASSUME NEW x \in Range(q)
        PROVE  x \in Range(r)
    <2>1. PICK i \in 1 .. Len(q) : q[i] = x
      BY RangeMembers
    <2>2. CASE i < k
      <3>1. i \in 1 .. Len(q) + 1 /\ r[i] = x
        BY <1>0, <1>2, <2>1, <2>2
      <3> QED
        BY <1>1, <3>1, RangeMembers
    <2>3. CASE i >= k
      <3>1. i + 1 \in 1 .. Len(q) + 1 /\ r[i + 1] = q[(i + 1) - 1] /\ (i + 1) - 1 = i
        BY <1>0, <1>2, <2>3
      <3> QED
        BY <1>1, <2>1, <3>1, RangeMembers
    <2> QED
      BY <1>0, <2>2, <2>3
  <1> QED
    BY <1>4, <1>5, <1>6, <1>7 DEF r

LEMMA TailOnce ==
    ASSUME NEW q \in Seq(Segments), q # <<>>, Once(q)
    PROVE  /\ Tail(q) \in Seq(Segments)
           /\ Once(Tail(q))
           /\ Head(q) \in Range(q)
           /\ \A x : x \in Range(Tail(q)) <=> x \in Range(q) /\ x # Head(q)
  <1>1. /\ Len(q) \in Nat \ {0}
        /\ Tail(q) \in Seq(Segments)
        /\ Len(Tail(q)) = Len(q) - 1
        /\ \A i \in 1 .. Len(q) - 1 : Tail(q)[i] = q[i + 1]
        /\ Head(q) = q[1]
    BY HeadTailProperties, EmptySeq
  <1>2. Once(Tail(q))
    BY <1>1 DEF Once
  <1>3. Head(q) \in Range(q)
    BY <1>1, RangeMembers
  <1>4. ASSUME NEW x \in Range(Tail(q))
        PROVE  x \in Range(q) /\ x # Head(q)
    <2>1. PICK i \in 1 .. Len(Tail(q)) : Tail(q)[i] = x
      BY <1>1, RangeMembers
    <2>2. i + 1 \in 1 .. Len(q) /\ q[i + 1] = x /\ i + 1 # 1
      BY <1>1, <2>1
    <2> QED
      BY <1>1, <2>2, RangeMembers DEF Once
  <1>5. ASSUME NEW x \in Range(q), x # Head(q)
        PROVE  x \in Range(Tail(q))
    <2>1. PICK i \in 1 .. Len(q) : q[i] = x
      BY RangeMembers
    <2>2. i - 1 \in 1 .. Len(q) - 1 /\ Tail(q)[i - 1] = q[(i - 1) + 1] /\ (i - 1) + 1 = i
      BY <1>1, <1>5, <2>1
    <2> QED
      BY <1>1, <2>1, <2>2, RangeMembers
  <1> QED
    BY <1>1, <1>2, <1>3, <1>4, <1>5

\* A segment is in one place: waiting, or in the hands of the loop, whose
\* controller is the one a barge-in finds.
Placed ==
    /\ Once(queue)
    /\ \A s \in Range(queue) : s <= counter
    /\ \A l \in Loops : Running(l) => /\ loop[l].seg \in 1 .. counter
                                      /\ loop[l].seg \notin Range(queue)
    /\ \A l \in Loops : loop[l].at = "synth" => controller = loop[l].seg
    /\ controller # 0 => \E l \in Loops : loop[l].at = "synth"

\* A segment that was cut does not wait, is not about to be announced, and is
\* aborted if the loop still has it.
CutGone ==
    \A s \in cut :
        /\ s <= counter
        /\ s \notin Range(queue)
        /\ \A l \in Loops : loop[l].seg = s =>
              /\ loop[l].at # "announce"
              /\ loop[l].at = "synth" => s \in aborted

SilentInv == PlayerInv /\ Placed /\ CutGone

LEMMA SilentInit == Init => SilentInv
  <1> SUFFICES ASSUME Init PROVE SilentInv
    OBVIOUS
  <1>1. queue = <<>> /\ cut = {} /\ controller = 0
    BY DEF Init
  <1>2. \A l \in Loops : loop[l] = Off
    BY DEF Init
  <1>3. Once(queue) /\ Range(queue) = {}
    BY <1>1 DEF Once, Range
  <1> QED
    BY <1>1, <1>2, <1>3, PlayerInit DEF SilentInv, Placed, CutGone, Running, Off

\* The head of the loop with nothing else running: it takes what waits first.
LEMMA AdvanceSilent ==
    ASSUME SilentInv, NEW l \in Loops, NEW q \in Seq(Segments), q = queue, Advance(l, q),
           \A m \in Loops : Running(m) => m = l, loop[l].at # "synth",
           UNCHANGED <<controller, aborted, cut, counter>>
    PROVE  Placed' /\ CutGone'
  <1>1. /\ loop \in [Loops -> Turns]
        /\ counter \in Nat
        /\ Once(q)
        /\ controller = 0
    BY DEF SilentInv, PlayerInv, Typed, TypeOK, Placed, Running, Off
  <1>2. CASE q # <<>> /\ state # "interrupted"
    <2>1. /\ queue' = Tail(q)
          /\ loop' = [loop EXCEPT ![l] = [at |-> "announce", seg |-> Head(q)]]
      BY <1>2 DEF Advance
    <2>2. /\ Once(Tail(q))
          /\ Head(q) \in Range(q)
          /\ \A x : x \in Range(Tail(q)) <=> x \in Range(q) /\ x # Head(q)
      BY <1>1, <1>2, TailOnce
    <2>3. \A m \in Loops : m # l => ~Running(m) /\ loop'[m] = loop[m] /\ loop[m] = Off
      BY <1>1, <2>1 DEF Running
    <2>4. loop'[l].at = "announce" /\ loop'[l].seg = Head(q)
      BY <1>1, <2>1
    <2>5. Head(q) \in 1 .. counter
      <3>1. Head(q) \in Segments
        BY <1>2, HeadTailProperties
      <3> QED
        BY <1>1, <2>2, <3>1 DEF SilentInv, Placed, Segments
    <2>6. Placed'
      BY <1>1, <2>1, <2>2, <2>3, <2>4, <2>5 DEF SilentInv, Placed, Running, Off
    <2>7. CutGone'
      <3> SUFFICES ASSUME NEW s \in cut
                   PROVE  /\ s <= counter
                          /\ s \notin Range(Tail(q))
                          /\ \A m \in Loops : loop'[m].seg = s =>
                                /\ loop'[m].at # "announce"
                                /\ loop'[m].at = "synth" => s \in aborted
        BY <2>1 DEF CutGone
      <3>1. s <= counter /\ s \notin Range(q) /\ s # Head(q)
        BY <2>2 DEF SilentInv, CutGone
      <3> QED
        BY <2>2, <2>3, <2>4, <3>1 DEF Off
    <2> QED
      BY <2>6, <2>7
  <1>3. CASE ~(q # <<>> /\ state # "interrupted")
    <2>1. queue' = q /\ loop' = [loop EXCEPT ![l] = Off]
      BY <1>3 DEF Advance
    <2>2. \A m \in Loops : loop'[m] = Off
      BY <1>1, <2>1 DEF Running
    <2> QED
      BY <1>1, <2>1, <2>2 DEF SilentInv, Placed, CutGone, Running, Off
  <1> QED
    BY <1>2, <1>3

\* A new sentence joins the queue q, in which and in the loop it was nowhere.
LEMMA InsertSilent ==
    ASSUME SilentInv, NEW q \in Seq(Segments), Once(q),
           \A x \in Range(q) : x <= counter /\ x \notin cut,
           counter + 1 \in Segments, counter' = counter + 1,
           queue' = Insert(q, counter + 1), cut' = cut
    PROVE  /\ Once(queue')
           /\ \A x \in Range(queue') : x <= counter' /\ x \notin cut'
           /\ \A x : x \in Range(queue') <=> x = counter + 1 \/ x \in Range(q)
           /\ \A s \in cut' : s <= counter'
  <1>1. counter \in Nat /\ cut \subseteq Segments
    BY DEF SilentInv, PlayerInv, Typed, TypeOK
  <1>2. counter + 1 \notin Range(q)
    BY <1>1
  <1>3. \A s \in cut : s <= counter /\ s \in Nat
    BY <1>1 DEF SilentInv, CutGone, Segments
  <1>4. \A x \in Range(q) : x \in Nat
    <2>1. Range(q) \in SUBSET Segments
      BY RangeOfSeq
    <2> QED
      BY <2>1 DEF Segments
  <1>5. counter + 1 \notin cut
    BY <1>1, <1>3
  <1>6. /\ Once(queue')
        /\ \A x : x \in Range(queue') <=> x = counter + 1 \/ x \in Range(q)
    BY <1>2, InsertOnce
  <1> QED
    BY <1>1, <1>3, <1>4, <1>5, <1>6

LEMMA SpeakSilent ==
    ASSUME SilentInv, NEW v \in Speakers, NEW left, Speak(v, left)
    PROVE  Placed' /\ CutGone'
  <1>1. /\ UNCHANGED <<processing, loop, controller, aborted, chunks, cut>>
        /\ counter \in Nat /\ loop \in [Loops -> Turns] /\ queue \in Seq(Segments)
    BY DEF SilentInv, PlayerInv, Typed, TypeOK, Speak, synth
  <1>2. CASE state = "interrupted"
    <2>1. UNCHANGED <<queue, counter>>
      BY <1>2 DEF Speak
    <2> QED
      BY <1>1, <2>1 DEF SilentInv, Placed, CutGone, Running
  <1>3. CASE state # "interrupted"
    <2>1. counter' = counter + 1 /\ queue' = Insert(queue, counter + 1)
      BY <1>3 DEF Speak
    <2>2. counter + 1 \in Segments
      BY <1>1, ResumingFinite, SpeechAssumption DEF Speak, Resuming, Segments
    <2>3. Once(queue) /\ \A x \in Range(queue) : x <= counter /\ x \notin cut
      BY DEF SilentInv, Placed, CutGone
    <2>4. /\ Once(queue')
          /\ \A x \in Range(queue') : x <= counter' /\ x \notin cut'
          /\ \A x : x \in Range(queue') <=> x = counter + 1 \/ x \in Range(queue)
          /\ \A s \in cut' : s <= counter'
      BY <1>1, <2>1, <2>2, <2>3, InsertSilent
    <2>5. Placed'
      <3>1. \A l \in Loops : Running(l) => /\ loop[l].seg \in 1 .. counter'
                                           /\ loop[l].seg # counter + 1
                                           /\ loop[l].seg \notin Range(queue)
        BY <1>1, <2>1 DEF SilentInv, Placed
      <3> QED
        BY <1>1, <2>4, <3>1 DEF SilentInv, Placed, Running
    <2>6. CutGone'
      BY <1>1, <2>4 DEF SilentInv, CutGone
    <2> QED
      BY <2>5, <2>6
  <1> QED
    BY <1>2, <1>3

LEMMA SilentStep == SilentInv /\ [Next]_vars => SilentInv'
  <1> SUFFICES ASSUME SilentInv, [Next]_vars
               PROVE  Placed' /\ CutGone'
    BY PlayerStep DEF SilentInv
  <1>0. /\ queue \in Seq(Segments)
        /\ loop \in [Loops -> Turns]
        /\ counter \in Nat
        /\ aborted \subseteq Segments /\ cut \subseteq Segments
        /\ \A l, m \in Loops : Running(l) /\ Running(m) => l = m
    BY DEF SilentInv, PlayerInv, Typed, TypeOK, OneLoop
  <1>1. CASE UNCHANGED <<queue, loop, controller, aborted, counter, cut>>
    BY <1>1 DEF SilentInv, Placed, CutGone, Running
  <1>2. ASSUME NEW v \in Speakers, NEW left, Speak(v, left)
        PROVE  Placed' /\ CutGone'
    BY <1>2, SpeakSilent
  <1>3. ASSUME NEW v \in Speakers, Resumed(v)
        PROVE  Placed' /\ CutGone'
    <2>1. /\ counter' = counter + 1
          /\ UNCHANGED <<controller, aborted, cut>>
      BY <1>3 DEF Resumed, synth
    <2>2. counter + 1 \in Segments
      <3>1. counter' \in 0 .. MaxSegments
        BY TypedStep DEF SilentInv, PlayerInv, Typed, TypeOK
      <3> QED
        BY <1>0, <2>1, <3>1, SpeechAssumption DEF Segments
    <2>3. CASE queue # <<>> /\ ~processing /\ state # "interrupted"
      <3> DEFINE q == Tail(queue)
      <3>1. PICK l \in Loops : loop' = [loop EXCEPT ![l] = [at |-> "announce", seg |-> Head(queue)]]
        BY <1>3, <2>3, NewLoopIsFree DEF Resumed
      <3>2. queue' = Insert(q, counter + 1)
        BY <1>3, <2>3 DEF Resumed
      <3>3. \A m \in Loops : ~Running(m) /\ loop[m] = Off
        BY <2>3 DEF SilentInv, PlayerInv, Running
      <3>4. controller = 0
        BY <3>3 DEF SilentInv, Placed, Off
      <3>5. /\ q \in Seq(Segments)
            /\ Once(q)
            /\ Head(queue) \in Range(queue)
            /\ \A x : x \in Range(q) <=> x \in Range(queue) /\ x # Head(queue)
        BY <1>0, <2>3, TailOnce DEF SilentInv, Placed
      <3> HIDE DEF q
      <3>6. \A x \in Range(queue) : x <= counter /\ x \notin cut
        BY DEF SilentInv, Placed, CutGone
      <3>7. /\ Once(queue')
            /\ \A x \in Range(queue') : x <= counter' /\ x \notin cut'
            /\ \A x : x \in Range(queue') <=> x = counter + 1 \/ x \in Range(q)
            /\ \A s \in cut' : s <= counter'
        BY <2>1, <2>2, <3>2, <3>5, <3>6, InsertSilent
      <3>8. /\ Head(queue) \in 1 .. counter
            /\ Head(queue) \notin cut
            /\ Head(queue) \notin Range(queue')
        <4>1. Head(queue) \in Segments
          BY <1>0, <2>3, HeadTailProperties
        <4>2. Head(queue) \in 1 .. counter
          BY <1>0, <3>5, <3>6, <4>1 DEF Segments
        <4>3. Head(queue) # counter + 1
          BY <1>0, <4>2
        <4> QED
          BY <3>5, <3>6, <3>7, <4>2, <4>3
      <3>9. \A m \in Loops : \/ m # l /\ loop'[m] = Off
                             \/ m = l /\ loop'[m].at = "announce" /\ loop'[m].seg = Head(queue)
        BY <1>0, <3>1, <3>3
      <3>10. Head(queue) \in 1 .. counter'
        BY <1>0, <2>1, <3>8
      <3>11. Placed'
        BY <2>1, <3>4, <3>7, <3>8, <3>9, <3>10 DEF Placed, Running, Off
      <3>12. CutGone'
        <4> SUFFICES ASSUME NEW s \in cut', NEW m \in Loops, loop'[m].seg = s
                     PROVE  loop'[m].at # "announce" /\ loop'[m].at # "synth"
          BY <3>7 DEF CutGone
        <4> QED
          BY <2>1, <3>8, <3>9 DEF Off
      <3> QED
        BY <3>11, <3>12
    <2>4. CASE ~(queue # <<>> /\ ~processing /\ state # "interrupted")
      <3>1. queue' = Insert(queue, counter + 1) /\ loop' = loop
        BY <1>3, <2>4 DEF Resumed
      <3>2. Once(queue) /\ \A x \in Range(queue) : x <= counter /\ x \notin cut
        BY DEF SilentInv, Placed, CutGone
      <3>3. /\ Once(queue')
            /\ \A x \in Range(queue') : x <= counter' /\ x \notin cut'
            /\ \A x : x \in Range(queue') <=> x = counter + 1 \/ x \in Range(queue)
            /\ \A s \in cut' : s <= counter'
        BY <1>0, <2>1, <2>2, <3>1, <3>2, InsertSilent
      <3>4. \A l \in Loops : Running(l) => /\ loop[l].seg \in 1 .. counter'
                                           /\ loop[l].seg # counter + 1
                                           /\ loop[l].seg \notin Range(queue)
        BY <1>0, <2>1 DEF SilentInv, Placed
      <3>5. Placed'
        BY <1>0, <2>1, <3>1, <3>3, <3>4 DEF SilentInv, Placed, Running
      <3>6. CutGone'
        BY <2>1, <3>1, <3>3 DEF SilentInv, CutGone
      <3> QED
        BY <3>5, <3>6
    <2> QED
      BY <2>3, <2>4
  <1>4. ASSUME NEW v \in Speakers, Queued(v)
        PROVE  Placed' /\ CutGone'
    <2>1. UNCHANGED <<controller, aborted, cut, counter>>
      BY <1>4 DEF Queued, synth
    <2>2. CASE state = "idle" /\ ~processing
      <3>1. PICK l \in Loops : loop[l] = Off /\ Advance(l, queue)
        BY <1>4, <2>2, NewLoopIsFree DEF Queued, Wake, Process
      <3>2. \A m \in Loops : Running(m) => m = l
        BY <2>2 DEF SilentInv, PlayerInv
      <3> QED
        BY <1>0, <2>1, <3>1, <3>2, AdvanceSilent DEF Off
    <2>3. CASE ~(state = "idle" /\ ~processing)
      <3>1. UNCHANGED <<queue, loop>>
        BY <1>4, <2>3 DEF Queued, Wake, player
      <3> QED
        BY <1>1, <2>1, <3>1
    <2> QED
      BY <2>2, <2>3
  <1>5. ASSUME NEW l \in Loops, Announced(l)
        PROVE  Placed' /\ CutGone'
    <2>1. /\ UNCHANGED <<queue, aborted, counter, cut>>
          /\ controller' = loop[l].seg
          /\ loop[l].at = "announce"
          /\ loop' = [loop EXCEPT ![l] = [loop[l] EXCEPT !.at = "synth"]]
      BY <1>5 DEF Announced
    <2>2. Running(l) /\ \A m \in Loops : m # l => ~Running(m) /\ loop'[m] = loop[m] /\ loop[m] = Off
      BY <1>0, <2>1 DEF Running, Off
    <2>3. loop'[l].at = "synth" /\ loop'[l].seg = loop[l].seg
      BY <1>0, <2>1 DEF Turns
    <2>4. loop[l].seg \notin cut
      BY <2>1 DEF SilentInv, CutGone
    <2>5. Placed'
      BY <1>0, <2>1, <2>2, <2>3 DEF SilentInv, Placed, Running, Off
    <2>6. CutGone'
      <3> SUFFICES ASSUME NEW s \in cut, NEW m \in Loops, loop'[m].seg = s
                   PROVE  loop'[m].at # "announce" /\ loop'[m].at # "synth"
        BY <2>1 DEF SilentInv, CutGone
      <3> QED
        BY <2>2, <2>3, <2>4 DEF Off
    <2> QED
      BY <2>5, <2>6
  <1>6. ASSUME NEW l \in Loops, Played(l)
        PROVE  Placed' /\ CutGone'
    <2>1. /\ UNCHANGED <<queue, aborted, counter, cut>>
          /\ controller' = IF controller = loop[l].seg THEN 0 ELSE controller
          /\ loop[l].at = "synth"
          /\ loop' = [loop EXCEPT ![l] = [loop[l] EXCEPT !.at = "done"]]
      BY <1>6 DEF Played
    <2>2. Running(l) /\ \A m \in Loops : m # l => ~Running(m) /\ loop'[m] = loop[m] /\ loop[m] = Off
      BY <1>0, <2>1 DEF Running, Off
    <2>3. loop'[l].at = "done" /\ loop'[l].seg = loop[l].seg
      BY <1>0, <2>1 DEF Turns
    <2>4. controller' = 0
      BY <2>1 DEF SilentInv, Placed
    <2>5. Placed'
      BY <1>0, <2>1, <2>2, <2>3, <2>4 DEF SilentInv, Placed, Running, Off
    <2>6. CutGone'
      <3> SUFFICES ASSUME NEW s \in cut, NEW m \in Loops, loop'[m].seg = s
                   PROVE  loop'[m].at # "announce" /\ loop'[m].at # "synth"
        BY <2>1 DEF SilentInv, CutGone
      <3> QED
        BY <2>2, <2>3 DEF Off
    <2> QED
      BY <2>5, <2>6
  <1>7. ASSUME NEW l \in Loops, Done(l)
        PROVE  Placed' /\ CutGone'
    <2>1. /\ Advance(l, queue)
          /\ UNCHANGED <<controller, aborted, cut, counter>>
          /\ loop[l].at # "synth"
          /\ \A m \in Loops : Running(m) => m = l
      BY <1>0, <1>7 DEF Done, synth, Running, Off
    <2> QED
      BY <1>0, <2>1, AdvanceSilent
  <1>8. ASSUME NEW l \in Loops, LoopThrows(l)
        PROVE  Placed' /\ CutGone'
    <2>1. /\ UNCHANGED <<queue, controller, aborted, counter, cut>>
          /\ loop[l].at \in {"announce", "done"}
          /\ loop' = [loop EXCEPT ![l] = Off]
      BY <1>8 DEF LoopThrows, synth
    <2>2. \A m \in Loops : loop'[m] = Off /\ loop[m].at # "synth"
      BY <1>0, <2>1 DEF Running, Off
    <2>3. Placed'
      BY <2>1, <2>2 DEF SilentInv, Placed, Running, Off
    <2>4. CutGone'
      BY <2>1, <2>2 DEF SilentInv, CutGone, Off
    <2> QED
      BY <2>3, <2>4
  <1>9. CASE BargeIn
    <2>1. /\ UNCHANGED <<loop, controller, counter>>
          /\ queue' = <<>>
          /\ aborted' = aborted \cup ({controller} \ {0})
          /\ cut' = cut \cup Range(queue) \cup ({controller} \ {0})
      BY <1>9 DEF BargeIn, Cleared
    <2>2. Once(queue') /\ \A x : x \notin Range(queue')
      BY <2>1 DEF Once, Range
    <2>3. Placed'
      BY <2>1, <2>2 DEF SilentInv, Placed, Running
    <2>4. CutGone'
      <3> SUFFICES ASSUME NEW s \in cut'
                   PROVE  /\ s <= counter
                          /\ \A l \in Loops : loop[l].seg = s =>
                                /\ loop[l].at # "announce"
                                /\ loop[l].at = "synth" => s \in aborted'
        BY <2>1, <2>2 DEF CutGone
      <3>1. CASE s \in cut
        BY <2>1, <3>1 DEF SilentInv, CutGone
      <3>2. CASE s \in Range(queue)
        BY <3>2 DEF SilentInv, Placed, Running, Off
      <3>3. CASE s = controller /\ controller # 0
        <4>1. PICK m \in Loops : loop[m].at = "synth" /\ loop[m].seg = s
          BY <3>3 DEF SilentInv, Placed
        <4>2. Running(m) /\ s \in 1 .. counter
          BY <4>1 DEF SilentInv, Placed, Running, Off
        <4>3. \A l \in Loops : loop[l].at = "announce" => l = m
          BY <1>0, <4>2 DEF Running, Off
        <4> QED
          BY <1>0, <2>1, <3>3, <4>1, <4>2, <4>3
      <3> QED
        BY <2>1, <3>1, <3>2, <3>3
    <2> QED
      BY <2>3, <2>4
  <1>10. ASSUME NEW l \in Loops, Chunk(l)
         PROVE  UNCHANGED <<queue, loop, controller, aborted, counter, cut>>
    BY <1>10 DEF Chunk, player
  <1>11. ASSUME Partial \/ Final \/ (\E v \in Speakers : Throws(v)) \/ UNCHANGED vars
         PROVE  UNCHANGED <<queue, loop, controller, aborted, counter, cut>>
    BY <1>11 DEF Partial, Final, Throws, ResumedThrows, QueuedThrows, player, synth, vars
  <1>12. ASSUME NEW v \in Speakers, TextChunk(v) \/ Flush(v) \/ NextSentence(v)
         PROVE  \E left : Speak(v, left)
    BY <1>12 DEF TextChunk, Flush, NextSentence
  <1> QED
    BY <1>1, <1>2, <1>3, <1>4, <1>5, <1>6, <1>7, <1>8, <1>9, <1>10, <1>11, <1>12
    DEF Next, Speaks, Loop

\* Only Chunk writes audio, and the segment it writes was not cut.
LEMMA CutIsSilent == SilentInv /\ [Next]_vars => [\A s \in cut : chunks'[s] = chunks[s]]_vars
  <1> SUFFICES ASSUME SilentInv, [Next]_vars, NEW s \in cut
               PROVE  chunks'[s] = chunks[s]
    BY Zenon
  <1>1. ASSUME NEW l \in Loops, Chunk(l)
        PROVE  chunks'[s] = chunks[s]
    <2>1. loop[l].seg # s
      BY <1>1 DEF SilentInv, CutGone, Chunk
    <2> QED
      BY <1>1, <2>1 DEF Chunk, SilentInv, PlayerInv, Typed, TypeOK
  <1>2. ASSUME NEW l \in Loops, Announced(l) \/ Played(l) \/ Done(l) \/ LoopThrows(l)
        PROVE  chunks' = chunks
    BY <1>2 DEF Announced, Played, Done, LoopThrows, synth
  <1>3. ASSUME NEW v \in Speakers, Speaks(v) \/ Throws(v)
        PROVE  chunks' = chunks
    BY <1>3 DEF Speaks, TextChunk, Flush, Resumed, Queued, NextSentence, Speak, Throws,
                ResumedThrows, QueuedThrows, synth
  <1>4. ASSUME Partial \/ Final \/ BargeIn \/ UNCHANGED vars
        PROVE  chunks' = chunks
    BY <1>4 DEF Partial, Final, BargeIn, synth, vars
  <1> QED
    BY <1>1, <1>2, <1>3, <1>4 DEF Next, Loop

\* What waited or sounded when the customer barged in is not heard afterwards
\* (interrupt and clear of the queue, abortActive of the service).
THEOREM CutsAreSilent == Spec => CutStaysSilent
  BY SilentInit, SilentStep, CutIsSilent, PTL DEF Spec, CutStaysSilent
=============================================================================
