----------------------------- MODULE SpeechOutput -----------------------------
(***************************************************************************)
(* How the store runtime speaks and is interrupted, for one session: the   *)
(* text of the agents' turns is cut into sentences (TtsStreamService,      *)
(* SentenceChunker), queued by priority and played one after the other     *)
(* (InMemoryAudioQueueService), and a customer who talks while the session *)
(* is busy sends BARGE_IN (stt-bridge).  Sessions share nothing here but   *)
(* the output.  Code between two awaits is one action; Advance is the head *)
(* of processQueue's while loop, which several actions run into.           *)
(***************************************************************************)
EXTENDS Integers, Sequences, FiniteSets, SequencesExt

CONSTANTS
    MaxSegments,   \* bound on segmentCounter
    Priority,      \* [1 .. MaxSegments -> Int]: 5 for a turn, 10 for an approval
    Speakers,      \* turns, each one handleTextChunk or flushSession at a time
    Loops,         \* invocations of processQueue that may be running
    MaxSentences,  \* bound on the sentences of one text chunk
    MaxChunks,     \* bound on the audio chunks of one segment
    MaxBargeIns,   \* bound on BARGE_IN events
    MaxFaults      \* bound on publications that throw

ASSUME SpeechAssumption ==
    /\ {MaxSegments, MaxSentences, MaxChunks, MaxBargeIns, MaxFaults} \subseteq Nat
    /\ IsFiniteSet(Speakers)
    /\ Priority \in [1 .. MaxSegments -> Int]

VARIABLES
    queue,       \* queue.segments
    state,       \* queue.state
    processing,  \* queue.processing
    loop,        \* [Loops -> Turns]: where each processQueue awaits
    controller,  \* abortControllers.get(session): the segment it was made for, or 0
    aborted,     \* segments whose signal is aborted
    chunks,      \* [Segments -> Nat]: audio chunks written
    call,        \* [Speakers -> Calls]: where each speakText awaits
    counter,     \* segmentCounter
    buffered,    \* the chunker holds a sentence that is not complete
    bargedIn,    \* bargeInSessions has the session
    coming,      \* BARGE_IN is published and not yet delivered
    cut,         \* segments that were waiting or sounding when BARGE_IN came
    bargeIns,    \* BARGE_IN events so far
    faults,      \* faults so far
    undone       \* history: what a publication that threw has left undone

player == <<queue, state, processing, loop, undone>>
synth == <<controller, aborted, chunks>>
bridge == <<bargedIn, coming, bargeIns>>
vars == <<queue, state, processing, loop, controller, aborted, chunks, call, counter,
          buffered, bargedIn, coming, cut, bargeIns, faults, undone>>

Segments == 1 .. MaxSegments
States == {"idle", "playing", "interrupted"}
Turns == [at : {"off", "announce", "synth", "done"}, seg : 0 .. MaxSegments]
Calls == [at : {"idle", "resuming", "queueing"}, left : 0 .. MaxSentences]
Omissions == {"start", "state", "loop"}
Off == [at |-> "off", seg |-> 0]
Quiet == [at |-> "idle", left |-> 0]

Init ==
    /\ queue = <<>>
    /\ state = "idle"
    /\ processing = FALSE
    /\ loop = [l \in Loops |-> Off]
    /\ controller = 0
    /\ aborted = {}
    /\ chunks = [s \in Segments |-> 0]
    /\ call = [v \in Speakers |-> Quiet]
    /\ counter = 0
    /\ buffered = FALSE
    /\ bargedIn = FALSE
    /\ coming = FALSE
    /\ cut = {}
    /\ bargeIns = 0
    /\ faults = 0
    /\ undone = {}

-----------------------------------------------------------------------------
(* The queue *)

Outranked(s, q) == {i \in 1 .. Len(q) : Priority[s] > Priority[q[i]]}

\* push: before the first segment of lower priority.
Insert(q, s) ==
    IF Outranked(s, q) = {} THEN Append(q, s)
    ELSE LET i == CHOOSE i \in Outranked(s, q) : \A j \in Outranked(s, q) : i <= j
         IN  SubSeq(q, 1, i - 1) \o <<s>> \o SubSeq(q, i, Len(q))

\* Mutant: the loop ends and the state is left as it was.
AdvanceStale(l, q) ==
    /\ undone' = {}
    /\ IF q # <<>> /\ state # "interrupted"
       THEN /\ queue' = Tail(q)
            /\ state' = "playing"
            /\ processing' = TRUE
            /\ loop' = [loop EXCEPT ![l] = [at |-> "announce", seg |-> Head(q)]]
       ELSE /\ queue' = q
            /\ processing' = FALSE
            /\ loop' = [loop EXCEPT ![l] = Off]
            /\ UNCHANGED state

\* The while loop of processQueue from its condition to its first await, with q
\* for the segments: the next one is taken, or the loop ends.
Advance(l, q) ==
    /\ undone' = {}
    /\ IF q # <<>> /\ state # "interrupted"
       THEN /\ queue' = Tail(q)
            /\ state' = "playing"
            /\ processing' = TRUE
            /\ loop' = [loop EXCEPT ![l] = [at |-> "announce", seg |-> Head(q)]]
       ELSE /\ queue' = q
            /\ state' = IF state = "interrupted" THEN state ELSE "idle"
            /\ processing' = FALSE
            /\ loop' = [loop EXCEPT ![l] = Off]

\* A new invocation; which of those that are over stands for it says nothing.
FreeLoops == {l \in Loops : loop[l] = Off}
NewLoop == CHOOSE l \in FreeLoops : TRUE

\* processQueue: nothing while another loop is processing.
Process(q) ==
    IF processing THEN queue' = q /\ UNCHANGED <<state, processing, loop, undone>>
    ELSE FreeLoops # {} /\ Advance(NewLoop, q)

-----------------------------------------------------------------------------
(* speakText *)

\* From the start of speakText to its first await, for a call with left more
\* sentences to say: a session that is interrupted is continued, otherwise the
\* sentence is pushed.
Speak(v, left) ==
    /\ counter + Cardinality({w \in Speakers : call[w].at = "resuming"}) < MaxSegments
    /\ IF state = "interrupted"
       THEN /\ state' = "idle"
            /\ call' = [call EXCEPT ![v] = [at |-> "resuming", left |-> left]]
            /\ UNCHANGED <<queue, counter>>
       ELSE /\ counter' = counter + 1
            /\ queue' = Insert(queue, counter + 1)
            /\ call' = [call EXCEPT ![v] = [at |-> "queueing", left |-> left]]
            /\ UNCHANGED state
    /\ UNCHANGED <<processing, loop, undone, synth, bridge, cut, faults>>

\* A chunk of a turn's text completes sentences and leaves a remainder or not.
TextChunk(v) ==
    /\ call[v] = Quiet
    /\ \E n \in 1 .. MaxSentences, rest \in BOOLEAN :
          Speak(v, n - 1) /\ buffered' = rest

\* RESPONSE_END: what the chunker still holds is said.
Flush(v) ==
    /\ call[v] = Quiet
    /\ buffered
    /\ buffered' = FALSE
    /\ Speak(v, 0)

\* AUDIO_RESUMED went out: what waits is played, then the sentence is pushed.
Resumed(v) ==
    /\ call[v].at = "resuming"
    /\ counter' = counter + 1
    /\ call' = [call EXCEPT ![v].at = "queueing"]
    /\ IF queue # <<>> /\ ~processing /\ state # "interrupted"
       THEN /\ FreeLoops # {}
            /\ loop' = [loop EXCEPT ![NewLoop] = [at |-> "announce", seg |-> Head(queue)]]
            /\ queue' = Insert(Tail(queue), counter + 1)
            /\ state' = "playing"
            /\ processing' = TRUE
            /\ undone' = {}
       ELSE /\ queue' = Insert(queue, counter + 1)
            /\ UNCHANGED <<state, processing, loop, undone>>
    /\ UNCHANGED <<synth, buffered, bridge, cut, faults>>

\* A publication throws.
Fault == faults < MaxFaults /\ faults' = faults + 1

\* AUDIO_RESUMED threw: the session is idle already, what waits is not played and the
\* chunk's sentences are not said.
ResumedThrows(v) ==
    /\ call[v].at = "resuming"
    /\ Fault
    /\ call' = [call EXCEPT ![v] = Quiet]
    /\ undone' = undone
          \cup (IF queue # <<>> /\ ~processing /\ state # "interrupted" THEN {"start"} ELSE {})
          \cup (IF \E l \in Loops : loop[l] # Off THEN {"state"} ELSE {})
    /\ UNCHANGED <<queue, state, processing, loop, synth, counter, buffered, bridge, cut>>

\* Mutant: only the state is asked, not whether a loop runs.
WakeUnguarded(q) == IF state = "idle" THEN FreeLoops # {} /\ Advance(NewLoop, q)
                    ELSE UNCHANGED player

\* Mutant: only the push that found the queue empty starts the player.
WakeFirst(q) == IF state = "idle" /\ ~processing /\ Len(q) = 1
                THEN Process(q) ELSE UNCHANGED player

\* AUDIO_SEGMENT_QUEUED went out: an idle player is started.
Wake(q) == IF state = "idle" /\ ~processing THEN Process(q) ELSE UNCHANGED player

Queued(v) ==
    /\ call[v].at = "queueing"
    /\ Wake(queue)
    /\ call' = [call EXCEPT ![v].at = "idle"]
    /\ UNCHANGED <<synth, counter, buffered, bridge, cut, faults>>

\* AUDIO_SEGMENT_QUEUED threw: the sentence waits, the player is not started, and the
\* rest of the chunk is not said.
QueuedThrows(v) ==
    /\ call[v].at = "queueing"
    /\ Fault
    /\ call' = [call EXCEPT ![v] = Quiet]
    /\ undone' = undone \cup (IF state = "idle" /\ ~processing THEN {"start"} ELSE {})
    /\ UNCHANGED <<queue, state, processing, loop, synth, counter, buffered, bridge, cut>>

\* The next sentence of the chunk, whatever happened since it was cut.
NextSentence(v) ==
    /\ call[v].at = "idle"
    /\ call[v].left > 0
    /\ Speak(v, call[v].left - 1)
    /\ UNCHANGED buffered

-----------------------------------------------------------------------------
(* processQueue and playSegment *)

\* AUDIO_SEGMENT_PLAYING went out: playSegment makes the segment's controller.
Announced(l) ==
    /\ loop[l].at = "announce"
    /\ loop' = [loop EXCEPT ![l].at = "synth"]
    /\ controller' = loop[l].seg
    /\ UNCHANGED <<queue, state, processing, aborted, chunks, call, counter, buffered,
                   bridge, cut, faults, undone>>

Chunk(l) ==
    /\ loop[l].at = "synth"
    /\ loop[l].seg \notin aborted
    /\ chunks[loop[l].seg] < MaxChunks
    /\ chunks' = [chunks EXCEPT ![loop[l].seg] = @ + 1]
    /\ UNCHANGED <<player, controller, aborted, call, counter, buffered, bridge, cut, faults>>

\* Completed, interrupted or failed: playSegment never throws.
Played(l) ==
    /\ loop[l].at = "synth"
    /\ loop' = [loop EXCEPT ![l].at = "done"]
    /\ controller' = IF controller = loop[l].seg THEN 0 ELSE controller
    /\ UNCHANGED <<queue, state, processing, aborted, chunks, call, counter, buffered,
                   bridge, cut, faults, undone>>

\* AUDIO_SEGMENT_DONE went out.
Done(l) ==
    /\ loop[l].at = "done"
    /\ Advance(l, queue)
    /\ UNCHANGED <<synth, call, counter, buffered, bridge, cut, faults>>

\* A publication of the loop throws: the loop is gone and processing stays set.
LoopThrows(l) ==
    /\ loop[l].at \in {"announce", "done"}
    /\ Fault
    /\ loop' = [loop EXCEPT ![l] = Off]
    /\ undone' = {"loop"}
    /\ UNCHANGED <<queue, state, processing, synth, call, counter, buffered, bridge, cut>>

-----------------------------------------------------------------------------
(* The customer talks *)

\* Mutant: the pending segments are not counted.
PlayingOnly == state # "idle"

isSessionBusy == state # "idle" \/ queue # <<>>

Partial ==
    /\ isSessionBusy
    /\ ~bargedIn
    /\ bargeIns < MaxBargeIns
    /\ bargeIns' = bargeIns + 1
    /\ bargedIn' = TRUE
    /\ coming' = TRUE
    /\ UNCHANGED <<player, synth, call, counter, buffered, cut, faults>>

Final ==
    /\ bargedIn
    /\ bargedIn' = FALSE
    /\ UNCHANGED <<player, synth, call, counter, buffered, coming, bargeIns, cut, faults>>

\* Mutant: the waiting segments are kept.
Kept(q) == q

\* clear(): a new, empty array.
Cleared(q) == <<>>

\* The queue's subscriber interrupts, then the service's resets the chunker,
\* aborts what is synthesised and clears the queue.
BargeIn ==
    /\ coming
    /\ coming' = FALSE
    /\ state' = "interrupted"
    /\ buffered' = FALSE
    /\ aborted' = aborted \cup ({controller} \ {0})
    /\ queue' = Cleared(queue)
    /\ cut' = cut \cup Range(queue) \cup ({controller} \ {0})
    /\ undone' = undone \cap {"loop"}
    /\ UNCHANGED <<processing, loop, controller, chunks, call, counter, bargedIn, bargeIns,
                   faults>>

-----------------------------------------------------------------------------

Loop(l) == Announced(l) \/ Chunk(l) \/ Played(l) \/ Done(l)
Speaks(v) == TextChunk(v) \/ Flush(v) \/ Resumed(v) \/ Queued(v) \/ NextSentence(v)
Throws(v) == ResumedThrows(v) \/ QueuedThrows(v)

Next ==
    \/ \E v \in Speakers : Speaks(v) \/ Throws(v)
    \/ \E l \in Loops : Loop(l) \/ LoopThrows(l)
    \/ Partial \/ Final \/ BargeIn

\* Publications return or throw, and the TTS provider ends its streams.
Fairness ==
    /\ WF_vars(\E l \in Loops : Announced(l) \/ Played(l) \/ Done(l) \/ LoopThrows(l))
    /\ \A v \in Speakers : WF_vars(Resumed(v) \/ Queued(v) \/ Throws(v))

Spec == Init /\ [][Next]_vars
LiveSpec == Spec /\ Fairness

-----------------------------------------------------------------------------
(* Properties *)

TypeOK ==
    /\ queue \in Seq(Segments)
    /\ state \in States
    /\ processing \in BOOLEAN
    /\ loop \in [Loops -> Turns]
    /\ controller \in 0 .. MaxSegments
    /\ aborted \subseteq Segments
    /\ chunks \in [Segments -> Nat]
    /\ call \in [Speakers -> Calls]
    /\ counter \in 0 .. MaxSegments
    /\ {buffered, bargedIn, coming} \subseteq BOOLEAN
    /\ cut \subseteq Segments
    /\ {bargeIns, faults} \subseteq Nat
    /\ undone \subseteq Omissions

Running(l) == loop[l] # Off

\* Two turns, a resumption and the player itself may all start the player, each
\* after an await: a session never has two loops, so no two voices at once.
OneLoop == \A l, m \in Loops : Running(l) /\ Running(m) => l = m

\* A segment waits in an idle player that nobody is about to start only if the
\* publication before the start threw (AUDIO_SEGMENT_QUEUED, AUDIO_RESUMED), and until
\* the next start or barge-in; the state does not say playing when nothing plays; and
\* processing is set with no loop only once a publication of the loop threw.
NoLostWakeUp ==
    /\ state = "playing" => processing
    /\ queue # <<>> /\ state = "idle" =>
          processing \/ "start" \in undone \/ \E v \in Speakers : call[v].at # "idle"
    /\ processing => "loop" \in undone \/ \E l \in Loops : Running(l)

\* What the barge-in relies on: while a segment sounds the session is busy, except
\* for the time a resumption takes to go out and, when AUDIO_RESUMED threw, until the
\* loop takes its next segment or ends.
BusyWhileAudible ==
    (\E l \in Loops : Running(l)) =>
        \/ isSessionBusy
        \/ "state" \in undone
        \/ \E v \in Speakers : call[v].at = "resuming"

\* What waited or sounded when the customer barged in is not heard afterwards.
\* (A segment taken from the queue whose announcement is still going out has no
\* controller yet: it is in neither set, and is heard in full.)
CutStaysSilent == [][\A s \in cut : chunks'[s] = chunks[s]]_vars

\* Every segment is taken from the queue or cleared, unless the customer interrupts
\* the session or a publication that throws leaves the player without its start.
QueueDrains ==
    \A s \in Segments : s \in Range(queue) ~>
        s \notin Range(queue) \/ state = "interrupted" \/ undone # {}
=============================================================================
