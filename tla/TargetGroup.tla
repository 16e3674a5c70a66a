------------------------------ MODULE TargetGroup ------------------------------
(***************************************************************************)
(* Turn-taking between the people near a microphone, in packages/core:     *)
(*   - TargetGroupStateMachine: whom the agent serves, who waits in line,  *)
(*     who is overheard, a pure function of its state and an event;        *)
(*   - TargetGroupBridge: the bus handlers that drive it and keep a session*)
(*     per speaker in the session manager.                                 *)
(* Each handler is an asynchronous activation, one action per stretch      *)
(* between two awaits; events reach the bus from several sources, so the   *)
(* activations interleave.                                                 *)
(***************************************************************************)
EXTENDS Naturals, Sequences

CONSTANTS
    Speakers,
    Handlers,     \* names for concurrent activations of the bridge's handlers
    Ids,          \* session ids that upstream or the resolver may propose
    MaxEvents,    \* bound on the events handled
    MaxClock,     \* bound on the clock that makes up session ids
    None

ASSUME TargetAssumption ==
    /\ None \notin Speakers \cup Ids
    /\ Ids \cap (Speakers \X Nat) = {}
    /\ MaxEvents \in Nat /\ MaxClock \in Nat

VARIABLES
    fsm,       \* the state machine: [state, queue, primary]
    mapped,    \* [Speakers -> SessionIds \cup {None}]: speakerSessions
    sessions,  \* [SessionIds -> Sessions \cup {None}]: the session manager
    pc,        \* [Handlers -> Places]
    job,       \* [Handlers -> Jobs]: the local variables of an activation
    clock,     \* Date.now(), in milliseconds that matter
    events     \* events handled so far

vars == <<fsm, mapped, sessions, pc, job, clock, events>>

\* A speaker the machine has no entry for is absent.
States == {"absent", "targeted", "responding", "queued", "ambient"}
Served == {"targeted", "responding"}
Transitions == {"SPEECH_START", "RESPONSE_START", "RESPONSE_END", "TARGET_LOST",
                "AMBIENT_DETECTED"}
SessionIds == Ids \cup (Speakers \X (0 .. MaxClock))
Statuses == {"active", "paused", "terminated"}
Sessions == [owner : Speakers \cup {None}, status : Statuses, group : {0, 1}]
Places == {"idle", "verify", "lookup", "created", "ensured", "publish"}
Jobs == [speaker : Speakers, queued : BOOLEAN, wanted : Ids \cup {None},
         id : SessionIds \cup {None}]

\* null is not a session.
ASSUME NullAssumption == None \notin Sessions

-----------------------------------------------------------------------------
(* The state machine *)

\* The queue without a speaker who is in it at most once.
Leave(queue, s) ==
    LET places == {i \in DOMAIN queue : queue[i] = s}
    IN  IF places = {} THEN queue
        ELSE LET i == CHOOSE j \in places : TRUE
             IN  SubSeq(queue, 1, i - 1) \o SubSeq(queue, i + 1, Len(queue))

AddSpeaker(f, s, st) ==
    [state   |-> [f.state EXCEPT ![s] = st],
     queue   |-> IF st = "queued" THEN Append(f.queue, s) ELSE f.queue,
     primary |-> IF st = "targeted" THEN s ELSE f.primary]

\* setSpeakerState takes a speaker off the queue but never puts one on it.
SetSpeakerState(f, s, st) ==
    [state   |-> [f.state EXCEPT ![s] = st],
     queue   |-> IF f.state[s] = "queued" /\ st # "queued" THEN Leave(f.queue, s) ELSE f.queue,
     primary |-> IF st \in Served THEN s
                 ELSE IF f.state[s] \in Served THEN None ELSE f.primary]

\* Mutant: a queued speaker who leaves stays in the queue.
RemoveKeepingPlace(f, s) ==
    [state   |-> [f.state EXCEPT ![s] = "absent"],
     queue   |-> f.queue,
     primary |-> IF f.primary = s THEN None ELSE f.primary]

RemoveSpeaker(f, s) ==
    [state   |-> [f.state EXCEPT ![s] = "absent"],
     queue   |-> IF f.state[s] = "queued" THEN Leave(f.queue, s) ELSE f.queue,
     primary |-> IF f.primary = s THEN None ELSE f.primary]

\* Mutant: nobody takes the place of a speaker who leaves.
PromoteNobody(f) == f

\* The next in line has an entry: removeSpeaker took absent ones off the queue.
PromoteNextInQueue(f) ==
    IF f.queue = <<>> THEN f
    ELSE [state   |-> [f.state EXCEPT ![Head(f.queue)] = "targeted"],
          queue   |-> Tail(f.queue),
          primary |-> Head(f.queue)]

\* transition(s, e).  SPEECH_END changes nothing.
Transition(f, s, e) ==
    CASE e = "SPEECH_START" /\ f.state[s] = "absent" ->
            AddSpeaker(f, s, IF f.primary = None THEN "targeted" ELSE "queued")
      [] e = "SPEECH_START" /\ f.state[s] = "ambient" ->
            SetSpeakerState(f, s, IF f.primary = None THEN "targeted" ELSE "queued")
      [] e = "RESPONSE_START" /\ f.state[s] = "targeted" -> SetSpeakerState(f, s, "responding")
      [] e = "RESPONSE_END" /\ f.state[s] = "responding" -> SetSpeakerState(f, s, "targeted")
      [] e = "TARGET_LOST" /\ f.state[s] # "absent" -> PromoteNextInQueue(RemoveSpeaker(f, s))
      [] e = "AMBIENT_DETECTED" /\ f.state[s] = "absent" -> AddSpeaker(f, s, "ambient")
      [] OTHER -> f

\* setAmbient(s), a call from outside the bridge.
MakeAmbient(f, s) ==
    [state   |-> [f.state EXCEPT ![s] = "ambient"],
     queue   |-> IF f.state[s] = "queued" THEN Leave(f.queue, s) ELSE f.queue,
     primary |-> IF f.state[s] \in Served THEN None ELSE f.primary]

-----------------------------------------------------------------------------
(* The bridge's handlers *)

Idle == [speaker |-> CHOOSE s \in Speakers : TRUE, queued |-> FALSE,
         wanted |-> None, id |-> None]

\* Sessions of other origins may exist before the bridge starts.
Init ==
    /\ fsm = [state |-> [s \in Speakers |-> "absent"], queue |-> <<>>, primary |-> None]
    /\ mapped = [s \in Speakers |-> None]
    /\ \E foreign \in SUBSET Ids :
         sessions = [i \in SessionIds |->
                        IF i \in foreign THEN [owner |-> None, status |-> "active", group |-> 1]
                        ELSE None]
    /\ pc = [h \in Handlers |-> "idle"]
    /\ job = [h \in Handlers |-> Idle]
    /\ clock = 0
    /\ events = 0

Begin(h) ==
    /\ pc[h] = "idle"
    /\ events < MaxEvents
    /\ events' = events + 1

Goto(h, place) == pc' = [pc EXCEPT ![h] = place]

\* The activation is over: its snapshot is published, or its error reported.
End(h) == Goto(h, "idle") /\ job' = [job EXCEPT ![h] = Idle]

\* The session a new one is made for: the proposed id when it is free or the
\* speaker's own, a made-up one otherwise.
ChosenId(s, wanted) ==
    IF wanted # None /\ (sessions[wanted] = None \/ sessions[wanted].owner = s)
    THEN wanted ELSE <<s, clock>>

Fresh(s) == [owner |-> s, status |-> "active", group |-> 1]

\* Mutant: createSession replaces a session that already exists.
NewAnyway(h, j) ==
    /\ sessions' = [sessions EXCEPT ![j.id] = Fresh(j.speaker)]
    /\ job' = [job EXCEPT ![h] = j]
    /\ Goto(h, "created")

\* createSession throws when the id is taken, and the handler is over.
NewSession(h, j) ==
    IF sessions[j.id] = None
    THEN /\ sessions' = [sessions EXCEPT ![j.id] = Fresh(j.speaker)]
         /\ job' = [job EXCEPT ![h] = j]
         /\ Goto(h, "created")
    ELSE End(h) /\ UNCHANGED sessions

\* ensureSession without a session in use.  A proposed id is looked up, and the
\* answer may be out of date when it is used; a made-up one is used at once.
MakeSession(h, j) ==
    LET chosen == [j EXCEPT !.id = ChosenId(j.speaker, j.wanted)]
    IN  IF j.wanted = None THEN NewSession(h, chosen)
        ELSE /\ Goto(h, "lookup")
             /\ job' = [job EXCEPT ![h] = chosen]
             /\ UNCHANGED sessions

\* SPEAKER_DETECTED: a speaker who is responding needs nothing more.
Detected(h, s, wanted) ==
    /\ Begin(h)
    /\ fsm' = Transition(fsm, s, "SPEECH_START")
    /\ LET j == [speaker |-> s, queued |-> fsm'.state[s] = "queued",
                 wanted |-> wanted, id |-> mapped[s]]
       IN  IF fsm'.state[s] = "responding" THEN End(h) /\ UNCHANGED sessions
           ELSE IF mapped[s] = None THEN MakeSession(h, j)
           ELSE /\ Goto(h, "verify") /\ job' = [job EXCEPT ![h] = j]
                /\ UNCHANGED sessions
    /\ UNCHANGED <<mapped, clock>>

\* The mapped session is still active, or another one is made.
Verify(h) ==
    /\ pc[h] = "verify"
    /\ IF sessions[job[h].id].status = "active"
       THEN Goto(h, "ensured") /\ UNCHANGED <<sessions, job>>
       ELSE MakeSession(h, job[h])
    /\ UNCHANGED <<fsm, mapped, clock, events>>

Create(h) ==
    /\ pc[h] = "lookup"
    /\ NewSession(h, job[h])
    /\ UNCHANGED <<fsm, mapped, clock, events>>

Created(h) ==
    /\ pc[h] = "created"
    /\ mapped' = [mapped EXCEPT ![job[h].speaker] = job[h].id]
    /\ Goto(h, "ensured")
    /\ UNCHANGED <<fsm, sessions, job, clock, events>>

\* handleSpeakerDetected goes on with the state the transition returned.
Ensured(h) ==
    /\ pc[h] = "ensured"
    /\ IF job[h].queued
       THEN /\ sessions' = [sessions EXCEPT ![job[h].id].group = 0]
            /\ Goto(h, "publish") /\ UNCHANGED job
       ELSE End(h) /\ UNCHANGED sessions
    /\ UNCHANGED <<fsm, mapped, clock, events>>

\* setPriorityGroup has returned and the snapshot is published.
Publish(h) ==
    /\ pc[h] = "publish"
    /\ End(h)
    /\ UNCHANGED <<fsm, mapped, sessions, clock, events>>

Upgrade(i) == sessions' = [sessions EXCEPT ![i].group = 1]

\* SPEAKER_LOST: when the primary left, the session of the new one is upgraded.
Lost(h, s) ==
    /\ Begin(h)
    /\ fsm' = Transition(fsm, s, "TARGET_LOST")
    /\ mapped' = [mapped EXCEPT ![s] = None]
    /\ IF fsm.primary = s /\ fsm'.primary # None /\ mapped'[fsm'.primary] # None
       THEN Upgrade(mapped'[fsm'.primary]) /\ Goto(h, "publish")
       ELSE UNCHANGED <<sessions, pc>>
    /\ UNCHANGED <<job, clock>>

\* SPEAKER_AMBIENT, AMBIENT_CONTEXT, RESPONSE_START and RESPONSE_END: no await
\* comes between the transition and the snapshot.
Heard(h, s, e) ==
    /\ Begin(h)
    /\ fsm' = Transition(fsm, s, e)
    /\ UNCHANGED <<mapped, sessions, pc, job, clock>>

SetAmbient(s) ==
    /\ events < MaxEvents
    /\ events' = events + 1
    /\ fsm' = MakeAmbient(fsm, s)
    /\ UNCHANGED <<mapped, sessions, pc, job, clock>>

\* Another component pauses, resumes or terminates a session.
SetStatus(i, status) ==
    /\ sessions[i] # None
    /\ sessions[i].status # status
    /\ status = "paused" => sessions[i].status = "active"
    /\ status = "active" => sessions[i].status = "paused"
    /\ events < MaxEvents
    /\ events' = events + 1
    /\ sessions' = [sessions EXCEPT ![i].status = status]
    /\ UNCHANGED <<fsm, mapped, pc, job, clock>>

Tick ==
    /\ clock < MaxClock
    /\ clock' = clock + 1
    /\ UNCHANGED <<fsm, mapped, sessions, pc, job, events>>

Resume(h) == Verify(h) \/ Create(h) \/ Created(h) \/ Ensured(h) \/ Publish(h)

Next ==
    \/ \E h \in Handlers :
          \/ Resume(h)
          \/ \E s \in Speakers :
                \/ \E wanted \in Ids \cup {None} : Detected(h, s, wanted)
                \/ Lost(h, s)
                \/ \E e \in {"AMBIENT_DETECTED", "RESPONSE_START", "RESPONSE_END"} : Heard(h, s, e)
    \/ \E s \in Speakers : SetAmbient(s)
    \/ \E i \in SessionIds, status \in Statuses : SetStatus(i, status)
    \/ Tick

Spec == Init /\ [][Next]_vars

-----------------------------------------------------------------------------
(* Properties *)

InLine(s) == \E i \in DOMAIN fsm.queue : fsm.queue[i] = s

\* The queue holds speakers who wait, each once, and the primary that the snapshots
\* announce is being served: nobody who has left, is served or is only overheard is
\* ever promoted.
QueueSound ==
    /\ \A i \in DOMAIN fsm.queue : fsm.state[fsm.queue[i]] = "queued"
    /\ \A i, j \in DOMAIN fsm.queue : fsm.queue[i] = fsm.queue[j] => i = j
    /\ fsm.primary # None => fsm.state[fsm.primary] \in Served

\* The turn is passed on: in whatever order the speakers come, answer and leave,
\* nobody is left in the queue when the primary stops being served.  Only a
\* direct call of setAmbient leaves the turn to the next speaker who comes.
TurnPassesOn ==
    [][fsm.primary # None /\ fsm'.primary = None /\ fsm'.queue # <<>>
          => \E s \in Speakers : SetAmbient(s)]_vars

\* Two speakers never share a session, although the lookup of a proposed id is
\* out of date when the session is created, and a mapped session is the
\* speaker's own.
SessionsApart ==
    \A s \in Speakers : mapped[s] # None =>
        sessions[mapped[s]] # None /\ sessions[mapped[s]].owner = s

\* "targeted: speaker is the primary target (agent responds to them)" and
\* "queued: speaker arrived while another is targeted" (target-group.ts:7-9):
\* one speaker is served at a time, the primary.
OneTarget == \A s, t \in Speakers : fsm.state[s] \in Served /\ fsm.state[t] \in Served => s = t
=============================================================================
