---------------------------- MODULE StaffOverride ----------------------------
(***************************************************************************)
(* The staff's takeover of one session: StaffAgent of packages/core and    *)
(* the pause that InteractionAgent keeps for it.  An employee who says the *)
(* keyword takes the session over; a resume command, thirty seconds of     *)
(* silence or a SESSION_RESUMED published elsewhere give it back.  The two *)
(* agents talk over the bus, which delivers in order.  A publication may   *)
(* throw: the Redis bus without delivering, the in-memory bus after it.    *)
(* A duty is one activation of the agent's handlers.                       *)
(***************************************************************************)
EXTENDS Naturals, Sequences

CONSTANTS
    Duties,      \* handlers that may be in flight together
    MaxStaff,    \* bound on what the staff says and others resume
    MaxFaults    \* bound on publications of the staff agent that throw

ASSUME StaffAssumption == {MaxStaff, MaxFaults} \subseteq Nat

VARIABLES
    activated,   \* isActivated: the staff has the session
    timer,       \* resumeTimer is armed
    duty,        \* [Duties -> Tasks]: what each handler awaits
    paused,      \* InteractionAgent: pausedSessions has the session
    wire,        \* Seq(Messages): published and not yet delivered
    heard,       \* staff events so far
    faults,      \* publications that threw so far
    undone       \* history: what a publication that threw has left undone

faulty == <<faults, undone>>
vars == <<activated, timer, duty, paused, wire, heard, faults, undone>>

Tasks == {"idle", "handoff", "command", "resuming"}
Messages == {"PAUSE", "RESUME", "RESUMED", "ELSEWHERE"}
Omissions == {"timer", "resume"}

Init ==
    /\ activated = FALSE
    /\ timer = FALSE
    /\ duty = [h \in Duties |-> "idle"]
    /\ paused = FALSE
    /\ wire = <<>>
    /\ heard = 0
    /\ faults = 0
    /\ undone = {}

-----------------------------------------------------------------------------

Become(h, from, to) ==
    /\ duty[h] = from
    /\ duty' = [duty EXCEPT ![h] = to]

Publish(m) == wire' = Append(wire, m)

\* An event reaches the agent.
Hear == heard < MaxStaff /\ heard' = heard + 1

\* A publication of the staff agent throws.
Fault == faults < MaxFaults /\ faults' = faults + 1

\* clearSessionActivation, and the INTERACTION_RESUME that follows it, which is lost
\* when its publication throws undelivered.
Deactivate(h) ==
    /\ activated' = FALSE
    /\ timer' = FALSE
    /\ \/ /\ Become(h, "idle", "resuming")
          /\ Publish("RESUME")
          /\ undone' = {}
          /\ UNCHANGED faults
       \/ /\ duty[h] = "idle"
          /\ Fault
          /\ undone' = {"resume"}
          /\ UNCHANGED <<duty, wire>>

\* The activation keyword of an employee, while nobody has taken over.
Keyword(h) ==
    /\ ~activated
    /\ Hear
    /\ Become(h, "idle", "handoff")
    /\ activated' = TRUE
    /\ Publish("PAUSE")
    /\ UNCHANGED <<timer, paused, faulty>>

\* INTERACTION_PAUSE throws undelivered: the session is taken over all the same, with
\* no timer.
KeywordLost(h) ==
    /\ ~activated
    /\ Hear
    /\ duty[h] = "idle"
    /\ activated' = TRUE
    /\ Fault
    /\ undone' = undone \cup {"timer"}
    /\ UNCHANGED <<timer, duty, paused, wire>>

\* INTERACTION_PAUSE throws after it was delivered.  (A handoff that throws is caught.)
PauseThrows(h) ==
    /\ Become(h, "handoff", "idle")
    /\ Fault
    /\ undone' = IF activated /\ ~timer THEN undone \cup {"timer"} ELSE undone
    /\ UNCHANGED <<activated, timer, paused, wire, heard>>

\* Mutant: the timer waits for the first command.
HandedOffUntimed(h) ==
    /\ \E next \in {"idle", "command"} : Become(h, "handoff", next)
    /\ UNCHANGED <<activated, timer, paused, wire, heard, faulty>>

\* The pause and the handoff are out: the timer starts, also when the session was
\* given back meanwhile; the utterance may hold a command.
HandedOff(h) ==
    /\ \E next \in {"idle", "command"} : Become(h, "handoff", next)
    /\ timer' = TRUE
    /\ undone' = undone \ {"timer"}
    /\ UNCHANGED <<activated, paused, wire, heard, faults>>

\* An utterance of the staff starts the timer again.
Command(h) ==
    /\ activated
    /\ Hear
    /\ Become(h, "idle", "command")
    /\ timer' = TRUE
    /\ undone' = undone \ {"timer"}
    /\ UNCHANGED <<activated, paused, wire, faults>>

\* The language model has answered and its tools have run, or failed.
CommandEnds(h) ==
    /\ Become(h, "command", "idle")
    /\ UNCHANGED <<activated, timer, paused, wire, heard, faulty>>

ResumeCommand(h) ==
    /\ activated
    /\ Hear
    /\ Deactivate(h)
    /\ UNCHANGED paused

\* The auto-resume timer.  One that was armed after the session was given back
\* finds nothing to do, or ends a later takeover early.
TimerFires(h) ==
    /\ timer
    /\ IF activated
       THEN Deactivate(h)
       ELSE timer' = FALSE /\ UNCHANGED <<activated, duty, wire, faulty>>
    /\ UNCHANGED <<paused, heard>>

\* INTERACTION_RESUME is out: SESSION_RESUMED follows, whoever has the session now.
Resumed(h) ==
    /\ Become(h, "resuming", "idle")
    /\ Publish("RESUMED")
    /\ undone' = undone \ {"resume"}
    /\ UNCHANGED <<activated, timer, paused, heard, faults>>

\* INTERACTION_RESUME throws after it was delivered, or SESSION_RESUMED before it.
ResumedThrows(h) ==
    /\ Become(h, "resuming", "idle")
    /\ Fault
    /\ UNCHANGED <<activated, timer, paused, wire, heard, undone>>

\* SESSION_RESUMED of another agent or of an operator's console.
ResumedElsewhere ==
    /\ Hear
    /\ Publish("ELSEWHERE")
    /\ undone' = undone \ {"resume"}
    /\ UNCHANGED <<activated, timer, duty, paused, faults>>

\* Mutant: the pause is taken to be over, since SESSION_RESUMED was heard.
DeliverQuietly ==
    /\ wire # <<>>
    /\ paused' = (Head(wire) = "PAUSE")
    /\ IF Head(wire) = "ELSEWHERE" /\ activated
       THEN activated' = FALSE /\ timer' = FALSE
       ELSE UNCHANGED <<activated, timer>>
    /\ wire' = Tail(wire)
    /\ UNCHANGED <<duty, heard, faulty>>

\* InteractionAgent hears its pause and its resumes; StaffAgent hears the
\* SESSION_RESUMED that are not its own, and its INTERACTION_RESUME may be lost.
Deliver ==
    /\ wire # <<>>
    /\ paused' = (Head(wire) = "PAUSE")
    /\ IF Head(wire) = "ELSEWHERE" /\ activated
       THEN /\ activated' = FALSE
            /\ timer' = FALSE
            /\ \/ /\ wire' = Append(Tail(wire), "RESUME")
                  /\ undone' = {}
                  /\ UNCHANGED faults
               \/ /\ wire' = Tail(wire)
                  /\ Fault
                  /\ undone' = {"resume"}
       ELSE /\ wire' = Tail(wire)
            /\ UNCHANGED <<activated, timer, faulty>>
    /\ UNCHANGED <<duty, heard>>

Works(h) ==
    \/ HandedOff(h) \/ PauseThrows(h)
    \/ CommandEnds(h)
    \/ Resumed(h) \/ ResumedThrows(h)
    \/ TimerFires(h)

Next ==
    \/ \E h \in Duties :
          Keyword(h) \/ KeywordLost(h) \/ Command(h) \/ ResumeCommand(h) \/ Works(h)
    \/ ResumedElsewhere
    \/ Deliver

\* Handlers end, the timer fires, the bus delivers.
Fairness ==
    /\ \A h \in Duties : WF_vars(Works(h))
    /\ WF_vars(Deliver)

Spec == Init /\ [][Next]_vars
LiveSpec == Spec /\ Fairness

-----------------------------------------------------------------------------
(* Properties *)

TypeOK ==
    /\ activated \in BOOLEAN
    /\ timer \in BOOLEAN
    /\ duty \in [Duties -> Tasks]
    /\ paused \in BOOLEAN
    /\ wire \in Seq(Messages)
    /\ {heard, faults} \subseteq Nat
    /\ undone \subseteq Omissions

\* A takeover is timed from the end of the handoff on, whatever timers, commands
\* and resumes crossed on the way: no session stays with a silent employee.  The one
\* that is not is the takeover whose INTERACTION_PAUSE threw, until the staff speaks.
TakeoverTimed ==
    activated =>
        timer \/ "timer" \in undone \/ \E h \in Duties : duty[h] = "handoff"

\* Once the bus has delivered everything, the customer is paused only while the
\* staff has the session, in whatever order the pauses and resumes of several
\* origins crossed; or an INTERACTION_RESUME was lost and nothing has resumed since.
PauseMatched == paused /\ wire = <<>> => activated \/ "resume" \in undone

\* No customer is ignored for ever: silence of the staff ends every pause, unless a
\* publication that threw left the takeover without its timer or the pause without
\* its resume.
PauseEnds == paused ~> ~paused \/ undone # {}
=============================================================================
