----------------------------- MODULE LiveKitRoom -----------------------------
(***************************************************************************)
(* The LiveKit room of a store: LiveKitRtcBridgeTransport and the manager  *)
(* of its participants, in livekit-voice-bridge.ts.  The bridge joins the  *)
(* room when a browser asks for a token, and leaves it by an idle timer,   *)
(* by POST /room/close or when LiveKit drops it.  Each of them awaits      *)
(* between its steps and reads this.room anew.  LiveKit itself, and the    *)
(* people who come and go, are the environment.                            *)
(***************************************************************************)
EXTENDS RoomParticipants

CONSTANTS
    Conns,       \* the Room objects that connectRoom creates, each used once
    None         \* null

ASSUME RoomAssumption == None \notin Conns

\* closeRoom called by the HTTP route and by the idle timer, and the sweep of
\* Disconnected: one of each at a time.
Callers == {"http", "idle", "lost"}

VARIABLES
    room,        \* this.room
    track,       \* the connection audioSource and audioTrack were made for
    timer,       \* idleTimer is armed
    start,       \* startPromise: how far connectRoom is, and its room
    close,       \* [Callers -> record]: how far each close is
    conn,        \* [Conns -> ConnStates]: each connection, as LiveKit has it
    inside,      \* the people in the LiveKit room
    broken       \* rooms whose start failed after they were joined

vars == <<room, track, timer, start, close, conn, inside, known, said, twice, broken>>

\* "lost": LiveKit has dropped it, and Disconnected is on its way.
ConnStates == {"unused", "joining", "joined", "failed", "lost", "left"}

NoStart == [at |-> "idle", conn |-> None]
NoClose == [at |-> "idle", conn |-> None, left |-> {}]

Init ==
    /\ room = None
    /\ track = None
    /\ timer = FALSE
    /\ start = NoStart
    /\ close = [t \in Callers |-> NoClose]
    /\ conn = [c \in Conns |-> "unused"]
    /\ inside = {}
    /\ known = {}
    /\ said = [p \in People |-> "lost"]
    /\ twice = {}
    /\ broken = {}

-----------------------------------------------------------------------------
(* Transcripts *)

\* A transcript, of one who has left too: a text stream is read to its end before
\* it is handled, and the debug route names anyone.  The route answers with the
\* publication's error; he is known all the same.
Transcript(p) ==
    /\ p \notin known
    /\ \E mute \in SUBSET {p} : ensureParticipants({p}, mute)
    /\ UNCHANGED <<room, track, timer, start, close, conn, inside, broken>>

-----------------------------------------------------------------------------
(* The idle timer *)

\* localParticipant and remoteParticipants are there from the connect on.
Connected(c) == c # None /\ conn[c] \in {"joined", "lost", "left"}
Remote(c, ps) == IF Connected(c) THEN ps ELSE {}

\* scheduleIdleCloseIfEmpty with ps in the room.
Scheduled(armed, ps) == armed \/ (room # None /\ Remote(room, ps) = {})

\* The timer was armed for an empty room; what it closes is this.room by now.
TimerFires ==
    /\ timer
    /\ close["idle"].at = "idle"
    /\ timer' = FALSE
    /\ close' = IF room # None /\ Remote(room, inside) = {}
                THEN [close EXCEPT !["idle"] = [NoClose EXCEPT !.at = "track"]]
                ELSE close
    /\ UNCHANGED <<room, track, start, conn, inside, known, said, twice, broken>>

-----------------------------------------------------------------------------
(* GET /client-token: the bridge joins *)

\* Mutant: the token of a connected room stops the timer and leaves it so.
TokenKeepsAwake ==
    /\ start.at = "idle"
    /\ Connected(room)
    /\ timer' = FALSE
    /\ UNCHANGED <<room, track, start, close, conn, inside, known, said, twice, broken>>

\* The room is there: its idle time begins anew.  While a start is under way the
\* manager's startPromise is awaited instead.
TokenExisting ==
    /\ start.at = "idle"
    /\ Connected(room)
    /\ timer' = Scheduled(FALSE, inside)
    /\ UNCHANGED <<room, track, start, close, conn, inside, known, said, twice, broken>>

TokenStart(c) ==
    /\ start.at = "idle"
    /\ ~Connected(room)
    /\ conn[c] = "unused"
    /\ start' = [at |-> "creating", conn |-> c]
    /\ UNCHANGED <<room, track, timer, close, conn, inside, known, said, twice, broken>>

\* createRoom, which may fail, and the bridge's token are there: this.room is the
\* new Room before it is connected.
CreateEnd ==
    /\ start.at = "creating"
    /\ room' = start.conn
    /\ conn' = [conn EXCEPT ![start.conn] = "joining"]
    /\ start' = [start EXCEPT !.at = "joining"]
    /\ UNCHANGED <<track, timer, close, inside, known, said, twice, broken>>

\* The connection is up, and those inside are announced one after the other: it ends
\* the start when the publication for one of them fails.
JoinEnd ==
    /\ start.at = "joining"
    /\ conn' = [conn EXCEPT ![start.conn] = "joined"]
    /\ \E met \in SUBSET inside :
          \/ /\ met = inside
             /\ ensureParticipants(met, {})
             /\ start' = [start EXCEPT !.at = "meeting"]
             /\ UNCHANGED broken
          \/ /\ \E p \in met \ known : ensureParticipants(met, {p})
             /\ start' = NoStart
             /\ broken' = broken \cup {start.conn}
    /\ UNCHANGED <<room, track, timer, close, inside>>

\* publishAudioTrack, unless there is a track already, of whatever room.
PublishTrack ==
    /\ start.at = "meeting"
    /\ track = None
    /\ track' = start.conn
    /\ start' = [start EXCEPT !.at = "publishing"]
    /\ UNCHANGED <<room, timer, close, conn, inside, known, said, twice, broken>>

StartEnd ==
    /\ start.at = "publishing" \/ (start.at = "meeting" /\ track # None)
    /\ timer' = Scheduled(timer, inside)
    /\ start' = NoStart
    /\ UNCHANGED <<room, track, close, conn, inside, known, said, twice, broken>>

\* An environment variable is missing; or the connect fails, and this.room keeps a
\* Room that never was connected.
ConnectFails ==
    /\ start.at \in {"creating", "joining"}
    /\ conn' = [conn EXCEPT ![start.conn] = IF @ = "joining" THEN "failed" ELSE @]
    /\ start' = NoStart
    /\ UNCHANGED <<room, track, timer, close, inside, known, said, twice, broken>>

\* publishTrack fails: no idle timer is armed for the room that was joined.
PublishFails ==
    /\ start.at = "publishing"
    /\ start' = NoStart
    /\ broken' = broken \cup {start.conn}
    /\ UNCHANGED <<room, track, timer, close, conn, inside, known, said, twice>>

Starts == CreateEnd \/ JoinEnd \/ PublishTrack \/ StartEnd \/ ConnectFails \/ PublishFails

-----------------------------------------------------------------------------
(* closeRoom, and the sweep of Disconnected *)

\* disconnectAllParticipants takes a snapshot of the participants.
Sweeping(t) == close' = [close EXCEPT ![t] = [NoClose EXCEPT !.at = "sweep", !.left = known]]

HttpClose ==
    /\ close["http"].at = "idle"
    /\ Sweeping("http")
    /\ UNCHANGED <<room, track, timer, start, conn, inside, known, said, twice, broken>>

\* Whichever connection was lost, this.room and the track are given up.
Disconnected(c) ==
    /\ conn[c] = "lost"
    /\ close["lost"].at = "idle"
    /\ conn' = [conn EXCEPT ![c] = "left"]
    /\ timer' = FALSE
    /\ room' = None
    /\ track' = None
    /\ Sweeping("lost")
    /\ UNCHANGED <<start, inside, known, said, twice, broken>>

\* One participant of the snapshot, who is removed before his loss is published.  A
\* publication that throws ends the request, and the room is not closed; after
\* Disconnected nobody catches it, and the process ends.
Sweep(t) ==
    /\ close[t].at = "sweep"
    /\ \E p \in close[t].left :
          \/ /\ disconnectParticipant(p, {})
             /\ close' = [close EXCEPT ![t].left = @ \ {p}]
          \/ /\ t = "http"
             /\ p \in known
             /\ disconnectParticipant(p, {p})
             /\ close' = [close EXCEPT ![t] = NoClose]
    /\ UNCHANGED <<room, track, timer, start, conn, inside, broken>>

\* The transport's closeRoom begins: the timer is off, and the track's close awaited.
SweepEnd(t) ==
    /\ close[t].at = "sweep"
    /\ close[t].left = {}
    /\ IF t = "lost"
       THEN close' = [close EXCEPT ![t] = NoClose] /\ UNCHANGED timer
       ELSE close' = [close EXCEPT ![t].at = "track"] /\ timer' = FALSE
    /\ UNCHANGED <<room, track, start, conn, inside, known, said, twice, broken>>

\* The track is closed; the Room of that moment is disconnected.
TrackClosed(t) ==
    /\ close[t].at = "track"
    /\ track' = None
    /\ close' = [close EXCEPT ![t].at = "leave", ![t].conn = room]
    /\ UNCHANGED <<room, timer, start, conn, inside, known, said, twice, broken>>

\* Disconnected, where it was connected, with or without the event: whatever
\* this.room is by now becomes null.
Left(t) ==
    /\ close[t].at = "leave"
    /\ LET c == close[t].conn
       IN  IF c # None /\ conn[c] = "joined"
           THEN \E end \in {"lost", "left"} : conn' = [conn EXCEPT ![c] = end]
           ELSE UNCHANGED conn
    /\ room' = None
    /\ close' = [close EXCEPT ![t].at = "delete"]
    /\ UNCHANGED <<track, timer, start, inside, known, said, twice, broken>>

\* deleteRoom throws everybody out, a bridge that has joined again included; it is
\* not called without delete_room_on_idle, and may fail.
Deleted(t) ==
    /\ close[t].at = "delete"
    /\ close' = [close EXCEPT ![t] = NoClose]
    /\ \/ /\ inside' = {}
          /\ conn' = [c \in Conns |-> IF conn[c] = "joined" THEN "lost" ELSE conn[c]]
       \/ UNCHANGED <<inside, conn>>
    /\ UNCHANGED <<room, track, timer, start, known, said, twice, broken>>

Closes(t) == Sweep(t) \/ SweepEnd(t) \/ TrackClosed(t) \/ Left(t) \/ Deleted(t)

-----------------------------------------------------------------------------
(* The environment: people, and LiveKit *)

\* Nobody catches what a publication of these events throws: the process ends.
Listening == \E c \in Conns : conn[c] = "joined"

PersonJoins(p) ==
    /\ p \notin inside
    /\ inside' = inside \cup {p}
    /\ IF Listening
       THEN timer' = FALSE /\ ensureParticipants({p}, {})
       ELSE UNCHANGED <<timer, known, said, twice>>
    /\ UNCHANGED <<room, track, start, close, conn, broken>>

PersonLeaves(p) ==
    /\ p \in inside
    /\ inside' = inside \ {p}
    /\ IF Listening
       THEN timer' = Scheduled(timer, inside') /\ disconnectParticipant(p, {})
       ELSE UNCHANGED <<timer, known, said, twice>>
    /\ UNCHANGED <<room, track, start, close, conn, broken>>

\* The network, or a second bridge of the same identity.
Drop(c) ==
    /\ conn[c] = "joined"
    /\ conn' = [conn EXCEPT ![c] = "lost"]
    /\ UNCHANGED <<room, track, timer, start, close, inside, known, said, twice, broken>>

Next ==
    \/ \E c \in Conns : TokenStart(c) \/ Disconnected(c) \/ Drop(c)
    \/ \E p \in People : Transcript(p) \/ PersonJoins(p) \/ PersonLeaves(p)
    \/ TokenExisting \/ TimerFires \/ HttpClose
    \/ Starts
    \/ \E t \in Callers : Closes(t)

Spec == Init /\ [][Next]_vars

\* LiveKit answers or refuses what start and close ask of it, and the timer fires;
\* that a connection was lost may never be heard.
Fairness ==
    /\ WF_vars(Starts)
    /\ WF_vars(TimerFires)
    /\ WF_vars(Closes("http")) /\ WF_vars(Closes("idle"))

LiveSpec == Spec /\ Fairness

-----------------------------------------------------------------------------
(* Properties *)

\* The bridge holds a room that it has joined and nobody else is in.
HeldEmpty(c) == room = c /\ conn[c] = "joined" /\ inside = {}

\* "Al desconectar el ultimo navegador, el room se cierra": an empty room that the
\* bridge holds is not held for ever, whatever tokens, visits, closes and lost
\* connections crossed, unless its start failed after the connect.
EmptyRoomCloses ==
    \A c \in Conns : HeldEmpty(c) ~> ~HeldEmpty(c) \/ c \in broken
=============================================================================
