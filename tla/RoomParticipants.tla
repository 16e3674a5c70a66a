--------------------------- MODULE RoomParticipants ---------------------------
(***************************************************************************)
(* The participants that LiveKitVoiceBridgeManager knows, and what the bus *)
(* hears of them.  A participant is registered, or removed, before the     *)
(* publication that says so; one that throws may have reached the bus or   *)
(* not.  Who calls the manager, and when, is LiveKitRoom's.                *)
(***************************************************************************)
EXTENDS Integers

CONSTANT People     \* remote participants

VARIABLES
    known,       \* the manager's participants
    said,        \* [People -> Words]: what the bus heard last of each
    twice        \* people of whom it heard the same twice running

\* "detected" and "lost" are the events; "unsure": the publication threw.
Words == {"detected", "lost", "unsure"}

\* The event of each of ps is published, and throws for those in mute.
Told(ps, word, mute) ==
    /\ said' = [p \in People |-> CASE p \in ps \cap mute -> "unsure"
                                   [] p \in ps \ mute    -> word
                                   [] OTHER              -> said[p]]
    /\ twice' = twice \cup {p \in ps \ mute : said[p] = word}

\* A participant that is new is registered, then announced.
ensureParticipants(ps, mute) ==
    /\ known' = known \cup ps
    /\ Told(ps \ known, "detected", mute)

\* Mutant: the loss is published without asking whether the participant is known.
disconnectUnchecked(p, mute) ==
    /\ known' = known \ {p}
    /\ Told({p}, "lost", mute)

\* A participant that is known is removed, then its loss is published.
disconnectParticipant(p, mute) ==
    /\ known' = known \ {p}
    /\ Told({p} \cap known, "lost", mute)

\* Of a participant the bus never hears SPEAKER_DETECTED twice running, nor
\* SPEAKER_LOST, unless a publication about him threw in between, whatever events,
\* transcripts and sweeps overlap: turns and sessions are given by them.
SpeakersAlternate == twice = {}
=============================================================================
