----------------------------- MODULE Conversation -----------------------------
(***************************************************************************)
(* One customer's conversation: InteractionRuntimeAgent of the store       *)
(* runtime, InteractionAgent of packages/core and the per-session abort    *)
(* controllers of the language model.  A turn is one activation: the       *)
(* handling of a final utterance, or the speculative inference a probable  *)
(* one starts.  Turns overlap at every await and share the session's       *)
(* pending confirmation, its current draft, the speculation and the        *)
(* controller.  Drafts are those of DraftLifecycle, which DraftStore       *)
(* implements.  What is said to the customer is SpeechOutput's concern.    *)
(***************************************************************************)
EXTENDS Naturals, Sequences, FiniteSets

CONSTANTS
    Finals,    \* final utterances that pass the filters on role and speaker
    Guesses,   \* probable utterances
    Drafts,    \* ids that the draft store may hand out
    Texts,     \* what may be left to the model: Browse is one of them
    Browse,    \* an utterance that starts a new search
    MaxBarge,  \* bound on barge-ins
    MaxPauses, \* bound on takeovers by the staff
    None

ASSUME ConversationAssumption ==
    /\ Browse \in Texts
    /\ None \notin Texts
    /\ Finals \cap Guesses = {}
    /\ (Finals \cup Guesses) \cap Drafts = {}
    /\ None \notin Finals \cup Guesses \cup Drafts
    /\ {MaxBarge, MaxPauses} \subseteq Nat

Turns == Finals \cup Guesses
Asks == Drafts \cup Turns  \* what awaits a yes: a draft, or the turn of a protected call

\* An abort controller is known by the turn that made it and by where: in
\* runWithSession, or in getAbortSignal when the registered one was aborted.
Controllers == Turns \X {"run", "stream"}

VARIABLES
    stage,       \* of the draft store: see DraftLifecycle
    told,
    index,       \* the session's current draft, or None
    pending,     \* pendingConfirmations: the turn whose protected call awaits a yes, or None
    speculative, \* speculativeSessions: the text under speculation, or None
    controller,  \* controllers: the session's registered controller, or None
    aborted,     \* controllers that were aborted
    paused,      \* pausedSessions has the session
    pc,          \* [Turns -> Places]
    text,        \* [Guesses -> Texts or None]: what a speculation answers
    draft,       \* [Turns -> Drafts or None]: the draft the turn has read
    signal,      \* [Turns -> Controllers or None]: what the turn's stream listens to
    called,      \* turns whose model has called a tool
    ran,         \* [Asks -> Nat]: how often the action was executed
    barges,      \* barge-ins so far
    pauses       \* takeovers so far

Draft == INSTANCE DraftLifecycle

drafts == <<stage, told, index>>
model == <<speculative, controller, aborted>>
bounds == <<barges, pauses>>
vars == <<stage, told, index, pending, speculative, controller, aborted, paused,
          pc, text, draft, signal, called, ran, barges, pauses>>

Places == {"unheard", "heard", "read", "changing", "confirmed", "paying",
           "guessing", "context", "streaming", "approval", "ending", "done"}

Init ==
    /\ Draft!Init
    /\ index = None
    /\ pending = None
    /\ speculative = None
    /\ controller = None
    /\ aborted = {}
    /\ paused = FALSE
    /\ pc = [p \in Turns |-> "unheard"]
    /\ text = [p \in Guesses |-> None]
    /\ draft = [p \in Turns |-> None]
    /\ signal = [p \in Turns |-> None]
    /\ called = {}
    /\ ran = [a \in Asks |-> 0]
    /\ barges = 0
    /\ pauses = 0

-----------------------------------------------------------------------------
(* Helpers *)

Go(p, place) == pc' = [pc EXCEPT ![p] = place]

\* The turn goes on and knows of no draft any more.
Leave(p, place) ==
    /\ Go(p, place)
    /\ draft' = [draft EXCEPT ![p] = None]

Execute(a) == ran' = [ran EXCEPT ![a] = @ + 1]

Abort == aborted' = IF controller = None THEN aborted ELSE aborted \cup {controller}

\* draftStore.create, for the session.
OpenDraft(d) == Draft!Open(d) /\ index' = d

\* draftStore.cancel: it throws when the draft is gone.
CloseDraft(d) == Draft!Close(d) /\ index' = None

Closable(d) == stage[d] \in {"open", "confirmed"}

\* draftStore.confirm: it throws when the draft is gone or decided.
ConfirmDraft(d) == Draft!Confirm(d) /\ index' = None

\* runWithSession registers a controller; a paused session is not answered, and
\* the controller is taken away at once.
StartTurn(p) ==
    IF paused THEN /\ Leave(p, IF p \in Guesses THEN "ending" ELSE "done")
                   /\ controller' = None
              ELSE /\ Leave(p, "context")
                   /\ controller' = <<p, "run">>

-----------------------------------------------------------------------------
(* Final utterances.  What was said is chosen where it is looked at. *)

\* SPEECH_FINAL: the session, its context and its memory are awaited.
HearFinal(p) ==
    /\ p \in Finals
    /\ pc[p] = "unheard"
    /\ Go(p, "heard")
    /\ UNCHANGED <<drafts, pending, model, paused, text, draft, signal, called, ran, bounds>>

\* Mutant: the confirmation is not forgotten.
KeepPending == UNCHANGED pending

\* The pending confirmation is forgotten before anything is awaited.
TakePending == pending' = None

\* handleProtectedConfirm: a yes executes the pending call, a no drops it, anything
\* else asks again.
AnswerPending(p) ==
    /\ pc[p] = "heard"
    /\ pending # None
    /\ \/ TakePending /\ Execute(pending)
       \/ TakePending /\ UNCHANGED ran
       \/ UNCHANGED <<pending, ran>>
    /\ Go(p, "done")
    /\ UNCHANGED <<drafts, model, paused, text, draft, signal, called, bounds>>

\* Nothing awaits a confirmation: the session's draft is read.
ReadDraft(p) ==
    /\ pc[p] = "heard"
    /\ pending = None
    /\ Go(p, "read")
    /\ draft' = [draft EXCEPT ![p] = index]
    /\ UNCHANGED <<drafts, pending, model, paused, text, signal, called, ran, bounds>>

HasDraft(p) == pc[p] = "read" /\ draft[p] # None
HasNoDraft(p) == pc[p] = "read" /\ draft[p] = None

\* A yes to the draft: the turn fails if confirm() throws.
ConfirmTurn(p) ==
    /\ HasDraft(p)
    /\ \/ ConfirmDraft(draft[p]) /\ Go(p, "confirmed") /\ UNCHANGED draft
       \/ stage[draft[p]] # "open" /\ Leave(p, "done") /\ UNCHANGED drafts
    /\ UNCHANGED <<pending, model, paused, text, signal, called, ran, bounds>>

\* The action of the draft that the turn has confirmed.
RunDraft(p) ==
    /\ pc[p] = "confirmed"
    /\ Execute(draft[p])
    /\ Leave(p, "done")
    /\ UNCHANGED <<drafts, pending, model, paused, text, signal, called, bounds>>

\* A no, a correction, or a yes to a draft without valid items cancels the draft,
\* and fails if cancel() throws.
CancelTurn(p) ==
    /\ HasDraft(p)
    /\ IF Closable(draft[p]) THEN CloseDraft(draft[p]) ELSE UNCHANGED drafts
    /\ Leave(p, "done")
    /\ UNCHANGED <<pending, model, paused, text, signal, called, ran, bounds>>

\* A change: the model extracts it, then update() takes it or throws.
ChangeTurn(p) ==
    /\ HasDraft(p)
    /\ Go(p, "changing")
    /\ UNCHANGED <<drafts, pending, model, paused, text, draft, signal, called, ran, bounds>>

\* The change is in, or lost; a checkout or anything else said over a draft only
\* gets a prompt.
DraftRemains(p) ==
    /\ pc[p] = "changing" \/ HasDraft(p)
    /\ Leave(p, "done")
    /\ UNCHANGED <<drafts, pending, model, paused, text, signal, called, ran, bounds>>

\* A product of the screen becomes a draft.
PickTurn(p, d) ==
    /\ HasNoDraft(p)
    /\ OpenDraft(d)
    /\ Go(p, "done")
    /\ UNCHANGED <<pending, model, paused, text, draft, signal, called, ran, bounds>>

\* A checkout of an order: the payment is a protected call, which the turn itself
\* confirms next.
PayTurn(p) ==
    /\ HasNoDraft(p)
    /\ \E d \in Drafts : ran[d] > 0
    /\ pending' = p
    /\ Go(p, "paying")
    /\ UNCHANGED <<drafts, model, paused, text, draft, signal, called, ran, bounds>>

\* handleProtectedConfirm(session, 'si') executes whatever is pending by now.
PayConfirmed(p) ==
    /\ pc[p] = "paying"
    /\ IF pending = None THEN UNCHANGED <<pending, ran>> ELSE TakePending /\ Execute(pending)
    /\ Go(p, "done")
    /\ UNCHANGED <<drafts, model, paused, text, draft, signal, called, bounds>>

\* A farewell, or a checkout without an order or a method: only words.
WordsOnly(p) ==
    /\ HasNoDraft(p)
    /\ Go(p, "done")
    /\ UNCHANGED <<drafts, pending, model, paused, text, draft, signal, called, ran, bounds>>

\* What is left for the model: an utterance t while there is no draft, or a browse,
\* which cancels the draft first and fails if that throws.
LeftToModel(p, t) ==
    \/ HasNoDraft(p) /\ UNCHANGED drafts
    \/ HasDraft(p) /\ t = Browse /\ CloseDraft(draft[p])

\* The same text is being answered already.
SkipDuplicate(p, t) ==
    /\ LeftToModel(p, t)
    /\ speculative = t
    /\ Leave(p, "done")
    /\ UNCHANGED <<pending, model, paused, text, signal, called, ran, bounds>>

\* A speculation on another text is aborted; the utterance is answered.
AnswerTurn(p, t) ==
    /\ LeftToModel(p, t)
    /\ speculative # t
    /\ speculative' = None
    /\ IF speculative = None THEN UNCHANGED aborted ELSE Abort
    /\ StartTurn(p)
    /\ UNCHANGED <<pending, paused, text, signal, called, ran, bounds>>

-----------------------------------------------------------------------------
(* Probable utterances *)

\* startSpeculativeLLM: what runs for the session is aborted, the session is awaited.
HearProbable(p) ==
    /\ p \in Guesses
    /\ pc[p] = "unheard"
    /\ Go(p, "guessing")
    /\ Abort
    /\ speculative' = None
    /\ UNCHANGED <<drafts, pending, controller, paused, text, draft, signal, called, ran, bounds>>

Speculate(p, t) ==
    /\ pc[p] = "guessing"
    /\ speculative' = t
    /\ text' = [text EXCEPT ![p] = t]
    /\ StartTurn(p)
    /\ UNCHANGED <<drafts, pending, aborted, paused, signal, called, ran, bounds>>

-----------------------------------------------------------------------------
(* The turn of the language model: handleSpeechFinal *)

\* The messages are built: RESPONSE_START, and the provider asks for a signal.
Stream(p) ==
    /\ pc[p] = "context"
    /\ LET stale == controller = None \/ controller \in aborted
           mine == IF stale THEN <<p, "stream">> ELSE controller
       IN  /\ controller' = mine
           /\ signal' = [signal EXCEPT ![p] = mine]
    /\ Go(p, "streaming")
    /\ UNCHANGED <<drafts, pending, speculative, aborted, paused, text, draft, called, ran, bounds>>

\* The model calls a tool; the safety guard has classified it.
Calls(p) ==
    /\ pc[p] = "streaming"
    /\ p \notin called
    /\ signal[p] \notin aborted
    /\ called' = called \cup {p}

CallStaged(p, d) ==
    /\ Calls(p)
    /\ OpenDraft(d)
    /\ UNCHANGED <<pending, model, paused, pc, text, draft, signal, ran, bounds>>

\* A pending confirmation is overwritten.
CallProtected(p) ==
    /\ Calls(p)
    /\ pending' = p
    /\ UNCHANGED <<drafts, model, paused, pc, text, draft, signal, ran, bounds>>

\* The turn waits for an approver; the approved action is not executed.
CallRestricted(p) ==
    /\ Calls(p)
    /\ Go(p, "approval")
    /\ UNCHANGED <<drafts, pending, model, paused, text, draft, signal, ran, bounds>>

ApprovalEnds(p) ==
    /\ pc[p] = "approval"
    /\ Go(p, "streaming")
    /\ UNCHANGED <<drafts, pending, model, paused, text, draft, signal, called, ran, bounds>>

\* The stream ends, fails or is aborted: RESPONSE_END; runWithSession takes its
\* own controller away.  The results are spoken.
StreamEnds(p) ==
    /\ pc[p] = "streaming"
    /\ Go(p, IF p \in Guesses THEN "ending" ELSE "done")
    /\ signal' = [signal EXCEPT ![p] = None]
    /\ controller' = IF controller = <<p, "run">> THEN None ELSE controller
    /\ UNCHANGED <<drafts, pending, speculative, aborted, paused, text, draft, called, ran, bounds>>

\* A speculation forgets the entry, whoever made it.
SpeculationEnds(p) ==
    /\ pc[p] = "ending"
    /\ Go(p, "done")
    /\ text' = [text EXCEPT ![p] = None]
    /\ speculative' = None
    /\ UNCHANGED <<drafts, pending, controller, aborted, paused, draft, signal, called, ran, bounds>>

-----------------------------------------------------------------------------
(* Events from elsewhere *)

\* Mutant: the entry stays.
BargeInOnly ==
    /\ barges < MaxBarge
    /\ barges' = barges + 1
    /\ Abort
    /\ UNCHANGED <<drafts, pending, speculative, controller, paused, pc, text, draft,
                   signal, called, ran, pauses>>

BargeIn ==
    /\ barges < MaxBarge
    /\ barges' = barges + 1
    /\ Abort
    /\ speculative' = None
    /\ UNCHANGED <<drafts, pending, controller, paused, pc, text, draft, signal, called,
                   ran, pauses>>

\* The draft's timer.
DraftExpires(d) ==
    /\ stage[d] = "open"
    /\ CloseDraft(d)
    /\ UNCHANGED <<pending, model, paused, pc, text, draft, signal, called, ran, bounds>>

\* INTERACTION_PAUSE, and INTERACTION_RESUME or SESSION_RESUMED: see StaffOverride.
PauseOrResume ==
    /\ pauses < MaxPauses
    /\ paused' = ~paused
    /\ pauses' = IF paused THEN pauses + 1 ELSE pauses
    /\ UNCHANGED <<drafts, pending, model, pc, text, draft, signal, called, ran, barges>>

FinalTurn(p) ==
    \/ HearFinal(p) \/ AnswerPending(p) \/ ReadDraft(p)
    \/ ConfirmTurn(p) \/ RunDraft(p)
    \/ CancelTurn(p) \/ ChangeTurn(p) \/ DraftRemains(p)
    \/ \E d \in Drafts : PickTurn(p, d)
    \/ PayTurn(p) \/ PayConfirmed(p) \/ WordsOnly(p)
    \/ \E t \in Texts : SkipDuplicate(p, t) \/ AnswerTurn(p, t)

GuessTurn(p) ==
    \/ HearProbable(p)
    \/ \E t \in Texts : Speculate(p, t)

ModelTurn(p) ==
    \/ Stream(p)
    \/ \E d \in Drafts : CallStaged(p, d)
    \/ CallProtected(p) \/ CallRestricted(p) \/ ApprovalEnds(p)
    \/ StreamEnds(p) \/ SpeculationEnds(p)

Next ==
    \/ \E p \in Turns : FinalTurn(p) \/ GuessTurn(p) \/ ModelTurn(p)
    \/ BargeIn
    \/ \E d \in Drafts : DraftExpires(d)
    \/ PauseOrResume

Spec == Init /\ [][Next]_vars

-----------------------------------------------------------------------------
(* Properties *)

TypeOK ==
    /\ stage \in [Drafts -> Draft!Stages]
    /\ told \in [Drafts -> Seq(Draft!Events)]
    /\ index \in Drafts \cup {None}
    /\ pending \in Turns \cup {None}
    /\ speculative \in Texts \cup {None}
    /\ controller \in Controllers \cup {None}
    /\ aborted \subseteq Controllers
    /\ paused \in BOOLEAN
    /\ pc \in [Turns -> Places]
    /\ text \in [Guesses -> Texts \cup {None}]
    /\ draft \in [Turns -> Drafts \cup {None}]
    /\ signal \in [Turns -> Controllers \cup {None}]
    /\ called \subseteq Turns
    /\ ran \in [Asks -> Nat]
    /\ {barges, pauses} \subseteq Nat

\* An order or a payment happens at most once, and an order only after its draft
\* was confirmed, however many turns read the same draft or the same pending
\* confirmation and whoever cancels or expires it meanwhile.
ExecutedOnce ==
    /\ \A a \in Asks : ran[a] <= 1
    /\ \A d \in Drafts : ran[d] = 1 => \E i \in DOMAIN told[d] : told[d][i] = "DRAFT_CONFIRMED"

\* An utterance is skipped as a duplicate only while a speculation on its text is
\* under way that no barge-in and no other utterance has aborted.
Answering(p, t) ==
    /\ p \in Guesses
    /\ text[p] = t
    /\ \/ pc[p] \in {"context", "approval", "ending"}
       \/ pc[p] = "streaming" /\ signal[p] \notin aborted

SkippedIsAnswered == speculative # None => \E p \in Guesses : Answering(p, speculative)
=============================================================================
