-------------------------- MODULE ConversationProofs --------------------------
(***************************************************************************)
(* Theorems about the conversation: its types, that overlapping turns      *)
(* execute each confirmed draft and each confirmed call at most once, and  *)
(* that what is skipped as a duplicate is being answered.                  *)
(***************************************************************************)
EXTENDS Conversation, SequenceTheorems, TLAPS

\* The parts of TypeOK that the helpers of the module work on.
DraftsTyped ==
    /\ stage \in [Drafts -> Draft!Stages]
    /\ told \in [Drafts -> Seq(Draft!Events)]
    /\ index \in Drafts \cup {None}
PlacesTyped == pc \in [Turns -> Places]
ReadTyped == draft \in [Turns -> Drafts \cup {None}]
ModelTyped ==
    /\ controller \in Controllers \cup {None}
    /\ aborted \subseteq Controllers

LEMMA GoTyped ==
    ASSUME PlacesTyped, NEW p \in Turns, NEW place \in Places, Go(p, place)
    PROVE  PlacesTyped'
  BY DEF PlacesTyped, Go

LEMMA LeaveTyped ==
    ASSUME PlacesTyped, ReadTyped, NEW p \in Turns, NEW place \in Places, Leave(p, place)
    PROVE  PlacesTyped' /\ ReadTyped'
  BY GoTyped DEF ReadTyped, Leave

LEMMA ExecuteTyped ==
    ASSUME ran \in [Asks -> Nat], NEW a, Execute(a)
    PROVE  ran' \in [Asks -> Nat]
  <1>1. ran' = [b \in Asks |-> IF b = a THEN ran[b] + 1 ELSE ran[b]]
    BY DEF Execute
  <1> QED
    BY <1>1

LEMMA AbortTyped ==
    ASSUME ModelTyped, Abort
    PROVE  aborted' \subseteq Controllers
  BY DEF ModelTyped, Abort

\* A turn may register a controller of its own.
LEMMA ControllerTyped ==
    ASSUME NEW p \in Turns
    PROVE  <<p, "run">> \in Controllers /\ <<p, "stream">> \in Controllers
  BY DEF Controllers

LEMMA StartTyped ==
    ASSUME PlacesTyped, ReadTyped, ModelTyped, NEW p \in Turns, StartTurn(p)
    PROVE  PlacesTyped' /\ ReadTyped' /\ controller' \in Controllers \cup {None}
  <1>1. {"ending", "done", "context"} \subseteq Places
    BY DEF Places
  <1> QED
    BY <1>1, LeaveTyped, ControllerTyped DEF StartTurn

\* Whatever the store does to a draft, the types hold.
LEMMA MoveTyped ==
    ASSUME DraftsTyped, NEW d \in Drafts, NEW from, NEW to \in Draft!Stages,
           NEW event \in Draft!Events, Draft!Move(d, from, to, event)
    PROVE  /\ stage' \in [Drafts -> Draft!Stages]
           /\ told' \in [Drafts -> Seq(Draft!Events)]
  BY DEF DraftsTyped, Draft!Move

LEMMA OpenTyped ==
    ASSUME DraftsTyped, NEW d \in Drafts, OpenDraft(d)
    PROVE  DraftsTyped'
  <1>1. Draft!Move(d, {"unborn"}, "open", "DRAFT_CREATED") /\ index' = d
    BY DEF OpenDraft, Draft!Open
  <1>2. "open" \in Draft!Stages /\ "DRAFT_CREATED" \in Draft!Events
    BY DEF Draft!Stages, Draft!Events
  <1> QED
    BY <1>1, <1>2, MoveTyped DEF DraftsTyped

LEMMA CloseTyped ==
    ASSUME DraftsTyped, NEW d \in Drafts, CloseDraft(d)
    PROVE  DraftsTyped'
  <1>1. Draft!Move(d, {"open", "confirmed"}, "closed", "DRAFT_CANCELLED") /\ index' = None
    BY DEF CloseDraft, Draft!Close
  <1>2. "closed" \in Draft!Stages /\ "DRAFT_CANCELLED" \in Draft!Events
    BY DEF Draft!Stages, Draft!Events
  <1> QED
    BY <1>1, <1>2, MoveTyped DEF DraftsTyped

LEMMA ConfirmTyped ==
    ASSUME DraftsTyped, NEW d \in Drafts, ConfirmDraft(d)
    PROVE  DraftsTyped'
  <1>1. Draft!Move(d, {"open"}, "confirmed", "DRAFT_CONFIRMED") /\ index' = None
    BY DEF ConfirmDraft, Draft!Confirm
  <1>2. "confirmed" \in Draft!Stages /\ "DRAFT_CONFIRMED" \in Draft!Events
    BY DEF Draft!Stages, Draft!Events
  <1> QED
    BY <1>1, <1>2, MoveTyped DEF DraftsTyped

LEMMA LeftTyped ==
    ASSUME DraftsTyped, ReadTyped, NEW p \in Turns, NEW t \in Texts, LeftToModel(p, t)
    PROVE  DraftsTyped'
  <1>1. CASE UNCHANGED drafts
    BY <1>1 DEF DraftsTyped, drafts
  <1>2. CASE HasDraft(p) /\ CloseDraft(draft[p])
    BY <1>2, CloseTyped DEF HasDraft, ReadTyped
  <1> QED
    BY <1>1, <1>2 DEF LeftToModel

LEMMA TypeInit == Init => TypeOK
  <1> SUFFICES ASSUME Init PROVE TypeOK
    OBVIOUS
  <1>1. stage \in [Drafts -> Draft!Stages] /\ told \in [Drafts -> Seq(Draft!Events)]
    BY DEF Init, Draft!Init, Draft!Stages
  <1>2. pc \in [Turns -> Places] /\ ran \in [Asks -> Nat] /\ {barges, pauses} \subseteq Nat
    BY DEF Init, Places
  <1>3. paused \in BOOLEAN
    BY Zenon DEF Init
  <1> QED
    BY <1>1, <1>2, <1>3 DEF Init, TypeOK

LEMMA TypeStep == TypeOK /\ [Next]_vars => TypeOK'
  <1> SUFFICES ASSUME TypeOK, [Next]_vars
               PROVE  TypeOK'
    OBVIOUS
  <1> USE DEF TypeOK, DraftsTyped, PlacesTyped, ReadTyped, ModelTyped, Places, drafts, model, bounds
  <1>1. CASE UNCHANGED vars
    BY <1>1 DEF vars
  <1>2. ASSUME NEW p \in Turns, HearFinal(p)
        PROVE  TypeOK'
    BY <1>2, GoTyped DEF HearFinal
  <1>3. ASSUME NEW p \in Turns, AnswerPending(p)
        PROVE  TypeOK'
    BY <1>3, GoTyped, ExecuteTyped DEF AnswerPending, TakePending
  <1>4. ASSUME NEW p \in Turns, ReadDraft(p)
        PROVE  TypeOK'
    BY <1>4, GoTyped DEF ReadDraft
  <1>5. ASSUME NEW p \in Turns, ConfirmTurn(p)
        PROVE  TypeOK'
    BY <1>5, GoTyped, LeaveTyped, ConfirmTyped DEF ConfirmTurn, HasDraft
  <1>6. ASSUME NEW p \in Turns, RunDraft(p)
        PROVE  TypeOK'
    BY <1>6, LeaveTyped, ExecuteTyped DEF RunDraft
  <1>7. ASSUME NEW p \in Turns, CancelTurn(p)
        PROVE  TypeOK'
    BY <1>7, LeaveTyped, CloseTyped DEF CancelTurn, HasDraft
  <1>8. ASSUME NEW p \in Turns, ChangeTurn(p)
        PROVE  TypeOK'
    BY <1>8, GoTyped DEF ChangeTurn
  <1>9. ASSUME NEW p \in Turns, DraftRemains(p)
        PROVE  TypeOK'
    BY <1>9, LeaveTyped DEF DraftRemains
  <1>10. ASSUME NEW p \in Turns, NEW d \in Drafts, PickTurn(p, d)
        PROVE  TypeOK'
    BY <1>10, GoTyped, OpenTyped DEF PickTurn
  <1>11. ASSUME NEW p \in Turns, PayTurn(p)
        PROVE  TypeOK'
    BY <1>11, GoTyped DEF PayTurn
  <1>12. ASSUME NEW p \in Turns, PayConfirmed(p)
        PROVE  TypeOK'
    BY <1>12, GoTyped, ExecuteTyped DEF PayConfirmed, TakePending
  <1>13. ASSUME NEW p \in Turns, WordsOnly(p)
        PROVE  TypeOK'
    BY <1>13, GoTyped DEF WordsOnly
  <1>14. ASSUME NEW p \in Turns, NEW t \in Texts, SkipDuplicate(p, t)
        PROVE  TypeOK'
    BY <1>14, LeaveTyped, LeftTyped DEF SkipDuplicate
  <1>15. ASSUME NEW p \in Turns, NEW t \in Texts, AnswerTurn(p, t)
        PROVE  TypeOK'
    BY <1>15, StartTyped, LeftTyped, AbortTyped DEF AnswerTurn
  <1>16. ASSUME NEW p \in Turns, HearProbable(p)
        PROVE  TypeOK'
    BY <1>16, GoTyped, AbortTyped DEF HearProbable
  <1>17. ASSUME NEW p \in Turns, NEW t \in Texts, Speculate(p, t)
        PROVE  TypeOK'
    BY <1>17, StartTyped DEF Speculate
  <1>18. ASSUME NEW p \in Turns, Stream(p)
        PROVE  TypeOK'
    BY <1>18, GoTyped, ControllerTyped DEF Stream
  <1>19. ASSUME NEW p \in Turns, NEW d \in Drafts, CallStaged(p, d)
        PROVE  TypeOK'
    BY <1>19, OpenTyped DEF CallStaged, Calls
  <1>20. ASSUME NEW p \in Turns, CallProtected(p)
        PROVE  TypeOK'
    BY <1>20 DEF CallProtected, Calls
  <1>21. ASSUME NEW p \in Turns, CallRestricted(p)
        PROVE  TypeOK'
    BY <1>21, GoTyped DEF CallRestricted, Calls
  <1>22. ASSUME NEW p \in Turns, ApprovalEnds(p)
        PROVE  TypeOK'
    BY <1>22, GoTyped DEF ApprovalEnds
  <1>23. ASSUME NEW p \in Turns, StreamEnds(p)
        PROVE  TypeOK'
    BY <1>23, GoTyped DEF StreamEnds
  <1>24. ASSUME NEW p \in Turns, SpeculationEnds(p)
        PROVE  TypeOK'
    BY <1>24, GoTyped DEF SpeculationEnds
  <1>25. CASE BargeIn
    BY <1>25, AbortTyped DEF BargeIn
  <1>26. ASSUME NEW d \in Drafts, DraftExpires(d)
        PROVE  TypeOK'
    BY <1>26, CloseTyped DEF DraftExpires
  <1>27. CASE PauseOrResume
    BY <1>27 DEF PauseOrResume
  <1> QED
    BY <1>1, <1>2, <1>3, <1>4, <1>5, <1>6, <1>7, <1>8, <1>9, <1>10, <1>11, <1>12,
       <1>13, <1>14, <1>15, <1>16, <1>17, <1>18, <1>19, <1>20, <1>21, <1>22, <1>23,
       <1>24, <1>25, <1>26, <1>27
       DEF Next, FinalTurn, GuessTurn, ModelTurn

\* Every variable of the conversation keeps its type (interaction-agent.ts,
\* interaction-runtime-agent.ts, llm/base.ts).
THEOREM ConversationTypes == Spec => []TypeOK
  BY TypeInit, TypeStep, PTL DEF Spec

-----------------------------------------------------------------------------
(* Protected calls *)

Answered == {"streaming", "approval", "ending", "done"}

\* A turn asks for one confirmation, before it ends; what awaits a yes has not run.
AskInv ==
    /\ \A p \in called : pc[p] \in Answered
    /\ \A p \in Turns : ran[p] > 0 \/ pending = p => p \in called \/ pc[p] \in {"paying", "done"}
    /\ \A p \in Turns : ran[p] <= 1 /\ (pending = p => ran[p] = 0)

\* A turn that goes on without asking or answering.
LEMMA AskFrame ==
    ASSUME TypeOK, AskInv, NEW p \in Turns, NEW place, Go(p, place),
           called' = called, pending' = pending, \A q \in Turns : ran'[q] = ran[q],
           pc[p] \notin {"paying", "done"}, pc[p] \in Answered => place \in Answered
    PROVE  AskInv'
  BY DEF AskInv, TypeOK, Go, Answered

\* The pending call is executed, or forgotten, by a turn that had asked nothing or
\* asked for that.
LEMMA AskTaken ==
    ASSUME TypeOK, AskInv, NEW p \in Turns, Go(p, "done"), called' = called, pending' = None,
           \/ ran' = ran
           \/ pending # None /\ Execute(pending)
    PROVE  AskInv'
  <1> USE DEF AskInv, TypeOK, Go, Answered
  <1>1. None \notin Turns
    BY ConversationAssumption DEF Turns
  <1>2. \A q \in Turns : ran'[q] = ran[q] \/ (pending = q /\ ran'[q] = ran[q] + 1)
    BY DEF Execute, Asks
  <1> QED
    BY <1>1, <1>2

LEMMA NoneAsks == None \notin Turns /\ \A d \in Drafts : d \notin Turns
  BY ConversationAssumption DEF Turns

LEMMA AskInit == Init => AskInv
  BY NoneAsks DEF Init, AskInv, Asks

LEMMA AskStep == TypeOK /\ AskInv /\ [Next]_vars => AskInv'
  <1> SUFFICES ASSUME TypeOK, AskInv, [Next]_vars
               PROVE  AskInv'
    OBVIOUS
  <1> USE DEF drafts, model, bounds, Answered
  <1>1. CASE UNCHANGED vars
    BY <1>1 DEF vars, AskInv
  <1>2. ASSUME NEW p \in Turns, HearFinal(p)
        PROVE  AskInv'
    BY <1>2, AskFrame DEF HearFinal
  <1>3. ASSUME NEW p \in Turns, AnswerPending(p)
        PROVE  AskInv'
    BY <1>3, AskTaken, AskFrame DEF AnswerPending, TakePending
  <1>4. ASSUME NEW p \in Turns, ReadDraft(p)
        PROVE  AskInv'
    BY <1>4, AskFrame DEF ReadDraft
  <1>5. ASSUME NEW p \in Turns, ConfirmTurn(p)
        PROVE  AskInv'
    BY <1>5, AskFrame DEF ConfirmTurn, HasDraft, Leave
  <1>6. ASSUME NEW p \in Turns, RunDraft(p)
        PROVE  AskInv'
    <2>1. \A q \in Turns : q # draft[p]
      BY NoneAsks DEF TypeOK
    <2>2. \A q \in Turns : ran'[q] = ran[q]
      BY <1>6, <2>1 DEF RunDraft, Execute, TypeOK, Asks
    <2> QED
      BY <1>6, <2>2, AskFrame DEF RunDraft, Leave
  <1>7. ASSUME NEW p \in Turns, CancelTurn(p)
        PROVE  AskInv'
    BY <1>7, AskFrame DEF CancelTurn, HasDraft, Leave
  <1>8. ASSUME NEW p \in Turns, ChangeTurn(p)
        PROVE  AskInv'
    BY <1>8, AskFrame DEF ChangeTurn, HasDraft
  <1>9. ASSUME NEW p \in Turns, DraftRemains(p)
        PROVE  AskInv'
    BY <1>9, AskFrame DEF DraftRemains, HasDraft, Leave
  <1>10. ASSUME NEW p \in Turns, NEW d \in Drafts, PickTurn(p, d)
        PROVE  AskInv'
    BY <1>10, AskFrame DEF PickTurn, HasNoDraft
  <1>11. ASSUME NEW p \in Turns, PayTurn(p)
        PROVE  AskInv'
    <2>1. p \notin called /\ pc[p] = "read"
      BY <1>11 DEF PayTurn, HasNoDraft, AskInv
    <2>2. ~(ran[p] > 0)
      BY <2>1 DEF AskInv
    <2>3. ran[p] \in Nat
      BY DEF TypeOK, Asks
    <2>4. ran[p] = 0
      BY <2>2, <2>3
    <2> QED
      BY <1>11, <2>1, <2>4 DEF PayTurn, Go, AskInv, TypeOK
  <1>12. ASSUME NEW p \in Turns, PayConfirmed(p)
        PROVE  AskInv'
    BY <1>12, AskTaken DEF PayConfirmed, TakePending
  <1>13. ASSUME NEW p \in Turns, WordsOnly(p)
        PROVE  AskInv'
    BY <1>13, AskFrame DEF WordsOnly, HasNoDraft
  <1>14. ASSUME NEW p \in Turns, NEW t \in Texts, SkipDuplicate(p, t)
        PROVE  AskInv'
    BY <1>14, AskFrame DEF SkipDuplicate, LeftToModel, HasDraft, HasNoDraft, Leave
  <1>15. ASSUME NEW p \in Turns, NEW t \in Texts, AnswerTurn(p, t)
        PROVE  AskInv'
    BY <1>15, AskFrame DEF AnswerTurn, LeftToModel, HasDraft, HasNoDraft, StartTurn, Leave
  <1>16. ASSUME NEW p \in Turns, HearProbable(p)
        PROVE  AskInv'
    BY <1>16, AskFrame DEF HearProbable
  <1>17. ASSUME NEW p \in Turns, NEW t \in Texts, Speculate(p, t)
        PROVE  AskInv'
    BY <1>17, AskFrame DEF Speculate, StartTurn, Leave
  <1>18. ASSUME NEW p \in Turns, Stream(p)
        PROVE  AskInv'
    BY <1>18, AskFrame DEF Stream
  <1>19. ASSUME NEW p \in Turns, NEW d \in Drafts, CallStaged(p, d)
        PROVE  AskInv'
    BY <1>19 DEF CallStaged, Calls, AskInv, TypeOK
  <1>20. ASSUME NEW p \in Turns, CallProtected(p)
        PROVE  AskInv'
    <2>1. p \notin called /\ pc[p] = "streaming"
      BY <1>20 DEF CallProtected, Calls
    <2>2. ~(ran[p] > 0)
      BY <2>1 DEF AskInv
    <2>3. ran[p] \in Nat
      BY DEF TypeOK, Asks
    <2>4. ran[p] = 0
      BY <2>2, <2>3
    <2> QED
      BY <1>20, <2>1, <2>4 DEF CallProtected, Calls, AskInv
  <1>21. ASSUME NEW p \in Turns, CallRestricted(p)
        PROVE  AskInv'
    BY <1>21 DEF CallRestricted, Calls, Go, AskInv, TypeOK
  <1>22. ASSUME NEW p \in Turns, ApprovalEnds(p)
        PROVE  AskInv'
    BY <1>22, AskFrame DEF ApprovalEnds
  <1>23. ASSUME NEW p \in Turns, StreamEnds(p)
        PROVE  AskInv'
    BY <1>23, AskFrame DEF StreamEnds
  <1>24. ASSUME NEW p \in Turns, SpeculationEnds(p)
        PROVE  AskInv'
    BY <1>24, AskFrame DEF SpeculationEnds
  <1>25. CASE BargeIn
    BY <1>25 DEF BargeIn, AskInv
  <1>26. ASSUME NEW d \in Drafts, DraftExpires(d)
        PROVE  AskInv'
    BY <1>26 DEF DraftExpires, AskInv
  <1>27. CASE PauseOrResume
    BY <1>27 DEF PauseOrResume, AskInv
  <1> QED
    BY <1>1, <1>2, <1>3, <1>4, <1>5, <1>6, <1>7, <1>8, <1>9, <1>10, <1>11, <1>12,
       <1>13, <1>14, <1>15, <1>16, <1>17, <1>18, <1>19, <1>20, <1>21, <1>22, <1>23,
       <1>24, <1>25, <1>26, <1>27
       DEF Next, FinalTurn, GuessTurn, ModelTurn

-----------------------------------------------------------------------------
(* Drafts *)

\* The draft was confirmed, and can be neither confirmed nor opened again.
Decided(d) ==
    /\ stage[d] \in {"confirmed", "closed"}
    /\ \E i \in DOMAIN told[d] : told[d][i] = "DRAFT_CONFIRMED"

\* A draft runs once, for the one turn that has confirmed it.
OrderInv ==
    /\ \A d \in Drafts : ran[d] <= 1 /\ (ran[d] = 1 => Decided(d))
    /\ \A p \in Turns : pc[p] = "confirmed" =>
          draft[p] \in Drafts /\ Decided(draft[p]) /\ ran[draft[p]] = 0
    /\ \A p, q \in Turns :
          pc[p] = "confirmed" /\ pc[q] = "confirmed" /\ draft[p] = draft[q] => p = q

\* A longer story holds what the shorter one held, and its last event.
LEMMA Appended ==
    ASSUME NEW s \in Seq(Draft!Events), NEW e \in Draft!Events
    PROVE  /\ \A i \in DOMAIN s : i \in DOMAIN Append(s, e) /\ Append(s, e)[i] = s[i]
           /\ Len(s) + 1 \in DOMAIN Append(s, e)
           /\ Append(s, e)[Len(s) + 1] = e
  BY AppendProperties

\* What the store does to any draft leaves the decided ones decided.
LEMMA MoveDecided ==
    ASSUME TypeOK, NEW d \in Drafts, NEW from, NEW to, NEW event \in Draft!Events,
           Draft!Move(d, from, to, event),
           stage[d] \in {"confirmed", "closed"} => to \in {"confirmed", "closed"}
    PROVE  \A e \in Drafts : Decided(e) => Decided(e)'
  <1> USE DEF TypeOK, Draft!Move
  <1> SUFFICES ASSUME NEW e \in Drafts, Decided(e)
               PROVE  stage'[e] \in {"confirmed", "closed"} /\
                      \E i \in DOMAIN told'[e] : told'[e][i] = "DRAFT_CONFIRMED"
    BY DEF Decided
  <1>1. CASE e = d
    <2>1. PICK i \in DOMAIN told[d] : told[d][i] = "DRAFT_CONFIRMED"
      BY <1>1 DEF Decided
    <2>2. told'[d] = Append(told[d], event)
      OBVIOUS
    <2>3. i \in DOMAIN told'[d] /\ told'[d][i] = "DRAFT_CONFIRMED"
      BY <2>1, <2>2, Appended
    <2> QED
      BY <1>1, <2>3 DEF Decided
  <1>2. CASE e # d
    BY <1>2 DEF Decided
  <1> QED
    BY <1>1, <1>2

LEMMA EventsAre == {"DRAFT_CREATED", "DRAFT_CONFIRMED", "DRAFT_CANCELLED"} = Draft!Events
  BY DEF Draft!Events

LEMMA OpenDecided ==
    ASSUME TypeOK, NEW d \in Drafts, OpenDraft(d)
    PROVE  \A e \in Drafts : Decided(e) => Decided(e)'
  <1>1. Draft!Move(d, {"unborn"}, "open", "DRAFT_CREATED") /\ stage[d] = "unborn"
    BY DEF OpenDraft, Draft!Open, Draft!Move
  <1> QED
    BY <1>1, MoveDecided, EventsAre

LEMMA CloseDecided ==
    ASSUME TypeOK, NEW d \in Drafts, CloseDraft(d)
    PROVE  \A e \in Drafts : Decided(e) => Decided(e)'
  <1>1. Draft!Move(d, {"open", "confirmed"}, "closed", "DRAFT_CANCELLED")
    BY DEF CloseDraft, Draft!Close
  <1> QED
    BY <1>1, MoveDecided, EventsAre

\* A confirmed draft was undecided until then.
LEMMA ConfirmDecided ==
    ASSUME TypeOK, NEW d \in Drafts, ConfirmDraft(d)
    PROVE  /\ \A e \in Drafts : Decided(e) => Decided(e)'
           /\ ~Decided(d)
           /\ Decided(d)'
  <1>1. Draft!Move(d, {"open"}, "confirmed", "DRAFT_CONFIRMED") /\ stage[d] = "open"
    BY DEF ConfirmDraft, Draft!Confirm, Draft!Move
  <1>2. told'[d] = Append(told[d], "DRAFT_CONFIRMED") /\ stage'[d] = "confirmed"
    BY <1>1 DEF TypeOK, Draft!Move
  <1>3. told[d] \in Seq(Draft!Events)
    BY DEF TypeOK
  <1>4. Decided(d)'
    BY <1>2, <1>3, Appended, EventsAre DEF Decided
  <1>5. ~Decided(d)
    BY <1>1 DEF Decided
  <1> QED
    BY <1>1, <1>4, <1>5, MoveDecided, EventsAre

LEMMA StillDecided ==
    ASSUME UNCHANGED <<stage, told>>
    PROVE  \A e \in Drafts : Decided(e) => Decided(e)'
  BY DEF Decided

\* A step in which no turn confirms and no draft runs.
LEMMA OrderFrame ==
    ASSUME TypeOK, OrderInv, \A e \in Drafts : Decided(e) => Decided(e)',
           \A d \in Drafts : ran'[d] = ran[d],
           \A p \in Turns : pc'[p] = "confirmed" => pc[p] = "confirmed" /\ draft'[p] = draft[p]
    PROVE  OrderInv'
  BY DEF OrderInv

LEMMA ExecuteTurn ==
    ASSUME TypeOK, pending # None, Execute(pending)
    PROVE  \A d \in Drafts : ran'[d] = ran[d]
  BY NoneAsks DEF TypeOK, Execute, Asks

LEMMA LeftDecided ==
    ASSUME TypeOK, NEW p \in Turns, NEW t \in Texts, LeftToModel(p, t)
    PROVE  \A e \in Drafts : Decided(e) => Decided(e)'
  <1>1. CASE UNCHANGED drafts
    BY <1>1, StillDecided DEF drafts
  <1>2. CASE HasDraft(p) /\ CloseDraft(draft[p])
    BY <1>2, CloseDecided DEF HasDraft, TypeOK
  <1> QED
    BY <1>1, <1>2 DEF LeftToModel

LEMMA OrderInit == Init => OrderInv
  BY DEF Init, OrderInv, Asks

LEMMA OrderStep == TypeOK /\ OrderInv /\ [Next]_vars => OrderInv'
  <1> SUFFICES ASSUME TypeOK, OrderInv, [Next]_vars
               PROVE  OrderInv'
    OBVIOUS
  <1> USE DEF drafts, model, bounds, Go, Leave
  <1>1. CASE UNCHANGED vars
    BY <1>1, StillDecided, OrderFrame DEF vars
  <1>2. ASSUME NEW p \in Turns, HearFinal(p)
        PROVE  OrderInv'
    BY <1>2, StillDecided, OrderFrame DEF HearFinal, TypeOK
  <1>3. ASSUME NEW p \in Turns, AnswerPending(p)
        PROVE  OrderInv'
    BY <1>3, StillDecided, ExecuteTurn, OrderFrame DEF AnswerPending, TypeOK
  <1>4. ASSUME NEW p \in Turns, ReadDraft(p)
        PROVE  OrderInv'
    BY <1>4, StillDecided, OrderFrame DEF ReadDraft, TypeOK
  <1>5. ASSUME NEW p \in Turns, ConfirmTurn(p)
        PROVE  OrderInv'
    <2>1. CASE ConfirmDraft(draft[p]) /\ Go(p, "confirmed") /\ UNCHANGED draft
      <3>1. draft[p] \in Drafts /\ ran' = ran
        BY <1>5 DEF ConfirmTurn, HasDraft, TypeOK
      <3>2. \A q \in Turns : pc[q] = "confirmed" => draft[q] # draft[p]
        BY <2>1, <3>1, ConfirmDecided DEF OrderInv
      <3>3. ran[draft[p]] = 0
        BY <2>1, <3>1, ConfirmDecided DEF OrderInv, TypeOK, Asks
      <3> QED
        BY <2>1, <3>1, <3>2, <3>3, ConfirmDecided DEF OrderInv, TypeOK
    <2>2. CASE stage[draft[p]] # "open" /\ Leave(p, "done") /\ UNCHANGED drafts
      BY <1>5, <2>2, StillDecided, OrderFrame DEF ConfirmTurn, TypeOK
    <2> QED
      BY <1>5, <2>1, <2>2 DEF ConfirmTurn
  <1>6. ASSUME NEW p \in Turns, RunDraft(p)
        PROVE  OrderInv'
    <2>1. draft[p] \in Drafts /\ Decided(draft[p]) /\ ran[draft[p]] = 0
      BY <1>6 DEF RunDraft, OrderInv
    <2>2. \A e \in Drafts : Decided(e) => Decided(e)'
      BY <1>6, StillDecided DEF RunDraft
    <2>3. \A d \in Drafts : ran'[d] = IF d = draft[p] THEN 1 ELSE ran[d]
      BY <1>6, <2>1 DEF RunDraft, Execute, TypeOK, Asks
    <2>4. \A q \in Turns : pc'[q] = "confirmed" => q # p /\ pc[q] = "confirmed" /\ draft'[q] = draft[q]
      BY <1>6 DEF RunDraft, TypeOK
    <2> QED
      BY <1>6, <2>1, <2>2, <2>3, <2>4 DEF OrderInv, RunDraft
  <1>7. ASSUME NEW p \in Turns, CancelTurn(p)
        PROVE  OrderInv'
    BY <1>7, CloseDecided, StillDecided, OrderFrame DEF CancelTurn, HasDraft, TypeOK
  <1>8. ASSUME NEW p \in Turns, ChangeTurn(p)
        PROVE  OrderInv'
    BY <1>8, StillDecided, OrderFrame DEF ChangeTurn, HasDraft, TypeOK
  <1>9. ASSUME NEW p \in Turns, DraftRemains(p)
        PROVE  OrderInv'
    BY <1>9, StillDecided, OrderFrame DEF DraftRemains, TypeOK
  <1>10. ASSUME NEW p \in Turns, NEW d \in Drafts, PickTurn(p, d)
        PROVE  OrderInv'
    BY <1>10, OpenDecided, OrderFrame DEF PickTurn, HasNoDraft, TypeOK
  <1>11. ASSUME NEW p \in Turns, PayTurn(p)
        PROVE  OrderInv'
    BY <1>11, StillDecided, OrderFrame DEF PayTurn, HasNoDraft, TypeOK
  <1>12. ASSUME NEW p \in Turns, PayConfirmed(p)
        PROVE  OrderInv'
    BY <1>12, StillDecided, ExecuteTurn, OrderFrame DEF PayConfirmed, TypeOK
  <1>13. ASSUME NEW p \in Turns, WordsOnly(p)
        PROVE  OrderInv'
    BY <1>13, StillDecided, OrderFrame DEF WordsOnly, HasNoDraft, TypeOK
  <1>14. ASSUME NEW p \in Turns, NEW t \in Texts, SkipDuplicate(p, t)
        PROVE  OrderInv'
    BY <1>14, LeftDecided, OrderFrame DEF SkipDuplicate, TypeOK
  <1>15. ASSUME NEW p \in Turns, NEW t \in Texts, AnswerTurn(p, t)
        PROVE  OrderInv'
    BY <1>15, LeftDecided, OrderFrame DEF AnswerTurn, StartTurn, TypeOK
  <1>16. ASSUME NEW p \in Turns, HearProbable(p)
        PROVE  OrderInv'
    BY <1>16, StillDecided, OrderFrame DEF HearProbable, TypeOK
  <1>17. ASSUME NEW p \in Turns, NEW t \in Texts, Speculate(p, t)
        PROVE  OrderInv'
    BY <1>17, StillDecided, OrderFrame DEF Speculate, StartTurn, TypeOK
  <1>18. ASSUME NEW p \in Turns, Stream(p)
        PROVE  OrderInv'
    BY <1>18, StillDecided, OrderFrame DEF Stream, TypeOK
  <1>19. ASSUME NEW p \in Turns, NEW d \in Drafts, CallStaged(p, d)
        PROVE  OrderInv'
    BY <1>19, OpenDecided, OrderFrame DEF CallStaged, Calls, TypeOK
  <1>20. ASSUME NEW p \in Turns, CallProtected(p)
        PROVE  OrderInv'
    BY <1>20, StillDecided, OrderFrame DEF CallProtected, Calls, TypeOK
  <1>21. ASSUME NEW p \in Turns, CallRestricted(p)
        PROVE  OrderInv'
    BY <1>21, StillDecided, OrderFrame DEF CallRestricted, Calls, TypeOK
  <1>22. ASSUME NEW p \in Turns, ApprovalEnds(p)
        PROVE  OrderInv'
    BY <1>22, StillDecided, OrderFrame DEF ApprovalEnds, TypeOK
  <1>23. ASSUME NEW p \in Turns, StreamEnds(p)
        PROVE  OrderInv'
    BY <1>23, StillDecided, OrderFrame DEF StreamEnds, TypeOK
  <1>24. ASSUME NEW p \in Turns, SpeculationEnds(p)
        PROVE  OrderInv'
    BY <1>24, StillDecided, OrderFrame DEF SpeculationEnds, TypeOK
  <1>25. CASE BargeIn
    BY <1>25, StillDecided, OrderFrame DEF BargeIn, TypeOK
  <1>26. ASSUME NEW d \in Drafts, DraftExpires(d)
        PROVE  OrderInv'
    BY <1>26, CloseDecided, OrderFrame DEF DraftExpires, TypeOK
  <1>27. CASE PauseOrResume
    BY <1>27, StillDecided, OrderFrame DEF PauseOrResume, TypeOK
  <1> QED
    BY <1>1, <1>2, <1>3, <1>4, <1>5, <1>6, <1>7, <1>8, <1>9, <1>10, <1>11, <1>12,
       <1>13, <1>14, <1>15, <1>16, <1>17, <1>18, <1>19, <1>20, <1>21, <1>22, <1>23,
       <1>24, <1>25, <1>26, <1>27
       DEF Next, FinalTurn, GuessTurn, ModelTurn

\* An order or a payment is executed at most once, and an order only after its draft
\* was confirmed, for any number of overlapping turns, barge-ins and expiries
\* (handleDraftFlow, handleProtectedConfirm).
THEOREM ExecutedAtMostOnce == Spec => []ExecutedOnce
  <1>1. TypeOK /\ AskInv /\ OrderInv => ExecutedOnce
    BY DEF AskInv, OrderInv, ExecutedOnce, Decided, Asks
  <1> QED
    BY <1>1, TypeInit, AskInit, OrderInit, TypeStep, AskStep, OrderStep, PTL DEF Spec

-----------------------------------------------------------------------------
(* Speculation *)

\* Where a turn's stream has not begun, and where a speculation may be.
Before == {"unheard", "heard", "read", "guessing", "context"}
Busy == {"context", "streaming", "approval", "ending"}

\* A turn whose stream has not begun has no controller for it yet: the one it will
\* make is not aborted.
FreshInv ==
    \A p \in Turns : pc[p] \in Before =>
        /\ controller = None \/ controller # <<p, "stream">>
        /\ <<p, "stream">> \notin aborted

\* Stronger than Answering: a turn that waits for an approver is not aborted either.
StillAnswering(p, t) ==
    /\ text[p] = t
    /\ \/ pc[p] \in {"context", "ending"}
       \/ pc[p] \in {"streaming", "approval"} /\ signal[p] \notin aborted

SpeculationInv == speculative # None => \E p \in Guesses : StillAnswering(p, speculative)

\* Controllers are registered by runWithSession, kept or taken away; only the
\* registered one is aborted.
LEMMA FreshFrame ==
    ASSUME FreshInv,
           \A p \in Turns : pc'[p] \in Before => pc[p] \in Before,
           \/ controller' \in {controller, None}
           \/ \E q \in Turns : controller' = <<q, "run">>,
           aborted' \subseteq aborted \cup ({controller} \ {None})
    PROVE  FreshInv'
  <1> SUFFICES ASSUME NEW p \in Turns, pc'[p] \in Before
               PROVE  /\ controller' = None \/ controller' # <<p, "stream">>
                      /\ <<p, "stream">> \notin aborted'
    BY DEF FreshInv
  <1>1. /\ controller = None \/ controller # <<p, "stream">>
        /\ <<p, "stream">> \notin aborted
    BY DEF FreshInv
  <1>2. \A q \in Turns : <<q, "run">> # <<p, "stream">>
    OBVIOUS
  <1> QED
    BY <1>1, <1>2

\* The speculation goes on as it was, or is forgotten.
LEMMA SpeculationFrame ==
    ASSUME SpeculationInv,
           \/ speculative' = None
           \/ /\ UNCHANGED <<speculative, aborted, text, signal>>
              /\ \A p \in Guesses : pc[p] \in Busy => pc'[p] = pc[p]
    PROVE  SpeculationInv'
  BY DEF SpeculationInv, StillAnswering, Busy

\* One turn that was answering moves from one place to the next.
LEMMA SpeculationMoves ==
    ASSUME TypeOK, SpeculationInv, NEW p \in Turns, NEW place \in Places, Go(p, place),
           UNCHANGED <<speculative, text, aborted>>,
           \A q \in Turns : q # p => signal'[q] = signal[q],
           \A t : p \in Guesses /\ StillAnswering(p, t) =>
               \/ place = "ending"
               \/ place \in {"streaming", "approval"} /\ signal'[p] \notin aborted
    PROVE  SpeculationInv'
  <1>1. \A q \in Turns : pc'[q] = IF q = p THEN place ELSE pc[q]
    BY DEF Go, TypeOK
  <1>2. ASSUME NEW q \in Guesses, NEW t, StillAnswering(q, t)
        PROVE  StillAnswering(q, t)'
    <2>1. CASE q = p
      BY <1>1, <1>2, <2>1 DEF StillAnswering, Turns
    <2>2. CASE q # p
      BY <1>1, <1>2, <2>2 DEF StillAnswering, Turns
    <2> QED
      BY <2>1, <2>2
  <1> QED
    BY <1>2 DEF SpeculationInv

\* Only a probable utterance is on its way to a speculation.
OnlyGuesses == \A p \in Turns : pc[p] = "guessing" => p \in Guesses

LEMMA OnlyGuessesStep == OnlyGuesses /\ TypeOK /\ [Next]_vars => OnlyGuesses'
  <1> SUFFICES ASSUME OnlyGuesses, TypeOK, [Next]_vars PROVE OnlyGuesses'
    OBVIOUS
  <1>0. ASSUME NEW p \in Turns, NEW place, Go(p, place),
               place = "guessing" => p \in Guesses
        PROVE  OnlyGuesses'
    <2>1. \A q \in Turns : pc'[q] = IF q = p THEN place ELSE pc[q]
      BY <1>0 DEF Go, TypeOK
    <2> QED
      BY <1>0, <2>1 DEF OnlyGuesses
  <1>1. CASE UNCHANGED pc
    BY <1>1 DEF OnlyGuesses
  <1>2. ASSUME NEW p \in Turns, FinalTurn(p)
        PROVE  \E place : Go(p, place) /\ place # "guessing"
    <2>1. ASSUME NEW t \in Texts, AnswerTurn(p, t)
          PROVE  \E place : Go(p, place) /\ place # "guessing"
      BY <2>1 DEF AnswerTurn, StartTurn, Leave
    <2>2. CASE \/ HearFinal(p) \/ AnswerPending(p) \/ ReadDraft(p) \/ ConfirmTurn(p)
               \/ RunDraft(p) \/ CancelTurn(p) \/ ChangeTurn(p) \/ DraftRemains(p)
               \/ (\E d \in Drafts : PickTurn(p, d)) \/ PayTurn(p) \/ PayConfirmed(p)
               \/ WordsOnly(p) \/ (\E t \in Texts : SkipDuplicate(p, t))
      BY <2>2
      DEF HearFinal, AnswerPending, ReadDraft, ConfirmTurn, RunDraft, CancelTurn, ChangeTurn,
          DraftRemains, PickTurn, PayTurn, PayConfirmed, WordsOnly, SkipDuplicate, Leave
    <2> QED
      BY <1>2, <2>1, <2>2 DEF FinalTurn
  <1>3. ASSUME NEW p \in Turns, GuessTurn(p)
        PROVE  \E place : Go(p, place) /\ (place = "guessing" => p \in Guesses)
    BY <1>3 DEF GuessTurn, HearProbable, Speculate, StartTurn, Leave
  <1>4. ASSUME NEW p \in Turns, ModelTurn(p)
        PROVE  \/ UNCHANGED pc
               \/ \E place : Go(p, place) /\ place # "guessing"
    BY <1>4
    DEF ModelTurn, Stream, CallStaged, CallProtected, CallRestricted, ApprovalEnds,
        StreamEnds, SpeculationEnds
  <1>5. CASE BargeIn \/ (\E d \in Drafts : DraftExpires(d)) \/ PauseOrResume \/ UNCHANGED vars
    BY <1>5, <1>1 DEF BargeIn, DraftExpires, PauseOrResume, vars
  <1> QED
    BY <1>0, <1>1, <1>2, <1>3, <1>4, <1>5 DEF Next

LEMMA SpeculationInit == Init => FreshInv /\ SpeculationInv /\ OnlyGuesses
  BY DEF Init, FreshInv, OnlyGuesses, SpeculationInv

LEMMA SpeculationStep ==
    TypeOK /\ FreshInv /\ SpeculationInv /\ OnlyGuesses /\ [Next]_vars
        => FreshInv' /\ SpeculationInv'
  <1> SUFFICES ASSUME TypeOK, FreshInv, SpeculationInv, OnlyGuesses, [Next]_vars
               PROVE  FreshInv' /\ SpeculationInv'
    OBVIOUS
  <1>0. pc \in [Turns -> Places] /\ Guesses \subseteq Turns
    BY DEF TypeOK, Turns
  <1>1. CASE UNCHANGED <<pc, text, signal, controller, aborted, speculative>>
    BY <1>1, FreshFrame, SpeculationFrame
  \* The turn leaves a place that no speculation is in; the model is not touched.
  <1>2. ASSUME NEW p \in Turns, NEW place \in {"heard", "read", "changing", "confirmed", "paying", "done"},
               pc[p] \notin Busy, Go(p, place), place \in Before => pc[p] \in Before,
               UNCHANGED <<text, signal, controller, aborted, speculative>>
        PROVE  FreshInv' /\ SpeculationInv'
    <2>1. \A q \in Turns : pc'[q] = IF q = p THEN place ELSE pc[q]
      BY <1>0, <1>2 DEF Go
    <2>2. FreshInv'
      BY <1>2, <2>1, FreshFrame
    <2>3. SpeculationInv'
      BY <1>0, <1>2, <2>1, SpeculationFrame
    <2> QED
      BY <2>2, <2>3
  <1>3. ASSUME NEW p \in Turns,
               \/ HearFinal(p) \/ AnswerPending(p) \/ ReadDraft(p) \/ ConfirmTurn(p)
               \/ RunDraft(p) \/ CancelTurn(p) \/ ChangeTurn(p) \/ DraftRemains(p)
               \/ (\E d \in Drafts : PickTurn(p, d)) \/ PayTurn(p) \/ PayConfirmed(p)
               \/ WordsOnly(p) \/ (\E t \in Texts : SkipDuplicate(p, t))
        PROVE  FreshInv' /\ SpeculationInv'
    <2>1. /\ pc[p] \notin Busy
          /\ UNCHANGED <<text, signal, controller, aborted, speculative>>
      BY <1>3
      DEF HearFinal, AnswerPending, ReadDraft, ConfirmTurn, RunDraft, CancelTurn, ChangeTurn,
          DraftRemains, PickTurn, PayTurn, PayConfirmed, WordsOnly, SkipDuplicate, LeftToModel,
          HasDraft, HasNoDraft, Busy, model
    <2>2. \E place \in {"heard", "read", "changing", "confirmed", "paying", "done"} :
             Go(p, place) /\ (place \in Before => pc[p] \in Before)
      BY <1>3
      DEF HearFinal, AnswerPending, ReadDraft, ConfirmTurn, RunDraft, CancelTurn, ChangeTurn,
          DraftRemains, PickTurn, PayTurn, PayConfirmed, WordsOnly, SkipDuplicate, Leave, Before
    <2> QED
      BY <1>2, <2>1, <2>2
  <1>4. ASSUME NEW p \in Turns, NEW t \in Texts, AnswerTurn(p, t)
        PROVE  FreshInv' /\ SpeculationInv'
    <2>1. /\ speculative' = None
          /\ aborted' \subseteq aborted \cup ({controller} \ {None})
          /\ pc[p] \in Before
      BY <1>4 DEF AnswerTurn, Abort, LeftToModel, HasDraft, HasNoDraft, Before
    <2>2. /\ controller' = None \/ controller' = <<p, "run">>
          /\ \A q \in Turns : pc'[q] \in Before => pc[q] \in Before
      BY <1>0, <1>4, <2>1 DEF AnswerTurn, StartTurn, Leave, Go
    <2> QED
      BY <2>1, <2>2, FreshFrame, SpeculationFrame
  <1>5. ASSUME NEW p \in Turns, HearProbable(p)
        PROVE  FreshInv' /\ SpeculationInv'
    <2>1. /\ speculative' = None /\ controller' = controller
          /\ aborted' \subseteq aborted \cup ({controller} \ {None})
          /\ pc[p] \in Before
      BY <1>5 DEF HearProbable, Abort, Before
    <2>2. \A q \in Turns : pc'[q] \in Before => pc[q] \in Before
      BY <1>0, <1>5, <2>1 DEF HearProbable, Go
    <2> QED
      BY <2>1, <2>2, FreshFrame, SpeculationFrame
  <1>6. ASSUME NEW p \in Guesses, NEW t \in Texts, Speculate(p, t)
        PROVE  FreshInv' /\ SpeculationInv'
    <2>1. /\ aborted' = aborted /\ speculative' = t
          /\ pc[p] \in Before
          /\ text'[p] = t
      BY <1>6 DEF Speculate, Before, TypeOK
    <2>2. /\ controller' = None \/ controller' = <<p, "run">>
          /\ \A q \in Turns : pc'[q] \in Before => pc[q] \in Before
          /\ pc'[p] \in {"context", "ending"}
      BY <1>0, <1>6, <2>1 DEF Speculate, StartTurn, Leave, Go
    <2>3. FreshInv'
      BY <1>0, <2>1, <2>2, FreshFrame
    <2>4. SpeculationInv'
      BY <2>1, <2>2 DEF SpeculationInv, StillAnswering
    <2> QED
      BY <2>3, <2>4
  <1>7. ASSUME NEW p \in Turns, Stream(p)
        PROVE  FreshInv' /\ SpeculationInv'
    <2>1. /\ pc[p] = "context"
          /\ Go(p, "streaming")
          /\ UNCHANGED <<speculative, text, aborted>>
          /\ \/ controller' = <<p, "stream">>
             \/ controller' = controller /\ controller \notin aborted
          /\ signal' = [signal EXCEPT ![p] = controller']
      BY <1>7 DEF Stream
    <2>2. <<p, "stream">> \notin aborted
      BY <2>1 DEF FreshInv, Before
    <2>3. \A q \in Turns : pc'[q] \in Before => q # p /\ pc[q] \in Before
      BY <1>0, <2>1 DEF Go, Before
    <2>4. \A q \in Turns : q # p => <<q, "stream">> # <<p, "stream">>
      OBVIOUS
    <2>5. FreshInv'
      BY <2>1, <2>3, <2>4 DEF FreshInv
    <2>6. /\ signal'[p] \notin aborted
          /\ \A q \in Turns : q # p => signal'[q] = signal[q]
      BY <2>1, <2>2 DEF TypeOK
    <2>7. SpeculationInv'
      BY <2>1, <2>6, SpeculationMoves DEF Places
    <2> QED
      BY <2>5, <2>7
  <1>8. ASSUME NEW p \in Turns, CallRestricted(p) \/ ApprovalEnds(p)
        PROVE  FreshInv' /\ SpeculationInv'
    <2>1. /\ UNCHANGED <<speculative, text, aborted, controller, signal>>
          /\ \E place \in {"approval", "streaming"} : Go(p, place)
          /\ pc[p] \in {"streaming", "approval"}
      BY <1>8 DEF CallRestricted, ApprovalEnds, Calls, model
    <2>2. PICK place \in {"approval", "streaming"} : Go(p, place)
      BY <2>1
    <2>3. \A q \in Turns : pc'[q] \in Before => pc[q] \in Before
      BY <1>0, <2>2 DEF Go, Before
    <2>4. FreshInv'
      BY <2>1, <2>3, FreshFrame
    <2>5. SpeculationInv'
      BY <2>1, <2>2, SpeculationMoves DEF StillAnswering, Places
    <2> QED
      BY <2>4, <2>5
  <1>9. ASSUME NEW p \in Turns, StreamEnds(p)
        PROVE  FreshInv' /\ SpeculationInv'
    <2>1. /\ UNCHANGED <<speculative, text, aborted>>
          /\ controller' \in {controller, None}
          /\ \A q \in Turns : q # p => signal'[q] = signal[q]
          /\ Go(p, IF p \in Guesses THEN "ending" ELSE "done")
      BY <1>9 DEF StreamEnds, TypeOK
    <2>2. \A q \in Turns : pc'[q] \in Before => pc[q] \in Before
      BY <1>0, <2>1 DEF Go, Before
    <2>3. FreshInv'
      BY <2>1, <2>2, FreshFrame
    <2>4. SpeculationInv'
      BY <2>1, SpeculationMoves DEF Places
    <2> QED
      BY <2>3, <2>4
  <1>10. ASSUME NEW p \in Turns, SpeculationEnds(p)
         PROVE  FreshInv' /\ SpeculationInv'
    <2>1. speculative' = None /\ UNCHANGED <<controller, aborted>>
      BY <1>10 DEF SpeculationEnds
    <2>2. \A q \in Turns : pc'[q] \in Before => pc[q] \in Before
      BY <1>0, <1>10 DEF SpeculationEnds, Go, Before
    <2> QED
      BY <2>1, <2>2, FreshFrame, SpeculationFrame
  <1>11. CASE BargeIn
    <2>1. /\ speculative' = None /\ UNCHANGED <<controller, pc>>
          /\ aborted' \subseteq aborted \cup ({controller} \ {None})
      BY <1>11 DEF BargeIn, Abort
    <2> QED
      BY <2>1, FreshFrame, SpeculationFrame
  <1>12. ASSUME \/ \E p \in Turns : CallProtected(p) \/ \E d \in Drafts : CallStaged(p, d)
                \/ \E d \in Drafts : DraftExpires(d)
                \/ PauseOrResume
                \/ UNCHANGED vars
         PROVE  UNCHANGED <<pc, text, signal, controller, aborted, speculative>>
    BY <1>12 DEF CallProtected, CallStaged, DraftExpires, PauseOrResume, model, vars
  <1>13. ASSUME NEW p \in Turns, NEW t \in Texts, Speculate(p, t)
         PROVE  p \in Guesses
    BY <1>13 DEF Speculate, OnlyGuesses
  <1> QED
    BY <1>1, <1>3, <1>4, <1>5, <1>6, <1>7, <1>8, <1>9, <1>10, <1>11, <1>12, <1>13
       DEF Next, FinalTurn, GuessTurn, ModelTurn

\* An utterance is skipped as a duplicate only while a speculation on its text is
\* under way that nobody has aborted (abortSpeculativeSession, runWithSession), for
\* any number of overlapping turns and barge-ins.
THEOREM SkippedAreAnswered == Spec => []SkippedIsAnswered
  <1>1. SpeculationInv => SkippedIsAnswered
    BY DEF SpeculationInv, StillAnswering, SkippedIsAnswered, Answering
  <1> QED
    BY <1>1, TypeInit, TypeStep, SpeculationInit, SpeculationStep,
       OnlyGuessesStep, PTL DEF Spec
=============================================================================
