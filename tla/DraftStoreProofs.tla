--------------------------- MODULE DraftStoreProofs ---------------------------
(***************************************************************************)
(* Theorems about the draft store: the index of sessions points to drafts  *)
(* that can still be decided, an open draft is not lost to its session by  *)
(* itself, and the store implements DraftLifecycle.                        *)
(***************************************************************************)
EXTENDS DraftStore, TLAPS

\* The drafts, the index and the bus are left alone.
Quiet == UNCHANGED <<drafts, status, session, index, told>>

LEMMA Steps ==
    ASSUME [Next]_vars
    PROVE  \/ \E c \in Calls, d \in Drafts : \/ \E s \in Sessions : Create(c, s, d)
                                             \/ Confirm(c, d)
                                             \/ Cancel(c, d)
           \/ \E d \in Drafts : Expire(d) /\ Open(d)
           \/ Restart
           \/ Quiet
  <1>1. CASE UNCHANGED vars
    BY <1>1 DEF vars, Quiet
  <1>2. ASSUME NEW c \in Calls, NEW d \in Drafts, Update(c, d)
        PROVE  Quiet
    BY <1>2 DEF Update, Quiet
  <1>3. ASSUME NEW c \in Calls, Ends(c) \/ PublishFails(c)
        PROVE  Quiet
    BY <1>3 DEF Ends, CreateEnd, UpdateEnd, ConfirmEnd, CancelEnd, PublishFails, memory, Quiet
  <1>4. ASSUME NEW d \in Drafts, Rollback(d) \/ Heard(d) \/ Miss(d)
        PROVE  Quiet
    BY <1>4 DEF Rollback, Heard, Miss, memory, Quiet
  <1>5. ASSUME NEW d \in Drafts, Expire(d), ~Open(d)
        PROVE  Quiet
    BY <1>5 DEF Expire, Quiet
  <1> QED
    BY <1>1, <1>2, <1>3, <1>4, <1>5 DEF Next

-----------------------------------------------------------------------------
(* Types *)

\* Appending an event keeps the story a sequence of events.
LEMMA TellTyped ==
    ASSUME told \in [Drafts -> Seq(Events)], NEW d \in Drafts, NEW e \in Events, Tell(d, e)
    PROVE  told' \in [Drafts -> Seq(Events)]
  BY DEF Tell

LEMMA SetRowTyped ==
    ASSUME row \in [Drafts -> Rows], NEW d \in Drafts, NEW s \in Rows, SetRow(d, s)
    PROVE  row' \in [Drafts -> Rows]
  BY DEF SetRow

LEMMA UpsertTyped ==
    ASSUME row \in [Drafts -> Rows], NEW d, Upsert(d)
    PROVE  row' \in [Drafts -> Rows]
  BY DEF Upsert, Rows

LEMMA BeginTyped ==
    ASSUME doing \in [Calls -> Doings], NEW c \in Calls, NEW op \in Ops, NEW d \in Drafts,
           Begin(c, op, d)
    PROVE  doing' \in [Calls -> Doings]
  BY DEF Begin, Doings

LEMMA IdleTyped == Idle \in Doings
  BY DEF Idle, Doings, Ops

LEMMA EndTyped ==
    ASSUME doing \in [Calls -> Doings], NEW c \in Calls, NEW op, End(c, op)
    PROVE  doing' \in [Calls -> Doings]
  BY IdleTyped DEF End

LEMMA UnindexTyped ==
    ASSUME index \in [Sessions -> Drafts \cup {None}], NEW d, Unindex(d)
    PROVE  index' \in [Sessions -> Drafts \cup {None}]
  BY DEF Unindex

LEMMA PublishTyped ==
    ASSUME TypeOK, NEW d \in Drafts, PublishCancelled(d)
    PROVE  /\ told' \in [Drafts -> Seq(Events)]
           /\ wire' \subseteq Drafts
           /\ row' \in [Drafts -> Rows]
  <1>1. told' \in [Drafts -> Seq(Events)]
    BY TellTyped DEF PublishCancelled, TypeOK, Events
  <1>2. CASE Remote
    BY <1>1, <1>2 DEF PublishCancelled, TypeOK
  <1>3. CASE ~Remote
    <2>1. row' \in [Drafts -> Rows]
      BY <1>3, SetRowTyped DEF PublishCancelled, TypeOK, Rows
    <2> QED
      BY <1>1, <1>3, <2>1 DEF PublishCancelled, TypeOK
  <1> QED
    BY <1>2, <1>3

LEMMA TypeInit == Init => TypeOK
  BY DraftAssumption, IdleTyped DEF Init, TypeOK, Statuses, Rows

LEMMA TypeStep == TypeOK /\ [Next]_vars => TypeOK'
  <1> SUFFICES ASSUME TypeOK, [Next]_vars
               PROVE  TypeOK'
    OBVIOUS
  <1> USE DEF TypeOK
  <1>1. CASE UNCHANGED vars
    BY <1>1 DEF vars
  <1>2. ASSUME NEW c \in Calls, NEW d \in Drafts, NEW s \in Sessions, Create(c, s, d)
        PROVE  TypeOK'
    <2>1. doing' \in [Calls -> Doings] /\ told' \in [Drafts -> Seq(Events)]
      BY <1>2, BeginTyped, TellTyped DEF Create, Ops, Events
    <2>2. status' \in [Drafts -> Statuses]
      BY <1>2 DEF Create, Statuses
    <2> QED
      BY <1>2, <2>1, <2>2 DEF Create, bounds
  <1>3. ASSUME NEW c \in Calls, NEW d \in Drafts, Update(c, d)
        PROVE  TypeOK'
    <2>1. doing' \in [Calls -> Doings]
      BY <1>3, BeginTyped DEF Update, Ops
    <2> QED
      BY <1>3, <2>1 DEF Update
  <1>4. ASSUME NEW c \in Calls, NEW d \in Drafts, Confirm(c, d)
        PROVE  TypeOK'
    <2>1. /\ doing' \in [Calls -> Doings]
          /\ told' \in [Drafts -> Seq(Events)]
          /\ index' \in [Sessions -> Drafts \cup {None}]
      BY <1>4, BeginTyped, TellTyped, UnindexTyped DEF Confirm, Ops, Events
    <2>2. status' \in [Drafts -> Statuses]
      BY <1>4 DEF Confirm, Statuses
    <2> QED
      BY <1>4, <2>1, <2>2 DEF Confirm
  <1>5. ASSUME NEW c \in Calls, NEW d \in Drafts, Cancel(c, d)
        PROVE  TypeOK'
    <2>1. /\ doing' \in [Calls -> Doings]
          /\ index' \in [Sessions -> Drafts \cup {None}]
      BY <1>5, BeginTyped, UnindexTyped DEF Cancel, Ops
    <2>2. status' \in [Drafts -> Statuses]
      BY <1>5 DEF Cancel, Statuses
    <2> QED
      BY <1>5, <2>1, <2>2, PublishTyped DEF Cancel, bounds
  <1>6. ASSUME NEW c \in Calls, Ends(c)
        PROVE  TypeOK'
    <2>1. doing' \in [Calls -> Doings]
      BY <1>6, EndTyped DEF Ends, CreateEnd, UpdateEnd, ConfirmEnd, CancelEnd
    <2>2. CASE CreateEnd(c) \/ UpdateEnd(c)
      <3>1. row' \in [Drafts -> Rows]
        BY <2>2, UpsertTyped DEF CreateEnd, UpdateEnd
      <3> QED
        BY <2>1, <2>2, <3>1 DEF CreateEnd, UpdateEnd, memory, bounds
    <2>3. CASE ConfirmEnd(c) \/ CancelEnd(c)
      <3>1. row' \in [Drafts -> Rows]
        BY <2>3 DEF ConfirmEnd, CancelEnd, SetRow, Rows
      <3> QED
        BY <2>1, <2>3, <3>1 DEF ConfirmEnd, CancelEnd, memory, bounds
    <2> QED
      BY <1>6, <2>2, <2>3 DEF Ends
  <1>7. ASSUME NEW c \in Calls, PublishFails(c)
        PROVE  TypeOK'
    BY <1>7, IdleTyped DEF PublishFails, memory
  <1>8. ASSUME NEW d \in Drafts, Rollback(d)
        PROVE  TypeOK'
    BY <1>8 DEF Rollback, bounds
  <1>9. ASSUME NEW d \in Drafts, Expire(d)
        PROVE  TypeOK'
    <2>1. CASE Open(d)
      <3>1. index' \in [Sessions -> Drafts \cup {None}]
        BY <1>9, <2>1, UnindexTyped DEF Expire
      <3>2. status' \in [Drafts -> Statuses]
        BY <1>9, <2>1 DEF Expire, Statuses
      <3> QED
        BY <1>9, <2>1, <3>1, <3>2, PublishTyped DEF Expire, bounds
    <2>2. CASE ~Open(d)
      BY <1>9, <2>2 DEF Expire, bounds
    <2> QED
      BY <2>1, <2>2
  <1>10. ASSUME NEW d \in Drafts, Heard(d)
         PROVE  TypeOK'
    <2>1. row' \in [Drafts -> Rows]
      BY <1>10, SetRowTyped DEF Heard, Rows
    <2> QED
      BY <1>10, <2>1 DEF Heard, memory, bounds
  <1>11. ASSUME NEW d \in Drafts, Miss(d)
         PROVE  TypeOK'
    BY <1>11 DEF Miss, memory
  <1>12. CASE Restart
    BY <1>12, IdleTyped DEF Restart
  <1> QED
    BY <1>1, <1>2, <1>3, <1>4, <1>5, <1>6, <1>7, <1>8, <1>9, <1>10, <1>11, <1>12 DEF Next

\* Every variable of the store keeps its type (draft-store.ts,
\* persistent-draft-store.ts).
THEOREM DraftTypes == Spec => []TypeOK
  BY TypeInit, TypeStep, PTL DEF Spec

-----------------------------------------------------------------------------
(* The index *)

\* A draft in memory has been created for a session and not been cancelled.
StoreInv ==
    /\ TypeOK
    /\ \A d \in drafts : status[d] \in {"draft", "confirmed"} /\ session[d] \in Sessions

IndexInv == StoreInv /\ IndexOpen

\* The entry of the session, and no other, is removed.
LEMMA UnindexOne ==
    ASSUME TypeOK, NEW d \in Drafts, session[d] \in Sessions, Unindex(d)
    PROVE  \A s \in Sessions : index'[s] = IF s = session[d] THEN None ELSE index[s]
  BY DEF Unindex, TypeOK

LEMMA StoreStep == StoreInv /\ [Next]_vars => StoreInv'
  <1> SUFFICES ASSUME StoreInv, [Next]_vars
               PROVE  \A d \in drafts' :
                          status'[d] \in {"draft", "confirmed"} /\ session'[d] \in Sessions
    BY TypeStep DEF StoreInv
  <1> USE DEF StoreInv, TypeOK
  <1>1. ASSUME NEW c \in Calls, NEW d \in Drafts, NEW s \in Sessions, Create(c, s, d)
        PROVE  \A e \in drafts' :
                   status'[e] \in {"draft", "confirmed"} /\ session'[e] \in Sessions
    BY <1>1 DEF Create
  <1>2. ASSUME NEW c \in Calls, NEW d \in Drafts, Confirm(c, d)
        PROVE  \A e \in drafts' :
                   status'[e] \in {"draft", "confirmed"} /\ session'[e] \in Sessions
    BY <1>2 DEF Confirm
  <1>3. ASSUME NEW c \in Calls, NEW d \in Drafts, Cancel(c, d)
        PROVE  \A e \in drafts' :
                   status'[e] \in {"draft", "confirmed"} /\ session'[e] \in Sessions
    BY <1>3 DEF Cancel
  <1>4. ASSUME NEW d \in Drafts, Expire(d), Open(d)
        PROVE  \A e \in drafts' :
                   status'[e] \in {"draft", "confirmed"} /\ session'[e] \in Sessions
    BY <1>4 DEF Expire
  <1>5. CASE Restart
    BY <1>5 DEF Restart
  <1>6. CASE Quiet
    BY <1>6 DEF Quiet
  <1> QED
    BY <1>1, <1>2, <1>3, <1>4, <1>5, <1>6, Steps

LEMMA StoreInit == Init => StoreInv
  BY TypeInit DEF Init, StoreInv

\* A draft that is decided leaves the index, if it is there, with the entry of its
\* session.
LEMMA DecideKeepsIndexOpen ==
    ASSUME IndexInv, NEW d \in Drafts, Open(d), Unindex(d), session' = session,
           \A e \in Drafts \ {d} : (e \in drafts' <=> e \in drafts) /\ status'[e] = status[e]
    PROVE  IndexOpen'
  <1> USE DEF IndexInv, StoreInv, TypeOK
  <1> SUFFICES ASSUME NEW s \in Sessions, index'[s] # None
               PROVE  Open(index[s])' /\ session'[index'[s]] = s
    BY DEF IndexOpen, Open
  <1>1. session[d] \in Sessions
    BY DEF Open
  <1>2. index'[s] = index[s] /\ s # session[d]
    BY <1>1, UnindexOne
  <1>3. Open(index[s]) /\ session[index[s]] = s /\ index[s] \in Drafts
    BY <1>2, DraftAssumption DEF IndexOpen
  <1>4. index[s] # d
    BY <1>2, <1>3
  <1> QED
    BY <1>2, <1>3, <1>4 DEF Open

LEMMA IndexStep == IndexInv /\ [Next]_vars => IndexInv'
  <1> SUFFICES ASSUME IndexInv, [Next]_vars
               PROVE  IndexOpen'
    BY StoreStep DEF IndexInv
  <1> USE DEF IndexInv, StoreInv, TypeOK
  <1>1. ASSUME NEW c \in Calls, NEW d \in Drafts, NEW s \in Sessions, Create(c, s, d)
        PROVE  IndexOpen'
    BY <1>1, DraftAssumption DEF Create, IndexOpen, Open
  <1>2. ASSUME NEW c \in Calls, NEW d \in Drafts, Confirm(c, d)
        PROVE  IndexOpen'
    BY <1>2, DecideKeepsIndexOpen DEF Confirm
  <1>3. ASSUME NEW d \in Drafts, Expire(d), Open(d)
        PROVE  IndexOpen'
    BY <1>3, DecideKeepsIndexOpen DEF Expire
  <1>4. ASSUME NEW c \in Calls, NEW d \in Drafts, Cancel(c, d)
        PROVE  IndexOpen'
    <2>1. CASE Open(d)
      BY <1>4, <2>1, DecideKeepsIndexOpen DEF Cancel
    <2>2. CASE ~Open(d)
      <3> SUFFICES ASSUME NEW s \in Sessions, index'[s] # None
                   PROVE  Open(index[s])' /\ session'[index'[s]] = s
        BY DEF IndexOpen, Open
      <3>1. index'[s] = index[s]
        BY <1>4, UnindexOne DEF Cancel
      <3>2. Open(index[s]) /\ session[index[s]] = s /\ index[s] \in Drafts
        BY <3>1, DraftAssumption DEF IndexOpen
      <3>3. index[s] # d
        BY <2>2, <3>2
      <3> QED
        BY <1>4, <3>1, <3>2, <3>3 DEF Cancel, Open
    <2> QED
      BY <2>1, <2>2
  <1>5. CASE Restart
    BY <1>5 DEF Restart, IndexOpen
  <1>6. CASE Quiet
    BY <1>6 DEF Quiet, IndexOpen, Open
  <1> QED
    BY <1>1, <1>2, <1>3, <1>4, <1>5, <1>6, Steps

LEMMA IndexInit == Init => IndexInv
  BY StoreInit DEF Init, IndexInv, IndexOpen

\* getBySession answers with a draft of that session that can still be decided, in
\* whatever order drafts were created, confirmed, cancelled and expired.
THEOREM IndexIsOpen == Spec => []IndexOpen
  <1>1. IndexInv => IndexOpen
    BY DEF IndexInv
  <1> QED
    BY <1>1, IndexInit, IndexStep, PTL DEF Spec

\* One step loses an open draft to its session only by another draft of it.
LEMMA KeptStep ==
    ASSUME StoreInv, [Next]_vars, NEW s \in Sessions, NEW d \in Drafts,
           index[s] = d, index'[s] # d, Open(d), Open(d)'
    PROVE  \E e \in Drafts \ {d} : session'[e] = s /\ status'[e] # status[e]
  <1> USE DEF StoreInv, TypeOK
  <1>1. ASSUME NEW c \in Calls, NEW e \in Drafts, NEW t \in Sessions, Create(c, t, e)
        PROVE  e # d /\ session'[e] = s /\ status'[e] # status[e]
    BY <1>1 DEF Create, Open
  <1>2. ASSUME NEW e \in Drafts, e \in drafts, Unindex(e)
        PROVE  session[e] = s
    BY <1>2, UnindexOne
  <1>3. ASSUME NEW c \in Calls, NEW e \in Drafts, Confirm(c, e)
        PROVE  e # d /\ session'[e] = s /\ status'[e] # status[e]
    <2>1. session[e] = s
      BY <1>2, <1>3 DEF Confirm, Open
    <2> QED
      BY <1>3, <2>1 DEF Confirm, Open
  <1>4. ASSUME NEW c \in Calls, NEW e \in Drafts, Cancel(c, e)
        PROVE  e # d /\ session'[e] = s /\ status'[e] # status[e]
    <2>1. session[e] = s
      BY <1>2, <1>4 DEF Cancel
    <2> QED
      BY <1>4, <2>1 DEF Cancel, Open
  <1>5. ASSUME NEW e \in Drafts, Expire(e), Open(e)
        PROVE  e # d /\ session'[e] = s /\ status'[e] # status[e]
    <2>1. session[e] = s
      BY <1>2, <1>5 DEF Expire, Open
    <2> QED
      BY <1>5, <2>1 DEF Expire, Open
  <1>6. CASE Restart
    BY <1>6 DEF Restart, Open
  <1>7. CASE Quiet
    BY <1>7 DEF Quiet
  <1> QED
    BY <1>1, <1>3, <1>4, <1>5, <1>6, <1>7, Steps

\* A session loses its open draft from the index only to another draft of the same
\* session that was opened or closed in that step (draft-store.ts, sessionIndex).
THEOREM IndexIsKept == Spec => IndexKept
  <1> DEFINE Kept == \A s \in Sessions, d \in Drafts :
                         index[s] = d /\ index'[s] # d /\ Open(d) /\ Open(d)' =>
                             \E e \in Drafts \ {d} : session'[e] = s /\ status'[e] # status[e]
  <1>1. StoreInv /\ [Next]_vars => [Kept]_vars
    BY KeptStep
  <1> HIDE DEF Kept
  <1>2. Spec => [][Kept]_vars
    BY <1>1, StoreInit, StoreStep, PTL DEF Spec
  <1> QED
    BY <1>2 DEF IndexKept, Kept

-----------------------------------------------------------------------------
(* Refinement *)

\* The initial state is one of DraftLifecycle.
LEMMA LifecycleInit == Init => Lifecycle!Init
  BY DEF Init, Lifecycle!Init, StageOf

\* The stage of a draft depends on its own status and presence alone.
LEMMA StageFrame ==
    ASSUME NEW e \in Drafts, status'[e] = status[e], e \in drafts' <=> e \in drafts
    PROVE  StageOf(e)' = StageOf(e)
  BY DEF StageOf

LEMMA LifecycleStep == StoreInv /\ [Next]_vars => [Lifecycle!Next]_(Lifecycle!vars)
  <1> SUFFICES ASSUME StoreInv, [Next]_vars
               PROVE  Lifecycle!Next \/ UNCHANGED Lifecycle!vars
    OBVIOUS
  <1> USE DEF StoreInv, TypeOK
  <1>1. ASSUME NEW c \in Calls, NEW d \in Drafts, NEW s \in Sessions, Create(c, s, d)
        PROVE  Lifecycle!Open(d)
    <2>1. \A e \in Drafts \ {d} : StageOf(e)' = StageOf(e)
      BY <1>1, StageFrame DEF Create
    <2>2. StageOf(d) = "unborn" /\ StageOf(d)' = "open"
      BY <1>1 DEF Create, StageOf
    <2> QED
      <3>1. told' = [told EXCEPT ![d] = Append(@, "DRAFT_CREATED")]
        BY <1>1 DEF Create, Tell
      <3>2. [e \in Drafts |-> StageOf(e)]' = [[e \in Drafts |-> StageOf(e)] EXCEPT ![d] = "open"]
        BY <2>1, <2>2
      <3>3. Lifecycle!Move(d, {"unborn"}, "open", "DRAFT_CREATED")
        BY <2>2, <3>1, <3>2 DEF Lifecycle!Move
      <3> QED
        BY <3>3 DEF Lifecycle!Open
  <1>2. ASSUME NEW c \in Calls, NEW d \in Drafts, Confirm(c, d)
        PROVE  Lifecycle!Confirm(d)
    <2>1. \A e \in Drafts \ {d} : StageOf(e)' = StageOf(e)
      BY <1>2, StageFrame DEF Confirm
    <2>2. StageOf(d) = "open" /\ StageOf(d)' = "confirmed"
      BY <1>2 DEF Confirm, StageOf, Open
    <2> QED
      <3>1. told' = [told EXCEPT ![d] = Append(@, "DRAFT_CONFIRMED")]
        BY <1>2 DEF Confirm, Tell
      <3>2. [e \in Drafts |-> StageOf(e)]' = [[e \in Drafts |-> StageOf(e)] EXCEPT ![d] = "confirmed"]
        BY <2>1, <2>2
      <3>3. Lifecycle!Move(d, {"open"}, "confirmed", "DRAFT_CONFIRMED")
        BY <2>2, <3>1, <3>2 DEF Lifecycle!Move
      <3> QED
        BY <3>3 DEF Lifecycle!Confirm
  <1>3. ASSUME NEW d \in Drafts, d \in drafts, PublishCancelled(d),
               status' = [status EXCEPT ![d] = "cancelled"], drafts' = drafts \ {d}
        PROVE  Lifecycle!Close(d)
    <2>1. \A e \in Drafts \ {d} : StageOf(e)' = StageOf(e)
      BY <1>3, StageFrame
    <2>2. StageOf(d) \in {"open", "confirmed"} /\ StageOf(d)' = "closed"
      BY <1>3 DEF StageOf
    <2> QED
      <3>1. told' = [told EXCEPT ![d] = Append(@, "DRAFT_CANCELLED")]
        BY <1>3 DEF PublishCancelled, Tell
      <3>2. [e \in Drafts |-> StageOf(e)]' = [[e \in Drafts |-> StageOf(e)] EXCEPT ![d] = "closed"]
        BY <2>1, <2>2
      <3>3. Lifecycle!Move(d, {"open", "confirmed"}, "closed", "DRAFT_CANCELLED")
        BY <2>2, <3>1, <3>2 DEF Lifecycle!Move
      <3> QED
        BY <3>3 DEF Lifecycle!Close
  <1>4. ASSUME NEW c \in Calls, NEW d \in Drafts, Cancel(c, d)
        PROVE  Lifecycle!Close(d)
    BY <1>3, <1>4 DEF Cancel
  <1>5. ASSUME NEW d \in Drafts, Expire(d), Open(d)
        PROVE  Lifecycle!Close(d)
    BY <1>3, <1>5 DEF Expire, Open
  <1>6. CASE Restart
    <2>1. \A d \in Drafts :
              StageOf(d)' = IF StageOf(d) \in {"open", "confirmed"} THEN "lost" ELSE StageOf(d)
      BY <1>6 DEF Restart, StageOf, Statuses
    <2> QED
      BY <1>6, <2>1 DEF Restart, Lifecycle!Next, Lifecycle!Forget
  <1>7. CASE Quiet
    <2>1. \A d \in Drafts : StageOf(d)' = StageOf(d)
      BY <1>7, StageFrame DEF Quiet
    <2> QED
      BY <1>7, <2>1 DEF Quiet, Lifecycle!vars
  <1> QED
    BY <1>1, <1>2, <1>4, <1>5, <1>6, <1>7, Steps DEF Lifecycle!Next

\* The store implements DraftLifecycle: a draft is opened once, confirmed at most
\* once and only while open, closed at most once, and the bus tells that story.
THEOREM StoreImplementsLifecycle == Spec => ImplementsLifecycle
  <1>1. Spec => Lifecycle!Init /\ [][Lifecycle!Next]_(Lifecycle!vars)
    BY StoreInit, StoreStep, LifecycleInit, LifecycleStep, PTL DEF Spec
  <1> QED
    BY <1>1 DEF ImplementsLifecycle, Lifecycle!Spec

-----------------------------------------------------------------------------
(* The table *)

\* A call of op is in flight about d.
Busy(d, op) == \E c \in Calls : doing[c] = [op |-> op, draft |-> d]

\* Each stage of a draft, as long as nothing has failed: what its row can be, and
\* who is still going to write it.
UnbornRow(d) ==
    status[d] = "none" =>
        /\ row[d] = "none" /\ d \notin wire /\ told[d] = <<>>
        /\ \A op \in Ops : ~Busy(d, op)

OpenRow(d) ==
    status[d] = "draft" =>
        /\ d \notin wire /\ Len(told[d]) = 1
        /\ ~Busy(d, "confirm") /\ ~Busy(d, "cancel")
        /\ row[d] = "pending" \/ (row[d] = "none" /\ Busy(d, "create"))

\* create() may still write the row, but then the draft is one of the early ones;
\* an update that is not written yet keeps confirm() from writing before it.
ConfirmedRow(d) ==
    status[d] = "confirmed" =>
        /\ d \notin wire /\ Len(told[d]) = 2
        /\ ~Busy(d, "cancel")
        /\ Busy(d, "update") => Busy(d, "confirm")
        /\ row[d] = "none" => Busy(d, "create")
        /\ Busy(d, "create") => d \in early
        /\ \/ Busy(d, "confirm")
           \/ row[d] = "confirmed"
           \/ d \in early /\ (Busy(d, "create") \/ row[d] = "pending")

\* confirm() may write the row last, of a draft that was told to be confirmed.
ClosedRow(d) ==
    status[d] = "cancelled" =>
        /\ Busy(d, "update") => Busy(d, "cancel")
        /\ Busy(d, "confirm") => Len(told[d]) = 3
        /\ \/ Busy(d, "cancel") \/ d \in wire
           \/ row[d] \in {"cancelled", "none"}
           \/ row[d] = "confirmed" /\ Len(told[d]) = 3

RowOf(d) ==
    /\ d \in drafts <=> status[d] \in {"draft", "confirmed"}
    /\ UnbornRow(d) /\ OpenRow(d) /\ ConfirmedRow(d) /\ ClosedRow(d)

RowsInv == TypeOK /\ (faults = 0 => \A d \in Drafts : RowOf(d))

\* A draft that a step does not touch.
LEMMA RowFrame ==
    ASSUME NEW d \in Drafts, RowOf(d),
           status'[d] = status[d], row'[d] = row[d], told'[d] = told[d],
           d \in drafts' <=> d \in drafts, d \in wire' <=> d \in wire,
           d \in early' <=> d \in early,
           \A op \in Ops : Busy(d, op)' <=> Busy(d, op)
    PROVE  RowOf(d)'
  <1>1. /\ Busy(d, "create")' <=> Busy(d, "create")
        /\ Busy(d, "update")' <=> Busy(d, "update")
        /\ Busy(d, "confirm")' <=> Busy(d, "confirm")
        /\ Busy(d, "cancel")' <=> Busy(d, "cancel")
    BY DEF Ops
  <1>2. UnbornRow(d)'
    BY DEF RowOf, UnbornRow
  <1>3. OpenRow(d)' /\ ConfirmedRow(d)' /\ ClosedRow(d)'
    BY <1>1 DEF RowOf, OpenRow, ConfirmedRow, ClosedRow
  <1> QED
    BY <1>2, <1>3 DEF RowOf

\* A call that begins is one call more about its draft.
LEMMA BeginBusy ==
    ASSUME TypeOK, NEW c \in Calls, NEW op, NEW d, Begin(c, op, d), op # "idle"
    PROVE  \A e \in Drafts, o \in Ops : Busy(e, o)' <=> Busy(e, o) \/ (e = d /\ o = op)
  <1> SUFFICES ASSUME NEW e \in Drafts, NEW o \in Ops
               PROVE  Busy(e, o)' <=> Busy(e, o) \/ (e = d /\ o = op)
    OBVIOUS
  <1>1. doing[c] = Idle /\ doing' = [doing EXCEPT ![c] = [op |-> op, draft |-> d]]
    BY DEF Begin
  <1>2. [op |-> o, draft |-> e] # Idle
    BY DraftAssumption DEF Idle
  <1>3. Busy(e, o) => Busy(e, o)'
    BY <1>1, <1>2 DEF Busy, TypeOK
  <1>4. e = d /\ o = op => Busy(e, o)'
    BY <1>1 DEF Busy, TypeOK
  <1>5. Busy(e, o)' => Busy(e, o) \/ (e = d /\ o = op)
    BY <1>1 DEF Busy, TypeOK
  <1> QED
    BY <1>3, <1>4, <1>5

\* A call that ends is one call less, and was the last but the updates of its draft.
LEMMA EndBusy ==
    ASSUME TypeOK, NEW c \in Calls, NEW op \in Ops \ {"idle"}, End(c, op)
    PROVE  /\ \A e \in Drafts, o \in Ops :
                 (e # doing[c].draft \/ o # op) => (Busy(e, o)' <=> Busy(e, o))
           /\ \A e \in Drafts, o \in Ops : Busy(e, o)' => Busy(e, o)
           /\ Busy(doing[c].draft, op)
           /\ op # "update" => ~Busy(doing[c].draft, "update")
  <1>1. doing[c].op = op /\ doing' = [doing EXCEPT ![c] = Idle] /\ doing[c] \in Doings
    BY DEF End, TypeOK
  <1>2. doing[c] = [op |-> op, draft |-> doing[c].draft]
    BY <1>1 DEF Doings
  <1>3. \A e \in Drafts, o \in Ops : [op |-> o, draft |-> e] # Idle
    BY DraftAssumption DEF Idle
  <1>4. \A e \in Drafts, o \in Ops : Busy(e, o)' => Busy(e, o)
    BY <1>1, <1>3 DEF Busy, TypeOK
  <1>5. ASSUME NEW e \in Drafts, NEW o \in Ops, e # doing[c].draft \/ o # op, Busy(e, o)
        PROVE  Busy(e, o)'
    <2>1. PICK b \in Calls : doing[b] = [op |-> o, draft |-> e]
      BY <1>5 DEF Busy
    <2>2. b # c
      BY <1>2, <1>5, <2>1
    <2> QED
      BY <1>1, <2>1, <2>2 DEF Busy, TypeOK
  <1>6. op # "update" => ~Busy(doing[c].draft, "update")
    BY DEF End, Written, Busy
  <1> QED
    BY <1>2, <1>4, <1>5, <1>6 DEF Busy

\* An event about d lengthens its story and no other.
LEMMA TellLength ==
    ASSUME TypeOK, NEW d \in Drafts, NEW event \in Events, Tell(d, event)
    PROVE  /\ Len(told'[d]) = Len(told[d]) + 1
           /\ \A e \in Drafts \ {d} : told'[e] = told[e]
  BY DEF Tell, TypeOK

LEMMA CreateRows ==
    ASSUME RowsInv, faults = 0, NEW c \in Calls, NEW s \in Sessions, NEW d \in Drafts,
           Create(c, s, d), NEW e \in Drafts
    PROVE  RowOf(e)'
  <1>1. \A f \in Drafts, o \in Ops : Busy(f, o)' <=> Busy(f, o) \/ (f = d /\ o = "create")
    BY BeginBusy DEF Create, RowsInv
  <1>2. Len(told'[d]) = Len(told[d]) + 1 /\ \A f \in Drafts \ {d} : told'[f] = told[f]
    BY TellLength DEF Create, RowsInv, Events
  <1>3. RowOf(e) /\ TypeOK
    BY DEF RowsInv
  <1>4. CASE e = d
    <2>1. /\ status[d] = "none" /\ status'[d] = "draft" /\ d \in drafts'
          /\ row'[d] = row[d] /\ wire' = wire
      BY DEF Create, RowsInv, TypeOK
    <2>2. /\ row[d] = "none" /\ d \notin wire /\ Len(told[d]) = 0
          /\ ~Busy(d, "confirm") /\ ~Busy(d, "cancel")
      BY <1>3, <1>4, <2>1 DEF RowOf, UnbornRow, Ops
    <2>3. Busy(d, "create")' /\ ~Busy(d, "confirm")' /\ ~Busy(d, "cancel")'
      BY <1>1, <2>2 DEF Ops
    <2> QED
      BY <1>2, <1>4, <2>1, <2>2, <2>3
         DEF RowOf, UnbornRow, OpenRow, ConfirmedRow, ClosedRow
  <1>5. CASE e # d
    BY <1>1, <1>2, <1>3, <1>5, RowFrame DEF Create, RowsInv, TypeOK, bounds
  <1> QED
    BY <1>4, <1>5

LEMMA UpdateRows ==
    ASSUME RowsInv, faults = 0, NEW c \in Calls, NEW d \in Drafts, Update(c, d),
           NEW e \in Drafts
    PROVE  RowOf(e)'
  <1>1. \A f \in Drafts, o \in Ops : Busy(f, o)' <=> Busy(f, o) \/ (f = d /\ o = "update")
    BY BeginBusy DEF Update, RowsInv
  <1>2. RowOf(e) /\ UNCHANGED <<drafts, status, row, wire, told, early>>
    BY DEF RowsInv, Update
  <1>3. CASE e = d
    <2>1. status[d] = "draft"
      BY DEF Update, Open
    <2>2. /\ Busy(d, "create")' <=> Busy(d, "create")
          /\ Busy(d, "confirm")' <=> Busy(d, "confirm")
          /\ Busy(d, "cancel")' <=> Busy(d, "cancel")
      BY <1>1 DEF Ops
    <2> QED
      BY <1>2, <1>3, <2>1, <2>2 DEF RowOf, UnbornRow, OpenRow, ConfirmedRow, ClosedRow
  <1>4. CASE e # d
    BY <1>1, <1>2, <1>4, RowFrame
  <1> QED
    BY <1>3, <1>4

LEMMA ConfirmRows ==
    ASSUME RowsInv, faults = 0, NEW c \in Calls, NEW d \in Drafts, Confirm(c, d),
           NEW e \in Drafts
    PROVE  RowOf(e)'
  <1>1. \A f \in Drafts, o \in Ops : Busy(f, o)' <=> Busy(f, o) \/ (f = d /\ o = "confirm")
    BY BeginBusy DEF Confirm, RowsInv
  <1>2. Len(told'[d]) = Len(told[d]) + 1 /\ \A f \in Drafts \ {d} : told'[f] = told[f]
    BY TellLength DEF Confirm, RowsInv, Events
  <1>3. RowOf(e) /\ UNCHANGED <<drafts, row, wire>>
    BY DEF RowsInv, Confirm
  <1>4. early' = IF Busy(d, "create") THEN early \cup {d} ELSE early
    BY DEF Confirm, Busy
  <1>5. CASE e = d
    <2>1. status[d] = "draft" /\ status'[d] = "confirmed" /\ d \in drafts
      BY DEF Confirm, Open, RowsInv, TypeOK
    <2>2. /\ Busy(d, "create")' <=> Busy(d, "create")
          /\ Busy(d, "confirm")'
          /\ Busy(d, "cancel")' <=> Busy(d, "cancel")
      BY <1>1 DEF Ops
    <2>3. /\ d \notin wire /\ Len(told[d]) = 1
          /\ ~Busy(d, "confirm") /\ ~Busy(d, "cancel")
          /\ (row[d] = "pending" \/ (row[d] = "none" /\ Busy(d, "create")))
      BY <1>3, <1>5, <2>1 DEF RowOf, OpenRow
    <2>4. Len(told'[d]) = 2 /\ d \notin wire'
      BY <1>2, <1>3, <2>3
    <2>5. ConfirmedRow(d)'
      BY <1>3, <1>4, <2>2, <2>3, <2>4 DEF ConfirmedRow
    <2> QED
      BY <1>3, <1>5, <2>1, <2>5 DEF RowOf, UnbornRow, OpenRow, ClosedRow
  <1>6. CASE e # d
    <2>1. status'[e] = status[e] /\ (e \in early' <=> e \in early)
      BY <1>4, <1>6 DEF Confirm, RowsInv, TypeOK
    <2> QED
      BY <1>1, <1>2, <1>3, <1>6, <2>1, RowFrame
  <1> QED
    BY <1>5, <1>6

\* DRAFT_CANCELLED goes out about d alone.
LEMMA PublishRows ==
    ASSUME TypeOK, NEW d \in Drafts, PublishCancelled(d)
    PROVE  /\ Len(told'[d]) = Len(told[d]) + 1
           /\ d \in wire' \/ row'[d] \in {"cancelled", "none"}
           /\ \A e \in Drafts \ {d} :
                 told'[e] = told[e] /\ row'[e] = row[e] /\ (e \in wire' <=> e \in wire)
  <1>1. Len(told'[d]) = Len(told[d]) + 1 /\ \A e \in Drafts \ {d} : told'[e] = told[e]
    BY TellLength DEF PublishCancelled, Events
  <1>2. CASE Remote
    BY <1>1, <1>2 DEF PublishCancelled
  <1>3. CASE ~Remote
    BY <1>1, <1>3 DEF PublishCancelled, SetRow, TypeOK
  <1> QED
    BY <1>2, <1>3

LEMMA CancelRows ==
    ASSUME RowsInv, faults = 0, NEW c \in Calls, NEW d \in Drafts, Cancel(c, d),
           NEW e \in Drafts
    PROVE  RowOf(e)'
  <1>1. \A f \in Drafts, o \in Ops : Busy(f, o)' <=> Busy(f, o) \/ (f = d /\ o = "cancel")
    BY BeginBusy DEF Cancel, RowsInv
  <1>2. /\ Len(told'[d]) = Len(told[d]) + 1
        /\ \A f \in Drafts \ {d} :
              told'[f] = told[f] /\ row'[f] = row[f] /\ (f \in wire' <=> f \in wire)
    BY PublishRows DEF Cancel, RowsInv
  <1>3. RowOf(e) /\ early' = early /\ drafts' = drafts \ {d}
    BY DEF RowsInv, Cancel, bounds
  <1>4. CASE e = d
    <2>1. d \in drafts /\ status'[d] = "cancelled"
      BY DEF Cancel, RowsInv, TypeOK
    <2>2. Busy(d, "cancel")' /\ (Busy(d, "confirm")' <=> Busy(d, "confirm"))
      BY <1>1 DEF Ops
    <2>3. Busy(d, "confirm") => Len(told[d]) = 2
      BY <1>3, <1>4, <2>1 DEF RowOf, OpenRow, ConfirmedRow
    <2>4. ASSUME Busy(d, "confirm") PROVE Len(told'[d]) = 3
      <3>1. Len(told[d]) = 2
        BY <2>3, <2>4
      <3>2. Len(told'[d]) = Len(told[d]) + 1
        BY <1>2
      <3> QED
        BY <3>1, <3>2
    <2>5. ClosedRow(d)'
      BY <2>2, <2>4 DEF ClosedRow
    <2> QED
      BY <1>3, <1>4, <2>1, <2>5 DEF RowOf, UnbornRow, OpenRow, ConfirmedRow
  <1>5. CASE e # d
    <2>1. status'[e] = status[e]
      BY <1>5 DEF Cancel, RowsInv, TypeOK
    <2> QED
      BY <1>1, <1>2, <1>3, <1>5, <2>1, RowFrame
  <1> QED
    BY <1>4, <1>5

\* The timer waits for no update that is not written.
LEMMA ExpireRows ==
    ASSUME RowsInv, faults = 0, NEW d \in Drafts, Expire(d), Open(d), NEW e \in Drafts
    PROVE  RowOf(e)'
  <1>1. doing' = doing /\ early' = early /\ drafts' = drafts \ {d}
    BY DEF Expire, bounds
  <1>2. /\ Len(told'[d]) = Len(told[d]) + 1
        /\ d \in wire' \/ row'[d] \in {"cancelled", "none"}
        /\ \A f \in Drafts \ {d} :
              told'[f] = told[f] /\ row'[f] = row[f] /\ (f \in wire' <=> f \in wire)
    BY PublishRows DEF Expire, RowsInv
  <1>3. RowOf(e) /\ \A f, o : Busy(f, o)' <=> Busy(f, o)
    BY <1>1 DEF RowsInv, Busy
  <1>4. CASE e = d
    <2>1. status[d] = "draft" /\ status'[d] = "cancelled" /\ ~Busy(d, "update")
      BY DEF Expire, Open, Written, Busy, RowsInv, TypeOK
    <2> QED
      BY <1>1, <1>2, <1>3, <1>4, <2>1
         DEF RowOf, UnbornRow, OpenRow, ConfirmedRow, ClosedRow
  <1>5. CASE e # d
    <2>1. status'[e] = status[e]
      BY <1>5 DEF Expire, RowsInv, TypeOK
    <2> QED
      BY <1>1, <1>2, <1>3, <1>5, <2>1, RowFrame
  <1> QED
    BY <1>4, <1>5

\* The subscriber writes the row of a draft that was cancelled.
LEMMA HeardRows ==
    ASSUME RowsInv, faults = 0, NEW d \in Drafts, Heard(d), NEW e \in Drafts
    PROVE  RowOf(e)'
  <1>1. /\ UNCHANGED <<drafts, status, doing, told, early>>
        /\ d \in wire /\ wire' = wire \ {d} /\ SetRow(d, "cancelled")
    BY DEF Heard, memory, bounds
  <1>2. RowOf(e) /\ TypeOK /\ \A f, o : Busy(f, o)' <=> Busy(f, o)
    BY <1>1 DEF RowsInv, Busy
  <1>3. CASE e = d
    <2>1. status[d] = "cancelled"
      BY <1>1, <1>2, <1>3 DEF RowOf, UnbornRow, OpenRow, ConfirmedRow, TypeOK, Statuses
    <2>2. row'[d] \in {"cancelled", "none"}
      BY <1>1, <1>2 DEF SetRow, TypeOK
    <2> QED
      BY <1>1, <1>2, <1>3, <2>1, <2>2
         DEF RowOf, UnbornRow, OpenRow, ConfirmedRow, ClosedRow
  <1>4. CASE e # d
    <2>1. row'[e] = row[e]
      BY <1>1, <1>2, <1>4 DEF SetRow, TypeOK
    <2> QED
      BY <1>1, <1>2, <1>4, <2>1, RowFrame
  <1> QED
    BY <1>3, <1>4

\* What follows the await of a call about d writes the row of d, or nothing.
LEMMA EndRows ==
    ASSUME RowsInv, faults = 0, NEW c \in Calls, Ends(c), NEW e \in Drafts
    PROVE  RowOf(e)'
  <1> DEFINE d == doing[c].draft
  <1>0. RowOf(e) /\ TypeOK /\ UNCHANGED <<drafts, status, wire, told, early>>
    BY DEF RowsInv, Ends, CreateEnd, UpdateEnd, ConfirmEnd, CancelEnd, memory, bounds
  <1>1. PICK op \in {"create", "update", "confirm", "cancel"} :
            /\ End(c, op)
            /\ op = "create" => IF d \in drafts THEN Upsert(d) ELSE UNCHANGED row
            /\ op = "update" => Upsert(d)
            /\ op = "confirm" => SetRow(d, "confirmed")
            /\ op = "cancel" => SetRow(d, "cancelled")
    BY DEF Ends, CreateEnd, UpdateEnd, ConfirmEnd, CancelEnd
  <1>2. op \in Ops \ {"idle"}
    BY DEF Ops
  <1>3. /\ \A f \in Drafts, o \in Ops : (f # d \/ o # op) => (Busy(f, o)' <=> Busy(f, o))
        /\ \A f \in Drafts, o \in Ops : Busy(f, o)' => Busy(f, o)
        /\ Busy(d, op)
        /\ op # "update" => ~Busy(d, "update")
    BY <1>0, <1>1, <1>2, EndBusy
  <1> HIDE DEF d
  <1>4. CASE e # d
    <2>1. row'[e] = row[e]
      BY <1>0, <1>1, <1>4 DEF Upsert, SetRow, TypeOK
    <2>2. \A o \in Ops : Busy(e, o)' <=> Busy(e, o)
      BY <1>3, <1>4
    <2> QED
      BY <1>0, <2>1, <2>2, RowFrame
  <1>5. CASE e = d
    <2>0. /\ op # "create" => (Busy(e, "create")' <=> Busy(e, "create"))
          /\ op # "update" => (Busy(e, "update")' <=> Busy(e, "update"))
          /\ op # "confirm" => (Busy(e, "confirm")' <=> Busy(e, "confirm"))
          /\ op # "cancel" => (Busy(e, "cancel")' <=> Busy(e, "cancel"))
          /\ Busy(e, "create")' => Busy(e, "create")
          /\ Busy(e, "update")' => Busy(e, "update")
          /\ Busy(e, "confirm")' => Busy(e, "confirm")
          /\ Busy(e, "cancel")' => Busy(e, "cancel")
          /\ Busy(e, op)
          /\ op # "update" => ~Busy(e, "update")
      BY <1>3, <1>5 DEF Ops
    <2>1. status[e] # "none"
      BY <1>0, <1>2, <2>0 DEF RowOf, UnbornRow
    <2>2. CASE op = "create"
      <3>1. e \in drafts => row'[e] = "pending"
        BY <1>0, <1>1, <1>5, <2>2 DEF Upsert, TypeOK
      <3>2. e \notin drafts => row'[e] = row[e]
        BY <1>0, <1>1, <1>5, <2>2 DEF Upsert, TypeOK
      <3> QED
        BY <1>0, <2>0, <2>1, <2>2, <3>1, <3>2
           DEF RowOf, UnbornRow, OpenRow, ConfirmedRow, ClosedRow
    <2>3. CASE op = "update"
      <3>1. row'[e] = "pending"
        BY <1>0, <1>1, <1>5, <2>3 DEF Upsert, TypeOK
      <3> QED
        BY <1>0, <2>0, <2>1, <2>3, <3>1
           DEF RowOf, UnbornRow, OpenRow, ConfirmedRow, ClosedRow
    <2>4. CASE op = "confirm"
      <3>1. row'[e] = IF row[e] = "none" THEN "none" ELSE "confirmed"
        BY <1>0, <1>1, <1>5, <2>4 DEF SetRow, TypeOK
      <3> QED
        BY <1>0, <2>0, <2>1, <2>4, <3>1
           DEF RowOf, UnbornRow, OpenRow, ConfirmedRow, ClosedRow
    <2>5. CASE op = "cancel"
      <3>1. row'[e] \in {"none", "cancelled"}
        BY <1>0, <1>1, <1>5, <2>5 DEF SetRow, TypeOK
      <3> QED
        BY <1>0, <2>0, <2>1, <2>5, <3>1
           DEF RowOf, UnbornRow, OpenRow, ConfirmedRow, ClosedRow
    <2> QED
      BY <1>1, <2>2, <2>3, <2>4, <2>5
  <1> QED
    BY <1>4, <1>5

\* Nothing that the rows depend on changes.
LEMMA SameRows ==
    ASSUME RowsInv, faults = 0, NEW e \in Drafts,
           UNCHANGED <<drafts, status, row, doing, wire, told, early>>
    PROVE  RowOf(e)'
  <1>1. RowOf(e) /\ \A f, o : Busy(f, o)' <=> Busy(f, o)
    BY DEF RowsInv, Busy
  <1> QED
    BY <1>1, RowFrame

LEMMA RowsStep == RowsInv /\ [Next]_vars => RowsInv'
  <1> SUFFICES ASSUME RowsInv, [Next]_vars, faults' = 0, NEW e \in Drafts
               PROVE  RowOf(e)'
    BY TypeStep DEF RowsInv
  <1>0. faults \in Nat
    BY DEF RowsInv, TypeOK
  <1>1. CASE UNCHANGED vars
    BY <1>1, SameRows DEF vars
  <1>2. ASSUME NEW c \in Calls, NEW d \in Drafts, NEW s \in Sessions, Create(c, s, d)
        PROVE  RowOf(e)'
    BY <1>2, CreateRows DEF Create, bounds
  <1>3. ASSUME NEW c \in Calls, NEW d \in Drafts, Update(c, d)
        PROVE  RowOf(e)'
    BY <1>3, UpdateRows DEF Update
  <1>4. ASSUME NEW c \in Calls, NEW d \in Drafts, Confirm(c, d)
        PROVE  RowOf(e)'
    BY <1>4, ConfirmRows DEF Confirm
  <1>5. ASSUME NEW c \in Calls, NEW d \in Drafts, Cancel(c, d)
        PROVE  RowOf(e)'
    BY <1>5, CancelRows DEF Cancel, bounds
  <1>6. ASSUME NEW c \in Calls, Ends(c)
        PROVE  RowOf(e)'
    <2>1. faults' = faults
      BY <1>6 DEF Ends, CreateEnd, UpdateEnd, ConfirmEnd, CancelEnd, bounds
    <2> QED
      BY <1>6, <2>1, EndRows
  <1>7. ASSUME NEW d \in Drafts, Expire(d)
        PROVE  RowOf(e)'
    <2>1. CASE Open(d)
      BY <1>7, <2>1, ExpireRows DEF Expire, bounds
    <2>2. CASE ~Open(d)
      BY <1>7, <2>2, SameRows DEF Expire, bounds
    <2> QED
      BY <2>1, <2>2
  <1>8. ASSUME NEW d \in Drafts, Heard(d)
        PROVE  RowOf(e)'
    BY <1>8, HeardRows DEF Heard, bounds
  <1>9. ASSUME NEW d \in Drafts, Rollback(d)
        PROVE  RowOf(e)'
    BY <1>9, SameRows DEF Rollback, bounds
  <1>10. ASSUME Restart \/ (\E c \in Calls : PublishFails(c)) \/ (\E d \in Drafts : Miss(d))
         PROVE  FALSE
    BY <1>0, <1>10 DEF Restart, PublishFails, Miss
  <1> QED
    BY <1>1, <1>2, <1>3, <1>4, <1>5, <1>6, <1>7, <1>8, <1>9, <1>10 DEF Next

LEMMA RowsInit == Init => RowsInv
  <1> SUFFICES ASSUME Init, NEW d \in Drafts
               PROVE  RowOf(d)
    BY TypeInit DEF RowsInv
  <1>1. \A op \in Ops : ~Busy(d, op)
    BY DraftAssumption DEF Init, Busy, Idle
  <1> QED
    BY <1>1 DEF Init, RowOf, UnbornRow, OpenRow, ConfirmedRow, ClosedRow

\* Once nothing is in flight about a draft, and nothing has failed, its row tells
\* what became of it, the two exceptions of the code aside: the halves of create,
\* update, confirm, cancel, expiry and the subscription write it in whatever order
\* they come back (persistent-draft-store.ts).
THEOREM RowsDoAgree == Spec => []RowsAgree
  <1>1. RowsInv => RowsAgree
    <2> SUFFICES ASSUME RowsInv, faults = 0, NEW d \in Drafts, d \notin wire,
                        \A c \in Calls : doing[c].draft # d
                 PROVE  \/ status[d] = "none"      /\ row[d] = "none"
                        \/ status[d] = "draft"     /\ row[d] = "pending"
                        \/ status[d] = "confirmed" /\ row[d] = "confirmed"
                        \/ status[d] = "cancelled" /\ row[d] \in {"cancelled", "none"}
                        \/ status[d] = "cancelled" /\ row[d] = "confirmed" /\ Len(told[d]) = 3
                        \/ d \in early            /\ row[d] = "pending"
      BY DEF RowsAgree
    <2>1. \A op \in Ops : ~Busy(d, op)
      BY DEF Busy
    <2>2. RowOf(d) /\ status[d] \in Statuses
      BY DEF RowsInv, TypeOK
    <2> QED
      BY <2>1, <2>2 DEF RowOf, UnbornRow, OpenRow, ConfirmedRow, ClosedRow, Statuses, Ops
  <1> QED
    BY <1>1, RowsInit, RowsStep, PTL DEF Spec
=============================================================================
