------------------------------ MODULE DraftStore ------------------------------
(***************************************************************************)
(* The draft store of packages/core and its persistent subclass in the     *)
(* store runtime.  Drafts live in memory, with an index from a session to  *)
(* its latest draft and a TTL timer each; the subclass mirrors them into   *)
(* the drafts table, after the awaits of the inherited operations and from *)
(* the bus.  A call is one invocation of create, update, confirm or cancel:*)
(* its synchronous half is one action, what follows its await another.     *)
(* An item's contents are left out: only how many changes can be undone    *)
(* matters to what the operations accept.                                  *)
(***************************************************************************)
EXTENDS Integers, Sequences, FiniteSets

CONSTANTS
    Drafts,      \* ids that create() may hand out
    Sessions,
    Calls,       \* invocations that may be in flight together
    Remote,      \* TRUE: the bus is Redis, subscribers run later
    MaxUpdates,  \* bound on the changes of one draft
    MaxFaults,   \* bound on failed publications, lost messages and restarts
    None

ASSUME DraftAssumption ==
    /\ IsFiniteSet(Drafts)
    /\ Remote \in BOOLEAN
    /\ {MaxUpdates, MaxFaults} \subseteq Nat
    /\ None \notin Drafts \cup Sessions

VARIABLES
    drafts,   \* the keys of the drafts Map
    status,   \* [Drafts -> Statuses]: the field of the Draft object
    session,  \* [Drafts -> Sessions or None]
    undo,     \* [Drafts -> Nat]: the length of the draft's history
    index,    \* sessionIndex: [Sessions -> Drafts or None]
    timers,   \* drafts whose TTL timer is armed
    row,      \* [Drafts -> Rows]: the drafts table
    doing,    \* [Calls -> Doings]: what each call awaits
    wire,     \* drafts whose DRAFT_CANCELLED is on its way to the subscriber
    told,     \* [Drafts -> Seq]: the events published about each draft
    early,    \* drafts confirmed before their create() had returned
    changes,  \* updates so far, per draft
    faults    \* faults so far

memory == <<drafts, status, session, undo, index, timers>>
bounds == <<early, changes, faults>>
vars == <<drafts, status, session, undo, index, timers, row, doing, wire, told,
          early, changes, faults>>

Events == {"DRAFT_CREATED", "DRAFT_CONFIRMED", "DRAFT_CANCELLED"}
Statuses == {"none", "draft", "confirmed", "cancelled"}
Rows == {"none", "pending", "confirmed", "cancelled"}
Ops == {"idle", "create", "update", "confirm", "cancel"}
Doings == [op : Ops, draft : Drafts \cup {None}]
Idle == [op |-> "idle", draft |-> None]

Open(d) == d \in drafts /\ status[d] = "draft"

Init ==
    /\ drafts = {}
    /\ status = [d \in Drafts |-> "none"]
    /\ session = [d \in Drafts |-> None]
    /\ undo = [d \in Drafts |-> 0]
    /\ index = [s \in Sessions |-> None]
    /\ timers = {}
    /\ row = [d \in Drafts |-> "none"]
    /\ doing = [c \in Calls |-> Idle]
    /\ wire = {}
    /\ told = [d \in Drafts |-> <<>>]
    /\ early = {}
    /\ changes = [d \in Drafts |-> 0]
    /\ faults = 0

-----------------------------------------------------------------------------
(* Helpers *)

Begin(c, op, d) ==
    /\ doing[c] = Idle
    /\ doing' = [doing EXCEPT ![c] = [op |-> op, draft |-> d]]

Tell(d, event) == told' = [told EXCEPT ![d] = Append(@, event)]

\* repository.upsert creates the row or overwrites it, as pending.
Upsert(d) == row' = [row EXCEPT ![d] = "pending"]

\* repository.updateStatus changes a row that exists.
SetRow(d, s) == row' = [row EXCEPT ![d] = IF @ = "none" THEN @ ELSE s]

\* No update of d is between its halves.  An update awaits nothing that takes time:
\* its row is written before timers, messages and publications come back.
Written(d) == \A c \in Calls : doing[c] # [op |-> "update", draft |-> d]

\* The call c, which awaited in op for a draft d, ends.
End(c, op) ==
    /\ doing[c].op = op
    /\ op # "update" => Written(doing[c].draft)
    /\ doing' = [doing EXCEPT ![c] = Idle]

\* DRAFT_CANCELLED is published: in memory the subscriber runs at once.
PublishCancelled(d) ==
    /\ Tell(d, "DRAFT_CANCELLED")
    /\ IF Remote THEN wire' = wire \cup {d} /\ UNCHANGED row
                 ELSE SetRow(d, "cancelled") /\ UNCHANGED wire

\* Mutant: the session keeps its entry.
KeepIndex(d) == UNCHANGED index

\* Mutant: sessionIndex.clear().
ClearIndex(d) == index' = [s \in Sessions |-> None]

\* sessionIndex.delete of the draft's session, whichever draft it points to.
Unindex(d) == index' = [index EXCEPT ![session[d]] = None]

-----------------------------------------------------------------------------
(* create *)

Create(c, s, d) ==
    /\ status[d] = "none"
    /\ Begin(c, "create", d)
    /\ drafts' = drafts \cup {d}
    /\ status' = [status EXCEPT ![d] = "draft"]
    /\ session' = [session EXCEPT ![d] = s]
    /\ index' = [index EXCEPT ![s] = d]
    /\ timers' = timers \cup {d}
    /\ Tell(d, "DRAFT_CREATED")
    /\ UNCHANGED <<undo, row, wire, bounds>>

\* Mutant: the draft is not read again.
CreateEndBlind(c) ==
    /\ End(c, "create")
    /\ Upsert(doing[c].draft)
    /\ UNCHANGED <<memory, wire, told, bounds>>

\* DRAFT_CREATED went out: the draft is read again and, if it still exists, its
\* row is written, as pending whatever became of it.
CreateEnd(c) ==
    /\ End(c, "create")
    /\ LET d == doing[c].draft
       IN  IF d \in drafts THEN Upsert(d) ELSE UNCHANGED row
    /\ UNCHANGED <<memory, wire, told, bounds>>

-----------------------------------------------------------------------------
(* update and rollback *)

\* Mutant: the TTL timer is cleared and not started again.
UpdateUnarmed(c, d) ==
    /\ Open(d)
    /\ changes[d] < MaxUpdates
    /\ Begin(c, "update", d)
    /\ undo' = [undo EXCEPT ![d] = @ + 1]
    /\ changes' = [changes EXCEPT ![d] = @ + 1]
    /\ timers' = timers \ {d}
    /\ UNCHANGED <<drafts, status, session, index, row, wire, told, early, faults>>

\* A draft that is gone or decided makes the call throw.
Update(c, d) ==
    /\ Open(d)
    /\ changes[d] < MaxUpdates
    /\ Begin(c, "update", d)
    /\ undo' = [undo EXCEPT ![d] = @ + 1]
    /\ changes' = [changes EXCEPT ![d] = @ + 1]
    /\ timers' = timers \cup {d}
    /\ UNCHANGED <<drafts, status, session, index, row, wire, told, early, faults>>

UpdateEnd(c) ==
    /\ End(c, "update")
    /\ Upsert(doing[c].draft)
    /\ UNCHANGED <<memory, wire, told, bounds>>

\* Not overridden by the subclass: the row keeps the change.
Rollback(d) ==
    /\ Open(d)
    /\ undo[d] > 0
    /\ undo' = [undo EXCEPT ![d] = @ - 1]
    /\ UNCHANGED <<drafts, status, session, index, timers, row, doing, wire, told, bounds>>

-----------------------------------------------------------------------------
(* confirm *)

\* Mutant: the status is not asked, as cancel() does not.
ConfirmAny(c, d) ==
    /\ d \in drafts
    /\ Begin(c, "confirm", d)
    /\ timers' = timers \ {d}
    /\ status' = [status EXCEPT ![d] = "confirmed"]
    /\ Unindex(d)
    /\ early' = IF \E e \in Calls : doing[e] = [op |-> "create", draft |-> d]
                THEN early \cup {d} ELSE early
    /\ Tell(d, "DRAFT_CONFIRMED")
    /\ UNCHANGED <<drafts, session, undo, row, wire, changes, faults>>

Confirm(c, d) ==
    /\ Open(d)
    /\ Begin(c, "confirm", d)
    /\ timers' = timers \ {d}
    /\ status' = [status EXCEPT ![d] = "confirmed"]
    /\ Unindex(d)
    /\ early' = IF \E e \in Calls : doing[e] = [op |-> "create", draft |-> d]
                THEN early \cup {d} ELSE early
    /\ Tell(d, "DRAFT_CONFIRMED")
    /\ UNCHANGED <<drafts, session, undo, row, wire, changes, faults>>

ConfirmEnd(c) ==
    /\ End(c, "confirm")
    /\ SetRow(doing[c].draft, "confirmed")
    /\ UNCHANGED <<memory, wire, told, bounds>>

-----------------------------------------------------------------------------
(* cancel and expiry *)

\* A confirmed draft may be cancelled too.
Cancel(c, d) ==
    /\ d \in drafts
    /\ Begin(c, "cancel", d)
    /\ timers' = timers \ {d}
    /\ status' = [status EXCEPT ![d] = "cancelled"]
    /\ Unindex(d)
    /\ drafts' = drafts \ {d}
    /\ PublishCancelled(d)
    /\ UNCHANGED <<session, undo, bounds>>

CancelEnd(c) ==
    /\ End(c, "cancel")
    /\ SetRow(doing[c].draft, "cancelled")
    /\ UNCHANGED <<memory, wire, told, bounds>>

Expire(d) ==
    /\ d \in timers
    /\ Written(d)
    /\ timers' = timers \ {d}
    /\ IF Open(d)
       THEN /\ status' = [status EXCEPT ![d] = "cancelled"]
            /\ Unindex(d)
            /\ drafts' = drafts \ {d}
            /\ PublishCancelled(d)
       ELSE UNCHANGED <<status, index, drafts, told, wire, row>>
    /\ UNCHANGED <<session, undo, doing, bounds>>

-----------------------------------------------------------------------------
(* The bus and the process *)

\* The subclass's own subscription, when the bus is remote.
Heard(d) ==
    /\ d \in wire
    /\ Written(d)
    /\ wire' = wire \ {d}
    /\ SetRow(d, "cancelled")
    /\ UNCHANGED <<memory, doing, told, bounds>>

\* Redis delivers at most once: a disconnected subscriber misses the message.
Miss(d) ==
    /\ d \in wire
    /\ faults < MaxFaults
    /\ faults' = faults + 1
    /\ wire' = wire \ {d}
    /\ UNCHANGED <<memory, row, doing, told, early, changes>>

\* publish rejects (a subscriber threw, or the connection failed): the call
\* throws and what follows its await does not happen.
PublishFails(c) ==
    /\ doing[c].op \in {"create", "confirm", "cancel"}
    /\ faults < MaxFaults
    /\ faults' = faults + 1
    /\ doing' = [doing EXCEPT ![c] = Idle]
    /\ UNCHANGED <<memory, row, wire, told, early, changes>>

\* dispose(), or the process ends: the table is what is left.  No code reads the
\* pending rows back.
Restart ==
    /\ faults < MaxFaults
    /\ faults' = faults + 1
    /\ drafts' = {}
    /\ index' = [s \in Sessions |-> None]
    /\ timers' = {}
    /\ doing' = [c \in Calls |-> Idle]
    /\ wire' = {}
    /\ UNCHANGED <<status, session, undo, row, told, early, changes>>

-----------------------------------------------------------------------------

Ends(c) == CreateEnd(c) \/ UpdateEnd(c) \/ ConfirmEnd(c) \/ CancelEnd(c)

Next ==
    \/ \E c \in Calls, d \in Drafts :
          \/ \E s \in Sessions : Create(c, s, d)
          \/ Update(c, d)
          \/ Confirm(c, d)
          \/ Cancel(c, d)
    \/ \E c \in Calls : Ends(c) \/ PublishFails(c)
    \/ \E d \in Drafts : Rollback(d) \/ Expire(d) \/ Heard(d) \/ Miss(d)
    \/ Restart

\* Timers fire, promises settle, and what Redis does not lose it delivers.
Fairness ==
    /\ \A d \in Drafts : WF_vars(Expire(d)) /\ WF_vars(Heard(d))
    /\ \A c \in Calls : WF_vars(Ends(c))

Spec == Init /\ [][Next]_vars
LiveSpec == Spec /\ Fairness

-----------------------------------------------------------------------------
(* Properties *)

TypeOK ==
    /\ drafts \subseteq Drafts
    /\ status \in [Drafts -> Statuses]
    /\ session \in [Drafts -> Sessions \cup {None}]
    /\ undo \in [Drafts -> Nat]
    /\ index \in [Sessions -> Drafts \cup {None}]
    /\ timers \subseteq Drafts
    /\ row \in [Drafts -> Rows]
    /\ doing \in [Calls -> Doings]
    /\ wire \subseteq Drafts
    /\ told \in [Drafts -> Seq(Events)]
    /\ early \subseteq Drafts
    /\ changes \in [Drafts -> Nat]
    /\ faults \in Nat

\* What the session's next answer acts on is a draft of that session that can
\* still be decided: closed drafts of the same session never leave a dangling or
\* foreign entry behind, whatever order they were created and closed in.
IndexOpen == \A s \in Sessions : index[s] # None => Open(index[s]) /\ session[index[s]] = s

\* Once nothing is in flight about a draft the table tells what became of it, with
\* two exceptions the code has: a draft confirmed while DRAFT_CREATED was still
\* going out may keep a pending row (create writes it last), and one cancelled
\* while DRAFT_CONFIRMED was still going out a confirmed row.
RowsAgree ==
    faults = 0 =>
        \A d \in Drafts :
            d \notin wire /\ (\A c \in Calls : doing[c].draft # d) =>
                \/ status[d] = "none"      /\ row[d] = "none"
                \/ status[d] = "draft"     /\ row[d] = "pending"
                \/ status[d] = "confirmed" /\ row[d] = "confirmed"
                \/ status[d] = "cancelled" /\ row[d] \in {"cancelled", "none"}
                \/ status[d] = "cancelled" /\ row[d] = "confirmed" /\ Len(told[d]) = 3
                \/ d \in early            /\ row[d] = "pending"

\* A session's open draft becomes unreachable from it only when another draft of
\* the same session is opened or closed: never while it is the only one.
IndexKept ==
    [][\A s \in Sessions, d \in Drafts :
          index[s] = d /\ index'[s] # d /\ Open(d) /\ Open(d)' =>
              \E e \in Drafts \ {d} : session'[e] = s /\ status'[e] # status[e]]_vars

\* A draft that nobody decides, and one the index has lost, is cancelled by its
\* timer: no draft stays open for ever.
EveryDraftCloses == \A d \in Drafts : Open(d) ~> ~Open(d)

-----------------------------------------------------------------------------
(* Refinement *)

StageOf(d) ==
    CASE status[d] = "none" -> "unborn"
      [] d \in drafts /\ status[d] = "draft" -> "open"
      [] d \in drafts /\ status[d] = "confirmed" -> "confirmed"
      [] d \notin drafts /\ status[d] = "cancelled" -> "closed"
      [] OTHER -> "lost"

Lifecycle == INSTANCE DraftLifecycle WITH stage <- [d \in Drafts |-> StageOf(d)]

\* The draft store, with its index, timers, table and calls in flight, does what
\* DraftLifecycle promises: no interleaving confirms a draft twice or after it
\* was closed, and the bus never tells otherwise.
ImplementsLifecycle == Lifecycle!Spec
=============================================================================
