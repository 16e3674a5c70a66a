---------------------------- MODULE DraftLifecycle ----------------------------
(***************************************************************************)
(* What a draft store promises the rest of the store: a draft is opened    *)
(* once, is confirmed at most once and only while it is open, is closed at *)
(* most once, and the bus tells exactly that story, in that order.  A      *)
(* draft may be closed after it was confirmed: cancel() asks no status.    *)
(* DraftStore implements this specification.                               *)
(***************************************************************************)
EXTENDS Sequences

CONSTANT Drafts

VARIABLES
    stage,  \* [Drafts -> Stages]
    told    \* [Drafts -> Seq(Events)]: what the bus carried about each draft

vars == <<stage, told>>

Stages == {"unborn", "open", "confirmed", "closed", "lost"}
Events == {"DRAFT_CREATED", "DRAFT_CONFIRMED", "DRAFT_CANCELLED"}

Init ==
    /\ stage = [d \in Drafts |-> "unborn"]
    /\ told = [d \in Drafts |-> <<>>]

Move(d, from, to, event) ==
    /\ stage[d] \in from
    /\ stage' = [stage EXCEPT ![d] = to]
    /\ told' = [told EXCEPT ![d] = Append(@, event)]

Open(d)    == Move(d, {"unborn"}, "open", "DRAFT_CREATED")
Confirm(d) == Move(d, {"open"}, "confirmed", "DRAFT_CONFIRMED")
Close(d)   == Move(d, {"open", "confirmed"}, "closed", "DRAFT_CANCELLED")

\* Drafts live in memory: a restart forgets those that were not closed.
Forget ==
    /\ stage' = [d \in Drafts |->
                    IF stage[d] \in {"open", "confirmed"} THEN "lost" ELSE stage[d]]
    /\ UNCHANGED told

Next == Forget \/ \E d \in Drafts : Open(d) \/ Confirm(d) \/ Close(d)

Spec == Init /\ [][Next]_vars
=============================================================================
