---------------------------- MODULE LearningVault ----------------------------
(***************************************************************************)
(* The Learning Vault (adapters/learning_sqlite.py) and its curation        *)
(* (learning_curator.py): chats are captured, judged by Dany and reviewed   *)
(* by the user, and a curator turns what passed into candidate items.       *)
(*                                                                          *)
(* collect reads experiences and feedback in transactions of their own, and *)
(* materialize is a later call: the Vault may change in between. Structured *)
(* events are read too, but no code of the repository ever gives one the    *)
(* training state "approved" that curation asks for, so they add nothing.   *)
(***************************************************************************)
EXTENDS TrainingState

Unjudged == [quality |-> "none", review |-> "unreviewed"]

CaptureChat(e) ==
    /\ exps[e] = NotCaptured
    /\ exps' = [exps EXCEPT ![e] = Unjudged]
    /\ UNCHANGED <<feedback, factory, released, compilation, token, call, crashes>>

\* "passed" stands for quality_accepted = 1 with a score of at least the
\* curator's minimum. A reply that crashed before this stays unjudged.
UpdateQuality(e, q) ==
    /\ exps[e].quality = "none"
    /\ exps' = [exps EXCEPT ![e].quality = q]
    /\ UNCHANGED <<feedback, factory, released, compilation, token, call, crashes>>

\* Mutant of ReviewState: the verdict itself is stored.
ReviewStateBare(verdict) == verdict

ReviewState(verdict) ==
    CASE verdict = "accepted" -> "user_accepted"
      [] verdict = "rejected" -> "user_rejected"
      [] verdict = "corrected" -> "user_corrected"

\* One transaction: the feedback row and the experience's review state. The
\* last verdict stands; a correction carries its text.
CaptureFeedback(e, verdict, text) ==
    /\ exps[e] # NotCaptured
    /\ Len(feedback) < MaxFeedback
    /\ (text \in Corrections) <=> (verdict = "corrected")
    /\ feedback' = Append(feedback, [exp |-> e, verdict |-> verdict, text |-> text])
    /\ exps' = [exps EXCEPT ![e].review = ReviewState(verdict)]
    /\ UNCHANGED <<factory, released, compilation, token, call, crashes>>

-----------------------------------------------------------------------------
\* collect

PassesDany(x) == x.quality = "passed"

UserAllowed(x) == x.review \in {"user_accepted", "user_corrected"}

CorrectionsOf(e, rows) ==
    {n \in DOMAIN rows : rows[n].exp = e /\ rows[n].verdict = "corrected"}

Latest(ns) == CHOOSE n \in ns : \A m \in ns : m <= n

\* The last correction replaces the answer, also when an acceptance followed.
FinalText(e, rows) ==
    IF CorrectionsOf(e, rows) = {} THEN Answer
    ELSE rows[Latest(CorrectionsOf(e, rows))].text

ConversationItems(seen, rows) ==
    {[type |-> "conversation", exp |-> e, text |-> FinalText(e, rows),
      review |-> seen[e].review, row |-> 0] :
        e \in {x \in Exps : PassesDany(seen[x]) /\ UserAllowed(seen[x])}}

\* Every correction of an experience that was read makes a preference, with
\* neither Dany's gate nor the present verdict in its way.
PreferenceItems(seen, rows) ==
    {[type |-> "preference", exp |-> rows[n].exp, text |-> rows[n].text,
      review |-> "user_corrected", row |-> n] :
        n \in {m \in DOMAIN rows : /\ rows[m].verdict = "corrected"
                                   /\ seen[rows[m].exp] # NotCaptured}}

\* Mutant of InRegistry: only the versions not yet approved are consulted.
InRegistryCandidates(item) ==
    \E v \in DOMAIN versions : versions[v] = "candidate" /\ item \in v.items

InRegistry(item) == \E v \in DOMAIN versions : item \in v.items

\* The buckets that are not empty, in the order materialize takes them.
Buckets(items) ==
    LET bucket(type) ==
            LET fresh == {i \in items : i.type = type /\ ~InRegistry(i)}
            IN IF fresh = {} THEN <<>> ELSE <<[type |-> type, items |-> fresh]>>
    IN bucket("conversation") \o bucket("preference")

\* The two reads of collect. Both take the oldest rows up to the limit.
CurationExperiences == exps

CurationFeedback ==
    IF Len(feedback) <= Limit THEN feedback ELSE SubSeq(feedback, 1, Limit)

ReadExperiences(c) ==
    /\ c \in Curators
    /\ Start(c, [op |-> "collect", at |-> "feedback", seen |-> CurationExperiences])
    /\ UNCHANGED <<vault, factory, released, compilation, token, crashes>>

ReadFeedback(c) ==
    /\ At(c, "collect", "feedback")
    /\ LET rows == CurationFeedback
           items == ConversationItems(call[c].seen, rows)
                      \cup PreferenceItems(call[c].seen, rows)
       IN call' = [call EXCEPT ![c] =
                    [op |-> "collect", at |-> "collected", todo |-> Buckets(items)]]
    /\ UNCHANGED <<vault, factory, released, compilation, token, crashes>>

\* Nothing of the Vault is read again: what was collected is what is stored.
Materialize(c) ==
    /\ At(c, "collect", "collected")
    /\ call' = [call EXCEPT ![c] =
                    IF @.todo = <<>> THEN Idle
                    ELSE [op |-> "create", at |-> "look", todo |-> @.todo]]
    /\ UNCHANGED <<vault, factory, released, compilation, token, crashes>>

VaultNext ==
    \/ \E e \in Exps :
        \/ CaptureChat(e)
        \/ \E q \in {"failed", "passed"} : UpdateQuality(e, q)
        \/ \E verdict \in Verdicts, text \in Texts : CaptureFeedback(e, verdict, text)
    \/ \E c \in Clients : ReadExperiences(c) \/ ReadFeedback(c) \/ Materialize(c)

=============================================================================
