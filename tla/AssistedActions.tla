--------------------------- MODULE AssistedActions ---------------------------
(***************************************************************************)
(* A message that asks for an action, from the desktop to its effect:       *)
(* App.tsx sends it and shows the card, lib.rs keeps the plan that was      *)
(* asked for (ResumeStore), the cognitive runtime plans, the coordinator    *)
(* asks, consumes and executes, the security panel decides.                 *)
(*                                                                          *)
(* Each call passes through the backend in steps; the backend may die, which*)
(* fails every call that is in it. The interface remembers ONE action that  *)
(* waits for the user, but lists every pending card, and a decision goes    *)
(* through the backend beside the messages. A one-shot bridge process, the  *)
(* script, resumes an approved action without its plan, with any text.      *)
(***************************************************************************)
EXTENDS Integers, FiniteSets

CONSTANTS
    Plans,          \* a tool with its arguments
    Guarded,        \* those that Cyber allows with an approval only
    Contents,       \* texts of messages
    Deterministic,  \* [texts the rules recognise -> their plan]
    None,           \* no plan, no approval, no action waiting
    MaxSends,       \* bound of the model: messages
    MaxScripts,     \* bound of the model
    MaxDeaths       \* bound of the model: deaths of the backend

\* A message asks for one approval at most, which goes by its number here.
Messages == 1..MaxSends

ASSUME AssistAssumption ==
    /\ Guarded \subseteq Plans
    /\ DOMAIN Deterministic \subseteq Contents
    /\ \A m \in DOMAIN Deterministic : Deterministic[m] \in Plans
    /\ None \notin Plans \cup Contents \cup Nat
    /\ MaxSends \in Nat /\ MaxScripts \in Nat /\ MaxDeaths \in Nat

VARIABLES
    token,       \* the approvals
    kept,        \* lib.rs: the plan remembered for an approval
    pending,     \* App.tsx: the action that waits for the user
    busy,        \* App.tsx: no message is sent meanwhile
    deciding,    \* App.tsx: the decision in progress
    call,        \* locals of each call of the assistant
    ran,         \* history: the effects, each with the approval it was run by
    sends, scripts, deaths

bounds == <<sends, scripts, deaths>>
backend == <<token, ran>>
desktop == <<kept, pending, busy, deciding>>
vars == <<backend, desktop, call, bounds>>

Resume == 0
ScriptCall == MaxSends + 1
Callers == 0..(MaxSends + 1)
Cyber == INSTANCE ApprovalToken WITH Ids <- Messages, Calls <- Guarded

Idle == [at |-> "idle"]
Asked(content) == [at |-> "plan", content |-> content, id |-> None, plan |-> None]
Resumed(content, id, plan) == [at |-> "plan", content |-> content, id |-> id, plan |-> plan]

Goto(c, at) == call' = [call EXCEPT ![c].at = at]
Continue(c, at, id, plan) ==
    call' = [call EXCEPT ![c] = [at |-> at, content |-> call[c].content, id |-> id, plan |-> plan]]
InBackend == {"plan", "invoke", "execute", "answer", "ask", "reply"}

-----------------------------------------------------------------------------
\* The interface and its host

\* send: nothing is sent while busy.
Send(content) ==
    /\ ~busy
    /\ sends < MaxSends
    /\ sends' = sends + 1
    /\ busy' = TRUE
    /\ call' = [call EXCEPT ![sends'] = Asked(content)]
    /\ UNCHANGED <<backend, kept, pending, deciding, scripts, deaths>>

\* rachel_assist: the plan of an action that needs approval is remembered.
Remember(s) ==
    /\ call[s].at = "ask"
    /\ kept' = [kept EXCEPT ![call[s].id] = call[s].plan]
    /\ Goto(s, "show")
    /\ UNCHANGED <<backend, pending, busy, deciding, bounds>>

\* processAssist: the action replaces the one that waited before.
Show(s) ==
    /\ call[s].at = "show"
    /\ pending' = [id |-> call[s].id, content |-> call[s].content]
    /\ busy' = FALSE
    /\ call' = [call EXCEPT ![s] = Idle]
    /\ UNCHANGED <<backend, kept, deciding, bounds>>

\* A message that ends with an answer or an error.
Settle(s) ==
    /\ s \in Messages /\ call[s].at \in {"reply", "failed"}
    /\ busy' = FALSE
    /\ call' = [call EXCEPT ![s] = Idle]
    /\ UNCHANGED <<backend, kept, pending, deciding, bounds>>

\* decideCyber, for any card of the list. What waits is looked up in the state
\* that was rendered at the click.
Click(id, allow) ==
    /\ deciding = None
    /\ token[id].status = "pending"
    /\ deciding' = [at |-> "asked", id |-> id, allow |-> allow,
                    match |-> IF pending # None /\ pending.id = id THEN pending ELSE None]
    /\ UNCHANGED <<backend, kept, pending, busy, call, bounds>>

\* security_decide: one that is no longer pending raises.
PanelDecides ==
    /\ deciding # None /\ deciding.at = "asked"
    /\ IF token[deciding.id].status = "pending"
       THEN /\ Cyber!Decide(deciding.id, IF deciding.allow THEN "approved" ELSE "denied")
            /\ deciding' = [deciding EXCEPT !.at = "told"]
       ELSE deciding' = None /\ UNCHANGED token
    /\ UNCHANGED <<ran, kept, pending, busy, call, bounds>>

\* The plan of a refused action is forgotten.
HearDenied ==
    /\ deciding # None /\ deciding.at = "told" /\ ~deciding.allow
    /\ kept' = [kept EXCEPT ![deciding.id] = None]
    /\ pending' = IF deciding.match = None THEN pending ELSE None
    /\ deciding' = None
    /\ UNCHANGED <<backend, busy, call, bounds>>

\* executeApproved, for the action that waited: its plan leaves the store
\* before the request is made. An approval that nothing waited for is left.
HearApproved ==
    /\ deciding # None /\ deciding.at = "told" /\ deciding.allow
    /\ IF deciding.match = None
       THEN deciding' = None /\ UNCHANGED <<kept, busy, call>>
       ELSE /\ call' = [call EXCEPT ![Resume] =
                            Resumed(deciding.match.content, deciding.id, kept[deciding.id])]
            /\ kept' = [kept EXCEPT ![deciding.id] = None]
            /\ busy' = TRUE
            /\ deciding' = [deciding EXCEPT !.at = "resuming"]
    /\ UNCHANGED <<backend, pending, bounds>>

\* A success clears whatever waits now; a failure clears nothing.
SettleResume ==
    /\ call[Resume].at \in {"reply", "failed"}
    /\ pending' = IF call[Resume].at = "reply" THEN None ELSE pending
    /\ busy' = FALSE
    /\ deciding' = None
    /\ call' = [call EXCEPT ![Resume] = Idle]
    /\ UNCHANGED <<backend, kept, bounds>>

-----------------------------------------------------------------------------
\* The script

Script(id, content) ==
    /\ call[ScriptCall] = Idle
    /\ token[id].status = "approved"
    /\ scripts < MaxScripts
    /\ scripts' = scripts + 1
    /\ call' = [call EXCEPT ![ScriptCall] = Resumed(content, id, None)]
    /\ UNCHANGED <<backend, desktop, sends, deaths>>

SettleScript ==
    /\ call[ScriptCall].at \in {"reply", "failed"}
    /\ call' = [call EXCEPT ![ScriptCall] = Idle]
    /\ UNCHANGED <<backend, desktop, bounds>>

-----------------------------------------------------------------------------
\* The backend

\* What handle may decide on: the rules first, then the planner, which may
\* find any tool or none.
Planned(content) ==
    IF content \in DOMAIN Deterministic THEN {Deterministic[content]}
    ELSE Plans \cup {None}

\* Mutant of ResumePlans: the text is planned again, as it was the first time.
ResumePlansAgain(content, plan) == Planned(content)

\* The plan that comes with the approval, or what the rules make of the text;
\* the planner is not asked again.
ResumePlans(content, plan) ==
    IF plan # None THEN {plan}
    ELSE {p \in Plans : content \in DOMAIN Deterministic /\ p = Deterministic[content]}

PlanAction(c) ==
    /\ call[c].at = "plan"
    /\ LET choices == IF call[c].id = None THEN Planned(call[c].content)
                      ELSE ResumePlans(call[c].content, call[c].plan)
       IN IF choices = {}
          THEN Goto(c, "failed")
          ELSE \E p \in choices :
                Continue(c, IF p = None THEN "answer" ELSE "invoke", call[c].id, p)
    /\ UNCHANGED <<backend, desktop, bounds>>

\* Cyber: a low risk is allowed as it is, the rest with an approval only.
AskApproval(c) ==
    /\ call[c].at = "invoke" /\ call[c].id = None
    /\ call[c].plan \in Guarded
    /\ Cyber!Issue(c, call[c].plan)
    /\ Continue(c, "ask", c, call[c].plan)
    /\ UNCHANGED <<ran, desktop, bounds>>

InvokeFreely(c) ==
    /\ call[c].at = "invoke" /\ call[c].id = None
    /\ call[c].plan \notin Guarded
    /\ Goto(c, "execute")
    /\ UNCHANGED <<backend, desktop, bounds>>

\* Mutant of Authorizes: the arguments are not compared.
AuthorizesAnything(id, plan) == token[id].status = "approved"

Authorizes(id, plan) == Cyber!Spendable(id, plan)

\* An approval that is given is consumed first, whatever the risk.
InvokeAuthorized(c) ==
    /\ call[c].at = "invoke" /\ call[c].id # None
    /\ IF Authorizes(call[c].id, call[c].plan)
       THEN Cyber!SetStatus(call[c].id, "consumed") /\ Goto(c, "execute")
       ELSE Goto(c, "failed") /\ UNCHANGED token
    /\ UNCHANGED <<ran, desktop, bounds>>

\* The tool may raise, before or after it had its effect.
Execute(c) ==
    /\ call[c].at = "execute"
    /\ \/ /\ ran' = ran \cup {[id |-> call[c].id, plan |-> call[c].plan]}
          /\ Goto(c, "answer") \/ Goto(c, "failed")
       \/ Goto(c, "failed") /\ UNCHANGED ran
    /\ UNCHANGED <<token, desktop, bounds>>

\* The model words the answer and Dany judges it: either may fail.
AnswerAction(c) ==
    /\ call[c].at = "answer"
    /\ Goto(c, "reply") \/ Goto(c, "failed")
    /\ UNCHANGED <<backend, desktop, bounds>>

\* Mutant of Die: the calls in the backend wait on.
DieSilently ==
    /\ deaths < MaxDeaths
    /\ deaths' = deaths + 1
    /\ call' = [c \in Callers |-> IF c # ScriptCall /\ call[c].at \in InBackend
                                  THEN [call[c] EXCEPT !.at = "lost"] ELSE call[c]]
    /\ UNCHANGED <<backend, desktop, sends, scripts>>

\* The resident backend dies: lib.rs fails every call that is in it, a
\* decision too, whether it has been taken or not. The script has its own.
Die ==
    /\ deaths < MaxDeaths
    /\ deaths' = deaths + 1
    /\ call' = [c \in Callers |-> IF c # ScriptCall /\ call[c].at \in InBackend
                                  THEN [call[c] EXCEPT !.at = "failed"] ELSE call[c]]
    /\ deciding' = IF deciding # None /\ deciding.at \in {"asked", "told"}
                   THEN None ELSE deciding
    /\ UNCHANGED <<backend, kept, pending, busy, sends, scripts>>

Lapse(id) ==
    /\ Cyber!Lapse(id)
    /\ UNCHANGED <<ran, desktop, call, bounds>>

-----------------------------------------------------------------------------

Init ==
    /\ token = [i \in Messages |-> Cyber!Unissued]
    /\ kept = [i \in Messages |-> None]
    /\ pending = None /\ busy = FALSE /\ deciding = None
    /\ call = [c \in Callers |-> Idle]
    /\ ran = {}
    /\ sends = 0 /\ scripts = 0 /\ deaths = 0

Advance(c) ==
    \/ PlanAction(c) \/ InvokeFreely(c) \/ InvokeAuthorized(c)
    \/ AskApproval(c) \/ Execute(c) \/ AnswerAction(c)
    \/ Remember(c) \/ Show(c) \/ Settle(c)

Decision == PanelDecides \/ HearDenied \/ HearApproved

Next ==
    \/ \E content \in Contents : Send(content)
    \/ \E id \in Messages, allow \in BOOLEAN : Click(id, allow)
    \/ \E id \in Messages, content \in Contents : Script(id, content)
    \/ \E c \in Callers : Advance(c)
    \/ Decision \/ SettleResume \/ SettleScript
    \/ Die
    \/ \E id \in Messages : Lapse(id)

\* Backend and host do what they have begun. Nobody has to send, to decide or
\* to run a script.
Fairness ==
    /\ \A c \in Callers : WF_vars(Advance(c))
    /\ WF_vars(Decision) /\ WF_vars(SettleResume) /\ WF_vars(SettleScript)

Spec == Init /\ [][Next]_vars /\ Fairness

-----------------------------------------------------------------------------
\* Properties

Waiting == [id : Messages, content : Contents]

\* Every variable has its type.
TypeOK ==
    /\ Cyber!TokenTypeOK
    /\ kept \in [Messages -> Guarded \cup {None}]
    /\ pending \in Waiting \cup {None} /\ busy \in BOOLEAN
    /\ deciding \in {None} \cup [at : {"asked", "told", "resuming"}, id : Messages,
                                 allow : BOOLEAN, match : Waiting \cup {None}]
    /\ call \in [Callers -> {Idle} \cup [at : InBackend \cup {"show", "failed"},
                    content : Contents, id : Messages \cup {None}, plan : Plans \cup {None}]]
    /\ ran \subseteq [id : Messages \cup {None}, plan : Plans]
    /\ sends \in 0..MaxSends /\ scripts \in 0..MaxScripts /\ deaths \in 0..MaxDeaths

\* Whoever resumes, with the kept plan, with none, or with another text, an
\* effect that Cyber guards is run by a consumed approval whose card showed
\* exactly that plan.
EffectsAreApproved ==
    \A r \in ran : r.plan \in Guarded =>
        r.id # None /\ token[r.id].status = "consumed" /\ token[r.id].call = r.plan

\* "toda retomada apos aprovacao Cyber executa exatamente o plano aprovado, sem
\* novo planejamento" (LOTE-1-RELIABILITY-ACCEPTANCE.md:7): a resume of the
\* desktop never sets out to do anything but what its card showed, also when
\* the plan was lost, the decision overtook the reply, or cards changed places.
ResumeIsExact ==
    call[Resume].at \in {"invoke", "execute", "answer", "reply"} =>
        call[Resume].plan = token[call[Resume].id].call

\* The interface never stays locked: what makes it busy, and a decision, ends,
\* though backends die.
InterfaceComesFree ==
    /\ busy ~> ~busy
    /\ deciding # None ~> deciding = None

\* "5. O usuario aprova ou nega. 6. Ned retoma a etapa ... 9. A operacao e
\* executada" (SECURITY-APPROVAL-CONTRACT.md:15-19): what the user approves is
\* resumed. It is not when the card is not that of the last action asked for.
ApprovedIsResumed ==
    \A id \in Messages : token[id].status = "approved" ~> token[id].status # "approved"

=============================================================================
