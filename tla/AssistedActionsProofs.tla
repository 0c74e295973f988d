----------------------- MODULE AssistedActionsProofs -----------------------
(***************************************************************************)
(* Theorems about AssistedActions, for any plans, texts, rules and numbers  *)
(* of messages, scripts and deaths of the backend.                          *)
(*                                                                          *)
(* The invariant follows what is known of an approval through the places    *)
(* that keep it: the call that asked, the host's store of plans, the action *)
(* that waits in the interface, the decision, and the call that resumes.    *)
(* All of them know it by its number alone; that they agree on its plan     *)
(* rests on approvals never changing the call they are bound to.            *)
(*                                                                          *)
(* The approvals are used by the steps of ApprovalToken only, and each of   *)
(* them runs one effect at most.                                            *)
(***************************************************************************)
EXTENDS AssistedActions, TLAPS

Busy == [at : InBackend \cup {"show", "failed"}, content : Contents,
         id : Messages \cup {None}, plan : Plans \cup {None}]

Issued(tok, i) == i \in Messages /\ tok[i] # Cyber!Unissued

\* A text that belongs to an approval: the rules, if they know the text, make
\* the approved plan of it.
Fits(tok, content, i) ==
    /\ Issued(tok, i)
    /\ content \in DOMAIN Deterministic => tok[i].call = Deterministic[content]

Paid(tok, id, plan) ==
    id \in Messages /\ tok[id].status = "consumed" /\ tok[id].call = plan

\* What a call in progress relies on.
Sound(tok, c, k) ==
    /\ c \notin Messages => k.id \in Messages
    /\ k.at \in {"ask", "show"} =>
        /\ c \in Messages /\ k.id = c /\ k.plan \in Guarded
        /\ Fits(tok, k.content, c) /\ tok[c].call = k.plan
    /\ k.at \in {"invoke", "execute"} => k.plan \in Plans
    /\ k.at = "invoke" /\ k.id = None /\ k.content \in DOMAIN Deterministic =>
        k.plan = Deterministic[k.content]
    /\ k.at = "execute" /\ k.plan \in Guarded => Paid(tok, k.id, k.plan)
    /\ c = Resume =>
        /\ Fits(tok, k.content, k.id)
        /\ k.at = "plan" => k.plan \in {None, tok[k.id].call}
        /\ k.at \in {"invoke", "execute", "answer", "reply"} => k.plan = tok[k.id].call

CallsSound == \A c \in Callers : call[c] = Idle \/ Sound(token, c, call[c])

\* A plan the host keeps is the one its approval is bound to.
Kept(tok, i, plan) == plan # None => Issued(tok, i) /\ plan = tok[i].call

KeptExact == \A i \in Messages : Kept(token, i, kept[i])

PendingFits == pending # None => Fits(token, pending.content, pending.id)

\* What a decision will resume.
Matches(tok, d) ==
    d # None /\ d.match # None => d.match.id = d.id /\ Fits(tok, d.match.content, d.id)

IInv ==
    /\ TypeOK
    /\ CallsSound
    /\ EffectsAreApproved
    /\ KeptExact
    /\ PendingFits
    /\ Matches(token, deciding)

USE AssistAssumption

-----------------------------------------------------------------------------
\* What approvals keep

\* No step changes what an approval is bound to, or unspends it.
Later(old, new) ==
    \A i \in Messages : old[i] # Cyber!Unissued =>
        /\ new[i] # Cyber!Unissued /\ new[i].call = old[i].call
        /\ old[i].status = "consumed" => new[i].status = "consumed"

LEMMA FitsStays ==
    ASSUME NEW old, NEW new, Later(old, new), NEW content, NEW i, Fits(old, content, i)
    PROVE  Fits(new, content, i)
  BY DEF Later, Fits, Issued

\* Nor does it take from a call in progress what it relies on.
LEMMA SoundStays ==
    ASSUME NEW old, NEW new, Later(old, new), NEW c, NEW k, Sound(old, c, k)
    PROVE  Sound(new, c, k)
<1>1. ASSUME NEW i, Issued(old, i)
      PROVE  new[i].call = old[i].call
  BY <1>1 DEF Later, Issued
<1>2. ASSUME Paid(old, k.id, k.plan)
      PROVE  Paid(new, k.id, k.plan)
  BY <1>2 DEF Paid, Later, Cyber!Unissued
<1>. QED
  BY <1>1, <1>2, FitsStays DEF Sound, Fits

\* So a step keeps the invariant if what it writes is sound where it writes.
LEMMA Frame ==
    ASSUME IInv, Later(token, token'), TypeOK',
           \A c \in Callers : \/ call'[c] \in {call[c], Idle}
                              \/ Sound(token', c, call'[c]),
           \A r \in ran' : r \in ran \/ (r.plan \in Guarded => Paid(token', r.id, r.plan)),
           \A i \in Messages : kept'[i] \in {kept[i], None} \/ Kept(token', i, kept'[i]),
           pending' \in {pending, None} \/ Fits(token', pending'.content, pending'.id),
           \/ deciding' = None \/ Matches(token', deciding')
           \/ /\ deciding # None /\ deciding'.match = deciding.match
              /\ deciding'.id = deciding.id
    PROVE  IInv'
<1> USE DEF IInv
<1>1. CallsSound'
  BY SoundStays DEF CallsSound
<1>2. EffectsAreApproved'
  <2> SUFFICES ASSUME NEW r \in ran', r.plan \in Guarded
               PROVE  r.id # None /\ token'[r.id].status = "consumed"
                      /\ token'[r.id].call = r.plan
    BY DEF EffectsAreApproved
  <2>1. CASE Paid(token', r.id, r.plan)
    BY <2>1 DEF Paid, Messages
  <2>2. CASE r \in ran
    <3>1. r.id # None /\ token[r.id].status = "consumed" /\ token[r.id].call = r.plan
      BY <2>2 DEF EffectsAreApproved
    <3>2. r.id \in Messages
      BY <2>2, <3>1 DEF TypeOK
    <3>. QED
      BY <3>1, <3>2 DEF Later, Cyber!Unissued
  <2>. QED
    BY <2>1, <2>2
<1>3. KeptExact'
  BY DEF KeptExact, Kept, Later, Issued
<1>4. PendingFits'
  BY FitsStays DEF PendingFits
<1>5. Matches(token, deciding)'
  BY FitsStays DEF Matches
<1>. QED
  BY <1>1, <1>2, <1>3, <1>4, <1>5

-----------------------------------------------------------------------------
\* Approvals

LEMMA SameToken == token' = token => Later(token, token')
  BY DEF Later

LEMMA IssueKeeps ==
    ASSUME Cyber!TokenTypeOK, NEW i \in Messages, NEW plan \in Guarded, Cyber!Issue(i, plan)
    PROVE  /\ Cyber!TokenTypeOK' /\ Later(token, token')
           /\ token'[i] = [status |-> "pending", call |-> plan]
<1>1. token' = [token EXCEPT ![i] = [status |-> "pending", call |-> plan]]
      /\ token[i] = Cyber!Unissued
  BY DEF Cyber!Issue
<1>2. [status |-> "pending", call |-> plan] \in Cyber!Token
  BY DEF Cyber!Token
<1>. QED
  BY <1>1, <1>2 DEF Cyber!TokenTypeOK, Later

LEMMA StatusKeeps ==
    ASSUME Cyber!TokenTypeOK, NEW i \in Messages, token[i].status # "none",
           NEW s \in {"approved", "denied", "expired", "consumed"},
           token[i].status # "consumed", Cyber!SetStatus(i, s)
    PROVE  /\ Cyber!TokenTypeOK' /\ Later(token, token')
           /\ token'[i].status = s /\ token'[i].call = token[i].call
<1>1. token[i] \in Cyber!Token
  BY DEF Cyber!TokenTypeOK, Cyber!Unissued
<1> DEFINE t == [token[i] EXCEPT !.status = s]
<1>2. t \in Cyber!Token /\ t.status = s /\ t.call = token[i].call
  BY <1>1 DEF Cyber!Token
<1>3. t # Cyber!Unissued
  BY <1>2 DEF Cyber!Unissued
<1>4. token' = [token EXCEPT ![i] = t]
  BY DEF Cyber!SetStatus
<1> HIDE DEF t
<1>. QED
  BY <1>2, <1>3, <1>4 DEF Cyber!TokenTypeOK, Later

-----------------------------------------------------------------------------
\* Steps of the interface and its host

LEMMA InitIInv == Init => IInv
<1> SUFFICES ASSUME Init PROVE IInv
  OBVIOUS
<1>1. TypeOK
  <2>1. Cyber!TokenTypeOK
    BY DEF Init, Cyber!TokenTypeOK
  <2>2. /\ kept \in [Messages -> Guarded \cup {None}]
        /\ call \in [Callers -> {Idle} \cup Busy]
    BY DEF Init
  <2>3. sends \in 0..MaxSends /\ scripts \in 0..MaxScripts /\ deaths \in 0..MaxDeaths
    BY DEF Init
  <2>4. busy \in BOOLEAN /\ pending = None /\ deciding = None /\ ran = {}
    BY DEF Init
  <2>. QED
    BY <2>1, <2>2, <2>3, <2>4 DEF TypeOK, Busy
<1>. QED
  BY <1>1 DEF Init, IInv, CallsSound, EffectsAreApproved, KeptExact, Kept, PendingFits,
              Matches

\* What a call is while it is under way.
LEMMA CallHere ==
    ASSUME IInv, NEW c \in Callers, call[c].at # "idle"
    PROVE  call[c] \in Busy /\ Sound(token, c, call[c])
  BY DEF IInv, TypeOK, CallsSound, Busy, Idle

\* A call that goes on has its type.
LEMMA GotoTyped ==
    ASSUME IInv, NEW c \in Callers, call[c].at # "idle",
           NEW at \in InBackend \cup {"show", "failed"}, Goto(c, at)
    PROVE  /\ call' \in [Callers -> {Idle} \cup Busy]
           /\ call'[c] = [at |-> at, content |-> call[c].content, id |-> call[c].id,
                          plan |-> call[c].plan]
           /\ \A d \in Callers \ {c} : call'[d] = call[d]
<1> DEFINE k == [at |-> at, content |-> call[c].content, id |-> call[c].id,
                 plan |-> call[c].plan]
<1>1. call[c] \in Busy
  BY CallHere
<1>2. [call[c] EXCEPT !.at = at] = k /\ k \in Busy
  BY <1>1 DEF Busy
<1>3. call' = [call EXCEPT ![c] = k] /\ call \in [Callers -> {Idle} \cup Busy]
  BY <1>2 DEF Goto, IInv, TypeOK, Busy
<1>. QED
  BY <1>2, <1>3

LEMMA SendStep ==
    ASSUME IInv, NEW content \in Contents, Send(content)
    PROVE  IInv'
<1>1. sends + 1 \in Messages /\ sends + 1 \in Callers /\ sends + 1 # Resume
  BY DEF Send, IInv, TypeOK, Messages, Callers, Resume
<1>2. Asked(content) \in Busy
  BY DEF Asked, Busy, InBackend
<1>3. call' = [call EXCEPT ![sends + 1] = Asked(content)] /\ sends' = sends + 1
      /\ busy' = TRUE /\ UNCHANGED <<backend, kept, pending, deciding, scripts, deaths>>
  BY DEF Send
<1>4. TypeOK'
  BY <1>1, <1>2, <1>3 DEF IInv, TypeOK, Busy, backend, Cyber!TokenTypeOK, Messages
<1>5. Sound(token, sends + 1, Asked(content))
  BY <1>1 DEF Sound, Asked
<1>6. \A c \in Callers : call'[c] = call[c] \/ Sound(token, c, call'[c])
  BY <1>3, <1>5 DEF IInv, TypeOK
<1>. QED
  BY <1>3, <1>4, <1>6, SameToken, Frame DEF backend, IInv

LEMMA RememberStep ==
    ASSUME IInv, NEW c \in Callers, Remember(c)
    PROVE  IInv'
<1>1. call[c] \in Busy /\ Sound(token, c, call[c]) /\ call[c].at = "ask"
  BY CallHere DEF Remember
<1>2. c \in Messages /\ call[c].id = c /\ call[c].plan \in Guarded
      /\ Fits(token, call[c].content, c) /\ token[c].call = call[c].plan
  BY <1>1 DEF Sound
<1>3. /\ call' \in [Callers -> {Idle} \cup Busy]
      /\ call'[c] = [at |-> "show", content |-> call[c].content, id |-> call[c].id,
                     plan |-> call[c].plan]
      /\ \A d \in Callers \ {c} : call'[d] = call[d]
  BY <1>1, GotoTyped DEF Remember
<1>4. /\ kept' = [kept EXCEPT ![c] = call[c].plan]
      /\ UNCHANGED <<backend, pending, busy, deciding, bounds>>
  BY <1>2 DEF Remember
<1>5. TypeOK'
  BY <1>2, <1>3, <1>4 DEF IInv, TypeOK, Busy, backend, bounds, Cyber!TokenTypeOK
<1>6. Sound(token, c, call'[c])
  BY <1>1, <1>2, <1>3 DEF Sound
<1>7. \A i \in Messages : kept'[i] = kept[i] \/ Kept(token, i, kept'[i])
  BY <1>2, <1>4 DEF IInv, TypeOK, Kept, Fits
<1>. QED
  BY <1>3, <1>4, <1>5, <1>6, <1>7, SameToken, Frame DEF backend, IInv

LEMMA ShowStep ==
    ASSUME IInv, NEW c \in Callers, Show(c)
    PROVE  IInv'
<1>1. call[c] \in Busy /\ Sound(token, c, call[c]) /\ call[c].at = "show"
  BY CallHere DEF Show
<1>2. call[c].id \in Messages /\ Fits(token, call[c].content, call[c].id)
      /\ call[c].content \in Contents
  BY <1>1 DEF Sound, Busy
<1>3. /\ pending' = [id |-> call[c].id, content |-> call[c].content] /\ busy' = FALSE
      /\ call' = [call EXCEPT ![c] = Idle]
      /\ UNCHANGED <<backend, kept, deciding, bounds>>
  BY DEF Show
<1>4. TypeOK'
  BY <1>2, <1>3 DEF IInv, TypeOK, Waiting, backend, bounds, Cyber!TokenTypeOK
<1>5. \A d \in Callers : call'[d] \in {call[d], Idle}
  BY <1>3 DEF IInv, TypeOK
<1>. QED
  BY <1>2, <1>3, <1>4, <1>5, SameToken, Frame DEF backend, IInv

\* A call that ends with nothing to show.
LEMMA EndStep ==
    ASSUME IInv, \/ \E c \in Callers : Settle(c)
                 \/ SettleResume \/ SettleScript
    PROVE  IInv'
<1>1. \E c \in Callers : call' = [call EXCEPT ![c] = Idle]
  BY DEF Settle, SettleResume, SettleScript, Callers, Resume, ScriptCall
<1>2. /\ UNCHANGED <<backend, kept, bounds>> /\ pending' \in {pending, None}
      /\ busy' \in {busy, FALSE} /\ deciding' \in {deciding, None}
  BY DEF Settle, SettleResume, SettleScript, desktop
<1>3. \A d \in Callers : call'[d] \in {call[d], Idle}
  BY <1>1 DEF IInv, TypeOK
<1>4. TypeOK'
  BY <1>1, <1>2 DEF IInv, TypeOK, backend, bounds, Cyber!TokenTypeOK
<1>. QED
  BY <1>2, <1>3, <1>4, SameToken, Frame DEF backend, IInv

LEMMA ClickStep ==
    ASSUME IInv, NEW id \in Messages, NEW allow \in BOOLEAN, Click(id, allow)
    PROVE  IInv'
<1> DEFINE match == IF pending # None /\ pending.id = id THEN pending ELSE None
           d == [at |-> "asked", id |-> id, allow |-> allow, match |-> match]
<1>1. /\ deciding' = d
      /\ UNCHANGED <<backend, kept, pending, busy, call, bounds>>
  BY DEF Click
<1>2. match \in Waiting \cup {None}
  BY DEF IInv, TypeOK
<1>3. match # None => match.id = id /\ Fits(token, match.content, id)
  BY DEF IInv, PendingFits
<1> HIDE DEF match
<1>4. Matches(token, d)
  BY <1>3 DEF Matches
<1>5. d \in [at : {"asked", "told", "resuming"}, id : Messages, allow : BOOLEAN,
             match : Waiting \cup {None}]
  BY <1>2
<1> HIDE DEF d
<1>6. TypeOK'
  BY <1>1, <1>5 DEF IInv, TypeOK, backend, bounds, Cyber!TokenTypeOK
<1>. QED
  BY <1>1, <1>4, <1>6, SameToken, Frame DEF backend, IInv

Decisions == [at : {"asked", "told", "resuming"}, id : Messages, allow : BOOLEAN,
              match : Waiting \cup {None}]

LEMMA PanelStep ==
    ASSUME IInv, PanelDecides
    PROVE  IInv'
<1>1. /\ deciding \in Decisions /\ deciding # None
      /\ UNCHANGED <<ran, kept, pending, busy, call, bounds>>
  BY DEF PanelDecides, IInv, TypeOK, Decisions
<1>2. CASE token[deciding.id].status = "pending"
  <2>1. deciding.id \in Messages /\ Cyber!TokenTypeOK
    BY <1>1 DEF Decisions, IInv, TypeOK
  <2>2. PICK s \in {"approved", "denied"} : Cyber!SetStatus(deciding.id, s)
    BY <1>2 DEF PanelDecides, Cyber!Decide
  <2>3. Cyber!TokenTypeOK' /\ Later(token, token')
    BY <1>2, <2>1, <2>2, StatusKeeps
  <2>4. deciding' = [deciding EXCEPT !.at = "told"]
    BY <1>2 DEF PanelDecides
  <2>5. deciding' \in Decisions /\ deciding'.match = deciding.match
        /\ deciding'.id = deciding.id
    BY <1>1, <2>4 DEF Decisions
  <2>6. TypeOK'
    BY <1>1, <2>3, <2>5 DEF IInv, TypeOK, Decisions, bounds
  <2>. QED
    BY <1>1, <2>3, <2>5, <2>6, Frame DEF IInv
<1>3. CASE token[deciding.id].status # "pending"
  <2>1. deciding' = None /\ token' = token
    BY <1>3 DEF PanelDecides
  <2>2. TypeOK'
    BY <1>1, <2>1 DEF IInv, TypeOK, bounds, Cyber!TokenTypeOK
  <2>. QED
    BY <1>1, <2>1, <2>2, SameToken, Frame DEF IInv
<1>. QED
  BY <1>2, <1>3

LEMMA HearDeniedStep ==
    ASSUME IInv, HearDenied
    PROVE  IInv'
<1>1. /\ deciding' = None /\ pending' \in {pending, None}
      /\ kept' = [kept EXCEPT ![deciding.id] = None]
      /\ UNCHANGED <<backend, busy, call, bounds>>
  BY DEF HearDenied
<1>2. TypeOK'
  BY <1>1 DEF IInv, TypeOK, backend, bounds, Cyber!TokenTypeOK
<1>3. \A i \in Messages : kept'[i] \in {kept[i], None}
  BY <1>1 DEF IInv, TypeOK
<1>. QED
  BY <1>1, <1>2, <1>3, SameToken, Frame DEF backend, IInv

\* The resume takes the plan the host kept, or none.
LEMMA HearApprovedStep ==
    ASSUME IInv, HearApproved
    PROVE  IInv'
<1>1. deciding \in Decisions /\ deciding # None /\ UNCHANGED <<backend, pending, bounds>>
  BY DEF HearApproved, IInv, TypeOK, Decisions
<1>2. CASE deciding.match = None
  <2>1. deciding' = None /\ UNCHANGED <<kept, busy, call>>
    BY <1>2 DEF HearApproved
  <2>2. TypeOK'
    BY <1>1, <2>1 DEF IInv, TypeOK, backend, bounds, Cyber!TokenTypeOK
  <2>. QED
    BY <1>1, <2>1, <2>2, SameToken, Frame DEF backend, IInv
<1>3. CASE deciding.match # None
  <2> DEFINE i == deciding.id
             k == [at |-> "plan", content |-> deciding.match.content, id |-> i,
                   plan |-> kept[i]]
  <2>1. i \in Messages /\ Fits(token, deciding.match.content, i)
        /\ deciding.match.content \in Contents
    BY <1>1, <1>3 DEF Decisions, Waiting, IInv, Matches
  <2>2. /\ call' = [call EXCEPT ![Resume] = k]
        /\ kept' = [kept EXCEPT ![i] = None] /\ busy' = TRUE
        /\ deciding' = [deciding EXCEPT !.at = "resuming"]
    BY <1>3 DEF HearApproved, Resumed
  <2>3. kept[i] \in Guarded \cup {None} /\ Kept(token, i, kept[i])
    BY <2>1 DEF IInv, TypeOK, KeptExact
  <2>4. k \in Busy /\ Sound(token, Resume, k)
    BY <2>1, <2>3 DEF Busy, InBackend, Sound, Kept
  <2>5. /\ deciding' \in Decisions /\ deciding'.match = deciding.match
        /\ deciding'.id = deciding.id
    BY <1>1, <2>2 DEF Decisions
  <2> HIDE DEF k
  <2>6. Resume \in Callers
    BY DEF Resume, Callers
  <2>7. call' \in [Callers -> {Idle} \cup Busy]
        /\ \A c \in Callers : call'[c] = call[c] \/ Sound(token, c, call'[c])
    BY <2>2, <2>4, <2>6 DEF IInv, TypeOK, Busy
  <2>8. kept' \in [Messages -> Guarded \cup {None}]
        /\ \A j \in Messages : kept'[j] \in {kept[j], None}
    BY <2>1, <2>2 DEF IInv, TypeOK
  <2>9. TypeOK'
    BY <1>1, <2>2, <2>5, <2>7, <2>8
       DEF IInv, TypeOK, Decisions, Busy, backend, bounds, Cyber!TokenTypeOK
  <2>. QED
    BY <1>1, <2>5, <2>7, <2>8, <2>9, SameToken, Frame DEF backend, IInv
<1>. QED
  BY <1>2, <1>3

LEMMA ScriptStep ==
    ASSUME IInv, NEW id \in Messages, NEW content \in Contents, Script(id, content)
    PROVE  IInv'
<1> DEFINE k == [at |-> "plan", content |-> content, id |-> id, plan |-> None]
<1>1. ScriptCall \in Callers /\ ScriptCall # Resume /\ ScriptCall \notin Messages
  BY DEF ScriptCall, Callers, Resume, Messages
<1>2. /\ call' = [call EXCEPT ![ScriptCall] = k]
      /\ scripts' = scripts + 1 /\ scripts < MaxScripts
      /\ UNCHANGED <<backend, desktop, sends, deaths>>
  BY DEF Script, Resumed
<1>3. k \in Busy /\ Sound(token, ScriptCall, k)
  BY <1>1 DEF Busy, InBackend, Sound
<1> HIDE DEF k
<1>4. call' \in [Callers -> {Idle} \cup Busy]
      /\ \A c \in Callers : call'[c] = call[c] \/ Sound(token, c, call'[c])
  BY <1>1, <1>2, <1>3 DEF IInv, TypeOK, Busy
<1>5. TypeOK'
  BY <1>2, <1>4 DEF IInv, TypeOK, Busy, backend, desktop, Cyber!TokenTypeOK
<1>. QED
  BY <1>2, <1>4, <1>5, SameToken, Frame DEF backend, desktop, IInv

-----------------------------------------------------------------------------
\* Steps of the backend

\* A call that goes on and touches nothing else.
LEMMA AdvanceQuietly ==
    ASSUME IInv, NEW c \in Callers, call[c].at # "idle",
           NEW at \in InBackend \cup {"show", "failed"}, Goto(c, at),
           UNCHANGED <<backend, desktop, bounds>>,
           Sound(token, c, [at |-> at, content |-> call[c].content, id |-> call[c].id,
                            plan |-> call[c].plan])
    PROVE  IInv'
<1>1. /\ call' \in [Callers -> {Idle} \cup Busy]
      /\ \A d \in Callers : call'[d] = call[d] \/ Sound(token, d, call'[d])
  BY GotoTyped
<1>2. TypeOK'
  BY <1>1 DEF IInv, TypeOK, Busy, backend, desktop, bounds, Cyber!TokenTypeOK
<1>. QED
  BY <1>1, <1>2, SameToken, Frame DEF backend, desktop, IInv

\* Nothing is relied on by a call that failed.
LEMMA FailedSound ==
    ASSUME NEW c, NEW k, Sound(token, c, k)
    PROVE  Sound(token, c, [at |-> "failed", content |-> k.content, id |-> k.id,
                            plan |-> k.plan])
  BY DEF Sound

\* The rules are what makes a resume without its plan exact.
LEMMA PlanStep ==
    ASSUME IInv, NEW c \in Callers, PlanAction(c)
    PROVE  IInv'
<1>1. call[c] \in Busy /\ Sound(token, c, call[c]) /\ call[c].at = "plan"
      /\ UNCHANGED <<backend, desktop, bounds>>
  BY CallHere DEF PlanAction
<1> DEFINE choices == IF call[c].id = None THEN Planned(call[c].content)
                      ELSE ResumePlans(call[c].content, call[c].plan)
<1>2. CASE choices = {}
  BY <1>1, <1>2, AdvanceQuietly, FailedSound DEF PlanAction
<1>3. CASE choices # {}
  <2>1. PICK p \in choices :
            Continue(c, IF p = None THEN "answer" ELSE "invoke", call[c].id, p)
    BY <1>3 DEF PlanAction
  <2>2. p \in Plans \cup {None}
    BY <1>1 DEF Planned, ResumePlans, Busy
  <2>3. call[c].id = None /\ call[c].content \in DOMAIN Deterministic =>
            p = Deterministic[call[c].content]
    BY DEF Planned
  <2>4. c = Resume => p \in Plans /\ p = token[call[c].id].call
    <3> SUFFICES ASSUME c = Resume PROVE p \in Plans /\ p = token[call[c].id].call
      OBVIOUS
    <3>1. Fits(token, call[c].content, call[c].id)
          /\ call[c].plan \in {None, token[call[c].id].call}
      BY <1>1 DEF Sound
    <3>2. call[c].id # None
      BY <3>1 DEF Fits, Issued, Messages
    <3>3. p \in ResumePlans(call[c].content, call[c].plan)
      BY <3>2
    <3>. QED
      BY <1>1, <3>1, <3>3 DEF ResumePlans, Fits, Busy
  <2> DEFINE at == IF p = None THEN "answer" ELSE "invoke"
             k == [at |-> at, content |-> call[c].content, id |-> call[c].id, plan |-> p]
  <2>5. at \in {"answer", "invoke"} /\ (at = "invoke" <=> p # None)
    OBVIOUS
  <2>6. call' = [call EXCEPT ![c] = k]
    BY <2>1 DEF Continue
  <2> HIDE DEF at, choices
  <2>7. k \in Busy
    BY <1>1, <2>2, <2>5 DEF Busy, InBackend
  <2>8. Sound(token, c, k)
    BY <1>1, <2>2, <2>3, <2>4, <2>5 DEF Sound
  <2> HIDE DEF k
  <2>9. call' \in [Callers -> {Idle} \cup Busy]
        /\ \A d \in Callers : call'[d] = call[d] \/ Sound(token, d, call'[d])
    BY <2>6, <2>7, <2>8 DEF IInv, TypeOK, Busy
  <2>10. TypeOK'
    BY <1>1, <2>9 DEF IInv, TypeOK, Busy, backend, desktop, bounds, Cyber!TokenTypeOK
  <2>. QED
    BY <1>1, <2>9, <2>10, SameToken, Frame DEF backend, desktop, IInv
<1>. QED
  BY <1>2, <1>3

\* A message asks under its own number, for what its text was planned to be.
LEMMA AskStep ==
    ASSUME IInv, NEW c \in Callers, AskApproval(c)
    PROVE  IInv'
<1>1. call[c] \in Busy /\ Sound(token, c, call[c])
  BY CallHere DEF AskApproval
<1>2. /\ call[c].at = "invoke" /\ call[c].id = None /\ call[c].plan \in Guarded
      /\ Cyber!Issue(c, call[c].plan) /\ UNCHANGED <<ran, desktop, bounds>>
  BY DEF AskApproval
<1>3. c \in Messages /\ c # Resume
  BY <1>1, <1>2 DEF Sound, Messages, Resume
<1> DEFINE k == [at |-> "ask", content |-> call[c].content, id |-> c, plan |-> call[c].plan]
<1>4. call' = [call EXCEPT ![c] = k] /\ k \in Busy
  BY <1>1, <1>3 DEF AskApproval, Continue, Busy, InBackend
<1>5. /\ Cyber!TokenTypeOK' /\ Later(token, token')
      /\ token'[c] = [status |-> "pending", call |-> call[c].plan]
  BY <1>2, <1>3, IssueKeeps DEF IInv, TypeOK
<1>6. Fits(token', k.content, c) /\ token'[c].call = k.plan
  BY <1>1, <1>2, <1>3, <1>5 DEF Fits, Issued, Sound, Cyber!Unissued
<1>7. Sound(token', c, k)
  BY <1>1, <1>2, <1>3, <1>6 DEF Sound
<1> HIDE DEF k
<1>8. call' \in [Callers -> {Idle} \cup Busy]
      /\ \A d \in Callers : call'[d] = call[d] \/ Sound(token', d, call'[d])
  BY <1>4, <1>7 DEF IInv, TypeOK, Busy
<1>9. TypeOK'
  BY <1>2, <1>5, <1>8 DEF IInv, TypeOK, Busy, desktop, bounds
<1>. QED
  BY <1>2, <1>5, <1>8, <1>9, Frame DEF desktop, IInv

LEMMA InvokeFreelyStep ==
    ASSUME IInv, NEW c \in Callers, InvokeFreely(c)
    PROVE  IInv'
<1>1. call[c] \in Busy /\ Sound(token, c, call[c])
  BY CallHere DEF InvokeFreely
<1>2. Sound(token, c, [at |-> "execute", content |-> call[c].content, id |-> call[c].id,
                       plan |-> call[c].plan])
  BY <1>1 DEF InvokeFreely, Sound
<1>. QED
  BY <1>2, AdvanceQuietly DEF InvokeFreely, InBackend

\* What is run with an approval has spent it.
LEMMA InvokeAuthorizedStep ==
    ASSUME IInv, NEW c \in Callers, InvokeAuthorized(c)
    PROVE  IInv'
<1>1. /\ call[c] \in Busy /\ Sound(token, c, call[c]) /\ call[c].at = "invoke"
      /\ call[c].id \in Messages
      /\ UNCHANGED <<ran, desktop, bounds>>
  BY CallHere DEF InvokeAuthorized, Busy
<1>2. CASE Authorizes(call[c].id, call[c].plan)
  <2>1. token[call[c].id].status = "approved" /\ token[call[c].id].call = call[c].plan
    BY <1>2 DEF Authorizes, Cyber!Spendable
  <2>2. Cyber!SetStatus(call[c].id, "consumed") /\ Goto(c, "execute")
    BY <1>2 DEF InvokeAuthorized
  <2>3. /\ Cyber!TokenTypeOK' /\ Later(token, token')
        /\ token'[call[c].id].status = "consumed"
        /\ token'[call[c].id].call = call[c].plan
    BY <1>1, <2>1, <2>2, StatusKeeps DEF IInv, TypeOK
  <2>4. /\ call' \in [Callers -> {Idle} \cup Busy]
        /\ call'[c] = [at |-> "execute", content |-> call[c].content, id |-> call[c].id,
                       plan |-> call[c].plan]
        /\ \A d \in Callers \ {c} : call'[d] = call[d]
    BY <1>1, <2>2, GotoTyped DEF InBackend
  <2>5. Sound(token', c, call[c])
    BY <1>1, <2>3, SoundStays
  <2>6. Sound(token', c, call'[c])
    BY <1>1, <2>3, <2>4, <2>5 DEF Sound, Paid
  <2>7. TypeOK'
    BY <1>1, <2>3, <2>4 DEF IInv, TypeOK, Busy, desktop, bounds
  <2>. QED
    BY <1>1, <2>3, <2>4, <2>6, <2>7, Frame DEF desktop, IInv
<1>3. CASE ~Authorizes(call[c].id, call[c].plan)
  BY <1>1, <1>3, FailedSound, AdvanceQuietly DEF InvokeAuthorized, backend
<1>. QED
  BY <1>2, <1>3

LEMMA ExecuteStep ==
    ASSUME IInv, NEW c \in Callers, Execute(c)
    PROVE  IInv'
<1>1. /\ call[c] \in Busy /\ Sound(token, c, call[c]) /\ call[c].at = "execute"
      /\ UNCHANGED <<token, desktop, bounds>>
  BY CallHere DEF Execute
<1>2. PICK at \in {"answer", "failed"} : Goto(c, at)
  BY DEF Execute
<1>3. /\ call' \in [Callers -> {Idle} \cup Busy]
      /\ call'[c] = [at |-> at, content |-> call[c].content, id |-> call[c].id,
                     plan |-> call[c].plan]
      /\ \A d \in Callers \ {c} : call'[d] = call[d]
  BY <1>1, <1>2, GotoTyped DEF InBackend
<1>4. Sound(token, c, call'[c])
  BY <1>1, <1>3 DEF Sound
<1> DEFINE r == [id |-> call[c].id, plan |-> call[c].plan]
<1>5. ran' \in {ran, ran \cup {r}}
  BY DEF Execute
<1>6. r \in [id : Messages \cup {None}, plan : Plans]
      /\ (r.plan \in Guarded => Paid(token, r.id, r.plan))
  BY <1>1 DEF Sound, Busy
<1> HIDE DEF r
<1>7. TypeOK'
  BY <1>1, <1>3, <1>5, <1>6 DEF IInv, TypeOK, Busy, desktop, bounds, Cyber!TokenTypeOK
<1>. QED
  BY <1>1, <1>3, <1>4, <1>5, <1>6, <1>7, SameToken, Frame DEF desktop, IInv

LEMMA AnswerStep ==
    ASSUME IInv, NEW c \in Callers, AnswerAction(c)
    PROVE  IInv'
<1>1. /\ call[c] \in Busy /\ Sound(token, c, call[c]) /\ call[c].at = "answer"
      /\ UNCHANGED <<backend, desktop, bounds>>
  BY CallHere DEF AnswerAction
<1>2. PICK at \in {"reply", "failed"} : Goto(c, at)
  BY DEF AnswerAction
<1>3. Sound(token, c, [at |-> at, content |-> call[c].content, id |-> call[c].id,
                       plan |-> call[c].plan])
  BY <1>1 DEF Sound
<1>. QED
  BY <1>1, <1>2, <1>3, AdvanceQuietly DEF InBackend

LEMMA DieStep ==
    ASSUME IInv, Die
    PROVE  IInv'
<1>1. /\ deaths < MaxDeaths /\ deaths' = deaths + 1 /\ deciding' \in {deciding, None}
      /\ UNCHANGED <<backend, kept, pending, busy, sends, scripts>>
  BY DEF Die
<1>2. DOMAIN call' = Callers /\ call' = [c \in Callers |-> call'[c]]
  BY DEF Die
<1>3. ASSUME NEW c \in Callers
      PROVE  /\ call'[c] \in {Idle} \cup Busy
             /\ call'[c] = call[c] \/ Sound(token, c, call'[c])
  <2>1. CASE call'[c] = call[c]
    BY <2>1 DEF IInv, TypeOK, Busy
  <2>2. CASE call[c].at \in InBackend /\ call'[c] = [call[c] EXCEPT !.at = "failed"]
    <3>1. call[c] \in Busy /\ Sound(token, c, call[c])
      BY <2>2, CallHere DEF InBackend
    <3>2. call'[c] = [at |-> "failed", content |-> call[c].content, id |-> call[c].id,
                      plan |-> call[c].plan] /\ call'[c] \in Busy
      BY <2>2, <3>1 DEF Busy
    <3>. QED
      BY <3>1, <3>2, FailedSound
  <2>. QED
    BY <2>1, <2>2 DEF Die
<1>4. call' \in [Callers -> {Idle} \cup Busy]
  BY <1>2, <1>3
<1>5. TypeOK'
  BY <1>1, <1>4 DEF IInv, TypeOK, Busy, backend, Cyber!TokenTypeOK
<1>. QED
  BY <1>1, <1>3, <1>5, SameToken, Frame DEF backend, IInv

LEMMA LapseStep ==
    ASSUME IInv, NEW id \in Messages, Lapse(id)
    PROVE  IInv'
<1>1. Cyber!TokenTypeOK' /\ Later(token, token')
  BY StatusKeeps DEF Lapse, Cyber!Lapse, IInv, TypeOK
<1>2. UNCHANGED <<ran, desktop, call, bounds>>
  BY DEF Lapse
<1>3. TypeOK'
  BY <1>1, <1>2 DEF IInv, TypeOK, desktop, bounds
<1>. QED
  BY <1>1, <1>2, <1>3, Frame DEF desktop, IInv

LEMMA NextIInv == IInv /\ [Next]_vars => IInv'
<1> SUFFICES ASSUME IInv, [Next]_vars PROVE IInv'
  OBVIOUS
<1>1. ASSUME NEW content \in Contents, Send(content) PROVE IInv'
  BY <1>1, SendStep
<1>2. ASSUME NEW id \in Messages, NEW allow \in BOOLEAN, Click(id, allow) PROVE IInv'
  BY <1>2, ClickStep
<1>3. ASSUME NEW id \in Messages, NEW content \in Contents, Script(id, content) PROVE IInv'
  BY <1>3, ScriptStep
<1>4. ASSUME NEW c \in Callers, Advance(c) PROVE IInv'
  <2>1. CASE PlanAction(c)
    BY <2>1, PlanStep
  <2>2. CASE InvokeFreely(c) \/ InvokeAuthorized(c)
    BY <2>2, InvokeFreelyStep, InvokeAuthorizedStep
  <2>3. CASE AskApproval(c)
    BY <2>3, AskStep
  <2>4. CASE Execute(c) \/ AnswerAction(c)
    BY <2>4, ExecuteStep, AnswerStep
  <2>5. CASE Remember(c) \/ Show(c)
    BY <2>5, RememberStep, ShowStep
  <2>6. CASE Settle(c)
    BY <2>6, EndStep
  <2>. QED
    BY <1>4, <2>1, <2>2, <2>3, <2>4, <2>5, <2>6 DEF Advance
<1>5. CASE Decision
  BY <1>5, PanelStep, HearDeniedStep, HearApprovedStep DEF Decision
<1>6. CASE SettleResume \/ SettleScript
  BY <1>6, EndStep
<1>7. CASE Die
  BY <1>7, DieStep
<1>8. ASSUME NEW id \in Messages, Lapse(id) PROVE IInv'
  BY <1>8, LapseStep
<1>9. CASE UNCHANGED vars
  <2>1. UNCHANGED <<backend, desktop, call, bounds>>
    BY <1>9 DEF vars
  <2>2. TypeOK'
    BY <2>1 DEF IInv, TypeOK, Busy, backend, desktop, bounds, Cyber!TokenTypeOK
  <2>. QED
    BY <2>1, <2>2, SameToken, Frame DEF backend, desktop, IInv
<1>. QED
  BY <1>1, <1>2, <1>3, <1>4, <1>5, <1>6, <1>7, <1>8, <1>9 DEF Next

-----------------------------------------------------------------------------
\* Theorems

\* Approvals, kept plans, the action that waits, decisions and calls agree in
\* every reachable state.
THEOREM AssistInvariance == Spec => []IInv
  BY InitIInv, NextIInv, PTL DEF Spec

\* Every variable has its type, for any number of messages and of deaths.
THEOREM AssistTypeCorrect == Spec => []TypeOK
<1>1. IInv => TypeOK
  BY DEF IInv
<1>. QED
  BY <1>1, AssistInvariance, PTL

\* An effect that needs approval is run with a consumed approval for exactly
\* that plan, whoever resumes it and with whatever text.
THEOREM EffectsApproved == Spec => []EffectsAreApproved
<1>1. IInv => EffectsAreApproved
  BY DEF IInv
<1>. QED
  BY <1>1, AssistInvariance, PTL

\* A resume of the desktop does what its card showed, whether the host still
\* kept the plan or the rules made it again.
THEOREM ResumesExact == Spec => []ResumeIsExact
<1>1. IInv => ResumeIsExact
  <2>1. Resume \in Callers
    BY DEF Resume, Callers
  <2>. QED
    BY <2>1 DEF IInv, CallsSound, Sound, ResumeIsExact, Idle
<1>. QED
  BY <1>1, AssistInvariance, PTL

-----------------------------------------------------------------------------
\* The approvals

\* Whatever a step does to the approvals, the approval store promises it.
LEMMA TokenSteps ==
    ASSUME IInv, [Next]_vars
    PROVE  [Cyber!TokenNext]_token
<1>1. ASSUME NEW c \in Callers, AskApproval(c)
      PROVE  Cyber!TokenNext
  <2>1. call[c] \in Busy /\ Sound(token, c, call[c])
    BY <1>1, CallHere DEF AskApproval
  <2>2. call[c].id = None /\ call[c].plan \in Guarded /\ Cyber!Issue(c, call[c].plan)
    BY <1>1 DEF AskApproval
  <2>3. c \in Messages
    BY <2>1, <2>2 DEF Sound, Messages
  <2>. QED
    BY <2>2, <2>3 DEF Cyber!TokenNext
<1>2. ASSUME NEW c \in Callers, InvokeAuthorized(c)
      PROVE  [Cyber!TokenNext]_token
  <2>1. call[c].id \in Messages
    BY <1>2, CallHere DEF InvokeAuthorized, Busy
  <2>2. CASE Authorizes(call[c].id, call[c].plan)
    <3>1. Cyber!Spend(call[c].id, call[c].plan)
      BY <1>2, <2>2 DEF InvokeAuthorized, Authorizes, Cyber!Spend
    <3>2. token[call[c].id] \in Cyber!Token
      BY <2>1, <2>2 DEF Authorizes, Cyber!Spendable, IInv, TypeOK, Cyber!TokenTypeOK,
         Cyber!Unissued
    <3>3. call[c].plan \in Guarded
      BY <2>2, <3>2 DEF Authorizes, Cyber!Spendable, Cyber!Token
    <3>. QED
      BY <2>1, <3>1, <3>3 DEF Cyber!TokenNext
  <2>. QED
    BY <1>2, <2>2 DEF InvokeAuthorized
<1>3. CASE PanelDecides
  <2>1. deciding.id \in Messages
    BY <1>3 DEF PanelDecides, IInv, TypeOK
  <2>2. \/ \E verdict \in {"approved", "denied"} : Cyber!Decide(deciding.id, verdict)
        \/ UNCHANGED token
    BY <1>3 DEF PanelDecides
  <2>. QED
    BY <2>1, <2>2 DEF Cyber!TokenNext
<1>4. ASSUME NEW id \in Messages, Lapse(id)
      PROVE  Cyber!TokenNext
  BY <1>4 DEF Lapse, Cyber!TokenNext
<1>5. ASSUME NEW c \in Callers,
             \/ PlanAction(c) \/ InvokeFreely(c) \/ Execute(c) \/ AnswerAction(c)
             \/ Remember(c) \/ Show(c) \/ Settle(c)
      PROVE  UNCHANGED token
  BY <1>5 DEF PlanAction, InvokeFreely, Execute, AnswerAction, Remember, Show, Settle, backend
<1>6. CASE \/ \E content \in Contents : Send(content)
           \/ \E id \in Messages, allow \in BOOLEAN : Click(id, allow)
           \/ \E id \in Messages, content \in Contents : Script(id, content)
           \/ HearDenied \/ HearApproved \/ SettleResume \/ SettleScript \/ Die
           \/ UNCHANGED vars
  BY <1>6 DEF Send, Click, Script, HearDenied, HearApproved, SettleResume, SettleScript,
     Die, vars, backend
<1>7. ASSUME NEW c \in Callers, Advance(c)
      PROVE  [Cyber!TokenNext]_token
  BY <1>1, <1>2, <1>5, <1>7 DEF Advance
<1>. QED
  BY <1>3, <1>4, <1>6, <1>7 DEF Next, Decision

\* The desktop, its backend and the script use approvals only in ways the
\* approval store promises (ApprovalToken, which Approvals implements): one is
\* issued for one plan, decided once, and spent at most once and for that plan,
\* though backends die and a script resumes beside the interface.
THEOREM AssistUsesTokens == Spec => Cyber!TokenSpec
<1>1. Init => Cyber!TokenInit
  BY DEF Init, Cyber!TokenInit
<1>2. IInv /\ [Next]_vars => [Cyber!TokenNext]_token
  BY TokenSteps
<1>. QED
  BY <1>1, <1>2, AssistInvariance, PTL DEF Spec, Cyber!TokenSpec

-----------------------------------------------------------------------------
\* One effect for one approval

\* A call that is about to act on an approval it has spent.
Executing(k) == k.at = "execute" /\ k.id # None

\* Nobody else acts, or has acted, on that approval.
OneEffectEach ==
    \A c \in Callers : Executing(call[c]) =>
        /\ \A r \in ran : r.id # call[c].id
        /\ \A d \in Callers \ {c} : Executing(call[d]) => call[d].id # call[c].id

\* What was acted on, or is about to be, is spent.
ActsAreSpent ==
    /\ \A c \in Callers : Executing(call[c]) => token[call[c].id].status = "consumed"
    /\ \A r \in ran : r.id # None => token[r.id].status = "consumed"

\* What is spent stays spent, as the approval store promises.
LEMMA SpentStaysSpent ==
    ASSUME IInv, [Next]_vars, NEW i \in Messages, token[i].status = "consumed"
    PROVE  token'[i].status = "consumed"
<1>1. token \in [Messages -> Cyber!Token \cup {Cyber!Unissued}]
  BY DEF IInv, TypeOK, Cyber!TokenTypeOK
<1>2. CASE Cyber!TokenNext
  <2>1. PICK j \in Messages :
            \/ \E k \in Guarded : Cyber!Issue(j, k) \/ Cyber!Spend(j, k)
            \/ \E verdict \in {"approved", "denied"} : Cyber!Decide(j, verdict)
            \/ Cyber!Lapse(j)
    BY <1>2 DEF Cyber!TokenNext
  <2>2. j # i
    BY <2>1 DEF Cyber!Issue, Cyber!Spend, Cyber!Spendable, Cyber!Decide, Cyber!Lapse,
       Cyber!Unissued
  <2>3. token'[i] = token[i]
    BY <1>1, <2>1, <2>2 DEF Cyber!Issue, Cyber!Spend, Cyber!Decide, Cyber!Lapse, Cyber!SetStatus
  <2>. QED
    BY <2>3
<1>. QED
  BY <1>2, TokenSteps

\* What a move of a call changes, and what it leaves.
LEMMA Moved ==
    ASSUME IInv, NEW c \in Callers, call[c].at # "idle",
           NEW at \in InBackend \cup {"show", "failed"}, Goto(c, at)
    PROVE  /\ call'[c].at = at /\ call'[c].id = call[c].id
           /\ \A d \in Callers \ {c} : call'[d] = call[d]
<1>1. /\ call'[c] = [at |-> at, content |-> call[c].content, id |-> call[c].id,
                     plan |-> call[c].plan]
      /\ \A d \in Callers \ {c} : call'[d] = call[d]
  BY GotoTyped
<1>. QED
  BY <1>1

\* A step after which only calls execute that did before.
LEMMA NoNewEffect ==
    ASSUME IInv, OneEffectEach, ActsAreSpent, [Next]_vars, UNCHANGED ran,
           \A c \in Callers : Executing(call'[c]) =>
                Executing(call[c]) /\ call'[c].id = call[c].id
    PROVE  OneEffectEach' /\ ActsAreSpent'
<1>1. OneEffectEach'
  BY DEF OneEffectEach
<1>2. \A c \in Callers : Executing(call[c]) => call[c].id \in Messages
  BY CallHere DEF Executing, Busy
<1>3. \A r \in ran : r.id # None => r.id \in Messages
  BY DEF IInv, TypeOK
<1>4. ActsAreSpent'
  BY <1>2, <1>3, SpentStaysSpent DEF ActsAreSpent
<1>. QED
  BY <1>1, <1>4

\* A call that spends an approval is the first to act on it.
LEMMA FirstToAct ==
    ASSUME IInv, OneEffectEach, ActsAreSpent, NEW c \in Callers, InvokeAuthorized(c)
    PROVE  OneEffectEach' /\ ActsAreSpent'
<1>0. Next
  BY DEF Next, Advance
<1>1. /\ call[c] \in Busy /\ call[c].id \in Messages /\ UNCHANGED ran
      /\ ~Executing(call[c])
  BY CallHere DEF InvokeAuthorized, Busy, Executing
<1>2. PICK at \in {"execute", "failed"} :
        /\ Goto(c, at)
        /\ at = "execute" =>
            /\ token[call[c].id].status = "approved"
            /\ Cyber!SetStatus(call[c].id, "consumed")
  BY DEF InvokeAuthorized, Authorizes, Cyber!Spendable
<1>3. /\ call'[c].at = at /\ call'[c].id = call[c].id
      /\ \A d \in Callers \ {c} : call'[d] = call[d]
  <2>1. call[c].at # "idle"
    BY DEF InvokeAuthorized
  <2>2. at \in InBackend \cup {"show", "failed"}
    BY DEF InBackend
  <2>. QED
    BY <1>2, <2>1, <2>2, Moved
<1>4. CASE at = "failed"
  <2>1. \A d \in Callers : Executing(call'[d]) =>
            Executing(call[d]) /\ call'[d].id = call[d].id
    BY <1>3, <1>4 DEF Executing
  <2>. QED
    BY <1>0, <1>1, <2>1, NoNewEffect
<1>5. CASE at = "execute"
  <2>1. \A d \in Callers \ {c} : Executing(call[d]) => call[d].id # call[c].id
    BY <1>2, <1>5 DEF ActsAreSpent
  <2>2. \A r \in ran : r.id # call[c].id
    BY <1>1, <1>2, <1>5, AssistAssumption DEF ActsAreSpent, Messages
  <2>3. OneEffectEach'
    BY <1>1, <1>3, <2>1, <2>2 DEF OneEffectEach
  <2>4. token'[call[c].id].status = "consumed"
    <3>1. token \in [Messages -> Cyber!Token \cup {Cyber!Unissued}]
      BY DEF IInv, TypeOK, Cyber!TokenTypeOK
    <3>2. token[call[c].id] \in Cyber!Token
      BY <1>1, <1>2, <1>5, <3>1 DEF Cyber!Unissued
    <3>. QED
      BY <1>1, <1>2, <1>5, <3>1, <3>2 DEF Cyber!SetStatus, Cyber!Token
  <2>5. \A d \in Callers : Executing(call[d]) => call[d].id \in Messages
    BY CallHere DEF Executing, Busy
  <2>6. \A r \in ran : r.id # None => r.id \in Messages
    BY DEF IInv, TypeOK
  <2>7. \A i \in Messages : token[i].status = "consumed" => token'[i].status = "consumed"
    BY <1>0, SpentStaysSpent
  <2>8. ActsAreSpent'
    BY <1>1, <1>3, <2>4, <2>5, <2>6, <2>7 DEF ActsAreSpent
  <2>. QED
    BY <2>3, <2>8
<1>. QED
  BY <1>4, <1>5

\* A call that acts is then done with its approval.
LEMMA ActsOnce ==
    ASSUME IInv, OneEffectEach, ActsAreSpent, NEW c \in Callers, Execute(c)
    PROVE  OneEffectEach' /\ ActsAreSpent'
<1>0. Next
  BY DEF Next, Advance
<1>1. call[c] \in Busy /\ call[c].at = "execute" /\ UNCHANGED token
  BY CallHere DEF Execute
<1>2. PICK at \in {"answer", "failed"} : Goto(c, at)
  BY DEF Execute
<1>3. /\ call'[c].at = at
      /\ \A d \in Callers \ {c} : call'[d] = call[d]
  <2>1. call[c].at # "idle"
    BY <1>1
  <2>2. at \in InBackend \cup {"show", "failed"}
    BY DEF InBackend
  <2>. QED
    BY <1>2, <2>1, <2>2, Moved
<1>4. \A d \in Callers : Executing(call'[d]) => d # c /\ Executing(call[d])
  BY <1>3 DEF Executing
<1>5. CASE UNCHANGED ran
  BY <1>0, <1>3, <1>4, <1>5, NoNewEffect
<1>6. CASE ran' = ran \cup {[id |-> call[c].id, plan |-> call[c].plan]}
  <2>1. \A d \in Callers \ {c} : Executing(call[d]) => call[d].id # call[c].id
    BY <1>1 DEF OneEffectEach, Executing
  <2>2. OneEffectEach'
    BY <1>3, <1>4, <1>6, <2>1 DEF OneEffectEach
  <2>3. call[c].id # None => token[call[c].id].status = "consumed"
    BY <1>1 DEF ActsAreSpent, Executing
  <2>4. ActsAreSpent'
    BY <1>1, <1>3, <1>4, <1>6, <2>3 DEF ActsAreSpent
  <2>. QED
    BY <2>2, <2>4
<1>. QED
  BY <1>5, <1>6 DEF Execute

LEMMA OthersDoNotAct ==
    ASSUME IInv, OneEffectEach, ActsAreSpent, [Next]_vars,
           \A c \in Callers : ~InvokeAuthorized(c) /\ ~Execute(c)
    PROVE  OneEffectEach' /\ ActsAreSpent'
<1>1. call \in [Callers -> {Idle} \cup Busy]
  BY DEF IInv, TypeOK, Busy
<1>2. ASSUME NEW c \in Callers,
             \/ PlanAction(c) \/ InvokeFreely(c) \/ AskApproval(c) \/ AnswerAction(c)
             \/ Remember(c) \/ Show(c) \/ Settle(c)
      PROVE  /\ UNCHANGED ran
             /\ \A d \in Callers \ {c} : call'[d] = call[d]
             /\ ~Executing(call'[c])
  <2>1. CASE AnswerAction(c) \/ Remember(c)
    <3>1. PICK at \in {"reply", "failed", "show"} : Goto(c, at)
      BY <2>1 DEF AnswerAction, Remember
    <3>2. call[c].at # "idle" /\ UNCHANGED ran
      BY <2>1 DEF AnswerAction, Remember, backend
    <3>3. at \in InBackend \cup {"show", "failed"}
      BY DEF InBackend
    <3>4. call'[c].at = at /\ \A d \in Callers \ {c} : call'[d] = call[d]
      BY <3>1, <3>2, <3>3, Moved
    <3>. QED
      BY <3>2, <3>4 DEF Executing
  <2>2. CASE PlanAction(c)
    <3>1. PICK at \in {"failed", "answer", "invoke"} :
            Goto(c, at) \/ \E id, plan : Continue(c, at, id, plan)
      BY <2>2 DEF PlanAction
    <3>2. UNCHANGED ran /\ call[c].at = "plan"
      BY <2>2 DEF PlanAction, backend
    <3>3. call'[c].at = at /\ \A d \in Callers \ {c} : call'[d] = call[d]
      <4>1. at \in InBackend \cup {"show", "failed"}
        BY DEF InBackend
      <4>2. CASE Goto(c, at)
        BY <3>2, <4>1, <4>2, Moved
      <4>3. CASE \E id, plan : Continue(c, at, id, plan)
        BY <1>1, <4>3 DEF Continue
      <4>. QED
        BY <3>1, <4>2, <4>3
    <3>. QED
      BY <3>2, <3>3 DEF Executing
  <2>3. CASE InvokeFreely(c)
    <3>1. /\ UNCHANGED ran /\ Goto(c, "execute")
          /\ call[c].at # "idle" /\ call[c].id = None
      BY <2>3 DEF InvokeFreely, backend
    <3>2. "execute" \in InBackend \cup {"show", "failed"}
      BY DEF InBackend
    <3>3. call'[c].id = call[c].id /\ \A d \in Callers \ {c} : call'[d] = call[d]
      BY <3>1, <3>2, Moved
    <3>. QED
      BY <3>1, <3>3 DEF Executing
  <2>4. CASE AskApproval(c)
    <3>1. UNCHANGED ran /\ Continue(c, "ask", c, call[c].plan)
      BY <2>4 DEF AskApproval
    <3>. QED
      BY <1>1, <3>1 DEF Continue, Executing
  <2>5. CASE Show(c) \/ Settle(c)
    <3>1. UNCHANGED ran /\ call' = [call EXCEPT ![c] = Idle]
      BY <2>5 DEF Show, Settle, backend
    <3>. QED
      BY <1>1, <3>1 DEF Executing, Idle
  <2>. QED
    BY <1>2, <2>1, <2>2, <2>3, <2>4, <2>5
<1>3. ASSUME NEW c \in Callers, NEW k, ~Executing(k), call' = [call EXCEPT ![c] = k]
      PROVE  \A d \in Callers : Executing(call'[d]) => Executing(call[d]) /\ call'[d].id = call[d].id
  BY <1>1, <1>3
<1>4. ASSUME NEW content \in Contents, Send(content)
      PROVE  OneEffectEach' /\ ActsAreSpent'
  <2>1. call' = [call EXCEPT ![sends'] = Asked(content)] /\ UNCHANGED ran
    BY <1>4 DEF Send, backend
  <2>2. sends' \in Callers
    BY <1>4 DEF Send, IInv, TypeOK, Callers
  <2>3. ~Executing(Asked(content))
    BY DEF Executing, Asked
  <2>. QED
    BY <1>3, <2>1, <2>2, <2>3, NoNewEffect
<1>5. ASSUME NEW id \in Messages, NEW content \in Contents, Script(id, content)
      PROVE  OneEffectEach' /\ ActsAreSpent'
  <2>1. call' = [call EXCEPT ![ScriptCall] = Resumed(content, id, None)] /\ UNCHANGED ran
    BY <1>5 DEF Script, backend
  <2>2. ScriptCall \in Callers /\ ~Executing(Resumed(content, id, None))
    BY DEF Executing, Resumed, ScriptCall, Callers
  <2>. QED
    BY <1>3, <2>1, <2>2, NoNewEffect
<1>6. CASE HearApproved \/ SettleResume \/ SettleScript
  <2>1. UNCHANGED ran
    BY <1>6 DEF HearApproved, SettleResume, SettleScript, backend
  <2>2. Resume \in Callers /\ ScriptCall \in Callers
    BY DEF Resume, ScriptCall, Callers
  <2>3. \/ UNCHANGED call
        \/ \E c \in Callers : \E k :
             call' = [call EXCEPT ![c] = k] /\ k.at \in {"plan", "idle"}
    <3>1. CASE HearApproved
      <4> DEFINE k == Resumed(deciding.match.content, deciding.id, kept[deciding.id])
      <4>1. UNCHANGED call \/ call' = [call EXCEPT ![Resume] = k]
        BY <3>1 DEF HearApproved
      <4>2. k.at = "plan"
        BY DEF Resumed
      <4> HIDE DEF k
      <4>. QED
        BY <2>2, <4>1, <4>2
    <3>2. CASE SettleResume
      <4>1. call' = [call EXCEPT ![Resume] = Idle] /\ Idle.at = "idle"
        BY <3>2 DEF SettleResume, Idle
      <4>. QED
        BY <2>2, <4>1
    <3>3. CASE SettleScript
      <4>1. call' = [call EXCEPT ![ScriptCall] = Idle] /\ Idle.at = "idle"
        BY <3>3 DEF SettleScript, Idle
      <4>. QED
        BY <2>2, <4>1
    <3>. QED
      BY <1>6, <3>1, <3>2, <3>3
  <2>4. \A d \in Callers : Executing(call'[d]) => Executing(call[d]) /\ call'[d].id = call[d].id
    BY <1>3, <2>3 DEF Executing
  <2>. QED
    BY <2>1, <2>4, NoNewEffect
<1>7. CASE Die
  <2>1. UNCHANGED ran
    BY <1>7 DEF Die, backend
  <2>2. \A d \in Callers : call'[d] = call[d] \/ call'[d] = [call[d] EXCEPT !.at = "failed"]
    BY <1>7 DEF Die
  <2>3. \A d \in Callers : Executing(call'[d]) => call'[d] = call[d]
    BY <1>1, <2>2 DEF Executing, Busy, Idle
  <2>. QED
    BY <2>1, <2>3, NoNewEffect
<1>8. CASE \/ \E id \in Messages, allow \in BOOLEAN : Click(id, allow)
           \/ PanelDecides \/ HearDenied
           \/ \E id \in Messages : Lapse(id)
           \/ UNCHANGED vars
  <2>1. UNCHANGED <<ran, call>>
    BY <1>8 DEF Click, PanelDecides, HearDenied, Lapse, backend, vars
  <2>. QED
    BY <2>1, NoNewEffect
<1>9. ASSUME NEW c \in Callers, Advance(c)
      PROVE  OneEffectEach' /\ ActsAreSpent'
  <2>1. /\ UNCHANGED ran
        /\ \A d \in Callers \ {c} : call'[d] = call[d]
        /\ ~Executing(call'[c])
    BY <1>2, <1>9 DEF Advance
  <2>. QED
    BY <2>1, NoNewEffect
<1>. QED
  BY <1>4, <1>5, <1>6, <1>7, <1>8, <1>9 DEF Next, Decision

\* An approval runs one effect at most: while a call is about to act on one, no
\* other call, of the desktop or the script, is, and none has. What the script
\* and the interface resume at the same time is run once.
THEOREM ApprovalsRunOnce == Spec => []OneEffectEach
<1>1. Init => OneEffectEach /\ ActsAreSpent
  BY DEF Init, OneEffectEach, ActsAreSpent, Executing, Idle
<1>2. IInv /\ OneEffectEach /\ ActsAreSpent /\ [Next]_vars => OneEffectEach' /\ ActsAreSpent'
  BY FirstToAct, ActsOnce, OthersDoNotAct
<1>. QED
  BY <1>1, <1>2, AssistInvariance, PTL DEF Spec

=============================================================================
